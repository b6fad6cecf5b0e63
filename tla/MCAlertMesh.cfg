\* The ring. The line has one text, and longer memories (in the module).
CONSTANTS
  a = a
  b = b
  c = c
  fire = fire
  flood = flood
  Node <- Nodes
  Body <- Texts
  Links <- Ring
  Trusts <- TrustPart
  Publishers <- AandC
  Strays <- StrayFrames
  Foreign = Foreign
  NoSig = NoSig
  MaxHop = 1
  RadioQueue = 1
  PublishInterval = 2
  RestartSec = 2
  MaxTime = 2
  Unsteady <- None
  MaxSkew = 2
  MaxAge = 1
  InboxMax = 2
  DedupSize = 3
SPECIFICATION MCSpec
INVARIANTS
  Authentic
  OnlyPublishedOnAir
  OneTransmissionPerLife
  OneTextPerIdentifier
PROPERTIES
  ImplementsBroadcast
  LineCovered
CHECK_DEADLOCK FALSE
