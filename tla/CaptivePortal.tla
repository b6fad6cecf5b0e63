----------------------------- MODULE CaptivePortal -----------------------------
(***************************************************************************)
(* Where the portal sends a visitor (router, install_page, admin_page of   *)
(* crates/portal/src/lib.rs): a device that probes for a captive network,  *)
(* a browser that asks for a page of the node or for one of the sites all  *)
(* names of which lead here. The visitor follows each redirection, while   *)
(* the node may be installed or reset under it. The endpoints of /api and  *)
(* /data answer at once and are left out.                                  *)
(***************************************************************************)
EXTENDS Integers

CONSTANTS
  Probe,      \* CAPTIVE_PROBES
  Elsewhere,  \* other paths, of which the webroot may have a file
  MaxFlips    \* bound: times the node is installed or reset

Path == Probe \cup Elsewhere \cup {"/", "/install", "/admin", "/tiles", "captive api"}
Page == {"index.html", "install.html", "admin.html"} \cup Elsewhere

VARIABLES
  webroot,    \* the files it has
  tiled,      \* the tile asked for is in the cache
  installed,  \* is_installed: FALSE as well when the store cannot be read
  visit,      \* what the visitor asked for at first, asks for, and was shown
  flips

vars == <<webroot, tiled, installed, visit, flips>>

Asking(from, path) == [from |-> from, path |-> path, shown |-> "nothing"]

TypeOK ==
  /\ webroot \subseteq Page /\ {tiled, installed} \subseteq BOOLEAN
  /\ visit.from \in Path /\ visit.path \in Path
  /\ visit.shown \in Page \cup {"nothing", "tile", "not found"}
  /\ flips \in 0..MaxFlips

Init ==
  /\ webroot \in SUBSET Page /\ tiled \in BOOLEAN /\ installed \in BOOLEAN
  /\ \E p \in Path : visit = Asking(p, p)
  /\ flips = 0

-------------------------------------------------------------------------------
Show(what) == visit' = [visit EXCEPT !.shown = what]
Redirect(to) == visit' = [visit EXCEPT !.path = to]
At(paths) == visit.shown = "nothing" /\ visit.path \in paths

(* A probe is answered by a redirection to portal_url, whatever it expects. *)
ProbePath == At(Probe) /\ Redirect("/")

(* The address of the portal, which the device then opens.                 *)
CaptivePortalApi == At({"captive api"}) /\ Redirect("/")

(* A page of the product, 404 if the webroot has none.                     *)
ServeWebrootHtml(name) == Show(IF name \in webroot THEN name ELSE "not found")

InstallPageSwapped ==
  /\ At({"/install"})
  /\ IF installed THEN ServeWebrootHtml("install.html") ELSE Redirect("/admin")

InstallPage ==
  /\ At({"/install"})
  /\ IF installed THEN Redirect("/admin") ELSE ServeWebrootHtml("install.html")

AdminPage ==
  /\ At({"/admin"})
  /\ IF installed THEN ServeWebrootHtml("admin.html") ELSE Redirect("/install")

Tile == At({"/tiles"}) /\ Show(IF tiled THEN "tile" ELSE "not found")

(* Every other path: the file, index.html for a directory, or the home     *)
(* page ("tout chemin inconnu est redirige vers le portail").              *)
Static ==
  /\ At(Elsewhere \cup {"/"})
  /\ LET file == IF visit.path = "/" THEN "index.html" ELSE visit.path
     IN  IF file \in webroot THEN Show(file) ELSE Redirect("/")

Answer ==
  /\ ProbePath \/ CaptivePortalApi \/ InstallPage \/ AdminPage \/ Tile \/ Static
  /\ UNCHANGED <<webroot, tiled, installed, flips>>

(* Someone installs the node, or resets it.                                *)
Flip ==
  /\ flips < MaxFlips /\ flips' = flips + 1
  /\ installed' = ~installed
  /\ UNCHANGED <<webroot, tiled, visit>>

Next == Answer \/ Flip

(* The visitor follows what it is sent.                                    *)
Spec == Init /\ [][Next]_vars /\ WF_vars(Answer)

-------------------------------------------------------------------------------
(* With a home page in the webroot no visitor is redirected for ever,      *)
(* between two pages or to one that is not there, even if the node is      *)
(* installed or reset meanwhile; and a probe of any system, or a path that *)
(* the portal does not have, ends on the home page ("tout chemin inconnu   *)
(* ... est redirige vers le portail", router).                             *)
VisitsEnd ==
  "index.html" \in webroot =>
    /\ <>(visit.shown # "nothing")
    /\ visit.path \in Probe \cup (Elsewhere \ webroot) => <>(visit.shown = "index.html")

===============================================================================
