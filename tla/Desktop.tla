------------------------------- MODULE Desktop -------------------------------
(***************************************************************************)
(* The main thread of the client: Application::run                         *)
(* (minidfs/src/application/application.cpp) on one of the platforms, with *)
(* the views and the panels of the main view.  It sets up the window, the  *)
(* connection, the watcher and the views, and then goes round the main     *)
(* loop, in which the panels handle what the user does.                    *)
(*                                                                         *)
(* A setup that throws is caught, but run goes on as if it had not been:   *)
(* it enters the main loop after cleanup(), where the next frame finds no  *)
(* ImGui context.  cleanup() itself fails when the window was never made.  *)
(***************************************************************************)
EXTENDS ExplorerConstants

CONSTANTS
  ViewIDs,      \* enum class ViewID
  Registered,   \* the views init_views registers
  NoView        \* no view: nullptr

ASSUME ViewsAssumption ==
  /\ Registered \subseteq ViewIDs /\ NoView \notin ViewIDs
  /\ {"FileExplorer", "Auth", "Login", "Services"} \subseteq Registered
  /\ {"Activity", "Settings", "Default"} \subseteq ViewIDs

VARIABLES
  current, files, selected, lastSelected, back, forward, error,
  workspaces, chosen, fetched, dialog, named,
  views, view, locked, frame, rendered, target, navigation, form, refused,
  stage   \* of run: "platform", "client", "sync", "views", "loop", "cleaned", "ended", "crashed"

E == INSTANCE Explorer
V == INSTANCE Views

explorerVars == <<current, files, selected, lastSelected, back, forward, error,
                  workspaces, chosen, fetched, dialog, named>>
viewVars == <<views, view, locked, frame, rendered, target, navigation, form, refused>>
vars == <<explorerVars, viewVars, stage>>

Init == E!Init /\ V!Init /\ stage = "platform"

-----------------------------------------------------------------------------
(* Setting up.                                                             *)

GoesOnTo(here, next) ==
  /\ stage = here /\ stage' = next
  /\ UNCHANGED <<explorerVars, viewVars>>

InitPlatform == GoesOnTo("platform", "client")
InitClient == GoesOnTo("client", "sync")
InitFileSync == GoesOnTo("sync", "views")

(* The panels are made, then the views that own them are registered.       *)
InitViews ==
  /\ stage = "views" /\ stage' = "loop"
  /\ E!Starts
  /\ V!InitViews

(* ImGui's backends assert that there is something to shut down.           *)
PlatformThrows == GoesOnTo("platform", "crashed")

(* No home directory, no configuration, no watched directory, a view that  *)
(* cannot be made: in each case cleanup() is done a first time.  Views     *)
(* that were registered before one that fails are never looked at.         *)
SetupThrows == \E here \in {"client", "sync", "views"} : GoesOnTo(here, "cleaned")

-----------------------------------------------------------------------------
(* The main loop.                                                          *)

(* GLFW is gone and says of no window that it should close; the frame that *)
(* is prepared for it has no backend.                                      *)
LoopAfterCleanUp == GoesOnTo("cleaned", "crashed")

(* is_running says no: the window was closed.                              *)
CleanUp == frame = "none" /\ GoesOnTo("loop", "ended")

BeginFrame ==
  /\ stage = "loop"
  /\ V!BeginFrame
  /\ UNCHANGED <<explorerVars, stage>>

RendersView == V!Continues /\ UNCHANGED <<explorerVars, stage>>

InMainView == frame = "rendering" /\ rendered = "FileExplorer"

(* The sidebar, before it takes any input.                                 *)
Fetches ==
  /\ InMainView
  /\ E!FetchesAgain
  /\ UNCHANGED <<viewVars, stage>>

(* Bound: the user leaves the main view only before he goes anywhere in it,*)
(* and goes somewhere only when the other views hold nothing of his.       *)
Unmoved == E!Free /\ back = <<>> /\ forward = <<>> /\ lastSelected = 0
Unvisited == navigation = "FileExplorer" /\ refused = {} /\ \A v \in V!SignIn : ~form[v]

Explores ==
  /\ InMainView /\ Unvisited
  /\ E!UserStep
  /\ V!Handled
  /\ UNCHANGED <<navigation, form, refused, stage>>

Navigates ==
  /\ rendered = "FileExplorer" => Unmoved
  /\ V!Navigates
  /\ UNCHANGED <<explorerVars, stage>>

SignsIn == V!UserStep /\ UNCHANGED <<explorerVars, stage>>

Next ==
  \/ InitPlatform \/ InitClient \/ InitFileSync \/ InitViews
  \/ PlatformThrows \/ SetupThrows \/ LoopAfterCleanUp
  \/ BeginFrame \/ RendersView \/ CleanUp
  \/ Fetches \/ Explores \/ Navigates \/ SignsIn

(* A frame goes on: the requests made in it are answered or given up.      *)
Spec == Init /\ [][Next]_vars /\ WF_vars(RendersView)

-----------------------------------------------------------------------------
(* Properties.                                                             *)

TypeOK ==
  /\ E!TypeOK /\ V!TypeOK
  /\ stage \in {"platform", "client", "sync", "views", "loop", "cleaned", "ended", "crashed"}

(* See Explorer: the index a shift-click uses is within the listing.       *)
SelectionIsShown == E!SelectionIsShown

(* See Explorer: the history is a trail.                                   *)
ImplementsTrail == E!ImplementsTrail

(* See Views: frames show a view and end.                                  *)
FramesShowAViewAndEnd == V!FramesShowAViewAndEnd
=============================================================================
