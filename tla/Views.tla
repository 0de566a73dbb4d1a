-------------------------------- MODULE Views --------------------------------
(***************************************************************************)
(* The views of the client (minidfs/src/application/views), the navigation *)
(* bar and the panels to register and to log in.  The registry of views    *)
(* has a mutex that is not recursive: render_current_view lets it go       *)
(* before it renders, as the panels call switch_view while they are        *)
(* rendered.                                                               *)
(*                                                                         *)
(* One thread renders.  "frame" is where it is in a frame; what the user   *)
(* does in a frame is at most one click or key.                            *)
(***************************************************************************)

CONSTANTS ViewIDs, Registered, NoView   \* see Desktop

VARIABLES
  views,      \* views_: the views that are registered
  view,       \* current_view_
  locked,     \* mutex_ of the registry
  frame,      \* "none", "begun", "rendering", "switching" or "done"
  rendered,   \* view_to_render
  target,     \* the argument of the switch_view that is called
  navigation, \* the navigation bar's selected_item
  form,       \* form[v]: the inputs of a sign-in panel pass validate_inputs
  refused     \* the sign-in panels with an error_msg, whose modal covers everything

registryVars == <<views, view, locked>>
frameVars == <<frame, rendered, target>>
panelVars == <<navigation, form, refused>>
vars == <<registryVars, frameVars, panelVars>>

SignIn == {"Auth", "Login"}
WithNavigation == {"FileExplorer", "Services"}
NavigationItems == {"FileExplorer", "Services", "Activity", "Settings", "Default"}

Init ==
  /\ views = {} /\ view = NoView /\ locked = FALSE
  /\ frame = "none" /\ rendered = NoView /\ target = NoView
  /\ navigation = "FileExplorer"
  /\ form = [v \in SignIn |-> FALSE]
  /\ refused = {}

-----------------------------------------------------------------------------
(* The registry.                                                           *)

(* With a fault: what is switched to need not be registered.               *)
SwitchedToAny(v, among) == v

(* A view that is not registered leaves the current one.                   *)
Switched(v, among) == IF v \in among THEN v ELSE view

InitViews ==
  /\ ~locked
  /\ views' = Registered
  /\ view' = Switched("FileExplorer", Registered)
  /\ UNCHANGED <<locked, frameVars, panelVars>>

BeginFrame ==
  /\ frame = "none" /\ ~locked
  /\ locked' = TRUE
  /\ frame' = "begun"
  /\ UNCHANGED <<views, view, rendered, target, panelVars>>

(* With a fault: the mutex is held while the view is rendered.             *)
TakesViewAndRenders ==
  /\ frame = "begun"
  /\ rendered' = view
  /\ frame' = "rendering"
  /\ UNCHANGED <<registryVars, target, panelVars>>

TakesView ==
  /\ frame = "begun"
  /\ rendered' = view
  /\ locked' = FALSE
  /\ frame' = "rendering"
  /\ UNCHANGED <<views, view, target, panelVars>>

(* switch_view, called by a panel of the view that is rendered.            *)
Calls(v) ==
  /\ frame' = "switching"
  /\ target' = v
  /\ UNCHANGED <<registryVars, rendered>>

SwitchView ==
  /\ frame = "switching" /\ ~locked
  /\ view' = Switched(target, views)
  /\ target' = NoView
  /\ frame' = "done"
  /\ UNCHANGED <<views, locked, rendered, panelVars>>

EndFrame ==
  /\ frame \in {"rendering", "done"}
  /\ frame' = "none" /\ rendered' = NoView
  /\ UNCHANGED <<registryVars, target, panelVars>>

-----------------------------------------------------------------------------
(* The panels.                                                             *)

Takes(v) == frame = "rendering" /\ rendered = v /\ v \notin refused

Handled == frame' = "done" /\ UNCHANGED <<registryVars, rendered, target>>

(* The navigation bar: the item is highlighted, whether there is a view    *)
(* for it or not; the logo leads to the registration and highlights none.  *)
ClicksItem(v) ==
  /\ navigation' = v
  /\ Calls(v)
  /\ UNCHANGED <<form, refused>>

ClicksLogo == Calls("Auth") /\ UNCHANGED panelVars

FillsIn(v) ==
  /\ Takes(v)
  /\ \E valid \in BOOLEAN : form' = [form EXCEPT ![v] = valid]
  /\ UNCHANGED <<navigation, refused>>
  /\ Handled

(* The panels link to each other.                                          *)
FollowsLink(v) ==
  /\ Takes(v)
  /\ Calls(CHOOSE other \in SignIn : other # v)
  /\ UNCHANGED panelVars

NextView(v) == IF v = "Auth" THEN "Services" ELSE "FileExplorer"

(* validate_inputs, the request to the proxy, and its answer.              *)
SignsIn(v) ==
  /\ Takes(v) /\ form[v]
  /\ form' = [form EXCEPT ![v] = FALSE]
  /\ Calls(NextView(v))
  /\ UNCHANGED <<navigation, refused>>

IsRefused(v) ==
  /\ Takes(v)
  /\ refused' = refused \cup {v}
  /\ UNCHANGED <<navigation, form>>
  /\ Handled

DismissesRefusal(v) ==
  /\ frame = "rendering" /\ rendered = v /\ v \in refused
  /\ refused' = refused \ {v}
  /\ UNCHANGED <<navigation, form>>
  /\ Handled

UserStep ==
  \E v \in SignIn :
    FillsIn(v) \/ FollowsLink(v) \/ SignsIn(v) \/ IsRefused(v) \/ DismissesRefusal(v)

Navigates ==
  /\ \E v \in WithNavigation : Takes(v)
  /\ ClicksLogo \/ \E v \in NavigationItems : ClicksItem(v)

Continues == TakesView \/ SwitchView \/ EndFrame

Next == InitViews \/ BeginFrame \/ Continues \/ UserStep \/ Navigates

Spec == Init /\ [][Next]_vars /\ WF_vars(Continues)

-----------------------------------------------------------------------------
(* Properties.                                                             *)

(* Type invariant.  A current view is a registered one.                    *)
TypeOK ==
  /\ views \subseteq Registered /\ view \in views \cup {NoView}
  /\ locked \in BOOLEAN
  /\ frame \in {"none", "begun", "rendering", "switching", "done"}
  /\ rendered \in views \cup {NoView} /\ target \in ViewIDs \cup {NoView}
  /\ navigation \in NavigationItems
  /\ form \in [SignIn -> BOOLEAN]
  /\ refused \subseteq SignIn

(* Every frame renders a view, though views are switched in the middle of  *)
(* rendering, and comes to its end: no panel waits for the mutex of the    *)
(* frame that renders it.                                                  *)
FramesShowAViewAndEnd ==
  /\ [](frame \in {"rendering", "switching", "done"} => rendered # NoView)
  /\ (frame # "none") ~> (frame = "none")
=============================================================================
