--------------------------- MODULE DesktopProofs ---------------------------
(***************************************************************************)
(* Proofs about the main thread of the client: the explorer, from what     *)
(* ExplorerProofs proves of it, and the views.  Each step is a step of the *)
(* explorer or leaves it alone.                                            *)
(***************************************************************************)
EXTENDS Desktop, TLAPS

EP == INSTANCE ExplorerProofs

-----------------------------------------------------------------------------
(* The prover takes the operators of E and EP for different ones.  They    *)
(* are the same.                                                           *)

LEMMA InitSame == E!Init <=> EP!Init
BY DEF E!Init, EP!Init

LEMMA FreeSame == E!Free <=> EP!Free
BY DEF E!Free, EP!Free

LEMMA ListingsSame == E!Listings = EP!Listings
<1>1. E!Entries = EP!Entries
  BY DEF E!Entries, EP!Entries
<1>2. E!SeqOf(E!Entries, MaxEntries) = EP!SeqOf(EP!Entries, MaxEntries)
  BY <1>1 DEF E!SeqOf, EP!SeqOf
<1>3. ASSUME NEW es PROVE E!IsInjective(es) <=> EP!IsInjective(es)
  BY DEF E!IsInjective, EP!IsInjective
<1> QED
  BY <1>2, <1>3 DEF E!Listings, EP!Listings

LEMMA ShowsSame ==
  ASSUME NEW p, NEW es
  PROVE  /\ E!Shows(p, es) <=> EP!Shows(p, es)
         /\ E!CannotRead <=> EP!CannotRead
         /\ E!Remembers(p) <=> EP!Remembers(p)
BY DEF E!Shows, EP!Shows, E!CannotRead, EP!CannotRead, E!Remembers, EP!Remembers

LEMMA VisitsSame ==
  ASSUME NEW path, NEW sel, NEW last
  PROVE  E!Visits(path, sel, last) <=> EP!Visits(path, sel, last)
BY ListingsSame, ShowsSame DEF E!Visits, EP!Visits

LEMMA GoesToSame == ASSUME NEW path PROVE E!GoesTo(path) <=> EP!GoesTo(path)
BY VisitsSame DEF E!GoesTo, EP!GoesTo

LEMMA ShowsAgainSame == ASSUME NEW path PROVE E!ShowsAgain(path) <=> EP!ShowsAgain(path)
BY ListingsSame, ShowsSame DEF E!ShowsAgain, EP!ShowsAgain

LEMMA HistorySame ==
  /\ E!GoBack <=> EP!GoBack
  /\ E!GoForward <=> EP!GoForward
<1>1. ASSUME NEW s PROVE E!Front(s) = EP!Front(s) /\ E!Last(s) = EP!Last(s)
  BY DEF E!Front, EP!Front, E!Last, EP!Last
<1> QED
  BY <1>1, FreeSame, ShowsAgainSame DEF E!GoBack, EP!GoBack, E!GoForward, EP!GoForward,
     E!workspaceVars, EP!workspaceVars, E!dialogVars, EP!dialogVars

LEMMA ClicksSame ==
  ASSUME NEW i, NEW key
  PROVE  /\ E!ClicksEntry(i, key) <=> EP!ClicksEntry(i, key)
         /\ E!OpensDirectory(i, key) <=> EP!OpensDirectory(i, key)
<1>1. E!SelectedBy(key, i) = EP!SelectedBy(key, i)
  BY DEF E!SelectedBy, EP!SelectedBy
<1> QED
  BY <1>1, FreeSame, VisitsSame DEF E!ClicksEntry, EP!ClicksEntry,
     E!OpensDirectory, EP!OpensDirectory, E!historyVars, EP!historyVars,
     E!workspaceVars, EP!workspaceVars, E!dialogVars, EP!dialogVars

LEMMA WorkspacesSame ==
  ASSUME NEW i
  PROVE  /\ E!Starts <=> EP!Starts
         /\ E!FetchesAgain <=> EP!FetchesAgain
         /\ E!ChoosesWorkspace(i) <=> EP!ChoosesWorkspace(i)
         /\ E!GoesToRoot <=> EP!GoesToRoot
         /\ E!EntersPath <=> EP!EntersPath
<1>1. E!FetchAnswered <=> EP!FetchAnswered
  BY DEF E!FetchAnswered, EP!FetchAnswered
<1>2. ASSUME NEW ws PROVE E!StartsIn(E!MountPath(ws)) = EP!StartsIn(EP!MountPath(ws))
  BY DEF E!MountPath, EP!MountPath, E!StartsIn, EP!StartsIn
<1>3. ASSUME NEW ws PROVE E!MountPath(ws) = EP!MountPath(ws)
  BY DEF E!MountPath, EP!MountPath
<1>4. E!StartsIn(E!MountPath(workspaces')) = EP!StartsIn(EP!MountPath(workspaces'))
  BY <1>2
<1> USE DEF E!historyVars, EP!historyVars, E!listingVars, EP!listingVars,
            E!workspaceVars, EP!workspaceVars, E!dialogVars, EP!dialogVars
<1>5. E!Starts <=> EP!Starts
  BY <1>1, <1>4, GoesToSame DEF E!Starts, EP!Starts
<1>6. E!FetchesAgain <=> EP!FetchesAgain
  BY <1>1 DEF E!FetchesAgain, EP!FetchesAgain
<1>7. E!ChoosesWorkspace(i) <=> EP!ChoosesWorkspace(i)
  BY FreeSame, GoesToSame DEF E!ChoosesWorkspace, EP!ChoosesWorkspace
<1>8. E!GoesToRoot <=> EP!GoesToRoot
  BY <1>3, FreeSame, GoesToSame DEF E!GoesToRoot, EP!GoesToRoot
<1>9. E!EntersPath <=> EP!EntersPath
  BY FreeSame, GoesToSame DEF E!EntersPath, EP!EntersPath
<1> QED
  BY <1>5, <1>6, <1>7, <1>8, <1>9

LEMMA DialogsSame ==
  ASSUME NEW creates
  PROVE  /\ E!OpensNew <=> EP!OpensNew
         /\ E!ChoosesKind <=> EP!ChoosesKind
         /\ E!LeavesNew <=> EP!LeavesNew
         /\ E!TypesName <=> EP!TypesName
         /\ E!EndsEntry(creates) <=> EP!EndsEntry(creates)
         /\ E!DismissesError <=> EP!DismissesError
BY FreeSame DEF E!OpensNew, EP!OpensNew, E!ChoosesKind, EP!ChoosesKind, E!LeavesNew, EP!LeavesNew,
   E!TypesName, EP!TypesName, E!EndsEntry, EP!EndsEntry, E!DismissesError, EP!DismissesError,
   E!DialogOnly, EP!DialogOnly, E!historyVars, EP!historyVars, E!listingVars, EP!listingVars,
   E!workspaceVars, EP!workspaceVars, E!dialogVars, EP!dialogVars

LEMMA UserStepSame == E!UserStep <=> EP!UserStep
<1>1. E!Keys = EP!Keys
  BY DEF E!Keys, EP!Keys
<1> QED
  <2>1. /\ E!GoBack <=> EP!GoBack
        /\ E!GoForward <=> EP!GoForward
        /\ E!EntersPath <=> EP!EntersPath
        /\ E!GoesToRoot <=> EP!GoesToRoot
        /\ E!DismissesError <=> EP!DismissesError
        /\ E!OpensNew <=> EP!OpensNew
        /\ E!ChoosesKind <=> EP!ChoosesKind
        /\ E!LeavesNew <=> EP!LeavesNew
        /\ E!TypesName <=> EP!TypesName
    BY HistorySame, WorkspacesSame, DialogsSame
  <2>2. /\ \A i, key : E!ClicksEntry(i, key) \/ E!OpensDirectory(i, key)
                       <=> EP!ClicksEntry(i, key) \/ EP!OpensDirectory(i, key)
        /\ \A i : E!ChoosesWorkspace(i) <=> EP!ChoosesWorkspace(i)
        /\ \A creates : E!EndsEntry(creates) <=> EP!EndsEntry(creates)
    BY ClicksSame, WorkspacesSame, DialogsSame
  <2> QED
    BY <1>1, <2>1, <2>2 DEF E!UserStep, EP!UserStep

LEMMA InvariantsSame ==
  /\ E!TypeOK <=> EP!TypeOK
  /\ E!SelectionIsShown <=> EP!SelectionIsShown
<1>1. E!Entries = EP!Entries
  BY DEF E!Entries, EP!Entries
<1>2. E!Range(files) = EP!Range(files)
  BY DEF E!Range, EP!Range
<1> QED
  BY <1>1, <1>2 DEF E!TypeOK, EP!TypeOK, E!SelectionIsShown, EP!SelectionIsShown

LEMMA TrailSame == E!ImplementsTrail <=> EP!ImplementsTrail
<1>1. E!Visited = EP!Visited /\ E!Visited' = EP!Visited'
  <2>1. ASSUME NEW s PROVE E!Reverse(s) = EP!Reverse(s)
    BY DEF E!Reverse, EP!Reverse
  <2> QED
    BY <2>1 DEF E!Visited, EP!Visited
<1>2. E!Place = EP!Place /\ E!Place' = EP!Place'
  BY DEF E!Place, EP!Place
<1>3. E!History!Init <=> EP!History!Init
  BY <1>1, <1>2 DEF E!History!Init, EP!History!Init
<1>4. E!History!Next <=> EP!History!Next
  BY <1>1, <1>2 DEF E!History!Next, EP!History!Next, E!History!Visit, EP!History!Visit,
     E!History!Step, EP!History!Step
<1>5. UNCHANGED <<E!Visited, E!Place>> <=> UNCHANGED <<EP!Visited, EP!Place>>
  BY <1>1, <1>2
<1> QED
  BY <1>3, <1>4, <1>5, PTL DEF E!ImplementsTrail, EP!ImplementsTrail,
     E!History!Spec, EP!History!Spec

-----------------------------------------------------------------------------
(* The explorer, in the main loop.                                         *)

LEMMA ExplorerStep == ASSUME [Next]_vars PROVE [EP!Next]_EP!vars
<1> USE DEF explorerVars
<1>1. UNCHANGED explorerVars => UNCHANGED EP!vars
  BY DEF EP!vars, EP!historyVars, EP!listingVars, EP!workspaceVars, EP!dialogVars
<1>2. CASE InitViews \/ Fetches \/ Explores
  BY <1>2, WorkspacesSame, UserStepSame DEF InitViews, Fetches, Explores, EP!Next
<1>3. CASE UNCHANGED explorerVars
  BY <1>1, <1>3
<1> QED
  BY <1>2, <1>3 DEF Next, vars, InitPlatform, InitClient, InitFileSync, PlatformThrows, SetupThrows,
     LoopAfterCleanUp, BeginFrame, RendersView, CleanUp, Navigates, SignsIn, GoesOnTo

(* Whatever the main loop does with the views, the explorer in it behaves  *)
(* as Explorer says; so what ExplorerProofs proves is so.                  *)
THEOREM ExplorerRuns == Spec => EP!Spec
<1>1. Init => EP!Init
  BY InitSame DEF Init
<1>2. [Next]_vars => [EP!Next]_EP!vars
  BY ExplorerStep
<1> QED
  BY <1>1, <1>2, PTL DEF Spec, EP!Spec

(* However frames, views and requests come between its steps, what is      *)
(* selected and the index a shift-click counts from are within what the    *)
(* explorer shows.                                                         *)
THEOREM SelectionStaysShown == Spec => []SelectionIsShown
<1>1. EP!Spec => []EP!SelectionIsShown
  BY EP!SelectionShown, ExplorerAssumption
<1>2. EP!SelectionIsShown => SelectionIsShown
  BY InvariantsSame DEF SelectionIsShown
<1> QED
  BY <1>1, <1>2, ExplorerRuns, PTL

(* So is the history a trail, which the buttons go along.                  *)
THEOREM HistoryStaysATrail == Spec => ImplementsTrail
<1>1. EP!Spec => EP!ImplementsTrail
  BY EP!HistoryImplementsTrail, ExplorerAssumption
<1> QED
  BY <1>1, ExplorerRuns, TrailSame, PTL DEF ImplementsTrail

-----------------------------------------------------------------------------
(* The views.                                                              *)

Stages == {"platform", "client", "sync", "views", "loop", "cleaned", "ended", "crashed"}

(* There are frames only in the main loop, and the registry shows a view   *)
(* of its own there.                                                       *)
LoopShowsViews ==
  /\ frame # "none" => stage = "loop"
  /\ stage = "loop" => views = Registered /\ view \in Registered

(* What is rendered is a view, until the frame ends.                       *)
FrameShowsAView == frame \in {"rendering", "switching", "done"} => rendered # NoView

(* The mutex of the registry is held to take the view, and at no time when *)
(* a panel may call switch_view.                                           *)
LockedToTakeView == locked <=> frame = "begun"

ViewsInv ==
  V!TypeOK /\ stage \in Stages /\ LoopShowsViews /\ FrameShowsAView /\ LockedToTakeView

LEMMA ViewsInit == Init => ViewsInv
BY DEF Init, V!Init, ViewsInv, V!TypeOK, Stages, LoopShowsViews, FrameShowsAView,
       LockedToTakeView, V!NavigationItems, V!SignIn

LEMMA ViewsAreIDs ==
  V!SignIn \subseteq ViewIDs /\ V!NavigationItems \subseteq ViewIDs /\ NoView \notin Registered
BY ViewsAssumption DEF V!SignIn, V!NavigationItems

(* A panel that calls switch_view, or does not, while a view is rendered.  *)
LEMMA PanelHolds ==
  ASSUME ViewsInv, frame = "rendering", stage' = stage,
         V!Handled \/ \E v \in ViewIDs : V!Calls(v),
         navigation' \in V!NavigationItems, form' \in [V!SignIn -> BOOLEAN],
         refused' \subseteq V!SignIn
  PROVE  ViewsInv'
<1>1. /\ views' = views /\ view' = view /\ locked' = locked /\ rendered' = rendered
      /\ frame' \in {"switching", "done"} /\ target' \in ViewIDs \cup {NoView}
  BY DEF V!Handled, V!Calls, V!registryVars, ViewsInv, V!TypeOK
<1> QED
  BY <1>1 DEF ViewsInv, V!TypeOK, LoopShowsViews, FrameShowsAView, LockedToTakeView

LEMMA NavigatesHolds == ASSUME ViewsInv, Navigates PROVE ViewsInv'
<1>1. frame = "rendering" /\ stage' = stage
  BY DEF Navigates, V!Navigates, V!Takes
<1>2. form \in [V!SignIn -> BOOLEAN] /\ refused \subseteq V!SignIn /\ navigation \in V!NavigationItems
  BY DEF ViewsInv, V!TypeOK
<1>3. CASE V!ClicksLogo
  BY <1>1, <1>2, <1>3, PanelHolds, ViewsAreIDs DEF V!ClicksLogo, V!panelVars, V!SignIn
<1>4. ASSUME NEW v \in V!NavigationItems, V!ClicksItem(v) PROVE ViewsInv'
  BY <1>1, <1>2, <1>4, PanelHolds, ViewsAreIDs DEF V!ClicksItem
<1> QED
  BY <1>3, <1>4 DEF Navigates, V!Navigates

LEMMA SignsInHolds == ASSUME ViewsInv, SignsIn PROVE ViewsInv'
<1>1. PICK v \in V!SignIn :
        V!FillsIn(v) \/ V!FollowsLink(v) \/ V!SignsIn(v) \/ V!IsRefused(v) \/ V!DismissesRefusal(v)
  BY DEF SignsIn, V!UserStep
<1>2. frame = "rendering" /\ stage' = stage
  BY <1>1 DEF SignsIn, V!FillsIn, V!FollowsLink, V!SignsIn, V!IsRefused, V!DismissesRefusal, V!Takes
<1>3. form \in [V!SignIn -> BOOLEAN] /\ refused \subseteq V!SignIn /\ navigation \in V!NavigationItems
  BY DEF ViewsInv, V!TypeOK
<1>4. /\ navigation' = navigation /\ form' \in [V!SignIn -> BOOLEAN]
      /\ refused' \subseteq V!SignIn
  BY <1>1, <1>3 DEF V!FillsIn, V!FollowsLink, V!SignsIn, V!IsRefused, V!DismissesRefusal, V!panelVars
<1>5. (CHOOSE other \in V!SignIn : other # v) \in V!SignIn
  BY DEF V!SignIn
<1>6. V!NextView(v) \in ViewIDs
  BY ViewsAssumption DEF V!NextView
<1>7. V!Handled \/ \E w \in ViewIDs : V!Calls(w)
  BY <1>1, <1>5, <1>6, ViewsAreIDs
     DEF V!FillsIn, V!FollowsLink, V!SignsIn, V!IsRefused, V!DismissesRefusal
<1> QED
  BY <1>2, <1>3, <1>4, <1>7, PanelHolds

LEMMA ViewsStep == ViewsInv /\ [Next]_vars => ViewsInv'
<1> SUFFICES ASSUME ViewsInv, [Next]_vars PROVE ViewsInv'
  OBVIOUS
<1> USE DEF V!registryVars, V!frameVars, V!panelVars
<1>1. CASE UNCHANGED viewVars /\ UNCHANGED stage
  BY <1>1 DEF viewVars, ViewsInv, V!TypeOK, LoopShowsViews, FrameShowsAView, LockedToTakeView
<1>2. CASE InitPlatform \/ InitClient \/ InitFileSync \/ PlatformThrows \/ SetupThrows
             \/ LoopAfterCleanUp \/ CleanUp
  <2>1. UNCHANGED viewVars /\ stage' \in Stages \ {"loop"} /\ frame = "none"
    BY <1>2 DEF InitPlatform, InitClient, InitFileSync, PlatformThrows, SetupThrows,
       LoopAfterCleanUp, CleanUp, GoesOnTo, Stages, ViewsInv, LoopShowsViews
  <2> QED
    BY <2>1 DEF viewVars, ViewsInv, V!TypeOK, LoopShowsViews, FrameShowsAView, LockedToTakeView
<1>3. CASE InitViews
  <2>1. /\ views' = Registered /\ view' = "FileExplorer" /\ view' \in Registered
        /\ frame' = "none" /\ frame = "none" /\ rendered' = rendered /\ stage' = "loop"
    BY <1>3, ViewsAssumption
       DEF InitViews, V!InitViews, V!Switched, ViewsInv, LoopShowsViews
  <2> QED
    BY <1>3, <2>1 DEF InitViews, V!InitViews, ViewsInv, V!TypeOK, Stages, LoopShowsViews,
       FrameShowsAView, LockedToTakeView
<1>4. CASE BeginFrame
  BY <1>4 DEF BeginFrame, V!BeginFrame, ViewsInv, V!TypeOK, LoopShowsViews, FrameShowsAView,
     LockedToTakeView
<1>5. CASE RendersView
  <2>1. CASE V!TakesView
    BY <1>5, <2>1, ViewsAreIDs DEF RendersView, V!TakesView, ViewsInv, V!TypeOK, LoopShowsViews,
       FrameShowsAView, LockedToTakeView
  <2>2. CASE V!SwitchView
    BY <1>5, <2>2 DEF RendersView, V!SwitchView, V!Switched, ViewsInv, V!TypeOK, LoopShowsViews,
       FrameShowsAView, LockedToTakeView
  <2>3. CASE V!EndFrame
    BY <1>5, <2>3 DEF RendersView, V!EndFrame, ViewsInv, V!TypeOK, LoopShowsViews,
       FrameShowsAView, LockedToTakeView
  <2> QED
    BY <1>5, <2>1, <2>2, <2>3 DEF RendersView, V!Continues
<1>6. CASE Fetches
  BY <1>1, <1>6 DEF Fetches
<1>7. CASE Explores
  <2>1. form \in [V!SignIn -> BOOLEAN] /\ refused \subseteq V!SignIn /\ navigation \in V!NavigationItems
    BY DEF ViewsInv, V!TypeOK
  <2> QED
    BY <1>7, <2>1, PanelHolds DEF Explores, InMainView
<1> QED
  BY <1>1, <1>2, <1>3, <1>4, <1>5, <1>6, <1>7, NavigatesHolds, SignsInHolds DEF Next, vars

LEMMA ViewsHold == Spec => []ViewsInv
BY ViewsInit, ViewsStep, PTL DEF Spec

(* Every variable of the main thread keeps its type; a current view is one *)
(* that is registered.                                                     *)
THEOREM TypeCorrectness == Spec => []TypeOK
<1>1. EP!Spec => []EP!TypeOK
  BY EP!TypeCorrectness, ExplorerAssumption
<1>2. EP!TypeOK /\ ViewsInv => TypeOK
  BY InvariantsSame DEF TypeOK, ViewsInv, Stages
<1> QED
  BY <1>1, <1>2, ExplorerRuns, ViewsHold, PTL

(* Every frame renders a view, though views are switched in the middle of  *)
(* rendering, and no panel that switches them finds the mutex held: the    *)
(* part of FramesShowAViewAndEnd that is not about its end.                *)
THEOREM FramesShowAView == Spec => [](FrameShowsAView /\ (frame = "switching" => ~locked))
<1>1. ViewsInv => FrameShowsAView /\ (frame = "switching" => ~locked)
  BY DEF ViewsInv, LockedToTakeView
<1> QED
  BY <1>1, ViewsHold, PTL
=============================================================================
