--------------------------- MODULE ExplorerProofs ---------------------------
(***************************************************************************)
(* The explorer, for any directories, listings and histories: what is      *)
(* selected is shown, and the history implements the trail.                *)
(***************************************************************************)
EXTENDS Explorer, SequenceTheorems, TLAPS

Places == Dirs \cup {NoPath}
HistoryOK ==
  /\ current \in Places /\ back \in Seq(Dirs) /\ forward \in Seq(Dirs)
  /\ current = NoPath => back = <<>> /\ forward = <<>>
ListingOK ==
  /\ files \in Seq(Entries) /\ selected \subseteq Entries /\ lastSelected \in Nat
  /\ error \in BOOLEAN
  /\ SelectionIsShown
SidebarOK ==
  /\ workspaces \in Seq(Paths \cup {NoPath}) /\ chosen \in Nat \ {0} /\ fetched \in BOOLEAN
  /\ dialog \in {"none", "new", "file", "folder"} /\ named \in BOOLEAN

(* Nothing is remembered before the first directory is shown.              *)
IInv == HistoryOK /\ ListingOK /\ SidebarOK

-----------------------------------------------------------------------------
(* Listings and selections.                                                *)

LEMMA ListingType == ASSUME NEW es \in Listings PROVE es \in Seq(Entries)
<1>1. es \in SeqOf(Entries, MaxEntries)
  BY DEF Listings
<1>2. PICK n \in 0..MaxEntries : es \in [1..n -> Entries]
  BY <1>1 DEF SeqOf
<1> QED
  BY <1>2, ExplorerAssumption

LEMMA ShowsHolds ==
  ASSUME NEW p \in Dirs, NEW es \in Listings, Shows(p, es)
  PROVE  ListingOK' /\ current' = p
<1>1. es \in Seq(Entries)
  BY ListingType
<1>2. Len(es) \in Nat
  BY <1>1
<1>3. /\ files' = es /\ selected' = {} /\ lastSelected' = 0 /\ error' = FALSE
      /\ current' = p
  BY DEF Shows
<1>4. files' \in Seq(Entries) /\ selected' \subseteq Entries /\ selected' \subseteq Range(files')
  BY <1>1, <1>3
<1>5. lastSelected' \in Nat /\ lastSelected' \in 0..Len(files')
  BY <1>2, <1>3
<1>6. error' \in BOOLEAN
  BY <1>3
<1> QED
  BY <1>3, <1>4, <1>5, <1>6 DEF ListingOK, SelectionIsShown

LEMMA CannotReadHolds ==
  ASSUME ListingOK, CannotRead, selected' \subseteq Range(files), lastSelected' \in 0..Len(files)
  PROVE  ListingOK' /\ current' = current
<1>1. Range(files) \subseteq Entries /\ Len(files) \in Nat
  BY DEF ListingOK, Range
<1> QED
  BY <1>1 DEF CannotRead, ListingOK, SelectionIsShown

(* A selection is made of what is shown, from the index of the last click. *)
LEMMA SelectedByHolds ==
  ASSUME ListingOK, NEW i \in DOMAIN files, NEW key \in Keys
  PROVE  SelectedBy(key, i) \subseteq Range(files) /\ i \in 0..Len(files)
<1>1. /\ DOMAIN files = 1..Len(files) /\ Len(files) \in Nat
      /\ selected \subseteq Range(files) /\ lastSelected \in 0..Len(files)
  BY DEF ListingOK, SelectionIsShown
<1>2. files[i] \in Range(files)
  BY DEF Range
<1>3. CASE key = "ctrl"
  BY <1>1, <1>2, <1>3 DEF SelectedBy
<1>4. CASE key = "shift" /\ lastSelected # 0
  <2>1. \A j \in (i..lastSelected) \cup (lastSelected..i) : j \in DOMAIN files
    BY <1>1, <1>4
  <2> QED
    BY <1>1, <1>4, <2>1 DEF SelectedBy, Range
<1>5. CASE key # "ctrl" /\ ~(key = "shift" /\ lastSelected # 0)
  BY <1>1, <1>2, <1>5 DEF SelectedBy
<1> QED
  BY <1>1, <1>3, <1>4, <1>5

-----------------------------------------------------------------------------
(* Visits, and steps along the history.                                    *)

LEMMA RemembersHolds ==
  ASSUME HistoryOK, NEW p \in Dirs, Remembers(p), current' = p
  PROVE  HistoryOK'
<1>1. CASE p = current
  BY <1>1 DEF HistoryOK, Remembers, Places
<1>2. CASE p # current
  <2>1. current # NoPath => Append(back, current) \in Seq(Dirs)
    BY DEF HistoryOK, Places
  <2>2. back' = (IF current = NoPath THEN back ELSE Append(back, current)) /\ forward' = <<>>
    BY <1>2 DEF Remembers
  <2>3. back' \in Seq(Dirs) /\ forward' \in Seq(Dirs)
    BY <2>1, <2>2, EmptySeq DEF HistoryOK
  <2>4. current' \in Places /\ current' # NoPath
    BY ExplorerAssumption DEF Places
  <2> QED
    BY <2>3, <2>4 DEF HistoryOK
<1> QED
  BY <1>1, <1>2

LEMMA VisitsHolds ==
  ASSUME HistoryOK, ListingOK, NEW path \in Paths \cup {NoPath}, NEW sel, NEW last,
         sel \subseteq Range(files), last \in 0..Len(files), Visits(path, sel, last)
  PROVE  HistoryOK' /\ ListingOK'
<1>1. CASE /\ path # NoPath
           /\ \E es \in Listings : Shows(Canonical[path], es)
           /\ Remembers(Canonical[path])
  <2>1. Canonical[path] \in Dirs
    BY <1>1, ExplorerAssumption
  <2> QED
    BY <1>1, <2>1, ShowsHolds, RemembersHolds
<1>2. CASE /\ CannotRead /\ selected' = sel /\ lastSelected' = last
           /\ UNCHANGED <<back, forward>>
  BY <1>2, CannotReadHolds DEF HistoryOK
<1> QED
  BY <1>1, <1>2 DEF Visits

LEMMA GoesToHolds ==
  ASSUME HistoryOK, ListingOK, NEW path \in Paths \cup {NoPath}, GoesTo(path)
  PROVE  HistoryOK' /\ ListingOK'
BY VisitsHolds DEF GoesTo, ListingOK, SelectionIsShown

LEMMA ShowsAgainHolds ==
  ASSUME HistoryOK, ListingOK, NEW p \in Dirs, ShowsAgain(p)
  PROVE  ListingOK' /\ current' \in {p, current}
BY ShowsHolds, CannotReadHolds DEF ShowsAgain, ListingOK, SelectionIsShown

(* The stacks: what is taken off one goes onto the other.                  *)
LEMMA StackTop ==
  ASSUME NEW S, NEW s \in Seq(S), s # <<>>
  PROVE  /\ Last(s) \in S /\ Front(s) \in Seq(S)
         /\ Last(s) = s[Len(s)] /\ Len(s) \in Nat \ {0}
         /\ Len(Front(s)) = Len(s) - 1
         /\ \A i \in 1..(Len(s) - 1) : Front(s)[i] = s[i]
<1>1. Len(s) \in Nat \ {0}
  BY EmptySeq
<1>2. \A i \in 1..(Len(s) - 1) : s[i] \in S
  BY <1>1, ElementOfSeq
<1>3. Last(s) \in S
  BY <1>1, ElementOfSeq DEF Last
<1>4. /\ SubSeq(s, 1, Len(s) - 1) \in Seq(S)
      /\ Len(SubSeq(s, 1, Len(s) - 1)) = Len(s) - 1
      /\ \A i \in 1..(Len(s) - 1) : SubSeq(s, 1, Len(s) - 1)[i] = s[i]
  <2> DEFINE n == Len(s) - 1
  <2>1. n \in Nat /\ \A i \in 1..n : s[i] \in S
    BY <1>1, <1>2
  <2> HIDE DEF n
  <2>2. /\ SubSeq(s, 1, n) \in Seq(S)
        /\ Len(SubSeq(s, 1, n)) = IF 1 <= n THEN n - 1 + 1 ELSE 0
        /\ \A i \in 1..(n - 1 + 1) : SubSeq(s, 1, n)[i] = s[1 + i - 1]
    BY <2>1, SubSeqProperties
  <2>3. \A i \in 1..n : SubSeq(s, 1, n)[i] = s[i]
    BY <2>1, <2>2
  <2>4. Len(SubSeq(s, 1, n)) = n /\ SubSeq(s, 1, n) \in Seq(S)
    BY <2>1, <2>2
  <2> QED
    BY <2>3, <2>4 DEF n
<1> QED
  BY <1>1, <1>3, <1>4 DEF Front, Last

LEMMA StackPush ==
  ASSUME NEW S, NEW s \in Seq(S), NEW x \in S
  PROVE  /\ Append(s, x) \in Seq(S) /\ Len(Append(s, x)) = Len(s) + 1 /\ Len(s) \in Nat
         /\ Append(s, x)[Len(s) + 1] = x /\ \A i \in 1..Len(s) : Append(s, x)[i] = s[i]
BY AppendProperties, LenProperties

LEMMA GoBackHolds == ASSUME IInv, GoBack PROVE IInv'
<1>1. /\ Last(back) \in Dirs /\ Front(back) \in Seq(Dirs) /\ current \in Dirs
  BY StackTop DEF IInv, HistoryOK, GoBack, Places
<1>2. Append(forward, current) \in Seq(Dirs)
  BY <1>1, StackPush DEF IInv, HistoryOK
<1>3. ListingOK' /\ current' \in {Last(back), current}
  BY <1>1, ShowsAgainHolds DEF IInv, GoBack
<1>4. HistoryOK'
  BY <1>1, <1>2, <1>3, ExplorerAssumption DEF HistoryOK, Places, GoBack
<1> QED
  BY <1>3, <1>4 DEF IInv, SidebarOK, GoBack, workspaceVars, dialogVars

LEMMA GoForwardHolds == ASSUME IInv, GoForward PROVE IInv'
<1>1. /\ Last(forward) \in Dirs /\ Front(forward) \in Seq(Dirs) /\ current \in Dirs
  BY StackTop DEF IInv, HistoryOK, GoForward, Places
<1>2. Append(back, current) \in Seq(Dirs)
  BY <1>1, StackPush DEF IInv, HistoryOK
<1>3. ListingOK' /\ current' \in {Last(forward), current}
  BY <1>1, ShowsAgainHolds DEF IInv, GoForward
<1>4. HistoryOK'
  BY <1>1, <1>2, <1>3, ExplorerAssumption DEF HistoryOK, Places, GoForward
<1> QED
  BY <1>3, <1>4 DEF IInv, SidebarOK, GoForward, workspaceVars, dialogVars

-----------------------------------------------------------------------------
(* The other steps.                                                        *)

LEMMA InitHolds == Init => IInv
<1> SUFFICES ASSUME Init PROVE IInv
  OBVIOUS
<1>1. HistoryOK
  BY EmptySeq DEF Init, HistoryOK, Places
<1>2. ListingOK
  <2>1. files = <<>> /\ selected = {} /\ lastSelected = 0 /\ error = FALSE
    BY DEF Init
  <2>2. files \in Seq(Entries) /\ Len(files) = 0
    BY <2>1, EmptySeq
  <2>3. /\ selected \subseteq Entries /\ selected \subseteq Range(files)
        /\ lastSelected \in Nat /\ lastSelected \in 0..Len(files)
    BY <2>1, <2>2
  <2>4. error \in BOOLEAN
    BY <2>1
  <2> QED
    BY <2>2, <2>3, <2>4 DEF ListingOK, SelectionIsShown
<1>3. SidebarOK
  <2>1. /\ workspaces = <<>> /\ chosen = 1 /\ fetched = FALSE
        /\ dialog = "none" /\ named = FALSE
    BY DEF Init
  <2>2. workspaces \in Seq(Paths \cup {NoPath})
    BY <2>1, EmptySeq
  <2>3. chosen \in Nat \ {0} /\ dialog \in {"none", "new", "file", "folder"}
    BY <2>1
  <2>4. fetched \in BOOLEAN /\ named \in BOOLEAN
    BY <2>1
  <2> QED
    BY <2>2, <2>3, <2>4 DEF SidebarOK
<1> QED
  BY <1>1, <1>2, <1>3 DEF IInv

LEMMA EntersPathHolds == ASSUME IInv, EntersPath PROVE IInv'
<1>1. HistoryOK' /\ ListingOK'
  BY GoesToHolds DEF IInv, EntersPath
<1> QED
  BY <1>1 DEF IInv, SidebarOK, EntersPath, workspaceVars, dialogVars

LEMMA ClicksHolds ==
  ASSUME IInv, NEW i \in DOMAIN files, NEW key \in Keys,
         ClicksEntry(i, key) \/ OpensDirectory(i, key)
  PROVE  IInv'
<1>1. SelectedBy(key, i) \subseteq Range(files) /\ i \in 0..Len(files) /\ ListingOK
  BY SelectedByHolds DEF IInv
<1>2. CASE ClicksEntry(i, key)
  <2>1. Range(files) \subseteq Entries /\ i \in Nat
    BY <1>1 DEF ListingOK, Range
  <2>2. /\ selected' = SelectedBy(key, i) /\ lastSelected' = i
        /\ UNCHANGED <<historyVars, files, error, workspaceVars, dialogVars>>
    BY <1>2 DEF ClicksEntry
  <2>3. ListingOK'
    BY <1>1, <2>1, <2>2 DEF ListingOK, SelectionIsShown
  <2> QED
    BY <2>2, <2>3 DEF IInv, HistoryOK, SidebarOK, historyVars, workspaceVars, dialogVars
<1>3. CASE OpensDirectory(i, key)
  <2>1. files[i] \in Paths \cup {NoPath}
    BY <1>3, ExplorerAssumption DEF OpensDirectory
  <2>2. HistoryOK' /\ ListingOK'
    BY <1>1, <1>3, <2>1, VisitsHolds DEF IInv, OpensDirectory
  <2> QED
    BY <1>3, <2>2 DEF IInv, SidebarOK, OpensDirectory, workspaceVars, dialogVars
<1> QED
  BY <1>2, <1>3

LEMMA FetchAnsweredHolds ==
  ASSUME SidebarOK, FetchAnswered
  PROVE  workspaces' \in Seq(Paths \cup {NoPath}) /\ fetched' \in BOOLEAN
BY ExplorerAssumption DEF SidebarOK, FetchAnswered

LEMMA MountPathType ==
  ASSUME NEW ws \in Seq(Paths \cup {NoPath}) PROVE MountPath(ws) \in Paths \cup {NoPath}
BY DEF MountPath

LEMMA StartsHolds == ASSUME IInv, Starts PROVE IInv'
<1>1. workspaces' \in Seq(Paths \cup {NoPath}) /\ fetched' \in BOOLEAN
  BY FetchAnsweredHolds DEF IInv, Starts
<1>2. StartsIn(MountPath(workspaces')) \in Paths \cup {NoPath}
  BY <1>1, MountPathType, ExplorerAssumption DEF StartsIn
<1>3. HistoryOK' /\ ListingOK'
  BY <1>2, GoesToHolds DEF IInv, Starts
<1> QED
  BY <1>1, <1>3 DEF IInv, SidebarOK, Starts, dialogVars

LEMMA FetchesAgainHolds == ASSUME IInv, FetchesAgain PROVE IInv'
<1>1. workspaces' \in Seq(Paths \cup {NoPath}) /\ fetched' \in BOOLEAN
  BY FetchAnsweredHolds DEF IInv, FetchesAgain
<1> QED
  BY <1>1 DEF IInv, HistoryOK, ListingOK, SelectionIsShown, SidebarOK, FetchesAgain,
              historyVars, listingVars, dialogVars

LEMMA ChoosesWorkspaceHolds ==
  ASSUME IInv, NEW i \in DOMAIN workspaces, ChoosesWorkspace(i) PROVE IInv'
<1>1. i \in Nat \ {0} /\ workspaces[i] \in Paths \cup {NoPath}
  BY DEF IInv, SidebarOK
<1>2. HistoryOK' /\ ListingOK'
  <2>1. CASE workspaces[i] = NoPath
    BY <2>1 DEF IInv, ChoosesWorkspace, HistoryOK, ListingOK, SelectionIsShown,
                historyVars, listingVars
  <2>2. CASE workspaces[i] # NoPath
    BY <1>1, <2>2, GoesToHolds DEF IInv, ChoosesWorkspace
  <2> QED
    BY <2>1, <2>2
<1> QED
  BY <1>1, <1>2 DEF IInv, SidebarOK, ChoosesWorkspace, dialogVars

LEMMA GoesToRootHolds == ASSUME IInv, GoesToRoot PROVE IInv'
<1>1. MountPath(workspaces) \in Paths \cup {NoPath}
  BY MountPathType DEF IInv, SidebarOK
<1>2. HistoryOK' /\ ListingOK'
  BY <1>1, GoesToHolds DEF IInv, GoesToRoot
<1> QED
  BY <1>2 DEF IInv, SidebarOK, GoesToRoot, workspaceVars, dialogVars

LEMMA DismissesErrorHolds == ASSUME IInv, DismissesError PROVE IInv'
BY DEF IInv, HistoryOK, ListingOK, SelectionIsShown, SidebarOK, DismissesError,
       historyVars, workspaceVars, dialogVars

LEMMA DialogHolds ==
  ASSUME IInv, NEW creates \in BOOLEAN,
         OpensNew \/ ChoosesKind \/ LeavesNew \/ TypesName \/ EndsEntry(creates)
  PROVE  IInv'
<1>1. DialogOnly
  BY DEF OpensNew, ChoosesKind, LeavesNew, TypesName, EndsEntry
<1>2. dialog' \in {"none", "new", "file", "folder"} /\ named' \in BOOLEAN
  BY DEF IInv, SidebarOK, OpensNew, ChoosesKind, LeavesNew, TypesName, EndsEntry
<1> QED
  BY <1>1, <1>2 DEF IInv, HistoryOK, ListingOK, SelectionIsShown, SidebarOK, DialogOnly,
                    historyVars, listingVars, workspaceVars

LEMMA StepHolds == IInv /\ [Next]_vars => IInv'
<1> SUFFICES ASSUME IInv, [Next]_vars PROVE IInv'
  OBVIOUS
<1>1. CASE UNCHANGED vars
  BY <1>1 DEF vars, historyVars, listingVars, workspaceVars, dialogVars, IInv, HistoryOK,
              ListingOK, SelectionIsShown, SidebarOK
<1>2. CASE Starts \/ FetchesAgain
  BY <1>2, StartsHolds, FetchesAgainHolds
<1>3. CASE GoBack \/ GoForward \/ EntersPath \/ GoesToRoot \/ DismissesError
  BY <1>3, GoBackHolds, GoForwardHolds, EntersPathHolds, GoesToRootHolds, DismissesErrorHolds
<1>4. ASSUME NEW i \in DOMAIN files, NEW key \in Keys,
             ClicksEntry(i, key) \/ OpensDirectory(i, key)
      PROVE  IInv'
  BY <1>4, ClicksHolds
<1>5. ASSUME NEW i \in DOMAIN workspaces, ChoosesWorkspace(i) PROVE IInv'
  BY <1>5, ChoosesWorkspaceHolds
<1>6. ASSUME NEW creates \in BOOLEAN,
             OpensNew \/ ChoosesKind \/ LeavesNew \/ TypesName \/ EndsEntry(creates)
      PROVE  IInv'
  BY <1>6, DialogHolds
<1> QED
  BY <1>1, <1>2, <1>3, <1>4, <1>5, <1>6 DEF Next, UserStep

(* The inductive invariant holds in every reachable state.                 *)
THEOREM Invariance == Spec => []IInv
BY InitHolds, StepHolds, PTL DEF Spec

(* The explorer, the workspaces and the dialogs keep their types.          *)
THEOREM TypeCorrectness == Spec => []TypeOK
<1>1. IInv => TypeOK
  BY DEF IInv, TypeOK, HistoryOK, ListingOK, SidebarOK, Places
<1> QED
  BY <1>1, Invariance, PTL

(* Whatever was read or could not be read, the selection and the index a   *)
(* shift-click counts from stay within what is shown.                      *)
THEOREM SelectionShown == Spec => []SelectionIsShown
<1>1. IInv => SelectionIsShown
  BY DEF IInv, ListingOK
<1> QED
  BY <1>1, Invariance, PTL

-----------------------------------------------------------------------------
(* The refinement: the stacks and what is shown are the trail.             *)

LEMMA ReverseProperties ==
  ASSUME NEW S, NEW s \in Seq(S)
  PROVE  /\ Reverse(s) \in Seq(S) /\ Len(Reverse(s)) = Len(s)
         /\ \A i \in 1..Len(s) : Reverse(s)[i] = s[(Len(s) - i) + 1]
<1>1. Len(s) \in Nat /\ \A i \in 1..Len(s) : s[i] \in S
  BY ElementOfSeq
<1>2. \A i \in 1..Len(s) : (Len(s) - i) + 1 \in 1..Len(s)
  BY <1>1
<1>3. Reverse(s) \in [1..Len(s) -> S]
  BY <1>1, <1>2 DEF Reverse
<1> QED
  BY <1>1, <1>3 DEF Reverse

TrailOf(b, c, f) == Append(b, c) \o Reverse(f)

(* What lies where on a trail: n places behind, c, and m places ahead.     *)
Lies(trail, b, n, c, f, m) ==
  /\ trail \in Seq(Dirs) /\ Len(trail) = n + 1 + m
  /\ \A i \in 1..n : trail[i] = b[i]
  /\ trail[n + 1] = c
  /\ \A i \in (n + 2)..(n + 1 + m) : trail[i] = f[m + n + 2 - i]

LEMMA TrailProperties ==
  ASSUME NEW b \in Seq(Dirs), NEW c \in Dirs, NEW f \in Seq(Dirs)
  PROVE  Lies(TrailOf(b, c, f), b, Len(b), c, f, Len(f))
<1> DEFINE s == Append(b, c)
           r == Reverse(f)
<1>1. /\ s \in Seq(Dirs) /\ Len(s) = Len(b) + 1 /\ Len(b) \in Nat
      /\ s[Len(b) + 1] = c /\ \A i \in 1..Len(b) : s[i] = b[i]
  BY StackPush
<1>2. /\ r \in Seq(Dirs) /\ Len(r) = Len(f) /\ Len(f) \in Nat
      /\ \A i \in 1..Len(f) : r[i] = f[(Len(f) - i) + 1]
  BY ReverseProperties, LenProperties
<1> HIDE DEF s, r
<1>3. /\ s \o r \in Seq(Dirs) /\ Len(s \o r) = Len(s) + Len(r)
      /\ \A i \in 1..(Len(s) + Len(r)) : (s \o r)[i] = IF i <= Len(s) THEN s[i] ELSE r[i - Len(s)]
  <2>1. s \in Seq(Dirs) /\ r \in Seq(Dirs)
    BY <1>1, <1>2
  <2> QED
    BY <2>1, ConcatProperties
<1>4. \A i \in 1..Len(b) : (s \o r)[i] = b[i]
  BY <1>1, <1>2, <1>3
<1>5. (s \o r)[Len(b) + 1] = c
  BY <1>1, <1>2, <1>3
<1>6. ASSUME NEW i \in (Len(b) + 2)..(Len(b) + 1 + Len(f))
      PROVE  (s \o r)[i] = f[Len(f) + Len(b) + 2 - i]
  <2> DEFINE j == i - Len(s)
  <2>1. j \in 1..Len(f) /\ i \in 1..(Len(s) + Len(r)) /\ ~(i <= Len(s))
    BY <1>1, <1>2
  <2>2. (s \o r)[i] = r[j]
    BY <1>3, <2>1
  <2>3. r[j] = f[(Len(f) - j) + 1]
    BY <1>2, <2>1
  <2>4. (Len(f) - j) + 1 = Len(f) + Len(b) + 2 - i
    BY <1>1, <1>2
  <2> QED
    BY <2>2, <2>3, <2>4
<1> QED
  BY <1>1, <1>2, <1>3, <1>4, <1>5, <1>6 DEF TrailOf, Lies, s, r

LEMMA VisitedIsTrail ==
  ASSUME IInv
  PROVE  /\ current # NoPath => Visited = TrailOf(back, current, forward) /\ current \in Dirs
         /\ current = NoPath => Visited = <<>>
BY DEF IInv, HistoryOK, Places, Visited, TrailOf

LEMMA NothingAhead ==
  ASSUME NEW b \in Seq(Dirs), NEW c \in Dirs
  PROVE  TrailOf(b, c, <<>>) = Append(b, c)
<1>1. Reverse(<<>>) = <<>>
  BY EmptySeq, ReverseProperties
<1>2. Append(b, c) \in Seq(Dirs)
  BY StackPush
<1> QED
  BY <1>1, <1>2, ConcatEmptySeq DEF TrailOf

(* A visit.                                                                *)
LEMMA RemembersVisits ==
  ASSUME IInv, NEW p \in Dirs, Remembers(p), current' = p, p # current
  PROVE  History!Visit(p)
<1>1. back \in Seq(Dirs) /\ forward \in Seq(Dirs) /\ p # NoPath /\ forward' = <<>>
  BY ExplorerAssumption DEF IInv, HistoryOK, Remembers
<1>2. Visited' = TrailOf(back', p, <<>>) /\ Place' = Len(back') + 1
  BY <1>1 DEF Visited, TrailOf, Place
<1>3. CASE current = NoPath
  <2>1. back' = <<>> /\ Visited = <<>> /\ Place = 0
    BY <1>3 DEF IInv, HistoryOK, Remembers, Visited, Place
  <2>2. SubSeq(Visited, 1, Place) = <<>>
    BY <2>1, SubSeqEmpty
  <2>3. Visited' = Append(<<>>, p)
    BY <1>2, <2>1, NothingAhead, EmptySeq
  <2>4. Place' = Place + 1
    BY <1>2, <2>1, EmptySeq
  <2> QED
    BY <2>1, <2>2, <2>3, <2>4 DEF History!Visit
<1>4. CASE current # NoPath
  <2>1. /\ current \in Dirs /\ Visited = TrailOf(back, current, forward)
        /\ Place = Len(back) + 1 /\ back' = Append(back, current)
    BY <1>4, VisitedIsTrail DEF Place, Remembers
  <2>2. /\ Append(back, current) \in Seq(Dirs) /\ Len(back) \in Nat
        /\ Len(Append(back, current)) = Place
    BY <1>1, <2>1, StackPush
  <2>3. SubSeq(Visited, 1, Place) = Append(back, current)
    <3>1. Reverse(forward) \in Seq(Dirs)
      BY <1>1, ReverseProperties
    <3>2. SubSeq(Append(back, current) \o Reverse(forward), 1, Len(Append(back, current)))
            = Append(back, current)
      BY <2>2, <3>1, SubSeqOfConcat1, SubSeqFull
    <3> QED
      BY <2>1, <2>2, <3>2 DEF TrailOf
  <2>4. Visited' = Append(Append(back, current), p) /\ Place' = Place + 1
    BY <1>2, <2>1, <2>2, NothingAhead
  <2>5. Visited[Place] = current
    BY <1>1, <2>1, TrailProperties DEF Lies
  <2> QED
    BY <2>3, <2>4, <2>5 DEF History!Visit
<1> QED
  BY <1>3, <1>4

LEMMA VisitsImplement ==
  ASSUME IInv, NEW path \in Paths \cup {NoPath}, NEW sel, NEW last, Visits(path, sel, last)
  PROVE  [History!Next]_<<Visited, Place>>
<1>1. CASE /\ path # NoPath
           /\ \E es \in Listings : Shows(Canonical[path], es)
           /\ Remembers(Canonical[path])
  <2>1. Canonical[path] \in Dirs /\ current' = Canonical[path]
    BY <1>1, ExplorerAssumption DEF Shows
  <2>2. CASE Canonical[path] = current
    BY <1>1, <2>1, <2>2 DEF Remembers, Visited, Place
  <2>3. CASE Canonical[path] # current
    BY <1>1, <2>1, <2>3, RemembersVisits DEF History!Next
  <2> QED
    BY <2>2, <2>3
<1>2. CASE CannotRead /\ UNCHANGED <<back, forward>>
  BY <1>2 DEF CannotRead, Visited, Place
<1> QED
  BY <1>1, <1>2 DEF Visits

(* A step: the place goes by one, and what is shown stands there.          *)
LEMMA BackSteps == ASSUME IInv, GoBack PROVE History!Step(Place - 1)
<1> DEFINE b == Front(back)
           f == Append(forward, current)
           top == Last(back)
           n == Len(back)
           m == Len(forward)
<1>1. /\ back \in Seq(Dirs) /\ forward \in Seq(Dirs) /\ back # <<>>
      /\ current \in Dirs /\ current # NoPath
  BY DEF IInv, HistoryOK, GoBack, Places
<1>2. /\ b \in Seq(Dirs) /\ top \in Dirs /\ top = back[n] /\ n \in Nat \ {0}
      /\ Len(b) = n - 1 /\ \A i \in 1..(n - 1) : b[i] = back[i]
  BY <1>1, StackTop
<1>3. /\ f \in Seq(Dirs) /\ Len(f) = m + 1 /\ m \in Nat
      /\ f[m + 1] = current /\ \A i \in 1..m : f[i] = forward[i]
  BY <1>1, StackPush
<1>4. current' \in {top, current} /\ current' \in Dirs /\ back' = b /\ forward' = f
  BY <1>1, <1>2, ShowsAgainHolds DEF IInv, GoBack
<1>5. current' # NoPath
  BY <1>4, ExplorerAssumption
<1>6. Visited = TrailOf(back, current, forward) /\ Place = n + 1
  BY <1>1 DEF Visited, TrailOf, Place
<1>7. Visited' = TrailOf(b, current', f) /\ Place' = n
  BY <1>2, <1>4, <1>5 DEF Visited, TrailOf, Place
<1>8. /\ Lies(Visited, back, n, current, forward, m)
      /\ Lies(Visited', b, Len(b), current', f, Len(f))
  BY <1>1, <1>2, <1>3, <1>4, <1>6, <1>7, TrailProperties
<1> HIDE DEF b, f, n, m, top
<1>9. Lies(Visited', b, n - 1, current', f, m + 1)
  BY <1>2, <1>3, <1>8
<1>10. ASSUME NEW i \in 1..(n + 1 + m) PROVE Visited'[i] = IF i = n THEN current' ELSE Visited[i]
  <2>1. CASE i < n
    BY <1>2, <1>3, <1>8, <1>9, <2>1 DEF Lies
  <2>2. CASE i = n
    BY <1>2, <1>9, <2>2 DEF Lies
  <2>3. CASE i = n + 1
    BY <1>2, <1>3, <1>8, <1>9, <2>3 DEF Lies
  <2>4. CASE i > n + 1
    <3> DEFINE j == m + n + 2 - i
    <3>1. j \in 1..m /\ (m + 1) + (n - 1) + 2 - i = j
      BY <1>2, <1>3, <2>4
    <3>2. Visited[i] = forward[j] /\ Visited'[i] = f[j]
      BY <1>2, <1>3, <1>8, <1>9, <2>4, <3>1 DEF Lies
    <3> QED
      BY <1>2, <1>3, <2>4, <3>1, <3>2
  <2> QED
    BY <1>2, <1>3, <2>1, <2>2, <2>3, <2>4
<1>11. Visited[n] = top
  BY <1>2, <1>8 DEF Lies
<1>12. /\ Place # 0 /\ Place - 1 = n /\ Place' = n /\ n \in DOMAIN Visited
       /\ Visited[Place] = Visited[n + 1]
  BY <1>2, <1>3, <1>6, <1>7, <1>8 DEF Lies
<1>13. CASE current' = top
  <2>1. Visited' = Visited
    <3>1. /\ Visited \in Seq(Dirs) /\ Visited' \in Seq(Dirs) /\ Len(Visited') = Len(Visited)
          /\ Len(Visited) = n + 1 + m
      BY <1>2, <1>3, <1>8, <1>9 DEF Lies
    <3>2. \A i \in 1..Len(Visited) : Visited'[i] = Visited[i]
      BY <1>10, <1>11, <1>13, <3>1
    <3> QED
      BY <3>1, <3>2, SeqEqual
  <2> QED
    BY <1>12, <2>1 DEF History!Step
<1>14. CASE current' = current
  <2> DEFINE e == [Visited EXCEPT ![n] = Visited[n + 1]]
  <2>1. /\ e \in Seq(Dirs) /\ Len(e) = Len(Visited)
        /\ \A i \in 1..Len(Visited) : e[i] = IF i = n THEN Visited[n + 1] ELSE Visited[i]
    BY <1>1, <1>2, <1>3, <1>8, ExceptSeq DEF Lies
  <2> HIDE DEF e
  <2>2. Visited' = e
    <3>1. /\ Visited \in Seq(Dirs) /\ Visited' \in Seq(Dirs) /\ Len(Visited') = Len(e)
          /\ Len(Visited) = n + 1 + m /\ Visited[n + 1] = current
      BY <1>2, <1>3, <1>8, <1>9, <2>1 DEF Lies
    <3>2. \A i \in 1..Len(e) : Visited'[i] = e[i]
      BY <1>10, <1>14, <2>1, <3>1
    <3> QED
      BY <2>1, <3>1, <3>2, SeqEqual
  <2> QED
    BY <1>12, <2>2 DEF e, History!Step
<1> QED
  BY <1>4, <1>13, <1>14

LEMMA ForwardSteps == ASSUME IInv, GoForward PROVE History!Step(Place + 1)
<1> DEFINE b == Append(back, current)
           f == Front(forward)
           top == Last(forward)
           n == Len(back)
           m == Len(forward)
<1>1. /\ back \in Seq(Dirs) /\ forward \in Seq(Dirs) /\ forward # <<>>
      /\ current \in Dirs /\ current # NoPath
  BY DEF IInv, HistoryOK, GoForward, Places
<1>2. /\ f \in Seq(Dirs) /\ top \in Dirs /\ top = forward[m] /\ m \in Nat \ {0}
      /\ Len(f) = m - 1 /\ \A i \in 1..(m - 1) : f[i] = forward[i]
  BY <1>1, StackTop
<1>3. /\ b \in Seq(Dirs) /\ Len(b) = n + 1 /\ n \in Nat
      /\ b[n + 1] = current /\ \A i \in 1..n : b[i] = back[i]
  BY <1>1, StackPush
<1>4. current' \in {top, current} /\ current' \in Dirs /\ back' = b /\ forward' = f
  BY <1>1, <1>2, ShowsAgainHolds DEF IInv, GoForward
<1>5. current' # NoPath
  BY <1>4, ExplorerAssumption
<1>6. Visited = TrailOf(back, current, forward) /\ Place = n + 1
  BY <1>1 DEF Visited, TrailOf, Place
<1>7. Visited' = TrailOf(b, current', f) /\ Place' = n + 2
  BY <1>3, <1>4, <1>5 DEF Visited, TrailOf, Place
<1>8. /\ Lies(Visited, back, n, current, forward, m)
      /\ Lies(Visited', b, Len(b), current', f, Len(f))
  BY <1>1, <1>2, <1>3, <1>4, <1>6, <1>7, TrailProperties
<1> HIDE DEF b, f, n, m, top
<1>9. Lies(Visited', b, n + 1, current', f, m - 1)
  BY <1>2, <1>3, <1>8
<1>10. ASSUME NEW i \in 1..(n + 1 + m)
       PROVE  Visited'[i] = IF i = n + 2 THEN current' ELSE Visited[i]
  <2>1. CASE i < n + 1
    BY <1>2, <1>3, <1>8, <1>9, <2>1 DEF Lies
  <2>2. CASE i = n + 1
    BY <1>2, <1>3, <1>8, <1>9, <2>2 DEF Lies
  <2>3. CASE i = n + 2
    BY <1>2, <1>3, <1>9, <2>3 DEF Lies
  <2>4. CASE i > n + 2
    <3> DEFINE j == m + n + 2 - i
    <3>1. j \in 1..(m - 1) /\ (m - 1) + (n + 1) + 2 - i = j
      BY <1>2, <1>3, <2>4
    <3>2. Visited[i] = forward[j] /\ Visited'[i] = f[j]
      BY <1>2, <1>3, <1>8, <1>9, <2>4, <3>1 DEF Lies
    <3> QED
      BY <1>2, <1>3, <2>4, <3>1, <3>2
  <2> QED
    BY <1>2, <1>3, <2>1, <2>2, <2>3, <2>4
<1>11. Visited[n + 2] = top
  <2>1. n + 2 \in (n + 2)..(n + 1 + m) /\ m + n + 2 - (n + 2) = m
    BY <1>2, <1>3
  <2>2. Visited[n + 2] = forward[m + n + 2 - (n + 2)]
    BY <1>8, <2>1 DEF Lies
  <2> QED
    BY <1>2, <2>1, <2>2
<1>12. /\ Place # 0 /\ Place + 1 = n + 2 /\ Place' = n + 2 /\ n + 2 \in DOMAIN Visited
       /\ Visited[Place] = Visited[n + 1]
  BY <1>2, <1>3, <1>6, <1>7, <1>8 DEF Lies
<1>13. CASE current' = top
  <2>1. Visited' = Visited
    <3>1. /\ Visited \in Seq(Dirs) /\ Visited' \in Seq(Dirs) /\ Len(Visited') = Len(Visited)
          /\ Len(Visited) = n + 1 + m
      BY <1>2, <1>3, <1>8, <1>9 DEF Lies
    <3>2. \A i \in 1..Len(Visited) : Visited'[i] = Visited[i]
      BY <1>10, <1>11, <1>13, <3>1
    <3> QED
      BY <3>1, <3>2, SeqEqual
  <2> QED
    BY <1>12, <2>1 DEF History!Step
<1>14. CASE current' = current
  <2> DEFINE e == [Visited EXCEPT ![n + 2] = Visited[n + 1]]
  <2>1. /\ e \in Seq(Dirs) /\ Len(e) = Len(Visited)
        /\ \A i \in 1..Len(Visited) : e[i] = IF i = n + 2 THEN Visited[n + 1] ELSE Visited[i]
    BY <1>1, <1>2, <1>3, <1>8, ExceptSeq DEF Lies
  <2> HIDE DEF e
  <2>2. Visited' = e
    <3>1. /\ Visited \in Seq(Dirs) /\ Visited' \in Seq(Dirs) /\ Len(Visited') = Len(e)
          /\ Len(Visited) = n + 1 + m /\ Visited[n + 1] = current
      BY <1>2, <1>3, <1>8, <1>9, <2>1 DEF Lies
    <3>2. \A i \in 1..Len(e) : Visited'[i] = e[i]
      BY <1>10, <1>14, <2>1, <3>1
    <3> QED
      BY <2>1, <3>1, <3>2, SeqEqual
  <2> QED
    BY <1>12, <2>2 DEF e, History!Step
<1> QED
  BY <1>4, <1>13, <1>14

LEMMA StepImplements == IInv /\ [Next]_vars => [History!Next]_<<Visited, Place>>
<1> SUFFICES ASSUME IInv, [Next]_vars PROVE [History!Next]_<<Visited, Place>>
  OBVIOUS
<1>1. ASSUME UNCHANGED historyVars PROVE UNCHANGED <<Visited, Place>>
  BY <1>1 DEF historyVars, Visited, Place
<1>2. CASE GoBack \/ GoForward
  BY <1>2, BackSteps, ForwardSteps DEF History!Next
<1>3. ASSUME NEW path \in Paths \cup {NoPath}, GoesTo(path)
      PROVE  [History!Next]_<<Visited, Place>>
  BY <1>3, VisitsImplement DEF GoesTo
<1>4. CASE EntersPath
  BY <1>3, <1>4 DEF EntersPath
<1>5. CASE GoesToRoot
  BY <1>3, <1>5, MountPathType DEF GoesToRoot, IInv, SidebarOK
<1>6. CASE Starts
  <2>1. StartsIn(MountPath(workspaces')) \in Paths \cup {NoPath}
    BY <1>6, FetchAnsweredHolds, MountPathType, ExplorerAssumption DEF Starts, StartsIn, IInv
  <2> QED
    BY <1>3, <1>6, <2>1 DEF Starts
<1>7. ASSUME NEW i \in DOMAIN workspaces, ChoosesWorkspace(i)
      PROVE  [History!Next]_<<Visited, Place>>
  BY <1>1, <1>3, <1>7 DEF ChoosesWorkspace, IInv, SidebarOK
<1>8. ASSUME NEW i \in DOMAIN files, NEW key \in Keys, OpensDirectory(i, key)
      PROVE  [History!Next]_<<Visited, Place>>
  BY <1>8, VisitsImplement, ExplorerAssumption DEF OpensDirectory
<1>9. ASSUME \/ UNCHANGED vars \/ FetchesAgain \/ DismissesError
             \/ \E i \in DOMAIN files, key \in Keys : ClicksEntry(i, key)
             \/ OpensNew \/ ChoosesKind \/ LeavesNew \/ TypesName
             \/ \E creates \in BOOLEAN : EndsEntry(creates)
      PROVE  UNCHANGED historyVars
  BY <1>9 DEF vars, FetchesAgain, DismissesError, ClicksEntry, OpensNew, ChoosesKind, LeavesNew,
              TypesName, EndsEntry, DialogOnly
<1> QED
  BY <1>1, <1>2, <1>4, <1>5, <1>6, <1>7, <1>8, <1>9 DEF Next, UserStep

(* The two stacks implement the trail, for any directories: every visit,   *)
(* every step that succeeds and every one that fails.                      *)
THEOREM HistoryImplementsTrail == Spec => ImplementsTrail
<1>1. Init => History!Init
  BY DEF Init, History!Init, Visited, Place
<1> QED
  BY <1>1, Invariance, StepImplements, PTL DEF Spec, ImplementsTrail, History!Spec
=============================================================================
