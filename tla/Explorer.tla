------------------------------ MODULE Explorer ------------------------------
(***************************************************************************)
(* The file explorer and the sidebar of the client's main view             *)
(* (minidfs/src/application/panels/home): the directory that is shown with *)
(* its history and its selection, the workspaces, and the sidebar's        *)
(* dialogs.  One thread, the one that renders, does all of it.             *)
(*                                                                         *)
(* The file system belongs to everybody: what a directory holds is known   *)
(* only at the moment it is read, and any path may be unreadable.  So the  *)
(* listing is any of Listings, create_directories may be in vain, and the  *)
(* file that create_file makes shows up at the next reading or never.      *)
(***************************************************************************)
EXTENDS Integers, FiniteSets, SequencesExt, ExplorerConstants

VARIABLES
  current,      \* current_path
  files,        \* files: the entries that are shown
  selected,     \* selected_files
  lastSelected, \* last_selected_index, from 1 as sequences are; 0 for -1
  back,         \* back_history, the top at the end
  forward,      \* forward_history, the top at the end
  error,        \* error_msg is not empty: its modal covers everything
  workspaces,   \* workspaces: their mount paths
  chosen,       \* selected_workspace_index, from 1
  fetched,      \* has_fetched
  dialog,       \* the sidebar's dialog: "none", "new", "file" or "folder"
  named         \* name_buffer is not empty

historyVars == <<current, back, forward>>
listingVars == <<files, selected, lastSelected, error>>
workspaceVars == <<workspaces, chosen, fetched>>
dialogVars == <<dialog, named>>
vars == <<historyVars, listingVars, workspaceVars, dialogVars>>

Entries == Dirs \cup Files
Listings == {es \in SeqOf(Entries, MaxEntries) : IsInjective(es)}

Init ==
  /\ current = NoPath /\ back = <<>> /\ forward = <<>>
  /\ files = <<>> /\ selected = {} /\ lastSelected = 0 /\ error = FALSE
  /\ workspaces = <<>> /\ chosen = 1 /\ fetched = FALSE
  /\ dialog = "none" /\ named = FALSE

(* Only a modal that is open takes input.                                  *)
Free == ~error /\ dialog = "none"

-----------------------------------------------------------------------------
(* get_files.                                                              *)

(* With a fault: the last index survives the listing it points into.       *)
ShowsListingOnly(p, es) ==
  /\ current' = p /\ files' = es
  /\ selected' = {} /\ error' = FALSE
  /\ UNCHANGED lastSelected

Shows(p, es) ==
  /\ current' = p /\ files' = es
  /\ selected' = {} /\ lastSelected' = 0 /\ error' = FALSE

(* The path or an entry of it cannot be read; "" never can.                *)
CannotRead ==
  /\ error' = TRUE
  /\ UNCHANGED <<current, files>>

(* With a fault: a visit leaves what lies ahead.                           *)
RemembersOnly(p) ==
  /\ back' = IF current = NoPath THEN back ELSE Append(back, current)
  /\ UNCHANGED forward

(* A visit to where one is already is not remembered.                      *)
Remembers(p) ==
  IF p = current
  THEN UNCHANGED <<back, forward>>
  ELSE /\ back' = IF current = NoPath THEN back ELSE Append(back, current)
       /\ forward' = <<>>

(* get_files with update_history, once the selection is "sel" and "last".  *)
Visits(path, sel, last) ==
  \/ /\ path # NoPath
     /\ Canonical[path] = current \/ Len(back) + 1 < MaxTrail
     /\ \E es \in Listings : Shows(Canonical[path], es)
     /\ Remembers(Canonical[path])
  \/ /\ CannotRead
     /\ selected' = sel /\ lastSelected' = last
     /\ UNCHANGED <<back, forward>>

GoesTo(path) == Visits(path, selected, lastSelected)

(* get_files without update_history, after both histories have changed.    *)
ShowsAgain(path) ==
  \/ \E es \in Listings : Shows(path, es)
  \/ CannotRead /\ UNCHANGED <<selected, lastSelected>>

GoBack ==
  /\ Free /\ back # <<>>
  /\ forward' = Append(forward, current)
  /\ back' = Front(back)
  /\ ShowsAgain(Last(back))
  /\ UNCHANGED <<workspaceVars, dialogVars>>

GoForward ==
  /\ Free /\ forward # <<>>
  /\ back' = Append(back, current)
  /\ forward' = Front(forward)
  /\ ShowsAgain(Last(forward))
  /\ UNCHANGED <<workspaceVars, dialogVars>>

(* Enter in the search bar, which may hold anything.                       *)
EntersPath ==
  /\ Free
  /\ \E path \in Paths \cup {NoPath} : GoesTo(path)
  /\ UNCHANGED <<workspaceVars, dialogVars>>

-----------------------------------------------------------------------------
(* show_file_item.                                                         *)

Keys == {"none", "ctrl", "shift"}

SelectedBy(key, i) ==
  CASE key = "ctrl" ->
         IF files[i] \in selected THEN selected \ {files[i]} ELSE selected \cup {files[i]}
    [] key = "shift" /\ lastSelected # 0 ->
         {files[j] : j \in (i..lastSelected) \cup (lastSelected..i)}
    [] OTHER -> {files[i]}

ClicksEntry(i, key) ==
  /\ Free
  /\ selected' = SelectedBy(key, i) /\ lastSelected' = i
  /\ UNCHANGED <<historyVars, files, error, workspaceVars, dialogVars>>

(* The click that is the second of two opens the entry as well: a          *)
(* directory here, a file with what the desktop has for it.                *)
OpensDirectory(i, key) ==
  /\ Free /\ files[i] \in Dirs
  /\ Visits(files[i], SelectedBy(key, i), i)
  /\ UNCHANGED <<workspaceVars, dialogVars>>

DismissesError ==
  /\ error /\ error' = FALSE
  /\ UNCHANGED <<historyVars, files, selected, lastSelected, workspaceVars, dialogVars>>

-----------------------------------------------------------------------------
(* The workspaces.                                                         *)

FetchAnswered ==
  \/ \E ws \in WorkspaceLists : workspaces' = ws /\ fetched' = TRUE
  \/ UNCHANGED <<workspaces, fetched>>

MountPath(ws) == IF chosen \in DOMAIN ws THEN ws[chosen] ELSE NoPath

StartsIn(path) == IF path = NoPath THEN ClientMount ELSE path

(* The constructor of the panel.                                           *)
Starts ==
  /\ ~fetched
  /\ FetchAnswered
  /\ GoesTo(StartsIn(MountPath(workspaces')))
  /\ UNCHANGED <<chosen, dialogVars>>

(* At every frame until an answer has come.                                *)
FetchesAgain ==
  /\ ~fetched
  /\ FetchAnswered
  /\ UNCHANGED <<historyVars, listingVars, chosen, dialogVars>>

(* Choosing the one that is chosen does nothing, though another directory  *)
(* may be shown.                                                           *)
ChoosesWorkspace(i) ==
  /\ Free
  /\ i \in DOMAIN workspaces /\ i # chosen
  /\ chosen' = i
  /\ IF workspaces[i] = NoPath
     THEN UNCHANGED <<historyVars, listingVars>>
     ELSE GoesTo(workspaces[i])
  /\ UNCHANGED <<workspaces, fetched, dialogVars>>

GoesToRoot ==
  /\ Free /\ MountPath(workspaces) # NoPath
  /\ GoesTo(MountPath(workspaces))
  /\ UNCHANGED <<workspaceVars, dialogVars>>

-----------------------------------------------------------------------------
(* The sidebar's dialogs.                                                  *)

DialogOnly == UNCHANGED <<historyVars, listingVars, workspaceVars>>

OpensNew ==
  /\ Free /\ dialog' = "new"
  /\ UNCHANGED named /\ DialogOnly

ChoosesKind ==
  /\ dialog = "new" /\ dialog' \in {"file", "folder"}
  /\ UNCHANGED named /\ DialogOnly

(* Closed, or "Upload Files": without an account the sidebar says so, with *)
(* one it asks for files and does nothing with them yet.                   *)
LeavesNew ==
  /\ dialog = "new" /\ dialog' = "none"
  /\ UNCHANGED named /\ DialogOnly

TypesName ==
  /\ dialog \in {"file", "folder"} /\ named' \in BOOLEAN
  /\ UNCHANGED dialog /\ DialogOnly

(* "Create" and "Cancel".  Create wants a name, and makes a file in either *)
(* dialog.                                                                 *)
EndsEntry(creates) ==
  /\ dialog \in {"file", "folder"}
  /\ creates => named
  /\ dialog' = "none" /\ named' = FALSE
  /\ DialogOnly

-----------------------------------------------------------------------------

UserStep ==
  \/ GoBack \/ GoForward \/ EntersPath \/ GoesToRoot
  \/ \E i \in DOMAIN files, key \in Keys : ClicksEntry(i, key) \/ OpensDirectory(i, key)
  \/ \E i \in DOMAIN workspaces : ChoosesWorkspace(i)
  \/ OpensNew \/ ChoosesKind \/ LeavesNew \/ TypesName
  \/ \E creates \in BOOLEAN : EndsEntry(creates)
  \/ DismissesError

Next == Starts \/ FetchesAgain \/ UserStep

Spec == Init /\ [][Next]_vars

-----------------------------------------------------------------------------
(* Properties.                                                             *)

(* Type invariant.                                                         *)
TypeOK ==
  /\ current \in Dirs \cup {NoPath}
  /\ back \in Seq(Dirs) /\ forward \in Seq(Dirs)
  /\ files \in Seq(Entries) /\ selected \subseteq Entries /\ lastSelected \in Nat
  /\ error \in BOOLEAN
  /\ workspaces \in Seq(Paths \cup {NoPath}) /\ chosen \in Nat \ {0} /\ fetched \in BOOLEAN
  /\ dialog \in {"none", "new", "file", "folder"} /\ named \in BOOLEAN

(* What is selected is shown, and the index a shift-click counts from is   *)
(* within the listing, whatever was read, or could not be, since the click *)
(* that set it.  show_file_item indexes files with it unchecked.           *)
SelectionIsShown ==
  /\ selected \subseteq Range(files)
  /\ lastSelected \in 0..Len(files)

(* The two stacks are a trail with a place on it.                          *)
Visited == IF current = NoPath THEN <<>> ELSE Append(back, current) \o Reverse(forward)
Place == IF current = NoPath THEN 0 ELSE Len(back) + 1

History == INSTANCE Trail WITH Places <- Dirs, trail <- Visited, pos <- Place

(* The buttons go along the places visited, none is skipped, repeated or   *)
(* lost but the one that could not be read.                                *)
ImplementsTrail == History!Spec
=============================================================================
