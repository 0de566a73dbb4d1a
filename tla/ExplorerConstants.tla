-------------------------- MODULE ExplorerConstants --------------------------
(***************************************************************************)
(* What the explorer may find: directories and their names, entries, and   *)
(* what the proxy and the client say of mounts.                            *)
(***************************************************************************)
EXTENDS Naturals, Sequences

CONSTANTS
  Dirs,            \* canonical paths of directories
  Paths,           \* what can be typed or stored as a path
  Canonical,       \* fs::canonical, for the paths that name something
  NoPath,          \* "": the empty path
  Files,           \* entries of a directory that are not directories
  MaxEntries,      \* bound: entries of a directory
  MaxTrail,        \* bound: places in the history, with the one that is shown
  ClientMount,     \* the client's mount path
  WorkspaceLists   \* what the proxy may answer: sequences of mount paths

ASSUME ExplorerAssumption ==
  /\ NoPath \notin Paths /\ Dirs \subseteq Paths /\ ClientMount \in Paths
  /\ Canonical \in [Paths -> Dirs]
  /\ \A ws \in WorkspaceLists : ws \in Seq(Paths \cup {NoPath})
  /\ MaxEntries \in Nat /\ MaxTrail \in Nat
=============================================================================
