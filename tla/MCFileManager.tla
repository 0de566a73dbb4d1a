--------------------------- MODULE MCFileManager ---------------------------
(* Small instances of FileManager for TLC.                                 *)
EXTENDS FileManager, TLC

(* Threads and clients are interchangeable: no definition of FileManager   *)
(* tells one from another.                                                 *)
Symmetry == Permutations(Threads) \cup Permutations(Clients)
=============================================================================
