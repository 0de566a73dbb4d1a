---------------------------- MODULE LockedStore ----------------------------
(***************************************************************************)
(* What FileManager (minidfs/src/dfs/file_manager.h) promises its callers, *)
(* without its lock table: a set of files, and for every file the clients  *)
(* that are reading it and the clients that are writing it.  Many clients  *)
(* may read a file or one may write it, a client reads only a file that    *)
(* is there, and the contents of an existing file are changed, or the file *)
(* removed, by its one writer and by nobody else.                          *)
(*                                                                         *)
(* Module FileManager implements this one: its session tables map to       *)
(* readersOf and writersOf.                                                *)
(***************************************************************************)
EXTENDS Sequences

CONSTANTS Clients,    \* client ids
          Files,      \* paths
          Chunks,     \* what one chunk of a file can hold
          NoFile      \* the "contents" of a path at which there is no file

VARIABLES readersOf,  \* readersOf[f]: the clients reading f
          writersOf,  \* writersOf[f]: the clients writing f
          disk        \* disk[f]: the contents of f, or NoFile

vars == <<readersOf, writersOf, disk>>

Init == /\ readersOf = [f \in Files |-> {}]
        /\ writersOf = [f \in Files |-> {}]
        /\ disk \in [Files -> {NoFile, <<>>}]

Free(f) == readersOf[f] = {} /\ writersOf[f] = {}

StartReading(c, f) == /\ writersOf[f] = {}
                      /\ disk[f] # NoFile
                      /\ readersOf' = [readersOf EXCEPT ![f] = @ \cup {c}]
                      /\ UNCHANGED <<writersOf, disk>>

StopReading(c, f) == /\ readersOf' = [readersOf EXCEPT ![f] = @ \ {c}]
                     /\ UNCHANGED <<writersOf, disk>>

(* Taking a file to write it may bring it into being.                      *)
StartWriting(c, f) == /\ Free(f)
                      /\ writersOf' = [writersOf EXCEPT ![f] = {c}]
                      /\ \/ disk' = disk
                         \/ disk[f] = NoFile /\ disk' = [disk EXCEPT ![f] = <<>>]
                      /\ UNCHANGED readersOf

Write(c, f) == /\ c \in writersOf[f]
               /\ disk[f] # NoFile
               /\ disk'[f] \in Seq(Chunks)
               /\ disk' = [disk EXCEPT ![f] = disk'[f]]
               /\ UNCHANGED <<readersOf, writersOf>>

(* A writer leaves; by removing the file it leaves too.                    *)
StopWriting(c, f) == /\ c \in writersOf[f]
                     /\ writersOf' = [writersOf EXCEPT ![f] = {}]
                     /\ \/ disk' = disk
                        \/ disk' = [disk EXCEPT ![f] = NoFile]
                     /\ UNCHANGED readersOf

(* An empty file may appear at a free path, whoever asked for it.          *)
Create(f) == /\ disk[f] = NoFile
             /\ disk' = [disk EXCEPT ![f] = <<>>]
             /\ UNCHANGED <<readersOf, writersOf>>

Next == \E f \in Files :
          \/ Create(f)
          \/ \E c \in Clients : \/ StartReading(c, f)
                                \/ StopReading(c, f)
                                \/ StartWriting(c, f)
                                \/ Write(c, f)
                                \/ StopWriting(c, f)

Spec == Init /\ [][Next]_vars
=============================================================================
