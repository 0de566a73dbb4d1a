---------------------------- MODULE PoolConstants ----------------------------
(***************************************************************************)
(* The threads of a pool and what they are given to do.  A thread that     *)
(* runs a task is written as the task, so a task is none of its other      *)
(* states.                                                                 *)
(***************************************************************************)
CONSTANTS Workers, Tasks

ASSUME PoolAssumption == Tasks \cap {"ready", "waiting", "gone"} = {}
=============================================================================
