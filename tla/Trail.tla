-------------------------------- MODULE Trail --------------------------------
(***************************************************************************)
(* What the "<" and ">" buttons of the file explorer promise: the places   *)
(* that were visited lie on a trail, and one is looked at.  A visit drops  *)
(* what lies ahead and puts the new place there; the buttons go a step     *)
(* along the trail and change nothing of it.                               *)
(*                                                                         *)
(* A step to a place that cannot be read is the exception the code makes   *)
(* (go_back, go_forward in file_explorer_state.h): one stays where one is, *)
(* and that place stands on the trail in place of the one that is lost.    *)
(***************************************************************************)
EXTENDS Naturals, Sequences

CONSTANT Places

VARIABLES trail, pos

Init == trail = <<>> /\ pos = 0

Visit(p) ==
  /\ pos = 0 \/ trail[pos] # p
  /\ trail' = Append(SubSeq(trail, 1, pos), p)
  /\ pos' = pos + 1

Step(next) ==
  /\ pos # 0 /\ next \in DOMAIN trail
  /\ pos' = next
  /\ trail' = trail \/ trail' = [trail EXCEPT ![next] = trail[pos]]

Next ==
  \/ \E p \in Places : Visit(p)
  \/ Step(pos - 1)
  \/ Step(pos + 1)

Spec == Init /\ [][Next]_<<trail, pos>>
=============================================================================
