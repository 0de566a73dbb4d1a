--------------------------- MODULE MCClientThreads ---------------------------
(***************************************************************************)
(* ClientThreads with a small watched directory and a small pool.          *)
(***************************************************************************)
EXTENDS ClientThreads

(* The second content that is written is shorter than the first.           *)
LongThenShort == <<2, 1>>
=============================================================================
