----------------------------- MODULE MCAccounts -----------------------------
(* Small instances of Accounts for TLC.                                    *)
EXTENDS Accounts

CONSTANTS a1, old

(* Graph knows the account old by the id of a1: a row of before the user's *)
(* own id.                                                                 *)
ProfileIds == [a \in Accounts |-> IF a = old THEN a1 ELSE a]
=============================================================================
