----------------------------- MODULE MCDecryptAge -----------------------------
(* An instance of DecryptAge for TLC: two documents with a key each. *)
EXTENDS DecryptAge, TLC

CONSTANTS d1, d2, k1, k2

OwnKeys == d1 :> {k1} @@ d2 :> {k2}
===============================================================================
