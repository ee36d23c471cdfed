--------------------------- MODULE MCObjectRegistry ---------------------------
(* An instance of ObjectRegistry for TLC. *)
EXTENDS ObjectRegistry, TLC

CONSTANTS u1, u2, b1, x, y, z

\* The ETags of u1 tell its versions apart, u2 repeats its only one, b1 has the
\* ETags that u1 has.
SomeEtags == u1 :> <<x, y>> @@ u2 :> <<z, z>> @@ b1 :> <<x, y>>
===============================================================================
