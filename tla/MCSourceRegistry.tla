--------------------------- MODULE MCSourceRegistry ---------------------------
(* Instances of SourceRegistry for TLC. *)
EXTENDS SourceRegistry, TLC

CONSTANTS k1, k2, p1, p2

\* Both repositories may select p2; p1 is for k1 alone.
OneShared == k1 :> {p1, p2} @@ k2 :> {p2}
\* Every GitRepository may select every pin.
AllPins == [k \in Repos |-> Pins]

Symmetry == Permutations(EntryIds) \cup Permutations(GitWorkers)
===============================================================================
