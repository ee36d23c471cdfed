---------------------------- MODULE MCTargetSecret ----------------------------
(* Instances of TargetSecret for TLC: a SopsSecret and a SopsSecretManifest. *)
EXTENDS TargetSecret, TLC

CONSTANTS c1, c2, kA, kB

TwoKinds == c1 :> kA @@ c2 :> kB
OneKind == [c \in CRs |-> kA]
OneNamespace == [n \in Names |-> Names]
Symmetry == Permutations(Names)
===============================================================================
