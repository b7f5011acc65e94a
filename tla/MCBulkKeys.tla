----------------------------- MODULE MCBulkKeys -----------------------------
(* BulkKeys with three names and two namespaces, for TLC. *)
EXTENDS BulkKeys, TLC

CONSTANTS c1, c2

MCNames == 1 .. 3
MCCalls == {c1, c2}

(* Ids in namespace "a" in the order of the names; with the largest in     *)
(* front, which the bisection loses; with the smallest at the end, which   *)
(* it takes for another; other ids in "b".                                 *)
MCHashes ==
    {[a |-> p, b |-> <<5, 6, 4>>] : p \in {<<1, 2, 3>>, <<3, 1, 2>>, <<2, 3, 1>>}}

(* One key, and all of them. *)
MCSlices == {<<2>>, <<3, 2, 1>>}
MCSymmetry == Permutations(MCCalls)

(* Two keys, as in the test of BulkRead. *)
TwoKeys == {<<2, 3>>}

=============================================================================
