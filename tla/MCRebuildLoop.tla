---------------------------- MODULE MCRebuildLoop ----------------------------
(***************************************************************************)
(* Inputs of the loops: ranges that contain each other over three levels,  *)
(* that are siblings, and that are apart; one ClusterConfig with up to     *)
(* three patches, one with up to two; every valid set of at most two       *)
(* parents.                                                                *)
(***************************************************************************)
EXTENDS RebuildLoop

CONSTANTS k1, k2

Ranges == {<<0>>, <<0, 0>>, <<0, 0, 0>>, <<0, 1>>, <<1>>}

PatchesUpTo(n) ==
    UNION {{{[path |-> j, cidr |-> f[j]] : j \in 1..m} : f \in [1..m -> Ranges]} : m \in 0..n}

ParentSets == {P \in SUBSET Ranges : Cardinality(P) <= 2 /\ DisjointRanges(P)}

AllInputs ==
    {[parents |-> P, ccs |-> [k \in Key |-> IF k = k1 THEN s ELSE t]] :
        P \in ParentSets, s \in PatchesUpTo(3), t \in PatchesUpTo(2)}
=============================================================================
