------------------------------- MODULE Ledger -------------------------------
(***************************************************************************)
(* What the service promises, without saying how: a ledger of the CIDRs    *)
(* that each holder (a Cluster) holds in each slot (a rule).  A slot is    *)
(* filled once, with ranges that overlap nothing anybody else holds; it    *)
(* keeps them as long as the holder lives, and may be emptied afterwards.  *)
(***************************************************************************)
EXTENDS Cidr

CONSTANTS Holder, Slot

VARIABLES
    alive,  \* the holders that exist
    held    \* [Holder -> [Slot -> set of CIDRs]]

Init ==
    /\ alive = {}
    /\ held = [h \in Holder |-> [s \in Slot |-> {}]]

Arrive(h) ==
    /\ h \notin alive
    /\ alive' = alive \cup {h}
    /\ UNCHANGED held

(* What had been granted but not written down everywhere goes at once. *)
Leave(h) ==
    /\ h \in alive
    /\ alive' = alive \ {h}
    /\ \E S \in SUBSET Slot : held' = [held EXCEPT ![h] = [s \in Slot |-> IF s \in S THEN {} ELSE @[s]]]

OverlapsOthers(x, h, s) ==
    \E g \in Holder, t \in Slot : <<g, t>> # <<h, s>> /\ \E y \in held'[g][t] : Overlaps(x, y)

Grant(h) ==
    /\ held' = [held EXCEPT ![h] = held'[h]]
    /\ \A s \in Slot :
        \/ held'[h][s] = held[h][s]
        \/ held[h][s] = {} /\ \A x \in held'[h][s] : ~OverlapsOthers(x, h, s)
    /\ UNCHANGED alive

Return(h, s) ==
    /\ h \notin alive
    /\ held' = [held EXCEPT ![h][s] = {}]
    /\ UNCHANGED alive

Next ==
    \E h \in Holder :
        Arrive(h) \/ Leave(h) \/ Grant(h) \/ \E s \in Slot : Return(h, s)

Spec == Init /\ [][Next]_<<alive, held>>
=============================================================================
