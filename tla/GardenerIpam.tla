---------------------------- MODULE GardenerIpam ----------------------------
(***************************************************************************)
(* The whole service on its platform cluster: startup (app/run.go), the    *)
(* Cluster controller, the config controller with its refreshes, crashes   *)
(* and restarts, a second replica that waits for the leader lease, and the *)
(* users and controllers around it.                                        *)
(***************************************************************************)
EXTENDS ClusterController, ConfigController

CONSTANT LeaderElection   \* the service runs with --leader-elect and a second replica

ASSUME LeaderElectionAssumption == LeaderElection \in BOOLEAN

VARIABLE standby   \* the memory of the second replica: its config and its IPAM state

NoStandby == [cfg |-> NoObject, ipam |-> EmptyStore]

vars == <<clusters, ccs, stored, nextUid, proc, config, queue, cfgQueued, used,
          ipam, lock, wk, rs, cf, standby>>

(***************************************************************************)
(* Run: fetch the config, restore the IPAM state, start the manager.  If a *)
(* step fails, the process exits and is started again.                     *)
(***************************************************************************)
Start ==
    /\ proc = "down" /\ Exists(stored)
    /\ proc' = "booting"
    /\ config' = stored.spec
    /\ BeginRestore(stored.spec)
    /\ UNCHANGED <<clusters, ccs, stored, nextUid, queue, cfgQueued, ipam, wk, cf, standby>>

(* The memory of the process is lost. *)
ProcessExits ==
    /\ proc' = "down" /\ config' = NoObject /\ queue' = {} /\ cfgQueued' = FALSE
    /\ ipam' = EmptyStore /\ lock' = FALSE
    /\ wk' = IdleWorker /\ rs' = IdleRestore /\ cf' = IdleConfigWorker

(* The manager starts its watches: every existing object appears as a      *)
(* creation, which the watch on ClusterConfigs drops.                      *)
StartWatches(cfg) ==
    /\ queue' = {c \in RelevantClusters(cfg) : clusters[c].op # "ignore"}
    /\ cfgQueued' = (Exists(stored) /\ stored.op # "ignore")

(* Run restores the IPAM state before it starts the manager, which waits   *)
(* for the lease.  The second replica was started together with this one   *)
(* and has the same state; it waits.                                       *)
StartManager ==
    /\ proc = "booting" /\ rs.pc = "done"
    /\ proc' = "running"
    /\ rs' = IdleRestore
    /\ StartWatches(config)
    /\ standby' = IF LeaderElection /\ standby = NoStandby
                  THEN [cfg |-> config, ipam |-> ipam] ELSE standby
    /\ UNCHANGED <<clusters, ccs, stored, nextUid, config, used, ipam, lock, wk, cf>>

BootFails ==
    /\ proc = "booting" /\ rs.pc = "failed"
    /\ ProcessExits
    /\ UNCHANGED <<clusters, ccs, stored, nextUid, used, standby>>

Crash ==
    /\ proc # "down"
    /\ used.crashes < MaxCrashes
    /\ used' = [used EXCEPT !.crashes = @ + 1]
    /\ ProcessExits
    /\ UNCHANGED <<clusters, ccs, stored, nextUid, standby>>

(* The leader is gone: the second replica gets the lease, and its manager  *)
(* starts the watches.                                                     *)
TakeOver ==
    /\ proc = "down" /\ Exists(standby.cfg)
    /\ proc' = "running"
    /\ config' = standby.cfg /\ ipam' = standby.ipam
    /\ standby' = NoStandby
    /\ StartWatches(standby.cfg)
    /\ UNCHANGED <<clusters, ccs, stored, nextUid, used, lock, wk, rs, cf>>

-----------------------------------------------------------------------------
Init ==
    /\ clusters = NoClusters
    /\ ccs = NoClusterConfigs
    /\ stored \in {NewConfig(cfg) : cfg \in InitialConfigs}
    /\ nextUid = 1
    /\ proc = "down"
    /\ config = NoObject
    /\ queue = {}
    /\ cfgQueued = FALSE
    /\ used = [names |-> {}, failures |-> 0, edits |-> 0, crashes |-> 0]
    /\ ipam = EmptyStore
    /\ lock = FALSE
    /\ wk = IdleWorker
    /\ rs = IdleRestore
    /\ cf = IdleConfigWorker
    /\ standby = NoStandby

Next ==
    \/ Environment /\ UNCHANGED <<ipam, lock, wk, rs, cf, standby>>
    \/ ClusterReconcile /\ UNCHANGED <<rs, cf, standby>>
    \/ ConfigReconcile /\ UNCHANGED <<wk, standby>>
    \/ RestoreStep /\ UNCHANGED <<wk, cf, standby>>
    \/ Start \/ StartManager \/ BootFails \/ Crash \/ TakeOver

Spec == Init /\ [][Next]_vars

(***************************************************************************)
(* Fairness.  A reconciliation and a Restore go on once begun, the process *)
(* is restarted when it is down, and the garbage collector gets round to   *)
(* every object.  The work queue is first-in first-out, so a queued name   *)
(* is not passed over for ever: strong fairness of fetching it.            *)
(***************************************************************************)
Fairness ==
    /\ WF_vars(ClusterReconcile /\ UNCHANGED <<rs, cf, standby>>)
    /\ \A c \in Cluster : SF_vars(FetchCluster(c) /\ UNCHANGED <<rs, cf, standby>>)
    /\ WF_vars(ConfigReconcile /\ UNCHANGED <<wk, standby>>)
    /\ WF_vars(RestoreStep /\ UNCHANGED <<wk, cf, standby>>)
    /\ WF_vars(Start \/ StartManager \/ BootFails)
    /\ \A c \in Cluster, r \in Rule :
        WF_vars(GarbageCollect(c, r) /\ UNCHANGED <<ipam, lock, wk, rs, cf, standby>>)

FairSpec == Spec /\ Fairness

-----------------------------------------------------------------------------
TypeOK ==
    /\ clusters \in [Cluster -> ClusterObject \cup {NoObject}]
    /\ ccs \in [Cluster -> [Rule -> ClusterConfig \cup {NoObject}]]
    /\ stored \in ConfigObject \cup {NoObject}
    /\ nextUid \in Nat
    /\ proc \in {"down", "booting", "running"}
    /\ config \in Configs \cup {NoObject}
    /\ queue \in SUBSET Cluster
    /\ cfgQueued \in BOOLEAN
    /\ used \in [names: SUBSET Cluster, failures: Nat, edits: Nat, crashes: Nat]
    /\ IsStore(ipam)
    /\ lock \in BOOLEAN
    /\ wk \in Worker
    /\ rs \in Restoration
    /\ cf \in ConfigWorker
    /\ standby.cfg \in Configs \cup {NoObject} /\ IsStore(standby.ipam)

(***************************************************************************)
(* The CIDRs that rule r holds for Cluster c: those the annotation of the  *)
(* existing Cluster records, and those of its ClusterConfig as long as it  *)
(* has the CIDR management finalizer.                                      *)
(***************************************************************************)
Held(c, r) ==
    (IF Exists(clusters[c]) THEN CidrsOf(clusters[c].ann[r]) ELSE {}) \cup
    (IF Exists(ccs[c][r]) /\ ccs[c][r].fin THEN CidrsOf(ccs[c][r].patches) ELSE {})

AllHeld == UNION {Held(c, r) : c \in Cluster, r \in Rule}

(* No two rules, of one Cluster or of two, ever hold overlapping CIDRs:    *)
(* the "disjunct CIDRs" the service promises (docs/config/config.md).      *)
HeldDisjoint ==
    \A c, d \in Cluster : \A r, s \in Rule :
        <<c, r>> # <<d, s>> =>
            \A x \in Held(c, r), y \in Held(d, s) : ~Overlaps(x, y)

(* While the controllers run, every CIDR somebody holds is blocked in the  *)
(* IPAM state, so that it cannot be handed out again.                      *)
HeldBlocked == proc = "running" => AllHeld \subseteq Registered(ipam)

(* What a Cluster has once been given it keeps: as long as the Cluster     *)
(* lives, no entry of its applied-rules annotation changes or disappears   *)
(* ("A Cluster will never have a rule with the same ID applied twice",     *)
(* config_types.go).                                                       *)
KeepsAppliedRules ==
    \A c \in Cluster :
        Exists(clusters[c]) /\ Exists(clusters'[c]) /\ clusters'[c].uid = clusters[c].uid =>
            \A r \in Rule : clusters[c].ann[r] \subseteq clusters'[c].ann[r]

(* No step takes anything from the applied-rules annotation of a Cluster.  *)
AppliedRulesKept == [][KeepsAppliedRules]_vars

(* A held ClusterConfig never loses its finalizer while the Cluster it was *)
(* made for exists.                                                        *)
FinalizerKept ==
    [][\A c \in Cluster, r \in Rule :
        /\ Exists(ccs[c][r]) /\ ccs[c][r].fin
        /\ Exists(ccs'[c][r]) => ~ccs'[c][r].fin
        => ~(Exists(clusters[c]) /\ clusters[c].uid = ccs[c][r].owner)]_vars

-----------------------------------------------------------------------------
(* Nothing is left to do: the controllers are idle with empty queues, and  *)
(* the garbage collector has no work.                                      *)
Quiet ==
    /\ proc = "running" /\ queue = {} /\ ~cfgQueued
    /\ wk.pc = "idle" /\ rs.pc = "idle" /\ cf.pc = "idle"
    /\ \A c \in Cluster, r \in Rule :
        Exists(ccs[c][r]) /\ ~ccs[c][r].deleting =>
            Exists(clusters[c]) /\ clusters[c].uid = ccs[c][r].owner

(* Whenever the service has come to rest, every Cluster a rule of the      *)
(* config matches has had the rule applied, and each rule in its           *)
(* annotation has a ClusterConfig with exactly these injections.           *)
QuietServed ==
    Quiet /\ Exists(config) => \A c \in Cluster :
        Exists(clusters[c]) /\ clusters[c].op # "ignore" =>
            /\ \A i \in DOMAIN config.rules :
                RuleMatches(config.rules[i], clusters[c].purpose) =>
                    clusters[c].ann[config.rules[i].id] # {}
            /\ Matches(config, clusters[c].purpose) =>
                \A r \in Rule : clusters[c].ann[r] # {} =>
                    Exists(ccs[c][r]) /\ ccs[c][r].patches = clusters[c].ann[r]

(* Whenever the service has come to rest, the IPAM state blocks nothing    *)
(* but its top level (the parents, and CIDRs whose parent is not in the    *)
(* config any longer) and what somebody holds: no acquired range is lost.  *)
QuietNoLeak ==
    Quiet => \A x \in Registered(ipam) : ipam[x] # NoCidr => x \in AllHeld

(* Whenever the service has come to rest, no ClusterConfig of a deleted    *)
(* Cluster still holds its CIDRs.                                          *)
QuietNoOrphans ==
    Quiet => \A c \in Cluster, r \in Rule :
        Exists(ccs[c][r]) /\ ccs[c][r].fin => Exists(clusters[c])

(* Whenever the service has come to rest, it works with the config that is *)
(* stored, or with none if that is in deletion.  Only a config with the    *)
(* "ignore" annotation does not take effect.                               *)
QuietConfigCurrent ==
    Quiet /\ Exists(stored) /\ stored.op # "ignore" =>
        config = IF stored.deleting THEN NoObject ELSE stored.spec

(* Whenever the service has come to rest, every Cluster refers to the      *)
(* ClusterConfig of every rule that matches it, without which the CIDRs    *)
(* never reach the Shoot, and to nothing that does not exist.              *)
QuietReferenced ==
    Webhooks /\ Quiet /\ Exists(config) => \A c \in Cluster :
        Exists(clusters[c]) /\ clusters[c].op # "ignore" =>
            /\ MatchingRules(config, clusters[c].purpose) \subseteq clusters[c].refs
            /\ \A r \in clusters[c].refs : r \in Rule /\ Exists(ccs[c][r])


(* The Restore has failed, or something has gone wrong so that it will.    *)
Troubled == rs.pc = "failed" \/ rs.err \/ rs.bad

(* The IPAM state can be rebuilt from whatever the service has written:    *)
(* a Restore only gets into trouble by a step in which one of its own      *)
(* calls fails or loses its response, whatever has failed before.          *)
RestoreSucceeds ==
    [][~Troubled /\ Troubled' => used'.failures > used.failures]_vars
-----------------------------------------------------------------------------
(* Every Cluster that a rule matches eventually has the rule applied, with *)
(* a ClusterConfig, unless it is deleted first.                            *)
EventuallyServed ==
    \A c \in Cluster :
        Exists(clusters[c]) ~>
            \/ ~Exists(clusters[c])
            \/ \A i \in DOMAIN stored.spec.rules :
                RuleMatches(stored.spec.rules[i], clusters[c].purpose) =>
                    /\ clusters[c].ann[stored.spec.rules[i].id] # {}
                    /\ Exists(ccs[c][stored.spec.rules[i].id])

(* The ClusterConfigs of a deleted Cluster eventually disappear, and the   *)
(* CIDRs they hold are released.  A crash is excepted: a Cluster that is   *)
(* deleted while the process boots is forgotten (handleDelete is only      *)
(* reached through a request).                                             *)
EventuallyReleased ==
    \A c \in Cluster, r \in Rule :
        ~Exists(clusters[c]) /\ Exists(ccs[c][r]) ~>
            \/ Exists(clusters[c])
            \/ used.crashes > 0
            \/ /\ ~Exists(ccs[c][r])
               /\ \A x \in Registered(ipam) : ipam[x] # NoCidr => x \in AllHeld

-----------------------------------------------------------------------------
(* The service implements the ledger of who holds what.                    *)
Promise ==
    INSTANCE Ledger WITH
        Holder <- Cluster,
        Slot <- Rule,
        alive <- {c \in Cluster : Exists(clusters[c])},
        held <- [c \in Cluster |-> [r \in Rule |-> Held(c, r)]]

(* Every step of the service is a step of the ledger or changes nothing in *)
(* it: CIDRs are granted only where nobody holds an overlapping one, a     *)
(* rule's CIDRs never change, and nothing is taken from a living Cluster.  *)
ImplementsLedger == Promise!Spec
=============================================================================
