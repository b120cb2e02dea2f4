---------------------------- MODULE RestoreProofs ----------------------------
(***************************************************************************)
(* Startup, a Restore and a crash preserve the invariant of Claims.tla: a  *)
(* Restore that succeeds has found every CIDR that somebody holds, so that *)
(* the rebuilt IPAM state blocks all of them.                              *)
(***************************************************************************)
EXTENDS ClaimProofs

-----------------------------------------------------------------------------
(* While a Restore runs, the Cluster controller does not.                  *)

(* A Restore runs while the process boots, and the IPAM state is empty. *)
LEMMA RestoreRuns ==
    ASSUME Steady, rs.pc \notin {"idle", "done"}
    PROVE  /\ proc = "booting" /\ ~Ready /\ wk = IdleWorker /\ ipam = EmptyStore
           /\ queue \subseteq used.names
  <1>1. proc = "booting"
    BY DEF Steady, Phases, IdleRestore
  <1> QED BY <1>1 DEF Steady, Phases, Named, Ready

(* What a step of a Restore that does not end it has to show. *)
LEMMA RestoreFrame ==
    ASSUME Steady, rs.pc \notin {"idle", "done"}, rs'.pc # "done",
           UNCHANGED <<proc, wk, cf, standby>>, ipam' = EmptyStore,
           Named', NEW G, AnnotationCopies(G)', ClusterConfigCopies(G)', RestoreClaims(G)',
           DisjointClaims(G), InsideParents(G)
    PROVE  Steady' /\ ClaimsOK(G)'
  <1>1. proc = "booting" /\ wk = IdleWorker
    BY RestoreRuns
  <1>2. ~Ready'
    BY <1>1 DEF Ready
  <1>3. Phases' /\ Finalized' /\ Blocked(G)'
    BY <1>1, <1>2 DEF Steady, Phases, Finalized, Blocked
  <1>4. WorkerClaims(G)'
    BY <1>1, IdleWorkerClaims
  <1> QED BY <1>3, <1>4 DEF Steady, ClaimsOK

(* The same for a step that changes no object. *)
LEMMA RestoreQuietStep ==
    ASSUME Steady, rs.pc \notin {"idle", "done"}, rs'.pc # "done",
           UNCHANGED <<clusters, ccs, ipam, queue, proc, wk, cf, standby>>,
           used'.names = used.names, NEW G, ClaimsOK(G), RestoreClaims(G)'
    PROVE  Steady' /\ ClaimsOK(G)'
  <1>1. ipam' = EmptyStore
    BY RestoreRuns
  <1>2. Named'
    BY DEF Steady, Named, Exists
  <1>3. AnnotationCopies(G)' /\ ClusterConfigCopies(G)'
    BY UnchangedTame, ObjectsTame DEF Steady, ClaimsOK
  <1> QED BY <1>1, <1>2, <1>3, RestoreFrame DEF ClaimsOK

(* A Restore fails and changes nothing. *)
LEMMA RestoreFailedClaims ==
    ASSUME Steady, rs.pc \notin {"idle", "done"}, RestoreReturns("failed"),
           UNCHANGED <<clusters, ccs, ipam, queue, proc, wk, cf, standby>>,
           used'.names = used.names, NEW G, ClaimsOK(G)
    PROVE  Steady' /\ ClaimsOK(G)'
  <1>1. rs' = [IdleRestore EXCEPT !.pc = "failed"]
    BY DEF RestoreReturns
  <1>2. rs'.pc # "done"
    BY <1>1 DEF IdleRestore
  <1>3. RestoreClaims(G)'
    BY <1>1, IdleRestoreClaims
  <1> QED BY <1>2, <1>3, RestoreQuietStep

-----------------------------------------------------------------------------
(* The steps of a Restore.                                                 *)

(* FetchClusterConfigs *)
LEMMA RestoreListClaims ==
    ASSUME IndInv, Steady, NEW G, ClaimsOK(G), RestoreList, UNCHANGED <<wk, cf, standby>>
    PROVE  Steady' /\ ClaimsOK(G)'
  <1>1. /\ rs.pc = "listCCs" /\ rs \in Restoration
        /\ UNCHANGED <<clusters, ccs, ipam, queue, proc, wk, cf, standby>>
    BY DEF RestoreList, restoreUnchanged, IndInv, ServiceOK, RestoreOK
  <1>2. CASE ApiFails("list") /\ RestoreReturns("failed")
    <2>1. used'.names = used.names
      BY <1>2, NamesKept
    <2> QED BY <1>1, <1>2, <2>1, RestoreFailedClaims
  <1>3. CASE rs' = [rs EXCEPT !.pc = "check", !.rest = ccs] /\ UNCHANGED used
    <2>1. /\ rs'.pc = "check" /\ rs'.rest = ccs /\ rs'.todo = rs.todo /\ rs'.cfg = rs.cfg
          /\ rs'.handled = rs.handled /\ rs'.update = rs.update /\ rs'.err = rs.err
      BY <1>1, <1>3 DEF Restoration
    <2>2. /\ Configured /\ Listing /\ TodoOK(G) /\ HandledOK(G) /\ OrphanOK
          /\ ClusterConfigCopies(G) /\ Named
      BY DEF ClaimsOK, RestoreClaims, Steady
    <2>3. ASSUME NEW c \in Cluster, NEW r \in Rule, Exists(ccs[c][r])
          PROVE  Left(G, c, r, ccs[c][r], ccs[c][r])
      BY <1>1, <2>2, <2>3 DEF Left, Listing, ClusterConfigCopies, Named, Live
    <2>4. RestOK(G)'
      BY <1>1, <1>3, <2>1, <2>3 DEF RestOK, Left, Exists
    <2>5. TodoOK(G)' /\ HandledOK(G)'
      BY <1>1, <1>3, <2>1, <2>2 DEF TodoOK, HandledOK, Exists, Entitled
    <2>6. Configured' /\ Listing' /\ ApplyOK(G)' /\ OrphanOK'
      BY <1>1, <2>1, <2>2 DEF Configured, Listing, ApplyOK, OrphanOK
    <2>7. Covered'
      BY <1>1, <2>1, <2>2 DEF Covered, Listing, Exists, Live
    <2>8. RestoreClaims(G)'
      BY <2>4, <2>5, <2>6, <2>7 DEF RestoreClaims
    <2> QED BY <1>1, <1>3, <2>1, <2>8, RestoreQuietStep
  <1> QED BY <1>2, <1>3 DEF RestoreList

(* The integrity check of a Cluster. *)
LEMMA RestoreCheckClaims ==
    ASSUME IndInv, Steady, NEW G, ClaimsOK(G), NEW c \in Cluster, RestoreCheck(c),
           UNCHANGED <<wk, cf, standby>>
    PROVE  Steady' /\ ClaimsOK(G)'
  <1> DEFINE applied == rs.todo[c].ann
             ri == CheckClusterConfigs(applied, rs.rest[c])
  <1>1. /\ rs.pc = "check" /\ rs \in Restoration /\ Exists(rs.todo[c])
        /\ UNCHANGED <<clusters, ccs, ipam, queue, used, proc, wk, cf, standby>>
    BY DEF RestoreCheck, restoreUnchanged, IndInv, ServiceOK, RestoreOK
  <1>2. /\ Configured /\ TodoOK(G) /\ RestOK(G) /\ HandledOK(G) /\ Covered
    BY DEF ClaimsOK, RestoreClaims
  <1>3. ASSUME NEW r \in Rule, Exists(rs.rest[c][r])
        PROVE  /\ rs.rest[c][r].fin /\ rs.rest[c][r].patches = G[c][r]
               /\ Live(ccs[c][r])
    BY <1>1, <1>2, <1>3 DEF RestOK, Left
  <1>4. /\ \A r \in Rule : ri.create[r] = IF Exists(rs.rest[c][r]) THEN {} ELSE applied[r]
        /\ ri.update = NoUpdates
    <2>1. rs.rest[c] \in [Rule -> ClusterConfig \cup {NoObject}]
      BY <1>1 DEF Restoration
    <2>2. \A r \in Rule : Copy(applied[r], G[c][r])
      BY <1>1, <1>2 DEF TodoOK
    <2> QED BY <1>3, <2>1, <2>2, CheckClaims
  <1>5. /\ rs'.todo = [rs.todo EXCEPT ![c] = NoObject]
        /\ rs'.rest = [rs.rest EXCEPT ![c] = NoConfigs]
        /\ rs'.handled = [rs.handled EXCEPT ![c] = rs.rest[c]]
        /\ rs'.c = c /\ rs'.create = ri.create /\ rs'.update = ri.update
        /\ rs'.cfg = rs.cfg /\ rs'.err = rs.err
        /\ rs'.pc = IF ri.create = NoInjections /\ ri.update = NoUpdates THEN "check" ELSE "apply"
    BY <1>1 DEF RestoreCheck, Restoration
  <1> HIDE DEF ri
  <1>6. /\ rs'.pc \in {"check", "apply"}
        /\ rs'.pc = "check" => \A r \in Rule : rs'.create[r] = {}
    BY <1>5 DEF NoInjections
  <1>7. /\ \A d \in Cluster : rs'.todo[d] = IF d = c THEN NoObject ELSE rs.todo[d]
        /\ \A d \in Cluster : rs'.rest[d] = IF d = c THEN NoConfigs ELSE rs.rest[d]
        /\ \A d \in Cluster : rs'.handled[d] = IF d = c THEN rs.rest[c] ELSE rs.handled[d]
    BY <1>1, <1>5 DEF Restoration
  <1>8. ~Exists(rs'.todo[c]) /\ \A r \in Rule : ~Exists(rs'.rest[c][r])
    BY <1>7 DEF Exists, NoConfigs
  <1>9. Configured' /\ Listing' /\ OrphanOK'
    BY <1>1, <1>2, <1>4, <1>5, <1>6 DEF Configured, Listing, OrphanOK
  <1>10. TodoOK(G)'
    BY <1>1, <1>2, <1>7, <1>8 DEF TodoOK, Exists, Entitled
  <1>11. RestOK(G)'
    <2> SUFFICES ASSUME NEW d \in Cluster, NEW r \in Rule, Exists(rs'.rest[d][r])
                 PROVE  Left(G, d, r, rs.rest[d][r], ccs[d][r])' /\ rs'.rest[d][r] = rs.rest[d][r]
      BY <1>1 DEF RestOK, Exists
    <2>1. d # c
      BY <1>8
    <2>2. rs'.rest[d] = rs.rest[d] /\ rs'.todo[d] = rs.todo[d]
      BY <1>7, <2>1
    <2> QED BY <1>1, <1>2, <2>2 DEF RestOK, Left, Exists, Live
  <1>12. HandledOK(G)'
    <2> SUFFICES ASSUME NEW d \in Cluster, NEW r \in Rule, Exists(rs'.handled[d][r])
                 PROVE  rs'.handled[d][r].patches = G[d][r] /\ ~Exists(rs'.todo[d])
      BY DEF HandledOK, Exists
    <2> QED BY <1>2, <1>3, <1>7, <1>8 DEF HandledOK
  <1>13. ApplyOK(G)'
    <2>1. c \in used.names /\ Entitled(c)' /\ \A r \in Rule : Copy(applied[r], G[c][r])
      BY <1>1, <1>2 DEF TodoOK, Entitled
    <2>2. \A r \in Rule : Copy(rs'.create[r], G[c][r])
      BY <1>4, <1>5, <2>1 DEF Copy
    <2> QED BY <1>1, <1>5, <1>8, <2>1, <2>2 DEF ApplyOK, Exists
  <1>14. Covered'
    <2> SUFFICES ASSUME NEW d \in Cluster, NEW r \in Rule
                 PROVE  /\ Exists(ccs[d][r]) /\ ~ccs[d][r].fin => Exists(rs'.rest[d][r])
                        /\ ~rs.err /\ Exists(clusters[d]) /\ clusters[d].ann[r] # {} =>
                            \/ Exists(rs'.todo[d])
                            \/ rs'.pc = "apply" /\ d = rs'.c /\ rs'.create[r] # {}
                            \/ Exists(rs'.handled[d][r])
                        /\ ~rs.err /\ Live(ccs[d][r]) =>
                            \/ Exists(rs'.rest[d][r])
                            \/ Exists(rs'.handled[d][r])
      BY <1>1, <1>5 DEF Covered, Exists, Live
    <2>1. /\ Exists(ccs[d][r]) /\ ~ccs[d][r].fin => Exists(rs.rest[d][r])
          /\ ~rs.err /\ Exists(clusters[d]) /\ clusters[d].ann[r] # {} =>
                Exists(rs.todo[d]) \/ Exists(rs.handled[d][r])
          /\ ~rs.err /\ Live(ccs[d][r]) => Exists(rs.rest[d][r]) \/ Exists(rs.handled[d][r])
      BY <1>1, <1>2 DEF Covered, Checking
    <2>2. CASE d # c
      BY <1>7, <2>1, <2>2
    <2>3. CASE d = c
      <3>1. ~Exists(rs.handled[c][r])
        BY <1>1, <1>2 DEF HandledOK
      <3>2. Exists(ccs[c][r]) => ccs[c][r].fin
        BY <1>3, <2>1, <2>3 DEF Live
      <3>3. Exists(clusters[c]) => clusters[c].ann = applied
        BY <1>1, <1>2 DEF TodoOK
      <3>4. CASE Exists(rs.rest[c][r])
        BY <1>7, <2>3, <3>2, <3>4
      <3>5. CASE ~Exists(rs.rest[c][r])
        <4>1. rs'.create[r] = applied[r]
          BY <1>4, <1>5, <3>5
        <4> QED BY <1>5, <1>6, <2>1, <2>3, <3>1, <3>2, <3>3, <3>5, <4>1
      <3> QED BY <3>4, <3>5
    <2> QED BY <2>2, <2>3
  <1>15. RestoreClaims(G)'
    BY <1>9, <1>10, <1>11, <1>12, <1>13, <1>14 DEF RestoreClaims
  <1> QED BY <1>1, <1>6, <1>15, RestoreQuietStep

(* RestorationInstruction.Apply: a ClusterConfig is created. *)
LEMMA RestoreCreateClaims ==
    ASSUME IndInv, Steady, NEW G, ClaimsOK(G), RestoreCreate, UNCHANGED <<wk, cf, standby>>
    PROVE  Steady' /\ ClaimsOK(G)'
  <1>1. /\ rs.pc = "apply" /\ rs \in Restoration /\ rs.c \in Cluster
        /\ UNCHANGED <<ipam, proc, wk, cf, standby>>
    BY DEF RestoreCreate, IndInv, ServiceOK, RestoreOK
  <1>2. PICK c \in Cluster : c = rs.c
    BY <1>1
  <1>3. PICK r \in Rule, ok \in BOOLEAN :
            /\ rs.create[r] # {}
            /\ ApplyCreate(c, r, rs.uid, rs.create[r], ok)
            /\ rs' = [rs EXCEPT !.create[r] = {}, !.bad = @ \/ ~ok]
    BY <1>2 DEF RestoreCreate
  <1>4. /\ rs'.pc = "apply" /\ rs'.cfg = rs.cfg /\ rs'.todo = rs.todo /\ rs'.rest = rs.rest
        /\ rs'.handled = rs.handled /\ rs'.c = c /\ rs'.update = rs.update /\ rs'.err = rs.err
        /\ \A s \in Rule : rs'.create[s] = IF s = r THEN {} ELSE rs.create[s]
        /\ rs.bad => rs'.bad
        /\ ~ok => rs'.bad
    BY <1>1, <1>2, <1>3 DEF Restoration
  <1>5. /\ Configured /\ TodoOK(G) /\ RestOK(G) /\ HandledOK(G) /\ ApplyOK(G) /\ OrphanOK /\ Covered
        /\ AnnotationCopies(G) /\ ClusterConfigCopies(G) /\ Named
    BY DEF ClaimsOK, RestoreClaims, Steady
  <1>6. /\ c \in used.names /\ Entitled(c) /\ rs.create[r] = G[c][r]
        /\ \A s \in Rule : ~Exists(rs.rest[c][s])
    BY <1>1, <1>2, <1>3, <1>5 DEF ApplyOK, Copy
  <1>7. PICK uid \in Nat, patches \in SUBSET Patch :
            uid = rs.uid /\ patches = rs.create[r] /\ patches = G[c][r]
    BY <1>1, <1>6 DEF Restoration
  <1>8. /\ UNCHANGED <<clusters, queue>> /\ used'.names = used.names
        /\ \/ UNCHANGED ccs
           \/ /\ ~Exists(ccs[c][r])
              /\ \A d \in Cluster, s \in Rule :
                    ccs'[d][s] = IF d = c /\ s = r THEN NewClusterConfig(uid, patches)
                                 ELSE ccs[d][s]
    <2>1. \E b \in BOOLEAN : ApplyCreate(c, r, uid, patches, b)
      BY <1>3, <1>7
    <2>2. /\ UNCHANGED <<clusters, queue>> /\ used'.names = used.names
          /\ Created(c, r, uid, patches)
      BY <2>1, ApplyCreateEffect
    <2> QED BY <2>2 DEF Created
  <1>8a. rs'.bad \/ Exists(ccs'[c][r])
    <2>1. CASE ~ok
      BY <1>4, <2>1
    <2>2. CASE ok
      <3>1. ApplyCreate(c, r, uid, patches, TRUE)
        BY <1>3, <1>7, <2>2
      <3> QED BY <3>1, ApplyCreateSucceeds
    <2> QED BY <2>1, <2>2
  <1>9. ClusterConfigCopies(G)' /\
        \/ UNCHANGED ccs
        \/ /\ Live(ccs'[c][r]) /\ ~Exists(ccs[c][r])
           /\ \A d \in Cluster, s \in Rule : (d = c /\ s = r) \/ ccs'[d][s] = ccs[d][s]
    <2>1. CASE UNCHANGED ccs
      BY <1>5, <1>8, <2>1 DEF ClusterConfigCopies, Exists, Entitled
    <2>2. CASE /\ ~Exists(ccs[c][r])
               /\ \A d \in Cluster, s \in Rule :
                    ccs'[d][s] = IF d = c /\ s = r THEN NewClusterConfig(uid, patches)
                                 ELSE ccs[d][s]
      <3>1. ClusterConfigCopies(G)' /\ Live(ccs'[c][r])
        BY <1>5, <1>6, <1>7, <1>8, <2>2, CreatedCopies
      <3> QED BY <2>2, <3>1
    <2> QED BY <1>8, <2>1, <2>2
  <1>10. ASSUME NEW d \in Cluster, NEW s \in Rule, d # c \/ s # r
         PROVE  ccs'[d][s] = ccs[d][s]
    BY <1>9, <1>10
  <1>11. Exists(ccs[c][r]) => ccs'[c][r] = ccs[c][r]
    BY <1>9
  <1>12. Exists(ccs'[c][r]) /\ ~ccs'[c][r].fin => ccs'[c][r] = ccs[c][r]
    BY <1>9 DEF Live
  <1>13. Configured' /\ Listing' /\ OrphanOK' /\ HandledOK(G)'
    BY <1>1, <1>4, <1>5 DEF Configured, Listing, OrphanOK, HandledOK, Exists
  <1>14. TodoOK(G)'
    BY <1>4, <1>5, <1>8 DEF TodoOK, Exists, Entitled
  <1>15. RestOK(G)'
    <2> SUFFICES ASSUME NEW d \in Cluster, NEW s \in Rule, Exists(rs.rest[d][s])
                 PROVE  Left(G, d, s, rs.rest[d][s], ccs[d][s])'
      BY <1>4 DEF RestOK, Exists
    <2>1. d # c
      BY <1>6
    <2>2. ccs'[d][s] = ccs[d][s] /\ Left(G, d, s, rs.rest[d][s], ccs[d][s])
      BY <1>5, <1>10, <2>1 DEF RestOK
    <2> QED BY <1>4, <1>8, <2>2 DEF Left, Exists, Live
  <1>16. ApplyOK(G)'
    <2>1. Entitled(c)'
      BY <1>6, <1>8 DEF Entitled
    <2>2. \A s \in Rule : Copy(rs'.create[s], G[c][s])
      BY <1>1, <1>2, <1>4, <1>5 DEF ApplyOK, Copy
    <2> QED BY <1>1, <1>2, <1>4, <1>5, <1>6, <1>8, <2>1, <2>2 DEF ApplyOK, Exists
  <1>17. Covered'
    <2> SUFFICES ASSUME NEW d \in Cluster, NEW s \in Rule
                 PROVE  /\ Exists(ccs'[d][s]) /\ ~ccs'[d][s].fin => Exists(rs.rest[d][s])
                        /\ ~rs.err /\ Exists(clusters[d]) /\ clusters[d].ann[s] # {} =>
                            \/ Exists(rs.todo[d])
                            \/ d = c /\ (rs'.bad \/ rs'.create[s] # {} \/ Exists(ccs'[d][s]))
                            \/ Exists(rs.handled[d][s])
                        /\ ~rs.err /\ Live(ccs'[d][s]) =>
                            \/ Exists(rs.rest[d][s])
                            \/ d = c
                            \/ Exists(rs.handled[d][s])
      BY <1>4, <1>8 DEF Covered, Exists, Live
    <2>1. /\ Exists(ccs[d][s]) /\ ~ccs[d][s].fin => Exists(rs.rest[d][s])
          /\ ~rs.err /\ Exists(clusters[d]) /\ clusters[d].ann[s] # {} =>
                \/ Exists(rs.todo[d])
                \/ d = c /\ (rs.bad \/ rs.create[s] # {} \/ Exists(ccs[d][s]))
                \/ Exists(rs.handled[d][s])
          /\ ~rs.err /\ Live(ccs[d][s]) =>
                Exists(rs.rest[d][s]) \/ d = c \/ Exists(rs.handled[d][s])
      BY <1>1, <1>2, <1>5 DEF Covered, Checking
    <2>2. CASE d # c \/ s # r
      BY <1>4, <1>10, <2>1, <2>2
    <2>3. CASE d = c /\ s = r
      BY <1>8a, <1>12, <2>1, <2>3
    <2> QED BY <2>2, <2>3
  <1>18. RestoreClaims(G)'
    BY <1>13, <1>14, <1>15, <1>16, <1>17 DEF RestoreClaims
  <1>19. AnnotationCopies(G)'
    BY <1>5, <1>8 DEF AnnotationCopies, Exists, Entitled
  <1>20. Named'
    <2>1. wk' = IdleWorker /\ queue \subseteq used.names
      BY <1>1, RestoreRuns
    <2>2. \A d \in Cluster, s \in Rule :
            Exists(ccs'[d][s]) => Exists(ccs[d][s]) \/ d \in used'.names
      BY <1>6, <1>8, <1>10
    <2> QED BY <1>5, <1>8, <2>1, <2>2, NamedStep DEF IdleWorker
  <1>21. ipam' = EmptyStore
    BY <1>1, RestoreRuns
  <1> QED BY <1>1, <1>4, <1>9, <1>18, <1>19, <1>20, <1>21, RestoreFrame DEF ClaimsOK

(* Nothing is ever missing from a ClusterConfig. *)
LEMMA RestoreUpdateImpossible ==
    ASSUME NEW G, ClaimsOK(G)
    PROVE  ~RestoreUpdate
  <1>1. rs.update = NoUpdates
    BY DEF ClaimsOK, RestoreClaims, OrphanOK
  <1> QED BY <1>1 DEF RestoreUpdate, NoUpdates, Exists

(* The ClusterConfigs of the Cluster are listed again. *)
LEMMA RestoreRefetchClaims ==
    ASSUME IndInv, Steady, NEW G, ClaimsOK(G), RestoreRefetch, UNCHANGED <<wk, cf, standby>>
    PROVE  Steady' /\ ClaimsOK(G)'
  <1>1. /\ rs.pc = "apply" /\ rs \in Restoration /\ rs.c \in Cluster /\ rs.create = NoInjections
        /\ UNCHANGED <<clusters, ccs, ipam, queue, proc, wk, cf, standby>>
        /\ UNCHANGED used \/ ApiFails("list")
    BY DEF RestoreRefetch, restoreUnchanged, IndInv, ServiceOK, RestoreOK
  <1>2. used'.names = used.names
    BY <1>1, NamesKept
  <1>3. /\ Configured /\ TodoOK(G) /\ RestOK(G) /\ HandledOK(G) /\ ApplyOK(G) /\ OrphanOK /\ Covered
        /\ ClusterConfigCopies(G)
    BY DEF ClaimsOK, RestoreClaims
  <1> DEFINE again == [r \in Rule |-> IF Exists(ccs[rs.c][r]) THEN ccs[rs.c][r]
                                      ELSE rs.handled[rs.c][r]]
  <1>4. \/ ~rs.bad /\ rs' = [rs EXCEPT !.pc = "check", !.handled[rs.c] = again]
        \/ rs' = [rs EXCEPT !.pc = "check", !.err = TRUE]
    BY DEF RestoreRefetch
  <1>5. /\ rs'.pc = "check" /\ rs'.cfg = rs.cfg /\ rs'.todo = rs.todo /\ rs'.rest = rs.rest
        /\ rs'.update = rs.update
        /\ \/ ~rs.bad /\ rs'.err = rs.err /\ rs'.handled = [rs.handled EXCEPT ![rs.c] = again]
           \/ rs'.err = TRUE /\ rs'.handled = rs.handled
    BY <1>1, <1>4 DEF Restoration
  <1>6. \A d \in Cluster, s \in Rule :
            \/ rs'.handled[d][s] = rs.handled[d][s]
            \/ d = rs.c /\ Exists(ccs[d][s]) /\ rs'.handled[d][s] = ccs[d][s]
    BY <1>1, <1>5 DEF Restoration
  <1>7. ~rs'.err =>
            /\ ~rs.err /\ ~rs.bad
            /\ \A s \in Rule : Exists(ccs[rs.c][s]) => rs'.handled[rs.c][s] = ccs[rs.c][s]
    BY <1>1, <1>5 DEF Restoration
  <1>8. \A s \in Rule : Exists(ccs[rs.c][s]) => Live(ccs[rs.c][s]) /\ ccs[rs.c][s].patches = G[rs.c][s]
    BY <1>1, <1>3 DEF Covered, Checking, ApplyOK, ClusterConfigCopies, Live
  <1>9. Configured' /\ Listing' /\ OrphanOK' /\ ApplyOK(G)'
    BY <1>1, <1>3, <1>5 DEF Configured, Listing, OrphanOK, ApplyOK
  <1>10. TodoOK(G)'
    BY <1>1, <1>2, <1>3, <1>5 DEF TodoOK, Exists, Entitled
  <1>11. RestOK(G)'
    BY <1>1, <1>2, <1>3, <1>5 DEF RestOK, Left, Exists, Live
  <1>12. HandledOK(G)'
    <2> SUFFICES ASSUME NEW d \in Cluster, NEW s \in Rule, Exists(rs'.handled[d][s])
                 PROVE  rs'.handled[d][s].patches = G[d][s] /\ ~Exists(rs.todo[d])
      BY <1>5 DEF HandledOK, Exists
    <2>1. CASE rs'.handled[d][s] = rs.handled[d][s]
      BY <1>3, <2>1 DEF HandledOK
    <2>2. CASE d = rs.c /\ Exists(ccs[d][s]) /\ rs'.handled[d][s] = ccs[d][s]
      BY <1>1, <1>3, <1>8, <2>2 DEF ApplyOK
    <2> QED BY <1>6, <2>1, <2>2
  <1>13. Covered'
    <2> SUFFICES ASSUME NEW d \in Cluster, NEW s \in Rule
                 PROVE  /\ Exists(ccs[d][s]) /\ ~ccs[d][s].fin => Exists(rs.rest[d][s])
                        /\ ~rs'.err /\ Exists(clusters[d]) /\ clusters[d].ann[s] # {} =>
                            Exists(rs.todo[d]) \/ Exists(rs'.handled[d][s])
                        /\ ~rs'.err /\ Live(ccs[d][s]) =>
                            Exists(rs.rest[d][s]) \/ Exists(rs'.handled[d][s])
      BY <1>1, <1>5 DEF Covered, Exists, Live
    <2>1. /\ Exists(ccs[d][s]) /\ ~ccs[d][s].fin => Exists(rs.rest[d][s])
          /\ ~rs.err /\ Exists(clusters[d]) /\ clusters[d].ann[s] # {} =>
                \/ Exists(rs.todo[d])
                \/ d = rs.c /\ (rs.bad \/ rs.create[s] # {} \/ Exists(ccs[d][s]))
                \/ Exists(rs.handled[d][s])
          /\ ~rs.err /\ Live(ccs[d][s]) =>
                Exists(rs.rest[d][s]) \/ d = rs.c \/ Exists(rs.handled[d][s])
      BY <1>1, <1>3 DEF Covered, Checking
    <2>2. rs.create[s] = {}
      BY <1>1 DEF NoInjections
    <2>3. Exists(rs.handled[d][s]) => Exists(rs'.handled[d][s])
      BY <1>6
    <2>4. ~rs'.err /\ d = rs.c /\ Exists(ccs[d][s]) => Exists(rs'.handled[d][s])
      BY <1>7
    <2> QED BY <1>7, <2>1, <2>2, <2>3, <2>4 DEF Live
  <1>14. RestoreClaims(G)'
    BY <1>9, <1>10, <1>11, <1>12, <1>13 DEF RestoreClaims
  <1> QED BY <1>1, <1>2, <1>5, <1>14, RestoreQuietStep

(* Between the phases: an error ends the Restore. *)
LEMMA RestorePhaseClaims ==
    ASSUME IndInv, Steady, NEW G, ClaimsOK(G), RestoreChecked \/ RestoreOrphansHandled,
           UNCHANGED <<wk, cf, standby>>
    PROVE  Steady' /\ ClaimsOK(G)'
  <1>1. /\ rs.pc \in {"check", "orphans"} /\ rs \in Restoration
        /\ UNCHANGED <<clusters, ccs, ipam, queue, used, proc, wk, cf, standby>>
    BY DEF RestoreChecked, RestoreOrphansHandled, restoreUnchanged, IndInv, ServiceOK, RestoreOK
  <1>2. CASE RestoreReturns("failed")
    BY <1>1, <1>2, RestoreFailedClaims
  <1>3. CASE ~RestoreReturns("failed")
    <2>1. /\ Configured /\ TodoOK(G) /\ RestOK(G) /\ HandledOK(G) /\ OrphanOK /\ Covered
      BY DEF ClaimsOK, RestoreClaims
    <2>2. \/ ~rs.err /\ rs' = [rs EXCEPT !.pc = "orphans"] /\ rs.todo = NoClusters
          \/ ~rs.err /\ rs' = [rs EXCEPT !.pc = "build"] /\ rs.pc = "orphans"
                /\ rs.rest = NoClusterConfigs
      BY <1>3 DEF RestoreChecked, RestoreOrphansHandled
    <2>3. /\ rs'.pc \in {"orphans", "build"} /\ rs'.cfg = rs.cfg /\ rs'.todo = rs.todo
          /\ rs'.rest = rs.rest /\ rs'.handled = rs.handled /\ rs'.update = rs.update
          /\ rs'.err = rs.err /\ ~rs.err
          /\ rs'.pc = "orphans" => rs.todo = NoClusters
          /\ rs'.pc = "build" => rs.pc = "orphans" /\ rs.rest = NoClusterConfigs
      BY <1>1, <2>2 DEF Restoration
    <2>4. Configured' /\ Listing' /\ ApplyOK(G)' /\ OrphanOK'
      BY <1>1, <2>1, <2>3 DEF Configured, Listing, OrphanOK, ApplyOK
    <2>5. TodoOK(G)' /\ HandledOK(G)'
      BY <1>1, <2>1, <2>3 DEF TodoOK, HandledOK, Exists, Entitled
    <2>6. RestOK(G)'
      BY <1>1, <2>1, <2>3 DEF RestOK, Left, Exists, Live
    <2>7. Covered'
      BY <1>1, <2>1, <2>3 DEF Covered, Checking, Exists, Live
    <2>8. RestoreClaims(G)'
      BY <2>4, <2>5, <2>6, <2>7 DEF RestoreClaims
    <2> QED BY <1>1, <2>3, <2>8, RestoreQuietStep
  <1> QED BY <1>2, <1>3

-----------------------------------------------------------------------------
(* handleOrphanedClusterConfigs_internal                                   *)

(* The Clusters of the ClusterConfigs that are left are gone. *)
LEMMA OrphanGetClusterClaims ==
    ASSUME IndInv, Steady, NEW G, ClaimsOK(G), NEW c \in Cluster, NEW r \in Rule,
           OrphanGetCluster(c, r), UNCHANGED <<wk, cf, standby>>
    PROVE  Steady' /\ ClaimsOK(G)'
  <1>1. /\ rs.pc = "orphans" /\ rs \in Restoration /\ Exists(rs.rest[c][r])
        /\ UNCHANGED <<clusters, ccs, ipam, queue, proc, wk, cf, standby>>
    BY DEF OrphanGetCluster, restoreUnchanged, IndInv, ServiceOK, RestoreOK
  <1>2. used'.names = used.names
    <2>1. UNCHANGED used \/ ApiFails("get")
      BY DEF OrphanGetCluster
    <2> QED BY <2>1, NamesKept
  <1>3. /\ Configured /\ TodoOK(G) /\ RestOK(G) /\ HandledOK(G) /\ OrphanOK /\ Covered
    BY DEF ClaimsOK, RestoreClaims
  <1>4. rs.todo = NoClusters /\ ~Exists(clusters[c])
    <2>1. rs.todo = NoClusters
      BY <1>1, <1>3 DEF OrphanOK
    <2>2. ~Exists(rs.todo[c])
      BY <2>1 DEF NoClusters, Exists
    <2> QED BY <1>1, <1>3, <2>1, <2>2 DEF RestOK, Left
  <1>5. \/ rs' = [rs EXCEPT !.pc = "delete", !.c = c, !.r = r]
        \/ rs' = [rs EXCEPT !.pc = "delete", !.c = c, !.r = r, !.err = TRUE]
    BY <1>4 DEF OrphanGetCluster
  <1>6. /\ rs'.pc = "delete" /\ rs'.cfg = rs.cfg /\ rs'.todo = rs.todo
        /\ rs'.rest = rs.rest /\ rs'.handled = rs.handled /\ rs'.update = rs.update
        /\ ~rs'.err => ~rs.err
    BY <1>1, <1>5 DEF Restoration
  <1>7. Configured' /\ Listing' /\ ApplyOK(G)' /\ OrphanOK'
    BY <1>1, <1>3, <1>4, <1>6 DEF Configured, Listing, OrphanOK, ApplyOK
  <1>8. TodoOK(G)' /\ HandledOK(G)'
    BY <1>1, <1>2, <1>3, <1>6 DEF TodoOK, HandledOK, Exists, Entitled
  <1>9. RestOK(G)'
    BY <1>1, <1>2, <1>3, <1>6 DEF RestOK, Left, Exists, Live
  <1>10. Covered'
    BY <1>1, <1>3, <1>6 DEF Covered, Checking, Exists, Live
  <1>11. RestoreClaims(G)'
    BY <1>7, <1>8, <1>9, <1>10 DEF RestoreClaims
  <1> QED BY <1>1, <1>2, <1>6, <1>11, RestoreQuietStep

(* What the two steps below have in common.  They deal with the            *)
(* ClusterConfig of rule r of Cluster c and leave the others alone.        *)
LEMMA OrphanFrame ==
    ASSUME IndInv, Steady, NEW G, ClaimsOK(G),
           NEW c \in Cluster, NEW r \in Rule, rs.c = c, rs.r = r,
           rs.pc \in {"delete", "release"}, rs'.pc \in {"orphans", "release"},
           rs'.cfg = rs.cfg, rs'.todo = rs.todo, rs'.handled = rs.handled,
           rs'.update = rs.update, rs'.c = rs.c, rs'.r = rs.r,
           ~rs'.err => ~rs.err,
           \/ rs'.rest = rs.rest
           \/ rs'.pc = "orphans" /\ rs'.rest = [rs.rest EXCEPT ![c][r] = NoObject],
           UNCHANGED <<clusters, proc, wk, cf, standby>>, ipam' = EmptyStore,
           used'.names = used.names, queue' \subseteq queue \cup {c},
           \A d \in Cluster, s \in Rule : <<d, s>> # <<c, r>> => ccs'[d][s] = ccs[d][s],
           Exists(ccs'[c][r]) =>
                /\ Exists(ccs[c][r]) /\ Live(ccs'[c][r]) /\ Live(ccs[c][r])
                /\ ~ccs'[c][r].foreign /\ ccs'[c][r].patches = ccs[c][r].patches
                /\ ccs[c][r].deleting => ccs'[c][r].deleting,
           rs'.rest = rs.rest =>
                Live(ccs[c][r]) /\ Live(ccs'[c][r]) /\ ccs'[c][r].deleting /\ rs.rest[c][r].fin,
           rs'.rest # rs.rest => rs'.err \/ ~Exists(ccs'[c][r])
    PROVE  Steady' /\ ClaimsOK(G)'
  <1>1. /\ Configured /\ TodoOK(G) /\ RestOK(G) /\ HandledOK(G) /\ OrphanOK /\ Covered
        /\ AnnotationCopies(G) /\ ClusterConfigCopies(G) /\ Named
    BY DEF ClaimsOK, RestoreClaims, Steady
  <1>2. rs \in Restoration /\ Exists(rs.rest[c][r])
    BY DEF IndInv, ServiceOK, RestoreOK
  <1>3. \A d \in Cluster : Entitled(d)' = Entitled(d)
    BY DEF Entitled
  <1>4. \A d \in Cluster, s \in Rule :
            /\ <<d, s>> # <<c, r>> => rs'.rest[d][s] = rs.rest[d][s]
            /\ Exists(rs'.rest[d][s]) => rs'.rest[d][s] = rs.rest[d][s]
            /\ Exists(rs'.rest[c][r]) => rs'.rest = rs.rest
    BY <1>2 DEF Restoration, Exists
  <1>5. ClusterConfigCopies(G)'
    <2> SUFFICES ASSUME NEW d \in Cluster, NEW s \in Rule, Exists(ccs'[d][s])
                 PROVE  /\ Shape(ccs'[d][s])
                        /\ ccs'[d][s].fin => ccs'[d][s].patches = G[d][s]
                        /\ ~ccs'[d][s].fin => ~Exists(clusters[d])
                        /\ Entitled(d)
      BY <1>3 DEF ClusterConfigCopies, Exists
    <2>1. CASE <<d, s>> = <<c, r>>
      BY <1>1, <2>1 DEF ClusterConfigCopies, Shape, Live
    <2>2. CASE <<d, s>> # <<c, r>>
      BY <1>1, <2>2 DEF ClusterConfigCopies
    <2> QED BY <2>1, <2>2
  <1>6. AnnotationCopies(G)'
    BY <1>1, <1>3 DEF AnnotationCopies, Exists
  <1>7. Configured' /\ Listing' /\ ApplyOK(G)'
    BY <1>1 DEF Configured, Listing, ApplyOK
  <1>8. OrphanOK'
    BY <1>1, <1>4 DEF OrphanOK, Exists
  <1>9. TodoOK(G)' /\ HandledOK(G)'
    BY <1>1, <1>3 DEF TodoOK, HandledOK, Exists
  <1>10. RestOK(G)'
    <2> SUFFICES ASSUME NEW d \in Cluster, NEW s \in Rule, Exists(rs'.rest[d][s])
                 PROVE  Left(G, d, s, rs.rest[d][s], ccs[d][s])' /\ rs'.rest[d][s] = rs.rest[d][s]
      BY DEF RestOK, Exists
    <2>1. rs'.rest[d][s] = rs.rest[d][s] /\ Left(G, d, s, rs.rest[d][s], ccs[d][s])
      BY <1>1, <1>4 DEF RestOK
    <2>2. CASE <<d, s>> = <<c, r>>
      BY <1>4, <2>1, <2>2 DEF Left, Exists, Live
    <2>3. CASE <<d, s>> # <<c, r>>
      BY <2>1, <2>3 DEF Left, Exists, Live
    <2> QED BY <2>2, <2>3
  <1>11. Covered'
    <2> SUFFICES ASSUME NEW d \in Cluster, NEW s \in Rule
                 PROVE  /\ Exists(ccs'[d][s]) /\ ~ccs'[d][s].fin => Exists(rs'.rest[d][s])
                        /\ ~rs'.err /\ Exists(clusters[d]) /\ clusters[d].ann[s] # {} =>
                            Exists(rs.todo[d]) \/ Exists(rs.handled[d][s])
                        /\ ~rs'.err /\ Live(ccs'[d][s]) =>
                            Exists(rs'.rest[d][s]) \/ Exists(rs.handled[d][s])
      BY DEF Covered, Exists, Live
    <2>1. /\ Exists(ccs[d][s]) /\ ~ccs[d][s].fin => Exists(rs.rest[d][s])
          /\ ~rs.err /\ Exists(clusters[d]) /\ clusters[d].ann[s] # {} =>
                Exists(rs.todo[d]) \/ Exists(rs.handled[d][s])
          /\ ~rs.err /\ Live(ccs[d][s]) => Exists(rs.rest[d][s]) \/ Exists(rs.handled[d][s])
      BY <1>1 DEF Covered, Checking
    <2>2. CASE <<d, s>> = <<c, r>>
      <3>1. CASE rs'.rest = rs.rest
        BY <1>2, <2>1, <2>2, <3>1 DEF Live
      <3>2. CASE rs'.rest # rs.rest
        BY <2>1, <2>2, <3>2 DEF Live
      <3> QED BY <3>1, <3>2
    <2>3. CASE <<d, s>> # <<c, r>>
      BY <1>4, <2>1, <2>3
    <2> QED BY <2>2, <2>3
  <1>12. RestoreClaims(G)'
    BY <1>7, <1>8, <1>9, <1>10, <1>11 DEF RestoreClaims
  <1>13. Named'
    <2>1. wk' = IdleWorker /\ queue \subseteq used.names
      BY RestoreRuns
    <2>2. c \in used.names
      BY <1>1, <1>2 DEF RestOK, Left
    <2>3. \A d \in Cluster, s \in Rule : Exists(ccs'[d][s]) => Exists(ccs[d][s])
      BY DEF Exists
    <2>4. \A d \in Cluster : Exists(clusters'[d]) => Exists(clusters[d])
      OBVIOUS
    <2> QED BY <1>1, <2>1, <2>2, <2>3, <2>4, NamedStep DEF IdleWorker
  <1> QED BY <1>5, <1>6, <1>12, <1>13, RestoreFrame DEF ClaimsOK

(* The ClusterConfig in hand is dealt with. *)
LEMMA OrphanHandledFields ==
    ASSUME IndInv, rs.pc \in {"delete", "release"}, NEW e \in BOOLEAN,
           NEW c \in Cluster, NEW r \in Rule, rs.c = c, rs.r = r,
           rs' = OrphanHandled \/ rs' = [OrphanHandled EXCEPT !.err = e]
    PROVE  /\ rs'.pc = "orphans" /\ rs'.cfg = rs.cfg /\ rs'.todo = rs.todo
           /\ rs'.handled = rs.handled /\ rs'.update = rs.update /\ rs'.c = rs.c /\ rs'.r = rs.r
           /\ rs'.rest = [rs.rest EXCEPT ![c][r] = NoObject] /\ rs'.rest # rs.rest
           /\ rs' = OrphanHandled => rs'.err = rs.err
           /\ rs' = [OrphanHandled EXCEPT !.err = e] => rs'.err = e
  <1>1. rs \in Restoration /\ Exists(rs.rest[c][r])
    BY DEF IndInv, ServiceOK, RestoreOK
  <1>2. /\ rs'.pc = "orphans" /\ rs'.cfg = rs.cfg /\ rs'.todo = rs.todo
        /\ rs'.handled = rs.handled /\ rs'.update = rs.update /\ rs'.c = rs.c /\ rs'.r = rs.r
        /\ rs'.rest = [rs.rest EXCEPT ![c][r] = NoObject]
        /\ rs' = OrphanHandled => rs'.err = rs.err
        /\ rs' = [OrphanHandled EXCEPT !.err = e] => rs'.err = e
    BY <1>1 DEF OrphanHandled, Restoration
  <1>3. rs'.rest[c][r] = NoObject
    BY <1>1, <1>2 DEF Restoration
  <1> QED BY <1>1, <1>2, <1>3 DEF Exists

(* The orphaned ClusterConfig is deleted unless it is in deletion. *)
LEMMA OrphanDeleteClaims ==
    ASSUME Undisturbed, IndInv, Steady, NEW G, ClaimsOK(G), OrphanDelete, UNCHANGED <<wk, cf, standby>>
    PROVE  Steady' /\ ClaimsOK(G)'
  <1>1. /\ rs.pc = "delete" /\ rs \in Restoration /\ rs.c \in Cluster /\ rs.r \in Rule
        /\ UNCHANGED <<ipam, proc, wk, cf, standby>>
    BY DEF OrphanDelete, IndInv, ServiceOK, RestoreOK
  <1>2. PICK c \in Cluster, r \in Rule : c = rs.c /\ r = rs.r
    BY <1>1
  <1> DEFINE cc == rs.rest[c][r]
  <1>3. Exists(cc) /\ Left(G, c, r, cc, ccs[c][r]) /\ Shape(cc)
    BY <1>1, <1>2 DEF IndInv, ServiceOK, RestoreOK, ClaimsOK, RestoreClaims, RestOK, Left
  <1>4. Exists(ccs[c][r]) => Shape(ccs[c][r])
    BY DEF ClaimsOK, ClusterConfigCopies
  <1>5. ipam' = EmptyStore
    BY <1>1, RestoreRuns
  <1>6. ASSUME rs' = [rs EXCEPT !.pc = "release"]
        PROVE  /\ rs'.pc = "release" /\ rs'.cfg = rs.cfg /\ rs'.todo = rs.todo
               /\ rs'.handled = rs.handled /\ rs'.update = rs.update /\ rs'.c = rs.c /\ rs'.r = rs.r
               /\ rs'.rest = rs.rest /\ rs'.err = rs.err
    BY <1>1, <1>6 DEF Restoration
  <1> DEFINE next == IF cc.fin THEN [rs EXCEPT !.pc = "release"] ELSE OrphanHandled
  <1>7. CASE /\ cc.deleting /\ rs' = next
             /\ UNCHANGED <<clusters, ccs, queue, used>>
    <2>1. cc.fin /\ rs' = [rs EXCEPT !.pc = "release"]
      BY <1>3, <1>7 DEF Shape
    <2>2. Live(ccs[c][r]) /\ ccs[c][r].deleting
      BY <1>3, <1>7, <2>1 DEF Left, Live
    <2>3. ~ccs[c][r].foreign
      BY <1>4, <2>2 DEF Live, Shape
    <2> HIDE DEF next
    <2> QED BY <1>1, <1>2, <1>5, <1>6, <1>7, <2>1, <2>2, <2>3, OrphanFrame DEF Live
  <1>8. ASSUME NEW ok \in BOOLEAN, DeleteClusterConfig(c, r, ok),
               (ok /\ rs' = next) \/ rs' = [OrphanHandled EXCEPT !.err = TRUE]
        PROVE  Steady' /\ ClaimsOK(G)'
    <2>1. /\ UNCHANGED clusters /\ used'.names = used.names
          /\ queue' \subseteq queue \cup {c}
          /\ Aged(ccs[c][r], ccs'[c][r])
          /\ \A d \in Cluster, s \in Rule : <<d, s>> # <<c, r>> => ccs'[d][s] = ccs[d][s]
          /\ Exists(ccs'[c][r]) => Live(ccs'[c][r]) /\ ccs'[c][r].deleting
      BY <1>4, <1>8, DeleteEffect
    <2>2. Exists(ccs'[c][r]) =>
            /\ Exists(ccs[c][r]) /\ Live(ccs'[c][r]) /\ Live(ccs[c][r])
            /\ ~ccs'[c][r].foreign /\ ccs'[c][r].patches = ccs[c][r].patches
            /\ ccs'[c][r].deleting
      BY <1>4, <2>1 DEF Aged, Live, Shape, Exists
    <2>3. Live(ccs[c][r]) => Live(ccs'[c][r])
      BY <2>1 DEF Aged
    <2>4. CASE cc.fin /\ rs' = [rs EXCEPT !.pc = "release"]
      <3>1. Live(ccs[c][r])
        BY <1>3, <2>4 DEF Left
      <3>2. Live(ccs'[c][r]) /\ ccs'[c][r].deleting
        BY <2>2, <2>3, <3>1 DEF Live
      <3> HIDE DEF next
      <3> QED BY <1>1, <1>2, <1>5, <1>6, <2>1, <2>2, <2>4, <3>1, <3>2, OrphanFrame
    <2>5. CASE ~cc.fin /\ rs' = OrphanHandled
      <3>1. ~Exists(ccs'[c][r])
        BY <1>3, <2>2, <2>5 DEF Left, Live
      <3>2. /\ rs'.pc = "orphans" /\ rs'.cfg = rs.cfg /\ rs'.todo = rs.todo
            /\ rs'.handled = rs.handled /\ rs'.update = rs.update /\ rs'.c = rs.c /\ rs'.r = rs.r
            /\ rs'.rest = [rs.rest EXCEPT ![c][r] = NoObject] /\ rs'.rest # rs.rest
            /\ rs'.err = rs.err
        BY <1>1, <1>2, <2>5, OrphanHandledFields
      <3> HIDE DEF next
      <3> QED BY <1>1, <1>2, <1>5, <2>1, <2>2, <3>1, <3>2, OrphanFrame
    <2>6. CASE rs' = [OrphanHandled EXCEPT !.err = TRUE]
      <3>1. /\ rs'.pc = "orphans" /\ rs'.cfg = rs.cfg /\ rs'.todo = rs.todo
            /\ rs'.handled = rs.handled /\ rs'.update = rs.update /\ rs'.c = rs.c /\ rs'.r = rs.r
            /\ rs'.rest = [rs.rest EXCEPT ![c][r] = NoObject] /\ rs'.rest # rs.rest
            /\ rs'.err = TRUE
        BY <1>1, <1>2, <2>6, OrphanHandledFields, ZenonT(60)
      <3> HIDE DEF next
      <3> QED BY <1>1, <1>2, <1>5, <2>1, <2>2, <3>1, OrphanFrame
    <2> QED BY <1>8, <2>4, <2>5, <2>6
  <1>9. \/ cc.deleting /\ rs' = next /\ UNCHANGED <<clusters, ccs, queue, used>>
        \/ DeleteClusterConfig(c, r, TRUE) /\ rs' = next
        \/ DeleteClusterConfig(c, r, FALSE) /\ rs' = [OrphanHandled EXCEPT !.err = TRUE]
    BY <1>2 DEF OrphanDelete
  <1> HIDE DEF next
  <1> QED BY <1>7, <1>8, <1>9

(* The CIDRs of the orphaned ClusterConfig are released: none of them is   *)
(* in the IPAM state, which is not rebuilt yet.                            *)
LEMMA OrphanReleaseClaims ==
    ASSUME IndInv, Steady, NEW G, ClaimsOK(G), OrphanReleaseCIDRs, UNCHANGED <<wk, cf, standby>>
    PROVE  Steady' /\ ClaimsOK(G)'
  <1>1. /\ rs.pc = "release" /\ rs \in Restoration /\ rs.c \in Cluster /\ rs.r \in Rule
        /\ UNCHANGED <<proc, wk, cf, standby>>
    BY DEF OrphanReleaseCIDRs, IndInv, ServiceOK, RestoreOK
  <1>2. PICK c \in Cluster, r \in Rule : c = rs.c /\ r = rs.r
    BY <1>1
  <1>3. PICK cc : cc = rs.rest[c][r]
    OBVIOUS
  <1>4. PICK ok \in BOOLEAN : ReleaseCIDRs(c, r, cc, ok) /\ rs' = [OrphanHandled EXCEPT !.err = @ \/ ~ok]
    BY <1>2, <1>3 DEF OrphanReleaseCIDRs
  <1>5. /\ cc \in ClusterConfig /\ cc.fin /\ ~cc.foreign /\ Live(ccs[c][r]) /\ ccs[c][r].deleting
        /\ Shape(ccs[c][r])
    <2>1. Exists(cc) /\ Left(G, c, r, cc, ccs[c][r]) /\ cc.fin
      BY <1>1, <1>2, <1>3 DEF IndInv, ServiceOK, RestoreOK, ClaimsOK, RestoreClaims, RestOK, OrphanOK
    <2>2. cc \in ClusterConfig
      BY <1>1, <1>3, <2>1 DEF Restoration, Exists
    <2>3. Live(ccs[c][r]) /\ ~cc.foreign
      BY <2>1 DEF Left, Shape
    <2>4. ccs[c][r].deleting
      BY <1>1, <1>2, <2>3 DEF ClaimsOK, RestoreClaims, OrphanOK, Live
    <2> QED BY <2>1, <2>2, <2>3, <2>4 DEF ClaimsOK, ClusterConfigCopies, Live
  <1>6. /\ UNCHANGED clusters /\ used'.names = used.names
        /\ queue' \subseteq queue \cup {c}
        /\ \/ UNCHANGED <<ccs, ipam>> /\ ~ok
           \/ /\ \A d \in Cluster, s \in Rule : <<d, s>> # <<c, r>> => ccs'[d][s] = ccs[d][s]
              /\ ~Exists(ccs'[c][r])
              /\ UNCHANGED ipam \/ \E R : R \subseteq CidrsOf(cc.patches) /\ ipam' = Forget(ipam, R)
    BY <1>4, <1>5, ReleaseEffect
  <1>7. ipam' = EmptyStore
    <2>1. ipam = EmptyStore
      BY <1>1, RestoreRuns
    <2>2. \A R : Forget(EmptyStore, R) = EmptyStore
      BY DEF Forget, EmptyStore
    <2> QED BY <1>6, <2>1, <2>2
  <1>8. PICK e \in BOOLEAN : (e <=> rs.err \/ ~ok) /\ rs' = [OrphanHandled EXCEPT !.err = e]
    <2>1. OrphanHandled.err = rs.err /\ rs.err \in BOOLEAN
      BY <1>1 DEF OrphanHandled, Restoration
    <2>2. (rs.err \/ ~ok) \in BOOLEAN
      OBVIOUS
    <2> QED BY <1>4, <2>1, <2>2
  <1>9. /\ rs'.pc = "orphans" /\ rs'.cfg = rs.cfg /\ rs'.todo = rs.todo
        /\ rs'.handled = rs.handled /\ rs'.update = rs.update /\ rs'.c = rs.c /\ rs'.r = rs.r
        /\ rs'.rest = [rs.rest EXCEPT ![c][r] = NoObject] /\ rs'.rest # rs.rest
        /\ rs'.err = e
    BY <1>1, <1>2, <1>8, OrphanHandledFields
  <1>10. (~rs'.err => ~rs.err) /\ (~ok => rs'.err)
    BY <1>8, <1>9
  <1>11. ~ccs[c][r].foreign
    BY <1>5 DEF Shape
  <1>12. CASE UNCHANGED <<ccs, ipam>> /\ ~ok
    BY <1>1, <1>2, <1>5, <1>6, <1>7, <1>9, <1>10, <1>11, <1>12, OrphanFrame DEF Live
  <1>13. CASE /\ \A d \in Cluster, s \in Rule : <<d, s>> # <<c, r>> => ccs'[d][s] = ccs[d][s]
              /\ ~Exists(ccs'[c][r])
    BY <1>1, <1>2, <1>6, <1>7, <1>9, <1>10, <1>13, OrphanFrame
  <1> QED BY <1>6, <1>12, <1>13

-----------------------------------------------------------------------------
(* ipamFromClusterConfigs                                                  *)

(* The rebuilt IPAM state blocks everything it was rebuilt from: around    *)
(* every CIDR, the outermost one of the same rule is below a parent of the *)
(* config or at the top.                                                   *)
LEMMA RebuiltBlocked ==
    ASSUME Undisturbed, NEW G \in ClaimMap, DisjointClaims(G), InsideParents(G),
           NEW P \in SUBSET AllParents, NEW HC,
           HC = [k \in Cluster \X Rule |-> CidrsOf(G[k[1]][k[2]])]
    PROVE  BlockedIn(Rebuilt(P, HC), G)
  <1> DEFINE D == P \cup UNION {HC[k] : k \in DOMAIN HC}
             own(x) == CHOOSE k \in DOMAIN HC : x \in HC[k]
             st == Rebuilt(P, HC)
  <1>1. /\ DOMAIN st = D
        /\ \A x \in D : st[x] = IF x \in P THEN NoCidr ELSE ParentOf(P, HC[own(x)], x)
    BY DEF Rebuilt
  <1>2. /\ DOMAIN HC = Cluster \X Rule
        /\ \A c \in Cluster, r \in Rule : <<c, r>> \in DOMAIN HC /\ HC[<<c, r>>] = CidrsOf(G[c][r])
    OBVIOUS
  <1>2a. \A x : x \in D <=> x \in P \/ \E k \in DOMAIN HC : x \in HC[k]
    OBVIOUS
  <1> HIDE DEF D, st
  <1>3. AllParents \in SUBSET CIDR /\ \A c \in Cluster, r \in Rule : CidrsOf(G[c][r]) \in SUBSET CIDR
    BY AllParentsType, ClaimCidrs
  <1>4. ASSUME NEW c \in Cluster, NEW r \in Rule, NEW x \in CidrsOf(G[c][r])
        PROVE  /\ x \in CIDR /\ x \in D /\ x \notin AllParents
               /\ \A p \in AllParents : ~StrictlyContains(x, p)
               /\ own(x) = <<c, r>>
    <2>1. x \in CIDR /\ x \in D
      BY <1>2, <1>2a, <1>3
    <2>2. x \notin AllParents /\ \A p \in AllParents : ~StrictlyContains(x, p)
      <3>1. PICK a \in AllParents : StrictlyContains(a, x)
        BY DEF InsideParents
      <3> QED BY <2>1, <3>1, InsideNoParent
    <2>3. ASSUME NEW k \in DOMAIN HC, x \in HC[k]
          PROVE  k = <<c, r>>
      <3>1. PICK d \in Cluster, s \in Rule : k = <<d, s>>
        BY <1>2
      <3>2. x \in CidrsOf(G[d][s])
        BY <1>2, <2>3, <3>1
      <3>3. Overlaps(x, x)
        BY <2>1, ContainsReflexive DEF Overlaps
      <3> QED BY <3>1, <3>2, <3>3 DEF DisjointClaims
    <2>4. <<c, r>> \in DOMAIN HC /\ x \in HC[<<c, r>>]
      BY <1>2
    <2>5. own(x) = <<c, r>>
      BY <2>3, <2>4
    <2> QED BY <2>1, <2>2, <2>5
  <1>5. ASSUME NEW p \in AllParents, p \in DOMAIN st
        PROVE  st[p] = NoCidr
    <2>1. p \notin P => \E c \in Cluster, r \in Rule : p \in CidrsOf(G[c][r])
      <3>1. \A k \in DOMAIN HC : \E c \in Cluster, r \in Rule : HC[k] = CidrsOf(G[c][r])
        BY <1>2
      <3> QED BY <1>1, <1>2a, <1>5, <3>1
    <2>2. p \in P
      BY <1>4, <2>1
    <2> HIDE DEF own
    <2> QED BY <1>1, <1>5, <2>2
  <1>6. ASSUME NEW c \in Cluster, NEW r \in Rule, NEW x \in CidrsOf(G[c][r])
        PROVE  Anchored(st, x)
    <2> DEFINE S == CidrsOf(G[c][r])
               C == {y \in S : Contains(y, x)}
    <2>1. S \in SUBSET CIDR /\ x \in C
      BY <1>3, ContainsReflexive
    <2>2. PICK z \in C : \A y \in C : Len(z) <= Len(y)
      <3> DEFINE L == {Len(y) : y \in C}
      <3>1. L \in SUBSET Nat /\ L # {}
        BY <2>1, CidrLen
      <3>2. PICK n \in L : \A m \in L : n <= m
        <4> HIDE DEF L
        <4> QED BY <3>1, LeastNatural
      <3> QED BY <3>2
    <2>3. /\ z \in CIDR /\ z \in S /\ Contains(z, x) /\ z \in D /\ z \notin AllParents /\ x \in D
          /\ \A p \in AllParents : ~StrictlyContains(z, p)
          /\ own(z) = <<c, r>>
      BY <1>4, <2>1, <2>2
    <2>4. z \notin P /\ st[z] = ParentOf(P, S, z)
      <3> HIDE DEF own
      <3> QED BY <1>1, <1>2, <2>3
    <2>5. ASSUME ~Parentless(P, z)
          PROVE  ParentOf(P, S, z) \in AllParents
      <3>1. P \in SUBSET CIDR /\ \A p \in P : ~StrictlyContains(z, p)
        BY <1>3, <2>3
      <3> HIDE DEF S
      <3>2. ParentOf(P, S, z) \in Around(P, S, z)
        BY <2>1, <2>3, <2>4, <2>5, <3>1, ParentOfAround
      <3>3. PICK y \in P \cup S : y = ParentOf(P, S, z) /\ Contains(y, z) /\ y # z
        BY <3>2 DEF Around, StrictlyContains
      <3>4. CASE y \in P
        BY <3>3, <3>4
      <3>5. CASE y \in S
        <4>1. y \in CIDR /\ Contains(y, x)
          BY <1>3, <2>1, <2>3, <3>3, <3>5, ContainsTransitive
        <4>2. Len(z) <= Len(y)
          BY <2>2, <3>5, <4>1 DEF S
        <4>3. Contains(z, y)
          BY <1>4, <2>3, <4>1, <4>2, AroundComparable
        <4> QED BY <2>3, <3>3, <4>1, <4>3, ContainsAntisymmetric
      <3> QED BY <3>4, <3>5
    <2>6. st[z] \in AllParents \cup {NoCidr}
      BY <2>4, <2>5 DEF ParentOf
    <2> QED BY <1>1, <2>3, <2>6 DEF Anchored, Anchor
  <1> QED BY <1>5, <1>6 DEF BlockedIn, TopParents, st

(* The IPAM state is rebuilt: the claims are what was handled. *)
LEMMA RestoreBuildClaims ==
    ASSUME Undisturbed, IndInv, Steady, NEW G \in ClaimMap, ClaimsOK(G), RestoreBuild,
           UNCHANGED <<wk, cf, standby>>
    PROVE  Steady' /\ Claimed'
  <1>1. /\ rs.pc = "build" /\ rs \in Restoration
        /\ UNCHANGED <<clusters, ccs, queue, used, proc, wk, cf, standby>>
    BY DEF RestoreBuild, restoreUnchanged, IndInv, ServiceOK, RestoreOK
  <1>2. CASE RestoreReturns("failed") /\ UNCHANGED ipam
    BY <1>1, <1>2, RestoreFailedClaims DEF Claimed
  <1>3. CASE RestoreReturns("done") /\ ipam' = Rebuilt(ParentCIDRs(rs.cfg), HandledCidrs)
    <2>1. /\ Configured /\ HandledOK(G) /\ OrphanOK /\ Covered /\ AnnotationCopies(G)
          /\ ClusterConfigCopies(G) /\ DisjointClaims(G) /\ InsideParents(G)
          /\ Named /\ Phases
      BY DEF ClaimsOK, RestoreClaims, Steady
    <2>2. PICK H : H = [c \in Cluster |-> [r \in Rule |->
                            IF Exists(rs.handled[c][r]) THEN G[c][r] ELSE {}]]
      OBVIOUS
    <2>3. \A c \in Cluster, r \in Rule :
            H[c][r] = IF Exists(rs.handled[c][r]) THEN G[c][r] ELSE {}
      BY <2>2
    <2>4. H \in ClaimMap
      BY <2>2 DEF ClaimMap
    <2>5. CidrsOf({}) = {}
      BY DEF CidrsOf
    <2>6. DisjointClaims(H) /\ InsideParents(H)
      BY <2>1, <2>3, <2>5 DEF DisjointClaims, InsideParents, DisjointRanges
    <2>7. ASSUME NEW c \in Cluster, NEW r \in Rule
          PROVE  /\ Exists(ccs[c][r]) => ccs[c][r].fin /\ Exists(rs.handled[c][r])
                 /\ Exists(clusters[c]) /\ clusters[c].ann[r] # {} => Exists(rs.handled[c][r])
      <3>1. ~Exists(rs.rest[c][r]) /\ ~Exists(rs.todo[c]) /\ ~rs.err
        BY <1>1, <2>1 DEF OrphanOK, NoClusterConfigs, NoConfigs, NoClusters, Exists
      <3> QED BY <1>1, <2>1, <3>1 DEF Covered, Checking, Live
    <2>8. \A d \in Cluster : Entitled(d)' = Entitled(d)
      BY <1>1 DEF Entitled
    <2>9. AnnotationCopies(H)'
      BY <1>1, <2>1, <2>3, <2>7, <2>8 DEF AnnotationCopies, Copy, Exists
    <2>10. ClusterConfigCopies(H)'
      <3> SUFFICES ASSUME NEW c \in Cluster, NEW r \in Rule, Exists(ccs[c][r])
                   PROVE  /\ Shape(ccs[c][r])
                          /\ ccs[c][r].fin => ccs[c][r].patches = H[c][r]
                          /\ ~ccs[c][r].fin => ~Exists(clusters[c])
                          /\ Entitled(c)
        BY <1>1, <2>8 DEF ClusterConfigCopies, Exists
      <3> QED BY <2>1, <2>3, <2>7 DEF ClusterConfigCopies
    <2>11. PICK HC : HC = HandledCidrs
      OBVIOUS
    <2>12. HC = [k \in Cluster \X Rule |-> CidrsOf(H[k[1]][k[2]])]
      <3>1. ASSUME NEW k \in Cluster \X Rule
            PROVE  (IF Exists(rs.handled[k[1]][k[2]]) THEN CidrsOf(rs.handled[k[1]][k[2]].patches) ELSE {})
                    = CidrsOf(H[k[1]][k[2]])
        <4>1. PICK c \in Cluster, r \in Rule : k[1] = c /\ k[2] = r
          OBVIOUS
        <4>2. CASE Exists(rs.handled[c][r])
          BY <2>1, <2>3, <4>1, <4>2 DEF HandledOK
        <4>3. CASE ~Exists(rs.handled[c][r])
          BY <2>3, <2>5, <4>1, <4>3
        <4> QED BY <4>2, <4>3
      <3> QED BY <2>11, <3>1 DEF HandledCidrs
    <2>13. PICK P \in SUBSET AllParents : P = ParentCIDRs(rs.cfg)
      BY <1>1, <2>1 DEF Configured, AllParents
    <2>14. BlockedIn(ipam', H)
      <3>1. ipam' = Rebuilt(P, HC)
        BY <1>3, <2>11, <2>13
      <3> QED BY <2>4, <2>6, <2>12, <3>1, RebuiltBlocked
    <2>15. rs' = [IdleRestore EXCEPT !.pc = "done"] /\ rs'.pc = "done"
      BY <1>3 DEF RestoreReturns, IdleRestore
    <2>16. proc = "booting" /\ wk' = IdleWorker
      BY <1>1, RestoreRuns
    <2>17. Ready' /\ Phases'
      BY <1>1, <2>1, <2>15, <2>16 DEF Ready, Phases
    <2>18. Finalized'
      BY <1>1, <2>7 DEF Finalized, Exists
    <2>19. Named'
      BY <1>1, <2>1 DEF Named, Exists
    <2>20. RestoreClaims(H)' /\ WorkerClaims(H)'
      BY <2>15, <2>16, IdleRestoreClaims, IdleWorkerClaims
    <2>21. ClaimsOK(H)'
      BY <2>6, <2>9, <2>10, <2>14, <2>20 DEF ClaimsOK, Blocked
    <2> QED BY <2>4, <2>17, <2>18, <2>19, <2>21 DEF Steady, Claimed
  <1> QED BY <1>2, <1>3 DEF RestoreBuild

(* Every step of a Restore preserves the invariant. *)
LEMMA RestoreStepClaims ==
    ASSUME Undisturbed, IndInv, Steady, Claimed, RestoreStep, UNCHANGED <<wk, cf, standby>>
    PROVE  Steady' /\ Claimed'
  <1>1. PICK G \in ClaimMap : ClaimsOK(G)
    BY DEF Claimed
  <1>2. CASE RestoreBuild
    BY <1>1, <1>2, RestoreBuildClaims
  <1>3. CASE ~RestoreBuild
    <2>1. ~RestoreUpdate
      BY <1>1, RestoreUpdateImpossible
    <2>2. Steady' /\ ClaimsOK(G)'
      BY <1>1, <1>3, <2>1, RestoreListClaims, RestoreCheckClaims, RestoreCreateClaims,
         RestoreRefetchClaims, RestorePhaseClaims, OrphanGetClusterClaims, OrphanDeleteClaims,
         OrphanReleaseClaims DEF RestoreStep
    <2> QED BY <1>1, <2>2 DEF Claimed
  <1> QED BY <1>2, <1>3

-----------------------------------------------------------------------------
(* The life of the process.                                                *)

(* The process starts: every Cluster that holds anything is matched by the *)
(* config and so is listed.                                                *)
LEMMA StartClaims ==
    ASSUME Undisturbed, IndInv, Steady, NEW G, ClaimsOK(G), Start
    PROVE  Steady' /\ ClaimsOK(G)'
  <1>1. PICK cfg \in Configs : cfg = stored.spec
    BY DEF Start, IndInv, ServiceOK, ScalarsOK, ConfigObject, Exists
  <1>2. /\ proc = "down" /\ proc' = "booting" /\ BeginRestore(cfg) /\ wk = IdleWorker /\ ipam = EmptyStore
        /\ UNCHANGED <<clusters, ccs, queue, ipam, wk, cf, standby>>
    BY <1>1 DEF Start, Steady, Phases, Ready
  <1>3. used'.names = used.names
    BY <1>2, NamesKept DEF BeginRestore
  <1>4. Named'
    BY <1>2, <1>3 DEF Steady, Named, Exists
  <1>5. AnnotationCopies(G)' /\ ClusterConfigCopies(G)'
    BY <1>2, <1>3, UnchangedTame, ObjectsTame DEF Steady, ClaimsOK
  <1>6. WorkerClaims(G)'
    BY <1>2, IdleWorkerClaims
  <1>7. ASSUME RestoreClaims(G)', rs'.pc # "done"
        PROVE  Steady' /\ ClaimsOK(G)'
    <2>1. ~Ready'
      BY <1>2, <1>7 DEF Ready
    <2>2. Phases' /\ Finalized' /\ Blocked(G)'
      BY <1>2, <2>1 DEF Steady, Phases, Finalized, Blocked
    <2> QED BY <1>4, <1>5, <1>6, <1>7, <2>2 DEF Steady, ClaimsOK
  <1>8. CASE RestoreReturns("failed")
    <2>1. rs' = [IdleRestore EXCEPT !.pc = "failed"] /\ rs'.pc # "done"
      BY <1>8 DEF RestoreReturns, IdleRestore
    <2> QED BY <1>7, <2>1, IdleRestoreClaims
  <1> DEFINE todo == [c \in Cluster |->
                        IF c \in RelevantClusters(cfg) THEN clusters[c] ELSE NoObject]
  <1>9. CASE rs' = [IdleRestore EXCEPT !.pc = "listCCs", !.cfg = cfg, !.todo = todo]
    <2>1. /\ rs'.pc = "listCCs" /\ rs'.cfg = cfg /\ rs'.rest = NoClusterConfigs
          /\ rs'.handled = NoClusterConfigs /\ rs'.update = NoUpdates /\ rs'.todo = todo
      BY <1>9 DEF IdleRestore
    <2>2. ASSUME NEW c \in Cluster
          PROVE  /\ Exists(rs'.todo[c]) => Exists(clusters[c]) /\ rs'.todo[c] = clusters[c]
                 /\ Exists(clusters[c]) /\ Matches(cfg, clusters[c].purpose) => Exists(rs'.todo[c])
      BY <2>1 DEF RelevantClusters, Exists
    <2> HIDE DEF todo
    <2>3. ASSUME NEW c \in Cluster, Exists(clusters[c]), Entitled(c)
          PROVE  Matches(cfg, clusters[c].purpose)
      <3>1. clusters[c].purpose \in Purpose
        BY <2>3 DEF IndInv, ServiceOK, ApiOK, ClusterObject, Exists
      <3> QED BY <2>3, <3>1 DEF Entitled, Undisturbed
    <2>4. \A c \in Cluster : Entitled(c)' = Entitled(c)
      BY <1>2 DEF Entitled
    <2>5. AnnotationCopies(G) /\ ClusterConfigCopies(G) /\ Named
      BY DEF ClaimsOK, Steady
    <2>6. Listing'
      <3> SUFFICES ASSUME NEW c \in Cluster, NEW r \in Rule
                   PROVE  /\ Exists(clusters[c]) /\ clusters[c].ann[r] # {} => Exists(rs'.todo[c])
                          /\ Exists(clusters[c]) /\ Exists(ccs[c][r]) => Exists(rs'.todo[c])
                          /\ Exists(ccs[c][r]) /\ ~ccs[c][r].fin => ~Exists(rs'.todo[c])
        BY <1>2 DEF Listing, Exists
      <3> QED BY <2>2, <2>3, <2>5 DEF AnnotationCopies, ClusterConfigCopies
    <2>7. TodoOK(G)'
      <3> SUFFICES ASSUME NEW c \in Cluster, Exists(rs'.todo[c])
                   PROVE  /\ c \in used.names /\ Entitled(c)
                          /\ \A r \in Rule : Copy(rs'.todo[c].ann[r], G[c][r])
                          /\ clusters[c].ann = rs'.todo[c].ann
        BY <1>2, <1>3, <2>4 DEF TodoOK, Exists
      <3>1. Exists(clusters[c]) /\ rs'.todo[c] = clusters[c]
        BY <2>2
      <3>2. c \in used.names /\ \A r \in Rule : Copy(rs'.todo[c].ann[r], G[c][r])
        BY <2>5, <3>1 DEF Named, AnnotationCopies
      <3>3. Entitled(c)
        <4>1. c \in RelevantClusters(cfg)
          BY <2>1 DEF todo, Exists
        <4> QED BY <4>1 DEF RelevantClusters, Entitled
      <3> QED BY <3>1, <3>2, <3>3
    <2>8. RestOK(G)' /\ HandledOK(G)'
      BY <2>1 DEF RestOK, HandledOK, NoClusterConfigs, NoConfigs, Exists
    <2>9. Configured' /\ ApplyOK(G)' /\ OrphanOK' /\ Covered'
      BY <2>1 DEF Configured, ApplyOK, OrphanOK, Covered, Checking
    <2> QED BY <1>7, <2>1, <2>6, <2>7, <2>8, <2>9 DEF RestoreClaims
  <1> QED BY <1>2, <1>8, <1>9 DEF BeginRestore

(* The manager starts with the rebuilt IPAM state. *)
LEMMA StartManagerClaims ==
    ASSUME Undisturbed, Steady, NEW G, ClaimsOK(G), StartManager
    PROVE  Steady' /\ ClaimsOK(G)'
  <1>1. /\ proc = "booting" /\ rs.pc = "done" /\ proc' = "running" /\ rs' = IdleRestore
        /\ StartWatches(config) /\ UNCHANGED <<clusters, ccs, used, ipam, wk, cf, standby>>
        /\ Ready /\ Ready' /\ wk = IdleWorker
    BY DEF StartManager, Undisturbed, Ready, Steady, Phases
  <1>2. queue' \subseteq used.names
    BY <1>1 DEF StartWatches, RelevantClusters, Steady, Named
  <1>3. Phases' /\ Named' /\ Finalized'
    BY <1>1, <1>2 DEF Steady, Phases, Named, Finalized, Exists, IdleWorker
  <1>4. RestoreClaims(G)' /\ WorkerClaims(G)'
    BY <1>1, IdleRestoreClaims, IdleWorkerClaims
  <1>5. AnnotationCopies(G)' /\ ClusterConfigCopies(G)'
    BY <1>1, UnchangedTame, ObjectsTame DEF Steady, ClaimsOK
  <1>6. DisjointClaims(G) /\ InsideParents(G) /\ Blocked(G)'
    BY <1>1 DEF ClaimsOK, Blocked
  <1> QED BY <1>3, <1>4, <1>5, <1>6 DEF Steady, ClaimsOK

(* The memory of the process is lost. *)
LEMMA ProcessExitsClaims ==
    ASSUME Steady, NEW G, ClaimsOK(G), ProcessExits, UNCHANGED <<clusters, ccs, standby>>,
           used'.names = used.names
    PROVE  Steady' /\ ClaimsOK(G)'
  <1>1. /\ proc' = "down" /\ queue' = {} /\ ipam' = EmptyStore /\ wk' = IdleWorker
        /\ rs' = IdleRestore /\ cf' = IdleConfigWorker /\ ~Ready'
    BY DEF ProcessExits, Ready
  <1>2. Phases' /\ Named' /\ Finalized'
    BY <1>1 DEF Steady, Phases, Named, Finalized, Exists, IdleWorker, IdleConfigWorker
  <1>3. RestoreClaims(G)' /\ WorkerClaims(G)'
    BY <1>1, IdleRestoreClaims, IdleWorkerClaims
  <1>4. AnnotationCopies(G)' /\ ClusterConfigCopies(G)'
    BY UnchangedTame, ObjectsTame DEF Steady, ClaimsOK
  <1>5. DisjointClaims(G) /\ InsideParents(G) /\ Blocked(G)'
    BY <1>1 DEF ClaimsOK, Blocked
  <1> QED BY <1>2, <1>3, <1>4, <1>5 DEF Steady, ClaimsOK

(* There is no second replica to take over. *)
LEMMA TakeOverImpossible ==
    ASSUME Steady
    PROVE  ~TakeOver
  BY DEF Steady, Phases, TakeOver, NoStandby, Exists

-----------------------------------------------------------------------------
(* Before the first start nothing is claimed. *)
LEMMA InitClaimed ==
    ASSUME Init
    PROVE  Steady /\ Claimed
  <1>1. PICK G : G = [c \in Cluster |-> [r \in Rule |-> {}]]
    OBVIOUS
  <1>2. G \in ClaimMap /\ \A c \in Cluster, r \in Rule : G[c][r] = {}
    BY <1>1 DEF ClaimMap
  <1>3. /\ \A c \in Cluster : ~Exists(clusters[c])
        /\ \A c \in Cluster, r \in Rule : ~Exists(ccs[c][r])
    BY DEF Init, NoClusters, NoClusterConfigs, NoConfigs, Exists
  <1>4. ~Ready
    BY DEF Init, Ready
  <1>5. Phases /\ Named /\ Finalized
    BY <1>3, <1>4 DEF Init, Phases, Named, Finalized, IdleWorker, IdleConfigWorker
  <1>6. AnnotationCopies(G) /\ ClusterConfigCopies(G)
    BY <1>3 DEF AnnotationCopies, ClusterConfigCopies
  <1>7. WorkerClaims(G)
    <2>1. /\ wk.pc = "idle" /\ wk.update = NoUpdates /\ wk.rules = <<>>
          /\ wk.tmp = NoTmpParents /\ wk.raw = {}
      BY DEF Init, IdleWorker
    <2>2. RulesOK(<<>>) /\ \A id \in Id : wk.tmp[id] = NoCidr
      BY <2>1 DEF RulesOK, Unnamed, NoTmpParents
    <2> QED BY <2>1, <2>2 DEF WorkerClaims, WorkerScratch, WorkerCopies, Generating, Deleting
  <1>8. RestoreClaims(G)
    <2>1. /\ rs.pc = "idle" /\ rs.todo = NoClusters /\ rs.rest = NoClusterConfigs
          /\ rs.handled = NoClusterConfigs /\ rs.update = NoUpdates
      BY DEF Init, IdleRestore
    <2>2. \A c \in Cluster : ~Exists(rs.todo[c])
      BY <2>1 DEF NoClusters, Exists
    <2>3. \A c \in Cluster, r \in Rule : ~Exists(rs.rest[c][r]) /\ ~Exists(rs.handled[c][r])
      BY <2>1 DEF NoClusterConfigs, NoConfigs, Exists
    <2> QED BY <2>1, <2>2, <2>3 DEF RestoreClaims, Configured, Listing, ApplyOK, OrphanOK,
               Covered, Checking, TodoOK, RestOK, HandledOK
  <1>9. DisjointClaims(G) /\ InsideParents(G) /\ Blocked(G)
    <2>1. CidrsOf({}) = {}
      BY DEF CidrsOf
    <2> QED BY <1>2, <1>4, <2>1 DEF DisjointClaims, InsideParents, DisjointRanges, Blocked
  <1> QED BY <1>2, <1>5, <1>6, <1>7, <1>8, <1>9 DEF Steady, Claimed, ClaimsOK

(* Every step of the service and of its surroundings preserves the         *)
(* invariant.                                                              *)
LEMMA NextClaimed ==
    ASSUME Undisturbed, IndInv, IndInv', Steady, Claimed, [Next]_vars
    PROVE  Steady' /\ Claimed'
  <1>1. PICK G \in ClaimMap : ClaimsOK(G)
    BY DEF Claimed
  <1>2. CASE ClusterReconcile /\ UNCHANGED <<rs, cf, standby>>
    BY <1>2, ClusterReconcileClaims
  <1>3. CASE RestoreStep /\ UNCHANGED <<wk, cf, standby>>
    BY <1>3, RestoreStepClaims
  <1>4. CASE BootFails \/ Crash
    <2>1. ProcessExits /\ UNCHANGED <<clusters, ccs, standby>> /\ used'.names = used.names
      BY <1>4 DEF BootFails, Crash, IndInv, ServiceOK, ApiOK
    <2> QED BY <1>1, <2>1, ProcessExitsClaims DEF Claimed
  <1>5. CASE UNCHANGED vars
    <2>1. Tame /\ \A c \in Cluster : Exists(clusters'[c]) => Exists(clusters[c])
      BY <1>5, UnchangedTame DEF vars
    <2>2. /\ UNCHANGED <<wk, rs, ipam, proc, standby>> /\ queue' \subseteq used'.names
          /\ cf'.pc \notin {"refresh", "refreshing"}
      BY <1>5 DEF vars, Steady, Phases, Named
    <2>3. Steady' /\ ClaimsOK(G)'
      BY <1>1, <2>1, <2>2, TameStep
    <2> QED BY <1>1, <2>3 DEF Claimed
  <1>6. CASE \/ Environment /\ UNCHANGED <<ipam, lock, wk, rs, cf, standby>>
             \/ ConfigReconcile /\ UNCHANGED <<wk, standby>>
             \/ Start
             \/ StartManager
    <2>1. Steady' /\ ClaimsOK(G)'
      BY <1>1, <1>6, EnvironmentClaims, ConfigClaims, StartClaims, StartManagerClaims
    <2> QED BY <1>1, <2>1 DEF Claimed
  <1> QED BY <1>2, <1>3, <1>4, <1>5, <1>6, TakeOverImpossible DEF Next

=============================================================================
