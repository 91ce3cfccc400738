------------------------ MODULE MemoryJobStoreProofs ------------------------
(***************************************************************************)
(* Proofs about MemoryJobStore, for every set of threads and revisions,    *)
(* every limit and every bound.                                            *)
(***************************************************************************)
EXTENDS MemoryJobStore, FiniteSetTheorems, TLAPS

(* Every claim carries a token that has been granted, so the next one is new. *)
TokensGranted ==
    /\ \A c \in issued1 : c.token <= lastToken
    /\ \A c \in issued2 : c.token <= lastToken

(* The owner of a thread's job claimed it since the thread was last forgotten. *)
OwnersAreCurrent == \A c \in issued1 : Owns1(c) => c.epoch = epoch[c.thread]

(* A running phase-1 job works on a revision later than its last success.     *)
WorksAhead ==
    \A t \in Thread : stage1[t].status = "running"
                          => stage1[t].input \in Nat /\ stage1[t].success < stage1[t].input

(* The phase-2 job, once there is one, has the latest catalogue as its input,
   and its owner claimed it for that or an earlier one. *)
InputIsCatalog ==
    /\ phase2.input <= catalog
    /\ phase2.status # "absent" => phase2.input = catalog
    /\ \A c \in issued2 : Owns2(c) => c.input <= phase2.input

IInv ==
    /\ StoreTypeOK
    /\ TokensGranted
    /\ OwnersAreCurrent
    /\ ForgottenStaysForgotten
    /\ WorksAhead
    /\ StoredIsLastSuccess
    /\ InputIsCatalog
    /\ RestsOnlyWhenCurrent
    /\ SlotsBounded

-----------------------------------------------------------------------------
(* New phase-2 input keeps the job well-formed and equal to the catalogue.  *)
LEMMA EnqueueType ==
  ASSUME catalog \in Nat, phase2 \in Job2, EnqueuePhase2
  PROVE  /\ catalog' \in Nat /\ catalog' = catalog + 1
         /\ phase2' \in Job2
         /\ phase2'.status = IF phase2.status = "running" THEN "running" ELSE "pending"
         /\ phase2'.token = phase2.token
         /\ phase2'.lease = phase2.lease
         /\ phase2'.input >= phase2.input
         /\ phase2.input <= catalog => phase2'.input = catalog'
<1> DEFINE s == IF phase2.status = "running" THEN "running" ELSE "pending"
           i == Max2(catalog', phase2.input)
<1>1. catalog' = catalog + 1 /\ catalog' \in Nat
  BY DEF EnqueuePhase2
<1>2. i \in Nat /\ i >= phase2.input /\ (phase2.input <= catalog => i = catalog')
  BY <1>1 DEF Max2, Job2
<1>3. phase2' = [phase2 EXCEPT !.status = s, !.input = i]
  BY DEF EnqueuePhase2
<1>4. s \in Status
  BY DEF Status
<1> HIDE DEF s, i
<1>5. phase2' \in Job2
  BY <1>2, <1>3, <1>4 DEF Job2
<1>6. phase2'.status = s /\ phase2'.input = i /\ phase2'.token = phase2.token
      /\ phase2'.lease = phase2.lease
  BY <1>3 DEF Job2
<1> QED
  BY <1>1, <1>2, <1>5, <1>6 DEF s

(* Type correctness: every operation of the store keeps its tables well-formed. *)
LEMMA TypeStep == StoreTypeOK /\ [StoreNext]_storeVars => StoreTypeOK'
<1> SUFFICES ASSUME StoreTypeOK, [StoreNext]_storeVars PROVE StoreTypeOK'
    OBVIOUS
<1> USE RevisionAssumption, LimitsAssumption DEF StoreTypeOK
<1> USE DEF Output, Job1, Job2, Claim1, Claim2, Status, RevisionOrNone, NoRevision,
        NoToken, NoOutput, NoJob, NoPhase2
<1>1. ASSUME NEW t \in Thread, NEW r \in Revision, ClaimStage1(t, r)
      PROVE StoreTypeOK'
  BY <1>1 DEF ClaimStage1
<1>2. ASSUME NEW c \in issued1, NEW empty \in BOOLEAN, CompleteStage1(c, empty)
      PROVE StoreTypeOK'
  <2>1. c \in Claim1 /\ stage1[c.thread] \in Job1 /\ outputs[c.thread] \in Output
    OBVIOUS
  <2>2. outputs' \in [Thread -> Output]
    <3>1. [outputs[c.thread] EXCEPT !.rev = c.rev, !.epoch = c.epoch] \in Output
      BY <2>1
    <3>2. NoOutput \in Output
      OBVIOUS
    <3> QED
      BY <1>2, <2>1, <3>1, <3>2, ZenonT(40) DEF CompleteStage1
  <2>3. phase2' \in Job2 /\ catalog' \in Nat
    BY <1>2, EnqueueType DEF CompleteStage1, CatalogUnchanged
  <2>4. [stage1[c.thread] EXCEPT !.status = "succeeded", !.token = NoToken,
           !.lease = FALSE, !.wait = FALSE, !.success = stage1[c.thread].input] \in Job1
    BY <2>1
  <2>5. stage1' \in [Thread -> Job1]
    BY <1>2, <2>1, <2>4 DEF CompleteStage1
  <2> QED
    BY <1>2, <2>2, <2>3, <2>5 DEF CompleteStage1
<1>3. ASSUME NEW c \in issued1, FailStage1(c) PROVE StoreTypeOK'
  <2>1. c \in Claim1 /\ stage1[c.thread] \in Job1
    OBVIOUS
  <2> DEFINE left == OneLess(stage1[c.thread].retries)
  <2>2. left \in Nat
    BY <2>1 DEF OneLess
  <2>3. stage1' = [stage1 EXCEPT ![c.thread] =
          [stage1[c.thread] EXCEPT !.status = "error", !.token = NoToken,
              !.lease = FALSE, !.wait = TRUE, !.retries = left]]
    BY <1>3 DEF FailStage1
  <2> HIDE DEF left
  <2>4. [stage1[c.thread] EXCEPT !.status = "error", !.token = NoToken,
            !.lease = FALSE, !.wait = TRUE, !.retries = left] \in Job1
    BY <2>1, <2>2
  <2>5. stage1' \in [Thread -> Job1]
    BY <2>3, <2>4
  <2> QED
    BY <1>3, <2>5 DEF FailStage1
<1>4. ASSUME NEW c \in issued1, AbandonStage1(c) PROVE StoreTypeOK'
  <2>1. c \in Claim1 /\ stage1[c.thread] \in Job1
    OBVIOUS
  <2>2. [stage1[c.thread] EXCEPT !.status = "pending", !.token = NoToken,
           !.lease = FALSE, !.wait = FALSE] \in Job1
    BY <2>1
  <2>3. stage1' \in [Thread -> Job1]
    BY <1>4, <2>1, <2>2 DEF AbandonStage1
  <2> QED
    BY <1>4, <2>3 DEF AbandonStage1
<1>5. ASSUME NEW t \in Thread, RemoveThreadOutput(t) PROVE StoreTypeOK'
  <2>1. phase2' \in Job2 /\ catalog' \in Nat
    BY <1>5, EnqueueType DEF RemoveThreadOutput, CatalogUnchanged
  <2>2. outputs' \in [Thread -> Output] /\ stage1' \in [Thread -> Job1]
    BY <1>5 DEF RemoveThreadOutput, DeleteRows
  <2>3. epoch' \in [Thread -> Nat]
    BY <1>5 DEF RemoveThreadOutput, DeleteRows
  <2> QED
    BY <1>5, <2>1, <2>2, <2>3 DEF RemoveThreadOutput, DeleteRows
<1>6. ASSUME NEW T \in SUBSET Thread, PruneUnselectedOutputs(T) PROVE StoreTypeOK'
  <2>1. catalog' \in Nat /\ phase2' \in Job2
    BY <1>6, EnqueueType DEF PruneUnselectedOutputs
  <2>2. outputs' \in [Thread -> Output] /\ stage1' \in [Thread -> Job1]
    BY <1>6 DEF PruneUnselectedOutputs, DeleteRows
  <2>3. epoch' \in [Thread -> Nat]
    BY <1>6 DEF PruneUnselectedOutputs, DeleteRows
  <2> QED
    BY <1>6, <2>1, <2>2, <2>3 DEF PruneUnselectedOutputs, DeleteRows
<1>7. CASE RecordUsage
  BY <1>7, EnqueueType DEF RecordUsage
<1>8. CASE ClaimPhase2
  <2>1. phase2' \in Job2 /\ lastToken' \in Nat
    <3> DEFINE i == IF phase2.status = "absent" THEN catalog ELSE phase2.input
    <3>1. i \in Nat
      OBVIOUS
    <3>2. lastToken' \in Nat
      BY <1>8 DEF ClaimPhase2
    <3>3. phase2' = [phase2 EXCEPT !.status = "running", !.token = lastToken',
             !.lease = TRUE, !.cooling = FALSE, !.errored = FALSE, !.input = i]
      BY <1>8 DEF ClaimPhase2
    <3> HIDE DEF i
    <3> QED
      BY <3>1, <3>2, <3>3
  <2>2. issued2' \in SUBSET Claim2
    BY <1>8, <2>1 DEF ClaimPhase2
  <2> QED
    BY <1>8, <2>1, <2>2 DEF ClaimPhase2
<1>9. ASSUME NEW c \in issued2, HeartbeatPhase2(c) PROVE StoreTypeOK'
  BY <1>9 DEF HeartbeatPhase2
<1>10. ASSUME NEW c \in issued2, FailPhase2(c) PROVE StoreTypeOK'
  BY <1>10 DEF FailPhase2
<1>11. ASSUME NEW c \in issued2, NEW sel \in [Thread -> RevisionOrNone],
              CompletePhase2(c, sel)
       PROVE StoreTypeOK'
  <2>1. outputs' \in [Thread -> Output]
    BY <1>11, SMTT(20) DEF CompletePhase2
  <2>2. phase2' \in Job2
    <3>1. c.input \in Int
      OBVIOUS
    <3> QED
      BY <1>11, <3>1 DEF CompletePhase2
  <2> QED
    BY <1>11, <2>1, <2>2 DEF CompletePhase2
<1>12. CASE ResetStore
  BY <1>12 DEF ResetStore
<1>13. ASSUME NEW t \in Thread, Stage1TimePasses(t) PROVE StoreTypeOK'
  <2>1. PICK lease \in BOOLEAN, wait \in BOOLEAN :
          stage1' = [stage1 EXCEPT ![t].lease = lease, ![t].wait = wait]
    BY <1>13 DEF Stage1TimePasses
  <2>2. [stage1[t] EXCEPT !.lease = lease, !.wait = wait] \in Job1
    <3>1. stage1[t] \in Job1
      OBVIOUS
    <3> QED
      BY <3>1
  <2>3. stage1' = [stage1 EXCEPT ![t] = [stage1[t] EXCEPT !.lease = lease, !.wait = wait]]
    BY <2>1
  <2>4. stage1' \in [Thread -> Job1]
    BY <2>2, <2>3
  <2> QED
    BY <2>4, <1>13, <2>2 DEF Stage1TimePasses
<1>14. CASE Phase2TimePasses
  <2>1. PICK lease \in BOOLEAN, wait \in BOOLEAN, cooling \in BOOLEAN :
          phase2' = [phase2 EXCEPT !.lease = lease, !.wait = wait, !.cooling = cooling]
    BY <1>14 DEF Phase2TimePasses
  <2> QED
    BY <1>14, <2>1 DEF Phase2TimePasses
<1>15. CASE UNCHANGED storeVars
  BY <1>15 DEF storeVars
<1> QED
  BY <1>1, <1>2, <1>3, <1>4, <1>5, <1>6, <1>7, <1>8, <1>9, <1>10, <1>11, <1>12,
     <1>13, <1>14, <1>15 DEF StoreNext

-----------------------------------------------------------------------------
(* Tokens: a claim gets a number no earlier claim has.                      *)
LEMMA TokensStep ==
  ASSUME StoreTypeOK, TokensGranted, [StoreNext]_storeVars
  PROVE  TokensGranted' /\ lastToken <= lastToken'
<1> USE DEF StoreTypeOK, TokensGranted
<1>1. ASSUME NEW t \in Thread, NEW r \in Revision, ClaimStage1(t, r)
      PROVE  TokensGranted' /\ lastToken <= lastToken'
  BY <1>1 DEF ClaimStage1, Claim1, Claim2
<1>2. CASE ClaimPhase2
  BY <1>2 DEF ClaimPhase2, Claim1, Claim2
<1>3. CASE UNCHANGED <<issued1, issued2, lastToken>>
  BY <1>3
<1>4. ASSUME NEW c \in issued1, NEW empty \in BOOLEAN, CompleteStage1(c, empty)
      PROVE  UNCHANGED <<issued1, issued2, lastToken>>
  BY <1>4 DEF CompleteStage1
<1>5. ASSUME NEW c \in issued1, FailStage1(c) \/ AbandonStage1(c)
      PROVE  UNCHANGED <<issued1, issued2, lastToken>>
  BY <1>5 DEF FailStage1, AbandonStage1
<1>6. ASSUME NEW t \in Thread, RemoveThreadOutput(t) \/ Stage1TimePasses(t)
      PROVE  UNCHANGED <<issued1, issued2, lastToken>>
  BY <1>6 DEF RemoveThreadOutput, DeleteRows, Stage1TimePasses
<1>7. ASSUME NEW T \in SUBSET Thread, PruneUnselectedOutputs(T)
      PROVE  UNCHANGED <<issued1, issued2, lastToken>>
  BY <1>7 DEF PruneUnselectedOutputs, DeleteRows
<1>8. ASSUME NEW c \in issued2, HeartbeatPhase2(c) \/ FailPhase2(c)
      PROVE  UNCHANGED <<issued1, issued2, lastToken>>
  BY <1>8 DEF HeartbeatPhase2, FailPhase2
<1>9. ASSUME NEW c \in issued2, NEW sel \in [Thread -> RevisionOrNone],
             CompletePhase2(c, sel)
      PROVE  UNCHANGED <<issued1, issued2, lastToken>>
  BY <1>9 DEF CompletePhase2
<1>10. CASE RecordUsage \/ ResetStore \/ Phase2TimePasses \/ UNCHANGED storeVars
  BY <1>3, <1>10 DEF RecordUsage, ResetStore, Phase2TimePasses, storeVars
<1> QED
  BY <1>1, <1>2, <1>3, <1>4, <1>5, <1>6, <1>7, <1>8, <1>9, <1>10 DEF StoreNext

(* Phase-1 ownership: a step makes no old claim an owner, and one that leaves
   a claim its job does not forget the claim's thread.                       *)
LEMMA Owner1Step ==
  ASSUME StoreTypeOK, TokensGranted, [StoreNext]_storeVars, NEW c \in issued1, Owns1(c)'
  PROVE  Owns1(c) /\ epoch'[c.thread] = epoch[c.thread]
<1> USE DEF StoreTypeOK, Owns1
<1>0. c \in Claim1 /\ c.thread \in Thread /\ c.token \in Nat /\ c.token <= lastToken
  BY DEF TokensGranted, Claim1
<1> DEFINE Goal == Owns1(c) /\ epoch'[c.thread] = epoch[c.thread]
<1>1. ASSUME NEW t \in Thread, NEW r \in Revision, ClaimStage1(t, r) PROVE Goal
  <2>1. stage1'[t].token = lastToken + 1 /\ lastToken \in Nat
    BY <1>1 DEF ClaimStage1
  <2>2. c.thread # t
    BY <1>0, <2>1
  <2>3. stage1'[c.thread] = stage1[c.thread] /\ epoch' = epoch
    BY <1>0, <1>1, <2>2 DEF ClaimStage1
  <2> QED
    BY <2>3
<1>2. ASSUME NEW d \in issued1, NEW empty \in BOOLEAN, CompleteStage1(d, empty) PROVE Goal
  <2>1. d.thread \in Thread /\ stage1'[d.thread].status = "succeeded"
    BY <1>2 DEF CompleteStage1, Claim1, Job1
  <2> QED
    BY <1>0, <1>2, <2>1 DEF CompleteStage1
<1>3. ASSUME NEW d \in issued1, FailStage1(d) PROVE Goal
  <2>1. d.thread \in Thread /\ stage1'[d.thread].status = "error"
    BY <1>3 DEF FailStage1, Claim1, Job1
  <2> QED
    BY <1>0, <1>3, <2>1 DEF FailStage1
<1>4. ASSUME NEW d \in issued1, AbandonStage1(d) PROVE Goal
  <2>1. d.thread \in Thread /\ stage1'[d.thread].status = "pending"
    BY <1>4 DEF AbandonStage1, Claim1, Job1
  <2> QED
    BY <1>0, <1>4, <2>1 DEF AbandonStage1
<1>5. ASSUME NEW T \in SUBSET Thread, DeleteRows(T) PROVE Goal
  <2>1. c.thread \notin T
    BY <1>0, <1>5 DEF DeleteRows, NoJob
  <2> QED
    BY <1>0, <1>5, <2>1 DEF DeleteRows
<1>6. ASSUME NEW t \in Thread, RemoveThreadOutput(t) PROVE Goal
  BY <1>5, <1>6 DEF RemoveThreadOutput
<1>7. ASSUME NEW T \in SUBSET Thread, PruneUnselectedOutputs(T) PROVE Goal
  BY <1>5, <1>7 DEF PruneUnselectedOutputs
<1>8. CASE ResetStore
  BY <1>0, <1>8 DEF ResetStore, NoJob
<1>9. ASSUME NEW t \in Thread, Stage1TimePasses(t) PROVE Goal
  <2>1. PICK lease \in BOOLEAN, wait \in BOOLEAN :
          stage1' = [stage1 EXCEPT ![t].lease = lease, ![t].wait = wait]
    BY <1>9 DEF Stage1TimePasses
  <2>2. /\ stage1'[c.thread].status = stage1[c.thread].status
        /\ stage1'[c.thread].token = stage1[c.thread].token
        /\ stage1'[c.thread].input = stage1[c.thread].input
    BY <1>0, <2>1 DEF Job1
  <2> QED
    BY <1>9, <2>2 DEF Stage1TimePasses
<1>10. CASE UNCHANGED <<stage1, epoch>>
  BY <1>10
<1>11. CASE RecordUsage \/ ClaimPhase2 \/ Phase2TimePasses \/ UNCHANGED storeVars
  BY <1>10, <1>11 DEF RecordUsage, ClaimPhase2, Phase2TimePasses, storeVars
<1>12. ASSUME NEW d \in issued2, HeartbeatPhase2(d) \/ FailPhase2(d) PROVE Goal
  BY <1>10, <1>12 DEF HeartbeatPhase2, FailPhase2
<1>13. ASSUME NEW d \in issued2, NEW sel \in [Thread -> RevisionOrNone],
              CompletePhase2(d, sel) PROVE Goal
  BY <1>10, <1>13 DEF CompletePhase2
<1> HIDE DEF StoreTypeOK, Owns1
<1> QED
  BY <1>1, <1>2, <1>3, <1>4, <1>6, <1>7, <1>8, <1>9, <1>11, <1>12, <1>13
     DEF StoreNext

(* A claim is granted for the thread's current epoch.                        *)
LEMMA NewClaim1 ==
  ASSUME StoreTypeOK, [StoreNext]_storeVars, NEW c \in issued1', c \notin issued1
  PROVE  c.epoch = epoch'[c.thread]
<1>1. \A t \in Thread, r \in Revision : ClaimStage1(t, r) => c.epoch = epoch'[c.thread]
  BY DEF ClaimStage1
<1>2. issued1' # issued1
  OBVIOUS
<1> QED
  BY <1>1, <1>2
     DEF StoreNext, CompleteStage1, FailStage1, AbandonStage1, RemoveThreadOutput,
         PruneUnselectedOutputs, DeleteRows, RecordUsage, ClaimPhase2, HeartbeatPhase2,
         FailPhase2, CompletePhase2, ResetStore, Stage1TimePasses, Phase2TimePasses,
         storeVars

LEMMA OwnersStep ==
  ASSUME StoreTypeOK, TokensGranted, OwnersAreCurrent, [StoreNext]_storeVars
  PROVE  OwnersAreCurrent'
<1> SUFFICES ASSUME NEW c \in issued1', Owns1(c)' PROVE c.epoch = epoch'[c.thread]
  BY DEF OwnersAreCurrent
<1>1. CASE c \in issued1
  BY <1>1, Owner1Step DEF OwnersAreCurrent
<1>2. CASE c \notin issued1
  BY <1>2, NewClaim1
<1> QED
  BY <1>1, <1>2

(* What is stored was extracted since the thread was last forgotten: a commit
   needs ownership, and forgetting takes the job away with the output.       *)
LEMMA ForgottenStep ==
  ASSUME StoreTypeOK, OwnersAreCurrent, ForgottenStaysForgotten, [StoreNext]_storeVars
  PROVE  ForgottenStaysForgotten'
<1> USE DEF StoreTypeOK, ForgottenStaysForgotten
<1>1. ASSUME NEW c \in issued1, NEW empty \in BOOLEAN, CompleteStage1(c, empty)
      PROVE  ForgottenStaysForgotten'
  <2>1. c.thread \in Thread /\ c.epoch = epoch[c.thread] /\ epoch' = epoch
    BY <1>1 DEF CompleteStage1, OwnersAreCurrent, Claim1
  <2>2. CASE ~empty /\ c.rev > outputs[c.thread].rev
    <3>1. outputs' = [outputs EXCEPT ![c.thread] =
                        [outputs[c.thread] EXCEPT !.rev = c.rev, !.epoch = c.epoch]]
      BY <1>1, <2>2 DEF CompleteStage1
    <3>2. outputs'[c.thread].epoch = epoch[c.thread]
      BY <2>1, <3>1 DEF Output
    <3> QED
      BY <2>1, <3>1, <3>2
  <2>3. CASE ~(~empty /\ c.rev > outputs[c.thread].rev) /\ empty
                /\ outputs[c.thread].rev # NoRevision
    <3>1. outputs' = [outputs EXCEPT ![c.thread] = NoOutput]
      BY <1>1, <2>3 DEF CompleteStage1
    <3> QED
      BY <2>1, <3>1 DEF NoOutput
  <2>4. CASE outputs' = outputs
    BY <2>1, <2>4
  <2> QED
    BY <1>1, <2>2, <2>3, <2>4 DEF CompleteStage1
<1>2. ASSUME NEW T \in SUBSET Thread, DeleteRows(T) PROVE ForgottenStaysForgotten'
  BY <1>2 DEF DeleteRows, NoOutput
<1>3. ASSUME NEW t \in Thread, RemoveThreadOutput(t) PROVE ForgottenStaysForgotten'
  BY <1>2, <1>3 DEF RemoveThreadOutput
<1>4. ASSUME NEW T \in SUBSET Thread, PruneUnselectedOutputs(T)
      PROVE  ForgottenStaysForgotten'
  BY <1>2, <1>4 DEF PruneUnselectedOutputs
<1>5. CASE ResetStore
  BY <1>5 DEF ResetStore, NoOutput
<1>6. ASSUME NEW c \in issued2, NEW sel \in [Thread -> RevisionOrNone],
             CompletePhase2(c, sel)
      PROVE  ForgottenStaysForgotten'
  <2>1. \A t \in Thread : /\ outputs'[t].rev = outputs[t].rev
                          /\ outputs'[t].epoch = outputs[t].epoch
    BY <1>6 DEF CompletePhase2, Output
  <2> QED
    BY <1>6, <2>1 DEF CompletePhase2
<1>7. CASE UNCHANGED <<outputs, epoch>>
  BY <1>7
<1>8. ASSUME NEW t \in Thread, NEW r \in Revision, ClaimStage1(t, r)
      PROVE  UNCHANGED <<outputs, epoch>>
  BY <1>8 DEF ClaimStage1
<1>9. ASSUME NEW c \in issued1, FailStage1(c) \/ AbandonStage1(c)
      PROVE  UNCHANGED <<outputs, epoch>>
  BY <1>9 DEF FailStage1, AbandonStage1
<1>10. ASSUME NEW c \in issued2, HeartbeatPhase2(c) \/ FailPhase2(c)
      PROVE  UNCHANGED <<outputs, epoch>>
  BY <1>10 DEF HeartbeatPhase2, FailPhase2
<1>11. ASSUME NEW t \in Thread, Stage1TimePasses(t) PROVE UNCHANGED <<outputs, epoch>>
  BY <1>11 DEF Stage1TimePasses
<1>12. CASE RecordUsage \/ ClaimPhase2 \/ Phase2TimePasses \/ UNCHANGED storeVars
  BY <1>7, <1>12 DEF RecordUsage, ClaimPhase2, Phase2TimePasses, storeVars
<1> QED
  BY <1>1, <1>3, <1>4, <1>5, <1>6, <1>7, <1>8, <1>9, <1>10, <1>11, <1>12 DEF StoreNext

(* A commit stores the memory of the revision its job works on, and that is
   later than what is stored.                                                *)
LEMMA StoredStep ==
  ASSUME StoreTypeOK, WorksAhead, StoredIsLastSuccess, [StoreNext]_storeVars
  PROVE  WorksAhead' /\ StoredIsLastSuccess'
<1> DEFINE Ahead(j) == j.status = "running" => j.input \in Nat /\ j.success < j.input
           Last(out, j) == out.rev # NoRevision => out.rev = j.success
           Good == \A t \in Thread : Ahead(stage1'[t]) /\ Last(outputs'[t], stage1'[t])
<1> USE DEF StoreTypeOK, WorksAhead, StoredIsLastSuccess
<1>1. ASSUME NEW t \in Thread, NEW r \in Revision, ClaimStage1(t, r) PROVE Good
  <2>1. stage1'[t].input = r /\ stage1'[t].success = stage1[t].success
        /\ stage1[t].success < r /\ r \in Nat
    BY <1>1, RevisionAssumption DEF ClaimStage1
  <2>2. \A u \in Thread \ {t} : stage1'[u] = stage1[u]
    BY <1>1 DEF ClaimStage1
  <2> QED
    BY <1>1, <2>1, <2>2 DEF ClaimStage1
<1>2. ASSUME NEW c \in issued1, NEW empty \in BOOLEAN, CompleteStage1(c, empty) PROVE Good
  <2> DEFINE t == c.thread
  <2>1. /\ t \in Thread /\ c.rev = stage1[t].input /\ c.rev \in Nat
        /\ stage1[t].success < c.rev
    BY <1>2 DEF CompleteStage1, Owns1, Claim1
  <2>2. outputs[t].rev = NoRevision \/ outputs[t].rev = stage1[t].success
    BY <2>1
  <2>3. c.rev > outputs[t].rev
    BY <2>1, <2>2 DEF NoRevision
  <2>4. stage1'[t].status = "succeeded" /\ stage1'[t].success = c.rev
    BY <1>2, <2>1 DEF CompleteStage1, Job1
  <2>5. \A u \in Thread \ {t} : stage1'[u] = stage1[u] /\ outputs'[u] = outputs[u]
    BY <1>2, <2>1 DEF CompleteStage1
  <2>6. outputs'[t].rev \in {NoRevision, c.rev}
    <3>1. CASE ~empty
      <4>1. outputs' = [outputs EXCEPT ![t] =
                          [outputs[t] EXCEPT !.rev = c.rev, !.epoch = c.epoch]]
        BY <1>2, <2>3, <3>1 DEF CompleteStage1
      <4> QED
        BY <2>1, <4>1 DEF Output
    <3>2. CASE empty
      BY <1>2, <2>1, <3>2 DEF CompleteStage1, NoOutput
    <3> QED
      BY <3>1, <3>2
  <2> QED
    BY <2>4, <2>5, <2>6
<1>3. ASSUME NEW c \in issued1, FailStage1(c) PROVE Good
  <2>1. c.thread \in Thread /\ stage1'[c.thread].status = "error"
        /\ stage1'[c.thread].success = stage1[c.thread].success
    BY <1>3 DEF FailStage1, Claim1, Job1
  <2>2. \A u \in Thread \ {c.thread} : stage1'[u] = stage1[u]
    BY <1>3 DEF FailStage1
  <2> QED
    BY <1>3, <2>1, <2>2 DEF FailStage1
<1>4. ASSUME NEW c \in issued1, AbandonStage1(c) PROVE Good
  <2>1. c.thread \in Thread /\ stage1'[c.thread].status = "pending"
        /\ stage1'[c.thread].success = stage1[c.thread].success
    BY <1>4 DEF AbandonStage1, Claim1, Job1
  <2>2. \A u \in Thread \ {c.thread} : stage1'[u] = stage1[u]
    BY <1>4 DEF AbandonStage1
  <2> QED
    BY <1>4, <2>1, <2>2 DEF AbandonStage1
<1>5. ASSUME NEW T \in SUBSET Thread, DeleteRows(T) PROVE Good
  BY <1>5 DEF DeleteRows, NoOutput, NoJob
<1>6. ASSUME NEW t \in Thread, RemoveThreadOutput(t) PROVE Good
  BY <1>5, <1>6 DEF RemoveThreadOutput
<1>7. ASSUME NEW T \in SUBSET Thread, PruneUnselectedOutputs(T) PROVE Good
  BY <1>5, <1>7 DEF PruneUnselectedOutputs
<1>8. ASSUME ResetStore PROVE Good
  BY <1>8 DEF ResetStore, NoOutput, NoJob
<1>9. ASSUME NEW c \in issued2, NEW sel \in [Thread -> RevisionOrNone],
             CompletePhase2(c, sel) PROVE Good
  <2>1. \A t \in Thread : outputs'[t].rev = outputs[t].rev
    BY <1>9 DEF CompletePhase2, Output
  <2> QED
    BY <1>9, <2>1 DEF CompletePhase2
<1>10. ASSUME NEW t \in Thread, Stage1TimePasses(t) PROVE Good
  <2>1. PICK lease \in BOOLEAN, wait \in BOOLEAN :
          stage1' = [stage1 EXCEPT ![t].lease = lease, ![t].wait = wait]
    BY <1>10 DEF Stage1TimePasses
  <2>2. \A u \in Thread : /\ stage1'[u].status = stage1[u].status
                          /\ stage1'[u].input = stage1[u].input
                          /\ stage1'[u].success = stage1[u].success
    BY <2>1 DEF Job1
  <2> QED
    BY <1>10, <2>2 DEF Stage1TimePasses
<1>11. ASSUME UNCHANGED <<outputs, stage1>> PROVE Good
  BY <1>11
<1>12. ASSUME NEW c \in issued2, HeartbeatPhase2(c) \/ FailPhase2(c)
       PROVE  UNCHANGED <<outputs, stage1>>
  BY <1>12 DEF HeartbeatPhase2, FailPhase2
<1>13. ASSUME RecordUsage \/ ClaimPhase2 \/ Phase2TimePasses \/ UNCHANGED storeVars
       PROVE  UNCHANGED <<outputs, stage1>>
  BY <1>13 DEF RecordUsage, ClaimPhase2, Phase2TimePasses, storeVars
<1>14. Good
  <2> HIDE DEF StoreTypeOK, WorksAhead, StoredIsLastSuccess, Good
  <2> QED
    BY <1>1, <1>2, <1>3, <1>4, <1>6, <1>7, <1>8, <1>9, <1>10, <1>11, <1>12, <1>13
       DEF StoreNext
<1> QED
  BY <1>14

-----------------------------------------------------------------------------
(* Phase-2 ownership: a step makes no old claim an owner.                   *)
LEMMA Owner2Step ==
  ASSUME StoreTypeOK, TokensGranted, [StoreNext]_storeVars, NEW c \in issued2, Owns2(c)'
  PROVE  Owns2(c)
<1> USE DEF StoreTypeOK, Owns2
<1>0. c.token \in Nat /\ c.token <= lastToken
  BY DEF TokensGranted, Claim2
<1>1. ASSUME ClaimPhase2 PROVE FALSE
  <2>1. phase2'.token = lastToken + 1 /\ lastToken \in Nat
    BY <1>1 DEF ClaimPhase2, Job2
  <2> QED
    BY <1>0, <2>1
<1>2. CASE EnqueuePhase2
  BY <1>2, EnqueueType
<1>3. CASE UNCHANGED phase2
  BY <1>3
<1>4. ASSUME NEW d \in issued1, NEW empty \in BOOLEAN, CompleteStage1(d, empty)
      PROVE  EnqueuePhase2 \/ UNCHANGED phase2
  BY <1>4 DEF CompleteStage1, CatalogUnchanged
<1>5. ASSUME NEW t \in Thread, RemoveThreadOutput(t)
      PROVE  EnqueuePhase2 \/ UNCHANGED phase2
  BY <1>5 DEF RemoveThreadOutput, CatalogUnchanged
<1>6. ASSUME NEW d \in issued2, HeartbeatPhase2(d) PROVE Owns2(c)
  BY <1>6 DEF HeartbeatPhase2, Job2
<1>7. ASSUME NEW d \in issued2, FailPhase2(d) PROVE Owns2(c)
  BY <1>7 DEF FailPhase2, Job2
<1>8. ASSUME NEW d \in issued2, NEW sel \in [Thread -> RevisionOrNone],
             CompletePhase2(d, sel) PROVE Owns2(c)
  BY <1>8 DEF CompletePhase2, Job2
<1>9. CASE ResetStore
  BY <1>9 DEF ResetStore, NoPhase2
<1>10. CASE Phase2TimePasses
  BY <1>10 DEF Phase2TimePasses, Job2
<1>11. ASSUME NEW t \in Thread, NEW r \in Revision, ClaimStage1(t, r)
       PROVE  UNCHANGED phase2
  BY <1>11 DEF ClaimStage1
<1>12. ASSUME NEW d \in issued1, FailStage1(d) \/ AbandonStage1(d)
       PROVE  UNCHANGED phase2
  BY <1>12 DEF FailStage1, AbandonStage1
<1>13. ASSUME NEW t \in Thread, Stage1TimePasses(t) PROVE UNCHANGED phase2
  BY <1>13 DEF Stage1TimePasses
<1>14. ASSUME NEW T \in SUBSET Thread, PruneUnselectedOutputs(T) PROVE EnqueuePhase2
  BY <1>14 DEF PruneUnselectedOutputs
<1>15. CASE RecordUsage \/ UNCHANGED storeVars
  BY <1>15, <1>2 DEF RecordUsage, storeVars
<1> HIDE DEF StoreTypeOK, Owns2
<1> QED
  BY <1>1, <1>2, <1>3, <1>4, <1>5, <1>6, <1>7, <1>8, <1>9, <1>10, <1>11, <1>12,
     <1>13, <1>14, <1>15 DEF StoreNext

(* A phase-2 claim is granted for the input the job has, which then is the
   latest catalogue.                                                         *)
LEMMA InputStep ==
  ASSUME StoreTypeOK, TokensGranted, InputIsCatalog, RestsOnlyWhenCurrent,
         [StoreNext]_storeVars
  PROVE  InputIsCatalog' /\ RestsOnlyWhenCurrent'
<1> USE DEF StoreTypeOK
<1> DEFINE Good == /\ phase2'.input <= catalog'
                   /\ phase2'.status # "absent" => phase2'.input = catalog'
                   /\ phase2'.status = "succeeded" => phase2'.success = catalog'
                   /\ phase2.input <= phase2'.input \/ phase2'.status # "running"
                   /\ \A c \in issued2' \ issued2 : c.input <= phase2'.input
<1>0. phase2 \in Job2 /\ phase2.input <= catalog
      /\ (phase2.status # "absent" => phase2.input = catalog)
      /\ (phase2.status = "succeeded" => phase2.success = catalog)
  BY DEF InputIsCatalog, RestsOnlyWhenCurrent
<1>1. ASSUME EnqueuePhase2, UNCHANGED issued2 PROVE Good
  BY <1>0, <1>1, EnqueueType DEF Job2
<1>2. ASSUME UNCHANGED <<phase2, catalog, issued2>> PROVE Good
  BY <1>0, <1>2 DEF Job2
<1>3. ASSUME NEW d \in issued1, NEW empty \in BOOLEAN, CompleteStage1(d, empty)
      PROVE  Good
  BY <1>1, <1>2, <1>3 DEF CompleteStage1, CatalogUnchanged
<1>4. ASSUME NEW t \in Thread, RemoveThreadOutput(t) PROVE Good
  BY <1>1, <1>2, <1>4 DEF RemoveThreadOutput, DeleteRows, CatalogUnchanged
<1>5. ASSUME NEW T \in SUBSET Thread, PruneUnselectedOutputs(T) PROVE Good
  BY <1>1, <1>5 DEF PruneUnselectedOutputs, DeleteRows
<1>6. ASSUME RecordUsage PROVE Good
  BY <1>1, <1>6 DEF RecordUsage
<1>7. ASSUME ClaimPhase2 PROVE Good
  <2>1. /\ phase2'.status = "running"
        /\ phase2'.input = catalog
        /\ catalog' = catalog
    BY <1>0, <1>7 DEF ClaimPhase2, Job2
  <2>2. \A c \in issued2' \ issued2 : c.input = phase2'.input
    BY <1>7 DEF ClaimPhase2
  <2>3. catalog \in Nat
    OBVIOUS
  <2> QED
    BY <1>0, <2>1, <2>2, <2>3 DEF Job2
<1>8. ASSUME NEW d \in issued2, HeartbeatPhase2(d) PROVE Good
  BY <1>0, <1>8 DEF HeartbeatPhase2, Job2
<1>9. ASSUME NEW d \in issued2, FailPhase2(d) PROVE Good
  BY <1>0, <1>9 DEF FailPhase2, Owns2, Job2
<1>10. ASSUME NEW d \in issued2, NEW sel \in [Thread -> RevisionOrNone],
              CompletePhase2(d, sel) PROVE Good
  <2>1. d.input \in Nat /\ d.input <= phase2.input /\ phase2.input = catalog
    BY <1>0, <1>10 DEF CompletePhase2, Owns2, InputIsCatalog, Claim2
  <2>2. /\ phase2'.input = phase2.input
        /\ phase2'.status = IF phase2.input > d.input THEN "pending" ELSE "succeeded"
        /\ phase2'.success = d.input
        /\ UNCHANGED <<catalog, issued2>>
    BY <1>10 DEF CompletePhase2, Job2
  <2> QED
    BY <1>0, <2>1, <2>2 DEF Job2
<1>11. ASSUME ResetStore PROVE Good
  BY <1>11 DEF ResetStore, NoPhase2
<1>12. ASSUME Phase2TimePasses PROVE Good
  BY <1>0, <1>12 DEF Phase2TimePasses, Job2
<1>13. ASSUME NEW t \in Thread, NEW r \in Revision, ClaimStage1(t, r) PROVE Good
  BY <1>2, <1>13 DEF ClaimStage1
<1>14. ASSUME NEW d \in issued1, FailStage1(d) \/ AbandonStage1(d) PROVE Good
  BY <1>2, <1>14 DEF FailStage1, AbandonStage1
<1>15. ASSUME NEW t \in Thread, Stage1TimePasses(t) PROVE Good
  BY <1>2, <1>15 DEF Stage1TimePasses
<1>16. ASSUME UNCHANGED storeVars PROVE Good
  BY <1>2, <1>16 DEF storeVars
<1>17. Good
  <2> HIDE DEF StoreTypeOK, Good
  <2> QED
    BY <1>3, <1>4, <1>5, <1>6, <1>7, <1>8, <1>9, <1>10, <1>11, <1>12, <1>13, <1>14,
       <1>15, <1>16 DEF StoreNext
<1>18. \A c \in issued2' : Owns2(c)' => c.input <= phase2'.input
  <2> SUFFICES ASSUME NEW c \in issued2', Owns2(c)' PROVE c.input <= phase2'.input
    OBVIOUS
  <2>1. CASE c \in issued2
    <3>1. c.input <= phase2.input /\ c.input \in Nat
      BY <2>1, Owner2Step DEF InputIsCatalog, Claim2
    <3>2. phase2' \in Job2
      BY TypeStep
    <3>3. phase2.input <= phase2'.input
      BY <1>17 DEF Owns2
    <3> QED
      BY <1>0, <3>1, <3>2, <3>3 DEF Job2
  <2>2. CASE c \notin issued2
    BY <1>17, <2>2
  <2> QED
    BY <2>1, <2>2
<1> QED
  BY <1>17, <1>18 DEF InputIsCatalog, RestsOnlyWhenCurrent

-----------------------------------------------------------------------------
(* The live extractions: only a claim adds one, and it counted the others.  *)
LEMMA SlotsStep ==
  ASSUME StoreTypeOK, SlotsBounded, [StoreNext]_storeVars
  PROVE  SlotsBounded'
<1> USE DEF StoreTypeOK
<1>0. IsFiniteSet(Live1) /\ Cardinality(Live1) \in Nat /\ Cardinality(Live1) <= MaxRunning
  BY ThreadAssumption, FS_Subset, FS_CardinalityType DEF Live1, SlotsBounded
<1>1. ASSUME Live1' \subseteq Live1 PROVE SlotsBounded'
  BY <1>0, <1>1, FS_Subset, FS_CardinalityType, LimitsAssumption DEF SlotsBounded
<1>2. ASSUME NEW t \in Thread, NEW r \in Revision, ClaimStage1(t, r)
      PROVE  SlotsBounded'
  <2> DEFINE others == RunningOthers(t)
  <2>1. IsFiniteSet(others) /\ Cardinality(others) \in Nat
        /\ Cardinality(others) < MaxRunning /\ t \notin others
    BY <1>2, ThreadAssumption, FS_Subset, FS_CardinalityType
       DEF ClaimStage1, RunningOthers
  <2>2. IsFiniteSet(others \cup {t}) /\ Cardinality(others \cup {t}) = Cardinality(others) + 1
    BY <2>1, FS_AddElement
  <2>3. Live1' \subseteq others \cup {t}
    BY <1>2 DEF ClaimStage1, Live1, RunningOthers
  <2> HIDE DEF others
  <2>4. Cardinality(Live1') <= Cardinality(others \cup {t})
        /\ Cardinality(Live1') \in Nat
    BY <2>2, <2>3, FS_Subset, FS_CardinalityType
  <2> QED
    BY <2>1, <2>2, <2>4, LimitsAssumption DEF SlotsBounded
<1>3. ASSUME NEW c \in issued1, NEW empty \in BOOLEAN, CompleteStage1(c, empty)
      PROVE  Live1' \subseteq Live1
  <2>1. c.thread \in Thread /\ stage1'[c.thread].status = "succeeded"
    BY <1>3 DEF CompleteStage1, Claim1, Job1
  <2> QED
    BY <1>3, <2>1 DEF CompleteStage1, Live1
<1>4. ASSUME NEW c \in issued1, FailStage1(c) PROVE Live1' \subseteq Live1
  <2>1. c.thread \in Thread /\ stage1'[c.thread].status = "error"
    BY <1>4 DEF FailStage1, Claim1, Job1
  <2> QED
    BY <1>4, <2>1 DEF FailStage1, Live1
<1>5. ASSUME NEW c \in issued1, AbandonStage1(c) PROVE Live1' \subseteq Live1
  <2>1. c.thread \in Thread /\ stage1'[c.thread].status = "pending"
    BY <1>5 DEF AbandonStage1, Claim1, Job1
  <2> QED
    BY <1>5, <2>1 DEF AbandonStage1, Live1
<1>6. ASSUME NEW T \in SUBSET Thread, DeleteRows(T) PROVE Live1' \subseteq Live1
  BY <1>6 DEF DeleteRows, NoJob, Live1
<1>7. ASSUME NEW t \in Thread, RemoveThreadOutput(t) PROVE Live1' \subseteq Live1
  BY <1>6, <1>7 DEF RemoveThreadOutput
<1>8. ASSUME NEW T \in SUBSET Thread, PruneUnselectedOutputs(T)
      PROVE  Live1' \subseteq Live1
  BY <1>6, <1>8 DEF PruneUnselectedOutputs
<1>9. ASSUME ResetStore PROVE Live1' \subseteq Live1
  BY <1>9 DEF ResetStore, NoJob, Live1
<1>10. ASSUME NEW t \in Thread, Stage1TimePasses(t) PROVE Live1' \subseteq Live1
  <2>1. PICK lease \in BOOLEAN, wait \in BOOLEAN :
          /\ lease => stage1[t].lease
          /\ stage1' = [stage1 EXCEPT ![t].lease = lease, ![t].wait = wait]
    BY <1>10 DEF Stage1TimePasses
  <2>2. /\ stage1'[t].status = stage1[t].status
        /\ stage1'[t].lease = lease
        /\ \A u \in Thread \ {t} : stage1'[u] = stage1[u]
    BY <2>1 DEF Job1
  <2> QED
    BY <2>1, <2>2 DEF Live1
<1>11. ASSUME UNCHANGED stage1 PROVE Live1' \subseteq Live1
  BY <1>11 DEF Live1
<1>12. ASSUME RecordUsage \/ ClaimPhase2 \/ Phase2TimePasses \/ UNCHANGED storeVars
       PROVE  UNCHANGED stage1
  BY <1>12 DEF RecordUsage, ClaimPhase2, Phase2TimePasses, storeVars
<1>13. ASSUME NEW c \in issued2, HeartbeatPhase2(c) \/ FailPhase2(c)
       PROVE  UNCHANGED stage1
  BY <1>13 DEF HeartbeatPhase2, FailPhase2
<1>14. ASSUME NEW c \in issued2, NEW sel \in [Thread -> RevisionOrNone],
              CompletePhase2(c, sel) PROVE UNCHANGED stage1
  BY <1>14 DEF CompletePhase2
<1> HIDE DEF StoreTypeOK
<1> QED
  BY <1>1, <1>2, <1>3, <1>4, <1>5, <1>7, <1>8, <1>9, <1>10, <1>11, <1>12, <1>13,
     <1>14 DEF StoreNext

-----------------------------------------------------------------------------
(* IInv is inductive, so it holds in every reachable state of the store.     *)
LEMMA InvInit == StoreInit => IInv
<1> SUFFICES ASSUME StoreInit PROVE IInv
  OBVIOUS
<1> USE DEF StoreInit
<1>1. StoreTypeOK
  BY DEF StoreTypeOK, NoOutput, NoJob, NoPhase2, NoToken, NoRevision, RevisionOrNone,
         Output, Job1, Job2, Status
<1>2. TokensGranted /\ OwnersAreCurrent /\ ForgottenStaysForgotten
  BY DEF TokensGranted, OwnersAreCurrent, ForgottenStaysForgotten, NoOutput
<1>3. WorksAhead /\ StoredIsLastSuccess /\ InputIsCatalog /\ RestsOnlyWhenCurrent
  BY DEF WorksAhead, StoredIsLastSuccess, InputIsCatalog, RestsOnlyWhenCurrent,
         NoOutput, NoJob, NoPhase2
<1>4. Live1 = {}
  BY DEF Live1, NoJob
<1>5. SlotsBounded
  BY <1>4, FS_EmptySet, LimitsAssumption DEF SlotsBounded
<1> QED
  BY <1>1, <1>2, <1>3, <1>5 DEF IInv

LEMMA InvStep == IInv /\ [StoreNext]_storeVars => IInv'
  BY TypeStep, TokensStep, OwnersStep, ForgottenStep, StoredStep, InputStep,
     SlotsStep DEF IInv

LEMMA InvHolds == StoreSpec => []IInv
  BY InvInit, InvStep, PTL DEF StoreSpec

(* The tables of the store are well-formed, whatever operations its workers
   call and in whatever order.                                               *)
THEOREM TypeCorrect == StoreSpec => []StoreTypeOK
  BY InvHolds, PTL DEF IInv

(* remove_thread_output, prune and reset win against every extraction already
   running: complete_stage1 refuses it, so no stored memory predates the last
   time its thread was forgotten.                                            *)
THEOREM ForgottenIsForgotten == StoreSpec => []ForgottenStaysForgotten
  BY InvHolds, PTL DEF IInv

(* Phase 2 is "succeeded" only with the latest catalogue consolidated:
   complete_phase2 notices the input that arrived while the worker ran.      *)
THEOREM RestIsCurrent == StoreSpec => []RestsOnlyWhenCurrent
  BY InvHolds, PTL DEF IInv

(* claim_stage1 keeps the live extractions within max_running_jobs.          *)
THEOREM SlotsAreBounded == StoreSpec => []SlotsBounded
  BY InvHolds, PTL DEF IInv

(* _owns: a claim that was completed, failed, abandoned, superseded, deleted or
   reset is never the owner of its job again.                                *)
THEOREM LostClaimsStayLost == StoreSpec => LostClaimStaysLost
<1>1. ASSUME IInv, [StoreNext]_storeVars
      PROVE  [/\ \A c \in issued1 : ~Owns1(c) => ~Owns1(c)'
              /\ \A c \in issued2 : ~Owns2(c) => ~Owns2(c)']_storeVars
  BY <1>1, Owner1Step, Owner2Step DEF IInv
<1> QED
  BY <1>1, InvHolds, PTL DEF StoreSpec, LostClaimStaysLost

(* complete_stage1 stores the memory and the success of its job together, so
   neither runs ahead of the other.                                          *)
THEOREM StoredMemoryIsLastSuccess == StoreSpec => []StoredIsLastSuccess
  BY InvHolds, PTL DEF IInv

(* A lease that is live protects its claim: claim_stage1 takes the job over
   only for a newer revision, and claim_phase2 refuses.                      *)
THEOREM LiveClaimsOnlySuperseded == StoreSpec => LiveClaimOnlySuperseded
<1> DEFINE P1 == \A t \in Live1 :
                    stage1'[t].status = "running" /\ stage1'[t].token # stage1[t].token
                        => stage1'[t].input > stage1[t].input
           P2 == phase2.status = "running" /\ phase2.lease /\ phase2'.status = "running"
                     => phase2'.token = phase2.token
<1>1. ASSUME StoreTypeOK, [StoreNext]_storeVars PROVE P1 /\ P2
  <2> USE <1>1 DEF StoreTypeOK
  <2>1. ASSUME NEW t \in Thread, NEW r \in Revision, ClaimStage1(t, r) PROVE P1 /\ P2
    <3>1. \A u \in Thread : u # t => stage1'[u] = stage1[u]
      BY <2>1 DEF ClaimStage1
    <3>2. stage1'[t].input = r /\ (t \in Live1 => r > stage1[t].input)
      BY <2>1 DEF ClaimStage1, Blocked, Live1
    <3> QED
      BY <2>1, <3>1, <3>2 DEF ClaimStage1, Live1
  <2>2. ASSUME NEW c \in issued1, NEW empty \in BOOLEAN, CompleteStage1(c, empty)
        PROVE  P1 /\ P2
    <3>1. c.thread \in Thread /\ stage1'[c.thread].status = "succeeded"
      BY <2>2 DEF CompleteStage1, Claim1, Job1
    <3>2. P1
      BY <2>2, <3>1 DEF CompleteStage1, Live1
    <3>3. P2
      BY <2>2, EnqueueType DEF CompleteStage1, CatalogUnchanged
    <3> QED
      BY <3>2, <3>3
  <2>3. ASSUME NEW c \in issued1, FailStage1(c) PROVE P1 /\ P2
    <3>1. c.thread \in Thread /\ stage1'[c.thread].status = "error"
      BY <2>3 DEF FailStage1, Claim1, Job1
    <3> QED
      BY <2>3, <3>1 DEF FailStage1, Live1
  <2>4. ASSUME NEW c \in issued1, AbandonStage1(c) PROVE P1 /\ P2
    <3>1. c.thread \in Thread /\ stage1'[c.thread].status = "pending"
      BY <2>4 DEF AbandonStage1, Claim1, Job1
    <3> QED
      BY <2>4, <3>1 DEF AbandonStage1, Live1
  <2>5. ASSUME NEW T \in SUBSET Thread, DeleteRows(T) PROVE P1
    BY <2>5 DEF DeleteRows, NoJob, Live1
  <2>6. ASSUME NEW t \in Thread, RemoveThreadOutput(t) PROVE P1 /\ P2
    BY <2>5, <2>6, EnqueueType DEF RemoveThreadOutput, CatalogUnchanged
  <2>7. ASSUME NEW T \in SUBSET Thread, PruneUnselectedOutputs(T) PROVE P1 /\ P2
    BY <2>5, <2>7, EnqueueType DEF PruneUnselectedOutputs
  <2>8. ASSUME RecordUsage PROVE P1 /\ P2
    BY <2>8, EnqueueType DEF RecordUsage, Live1
  <2>9. ASSUME ClaimPhase2 PROVE P1 /\ P2
    BY <2>9 DEF ClaimPhase2, Live1
  <2>10. ASSUME NEW c \in issued2, HeartbeatPhase2(c) PROVE P1 /\ P2
    BY <2>10 DEF HeartbeatPhase2, Live1, Job2
  <2>11. ASSUME NEW c \in issued2, FailPhase2(c) PROVE P1 /\ P2
    BY <2>11 DEF FailPhase2, Live1, Job2
  <2>12. ASSUME NEW c \in issued2, NEW sel \in [Thread -> RevisionOrNone],
                CompletePhase2(c, sel) PROVE P1 /\ P2
    BY <2>12 DEF CompletePhase2, Live1, Job2
  <2>13. ASSUME ResetStore PROVE P1 /\ P2
    BY <2>13 DEF ResetStore, NoJob, NoPhase2, Live1
  <2>14. ASSUME NEW t \in Thread, Stage1TimePasses(t) PROVE P1 /\ P2
    <3>1. PICK lease \in BOOLEAN, wait \in BOOLEAN :
            stage1' = [stage1 EXCEPT ![t].lease = lease, ![t].wait = wait]
      BY <2>14 DEF Stage1TimePasses
    <3>2. \A u \in Thread : stage1'[u].token = stage1[u].token
      BY <3>1 DEF Job1
    <3> QED
      BY <2>14, <3>2 DEF Stage1TimePasses, Live1
  <2>15. ASSUME Phase2TimePasses PROVE P1 /\ P2
    BY <2>15 DEF Phase2TimePasses, Live1, Job2
  <2>16. ASSUME UNCHANGED storeVars PROVE P1 /\ P2
    BY <2>16 DEF storeVars, Live1
  <2> HIDE DEF StoreTypeOK, P1, P2
  <2> QED
    BY <2>1, <2>2, <2>3, <2>4, <2>6, <2>7, <2>8, <2>9, <2>10, <2>11, <2>12, <2>13,
       <2>14, <2>15, <2>16 DEF StoreNext
<1> QED
  BY <1>1, TypeCorrect, PTL DEF StoreSpec, LiveClaimOnlySuperseded

=============================================================================
