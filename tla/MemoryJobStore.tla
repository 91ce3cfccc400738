--------------------------- MODULE MemoryJobStore ---------------------------
(***************************************************************************)
(* The SQLite job store of long-term memory generation                     *)
(* (backend/memory/job_store.py, class MemoryJobStore).                    *)
(*                                                                         *)
(* Phase 1 extracts one memory per conversation thread; phase 2            *)
(* consolidates all of them.  Every method is one BEGIN IMMEDIATE          *)
(* transaction inside the reset lock, so a method is one atomic step; what *)
(* interleaves is who calls it.  This module puts no condition on the      *)
(* callers: any claim ever granted may be completed, failed, abandoned or  *)
(* renewed at any time, which is what a stalled, cancelled or superseded   *)
(* worker of this or of another process amounts to.  A call the store      *)
(* refuses changes nothing and is a stuttering step.                       *)
(*                                                                         *)
(* Clock comparisons are abstracted to the truth value they have now: a    *)
(* lease is live until it expires, a retry is due after its delay, and the *)
(* actions at the end let that time pass at any moment.                    *)
(***************************************************************************)
EXTENDS Integers, FiniteSets

CONSTANTS
    Thread,       \* conversation threads
    Revision,     \* the durable revisions a thread goes through
    MaxRunning,   \* max_running_jobs of phase 1
    RetryLimit,   \* retry_limit of phase 1
    MaxToken,     \* bound: claims granted
    MaxCatalog,   \* bound: changes of the catalogue
    MaxForgets    \* bound: times a thread is forgotten, pruned or reset

ASSUME ThreadAssumption == IsFiniteSet(Thread)
ASSUME RevisionAssumption == Revision \subseteq Nat
ASSUME LimitsAssumption == MaxRunning \in Nat \ {0} /\ RetryLimit \in Nat \ {0}
ASSUME BoundsAssumption == {MaxToken, MaxCatalog, MaxForgets} \subseteq Nat

VARIABLES
    outputs,    \* thread -> its stage1_outputs row
    stage1,     \* thread -> its phase-1 jobs row
    phase2,     \* the phase-2 jobs row
    catalog,    \* memory_state.catalog_revision
    issued1,    \* the phase-1 claims granted so far
    issued2,    \* the phase-2 claims granted so far
    lastToken,  \* the last ownership token: tokens are never reused
    epoch       \* thread -> times it was forgotten, pruned or reset

tables == <<outputs, stage1, phase2, catalog>>
storeVars == <<outputs, stage1, phase2, catalog, issued1, issued2, lastToken, epoch>>

NoRevision == -1
NoToken == 0
RevisionOrNone == Revision \cup {NoRevision}

NoOutput == [rev |-> NoRevision, selected |-> NoRevision, epoch |-> 0]
NoJob == [status |-> "absent", token |-> NoToken, lease |-> FALSE, wait |-> FALSE,
          retries |-> 0, input |-> NoRevision, success |-> NoRevision]
NoPhase2 == [status |-> "absent", token |-> NoToken, lease |-> FALSE,
             wait |-> FALSE, cooling |-> FALSE, errored |-> FALSE,
             input |-> 0, success |-> NoRevision]

Status == {"absent", "pending", "running", "succeeded", "error"}
Claim1 == [thread : Thread, token : Nat, rev : Revision, epoch : Nat]
Claim2 == [token : Nat, input : Nat]
Output == [rev : RevisionOrNone, selected : RevisionOrNone, epoch : Nat]
Job1 == [status : Status, token : Nat, lease : BOOLEAN, wait : BOOLEAN,
         retries : Nat, input : RevisionOrNone, success : RevisionOrNone]
Job2 == [status : Status, token : Nat, lease : BOOLEAN, wait : BOOLEAN,
         cooling : BOOLEAN, errored : BOOLEAN, input : Nat, success : Int]

StoreTypeOK ==
    /\ outputs \in [Thread -> Output]
    /\ stage1 \in [Thread -> Job1]
    /\ phase2 \in Job2
    /\ catalog \in Nat
    /\ issued1 \in SUBSET Claim1
    /\ issued2 \in SUBSET Claim2
    /\ lastToken \in Nat
    /\ epoch \in [Thread -> Nat]

StoreInit ==
    /\ outputs = [t \in Thread |-> NoOutput]
    /\ stage1 = [t \in Thread |-> NoJob]
    /\ phase2 = NoPhase2
    /\ catalog = 0
    /\ issued1 = {} /\ issued2 = {}
    /\ lastToken = NoToken
    /\ epoch = [t \in Thread |-> 0]

-----------------------------------------------------------------------------
(* _owns: phase-1 ownership is the token and the revision it was granted   *)
(* for; phase-2 ownership is the token alone, its input may advance.       *)

\* Mutants: ownership without its token; ownership of whatever runs.
Owns1ByRevision(c) ==
    stage1[c.thread].status = "running" /\ stage1[c.thread].input = c.rev
Owns1Running(c) == stage1[c.thread].status = "running"

Owns1(c) ==
    /\ stage1[c.thread].status = "running"
    /\ stage1[c.thread].token = c.token
    /\ stage1[c.thread].input = c.rev

Owns2(c) == phase2.status = "running" /\ phase2.token = c.token

\* _advance_catalog_revision_tx and _enqueue_phase2_tx: phase 2 has new input.
\* A running owner keeps the job; any other state falls back to pending.
KeepOldInput(a, b) == b  \* mutant: the job's input is not advanced
Max2(a, b) == IF a >= b THEN a ELSE b

EnqueuePhase2 ==
    /\ catalog < MaxCatalog
    /\ catalog' = catalog + 1
    /\ phase2' = [phase2 EXCEPT
                     !.status = IF @ = "running" THEN @ ELSE "pending",
                     !.input = Max2(catalog', @)]

CatalogUnchanged == UNCHANGED <<phase2, catalog>>

-----------------------------------------------------------------------------
(* Phase 1.                                                                *)

BlockedAfterError(job) ==  \* mutant: a live lease does not block
    job.status = "error" /\ (job.retries = 0 \/ job.wait)

\* Why claim_stage1 refuses the revision a job already works or worked on.
Blocked(job) ==
    \/ job.status = "running" /\ job.lease
    \/ job.status = "error" /\ (job.retries = 0 \/ job.wait)

ExpiredOthers(t) ==  \* mutant: the lease is compared the wrong way round
    {u \in Thread \ {t} : stage1[u].status = "running" /\ ~stage1[u].lease}

RunningOthers(t) == {u \in Thread \ {t} : stage1[u].status = "running" /\ stage1[u].lease}

ClaimStage1(t, r) ==
    LET job == stage1[t]
        advanced == r > job.input
    IN  /\ outputs[t].rev < r
        /\ job.success < r
        /\ advanced \/ ~Blocked(job)
        /\ Cardinality(RunningOthers(t)) < MaxRunning
        /\ lastToken < MaxToken
        /\ lastToken' = lastToken + 1
        /\ stage1' = [stage1 EXCEPT ![t] =
               [status |-> "running", token |-> lastToken', lease |-> TRUE,
                wait |-> FALSE, retries |-> IF advanced THEN RetryLimit ELSE job.retries,
                input |-> r, success |-> job.success]]
        /\ issued1' = issued1 \cup
               {[thread |-> t, token |-> lastToken', rev |-> r, epoch |-> epoch[t]]}
        /\ UNCHANGED <<outputs, phase2, catalog, issued2, epoch>>

CompleteStage1Silent(c, empty) ==  \* mutant: a replaced memory is no input
    /\ Owns1(c)
    /\ outputs' = [outputs EXCEPT ![c.thread] =
           IF empty THEN NoOutput ELSE [@ EXCEPT !.rev = c.rev, !.epoch = c.epoch]]
    /\ IF empty \/ outputs[c.thread].rev = NoRevision THEN EnqueuePhase2 ELSE CatalogUnchanged
    /\ stage1' = [stage1 EXCEPT ![c.thread] =
           [@ EXCEPT !.status = "succeeded", !.token = NoToken, !.lease = FALSE,
                     !.wait = FALSE, !.success = stage1[c.thread].input]]
    /\ UNCHANGED <<issued1, issued2, lastToken, epoch>>

\* complete_stage1: store the extracted memory, or delete the thread's output
\* when the extraction came out empty; either change is phase-2 input.
CompleteStage1(c, empty) ==
    /\ Owns1(c)
    /\ IF ~empty /\ c.rev > outputs[c.thread].rev
       THEN /\ outputs' = [outputs EXCEPT ![c.thread] =
                             [@ EXCEPT !.rev = c.rev, !.epoch = c.epoch]]
            /\ EnqueuePhase2
       ELSE IF empty /\ outputs[c.thread].rev # NoRevision
       THEN /\ outputs' = [outputs EXCEPT ![c.thread] = NoOutput]
            /\ EnqueuePhase2
       ELSE UNCHANGED outputs /\ CatalogUnchanged
    /\ stage1' = [stage1 EXCEPT ![c.thread] =
           [@ EXCEPT !.status = "succeeded", !.token = NoToken, !.lease = FALSE,
                     !.wait = FALSE, !.success = stage1[c.thread].input]]
    /\ UNCHANGED <<issued1, issued2, lastToken, epoch>>

\* MAX(retry_remaining - 1, 0)
OneLess(n) == IF n > 0 THEN n - 1 ELSE 0

FailStage1Misnamed(c) ==  \* mutant: a status no other method knows
    /\ Owns1(c)
    /\ stage1' = [stage1 EXCEPT ![c.thread] =
           [@ EXCEPT !.status = "failed", !.token = NoToken, !.lease = FALSE,
                     !.wait = TRUE, !.retries = OneLess(stage1[c.thread].retries)]]
    /\ UNCHANGED <<outputs, phase2, catalog, issued1, issued2, lastToken, epoch>>

FailStage1(c) ==
    /\ Owns1(c)
    /\ stage1' = [stage1 EXCEPT ![c.thread] =
           [@ EXCEPT !.status = "error", !.token = NoToken, !.lease = FALSE,
                     !.wait = TRUE, !.retries = OneLess(stage1[c.thread].retries)]]
    /\ UNCHANGED <<outputs, phase2, catalog, issued1, issued2, lastToken, epoch>>

AbandonStage1(c) ==
    /\ Owns1(c)
    /\ stage1' = [stage1 EXCEPT ![c.thread] =
           [@ EXCEPT !.status = "pending", !.token = NoToken, !.lease = FALSE,
                     !.wait = FALSE]]
    /\ UNCHANGED <<outputs, phase2, catalog, issued1, issued2, lastToken, epoch>>

-----------------------------------------------------------------------------
(* Forgetting and pruning delete output and job rows together.             *)

DeleteOutputs(T) ==  \* mutant: the job rows are kept
    /\ \A t \in T : epoch[t] < MaxForgets
    /\ outputs' = [t \in Thread |-> IF t \in T THEN NoOutput ELSE outputs[t]]
    /\ epoch' = [t \in Thread |-> IF t \in T THEN epoch[t] + 1 ELSE epoch[t]]
    /\ UNCHANGED <<stage1, issued1, issued2, lastToken>>

DeleteRows(T) ==
    /\ \A t \in T : epoch[t] < MaxForgets
    /\ outputs' = [t \in Thread |-> IF t \in T THEN NoOutput ELSE outputs[t]]
    /\ stage1' = [t \in Thread |-> IF t \in T THEN NoJob ELSE stage1[t]]
    /\ epoch' = [t \in Thread |-> IF t \in T THEN epoch[t] + 1 ELSE epoch[t]]
    /\ UNCHANGED <<issued1, issued2, lastToken>>

RemoveThreadOutput(t) ==
    /\ DeleteRows({t})
    /\ IF outputs[t].rev # NoRevision THEN EnqueuePhase2 ELSE CatalogUnchanged

\* prune_unselected_outputs, for some set T of outputs unused for too long.
Prunable == {t \in Thread : outputs[t].rev # NoRevision /\ outputs[t].selected = NoRevision}

PruneUnselectedOutputs(T) ==
    /\ T # {} /\ T \subseteq Prunable
    /\ DeleteRows(T)
    /\ EnqueuePhase2

\* record_stage1_output_usage: a citation only makes phase 2 run again.
RecordUsage ==
    /\ \E t \in Thread : outputs[t].rev # NoRevision
    /\ EnqueuePhase2
    /\ UNCHANGED <<outputs, stage1, issued1, issued2, lastToken, epoch>>

-----------------------------------------------------------------------------
(* Phase 2.                                                                *)

ClaimPhase2 ==
    /\ ~(phase2.status = "running" /\ phase2.lease)
    /\ ~phase2.wait
    /\ phase2.errored \/ ~phase2.cooling
    /\ lastToken < MaxToken
    /\ lastToken' = lastToken + 1
    /\ phase2' = [phase2 EXCEPT
           !.status = "running", !.token = lastToken', !.lease = TRUE,
           !.cooling = FALSE, !.errored = FALSE,
           !.input = IF phase2.status = "absent" THEN catalog ELSE @]
    /\ issued2' = issued2 \cup {[token |-> lastToken', input |-> phase2'.input]}
    /\ UNCHANGED <<outputs, stage1, catalog, issued1, epoch>>

HeartbeatPhase2(c) ==
    /\ Owns2(c)
    /\ phase2' = [phase2 EXCEPT !.lease = TRUE]
    /\ UNCHANGED <<outputs, stage1, catalog, issued1, issued2, lastToken, epoch>>

\* complete_phase2: mark the outputs consolidated at the revision they were
\* read at (sel: thread -> revision read, or NoRevision), and fall back to
\* pending if input arrived after this claim.
CompletePhase2(c, sel) ==
    /\ Owns2(c)
    /\ outputs' = [t \in Thread |-> [outputs[t] EXCEPT
           !.selected = IF sel[t] = outputs[t].rev THEN sel[t] ELSE NoRevision]]
    /\ phase2' = [phase2 EXCEPT
           !.status = IF phase2.input > c.input THEN "pending" ELSE "succeeded",
           !.token = NoToken, !.lease = FALSE, !.wait = FALSE, !.cooling = TRUE,
           !.errored = FALSE, !.success = c.input]
    /\ UNCHANGED <<stage1, catalog, issued1, issued2, lastToken, epoch>>

FailPhase2(c) ==
    /\ Owns2(c)
    /\ phase2' = [phase2 EXCEPT
           !.status = "error", !.token = NoToken, !.lease = FALSE, !.wait = TRUE,
           !.cooling = TRUE, !.errored = TRUE]
    /\ UNCHANGED <<outputs, stage1, catalog, issued1, issued2, lastToken, epoch>>

-----------------------------------------------------------------------------
(* memory.reset swaps the directory: the next connection finds a new,      *)
(* empty database.  Claims of the old one are still in their workers' hands.*)
ResetStore ==
    /\ \A t \in Thread : epoch[t] < MaxForgets
    /\ outputs' = [t \in Thread |-> NoOutput]
    /\ stage1' = [t \in Thread |-> NoJob]
    /\ phase2' = NoPhase2
    /\ catalog' = 0
    /\ epoch' = [t \in Thread |-> epoch[t] + 1]
    /\ UNCHANGED <<issued1, issued2, lastToken>>

(* Time passes.                                                            *)
Stage1TimePasses(t) ==
    /\ \E lease, wait \in BOOLEAN :
           /\ lease => stage1[t].lease
           /\ wait => stage1[t].wait
           /\ stage1' = [stage1 EXCEPT ![t].lease = lease, ![t].wait = wait]
    /\ UNCHANGED <<outputs, phase2, catalog, issued1, issued2, lastToken, epoch>>

Phase2TimePasses ==
    /\ \E lease, wait, cooling \in BOOLEAN :
           /\ lease => phase2.lease
           /\ wait => phase2.wait
           /\ cooling => phase2.cooling
           /\ phase2' = [phase2 EXCEPT !.lease = lease, !.wait = wait,
                                       !.cooling = cooling]
    /\ UNCHANGED <<outputs, stage1, catalog, issued1, issued2, lastToken, epoch>>

-----------------------------------------------------------------------------
StoreNext ==
    \/ \E t \in Thread, r \in Revision : ClaimStage1(t, r)
    \/ \E c \in issued1 : \E empty \in BOOLEAN : CompleteStage1(c, empty)
    \/ \E c \in issued1 : FailStage1(c) \/ AbandonStage1(c)
    \/ \E t \in Thread : RemoveThreadOutput(t)
    \/ \E T \in SUBSET Thread : PruneUnselectedOutputs(T)
    \/ RecordUsage
    \/ ClaimPhase2
    \/ \E c \in issued2 : HeartbeatPhase2(c) \/ FailPhase2(c)
    \/ \E c \in issued2, sel \in [Thread -> RevisionOrNone] : CompletePhase2(c, sel)
    \/ ResetStore
    \/ \E t \in Thread : Stage1TimePasses(t)
    \/ Phase2TimePasses

StoreSpec == StoreInit /\ [][StoreNext]_storeVars
-----------------------------------------------------------------------------
(* Properties.                                                             *)

\* What a worker extracted before its thread was forgotten, pruned or reset is
\* never stored afterwards: remove_thread_output deletes the job row, and "a
\* worker holding an old token then opens the new database and cannot commit
\* into the reset generation".
ForgottenStaysForgotten ==
    \A t \in Thread : outputs[t].rev # NoRevision => outputs[t].epoch = epoch[t]

\* The stored memory of a thread is that of the last revision its job succeeded
\* with, whatever order its extractions finish in: the job row never marks a
\* revision as extracted whose memory an older one's overwrote (complete_stage1).
StoredIsLastSuccess ==
    \A t \in Thread : outputs[t].rev # NoRevision
                          => outputs[t].rev = stage1[t].success

\* max_running_jobs bounds the live extractions of the whole project, although
\* each claim counts only the jobs of the other threads.
Live1 == {t \in Thread : stage1[t].status = "running" /\ stage1[t].lease}
SlotsBounded == Cardinality(Live1) <= MaxRunning

\* A claim whose lease is live is lost to another worker only for a newer
\* revision of the thread (claim_stage1), and never in phase 2 (claim_phase2).
LiveClaimOnlySuperseded ==
    [][/\ \A t \in Live1 :
             stage1'[t].status = "running" /\ stage1'[t].token # stage1[t].token
                 => stage1'[t].input > stage1[t].input
       /\ phase2.status = "running" /\ phase2.lease /\ phase2'.status = "running"
             => phase2'.token = phase2.token]_storeVars

\* A claim that was completed, failed, abandoned, superseded or deleted is never
\* the owner again, so a worker settles its job at most once (_owns).
LostClaimStaysLost ==
    [][/\ \A c \in issued1 : ~Owns1(c) => ~Owns1(c)'
       /\ \A c \in issued2 : ~Owns2(c) => ~Owns2(c)']_storeVars

\* Phase 2 rests only when it has consolidated the latest catalogue: input that
\* arrives while a worker runs leaves the job pending (complete_phase2).
RestsOnlyWhenCurrent ==
    phase2.status = "succeeded" => phase2.success = catalog

=============================================================================
