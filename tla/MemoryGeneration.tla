-------------------------- MODULE MemoryGeneration --------------------------
(***************************************************************************)
(* The long-term memory workers (backend/memory/generation.py, class       *)
(* MemoryGenerationCoordinator) over the job store, the conversations they *)
(* read and the memory directory they write.                               *)
(*                                                                         *)
(* A worker is a background task: run_startup (prune, reconcile, extract,  *)
(* consolidate) or forget_and_consolidate.  Every await is a point where   *)
(* users change conversations, other workers act, the task is cancelled or *)
(* its process dies.  The store is changed by its own methods only, so     *)
(* this module implements StoreSpec.                                       *)
(***************************************************************************)
EXTENDS MemoryJobStore

CONSTANTS
    Worker,       \* background tasks, each of a process of its own
    MaxRollouts,  \* MAX_STAGE1_ROLLOUTS
    MaxChanges,   \* bound: changes of a conversation's mode
    MaxTasks      \* bound: tasks started

ASSUME SomeRevision == Revision # {}
ASSUME RolloutsAssumption == MaxRollouts \in Nat \ {0}
ASSUME TasksAssumption == {MaxChanges, MaxTasks} \subseteq Nat

VARIABLES
    conv,      \* thread -> its conversation: content revision and mode
    changes,   \* bound: mode changes so far
    started,   \* bound: tasks started so far
    forgets,   \* conversations whose forget task is scheduled and not started
    task,      \* worker -> its coroutine
    ex,        \* worker -> thread -> its _run_phase1 coroutine
    raw,       \* raw_memories.md: thread -> the output merged into it
    memory,    \* MEMORY.md and its summary: thread -> the output it draws on
    valid,     \* _artifacts_valid
    baseline,  \* the committed raw and memory
    forgot,    \* history: ineligible threads removed since they became so
    tainted    \* history: a worker wrote MEMORY.md without owning phase 2

convVars == <<conv, changes, started, forgets>>
files == <<raw, memory, valid, baseline>>
genVars == <<convVars, task, ex, files, forgot, tainted>>
vars == <<storeVars, genVars>>

Mode == {"enabled", "disabled", "archived", "deleted"}
Conversation == [rev : Revision, mode : Mode]
NoDraw == [rev |-> NoRevision, epoch |-> 0]
Draw == [rev : RevisionOrNone, epoch : Nat]
NoDraws == [t \in Thread |-> NoDraw]
NoClaim2 == [token |-> NoToken, input |-> 0]

NewConversation == [rev |-> CHOOSE r \in Revision : \A q \in Revision : r <= q, mode |-> "enabled"]
NewConversations == [t \in Thread |-> NewConversation]
IdleTask == [at |-> "idle", view |-> NewConversations, todo |-> {}, sel |-> NoDraws,
             claim |-> NoClaim2]
TaskStage == {"idle", "list", "reconcile", "extract", "select", "filter",
              "consolidate", "check", "commit", "keep", "fail"}
NoClaim1 == [thread |-> "none"]
IdleExMisnamed == [at |-> "done", claim |-> NoClaim1, empty |-> FALSE]  \* mutant
IdleEx == [at |-> "off", claim |-> NoClaim1, empty |-> FALSE]
ExStage == {"off", "claim", "read", "model", "reread", "store", "abandon", "fail"}

TypeOK ==
    /\ conv \in [Thread -> Conversation]
    /\ changes \in 0..MaxChanges
    /\ started \in 0..MaxTasks
    /\ forgets \subseteq Thread
    /\ task \in [Worker -> [at : TaskStage, view : [Thread -> Conversation], todo : SUBSET Thread,
                            sel : [Thread -> Draw], claim : Claim2]]
    /\ ex \in [Worker -> [Thread -> [at : ExStage, claim : Claim1 \cup {NoClaim1}, empty : BOOLEAN]]]
    /\ raw \in [Thread -> Draw] /\ memory \in [Thread -> Draw]
    /\ baseline \in [raw : [Thread -> Draw], memory : [Thread -> Draw]]
    /\ valid \in BOOLEAN
    /\ forgot \subseteq Thread
    /\ tainted \in BOOLEAN

Init ==
    /\ StoreInit
    /\ conv = NewConversations
    /\ changes = 0 /\ started = 0 /\ forgets = {}
    /\ task = [w \in Worker |-> IdleTask]
    /\ ex = [w \in Worker |-> [t \in Thread |-> IdleEx]]
    /\ raw = NoDraws /\ memory = NoDraws /\ valid = FALSE
    /\ baseline = [raw |-> NoDraws, memory |-> NoDraws]
    /\ forgot = {} /\ tainted = FALSE

-----------------------------------------------------------------------------
(* Conversations.                                                          *)

Eligible(c) == c.mode = "enabled"  \* main conversations: enabled, not archived

\* A turn adds messages: the content revision moves on.
EditConversation(t) ==
    /\ conv[t].mode # "deleted"
    /\ \E r \in Revision : r > conv[t].rev /\ conv' = [conv EXCEPT ![t].rev = r]
    /\ UNCHANGED <<storeVars, changes, started, forgets, task, ex, files, forgot, tainted>>

\* Archiving, deleting, disabling or polluting a conversation schedules a forget
\* task; enabling or restoring one makes it a candidate again.
ChangeMode(t, mode) ==
    /\ changes < MaxChanges /\ changes' = changes + 1
    /\ conv[t].mode \notin {"deleted", mode}
    /\ conv' = [conv EXCEPT ![t].mode = mode]
    /\ forgets' = IF Eligible(conv'[t]) THEN forgets ELSE forgets \cup {t}
    /\ forgot' = IF Eligible(conv'[t]) THEN forgot \ {t} ELSE forgot
    /\ UNCHANGED <<storeVars, started, task, ex, files, tainted>>

-----------------------------------------------------------------------------
(* Steps of a task.                                                        *)

At(w, stage) == task[w].at = stage
GoTo(w, stage) == task' = [task EXCEPT ![w].at = stage]
Leave(w) == task' = [task EXCEPT ![w] = IdleTask]
ExAt(w, t, stage) == ex[w][t].at = stage
ExGoTo(w, t, stage) == ex' = [ex EXCEPT ![w][t].at = stage]
ExDone(w, t) == ex' = [ex EXCEPT ![w][t] = IdleEx]

\* Mutant: the output is deleted without its job and without phase-2 input.
ForgettingOutput(t) ==
    /\ outputs' = [outputs EXCEPT ![t] = NoOutput]
    /\ forgot' = IF Eligible(conv[t]) THEN forgot ELSE forgot \cup {t}
    /\ UNCHANGED <<stage1, phase2, catalog, issued1, issued2, lastToken, epoch>>

\* remove_thread_output, by a task: history notes whose rows are gone for good.
Forgetting(t) ==
    /\ RemoveThreadOutput(t)
    /\ forgot' = IF Eligible(conv[t]) THEN forgot ELSE forgot \cup {t}

Quiet == UNCHANGED <<storeVars, forgot>>

\* run_startup: prune what phase 2 never selected, ...
Startup(w) ==
    /\ At(w, "idle") /\ GoTo(w, "list")
    /\ started < MaxTasks /\ started' = started + 1
    /\ \/ \E T \in SUBSET Thread : PruneUnselectedOutputs(T)
       \/ UNCHANGED storeVars
    /\ UNCHANGED <<conv, changes, forgets, ex, files, forgot, tainted>>

\* ... list the conversations, ...
ListConversations(w) ==
    /\ At(w, "list")
    /\ task' = [task EXCEPT ![w].at = "reconcile", ![w].view = conv,
                            ![w].todo = {t \in Thread : conv[t].mode \in {"disabled", "archived"}}]
    /\ Quiet /\ UNCHANGED <<convVars, ex, files, tainted>>

\* ... drop the outputs of those listed as ineligible, ...
Reconcile(w, t) ==
    /\ At(w, "reconcile") /\ t \in task[w].todo
    /\ Forgetting(t)
    /\ task' = [task EXCEPT ![w].todo = @ \ {t}]
    /\ UNCHANGED <<convVars, ex, files, tainted>>

\* ... and extract some of the others: those idle for long enough, newest first.
ChooseCandidates(w) ==
    /\ At(w, "reconcile") /\ task[w].todo = {}
    /\ \E C \in SUBSET {t \in Thread : Eligible(task[w].view[t])} :
           /\ Cardinality(C) <= MaxRollouts
           /\ ex' = [ex EXCEPT ![w] = [t \in Thread |->
                        IF t \in C THEN [IdleEx EXCEPT !.at = "claim"] ELSE IdleEx]]
    /\ GoTo(w, "extract")
    /\ Quiet /\ UNCHANGED <<convVars, files, tainted>>

\* forget_and_consolidate
Forget(w, t) ==
    /\ At(w, "idle") /\ t \in forgets
    /\ started < MaxTasks /\ started' = started + 1
    /\ forgets' = forgets \ {t}
    /\ Forgetting(t)
    /\ GoTo(w, "extract")
    /\ UNCHANGED <<conv, changes, ex, files, tainted>>

-----------------------------------------------------------------------------
(* _run_phase1: the rollouts of a startup run concurrently.                *)

Rest1 == UNCHANGED <<convVars, task, files, forgot, tainted>>

ClaimThread(w, t) ==
    LET r == task[w].view[t].rev
    IN  /\ ExAt(w, t, "claim")
        /\ ClaimStage1(t, r)
        /\ ex' = [ex EXCEPT ![w][t].at = "read",
                            ![w][t].claim = [thread |-> t, token |-> lastToken', rev |-> r,
                                             epoch |-> epoch[t]]]
        /\ Rest1

\* claim_stage1 returns None.
ClaimRefused(w, t) ==
    LET r == task[w].view[t].rev
    IN  /\ ExAt(w, t, "claim")
        /\ \/ outputs[t].rev >= r \/ stage1[t].success >= r
           \/ r <= stage1[t].input /\ Blocked(stage1[t])
           \/ Cardinality(RunningOthers(t)) >= MaxRunning
        /\ ExDone(w, t)
        /\ UNCHANGED storeVars /\ Rest1

\* The conversation is read again under the claim: it may have moved on.
ReadUnchecked(w, t) ==  \* mutant: its mode is not looked at
    LET c == conv[t]
    IN  /\ ExAt(w, t, "read")
        /\ ExGoTo(w, t, IF c.rev = ex[w][t].claim.rev THEN "model" ELSE "abandon")
        /\ UNCHANGED storeVars /\ Rest1

ReadConversation(w, t) ==
    LET c == conv[t]
    IN  /\ ExAt(w, t, "read")
        /\ ExGoTo(w, t, IF c.rev = ex[w][t].claim.rev /\ Eligible(c) THEN "model" ELSE "abandon")
        /\ UNCHANGED storeVars /\ Rest1

\* _extract_phase1: the model answers with a memory or with nothing.
Extract(w, t) ==
    /\ ExAt(w, t, "model")
    /\ \E empty \in BOOLEAN : ex' = [ex EXCEPT ![w][t].at = "reread", ![w][t].empty = empty]
    /\ UNCHANGED storeVars /\ Rest1

\* An awaited call raises, or the task is cancelled with no barrier up.
Raises1(w, t) ==
    /\ ex[w][t].at \in {"read", "model", "reread", "store", "abandon"}
    /\ ExGoTo(w, t, "fail")
    /\ UNCHANGED storeVars /\ Rest1

\* What was extracted is blanked if the conversation was disabled meanwhile, and
\* abandoned if it moved on.  An archived one is not looked at here.
Reread(w, t) ==
    LET c == conv[t]
        off == c.mode \in {"disabled", "deleted"}
    IN  /\ ExAt(w, t, "reread")
        /\ ex' = [ex EXCEPT
               ![w][t].at = IF ~off /\ c.rev # ex[w][t].claim.rev THEN "abandon" ELSE "store",
               ![w][t].empty = @ \/ off]
        /\ UNCHANGED storeVars /\ Rest1

\* Settling the claim; the store refuses one that is no longer owned.
Settle1(w, t) ==
    LET e == ex[w][t]
    IN  /\ e.at \in {"store", "abandon", "fail"}
        /\ \/ e.at = "store" /\ CompleteStage1(e.claim, e.empty)
           \/ e.at = "abandon" /\ AbandonStage1(e.claim)
           \/ e.at = "fail" /\ FailStage1(e.claim)
           \/ ~Owns1(e.claim) /\ UNCHANGED storeVars
        /\ ExDone(w, t)
        /\ Rest1

-----------------------------------------------------------------------------
(* _run_phase2.                                                            *)

Rest2 == UNCHANGED <<convVars, ex>>

\* The extractions of a startup have all returned; a forget task has none.
Phase1Done(w) == At(w, "extract") /\ \A t \in Thread : ExAt(w, t, "off")

Claim2OfWorker(w) ==
    /\ Phase1Done(w)
    /\ ClaimPhase2
    /\ task' = [task EXCEPT ![w] = [IdleTask EXCEPT !.at = "select",
                            !.claim = [token |-> lastToken', input |-> phase2'.input]]]
    /\ Rest2 /\ UNCHANGED <<files, forgot, tainted>>

\* claim_phase2 returns None.
Claim2Refused(w) ==
    /\ Phase1Done(w)
    /\ \/ phase2.status = "running" /\ phase2.lease
       \/ phase2.wait
       \/ ~phase2.errored /\ phase2.cooling
    /\ Leave(w)
    /\ Quiet /\ Rest2 /\ UNCHANGED <<files, tainted>>

\* list_stage1_outputs: all of them but some unused for too long.
SelectOutputs(w) ==
    /\ At(w, "select")
    /\ \E L \in SUBSET {t \in Thread : outputs[t].rev # NoRevision} :
           task' = [task EXCEPT ![w].at = "filter", ![w].todo = L,
               ![w].sel = [t \in Thread |->
                   IF t \in L THEN [rev |-> outputs[t].rev, epoch |-> outputs[t].epoch]
                   ELSE NoDraw]]
    /\ Quiet /\ Rest2 /\ UNCHANGED <<files, tainted>>

\* _eligible_phase2_outputs, one output after the other: an ineligible
\* conversation is forgotten, one that moved on is left for its next extraction.
FilterOutput(w, t) ==
    LET keep == Eligible(conv[t]) /\ conv[t].rev = task[w].sel[t].rev
    IN  /\ At(w, "filter") /\ t \in task[w].todo
        /\ IF Eligible(conv[t]) THEN Quiet ELSE Forgetting(t)
        /\ task' = [task EXCEPT ![w].todo = @ \ {t},
                                ![w].sel[t] = IF keep THEN @ ELSE NoDraw]
        /\ Rest2 /\ UNCHANGED <<files, tainted>>

\* _prepare_phase2_workspace: under the reset lock, so with no store method in
\* between, the owner writes the inputs and compares the tree with its baseline.
PrepareUnowned(w) ==  \* mutant: the owner is not asked for
    LET clean == task[w].sel = baseline.raw /\ memory = baseline.memory /\ valid
    IN  /\ At(w, "filter") /\ task[w].todo = {}
        /\ raw' = task[w].sel
        /\ GoTo(w, IF clean THEN "keep" ELSE "consolidate")
        /\ Quiet /\ Rest2 /\ UNCHANGED <<memory, valid, baseline, tainted>>

Prepare(w) ==
    LET clean == task[w].sel = baseline.raw /\ memory = baseline.memory /\ valid
    IN  /\ At(w, "filter") /\ task[w].todo = {}
        /\ IF Owns2(task[w].claim)
           THEN /\ raw' = task[w].sel
                /\ GoTo(w, IF clean THEN "keep" ELSE "consolidate")
           ELSE UNCHANGED raw /\ GoTo(w, "fail")
        /\ Quiet /\ Rest2 /\ UNCHANGED <<memory, valid, baseline, tainted>>

\* run_memory_consolidation_agent reads the inputs and writes MEMORY.md, file by
\* file, without any lock; it may stop half way.
Consolidate(w) ==
    /\ At(w, "consolidate")
    /\ memory' = raw
    /\ valid' \in BOOLEAN
    /\ tainted' = (tainted \/ ~Owns2(task[w].claim))
    /\ \E stage \in {"consolidate", "check"} : GoTo(w, stage)
    /\ Quiet /\ Rest2 /\ UNCHANGED <<raw, baseline>>

\* _outputs_still_eligible
CheckSelection(w) ==
    LET chosen == {t \in Thread : task[w].sel[t] # NoDraw}
        same == \A t \in chosen : Eligible(conv[t]) /\ conv[t].rev = task[w].sel[t].rev
    IN  /\ At(w, "check")
        /\ GoTo(w, IF same THEN "commit" ELSE "fail")
        /\ Quiet /\ Rest2 /\ UNCHANGED <<files, tainted>>

\* _commit_phase2_artifacts, and _commit_phase2_without_changes ("keep").
Commit(w) ==
    LET t2 == task[w]
    IN  /\ t2.at \in {"commit", "keep"}
        /\ IF Owns2(t2.claim) /\ valid
           THEN /\ baseline' = IF t2.at = "keep" THEN baseline ELSE [raw |-> raw, memory |-> memory]
                /\ CompletePhase2(t2.claim, [t \in Thread |-> t2.sel[t].rev])
                /\ Leave(w)
           ELSE /\ GoTo(w, "fail")
                /\ UNCHANGED <<baseline, storeVars>>
        /\ Rest2 /\ UNCHANGED <<raw, memory, valid, forgot, tainted>>

Fail2(w) ==
    /\ At(w, "fail")
    /\ \/ FailPhase2(task[w].claim)
       \/ ~Owns2(task[w].claim) /\ UNCHANGED storeVars
    /\ Leave(w)
    /\ Rest2 /\ UNCHANGED <<files, forgot, tainted>>

Phase2Stage == {"select", "filter", "consolidate", "check", "commit", "keep"}

\* _heartbeat_phase2 renews the lease.
Heartbeat(w) ==
    /\ task[w].at \in Phase2Stage
    /\ HeartbeatPhase2(task[w].claim)
    /\ Rest2 /\ UNCHANGED <<task, files, forgot, tainted>>

\* A call raises (a lock, a file, the model), or the task is cancelled: by the
\* heartbeat that finds the job lost, or by its process with no barrier up.
Raises2(w) ==
    /\ task[w].at \in Phase2Stage
    /\ GoTo(w, "fail")
    /\ Quiet /\ Rest2 /\ UNCHANGED <<files, tainted>>

-----------------------------------------------------------------------------
\* The process dies, or a reset barrier or shutdown cancels the task: with the
\* barrier up a cancelled worker settles nothing.
Stop(w) ==
    /\ ~At(w, "idle")
    /\ Leave(w)
    /\ ex' = [ex EXCEPT ![w] = [t \in Thread |-> IdleEx]]
    /\ Quiet /\ UNCHANGED <<convVars, files, tainted>>

\* memory.reset by the process of worker w: its own task has been drained, those
\* of other processes are not asked.
Reset(w) ==
    /\ At(w, "idle")
    /\ ResetStore
    /\ raw' = NoDraws /\ memory' = NoDraws /\ valid' = FALSE
    /\ baseline' = [raw |-> NoDraws, memory |-> NoDraws]
    /\ UNCHANGED <<convVars, task, ex, forgot, tainted>>

TimePasses ==
    /\ \/ \E t \in Thread : Stage1TimePasses(t)
       \/ Phase2TimePasses
    /\ UNCHANGED genVars

StartupStep(w) ==
    \/ Startup(w) \/ ListConversations(w) \/ ChooseCandidates(w)
    \/ \E t \in Thread : Reconcile(w, t) \/ Forget(w, t)

Phase1Step(w, t) ==
    \/ ClaimThread(w, t) \/ ClaimRefused(w, t) \/ ReadConversation(w, t)
    \/ Extract(w, t) \/ Reread(w, t) \/ Raises1(w, t) \/ Settle1(w, t)

Phase2Step(w) ==
    \/ Claim2OfWorker(w) \/ Claim2Refused(w) \/ SelectOutputs(w)
    \/ \E t \in Thread : FilterOutput(w, t)
    \/ Prepare(w) \/ Consolidate(w) \/ CheckSelection(w) \/ Commit(w) \/ Fail2(w)
    \/ Heartbeat(w) \/ Raises2(w)

Next ==
    \/ \E t \in Thread : EditConversation(t)
    \/ \E t \in Thread, mode \in Mode : ChangeMode(t, mode)
    \/ \E w \in Worker : StartupStep(w) \/ Phase2Step(w) \/ Stop(w) \/ Reset(w)
    \/ \E w \in Worker, t \in Thread : Phase1Step(w, t)
    \/ TimePasses

Spec == Init /\ [][Next]_vars
-----------------------------------------------------------------------------
(* Properties.                                                             *)

\* A conversation whose output was removed while it was ineligible (disabled,
\* polluted, archived or deleted) has none until it is eligible again, although
\* workers hold older views of it and extractions of it are in flight: the claim
\* dies with the row, and a later claim is checked again (_run_phase1).
NothingStoredOnceForgotten == \A t \in forgot : outputs[t].rev = NoRevision

\* While a worker that owns phase 2 consolidates, checks and commits, the inputs
\* on disk are the ones it selected, and it commits no others
\* (_prepare_phase2_workspace): stalled workers and resets change them only after
\* ownership has changed.
OwnerWroteTheInputs ==
    \A w \in Worker : task[w].at \in {"consolidate", "check", "commit", "keep"} /\ Owns2(task[w].claim)
                          => raw = task[w].sel

\* When phase 2 rests, MEMORY.md draws on nothing that has been forgotten, pruned,
\* reset or replaced by a newer extraction since: whatever leaves or enters the
\* store while a worker consolidates, or while phase 2 rests, makes it run again
\* (complete_stage1, remove_thread_output, complete_phase2).  The exception is a
\* worker of another process that kept writing after it lost phase 2, which no lock
\* prevents.
Draws(d) == {t \in Thread : d[t] # NoDraw}
Stored(t) == [rev |-> outputs[t].rev, epoch |-> epoch[t]]
RestsOnStored ==
    phase2.status = "succeeded" /\ ~tainted
        => \A t \in Draws(memory) : outputs[t].rev # NoRevision /\ memory[t] = Stored(t)

\* The workers use the store as its specification allows: each changes it by its
\* methods only, with claims it was granted (MemoryJobStore).
UsesStore == StoreSpec
=============================================================================
