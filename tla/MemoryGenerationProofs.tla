----------------------- MODULE MemoryGenerationProofs -----------------------
(***************************************************************************)
(* Proofs about MemoryGeneration, for every set of threads, revisions and  *)
(* workers, every limit and every bound.  They rest on what                *)
(* MemoryJobStoreProofs shows of the store.                                *)
(***************************************************************************)
EXTENDS MemoryGeneration, MemoryJobStoreProofs, WellFoundedInduction

Phase2OrFail == Phase2Stage \cup {"fail"}

(* A worker settles and renews only claims it was granted.                   *)
ClaimsGranted ==
    /\ \A w \in Worker, t \in Thread :
           ex[w][t].at \notin {"off", "claim"}
               => ex[w][t].claim \in issued1 /\ ex[w][t].claim.thread = t
    /\ \A w \in Worker : task[w].at \in Phase2OrFail => task[w].claim \in issued2

(* No two workers hold the same phase-2 claim, so at most one owns the job.  *)
TokensUnique ==
    \A v, w \in Worker :
        v # w /\ task[v].at \in Phase2OrFail /\ task[w].at \in Phase2OrFail
            => task[v].claim.token # task[w].claim.token

(* A claim on a forgotten thread does not outlive the check of its mode.     *)
ForgottenNotExtracted ==
    \A t \in forgot :
        /\ ~Eligible(conv[t])
        /\ outputs[t].rev = NoRevision
        /\ \A w \in Worker :
               ex[w][t].at \in {"model", "reread", "store"} => ~Owns1(ex[w][t].claim)

Owner(w) == task[w].at \in Phase2Stage /\ Owns2(task[w].claim)

(* What d draws on is what the store holds: not forgotten, not replaced since. *)
Current(d) == \A t \in Draws(d) : outputs[t].rev # NoRevision /\ d[t] = Stored(t)

(* As long as no input has arrived since the owner's claim, its selection is
   current.                                                                  *)
SelectionIsCurrent ==
    \A w \in Worker : Owner(w) /\ task[w].at # "select" /\ phase2.input = task[w].claim.input
                          => Current(task[w].sel)

(* Unless a worker wrote without owning phase 2, MEMORY.md is the owner's once
   it has been written or found unchanged, and so is the committed one.       *)
OwnerWroteTheMemory ==
    ~tainted => /\ baseline.memory = baseline.raw
                /\ \A w \in Worker : Owner(w) /\ task[w].at \in {"check", "commit", "keep"}
                                         => memory = task[w].sel

GenInv ==
    /\ TypeOK
    /\ ClaimsGranted
    /\ TokensUnique
    /\ ForgottenNotExtracted
    /\ OwnerWroteTheInputs
    /\ SelectionIsCurrent
    /\ OwnerWroteTheMemory
    /\ RestsOnStored

-----------------------------------------------------------------------------
(* Types.                                                                    *)

Task == [at : TaskStage, view : [Thread -> Conversation], todo : SUBSET Thread,
         sel : [Thread -> Draw], claim : Claim2]
Ex == [at : ExStage, claim : Claim1 \cup {NoClaim1}, empty : BOOLEAN]

LEMMA LowestRevision == NewConversation \in Conversation
<1>1. PICK r \in Revision : \A q \in Revision : ~ (<<q, r>> \in OpToRel(<, Nat))
  BY WFMin, NatLessThanWellFounded, SomeRevision, RevisionAssumption
<1>2. \A q \in Revision : r <= q
  <2>1. \A q \in Revision : ~ (q < r)
    BY <1>1, RevisionAssumption DEF OpToRel
  <2> QED
    BY <2>1, RevisionAssumption
<1>3. (CHOOSE x \in Revision : \A q \in Revision : x <= q) \in Revision
  BY <1>2
<1> QED
  BY <1>3 DEF NewConversation, Conversation, Mode

LEMMA IdleTyped ==
    /\ IdleTask \in Task /\ IdleEx \in Ex /\ NoDraws \in [Thread -> Draw]
    /\ NewConversations \in [Thread -> Conversation]
<1>1. NewConversations \in [Thread -> Conversation]
  BY LowestRevision DEF NewConversations
<1>2. NoDraws \in [Thread -> Draw]
  BY DEF NoDraws, NoDraw, Draw, RevisionOrNone
<1>3. NoClaim2 \in Claim2
  BY DEF NoClaim2, NoToken, Claim2
<1> HIDE DEF NewConversations, NoDraws, NoClaim2
<1> QED
  BY <1>1, <1>2, <1>3 DEF IdleTask, Task, TaskStage, IdleEx, Ex, ExStage

(* TypeOK, with the two records named.                                       *)
Types ==
    /\ conv \in [Thread -> Conversation]
    /\ changes \in 0..MaxChanges /\ started \in 0..MaxTasks /\ forgets \subseteq Thread
    /\ task \in [Worker -> Task] /\ ex \in [Worker -> [Thread -> Ex]]
    /\ raw \in [Thread -> Draw] /\ memory \in [Thread -> Draw]
    /\ baseline \in [raw : [Thread -> Draw], memory : [Thread -> Draw]]
    /\ valid \in BOOLEAN /\ forgot \subseteq Thread /\ tainted \in BOOLEAN

LEMMA Typed == (TypeOK <=> Types) /\ (TypeOK' <=> Types')
BY DEF TypeOK, Types, Task, Ex

LEMMA InitTyped == Init => TypeOK
<1> SUFFICES ASSUME Init PROVE TypeOK
  OBVIOUS
<1>1. changes \in 0..MaxChanges /\ started \in 0..MaxTasks
  BY TasksAssumption DEF Init
<1>2. task \in [Worker -> Task] /\ ex \in [Worker -> [Thread -> Ex]]
  BY IdleTyped DEF Init
<1>3. conv \in [Thread -> Conversation] /\ raw \in [Thread -> Draw] /\ memory \in [Thread -> Draw]
      /\ baseline \in [raw : [Thread -> Draw], memory : [Thread -> Draw]]
  BY IdleTyped DEF Init
<1> QED
  BY <1>1, <1>2, <1>3, Typed DEF Init, Types

-----------------------------------------------------------------------------
(* Every step is a step of the store: its methods are called with claims
   that were granted, and with a selection of revisions.                     *)
LEMMA StoreStep ==
    ASSUME TypeOK, ClaimsGranted, [Next]_vars
    PROVE  [StoreNext]_storeVars
<1> DEFINE Goal == [StoreNext]_storeVars
<1> USE Typed DEF Types
<1>1. CASE \E t \in Thread : EditConversation(t)
  BY <1>1 DEF EditConversation
<1>2. CASE \E t \in Thread, mode \in Mode : ChangeMode(t, mode)
  BY <1>2 DEF ChangeMode
<1>3. ASSUME NEW t \in Thread, Forgetting(t) PROVE Goal
  BY <1>3 DEF Forgetting, StoreNext
<1>4. ASSUME NEW w \in Worker, StartupStep(w) PROVE Goal
  <2>1. CASE Startup(w)
    BY <2>1 DEF Startup, StoreNext
  <2>2. CASE ListConversations(w) \/ ChooseCandidates(w)
    BY <2>2 DEF ListConversations, ChooseCandidates, Quiet
  <2>3. ASSUME NEW t \in Thread, Reconcile(w, t) \/ Forget(w, t) PROVE Goal
    BY <2>3, <1>3 DEF Reconcile, Forget
  <2> QED
    BY <1>4, <2>1, <2>2, <2>3 DEF StartupStep
<1>5. ASSUME NEW w \in Worker, NEW t \in Thread, Phase1Step(w, t) PROVE Goal
  <2>1. CASE ClaimThread(w, t)
    <3>1. task[w].view[t].rev \in Revision
      BY DEF Task, Conversation
    <3> QED
      BY <2>1, <3>1 DEF ClaimThread, StoreNext
  <2>2. CASE Settle1(w, t)
    <3>1. ex[w][t].at \notin {"off", "claim"} /\ ex[w][t].empty \in BOOLEAN
      BY <2>2 DEF Settle1, Ex
    <3>2. ex[w][t].claim \in issued1
      BY <3>1 DEF ClaimsGranted
    <3> QED
      BY <2>2, <3>1, <3>2 DEF Settle1, StoreNext
  <2>3. CASE ClaimRefused(w, t) \/ ReadConversation(w, t) \/ Extract(w, t) \/ Reread(w, t) \/ Raises1(w, t)
    BY <2>3 DEF ClaimRefused, ReadConversation, Extract, Reread, Raises1
  <2> QED
    BY <1>5, <2>1, <2>2, <2>3 DEF Phase1Step
<1>6. ASSUME NEW w \in Worker, Phase2Step(w) PROVE Goal
  <2>1. CASE Claim2OfWorker(w)
    BY <2>1 DEF Claim2OfWorker, StoreNext
  <2>2. ASSUME NEW t \in Thread, FilterOutput(w, t) PROVE Goal
    BY <2>2, <1>3 DEF FilterOutput, Quiet
  <2>3. task[w].at \in Phase2OrFail => task[w].claim \in issued2
    BY DEF ClaimsGranted
  <2>4. CASE Commit(w)
    <3>1. [t \in Thread |-> task[w].sel[t].rev] \in [Thread -> RevisionOrNone]
      BY DEF Task, Draw
    <3> QED
      BY <2>4, <2>3, <3>1 DEF Commit, StoreNext, Phase2OrFail, Phase2Stage
  <2>5. CASE Fail2(w)
    BY <2>5, <2>3 DEF Fail2, At, StoreNext, Phase2OrFail
  <2>6. CASE Heartbeat(w)
    BY <2>6, <2>3 DEF Heartbeat, StoreNext, Phase2OrFail
  <2>7. CASE \/ Claim2Refused(w) \/ SelectOutputs(w) \/ Prepare(w) \/ Consolidate(w)
             \/ CheckSelection(w) \/ Raises2(w)
    BY <2>7 DEF Claim2Refused, SelectOutputs, Prepare, Consolidate, CheckSelection, Raises2, Quiet
  <2> QED
    BY <1>6, <2>1, <2>2, <2>4, <2>5, <2>6, <2>7 DEF Phase2Step
<1>7. ASSUME NEW w \in Worker, Stop(w) \/ Reset(w) PROVE Goal
  BY <1>7 DEF Stop, Reset, Quiet, StoreNext
<1>8. CASE TimePasses
  BY <1>8 DEF TimePasses, StoreNext
<1>9. CASE UNCHANGED vars
  BY <1>9 DEF vars
<1> QED
  BY <1>1, <1>2, <1>4, <1>5, <1>6, <1>7, <1>8, <1>9 DEF Next

LEMMA TaskTyped == ASSUME TypeOK, NEW w \in Worker PROVE task[w] \in Task
BY Typed DEF Types

(* Moving a coroutine to another stage keeps its record.                     *)
LEMMA GoToTyped ==
    ASSUME TypeOK, NEW w \in Worker, NEW stage \in TaskStage, GoTo(w, stage)
    PROVE  task' \in [Worker -> Task]
<1>1. [task[w] EXCEPT !.at = stage] \in Task
  BY TaskTyped DEF Task
<1> QED
  BY <1>1, Typed DEF Types, GoTo

LEMMA LeaveTyped ==
    ASSUME TypeOK, NEW w \in Worker, Leave(w)
    PROVE  task' \in [Worker -> Task]
BY Typed, IdleTyped DEF Types, Leave

LEMMA ExTyped ==
    ASSUME TypeOK, NEW w \in Worker, NEW t \in Thread, NEW e \in Ex,
           ex' = [ex EXCEPT ![w][t] = e]
    PROVE  ex' \in [Worker -> [Thread -> Ex]]
BY Typed DEF Types

LEMMA ForgettingTyped ==
    ASSUME TypeOK, NEW t \in Thread, Forgetting(t)
    PROVE  forgot' \subseteq Thread
BY Typed DEF Types, Forgetting

LEMMA GenTypeStep ==
    ASSUME TypeOK, StoreTypeOK, StoreTypeOK', [Next]_vars
    PROVE  TypeOK'
<1> USE DEF Types
<1> DEFINE Goal == Types'
<1>0. Types
  BY Typed
<1>1. ASSUME NEW t \in Thread, EditConversation(t) PROVE Goal
  <2>1. conv' \in [Thread -> Conversation]
    BY <1>0, <1>1 DEF EditConversation, Conversation
  <2> QED
    BY <1>0, <1>1, <2>1 DEF EditConversation, files
<1>2. ASSUME NEW t \in Thread, NEW mode \in Mode, ChangeMode(t, mode) PROVE Goal
  <2>1. conv' \in [Thread -> Conversation]
    BY <1>0, <1>2 DEF ChangeMode, Conversation
  <2>2. changes' \in 0..MaxChanges
    BY <1>0, <1>2, TasksAssumption DEF ChangeMode
  <2>3. forgets' \subseteq Thread /\ forgot' \subseteq Thread
    BY <1>0, <1>2 DEF ChangeMode
  <2> QED
    BY <1>0, <1>2, <2>1, <2>2, <2>3 DEF ChangeMode, files
<1>3. ASSUME NEW w \in Worker, StartupStep(w) PROVE Goal
  <2>1. \A n \in 0..MaxTasks : n < MaxTasks => n + 1 \in 0..MaxTasks
    BY TasksAssumption
  <2>2. CASE Startup(w)
    <3>1. "list" \in TaskStage
      BY DEF TaskStage
    <3>2. started' \in 0..MaxTasks
      BY <1>0, <2>1, <2>2 DEF Startup
    <3> QED
      BY <1>0, <2>2, <3>1, <3>2, GoToTyped DEF Startup, files
  <2>3. CASE ListConversations(w)
    <3> DEFINE T == {t \in Thread : conv[t].mode \in {"disabled", "archived"}}
    <3>a. T \in SUBSET Thread /\ conv \in [Thread -> Conversation]
      BY <1>0
    <3>2. task' = [task EXCEPT ![w] = [task[w] EXCEPT !.at = "reconcile", !.view = conv, !.todo = T]]
      BY <1>0, <2>3 DEF ListConversations
    <3> HIDE DEF T
    <3>1. [task[w] EXCEPT !.at = "reconcile", !.view = conv, !.todo = T] \in Task
      BY <3>a, TaskTyped DEF Task, TaskStage
    <3>3. task' \in [Worker -> Task]
      BY <1>0, <3>1, <3>2
    <3> QED
      BY <1>0, <2>3, <3>3 DEF ListConversations, Quiet, convVars, files
  <2>4. CASE ChooseCandidates(w)
    <3>1. [IdleEx EXCEPT !.at = "claim"] \in Ex /\ IdleEx \in Ex
      BY IdleTyped DEF Ex, ExStage
    <3>2. ex' \in [Worker -> [Thread -> Ex]]
      BY <1>0, <2>4, <3>1 DEF ChooseCandidates
    <3>3. "extract" \in TaskStage
      BY DEF TaskStage
    <3> QED
      BY <1>0, <2>4, <3>2, <3>3, GoToTyped DEF ChooseCandidates, Quiet, convVars, files
  <2>5. ASSUME NEW t \in Thread, Reconcile(w, t) PROVE Goal
    <3> DEFINE T == task[w].todo \ {t}
    <3>a. [task[w] EXCEPT !.todo = T] \in Task
      BY TaskTyped DEF Task
    <3>b. task' = [task EXCEPT ![w] = [task[w] EXCEPT !.todo = T]]
      BY <1>0, <2>5 DEF Reconcile
    <3> HIDE DEF T
    <3>1. task' \in [Worker -> Task]
      BY <1>0, <3>a, <3>b
    <3> QED
      BY <1>0, <2>5, <3>1, ForgettingTyped DEF Reconcile, convVars, files
  <2>6. ASSUME NEW t \in Thread, Forget(w, t) PROVE Goal
    <3>1. "extract" \in TaskStage
      BY DEF TaskStage
    <3>2. started' \in 0..MaxTasks
      BY <1>0, <2>1, <2>6 DEF Forget
    <3> QED
      BY <1>0, <2>6, <3>1, <3>2, GoToTyped, ForgettingTyped DEF Forget, files
  <2> QED
    BY <1>0, <1>3, <2>2, <2>3, <2>4, <2>5, <2>6 DEF StartupStep
<1>4. ASSUME NEW w \in Worker, NEW t \in Thread, Phase1Step(w, t) PROVE Goal
  <2> DEFINE e == ex[w][t]
  <2>0. e \in Ex /\ Rest1
    BY <1>0, <1>4 DEF Phase1Step, ClaimThread, ClaimRefused, ReadConversation, Extract, Reread, Raises1, Settle1
  <2>1. ASSUME NEW f \in Ex, ex' = [ex EXCEPT ![w][t] = f] PROVE Goal
    BY <1>0, <2>0, <2>1, ExTyped DEF Rest1, convVars, files
  <2>2. CASE ClaimThread(w, t)
    <3> DEFINE c == [thread |-> t, token |-> lastToken', rev |-> task[w].view[t].rev, epoch |-> epoch[t]]
    <3>1. c \in Claim1
      BY TaskTyped DEF Claim1, StoreTypeOK, Task, Conversation
    <3>2. [e EXCEPT !.at = "read", !.claim = c] \in Ex
      BY <1>0, <2>0, <3>1 DEF Ex, ExStage
    <3>3. ex' = [ex EXCEPT ![w][t] = [e EXCEPT !.at = "read", !.claim = c]]
      BY <1>0, <2>2 DEF ClaimThread
    <3> QED
      BY <1>0, <2>1, <3>2, <3>3
  <2>3. CASE ClaimRefused(w, t) \/ Settle1(w, t)
    BY <1>0, <2>1, <2>3, IdleTyped DEF ClaimRefused, Settle1, ExDone
  <2>4. ASSUME NEW stage \in ExStage, ExGoTo(w, t, stage) PROVE Goal
    <3>1. [e EXCEPT !.at = stage] \in Ex
      BY <1>0, <2>0 DEF Ex
    <3> QED
      BY <1>0, <2>1, <2>4, <3>1 DEF ExGoTo
  <2>5. CASE ReadConversation(w, t) \/ Raises1(w, t)
    BY <1>0, <2>4, <2>5 DEF ReadConversation, Raises1, ExStage
  <2>6. CASE Extract(w, t)
    <3>1. PICK b \in BOOLEAN : ex' = [ex EXCEPT ![w][t].at = "reread", ![w][t].empty = b]
      BY <1>0, <2>6 DEF Extract
    <3>2. [e EXCEPT !.at = "reread", !.empty = b] \in Ex
      BY <1>0, <2>0 DEF Ex, ExStage
    <3>3. ex' = [ex EXCEPT ![w][t] = [e EXCEPT !.at = "reread", !.empty = b]]
      BY <1>0, <3>1
    <3> QED
      BY <1>0, <2>1, <3>2, <3>3
  <2>7. CASE Reread(w, t)
    <3>1. PICK stage \in ExStage, b \in BOOLEAN :
              ex' = [ex EXCEPT ![w][t].at = stage, ![w][t].empty = b]
      BY <1>0, <2>0, <2>7 DEF Reread, Ex, ExStage
    <3>2. [e EXCEPT !.at = stage, !.empty = b] \in Ex
      BY <1>0, <2>0 DEF Ex
    <3>3. ex' = [ex EXCEPT ![w][t] = [e EXCEPT !.at = stage, !.empty = b]]
      BY <1>0, <3>1
    <3> QED
      BY <1>0, <2>1, <3>2, <3>3
  <2> QED
    BY <1>0, <1>4, <2>2, <2>3, <2>5, <2>6, <2>7 DEF Phase1Step
<1>5. ASSUME NEW w \in Worker, Phase2Step(w) PROVE Goal
  <2>1. CASE Claim2OfWorker(w)
    <3>1. [IdleTask EXCEPT !.at = "select",
              !.claim = [token |-> lastToken', input |-> phase2'.input]] \in Task
      BY IdleTyped DEF Task, TaskStage, StoreTypeOK, Job2, Claim2
    <3>2. task' \in [Worker -> Task]
      BY <1>0, <2>1, <3>1 DEF Claim2OfWorker
    <3> QED
      BY <1>0, <2>1, <3>2 DEF Claim2OfWorker, Rest2, convVars, files
  <2>2. CASE Claim2Refused(w)
    BY <1>0, <2>2, LeaveTyped DEF Claim2Refused, Quiet, Rest2, convVars, files
  <2>3. CASE SelectOutputs(w)
    <3>1. PICK L \in SUBSET Thread :
            task' = [task EXCEPT ![w].at = "filter", ![w].todo = L,
               ![w].sel = [t \in Thread |->
                   IF t \in L THEN [rev |-> outputs[t].rev, epoch |-> outputs[t].epoch]
                   ELSE NoDraw]]
      BY <1>0, <2>3 DEF SelectOutputs
    <3> DEFINE sel == [t \in Thread |->
                   IF t \in L THEN [rev |-> outputs[t].rev, epoch |-> outputs[t].epoch]
                   ELSE NoDraw]
    <3>2. sel \in [Thread -> Draw]
      BY DEF Draw, NoDraw, StoreTypeOK, Output, RevisionOrNone
    <3>3. task' = [task EXCEPT ![w].at = "filter", ![w].todo = L, ![w].sel = sel]
      BY <1>0, <3>1
    <3> HIDE DEF sel
    <3>a. [task[w] EXCEPT !.at = "filter", !.todo = L, !.sel = sel] \in Task
      BY TaskTyped, <3>2 DEF Task, TaskStage
    <3>4. task' \in [Worker -> Task]
      BY <1>0, <3>a, <3>3
    <3> QED
      BY <1>0, <2>3, <3>4 DEF SelectOutputs, Quiet, Rest2, convVars, files
  <2>4. ASSUME NEW t \in Thread, FilterOutput(w, t) PROVE Goal
    <3>1. PICK d \in Draw : task' = [task EXCEPT ![w].todo = @ \ {t}, ![w].sel[t] = d]
      <4>1. NoDraw \in Draw /\ task[w].sel[t] \in Draw
        BY TaskTyped DEF Task, NoDraw, Draw, RevisionOrNone
      <4> QED
        BY <1>0, <2>4, <4>1 DEF FilterOutput
    <3> DEFINE T == task[w].todo \ {t}
               f == [task EXCEPT ![w].todo = T]
    <3>a. f \in [Worker -> Task]
      <4>1. [task[w] EXCEPT !.todo = T] \in Task
        BY TaskTyped DEF Task
      <4> QED
        BY <1>0, <4>1
    <3>b. task' = [f EXCEPT ![w].sel[t] = d]
      BY <3>1
    <3> HIDE DEF f
    <3>2. task' \in [Worker -> Task]
      <4>1. [f[w] EXCEPT !.sel[t] = d] \in Task
        BY <3>a DEF Task
      <4> QED
        BY <3>a, <3>b, <4>1
    <3>3. forgot' \subseteq Thread
      BY <1>0, <2>4, ForgettingTyped DEF FilterOutput, Quiet
    <3> QED
      BY <1>0, <2>4, <3>2, <3>3 DEF FilterOutput, Rest2, convVars, files
  <2>5. {"consolidate", "keep", "check", "commit", "fail"} \subseteq TaskStage
    BY DEF TaskStage
  <2>6. CASE Prepare(w)
    <3>1. raw' \in [Thread -> Draw]
      BY <1>0, <2>6 DEF Prepare, Task
    <3>2. task' \in [Worker -> Task]
      BY <1>0, <2>5, <2>6, GoToTyped DEF Prepare
    <3> QED
      BY <1>0, <2>6, <3>1, <3>2 DEF Prepare, Quiet, Rest2, convVars
  <2>7. CASE Consolidate(w)
    <3>1. task' \in [Worker -> Task]
      BY <1>0, <2>5, <2>7, GoToTyped DEF Consolidate
    <3>2. tainted' \in BOOLEAN
      BY <1>0, <2>7 DEF Consolidate
    <3>3. memory' \in [Thread -> Draw] /\ valid' \in BOOLEAN
      BY <1>0, <2>7 DEF Consolidate
    <3> QED
      BY <1>0, <2>7, <3>1, <3>2, <3>3 DEF Consolidate, Quiet, Rest2, convVars
  <2>8. CASE CheckSelection(w) \/ Raises2(w)
    <3>1. task' \in [Worker -> Task]
      BY <1>0, <2>5, <2>8, GoToTyped DEF CheckSelection, Raises2
    <3> QED
      BY <1>0, <2>8, <3>1 DEF CheckSelection, Raises2, Quiet, Rest2, convVars, files
  <2>9. CASE Commit(w)
    <3>1. task' \in [Worker -> Task]
      BY <1>0, <2>5, <2>9, GoToTyped, LeaveTyped DEF Commit
    <3>2. baseline' \in [raw : [Thread -> Draw], memory : [Thread -> Draw]]
      BY <1>0, <2>9 DEF Commit
    <3> QED
      BY <1>0, <2>9, <3>1, <3>2 DEF Commit, Rest2, convVars
  <2>10. CASE Fail2(w)
    BY <1>0, <2>10, LeaveTyped DEF Fail2, Rest2, convVars, files
  <2>11. CASE Heartbeat(w)
    BY <1>0, <2>11 DEF Heartbeat, Rest2, convVars, files
  <2> QED
    BY <1>0, <1>5, <2>1, <2>2, <2>3, <2>4, <2>6, <2>7, <2>8, <2>9, <2>10, <2>11 DEF Phase2Step
<1>6. ASSUME NEW w \in Worker, Stop(w) PROVE Goal
  <2>1. ex' \in [Worker -> [Thread -> Ex]]
    BY <1>0, <1>6, IdleTyped DEF Stop
  <2> QED
    BY <1>0, <1>6, <2>1, LeaveTyped DEF Stop, Quiet, convVars, files
<1>7. ASSUME NEW w \in Worker, Reset(w) PROVE Goal
  BY <1>0, <1>7, IdleTyped DEF Reset, convVars
<1>8. CASE TimePasses \/ UNCHANGED vars
  <2>1. UNCHANGED genVars
    BY <1>8 DEF TimePasses, vars
  <2> QED
    BY Typed, <1>0, <2>1 DEF genVars, convVars, files
<1> QED
  BY Typed, <1>1, <1>2, <1>3, <1>4, <1>5, <1>6, <1>7, <1>8 DEF Next

-----------------------------------------------------------------------------
(* How a step moves the coroutines.                                          *)

\* Steps that are none of phase 2, and not a reset.
Elsewhere(v) == StartupStep(v) \/ Stop(v) \/ (\E t \in Thread : Phase1Step(v, t))
World == (\E t \in Thread : EditConversation(t)) \/ TimePasses \/ UNCHANGED vars
         \/ (\E t \in Thread, mode \in Mode : ChangeMode(t, mode))

LEMMA NextSplit ==
    [Next]_vars => \/ World
                   \/ \E v \in Worker : Elsewhere(v) \/ Phase2Step(v) \/ Reset(v)
BY DEF Next, World, Elsewhere

LEMMA WorldRests == World => UNCHANGED <<task, ex, files, tainted>>
BY DEF World, EditConversation, TimePasses, ChangeMode, vars, genVars

(* Outside phase 2 nothing is written, and no task gets into phase 2.        *)
LEMMA ElsewhereRests ==
    ASSUME TypeOK, NEW v \in Worker, Elsewhere(v), NEW w \in Worker
    PROVE  /\ UNCHANGED <<files, tainted>>
           /\ task'[w].at \in Phase2OrFail => task'[w] = task[w]
<1> USE Typed DEF Types
<1> DEFINE Goal == /\ UNCHANGED <<files, tainted>>
                   /\ task'[w].at \in Phase2OrFail => task'[w] = task[w]
<1>0. {"list", "reconcile", "extract", "idle"} \cap Phase2OrFail = {}
  BY DEF Phase2OrFail, Phase2Stage
<1>1. ASSUME NEW T, task' = [task EXCEPT ![v] = T], T.at \in {"list", "reconcile", "extract", "idle"}
      PROVE  task'[w].at \in Phase2OrFail => task'[w] = task[w]
  BY <1>0, <1>1
<1>2. ASSUME NEW stage \in {"list", "reconcile", "extract"}, GoTo(v, stage)
      PROVE  task'[w].at \in Phase2OrFail => task'[w] = task[w]
  <2>1. task' = [task EXCEPT ![v] = [task[v] EXCEPT !.at = stage]]
    BY <1>2 DEF GoTo
  <2>2. [task[v] EXCEPT !.at = stage].at = stage
    BY TaskTyped DEF Task
  <2> QED
    BY <1>1, <2>1, <2>2
<1>3. CASE Startup(v) \/ ChooseCandidates(v)
  BY <1>2, <1>3 DEF Startup, ChooseCandidates
<1>4. CASE ListConversations(v)
  <2>1. task' = [task EXCEPT ![v] = [task[v] EXCEPT !.at = "reconcile", !.view = conv,
             !.todo = {t \in Thread : conv[t].mode \in {"disabled", "archived"}}]]
    BY <1>4 DEF ListConversations
  <2>2. [task[v] EXCEPT !.at = "reconcile", !.view = conv,
             !.todo = {t \in Thread : conv[t].mode \in {"disabled", "archived"}}].at = "reconcile"
    BY TaskTyped DEF Task
  <2> QED
    BY <1>1, <1>4, <2>1, <2>2 DEF ListConversations
<1>5. ASSUME NEW t \in Thread, Reconcile(v, t) PROVE Goal
  <2>1. task' = [task EXCEPT ![v] = [task[v] EXCEPT !.todo = @ \ {t}]]
    BY <1>5 DEF Reconcile
  <2>2. [task[v] EXCEPT !.todo = @ \ {t}].at = "reconcile"
    BY <1>5, TaskTyped DEF Reconcile, At, Task
  <2> QED
    BY <1>1, <1>5, <2>1, <2>2 DEF Reconcile
<1>6. ASSUME NEW t \in Thread, Forget(v, t) PROVE Goal
  BY <1>2, <1>6 DEF Forget
<1>7. CASE Stop(v)
  BY <1>1, <1>7 DEF Stop, Leave, IdleTask
<1>8. ASSUME NEW t \in Thread, Phase1Step(v, t) PROVE Goal
  BY <1>8 DEF Phase1Step, Rest1, ClaimThread, ClaimRefused, ReadConversation, Extract, Reread,
              Raises1, Settle1
<1> QED
  BY <1>3, <1>4, <1>5, <1>6, <1>7, <1>8 DEF Elsewhere, StartupStep

(* A task in phase 2 keeps its claim and, past the filter, its selection.    *)
Late == {"consolidate", "check", "commit", "keep"}

LEMMA Phase2Moves ==
    ASSUME TypeOK, NEW v \in Worker, Phase2Step(v), NEW w \in Worker, task'[w].at \in Phase2OrFail
    PROVE  \/ Claim2OfWorker(v) /\ w = v
           \/ /\ task[w].at \in Phase2OrFail /\ task'[w].claim = task[w].claim
              /\ task'[w].at \in Phase2Stage => task[w].at \in Phase2Stage
              /\ task'[w].at \in Late => \/ Prepare(v) /\ w = v
                                         \/ task[w].at \in Late
              /\ \/ SelectOutputs(v) /\ w = v
                 \/ \E t \in Thread : FilterOutput(v, t) /\ w = v
                 \/ task'[w].sel = task[w].sel /\ task[w].at # "select"
                 \/ task'[w] = task[w]
                 \/ task'[w].at = "fail"
<1> USE Typed DEF Types
<1> DEFINE Goal == \/ Claim2OfWorker(v) /\ w = v
                   \/ /\ task[w].at \in Phase2OrFail /\ task'[w].claim = task[w].claim
                      /\ task'[w].at \in Phase2Stage => task[w].at \in Phase2Stage
                      /\ task'[w].at \in Late => \/ Prepare(v) /\ w = v
                                                 \/ task[w].at \in Late
                      /\ \/ SelectOutputs(v) /\ w = v
                         \/ \E t \in Thread : FilterOutput(v, t) /\ w = v
                         \/ task'[w].sel = task[w].sel /\ task[w].at # "select"
                         \/ task'[w] = task[w]
                         \/ task'[w].at = "fail"
<1>1. CASE task'[w] = task[w]
  BY <1>1
<1>2. ASSUME w # v PROVE task'[w] = task[w]
  BY <1>2 DEF Phase2Step, Claim2OfWorker, Claim2Refused, SelectOutputs, FilterOutput, Prepare,
     Consolidate, CheckSelection, Commit, Fail2, Heartbeat, Raises2, GoTo, Leave
<1>3. ASSUME w = v PROVE Goal
  <2> USE <1>3
  <2>0. task[w] \in Task
    BY TaskTyped
  <2>1. ASSUME NEW stage, GoTo(v, stage)
        PROVE  task'[w].at = stage /\ task'[w].claim = task[w].claim /\ task'[w].sel = task[w].sel
    <3>1. task'[w] = [task[w] EXCEPT !.at = stage]
      BY <2>1 DEF GoTo
    <3> QED
      BY <2>0, <3>1 DEF Task
  <2>2. CASE Claim2Refused(v) \/ Fail2(v)
    <3>1. task'[w].at = "idle"
      BY <2>2 DEF Claim2Refused, Fail2, Leave, IdleTask
    <3> QED
      BY <3>1 DEF Phase2OrFail, Phase2Stage
  <2>3. CASE SelectOutputs(v)
    <3>a. PICK L : task' = [task EXCEPT ![w].at = "filter", ![w].todo = L,
               ![w].sel = [t \in Thread |->
                   IF t \in L THEN [rev |-> outputs[t].rev, epoch |-> outputs[t].epoch]
                   ELSE NoDraw]]
      BY <2>3, ZenonT(40) DEF SelectOutputs
    <3> DEFINE sel == [t \in Thread |->
                   IF t \in L THEN [rev |-> outputs[t].rev, epoch |-> outputs[t].epoch]
                   ELSE NoDraw]
    <3>b. task' = [task EXCEPT ![w].at = "filter", ![w].todo = L, ![w].sel = sel]
      BY <3>a
    <3> HIDE DEF sel
    <3>1. task'[w] = [task[w] EXCEPT !.at = "filter", !.todo = L, !.sel = sel]
      BY <3>b
    <3>2. task'[w].at = "filter" /\ task'[w].claim = task[w].claim
      BY <2>0, <3>1 DEF Task
    <3> QED
      BY <2>3, <3>2 DEF SelectOutputs, At, Phase2OrFail, Phase2Stage, Late
  <2>4. ASSUME NEW t \in Thread, FilterOutput(v, t) PROVE Goal
    <3>1. PICK d : task' = [task EXCEPT ![w].todo = @ \ {t}, ![w].sel[t] = d]
      BY <2>4 DEF FilterOutput
    <3>2. task'[w].at = task[w].at /\ task'[w].claim = task[w].claim
      BY <2>0, <3>1 DEF Task
    <3> QED
      BY <2>4, <3>2 DEF FilterOutput, At, Late
  <2>5. CASE Prepare(v)
    <3>1. \E stage \in {"keep", "consolidate", "fail"} : GoTo(v, stage)
      BY <2>5 DEF Prepare
    <3>2. task[w].at = "filter"
      BY <2>5 DEF Prepare, At
    <3> QED
      BY <2>1, <2>5, <3>1, <3>2 DEF Phase2OrFail, Phase2Stage
  <2>6. ASSUME NEW stage \in {"consolidate", "check", "commit"}, GoTo(v, stage), task[w].at \in Late
        PROVE  Goal
    BY <2>1, <2>6 DEF Phase2OrFail, Phase2Stage, Late
  <2>7. ASSUME GoTo(v, "fail"), task[w].at \in Phase2Stage PROVE Goal
    BY <2>1, <2>7 DEF Phase2OrFail, Phase2Stage, Late
  <2>8. CASE Consolidate(v) \/ CheckSelection(v)
    <3>1. task[w].at \in Late /\ task[w].at \in Phase2Stage
      BY <2>8 DEF Consolidate, CheckSelection, At, Late, Phase2Stage
    <3> QED
      BY <2>6, <2>7, <2>8, <3>1 DEF Consolidate, CheckSelection
  <2>9. CASE Commit(v)
    <3>1. task[w].at \in Phase2Stage
      BY <2>9 DEF Commit, Phase2Stage
    <3>2. CASE Leave(v)
      BY <3>2 DEF Leave, IdleTask, Phase2OrFail, Phase2Stage
    <3> QED
      BY <2>7, <2>9, <3>1, <3>2 DEF Commit
  <2>10. CASE Heartbeat(v)
    BY <1>1, <2>10 DEF Heartbeat
  <2>11. CASE Raises2(v)
    BY <2>7, <2>11 DEF Raises2
  <2> QED
    BY <2>2, <2>3, <2>4, <2>5, <2>8, <2>9, <2>10, <2>11 DEF Phase2Step
<1> QED
  BY <1>1, <1>2, <1>3

(* An extraction keeps its claim, and starts only after the check of its
   conversation.                                                             *)
Extracting == {"model", "reread", "store"}

LEMMA ExMoves ==
    ASSUME TypeOK, [Next]_vars, NEW w \in Worker, NEW t \in Thread,
           ex'[w][t].at \notin {"off", "claim"}
    PROVE  \/ ClaimThread(w, t)
           \/ /\ ex[w][t].at \notin {"off", "claim"} /\ ex'[w][t].claim = ex[w][t].claim
              /\ ex'[w][t].at \in Extracting => \/ ex[w][t].at \in Extracting
                                                \/ ReadConversation(w, t)
<1> USE Typed DEF Types
<1> DEFINE Goal == \/ ClaimThread(w, t)
                   \/ /\ ex[w][t].at \notin {"off", "claim"} /\ ex'[w][t].claim = ex[w][t].claim
                      /\ ex'[w][t].at \in Extracting => \/ ex[w][t].at \in Extracting
                                                        \/ ReadConversation(w, t)
<1>1. CASE ex'[w][t] = ex[w][t]
  BY <1>1
<1>2. ASSUME NEW v \in Worker, StartupStep(v) \/ Stop(v) PROVE ex'[w][t] = ex[w][t]
  <2>1. CASE Stop(v)
    BY <2>1 DEF Stop, IdleEx
  <2>2. CASE ChooseCandidates(v)
    BY <2>2 DEF ChooseCandidates, IdleEx
  <2>3. CASE UNCHANGED ex
    BY <2>3
  <2> QED
    BY <1>2, <2>1, <2>2, <2>3 DEF StartupStep, Startup, ListConversations, Reconcile, Forget
<1>3. ASSUME NEW v \in Worker, Phase2Step(v) \/ Reset(v) PROVE UNCHANGED ex
  BY <1>3 DEF Phase2Step, Claim2OfWorker, Claim2Refused, SelectOutputs, FilterOutput, Prepare,
     Consolidate, CheckSelection, Commit, Fail2, Heartbeat, Raises2, Rest2, Reset
<1>4. ASSUME NEW v \in Worker, NEW u \in Thread, Phase1Step(v, u), ~(v = w /\ u = t)
      PROVE  ex'[w][t] = ex[w][t]
  BY <1>4 DEF Phase1Step, ClaimThread, ClaimRefused, ReadConversation, Extract, Reread,
     Raises1, Settle1, ExGoTo, ExDone
<1>5. ASSUME Phase1Step(w, t) PROVE Goal
  <2>0. ex[w][t] \in Ex
    OBVIOUS
  <2>1. ASSUME NEW stage, NEW b, ex' = [ex EXCEPT ![w][t].at = stage, ![w][t].empty = b]
        PROVE  ex'[w][t].at = stage /\ ex'[w][t].claim = ex[w][t].claim
    <3>1. ex'[w][t] = [ex[w][t] EXCEPT !.at = stage, !.empty = b]
      BY <2>1
    <3> QED
      BY <2>0, <3>1 DEF Ex
  <2>2. ASSUME NEW stage, ExGoTo(w, t, stage)
        PROVE  ex'[w][t].at = stage /\ ex'[w][t].claim = ex[w][t].claim
    <3>1. ex'[w][t] = [ex[w][t] EXCEPT !.at = stage]
      BY <2>2 DEF ExGoTo
    <3> QED
      BY <2>0, <3>1 DEF Ex
  <2>3. CASE ClaimThread(w, t)
    BY <2>3
  <2>4. CASE ClaimRefused(w, t) \/ Settle1(w, t)
    <3>1. ex'[w][t] = IdleEx
      BY <2>4 DEF ClaimRefused, Settle1, ExDone
    <3> QED
      BY <3>1 DEF IdleEx
  <2>5. CASE ReadConversation(w, t)
    <3>1. ex[w][t].at = "read"
      BY <2>5 DEF ReadConversation, ExAt
    <3> QED
      BY <2>2, <2>5, <3>1 DEF ReadConversation
  <2>6. CASE Extract(w, t)
    <3>1. ex[w][t].at = "model"
      BY <2>6 DEF Extract, ExAt
    <3> QED
      BY <2>1, <2>6, <3>1 DEF Extract, Extracting
  <2>7. CASE Reread(w, t)
    <3>1. ex[w][t].at = "reread"
      BY <2>7 DEF Reread, ExAt
    <3>2. PICK stage, b : ex' = [ex EXCEPT ![w][t].at = stage, ![w][t].empty = b]
      BY <2>7 DEF Reread
    <3> QED
      BY <2>1, <3>1, <3>2 DEF Extracting
  <2>8. CASE Raises1(w, t)
    BY <2>2, <2>8 DEF Raises1, Extracting
  <2> QED
    BY <1>5, <2>3, <2>4, <2>5, <2>6, <2>7, <2>8 DEF Phase1Step
<1> QED
  BY <1>1, <1>2, <1>3, <1>4, <1>5, NextSplit, WorldRests DEF Elsewhere

-----------------------------------------------------------------------------
(* Claims.                                                                   *)

LEMMA IssuedGrow == [StoreNext]_storeVars => issued1 \subseteq issued1' /\ issued2 \subseteq issued2'
BY DEF StoreNext, storeVars, ClaimStage1, CompleteStage1, FailStage1, AbandonStage1,
   RemoveThreadOutput, PruneUnselectedOutputs, DeleteRows, RecordUsage, ClaimPhase2,
   HeartbeatPhase2, FailPhase2, CompletePhase2, ResetStore, Stage1TimePasses, Phase2TimePasses

(* What becomes of the tasks in phase 2, whoever takes the step.             *)
LEMMA TaskMoves ==
    ASSUME TypeOK, [Next]_vars, NEW w \in Worker, task'[w].at \in Phase2OrFail
    PROVE  \/ Claim2OfWorker(w)
           \/ /\ task[w].at \in Phase2OrFail /\ task'[w].claim = task[w].claim
              /\ task'[w].at \in Phase2Stage => task[w].at \in Phase2Stage
BY NextSplit, WorldRests, ElsewhereRests, Phase2Moves DEF Reset

LEMMA Claim2Granted ==
    ASSUME TypeOK, NEW w \in Worker, Claim2OfWorker(w)
    PROVE  /\ task'[w].claim \in issued2' /\ task'[w].claim.token = lastToken + 1
           /\ task'[w].at = "select"
           /\ \A v \in Worker : v # w => task'[v] = task[v]
<1>1. task' = [task EXCEPT ![w] = [IdleTask EXCEPT !.at = "select",
                  !.claim = [token |-> lastToken', input |-> phase2'.input]]]
  BY DEF Claim2OfWorker
<1>2. task'[w] = [IdleTask EXCEPT !.at = "select",
                  !.claim = [token |-> lastToken', input |-> phase2'.input]]
  BY <1>1, Typed DEF Types
<1>3. task'[w].at = "select"
      /\ task'[w].claim = [token |-> lastToken', input |-> phase2'.input]
  BY <1>2 DEF IdleTask
<1> QED
  BY <1>1, <1>3, Typed DEF Types, Claim2OfWorker, ClaimPhase2

LEMMA ClaimsStep ==
    ASSUME TypeOK, StoreTypeOK, ClaimsGranted, [Next]_vars
    PROVE  ClaimsGranted'
<1>0. issued1 \subseteq issued1' /\ issued2 \subseteq issued2'
  BY StoreStep, IssuedGrow
<1>1. ASSUME NEW w \in Worker, NEW t \in Thread, ex'[w][t].at \notin {"off", "claim"}
      PROVE  ex'[w][t].claim \in issued1' /\ ex'[w][t].claim.thread = t
  <2>1. CASE ClaimThread(w, t)
    <3> DEFINE c == [thread |-> t, token |-> lastToken', rev |-> task[w].view[t].rev, epoch |-> epoch[t]]
    <3>1. c \in issued1'
      BY <2>1 DEF ClaimThread, ClaimStage1
    <3>2. ex' = [ex EXCEPT ![w][t].at = "read", ![w][t].claim = c]
      BY <2>1 DEF ClaimThread
    <3>3. ex'[w][t] = [ex[w][t] EXCEPT !.at = "read", !.claim = c]
      BY <3>2, Typed DEF Types
    <3>4. ex'[w][t].claim = c
      BY <3>3, Typed DEF Types, Ex
    <3> QED
      BY <3>1, <3>4
  <2>2. CASE ex[w][t].at \notin {"off", "claim"} /\ ex'[w][t].claim = ex[w][t].claim
    BY <1>0, <2>2 DEF ClaimsGranted
  <2> QED
    BY <1>1, <2>1, <2>2, ExMoves
<1>2. ASSUME NEW w \in Worker, task'[w].at \in Phase2OrFail
      PROVE  task'[w].claim \in issued2'
  <2>1. CASE Claim2OfWorker(w)
    BY <2>1, Claim2Granted
  <2>2. CASE task[w].at \in Phase2OrFail /\ task'[w].claim = task[w].claim
    BY <1>0, <2>2 DEF ClaimsGranted
  <2> QED
    BY <1>2, <2>1, <2>2, TaskMoves
<1> QED
  BY <1>1, <1>2 DEF ClaimsGranted

(* A new token is above all granted before, those in other workers' hands too. *)
LEMMA UniqueStep ==
    ASSUME TypeOK, StoreTypeOK, TokensGranted, ClaimsGranted, TokensUnique, [Next]_vars
    PROVE  TokensUnique'
<1> SUFFICES ASSUME NEW v \in Worker, NEW w \in Worker, v # w,
                    task'[v].at \in Phase2OrFail, task'[w].at \in Phase2OrFail
             PROVE  task'[v].claim.token # task'[w].claim.token
  BY DEF TokensUnique
<1>1. ASSUME NEW x \in Worker, task[x].at \in Phase2OrFail
      PROVE  task[x].claim.token # lastToken + 1
  BY <1>1 DEF ClaimsGranted, TokensGranted, StoreTypeOK, Claim2
<1>2. CASE Claim2OfWorker(v)
  BY <1>1, <1>2, Claim2Granted
<1>3. CASE Claim2OfWorker(w)
  BY <1>1, <1>3, Claim2Granted
<1>4. CASE ~Claim2OfWorker(v) /\ ~Claim2OfWorker(w)
  BY <1>4, TaskMoves DEF TokensUnique
<1> QED
  BY <1>2, <1>3, <1>4

(* An owner owned the job before the step, and no other worker does.         *)
LEMMA OwnersMove ==
    ASSUME TypeOK, StoreTypeOK, TokensGranted, ClaimsGranted, [Next]_vars,
           NEW w \in Worker, Owner(w)', task'[w].at # "select"
    PROVE  Owner(w) /\ task'[w].claim = task[w].claim
<1>1. task'[w].at \in Phase2Stage /\ task'[w].at \in Phase2OrFail
  BY DEF Owner, Phase2OrFail
<1>2. ~Claim2OfWorker(w)
  BY Claim2Granted
<1>3. task[w].at \in Phase2Stage /\ task'[w].claim = task[w].claim
  BY <1>1, <1>2, TaskMoves
<1>4. task[w].claim \in issued2
  BY <1>3 DEF ClaimsGranted, Phase2OrFail
<1>5. Owns2(task[w].claim)'
  BY <1>3 DEF Owner, Owns2
<1> QED
  BY <1>3, <1>4, <1>5, StoreStep, Owner2Step DEF Owner, Owns2

LEMMA OneOwner ==
    ASSUME TokensUnique, NEW v \in Worker, NEW w \in Worker, v # w, Owner(w),
           task[v].at \in Phase2OrFail
    PROVE  ~Owns2(task[v].claim)
BY DEF TokensUnique, Owner, Owns2, Phase2OrFail

-----------------------------------------------------------------------------
(* Forgetting.                                                               *)

(* Only an extraction that still owns its job puts a row where there is none. *)
LEMMA RowsAppear ==
    ASSUME TypeOK, StoreTypeOK, ClaimsGranted, [Next]_vars, NEW t \in Thread,
           outputs[t].rev = NoRevision, outputs'[t].rev # NoRevision
    PROVE  \E w \in Worker : ex[w][t].at = "store" /\ Owns1(ex[w][t].claim)
<1> USE Typed DEF Types, StoreTypeOK
<1> DEFINE Goal == \E w \in Worker : ex[w][t].at = "store" /\ Owns1(ex[w][t].claim)
<1>1. ASSUME NEW u \in Thread, Forgetting(u) PROVE Goal
  BY <1>1 DEF Forgetting, RemoveThreadOutput, DeleteRows, NoOutput
<1>2. ASSUME NEW w \in Worker, StartupStep(w) PROVE Goal
  <2>1. CASE UNCHANGED outputs
    BY <2>1
  <2>2. ASSUME NEW T \in SUBSET Thread, PruneUnselectedOutputs(T) PROVE Goal
    BY <2>2 DEF PruneUnselectedOutputs, DeleteRows, NoOutput
  <2> QED
    BY <1>1, <1>2, <2>1, <2>2
       DEF StartupStep, Startup, ListConversations, ChooseCandidates, Reconcile, Forget, Quiet, storeVars
<1>3. ASSUME NEW w \in Worker, NEW u \in Thread, Phase1Step(w, u) PROVE Goal
  <2>1. CASE UNCHANGED outputs
    BY <2>1
  <2>2. CASE Settle1(w, u) /\ ex[w][u].at = "store"
             /\ CompleteStage1(ex[w][u].claim, ex[w][u].empty)
    <3>1. ex[w][u].claim.thread = u
      BY <2>2 DEF ClaimsGranted
    <3>2. u = t
      BY <2>2, <3>1 DEF CompleteStage1, CatalogUnchanged
    <3> QED
      BY <2>2, <3>2 DEF CompleteStage1
  <2> QED
    BY <1>3, <2>1, <2>2 DEF Phase1Step, ClaimThread, ClaimStage1, ClaimRefused, ReadConversation,
       Extract, Reread, Raises1, Settle1, AbandonStage1, FailStage1, storeVars
<1>4. ASSUME NEW w \in Worker, Phase2Step(w) PROVE Goal
  <2>1. CASE UNCHANGED outputs
    BY <2>1
  <2>2. ASSUME NEW c, NEW sel, CompletePhase2(c, sel) PROVE Goal
    <3>1. outputs'[t] = [outputs[t] EXCEPT !.selected =
                            IF sel[t] = outputs[t].rev THEN sel[t] ELSE NoRevision]
      BY <2>2 DEF CompletePhase2
    <3>2. outputs'[t].rev = outputs[t].rev
      BY <3>1 DEF Output
    <3> QED
      BY <3>2
  <2>3. ASSUME NEW u \in Thread, FilterOutput(w, u) PROVE Goal
    BY <1>1, <2>1, <2>3 DEF FilterOutput, Quiet, storeVars
  <2>4. CASE Commit(w)
    BY <2>1, <2>2, <2>4 DEF Commit, storeVars
  <2>5. CASE \/ Claim2OfWorker(w) \/ Claim2Refused(w) \/ SelectOutputs(w) \/ Prepare(w)
             \/ Consolidate(w) \/ CheckSelection(w) \/ Fail2(w) \/ Heartbeat(w) \/ Raises2(w)
    <3>1. UNCHANGED outputs
      BY <2>5 DEF Claim2OfWorker, ClaimPhase2, Claim2Refused, SelectOutputs, Prepare, Consolidate,
         CheckSelection, Fail2, FailPhase2, Heartbeat, HeartbeatPhase2, Raises2, Quiet, storeVars
    <3> QED
      BY <2>1, <3>1
  <2> QED
    BY <1>4, <2>3, <2>4, <2>5 DEF Phase2Step
<1>5. ASSUME NEW w \in Worker, Stop(w) \/ Reset(w) PROVE Goal
  BY <1>5 DEF Stop, Quiet, Reset, ResetStore, NoOutput, storeVars
<1>6. CASE UNCHANGED outputs
  BY <1>6
<1> QED
  BY <1>2, <1>3, <1>4, <1>5, <1>6 DEF Next, EditConversation, ChangeMode, TimePasses,
     Stage1TimePasses, Phase2TimePasses, vars, storeVars

(* A forgotten thread was ineligible and is, and if it has just been forgotten
   its job row is gone with its output.                                      *)
LEMMA ForgotMoves ==
    ASSUME TypeOK, StoreTypeOK, [Next]_vars, NEW t \in Thread, t \in forgot',
           \A u \in forgot : ~Eligible(conv[u])
    PROVE  /\ ~Eligible(conv[t]) /\ ~Eligible(conv'[t])
           /\ t \in forgot \/ (outputs'[t] = NoOutput /\ stage1'[t] = NoJob)
<1> USE Typed DEF Types, Eligible
<1> DEFINE Goal == /\ ~Eligible(conv[t]) /\ ~Eligible(conv'[t])
                   /\ t \in forgot \/ (outputs'[t] = NoOutput /\ stage1'[t] = NoJob)
<1>1. CASE UNCHANGED <<conv, forgot>>
  BY <1>1
<1>2. ASSUME UNCHANGED conv, NEW u \in Thread, Forgetting(u) PROVE Goal
  BY <1>2 DEF Forgetting, RemoveThreadOutput, DeleteRows
<1>3. ASSUME NEW u \in Thread, EditConversation(u) PROVE Goal
  <2>1. conv'[t].mode = conv[t].mode
    BY <1>3 DEF EditConversation, Conversation
  <2> QED
    BY <1>3, <2>1 DEF EditConversation
<1>4. ASSUME NEW u \in Thread, NEW mode \in Mode, ChangeMode(u, mode) PROVE Goal
  <2>1. u # t => conv'[t] = conv[t]
    BY <1>4 DEF ChangeMode
  <2> QED
    BY <1>4, <2>1 DEF ChangeMode
<1>5. ASSUME NEW w \in Worker, StartupStep(w) PROVE Goal
  BY <1>1, <1>2, <1>5 DEF StartupStep, Startup, ListConversations, ChooseCandidates, Reconcile,
     Forget, Quiet, convVars
<1>6. ASSUME NEW w \in Worker, NEW u \in Thread, Phase1Step(w, u) PROVE Goal
  BY <1>1, <1>6 DEF Phase1Step, ClaimThread, ClaimRefused, ReadConversation, Extract, Reread,
     Raises1, Settle1, Rest1, convVars
<1>7. ASSUME NEW w \in Worker, Phase2Step(w) PROVE Goal
  BY <1>1, <1>2, <1>7 DEF Phase2Step, Claim2OfWorker, Claim2Refused, SelectOutputs, FilterOutput,
     Prepare, Consolidate, CheckSelection, Commit, Fail2, Heartbeat, Raises2, Quiet, Rest2, convVars
<1>8. ASSUME NEW w \in Worker, Stop(w) \/ Reset(w) PROVE Goal
  BY <1>1, <1>8 DEF Stop, Reset, Quiet, convVars
<1>9. CASE TimePasses \/ UNCHANGED vars
  BY <1>1, <1>9 DEF TimePasses, vars, genVars, convVars
<1> QED
  BY <1>3, <1>4, <1>5, <1>6, <1>7, <1>8, <1>9 DEF Next

LEMMA ForgottenNotExtractedStep ==
    ASSUME TypeOK, TypeOK', StoreTypeOK, TokensGranted, ClaimsGranted, ForgottenNotExtracted,
           [Next]_vars
    PROVE  ForgottenNotExtracted'
<1> USE DEF ForgottenNotExtracted
<1> SUFFICES ASSUME NEW t \in forgot'
             PROVE  /\ ~Eligible(conv'[t])
                    /\ outputs'[t].rev = NoRevision
                    /\ \A w \in Worker :
                           ex'[w][t].at \in Extracting => ~Owns1(ex[w][t].claim)'
  BY DEF Extracting, Eligible
<1>0. t \in Thread
  BY Typed DEF Types
<1>1. /\ ~Eligible(conv[t]) /\ ~Eligible(conv'[t])
      /\ t \in forgot \/ (outputs'[t] = NoOutput /\ stage1'[t] = NoJob)
  BY <1>0, ForgotMoves
<1>2. outputs'[t].rev = NoRevision
  BY <1>0, <1>1, RowsAppear DEF NoOutput
<1>3. ASSUME NEW w \in Worker, ex'[w][t].at \in Extracting, Owns1(ex[w][t].claim)'
      PROVE  FALSE
  <2>0. ex'[w][t].at \notin {"off", "claim"}
    BY <1>3 DEF Extracting
  <2>1. ex'[w][t].claim.thread = t
    BY <1>0, <2>0, ClaimsStep DEF ClaimsGranted
  <2>2. t \in forgot
    BY <1>1, <1>3, <2>1 DEF Owns1, NoJob
  <2>3. CASE ClaimThread(w, t)
    <3>1. ex'[w][t].at = "read"
      BY <1>0, <2>3, Typed DEF Types, ClaimThread, Ex
    <3> QED
      BY <1>3, <3>1 DEF Extracting
  <2>4. CASE ReadConversation(w, t)
    <3>1. ex'[w][t].at = "abandon"
      BY <1>0, <1>1, <2>4, Typed DEF Types, ReadConversation, ExGoTo, Ex
    <3> QED
      BY <1>3, <3>1 DEF Extracting
  <2>5. CASE ex[w][t].at \in Extracting /\ ex'[w][t].claim = ex[w][t].claim
    <3>1. ex[w][t].claim \in issued1 /\ ~Owns1(ex[w][t].claim)
      BY <1>0, <2>2, <2>5 DEF ClaimsGranted, Extracting
    <3> QED
      BY <1>3, <2>5, <3>1, StoreStep, Owner1Step DEF Owns1
  <2> QED
    BY <1>0, <1>3, <2>0, <2>3, <2>4, <2>5, ExMoves
<1> QED
  BY <1>1, <1>2, <1>3

-----------------------------------------------------------------------------
(* The owner of phase 2, step by step.                                       *)

(* An owner past its claim keeps its selection, except where it selects and
   filters, and gets past the filter by preparing the inputs.                *)
LEMMA OwnerMoves ==
    ASSUME TypeOK, StoreTypeOK, TokensGranted, ClaimsGranted, [Next]_vars,
           NEW w \in Worker, Owner(w)', task'[w].at # "select"
    PROVE  /\ \/ SelectOutputs(w)
              \/ \E t \in Thread : FilterOutput(w, t)
              \/ task'[w].sel = task[w].sel /\ task[w].at # "select"
           /\ task'[w].at \in Late => Prepare(w) \/ task[w].at \in Late
<1>0. task'[w].at \in Phase2Stage /\ task'[w].at \in Phase2OrFail /\ task'[w].at # "fail"
  BY DEF Owner, Phase2OrFail, Phase2Stage
<1>1. CASE task'[w] = task[w]
  BY <1>1
<1>2. ASSUME NEW v \in Worker, Phase2Step(v)
      PROVE  /\ \/ SelectOutputs(w)
                \/ \E t \in Thread : FilterOutput(w, t)
                \/ task'[w].sel = task[w].sel /\ task[w].at # "select"
             /\ task'[w].at \in Late => Prepare(w) \/ task[w].at \in Late
  <2>1. ~(Claim2OfWorker(v) /\ w = v)
    BY Claim2Granted
  <2> QED
    BY <1>0, <1>1, <1>2, <2>1, Phase2Moves
<1>3. \A v \in Worker : Elsewhere(v) \/ Reset(v) => task'[w] = task[w]
  BY <1>0, ElsewhereRests DEF Reset
<1>4. World => task'[w] = task[w]
  BY WorldRests
<1> QED
  BY <1>1, <1>2, <1>3, <1>4, NextSplit

(* With no new input and no reset, what was current stays so.                *)
LEMMA StoreKeepsCurrent ==
    ASSUME StoreTypeOK, InputIsCatalog, [StoreNext]_storeVars, ~EnqueuePhase2, ~ResetStore
    PROVE  /\ phase2'.input >= phase2.input
           /\ \A t \in Thread : outputs[t].rev # NoRevision
                  => outputs'[t].rev = outputs[t].rev /\ epoch'[t] = epoch[t]
<1> USE DEF StoreTypeOK
<1> DEFINE Keeps == \A t \in Thread : outputs[t].rev # NoRevision
                        => outputs'[t].rev = outputs[t].rev /\ epoch'[t] = epoch[t]
           Goal == phase2'.input >= phase2.input /\ Keeps
<1>0. phase2 \in Job2 /\ phase2.input \in Nat
  BY DEF Job2
<1>1. CASE UNCHANGED <<outputs, epoch, phase2>>
  BY <1>0, <1>1
<1>2. ASSUME NEW t \in Thread, RemoveThreadOutput(t) PROVE Goal
  <2>1. outputs[t].rev = NoRevision /\ UNCHANGED phase2
    BY <1>2 DEF RemoveThreadOutput, CatalogUnchanged
  <2>2. \A u \in Thread \ {t} : outputs'[u] = outputs[u] /\ epoch'[u] = epoch[u]
    BY <1>2 DEF RemoveThreadOutput, DeleteRows
  <2> QED
    BY <1>0, <2>1, <2>2
<1>3. ASSUME NEW c \in issued1, NEW empty \in BOOLEAN, CompleteStage1(c, empty) PROVE Goal
  BY <1>1, <1>3 DEF CompleteStage1, CatalogUnchanged
<1>4. CASE ClaimPhase2
  <2>1. phase2'.input = IF phase2.status = "absent" THEN catalog ELSE phase2.input
    BY <1>0, <1>4 DEF ClaimPhase2, Job2
  <2> QED
    BY <1>0, <1>4, <2>1 DEF ClaimPhase2, InputIsCatalog
<1>5. ASSUME NEW c \in issued2, HeartbeatPhase2(c) \/ FailPhase2(c) PROVE Goal
  <2>1. phase2'.input = phase2.input
    BY <1>0, <1>5 DEF HeartbeatPhase2, FailPhase2, Job2
  <2> QED
    BY <1>0, <1>5, <2>1 DEF HeartbeatPhase2, FailPhase2
<1>6. ASSUME NEW c \in issued2, NEW sel \in [Thread -> RevisionOrNone], CompletePhase2(c, sel)
      PROVE  Goal
  <2>1. phase2'.input = phase2.input
    BY <1>0, <1>6 DEF CompletePhase2, Job2
  <2>2. \A t \in Thread : outputs'[t].rev = outputs[t].rev
    BY <1>6 DEF CompletePhase2, Output
  <2> QED
    BY <1>0, <1>6, <2>1, <2>2 DEF CompletePhase2
<1>7. CASE Phase2TimePasses
  <2>1. PICK lease, wait, cooling : phase2' = [phase2 EXCEPT !.lease = lease, !.wait = wait, !.cooling = cooling]
    BY <1>7 DEF Phase2TimePasses
  <2>2. phase2'.input = phase2.input
    BY <1>0, <2>1 DEF Job2
  <2> QED
    BY <1>0, <1>7, <2>2 DEF Phase2TimePasses
<1>8. ASSUME NEW t \in Thread, NEW r \in Revision, ClaimStage1(t, r) PROVE Goal
  BY <1>1, <1>8 DEF ClaimStage1
<1>9. ASSUME NEW c \in issued1, FailStage1(c) \/ AbandonStage1(c) PROVE Goal
  BY <1>1, <1>9 DEF FailStage1, AbandonStage1
<1>10. ASSUME NEW t \in Thread, Stage1TimePasses(t) PROVE Goal
  BY <1>1, <1>10 DEF Stage1TimePasses
<1>11. ASSUME NEW T \in SUBSET Thread, PruneUnselectedOutputs(T) PROVE FALSE
  BY <1>11 DEF PruneUnselectedOutputs
<1>12. ~RecordUsage
  BY DEF RecordUsage
<1>13. CASE UNCHANGED storeVars
  BY <1>1, <1>13 DEF storeVars
<1> HIDE DEF StoreTypeOK
<1> QED
  BY <1>2, <1>3, <1>4, <1>5, <1>6, <1>7, <1>8, <1>9, <1>10, <1>11, <1>12, <1>13 DEF StoreNext

(* New input is later than any claim's, and a reset leaves no owner.         *)
LEMMA OwnerSeesInput ==
    ASSUME StoreTypeOK, InputIsCatalog, NEW c \in issued2, Owns2(c)
    PROVE  /\ c.input <= phase2.input
           /\ EnqueuePhase2 => phase2'.input > c.input
           /\ ResetStore => phase2'.status = "absent"
<1>1. c.input \in Nat /\ phase2 \in Job2 /\ phase2.input \in Nat /\ catalog \in Nat
  BY DEF StoreTypeOK, Claim2, Job2
<1>2. c.input <= phase2.input /\ phase2.input <= catalog
  BY DEF InputIsCatalog
<1>3. EnqueuePhase2 => phase2'.input = catalog + 1
  BY <1>1, <1>2, EnqueueType
<1> QED
  BY <1>1, <1>2, <1>3 DEF ResetStore, NoPhase2

(* Who writes which file.                                                    *)
LEMMA FilesMove ==
    ASSUME [Next]_vars
    PROVE  /\ \/ UNCHANGED raw
              \/ \E v \in Worker : Prepare(v) \/ Reset(v)
           /\ \/ UNCHANGED <<memory, tainted>>
              \/ \E v \in Worker : Consolidate(v) \/ Reset(v)
           /\ \/ UNCHANGED baseline
              \/ \E v \in Worker : Commit(v) \/ Reset(v)
<1>1. CASE World
  BY <1>1, WorldRests DEF files
<1>2. ASSUME NEW v \in Worker, StartupStep(v) \/ Stop(v) PROVE UNCHANGED <<files, tainted>>
  BY <1>2 DEF StartupStep, Startup, ListConversations, ChooseCandidates, Reconcile, Forget, Stop
<1>3. ASSUME NEW v \in Worker, NEW t \in Thread, Phase1Step(v, t) PROVE UNCHANGED <<files, tainted>>
  BY <1>3 DEF Phase1Step, ClaimThread, ClaimRefused, ReadConversation, Extract, Reread, Raises1,
     Settle1, Rest1
<1>4. ASSUME NEW v \in Worker, Phase2Step(v)
      PROVE  /\ UNCHANGED raw \/ Prepare(v)
             /\ UNCHANGED <<memory, tainted>> \/ Consolidate(v)
             /\ UNCHANGED baseline \/ Commit(v)
  BY <1>4 DEF Phase2Step, Claim2OfWorker, Claim2Refused, SelectOutputs, FilterOutput, Prepare,
     Consolidate, CheckSelection, Commit, Fail2, Heartbeat, Raises2, files
<1> QED
  BY <1>1, <1>2, <1>3, <1>4, NextSplit DEF Elsewhere, files

(* The inputs are written by owners only, and a reset leaves no owner.       *)
LEMMA InputsStep ==
    ASSUME TypeOK, StoreTypeOK, TokensGranted, ClaimsGranted, TokensUnique, OwnerWroteTheInputs,
           [Next]_vars
    PROVE  OwnerWroteTheInputs'
<1> SUFFICES ASSUME NEW w \in Worker, task'[w].at \in Late, Owns2(task[w].claim)'
             PROVE  raw' = task'[w].sel
  BY DEF OwnerWroteTheInputs, Late, Owns2
<1>1. Owner(w)' /\ task'[w].at # "select"
  BY DEF Owner, Late, Phase2Stage
<1>2. Owner(w) /\ task'[w].claim = task[w].claim
  BY <1>1, OwnersMove
<1>3. ASSUME NEW v \in Worker, Reset(v) PROVE FALSE
  BY <1>3 DEF Reset, ResetStore, NoPhase2, Owns2
<1>4. CASE Prepare(w)
  <2>1. Owns2(task[w].claim) /\ task[w].at = "filter" /\ task[w].todo = {}
    BY <1>2, <1>4 DEF Prepare, Owner, At
  <2>2. raw' = task[w].sel
    BY <1>4, <2>1 DEF Prepare
  <2>3. task'[w].sel = task[w].sel
    BY <1>1, <2>1, OwnerMoves DEF SelectOutputs, FilterOutput, At
  <2> QED
    BY <2>2, <2>3
<1>5. CASE ~Prepare(w)
  <2>1. task[w].at \in Late
    BY <1>1, <1>5, OwnerMoves
  <2>2. task'[w].sel = task[w].sel
    BY <1>1, <2>1, OwnerMoves DEF SelectOutputs, FilterOutput, At, Late
  <2>3. raw = task[w].sel
    BY <1>2, <2>1 DEF OwnerWroteTheInputs, Owner, Late
  <2>4. ASSUME NEW v \in Worker, Prepare(v) PROVE UNCHANGED raw
    <3>1. v # w /\ task[v].at \in Phase2OrFail
      BY <1>5, <2>4 DEF Prepare, At, Phase2OrFail, Phase2Stage
    <3>2. ~Owns2(task[v].claim)
      BY <1>2, <3>1, OneOwner
    <3> QED
      BY <2>4, <3>2 DEF Prepare
  <2> QED
    BY <1>3, <2>2, <2>3, <2>4, FilesMove
<1> QED
  BY <1>4, <1>5

(* A selection is current when it is made, and stays so until input arrives. *)
LEMMA SelectionStep ==
    ASSUME TypeOK, StoreTypeOK, TokensGranted, InputIsCatalog, ForgottenStaysForgotten,
           ClaimsGranted, SelectionIsCurrent, [Next]_vars
    PROVE  SelectionIsCurrent'
<1> SUFFICES ASSUME NEW w \in Worker, Owner(w)', task'[w].at # "select",
                    phase2'.input = task'[w].claim.input,
                    NEW t \in Thread, task'[w].sel[t] # NoDraw
             PROVE  outputs'[t].rev # NoRevision /\ task'[w].sel[t] = Stored(t)'
  BY DEF SelectionIsCurrent, Current, Draws
<1>1. Owner(w) /\ task'[w].claim = task[w].claim
  BY OwnersMove
<1>2. task[w].claim \in issued2 /\ Owns2(task[w].claim)
  BY <1>1 DEF ClaimsGranted, Owner, Phase2OrFail
<1>3. phase2.input \in Nat /\ phase2'.status = "running" /\ [StoreNext]_storeVars
  BY StoreStep DEF Owner, Owns2, StoreTypeOK, Job2
<1>4. ~EnqueuePhase2 /\ ~ResetStore
  <2>1. phase2'.input > task[w].claim.input => FALSE
    BY <1>1, <1>2 DEF StoreTypeOK, Claim2
  <2> QED
    BY <1>2, <1>3, <2>1, OwnerSeesInput
<1>5. phase2.input = task[w].claim.input
  BY <1>1, <1>2, <1>3, <1>4, OwnerSeesInput, StoreKeepsCurrent DEF StoreTypeOK, Claim2
<1>6. outputs[t].rev # NoRevision => outputs'[t].rev # NoRevision /\ Stored(t)' = Stored(t)
  BY <1>3, <1>4, StoreKeepsCurrent DEF Stored
<1>7. ASSUME task[w].at # "select", task'[w].sel[t] = task[w].sel[t]
      PROVE  outputs[t].rev # NoRevision /\ task'[w].sel[t] = Stored(t)
  BY <1>1, <1>5, <1>7 DEF SelectionIsCurrent, Current, Draws
<1>8. CASE SelectOutputs(w)
  <2>1. PICK L \in SUBSET {u \in Thread : outputs[u].rev # NoRevision} :
           task' = [task EXCEPT ![w].at = "filter", ![w].todo = L,
               ![w].sel = [u \in Thread |->
                   IF u \in L THEN [rev |-> outputs[u].rev, epoch |-> outputs[u].epoch]
                   ELSE NoDraw]]
    BY <1>8 DEF SelectOutputs
  <2> DEFINE sel == [u \in Thread |->
                   IF u \in L THEN [rev |-> outputs[u].rev, epoch |-> outputs[u].epoch]
                   ELSE NoDraw]
  <2>2. sel[t] = IF t \in L THEN [rev |-> outputs[t].rev, epoch |-> outputs[t].epoch] ELSE NoDraw
    OBVIOUS
  <2>3. task' = [task EXCEPT ![w] = [task[w] EXCEPT !.at = "filter", !.todo = L, !.sel = sel]]
    BY <2>1
  <2> HIDE DEF sel
  <2>4. task'[w] = [task[w] EXCEPT !.at = "filter", !.todo = L, !.sel = sel]
    BY <2>3, Typed DEF Types
  <2>5. task'[w].sel = sel
    BY <2>4, TaskTyped DEF Task
  <2>6. t \in L /\ task'[w].sel[t] = [rev |-> outputs[t].rev, epoch |-> outputs[t].epoch]
    BY <2>2, <2>5
  <2> QED
    BY <1>6, <2>1, <2>6 DEF ForgottenStaysForgotten, Stored
<1>9. ASSUME NEW u \in Thread, FilterOutput(w, u)
      PROVE  task[w].at # "select" /\ task'[w].sel[t] = task[w].sel[t]
  <2>1. PICK d : d \in {task[w].sel[u], NoDraw}
                 /\ task' = [task EXCEPT ![w].todo = @ \ {u}, ![w].sel[u] = d]
    BY <1>9 DEF FilterOutput
  <2> DEFINE T == task[w].todo \ {u}
             f == [task EXCEPT ![w].todo = T]
             sel == [task[w].sel EXCEPT ![u] = d]
  <2>2. task' = [f EXCEPT ![w].sel[u] = d]
    BY <2>1
  <2>3. sel[t] = IF t = u THEN d ELSE task[w].sel[t]
    BY TaskTyped DEF Task
  <2>4. f \in [Worker -> Task] /\ f[w].sel = task[w].sel
    <3>1. [task[w] EXCEPT !.todo = T] \in Task /\ [task[w] EXCEPT !.todo = T].sel = task[w].sel
      BY TaskTyped DEF Task
    <3> QED
      BY <3>1, Typed DEF Types
  <2> HIDE DEF T, f
  <2>5. task'[w].sel = sel
    BY <2>2, <2>4 DEF Task
  <2> QED
    BY <1>9, <2>1, <2>3, <2>5 DEF FilterOutput, At
<1> QED
  BY <1>6, <1>7, <1>8, <1>9, OwnerMoves

(* A worker that has written is past writing by its own step only.           *)
Written == {"check", "commit", "keep"}

LEMMA WriterMoves ==
    ASSUME TypeOK, [Next]_vars, NEW w \in Worker, task[w].at = "consolidate",
           task'[w].at \in Written
    PROVE  Consolidate(w)
<1> USE Typed DEF Types
<1>1. task'[w].at # task[w].at /\ task'[w].at \in Phase2OrFail
  BY DEF Written, Phase2OrFail, Phase2Stage
<1>2. PICK v \in Worker : Phase2Step(v)
  BY <1>1, NextSplit, WorldRests, ElsewhereRests DEF Reset
<1>3. v = w
  BY <1>1, <1>2 DEF Phase2Step, Claim2OfWorker, Claim2Refused, SelectOutputs, FilterOutput, Prepare,
     Consolidate, CheckSelection, Commit, Fail2, Heartbeat, Raises2, GoTo, Leave
<1>4. Heartbeat(w) \/ Raises2(w) => task'[w].at \in {task[w].at, "fail"}
  BY TaskTyped DEF Heartbeat, Raises2, GoTo, Task
<1> QED
  BY <1>1, <1>2, <1>3, <1>4 DEF Phase2Step, Claim2OfWorker, Phase1Done, Claim2Refused,
     SelectOutputs, FilterOutput, Prepare, CheckSelection, Commit, Fail2, At, Written

LEMMA KeptIsUnchanged ==
    ASSUME TypeOK, NEW w \in Worker, Prepare(w), Owns2(task[w].claim), task'[w].at \in Written
    PROVE  task[w].sel = baseline.raw /\ memory = baseline.memory
<1>1. GoTo(w, "consolidate") => task'[w].at = "consolidate"
  BY Typed, TaskTyped DEF Types, GoTo, Task
<1> QED
  BY <1>1 DEF Prepare, Written

(* A worker that does not own phase 2 taints what it writes.                 *)
LEMMA MemoryStep ==
    ASSUME TypeOK, StoreTypeOK, TokensGranted, ClaimsGranted, TokensUnique, OwnerWroteTheInputs,
           OwnerWroteTheMemory, [Next]_vars
    PROVE  OwnerWroteTheMemory'
<1> SUFFICES ASSUME ~tainted'
             PROVE  /\ baseline'.memory = baseline'.raw
                    /\ \A w \in Worker : Owner(w)' /\ task'[w].at \in Written
                                             => memory' = task'[w].sel
  BY DEF OwnerWroteTheMemory, Written
<1>1. ~tainted
  BY FilesMove DEF Consolidate, Reset
<1>2. baseline.memory = baseline.raw
  BY <1>1 DEF OwnerWroteTheMemory
<1>3. \A w \in Worker : Owner(w) /\ task[w].at \in Written => memory = task[w].sel
  BY <1>1 DEF OwnerWroteTheMemory, Written
<1>4. baseline'.memory = baseline'.raw
  <2>1. ASSUME NEW v \in Worker, Commit(v) PROVE baseline'.memory = baseline'.raw
    <3>1. CASE task[v].at = "commit" /\ Owns2(task[v].claim) /\ valid
      <4>1. Owner(v) /\ task[v].at \in Written
        BY <3>1 DEF Owner, Phase2Stage, Written
      <4>2. raw = memory
        BY <1>3, <3>1, <4>1 DEF OwnerWroteTheInputs
      <4> QED
        BY <2>1, <3>1, <4>2 DEF Commit
    <3>2. CASE ~(task[v].at = "commit" /\ Owns2(task[v].claim) /\ valid)
      BY <1>2, <2>1, <3>2 DEF Commit
    <3> QED
      BY <3>1, <3>2
  <2>2. ASSUME NEW v \in Worker, Reset(v) PROVE baseline'.memory = baseline'.raw
    BY <2>2 DEF Reset
  <2> QED
    BY <1>2, <2>1, <2>2, FilesMove
<1>5. ASSUME NEW w \in Worker, Owner(w)', task'[w].at \in Written PROVE memory' = task'[w].sel
  <2>1. task'[w].at \in Late /\ task'[w].at # "select"
    BY <1>5 DEF Written, Late
  <2>2. Owner(w)
    BY <1>5, <2>1, OwnersMove
  <2>3. Prepare(w) \/ task[w].at \in Late
    BY <1>5, <2>1, OwnerMoves
  <2>4. task'[w].sel = task[w].sel
    BY <1>5, <2>1, <2>3, OwnerMoves DEF SelectOutputs, FilterOutput, Prepare, At, Late
  <2>5. ASSUME NEW v \in Worker, Reset(v) PROVE FALSE
    BY <1>5, <2>5 DEF Reset, ResetStore, NoPhase2, Owner, Owns2
  <2>6. ASSUME NEW v \in Worker, Consolidate(v) PROVE v = w
    <3>1. Owns2(task[v].claim) /\ task[v].at \in Phase2OrFail
      BY <2>6 DEF Consolidate, At, Phase2OrFail, Phase2Stage
    <3> QED
      BY <2>2, <3>1, OneOwner
  <2>7. CASE Consolidate(w)
    <3>1. raw = task[w].sel
      BY <2>2, <2>7 DEF OwnerWroteTheInputs, Owner, Consolidate, At
    <3> QED
      BY <2>4, <2>7, <3>1 DEF Consolidate
  <2>8. CASE ~Consolidate(w)
    <3>1. memory' = memory
      BY <2>5, <2>6, <2>8, FilesMove
    <3>2. task[w].at # "consolidate"
      BY <1>5, <2>8, WriterMoves
    <3>3. CASE Prepare(w)
      <4>1. memory = task[w].sel
        BY <1>2, <1>5, <2>2, <3>3, KeptIsUnchanged DEF Owner
      <4> QED
        BY <2>4, <3>1, <4>1
    <3>4. CASE task[w].at \in Late
      <4>1. task[w].at \in Written
        BY <3>2, <3>4 DEF Late, Written
      <4> QED
        BY <1>3, <2>2, <2>4, <3>1, <4>1
    <3> QED
      BY <2>3, <3>3, <3>4
  <2> QED
    BY <2>7, <2>8
<1> QED
  BY <1>4, <1>5

(* Phase 2 comes to rest by the commit of its owner only.                    *)
LEMMA ComesToRest ==
    ASSUME StoreTypeOK, [Next]_vars, phase2'.status = "succeeded", phase2.status # "succeeded"
    PROVE  \E w \in Worker : /\ Commit(w) /\ Owns2(task[w].claim)
                             /\ CompletePhase2(task[w].claim, [t \in Thread |-> task[w].sel[t].rev])
<1> USE DEF StoreTypeOK
<1> DEFINE Goal == \E w \in Worker :
                       /\ Commit(w) /\ Owns2(task[w].claim)
                       /\ CompletePhase2(task[w].claim, [t \in Thread |-> task[w].sel[t].rev])
<1>1. phase2' # phase2
  OBVIOUS
<1>2. ~EnqueuePhase2
  BY EnqueueType
<1>3. \A t \in Thread : ~Forgetting(t)
  BY <1>1, <1>2 DEF Forgetting, RemoveThreadOutput, CatalogUnchanged
<1>4. ~(UNCHANGED storeVars)
  BY <1>1 DEF storeVars
<1>5. ASSUME NEW w \in Worker PROVE ~StartupStep(w)
  BY <1>1, <1>2, <1>3, <1>4 DEF StartupStep, Startup, PruneUnselectedOutputs, ListConversations,
     ChooseCandidates, Reconcile, Forget, Quiet
<1>6. ASSUME NEW w \in Worker, NEW t \in Thread PROVE ~Phase1Step(w, t)
  BY <1>1, <1>2, <1>4 DEF Phase1Step, ClaimThread, ClaimStage1, ClaimRefused, ReadConversation,
     Extract, Reread, Raises1, Settle1, CompleteStage1, CatalogUnchanged, AbandonStage1, FailStage1
<1>7. ASSUME NEW w \in Worker, Phase2Step(w) PROVE Goal
  <2>1. phase2 \in Job2
    OBVIOUS
  <2>2. ~ClaimPhase2
    BY <2>1 DEF ClaimPhase2, Job2
  <2>3. \A c : ~HeartbeatPhase2(c) /\ ~FailPhase2(c)
    BY <2>1 DEF HeartbeatPhase2, FailPhase2, Job2
  <2> QED
    BY <1>1, <1>3, <1>4, <1>7, <2>2, <2>3 DEF Phase2Step, Claim2OfWorker, Claim2Refused,
       SelectOutputs, FilterOutput, Prepare, Consolidate, CheckSelection, Commit, Fail2, Heartbeat,
       Raises2, Quiet
<1>8. ASSUME NEW w \in Worker PROVE ~Stop(w) /\ ~Reset(w)
  BY <1>4 DEF Stop, Reset, ResetStore, NoPhase2, Quiet
<1>9. ~TimePasses
  <2>1. Phase2TimePasses => phase2'.status = phase2.status
    BY DEF Phase2TimePasses, Job2
  <2> QED
    BY <1>1, <2>1 DEF TimePasses, Stage1TimePasses
<1> QED
  BY <1>4, <1>5, <1>6, <1>7, <1>8, <1>9 DEF Next, EditConversation, ChangeMode, vars

LEMMA RestsStep ==
    ASSUME TypeOK, StoreTypeOK, InputIsCatalog, TokensGranted, ClaimsGranted, SelectionIsCurrent,
           OwnerWroteTheMemory, RestsOnStored, [Next]_vars
    PROVE  RestsOnStored'
<1> SUFFICES ASSUME phase2'.status = "succeeded", ~tainted', NEW t \in Thread, memory'[t] # NoDraw
             PROVE  outputs'[t].rev # NoRevision /\ memory'[t] = Stored(t)'
  BY DEF RestsOnStored, Draws
<1>1. ~tainted /\ memory' = memory
  <2>1. ASSUME NEW v \in Worker, Reset(v) PROVE FALSE
    BY <2>1 DEF Reset, ResetStore, NoPhase2
  <2>2. ASSUME NEW v \in Worker, Consolidate(v) PROVE FALSE
    BY <2>2 DEF Consolidate, Quiet, storeVars, Owns2
  <2> QED
    BY <2>1, <2>2, FilesMove
<1>2. CASE phase2.status = "succeeded"
  <2>1. outputs[t].rev # NoRevision /\ memory[t] = Stored(t)
    BY <1>1, <1>2 DEF RestsOnStored, Draws
  <2>2. ~EnqueuePhase2 /\ ~ResetStore
    BY <1>2, EnqueueType DEF StoreTypeOK, ResetStore, NoPhase2
  <2> QED
    BY <1>1, <2>1, <2>2, StoreStep, StoreKeepsCurrent DEF Stored
<1>3. CASE phase2.status # "succeeded"
  <2>1. PICK w \in Worker : /\ Commit(w) /\ Owns2(task[w].claim)
                            /\ CompletePhase2(task[w].claim, [u \in Thread |-> task[w].sel[u].rev])
    BY <1>3, ComesToRest
  <2>2. Owner(w) /\ task[w].at \in {"commit", "keep"} /\ task[w].claim \in issued2
    BY <2>1 DEF Commit, Owner, Phase2Stage, Phase2OrFail, ClaimsGranted
  <2>3. memory = task[w].sel
    BY <1>1, <2>2 DEF OwnerWroteTheMemory
  <2>4. ~(phase2.input > task[w].claim.input)
    BY <2>1 DEF CompletePhase2, StoreTypeOK, Job2
  <2>5. phase2.input = task[w].claim.input
    BY <2>1, <2>2, <2>4, OwnerSeesInput DEF StoreTypeOK, Job2, Claim2
  <2>6. outputs[t].rev # NoRevision /\ memory[t] = Stored(t)
    BY <1>1, <2>2, <2>3, <2>5 DEF SelectionIsCurrent, Current, Draws
  <2>7. outputs'[t].rev = outputs[t].rev /\ epoch' = epoch
    BY <2>1 DEF CompletePhase2, StoreTypeOK, Output
  <2> QED
    BY <1>1, <2>6, <2>7 DEF Stored
<1> QED
  BY <1>2, <1>3

-----------------------------------------------------------------------------
(* GenInv is inductive together with the store's invariant.                  *)
LEMMA GenInvInit == Init => IInv /\ GenInv
<1> SUFFICES ASSUME Init PROVE IInv /\ GenInv
  OBVIOUS
<1>1. IInv /\ TypeOK
  BY InvInit, InitTyped DEF Init
<1>2. \A w \in Worker : task[w].at = "idle" /\ \A t \in Thread : ex[w][t].at = "off"
  BY DEF Init, IdleTask, IdleEx
<1>3. ClaimsGranted /\ TokensUnique /\ OwnerWroteTheInputs /\ SelectionIsCurrent
  BY <1>2 DEF ClaimsGranted, TokensUnique, OwnerWroteTheInputs, SelectionIsCurrent, Owner,
     Phase2OrFail, Phase2Stage
<1>4. ForgottenNotExtracted
  BY DEF Init, ForgottenNotExtracted
<1>5. OwnerWroteTheMemory
  BY <1>2 DEF Init, OwnerWroteTheMemory, Owner, Phase2Stage
<1>6. RestsOnStored
  BY DEF Init, StoreInit, NoPhase2, RestsOnStored
<1> QED
  BY <1>1, <1>3, <1>4, <1>5, <1>6 DEF GenInv

LEMMA GenInvStep == IInv /\ GenInv /\ [Next]_vars => IInv' /\ GenInv' /\ [StoreNext]_storeVars
<1> SUFFICES ASSUME IInv, GenInv, [Next]_vars PROVE IInv' /\ GenInv' /\ [StoreNext]_storeVars
  OBVIOUS
<1> USE DEF IInv, GenInv
<1>1. [StoreNext]_storeVars
  BY StoreStep
<1>2. IInv'
  BY <1>1, InvStep
<1>3. TypeOK'
  BY <1>2, GenTypeStep
<1>4. ClaimsGranted' /\ TokensUnique'
  BY ClaimsStep, UniqueStep
<1>5. ForgottenNotExtracted'
  BY <1>3, ForgottenNotExtractedStep
<1>6. OwnerWroteTheInputs' /\ OwnerWroteTheMemory'
  BY InputsStep, MemoryStep
<1>7. SelectionIsCurrent' /\ RestsOnStored'
  BY SelectionStep, RestsStep
<1> QED
  BY <1>1, <1>2, <1>3, <1>4, <1>5, <1>6, <1>7

LEMMA GenInvHolds == Spec => [](IInv /\ GenInv)
  BY GenInvInit, GenInvStep, PTL DEF Spec

(* The coroutines, the conversations and the memory directory are well-formed,
   whatever users, workers and processes do at any await of generation.py.   *)
THEOREM TasksTypeCorrect == Spec => []TypeOK
  BY GenInvHolds, PTL DEF GenInv

(* generation.py changes the job store by its methods only and settles nothing
   it was not granted: every behaviour of the workers is one of the store, so
   whatever MemoryJobStoreProofs shows of the store holds while they run.    *)
THEOREM WorkersUseTheStore == Spec => UsesStore
<1>1. Init => StoreInit
  BY DEF Init
<1> QED
  BY <1>1, GenInvHolds, GenInvStep, PTL DEF Spec, UsesStore, StoreSpec

(* An output removed while its conversation is ineligible is not stored again
   before the conversation is eligible: the extraction running then has lost
   its job with the row (remove_thread_output), and a later one looks at the
   conversation under its own claim (_run_phase1).                           *)
THEOREM ForgottenIsNotStored == Spec => []NothingStoredOnceForgotten
<1>1. GenInv => NothingStoredOnceForgotten
  BY DEF GenInv, ForgottenNotExtracted, NothingStoredOnceForgotten
<1> QED
  BY <1>1, GenInvHolds, PTL

(* From _prepare_phase2_workspace to the commit the owner of phase 2 finds its
   own inputs on disk: a worker that has lost the job writes none, and a reset
   leaves no owner.                                                          *)
THEOREM InputsAreTheOwners == Spec => []OwnerWroteTheInputs
  BY GenInvHolds, PTL DEF GenInv

(* When phase 2 rests, MEMORY.md draws on what the store holds: outputs that have
   not been forgotten, pruned, reset or replaced since, unless a worker wrote
   after it had lost the job.  What is removed or replaced while the owner
   consolidates is input later than its claim, and complete_phase2 leaves the job
   pending.                                                                  *)
THEOREM RestsOnWhatIsKept == Spec => []RestsOnStored
  BY GenInvHolds, PTL DEF GenInv
=============================================================================
