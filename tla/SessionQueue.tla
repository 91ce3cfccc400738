---------------------------- MODULE SessionQueue ----------------------------
(***************************************************************************)
(* The runtimes that use the durable user-message queue: one               *)
(* SessionRunManager per owner (backend/ws/run_manager.py), the dispatch   *)
(* coroutine of backend/ws/handler.py, the turn-local steer queue          *)
(* (backend/agent/turn_input.py) and the queue commands of                 *)
(* backend/ws/command_dispatcher.py and backend/ws/handlers/misc.py.       *)
(*                                                                         *)
(* A runtime is one event loop, so its synchronous code is atomic; several *)
(* runtimes of one session interleave at every file access.  A runtime     *)
(* keeps its own copy of the queue, loc, which is what a user sees and     *)
(* edits, beside the baselines the store keeps for it.                     *)
(***************************************************************************)
EXTENDS DurableUserQueue

CONSTANTS
    MaxLive,      \* bound: runtimes of the session holding a lease at one time
    MaxFaults,    \* bound: file writes that fail
    MaxInterrupts, \* bound: dispatches not admitted, runs stopped mid-delivery
    MaxResyncs,   \* bound: session.sync requests of a connected client
    MaxClears,    \* bound: regenerate / stop requests
    MaxTaken      \* bound: times the turns take one message in

ASSUME BoundsAssumption ==
    {MaxLive, MaxFaults, MaxInterrupts, MaxResyncs, MaxClears, MaxTaken} \subseteq Nat

VARIABLES
    loc,          \* owner -> [q, inf, turn]: the manager's own snapshot
    run,          \* owner -> "none" | "direct" | "queued": registered run
    phase,        \* owner -> "closed" | "current" | "next": turn queue phase
    steers,       \* owner -> messages waiting in the turn-local queue
    consumed,     \* owner -> [msg, stage]: the steer being consumed
    disp,         \* owner -> stage of the dispatch coroutine
    cmd,          \* owner -> the message that coroutine captured
    dispatching,  \* owner -> the _queue_dispatching fence
    advance,      \* owner -> the dispatch ended well: kick the queue after it
    steering,     \* owner -> the _queue_steering fence
    steerCmd,     \* owner -> stage of the steer command that raised it
    todo,         \* owner -> rest of a synchronous call: kick or restore m
    accepted,     \* messages the queue has durably accepted, in order
    taken,        \* message -> times a turn took it in
    excused,      \* message -> times its taking could not be recorded
    dropped,      \* messages removed at the user's request
    steered,      \* messages the user redirected into a running turn
    missed,       \* owner -> a steer's fence swallowed a kick of the queue
    budget        \* what is left of the bounds

runtimeVars == <<loc, run, phase, steers, consumed, disp, cmd, dispatching,
                 advance, steering, steerCmd, todo>>
steerVars == <<steering, steerCmd>>
ghostVars == <<accepted, taken, excused, dropped, steered, missed>>
vars == <<storeVars, runtimeVars, ghostVars, budget>>

NoneConsumed == [msg |-> NoMsg, stage |-> "none"]
WrongNullLoc == [q |-> <<>>, inf |-> NoOwner, turn |-> <<>>]  \* mutant of EmptyLoc
EmptyLoc == [q |-> <<>>, inf |-> NoMsg, turn |-> <<>>]
Idle == [act |-> "none", msg |-> NoMsg]
Kick == [act |-> "kick", msg |-> NoMsg]

TypeOK ==
    /\ StoreTypeOK
    /\ loc \in [Owner -> [q : Seq(Msg), inf : Msg \cup {NoMsg}, turn : Seq(Msg)]]
    /\ run \in [Owner -> {"none", "direct", "queued"}]
    /\ phase \in [Owner -> {"closed", "current", "next"}]
    /\ steers \in [Owner -> Seq(Msg)]
    /\ consumed \in [Owner -> [msg : Msg \cup {NoMsg},
                               stage : {"none", "popped", "delivered"}]]
    /\ disp \in [Owner -> {"idle", "claiming", "claimed", "started", "admitted",
                           "settling", "settled"}]
    /\ cmd \in [Owner -> Msg \cup {NoMsg}]
    /\ dispatching \in [Owner -> BOOLEAN]
    /\ advance \in [Owner -> BOOLEAN]
    /\ steering \in [Owner -> BOOLEAN]
    /\ steerCmd \in [Owner -> {"idle", "sending", "waiting", "drained"}]
    /\ todo \in [Owner -> [act : {"none", "kick", "restore"}, msg : Msg \cup {NoMsg}]]
    /\ accepted \in Seq(Msg)
    /\ taken \in [Msg -> 0..MaxTaken] /\ excused \in [Msg -> Nat]
    /\ dropped \subseteq Msg /\ steered \subseteq Msg /\ missed \in [Owner -> BOOLEAN]
    /\ budget \in [faults : 0..MaxFaults, interrupts : 0..MaxInterrupts,
                   resyncs : 0..MaxResyncs, clears : 0..MaxClears]

Init ==
    /\ StoreInit
    /\ loc = [o \in Owner |-> EmptyLoc]
    /\ run = [o \in Owner |-> "none"]
    /\ phase = [o \in Owner |-> "closed"]
    /\ steers = [o \in Owner |-> <<>>]
    /\ consumed = [o \in Owner |-> NoneConsumed]
    /\ disp = [o \in Owner |-> "idle"]
    /\ cmd = [o \in Owner |-> NoMsg]
    /\ dispatching = [o \in Owner |-> FALSE]
    /\ advance = [o \in Owner |-> FALSE]
    /\ steering = [o \in Owner |-> FALSE]
    /\ steerCmd = [o \in Owner |-> "idle"]
    /\ todo = [o \in Owner |-> Idle]
    /\ accepted = <<>>
    /\ taken = [m \in Msg |-> 0] /\ excused = [m \in Msg |-> 0]
    /\ dropped = {} /\ steered = {} /\ missed = [o \in Owner |-> FALSE]
    /\ budget = [faults |-> MaxFaults, interrupts |-> MaxInterrupts,
                 resyncs |-> MaxResyncs, clears |-> MaxClears]

-----------------------------------------------------------------------------
(* A live runtime that is between two synchronous calls.                   *)
Ready(o) ==
    /\ life[o] = "live"
    /\ todo[o] = Idle
    /\ disp[o] \notin {"claiming", "settling"}

Fresh(m) == m \notin ToSet(accepted)

Spend(b) == budget[b] > 0 /\ budget' = [budget EXCEPT ![b] = @ - 1]

\* _without_durable_turn_input / a queue without one message
Without(s, m) == Only(s, ToSet(s) \ {m})

\* _persist_user_queues: publish the snapshot, and keep it only if that worked.
Persist(o, q, inf, turn) ==
    /\ Save(o, q, inf, turn)
    /\ loc' = [loc EXCEPT ![o] = [q |-> q, inf |-> inf, turn |-> turn]]

\* ... or its write (or another owner's claim) refuses it and nothing changes.
PersistFails(o, q, inf, turn) ==
    \/ /\ Spend("faults") /\ UNCHANGED storeVars
    \/ /\ RefuseSave(o, inf, turn) /\ UNCHANGED budget

-----------------------------------------------------------------------------
(* Sessions start, resynchronise, shut down and die.                       *)

LeaseHolders == {o \in Owner : OwnerIsLive(o)}

Start(o) ==
    /\ Cardinality(LeaseHolders) < MaxLive
    /\ Load(o)
    /\ loc' = [loc EXCEPT ![o].q = disk'.queue]
    /\ todo' = [todo EXCEPT ![o] = Kick]
    /\ UNCHANGED <<steerVars, run, phase, steers, consumed, disp, cmd, dispatching, advance,
                   ghostVars, budget>>

Resync(o) ==
    /\ Ready(o) /\ Spend("resyncs")
    /\ todo' = [todo EXCEPT ![o] = Kick]
    /\ UNCHANGED <<steerVars, storeVars, loc, run, phase, steers, consumed, disp, cmd,
                   dispatching, advance, ghostVars>>

ForgetRuntime(o) ==
    /\ loc' = [loc EXCEPT ![o] = EmptyLoc]
    /\ run' = [run EXCEPT ![o] = "none"]
    /\ phase' = [phase EXCEPT ![o] = "closed"]
    /\ steers' = [steers EXCEPT ![o] = <<>>]
    /\ consumed' = [consumed EXCEPT ![o] = NoneConsumed]
    /\ disp' = [disp EXCEPT ![o] = "idle"]
    /\ cmd' = [cmd EXCEPT ![o] = NoMsg]
    /\ dispatching' = [dispatching EXCEPT ![o] = FALSE]
    /\ advance' = [advance EXCEPT ![o] = FALSE]
    /\ steering' = [steering EXCEPT ![o] = FALSE]
    /\ steerCmd' = [steerCmd EXCEPT ![o] = "idle"]
    /\ missed' = [missed EXCEPT ![o] = FALSE]
    /\ todo' = [todo EXCEPT ![o] = Idle]

\* The messages a turn of o took in while the file still holds o's claim.
TakenUnrecorded(o) ==
    (IF disp[o] = "admitted" /\ disk.inflight = cmd[o] /\ disk.infOwner = o
     THEN {cmd[o]} ELSE {})
    \cup (IF consumed[o].stage = "delivered" THEN {consumed[o].msg} ELSE {})

Excuse(M) == excused' = [m \in Msg |-> excused[m] + (IF m \in M THEN 1 ELSE 0)]

Crash(o) ==
    /\ Excuse(TakenUnrecorded(o))
    /\ Vanish(o) /\ ForgetRuntime(o)
    /\ UNCHANGED <<disk, accepted, taken, dropped, steered, budget>>

FreeLease(o) == LeaseFreed(o) /\ UNCHANGED <<runtimeVars, ghostVars, budget>>

Held(o) == ToSet(loc[o].q) \cup ({loc[o].inf} \ {NoMsg}) \cup ToSet(loc[o].turn)

\* shutdown(): clear_all_user_message_queues, drain the runs, release the lease.
Shutdown(o) ==
    /\ Ready(o)
    /\ ~SaveRefused(o, NoMsg, <<>>)
    /\ disk' = SaveResult(o, <<>>, NoMsg, <<>>)
    /\ dropped' = dropped \cup Held(o)
    /\ Excuse(TakenUnrecorded(o))
    /\ Vanish(o) /\ ForgetRuntime(o)
    /\ UNCHANGED <<accepted, taken, steered, budget>>

\* clear_user_message_queue, before a regenerate or a stop cancels the run.
Clear(o) ==
    /\ Ready(o) /\ Spend("clears")
    /\ Persist(o, <<>>, NoMsg, <<>>)
    /\ dropped' = dropped \cup Held(o)
    /\ dispatching' = [dispatching EXCEPT ![o] = FALSE]
    /\ phase' = [phase EXCEPT ![o] = "closed"]
    /\ steers' = [steers EXCEPT ![o] = <<>>]
    /\ steering' = [steering EXCEPT ![o] = FALSE]
    /\ UNCHANGED <<missed, steerCmd, run, consumed, disp, cmd, advance, todo, accepted, taken,
                   excused, steered>>

-----------------------------------------------------------------------------
(* The user's commands.                                                    *)

Busy(o) == run[o] # "none" \/ dispatching[o]

\* A prompt to an idle conversation starts a run without the queue.
StartDirect(o) ==
    /\ Ready(o) /\ ~Busy(o)
    /\ run' = [run EXCEPT ![o] = "direct"]
    /\ phase' = [phase EXCEPT ![o] = "current"]
    /\ UNCHANGED <<steerVars, storeVars, loc, steers, consumed, disp, cmd, dispatching,
                   advance, todo, ghostVars, budget>>

\* enqueue_user_message: a prompt to a busy conversation.
Submit(o, m) ==
    /\ Ready(o) /\ Busy(o) /\ Fresh(m)
    /\ Persist(o, Append(loc[o].q, m), loc[o].inf, loc[o].turn)
    /\ accepted' = Append(accepted, m)
    /\ UNCHANGED <<missed, steerVars, run, phase, steers, consumed, disp, cmd, dispatching, advance,
                   todo, taken, excused, dropped, steered, budget>>

\* enqueue_user_message_as_steer: durable first, then published to the turn.
SubmitSteer(o, m) ==
    /\ Ready(o) /\ run[o] # "none" /\ phase[o] = "current" /\ Fresh(m)
    /\ Persist(o, loc[o].q, loc[o].inf, Append(loc[o].turn, m))
    /\ steers' = [steers EXCEPT ![o] = Append(@, m)]
    /\ accepted' = Append(accepted, m)
    /\ steered' = steered \cup {m}
    /\ UNCHANGED <<missed, steerVars, run, phase, consumed, disp, cmd, dispatching, advance, todo,
                   taken, excused, dropped, budget>>

\* remove_queued_user_message, for a message the runtime shows as queued.
Cancel(o, m) ==
    /\ Ready(o) /\ m \in ToSet(loc[o].q)
    /\ Persist(o, Without(loc[o].q, m), loc[o].inf, loc[o].turn)
    /\ dropped' = dropped \cup {m}
    /\ UNCHANGED <<missed, steerVars, run, phase, steers, consumed, disp, cmd, dispatching, advance,
                   todo, accepted, taken, excused, steered, budget>>

\* handle_user_message_queue_steer: raise the steering fence, then
\* pop_queued_user_message and hand the message to the running turn.  If no
\* turn takes it, restore it (below).  steerCmd is a bound: one such command
\* at a time, which the fence ensures unless a clear lowered it.
SteerQueued(o, m) ==
    /\ Ready(o) /\ ~steering[o] /\ steerCmd[o] = "idle"
    /\ m \in ToSet(loc[o].q)
    /\ Persist(o, Without(loc[o].q, m), loc[o].inf, Append(loc[o].turn, m))
    /\ steering' = [steering EXCEPT ![o] = TRUE]
    /\ IF run[o] # "none" /\ phase[o] = "current"
       THEN /\ steers' = [steers EXCEPT ![o] = Append(@, m)]
            /\ steerCmd' = [steerCmd EXCEPT ![o] = "sending"]
            /\ UNCHANGED todo
       ELSE /\ todo' = [todo EXCEPT ![o] = [act |-> "restore", msg |-> m]]
            /\ UNCHANGED <<steers, steerCmd>>
    /\ steered' = steered \cup {m}
    /\ UNCHANGED <<missed, run, phase, consumed, disp, cmd, dispatching, advance,
                   accepted, taken, excused, dropped, budget>>

\* restore_turn_input_as_follow_up, then cancel the run and await its end.
RestoreAsFollowUp(o) ==
    /\ life[o] = "live" /\ todo[o].act = "restore"
    /\ Persist(o, <<todo[o].msg>> \o loc[o].q, loc[o].inf,
               Without(loc[o].turn, todo[o].msg))
    /\ todo' = [todo EXCEPT ![o] = Idle]
    /\ steerCmd' = [steerCmd EXCEPT ![o] =
                       IF run[o] = "none" THEN "drained" ELSE "waiting"]
    /\ UNCHANGED <<steering, run, phase, steers, consumed, disp, cmd, dispatching,
                   advance, ghostVars, budget>>

\* The command ends: its events are sent (no kick), or the run it interrupted
\* is drained (kick).  Either way the fence comes down.
FinishSteering(o) ==
    /\ Ready(o) /\ steerCmd[o] \in {"sending", "drained"}
    /\ steerCmd' = [steerCmd EXCEPT ![o] = "idle"]
    /\ steering' = [steering EXCEPT ![o] = FALSE]
    /\ todo' = [todo EXCEPT ![o] = IF steerCmd[o] = "drained" /\ run[o] = "none"
                                   THEN Kick ELSE Idle]
    /\ UNCHANGED <<storeVars, loc, run, phase, steers, consumed, disp, cmd,
                   dispatching, advance, ghostVars, budget>>

\* The snapshots these commands would publish.
CommandSnapshots(o) ==
    LET enqueue == {<<Append(loc[o].q, m), loc[o].turn>> :
                        m \in {x \in Msg : Fresh(x) /\ Busy(o)}}
        steer   == {<<loc[o].q, Append(loc[o].turn, m)>> :
                        m \in {x \in Msg : Fresh(x) /\ run[o] # "none"
                                                    /\ phase[o] = "current"}}
        pop     == {<<Without(loc[o].q, m), Append(loc[o].turn, m)>> :
                        m \in {x \in ToSet(loc[o].q) : ~steering[o] /\ steerCmd[o] = "idle"}}
    IN  enqueue \cup steer \cup pop

\* Any of them may fail to publish; the command then reports an error.
CommandFails(o) ==
    /\ Ready(o)
    /\ \E s \in CommandSnapshots(o) : PersistFails(o, s[1], loc[o].inf, s[2])
    /\ UNCHANGED <<runtimeVars, ghostVars>>

\* The second half of a steer may fail too; the message stays a turn input.
RestoreFails(o) ==
    /\ life[o] = "live" /\ todo[o].act = "restore"
    /\ PersistFails(o, <<todo[o].msg>> \o loc[o].q, loc[o].inf,
                    Without(loc[o].turn, todo[o].msg))
    /\ todo' = [todo EXCEPT ![o] = Idle]
    /\ steering' = [steering EXCEPT ![o] = FALSE]
    /\ UNCHANGED <<steerCmd, loc, run, phase, steers, consumed, disp, cmd, dispatching, advance,
                   ghostVars>>

-----------------------------------------------------------------------------
(* schedule_next_queued_user_message and the dispatch coroutine.           *)

\* The coroutine slot disp is a bound: a runtime has one at a time.
MayDispatch(o) ==
    run[o] = "none" /\ ~steering[o] /\ ~dispatching[o] /\ disp[o] = "idle"

Dispatch(o) ==
    /\ life[o] = "live" /\ todo[o] = Kick /\ MayDispatch(o)
    /\ Claim(o)
    /\ cmd' = [cmd EXCEPT ![o] = ClaimedMessage]
    /\ dispatching' = [dispatching EXCEPT ![o] = TRUE]
    /\ disp' = [disp EXCEPT ![o] = "claiming"]
    /\ todo' = [todo EXCEPT ![o] = Idle]
    /\ missed' = [missed EXCEPT ![o] = FALSE]
    /\ UNCHANGED <<steerVars, loc, run, phase, steers, consumed, advance, accepted,
                   taken, excused, dropped, steered, budget>>

KickIgnored(o) ==
    /\ life[o] = "live" /\ todo[o] = Kick /\ ~MayDispatch(o)
    /\ todo' = [todo EXCEPT ![o] = Idle]
    /\ missed' = [missed EXCEPT ![o] = @ \/ (steering[o] /\ run[o] = "none")]
    /\ UNCHANGED <<steerVars, storeVars, loc, run, phase, steers, consumed, disp, cmd,
                   dispatching, advance, accepted, taken, excused, dropped, steered,
                   budget>>

\* The claim's write fails: the exception leaves the dispatch fence raised.
ClaimFails(o) ==
    /\ life[o] = "live" /\ todo[o] = Kick /\ MayDispatch(o)
    /\ ClaimedMessage # NoMsg /\ Spend("faults")
    /\ dispatching' = [dispatching EXCEPT ![o] = TRUE]
    /\ todo' = [todo EXCEPT ![o] = Idle]
    /\ UNCHANGED <<steerVars, storeVars, loc, run, phase, steers, consumed, disp, cmd, advance,
                   ghostVars>>

\* The second half of dequeue_user_message: copy the pending queue.
RefreshAfterClaim(o) ==
    /\ life[o] = "live" /\ disp[o] = "claiming"
    /\ PendingUserMessages(o)
    /\ loc' = [loc EXCEPT ![o].q = disk'.queue,
                          ![o].inf = IF cmd[o] = NoMsg THEN @ ELSE cmd[o]]
    /\ disp' = [disp EXCEPT ![o] = IF cmd[o] = NoMsg THEN "idle" ELSE "claimed"]
    /\ dispatching' = [dispatching EXCEPT ![o] = cmd[o] # NoMsg]
    /\ UNCHANGED <<steerVars, run, phase, steers, consumed, cmd, advance, todo, ghostVars,
                   budget>>

\* start_agent_run registers the queue-owned run ...
StartQueued(o) ==
    /\ Ready(o) /\ disp[o] = "claimed" /\ run[o] = "none"
    /\ run' = [run EXCEPT ![o] = "queued"]
    /\ phase' = [phase EXCEPT ![o] = "current"]
    /\ disp' = [disp EXCEPT ![o] = "started"]
    /\ UNCHANGED <<steerVars, storeVars, loc, steers, consumed, cmd, dispatching, advance, todo,
                   ghostVars, budget>>

\* ... whose first durable act is to admit the user turn.
Admit(o) ==
    /\ Ready(o) /\ disp[o] = "started" /\ run[o] = "queued"
    /\ taken[cmd[o]] < MaxTaken
    /\ taken' = [taken EXCEPT ![cmd[o]] = @ + 1]
    /\ disp' = [disp EXCEPT ![o] = "admitted"]
    /\ UNCHANGED <<missed, steerVars, storeVars, loc, run, phase, steers, consumed, cmd, dispatching,
                   advance, todo, accepted, excused, dropped, steered, budget>>

\* finish_user_message_dispatch: settle the claim if it is still the manager's.
FinishUserMessageDispatch(o, succeeded) ==
    /\ IF loc[o].inf # cmd[o]
       THEN /\ disp' = [disp EXCEPT ![o] = "settled"]
            /\ UNCHANGED <<storeVars, loc>>
       ELSE \/ /\ Settle(o, cmd[o], succeeded)
               /\ loc' = [loc EXCEPT ![o].inf = NoMsg]
               /\ disp' = [disp EXCEPT ![o] = "settling"]
            \/ /\ RefuseSettle(o, cmd[o])
               /\ disp' = [disp EXCEPT ![o] = "settled"]
               /\ UNCHANGED loc
    /\ advance' = [advance EXCEPT ![o] = succeeded]

SettleAdmitted(o) ==
    /\ Ready(o) /\ disp[o] = "admitted"
    /\ FinishUserMessageDispatch(o, TRUE)
    /\ UNCHANGED <<steerVars, run, phase, steers, consumed, cmd, dispatching, todo, ghostVars,
                   budget>>

\* The command was refused, or its run exited before admission.
NotAdmitted(o) ==
    \/ disp[o] = "claimed"
    \/ disp[o] = "started" /\ run[o] = "none"

SettleRejected(o) ==
    /\ Ready(o) /\ NotAdmitted(o)
    /\ IF disp[o] = "claimed" /\ run[o] = "none" THEN Spend("interrupts")
                                                  ELSE UNCHANGED budget
    /\ FinishUserMessageDispatch(o, FALSE)
    /\ UNCHANGED <<steerVars, run, phase, steers, consumed, cmd, dispatching, todo, ghostVars>>

\* The settling write fails: the claim stays in the file.  If it was the
\* settling of a command that raised, the coroutine dies with the fence up.
SettleFails(o) ==
    /\ Ready(o) /\ loc[o].inf = cmd[o] /\ Spend("faults")
    /\ \/ disp[o] = "admitted" /\ disp' = [disp EXCEPT ![o] = "settled"]
       \/ NotAdmitted(o) /\ \E next \in {"settled", "idle"} :
                               disp' = [disp EXCEPT ![o] = next]
    /\ advance' = [advance EXCEPT ![o] = disp[o] = "admitted"]
    /\ excused' = [excused EXCEPT ![cmd[o]] = @ + (IF disp[o] = "admitted" THEN 1 ELSE 0)]
    /\ UNCHANGED <<missed, steerVars, storeVars, loc, run, phase, steers, consumed, cmd, dispatching,
                   todo, accepted, taken, dropped, steered>>

RefreshAfterSettle(o) ==
    /\ life[o] = "live" /\ disp[o] = "settling"
    /\ PendingUserMessages(o)
    /\ loc' = [loc EXCEPT ![o].q = disk'.queue]
    /\ disp' = [disp EXCEPT ![o] = "settled"]
    /\ UNCHANGED <<steerVars, run, phase, steers, consumed, cmd, dispatching, advance, todo,
                   ghostVars, budget>>

FinishWithoutKick(o) ==  \* mutant: nobody looks at the queue again
    /\ Ready(o) /\ disp[o] = "settled" /\ run[o] # "queued"
    /\ disp' = [disp EXCEPT ![o] = "idle"]
    /\ cmd' = [cmd EXCEPT ![o] = NoMsg]
    /\ dispatching' = [dispatching EXCEPT ![o] = FALSE]
    /\ advance' = [advance EXCEPT ![o] = FALSE]
    /\ UNCHANGED <<steerVars, storeVars, loc, run, phase, steers, consumed, todo, ghostVars,
                   budget>>

\* wait_for_queue_owned_run has returned: lower the fence, kick the queue.
FinishDispatch(o) ==
    /\ Ready(o) /\ disp[o] = "settled" /\ run[o] # "queued"
    /\ disp' = [disp EXCEPT ![o] = "idle"]
    /\ cmd' = [cmd EXCEPT ![o] = NoMsg]
    /\ dispatching' = [dispatching EXCEPT ![o] = FALSE]
    /\ todo' = [todo EXCEPT ![o] = IF advance[o] /\ run[o] = "none" THEN Kick ELSE Idle]
    /\ advance' = [advance EXCEPT ![o] = FALSE]
    /\ UNCHANGED <<steerVars, storeVars, loc, run, phase, steers, consumed, ghostVars, budget>>

-----------------------------------------------------------------------------
(* Inside a run: steers are consumed at safe boundaries.                   *)

PopSteer(o) ==
    /\ Ready(o) /\ run[o] # "none" /\ phase[o] = "current"
    /\ steers[o] # <<>> /\ consumed[o] = NoneConsumed
    /\ consumed' = [consumed EXCEPT ![o] = [msg |-> Head(steers[o]), stage |-> "popped"]]
    /\ steers' = [steers EXCEPT ![o] = Tail(@)]
    /\ UNCHANGED <<steerVars, storeVars, loc, run, phase, disp, cmd, dispatching, advance, todo,
                   ghostVars, budget>>

\* accept_turn_steer: recorded in history and scheduled into the context.
DeliverSteer(o) ==
    /\ Ready(o) /\ consumed[o].stage = "popped"
    /\ taken[consumed[o].msg] < MaxTaken
    /\ taken' = [taken EXCEPT ![consumed[o].msg] = @ + 1]
    /\ consumed' = [consumed EXCEPT ![o].stage = "delivered"]
    /\ UNCHANGED <<missed, steerVars, storeVars, loc, run, phase, steers, disp, cmd, dispatching,
                   advance, todo, accepted, excused, dropped, steered, budget>>

\* acknowledge_turn_input, when the message is still a durable turn input.
AckSteer(o) ==
    /\ Ready(o) /\ consumed[o].stage = "delivered"
    /\ IF consumed[o].msg \in ToSet(loc[o].turn)
       THEN Persist(o, loc[o].q, loc[o].inf, Without(loc[o].turn, consumed[o].msg))
       ELSE UNCHANGED <<storeVars, loc>>
    /\ consumed' = [consumed EXCEPT ![o] = NoneConsumed]
    /\ UNCHANGED <<steerVars, run, phase, steers, disp, cmd, dispatching, advance, todo,
                   ghostVars, budget>>

\* A failed acknowledgement is logged; the run continues, the input stays.
AckFails(o) ==
    /\ Ready(o) /\ consumed[o].stage = "delivered"
    /\ consumed[o].msg \in ToSet(loc[o].turn)
    /\ PersistFails(o, loc[o].q, loc[o].inf, Without(loc[o].turn, consumed[o].msg))
    /\ consumed' = [consumed EXCEPT ![o] = NoneConsumed]
    /\ Excuse({consumed[o].msg})
    /\ UNCHANGED <<missed, steerVars, loc, run, phase, steers, disp, cmd, dispatching, advance,
                   todo, accepted, taken, dropped, steered>>

\* The final answer is being committed: no further steer enters this turn.
DeferMailbox(o) ==
    /\ Ready(o) /\ run[o] # "none" /\ phase[o] = "current"
    /\ phase' = [phase EXCEPT ![o] = "next"]
    /\ UNCHANGED <<steerVars, storeVars, loc, run, steers, consumed, disp, cmd, dispatching,
                   advance, todo, ghostVars, budget>>

\* Mutants: only what the turn queue still holds; both copies of a message; the
\* message being consumed as well.
RestoredVolatile(o) == steers[o]
RestoredTwice(o) == loc[o].turn \o steers[o]
RestoredConsumed(o) ==
    loc[o].turn \o Only(<<consumed[o].msg>> \o steers[o], Msg \ ToSet(loc[o].turn))

\* What _seal_turn_input_queue puts back at the head of the queue.
Restored(o) ==
    loc[o].turn \o Only(steers[o], Msg \ ToSet(loc[o].turn))

SteerDrained(o) ==
    steerCmd' = [steerCmd EXCEPT ![o] = IF @ = "waiting" THEN "drained" ELSE @]

\* cleanup(): unregister the run, seal its turn queue, advance the queue.
EndRun(o) ==
    /\ Ready(o) /\ run[o] # "none"
    /\ IF disp[o] = "started" \/ consumed[o].stage = "delivered"
       THEN Spend("interrupts") ELSE UNCHANGED budget
    /\ IF Restored(o) = <<>> THEN UNCHANGED <<storeVars, loc>>
       ELSE Persist(o, Restored(o) \o loc[o].q, loc[o].inf, <<>>)
    /\ run' = [run EXCEPT ![o] = "none"]
    /\ phase' = [phase EXCEPT ![o] = "closed"]
    /\ steers' = [steers EXCEPT ![o] = <<>>]
    /\ consumed' = [consumed EXCEPT ![o] = NoneConsumed]
    /\ Excuse(IF consumed[o].stage = "delivered" THEN {consumed[o].msg} ELSE {})
    /\ todo' = [todo EXCEPT ![o] =
                   IF run[o] = "direct" /\ loc[o].inf = NoMsg THEN Kick ELSE Idle]
    /\ SteerDrained(o)
    /\ UNCHANGED <<missed, steering, disp, cmd, dispatching, advance, accepted, taken, dropped, steered>>

\* The sealing write fails: cleanup raises, the turn queue is kept as it was.
EndRunFails(o) ==
    /\ Ready(o) /\ run[o] # "none" /\ disp[o] # "started"
    /\ Restored(o) # <<>>
    /\ PersistFails(o, Restored(o) \o loc[o].q, loc[o].inf, <<>>)
    /\ run' = [run EXCEPT ![o] = "none"]
    /\ consumed' = [consumed EXCEPT ![o] = NoneConsumed]
    /\ Excuse(IF consumed[o].stage = "delivered" THEN {consumed[o].msg} ELSE {})
    /\ advance' = [advance EXCEPT ![o] = FALSE]
    /\ SteerDrained(o)
    /\ UNCHANGED <<missed, steering, loc, phase, steers, disp, cmd, dispatching, todo, accepted, taken,
                   dropped, steered>>

-----------------------------------------------------------------------------
\* The rest of a synchronous call, and the three coroutines of a conversation.
CallStep(o) == Dispatch(o) \/ KickIgnored(o) \/ RestoreAsFollowUp(o)

DispatchStep(o) ==
    \/ RefreshAfterClaim(o) \/ StartQueued(o) \/ Admit(o) \/ SettleAdmitted(o)
    \/ SettleRejected(o) \/ RefreshAfterSettle(o) \/ FinishDispatch(o)

RunStep(o) ==
    \/ PopSteer(o) \/ DeliverSteer(o) \/ AckSteer(o) \/ DeferMailbox(o) \/ EndRun(o)

RuntimeStep(o) ==
    CallStep(o) \/ DispatchStep(o) \/ RunStep(o) \/ FinishSteering(o)

UserStep(o) ==
    \/ StartDirect(o) \/ Resync(o) \/ Clear(o)
    \/ \E m \in Msg : Submit(o, m) \/ SubmitSteer(o, m) \/ Cancel(o, m)
                      \/ SteerQueued(o, m)

FaultStep(o) ==
    \/ Crash(o) \/ CommandFails(o) \/ ClaimFails(o) \/ SettleFails(o)
    \/ AckFails(o) \/ EndRunFails(o) \/ RestoreFails(o)

Next == \E o \in Owner :
    \/ Start(o) \/ Shutdown(o) \/ FreeLease(o)
    \/ RuntimeStep(o) \/ UserStep(o) \/ FaultStep(o)

Spec == Init /\ [][Next]_vars

-----------------------------------------------------------------------------
(* Properties.                                                             *)

OnDisk(m) == m \in ToSet(disk.queue) \cup ToSet(disk.turn) \cup {disk.inflight}

Occurrences(s, m) == Cardinality({i \in DOMAIN s : s[i] = m})

\* An accepted message the user did not remove is in the file until a turn has
\* taken it in: across claims, failed and rejected dispatches, steers that no
\* turn consumed, failed writes, crashes and recovery (durable_user_queue.py,
\* _seal_turn_input_queue).
NoMessageLost ==
    \A m \in ToSet(accepted) \ dropped : taken[m] > 0 \/ OnDisk(m)

\* The file holds a message in one place only, so recovery and requeueing
\* cannot multiply it.
SinglePlace ==
    \A m \in Msg :
        Occurrences(disk.queue, m) + Occurrences(disk.turn, m)
            + (IF disk.inflight = m THEN 1 ELSE 0) <= 1

\* A message that has left the file, taken in or removed by the user, never
\* comes back to it, whatever snapshot is published later.
GoneStaysGone ==
    [][\A m \in ToSet(accepted) : ~OnDisk(m) => ~OnDisk(m)']_vars

\* The promise of FollowUpService is kept by every dispatch, steer, clear,
\* failed write, crash and recovery (claim_user_message, settle_user_message,
\* _persist_user_queues, _seal_turn_input_queue).
Service == INSTANCE FollowUpService WITH
               entered <- accepted,
               waiting <- {m \in Msg : OnDisk(m)},
               served <- taken,
               lost <- excused,
               redirected <- steered,
               removed <- dropped
ServesFollowUps == Service!ServiceSpec

\* No turn takes a message in again unless the first time could not be
\* recorded: the runtime died, or a write failed, before the claim was settled
\* or the steer acknowledged.
TakenOnce == \A m \in Msg : taken[m] <= 1 + excused[m]

\* Follow-ups leave in the order they were accepted, whatever is requeued or
\* replayed in between: no steered message, no overtaking.
Position(m) == CHOOSE i \in DOMAIN accepted : accepted[i] = m
Plain(m) == m \in ToSet(accepted) \ steered
FollowUpsInOrder ==
    LET line == (IF disk.inflight # NoMsg THEN <<disk.inflight>> ELSE <<>>) \o disk.queue
    IN  \A i, j \in DOMAIN line :
            i < j /\ Plain(line[i]) /\ Plain(line[j])
                => Position(line[i]) < Position(line[j])

\* While its dispatch is unsettled a live runtime's claim is in the file under
\* its own name: no recovery pass and no save of another runtime takes it away
\* (claim_user_message, merge_owned_delta).
ClaimFenced ==
    \A o \in Owner :
        /\ life[o] = "live" /\ disp[o] \in {"claimed", "started", "admitted"}
        /\ loc[o].inf = cmd[o]
        => disk.inflight = cmd[o] /\ disk.infOwner = o

\* The event loop finishes a synchronous call, and its ready queue is first-in
\* first-out: a coroutine that can continue does, however often other calls
\* come in between.  A run ends.  Nothing is assumed of users and faults.
Fairness == \A o \in Owner :
    /\ WF_vars(CallStep(o)) /\ SF_vars(DispatchStep(o))
    /\ SF_vars(RunStep(o)) /\ SF_vars(FinishSteering(o))
LiveSpec == Spec /\ Fairness

Stopped == \A o \in Owner : life[o] # "live"

\* What the code does ensure: the kicks of cleanup(), of the dispatch coroutine
\* and of a steer that interrupts cover every way the queue becomes idle with
\* work in it, except a kick that falls on the fence of a steer command.
TakenUnlessKickSwallowed ==
    \A m \in Msg : m \in ToSet(accepted)
        ~> (taken[m] > 0 \/ m \in dropped \/ Stopped \/ \E o \in Owner : missed[o])

=============================================================================
