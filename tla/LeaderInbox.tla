---------------------------- MODULE LeaderInbox ----------------------------
(***************************************************************************)
(* How the agent that leads a conversation hears from its subagents:       *)
(*   - the durable mailbox (agent/swarm_store.py, agent/runtime.py),       *)
(*   - the durable outbox of notifications (parent_notification_outbox.py),*)
(*   - the wake tasks that start a turn for an idle leader                 *)
(*     (ws/run_manager.py), and                                            *)
(*   - the turn that reads both at an iteration boundary and acknowledges  *)
(*     them once the model request that holds them has ended, answered or  *)
(*     not (mailbox_delivery.py, turn_iteration_execution.py).             *)
(*                                                                         *)
(* One conversation, one process and the sessions (windows) it serves.     *)
(* A message to the leader is stored in the mailbox and leaves a marker in *)
(* the outbox; the result of a background subagent is in the outbox only.  *)
(***************************************************************************)
EXTENDS Naturals

CONSTANTS
    Message,       \* messages of subagents to their leader
    Result,        \* results of background subagents
    Session,
    NoSession,
    MaxFaults      \* bound: stopped turns, steer commands, closed sessions,
                   \* lost connections, crashes, late heartbeats

ASSUME NoSessionAssumption == NoSession \notin Session
ASSUME MaxFaultsAssumption == MaxFaults \in Nat
ASSUME ItemAssumption == Message \cap Result = {}

VARIABLES
    mail,       \* message -> its delivery in the mailbox
    outbox,     \* item -> its status in the outbox file
    from,       \* item -> the session whose run spawned the subagent
    open,       \* sessions that take wake signals
    asked,      \* sessions whose wake requests are ahead of their attempts
    waking,     \* sessions with a wake task that has not looked yet
    fence,      \* sessions with a steer command in progress
    run,        \* session -> its registered run
    guard,      \* the session whose run holds the query guard
    wakeClaim,  \* _WAKE_CLAIMS
    seen,       \* history: item -> answered requests that held it
    unread,     \* history: items acknowledged by a request without an answer
    faults,     \* bound: see MaxFaults
    missed      \* history: items whose wake signal was spent without a turn

stores == <<mail, outbox>>
wakes == <<open, asked, waking, fence>>
vars == <<stores, from, wakes, run, guard, wakeClaim, faults, seen, unread, missed>>

Item == Message \cup Result
Stage == {"off", "start", "mailbox", "inbox", "request", "done"}
Run == [at : Stage, wake : BOOLEAN, held : SUBSET Message, lost : SUBSET Message,
        taken : SUBSET Result]

\* held: claims whose token is the one of the mailbox's row; lost: claims
\* still in the prompt's list whose row has got another token since.
NoRun == [at |-> "off", wake |-> FALSE, held |-> {}, lost |-> {}, taken |-> {}]
NewRun(wake) == [NoRun EXCEPT !.at = "start", !.wake = wake]

Init ==
    /\ mail = [m \in Message |-> "unsent"]
    /\ outbox = [i \in Item |-> "none"]
    /\ from \in [Item -> Session]
    /\ open = Session /\ asked = {} /\ waking = {} /\ fence = {}
    /\ run = [s \in Session |-> NoRun]
    /\ guard = NoSession /\ wakeClaim = NoSession
    /\ seen = [i \in Item |-> 0] /\ unread = {} /\ missed = {} /\ faults = 0

-----------------------------------------------------------------------------
(* Wake signals.                                                           *)

\* _notification_owned_by_other_live_session
OwnedByOther(s, i) == from[i] # s /\ from[i] \in open

\* replayable, without what another live session will wake for.
Replayable(i) == outbox[i] \in {"pending", "delivered"}
Waiting(s) == {i \in Item : Replayable(i) /\ ~OwnedByOther(s, i)}

\* The subscribers of _notify_parent_notification_enqueued raise their request
\* generation and start a wake task unless they have one.
Signalled(i) == {s \in open : ~OwnedByOther(s, i)}
Signal(i) ==
    /\ asked' = asked \cup Signalled(i) /\ waking' = waking \cup Signalled(i)
    /\ missed' = IF open = {} THEN missed \cup {i} ELSE missed

\* recheck_parent_notification_wake: retry what was requested and not attempted.
NoRecheck(s) == UNCHANGED waking  \* mutant
Recheck(s) == waking' = IF s \in asked THEN waking \cup {s} ELSE waking

-----------------------------------------------------------------------------
(* Subagents.                                                              *)

Fault == faults < MaxFaults /\ faults' = faults + 1

Enqueue(i) == outbox[i] = "none" /\ outbox' = [outbox EXCEPT ![i] = "pending"]
Append(m) == mail[m] = "unsent" /\ mail' = [mail EXCEPT ![m] = "queued"]

\* send_swarm_message to "parent": the message, its marker, the signal.
Post(m) ==
    /\ Append(m) /\ Enqueue(m) /\ Signal(m)
    /\ UNCHANGED <<from, open, fence, run, guard, wakeClaim, faults, seen, unread>>

\* set_subagent_result of a background or detached subagent.
Finish(r) ==
    /\ Enqueue(r) /\ Signal(r)
    /\ UNCHANGED <<mail, from, open, fence, run, guard, wakeClaim, faults, seen, unread>>

-----------------------------------------------------------------------------
(* The wake task: _dispatch_parent_notification_wake, once it holds the    *)
(* lifecycle lock.  It does not wait any more until the run is registered. *)

Busy(s) == run[s].at # "off" \/ s \in fence
Free(s) == wakeClaim \in {NoSession, s}

Wake(s) ==
    /\ s \in waking /\ waking' = waking \ {s}
    /\ UNCHANGED <<stores, from, open, fence, guard, faults, seen, unread>>

\* It returns without an attempt: another recheck will have to come.
WakeBusy(s) ==
    /\ Wake(s)
    /\ (s \notin open \cap asked) \/ Busy(s)
    /\ UNCHANGED <<asked, run, wakeClaim, missed>>

\* Nothing to do, or another session is at it: the request counts as attempted.
WakeIdle(s) ==
    /\ Wake(s)
    /\ s \in open \cap asked /\ ~Busy(s)
    /\ Waiting(s) = {} \/ ~Free(s)
    /\ asked' = asked \ {s}
    /\ missed' = missed \cup Waiting(s)
    /\ UNCHANGED <<run, wakeClaim>>

WakeStart(s) ==
    /\ Wake(s)
    /\ s \in open \cap asked /\ ~Busy(s)
    /\ Waiting(s) # {} /\ Free(s)
    /\ asked' = asked \ {s}
    /\ wakeClaim' = s
    /\ run' = [run EXCEPT ![s] = NewRun(TRUE)]
    /\ UNCHANGED missed

-----------------------------------------------------------------------------
(* A run.                                                                  *)

GoTo(s, stage) == run' = [run EXCEPT ![s].at = stage]
RunStep == UNCHANGED <<from, wakes, wakeClaim, faults>>

\* A user's prompt reaches an idle session.
Prompt(s) ==
    /\ s \in open /\ run[s].at = "off"
    /\ run' = [run EXCEPT ![s] = NewRun(FALSE)]
    /\ UNCHANGED <<stores, from, wakes, guard, wakeClaim, faults, seen, unread, missed>>

\* _run_agent: try_start of the query guard, or conversation_busy.
GuardIgnored(s) == TRUE  \* mutant
GuardFree(s) == guard = NoSession

Admit(s) ==
    /\ run[s].at = "start"
    /\ RunStep /\ UNCHANGED <<stores, seen, unread>>
    /\ \/ GuardFree(s) /\ guard' = s /\ GoTo(s, "mailbox") /\ UNCHANGED missed
       \/ /\ ~GuardFree(s) /\ GoTo(s, "done") /\ UNCHANGED guard
          /\ missed' = IF run[s].wake THEN missed \cup Waiting(s) ELSE missed

\* inject_subagent_mailbox_updates claims what is queued or was left by a lapsed
\* claim, puts it into the prompt and awaits the sending of an event.
ClaimMail(s) ==
    LET T == {m \in Message : mail[m] \in {"queued", "lapsed"}}
    IN  /\ run[s].at = "mailbox"
        /\ mail' = [m \in Message |-> IF m \in T THEN "leased" ELSE mail[m]]
        /\ run' = [t \in Session |->
               [run[t] EXCEPT !.at = IF t = s THEN "inbox" ELSE @,
                              !.lost = @ \cup (run[t].held \cap T),
                              !.held = IF t = s THEN @ \cup T ELSE @ \ T]]
        /\ RunStep /\ UNCHANGED <<outbox, guard, seen, unread, missed>>

\* inject_parent_notifications: markers are acknowledged, results go into the prompt.
ReadInbox(s) ==
    LET T == {r \in Result : Replayable(r)} \ run[s].taken
    IN  /\ run[s].at = "inbox"
        /\ outbox' = [i \in Item |-> IF i \in T THEN "delivered"
                                     ELSE IF i \in Message /\ Replayable(i) THEN "acked"
                                     ELSE outbox[i]]
        /\ run' = [run EXCEPT ![s].at = "request", ![s].taken = @ \cup T]
        /\ RunStep /\ UNCHANGED <<mail, guard, seen, unread, missed>>

\* _renew_swarm_message_claims, while the request is in flight.
Renew(s) ==
    /\ run[s].at = "request"
    /\ mail' = [m \in Message |-> IF m \in run[s].held THEN "leased" ELSE mail[m]]
    /\ RunStep /\ UNCHANGED <<outbox, run, guard, seen, unread, missed>>

\* A claim lapses in time; for one whose request is live that takes a late heartbeat.
LeaseLapses(m) ==
    /\ mail[m] = "leased"
    /\ mail' = [mail EXCEPT ![m] = "lapsed"]
    /\ IF \E s \in Session : m \in run[s].held THEN Fault ELSE UNCHANGED faults
    /\ UNCHANGED <<outbox, from, wakes, run, guard, wakeClaim, seen, unread, missed>>

\* The provider asks for the request to be made again: nothing is acknowledged.
RetryAcks(s) ==  \* mutant
    /\ mail' = [m \in Message |-> IF m \in run[s].held THEN "acked" ELSE mail[m]]
    /\ UNCHANGED outbox
RetryKeeps(s) == UNCHANGED stores

Retry(s) ==
    /\ run[s].at = "request"
    /\ GoTo(s, "mailbox")
    /\ RetryKeeps(s)
    /\ RunStep /\ UNCHANGED <<guard, seen, unread, missed>>

\* A request has ended and is not made again: _ack_consumed_swarm_messages (the
\* claims still held; if one was lost the list stays) and
\* _ack_consumed_parent_notifications.
Consumed(r, stage) ==
    [r EXCEPT !.at = stage, !.held = {}, !.taken = {},
              !.lost = IF r.lost = {} THEN {} ELSE r.lost \cup r.held]

Acknowledge(s, stage) ==
    /\ run[s].at = "request"
    /\ mail' = [m \in Message |-> IF m \in run[s].held THEN "acked" ELSE mail[m]]
    /\ outbox' = [i \in Item |-> IF i \in run[s].taken THEN "acked" ELSE outbox[i]]
    /\ run' = [run EXCEPT ![s] = Consumed(run[s], stage)]
    /\ guard' = IF stage = "done" THEN NoSession ELSE guard
    /\ RunStep /\ UNCHANGED missed

\* What the prompt holds and nobody has acknowledged.
InPrompt(s) == {i \in run[s].held \cup run[s].lost \cup run[s].taken :
                    i \in Message => mail[i] # "acked"}

\* "proceed": the model has answered.  The tools are run and the next iteration
\* begins, or the run ends.
Answer(s, stage) ==
    /\ Acknowledge(s, stage)
    /\ seen' = [i \in Item |-> IF i \in InPrompt(s) THEN seen[i] + 1 ELSE seen[i]]
    /\ UNCHANGED unread

\* "terminate": a provider error, a timeout, a budget boundary or a stream without
\* its terminal frame ends the run.  There is no answer, and yet it acknowledges.
RequestFails(s) ==
    /\ Acknowledge(s, "done")
    /\ unread' = unread \cup InPrompt(s)
    /\ UNCHANGED seen

\* The run is cancelled, or it ends before its request: nothing is acknowledged.
Interrupt(s) ==
    /\ Fault
    /\ run[s].at \in {"start", "mailbox", "inbox", "request"}
    /\ GoTo(s, "done")
    /\ guard' = IF guard = s THEN NoSession ELSE guard
    /\ missed' = missed \cup {i \in Item : Replayable(i)}
    /\ UNCHANGED <<stores, from, wakes, wakeClaim, seen, unread>>

\* cleanup, then the recheck of _cleanup_agent_run.
ReleasedNever(s) == wakeClaim  \* mutant
Released(s) == IF run[s].wake /\ wakeClaim = s THEN NoSession ELSE wakeClaim

Cleanup(s) ==
    /\ run[s].at = "done"
    /\ run' = [run EXCEPT ![s] = NoRun]
    /\ wakeClaim' = Released(s)
    /\ Recheck(s)
    /\ UNCHANGED <<stores, from, open, asked, fence, guard, faults, seen, unread, missed>>

-----------------------------------------------------------------------------
(* Users, sessions and the process.                                        *)

\* A steer command holds its fence for some time; lowering it rechecks nothing.
Steer(s) ==
    /\ Fault
    /\ s \in open \ fence /\ run[s].at # "off"
    /\ fence' = fence \cup {s}
    /\ UNCHANGED <<stores, from, open, asked, waking, run, guard, wakeClaim, seen, unread, missed>>

EndSteer(s) ==
    /\ s \in fence
    /\ fence' = fence \ {s}
    /\ missed' = IF run[s].at = "off" /\ s \in asked \ waking THEN missed \cup Waiting(s)
                 ELSE missed
    /\ UNCHANGED <<stores, from, open, asked, waking, run, guard, wakeClaim, faults, seen, unread>>

\* SessionLifecycle.shutdown: intake stops, runs are cancelled, the claim is released.
Close(s) ==
    /\ Fault
    /\ s \in open
    /\ open' = open \ {s} /\ asked' = asked \ {s} /\ waking' = waking \ {s}
    /\ fence' = fence \ {s}
    /\ run' = [run EXCEPT ![s].at = IF @ = "off" THEN "off" ELSE "done"]
    /\ guard' = IF guard = s THEN NoSession ELSE guard
    /\ wakeClaim' = IF wakeClaim = s THEN NoSession ELSE wakeClaim
    /\ missed' = missed \cup {i \in Item : Replayable(i)}
    /\ UNCHANGED <<stores, from, seen, unread>>

\* The session is made again, or its client reconnects: what it watches is rechecked.
Open(s) ==
    /\ IF s \in open THEN Fault ELSE run[s].at = "off" /\ UNCHANGED faults
    /\ open' = open \cup {s} /\ asked' = asked \cup {s} /\ waking' = waking \cup {s}
    /\ missed' = missed \ Waiting(s)
    /\ UNCHANGED <<stores, from, fence, run, guard, wakeClaim, seen, unread>>

Dies ==
    /\ Fault
    /\ open' = {} /\ asked' = {} /\ waking' = {} /\ fence' = {}
    /\ run' = [s \in Session |-> NoRun]
    /\ guard' = NoSession /\ wakeClaim' = NoSession
    /\ missed' = missed \cup {i \in Item : Replayable(i)}
    /\ UNCHANGED <<outbox, from, seen, unread>>

Crash == Dies /\ UNCHANGED mail

\* The process dies between the two writes of a message.
CrashInPost(m) == Append(m) /\ Dies

WakeTask(s) == WakeBusy(s) \/ WakeIdle(s) \/ WakeStart(s)
Turn(s) == Admit(s) \/ ClaimMail(s) \/ ReadInbox(s)

Next ==
    \/ \E m \in Message : Post(m) \/ CrashInPost(m) \/ LeaseLapses(m)
    \/ \E r \in Result : Finish(r)
    \/ \E s \in Session :
           \/ WakeTask(s) \/ Turn(s) \/ Renew(s) \/ Retry(s) \/ Interrupt(s) \/ Cleanup(s)
           \/ Answer(s, "mailbox") \/ Answer(s, "done") \/ RequestFails(s)
           \/ Prompt(s) \/ Steer(s) \/ EndSteer(s) \/ Close(s) \/ Open(s)
    \/ Crash

\* The event loop runs a ready task; retries and iterations of a turn are limited
\* (stream retry policy, max_iterations), so that its last request is answered or
\* fails, and a steer command ends.
Fairness == \A s \in Session :
    /\ WF_vars(WakeTask(s)) /\ WF_vars(Turn(s)) /\ WF_vars(Cleanup(s)) /\ WF_vars(EndSteer(s))
    /\ SF_vars(Answer(s, "done") \/ RequestFails(s))

Spec == Init /\ [][Next]_vars /\ Fairness

-----------------------------------------------------------------------------
(* Properties.                                                             *)

\* The values each variable takes; a run that is off holds nothing.
TypeOK ==
    /\ mail \in [Message -> {"unsent", "queued", "leased", "lapsed", "acked"}]
    /\ outbox \in [Item -> {"none", "pending", "delivered", "acked"}]
    /\ from \in [Item -> Session]
    /\ {open, asked, waking, fence} \subseteq SUBSET Session
    /\ run \in [Session -> Run]
    /\ {guard, wakeClaim} \subseteq Session \cup {NoSession}
    /\ seen \in [Item -> Nat]
    /\ unread \subseteq Item /\ missed \subseteq Item
    /\ faults \in 0..MaxFaults
    /\ \A s \in Session : run[s].at = "off" => run[s] = NoRun

\* Nothing is acknowledged but by the end of a request that held it: answered, or
\* failed with nobody to make it again.  A retry, a cancelled run, a closed
\* session, a lapsed lease or a crash leaves a message or a result to a later turn
\* (turn_iteration_execution.py:277-279).
HandledIsSeen ==
    /\ \A m \in Message : mail[m] = "acked" => seen[m] > 0 \/ m \in unread
    /\ \A r \in Result : outbox[r] = "acked" => seen[r] > 0 \/ r \in unread

\* No two answered requests hold the same message or result: two sessions of one
\* conversation, a lapsed lease and a recheck never make the leader act on the
\* same news twice (conversation_query_guard.py, swarm_store.py:1271-1279).
ConsumedOnce == \A i \in Item : seen[i] <= 1

\* The wake claim of a conversation, which keeps every other session from waking
\* its leader, belongs to a registered wake run: no path of a run's end leaks it
\* (parent_notification_outbox.py:192-223, run_manager.py:1013-1018).
WakeClaimHeld == wakeClaim # NoSession => run[wakeClaim].wake

\* What waits in the outbox is acknowledged by a turn (which is not to say that its
\* request was answered, see RequestFails), unless its wake signal was spent:
\* refused to a session by another's claim or guard, dropped by a stopped turn, a
\* steer command's fence or a closed session (run_manager.py:885-969).
Heard == \A i \in Item : Replayable(i) ~> (outbox[i] = "acked" \/ i \in missed)
=============================================================================
