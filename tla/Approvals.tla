------------------------------ MODULE Approvals ------------------------------
(***************************************************************************)
(* Questions put to the user, the coroutines that wait for the answers and *)
(* the prompts on the page:                                                *)
(*   - TurnWaitState keeps the waiters, the payloads of the pending        *)
(*     requests and the responses that came before their waiter            *)
(*     (ws/turn_wait_state.py, ws/approval_runtime.py),                    *)
(*   - the tool batch asks within the deadline of its turn                 *)
(*     (agent/tool_batch_execution.py), an MCP server through              *)
(*     _handle_mcp_elicitation (bootstrap/app.py),                         *)
(*   - answers, steers, permission modes and interrupts settle requests    *)
(*     (ws/command_dispatcher.py, ws/run_manager.py),                      *)
(*   - a reconnect sends the pending ones again (ws/handlers/session.py),  *)
(*   - the page shows a prompt until it is answered or cancelled           *)
(*     (frontend/src.v2/chat/controlEvents.ts, InlineAgentPrompt.tsx).     *)
(*                                                                         *)
(* One conversation, one run of it, one page.  A request id is used once.  *)
(***************************************************************************)
EXTENDS Naturals, Sequences, FiniteSets

CONSTANTS
    Tool,         \* requests of the run's tool batch
    Side,         \* requests of command handlers (terminal.exec): they go on
                  \* when the run is stopped, and have no deadline
    Elicit,       \* requests of MCP servers, on behalf of the run
    MaxRequests,  \* bound: requests made
    MaxFaults,    \* bound: lost connections and reloads
    MaxPolicies   \* bound: permission modes set and steers

ASSUME KindsAssumption ==
    Tool \cap Side = {} /\ Tool \cap Elicit = {} /\ Side \cap Elicit = {}
ASSUME BoundsAssumption == MaxRequests \in Nat /\ MaxFaults \in Nat /\ MaxPolicies \in Nat

VARIABLES
    ask,        \* where the coroutine that asks is
    payload,    \* pending_approval_payloads
    waiters,    \* pending_approvals and pending_elicitations
    future,     \* the future the coroutine holds
    response,   \* pending_approval_responses
    notified,   \* _settled_approval_notifications
    owed,       \* notify_cancelled has still to run for these
    stopped,    \* cancel_event
    due,        \* a restore that has not reached reemit_pending_state
    resend,     \* payloads reemit_pending_state has still to send
    out,        \* events the page has not seen
    link,       \* the page is connected, cut off, or new and not yet connected
    prompts,    \* pendingApproval, approvalQueue, pendingAskUser, askUserQueue
    answers,    \* control_response commands on their way
    undone,     \* history: a coroutine got an approval that does not count
    decided,    \* history: the decision that counts, until it is taken
    abandoned,  \* history: the turn was out of time before the wait
    stray,      \* history: sent again though settled, or notice lost
    faults, policies    \* bounds: see MaxFaults and MaxPolicies

table == <<payload, waiters, response>>
askers == <<ask, future>>
notices == <<notified, owed>>
server == <<stopped, due, resend>>
page == <<link, prompts, answers>>
ghosts == <<undone, decided, abandoned, stray>>
bounds == <<faults, policies>>
vars == <<table, askers, notices, server, out, page, ghosts, bounds>>

Request == Tool \cup Side \cup Elicit
Run == Tool \cup Elicit
Decision == {"approve", "reject"}
None(S) == [r \in S |-> "none"]
Asked(r) == [type |-> "control_request", ids |-> {r}]
Cancelled(S) == [type |-> "approval.cancelled", ids |-> S]

Init ==
    /\ ask = [r \in Request |-> "new"] /\ payload = {} /\ waiters = {}
    /\ future = None(Request) /\ response = None(Request)
    /\ notified = {} /\ owed = {}
    /\ stopped = FALSE /\ due = FALSE /\ resend = {}
    /\ out = <<>> /\ link = "on" /\ prompts = {} /\ answers = <<>>
    /\ undone = FALSE /\ decided = None(Request) /\ abandoned = {} /\ stray = {}
    /\ faults = 0 /\ policies = 0

\* emit_approval_cancelled_once: one notice for each request, whoever sends it.
Notice(S) ==
    /\ notified' = notified \cup S
    /\ out' = IF S \subseteq notified THEN out
              ELSE Append(out, Cancelled(S \ notified))

Sent(r) == \E i \in DOMAIN out : out[i] = Asked(r)
Answered(r) == \E i \in DOMAIN answers : answers[i].id = r

-----------------------------------------------------------------------------
(* Asking.                                                                 *)

\* The payload is stored, then sent.  An MCP request has its waiter before it
\* is sent; it is given up when there is nobody to send it to.
Emit(r) ==
    /\ ask[r] = "new" /\ (r \in Run => ~stopped)
    /\ Cardinality({q \in Request : ask[q] # "new"}) < MaxRequests
    /\ payload' = payload \cup {r}
    /\ IF r \notin Elicit
       THEN /\ ask' = [ask EXCEPT ![r] = "asked"]
            /\ out' = Append(out, Asked(r))
            /\ UNCHANGED <<waiters, future, notified>>
       ELSE /\ waiters' = waiters \cup {r}
            /\ future' = [future EXCEPT ![r] = "pending"]
            /\ IF link = "on"
               THEN /\ ask' = [ask EXCEPT ![r] = "waiting"]
                    /\ out' = Append(out, Asked(r))
                    /\ UNCHANGED notified
               ELSE /\ ask' = [ask EXCEPT ![r] = "leaving"]
                    /\ notified' = notified \cup {r}
                    /\ out' = out \o <<Asked(r), Cancelled({r})>>
    /\ UNCHANGED <<response, owed, server, page, ghosts, bounds>>

\* The coroutine has its result; its future is of no use any more.
Return(r, value, next) ==
    /\ ask' = [ask EXCEPT ![r] = next]
    /\ undone' = (undone \/ (value = "approve" /\ decided[r] # "approve"))
    /\ decided' = [decided EXCEPT ![r] = "none"]

\* The "finally" of approval_handler; the one of an MCP request leaves the
\* responses alone.
ForgetWaiterOnly(r) ==   \* mutant
    /\ waiters' = waiters \ {r}
    /\ response' = [response EXCEPT ![r] = IF r \in Elicit THEN @ ELSE "none"]
    /\ UNCHANGED payload
Forget(r) ==
    /\ waiters' = waiters \ {r}
    /\ payload' = payload \ {r}
    /\ response' = [response EXCEPT ![r] = IF r \in Elicit THEN @ ELSE "none"]

\* A run that was stopped does not begin to wait.
StoppedBeforeWait(r) ==
    /\ ask[r] = "asked" /\ r \in Run /\ stopped
    /\ Return(r, "cancelled", "done")
    /\ UNCHANGED <<table, future, notices, server, out, page, abandoned, stray, bounds>>

\* Out of time before the wait: approval_handler is not called, and nobody
\* takes the payload away.
OutOfTime(r) ==
    /\ ask[r] = "asked" /\ r \in Run /\ ~stopped
    /\ Return(r, "reject", "done")
    /\ abandoned' = abandoned \cup {r}
    /\ UNCHANGED <<table, future, notices, server, out, page, stray, bounds>>

CanWait(r) == ask[r] = "asked" /\ (r \in Run => ~stopped)

\* A response that came before the waiter is taken at once.
TakeResponse(r) ==
    /\ CanWait(r) /\ response[r] # "none"
    /\ Return(r, response[r], "done")
    /\ Forget(r)
    /\ UNCHANGED <<future, notices, server, out, page, abandoned, stray, bounds>>

BeginWait(r) ==
    /\ CanWait(r) /\ response[r] = "none"
    /\ ask' = [ask EXCEPT ![r] = "waiting"]
    /\ future' = [future EXCEPT ![r] = "pending"]
    /\ waiters' = waiters \cup {r}
    /\ UNCHANGED <<payload, response, notices, server, out, page,
                   ghosts, bounds>>

Latest(r) == IF response[r] = "none" THEN future[r] ELSE response[r]   \* mutant
Result(r) == future[r]

\* An MCP request tells the page even when it was answered.
Resume(r) ==
    /\ ask[r] = "waiting" /\ future[r] \in Decision
    /\ IF r \in Elicit
       THEN /\ Return(r, Result(r), "leaving")
            /\ Notice({r})
            /\ UNCHANGED <<table, future>>
       ELSE /\ Return(r, Result(r), "done")
            /\ future' = [future EXCEPT ![r] = "none"]
            /\ Forget(r)
            /\ UNCHANGED <<notified, out>>
    /\ UNCHANGED <<owed, server, page, abandoned, stray, bounds>>

\* Cancelled: the future was, or the run is stopped, which outruns an answer
\* the coroutine has not seen yet.
Halt(r, value) ==
    /\ ask[r] = "waiting"
    /\ Return(r, value, "leaving")
    /\ future' = [future EXCEPT ![r] = IF @ = "pending" THEN "cancelled" ELSE @]
    /\ Notice({r})
    /\ UNCHANGED <<table, owed, server, page, abandoned, stray, bounds>>

Interrupted(r) ==
    /\ future[r] = "cancelled" \/ (r \in Run /\ stopped)
    /\ Halt(r, "cancelled")

\* The deadline of the turn, or the five minutes of an MCP request.
Expire(r) == r \in Run /\ Halt(r, "reject")

Leave(r) ==
    /\ ask[r] = "leaving"
    /\ ask' = [ask EXCEPT ![r] = "done"]
    /\ future' = [future EXCEPT ![r] = "none"]
    /\ Forget(r)
    /\ UNCHANGED <<notices, server, out, page, ghosts, bounds>>

-----------------------------------------------------------------------------
(* Settling.                                                               *)

Pending(r) == r \in waiters /\ future[r] = "pending"

\* The decision on a pending request counts while its coroutine waits or has
\* not begun to; in the second case a later one replaces it.
Counts(r) == r \in payload /\ (ask[r] = "asked" \/ future[r] = "pending")
Decide(S, value) ==
    decided' = [r \in Request |-> IF r \in S /\ Counts(r) THEN value ELSE decided[r]]

\* _resolve_pending_approval of each: wake the waiter, or keep the response.
DropUnlessWaiting(S, value) ==   \* mutant
    /\ future' = [r \in Request |-> IF r \in S /\ Pending(r) THEN value ELSE future[r]]
    /\ waiters' = waiters \ S
    /\ Decide(S, value)
    /\ UNCHANGED response
Resolve(S, value) ==
    /\ future' = [r \in Request |-> IF r \in S /\ Pending(r) THEN value ELSE future[r]]
    /\ response' = [r \in Request |-> IF r \in S /\ ~Pending(r) THEN value ELSE response[r]]
    /\ waiters' = waiters \ S
    /\ Decide(S, value)

\* An answer to a request that is not pending is ignored.
Deliver ==
    /\ link = "on" /\ answers # <<>>
    /\ answers' = Tail(answers)
    /\ Resolve({Head(answers).id} \cap payload, Head(answers).value)
    /\ UNCHANGED <<payload, ask, notices, server, out, link, prompts,
                   undone, abandoned, stray, bounds>>

Policy == policies < MaxPolicies /\ policies' = policies + 1

\* A permission mode approves the tool calls it would not have asked about.
AutoApprove(S) ==
    /\ Policy /\ S # {} /\ S \subseteq payload \ Elicit
    /\ Resolve(S, "approve")
    /\ Notice(S)
    /\ UNCHANGED <<payload, ask, owed, server, page,
                   undone, abandoned, stray, faults>>

\* A steer rejects whatever the conversation has pending.
SteerReject ==
    /\ Policy /\ ~stopped /\ payload # {}
    /\ Resolve(payload, "reject")
    /\ Notice(payload)
    /\ UNCHANGED <<payload, ask, owed, server, page,
                   undone, abandoned, stray, faults>>

\* An interrupt: every pending request is settled before anything is sent.
Cancelling(S) ==
    /\ stopped' = TRUE
    /\ future' = [r \in Request |->
                    IF r \in S /\ Pending(r) THEN "cancelled" ELSE future[r]]
    /\ response' = [r \in Request |-> IF r \in S THEN "none" ELSE response[r]]
    /\ payload' = payload \ S /\ waiters' = waiters \ S
    /\ Decide(S, "cancelled")
CancelRunUnowned ==   \* mutant
    /\ ~stopped
    /\ Cancelling(payload)
    /\ UNCHANGED <<ask, notices, due, resend, out, page, undone, abandoned,
                   stray, bounds>>
CancelRun ==
    /\ ~stopped
    /\ Cancelling(payload)
    /\ owed' = owed \cup payload
    /\ UNCHANGED <<ask, notified, due, resend, out, page, undone, abandoned,
                   stray, bounds>>

NotifyCancelled ==
    /\ owed # {} /\ owed' = {}
    /\ Notice(owed)
    /\ UNCHANGED <<table, askers, server, page, ghosts, bounds>>

-----------------------------------------------------------------------------
(* The connection and the page.                                            *)

Fault == faults < MaxFaults /\ faults' = faults + 1

Disconnect ==
    /\ link = "on" /\ Fault /\ link' = "off"
    /\ UNCHANGED <<table, askers, notices, server, out, prompts, answers,
                   ghosts, policies>>

\* The page is made anew: prompts, answers not handled and its place are gone.
Reload ==
    /\ Fault /\ link' = "new"
    /\ prompts' = {} /\ answers' = <<>> /\ out' = <<>>
    /\ UNCHANGED <<table, askers, notices, server, ghosts, policies>>

\* session.restore, one at a time: the missed events are replayed, or skipped
\* when they are not all there or the page is new.  Nothing takes away the
\* prompts whose notices are skipped.
Restored ==
    /\ link # "on" /\ ~due /\ resend = {}
    /\ link' = "on" /\ due' = TRUE
    /\ UNCHANGED <<table, askers, notices, stopped, resend, prompts, answers,
                   undone, decided, abandoned, bounds>>

Reconnect ==
    /\ link = "off" /\ Restored
    /\ UNCHANGED <<out, stray>>

ReconnectWithoutReplay ==
    /\ Restored
    /\ out' = <<>>
    /\ stray' = stray \cup {r \in prompts :
          \E i \in DOMAIN out : out[i].type = "approval.cancelled" /\ r \in out[i].ids}

Reemit ==
    /\ due /\ due' = FALSE
    /\ resend' = payload
    /\ UNCHANGED <<table, askers, notices, stopped, out, page, ghosts, bounds>>

Settled(r) == r \notin payload \/ r \in notified \/ response[r] # "none"
              \/ future[r] \in Decision \cup {"cancelled"} \/ Answered(r)

\* The list was taken before the loop: it may have been settled since.
Resend(r) ==
    /\ r \in resend /\ resend' = resend \ {r}
    /\ out' = Append(out, Asked(r))
    /\ stray' = IF Settled(r) THEN stray \cup {r} ELSE stray
    /\ UNCHANGED <<table, askers, notices, stopped, due, page,
                   undone, decided, abandoned, bounds>>

Receive ==
    /\ link = "on" /\ out # <<>>
    /\ out' = Tail(out)
    /\ prompts' = IF Head(out).type = "control_request"
                  THEN prompts \cup Head(out).ids ELSE prompts \ Head(out).ids
    /\ UNCHANGED <<table, askers, notices, server, link, answers, ghosts, bounds>>

\* The prompt goes when the command is queued, connected or not.
Answer(r, value) ==
    /\ r \in prompts /\ prompts' = prompts \ {r}
    /\ answers' = Append(answers, [id |-> r, value |-> value])
    /\ stray' = IF r \in resend \/ Sent(r) THEN stray \cup {r} ELSE stray
    /\ UNCHANGED <<table, askers, notices, server, out, link,
                   undone, decided, abandoned, bounds>>

-----------------------------------------------------------------------------
Next ==
    \/ \E r \in Request :
        \/ Emit(r) \/ StoppedBeforeWait(r) \/ OutOfTime(r) \/ TakeResponse(r)
        \/ BeginWait(r) \/ Resume(r) \/ Interrupted(r) \/ Expire(r) \/ Leave(r)
        \/ Resend(r)
    \/ \E r \in Request, v \in Decision : Answer(r, v)
    \/ \E S \in SUBSET (Request \ Elicit) : AutoApprove(S)
    \/ Deliver \/ SteerReject \/ CancelRun \/ NotifyCancelled
    \/ Disconnect \/ Reload \/ Reconnect \/ ReconnectWithoutReplay
    \/ Reemit \/ Receive

Spec == Init /\ [][Next]_vars

-----------------------------------------------------------------------------
\* Types of the variables.
TypeOK ==
    /\ ask \in [Request -> {"new", "asked", "waiting", "leaving", "done"}]
    /\ payload \subseteq Request /\ waiters \subseteq Request
    /\ future \in [Request -> Decision \cup {"none", "pending", "cancelled"}]
    /\ response \in [Request -> Decision \cup {"none"}]
    /\ notified \subseteq Request /\ owed \subseteq Request
    /\ stopped \in BOOLEAN /\ due \in BOOLEAN /\ resend \subseteq Request
    /\ out \in Seq([type : {"control_request", "approval.cancelled"}, ids : SUBSET Request])
    /\ link \in {"on", "off", "new"} /\ prompts \subseteq Request
    /\ answers \in Seq([id : Request, value : Decision])
    /\ undone \in BOOLEAN /\ decided \in [Request -> Decision \cup {"none", "cancelled"}]
    /\ abandoned \subseteq Tool \cup Elicit /\ stray \subseteq Request
    /\ faults \in 0..MaxFaults /\ policies \in 0..MaxPolicies

\* A request that is over leaves nothing in the tables of the wait state, which
\* would block the page and come back at each reconnect; two ways are known:
\* a turn out of time before its wait, and an answer to an MCP request that is
\* being left.
NothingLeaks ==
    \A r \in Request : ask[r] = "done" =>
        /\ r \notin waiters
        /\ r \in payload => r \in abandoned
        /\ response[r] # "none" => r \in abandoned \cup Elicit

\* A coroutine returns an approval only if that is the decision that counts:
\* a steer, an interrupt or an earlier answer is not undone by a late one.
DecisionStands == ~undone

Quiet == link = "on" /\ ~due /\ resend = {} /\ out = <<>> /\ answers = <<>> /\ owed = {}

\* "Never silently drop a pending approval": when nothing is on its way, the
\* page shows every request that a coroutine waits for; but for a command's
\* request that an interrupt met between its event and its wait.
WaitingIsShown ==
    Quiet => \A r \in Request :
        ask[r] = "waiting" /\ future[r] = "pending" =>
            r \in prompts \/ r \in Side \ payload

\* When nothing is on its way, the page shows no request that is settled, but
\* those that were sent again although settled, and those whose notice fell
\* into a gap of the replay.
PromptsArePending ==
    Quiet => \A r \in prompts : r \in payload \cup stray
=============================================================================
