-------------------------- MODULE ApprovalsProofs --------------------------
(***************************************************************************)
(* Proofs about Approvals, for every set of requests of each kind and      *)
(* every bound.                                                            *)
(***************************************************************************)
EXTENDS Approvals, TLAPS

(* A coroutine that does not wait has nothing in the table of waiters.       *)
AtRest(r) == r \notin waiters /\ future[r] = "none"

Fresh(r) == ask[r] = "new" => AtRest(r) /\ r \notin payload /\ response[r] = "none"

(* A response that came early is the last decision on a pending request.     *)
HandOff(r) == ask[r] = "asked" =>
    /\ AtRest(r) /\ r \notin Elicit
    /\ response[r] # "none" => r \in payload /\ decided[r] = response[r]

(* A settled future holds the decision that counts.                          *)
Awaiting(r) == ask[r] = "waiting" =>
    /\ future[r] # "none"
    /\ future[r] = "pending" => r \in waiters
    /\ future[r] \in Decision => decided[r] = future[r]

Over(r) == ask[r] = "done" =>
    /\ AtRest(r)
    /\ r \in payload => r \in abandoned
    /\ response[r] # "none" => r \in abandoned \cup Elicit

(* A run that was stopped has nothing pending.                               *)
StoppedRun(r) == stopped /\ r \in Run => r \notin payload

Lane(r) == Fresh(r) /\ HandOff(r) /\ Awaiting(r) /\ Over(r) /\ StoppedRun(r)
Lanes == \A r \in Request : Lane(r)

IInv == TypeOK /\ Lanes /\ DecisionStands

-----------------------------------------------------------------------------
(* The messages to the page are well-formed.                                 *)
Message == [type : {"control_request", "approval.cancelled"}, ids : SUBSET Request]
Reply == [id : Request, value : Decision]

LEMMA QueuesTyped ==
    ASSUME TypeOK PROVE out \in Seq(Message) /\ answers \in Seq(Reply)
BY DEF TypeOK, Message, Reply

LEMMA InitIInv == Init => IInv
<1> SUFFICES ASSUME Init PROVE IInv
  OBVIOUS
<1>1. TypeOK
  <2>1. faults \in 0..MaxFaults /\ policies \in 0..MaxPolicies
    BY BoundsAssumption DEF Init
  <2>2. out \in Seq(Message) /\ answers \in Seq(Reply)
    BY DEF Init
  <2>3. /\ ask \in [Request -> {"new", "asked", "waiting", "leaving", "done"}]
        /\ future \in [Request -> Decision \cup {"none", "pending", "cancelled"}]
        /\ response \in [Request -> Decision \cup {"none"}]
        /\ decided \in [Request -> Decision \cup {"none", "cancelled"}]
    BY DEF Init, None
  <2> QED
    BY <2>1, <2>2, <2>3 DEF Init, TypeOK, Message, Reply
<1>2. Lanes /\ DecisionStands
  BY DEF Init, Lanes, Lane, DecisionStands, Fresh, HandOff, Awaiting, Over, StoppedRun, AtRest, None
<1> QED
  BY <1>1, <1>2 DEF IInv

LEMMA MessagesTyped ==
    /\ \A r \in Request : Asked(r) \in Message
    /\ \A S \in SUBSET Request : Cancelled(S) \in Message
BY DEF Asked, Cancelled, Message

LEMMA NoticeTyped ==
    ASSUME TypeOK, NEW S \in SUBSET Request, Notice(S)
    PROVE  notified' \subseteq Request /\ out' \in Seq(Message)
<1>1. notified' \subseteq Request
  BY DEF Notice, TypeOK
<1>2. Cancelled(S \ notified) \in Message
  BY MessagesTyped
<1>3. out' \in Seq(Message)
  BY <1>2, QueuesTyped DEF Notice
<1> QED
  BY <1>1, <1>3

LEMMA ResolveTyped ==
    ASSUME TypeOK, NEW S \in SUBSET Request, NEW v \in Decision, Resolve(S, v)
    PROVE  /\ future' \in [Request -> Decision \cup {"none", "pending", "cancelled"}]
           /\ response' \in [Request -> Decision \cup {"none"}]
           /\ waiters' \subseteq Request
           /\ decided' \in [Request -> Decision \cup {"none", "cancelled"}]
BY DEF Resolve, Decide, TypeOK

LEMMA ReturnTyped ==
    ASSUME TypeOK, NEW r \in Request, NEW v, NEW next \in {"leaving", "done"},
           Return(r, v, next)
    PROVE  /\ ask' \in [Request -> {"new", "asked", "waiting", "leaving", "done"}]
           /\ undone' \in BOOLEAN
           /\ decided' \in [Request -> Decision \cup {"none", "cancelled"}]
BY DEF Return, TypeOK

LEMMA ForgetTyped ==
    ASSUME TypeOK, NEW r \in Request, Forget(r)
    PROVE  payload' \subseteq Request /\ waiters' \subseteq Request
           /\ response' \in [Request -> Decision \cup {"none"}]
BY DEF Forget, TypeOK

-----------------------------------------------------------------------------
LEMMA TypeStep == TypeOK /\ [Next]_vars => TypeOK'
<1> SUFFICES ASSUME TypeOK, [Next]_vars PROVE TypeOK'
  OBVIOUS
<1>1. ASSUME NEW r \in Request, Emit(r) PROVE TypeOK'
  <2>1. Asked(r) \in Message /\ Cancelled({r}) \in Message
    BY MessagesTyped
  <2>2. <<Asked(r), Cancelled({r})>> \in Seq(Message)
    BY <2>1
  <2>3. CASE r \notin Elicit
    <3>1. out' = Append(out, Asked(r)) /\ ask' = [ask EXCEPT ![r] = "asked"]
          /\ payload' = payload \cup {r} /\ UNCHANGED <<waiters, future, notified>>
      BY <1>1, <2>3 DEF Emit
    <3>2. out' \in Seq(Message)
      BY <3>1, <2>1, QueuesTyped
    <3> QED
      BY <1>1, <3>1, <3>2 DEF Emit, TypeOK, Message, server, page, ghosts, bounds
  <2>4. CASE r \in Elicit
    <3>1. waiters' = waiters \cup {r} /\ future' = [future EXCEPT ![r] = "pending"]
          /\ payload' = payload \cup {r}
      BY <1>1, <2>4 DEF Emit
    <3>2. CASE link = "on"
      <4>1. out' = Append(out, Asked(r)) /\ ask' = [ask EXCEPT ![r] = "waiting"]
            /\ UNCHANGED notified
        BY <1>1, <2>4, <3>2 DEF Emit
      <4>2. out' \in Seq(Message)
        BY <4>1, <2>1, QueuesTyped
      <4> QED
        BY <1>1, <3>1, <4>1, <4>2 DEF Emit, TypeOK, Message, server, page, ghosts, bounds
    <3>3. CASE link # "on"
      <4>1. out' = out \o <<Asked(r), Cancelled({r})>>
            /\ ask' = [ask EXCEPT ![r] = "leaving"] /\ notified' = notified \cup {r}
        BY <1>1, <2>4, <3>3 DEF Emit
      <4>2. out' \in Seq(Message)
        BY <4>1, <2>2, QueuesTyped
      <4> QED
        BY <1>1, <3>1, <4>1, <4>2 DEF Emit, TypeOK, Message, server, page, ghosts, bounds
    <3> QED
      BY <3>2, <3>3
  <2> QED
    BY <2>3, <2>4
<1>2. ASSUME NEW r \in Request, StoppedBeforeWait(r) PROVE TypeOK'
  BY <1>2, ReturnTyped DEF StoppedBeforeWait, TypeOK, table, notices, server, page, bounds
<1>3. ASSUME NEW r \in Request, OutOfTime(r) PROVE TypeOK'
  BY <1>3, ReturnTyped DEF OutOfTime, TypeOK, table, notices, server, page, bounds, Run
<1>4. ASSUME NEW r \in Request, TakeResponse(r) PROVE TypeOK'
  BY <1>4, ReturnTyped, ForgetTyped
  DEF TakeResponse, TypeOK, notices, server, page, bounds
<1>5. ASSUME NEW r \in Request, BeginWait(r) PROVE TypeOK'
  BY <1>5 DEF BeginWait, TypeOK, notices, server, page, ghosts, bounds
<1>6. ASSUME NEW r \in Request, Resume(r) PROVE TypeOK'
  <2>1. CASE r \in Elicit
    BY <1>6, <2>1, ReturnTyped, NoticeTyped
    DEF Resume, TypeOK, table, server, page, bounds, Message
  <2>2. CASE r \notin Elicit
    BY <1>6, <2>2, ReturnTyped, ForgetTyped DEF Resume, TypeOK, server, page, bounds
  <2> QED
    BY <2>1, <2>2
<1>7. ASSUME NEW r \in Request, NEW v, Halt(r, v) PROVE TypeOK'
  BY <1>7, ReturnTyped, NoticeTyped DEF Halt, TypeOK, table, server, page, bounds, Message
<1>8. ASSUME NEW r \in Request, Leave(r) PROVE TypeOK'
  BY <1>8, ForgetTyped DEF Leave, TypeOK, notices, server, page, ghosts, bounds
<1>9. ASSUME NEW r \in Request, Resend(r) PROVE TypeOK'
  <2>1. out' \in Seq(Message)
    BY <1>9, MessagesTyped DEF Resend, TypeOK, Message
  <2> QED
    BY <1>9, <2>1 DEF Resend, TypeOK, Message, table, askers, notices, page, bounds
<1>10. ASSUME NEW r \in Request, NEW v \in Decision, Answer(r, v) PROVE TypeOK'
  <2>1. answers' \in Seq(Reply)
    BY <1>10 DEF Answer, TypeOK, Reply
  <2> QED
    BY <1>10, <2>1 DEF Answer, TypeOK, Reply, table, askers, notices, server, bounds
<1>11. ASSUME NEW S \in SUBSET (Request \ Elicit), AutoApprove(S) PROVE TypeOK'
  <2>1. "approve" \in Decision /\ S \in SUBSET Request
    BY DEF Decision
  <2>2. policies' \in 0..MaxPolicies
    BY <1>11, BoundsAssumption DEF AutoApprove, Policy, TypeOK
  <2> QED
    BY <1>11, <2>1, <2>2, ResolveTyped, NoticeTyped
    DEF AutoApprove, TypeOK, server, page, Message
<1>12. ASSUME SteerReject PROVE TypeOK'
  <2>1. "reject" \in Decision /\ payload \in SUBSET Request
    BY DEF Decision, TypeOK
  <2>2. policies' \in 0..MaxPolicies
    BY <1>12, BoundsAssumption DEF SteerReject, Policy, TypeOK
  <2> QED
    BY <1>12, <2>1, <2>2, ResolveTyped, NoticeTyped
    DEF SteerReject, TypeOK, server, page, Message
<1>13. ASSUME Deliver PROVE TypeOK'
  <2>1. Head(answers) \in Reply /\ Tail(answers) \in Seq(Reply)
    BY <1>13, QueuesTyped DEF Deliver
  <2>2. {Head(answers).id} \cap payload \in SUBSET Request /\ Head(answers).value \in Decision
    BY <2>1 DEF Reply
  <2> QED
    BY <1>13, <2>1, <2>2, ResolveTyped DEF Deliver, TypeOK, Reply, notices, server, bounds
<1>14. ASSUME CancelRun PROVE TypeOK'
  BY <1>14 DEF CancelRun, Cancelling, Decide, TypeOK, page, bounds
<1>15. ASSUME NotifyCancelled PROVE TypeOK'
  BY <1>15, NoticeTyped DEF NotifyCancelled, TypeOK, Message, table, askers, server, page, ghosts, bounds
<1>16. ASSUME Disconnect \/ Reload PROVE TypeOK'
  <2>1. faults' \in 0..MaxFaults
    BY <1>16, BoundsAssumption DEF Disconnect, Reload, Fault, TypeOK
  <2>2. /\ link' \in {"on", "off", "new"} /\ prompts' \subseteq Request
        /\ answers' \in Seq(Reply) /\ out' \in Seq(Message)
        /\ UNCHANGED <<table, askers, notices, server, ghosts, policies>>
    <3>1. CASE Disconnect
      BY <3>1, QueuesTyped DEF Disconnect, TypeOK
    <3>2. CASE Reload
      BY <3>2, QueuesTyped DEF Reload, TypeOK
    <3> QED
      BY <1>16, <3>1, <3>2
  <2> QED
    BY <2>1, <2>2 DEF TypeOK, Reply, Message, table, askers, notices, server, ghosts
<1>17. ASSUME Reconnect \/ ReconnectWithoutReplay PROVE TypeOK'
  <2>1. Restored /\ out' \in Seq(Message) /\ stray' \subseteq Request
    <3>1. CASE Reconnect
      BY <3>1, QueuesTyped DEF Reconnect, TypeOK
    <3>2. CASE ReconnectWithoutReplay
      BY <3>2, QueuesTyped DEF ReconnectWithoutReplay, TypeOK
    <3> QED
      BY <1>17, <3>1, <3>2
  <2> QED
    BY <2>1 DEF Restored, TypeOK, Message, table, askers, notices, bounds
<1>18. ASSUME Reemit PROVE TypeOK'
  BY <1>18 DEF Reemit, TypeOK, table, askers, notices, page, ghosts, bounds
<1>19. ASSUME Receive PROVE TypeOK'
  <2>1. Head(out) \in Message /\ Tail(out) \in Seq(Message)
    BY <1>19, QueuesTyped DEF Receive
  <2>2. prompts' \subseteq Request
    BY <1>19, <2>1 DEF Receive, TypeOK, Message
  <2> QED
    BY <1>19, <2>1, <2>2 DEF Receive, TypeOK, Message, table, askers, notices, server, ghosts, bounds
<1>20. CASE UNCHANGED vars
  BY <1>20 DEF vars, TypeOK, table, askers, notices, server, page, ghosts, bounds
<1> QED
  BY <1>1, <1>2, <1>3, <1>4, <1>5, <1>6, <1>7, <1>8, <1>9, <1>10, <1>11, <1>12, <1>13,
     <1>14, <1>15, <1>16, <1>17, <1>18, <1>19, <1>20
  DEF Next, Interrupted, Expire

-----------------------------------------------------------------------------
(* A step that leaves a request's part of the state alone keeps its lane.    *)
Same(r) ==
    /\ ask'[r] = ask[r] /\ future'[r] = future[r] /\ response'[r] = response[r]
    /\ decided'[r] = decided[r]
    /\ (r \in payload') = (r \in payload) /\ (r \in waiters') = (r \in waiters)
    /\ abandoned \subseteq abandoned' /\ stopped' = stopped

LEMMA SameLane ==
    ASSUME NEW r \in Request, Lane(r), Same(r)
    PROVE  Lane(r)'
BY DEF Lane, Same, Fresh, HandOff, Awaiting, Over, StoppedRun, AtRest, Run

(* Settling a pending request keeps its lane, and every other one's.         *)
LEMMA ResolveLane ==
    ASSUME TypeOK, NEW S \in SUBSET payload, NEW v \in Decision, Resolve(S, v),
           NEW r \in Request, Lane(r),
           UNCHANGED <<ask, payload, stopped, abandoned>>
    PROVE  Lane(r)'
<1>1. CASE r \notin S
  <2>1. Same(r)
    BY <1>1 DEF Resolve, Decide, Same, TypeOK
  <2> QED
    BY <2>1, SameLane
<1>2. CASE r \in S
  <2>1. ask[r] # "new"
    BY <1>2 DEF Lane, Fresh
  <2>2. /\ future'[r] = IF Pending(r) THEN v ELSE future[r]
        /\ response'[r] = IF Pending(r) THEN response[r] ELSE v
        /\ decided'[r] = IF Counts(r) THEN v ELSE decided[r]
        /\ r \notin waiters' /\ r \in payload
    BY <1>2 DEF Resolve, Decide
  <2>3. v # "none" /\ v # "pending"
    BY DEF Decision
  <2>4. CASE ask[r] = "asked"
    BY <2>2, <2>3, <2>4 DEF Lane, Fresh, HandOff, Awaiting, Over, StoppedRun, AtRest, Run, Pending, Counts
  <2>5. CASE ask[r] = "waiting"
    BY <2>2, <2>3, <2>5 DEF Lane, Fresh, HandOff, Awaiting, Over, StoppedRun, AtRest, Run, Pending, Counts
  <2>6. CASE ask[r] = "leaving"
    BY <2>2, <2>6 DEF Lane, Fresh, HandOff, Awaiting, Over, StoppedRun, AtRest, Run
  <2>7. CASE ask[r] = "done"
    BY <2>2, <2>7 DEF Lane, Fresh, HandOff, Awaiting, Over, StoppedRun, AtRest, Run, Pending
  <2> QED
    BY <2>1, <2>4, <2>5, <2>6, <2>7 DEF TypeOK
<1> QED
  BY <1>1, <1>2

(* The coroutines' steps move only their own request.                        *)
LEMMA LaneStep == TypeOK /\ Lanes /\ [Next]_vars => Lanes'
<1> SUFFICES ASSUME TypeOK, \A r \in Request : Lane(r), [Next]_vars
             PROVE  \A r \in Request : Lane(r)'
  BY DEF Lanes
<1> DEFINE Kept == \A r \in Request : Lane(r)'
<1>1. ASSUME NEW r \in Request, Emit(r) PROVE Kept
  <2>1. ASSUME NEW q \in Request, q # r PROVE Lane(q)'
    <3>1. Same(q)
      BY <1>1, <2>1 DEF Emit, Same, TypeOK, server, page, ghosts, bounds
    <3> QED
      BY <3>1, SameLane
  <2>2. Lane(r)'
    <3>1. /\ ask[r] = "new" /\ (r \in Run => ~stopped)
          /\ payload' = payload \cup {r}
          /\ response' = response /\ stopped' = stopped
          /\ decided' = decided /\ abandoned' = abandoned
      BY <1>1 DEF Emit, server, ghosts
    <3>2. CASE r \notin Elicit
      <4>1. ask'[r] = "asked" /\ waiters' = waiters /\ future' = future
        BY <1>1, <3>2 DEF Emit, TypeOK
      <4> QED
        BY <3>1, <3>2, <4>1 DEF Lane, Fresh, HandOff, Awaiting, Over, StoppedRun, AtRest, Run, Decision
    <3>3. CASE r \in Elicit
      <4>1. /\ ask'[r] \in {"waiting", "leaving"}
            /\ waiters' = waiters \cup {r} /\ future'[r] = "pending"
        BY <1>1, <3>3 DEF Emit, TypeOK
      <4> QED
        BY <3>1, <3>3, <4>1 DEF Lane, Fresh, HandOff, Awaiting, Over, StoppedRun, AtRest, Run, Decision
    <3> QED
      BY <3>2, <3>3
  <2> QED
    BY <2>1, <2>2
<1>2. ASSUME NEW r \in Request, StoppedBeforeWait(r) PROVE Kept
  <2>1. ASSUME NEW q \in Request, q # r PROVE Lane(q)'
    <3>1. Same(q)
      BY <1>2, <2>1 DEF StoppedBeforeWait, Same, TypeOK, Return, table, notices, server, bounds
    <3> QED
      BY <3>1, SameLane
  <2>2. Lane(r)'
    BY <1>2 DEF StoppedBeforeWait, TypeOK, Return, table, notices, server, bounds, Lane, Fresh, HandOff, Awaiting, Over, StoppedRun, AtRest, Run
  <2> QED
    BY <2>1, <2>2
<1>3. ASSUME NEW r \in Request, OutOfTime(r) PROVE Kept
  <2>1. ASSUME NEW q \in Request, q # r PROVE Lane(q)'
    <3>1. Same(q)
      BY <1>3, <2>1 DEF OutOfTime, Same, TypeOK, Return, table, server, bounds
    <3> QED
      BY <3>1, SameLane
  <2>2. Lane(r)'
    BY <1>3 DEF OutOfTime, TypeOK, Return, table, server, bounds, Lane, Fresh, HandOff, Awaiting, Over, StoppedRun, AtRest, Run
  <2> QED
    BY <2>1, <2>2
<1>4. ASSUME NEW r \in Request, TakeResponse(r) PROVE Kept
  <2>1. ASSUME NEW q \in Request, q # r PROVE Lane(q)'
    <3>1. Same(q)
      BY <1>4, <2>1 DEF TakeResponse, Same, TypeOK, Return, Forget, server
    <3> QED
      BY <3>1, SameLane
  <2>2. Lane(r)'
    BY <1>4 DEF TakeResponse, CanWait, Decision, TypeOK, Return, Forget, server, Lane, Fresh, HandOff, Awaiting, Over, StoppedRun, AtRest, Run
  <2> QED
    BY <2>1, <2>2
<1>5. ASSUME NEW r \in Request, BeginWait(r) PROVE Kept
  <2>1. ASSUME NEW q \in Request, q # r PROVE Lane(q)'
    <3>1. Same(q)
      BY <1>5, <2>1 DEF BeginWait, Same, TypeOK, server, ghosts
    <3> QED
      BY <3>1, SameLane
  <2>2. Lane(r)'
    BY <1>5 DEF BeginWait, CanWait, Decision, TypeOK, server, ghosts, Lane, Fresh, HandOff, Awaiting, Over, StoppedRun, AtRest, Run
  <2> QED
    BY <2>1, <2>2
<1>6. ASSUME NEW r \in Request, Resume(r) PROVE Kept
  <2>1. ASSUME NEW q \in Request, q # r PROVE Lane(q)'
    <3>1. Same(q)
      BY <1>6, <2>1 DEF Resume, Same, TypeOK, Return, Forget, table, server
    <3> QED
      BY <3>1, SameLane
  <2>2. Lane(r)'
    BY <1>6 DEF Resume, TypeOK, Return, Forget, table, server, Lane, Fresh, HandOff, Awaiting, Over, StoppedRun, AtRest, Run
  <2> QED
    BY <2>1, <2>2
<1>7. ASSUME NEW r \in Request, NEW v, Halt(r, v) PROVE Kept
  <2>1. ASSUME NEW q \in Request, q # r PROVE Lane(q)'
    <3>1. Same(q)
      BY <1>7, <2>1 DEF Halt, Return, Same, TypeOK, table, server
    <3> QED
      BY <3>1, SameLane
  <2>2. Lane(r)'
    BY <1>7 DEF Halt, Return, TypeOK, table, server, Lane, Fresh, HandOff, Awaiting, Over, StoppedRun, AtRest, Run
  <2> QED
    BY <2>1, <2>2
<1>8. ASSUME NEW r \in Request, Leave(r) PROVE Kept
  <2>1. ASSUME NEW q \in Request, q # r PROVE Lane(q)'
    <3>1. Same(q)
      BY <1>8, <2>1 DEF Leave, Same, TypeOK, Forget, server, ghosts
    <3> QED
      BY <3>1, SameLane
  <2>2. Lane(r)'
    BY <1>8 DEF Leave, TypeOK, Forget, server, ghosts, Lane, Fresh, HandOff, Awaiting, Over, StoppedRun, AtRest, Run
  <2> QED
    BY <2>1, <2>2
<1>9. ASSUME NEW r \in Request, Resend(r) PROVE Kept
  <2>1. ASSUME NEW q \in Request PROVE Same(q)
    BY <1>9 DEF Resend, Same, table, askers
  <2> QED
    BY <2>1, SameLane
<1>10. ASSUME NEW r \in Request, NEW v \in Decision, Answer(r, v) PROVE Kept
  <2>1. ASSUME NEW q \in Request PROVE Same(q)
    BY <1>10 DEF Answer, Same, table, askers, server
  <2> QED
    BY <2>1, SameLane
<1>11. ASSUME NEW S \in SUBSET (Request \ Elicit), AutoApprove(S) PROVE Kept
  <2>1. S \in SUBSET payload /\ Resolve(S, "approve") /\ "approve" \in Decision
        /\ UNCHANGED <<ask, payload, stopped, abandoned>>
    BY <1>11 DEF AutoApprove, Decision, server
  <2> QED
    BY <2>1, ResolveLane
<1>12. ASSUME SteerReject PROVE Kept
  <2>1. Resolve(payload, "reject") /\ "reject" \in Decision
        /\ UNCHANGED <<ask, payload, stopped, abandoned>>
    BY <1>12 DEF SteerReject, Decision, server
  <2> QED
    BY <2>1, ResolveLane
<1>13. ASSUME Deliver PROVE Kept
  <2>1. Head(answers) \in Reply
    BY <1>13, QueuesTyped DEF Deliver
  <2>2. {Head(answers).id} \cap payload \in SUBSET payload /\ Head(answers).value \in Decision
    BY <2>1 DEF Reply
  <2>3. Resolve({Head(answers).id} \cap payload, Head(answers).value)
        /\ UNCHANGED <<ask, payload, stopped, abandoned>>
    BY <1>13 DEF Deliver, server
  <2> QED
    BY <2>2, <2>3, ResolveLane
<1>14. ASSUME CancelRun PROVE Kept
  <2>1. ASSUME NEW q \in Request PROVE Lane(q)'
    <3>1. /\ ask' = ask /\ abandoned' = abandoned /\ payload' = {}
          /\ future'[q] = IF q \in payload /\ Pending(q) THEN "cancelled" ELSE future[q]
          /\ response'[q] = IF q \in payload THEN "none" ELSE response[q]
          /\ waiters' = waiters \ payload
          /\ decided'[q] = IF q \in payload /\ Counts(q) THEN "cancelled" ELSE decided[q]
      BY <1>14, <2>1 DEF CancelRun, Cancelling, Decide
    <3> QED
      BY <3>1 DEF Lane, Fresh, HandOff, Awaiting, Over, StoppedRun, AtRest, Run, Pending, Counts, Decision
  <2> QED
    BY <2>1
<1>15. ASSUME NotifyCancelled PROVE Kept
  <2>1. ASSUME NEW q \in Request PROVE Same(q)
    BY <1>15 DEF NotifyCancelled, Same, table, askers, server, ghosts
  <2> QED
    BY <2>1, SameLane
<1>16. ASSUME Disconnect \/ Reload \/ Reemit \/ Receive PROVE Kept
  <2>1. ASSUME NEW q \in Request PROVE Same(q)
    BY <1>16 DEF Disconnect, Reload, Reemit, Receive, Same, table, askers, server, ghosts
  <2> QED
    BY <2>1, SameLane
<1>17. ASSUME Reconnect \/ ReconnectWithoutReplay PROVE Kept
  <2>1. ASSUME NEW q \in Request PROVE Same(q)
    BY <1>17 DEF Reconnect, ReconnectWithoutReplay, Restored, Same, table, askers
  <2> QED
    BY <2>1, SameLane
<1>18. CASE UNCHANGED vars
  <2>1. ASSUME NEW q \in Request PROVE Same(q)
    BY <1>18 DEF vars, Same, table, askers, server, ghosts
  <2> QED
    BY <2>1, SameLane
<1> QED
  BY <1>1, <1>2, <1>3, <1>4, <1>5, <1>6, <1>7, <1>8, <1>9, <1>10, <1>11, <1>12, <1>13, <1>14, <1>15, <1>16, <1>17, <1>18
  DEF Next, Interrupted, Expire

(* An approval is returned only where the lane says that it counts.          *)
LEMMA DecisionStep == TypeOK /\ Lanes /\ DecisionStands /\ [Next]_vars => DecisionStands'
<1> SUFFICES ASSUME TypeOK, \A r \in Request : Lane(r), ~undone, [Next]_vars PROVE ~undone'
  BY DEF Lanes, DecisionStands
<1>1. ASSUME NEW r \in Request, TakeResponse(r) PROVE ~undone'
  BY <1>1 DEF TakeResponse, CanWait, Return, Lane, HandOff
<1>2. ASSUME NEW r \in Request, Resume(r) PROVE ~undone'
  <2>1. decided[r] = future[r]
    BY <1>2 DEF Resume, Lane, Awaiting
  <2> QED
    BY <1>2, <2>1 DEF Resume, Result, Return
<1>3. ASSUME NEW r \in Request, Interrupted(r) \/ Expire(r) PROVE ~undone'
  BY <1>3 DEF Interrupted, Expire, Halt, Return
<1>4. ASSUME NEW r \in Request, StoppedBeforeWait(r) \/ OutOfTime(r) PROVE ~undone'
  BY <1>4 DEF StoppedBeforeWait, OutOfTime, Return
<1>5. ASSUME NEW r \in Request, Emit(r) \/ BeginWait(r) \/ Leave(r) \/ Resend(r) PROVE ~undone'
  BY <1>5 DEF Emit, BeginWait, Leave, Resend, ghosts
<1>6. ASSUME NEW r \in Request, NEW v \in Decision, Answer(r, v) PROVE ~undone'
  BY <1>6 DEF Answer
<1>7. ASSUME NEW S \in SUBSET (Request \ Elicit), AutoApprove(S) PROVE ~undone'
  BY <1>7 DEF AutoApprove
<1>8. ASSUME Deliver \/ SteerReject \/ CancelRun \/ NotifyCancelled PROVE ~undone'
  BY <1>8 DEF Deliver, SteerReject, CancelRun, NotifyCancelled, ghosts
<1>9. ASSUME Disconnect \/ Reload \/ Reconnect \/ ReconnectWithoutReplay \/ Reemit \/ Receive
      PROVE  ~undone'
  BY <1>9 DEF Disconnect, Reload, Reconnect, ReconnectWithoutReplay, Restored, Reemit, Receive, ghosts
<1>10. CASE UNCHANGED vars
  BY <1>10 DEF vars, ghosts
<1> QED
  BY <1>1, <1>2, <1>3, <1>4, <1>5, <1>6, <1>7, <1>8, <1>9, <1>10 DEF Next

-----------------------------------------------------------------------------
LEMMA Inductive == Spec => []IInv
<1>1. IInv /\ [Next]_vars => IInv'
  BY TypeStep, LaneStep, DecisionStep DEF IInv
<1> QED
  BY InitIInv, <1>1, PTL DEF Spec

(* The tables of the wait state, the coroutines and the page are well-formed *)
(* in every reachable state.                                                 *)
THEOREM TypeCorrect == Spec => []TypeOK
<1>1. IInv => TypeOK
  BY DEF IInv
<1> QED
  BY Inductive, <1>1, PTL

(* approval_handler, the tool batch and the MCP handler leave nothing behind *)
(* in the wait state when a request is over, but for the two ways named in   *)
(* NothingLeaks.                                                             *)
THEOREM NothingIsLeft == Spec => []NothingLeaks
<1>1. IInv => NothingLeaks
  BY DEF IInv, Lanes, Lane, Over, AtRest, NothingLeaks
<1> QED
  BY Inductive, <1>1, PTL

(* A decision that a waiting coroutine has been given, and a steer or an     *)
(* interrupt no answer came after, is not undone by what comes late.         *)
THEOREM DecisionsStand == Spec => []DecisionStands
<1>1. IInv => DecisionStands
  BY DEF IInv
<1> QED
  BY Inductive, <1>1, PTL

-----------------------------------------------------------------------------
(* What the page is told.                                                    *)
Takes(m, r) == m.type = "approval.cancelled" /\ r \in m.ids

(* Every message on the way asks for one request, or is a notice of requests
   noted as notified.                                                        *)
OutNamed ==
    \A i \in DOMAIN out :
        \/ \E r \in Request : out[i] = Asked(r)
        \/ out[i].type = "approval.cancelled" /\ out[i].ids \subseteq notified

(* Nobody has heard of a request that has not been made.                     *)
Unknown(r) == ask[r] = "new" =>
    /\ r \notin prompts /\ r \notin resend /\ r \notin notified /\ r \notin owed
    /\ ~Sent(r) /\ ~Answered(r)

Told(r) ==
    /\ ask[r] = "leaving" => r \in notified
    /\ r \in owed => r \notin payload
    /\ ask[r] = "waiting" /\ future[r] = "pending" => r \in payload \/ r \in Side
    /\ ask[r] = "asked" => r \in payload \/ r \in Side \/ stopped

(* A request nobody has decided is on the page, on its way there, sent again
   soon, or answered.                                                        *)
Unsettled(r) == \/ ask[r] = "asked" /\ response[r] = "none"
                \/ ask[r] = "waiting" /\ future[r] = "pending"
Coming(r) == r \in prompts \/ Sent(r) \/ r \in resend \/ due \/ Answered(r) \/ link # "on"
Shown(r) == r \in payload /\ Unsettled(r) => r \notin notified /\ Coming(r)

(* An answered request does not come back to the page unnoticed.             *)
AnsweredOnce(r) == Answered(r) => r \in stray \/ (r \notin prompts /\ ~Sent(r))

(* The page's prompt for a settled request goes: a notice follows whatever
   asks for it, or will be sent.                                             *)
AskCleared(r) ==
    \A i \in DOMAIN out :
        out[i] = Asked(r) => \E j \in DOMAIN out : j > i /\ Takes(out[j], r)
Taken(r) == \E j \in DOMAIN out : Takes(out[j], r)
SettledNow(r) == \/ r \notin payload \/ r \in notified \/ response[r] # "none"
                 \/ future[r] \in Decision \cup {"cancelled"}
Cleared(r) == ask[r] # "new" /\ SettledNow(r) =>
    \/ r \in stray
    \/ r \in owed /\ r \notin notified
    \/ AskCleared(r) /\ (r \in prompts => Taken(r))

PageLane(r) == Unknown(r) /\ Told(r) /\ Shown(r) /\ AnsweredOnce(r) /\ Cleared(r)
PageInv == OutNamed /\ \A r \in Request : PageLane(r)

(* Messages added and taken.                                                 *)
LEMMA Appended ==
    ASSUME TypeOK, NEW m \in Message, out' = Append(out, m), NEW r \in Request
    PROVE  /\ Sent(r)' <=> Sent(r) \/ m = Asked(r)
           /\ Taken(r)' <=> Taken(r) \/ Takes(m, r)
           /\ m # Asked(r) /\ AskCleared(r) => AskCleared(r)'
           /\ m # Asked(r) /\ Takes(m, r) => AskCleared(r)'
<1>0. out \in Seq(Message)
  BY QueuesTyped
<1>1. Len(out) \in Nat /\ DOMAIN out = 1..Len(out) /\ DOMAIN out' = 1..(Len(out) + 1)
  BY <1>0
<1>2. out'[Len(out) + 1] = m /\ \A i \in DOMAIN out : out'[i] = out[i]
  BY <1>0
<1>3. \A i \in DOMAIN out' : i \in DOMAIN out \/ i = Len(out) + 1
  BY <1>1
<1>4. DOMAIN out \subseteq DOMAIN out' /\ Len(out) + 1 \in DOMAIN out'
      /\ \A i \in DOMAIN out : Len(out) + 1 > i
  BY <1>1
<1> HIDE DEF Takes
<1>5. Sent(r)' <=> Sent(r) \/ m = Asked(r)
  BY <1>2, <1>3, <1>4 DEF Sent, Asked
<1>6. Taken(r)' <=> Taken(r) \/ Takes(m, r)
  BY <1>2, <1>3, <1>4 DEF Taken
<1>7. m # Asked(r) /\ AskCleared(r) => AskCleared(r)'
  BY <1>2, <1>3, <1>4 DEF AskCleared, Asked
<1>8. m # Asked(r) /\ Takes(m, r) => AskCleared(r)'
  BY <1>2, <1>3, <1>4 DEF AskCleared, Asked
<1> QED
  BY <1>5, <1>6, <1>7, <1>8

LEMMA Shortened ==
    ASSUME TypeOK, out # <<>>, out' = Tail(out), NEW r \in Request
    PROVE  /\ Sent(r)' => Sent(r)
           /\ Sent(r) => Sent(r)' \/ Head(out) = Asked(r)
           /\ Taken(r) => Taken(r)' \/ Takes(Head(out), r)
           /\ AskCleared(r) => AskCleared(r)'
           /\ AskCleared(r) /\ Head(out) = Asked(r) => Taken(r)'
<1>0. out \in Seq(Message)
  BY QueuesTyped
<1>1. Len(out) \in Nat /\ Len(out) > 0 /\ DOMAIN out = 1..Len(out)
      /\ DOMAIN out' = 1..(Len(out) - 1)
  BY <1>0
<1>2. Head(out) = out[1] /\ \A i \in DOMAIN out' : out'[i] = out[i + 1]
  BY <1>0, <1>1
<1>3. /\ \A i \in DOMAIN out' : i + 1 \in DOMAIN out
      /\ \A i \in DOMAIN out : i = 1 \/ (i - 1 \in DOMAIN out' /\ out'[i - 1] = out[i])
      /\ 1 \in DOMAIN out
      /\ \A i \in DOMAIN out : i > 1 => i # 1
      /\ \A i \in DOMAIN out', j \in DOMAIN out : j > i + 1 => j # 1 /\ j - 1 > i
  BY <1>1, <1>2
<1>4. Sent(r)' => Sent(r)
  BY <1>2, <1>3 DEF Sent, Asked
<1>5. Sent(r) => Sent(r)' \/ Head(out) = Asked(r)
  BY <1>2, <1>3 DEF Sent, Asked
<1>6. Taken(r) => Taken(r)' \/ Takes(Head(out), r)
  BY <1>2, <1>3 DEF Taken
<1>7. AskCleared(r) => AskCleared(r)'
  BY <1>2, <1>3 DEF AskCleared, Asked
<1>8. AskCleared(r) /\ Head(out) = Asked(r) => Taken(r)'
  BY <1>2, <1>3 DEF AskCleared, Asked, Taken
<1> QED
  BY <1>4, <1>5, <1>6, <1>7, <1>8

(* A notice takes the prompts of those it names, and asks for nothing.       *)
LEMMA NoticeMoves ==
    ASSUME TypeOK, NEW S \in SUBSET Request, Notice(S), NEW r \in Request
    PROVE  /\ r \in notified' <=> r \in notified \/ r \in S
           /\ Sent(r)' <=> Sent(r)
           /\ AskCleared(r) => AskCleared(r)'
           /\ Taken(r) => Taken(r)'
           /\ r \in S /\ r \notin notified => AskCleared(r)' /\ Taken(r)'
<1>1. r \in notified' <=> r \in notified \/ r \in S
  BY DEF Notice
<1>2. CASE S \subseteq notified
  <2>1. out' = out
    BY <1>2 DEF Notice
  <2> QED
    BY <1>1, <1>2, <2>1 DEF Sent, AskCleared, Taken
<1>3. CASE ~(S \subseteq notified)
  <2> DEFINE m == Cancelled(S \ notified)
  <2>1. out' = Append(out, m) /\ m \in Message
    BY <1>3, MessagesTyped DEF Notice
  <2>2. m # Asked(r) /\ (r \in S /\ r \notin notified => Takes(m, r))
    BY DEF Cancelled, Asked, Takes
  <2> HIDE DEF m
  <2> QED
    BY <1>1, <2>1, <2>2, Appended
<1> QED
  BY <1>2, <1>3

LEMMA GivenUp ==
    ASSUME TypeOK, NEW r \in Request, out' = out \o <<Asked(r), Cancelled({r})>>, NEW q \in Request
    PROVE  IF q = r THEN AskCleared(r)' /\ Taken(r)'
           ELSE /\ Sent(q)' <=> Sent(q)
                /\ AskCleared(q) => AskCleared(q)'
                /\ Taken(q) => Taken(q)'
<1>0. out \in Seq(Message)
  BY QueuesTyped
<1>1. /\ Len(out) \in Nat /\ DOMAIN out = 1..Len(out) /\ DOMAIN out' = 1..(Len(out) + 2)
      /\ out'[Len(out) + 1] = Asked(r) /\ out'[Len(out) + 2] = Cancelled({r})
      /\ \A i \in DOMAIN out : out'[i] = out[i]
  BY <1>0
<1>2. /\ \A i \in DOMAIN out' : i \in DOMAIN out \/ i = Len(out) + 1 \/ i = Len(out) + 2
      /\ DOMAIN out \subseteq DOMAIN out' /\ Len(out) + 2 \in DOMAIN out'
      /\ \A i \in DOMAIN out : Len(out) + 2 > i
      /\ Len(out) + 2 > Len(out) + 1
  BY <1>1
<1>3. /\ Cancelled({r}) # Asked(q) /\ ~Takes(Asked(r), q)
      /\ (q # r => Asked(r) # Asked(q) /\ ~Takes(Cancelled({r}), q))
      /\ (q = r => Takes(Cancelled({r}), q))
  BY DEF Cancelled, Asked, Takes
<1> HIDE DEF Takes
<1>4. q = r => AskCleared(q)' /\ Taken(q)'
  BY <1>1, <1>2, <1>3 DEF AskCleared, Taken, Asked
<1>5. q # r => (Sent(q)' <=> Sent(q))
  BY <1>1, <1>2, <1>3 DEF Sent, Asked
<1>6. q # r => (AskCleared(q) => AskCleared(q)')
  BY <1>1, <1>2, <1>3 DEF AskCleared, Asked
<1>7. q # r => (Taken(q) => Taken(q)')
  BY <1>1, <1>2, <1>3 DEF Taken
<1> QED
  BY <1>4, <1>5, <1>6, <1>7

LEMMA RepliesMove ==
    ASSUME TypeOK, NEW r \in Request
    PROVE  /\ \A m \in Reply : answers' = Append(answers, m)
                  => (Answered(r)' <=> Answered(r) \/ m.id = r)
           /\ answers # <<>> /\ answers' = Tail(answers)
                  => /\ Answered(r)' => Answered(r)
                     /\ Answered(r) => Answered(r)' \/ Head(answers).id = r
                     /\ Head(answers).id = r => Answered(r)
<1>0. answers \in Seq(Reply)
  BY QueuesTyped
<1>1. ASSUME NEW m \in Reply, answers' = Append(answers, m)
      PROVE  Answered(r)' <=> Answered(r) \/ m.id = r
  <2>1. /\ Len(answers) \in Nat /\ DOMAIN answers = 1..Len(answers)
        /\ DOMAIN answers' = 1..(Len(answers) + 1)
        /\ answers'[Len(answers) + 1] = m /\ \A i \in DOMAIN answers : answers'[i] = answers[i]
    BY <1>0, <1>1
  <2>2. /\ \A i \in DOMAIN answers' : i \in DOMAIN answers \/ i = Len(answers) + 1
        /\ DOMAIN answers \subseteq DOMAIN answers' /\ Len(answers) + 1 \in DOMAIN answers'
    BY <2>1
  <2> QED
    BY <2>1, <2>2 DEF Answered
<1>2. ASSUME answers # <<>>, answers' = Tail(answers)
      PROVE  /\ Answered(r)' => Answered(r)
             /\ Answered(r) => Answered(r)' \/ Head(answers).id = r
             /\ Head(answers).id = r => Answered(r)
  <2>1. Len(answers) \in Nat /\ Len(answers) > 0 /\ DOMAIN answers = 1..Len(answers)
        /\ DOMAIN answers' = 1..(Len(answers) - 1)
    BY <1>0, <1>2
  <2>2. Head(answers) = answers[1] /\ \A i \in DOMAIN answers' : answers'[i] = answers[i + 1]
    BY <1>0, <1>2, <2>1
  <2>3. /\ \A i \in DOMAIN answers' : i + 1 \in DOMAIN answers
        /\ \A i \in DOMAIN answers :
               i = 1 \/ (i - 1 \in DOMAIN answers' /\ answers'[i - 1] = answers[i])
        /\ 1 \in DOMAIN answers
    BY <2>1, <2>2
  <2> QED
    BY <2>2, <2>3 DEF Answered
<1> QED
  BY <1>1, <1>2

(* A step that leaves what the page hears of a request alone.                *)
PageSame(r) ==
    /\ ask'[r] = ask[r] /\ future'[r] = future[r] /\ response'[r] = response[r]
    /\ (r \in payload' <=> r \in payload) /\ (r \in notified' <=> r \in notified)
    /\ (r \in owed' <=> r \in owed) /\ (r \in prompts' <=> r \in prompts)
    /\ (r \in resend' <=> r \in resend) /\ (Answered(r)' <=> Answered(r))
    /\ (Sent(r)' <=> Sent(r)) /\ (AskCleared(r) => AskCleared(r)') /\ (Taken(r) => Taken(r)')
    /\ due' = due /\ link' = link /\ (stopped => stopped') /\ (r \in stray => r \in stray')

LEMMA PageKept ==
    ASSUME NEW r \in Request, PageLane(r), PageSame(r) PROVE PageLane(r)'
<1> USE DEF PageSame, PageLane
<1>1. Unknown(r)' /\ Told(r)'
  BY DEF Unknown, Told
<1>2. Shown(r)' /\ AnsweredOnce(r)'
  BY DEF Shown, Unsettled, Coming, AnsweredOnce
<1>3. Cleared(r)'
  BY DEF Cleared, SettledNow
<1> QED
  BY <1>1, <1>2, <1>3

(* A step that sends nothing and takes no command leaves the words alone.    *)
LEMMA WordsKept ==
    ASSUME NEW r \in Request, UNCHANGED <<out, answers>>
    PROVE  /\ Sent(r)' <=> Sent(r)
           /\ AskCleared(r)' <=> AskCleared(r)
           /\ Taken(r)' <=> Taken(r)
           /\ Answered(r)' <=> Answered(r)
BY DEF Sent, AskCleared, Taken, Answered

LEMMA OutNamedStep == TypeOK /\ OutNamed /\ [Next]_vars => OutNamed'
<1> SUFFICES ASSUME TypeOK, OutNamed, [Next]_vars PROVE OutNamed'
  OBVIOUS
<1>0. out \in Seq(Message)
  BY QueuesTyped
<1>1. ASSUME out' = out, notified \subseteq notified' PROVE OutNamed'
  BY <1>1 DEF OutNamed
<1>2. ASSUME NEW m \in Message, out' = Append(out, m), notified \subseteq notified',
             \/ \E r \in Request : m = Asked(r)
             \/ m.type = "approval.cancelled" /\ m.ids \subseteq notified'
      PROVE  OutNamed'
  <2>1. DOMAIN out = 1..Len(out) /\ DOMAIN out' = 1..(Len(out) + 1) /\ Len(out) \in Nat
        /\ out'[Len(out) + 1] = m /\ \A i \in DOMAIN out : out'[i] = out[i]
    BY <1>0, <1>2
  <2>2. \A i \in DOMAIN out' : i \in DOMAIN out \/ i = Len(out) + 1
    BY <2>1
  <2> QED
    BY <1>2, <2>1, <2>2 DEF OutNamed
<1>3. ASSUME NEW r \in Request, out' = Append(out, Asked(r)), UNCHANGED notified PROVE OutNamed'
  BY <1>2, <1>3, MessagesTyped
<1>4. ASSUME NEW S \in SUBSET Request, Notice(S) PROVE OutNamed'
  <2>1. Cancelled(S \ notified) \in Message /\ Cancelled(S \ notified).type = "approval.cancelled"
        /\ Cancelled(S \ notified).ids \subseteq notified'
    BY <1>4, MessagesTyped DEF Cancelled, Notice
  <2> QED
    BY <1>1, <1>2, <1>4, <2>1 DEF Notice
<1>5. ASSUME NEW r \in Request, Emit(r) PROVE OutNamed'
  <2>1. CASE out' = Append(out, Asked(r)) /\ UNCHANGED notified
    BY <1>3, <2>1
  <2>2. CASE out' = out \o <<Asked(r), Cancelled({r})>> /\ notified' = notified \cup {r}
    <3>1. DOMAIN out = 1..Len(out) /\ DOMAIN out' = 1..(Len(out) + 2) /\ Len(out) \in Nat
          /\ out'[Len(out) + 1] = Asked(r) /\ out'[Len(out) + 2] = Cancelled({r})
          /\ \A i \in DOMAIN out : out'[i] = out[i]
      BY <1>0, <2>2
    <3>2. \A i \in DOMAIN out' : i \in DOMAIN out \/ i = Len(out) + 1 \/ i = Len(out) + 2
      BY <3>1
    <3>3. Cancelled({r}).type = "approval.cancelled" /\ Cancelled({r}).ids \subseteq notified'
      BY <2>2 DEF Cancelled
    <3> QED
      BY <2>2, <3>1, <3>2, <3>3 DEF OutNamed
  <2> QED
    BY <1>5, <2>1, <2>2 DEF Emit
<1>6. ASSUME NEW r \in Request,
             \/ StoppedBeforeWait(r) \/ OutOfTime(r) \/ TakeResponse(r) \/ BeginWait(r) \/ Leave(r)
      PROVE  OutNamed'
  BY <1>1, <1>6 DEF StoppedBeforeWait, OutOfTime, TakeResponse, BeginWait, Leave, notices
<1>7. ASSUME NEW r \in Request, Resume(r) \/ Interrupted(r) \/ Expire(r) PROVE OutNamed'
  BY <1>1, <1>4, <1>7 DEF Resume, Interrupted, Expire, Halt
<1>8. ASSUME NEW r \in Request, Resend(r) PROVE OutNamed'
  BY <1>3, <1>8 DEF Resend, notices
<1>9. ASSUME NEW r \in Request, NEW v \in Decision, Answer(r, v) PROVE OutNamed'
  BY <1>1, <1>9 DEF Answer, notices
<1>10. ASSUME NEW S \in SUBSET (Request \ Elicit), AutoApprove(S) PROVE OutNamed'
  BY <1>4, <1>10 DEF AutoApprove
<1>11. CASE SteerReject \/ NotifyCancelled
  <2>1. payload \in SUBSET Request /\ owed \in SUBSET Request
    BY DEF TypeOK
  <2> QED
    BY <1>4, <1>11, <2>1 DEF SteerReject, NotifyCancelled
<1>12. CASE Deliver \/ CancelRun \/ Disconnect \/ Reconnect \/ Reemit \/ UNCHANGED vars
  BY <1>1, <1>12 DEF Deliver, CancelRun, Disconnect, Reconnect, Restored, Reemit, notices, vars
<1>13. CASE Reload \/ ReconnectWithoutReplay
  BY <1>13 DEF Reload, ReconnectWithoutReplay, OutNamed
<1>14. CASE Receive
  <2>1. out # <<>> /\ out' = Tail(out) /\ UNCHANGED notified
    BY <1>14 DEF Receive, notices
  <2>2. DOMAIN out = 1..Len(out) /\ DOMAIN out' = 1..(Len(out) - 1) /\ Len(out) \in Nat
        /\ \A i \in DOMAIN out' : out'[i] = out[i + 1] /\ i + 1 \in DOMAIN out
    BY <1>0, <2>1
  <2> QED
    BY <2>1, <2>2 DEF OutNamed
<1> QED
  BY <1>5, <1>6, <1>7, <1>8, <1>9, <1>10, <1>11, <1>12, <1>13, <1>14 DEF Next

(* A coroutine's step on its request: the page of the others is the same.    *)
LEMMA AskerStep ==
    ASSUME TypeOK, NEW r \in Request, Lane(r), PageLane(r),
           \/ Emit(r) \/ StoppedBeforeWait(r) \/ OutOfTime(r) \/ TakeResponse(r) \/ BeginWait(r)
           \/ Resume(r) \/ Interrupted(r) \/ Expire(r) \/ Leave(r),
           NEW q \in Request, PageLane(q)
    PROVE  PageLane(q)'
<1> USE DEF PageLane
<1>1. CASE Emit(r)
  <2>1. /\ ask[r] = "new" /\ payload' = payload \cup {r}
        /\ UNCHANGED <<response, owed, prompts, answers, stray, resend, due, link, stopped>>
        /\ ask'[r] # "new" /\ \A p \in Request \ {r} : ask'[p] = ask[p] /\ future'[p] = future[p]
    BY <1>1 DEF Emit, server, page, ghosts, TypeOK
  <2>2. r \notin prompts /\ r \notin resend /\ r \notin notified /\ r \notin owed /\ ~Sent(r)
        /\ ~Answered(r) /\ response[r] = "none" /\ future[r] = "none"
    BY <2>1 DEF Unknown, Lane, Fresh, AtRest
  <2>3. Answered(q)' <=> Answered(q)
    BY <2>1 DEF Answered
  <2>4. CASE out' = Append(out, Asked(r)) /\ UNCHANGED notified /\ ask'[r] \in {"asked", "waiting"}
             /\ future'[r] \in {"none", "pending"}
    <3>1. q # r => Asked(r) # Asked(q)
      BY DEF Asked
    <3>2. ~Takes(Asked(r), q)
      BY DEF Takes, Asked
    <3>3. CASE q # r
      <4>1. PageSame(q)
        BY <2>1, <2>3, <2>4, <3>1, <3>2, <3>3, MessagesTyped, Appended DEF PageSame
      <4> QED
        BY <4>1, PageKept
    <3>4. CASE q = r
      <4>1. Sent(r)'
        BY <2>4, MessagesTyped, Appended
      <4>2. ~SettledNow(r)'
        BY <2>1, <2>2, <2>4 DEF SettledNow, Decision
      <4> QED
        BY <2>1, <2>2, <2>3, <2>4, <3>4, <4>1, <4>2
        DEF Unknown, Told, Shown, Coming, AnsweredOnce, Cleared
    <3> QED
      BY <3>3, <3>4
  <2>5. CASE out' = out \o <<Asked(r), Cancelled({r})>> /\ notified' = notified \cup {r}
             /\ ask'[r] = "leaving"
    <3>1. CASE q # r
      <4>1. PageSame(q)
        BY <2>1, <2>3, <2>5, <3>1, GivenUp DEF PageSame
      <4> QED
        BY <4>1, PageKept
    <3>2. CASE q = r
      <4>1. AskCleared(r)' /\ Taken(r)'
        BY <2>5, GivenUp
      <4> QED
        BY <2>1, <2>2, <2>3, <2>5, <3>2, <4>1
        DEF Unknown, Told, Shown, Unsettled, AnsweredOnce, Cleared
    <3> QED
      BY <3>1, <3>2
  <2>6. future'[r] \in {"none", "pending"}
    BY <1>1, <2>2 DEF Emit, TypeOK
  <2> QED
    BY <1>1, <2>4, <2>5, <2>6 DEF Emit, TypeOK
<1>2. CASE StoppedBeforeWait(r) \/ OutOfTime(r) \/ TakeResponse(r) \/ BeginWait(r) \/ Leave(r)
  <2>1. UNCHANGED <<out, answers, notified, owed, prompts, resend, due, link, stopped, stray>>
    BY <1>2 DEF StoppedBeforeWait, OutOfTime, TakeResponse, BeginWait, Leave, notices, server, page,
       ghosts
  <2>2. /\ Sent(q)' <=> Sent(q)
        /\ AskCleared(q)' <=> AskCleared(q)
        /\ Taken(q)' <=> Taken(q)
        /\ Answered(q)' <=> Answered(q)
    BY <2>1, WordsKept
  <2>3. CASE q # r
    <3>1. PageSame(q)
      BY <1>2, <2>1, <2>2, <2>3 DEF PageSame, StoppedBeforeWait, OutOfTime, TakeResponse, BeginWait,
         Leave, Return, Forget, table, askers, TypeOK
    <3> QED
      BY <3>1, PageKept
  <2>4. ASSUME q = r, ask[r] # "new", ask'[r] = "done", payload' \subseteq payload,
               SettledNow(r)' => SettledNow(r)
        PROVE  PageLane(q)'
    BY <2>1, <2>2, <2>4 DEF Unknown, Told, Shown, Unsettled, AnsweredOnce, Cleared
  <2>5. CASE q = r /\ (StoppedBeforeWait(r) \/ OutOfTime(r))
    <3>1. ask[r] # "new" /\ ask'[r] = "done" /\ UNCHANGED <<payload, response, future>>
      BY <2>5 DEF StoppedBeforeWait, OutOfTime, Return, table, TypeOK
    <3> QED
      BY <2>1, <2>4, <2>5, <3>1 DEF SettledNow
  <2>6. CASE q = r /\ (TakeResponse(r) \/ Leave(r))
    <3>1. ask[r] # "new" /\ ask'[r] = "done" /\ payload' \subseteq payload
      BY <2>6 DEF TakeResponse, CanWait, Leave, Return, Forget, TypeOK
    <3>2. SettledNow(r)
      BY <2>6 DEF SettledNow, TakeResponse, Leave, Told
    <3> QED
      BY <2>4, <2>6, <3>1, <3>2
  <2>7. CASE q = r /\ BeginWait(r)
    <3>1. ask[r] = "asked" /\ ask'[r] = "waiting" /\ future'[r] = "pending"
          /\ response[r] = "none" /\ UNCHANGED <<payload, response>>
          /\ (r \in payload \/ r \in Side)
      BY <2>7 DEF BeginWait, CanWait, TypeOK, Told, Request, Run
    <3>2. SettledNow(r)' => SettledNow(r)
      BY <2>1, <3>1 DEF SettledNow, Decision
    <3> QED
      BY <2>1, <2>2, <2>7, <3>1, <3>2
      DEF Unknown, Told, Shown, Unsettled, Coming, AnsweredOnce, Cleared
  <2> QED
    BY <1>2, <2>3, <2>5, <2>6, <2>7
<1>3. CASE Resume(r) /\ r \notin Elicit
  <2>1. UNCHANGED <<out, answers, notified, owed, prompts, resend, due, link, stopped, stray>>
    BY <1>3 DEF Resume, server, page
  <2>2. /\ Sent(q)' <=> Sent(q)
        /\ AskCleared(q)' <=> AskCleared(q)
        /\ Taken(q)' <=> Taken(q)
        /\ Answered(q)' <=> Answered(q)
    BY <2>1, WordsKept
  <2>3. CASE q # r
    <3>1. PageSame(q)
      BY <1>3, <2>1, <2>2, <2>3 DEF PageSame, Resume, Return, Forget, TypeOK
    <3> QED
      BY <3>1, PageKept
  <2>4. CASE q = r
    <3>1. ask[r] # "new" /\ ask'[r] = "done" /\ payload' \subseteq payload /\ SettledNow(r)
      BY <1>3 DEF Resume, Return, Forget, TypeOK, SettledNow
    <3> QED
      BY <2>1, <2>2, <2>4, <3>1 DEF Unknown, Told, Shown, Unsettled, AnsweredOnce, Cleared
  <2> QED
    BY <2>3, <2>4
<1>4. CASE (Resume(r) /\ r \in Elicit) \/ Interrupted(r) \/ Expire(r)
  <2>1. /\ Notice({r}) /\ UNCHANGED <<payload, response, answers, owed, prompts, resend, due, link, stopped, stray>>
        /\ ask[r] = "waiting" /\ ask'[r] = "leaving"
        /\ \A p \in Request \ {r} : ask'[p] = ask[p] /\ future'[p] = future[p]
    BY <1>4 DEF Resume, Interrupted, Expire, Halt, Return, table, server, page, TypeOK
  <2>2. /\ Sent(q)' <=> Sent(q)
        /\ AskCleared(q) => AskCleared(q)'
        /\ Taken(q) => Taken(q)'
        /\ q \in notified' <=> q \in notified \/ q = r
        /\ q = r /\ q \notin notified => AskCleared(q)' /\ Taken(q)'
    BY <2>1, NoticeMoves
  <2>3. Answered(q)' <=> Answered(q)
    BY <2>1 DEF Answered
  <2>4. CASE q # r
    <3>1. PageSame(q)
      BY <2>1, <2>2, <2>3, <2>4 DEF PageSame
    <3> QED
      BY <3>1, PageKept
  <2>5. CASE q = r
    <3>1. r \in notified => SettledNow(r)
      BY DEF SettledNow
    <3> QED
      BY <2>1, <2>2, <2>3, <2>5, <3>1 DEF Unknown, Told, Shown, Unsettled, AnsweredOnce, Cleared
  <2> QED
    BY <2>4, <2>5
<1> QED
  BY <1>1, <1>2, <1>3, <1>4

(* A pending request that is settled has a decision.                         *)
LEMMA ResolvedIsSettled ==
    ASSUME TypeOK, NEW S \in SUBSET payload, NEW v \in Decision, Resolve(S, v),
           UNCHANGED <<ask, payload>>, NEW r \in Request, Lane(r)
    PROVE  IF r \in S THEN ~Unsettled(r)' /\ (Unsettled(r) => SettledNow(r)')
           ELSE future'[r] = future[r] /\ response'[r] = response[r]
<1>1. CASE r \in S
  <2>1. /\ future'[r] = IF Pending(r) THEN v ELSE future[r]
        /\ response'[r] = IF Pending(r) THEN response[r] ELSE v
    BY <1>1 DEF Resolve
  <2>2. v # "none" /\ v # "pending" /\ v \in Decision \cup {"cancelled"}
    BY DEF Decision
  <2>3. ask[r] = "asked" => ~Pending(r)
    BY DEF Lane, HandOff, AtRest, Pending
  <2>4. ask[r] = "waiting" /\ future[r] = "pending" => Pending(r)
    BY DEF Lane, Awaiting, Pending
  <2> QED
    BY <1>1, <2>1, <2>2, <2>3, <2>4 DEF Unsettled, SettledNow
<1>2. CASE r \notin S
  BY <1>2 DEF Resolve
<1> QED
  BY <1>1, <1>2

LEMMA SettleStep ==
    ASSUME TypeOK, \A p \in Request : Lane(p),
           \/ Deliver \/ SteerReject \/ CancelRun \/ NotifyCancelled
           \/ \E S \in SUBSET (Request \ Elicit) : AutoApprove(S),
           NEW r \in Request, PageLane(r)
    PROVE  PageLane(r)'
<1> USE DEF PageLane
<1>0. Lane(r)
  OBVIOUS
<1>1. ASSUME NEW S \in SUBSET payload, NEW v \in Decision, Resolve(S, v), Notice(S),
             UNCHANGED <<ask, payload, answers, owed, prompts, resend, due, link, stopped, stray>>
      PROVE  PageLane(r)'
  <2>0. S \in SUBSET Request
    BY <1>1 DEF TypeOK
  <2>1. /\ Sent(r)' <=> Sent(r)
        /\ AskCleared(r) => AskCleared(r)'
        /\ Taken(r) => Taken(r)'
        /\ r \in notified' <=> r \in notified \/ r \in S
        /\ r \in S /\ r \notin notified => AskCleared(r)' /\ Taken(r)'
    BY <1>1, <2>0, NoticeMoves
  <2>2. Answered(r)' <=> Answered(r)
    BY <1>1 DEF Answered
  <2>3. CASE r \in S
    <3>1. ~Unsettled(r)' /\ ask[r] # "new"
      BY <1>0, <1>1, <2>3, ResolvedIsSettled DEF Lane, Fresh
    <3>2. r \in notified => SettledNow(r)
      BY DEF SettledNow
    <3>3. ask[r] = "waiting" /\ future'[r] = "pending" => FALSE
      BY <1>1, <3>1 DEF Unsettled
    <3> QED
      BY <1>1, <2>1, <2>2, <2>3, <3>1, <3>2, <3>3 DEF Unknown, Told, Shown, AnsweredOnce, Cleared
  <2>4. CASE r \notin S
    <3>1. PageSame(r)
      BY <1>0, <1>1, <2>1, <2>2, <2>4, ResolvedIsSettled DEF PageSame
    <3> QED
      BY <3>1, PageKept
  <2> QED
    BY <2>3, <2>4
<1>2. ASSUME NEW S \in SUBSET (Request \ Elicit), AutoApprove(S) PROVE PageLane(r)'
  <2>1. S \in SUBSET payload /\ "approve" \in Decision
    BY <1>2 DEF AutoApprove, Decision
  <2> QED
    BY <1>1, <1>2, <2>1 DEF AutoApprove, server, page
<1>3. CASE SteerReject
  <2>1. payload \in SUBSET payload /\ "reject" \in Decision
    BY DEF Decision
  <2> QED
    BY <1>1, <1>3, <2>1 DEF SteerReject, server, page
<1>4. CASE Deliver
  <2> DEFINE a == Head(answers)
             S == {a.id} \cap payload
  <2>1. a \in Reply /\ answers # <<>> /\ answers' = Tail(answers)
    BY <1>4, QueuesTyped DEF Deliver
  <2>2. Resolve(S, a.value) /\ S \in SUBSET payload /\ a.value \in Decision
        /\ UNCHANGED <<payload, ask, notified, owed, stopped, due, resend, out, link, prompts, stray>>
    BY <1>4, <2>1 DEF Deliver, Reply, notices, server
  <2>3. /\ Answered(r)' => Answered(r)
        /\ Answered(r) => Answered(r)' \/ a.id = r
        /\ a.id = r => Answered(r)
    BY <2>1, RepliesMove
  <2>4. /\ Sent(r)' <=> Sent(r)
        /\ AskCleared(r)' <=> AskCleared(r)
        /\ Taken(r)' <=> Taken(r)
    BY <2>2 DEF Sent, AskCleared, Taken
  <2> HIDE DEF a
  <2>5. CASE r = a.id /\ r \in payload
    <3>1. ~Unsettled(r)' /\ ask[r] # "new"
      BY <1>0, <2>2, <2>5, ResolvedIsSettled DEF Lane, Fresh
    <3>2. ask[r] = "waiting" /\ future'[r] = "pending" => FALSE
      BY <2>2, <3>1 DEF Unsettled
    <3>3. r \in stray \/ (r \notin prompts /\ AskCleared(r))
      BY <2>3, <2>5 DEF AnsweredOnce, Sent, AskCleared
    <3> QED
      BY <2>2, <2>3, <2>4, <3>1, <3>2, <3>3 DEF Unknown, Told, Shown, AnsweredOnce, Cleared
  <2>6. CASE ~(r = a.id /\ r \in payload)
    <3>1. future'[r] = future[r] /\ response'[r] = response[r]
      BY <1>0, <2>2, <2>6, ResolvedIsSettled
    <3>2. SettledNow(r)' => SettledNow(r)
      BY <2>2, <3>1 DEF SettledNow
    <3>3. Unsettled(r)' => Unsettled(r)
      BY <2>2, <3>1 DEF Unsettled
    <3>4. r \in payload /\ Coming(r) => Coming(r)'
      BY <2>2, <2>3, <2>4, <2>6 DEF Coming
    <3> QED
      BY <2>2, <2>3, <2>4, <3>1, <3>2, <3>3, <3>4 DEF Unknown, Told, Shown, AnsweredOnce, Cleared
  <2> QED
    BY <2>5, <2>6
<1>5. CASE CancelRun
  <2>1. /\ payload' = {} /\ owed' = owed \cup payload /\ stopped'
        /\ future'[r] = IF r \in payload /\ Pending(r) THEN "cancelled" ELSE future[r]
        /\ UNCHANGED <<ask, notified, due, resend, out, link, prompts, answers, stray>>
    BY <1>5 DEF CancelRun, Cancelling, page
  <2>2. /\ Sent(r)' <=> Sent(r)
        /\ AskCleared(r)' <=> AskCleared(r)
        /\ Taken(r)' <=> Taken(r)
        /\ Answered(r)' <=> Answered(r)
    BY <2>1, WordsKept
  <2>3. r \in payload => ask[r] # "new"
    BY <1>0 DEF Lane, Fresh
  <2>4. ask[r] = "waiting" /\ future'[r] = "pending" => r \notin payload
    BY <1>0, <2>1 DEF Lane, Awaiting, Pending
  <2>5. r \notin payload \/ r \in notified => SettledNow(r)
    BY DEF SettledNow
  <2> QED
    BY <2>1, <2>2, <2>3, <2>4, <2>5 DEF Unknown, Told, Shown, AnsweredOnce, Cleared
<1>6. CASE NotifyCancelled
  <2>1. /\ owed' = {} /\ Notice(owed) /\ owed \in SUBSET Request
        /\ UNCHANGED <<ask, future, response, payload, stopped, due, resend, link, prompts, answers, stray>>
    BY <1>6 DEF NotifyCancelled, table, askers, server, page, ghosts, TypeOK
  <2>2. /\ Sent(r)' <=> Sent(r)
        /\ AskCleared(r) => AskCleared(r)'
        /\ Taken(r) => Taken(r)'
        /\ r \in notified' <=> r \in notified \/ r \in owed
        /\ r \in owed /\ r \notin notified => AskCleared(r)' /\ Taken(r)'
    BY <2>1, NoticeMoves
  <2>3. Answered(r)' <=> Answered(r)
    BY <2>1 DEF Answered
  <2>4. CASE r \in owed
    <3>1. r \notin payload /\ ask[r] # "new" /\ SettledNow(r)
      BY <2>4 DEF Told, Unknown, SettledNow
    <3> QED
      BY <2>1, <2>2, <2>3, <2>4, <3>1 DEF Unknown, Told, Shown, AnsweredOnce, Cleared
  <2>5. CASE r \notin owed
    <3>1. PageSame(r)
      BY <2>1, <2>2, <2>3, <2>5 DEF PageSame
    <3> QED
      BY <3>1, PageKept
  <2> QED
    BY <2>4, <2>5
<1> QED
  BY <1>2, <1>3, <1>4, <1>5, <1>6

(* The connection and the page.                                              *)
LEMMA ConnectionStep ==
    ASSUME TypeOK, \A p \in Request : Lane(p),
           \/ Disconnect \/ Reload \/ Reconnect \/ ReconnectWithoutReplay \/ Reemit \/ Receive
           \/ \E p \in Request : Resend(p) \/ \E v \in Decision : Answer(p, v),
           OutNamed, NEW r \in Request, PageLane(r)
    PROVE  PageLane(r)'
<1> USE DEF PageLane
<1>0. r \in payload => ask[r] # "new"
  BY DEF Lane, Fresh
<1>1. CASE Disconnect
  <2>1. UNCHANGED <<table, askers, notices, server, out, prompts, answers, ghosts>> /\ link' = "off"
    BY <1>1 DEF Disconnect
  <2>2. /\ Sent(r)' <=> Sent(r)
        /\ AskCleared(r)' <=> AskCleared(r)
        /\ Taken(r)' <=> Taken(r)
        /\ Answered(r)' <=> Answered(r)
    BY <2>1, WordsKept
  <2> QED
    BY <2>1, <2>2 DEF Unknown, Told, Shown, Unsettled, Coming, AnsweredOnce, Cleared, SettledNow,
       table, askers, notices, server, ghosts
<1>2. CASE Reload
  <2>1. /\ UNCHANGED <<table, askers, notices, server, ghosts>> /\ link' = "new"
        /\ prompts' = {} /\ answers' = <<>> /\ out' = <<>>
    BY <1>2 DEF Reload
  <2>2. ~Sent(r)' /\ AskCleared(r)' /\ ~Answered(r)'
    BY <2>1 DEF Sent, AskCleared, Answered
  <2> QED
    BY <2>1, <2>2 DEF Unknown, Told, Shown, Unsettled, Coming, AnsweredOnce, Cleared, SettledNow,
       table, askers, notices, server, ghosts
<1>3. CASE Reconnect
  <2>1. /\ UNCHANGED <<table, askers, notices, stopped, resend, prompts, answers, out, stray>>
        /\ due' = TRUE
    BY <1>3 DEF Reconnect, Restored
  <2>2. /\ Sent(r)' <=> Sent(r)
        /\ AskCleared(r)' <=> AskCleared(r)
        /\ Taken(r)' <=> Taken(r)
        /\ Answered(r)' <=> Answered(r)
    BY <2>1, WordsKept
  <2> QED
    BY <2>1, <2>2 DEF Unknown, Told, Shown, Unsettled, Coming, AnsweredOnce, Cleared, SettledNow,
       table, askers, notices
<1>4. CASE ReconnectWithoutReplay
  <2>1. /\ UNCHANGED <<table, askers, notices, stopped, resend, prompts, answers>>
        /\ due' = TRUE /\ out' = <<>> /\ stray \subseteq stray'
        /\ (r \in prompts /\ Taken(r) => r \in stray')
    BY <1>4 DEF ReconnectWithoutReplay, Restored, Taken, Takes
  <2>2. ~Sent(r)' /\ AskCleared(r)' /\ (Answered(r)' <=> Answered(r))
    BY <2>1 DEF Sent, AskCleared, Answered
  <2> QED
    BY <2>1, <2>2 DEF Unknown, Told, Shown, Unsettled, Coming, AnsweredOnce, Cleared, SettledNow,
       table, askers, notices
<1>5. CASE Reemit
  <2>1. /\ UNCHANGED <<table, askers, notices, stopped, out, prompts, answers, link, ghosts>>
        /\ resend' = payload
    BY <1>5 DEF Reemit, page
  <2>2. /\ Sent(r)' <=> Sent(r)
        /\ AskCleared(r)' <=> AskCleared(r)
        /\ Taken(r)' <=> Taken(r)
        /\ Answered(r)' <=> Answered(r)
    BY <2>1, WordsKept
  <2> QED
    BY <1>0, <2>1, <2>2 DEF Unknown, Told, Shown, Unsettled, Coming, AnsweredOnce, Cleared,
       SettledNow, table, askers, notices, ghosts
<1>6. CASE Receive
  <2> DEFINE m == Head(out)
  <2>1. /\ out # <<>> /\ out' = Tail(out) /\ link = "on"
        /\ prompts' = IF m.type = "control_request" THEN prompts \cup m.ids ELSE prompts \ m.ids
        /\ UNCHANGED <<table, askers, notices, server, link, answers, ghosts>>
    BY <1>6 DEF Receive
  <2>2. \/ \E p \in Request : m = Asked(p)
        \/ m.type = "approval.cancelled" /\ m.ids \subseteq notified
    BY <2>1, QueuesTyped DEF OutNamed
  <2>3. /\ Sent(r)' => Sent(r)
        /\ Sent(r) => Sent(r)' \/ m = Asked(r)
        /\ Taken(r) => Taken(r)' \/ Takes(m, r)
        /\ AskCleared(r) => AskCleared(r)'
        /\ AskCleared(r) /\ m = Asked(r) => Taken(r)'
        /\ Answered(r)' <=> Answered(r)
    BY <2>1, Shortened DEF Answered
  <2>4. m = Asked(r) => Sent(r) /\ r \in prompts'
    <3>1. out[1] = m /\ 1 \in DOMAIN out
      BY <2>1, QueuesTyped
    <3> QED
      BY <2>1, <3>1 DEF Sent, Asked
  <2>5. r \in prompts' => r \in prompts \/ m = Asked(r)
    BY <2>1, <2>2 DEF Asked
  <2>6. Takes(m, r) => r \notin prompts' /\ r \in notified
    BY <2>1, <2>2 DEF Takes, Asked
  <2>7. r \in prompts => r \in prompts' \/ Takes(m, r)
    BY <2>1, <2>2 DEF Takes, Asked
  <2> HIDE DEF m, Takes
  <2>8. Unknown(r)' /\ Told(r)'
    BY <2>1, <2>3, <2>4, <2>5 DEF Unknown, Told, table, askers, notices, server
  <2>9. Shown(r)'
    BY <2>1, <2>3, <2>4, <2>6, <2>7 DEF Shown, Unsettled, Coming, table, askers, notices, server
  <2>10. AnsweredOnce(r)'
    BY <2>1, <2>3, <2>4, <2>5 DEF AnsweredOnce, ghosts
  <2>11. Cleared(r)'
    BY <2>1, <2>3, <2>5, <2>6 DEF Cleared, SettledNow, table, askers, notices, ghosts
  <2> QED
    BY <2>8, <2>9, <2>10, <2>11
<1>7. ASSUME NEW p \in Request, Resend(p) PROVE PageLane(r)'
  <2>1. /\ p \in resend /\ resend' = resend \ {p} /\ out' = Append(out, Asked(p))
        /\ stray' = (IF Settled(p) THEN stray \cup {p} ELSE stray)
        /\ UNCHANGED <<table, askers, notices, stopped, due, link, prompts, answers>>
    BY <1>7 DEF Resend, page
  <2>2. /\ p = r => Sent(r)'
        /\ p # r => (Sent(r)' <=> Sent(r)) /\ (AskCleared(r) => AskCleared(r)') /\ (Taken(r) => Taken(r)')
        /\ Answered(r)' <=> Answered(r)
    <3>1. Asked(p) \in Message /\ (p # r => Asked(p) # Asked(r)) /\ ~Takes(Asked(p), r)
      BY MessagesTyped DEF Asked, Takes
    <3> QED
      BY <2>1, <3>1, Appended DEF Answered
  <2>3. CASE p # r
    <3>1. PageSame(r)
      BY <2>1, <2>2, <2>3 DEF PageSame, table, askers, notices
    <3> QED
      BY <3>1, PageKept
  <2>4. CASE p = r
    <3>1. SettledNow(r) \/ Answered(r) => r \in stray'
      BY <2>1, <2>4 DEF SettledNow, Settled
    <3>2. SettledNow(r)' <=> SettledNow(r)
      BY <2>1 DEF SettledNow, table, askers, notices
    <3> QED
      BY <2>1, <2>2, <2>4, <3>1, <3>2 DEF Unknown, Told, Shown, Unsettled, Coming, AnsweredOnce,
         Cleared, table, askers, notices
  <2> QED
    BY <2>3, <2>4
<1>8. ASSUME NEW p \in Request, NEW v \in Decision, Answer(p, v) PROVE PageLane(r)'
  <2> DEFINE a == [id |-> p, value |-> v]
  <2>1. /\ p \in prompts /\ prompts' = prompts \ {p} /\ answers' = Append(answers, a)
        /\ stray' = (IF p \in resend \/ Sent(p) THEN stray \cup {p} ELSE stray)
        /\ UNCHANGED <<table, askers, notices, server, out, link>>
    BY <1>8 DEF Answer
  <2>2. Answered(r)' <=> Answered(r) \/ p = r
    <3>1. a \in Reply /\ a.id = p
      BY DEF Reply
    <3> QED
      BY <2>1, <3>1, RepliesMove
  <2>3. /\ Sent(r)' <=> Sent(r)
        /\ AskCleared(r)' <=> AskCleared(r)
        /\ Taken(r)' <=> Taken(r)
    BY <2>1 DEF Sent, AskCleared, Taken
  <2>4. SettledNow(r)' <=> SettledNow(r)
    BY <2>1 DEF SettledNow, table, askers, notices
  <2> QED
    BY <2>1, <2>2, <2>3, <2>4 DEF Unknown, Told, Shown, Unsettled, Coming, AnsweredOnce, Cleared,
       table, askers, notices, server
<1> QED
  BY <1>1, <1>2, <1>3, <1>4, <1>5, <1>6, <1>7, <1>8

LEMMA PageInit == Init => PageInv
<1> SUFFICES ASSUME Init PROVE PageInv
  OBVIOUS
<1>1. OutNamed
  BY DEF Init, OutNamed
<1>2. ASSUME NEW r \in Request PROVE PageLane(r)
  <2>1. ~Sent(r) /\ ~Answered(r) /\ ask[r] = "new" /\ r \notin payload
    BY DEF Init, Sent, Answered
  <2> QED
    BY <2>1 DEF Init, PageLane, Unknown, Told, Shown, AnsweredOnce, Cleared
<1> QED
  BY <1>1, <1>2 DEF PageInv

LEMMA PageStep == IInv /\ PageInv /\ [Next]_vars => PageInv'
<1> SUFFICES ASSUME IInv, PageInv, [Next]_vars PROVE PageInv'
  OBVIOUS
<1>0. TypeOK /\ OutNamed /\ \A p \in Request : Lane(p) /\ PageLane(p)
  BY DEF IInv, Lanes, PageInv
<1>1. OutNamed'
  BY <1>0, OutNamedStep
<1>2. ASSUME NEW r \in Request PROVE PageLane(r)'
  <2>1. CASE UNCHANGED vars
    <3>1. PageSame(r)
      BY <2>1 DEF vars, table, askers, notices, server, page, ghosts, PageSame, Sent, Answered,
         AskCleared, Taken
    <3> QED
      BY <1>0, <3>1, PageKept
  <2>2. ASSUME NEW p \in Request,
               \/ Emit(p) \/ StoppedBeforeWait(p) \/ OutOfTime(p) \/ TakeResponse(p) \/ BeginWait(p)
               \/ Resume(p) \/ Interrupted(p) \/ Expire(p) \/ Leave(p)
        PROVE  PageLane(r)'
    BY <1>0, <2>2, AskerStep
  <2> QED
    BY <1>0, <2>1, <2>2, SettleStep, ConnectionStep DEF Next
<1> QED
  BY <1>1, <1>2 DEF PageInv

LEMMA PageInductive == Spec => [](IInv /\ PageInv)
<1>1. IInv /\ [Next]_vars => IInv'
  BY TypeStep, LaneStep, DecisionStep DEF IInv
<1> QED
  BY InitIInv, PageInit, PageStep, <1>1, PTL DEF Spec

(* "Never silently drop a pending approval" (reemit_pending_state): whatever
   connections and pages are lost, a request that a coroutine waits for is
   shown, or will be, but for a command's request that an interrupt met
   between its event and its wait.                                           *)
THEOREM WaitingRequestsAreShown == Spec => []WaitingIsShown
<1>1. IInv /\ PageInv => WaitingIsShown
  <2> SUFFICES ASSUME IInv, PageInv, Quiet, NEW r \in Request, ask[r] = "waiting", future[r] = "pending"
               PROVE  r \in prompts \/ r \in Side \ payload
    BY DEF WaitingIsShown
  <2>1. ~Sent(r) /\ ~Answered(r) /\ r \notin resend /\ ~due /\ link = "on"
    BY DEF Quiet, Sent, Answered
  <2>2. Told(r) /\ Shown(r)
    BY DEF PageInv, PageLane
  <2> QED
    BY <2>1, <2>2 DEF Told, Shown, Unsettled, Coming
<1> QED
  BY <1>1, PageInductive, PTL

(* emit_approval_cancelled_once reaches the page: once nothing is on its way no
   prompt is left of a settled request, unless it was sent again though settled
   (reemit_pending_state) or its notice fell into a gap of the replay.       *)
THEOREM ShownRequestsArePending == Spec => []PromptsArePending
<1>1. IInv /\ PageInv => PromptsArePending
  <2> SUFFICES ASSUME IInv, PageInv, Quiet, NEW r \in prompts PROVE r \in payload \cup stray
    BY DEF PromptsArePending
  <2>1. r \in Request
    BY DEF IInv, TypeOK
  <2>2. Unknown(r) /\ Cleared(r)
    BY <2>1 DEF PageInv, PageLane
  <2>3. ~Taken(r) /\ owed = {}
    BY DEF Quiet, Taken
  <2> QED
    BY <2>2, <2>3 DEF Unknown, Cleared, SettledNow
<1> QED
  BY <1>1, PageInductive, PTL
=============================================================================
