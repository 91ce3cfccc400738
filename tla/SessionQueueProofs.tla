------------------------- MODULE SessionQueueProofs -------------------------
(***************************************************************************)
(* Proofs about SessionQueue, for any numbers of messages, faults and      *)
(* commands of the user:                                                   *)
(*   - however many runtimes are live, the state is typed, and while a     *)
(*     runtime dispatches the message it has claimed the claim stays in    *)
(*     the file under its name;                                            *)
(*   - while one runtime holds the lease at a time, crashes and restarts   *)
(*     included, no message is lost or doubled, none comes back, none is   *)
(*     taken in again once recorded, and follow-ups keep their order.      *)
(*                                                                         *)
(* Of the constants only NullsAssumption and BoundsAssumption are assumed; *)
(* the second group states its own hypothesis, MaxLive = 1.                *)
(***************************************************************************)
EXTENDS SessionQueue, SequenceLemmas

-----------------------------------------------------------------------------
(* The invariant of the claim.                                             *)

\* The parts of the state that the argument updates are the records they look
\* like; what the queues in them hold does not matter.
FileShaped(d) ==
    d = [queue |-> d.queue, inflight |-> d.inflight, infOwner |-> d.infOwner,
         turn |-> d.turn, turnOwner |-> d.turnOwner]
Shaped ==
    /\ FileShaped(disk)
    /\ loc = [o \in Owner |-> [q |-> loc[o].q, inf |-> loc[o].inf, turn |-> loc[o].turn]]
    /\ life = [o \in Owner |-> life[o]]
    /\ disp = [o \in Owner |-> disp[o]] /\ cmd = [o \in Owner |-> cmd[o]]
    /\ todo = [o \in Owner |-> todo[o]]

\* Between the claim and its settlement, with the message that the coroutine
\* captured still the one that the manager shows as inflight.
Dispatching(o) ==
    \/ disp[o] = "claiming" /\ cmd[o] # NoMsg
    \/ disp[o] \in {"claimed", "started", "admitted"} /\ loc[o].inf = cmd[o]

Holds(o, m) == disk.inflight = m /\ disk.infOwner = o

\* ClaimFenced, from the claim on.
Fenced(o) == life[o] = "live" /\ Dispatching(o) => Holds(o, cmd[o])

\* Only a captured message is dispatched.
Captured(o) == disp[o] \in {"claimed", "started", "admitted"} => cmd[o] # NoMsg

\* dequeue_user_message and its settlement are one synchronous call each:
\* nothing else of the same runtime is waiting to run between their halves.
OneCall(o) == disp[o] \in {"claiming", "settling"} => todo[o] = Idle

\* A coroutine does not outlive its runtime.
Runs(o) == life[o] # "live" => disp[o] = "idle"

FenceInv ==
    /\ Shaped
    /\ \A o \in Owner : Fenced(o) /\ Captured(o) /\ OneCall(o) /\ Runs(o)

-----------------------------------------------------------------------------
(* What the methods of the store leave of a live runtime's claim.          *)

\* A call of p's leaves the claim m of every live runtime; its own if it is
\* inf, the one that p publishes.
KeepsClaims(p, inf) ==
    /\ FileShaped(disk')
    /\ \A o \in Owner : \A m :
          (m # NoMsg /\ life[o] = "live" /\ Holds(o, m) /\ (o = p => m = inf))
              => (disk'.inflight = m /\ disk'.infOwner = o)

LEMMA RecoveryKeepsClaims ==
    ASSUME Shaped, NEW p, NEW inf, disk' = Recovered(disk) \/ disk' = disk
    PROVE  KeepsClaims(p, inf)
<1>1. CASE disk' = disk
    BY <1>1 DEF KeepsClaims, Shaped, Holds
<1>2. CASE disk' = Recovered(disk)
    BY <1>2 DEF KeepsClaims, Shaped, FileShaped, Holds, Recovered, OwnerIsLive
<1>3. QED BY <1>1, <1>2

\* merge_owned_delta over a claim that another live runtime holds changes
\* nothing: an edit of it is refused, and p has no claim of its own to lose.
LEMMA MergeKeepsClaims ==
    ASSUME Shaped, NEW p \in Owner, NEW q, NEW inf, NEW turn,
           ~SaveRefused(p, inf, turn), disk' = SaveResult(p, q, inf, turn)
    PROVE  KeepsClaims(p, inf)
<1> DEFINE d == Recovered(disk)
           i == OwnedDelta(p, ownerInflight[p], inf, d.inflight, d.infOwner, NoMsg)
<1>1. /\ FileShaped(disk')
      /\ disk'.inflight = i[1] /\ disk'.infOwner = i[2]
    BY DEF SaveResult, FileShaped
<1>2. SUFFICES ASSUME NEW o \in Owner, NEW m, m # NoMsg, life[o] = "live",
                      Holds(o, m), o = p => m = inf
               PROVE  disk'.inflight = m /\ disk'.infOwner = o
    BY <1>1, Zenon DEF KeepsClaims
<1>3. d.inflight = m /\ d.infOwner = o
    BY <1>2 DEF Shaped, Holds, Recovered, OwnerIsLive
<1>4. CASE o = p
    BY <1>1, <1>2, <1>3, <1>4 DEF OwnedDelta, Edited, Transferred
<1>5. CASE o # p
    <2>1. o # NoOwner
        BY NullsAssumption
    <2>2. \/ ~Edited(ownerInflight[p], inf)
          \/ Transferred(p, ownerInflight[p], d.infOwner, NoMsg)
          \/ inf = NoMsg
        BY <1>2, <1>3, <1>5, <2>1 DEF SaveRefused
    <2>3. i = <<m, o>>
        BY <1>2, <1>3, <1>5, <2>2 DEF OwnedDelta, Edited, Transferred
    <2>4. QED BY <1>1, <2>3
<1>6. QED BY <1>4, <1>5

\* _persist_user_queues with the claim the manager shows.
LEMMA PersistKeepsClaims ==
    ASSUME Shaped, NEW p \in Owner, NEW q, NEW inf, NEW turn,
           Persist(p, q, inf, turn)
    PROVE  /\ KeepsClaims(p, inf) /\ life' = life
           /\ loc' = [loc EXCEPT ![p] = [q |-> q, inf |-> inf, turn |-> turn]]
<1>1. ~SaveRefused(p, inf, turn) /\ disk' = SaveResult(p, q, inf, turn)
      /\ life' = life
    BY DEF Persist, Save
<1>2. QED BY <1>1, MergeKeepsClaims DEF Persist

LEMMA FailureKeepsClaims ==
    ASSUME Shaped, NEW p \in Owner, NEW q, NEW inf, NEW turn,
           PersistFails(p, q, inf, turn)
    PROVE  KeepsClaims(p, inf) /\ life' = life
<1>1. (disk' = Recovered(disk) \/ disk' = disk) /\ life' = life
    BY DEF PersistFails, RefuseSave, storeVars
<1>2. QED BY <1>1, RecoveryKeepsClaims

-----------------------------------------------------------------------------
(* What a step of p leaves of the invariant.                               *)

\* A step of one runtime concerns the others only through the file.
LEMMA OwnStep ==
    ASSUME FenceInv, Shaped', NEW p \in Owner, NEW inf, KeepsClaims(p, inf),
           \A o \in Owner \ {p} :
               /\ life'[o] = life[o] /\ loc'[o].inf = loc[o].inf
               /\ disp'[o] = disp[o] /\ cmd'[o] = cmd[o] /\ todo'[o] = todo[o],
           Fenced(p)', Captured(p)', OneCall(p)', Runs(p)'
    PROVE  FenceInv'
<1>1. SUFFICES ASSUME NEW o \in Owner, o # p
               PROVE  Fenced(o)' /\ Captured(o)' /\ OneCall(o)' /\ Runs(o)'
    BY DEF FenceInv
<1>2. Fenced(o) /\ Captured(o) /\ OneCall(o) /\ Runs(o)
    BY DEF FenceInv
<1>3. Fenced(o)'
    <2>1. SUFFICES ASSUME life[o] = "live", Dispatching(o)
                   PROVE  disk'.inflight = cmd[o] /\ disk'.infOwner = o
        BY <1>1 DEF Fenced, Dispatching, Holds
    <2>2. cmd[o] # NoMsg /\ Holds(o, cmd[o])
        BY <1>2, <2>1 DEF Fenced, Captured, Dispatching
    <2>3. QED BY <1>1, <2>1, <2>2 DEF KeepsClaims
<1>4. Captured(o)' /\ OneCall(o)' /\ Runs(o)'
    BY <1>1, <1>2 DEF Captured, OneCall, Runs
<1>5. QED BY <1>3, <1>4

\* A step of p's between the halves of no call, which neither moves its
\* dispatch on nor publishes another claim than the one it shows.
LEMMA QuietStep ==
    ASSUME FenceInv, NEW p \in Owner, disp[p] \notin {"claiming", "settling"},
           KeepsClaims(p, loc[p].inf), NEW t, NEW v,
           life' = life, disp' = disp, cmd' = cmd,
           todo' = todo \/ todo' = [todo EXCEPT ![p] = t],
           loc' = loc \/ (loc' = [loc EXCEPT ![p] = v]
                          /\ v = [q |-> v.q, inf |-> loc[p].inf, turn |-> v.turn])
    PROVE  FenceInv'
<1>1. Shaped'
    BY DEF Shaped, KeepsClaims, FenceInv
<1>2. \A o \in Owner : loc'[o].inf = loc[o].inf
    <2>1. CASE loc' = loc
        BY <2>1
    <2>2. CASE loc' # loc
        <3>1. loc' = [loc EXCEPT ![p] = v] /\ v.inf = loc[p].inf
            <4>1. [q |-> v.q, inf |-> loc[p].inf, turn |-> v.turn].inf = loc[p].inf
                OBVIOUS
            <4>2. QED BY <2>2, <4>1, Zenon
        <3>2. DOMAIN loc = Owner
            BY DEF FenceInv, Shaped
        <3>3. loc'[p] = v /\ \A o \in Owner \ {p} : loc'[o] = loc[o]
            BY <3>1, <3>2
        <3>4. QED BY <3>1, <3>3
    <2>3. QED BY <2>1, <2>2
<1>3. \A o \in Owner \ {p} : todo'[o] = todo[o]
    BY DEF FenceInv, Shaped
<1>4. Captured(p)' /\ OneCall(p)' /\ Runs(p)'
    BY DEF Captured, OneCall, Runs, FenceInv
<1>5. Fenced(p)'
    <2>1. SUFFICES ASSUME life[p] = "live", Dispatching(p)
                   PROVE  disk'.inflight = cmd[p] /\ disk'.infOwner = p
        BY <1>2 DEF Fenced, Dispatching, Holds
    <2>2. cmd[p] # NoMsg /\ Holds(p, cmd[p]) /\ loc[p].inf = cmd[p]
        BY <2>1 DEF FenceInv, Fenced, Captured, Dispatching
    <2>3. QED BY <2>1, <2>2 DEF KeepsClaims
<1>6. QED BY <1>1, <1>2, <1>3, <1>4, <1>5, OwnStep

-----------------------------------------------------------------------------
(* Steps that keep the dispatch where it is.                               *)

\* Nothing is written and no part the argument looks at changes.
LEMMA IdleStep ==
    ASSUME FenceInv, NEW p \in Owner, disp[p] \notin {"claiming", "settling"}, NEW t,
           UNCHANGED <<disk, life, loc, disp, cmd>>,
           todo' = todo \/ todo' = [todo EXCEPT ![p] = t]
    PROVE  FenceInv'
<1>1. KeepsClaims(p, loc[p].inf)
    BY RecoveryKeepsClaims DEF FenceInv
<1>2. QED BY <1>1, QuietStep

\* The queue or the turn inputs are published with the claim the manager shows.
LEMMA PublishStep ==
    ASSUME FenceInv, NEW p \in Owner, disp[p] \notin {"claiming", "settling"}, NEW t,
           NEW q, NEW turn, Persist(p, q, loc[p].inf, turn),
           UNCHANGED <<disp, cmd>>, todo' = todo \/ todo' = [todo EXCEPT ![p] = t]
    PROVE  FenceInv'
<1> DEFINE v == [q |-> q, inf |-> loc[p].inf, turn |-> turn]
<1>1. /\ KeepsClaims(p, loc[p].inf) /\ life' = life
      /\ loc' = [loc EXCEPT ![p] = v]
    BY PersistKeepsClaims DEF FenceInv
<1>2. v = [q |-> v.q, inf |-> loc[p].inf, turn |-> v.turn]
    OBVIOUS
<1>3. QED BY <1>1, <1>2, QuietStep

LEMMA RefusedStep ==
    ASSUME FenceInv, NEW p \in Owner, disp[p] \notin {"claiming", "settling"}, NEW t,
           NEW q, NEW turn, PersistFails(p, q, loc[p].inf, turn),
           UNCHANGED <<loc, disp, cmd>>, todo' = todo \/ todo' = [todo EXCEPT ![p] = t]
    PROVE  FenceInv'
<1>1. KeepsClaims(p, loc[p].inf) /\ life' = life
    BY FailureKeepsClaims DEF FenceInv
<1>2. QED BY <1>1, QuietStep

LEMMA UserStepKeeps ==
    ASSUME FenceInv, NEW p \in Owner, NEW m \in Msg,
           \/ StartDirect(p) \/ Resync(p)
           \/ Submit(p, m) \/ SubmitSteer(p, m) \/ Cancel(p, m) \/ SteerQueued(p, m)
    PROVE  FenceInv'
<1>0. disp[p] \notin {"claiming", "settling"}
    BY DEF StartDirect, Resync, Submit, SubmitSteer, Cancel, SteerQueued, Ready
<1>1. CASE StartDirect(p)
    BY <1>0, <1>1, IdleStep DEF StartDirect, storeVars
<1>2. CASE Resync(p)
    BY <1>0, <1>2, IdleStep DEF Resync, storeVars
<1>3. CASE Submit(p, m)
    BY <1>0, <1>3, PublishStep DEF Submit
<1>4. CASE SubmitSteer(p, m)
    BY <1>0, <1>4, PublishStep DEF SubmitSteer
<1>5. CASE Cancel(p, m)
    BY <1>0, <1>5, PublishStep DEF Cancel
<1>6. CASE SteerQueued(p, m)
    BY <1>0, <1>6, PublishStep DEF SteerQueued
<1>7. QED BY <1>1, <1>2, <1>3, <1>4, <1>5, <1>6

LEMMA CallStepKeeps ==
    ASSUME FenceInv, NEW p \in Owner,
           \/ KickIgnored(p) \/ RestoreAsFollowUp(p) \/ RestoreFails(p)
           \/ FinishSteering(p) \/ CommandFails(p)
    PROVE  FenceInv'
<1>0. disp[p] \notin {"claiming", "settling"}
    BY DEF KickIgnored, RestoreAsFollowUp, RestoreFails, FinishSteering, CommandFails,
           Ready, FenceInv, OneCall, Idle, Kick
<1>1. CASE KickIgnored(p)
    BY <1>0, <1>1, IdleStep DEF KickIgnored, storeVars
<1>2. CASE RestoreAsFollowUp(p)
    BY <1>0, <1>2, PublishStep DEF RestoreAsFollowUp
<1>3. CASE RestoreFails(p)
    BY <1>0, <1>3, RefusedStep DEF RestoreFails
<1>4. CASE FinishSteering(p)
    BY <1>0, <1>4, IdleStep DEF FinishSteering, storeVars
<1>5. CASE CommandFails(p)
    <2>1. PICK s \in CommandSnapshots(p) : PersistFails(p, s[1], loc[p].inf, s[2])
        BY <1>5 DEF CommandFails
    <2>2. UNCHANGED <<loc, disp, cmd, todo>>
        BY <1>5 DEF CommandFails, runtimeVars
    <2>3. QED BY <1>0, <2>1, <2>2, RefusedStep
<1>6. QED BY <1>1, <1>2, <1>3, <1>4, <1>5

LEMMA RunStepKeeps ==
    ASSUME FenceInv, NEW p \in Owner,
           \/ PopSteer(p) \/ DeliverSteer(p) \/ AckSteer(p) \/ AckFails(p)
           \/ DeferMailbox(p) \/ EndRun(p) \/ EndRunFails(p)
    PROVE  FenceInv'
<1>0. disp[p] \notin {"claiming", "settling"}
    BY DEF PopSteer, DeliverSteer, AckSteer, AckFails, DeferMailbox, EndRun,
           EndRunFails, Ready
<1>1. CASE PopSteer(p) \/ DeliverSteer(p) \/ DeferMailbox(p)
    BY <1>0, <1>1, IdleStep DEF PopSteer, DeliverSteer, DeferMailbox, storeVars
<1>2. CASE AckSteer(p)
    <2>1. CASE consumed[p].msg \in ToSet(loc[p].turn)
        BY <1>0, <1>2, <2>1, PublishStep DEF AckSteer
    <2>2. CASE consumed[p].msg \notin ToSet(loc[p].turn)
        BY <1>0, <1>2, <2>2, IdleStep DEF AckSteer, storeVars
    <2>3. QED BY <2>1, <2>2
<1>3. CASE AckFails(p)
    BY <1>0, <1>3, RefusedStep DEF AckFails
<1>4. CASE EndRun(p)
    <2>1. CASE Restored(p) = <<>>
        BY <1>0, <1>4, <2>1, IdleStep DEF EndRun, storeVars
    <2>2. CASE Restored(p) # <<>>
        BY <1>0, <1>4, <2>2, PublishStep DEF EndRun
    <2>3. QED BY <2>1, <2>2
<1>5. CASE EndRunFails(p)
    BY <1>0, <1>5, RefusedStep DEF EndRunFails
<1>6. QED BY <1>1, <1>2, <1>3, <1>4, <1>5

\* A manager changes one part of its snapshot, or two, and keeps the rest.
LEMMA PartsOfSnapshot ==
    ASSUME Shaped, NEW p \in Owner, NEW v, NEW w
    PROVE  /\ loc' = [loc EXCEPT ![p].q = v] =>
                loc' = [loc EXCEPT ![p] = [q |-> v, inf |-> loc[p].inf,
                                           turn |-> loc[p].turn]]
           /\ loc' = [loc EXCEPT ![p].inf = v] =>
                loc' = [loc EXCEPT ![p] = [q |-> loc[p].q, inf |-> v,
                                           turn |-> loc[p].turn]]
           /\ loc' = [loc EXCEPT ![p].q = w, ![p].inf = v] =>
                loc' = [loc EXCEPT ![p] = [q |-> w, inf |-> v, turn |-> loc[p].turn]]
<1>1. PICK Q, I, T : loc \in [Owner -> [q : Q, inf : I, turn : T]]
    <2> DEFINE Q == {loc[o].q : o \in Owner}
               I == {loc[o].inf : o \in Owner}
               T == {loc[o].turn : o \in Owner}
    <2>1. loc \in [Owner -> [q : Q, inf : I, turn : T]]
        BY DEF Shaped
    <2>2. QED BY <2>1
<1>2. loc[p] \in [q : Q, inf : I, turn : T]
    BY <1>1
<1>3. [loc[p] EXCEPT !.q = v] = [q |-> v, inf |-> loc[p].inf, turn |-> loc[p].turn]
    BY <1>2
<1>4. [loc[p] EXCEPT !.inf = v] = [q |-> loc[p].q, inf |-> v, turn |-> loc[p].turn]
    BY <1>2
<1>5. [loc[p] EXCEPT !.q = w, !.inf = v] = [q |-> w, inf |-> v, turn |-> loc[p].turn]
    <2>1. [loc[p] EXCEPT !.q = w] = [q |-> w, inf |-> loc[p].inf, turn |-> loc[p].turn]
        BY <1>2
    <2>2. [[q |-> w, inf |-> loc[p].inf, turn |-> loc[p].turn] EXCEPT !.inf = v]
              = [q |-> w, inf |-> v, turn |-> loc[p].turn]
        OBVIOUS
    <2>3. QED BY <2>1, <2>2, Zenon
<1>6. ASSUME loc' = [loc EXCEPT ![p].q = v]
      PROVE  loc' = [loc EXCEPT ![p] = [q |-> v, inf |-> loc[p].inf,
                                        turn |-> loc[p].turn]]
    BY <1>6, <1>3, <1>1, Zenon
<1>7. ASSUME loc' = [loc EXCEPT ![p].inf = v]
      PROVE  loc' = [loc EXCEPT ![p] = [q |-> loc[p].q, inf |-> v,
                                        turn |-> loc[p].turn]]
    BY <1>7, <1>4, <1>1, Zenon
<1>8. ASSUME loc' = [loc EXCEPT ![p].q = w, ![p].inf = v]
      PROVE  loc' = [loc EXCEPT ![p] = [q |-> w, inf |-> v, turn |-> loc[p].turn]]
    <2>1. loc' = [loc EXCEPT ![p] = [loc[p] EXCEPT !.q = w, !.inf = v]]
        BY <1>8, <1>1
    <2>2. QED BY <1>5, <2>1
<1>9. QED BY <1>6, <1>7, <1>8

-----------------------------------------------------------------------------
(* Sessions begin and end.                                                 *)

LEMMA SessionStepKeeps ==
    ASSUME FenceInv, NEW p \in Owner,
           Start(p) \/ Crash(p) \/ FreeLease(p) \/ Shutdown(p) \/ Clear(p)
    PROVE  FenceInv'
<1>1. CASE Start(p)
    <2>1. /\ life[p] = "new" /\ life' = [life EXCEPT ![p] = "live"]
          /\ disk' = Recovered(disk) /\ loc' = [loc EXCEPT ![p].q = disk'.queue]
          /\ todo' = [todo EXCEPT ![p] = Kick] /\ disp' = disp /\ cmd' = cmd
        BY <1>1 DEF Start, Load
    <2>2. disp[p] = "idle"
        BY <2>1 DEF FenceInv, Runs
    <2>3. KeepsClaims(p, NoMsg)
        BY <2>1, RecoveryKeepsClaims DEF FenceInv
    <2>4. Shaped'
        <3>1. loc' = [loc EXCEPT ![p] = [q |-> disk'.queue, inf |-> loc[p].inf,
                                         turn |-> loc[p].turn]]
            BY <2>1, PartsOfSnapshot DEF FenceInv
        <3>2. /\ life' = [life EXCEPT ![p] = "live"] /\ disp' = disp /\ cmd' = cmd
              /\ todo' = [todo EXCEPT ![p] = Kick]
            BY <2>1
        <3>3. QED BY <2>3, <3>1, <3>2 DEF FenceInv, Shaped, KeepsClaims
    <2>5. Fenced(p)' /\ Captured(p)' /\ OneCall(p)' /\ Runs(p)'
        BY <2>1, <2>2 DEF Fenced, Dispatching, Captured, OneCall, Runs
    <2>6. QED BY <2>1, <2>3, <2>4, <2>5, OwnStep DEF FenceInv, Shaped
<1>2. CASE Crash(p) \/ Shutdown(p)
    <2>1. /\ life' = [life EXCEPT ![p] = "gone"]
          /\ loc' = [loc EXCEPT ![p] = EmptyLoc] /\ disp' = [disp EXCEPT ![p] = "idle"]
          /\ cmd' = [cmd EXCEPT ![p] = NoMsg] /\ todo' = [todo EXCEPT ![p] = Idle]
        BY <1>2 DEF Crash, Shutdown, Vanish, ForgetRuntime
    <2>2. KeepsClaims(p, NoMsg)
        <3>1. CASE Crash(p)
            BY <3>1, RecoveryKeepsClaims DEF Crash, FenceInv
        <3>2. CASE Shutdown(p)
            BY <3>2, MergeKeepsClaims DEF Shutdown, FenceInv
        <3>3. QED BY <1>2, <3>1, <3>2
    <2>3. Shaped'
        BY <2>1, <2>2 DEF FenceInv, Shaped, KeepsClaims, EmptyLoc
    <2>4. Fenced(p)' /\ Captured(p)' /\ OneCall(p)' /\ Runs(p)'
        BY <2>1 DEF FenceInv, Shaped, Fenced, Dispatching, Captured, OneCall, Runs
    <2>5. QED BY <2>1, <2>2, <2>3, <2>4, OwnStep DEF FenceInv, Shaped
<1>3. CASE FreeLease(p)
    <2>1. /\ life[p] = "gone" /\ life' = [life EXCEPT ![p] = "dead"]
          /\ UNCHANGED <<disk, loc, disp, cmd, todo>>
        BY <1>3 DEF FreeLease, LeaseFreed, runtimeVars
    <2>2. KeepsClaims(p, NoMsg)
        BY <2>1, RecoveryKeepsClaims DEF FenceInv
    <2>3. Shaped'
        BY <2>1 DEF FenceInv, Shaped
    <2>4. Fenced(p)' /\ Captured(p)' /\ OneCall(p)' /\ Runs(p)'
        BY <2>1 DEF FenceInv, Shaped, Fenced, Dispatching, Captured, OneCall, Runs
    <2>5. QED BY <2>1, <2>2, <2>3, <2>4, OwnStep DEF FenceInv, Shaped
<1>4. CASE Clear(p)
    <2>1. UNCHANGED <<disp, cmd, todo>> /\ disp[p] \notin {"claiming", "settling"}
        BY <1>4 DEF Clear, Ready
    <2>2. /\ KeepsClaims(p, NoMsg) /\ life' = life
          /\ loc' = [loc EXCEPT ![p] = [q |-> <<>>, inf |-> NoMsg, turn |-> <<>>]]
        BY <1>4, PersistKeepsClaims DEF Clear, FenceInv
    <2>3. Shaped'
        BY <2>1, <2>2 DEF FenceInv, Shaped, KeepsClaims
    <2>4. Captured(p) /\ OneCall(p) /\ Runs(p)
        BY DEF FenceInv
    <2>5. Captured(p)' /\ OneCall(p)' /\ Runs(p)'
        BY <2>1, <2>2, <2>4 DEF Captured, OneCall, Runs
    <2>6. loc'[p].inf = NoMsg
        BY <2>2 DEF FenceInv, Shaped
    <2>7. Fenced(p)'
        BY <2>1, <2>4, <2>6 DEF Fenced, Dispatching, Captured
    <2>8. QED BY <2>1, <2>2, <2>3, <2>5, <2>7, OwnStep DEF FenceInv, Shaped
<1>5. QED BY <1>1, <1>2, <1>3, <1>4

-----------------------------------------------------------------------------
(* The dispatch.                                                           *)

\* claim_user_message: what is captured is what the file says is claimed.
LEMMA DispatchKeeps ==
    ASSUME FenceInv, NEW p \in Owner, Dispatch(p) \/ ClaimFails(p)
    PROVE  FenceInv'
<1>1. CASE ClaimFails(p)
    BY <1>1, IdleStep DEF ClaimFails, MayDispatch, storeVars
<1>2. CASE Dispatch(p)
    <2> DEFINE d == Recovered(disk)
    <2>1. /\ cmd' = [cmd EXCEPT ![p] = ClaimedMessage]
          /\ disp' = [disp EXCEPT ![p] = "claiming"]
          /\ todo' = [todo EXCEPT ![p] = Idle]
          /\ life' = life /\ loc' = loc /\ life[p] = "live" /\ disp[p] = "idle"
          /\ disk' = IF Claimable(d)
                     THEN [d EXCEPT !.queue = Tail(@), !.inflight = Head(d.queue),
                                    !.infOwner = p]
                     ELSE d
        BY <1>2 DEF Dispatch, Claim, MayDispatch
    <2>2. d = [queue |-> d.queue, inflight |-> d.inflight, infOwner |-> d.infOwner,
               turn |-> d.turn, turnOwner |-> d.turnOwner]
        BY DEF Recovered
    <2>3. KeepsClaims(p, NoMsg)
        <3>1. CASE ~Claimable(d)
            BY <2>1, <3>1, RecoveryKeepsClaims DEF FenceInv
        <3>2. CASE Claimable(d)
            <4>1. \A o \in Owner : \A m :
                      ~(m # NoMsg /\ life[o] = "live" /\ Holds(o, m))
                BY <3>2 DEF FenceInv, Shaped, Claimable, Holds, Recovered, OwnerIsLive
            <4>2. FileShaped(disk')
                BY <2>1, <2>2, <3>2 DEF FileShaped
            <4>3. QED BY <4>1, <4>2, Zenon DEF KeepsClaims
        <3>3. QED BY <3>1, <3>2
    <2>4. Shaped'
        <3> HIDE DEF d
        <3>1. FileShaped(disk')
            BY <2>3 DEF KeepsClaims
        <3>2. QED BY <2>1, <3>1 DEF FenceInv, Shaped
    <2>5. Captured(p)' /\ OneCall(p)' /\ Runs(p)'
        BY <2>1 DEF FenceInv, Shaped, Captured, OneCall, Runs
    <2>6. Fenced(p)'
        <3>1. SUFFICES ASSUME cmd'[p] # NoMsg
                       PROVE  disk'.inflight = cmd'[p] /\ disk'.infOwner = p
            BY <2>1 DEF Fenced, Dispatching, Holds, FenceInv, Shaped
        <3>2. Claimable(d) /\ cmd'[p] = Head(d.queue)
            BY <2>1, <3>1 DEF ClaimedMessage, FenceInv, Shaped
        <3>3. QED BY <2>1, <2>2, <3>2
    <2>7. QED BY <2>1, <2>3, <2>4, <2>5, <2>6, OwnStep DEF FenceInv, Shaped
<1>3. QED BY <1>1, <1>2

LEMMA AdmissionKeeps ==
    ASSUME FenceInv, NEW p \in Owner,
           \/ RefreshAfterClaim(p) \/ StartQueued(p) \/ Admit(p)
           \/ RefreshAfterSettle(p) \/ FinishDispatch(p)
    PROVE  FenceInv'
<1>0. Fenced(p) /\ Captured(p) /\ OneCall(p) /\ Runs(p) /\ Shaped
    BY DEF FenceInv
<1>1. CASE RefreshAfterClaim(p)
    <2>1. /\ disp[p] = "claiming" /\ life[p] = "live"
          /\ disk' = Recovered(disk) /\ life' = life /\ cmd' = cmd /\ todo' = todo
          /\ disp' = [disp EXCEPT ![p] = IF cmd[p] = NoMsg THEN "idle" ELSE "claimed"]
        BY <1>1 DEF RefreshAfterClaim, PendingUserMessages
    <2>0. loc' = [loc EXCEPT ![p] = [q |-> disk'.queue,
                                     inf |-> IF cmd[p] = NoMsg THEN loc[p].inf ELSE cmd[p],
                                     turn |-> loc[p].turn]]
        <3> DEFINE i == IF cmd[p] = NoMsg THEN loc[p].inf ELSE cmd[p]
                   pending == disk'.queue
        <3>1. loc' = [loc EXCEPT ![p].q = pending, ![p].inf = i]
            BY <1>0, <1>1 DEF RefreshAfterClaim, Shaped
        <3> HIDE DEF i, pending
        <3>2. loc' = [loc EXCEPT ![p].q = pending, ![p].inf = i] =>
                  loc' = [loc EXCEPT ![p] = [q |-> pending, inf |-> i,
                                             turn |-> loc[p].turn]]
            BY <1>0, PartsOfSnapshot, Zenon
        <3>3. loc' = [loc EXCEPT ![p] = [q |-> pending, inf |-> i, turn |-> loc[p].turn]]
            BY <3>1, <3>2, Zenon
        <3>4. QED BY <3>3 DEF i, pending
    <2>2. KeepsClaims(p, cmd[p])
        BY <1>0, <2>1, RecoveryKeepsClaims
    <2>3. Shaped'
        <3>1. UNCHANGED <<life, cmd, todo>> /\ \E s : disp' = [disp EXCEPT ![p] = s]
            BY <2>1
        <3>2. QED BY <1>0, <2>0, <2>2, <3>1 DEF Shaped, KeepsClaims
    <2>4. Captured(p)' /\ OneCall(p)' /\ Runs(p)'
        BY <1>0, <2>0, <2>1 DEF Shaped, Captured, OneCall, Runs
    <2>5. Fenced(p)'
        <3>1. SUFFICES ASSUME cmd[p] # NoMsg
                       PROVE  disk'.inflight = cmd[p] /\ disk'.infOwner = p
            BY <1>0, <2>0, <2>1 DEF Shaped, Fenced, Dispatching, Holds
        <3>2. Holds(p, cmd[p])
            BY <1>0, <2>1, <3>1 DEF Fenced, Dispatching
        <3>3. QED BY <2>1, <2>2, <3>1, <3>2 DEF KeepsClaims
    <2>6. QED BY <2>0, <2>1, <2>2, <2>3, <2>4, <2>5, OwnStep, <1>0 DEF Shaped
<1>2. CASE StartQueued(p) \/ Admit(p)
    <2>1. PICK s \in {"started", "admitted"} :
              /\ disp[p] \in {"claimed", "started"} /\ disp' = [disp EXCEPT ![p] = s]
              /\ UNCHANGED <<disk, life, loc, cmd, todo>>
        BY <1>2 DEF StartQueued, Admit, storeVars
    <2>2. KeepsClaims(p, NoMsg)
        BY <1>0, <2>1, RecoveryKeepsClaims
    <2>3. Shaped'
        BY <1>0, <2>1 DEF Shaped
    <2>4. Fenced(p)' /\ Captured(p)' /\ OneCall(p)' /\ Runs(p)'
        BY <1>0, <2>1 DEF Shaped, Fenced, Dispatching, Holds, Captured, OneCall, Runs
    <2>5. QED BY <2>1, <2>2, <2>3, <2>4, OwnStep, <1>0 DEF Shaped
<1>3. CASE RefreshAfterSettle(p)
    <2>1. /\ life[p] = "live" /\ disk' = Recovered(disk) /\ life' = life
          /\ cmd' = cmd /\ todo' = todo /\ disp' = [disp EXCEPT ![p] = "settled"]
        BY <1>3 DEF RefreshAfterSettle, PendingUserMessages
    <2>0. loc' = [loc EXCEPT ![p] = [q |-> disk'.queue, inf |-> loc[p].inf,
                                     turn |-> loc[p].turn]]
        BY <1>0, <1>3, PartsOfSnapshot DEF RefreshAfterSettle
    <2>2. KeepsClaims(p, NoMsg)
        BY <1>0, <2>1, RecoveryKeepsClaims
    <2>3. Shaped'
        <3>1. UNCHANGED <<life, cmd, todo>> /\ disp' = [disp EXCEPT ![p] = "settled"]
            BY <2>1
        <3>2. QED BY <1>0, <2>0, <2>2, <3>1 DEF Shaped, KeepsClaims
    <2>4. Fenced(p)' /\ Captured(p)' /\ OneCall(p)' /\ Runs(p)'
        BY <1>0, <2>1 DEF Shaped, Fenced, Dispatching, Captured, OneCall, Runs
    <2>5. QED BY <2>0, <2>1, <2>2, <2>3, <2>4, OwnStep, <1>0 DEF Shaped
<1>4. CASE FinishDispatch(p)
    <2>1. PICK t : /\ UNCHANGED <<disk, life, loc>> /\ disp' = [disp EXCEPT ![p] = "idle"]
                   /\ cmd' = [cmd EXCEPT ![p] = NoMsg] /\ todo' = [todo EXCEPT ![p] = t]
        BY <1>4 DEF FinishDispatch, storeVars
    <2>2. KeepsClaims(p, NoMsg)
        BY <1>0, <2>1, RecoveryKeepsClaims
    <2>3. Shaped'
        BY <1>0, <2>1 DEF Shaped
    <2>4. Fenced(p)' /\ Captured(p)' /\ OneCall(p)' /\ Runs(p)'
        BY <1>0, <2>1 DEF Shaped, Fenced, Dispatching, Captured, OneCall, Runs
    <2>5. QED BY <2>1, <2>2, <2>3, <2>4, OwnStep, <1>0 DEF Shaped
<1>5. QED BY <1>1, <1>2, <1>3, <1>4

\* Only the runtime itself settles its claim.
LEMMA SettlementKeeps ==
    ASSUME FenceInv, NEW p \in Owner,
           SettleAdmitted(p) \/ SettleRejected(p) \/ SettleFails(p)
    PROVE  FenceInv'
<1>0. Fenced(p) /\ Captured(p) /\ OneCall(p) /\ Runs(p) /\ Shaped
    BY DEF FenceInv
<1>1. /\ life[p] = "live" /\ todo[p] = Idle
      /\ life' = life /\ UNCHANGED <<cmd, todo>>
    BY DEF SettleAdmitted, SettleRejected, SettleFails, FinishUserMessageDispatch,
           Settle, RefuseSettle, Ready, storeVars
<1>2. PICK s \in {"settling", "settled", "idle"} : disp' = [disp EXCEPT ![p] = s]
    BY DEF SettleAdmitted, SettleRejected, SettleFails, FinishUserMessageDispatch
<1>3. loc' = loc \/ loc' = [loc EXCEPT ![p] = [q |-> loc[p].q, inf |-> NoMsg,
                                              turn |-> loc[p].turn]]
    <2>1. loc' = loc \/ loc' = [loc EXCEPT ![p].inf = NoMsg]
        BY DEF SettleAdmitted, SettleRejected, SettleFails, FinishUserMessageDispatch
    <2>2. QED BY <1>0, <2>1, PartsOfSnapshot
<1>4. KeepsClaims(p, NoMsg)
    <2>1. CASE disk' = disk \/ disk' = Recovered(disk)
        BY <1>0, <2>1, RecoveryKeepsClaims
    <2>2. CASE \E succeeded \in BOOLEAN : Settle(p, cmd[p], succeeded)
        <3>1. PICK succeeded \in BOOLEAN : Settle(p, cmd[p], succeeded)
            BY <2>2
        <3> DEFINE d == Recovered(disk)
        <3>2. d = [queue |-> d.queue, inflight |-> d.inflight, infOwner |-> d.infOwner,
                   turn |-> d.turn, turnOwner |-> d.turnOwner]
            BY DEF Recovered
        <3>3. /\ d.infOwner = p
              /\ disk' = [d EXCEPT !.inflight = NoMsg, !.infOwner = NoOwner,
                              !.queue = IF succeeded THEN @ ELSE <<cmd[p]>> \o @]
            BY <3>1 DEF Settle, MaySettle
        <3>4. FileShaped(disk')
            <4> HIDE DEF d
            <4>1. QED BY <3>2, <3>3 DEF FileShaped
        <3>5. \A o \in Owner : \A m :
                  (m # NoMsg /\ life[o] = "live" /\ Holds(o, m)) => o = p
            BY <1>0, <3>3 DEF Shaped, Holds, Recovered, OwnerIsLive
        <3>6. QED BY <3>4, <3>5, Zenon DEF KeepsClaims
    <2>3. disk' = disk \/ disk' = Recovered(disk)
              \/ \E succeeded \in BOOLEAN : Settle(p, cmd[p], succeeded)
        BY DEF SettleAdmitted, SettleRejected, SettleFails, FinishUserMessageDispatch,
               RefuseSettle, storeVars
    <2>4. QED BY <2>1, <2>2, <2>3
<1>5. Shaped'
    <2>1. FileShaped(disk')
        BY <1>4 DEF KeepsClaims
    <2>2. CASE loc' = loc
        BY <1>0, <1>1, <1>2, <2>1, <2>2 DEF Shaped
    <2>3. CASE loc' # loc
        <3>1. loc' = [loc EXCEPT ![p] = [q |-> loc[p].q, inf |-> NoMsg,
                                         turn |-> loc[p].turn]]
            BY <1>3, <2>3
        <3>2. QED BY <1>0, <1>1, <1>2, <2>1, <3>1 DEF Shaped
    <2>4. QED BY <2>2, <2>3
<1>6. Fenced(p)' /\ Captured(p)' /\ OneCall(p)' /\ Runs(p)'
    BY <1>0, <1>1, <1>2 DEF Shaped, Fenced, Dispatching, Captured, OneCall, Runs
<1>7. QED BY <1>0, <1>1, <1>2, <1>3, <1>4, <1>5, <1>6, OwnStep DEF Shaped

-----------------------------------------------------------------------------
(* The claim is fenced.                                                    *)

LEMMA FenceInit == Init => FenceInv
<1>1. SUFFICES ASSUME Init PROVE FenceInv
    OBVIOUS
<1>2. Shaped
    BY <1>1 DEF Init, StoreInit, EmptyDisk, EmptyLoc, Shaped, FileShaped
<1>3. \A o \in Owner : Fenced(o) /\ Captured(o) /\ OneCall(o) /\ Runs(o)
    BY <1>1 DEF Init, StoreInit, Fenced, Dispatching, Captured, OneCall, Runs
<1>4. QED BY <1>2, <1>3 DEF FenceInv

LEMMA FenceStep == FenceInv /\ [Next]_vars => FenceInv'
<1>1. SUFFICES ASSUME FenceInv, [Next]_vars PROVE FenceInv'
    OBVIOUS
<1>2. CASE UNCHANGED vars
    BY <1>1, <1>2 DEF vars, storeVars, runtimeVars, FenceInv, Shaped, Fenced,
                      Dispatching, Holds, Captured, OneCall, Runs
<1>3. CASE Next
    <2>1. PICK p \in Owner :
              \/ Start(p) \/ Shutdown(p) \/ FreeLease(p)
              \/ RuntimeStep(p) \/ UserStep(p) \/ FaultStep(p)
        BY <1>3 DEF Next
    <2>2. CASE RuntimeStep(p)
        BY <1>1, <2>2, CallStepKeeps, DispatchKeeps, AdmissionKeeps, SettlementKeeps,
           RunStepKeeps DEF RuntimeStep, CallStep, DispatchStep, RunStep
    <2>3. CASE UserStep(p)
        <3>1. CASE Clear(p)
            BY <1>1, <3>1, SessionStepKeeps
        <3>2. CASE StartDirect(p)
            <4>1. disp[p] \notin {"claiming", "settling"}
                BY <3>2 DEF StartDirect, Ready
            <4>2. QED BY <1>1, <3>2, <4>1, IdleStep DEF StartDirect, storeVars
        <3>3. CASE Resync(p)
            <4>1. disp[p] \notin {"claiming", "settling"}
                BY <3>3 DEF Resync, Ready
            <4>2. QED BY <1>1, <3>3, <4>1, IdleStep DEF Resync, storeVars
        <3>4. CASE \E m \in Msg : Submit(p, m) \/ SubmitSteer(p, m) \/ Cancel(p, m)
                                  \/ SteerQueued(p, m)
            BY <1>1, <3>4, UserStepKeeps
        <3>5. QED BY <2>3, <3>1, <3>2, <3>3, <3>4 DEF UserStep
    <2>4. CASE FaultStep(p)
        BY <1>1, <2>4, SessionStepKeeps, CallStepKeeps, DispatchKeeps, SettlementKeeps,
           RunStepKeeps DEF FaultStep
    <2>5. QED BY <1>1, <2>1, <2>2, <2>3, <2>4, SessionStepKeeps
<1>4. QED BY <1>1, <1>2, <1>3

\* While its dispatch is unsettled a live runtime's claim is in the file under
\* its own name, whatever the other runtimes of the session recover, publish,
\* claim or settle (claim_user_message, merge_owned_delta).
THEOREM ClaimsAreFenced == Spec => []ClaimFenced
<1>1. FenceInv => ClaimFenced
    BY DEF FenceInv, ClaimFenced, Fenced, Dispatching, Holds
<1>2. QED BY <1>1, FenceInit, FenceStep, PTL DEF Spec

-----------------------------------------------------------------------------
(* What the operators of the store compute.                                *)

\* Only keeps what it says, in its order.
LEMMA OnlyParts ==
    ASSUME NEW T, NEW s \in Seq(T), NEW S
    PROVE  /\ Only(s, S) \in Seq(T) /\ ToSet(Only(s, S)) = ToSet(s) \cap S
           /\ \A R : Sorted(s, R) => Sorted(Only(s, S), R)
           /\ Distinct(s) => Distinct(Only(s, S))
<1> DEFINE L == Len(s)
           Body(f) == [n \in 0..L |->
                          IF n = 0 THEN <<>>
                          ELSE IF s[n] \in S THEN Append(f[n - 1], s[n]) ELSE f[n - 1]]
           g == CHOOSE f : f = Body(f)
<1>0. L \in Nat /\ DOMAIN s = 1..L /\ (\A n \in 1..L : s[n] \in T) /\ <<>> \in Seq(T)
    OBVIOUS
<1>1. Only(s, S) = g[L]
    BY DEF Only
<1>2. \E f : f = Body(f)
    <2> DEFINE G == [n \in 1..L |-> [q \in Seq(T) |->
                        IF s[n] \in S THEN Append(q, s[n]) ELSE q]]
    <2>1. G \in [1..L -> [Seq(T) -> Seq(T)]]
        BY <1>0
    <2>2. \A q \in Seq(T) : \A n \in 1..L :
              G[n][q] = IF s[n] \in S THEN Append(q, s[n]) ELSE q
        OBVIOUS
    <2> DEFINE V == Seq(T)
               a == <<>>
    <2> HIDE DEF G, L, V, a
    <2>3. PICK f : Along(f, L, V, a, G)
        <3>1. L \in Nat /\ a \in V /\ G \in [1..L -> [V -> V]]
            BY <1>0, <2>1 DEF V, a
        <3>2. QED BY <3>1, RecursionExists
    <2>4. \A n \in 1..L : f[n - 1] \in V
        BY <1>0, <2>3 DEF Along
    <2>5. ASSUME NEW n \in 0..L PROVE f[n] = Body(f)[n]
        <3>1. CASE n = 0
            BY <2>3, <3>1 DEF a, Along
        <3>2. CASE n # 0
            <4>1. n \in 1..L
                BY <1>0, <3>2
            <4>2. f[n] = G[n][f[n - 1]] /\ f[n - 1] \in V
                BY <2>3, <2>4, <4>1 DEF Along
            <4>3. f[n] = IF s[n] \in S THEN Append(f[n - 1], s[n]) ELSE f[n - 1]
                BY <2>2, <4>1, <4>2 DEF V
            <4>4. QED BY <3>2, <4>3
        <3>3. QED BY <3>1, <3>2
    <2>6. f = Body(f)
        BY <2>3, <2>5 DEF Along
    <2>7. QED BY <2>6
<1>3. g = Body(g)
    <2> HIDE DEF Body
    <2>1. QED BY <1>2
<1> HIDE DEF g
<1>4. /\ g[0] = <<>>
      /\ \A n \in 1..L : g[n] = IF s[n] \in S THEN Append(g[n - 1], s[n]) ELSE g[n - 1]
    <2>1. 0 \in 0..L /\ \A n \in 1..L : n \in 0..L /\ n # 0
        BY <1>0
    <2> DEFINE h == Body(g)
    <2>2. h[0] = <<>> /\ \A n \in 1..L : h[n] = IF s[n] \in S THEN Append(g[n - 1], s[n]) ELSE g[n - 1]
        BY <2>1
    <2> HIDE DEF h
    <2>3. g = h
        BY <1>3 DEF h
    <2>4. QED BY <2>2, <2>3
<1> DEFINE Upto(n) == {s[i] : i \in 1..n} \cap S
<1>5. ASSUME NEW R
      PROVE  /\ g[L] \in Seq(T) /\ ToSet(g[L]) = Upto(L)
             /\ Sorted(s, R) => Sorted(g[L], R)
    <2> DEFINE P == {n \in 0..L : /\ g[n] \in Seq(T) /\ ToSet(g[n]) = Upto(n)
                                  /\ Sorted(s, R) => Sorted(g[n], R)}
    <2>1. 0 \in P /\ P \in SUBSET (0..L)
        <3>1. ToSet(<<>>) = {} /\ Upto(0) = {}
            BY DEF ToSet
        <3>2. g[0] \in Seq(T) /\ ToSet(g[0]) = Upto(0) /\ (Sorted(s, R) => Sorted(g[0], R))
            <4> HIDE DEF Upto
            <4>1. QED BY <1>0, <1>4, <3>1, SortedEmpty
        <3>3. 0 \in 0..L
            BY <1>0
        <3> HIDE DEF Upto, L
        <3>4. QED BY <3>2, <3>3
    <2>2. ASSUME NEW n \in 0..(L - 1), n \in P PROVE n + 1 \in P
        <3>1. n \in Nat /\ n + 1 \in 1..L /\ (n + 1) - 1 = n /\ n + 1 \in 0..L
            BY <1>0
        <3> DEFINE e == s[n + 1]
        <3>2. Upto(n + 1) = Upto(n) \cup ({e} \cap S)
            <4>1. 1..(n + 1) = (1..n) \cup {n + 1}
                BY <3>1
            <4>2. QED BY <4>1
        <3>3. e \in T /\ g[n] \in Seq(T) /\ ToSet(g[n]) = Upto(n)
              /\ (Sorted(s, R) => Sorted(g[n], R))
            BY <1>0, <2>2, <3>1
        <3>4. CASE e \in S
            <4>1. g[n + 1] = Append(g[n], e)
                BY <1>4, <3>1, <3>4
            <4>2. Append(g[n], e) \in Seq(T) /\ ToSet(Append(g[n], e)) = ToSet(g[n]) \cup {e}
                BY <3>3, AppendSet
            <4>3. ASSUME Sorted(s, R) PROVE Sorted(Append(g[n], e), R)
                <5>1. \A x \in ToSet(g[n]) : <<x, e>> \in R
                    <6>1. ASSUME NEW i \in 1..n PROVE <<s[i], e>> \in R
                        <7>1. i \in DOMAIN s /\ n + 1 \in DOMAIN s /\ i < n + 1
                            BY <1>0, <3>1
                        <7>2. QED BY <4>3, <7>1 DEF Sorted
                    <6>2. QED BY <3>3, <6>1
                <5> HIDE DEF e
                <5>2. QED BY <3>3, <4>3, <5>1, SortedAppend
            <4> HIDE DEF e, Upto
            <4>4. QED BY <3>1, <3>2, <3>3, <3>4, <4>1, <4>2, <4>3
        <3>5. CASE e \notin S
            <4>1. g[n + 1] = g[n]
                BY <1>4, <3>1, <3>5
            <4> HIDE DEF e, Upto
            <4>2. QED BY <3>1, <3>2, <3>3, <3>5, <4>1
        <3>6. QED BY <3>4, <3>5
    <2>3. L \in P
        <3> HIDE DEF P, L
        <3>1. P = 0..L
            BY <1>0, <2>1, <2>2, SegmentInduction
        <3>2. QED BY <1>0, <3>1
    <2>4. QED BY <2>3
<1>6. Upto(L) = ToSet(s) \cap S
    BY <1>0 DEF ToSet
<1>7. Only(s, S) \in Seq(T) /\ ToSet(Only(s, S)) = ToSet(s) \cap S
      /\ \A R : Sorted(s, R) => Sorted(Only(s, S), R)
    <2> HIDE DEF L, Upto
    <2>1. QED BY <1>1, <1>5, <1>6
<1>8. Distinct(s) => Distinct(Only(s, S))
    BY <1>7, DistinctIsSorted
<1>9. QED BY <1>7, <1>8

\* Keys of the merge: a message and how many before it are the same.
Key == Msg \X Nat

LEMMA IndexedParts ==
    ASSUME NEW s \in Seq(Msg)
    PROVE  /\ Indexed(s) \in Seq(Key) /\ Len(Indexed(s)) = Len(s) /\ Distinct(Indexed(s))
           /\ \A i \in 1..Len(s) : Indexed(s)[i][1] = s[i]
           /\ Distinct(s) => \A i \in 1..Len(s) : Indexed(s)[i] = <<s[i], 0>>
<1> DEFINE B(i) == {j \in 1..(i - 1) : s[j] = s[i]}
<1>0. DOMAIN s = 1..Len(s) /\ Len(s) \in Nat /\ \A i \in 1..Len(s) : s[i] \in Msg
    OBVIOUS
<1>1. \A i \in 1..Len(s) : Indexed(s)[i] = <<s[i], Cardinality(B(i))>>
    BY <1>0 DEF Indexed
<1>2. ASSUME NEW i \in 1..Len(s)
      PROVE  IsFiniteSet(B(i)) /\ Cardinality(B(i)) \in Nat /\ B(i) \subseteq 1..(i - 1)
    <2>1. IsFiniteSet(1..(i - 1))
        BY FS_Interval
    <2>2. B(i) \subseteq 1..(i - 1)
        OBVIOUS
    <2> HIDE DEF B
    <2>3. IsFiniteSet(B(i))
        BY <2>1, <2>2, FS_Subset
    <2>4. QED BY <2>2, <2>3, FS_CardinalityType
<1>3. Indexed(s) = [i \in 1..Len(s) |-> <<s[i], Cardinality(B(i))>>]
    BY <1>0 DEF Indexed
<1>4. Indexed(s) \in Seq(Key) /\ Len(Indexed(s)) = Len(s)
    <2>1. \A i \in 1..Len(s) : <<s[i], Cardinality(B(i))>> \in Key
        BY <1>0, <1>2 DEF Key
    <2> DEFINE u == [i \in 1..Len(s) |-> <<s[i], Cardinality(B(i))>>]
    <2> HIDE DEF B, Key
    <2>2. u \in Seq(Key) /\ Len(u) = Len(s)
        BY <1>0, <2>1
    <2>3. QED BY <1>3, <2>2
<1>5. ASSUME NEW i \in 1..Len(s), NEW j \in 1..Len(s), i < j PROVE Indexed(s)[i] # Indexed(s)[j]
    <2>0. Indexed(s)[i] = Indexed(s)[j] => s[i] = s[j] /\ Cardinality(B(i)) = Cardinality(B(j))
        <3> HIDE DEF B
        <3>1. QED BY <1>1
    <2>1. SUFFICES ASSUME s[i] = s[j], Cardinality(B(i)) = Cardinality(B(j)) PROVE FALSE
        BY <2>0
    <2>2. B(i) \subseteq B(j) /\ i \in B(j) /\ i \notin B(i)
        BY <1>5, <2>1
    <2>3. IsFiniteSet(B(j))
        BY <1>2
    <2> HIDE DEF B
    <2>4. B(i) = B(j)
        BY <2>1, <2>2, <2>3, FS_Subset
    <2>5. QED BY <2>2, <2>4
<1>6. Distinct(Indexed(s))
    <2> DEFINE u == Indexed(s)
    <2> HIDE DEF u
    <2>1. DOMAIN u = 1..Len(s) /\ \A i, j \in 1..Len(s) : i < j => u[i] # u[j]
        BY <1>4, <1>5 DEF u
    <2>2. \A i, j \in 1..Len(s) : u[i] = u[j] => i = j
        <3>1. \A i, j \in 1..Len(s) : i < j \/ j < i \/ i = j
            OBVIOUS
        <3>2. QED BY <2>1, <3>1
    <2>3. Distinct(u)
        BY <2>1, <2>2 DEF Distinct
    <2>4. QED BY <2>3 DEF u
<1>7. ASSUME Distinct(s), NEW i \in 1..Len(s) PROVE Indexed(s)[i] = <<s[i], 0>>
    <2>1. B(i) = {}
        BY <1>0, <1>7 DEF Distinct
    <2>2. QED BY <1>1, <2>1, FS_EmptySet
<1> HIDE DEF B
<1>8. \A i \in 1..Len(s) : Indexed(s)[i][1] = s[i]
    BY <1>1
<1>9. QED BY <1>4, <1>6, <1>7, <1>8

LEMMA DistinctLength ==
    ASSUME NEW S, NEW s \in Seq(S)
    PROVE  /\ IsFiniteSet(ToSet(s)) /\ Cardinality(ToSet(s)) <= Len(s)
           /\ Distinct(s) => Cardinality(ToSet(s)) = Len(s)
<1>1. s \in [1..Len(s) -> ToSet(s)] /\ Len(s) \in Nat /\ DOMAIN s = 1..Len(s)
    BY ElementIn
<1>2. s \in Surjection(1..Len(s), ToSet(s))
    BY <1>1, ElementIn DEF Surjection
<1>3. IsFiniteSet(1..Len(s)) /\ Cardinality(1..Len(s)) = Len(s)
    <2>1. 1 \in Int /\ Len(s) \in Int /\ (1 > Len(s) => Len(s) = 0)
        BY <1>1
    <2>2. /\ IsFiniteSet(1..Len(s))
          /\ Cardinality(1..Len(s)) = IF 1 > Len(s) THEN 0 ELSE Len(s) - 1 + 1
        BY <2>1, FS_Interval
    <2>3. QED BY <2>1, <2>2
<1>4. ASSUME Distinct(s) PROVE s \in Injection(1..Len(s), ToSet(s))
    BY <1>1, <1>4 DEF Injection, Distinct, IsInjective
<1>5. QED BY <1>2, <1>3, <1>4, FS_Surjection

\* The caller's order fills the slots that its commands occupy: there are as
\* many of them as commands.
LEMMA RanksInRange ==
    ASSUME NEW kept \in Seq(Key), NEW common \in Seq(Key), Distinct(kept),
           NEW i \in 1..Len(kept), kept[i] \in ToSet(common)
    PROVE  Cardinality({j \in 1..i : kept[j] \in ToSet(common)}) \in 1..Len(common)
<1> DEFINE J == {j \in 1..i : kept[j] \in ToSet(common)}
           f == [j \in J |-> kept[j]]
           n == Cardinality(J)
<1>1. /\ IsFiniteSet(ToSet(common)) /\ Cardinality(ToSet(common)) <= Len(common)
      /\ Cardinality(ToSet(common)) \in Nat
    BY DistinctLength, FS_CardinalityType
<1>2. f \in Injection(J, ToSet(common))
    <2>1. \A j \in J : j \in DOMAIN kept /\ kept[j] \in ToSet(common)
        OBVIOUS
    <2>2. QED BY <2>1 DEF Injection, IsInjective, Distinct
<1>3. i \in J
    OBVIOUS
<1> HIDE DEF f, J
<1>4. IsFiniteSet(J) /\ Cardinality(J) <= Cardinality(ToSet(common))
    BY <1>1, <1>2, FS_Injection
<1>5. Cardinality(J) \in Nat /\ Cardinality(J) # 0
    BY <1>3, <1>4, FS_CardinalityType, FS_EmptySet
<1>6. Cardinality(J) \in 1..Len(common)
    BY <1>1, <1>4, <1>5
<1>7. QED BY <1>6 DEF J

LEMMA ReorderedParts ==
    ASSUME NEW kept \in Seq(Key), NEW common \in Seq(Key), Distinct(kept)
    PROVE  /\ Reordered(kept, common) \in Seq(Key)
           /\ Distinct(common) /\ ToSet(kept) = ToSet(common) => Reordered(kept, common) = common
<1> DEFINE J(i) == {j \in 1..i : kept[j] \in ToSet(common)}
           r == Reordered(kept, common)
           v(i) == IF kept[i] \in ToSet(common) THEN common[Cardinality(J(i))] ELSE kept[i]
<1>0. DOMAIN kept = 1..Len(kept) /\ Len(kept) \in Nat
    OBVIOUS
<1>1. r = [i \in 1..Len(kept) |-> v(i)]
    BY <1>0 DEF Reordered
<1>2. ASSUME NEW i \in 1..Len(kept) PROVE v(i) \in Key
    <2>1. CASE kept[i] \in ToSet(common)
        <3> DEFINE c == Cardinality(J(i))
        <3>1. c \in 1..Len(common)
            BY <2>1, RanksInRange
        <3>2. v(i) = common[c]
            BY <2>1
        <3> HIDE DEF c, v
        <3>3. QED BY <3>1, <3>2
    <2>2. CASE kept[i] \notin ToSet(common)
        BY <2>2
    <2>3. QED BY <2>1, <2>2
<1>3. r \in Seq(Key) /\ Len(r) = Len(kept)
    <2> HIDE DEF v, r
    <2>1. QED BY <1>0, <1>1, <1>2
<1>4. ASSUME Distinct(common), ToSet(kept) = ToSet(common) PROVE r = common
    <2>1. Len(kept) = Len(common)
        BY <1>4, DistinctLength
    <2>2. ASSUME NEW i \in 1..Len(kept) PROVE r[i] = common[i]
        <3>1. \A j \in 1..Len(kept) : kept[j] \in ToSet(common)
            BY <1>0, <1>4 DEF ToSet
        <3>2. J(i) = 1..i
            BY <3>1
        <3>3. Cardinality(1..i) = i
            <4>1. 1 \in Int /\ i \in Int /\ i >= 1
                OBVIOUS
            <4>2. Cardinality(1..i) = IF 1 > i THEN 0 ELSE i - 1 + 1
                BY <4>1, FS_Interval
            <4>3. QED BY <4>1, <4>2
        <3>4. v(i) = common[i]
            BY <3>1, <3>2, <3>3
        <3> HIDE DEF v, r
        <3>5. QED BY <1>1, <3>4
    <2> HIDE DEF r
    <2>3. QED BY <1>3, <2>1, <2>2, SeqEqual
<1>5. QED BY <1>3, <1>4

\* Before(D): the keys of D and those behind them.
Before(D) == {p \in Key \X Key : \E i, j \in DOMAIN D : i < j /\ D[i] = p[1] /\ D[j] = p[2]}

LEMMA BeforeIsOrder ==
    ASSUME NEW D \in Seq(Key), Distinct(D)
    PROVE  /\ Sorted(D, Before(D))
           /\ \A x, y \in Key : <<x, y>> \in Before(D) => <<y, x>> \notin Before(D)
           /\ \A x, y \in ToSet(D) : x # y => <<x, y>> \in Before(D) \/ <<y, x>> \in Before(D)
<1>0. DOMAIN D = 1..Len(D) /\ \A i \in DOMAIN D : D[i] \in Key
    OBVIOUS
<1>1. \A x, y \in Key : <<x, y>> \in Before(D)
                            <=> \E i, j \in DOMAIN D : i < j /\ D[i] = x /\ D[j] = y
    BY DEF Before
<1> HIDE DEF Key
<1>2. Sorted(D, Before(D))
    BY <1>0, <1>1 DEF Sorted
<1>3. ASSUME NEW x \in Key, NEW y \in Key, <<x, y>> \in Before(D), <<y, x>> \in Before(D)
      PROVE  FALSE
    <2>1. PICK i, j \in DOMAIN D : i < j /\ D[i] = x /\ D[j] = y
        BY <1>1, <1>3
    <2>2. PICK k, l \in DOMAIN D : k < l /\ D[k] = y /\ D[l] = x
        BY <1>1, <1>3
    <2>3. k = j /\ l = i
        BY <2>1, <2>2 DEF Distinct
    <2>4. QED BY <1>0, <2>1, <2>2, <2>3
<1>4. ASSUME NEW x \in ToSet(D), NEW y \in ToSet(D), x # y
      PROVE  <<x, y>> \in Before(D) \/ <<y, x>> \in Before(D)
    <2>1. PICK i \in DOMAIN D : D[i] = x
        BY DEF ToSet
    <2>2. PICK j \in DOMAIN D : D[j] = y
        BY DEF ToSet
    <2>3. i < j \/ j < i
        BY <1>0, <1>4, <2>1, <2>2
    <2>4. QED BY <1>0, <1>1, <2>1, <2>2, <2>3
<1>5. QED BY <1>2, <1>3, <1>4

LEMMA BeforeIsTransitive ==
    ASSUME NEW D \in Seq(Key), Distinct(D), NEW x \in Key, NEW y \in Key, NEW z \in Key,
           <<x, y>> \in Before(D), <<y, z>> \in Before(D)
    PROVE  <<x, z>> \in Before(D)
<1>1. PICK i, j \in DOMAIN D : i < j /\ D[i] = x /\ D[j] = y
    BY DEF Before
<1>2. PICK k, l \in DOMAIN D : k < l /\ D[k] = y /\ D[l] = z
    BY DEF Before
<1>3. k = j
    BY <1>1, <1>2 DEF Distinct
<1>4. i < l
    BY <1>1, <1>2, <1>3
<1>5. QED BY <1>1, <1>2, <1>4 DEF Before

\* A fresh command finds the place that the caller's order gives it.
LEMMA InsertBeforeParts ==
    ASSUME NEW m \in Seq(Key), NEW k \in Key, NEW D \in Seq(Key)
    PROVE  /\ InsertBeforeSuccessor(m, k, D) \in Seq(Key)
           /\ (/\ Distinct(D) /\ k \in ToSet(D) /\ ToSet(m) \subseteq ToSet(D)
               /\ Sorted(m, Before(D)))
              => /\ Sorted(InsertBeforeSuccessor(m, k, D), Before(D))
                 /\ ToSet(InsertBeforeSuccessor(m, k, D)) = ToSet(m) \cup {k}
<1> DEFINE later == {D[j] : j \in {n \in DOMAIN D : \E i \in 1..(n - 1) : D[i] = k}}
           slots == {i \in DOMAIN m : m[i] \in later}
           first == CHOOSE i \in slots : \A j \in slots : i <= j
           r == InsertBeforeSuccessor(m, k, D)
           Given == /\ Distinct(D) /\ k \in ToSet(D) /\ ToSet(m) \subseteq ToSet(D)
                    /\ Sorted(m, Before(D))
           Goal == r \in Seq(Key) /\ (Given => Sorted(r, Before(D)) /\ ToSet(r) = ToSet(m) \cup {k})
<1>0. /\ DOMAIN m = 1..Len(m) /\ Len(m) \in Nat /\ (\A i \in 1..Len(m) : m[i] \in Key)
      /\ DOMAIN D = 1..Len(D) /\ Len(D) \in Nat /\ (\A i \in 1..Len(D) : D[i] \in Key)
    OBVIOUS
<1>1. r = IF k \in ToSet(m) THEN m
          ELSE IF slots = {} THEN Append(m, k) ELSE InsertAt(m, first, k)
    BY DEF InsertBeforeSuccessor
<1>2. \A y \in Key : y \in later <=> <<k, y>> \in Before(D)
    <2>1. ASSUME NEW y \in Key PROVE y \in later <=> \E i, j \in DOMAIN D : i < j /\ D[i] = k /\ D[j] = y
        <3>1. \A j \in DOMAIN D : \A i \in 1..(j - 1) : i \in DOMAIN D /\ i < j
            BY <1>0
        <3>2. \A i, j \in DOMAIN D : i < j => i \in 1..(j - 1)
            BY <1>0
        <3>3. QED BY <3>1, <3>2
    <2>2. \A y \in Key : <<k, y>> \in Before(D)
                             <=> \E i, j \in DOMAIN D : i < j /\ D[i] = k /\ D[j] = y
        BY DEF Before
    <2> HIDE DEF later, Key
    <2>3. QED BY <2>1, <2>2
<1>3. \A i \in DOMAIN m : i \in slots <=> <<k, m[i]>> \in Before(D)
    <2> HIDE DEF later
    <2>1. QED BY <1>0, <1>2
<1>4. slots \subseteq 1..Len(m)
    BY <1>0
<1> HIDE DEF later, Key
<1>5. slots # {} => first \in slots /\ \A j \in slots : first <= j
    <2>1. ASSUME slots # {} PROVE \E i \in slots : \A j \in slots : i <= j
        <3> HIDE DEF slots
        <3>1. slots \subseteq Nat
            BY <1>0, <1>4
        <3>2. QED BY <2>1, <3>1, NatLeast
    <2> HIDE DEF slots
    <2>2. QED BY <2>1
<1> HIDE DEF slots, first, r
<1>6. ASSUME k \in ToSet(m) PROVE Goal
    BY <1>1, <1>6
<1>7. ASSUME k \notin ToSet(m), slots = {} PROVE Goal
    <2>1. r = Append(m, k)
        BY <1>1, <1>7
    <2>2. r \in Seq(Key) /\ ToSet(r) = ToSet(m) \cup {k}
        BY <2>1, AppendSet
    <2>3. ASSUME Given PROVE Sorted(r, Before(D))
        <3>1. ASSUME NEW x \in ToSet(m) PROVE <<x, k>> \in Before(D)
            <4>1. x \in ToSet(D) /\ k \in ToSet(D) /\ x # k
                BY <1>7, <2>3
            <4>2. PICK i \in DOMAIN m : m[i] = x
                BY DEF ToSet
            <4>3. <<k, x>> \notin Before(D)
                BY <1>3, <1>7, <4>2
            <4>4. QED BY <2>3, <4>1, <4>3, BeforeIsOrder
        <3>2. QED BY <2>1, <2>3, <3>1, SortedAppend
    <2>4. QED BY <2>2, <2>3
<1>8. ASSUME k \notin ToSet(m), slots # {} PROVE Goal
    <2>1. r = InsertAt(m, first, k) /\ first \in 1..Len(m) /\ first \in slots
          /\ \A j \in slots : first <= j
        BY <1>1, <1>4, <1>5, <1>8
    <2>2. r \in Seq(Key) /\ ToSet(r) = ToSet(m) \cup {k}
        BY <2>1, InsertParts
    <2>3. ASSUME Given PROVE Sorted(r, Before(D))
        <3>1. ASSUME NEW j \in 1..(first - 1) PROVE <<m[j], k>> \in Before(D)
            <4>1. j \in DOMAIN m /\ j \notin slots
                BY <1>0, <2>1
            <4>2. <<k, m[j]>> \notin Before(D)
                BY <1>3, <4>1
            <4>3. m[j] \in ToSet(D) /\ k \in ToSet(D) /\ m[j] # k
                BY <1>8, <2>3, <4>1 DEF ToSet
            <4>4. QED BY <2>3, <4>2, <4>3, BeforeIsOrder
        <3>2. ASSUME NEW j \in first..Len(m) PROVE <<k, m[j]>> \in Before(D)
            <4>1. first \in DOMAIN m /\ j \in DOMAIN m /\ (j = first \/ first < j)
                BY <1>0, <2>1
            <4>2. <<k, m[first]>> \in Before(D)
                BY <1>3, <2>1, <4>1
            <4>3. CASE j = first
                BY <4>2, <4>3
            <4>4. CASE first < j
                <5>1. <<m[first], m[j]>> \in Before(D)
                    BY <2>3, <4>1, <4>4 DEF Sorted
                <5>2. m[first] \in Key /\ m[j] \in Key
                    BY <1>0, <4>1
                <5>3. QED BY <2>3, <4>2, <5>1, <5>2, BeforeIsTransitive
            <4>5. QED BY <4>1, <4>3, <4>4
        <3>3. QED BY <2>1, <2>3, <3>1, <3>2, InsertParts
    <2>4. QED BY <2>2, <2>3
<1>9. Goal
    BY <1>6, <1>7, <1>8
<1>10. QED BY <1>9 DEF r

\* The merge as a recursion along the fresh commands.
LEMMA MergeParts ==
    ASSUME NEW kept \in Seq(Key), NEW common \in Seq(Key), NEW fresh \in Seq(Key),
           NEW D \in Seq(Key), Distinct(kept)
    PROVE  LET merged[n \in 0..Len(fresh)] ==
                   IF n = 0 THEN Reordered(kept, common)
                   ELSE InsertBeforeSuccessor(merged[n - 1], fresh[n], D)
           IN  /\ merged[Len(fresh)] \in Seq(Key)
               /\ (/\ Distinct(D) /\ Distinct(common) /\ ToSet(kept) = ToSet(common)
                   /\ Sorted(common, Before(D))
                   /\ ToSet(common) \cup ToSet(fresh) = ToSet(D))
                  => merged[Len(fresh)] = D
<1> DEFINE L == Len(fresh)
           a == Reordered(kept, common)
           V == Seq(Key)
           Body(f) == [n \in 0..L |-> IF n = 0 THEN a
                                      ELSE InsertBeforeSuccessor(f[n - 1], fresh[n], D)]
           g == CHOOSE f : f = Body(f)
           Given == /\ Distinct(D) /\ Distinct(common) /\ ToSet(kept) = ToSet(common)
                    /\ Sorted(common, Before(D))
                    /\ ToSet(common) \cup ToSet(fresh) = ToSet(D)
<1>0. L \in Nat /\ DOMAIN fresh = 1..L /\ (\A n \in 1..L : fresh[n] \in Key)
    OBVIOUS
<1>1. a \in V /\ (Given => a = common)
    BY ReorderedParts
<1>2. \E f : f = Body(f)
    <2> DEFINE G == [n \in 1..L |-> [m \in V |-> InsertBeforeSuccessor(m, fresh[n], D)]]
    <2>1. G \in [1..L -> [V -> V]]
        <3>1. \A n \in 1..L : \A m \in V : InsertBeforeSuccessor(m, fresh[n], D) \in V
            BY <1>0, InsertBeforeParts
        <3> HIDE DEF V
        <3>2. QED BY <3>1
    <2>2. \A m \in V : \A n \in 1..L : G[n][m] = InsertBeforeSuccessor(m, fresh[n], D)
        OBVIOUS
    <2> HIDE DEF G, L, V, a
    <2>3. PICK f : Along(f, L, V, a, G)
        BY <1>0, <1>1, <2>1, RecursionExists
    <2>4. \A n \in 1..L : f[n - 1] \in V
        BY <1>0, <2>3 DEF Along
    <2>5. ASSUME NEW n \in 0..L PROVE f[n] = Body(f)[n]
        <3>1. CASE n = 0
            BY <2>3, <3>1 DEF Along
        <3>2. CASE n # 0
            <4>1. n \in 1..L
                BY <1>0, <3>2
            <4>2. f[n] = G[n][f[n - 1]] /\ f[n - 1] \in V
                BY <2>3, <2>4, <4>1 DEF Along
            <4>3. f[n] = InsertBeforeSuccessor(f[n - 1], fresh[n], D)
                BY <2>2, <4>1, <4>2
            <4>4. QED BY <3>2, <4>3
        <3>3. QED BY <3>1, <3>2
    <2>6. f = Body(f)
        BY <2>3, <2>5 DEF Along
    <2>7. QED BY <2>6
<1>3. g = Body(g)
    <2> HIDE DEF Body
    <2>1. QED BY <1>2
<1> HIDE DEF g, a
<1>4. /\ g[0] = a
      /\ \A n \in 1..L : g[n] = InsertBeforeSuccessor(g[n - 1], fresh[n], D)
    <2>1. 0 \in 0..L /\ \A n \in 1..L : n \in 0..L /\ n # 0
        BY <1>0
    <2> DEFINE h == Body(g)
    <2>2. h[0] = a /\ \A n \in 1..L : h[n] = InsertBeforeSuccessor(g[n - 1], fresh[n], D)
        BY <2>1
    <2> HIDE DEF h
    <2>3. g = h
        BY <1>3 DEF h
    <2>4. QED BY <2>2, <2>3
<1> DEFINE Upto(n) == {fresh[i] : i \in 1..n}
           Fine(n) == /\ g[n] \in V
                      /\ Given => /\ Sorted(g[n], Before(D))
                                  /\ ToSet(g[n]) = ToSet(common) \cup Upto(n)
           P == {n \in 0..L : Fine(n)}
<1>5. 0 \in P /\ P \in SUBSET (0..L)
    <2>1. Upto(0) = {} /\ 0 \in 0..L
        BY <1>0
    <2> HIDE DEF Upto, V, L
    <2>2. Fine(0)
        BY <1>1, <1>4, <2>1
    <2> HIDE DEF Fine
    <2>3. QED BY <2>1, <2>2
<1>6. ASSUME NEW n \in 0..(L - 1), n \in P PROVE n + 1 \in P
    <2>1. n \in Nat /\ n + 1 \in 1..L /\ (n + 1) - 1 = n /\ n + 1 \in 0..L
        BY <1>0
    <2> DEFINE e == fresh[n + 1]
    <2>2. Upto(n + 1) = Upto(n) \cup {e}
        <3>1. 1..(n + 1) = (1..n) \cup {n + 1}
            BY <2>1
        <3>2. QED BY <3>1
    <2>3. e \in Key /\ e \in ToSet(fresh) /\ Upto(n) \subseteq ToSet(fresh)
        <3>1. \A i \in 1..n : i \in DOMAIN fresh
            BY <1>0, <2>1
        <3>2. QED BY <1>0, <2>1, <3>1 DEF ToSet
    <2>4. g[n + 1] = InsertBeforeSuccessor(g[n], e, D)
        BY <1>4, <2>1
    <2>5. Fine(n)
        BY <1>6
    <2> HIDE DEF e, Upto, L
    <2> DEFINE w == g[n]
               x == g[n + 1]
    <2> HIDE DEF w, x
    <2>6. /\ x \in Seq(Key)
          /\ (/\ Distinct(D) /\ e \in ToSet(D) /\ ToSet(w) \subseteq ToSet(D)
              /\ Sorted(w, Before(D)))
             => Sorted(x, Before(D)) /\ ToSet(x) = ToSet(w) \cup {e}
        <3>1. w \in Seq(Key) /\ x = InsertBeforeSuccessor(w, e, D)
            BY <2>4, <2>5 DEF w, x
        <3>2. QED BY <2>3, <3>1, InsertBeforeParts
    <2>7. ASSUME Given
          PROVE  /\ Sorted(g[n + 1], Before(D))
                 /\ ToSet(g[n + 1]) = ToSet(common) \cup Upto(n + 1)
        <3>1. Sorted(w, Before(D)) /\ ToSet(w) = ToSet(common) \cup Upto(n)
            BY <2>5, <2>7 DEF w
        <3>2. e \in ToSet(D) /\ ToSet(w) \subseteq ToSet(D) /\ Distinct(D)
            BY <2>3, <2>7, <3>1
        <3>3. Sorted(x, Before(D)) /\ ToSet(x) = ToSet(common) \cup Upto(n + 1)
            BY <2>2, <2>6, <3>1, <3>2
        <3>4. QED BY <3>3 DEF x
    <2> HIDE DEF Given
    <2>8. Fine(n + 1)
        BY <2>6, <2>7 DEF x
    <2> HIDE DEF Fine
    <2>9. QED BY <2>1, <2>8
<1>7. Fine(L)
    <2> HIDE DEF Fine, L
    <2>1. P = 0..L
        <3> HIDE DEF P
        <3>1. QED BY <1>0, <1>5, <1>6, SegmentInduction
    <2>2. L \in 0..L
        BY <1>0
    <2>3. QED BY <2>1, <2>2
<1>8. Upto(L) = ToSet(fresh)
    BY <1>0 DEF ToSet
<1>9. ASSUME Given PROVE g[L] = D
    <2>1. g[L] \in Seq(Key) /\ Sorted(g[L], Before(D)) /\ ToSet(g[L]) = ToSet(D) /\ Distinct(D)
        <3> HIDE DEF Upto, L
        <3>1. QED BY <1>7, <1>8, <1>9
    <2> DEFINE t == g[L]
    <2> HIDE DEF t
    <2>2. t \in Seq(Key) /\ Sorted(t, Before(D)) /\ ToSet(t) = ToSet(D) /\ Distinct(D)
        BY <2>1 DEF t
    <2>3. Sorted(D, Before(D)) /\ \A x, y \in Key : <<x, y>> \in Before(D) => <<y, x>> \notin Before(D)
        BY <2>2, BeforeIsOrder
    <2>4. t = D
        BY <2>2, <2>3, SortedUnique
    <2>5. QED BY <2>4 DEF t
<1>10. g[L] \in Seq(Key)
    BY <1>7
<1>11. QED BY <1>9, <1>10 DEF g, a

\* The merge of an owner that has seen the whole queue is the owner's queue;
\* every merge is a queue.
LEMMA MergeResult ==
    ASSUME NEW latest \in Seq(Msg), NEW previous \in Seq(Msg), NEW desired \in Seq(Msg)
    PROVE  /\ MergeQueueDelta(latest, previous, desired) \in Seq(Msg)
           /\ latest = previous => MergeQueueDelta(latest, previous, desired) = desired
<1> DEFINE L == Indexed(latest)
           P == ToSet(Indexed(previous))
           D == Indexed(desired)
           kept == Only(L, ToSet(L) \ (P \ ToSet(D)))
           common == Only(D, P \cap ToSet(kept))
           fresh == Only(D, ToSet(D) \ P)
           Merged(f) == [n \in 0..Len(fresh) |->
                            IF n = 0 THEN Reordered(kept, common)
                            ELSE InsertBeforeSuccessor(f[n - 1], fresh[n], D)]
           g == CHOOSE f : f = Merged(f)
           result == g[Len(fresh)]
<1>1. L \in Seq(Key) /\ Distinct(L) /\ D \in Seq(Key) /\ Distinct(D) /\ Len(D) = Len(desired)
      /\ \A i \in 1..Len(desired) : D[i][1] = desired[i]
    BY IndexedParts
<1>2. MergeQueueDelta(latest, previous, desired) = [i \in DOMAIN result |-> result[i][1]]
    BY DEF MergeQueueDelta
<1> HIDE DEF L, P, D
<1>3. /\ kept \in Seq(Key) /\ Distinct(kept)
      /\ ToSet(kept) = ToSet(L) \cap (ToSet(L) \ (P \ ToSet(D)))
    BY <1>1, OnlyParts
<1> HIDE DEF kept
<1>4. /\ common \in Seq(Key) /\ Distinct(common) /\ ToSet(common) = ToSet(D) \cap (P \cap ToSet(kept))
      /\ Sorted(common, Before(D))
    BY <1>1, OnlyParts, BeforeIsOrder
<1>5. fresh \in Seq(Key) /\ ToSet(fresh) = ToSet(D) \cap (ToSet(D) \ P)
    BY <1>1, OnlyParts
<1> HIDE DEF common, fresh
<1>6. /\ result \in Seq(Key)
      /\ (/\ Distinct(D) /\ Distinct(common) /\ ToSet(kept) = ToSet(common)
          /\ Sorted(common, Before(D))
          /\ ToSet(common) \cup ToSet(fresh) = ToSet(D)) => result = D
    BY <1>1, <1>3, <1>4, <1>5, MergeParts
<1> HIDE DEF g
<1>7. ASSUME latest = previous PROVE result = D
    <2>1. P = ToSet(L)
        BY <1>7 DEF P, L
    <2>2. ToSet(kept) = ToSet(common) /\ ToSet(common) \cup ToSet(fresh) = ToSet(D)
        BY <1>3, <1>4, <1>5, <2>1
    <2>3. QED BY <1>1, <1>4, <1>6, <2>2
<1> HIDE DEF result
<1>8. [i \in DOMAIN result |-> result[i][1]] \in Seq(Msg)
    <2>1. DOMAIN result = 1..Len(result) /\ Len(result) \in Nat
          /\ \A i \in 1..Len(result) : result[i] \in Key
        BY <1>6
    <2>2. \A i \in 1..Len(result) : result[i][1] \in Msg
        BY <2>1 DEF Key
    <2>3. QED BY <2>1, <2>2
<1>9. ASSUME latest = previous PROVE [i \in DOMAIN result |-> result[i][1]] = desired
    <2>1. result = D
        BY <1>7, <1>9
    <2>2. DOMAIN D = 1..Len(desired) /\ DOMAIN desired = 1..Len(desired)
          /\ desired = [i \in 1..Len(desired) |-> desired[i]]
        BY <1>1
    <2>3. QED BY <1>1, <2>1, <2>2
<1>10. QED BY <1>2, <1>8, <1>9

-----------------------------------------------------------------------------
(* Types.                                                                  *)

\* What the methods of the store may leave in the file.
FileType == [queue : Seq(Msg), inflight : Msg \cup {NoMsg}, infOwner : Owner \cup {NoOwner},
             turn : Seq(Msg), turnOwner : Owner \cup {NoOwner}]

LEMMA RecoveredTyped ==
    ASSUME StoreTypeOK
    PROVE  Recovered(disk) \in FileType
<1> DEFINE d == disk
           turnDead == d.turn # <<>> /\ ~OwnerIsLive(d.turnOwner)
           infDead == d.inflight # NoMsg /\ ~OwnerIsLive(d.infOwner)
           a == IF turnDead THEN d.turn ELSE <<>>
           b == IF infDead THEN <<d.inflight>> ELSE <<>>
<1>1. /\ d.queue \in Seq(Msg) /\ d.inflight \in Msg \cup {NoMsg} /\ d.infOwner \in Owner \cup {NoOwner}
      /\ d.turn \in Seq(Msg) /\ d.turnOwner \in Owner \cup {NoOwner} /\ <<>> \in Seq(Msg)
    BY DEF StoreTypeOK
<1> HIDE DEF d
<1>2. a \in Seq(Msg) /\ b \in Seq(Msg)
    BY <1>1
<1> HIDE DEF a, b
<1>3. a \o b \o d.queue \in Seq(Msg)
    BY <1>1, <1>2
<1> HIDE DEF turnDead, infDead
<1>4. Recovered(disk) = [queue |-> a \o b \o d.queue,
                         inflight |-> IF infDead THEN NoMsg ELSE d.inflight,
                         infOwner |-> IF infDead THEN NoOwner ELSE d.infOwner,
                         turn |-> IF turnDead THEN <<>> ELSE d.turn,
                         turnOwner |-> IF turnDead THEN NoOwner ELSE d.turnOwner]
    BY DEF Recovered, a, b, turnDead, infDead, d
<1> DEFINE q == a \o b \o d.queue
<1> HIDE DEF q
<1>5. q \in Seq(Msg)
    BY <1>3 DEF q
<1>6. QED BY <1>1, <1>4, <1>5 DEF FileType, q

LEMMA SaveTyped ==
    ASSUME StoreTypeOK, NEW o \in Owner, NEW q \in Seq(Msg), NEW inf \in Msg \cup {NoMsg},
           NEW turn \in Seq(Msg)
    PROVE  SaveResult(o, q, inf, turn) \in FileType
<1> DEFINE d == Recovered(disk)
           i == OwnedDelta(o, ownerInflight[o], inf, d.inflight, d.infOwner, NoMsg)
           t == OwnedDelta(o, ownerTurn[o], turn, d.turn, d.turnOwner, <<>>)
           mq == MergeQueueDelta(d.queue, ownerQueue[o], q)
<1>1. SaveResult(o, q, inf, turn)
        = [queue |-> mq, inflight |-> i[1], infOwner |-> i[2], turn |-> t[1], turnOwner |-> t[2]]
    BY DEF SaveResult
<1>2. d \in FileType
    BY RecoveredTyped
<1> HIDE DEF d
<1>3. /\ d.queue \in Seq(Msg) /\ d.inflight \in Msg \cup {NoMsg} /\ d.infOwner \in Owner \cup {NoOwner}
      /\ d.turn \in Seq(Msg) /\ d.turnOwner \in Owner \cup {NoOwner} /\ <<>> \in Seq(Msg)
    BY <1>2 DEF FileType
<1>4. mq \in Seq(Msg)
    <2>1. ownerQueue[o] \in Seq(Msg)
        BY DEF StoreTypeOK
    <2>2. QED BY <1>3, <2>1, MergeResult
<1>5. i[1] \in Msg \cup {NoMsg} /\ i[2] \in Owner \cup {NoOwner}
    BY <1>3 DEF OwnedDelta
<1>6. t[1] \in Seq(Msg) /\ t[2] \in Owner \cup {NoOwner}
    BY <1>3 DEF OwnedDelta
<1> HIDE DEF mq, i, t
<1>7. QED BY <1>1, <1>4, <1>5, <1>6 DEF FileType

LEMMA StoreKept ==
    ASSUME StoreTypeOK, NEW o \in Owner, disk' \in FileType, UNCHANGED life,
           NEW q \in Seq(Msg), NEW i \in Msg \cup {NoMsg}, NEW t \in Seq(Msg),
           ownerQueue' = ownerQueue \/ ownerQueue' = [ownerQueue EXCEPT ![o] = q],
           ownerInflight' = ownerInflight \/ ownerInflight' = [ownerInflight EXCEPT ![o] = i],
           ownerTurn' = ownerTurn \/ ownerTurn' = [ownerTurn EXCEPT ![o] = t]
    PROVE  StoreTypeOK'
<1>1. disk' \in FileType /\ life' \in [Owner -> {"new", "live", "gone", "dead"}]
    BY DEF StoreTypeOK
<1>2. ownerQueue' \in [Owner -> Seq(Msg)]
    BY DEF StoreTypeOK
<1>3. ownerInflight' \in [Owner -> Msg \cup {NoMsg}]
    BY DEF StoreTypeOK
<1>4. ownerTurn' \in [Owner -> Seq(Msg)]
    BY DEF StoreTypeOK
<1>5. QED BY <1>1, <1>2, <1>3, <1>4 DEF StoreTypeOK, FileType

LEMMA StoreCallTyped ==
    ASSUME StoreTypeOK, NEW o \in Owner, NEW q \in Seq(Msg), NEW inf \in Msg \cup {NoMsg},
           NEW turn \in Seq(Msg), NEW m,
           \/ Save(o, q, inf, turn) \/ RefuseSave(o, inf, turn) \/ Claim(o)
           \/ RefuseSettle(o, m) \/ PendingUserMessages(o) \/ UNCHANGED storeVars
    PROVE  StoreTypeOK'
<1> DEFINE d == Recovered(disk)
<1>0. <<>> \in Seq(Msg) /\ NoMsg \in Msg \cup {NoMsg}
    OBVIOUS
<1>1. d \in FileType /\ disk \in FileType
    BY RecoveredTyped DEF StoreTypeOK, FileType
<1>2. CASE Save(o, q, inf, turn)
    <2> DEFINE i == IF disk'.infOwner = o /\ disk'.inflight = inf THEN inf ELSE NoMsg
               t == IF disk'.turnOwner = o /\ disk'.turn = turn THEN turn ELSE <<>>
    <2>1. i \in Msg \cup {NoMsg} /\ t \in Seq(Msg)
        BY <1>0
    <2>2. /\ disk' \in FileType /\ life' = life /\ ownerQueue' = [ownerQueue EXCEPT ![o] = q]
          /\ ownerInflight' = [ownerInflight EXCEPT ![o] = i] /\ ownerTurn' = [ownerTurn EXCEPT ![o] = t]
        BY <1>2, SaveTyped DEF Save
    <2> HIDE DEF i, t
    <2>3. QED BY <2>1, <2>2, StoreKept
<1>3. CASE RefuseSave(o, inf, turn) \/ RefuseSettle(o, m) \/ PendingUserMessages(o) \/ UNCHANGED storeVars
    <2>1. disk' \in FileType /\ UNCHANGED <<life, ownerQueue, ownerInflight, ownerTurn>>
        BY <1>1, <1>3 DEF RefuseSave, RefuseSettle, PendingUserMessages, storeVars, baselines
    <2>2. QED BY <1>0, <2>1, StoreKept
<1>4. CASE Claim(o)
    <2>1. /\ d.queue \in Seq(Msg)
          /\ d = [queue |-> d.queue, inflight |-> d.inflight, infOwner |-> d.infOwner,
                  turn |-> d.turn, turnOwner |-> d.turnOwner]
        BY <1>1 DEF FileType
    <2> HIDE DEF d
    <2>2. Claimable(d) => Head(d.queue) \in Msg /\ Tail(d.queue) \in Seq(Msg)
        BY <2>1 DEF Claimable
    <2> DEFINE h == Head(d.queue)
               u == Tail(d.queue)
    <2> HIDE DEF h, u
    <2>3. disk' = IF Claimable(d) THEN [d EXCEPT !.queue = u, !.inflight = h, !.infOwner = o] ELSE d
        BY <1>4 DEF Claim, d, h, u
    <2>4. disk' \in FileType
        BY <1>1, <2>2, <2>3 DEF FileType, h, u
    <2>5. disk'.queue \in Seq(Msg)
        BY <2>4 DEF FileType
    <2>6. \E i \in Msg \cup {NoMsg} :
             ownerInflight' = ownerInflight \/ ownerInflight' = [ownerInflight EXCEPT ![o] = i]
        BY <1>4, <2>2 DEF Claim, d
    <2>7. /\ life' = life /\ ownerTurn' = ownerTurn
          /\ ownerQueue' = ownerQueue \/ ownerQueue' = [ownerQueue EXCEPT ![o] = disk'.queue]
        BY <1>4 DEF Claim
    <2>8. QED BY <1>0, <2>4, <2>5, <2>6, <2>7, StoreKept
<1>5. QED BY <1>2, <1>3, <1>4

LEMMA SettleTyped ==
    ASSUME StoreTypeOK, NEW o \in Owner, NEW m \in Msg, NEW s \in BOOLEAN, Settle(o, m, s)
    PROVE  StoreTypeOK'
<1> DEFINE d == Recovered(disk)
           u == IF s THEN d.queue ELSE <<m>> \o d.queue
<1>1. d \in FileType /\ NoMsg \in Msg \cup {NoMsg} /\ <<>> \in Seq(Msg)
    BY RecoveredTyped
<1> HIDE DEF d
<1>2. u \in Seq(Msg)
    <2>1. d.queue \in Seq(Msg)
        BY <1>1 DEF FileType
    <2>2. QED BY <2>1
<1> HIDE DEF u
<1>3. /\ disk' = [d EXCEPT !.inflight = NoMsg, !.infOwner = NoOwner, !.queue = u]
      /\ life' = life /\ ownerTurn' = ownerTurn
      /\ ownerInflight' = [ownerInflight EXCEPT ![o] = NoMsg]
      /\ ownerQueue' = [ownerQueue EXCEPT ![o] = disk'.queue]
    BY DEF Settle, d, u
<1>4. disk' \in FileType /\ disk'.queue \in Seq(Msg)
    BY <1>1, <1>2, <1>3 DEF FileType
<1>5. QED BY <1>1, <1>3, <1>4, StoreKept

\* The rest of TypeOK.
RuntimeTypeOK ==
    /\ loc \in [Owner -> [q : Seq(Msg), inf : Msg \cup {NoMsg}, turn : Seq(Msg)]]
    /\ run \in [Owner -> {"none", "direct", "queued"}]
    /\ phase \in [Owner -> {"closed", "current", "next"}]
    /\ steers \in [Owner -> Seq(Msg)]
    /\ consumed \in [Owner -> [msg : Msg \cup {NoMsg},
                               stage : {"none", "popped", "delivered"}]]
    /\ disp \in [Owner -> {"idle", "claiming", "claimed", "started", "admitted",
                           "settling", "settled"}]
    /\ cmd \in [Owner -> Msg \cup {NoMsg}]
    /\ dispatching \in [Owner -> BOOLEAN]
    /\ advance \in [Owner -> BOOLEAN]
    /\ steering \in [Owner -> BOOLEAN]
    /\ steerCmd \in [Owner -> {"idle", "sending", "waiting", "drained"}]
    /\ todo \in [Owner -> [act : {"none", "kick", "restore"}, msg : Msg \cup {NoMsg}]]
GhostTypeOK ==
    /\ accepted \in Seq(Msg)
    /\ taken \in [Msg -> 0..MaxTaken] /\ excused \in [Msg -> Nat]
    /\ dropped \subseteq Msg /\ steered \subseteq Msg /\ missed \in [Owner -> BOOLEAN]
    /\ budget \in [faults : 0..MaxFaults, interrupts : 0..MaxInterrupts,
                   resyncs : 0..MaxResyncs, clears : 0..MaxClears]

LEMMA TypeParts == TypeOK <=> StoreTypeOK /\ RuntimeTypeOK /\ GhostTypeOK
BY DEF TypeOK, RuntimeTypeOK, GhostTypeOK

LEMMA TypePartsNext == StoreTypeOK' /\ RuntimeTypeOK' /\ GhostTypeOK' => TypeOK'
BY TypeParts, PTL

LEMMA SpendTyped ==
    ASSUME TypeOK, NEW b \in {"faults", "interrupts", "resyncs", "clears"},
           Spend(b) \/ budget' = budget
    PROVE  budget' \in [faults : 0..MaxFaults, interrupts : 0..MaxInterrupts,
                        resyncs : 0..MaxResyncs, clears : 0..MaxClears]
<1>0. MaxFaults \in Nat /\ MaxInterrupts \in Nat /\ MaxResyncs \in Nat /\ MaxClears \in Nat
    BY BoundsAssumption
<1>1. budget \in [faults : 0..MaxFaults, interrupts : 0..MaxInterrupts,
                  resyncs : 0..MaxResyncs, clears : 0..MaxClears]
    BY DEF TypeOK
<1>2. CASE budget' = budget
    BY <1>1, <1>2
<1>3. CASE Spend(b)
    <2>1. budget[b] > 0 /\ budget' = [budget EXCEPT ![b] = @ - 1]
        BY <1>3 DEF Spend
    <2>2. CASE b = "faults"
        BY <1>0, <1>1, <2>1, <2>2
    <2>3. CASE b = "interrupts"
        BY <1>0, <1>1, <2>1, <2>3
    <2>4. CASE b = "resyncs"
        BY <1>0, <1>1, <2>1, <2>4
    <2>5. CASE b = "clears"
        BY <1>0, <1>1, <2>1, <2>5
    <2>6. QED BY <2>2, <2>3, <2>4, <2>5
<1>4. QED BY <1>2, <1>3

LEMMA ExcuseTyped ==
    ASSUME TypeOK, NEW M, Excuse(M)
    PROVE  excused' \in [Msg -> Nat]
BY DEF TypeOK, Excuse

LEMMA PersistTyped ==
    ASSUME TypeOK, NEW o \in Owner, NEW q \in Seq(Msg), NEW inf \in Msg \cup {NoMsg},
           NEW turn \in Seq(Msg), Persist(o, q, inf, turn)
    PROVE  /\ StoreTypeOK'
           /\ loc' \in [Owner -> [q : Seq(Msg), inf : Msg \cup {NoMsg}, turn : Seq(Msg)]]
<1>1. StoreTypeOK'
    <2>1. Save(o, q, inf, turn) /\ StoreTypeOK
        BY DEF Persist, TypeOK
    <2>2. QED BY <2>1, StoreCallTyped
<1>2. [q |-> q, inf |-> inf, turn |-> turn] \in [q : Seq(Msg), inf : Msg \cup {NoMsg}, turn : Seq(Msg)]
    OBVIOUS
<1>3. loc \in [Owner -> [q : Seq(Msg), inf : Msg \cup {NoMsg}, turn : Seq(Msg)]]
    BY DEF TypeOK
<1>4. QED BY <1>1, <1>2, <1>3 DEF Persist

\* A message being restored is a message.
Restoring(o) == todo[o].act = "restore" => todo[o].msg \in Msg

\* A step that leaves the file alone and a runtime's copy of it.
LEMMA QuietTyped ==
    ASSUME TypeOK, NEW p \in Owner,
           \/ StartDirect(p) \/ Resync(p) \/ KickIgnored(p) \/ FinishSteering(p)
           \/ ClaimFails(p) \/ StartQueued(p) \/ Admit(p) \/ SettleFails(p)
           \/ FinishDispatch(p) \/ PopSteer(p) \/ DeliverSteer(p) \/ DeferMailbox(p)
    PROVE  TypeOK'
<1>0. StoreTypeOK /\ RuntimeTypeOK /\ GhostTypeOK
    BY TypeParts
<1>1. UNCHANGED <<disk, life, ownerQueue, ownerInflight, ownerTurn, loc, accepted, dropped, steered>>
    BY DEF StartDirect, Resync, KickIgnored, FinishSteering, ClaimFails, StartQueued, Admit,
           SettleFails, FinishDispatch, PopSteer, DeliverSteer, DeferMailbox, storeVars, ghostVars
<1>2. StoreTypeOK'
    BY <1>0, <1>1 DEF StoreTypeOK
<1>3. budget' \in [faults : 0..MaxFaults, interrupts : 0..MaxInterrupts,
                   resyncs : 0..MaxResyncs, clears : 0..MaxClears]
    <2>1. budget' = budget \/ \E b \in {"faults", "interrupts", "resyncs", "clears"} : Spend(b)
        BY DEF StartDirect, Resync, KickIgnored, FinishSteering, ClaimFails, StartQueued, Admit,
               SettleFails, FinishDispatch, PopSteer, DeliverSteer, DeferMailbox
    <2>2. QED BY <2>1, SpendTyped
<1>4. Idle \in [act : {"none", "kick", "restore"}, msg : Msg \cup {NoMsg}]
      /\ Kick \in [act : {"none", "kick", "restore"}, msg : Msg \cup {NoMsg}]
    BY DEF Idle, Kick
<1>5. MaxTaken \in Nat
    BY BoundsAssumption
<1>6. taken' \in [Msg -> 0..MaxTaken]
    <2>1. taken' = taken \/ \E m : taken[m] < MaxTaken /\ taken' = [taken EXCEPT ![m] = @ + 1]
        BY DEF StartDirect, Resync, KickIgnored, FinishSteering, ClaimFails, StartQueued, Admit,
               SettleFails, FinishDispatch, PopSteer, DeliverSteer, DeferMailbox, ghostVars
    <2>2. taken \in [Msg -> 0..MaxTaken]
        BY <1>0 DEF GhostTypeOK
    <2>3. ASSUME NEW m, taken[m] < MaxTaken PROVE [taken EXCEPT ![m] = @ + 1] \in [Msg -> 0..MaxTaken]
        <3>1. CASE m \in Msg
            <4>1. taken[m] + 1 \in 0..MaxTaken
                BY <1>5, <2>2, <2>3, <3>1
            <4>2. QED BY <2>2, <4>1
        <3>2. CASE m \notin Msg
            <4>1. [taken EXCEPT ![m] = @ + 1] = taken
                BY <2>2, <3>2
            <4>2. QED BY <2>2, <4>1
        <3>3. QED BY <3>1, <3>2
    <2>4. QED BY <2>1, <2>2, <2>3
<1>7. excused' \in [Msg -> Nat]
    <2>1. excused' = excused \/ \E m : \E n \in {0, 1} : excused' = [excused EXCEPT ![m] = @ + n]
        BY DEF StartDirect, Resync, KickIgnored, FinishSteering, ClaimFails, StartQueued, Admit,
               SettleFails, FinishDispatch, PopSteer, DeliverSteer, DeferMailbox, ghostVars
    <2>2. QED BY <1>0, <2>1 DEF GhostTypeOK
<1>8. missed' \in [Owner -> BOOLEAN]
    BY <1>0 DEF StartDirect, Resync, KickIgnored, FinishSteering, ClaimFails, StartQueued, Admit,
               SettleFails, FinishDispatch, PopSteer, DeliverSteer, DeferMailbox, ghostVars, GhostTypeOK
<1>9. GhostTypeOK'
    BY <1>0, <1>1, <1>3, <1>6, <1>7, <1>8 DEF GhostTypeOK
<1>10. RuntimeTypeOK'
    <2>1. CASE StartDirect(p)
        BY <1>0, <1>1, <2>1 DEF StartDirect, RuntimeTypeOK, steerVars
    <2>10. CASE Resync(p)
        BY <1>0, <1>1, <1>4, <2>10 DEF Resync, RuntimeTypeOK, steerVars
    <2>11. CASE ClaimFails(p)
        BY <1>0, <1>1, <1>4, <2>11 DEF ClaimFails, RuntimeTypeOK, steerVars
    <2>9. CASE StartQueued(p) \/ Admit(p) \/ DeferMailbox(p)
        BY <1>0, <1>1, <1>4, <2>9, ZenonT(60) DEF StartQueued, Admit, DeferMailbox, RuntimeTypeOK, steerVars
    <2>2. CASE KickIgnored(p)
        BY <1>0, <1>1, <1>4, <2>2 DEF KickIgnored, RuntimeTypeOK, steerVars
    <2>3. CASE FinishSteering(p)
        BY <1>0, <1>1, <1>4, <2>3 DEF FinishSteering, RuntimeTypeOK, steerVars
    <2>4. CASE SettleFails(p)
        <3>1. PICK s \in {"settled", "idle"} : disp' = [disp EXCEPT ![p] = s]
            BY <2>4 DEF SettleFails
        <3>2. advance' = [advance EXCEPT ![p] = disp[p] = "admitted"]
            BY <2>4 DEF SettleFails
        <3>3. UNCHANGED <<steering, steerCmd, run, phase, steers, consumed, cmd, dispatching, todo>>
            BY <2>4 DEF SettleFails, steerVars
        <3>4. disp' \in [Owner -> {"idle", "claiming", "claimed", "started", "admitted",
                                   "settling", "settled"}]
            BY <1>0, <3>1 DEF RuntimeTypeOK
        <3>5. advance' \in [Owner -> BOOLEAN]
            BY <1>0, <3>2 DEF RuntimeTypeOK
        <3>6. QED BY <1>0, <1>1, <3>3, <3>4, <3>5 DEF RuntimeTypeOK
    <2>5. CASE FinishDispatch(p)
        BY <1>0, <1>1, <1>4, <2>5 DEF FinishDispatch, RuntimeTypeOK, steerVars
    <2>6. CASE PopSteer(p)
        BY <1>0, <1>1, <1>4, <2>6 DEF PopSteer, RuntimeTypeOK, steerVars
    <2>7. CASE DeliverSteer(p)
        <3>1. consumed' = [consumed EXCEPT ![p].stage = "delivered"]
            BY <2>7 DEF DeliverSteer
        <3>2. UNCHANGED <<steering, steerCmd, run, phase, steers, disp, cmd, dispatching, advance, todo>>
            BY <2>7 DEF DeliverSteer, steerVars
        <3>3. consumed' \in [Owner -> [msg : Msg \cup {NoMsg},
                                       stage : {"none", "popped", "delivered"}]]
            <4> DEFINE C == [msg : Msg \cup {NoMsg}, stage : {"none", "popped", "delivered"}]
                       c == [consumed[p] EXCEPT !.stage = "delivered"]
            <4>1. consumed \in [Owner -> C] /\ consumed[p] \in C
                BY <1>0 DEF RuntimeTypeOK
            <4>2. c \in C
                BY <4>1
            <4>3. consumed' = [consumed EXCEPT ![p] = c]
                BY <3>1, Zenon
            <4> HIDE DEF C, c
            <4>4. consumed' \in [Owner -> C]
                BY <4>1, <4>2, <4>3
            <4>5. QED BY <4>4 DEF C
        <3>4. QED BY <1>0, <1>1, <3>2, <3>3 DEF RuntimeTypeOK
    <2>8. QED BY <2>1, <2>2, <2>3, <2>4, <2>5, <2>6, <2>7, <2>9, <2>10, <2>11
<1>11. QED
    <2>1. StoreTypeOK' /\ RuntimeTypeOK' /\ GhostTypeOK'
        BY <1>2, <1>9, <1>10
    <2>3. QED BY <2>1 DEF TypeOK, RuntimeTypeOK, GhostTypeOK

LEMMA SnapshotsTyped ==
    ASSUME TypeOK, NEW p \in Owner
    PROVE  /\ loc[p].q \in Seq(Msg) /\ loc[p].inf \in Msg \cup {NoMsg} /\ loc[p].turn \in Seq(Msg)
           /\ loc[p] = [q |-> loc[p].q, inf |-> loc[p].inf, turn |-> loc[p].turn]
           /\ steers[p] \in Seq(Msg) /\ Restored(p) \in Seq(Msg) /\ <<>> \in Seq(Msg)
           /\ \A m : Without(loc[p].q, m) \in Seq(Msg) /\ Without(loc[p].turn, m) \in Seq(Msg)
           /\ \A m \in Msg : Append(loc[p].q, m) \in Seq(Msg) /\ Append(loc[p].turn, m) \in Seq(Msg)
                             /\ <<m>> \o loc[p].q \in Seq(Msg)
<1>1. /\ loc[p].q \in Seq(Msg) /\ loc[p].inf \in Msg \cup {NoMsg} /\ loc[p].turn \in Seq(Msg)
      /\ loc[p] = [q |-> loc[p].q, inf |-> loc[p].inf, turn |-> loc[p].turn]
      /\ steers[p] \in Seq(Msg)
    BY DEF TypeOK
<1> DEFINE q == loc[p].q
           t == loc[p].turn
           s == steers[p]
<1> HIDE DEF q, t, s
<1>2. q \in Seq(Msg) /\ t \in Seq(Msg) /\ s \in Seq(Msg)
    BY <1>1 DEF q, t, s
<1>3. \A m : Without(q, m) \in Seq(Msg) /\ Without(t, m) \in Seq(Msg)
    BY <1>2, OnlyParts DEF Without
<1>4. t \o Only(s, Msg \ ToSet(t)) \in Seq(Msg)
    <2>1. Only(s, Msg \ ToSet(t)) \in Seq(Msg)
        BY <1>2, OnlyParts
    <2>2. QED BY <1>2, <2>1
<1>5. Restored(p) \in Seq(Msg)
    BY <1>4 DEF Restored, t, s
<1>6. \A m \in Msg : Append(q, m) \in Seq(Msg) /\ Append(t, m) \in Seq(Msg) /\ <<m>> \o q \in Seq(Msg)
    BY <1>2
<1>7. QED BY <1>1, <1>3, <1>5, <1>6 DEF q, t, s

\* The parts of a state around what a step publishes.
LEMMA TypesAround ==
    ASSUME TypeOK, StoreTypeOK',
           loc' \in [Owner -> [q : Seq(Msg), inf : Msg \cup {NoMsg}, turn : Seq(Msg)]],
           run' \in [Owner -> {"none", "direct", "queued"}],
           phase' \in [Owner -> {"closed", "current", "next"}],
           steers' \in [Owner -> Seq(Msg)],
           consumed' \in [Owner -> [msg : Msg \cup {NoMsg},
                                    stage : {"none", "popped", "delivered"}]],
           disp' \in [Owner -> {"idle", "claiming", "claimed", "started", "admitted",
                                "settling", "settled"}],
           cmd' \in [Owner -> Msg \cup {NoMsg}],
           dispatching' \in [Owner -> BOOLEAN], advance' \in [Owner -> BOOLEAN],
           steering' \in [Owner -> BOOLEAN],
           steerCmd' \in [Owner -> {"idle", "sending", "waiting", "drained"}],
           todo' \in [Owner -> [act : {"none", "kick", "restore"}, msg : Msg \cup {NoMsg}]],
           accepted' \in Seq(Msg), taken' = taken, excused' \in [Msg -> Nat],
           dropped' \subseteq Msg, steered' \subseteq Msg, missed' \in [Owner -> BOOLEAN],
           budget' = budget \/ \E b \in {"faults", "interrupts", "resyncs", "clears"} : Spend(b)
    PROVE  TypeOK'
<1>1. budget' \in [faults : 0..MaxFaults, interrupts : 0..MaxInterrupts,
                   resyncs : 0..MaxResyncs, clears : 0..MaxClears]
    BY SpendTyped
<1>2. taken' \in [Msg -> 0..MaxTaken]
    BY DEF TypeOK
<1>3. QED BY <1>1, <1>2 DEF TypeOK

LEMMA CommandTyped ==
    ASSUME TypeOK, NEW p \in Owner, NEW m \in Msg,
           Submit(p, m) \/ SubmitSteer(p, m) \/ Cancel(p, m) \/ SteerQueued(p, m)
    PROVE  TypeOK'
<1>0. RuntimeTypeOK /\ GhostTypeOK
    BY TypeParts
<1>1. CASE Submit(p, m)
    <2>1. /\ StoreTypeOK'
          /\ loc' \in [Owner -> [q : Seq(Msg), inf : Msg \cup {NoMsg}, turn : Seq(Msg)]]
        BY <1>1, SnapshotsTyped, PersistTyped DEF Submit
    <2>2. accepted' \in Seq(Msg)
        BY <1>0, <1>1 DEF Submit, GhostTypeOK
    <2>3. QED BY <1>0, <1>1, <2>1, <2>2, TypesAround DEF Submit, steerVars, RuntimeTypeOK, GhostTypeOK
<1>2. CASE SubmitSteer(p, m)
    <2>1. /\ StoreTypeOK'
          /\ loc' \in [Owner -> [q : Seq(Msg), inf : Msg \cup {NoMsg}, turn : Seq(Msg)]]
        BY <1>2, SnapshotsTyped, PersistTyped DEF SubmitSteer
    <2>2. accepted' \in Seq(Msg) /\ steered' \subseteq Msg
        BY <1>0, <1>2 DEF SubmitSteer, GhostTypeOK
    <2>3. steers' \in [Owner -> Seq(Msg)]
        BY <1>0, <1>2 DEF SubmitSteer, RuntimeTypeOK
    <2>4. QED BY <1>0, <1>2, <2>1, <2>2, <2>3, TypesAround DEF SubmitSteer, steerVars, RuntimeTypeOK, GhostTypeOK
<1>3. CASE Cancel(p, m)
    <2>1. /\ StoreTypeOK'
          /\ loc' \in [Owner -> [q : Seq(Msg), inf : Msg \cup {NoMsg}, turn : Seq(Msg)]]
        BY <1>3, SnapshotsTyped, PersistTyped DEF Cancel
    <2>2. dropped' \subseteq Msg
        BY <1>0, <1>3 DEF Cancel, GhostTypeOK
    <2>3. QED BY <1>0, <1>3, <2>1, <2>2, TypesAround DEF Cancel, steerVars, RuntimeTypeOK, GhostTypeOK
<1>4. CASE SteerQueued(p, m)
    <2>1. /\ StoreTypeOK'
          /\ loc' \in [Owner -> [q : Seq(Msg), inf : Msg \cup {NoMsg}, turn : Seq(Msg)]]
        BY <1>4, SnapshotsTyped, PersistTyped DEF SteerQueued
    <2>2. steered' \subseteq Msg
        BY <1>0, <1>4 DEF SteerQueued, GhostTypeOK
    <2>3. steers' \in [Owner -> Seq(Msg)]
        <3>1. steers' = steers \/ steers' = [steers EXCEPT ![p] = Append(@, m)]
            BY <1>4 DEF SteerQueued
        <3>2. steers \in [Owner -> Seq(Msg)]
            BY <1>0 DEF RuntimeTypeOK
        <3>3. QED BY <3>1, <3>2
    <2>4. todo' \in [Owner -> [act : {"none", "kick", "restore"}, msg : Msg \cup {NoMsg}]]
        <3>1. todo' = todo \/ todo' = [todo EXCEPT ![p] = [act |-> "restore", msg |-> m]]
            BY <1>4 DEF SteerQueued
        <3>2. todo \in [Owner -> [act : {"none", "kick", "restore"}, msg : Msg \cup {NoMsg}]]
            BY <1>0 DEF RuntimeTypeOK
        <3>3. QED BY <3>1, <3>2
    <2>5. /\ steering' \in [Owner -> BOOLEAN]
          /\ steerCmd' \in [Owner -> {"idle", "sending", "waiting", "drained"}]
        <3>1. /\ steering' = [steering EXCEPT ![p] = TRUE]
              /\ steerCmd' = steerCmd \/ steerCmd' = [steerCmd EXCEPT ![p] = "sending"]
            BY <1>4 DEF SteerQueued
        <3>2. QED BY <1>0, <3>1 DEF RuntimeTypeOK
    <2>6. QED BY <1>0, <1>4, <2>1, <2>2, <2>3, <2>4, <2>5, TypesAround DEF SteerQueued, RuntimeTypeOK, GhostTypeOK
<1>5. QED BY <1>1, <1>2, <1>3, <1>4

LEMMA FailureTyped ==
    ASSUME TypeOK, NEW p \in Owner, NEW q, NEW inf, NEW turn, PersistFails(p, q, inf, turn)
    PROVE  /\ StoreTypeOK'
           /\ budget' = budget \/ Spend("faults")
<1>1. disk' \in FileType /\ UNCHANGED <<life, ownerQueue, ownerInflight, ownerTurn>>
    <2>1. Recovered(disk) \in FileType /\ disk \in FileType
        BY RecoveredTyped DEF TypeOK, StoreTypeOK, FileType
    <2>2. (disk' = Recovered(disk) \/ disk' = disk) /\ UNCHANGED <<life, ownerQueue, ownerInflight, ownerTurn>>
        BY DEF PersistFails, RefuseSave, storeVars, baselines
    <2>3. QED BY <2>1, <2>2
<1>2. StoreTypeOK'
    BY <1>1 DEF TypeOK, StoreTypeOK, FileType
<1>3. QED BY <1>2 DEF PersistFails

LEMMA RunEndTyped ==
    ASSUME TypeOK, NEW p \in Owner,
           \/ AckSteer(p) \/ AckFails(p) \/ EndRun(p) \/ EndRunFails(p)
    PROVE  TypeOK'
<1>0. RuntimeTypeOK /\ GhostTypeOK /\ StoreTypeOK /\ <<>> \in Seq(Msg)
      /\ NoneConsumed \in [msg : Msg \cup {NoMsg}, stage : {"none", "popped", "delivered"}]
      /\ Kick \in [act : {"none", "kick", "restore"}, msg : Msg \cup {NoMsg}]
      /\ Idle \in [act : {"none", "kick", "restore"}, msg : Msg \cup {NoMsg}]
    BY TypeParts DEF NoneConsumed, Kick, Idle
<1>1. consumed' \in [Owner -> [msg : Msg \cup {NoMsg}, stage : {"none", "popped", "delivered"}]]
    <2>1. consumed' = [consumed EXCEPT ![p] = NoneConsumed]
        BY DEF AckSteer, AckFails, EndRun, EndRunFails
    <2>2. QED BY <1>0, <2>1 DEF RuntimeTypeOK
<1>2. excused' \in [Msg -> Nat]
    <2>1. excused' = excused \/ \E M : Excuse(M)
        BY DEF AckSteer, AckFails, EndRun, EndRunFails, ghostVars
    <2>2. QED BY <1>0, <2>1, ExcuseTyped DEF GhostTypeOK
<1>3. steerCmd' \in [Owner -> {"idle", "sending", "waiting", "drained"}]
    <2>1. steerCmd' = steerCmd \/ \E s \in {"idle", "sending", "waiting", "drained"} :
                                      steerCmd' = [steerCmd EXCEPT ![p] = s]
        BY <1>0 DEF AckSteer, AckFails, EndRun, EndRunFails, SteerDrained, steerVars, RuntimeTypeOK
    <2>2. QED BY <1>0, <2>1 DEF RuntimeTypeOK
<1>4. CASE AckSteer(p)
    <2>1. /\ StoreTypeOK'
          /\ loc' \in [Owner -> [q : Seq(Msg), inf : Msg \cup {NoMsg}, turn : Seq(Msg)]]
        <3>1. CASE UNCHANGED <<storeVars, loc>>
            BY <1>0, <3>1 DEF storeVars, StoreTypeOK, RuntimeTypeOK
        <3>2. CASE Persist(p, loc[p].q, loc[p].inf, Without(loc[p].turn, consumed[p].msg))
            BY <3>2, SnapshotsTyped, PersistTyped
        <3>3. QED BY <1>4, <3>1, <3>2 DEF AckSteer
    <2>2. QED BY <1>0, <1>1, <1>2, <1>3, <1>4, <2>1, TypesAround DEF AckSteer, RuntimeTypeOK, GhostTypeOK, ghostVars, steerVars
<1>5. CASE AckFails(p)
    <2>1. StoreTypeOK' /\ (budget' = budget \/ Spend("faults"))
        BY <1>5, FailureTyped DEF AckFails
    <2>2. QED BY <1>0, <1>1, <1>2, <1>3, <1>5, <2>1, TypesAround DEF AckFails, RuntimeTypeOK, GhostTypeOK, steerVars
<1>6. CASE EndRun(p)
    <2>1. /\ StoreTypeOK'
          /\ loc' \in [Owner -> [q : Seq(Msg), inf : Msg \cup {NoMsg}, turn : Seq(Msg)]]
        <3>1. CASE UNCHANGED <<storeVars, loc>>
            BY <1>0, <3>1 DEF storeVars, StoreTypeOK, RuntimeTypeOK
        <3>2. CASE Persist(p, Restored(p) \o loc[p].q, loc[p].inf, <<>>)
            <4>1. Restored(p) \o loc[p].q \in Seq(Msg)
                <5> DEFINE r == Restored(p)
                           q == loc[p].q
                <5>1. r \in Seq(Msg) /\ q \in Seq(Msg)
                    BY SnapshotsTyped
                <5> HIDE DEF r, q
                <5>2. r \o q \in Seq(Msg)
                    BY <5>1
                <5>3. QED BY <5>2 DEF r, q
            <4>2. QED BY <3>2, <4>1, SnapshotsTyped, PersistTyped
        <3>3. QED BY <1>6, <3>1, <3>2 DEF EndRun
    <2>2. todo' \in [Owner -> [act : {"none", "kick", "restore"}, msg : Msg \cup {NoMsg}]]
        <3>1. todo' = [todo EXCEPT ![p] = Kick] \/ todo' = [todo EXCEPT ![p] = Idle]
            BY <1>6 DEF EndRun
        <3>2. QED BY <1>0, <3>1, ZenonT(60) DEF RuntimeTypeOK
    <2>3. run' \in [Owner -> {"none", "direct", "queued"}] /\ phase' \in [Owner -> {"closed", "current", "next"}]
          /\ steers' \in [Owner -> Seq(Msg)]
        BY <1>0, <1>6 DEF EndRun, RuntimeTypeOK
    <2>4. /\ UNCHANGED <<missed, steering, disp, cmd, dispatching, advance, accepted, taken, dropped, steered>>
          /\ budget' = budget \/ Spend("interrupts")
        BY <1>6 DEF EndRun
    <2>5. QED BY <1>0, <1>1, <1>2, <1>3, <2>1, <2>2, <2>3, <2>4, TypesAround DEF RuntimeTypeOK, GhostTypeOK
<1>7. CASE EndRunFails(p)
    <2>1. StoreTypeOK' /\ (budget' = budget \/ Spend("faults"))
        BY <1>7, FailureTyped DEF EndRunFails
    <2>2. run' \in [Owner -> {"none", "direct", "queued"}] /\ advance' \in [Owner -> BOOLEAN]
        BY <1>0, <1>7 DEF EndRunFails, RuntimeTypeOK
    <2>3. UNCHANGED <<missed, steering, loc, phase, steers, disp, cmd, dispatching, todo, accepted, taken,
                      dropped, steered>>
        BY <1>7 DEF EndRunFails
    <2>4. QED BY <1>0, <1>1, <1>2, <1>3, <2>1, <2>2, <2>3, TypesAround DEF RuntimeTypeOK, GhostTypeOK
<1>8. QED BY <1>4, <1>5, <1>6, <1>7

LEMMA HeldTyped ==
    ASSUME TypeOK, NEW p \in Owner
    PROVE  Held(p) \subseteq Msg
<1>1. loc[p].q \in Seq(Msg) /\ loc[p].turn \in Seq(Msg) /\ loc[p].inf \in Msg \cup {NoMsg}
    BY SnapshotsTyped
<1>2. ToSet(loc[p].q) \subseteq Msg /\ ToSet(loc[p].turn) \subseteq Msg
    BY <1>1, ElementIn
<1>3. QED BY <1>1, <1>2 DEF Held

LEMMA ClearTyped ==
    ASSUME TypeOK, NEW p \in Owner, Clear(p)
    PROVE  TypeOK'
<1>0. RuntimeTypeOK /\ GhostTypeOK /\ <<>> \in Seq(Msg) /\ NoMsg \in Msg \cup {NoMsg}
    BY TypeParts
<1>1. /\ StoreTypeOK'
      /\ loc' \in [Owner -> [q : Seq(Msg), inf : Msg \cup {NoMsg}, turn : Seq(Msg)]]
    BY <1>0, PersistTyped DEF Clear
<1>2. dropped' \subseteq Msg
    <2>1. Held(p) \subseteq Msg
        BY HeldTyped
    <2>2. QED BY <1>0, <2>1 DEF Clear, GhostTypeOK
<1>3. dispatching' \in [Owner -> BOOLEAN] /\ phase' \in [Owner -> {"closed", "current", "next"}]
      /\ steers' \in [Owner -> Seq(Msg)] /\ steering' \in [Owner -> BOOLEAN]
    BY <1>0 DEF Clear, RuntimeTypeOK
<1>4. /\ UNCHANGED <<missed, steerCmd, run, consumed, disp, cmd, advance, todo, accepted, taken,
                     excused, steered>>
      /\ Spend("clears")
    BY DEF Clear
<1>5. QED BY <1>0, <1>1, <1>2, <1>3, <1>4, TypesAround DEF RuntimeTypeOK, GhostTypeOK

LEMMA RestoreTyped ==
    ASSUME TypeOK, NEW p \in Owner, Restoring(p),
           RestoreAsFollowUp(p) \/ RestoreFails(p) \/ CommandFails(p)
    PROVE  TypeOK'
<1>0. RuntimeTypeOK /\ GhostTypeOK
      /\ Idle \in [act : {"none", "kick", "restore"}, msg : Msg \cup {NoMsg}]
    BY TypeParts DEF Idle
<1>1. CASE RestoreAsFollowUp(p)
    <2>1. todo[p].msg \in Msg
        BY <1>1 DEF RestoreAsFollowUp, Restoring
    <2>2. /\ StoreTypeOK'
          /\ loc' \in [Owner -> [q : Seq(Msg), inf : Msg \cup {NoMsg}, turn : Seq(Msg)]]
        <3>1. <<todo[p].msg>> \o loc[p].q \in Seq(Msg) /\ Without(loc[p].turn, todo[p].msg) \in Seq(Msg)
              /\ loc[p].inf \in Msg \cup {NoMsg}
            BY <2>1, SnapshotsTyped
        <3>2. QED BY <1>1, <3>1, PersistTyped DEF RestoreAsFollowUp
    <2>3. todo' \in [Owner -> [act : {"none", "kick", "restore"}, msg : Msg \cup {NoMsg}]]
          /\ steerCmd' \in [Owner -> {"idle", "sending", "waiting", "drained"}]
        BY <1>0, <1>1 DEF RestoreAsFollowUp, RuntimeTypeOK
    <2>4. QED BY <1>0, <1>1, <2>2, <2>3, TypesAround DEF RestoreAsFollowUp, RuntimeTypeOK, GhostTypeOK, ghostVars
<1>2. CASE RestoreFails(p)
    <2>1. StoreTypeOK' /\ (budget' = budget \/ Spend("faults"))
        BY <1>2, FailureTyped DEF RestoreFails
    <2>2. todo' \in [Owner -> [act : {"none", "kick", "restore"}, msg : Msg \cup {NoMsg}]]
          /\ steering' \in [Owner -> BOOLEAN]
        BY <1>0, <1>2 DEF RestoreFails, RuntimeTypeOK
    <2>3. QED BY <1>0, <1>2, <2>1, <2>2, TypesAround DEF RestoreFails, RuntimeTypeOK, GhostTypeOK, ghostVars
<1>3. CASE CommandFails(p)
    <2>1. StoreTypeOK' /\ (budget' = budget \/ Spend("faults"))
        BY <1>3, FailureTyped DEF CommandFails
    <2>2. UNCHANGED <<runtimeVars, ghostVars>>
        BY <1>3 DEF CommandFails
    <2>3. QED BY <1>0, <2>1, <2>2, TypesAround DEF RuntimeTypeOK, GhostTypeOK, ghostVars, runtimeVars
<1>4. QED BY <1>1, <1>2, <1>3

LEMMA TypedIsShaped == TypeOK => Shaped
<1>1. SUFFICES ASSUME TypeOK PROVE Shaped
    OBVIOUS
<1>2. FileShaped(disk)
    BY <1>1 DEF TypeOK, StoreTypeOK, FileShaped
<1>3. loc = [o \in Owner |-> [q |-> loc[o].q, inf |-> loc[o].inf, turn |-> loc[o].turn]]
    <2>1. loc \in [Owner -> [q : Seq(Msg), inf : Msg \cup {NoMsg}, turn : Seq(Msg)]]
        BY <1>1 DEF TypeOK
    <2>2. QED BY <2>1
<1>4. life = [o \in Owner |-> life[o]] /\ disp = [o \in Owner |-> disp[o]]
      /\ cmd = [o \in Owner |-> cmd[o]] /\ todo = [o \in Owner |-> todo[o]]
    BY <1>1 DEF TypeOK, StoreTypeOK
<1>5. QED BY <1>2, <1>3, <1>4 DEF Shaped

LEMMA DispatchTyped ==
    ASSUME TypeOK, NEW p \in Owner,
           Dispatch(p) \/ RefreshAfterClaim(p) \/ RefreshAfterSettle(p)
    PROVE  TypeOK'
<1>0. RuntimeTypeOK /\ GhostTypeOK /\ StoreTypeOK
      /\ Idle \in [act : {"none", "kick", "restore"}, msg : Msg \cup {NoMsg}]
    BY TypeParts DEF Idle
<1>1. StoreTypeOK'
    <2>1. Claim(p) \/ PendingUserMessages(p)
        BY DEF Dispatch, RefreshAfterClaim, RefreshAfterSettle
    <2>2. <<>> \in Seq(Msg) /\ NoMsg \in Msg \cup {NoMsg}
        OBVIOUS
    <2>3. QED BY <1>0, <2>1, <2>2, StoreCallTyped
<1>2. CASE Dispatch(p)
    <2>1. ClaimedMessage \in Msg \cup {NoMsg}
        <3>1. Recovered(disk).queue \in Seq(Msg)
            BY <1>0, RecoveredTyped DEF FileType
        <3>2. QED BY <3>1 DEF ClaimedMessage, Claimable
    <2>2. cmd' \in [Owner -> Msg \cup {NoMsg}] /\ dispatching' \in [Owner -> BOOLEAN]
        BY <1>0, <1>2, <2>1 DEF Dispatch, RuntimeTypeOK
    <2>3. disp' \in [Owner -> {"idle", "claiming", "claimed", "started", "admitted", "settling", "settled"}]
        BY <1>0, <1>2 DEF Dispatch, RuntimeTypeOK
    <2>4. /\ todo' \in [Owner -> [act : {"none", "kick", "restore"}, msg : Msg \cup {NoMsg}]]
          /\ missed' \in [Owner -> BOOLEAN]
        BY <1>0, <1>2 DEF Dispatch, RuntimeTypeOK, GhostTypeOK
    <2>5. UNCHANGED <<steering, steerCmd, loc, run, phase, steers, consumed, advance, accepted,
                      taken, excused, dropped, steered, budget>>
        BY <1>2 DEF Dispatch, steerVars
    <2>6. QED BY <1>0, <1>1, <2>2, <2>3, <2>4, <2>5, TypesAround DEF RuntimeTypeOK, GhostTypeOK
<1>3. CASE RefreshAfterClaim(p) \/ RefreshAfterSettle(p)
    <2> DEFINE R == [q : Seq(Msg), inf : Msg \cup {NoMsg}, turn : Seq(Msg)]
               pending == disk'.queue
               i == IF RefreshAfterSettle(p) \/ cmd[p] = NoMsg THEN loc[p].inf ELSE cmd[p]
    <2>1. pending \in Seq(Msg) /\ cmd[p] \in Msg \cup {NoMsg}
        BY <1>0, <1>1 DEF StoreTypeOK, RuntimeTypeOK
    <2>2. loc \in [Owner -> R] /\ i \in Msg \cup {NoMsg}
        BY <1>0, <2>1, SnapshotsTyped DEF RuntimeTypeOK
    <2>3. loc' \in [Owner -> R]
        <3>1. CASE RefreshAfterClaim(p)
            <4>1. loc' = [loc EXCEPT ![p].q = pending,
                                     ![p].inf = IF cmd[p] = NoMsg THEN @ ELSE cmd[p]]
                BY <3>1 DEF RefreshAfterClaim
            <4> DEFINE j == IF cmd[p] = NoMsg THEN loc[p].inf ELSE cmd[p]
            <4>2. j \in Msg \cup {NoMsg}
                BY <2>1, SnapshotsTyped
            <4>3. loc' = [loc EXCEPT ![p].q = pending, ![p].inf = j]
                BY <2>2, <4>1
            <4> HIDE DEF j, pending, R
            <4>4. Shaped
                BY TypedIsShaped
            <4>5. loc' = [loc EXCEPT ![p] = [q |-> pending, inf |-> j, turn |-> loc[p].turn]]
                <5>1. loc' = [loc EXCEPT ![p].q = pending, ![p].inf = j] =>
                          loc' = [loc EXCEPT ![p] = [q |-> pending, inf |-> j, turn |-> loc[p].turn]]
                    BY <4>4, PartsOfSnapshot, Zenon
                <5>2. QED BY <4>3, <5>1, Zenon
            <4>6. [q |-> pending, inf |-> j, turn |-> loc[p].turn] \in R
                BY <2>1, <4>2, SnapshotsTyped DEF R
            <4>7. QED BY <2>2, <4>5, <4>6
        <3>2. CASE RefreshAfterSettle(p)
            <4>1. loc' = [loc EXCEPT ![p].q = pending]
                BY <3>2 DEF RefreshAfterSettle
            <4> HIDE DEF pending
            <4>2. QED BY <2>1, <2>2, <4>1
        <3>3. QED BY <1>3, <3>1, <3>2
    <2>4. disp' \in [Owner -> {"idle", "claiming", "claimed", "started", "admitted", "settling", "settled"}]
          /\ dispatching' \in [Owner -> BOOLEAN]
        BY <1>0, <1>3 DEF RefreshAfterClaim, RefreshAfterSettle, RuntimeTypeOK
    <2>5. UNCHANGED <<steering, steerCmd, run, phase, steers, consumed, cmd, advance, todo, accepted,
                      taken, excused, dropped, steered, missed, budget>>
        BY <1>3 DEF RefreshAfterClaim, RefreshAfterSettle, steerVars, ghostVars
    <2>6. QED BY <1>0, <1>1, <2>3, <2>4, <2>5, TypesAround DEF RuntimeTypeOK, GhostTypeOK
<1>4. QED BY <1>2, <1>3

LEMMA SettlementTyped ==
    ASSUME TypeOK, NEW p \in Owner, Captured(p), SettleAdmitted(p) \/ SettleRejected(p)
    PROVE  TypeOK'
<1>0. RuntimeTypeOK /\ GhostTypeOK /\ StoreTypeOK
    BY TypeParts
<1>1. PICK s \in BOOLEAN : FinishUserMessageDispatch(p, s)
    BY DEF SettleAdmitted, SettleRejected
<1>2. cmd[p] \in Msg
    BY <1>0 DEF SettleAdmitted, SettleRejected, NotAdmitted, Captured, RuntimeTypeOK
<1>3. StoreTypeOK'
    <2>1. Settle(p, cmd[p], s) \/ RefuseSettle(p, cmd[p]) \/ UNCHANGED storeVars
        BY <1>1 DEF FinishUserMessageDispatch
    <2>2. <<>> \in Seq(Msg) /\ NoMsg \in Msg \cup {NoMsg}
        OBVIOUS
    <2>3. QED BY <1>0, <1>2, <2>1, <2>2, StoreCallTyped, SettleTyped
<1>4. loc' \in [Owner -> [q : Seq(Msg), inf : Msg \cup {NoMsg}, turn : Seq(Msg)]]
    <2>1. loc' = loc \/ loc' = [loc EXCEPT ![p].inf = NoMsg]
        BY <1>1 DEF FinishUserMessageDispatch
    <2>2. loc \in [Owner -> [q : Seq(Msg), inf : Msg \cup {NoMsg}, turn : Seq(Msg)]]
        BY <1>0 DEF RuntimeTypeOK
    <2>3. QED BY <2>1, <2>2
<1>5. disp' \in [Owner -> {"idle", "claiming", "claimed", "started", "admitted", "settling", "settled"}]
    <2>1. disp' = [disp EXCEPT ![p] = "settled"] \/ disp' = [disp EXCEPT ![p] = "settling"]
        BY <1>1 DEF FinishUserMessageDispatch
    <2>2. QED BY <1>0, <2>1 DEF RuntimeTypeOK
<1>6. advance' \in [Owner -> BOOLEAN]
    BY <1>0, <1>1 DEF FinishUserMessageDispatch, RuntimeTypeOK
<1>7. /\ UNCHANGED <<steering, steerCmd, run, phase, steers, consumed, cmd, dispatching, todo, accepted,
                     taken, excused, dropped, steered, missed>>
      /\ budget' = budget \/ Spend("interrupts")
    BY DEF SettleAdmitted, SettleRejected, steerVars, ghostVars
<1>8. QED BY <1>0, <1>3, <1>4, <1>5, <1>6, <1>7, TypesAround DEF RuntimeTypeOK, GhostTypeOK

LEMMA ForgottenTyped ==
    ASSUME TypeOK, NEW p \in Owner, ForgetRuntime(p)
    PROVE  RuntimeTypeOK' /\ missed' \in [Owner -> BOOLEAN]
<1>0. RuntimeTypeOK /\ missed \in [Owner -> BOOLEAN] /\ <<>> \in Seq(Msg) /\ NoMsg \in Msg \cup {NoMsg}
    BY TypeParts DEF GhostTypeOK
<1>1. EmptyLoc \in [q : Seq(Msg), inf : Msg \cup {NoMsg}, turn : Seq(Msg)]
      /\ NoneConsumed \in [msg : Msg \cup {NoMsg}, stage : {"none", "popped", "delivered"}]
      /\ Idle \in [act : {"none", "kick", "restore"}, msg : Msg \cup {NoMsg}]
    BY DEF EmptyLoc, NoneConsumed, Idle
<1>2. loc' \in [Owner -> [q : Seq(Msg), inf : Msg \cup {NoMsg}, turn : Seq(Msg)]]
      /\ consumed' \in [Owner -> [msg : Msg \cup {NoMsg}, stage : {"none", "popped", "delivered"}]]
      /\ todo' \in [Owner -> [act : {"none", "kick", "restore"}, msg : Msg \cup {NoMsg}]]
    BY <1>0, <1>1 DEF ForgetRuntime, RuntimeTypeOK
<1>3. /\ run' \in [Owner -> {"none", "direct", "queued"}]
      /\ phase' \in [Owner -> {"closed", "current", "next"}]
      /\ steers' \in [Owner -> Seq(Msg)] /\ cmd' \in [Owner -> Msg \cup {NoMsg}]
    BY <1>0 DEF ForgetRuntime, RuntimeTypeOK
<1>4. /\ disp' \in [Owner -> {"idle", "claiming", "claimed", "started", "admitted", "settling", "settled"}]
      /\ dispatching' \in [Owner -> BOOLEAN] /\ advance' \in [Owner -> BOOLEAN]
    BY <1>0 DEF ForgetRuntime, RuntimeTypeOK
<1>5. /\ steering' \in [Owner -> BOOLEAN] /\ missed' \in [Owner -> BOOLEAN]
      /\ steerCmd' \in [Owner -> {"idle", "sending", "waiting", "drained"}]
    BY <1>0 DEF ForgetRuntime, RuntimeTypeOK
<1>6. QED BY <1>2, <1>3, <1>4, <1>5 DEF RuntimeTypeOK

LEMMA LifeTyped ==
    ASSUME TypeOK, NEW p \in Owner, Start(p) \/ Crash(p) \/ Shutdown(p) \/ FreeLease(p)
    PROVE  TypeOK'
<1>0. RuntimeTypeOK /\ GhostTypeOK /\ StoreTypeOK /\ <<>> \in Seq(Msg) /\ NoMsg \in Msg \cup {NoMsg}
      /\ Recovered(disk) \in FileType /\ disk \in FileType
    BY TypeParts, RecoveredTyped, SMTT(30) DEF StoreTypeOK, FileType
<1>1. CASE Start(p)
    <2>1. /\ life' = [life EXCEPT ![p] = "live"] /\ disk' = Recovered(disk)
          /\ ownerQueue' = [ownerQueue EXCEPT ![p] = disk'.queue]
          /\ UNCHANGED <<ownerInflight, ownerTurn>>
        BY <1>1 DEF Start, Load
    <2>2. disk' \in FileType /\ disk'.queue \in Seq(Msg)
        BY <1>0, <2>1 DEF FileType
    <2>3. StoreTypeOK'
        <3>1. life' \in [Owner -> {"new", "live", "gone", "dead"}] /\ ownerQueue' \in [Owner -> Seq(Msg)]
            BY <1>0, <2>1, <2>2 DEF StoreTypeOK
        <3>2. QED BY <1>0, <2>1, <2>2, <3>1 DEF StoreTypeOK, FileType
    <2>4. loc' \in [Owner -> [q : Seq(Msg), inf : Msg \cup {NoMsg}, turn : Seq(Msg)]]
        <3> DEFINE pending == disk'.queue
        <3>1. loc' = [loc EXCEPT ![p].q = pending]
            BY <1>1 DEF Start
        <3>2. loc \in [Owner -> [q : Seq(Msg), inf : Msg \cup {NoMsg}, turn : Seq(Msg)]]
            BY <1>0 DEF RuntimeTypeOK
        <3> HIDE DEF pending
        <3>3. pending \in Seq(Msg)
            BY <2>2 DEF pending
        <3>4. QED BY <3>1, <3>2, <3>3
    <2>5. todo' \in [Owner -> [act : {"none", "kick", "restore"}, msg : Msg \cup {NoMsg}]]
        BY <1>0, <1>1 DEF Start, Kick, RuntimeTypeOK
    <2>6. UNCHANGED <<steering, steerCmd, run, phase, steers, consumed, disp, cmd, dispatching, advance,
                      accepted, taken, excused, dropped, steered, missed, budget>>
        BY <1>1 DEF Start, steerVars, ghostVars
    <2>7. QED BY <1>0, <2>3, <2>4, <2>5, <2>6, TypesAround DEF RuntimeTypeOK, GhostTypeOK
<1>2. CASE Crash(p) \/ Shutdown(p)
    <2>1. disk' \in FileType
        <3>1. disk' = disk \/ disk' = SaveResult(p, <<>>, NoMsg, <<>>)
            BY <1>2 DEF Crash, Shutdown
        <3>2. SaveResult(p, <<>>, NoMsg, <<>>) \in FileType
            BY <1>0, SaveTyped
        <3>3. QED BY <1>0, <3>1, <3>2
    <2>2. Vanish(p) /\ ForgetRuntime(p)
        BY <1>2 DEF Crash, Shutdown
    <2>3. StoreTypeOK'
        <3>1. /\ life' \in [Owner -> {"new", "live", "gone", "dead"}] /\ ownerQueue' \in [Owner -> Seq(Msg)]
              /\ ownerInflight' \in [Owner -> Msg \cup {NoMsg}] /\ ownerTurn' \in [Owner -> Seq(Msg)]
            BY <1>0, <2>2 DEF Vanish, StoreTypeOK
        <3>2. QED BY <2>1, <3>1 DEF StoreTypeOK, FileType
    <2>4. RuntimeTypeOK' /\ missed' \in [Owner -> BOOLEAN]
        BY <2>2, ForgottenTyped
    <2>5. dropped' \subseteq Msg
        <3>1. Held(p) \subseteq Msg
            BY HeldTyped
        <3>2. QED BY <1>0, <1>2, <3>1 DEF Crash, Shutdown, GhostTypeOK
    <2>6. excused' \in [Msg -> Nat]
        BY <1>2, ExcuseTyped DEF Crash, Shutdown
    <2>7. UNCHANGED <<accepted, taken, steered, budget>>
        BY <1>2 DEF Crash, Shutdown
    <2>8. GhostTypeOK'
        BY <1>0, <2>4, <2>5, <2>6, <2>7 DEF GhostTypeOK
    <2>9. QED BY <2>3, <2>4, <2>8, TypePartsNext
<1>3. CASE FreeLease(p)
    <2>1. life' = [life EXCEPT ![p] = "dead"] /\ UNCHANGED <<disk, ownerQueue, ownerInflight, ownerTurn>>
        BY <1>3 DEF FreeLease, LeaseFreed, baselines
    <2>2. StoreTypeOK'
        BY <1>0, <2>1 DEF StoreTypeOK
    <2>3. UNCHANGED <<runtimeVars, ghostVars, budget>>
        BY <1>3 DEF FreeLease
    <2>4. QED BY <1>0, <2>2, <2>3, TypesAround DEF RuntimeTypeOK, GhostTypeOK, runtimeVars, ghostVars
<1>4. QED BY <1>1, <1>2, <1>3

TypeInv == TypeOK /\ \A o \in Owner : Restoring(o)

LEMMA TypeInit == Init => TypeInv
<1>1. SUFFICES ASSUME Init PROVE TypeInv
    OBVIOUS
<1>2. <<>> \in Seq(Msg) /\ EmptyLoc \in [q : Seq(Msg), inf : Msg \cup {NoMsg}, turn : Seq(Msg)]
      /\ NoneConsumed \in [msg : Msg \cup {NoMsg}, stage : {"none", "popped", "delivered"}]
      /\ Idle \in [act : {"none", "kick", "restore"}, msg : Msg \cup {NoMsg}]
      /\ {MaxFaults, MaxInterrupts, MaxResyncs, MaxClears, MaxTaken} \subseteq Nat
    BY BoundsAssumption DEF EmptyLoc, NoneConsumed, Idle
<1>3. StoreTypeOK
    BY <1>1, <1>2 DEF Init, StoreInit, StoreTypeOK, EmptyDisk
<1>4. RuntimeTypeOK
    BY <1>1, <1>2 DEF Init, RuntimeTypeOK
<1>5. GhostTypeOK
    BY <1>1, <1>2 DEF Init, GhostTypeOK
<1>6. \A o \in Owner : Restoring(o)
    BY <1>1 DEF Init, Restoring, Idle
<1>7. QED BY <1>3, <1>4, <1>5, <1>6, TypeParts DEF TypeInv

LEMMA TypeStep == TypeInv /\ FenceInv /\ [Next]_vars => TypeInv'
<1>1. SUFFICES ASSUME TypeInv, FenceInv, [Next]_vars PROVE TypeInv'
    OBVIOUS
<1>2. CASE UNCHANGED vars
    <2>1. UNCHANGED <<storeVars, runtimeVars, ghostVars, budget>>
        BY <1>2 DEF vars
    <2>2. StoreTypeOK' /\ RuntimeTypeOK' /\ GhostTypeOK'
        <3>1. StoreTypeOK /\ RuntimeTypeOK /\ GhostTypeOK
            BY <1>1, TypeParts DEF TypeInv
        <3>2. StoreTypeOK'
            BY <2>1, <3>1 DEF storeVars, StoreTypeOK
        <3>3. RuntimeTypeOK'
            BY <2>1, <3>1 DEF runtimeVars, RuntimeTypeOK
        <3>4. GhostTypeOK'
            BY <2>1, <3>1 DEF ghostVars, GhostTypeOK
        <3>5. QED BY <3>2, <3>3, <3>4
    <2>3. \A o \in Owner : Restoring(o)'
        BY <1>1, <2>1 DEF TypeInv, Restoring, runtimeVars
    <2>4. QED BY <2>2, <2>3, TypePartsNext DEF TypeInv
<1>3. CASE Next
    <2>1. PICK p \in Owner :
              \/ Start(p) \/ Shutdown(p) \/ FreeLease(p)
              \/ RuntimeStep(p) \/ UserStep(p) \/ FaultStep(p)
        BY <1>3 DEF Next
    <2>2. TypeOK /\ Captured(p) /\ Restoring(p)
        BY <1>1 DEF TypeInv, FenceInv
    <2>3. TypeOK'
        <3>1. CASE Start(p) \/ Shutdown(p) \/ FreeLease(p)
            BY <2>2, <3>1, LifeTyped
        <3>2. CASE RuntimeStep(p)
            BY <2>2, <3>2, DispatchTyped, QuietTyped, RestoreTyped, SettlementTyped, RunEndTyped
               DEF RuntimeStep, CallStep, DispatchStep, RunStep
        <3>3. CASE UserStep(p)
            <4>1. CASE StartDirect(p) \/ Resync(p)
                BY <2>2, <4>1, QuietTyped
            <4>2. CASE Clear(p)
                BY <2>2, <4>2, ClearTyped
            <4>3. CASE \E m \in Msg : Submit(p, m) \/ SubmitSteer(p, m) \/ Cancel(p, m)
                                      \/ SteerQueued(p, m)
                BY <2>2, <4>3, CommandTyped
            <4>4. QED BY <3>3, <4>1, <4>2, <4>3 DEF UserStep
        <3>4. CASE FaultStep(p)
            BY <2>2, <3>4, LifeTyped, RestoreTyped, QuietTyped, RunEndTyped DEF FaultStep
        <3>5. QED BY <2>1, <3>1, <3>2, <3>3, <3>4
    <2>4. \A o \in Owner : Restoring(o)'
        <3>1. \/ todo' = todo
              \/ \E t : /\ t \in {Kick, Idle} \cup {[act |-> "restore", msg |-> m] : m \in Msg}
                        /\ todo' = [todo EXCEPT ![p] = t]
            <4>1. CASE RuntimeStep(p)
                BY <4>1 DEF RuntimeStep, CallStep, DispatchStep, RunStep, Dispatch, KickIgnored,
                   RestoreAsFollowUp, RefreshAfterClaim, StartQueued, Admit, SettleAdmitted,
                   SettleRejected, RefreshAfterSettle, FinishDispatch, PopSteer, DeliverSteer,
                   AckSteer, DeferMailbox, EndRun, FinishSteering
            <4>2. CASE UserStep(p)
                BY <4>2 DEF UserStep, StartDirect, Resync, Clear, Submit, SubmitSteer, Cancel, SteerQueued
            <4>3. CASE FaultStep(p)
                BY <4>3 DEF FaultStep, Crash, CommandFails, ClaimFails, SettleFails, AckFails,
                   EndRunFails, RestoreFails, ForgetRuntime, runtimeVars
            <4>4. CASE Start(p) \/ Shutdown(p) \/ FreeLease(p)
                BY <4>4 DEF Start, Shutdown, FreeLease, ForgetRuntime, runtimeVars
            <4>5. QED BY <2>1, <4>1, <4>2, <4>3, <4>4
        <3>2. \A o \in Owner : Restoring(o)
            BY <1>1 DEF TypeInv
        <3>3. todo = [o \in Owner |-> todo[o]]
            BY <2>2, TypedIsShaped DEF Shaped
        <3>4. QED BY <3>1, <3>2, <3>3 DEF Restoring, Kick, Idle
    <2>5. QED BY <2>3, <2>4 DEF TypeInv
<1>4. QED BY <1>1, <1>2, <1>3

\* Every variable of the store and of the managers keeps its type; in
\* particular no claim, turn input or queue ever names something that is not a
\* message, whatever is merged, recovered or requeued (DurableUserMessageQueue).
THEOREM TypeCorrect == Spec => []TypeOK
<1>1. Init => TypeInv /\ FenceInv
    BY TypeInit, FenceInit
<1>2. TypeInv /\ FenceInv /\ [Next]_vars => TypeInv' /\ FenceInv'
    BY TypeStep, FenceStep
<1>3. TypeInv => TypeOK
    BY DEF TypeInv
<1>4. QED BY <1>1, <1>2, <1>3, PTL DEF Spec

-----------------------------------------------------------------------------
(* One runtime at a time: the inductive invariant.                         *)

Live(o) == life[o] = "live"
Stored == ToSet(disk.queue) \cup ToSet(disk.turn) \cup ({disk.inflight} \ {NoMsg})

\* At most one runtime holds a lease, and what is in progress has an owner.
Alone == \A o, p \in Owner : OwnerIsLive(o) /\ OwnerIsLive(p) => o = p
Owned ==
    /\ disk.infOwner = NoOwner <=> disk.inflight = NoMsg
    /\ disk.turnOwner = NoOwner <=> disk.turn = <<>>

\* A runtime that is not running remembers nothing.
Blank(o) ==
    /\ loc[o] = EmptyLoc /\ steers[o] = <<>> /\ consumed[o] = NoneConsumed
    /\ disp[o] = "idle" /\ todo[o] = Idle
    /\ ownerInflight[o] = NoMsg /\ ownerTurn[o] = <<>>

\* What the store remembers for the runtime is the file, and the file is its own.
Synced(o) ==
    /\ disk.infOwner = IF disk.inflight = NoMsg THEN NoOwner ELSE o
    /\ disk.turnOwner = IF disk.turn = <<>> THEN NoOwner ELSE o
    /\ ownerQueue[o] = disk.queue /\ ownerInflight[o] = disk.inflight
    /\ ownerTurn[o] = disk.turn

\* So is what the manager shows, but between the halves of a call.
Shows(o) ==
    /\ loc[o].turn = disk.turn
    /\ disk.inflight = IF disp[o] = "claiming" /\ cmd[o] # NoMsg THEN cmd[o] ELSE loc[o].inf
    /\ disp[o] \notin {"claiming", "settling"} => loc[o].q = disk.queue

\* The turn queue holds turn inputs of the file, not the one being restored.
Steering(o) ==
    /\ Distinct(steers[o]) /\ ToSet(steers[o]) \subseteq ToSet(disk.turn)
    /\ todo[o].act = "restore" =>
          /\ todo[o].msg \in ToSet(disk.turn) \ ToSet(steers[o])
          /\ todo[o].msg # consumed[o].msg

Unsettled(o) == disp[o] \in {"claiming", "claimed", "started", "admitted"} /\ cmd[o] # NoMsg

\* The steer being consumed is nowhere else.
Consuming(o) ==
    LET m == consumed[o].msg
    IN  IF consumed[o].stage = "none" THEN m = NoMsg
        ELSE /\ m \in ToSet(accepted)
             /\ m \notin ToSet(steers[o]) \cup ToSet(disk.queue) \cup {disk.inflight}
             /\ Unsettled(o) => m # cmd[o]

\* The message being dispatched is the claim, or a clear has removed it.
Claiming(o) ==
    Unsettled(o) => /\ cmd[o] \in ToSet(accepted)
                    /\ cmd[o] \notin ToSet(disk.queue) \cup ToSet(disk.turn)
                    /\ disk.inflight \in {cmd[o], NoMsg}

\* How often the messages in progress have been taken in ...
Counted(o) ==
    /\ Unsettled(o) => IF disp[o] = "admitted" THEN taken[cmd[o]] > 0
                       ELSE taken[cmd[o]] <= excused[cmd[o]]
    /\ consumed[o].stage = "delivered" => taken[consumed[o].msg] > 0
    /\ consumed[o].stage = "popped" => taken[consumed[o].msg] <= excused[consumed[o].msg]

\* ... and that the others in the file are not waiting to be recorded.
Recorded(o) ==
    \A m \in Stored : \/ taken[m] <= excused[m]
                      \/ disp[o] = "admitted" /\ m = cmd[o]
                      \/ consumed[o].stage = "delivered" /\ m = consumed[o].msg
Abandoned == (\A o \in Owner : ~Live(o)) => \A m \in Stored : taken[m] <= excused[m]

Runtime(o) ==
    /\ Synced(o) /\ Shows(o) /\ Steering(o) /\ Consuming(o) /\ Claiming(o)
    /\ Counted(o) /\ Recorded(o)

\* Everything the file holds was accepted, and is in one place.
Places ==
    /\ Distinct(disk.queue) /\ Distinct(disk.turn) /\ Distinct(accepted)
    /\ ToSet(disk.queue) \cap ToSet(disk.turn) = {}
    /\ disk.inflight \notin ToSet(disk.queue) \cup ToSet(disk.turn)
    /\ Stored \subseteq ToSet(accepted) /\ ToSet(disk.turn) \subseteq steered

\* Follow-ups stand in the order they were accepted in.
Ahead == {p \in Msg \X Msg : Plain(p[1]) /\ Plain(p[2]) => Position(p[1]) < Position(p[2])}
InOrder ==
    /\ Sorted(disk.queue, Ahead)
    /\ disk.inflight # NoMsg => \A m \in ToSet(disk.queue) : <<disk.inflight, m>> \in Ahead

Once == \A m \in Msg : taken[m] <= 1 + excused[m] /\ (m \notin ToSet(accepted) => taken[m] = 0)
Kept == \A m \in ToSet(accepted) \ dropped : taken[m] > 0 \/ m \in Stored

AloneInv ==
    /\ Alone /\ Owned /\ Places /\ InOrder /\ Once /\ Kept /\ Abandoned
    /\ \A o \in Owner : IF Live(o) THEN Runtime(o) ELSE Blank(o)

-----------------------------------------------------------------------------
(* The runtime that runs has the file to itself.                           *)

Inv == TypeInv /\ FenceInv /\ AloneInv

\* A message that has left the file does not come back.
StaysGone == \A m \in ToSet(accepted) : m \notin Stored => m \notin Stored'

LEMMA OnDiskIsStored == TypeOK => \A m \in Msg : OnDisk(m) <=> m \in Stored
BY NullsAssumption DEF OnDisk, Stored

LEMMA FileParts ==
    ASSUME TypeOK
    PROVE  /\ disk.queue \in Seq(Msg) /\ disk.inflight \in Msg \cup {NoMsg}
           /\ disk.infOwner \in Owner \cup {NoOwner}
           /\ disk.turn \in Seq(Msg) /\ disk.turnOwner \in Owner \cup {NoOwner}
           /\ disk = [queue |-> disk.queue, inflight |-> disk.inflight, infOwner |-> disk.infOwner,
                      turn |-> disk.turn, turnOwner |-> disk.turnOwner]
BY DEF TypeOK, StoreTypeOK

LEMMA Sole ==
    ASSUME Inv, NEW p \in Owner, Live(p)
    PROVE  /\ Recovered(disk) = disk /\ Runtime(p)
           /\ \A o \in Owner \ {p} : ~OwnerIsLive(o) /\ ~Live(o) /\ Blank(o)
<1>1. \A o \in Owner \ {p} : ~OwnerIsLive(o) /\ ~Live(o) /\ Blank(o)
    BY DEF Inv, AloneInv, Alone, OwnerIsLive, Live
<1>2. Runtime(p) /\ OwnerIsLive(p)
    BY DEF Inv, AloneInv, OwnerIsLive, Live
<1>3. /\ disk.turn # <<>> => disk.turnOwner = p
      /\ disk.inflight # NoMsg => disk.infOwner = p
    BY <1>2 DEF Runtime, Synced
<1>4. TypeOK
    BY DEF Inv, TypeInv
<1> DEFINE q == disk.queue
<1>5. q \in Seq(Msg)
    BY <1>4, FileParts
<1>6. Recovered(disk) = [queue |-> <<>> \o <<>> \o q, inflight |-> disk.inflight,
                         infOwner |-> disk.infOwner, turn |-> disk.turn, turnOwner |-> disk.turnOwner]
    BY <1>2, <1>3 DEF Recovered
<1> HIDE DEF q
<1>7. <<>> \o <<>> \o q = q
    BY <1>5
<1>8. Recovered(disk) = disk
    BY <1>4, <1>6, <1>7, FileParts DEF q
<1>9. QED BY <1>1, <1>2, <1>8

\* What the file holds when p has published a snapshot.
File(p, q, inf, turn) ==
    [queue |-> q, inflight |-> inf, infOwner |-> IF inf = NoMsg THEN NoOwner ELSE p,
     turn |-> turn, turnOwner |-> IF turn = <<>> THEN NoOwner ELSE p]

LEMMA SaveEffect ==
    ASSUME Inv, NEW p \in Owner, Live(p), NEW q \in Seq(Msg), NEW inf \in Msg \cup {NoMsg},
           NEW turn \in Seq(Msg)
    PROVE  ~SaveRefused(p, inf, turn) /\ SaveResult(p, q, inf, turn) = File(p, q, inf, turn)
<1>1. Recovered(disk) = disk /\ Synced(p) /\ TypeOK /\ p # NoOwner
    BY Sole, NullsAssumption DEF Inv, TypeInv, Runtime
<1>2. ownerInflight[p] = disk.inflight /\ ownerTurn[p] = disk.turn /\ ownerQueue[p] = disk.queue
      /\ disk.queue \in Seq(Msg)
    BY <1>1, FileParts DEF Synced
<1>3. MergeQueueDelta(disk.queue, ownerQueue[p], q) = q
    BY <1>2, MergeResult
<1>4. OwnedDelta(p, disk.inflight, inf, disk.inflight, disk.infOwner, NoMsg)
          = <<inf, IF inf = NoMsg THEN NoOwner ELSE p>>
    BY <1>1 DEF OwnedDelta, Edited, Transferred, Synced
<1>5. OwnedDelta(p, disk.turn, turn, disk.turn, disk.turnOwner, <<>>)
          = <<turn, IF turn = <<>> THEN NoOwner ELSE p>>
    BY <1>1 DEF OwnedDelta, Edited, Transferred, Synced
<1>6. SaveResult(p, q, inf, turn) = File(p, q, inf, turn)
    BY <1>1, <1>2, <1>3, <1>4, <1>5 DEF SaveResult, File
<1>7. ~SaveRefused(p, inf, turn)
    BY <1>1, <1>2 DEF SaveRefused, Edited, Transferred, Synced
<1>8. QED BY <1>6, <1>7

\* A snapshot is published as it is.
LEMMA PersistEffect ==
    ASSUME Inv, NEW p \in Owner, Live(p), NEW q \in Seq(Msg), NEW inf \in Msg \cup {NoMsg},
           NEW turn \in Seq(Msg), Persist(p, q, inf, turn)
    PROVE  /\ disk'.queue = q /\ disk'.inflight = inf /\ disk'.turn = turn
           /\ Synced(p)' /\ life' = life
           /\ loc'[p].q = q /\ loc'[p].inf = inf /\ loc'[p].turn = turn
           /\ \A o \in Owner \ {p} : /\ loc'[o] = loc[o] /\ ownerInflight'[o] = ownerInflight[o]
                                     /\ ownerTurn'[o] = ownerTurn[o]
<1>0. TypeOK /\ p # NoOwner
    BY NullsAssumption DEF Inv, TypeInv
<1>1. disk' = File(p, q, inf, turn) /\ life' = life
      /\ loc' = [loc EXCEPT ![p] = [q |-> q, inf |-> inf, turn |-> turn]]
      /\ ownerQueue' = [ownerQueue EXCEPT ![p] = q]
      /\ ownerInflight' = [ownerInflight EXCEPT ![p] =
             IF disk'.infOwner = p /\ disk'.inflight = inf THEN inf ELSE NoMsg]
      /\ ownerTurn' = [ownerTurn EXCEPT ![p] =
             IF disk'.turnOwner = p /\ disk'.turn = turn THEN turn ELSE <<>>]
    BY SaveEffect DEF Persist, Save
<1>2. /\ disk'.queue = q /\ disk'.inflight = inf /\ disk'.turn = turn
      /\ disk'.infOwner = IF inf = NoMsg THEN NoOwner ELSE p
      /\ disk'.turnOwner = IF turn = <<>> THEN NoOwner ELSE p
    BY <1>1 DEF File
<1>3. DOMAIN loc = Owner /\ DOMAIN ownerQueue = Owner /\ DOMAIN ownerInflight = Owner
      /\ DOMAIN ownerTurn = Owner
    BY <1>0 DEF TypeOK, StoreTypeOK
<1>4. loc'[p].q = q /\ loc'[p].inf = inf /\ loc'[p].turn = turn
    BY <1>1, <1>3
<1>5. ownerQueue'[p] = q /\ ownerInflight'[p] = inf /\ ownerTurn'[p] = turn
    BY <1>0, <1>1, <1>2, <1>3
<1>6. \A o \in Owner \ {p} : /\ loc'[o] = loc[o] /\ ownerInflight'[o] = ownerInflight[o]
                             /\ ownerTurn'[o] = ownerTurn[o]
    BY <1>1, <1>3
<1>7. Synced(p)'
    BY <1>2, <1>5 DEF Synced
<1>8. QED BY <1>1, <1>2, <1>4, <1>6, <1>7

\* A failed publication changes nothing: no other runtime refuses it.
LEMMA FailureEffect ==
    ASSUME Inv, NEW p \in Owner, Live(p), NEW q \in Seq(Msg), NEW inf \in Msg \cup {NoMsg},
           NEW turn \in Seq(Msg), PersistFails(p, q, inf, turn)
    PROVE  UNCHANGED storeVars
BY SaveEffect DEF PersistFails, RefuseSave

-----------------------------------------------------------------------------
(* The order of acceptance.                                                *)

Accepts(new) ==
    \/ new = {} /\ accepted' = accepted
    \/ \E m \in Msg : new = {m} /\ m \notin ToSet(accepted) /\ accepted' = Append(accepted, m)

LEMMA Growth ==
    ASSUME TypeOK, Distinct(accepted), NEW new, Accepts(new), steered \subseteq steered'
    PROVE  /\ Distinct(accepted') /\ ToSet(accepted') = ToSet(accepted) \cup new
           /\ new \cap ToSet(accepted) = {}
           /\ \A x, y \in ToSet(accepted) : <<x, y>> \in Ahead => <<x, y>> \in Ahead'
           /\ \A x \in ToSet(accepted) : \A y \in new : <<x, y>> \in Ahead'
           /\ \A x, y \in Msg : x \in steered' \/ y \in steered' => <<x, y>> \in Ahead'
<1>0. accepted \in Seq(Msg) /\ ToSet(accepted) \subseteq Msg /\ DOMAIN accepted = 1..Len(accepted)
      /\ Len(accepted) \in Nat
    BY ElementIn DEF TypeOK
<1>1. Distinct(accepted') /\ ToSet(accepted') = ToSet(accepted) \cup new /\ new \cap ToSet(accepted) = {}
    <2>1. CASE new = {} /\ accepted' = accepted
        BY <2>1
    <2>2. ASSUME NEW m \in Msg, new = {m}, m \notin ToSet(accepted), accepted' = Append(accepted, m)
          PROVE  Distinct(accepted') /\ ToSet(accepted') = ToSet(accepted) \cup new
                 /\ new \cap ToSet(accepted) = {}
        <3>1. ToSet(Append(accepted, m)) = ToSet(accepted) \cup {m}
            BY <1>0, AppendSet
        <3>2. Distinct(Append(accepted, m))
            BY <1>0, <2>2, DistinctAppend
        <3>3. QED BY <2>2, <3>1, <3>2
    <2>3. QED BY <2>1, <2>2 DEF Accepts
<1>2. ASSUME NEW x \in ToSet(accepted)
      PROVE  /\ Position(x) \in 1..Len(accepted) /\ Position(x)' = Position(x)
             /\ Plain(x)' => Plain(x)
    <2>1. PICK i \in DOMAIN accepted : accepted[i] = x
        BY DEF ToSet
    <2>2. Position(x) \in DOMAIN accepted /\ accepted[Position(x)] = x
        BY <2>1 DEF Position
    <2>3. i \in DOMAIN accepted' /\ accepted'[i] = x
        BY <1>0, <2>1 DEF Accepts
    <2>4. Position(x)' \in DOMAIN accepted' /\ accepted'[Position(x)'] = x
        BY <2>3 DEF Position
    <2>5. Position(x)' = i /\ Position(x) = i
        BY <1>1, <2>1, <2>2, <2>3, <2>4 DEF Distinct
    <2>6. Plain(x)' => Plain(x)
        BY DEF Plain
    <2>7. QED BY <1>0, <2>5, <2>6
<1>3. ASSUME NEW y \in new PROVE y \in Msg /\ Position(y)' = Len(accepted) + 1
    <2>1. y \in Msg /\ accepted' = Append(accepted, y)
        BY DEF Accepts
    <2>2. Len(accepted) + 1 \in DOMAIN accepted' /\ accepted'[Len(accepted) + 1] = y
        BY <1>0, <2>1
    <2>3. Position(y)' \in DOMAIN accepted' /\ accepted'[Position(y)'] = y
        BY <2>2 DEF Position
    <2>4. QED BY <1>1, <2>1, <2>2, <2>3 DEF Distinct
<1>4. \A x, y \in ToSet(accepted) : <<x, y>> \in Ahead => <<x, y>> \in Ahead'
    BY <1>0, <1>2 DEF Ahead
<1>5. \A x \in ToSet(accepted) : \A y \in new : <<x, y>> \in Ahead'
    BY <1>0, <1>2, <1>3 DEF Ahead
<1>6. \A x, y \in Msg : x \in steered' \/ y \in steered' => <<x, y>> \in Ahead'
    BY DEF Ahead, Plain
<1>7. QED BY <1>1, <1>4, <1>5, <1>6

-----------------------------------------------------------------------------
(* The steps of the runtime that runs.                                     *)

\* The other runtimes keep what they remember.
OthersKept(p) ==
    \A o \in Owner \ {p} :
        /\ loc'[o] = loc[o] /\ steers'[o] = steers[o] /\ consumed'[o] = consumed[o]
        /\ disp'[o] = disp[o] /\ todo'[o] = todo[o]
        /\ ownerInflight'[o] = ownerInflight[o] /\ ownerTurn'[o] = ownerTurn[o]

LEMMA LiveStep ==
    ASSUME Inv, NEW p \in Owner, Live(p), life' = life, OthersKept(p),
           Runtime(p)', Places', InOrder', Once', Kept'
    PROVE  AloneInv'
<1>1. Live(p)' /\ \A o \in Owner \ {p} : ~Live(o)' /\ Blank(o)'
    BY Sole DEF Live, Blank, OthersKept
<1>2. Alone'
    BY DEF Inv, AloneInv, Alone, OwnerIsLive
<1>3. Owned'
    BY NullsAssumption DEF Runtime, Synced, Owned
<1>4. Abandoned'
    BY <1>1 DEF Abandoned
<1>5. \A o \in Owner : (IF Live(o) THEN Runtime(o) ELSE Blank(o))'
    BY <1>1
<1>6. QED BY <1>2, <1>3, <1>4, <1>5 DEF AloneInv

\* A step that leaves the file and what the store remembers of it alone.
LEMMA FileKept ==
    ASSUME Inv, TypeOK', NEW p \in Owner, Live(p),
           UNCHANGED <<disk, life, ownerQueue, ownerInflight, ownerTurn, accepted, dropped, steered>>,
           OthersKept(p),
           Shows(p)', Steering(p)', Consuming(p)', Claiming(p)', Counted(p)', Recorded(p)',
           \A m \in Msg : /\ taken'[m] <= 1 + excused'[m] /\ taken[m] <= taken'[m]
                          /\ m \notin ToSet(accepted) => taken'[m] = 0
    PROVE  AloneInv' /\ StaysGone
<1>1. Runtime(p) /\ Places /\ InOrder /\ Kept /\ TypeOK
    BY Sole DEF Inv, AloneInv, TypeInv
<1>2. Synced(p)' /\ Stored' = Stored
    BY <1>1 DEF Runtime, Synced, Stored
<1>3. Places'
    BY <1>1, <1>2 DEF Places
<1>4. InOrder'
    <2>1. Ahead' = Ahead
        BY DEF Ahead, Plain, Position
    <2>2. QED BY <1>1, <2>1 DEF InOrder
<1>5. Once'
    BY DEF Once
<1>6. Kept'
    <2>1. \A m \in ToSet(accepted) : m \in Msg /\ taken[m] \in Nat /\ taken'[m] \in Nat
        <3>1. \A m \in Msg : taken[m] \in Nat /\ taken'[m] \in Nat
            BY <1>1, BoundsAssumption DEF TypeOK
        <3>2. QED BY <1>1, <3>1, ElementIn DEF TypeOK
    <2>2. QED BY <1>1, <1>2, <2>1 DEF Kept
<1>7. Runtime(p)'
    BY <1>2 DEF Runtime
<1>8. QED BY <1>2, <1>3, <1>4, <1>5, <1>6, <1>7, LiveStep DEF StaysGone

\* The parts of the invariant about the runtime p do not depend on the rest.
LEMMA QuietEffect ==
    ASSUME Inv, TypeOK', NEW p \in Owner, Live(p),
           UNCHANGED <<disk, life, ownerQueue, ownerInflight, ownerTurn, loc, steers, consumed,
                       accepted, taken, excused, dropped, steered>>,
           NEW d, NEW t, NEW c,
           disp' = disp \/ disp' = [disp EXCEPT ![p] = d],
           todo' = todo \/ todo' = [todo EXCEPT ![p] = t],
           cmd' = cmd \/ cmd' = [cmd EXCEPT ![p] = c],
           todo'[p].act = "restore" => todo'[p] = todo[p],
           \/ disp'[p] = disp[p] /\ cmd'[p] = cmd[p]
           \/ /\ disp[p] \notin {"claiming", "settling"}
              /\ \/ disp[p] = "claimed" /\ disp'[p] = "started" /\ cmd'[p] = cmd[p]
                 \/ /\ disp'[p] \in {"settled", "idle"}
                    /\ disp[p] = "admitted" => disk.inflight # cmd[p]
    PROVE  AloneInv' /\ StaysGone
<1>0. Runtime(p) /\ Once /\ Places /\ TypeOK
    BY Sole DEF Inv, AloneInv, TypeInv
<1>1. DOMAIN disp = Owner /\ DOMAIN todo = Owner /\ DOMAIN cmd = Owner
    BY <1>0 DEF TypeOK
<1>2. OthersKept(p)
    BY <1>1 DEF OthersKept
<1>3. Shows(p)' /\ Steering(p)'
    <2>1. Shows(p)'
        BY <1>0 DEF Runtime, Shows
    <2>2. Steering(p)'
        BY <1>0 DEF Runtime, Steering
    <2>3. QED BY <2>1, <2>2
<1>4. Unsettled(p)' => Unsettled(p) /\ cmd'[p] = cmd[p]
                       /\ (disp'[p] = "admitted" <=> disp[p] = "admitted")
    BY DEF Unsettled
<1>5. Consuming(p)'
    BY <1>0, <1>4 DEF Runtime, Consuming
<1>6. Claiming(p)'
    BY <1>0, <1>4 DEF Runtime, Claiming
<1>7. Counted(p)'
    BY <1>0, <1>4 DEF Runtime, Counted
<1>8. Recorded(p)'
    <2>1. SUFFICES ASSUME disp[p] = "admitted", disp'[p] \in {"settled", "idle"}
                   PROVE  cmd[p] \notin Stored
        BY <1>0 DEF Runtime, Recorded, Stored
    <2>2. cmd[p] # NoMsg
        BY <2>1 DEF Inv, FenceInv, Captured
    <2>3. disk.inflight # cmd[p]
        BY <2>1
    <2>4. QED BY <1>0, <2>1, <2>2, <2>3 DEF Runtime, Claiming, Unsettled, Stored
<1>9. \A m \in Msg : /\ taken'[m] <= 1 + excused'[m] /\ taken[m] <= taken'[m]
                     /\ m \notin ToSet(accepted) => taken'[m] = 0
    <2>1. \A m \in Msg : taken[m] \in Nat
        BY <1>0, BoundsAssumption DEF TypeOK
    <2>2. QED BY <1>0, <2>1 DEF Once
<1>10. QED BY <1>2, <1>3, <1>5, <1>6, <1>7, <1>8, <1>9, FileKept

\* What the steps that only move a coroutine on leave alone.
LEMMA QuietParts ==
    ASSUME Inv, TypeOK', NEW p \in Owner,
           \/ StartDirect(p) \/ Resync(p) \/ KickIgnored(p) \/ FinishSteering(p) \/ ClaimFails(p)
           \/ StartQueued(p) \/ FinishDispatch(p) \/ DeferMailbox(p)
           \/ RestoreFails(p) \/ CommandFails(p)
    PROVE  /\ Live(p) /\ UNCHANGED <<disk, life, ownerQueue, ownerInflight, ownerTurn>>
           /\ UNCHANGED <<loc, steers, consumed, accepted, taken, excused, dropped, steered>>
           /\ todo' = todo \/ todo' = [todo EXCEPT ![p] = Kick] \/ todo' = [todo EXCEPT ![p] = Idle]
           /\ \/ disp' = disp /\ cmd' = cmd
              \/ disp[p] = "claimed" /\ disp' = [disp EXCEPT ![p] = "started"] /\ cmd' = cmd
              \/ disp[p] = "settled" /\ disp' = [disp EXCEPT ![p] = "idle"]
                 /\ cmd' = [cmd EXCEPT ![p] = NoMsg]
<1>0. /\ Live(p) /\ TypeOK /\ Restoring(p)
      /\ \A s : DOMAIN todo = Owner /\ DOMAIN disp = Owner /\ DOMAIN cmd = Owner
    BY DEF StartDirect, Resync, KickIgnored, FinishSteering, ClaimFails, StartQueued,
           FinishDispatch, DeferMailbox, RestoreFails, CommandFails, Ready, Live, Inv, TypeInv, TypeOK
<1>1. UNCHANGED storeVars
    <2>1. CASE RestoreFails(p)
        <3>1. <<todo[p].msg>> \o loc[p].q \in Seq(Msg) /\ Without(loc[p].turn, todo[p].msg) \in Seq(Msg)
              /\ loc[p].inf \in Msg \cup {NoMsg}
            BY <1>0, <2>1, SnapshotsTyped DEF RestoreFails, Restoring
        <3>2. QED BY <1>0, <2>1, <3>1, FailureEffect DEF RestoreFails
    <2>2. CASE CommandFails(p)
        <3>1. PICK s \in CommandSnapshots(p) : PersistFails(p, s[1], loc[p].inf, s[2])
            BY <2>2 DEF CommandFails
        <3>2. s[1] \in Seq(Msg) /\ s[2] \in Seq(Msg) /\ loc[p].inf \in Msg \cup {NoMsg}
            <4>1. ToSet(loc[p].q) \subseteq Msg
                BY <1>0, SnapshotsTyped, ElementIn, ZenonT(60)
            <4>2. \/ \E m \in Msg : s = <<Append(loc[p].q, m), loc[p].turn>>
                  \/ \E m \in Msg : s = <<loc[p].q, Append(loc[p].turn, m)>>
                  \/ \E m \in Msg : s = <<Without(loc[p].q, m), Append(loc[p].turn, m)>>
                BY <4>1 DEF CommandSnapshots
            <4>3. /\ loc[p].q \in Seq(Msg) /\ loc[p].turn \in Seq(Msg) /\ loc[p].inf \in Msg \cup {NoMsg}
                  /\ \A m \in Msg : /\ Append(loc[p].q, m) \in Seq(Msg) /\ Append(loc[p].turn, m) \in Seq(Msg)
                                    /\ Without(loc[p].q, m) \in Seq(Msg)
                BY <1>0, SnapshotsTyped
            <4>4. ASSUME NEW a \in Seq(Msg), NEW b \in Seq(Msg), s = <<a, b>>
                  PROVE  s[1] \in Seq(Msg) /\ s[2] \in Seq(Msg)
                BY <4>4
            <4>5. \E a, b \in Seq(Msg) : s = <<a, b>>
                BY <4>2, <4>3, Zenon
            <4>6. QED BY <4>3, <4>4, <4>5
        <3>3. QED BY <1>0, <3>1, <3>2, FailureEffect
    <2>3. QED BY <2>1, <2>2 DEF StartDirect, Resync, KickIgnored, FinishSteering, ClaimFails,
                                StartQueued, FinishDispatch, DeferMailbox
<1>2. UNCHANGED <<loc, steers, consumed, accepted, taken, excused, dropped, steered>>
    BY DEF StartDirect, Resync, KickIgnored, FinishSteering, ClaimFails, StartQueued,
           FinishDispatch, DeferMailbox, RestoreFails, CommandFails, ghostVars, runtimeVars
<1>3. todo' = todo \/ todo' = [todo EXCEPT ![p] = Kick] \/ todo' = [todo EXCEPT ![p] = Idle]
    BY DEF StartDirect, Resync, KickIgnored, FinishSteering, ClaimFails, StartQueued,
           FinishDispatch, DeferMailbox, RestoreFails, CommandFails, runtimeVars
<1>4. \/ disp' = disp /\ cmd' = cmd
      \/ disp[p] = "claimed" /\ disp' = [disp EXCEPT ![p] = "started"] /\ cmd' = cmd
      \/ disp[p] = "settled" /\ disp' = [disp EXCEPT ![p] = "idle"] /\ cmd' = [cmd EXCEPT ![p] = NoMsg]
    BY DEF StartDirect, Resync, KickIgnored, FinishSteering, ClaimFails, StartQueued,
           FinishDispatch, DeferMailbox, RestoreFails, CommandFails, runtimeVars
<1>5. UNCHANGED <<disk, life, ownerQueue, ownerInflight, ownerTurn>>
    BY <1>1 DEF storeVars
<1>6. QED BY <1>0, <1>2, <1>3, <1>4, <1>5

LEMMA QuietSteps ==
    ASSUME Inv, TypeOK', NEW p \in Owner,
           \/ StartDirect(p) \/ Resync(p) \/ KickIgnored(p) \/ FinishSteering(p) \/ ClaimFails(p)
           \/ StartQueued(p) \/ FinishDispatch(p) \/ DeferMailbox(p)
           \/ RestoreFails(p) \/ CommandFails(p)
    PROVE  AloneInv' /\ StaysGone
<1>1. /\ Live(p) /\ UNCHANGED <<disk, life, ownerQueue, ownerInflight, ownerTurn>>
      /\ UNCHANGED <<loc, steers, consumed, accepted, taken, excused, dropped, steered>>
      /\ todo' = todo \/ todo' = [todo EXCEPT ![p] = Kick] \/ todo' = [todo EXCEPT ![p] = Idle]
      /\ \/ disp' = disp /\ cmd' = cmd
         \/ disp[p] = "claimed" /\ disp' = [disp EXCEPT ![p] = "started"] /\ cmd' = cmd
         \/ disp[p] = "settled" /\ disp' = [disp EXCEPT ![p] = "idle"]
            /\ cmd' = [cmd EXCEPT ![p] = NoMsg]
    BY QuietParts
<1>2. DOMAIN todo = Owner /\ DOMAIN disp = Owner /\ DOMAIN cmd = Owner
    BY DEF Inv, TypeInv, TypeOK
<1>3. Kick.act = "kick" /\ Idle.act = "none"
    BY DEF Kick, Idle
<1>4. todo'[p].act = "restore" => todo'[p] = todo[p]
    BY <1>1, <1>2, <1>3
<1>5. \/ disp'[p] = disp[p] /\ cmd'[p] = cmd[p]
      \/ /\ disp[p] \notin {"claiming", "settling"}
         /\ \/ disp[p] = "claimed" /\ disp'[p] = "started" /\ cmd'[p] = cmd[p]
            \/ /\ disp'[p] \in {"settled", "idle"}
               /\ disp[p] = "admitted" => disk.inflight # cmd[p]
    BY <1>1, <1>2
<1>6. QED BY <1>1, <1>4, <1>5, QuietEffect

-----------------------------------------------------------------------------
(* Consuming a steer.                                                      *)

\* The consumption of a steer moves on; nothing else of p does.
LEMMA ConsumptionStep ==
    ASSUME Inv, TypeOK', NEW p \in Owner, Live(p),
           UNCHANGED <<disk, life, ownerQueue, ownerInflight, ownerTurn, loc, disp, cmd,
                       accepted, dropped, steered>>,
           \A o \in Owner \ {p} : /\ steers'[o] = steers[o] /\ consumed'[o] = consumed[o]
                                  /\ todo'[o] = todo[o],
           Steering(p)', Consuming(p)', Counted(p)', Recorded(p)',
           \A m \in Msg : /\ taken'[m] <= 1 + excused'[m] /\ taken[m] <= taken'[m]
                          /\ m \notin ToSet(accepted) => taken'[m] = 0
    PROVE  AloneInv' /\ StaysGone
<1>1. Runtime(p)
    BY Sole
<1>2. OthersKept(p)
    BY DEF OthersKept
<1>3. Shows(p)' /\ Claiming(p)'
    BY <1>1 DEF Runtime, Shows, Claiming, Unsettled
<1>4. QED BY <1>2, <1>3, FileKept

LEMMA PopStep ==
    ASSUME Inv, TypeOK', NEW p \in Owner, PopSteer(p)
    PROVE  AloneInv' /\ StaysGone
<1> DEFINE m == Head(steers[p])
<1>0. /\ Runtime(p) /\ Once /\ Places /\ TypeOK /\ Live(p)
    BY Sole DEF Inv, AloneInv, TypeInv, PopSteer, Ready, Live
<1>1. /\ UNCHANGED <<disk, life, ownerQueue, ownerInflight, ownerTurn, loc, disp, cmd, todo,
                     accepted, taken, excused, dropped, steered>>
      /\ \A o \in Owner \ {p} : steers'[o] = steers[o] /\ consumed'[o] = consumed[o]
      /\ steers'[p] = Tail(steers[p]) /\ consumed'[p] = [msg |-> m, stage |-> "popped"]
      /\ consumed[p] = NoneConsumed /\ todo[p] = Idle /\ steers[p] # <<>>
    BY <1>0 DEF PopSteer, Ready, storeVars, ghostVars, TypeOK
<1>2. consumed'[p].msg = m /\ consumed'[p].stage = "popped" /\ Idle.act = "none"
      /\ consumed[p].stage = "none"
    BY <1>1 DEF Idle, NoneConsumed
<1>3. /\ m \in ToSet(steers[p]) /\ Distinct(Tail(steers[p])) /\ m \notin ToSet(Tail(steers[p]))
      /\ ToSet(Tail(steers[p])) \subseteq ToSet(steers[p])
    <2> DEFINE s == steers[p]
    <2> HIDE DEF s
    <2>1. s \in Seq(Msg) /\ s # <<>> /\ Distinct(s)
        BY <1>0, <1>1, SnapshotsTyped DEF Runtime, Steering, s
    <2>2. /\ Head(s) \in ToSet(s) /\ Distinct(Tail(s)) /\ Head(s) \notin ToSet(Tail(s))
          /\ ToSet(s) = {Head(s)} \cup ToSet(Tail(s))
        BY <2>1, TailParts
    <2>3. QED BY <2>2 DEF s
<1>4. m \in ToSet(disk.turn) /\ m \in Stored /\ m \in ToSet(accepted)
    BY <1>0, <1>3 DEF Runtime, Steering, Places, Stored
<1>5. m \notin ToSet(disk.queue) /\ m # disk.inflight /\ (Unsettled(p) => m # cmd[p])
    BY <1>0, <1>4 DEF Places, Runtime, Claiming
<1> HIDE DEF m
<1>6. Steering(p)'
    BY <1>0, <1>1, <1>2, <1>3 DEF Runtime, Steering
<1>7. Consuming(p)'
    BY <1>1, <1>2, <1>3, <1>4, <1>5 DEF Consuming, Unsettled
<1>8. taken[m] <= excused[m]
    <2>1. ~(disp[p] = "admitted" /\ m = cmd[p])
        BY <1>5 DEF Unsettled, Inv, FenceInv, Captured
    <2>2. QED BY <1>0, <1>2, <1>4, <2>1 DEF Runtime, Recorded
<1>9. Counted(p)'
    BY <1>0, <1>1, <1>2, <1>8 DEF Runtime, Counted, Unsettled
<1>10. Recorded(p)'
    BY <1>0, <1>1, <1>2 DEF Runtime, Recorded, Stored
<1>11. \A x \in Msg : /\ taken'[x] <= 1 + excused'[x] /\ taken[x] <= taken'[x]
                      /\ x \notin ToSet(accepted) => taken'[x] = 0
    <2>1. \A x \in Msg : taken[x] \in Nat
        BY <1>0, BoundsAssumption DEF TypeOK
    <2>2. QED BY <1>0, <1>1, <2>1 DEF Once
<1>12. QED BY <1>0, <1>1, <1>6, <1>7, <1>9, <1>10, <1>11, ConsumptionStep

LEMMA DeliverStep ==
    ASSUME Inv, TypeOK', NEW p \in Owner, DeliverSteer(p)
    PROVE  AloneInv' /\ StaysGone
<1> DEFINE m == consumed[p].msg
<1>0. /\ Runtime(p) /\ Once /\ TypeOK /\ Live(p)
    BY Sole DEF Inv, AloneInv, TypeInv, DeliverSteer, Ready, Live
<1>1. /\ UNCHANGED <<disk, life, ownerQueue, ownerInflight, ownerTurn, loc, disp, cmd, todo,
                     accepted, steers, excused, dropped, steered>>
      /\ consumed[p].stage = "popped"
      /\ taken' = [taken EXCEPT ![m] = @ + 1]
    BY DEF DeliverSteer, storeVars
<1>2. /\ consumed'[p].msg = m /\ consumed'[p].stage = "delivered"
      /\ \A o \in Owner \ {p} : consumed'[o] = consumed[o]
    <2>1. consumed' = [consumed EXCEPT ![p].stage = "delivered"]
        BY DEF DeliverSteer
    <2>2. consumed \in [Owner -> [msg : Msg \cup {NoMsg}, stage : {"none", "popped", "delivered"}]]
        BY <1>0 DEF TypeOK
    <2>3. QED BY <2>1, <2>2
<1>3. m \in ToSet(accepted) /\ m \in Msg /\ taken[m] <= excused[m] /\ (Unsettled(p) => m # cmd[p])
    BY <1>0, <1>1, ElementIn DEF Runtime, Consuming, Counted, TypeOK
<1> HIDE DEF m
<1>4. /\ \A x \in Msg : taken[x] \in Nat /\ excused[x] \in Nat
      /\ taken'[m] = taken[m] + 1 /\ \A x \in Msg \ {m} : taken'[x] = taken[x]
    <2>1. /\ MaxTaken \in Nat /\ taken \in [Msg -> 0..MaxTaken] /\ excused \in [Msg -> Nat]
        BY <1>0, BoundsAssumption DEF TypeOK
    <2>2. QED BY <1>1, <1>3, <2>1
<1>5. Steering(p)'
    BY <1>0, <1>1, <1>2 DEF Runtime, Steering, m
<1>6. Consuming(p)'
    BY <1>0, <1>1, <1>2 DEF Runtime, Consuming, Unsettled, m
<1>7. Counted(p)'
    <2>1. Unsettled(p) => cmd[p] \in Msg /\ cmd[p] # m
        BY <1>0, <1>3 DEF Unsettled, TypeOK
    <2>2. taken'[m] > 0
        BY <1>3, <1>4
    <2>3. Unsettled(p)' => Unsettled(p)
        BY <1>1 DEF Unsettled
    <2>4. QED BY <1>0, <1>1, <1>2, <1>4, <2>1, <2>2, <2>3 DEF Runtime, Counted
<1>8. Recorded(p)'
    <2>1. \A x \in Stored : x \in Msg
        BY <1>0, FileParts, ElementIn DEF Stored
    <2>2. ASSUME NEW x \in Stored, x # m
          PROVE  taken'[x] <= excused'[x] \/ (disp'[p] = "admitted" /\ x = cmd'[p])
        BY <1>0, <1>1, <1>4, <2>1, <2>2 DEF Runtime, Recorded, m
    <2>3. Stored' = Stored
        BY <1>1 DEF Stored
    <2>4. QED BY <1>2, <2>2, <2>3 DEF Recorded
<1>9. \A x \in Msg : /\ taken'[x] <= 1 + excused'[x] /\ taken[x] <= taken'[x]
                     /\ x \notin ToSet(accepted) => taken'[x] = 0
    BY <1>0, <1>1, <1>3, <1>4 DEF Once
<1>10. QED BY <1>0, <1>1, <1>2, <1>5, <1>6, <1>7, <1>8, <1>9, ConsumptionStep

\* The consumption ends, with or without the turn queue, and nothing is
\* published: what a turn has taken in is excused, or is not in the file.
LEMMA DropStep ==
    ASSUME Inv, TypeOK', NEW p \in Owner, Live(p),
           UNCHANGED <<disk, life, ownerQueue, ownerInflight, ownerTurn, loc, disp, cmd,
                       accepted, taken, dropped, steered>>,
           consumed' = [consumed EXCEPT ![p] = NoneConsumed],
           steers' = steers \/ steers' = [steers EXCEPT ![p] = <<>>],
           NEW t, todo' = todo \/ todo' = [todo EXCEPT ![p] = t], todo'[p].act # "restore",
           consumed[p].stage = "delivered" =>
               \/ Excuse({consumed[p].msg})
               \/ excused' = excused /\ consumed[p].msg \notin Stored,
           consumed[p].stage # "delivered" => excused' = excused
    PROVE  AloneInv' /\ StaysGone
<1>0. Runtime(p) /\ Once /\ TypeOK
    BY Sole DEF Inv, AloneInv, TypeInv
<1>1. consumed'[p] = NoneConsumed /\ (\A o \in Owner \ {p} : consumed'[o] = consumed[o])
      /\ (\A o \in Owner \ {p} : steers'[o] = steers[o] /\ todo'[o] = todo[o])
      /\ (steers'[p] = steers[p] \/ steers'[p] = <<>>)
      /\ NoneConsumed.msg = NoMsg /\ NoneConsumed.stage = "none"
    <2>1. DOMAIN consumed = Owner /\ DOMAIN steers = Owner /\ DOMAIN todo = Owner
        BY <1>0 DEF TypeOK
    <2>2. NoneConsumed.msg = NoMsg /\ NoneConsumed.stage = "none"
        BY DEF NoneConsumed
    <2>3. consumed'[p] = NoneConsumed /\ (\A o \in Owner \ {p} : consumed'[o] = consumed[o])
        BY <2>1
    <2>4. /\ \A o \in Owner \ {p} : steers'[o] = steers[o] /\ todo'[o] = todo[o]
          /\ steers'[p] = steers[p] \/ steers'[p] = <<>>
        BY <2>1
    <2>5. QED BY <2>2, <2>3, <2>4
<1>2. \A x \in Msg : taken[x] \in Nat /\ excused[x] \in Nat /\ excused'[x] \in Nat
    BY <1>0, BoundsAssumption DEF TypeOK
<1>3. \A x \in Msg : excused[x] <= excused'[x]
    BY <1>2 DEF Excuse
<1>4. Steering(p)'
    <2>1. Distinct(<<>>) /\ ToSet(<<>>) = {}
        BY SortedEmpty DEF ToSet
    <2>2. QED BY <1>0, <1>1, <2>1 DEF Runtime, Steering
<1>5. Consuming(p)'
    BY <1>1 DEF Consuming
<1>6. Counted(p)'
    <2>1. Unsettled(p)' => Unsettled(p) /\ cmd[p] \in Msg
        BY <1>0 DEF Unsettled, TypeOK
    <2>2. QED BY <1>0, <1>1, <1>2, <1>3, <2>1 DEF Runtime, Counted
<1>7. Recorded(p)'
    <2>1. \A x \in Stored : x \in Msg
        BY <1>0, FileParts, ElementIn DEF Stored
    <2>2. ASSUME NEW x \in Stored
          PROVE  taken'[x] <= excused'[x] \/ (disp'[p] = "admitted" /\ x = cmd'[p])
        <3>1. CASE consumed[p].stage = "delivered" /\ x = consumed[p].msg
            <4>1. Excuse({x})
                BY <2>2, <3>1
            <4>2. excused'[x] = excused[x] + 1 /\ taken[x] <= 1 + excused[x]
                BY <1>0, <2>1, <4>1 DEF Excuse, Once
            <4>3. QED BY <1>2, <2>1, <4>2
        <3>2. CASE ~(consumed[p].stage = "delivered" /\ x = consumed[p].msg)
            BY <1>0, <1>2, <1>3, <2>1, <3>2 DEF Runtime, Recorded
        <3>3. QED BY <3>1, <3>2
    <2>3. Stored' = Stored
        BY DEF Stored
    <2>4. QED BY <2>2, <2>3 DEF Recorded
<1>8. \A x \in Msg : /\ taken'[x] <= 1 + excused'[x] /\ taken[x] <= taken'[x]
                     /\ x \notin ToSet(accepted) => taken'[x] = 0
    BY <1>0, <1>2, <1>3 DEF Once
<1>9. QED BY <1>1, <1>4, <1>5, <1>6, <1>7, <1>8, ConsumptionStep

-----------------------------------------------------------------------------
(* Dispatching a message.                                                  *)

LEMMA AdmitStep ==
    ASSUME Inv, TypeOK', NEW p \in Owner, Admit(p)
    PROVE  AloneInv' /\ StaysGone
<1> DEFINE m == cmd[p]
<1>0. /\ Runtime(p) /\ Once /\ TypeOK /\ Live(p) /\ disp[p] = "started"
    BY Sole DEF Inv, AloneInv, TypeInv, Admit, Ready, Live
<1>1. /\ UNCHANGED <<disk, life, ownerQueue, ownerInflight, ownerTurn, loc, cmd, todo, consumed,
                     accepted, steers, excused, dropped, steered>>
      /\ disp'[p] = "admitted" /\ \A o \in Owner \ {p} : disp'[o] = disp[o]
      /\ taken' = [taken EXCEPT ![m] = @ + 1]
    BY <1>0 DEF Admit, storeVars, TypeOK
<1>2. m # NoMsg /\ Unsettled(p)
    BY <1>0 DEF Inv, FenceInv, Captured, Unsettled
<1>3. m \in ToSet(accepted) /\ m \in Msg /\ taken[m] <= excused[m]
    BY <1>0, <1>2, ElementIn DEF Runtime, Claiming, Counted, TypeOK
<1> HIDE DEF m
<1>4. /\ \A x \in Msg : taken[x] \in Nat /\ excused[x] \in Nat
      /\ taken'[m] = taken[m] + 1 /\ \A x \in Msg \ {m} : taken'[x] = taken[x]
    <2>1. /\ MaxTaken \in Nat /\ taken \in [Msg -> 0..MaxTaken] /\ excused \in [Msg -> Nat]
        BY <1>0, BoundsAssumption DEF TypeOK
    <2>2. QED BY <1>1, <1>3, <2>1
<1>5. Shows(p)' /\ Steering(p)'
    <2>1. Shows(p)'
        BY <1>0, <1>1 DEF Runtime, Shows
    <2>2. Steering(p)'
        BY <1>0, <1>1 DEF Runtime, Steering
    <2>3. QED BY <2>1, <2>2
<1>6. Consuming(p)' /\ Claiming(p)'
    <2>1. Consuming(p)'
        BY <1>0, <1>1, <1>2 DEF Runtime, Consuming
    <2>2. Claiming(p)'
        BY <1>0, <1>1, <1>2 DEF Runtime, Claiming
    <2>3. QED BY <2>1, <2>2
<1>7. Counted(p)'
    <2>1. consumed[p].stage # "none" => consumed[p].msg \in Msg \ {m}
        <3>1. ToSet(accepted) \subseteq Msg
            BY <1>0, ElementIn DEF TypeOK
        <3>2. QED BY <1>0, <1>2, <3>1 DEF Runtime, Consuming, m
    <2>2. taken'[m] > 0 /\ cmd'[p] = m
        BY <1>1, <1>3, <1>4 DEF m
    <2>3. /\ consumed'[p].stage = "delivered" => taken'[consumed'[p].msg] > 0
          /\ consumed'[p].stage = "popped" => taken'[consumed'[p].msg] <= excused'[consumed'[p].msg]
        BY <1>0, <1>1, <1>4, <2>1 DEF Runtime, Counted
    <2>4. QED BY <1>1, <2>2, <2>3 DEF Counted
<1>8. Recorded(p)'
    <2>1. \A x \in Stored : x \in Msg
        BY <1>0, FileParts, ElementIn DEF Stored
    <2>2. Stored' = Stored
        BY <1>1 DEF Stored
    <2>3. \A x \in Stored : x # m => \/ taken'[x] <= excused'[x]
                                     \/ consumed[p].stage = "delivered" /\ x = consumed[p].msg
        BY <1>0, <1>1, <1>4, <2>1 DEF Runtime, Recorded
    <2>4. cmd'[p] = m
        BY <1>1 DEF m
    <2>5. QED BY <1>1, <2>2, <2>3, <2>4 DEF Recorded
<1>9. \A x \in Msg : /\ taken'[x] <= 1 + excused'[x] /\ taken[x] <= taken'[x]
                     /\ x \notin ToSet(accepted) => taken'[x] = 0
    BY <1>0, <1>1, <1>3, <1>4 DEF Once
<1>10. OthersKept(p)
    BY <1>1 DEF OthersKept
<1>11. UNCHANGED <<disk, life, ownerQueue, ownerInflight, ownerTurn, loc, accepted, dropped, steered>>
    BY <1>1
<1>12. QED BY <1>0, <1>5, <1>6, <1>7, <1>8, <1>9, <1>10, <1>11, FileKept

LEMMA SettleFailsStep ==
    ASSUME Inv, TypeOK', NEW p \in Owner, SettleFails(p)
    PROVE  AloneInv' /\ StaysGone
<1> DEFINE m == cmd[p]
<1>0. /\ Runtime(p) /\ Once /\ TypeOK /\ Live(p)
      /\ disp[p] \in {"claimed", "started", "admitted"}
    BY Sole DEF Inv, AloneInv, TypeInv, SettleFails, NotAdmitted, Ready, Live
<1>1. /\ UNCHANGED <<disk, life, ownerQueue, ownerInflight, ownerTurn, loc, cmd, todo, consumed,
                     accepted, steers, taken, dropped, steered>>
      /\ \A o \in Owner \ {p} : disp'[o] = disp[o]
    <2>1. \E d : disp' = [disp EXCEPT ![p] = d]
        BY DEF SettleFails
    <2>2. \A o \in Owner \ {p} : disp'[o] = disp[o]
        BY <1>0, <2>1 DEF TypeOK
    <2>3. QED BY <2>2 DEF SettleFails, storeVars
<1>2. m # NoMsg /\ Unsettled(p) /\ m \in Msg
    BY <1>0, SMTT(30) DEF Inv, FenceInv, Captured, Unsettled, TypeOK
<1>3. CASE disp[p] = "admitted"
    <2>1. disp'[p] = "settled" /\ excused' = [excused EXCEPT ![m] = @ + 1]
        BY <1>0, <1>3 DEF SettleFails, NotAdmitted, TypeOK
    <2> HIDE DEF m
    <2>2. /\ \A x \in Msg : taken[x] \in Nat /\ excused[x] \in Nat
          /\ excused'[m] = excused[m] + 1 /\ \A x \in Msg \ {m} : excused'[x] = excused[x]
        <3>1. /\ MaxTaken \in Nat /\ taken \in [Msg -> 0..MaxTaken] /\ excused \in [Msg -> Nat]
            BY <1>0, BoundsAssumption DEF TypeOK
        <3>2. QED BY <1>2, <2>1, <3>1
    <2>3. Shows(p)' /\ Steering(p)'
        <3>1. Shows(p)'
            BY <1>0, <1>1, <2>1 DEF Runtime, Shows, SettleFails, Ready
        <3>2. Steering(p)'
            BY <1>0, <1>1 DEF Runtime, Steering
        <3>3. QED BY <3>1, <3>2
    <2>4. Consuming(p)' /\ Claiming(p)' /\ ~Unsettled(p)'
        BY <1>0, <1>1, <2>1 DEF Runtime, Consuming, Claiming, Unsettled
    <2>5. \A x \in Msg : taken[x] <= excused[x] => taken'[x] <= excused'[x]
        BY <1>1, <2>2
    <2>6. Counted(p)'
        <3>1. consumed[p].stage # "none" => consumed[p].msg \in Msg
            BY <1>0, ElementIn, SMTT(30) DEF Runtime, Consuming, TypeOK
        <3>2. QED BY <1>0, <1>1, <2>4, <2>5, <3>1 DEF Runtime, Counted
    <2>7. Recorded(p)'
        <3>1. \A x \in Stored : x \in Msg
            BY <1>0, FileParts, ElementIn DEF Stored
        <3>2. Stored' = Stored
            BY <1>1 DEF Stored
        <3>3. taken'[m] <= excused'[m]
            BY <1>0, <1>1, <1>2, <2>2 DEF Once
        <3>4. \A x \in Stored : x # m => \/ taken'[x] <= excused'[x]
                                         \/ consumed[p].stage = "delivered" /\ x = consumed[p].msg
            BY <1>0, <2>5, <3>1 DEF Runtime, Recorded, m
        <3>5. QED BY <1>1, <3>2, <3>3, <3>4 DEF Recorded
    <2>8. \A x \in Msg : /\ taken'[x] <= 1 + excused'[x] /\ taken[x] <= taken'[x]
                         /\ x \notin ToSet(accepted) => taken'[x] = 0
        BY <1>0, <1>1, <2>2 DEF Once
    <2>9. OthersKept(p)
        BY <1>1 DEF OthersKept
    <2>10. UNCHANGED <<disk, life, ownerQueue, ownerInflight, ownerTurn, loc, accepted, dropped, steered>>
        BY <1>1
    <2>11. QED BY <1>0, <2>3, <2>4, <2>6, <2>7, <2>8, <2>9, <2>10, FileKept
<1>4. CASE disp[p] # "admitted"
    <2>1. PICK next \in {"settled", "idle"} : disp' = [disp EXCEPT ![p] = next]
        BY <1>4 DEF SettleFails
    <2>2. excused' = excused
        <3>1. excused' = [excused EXCEPT ![m] = @ + 0]
            BY <1>4 DEF SettleFails
        <3>2. excused \in [Msg -> Nat]
            BY <1>0 DEF TypeOK
        <3> HIDE DEF m
        <3>3. QED BY <1>2, <3>1, <3>2
    <2>3. disp[p] \notin {"claiming", "settling"} /\ disp'[p] \in {"settled", "idle"}
        BY <1>0, <2>1, SMTT(30) DEF TypeOK
    <2>4. /\ UNCHANGED <<disk, life, ownerQueue, ownerInflight, ownerTurn, loc, steers, consumed,
                         accepted, taken, excused, dropped, steered>>
          /\ todo' = todo /\ cmd' = cmd
        BY <1>1, <2>2
    <2>5. todo'[p].act = "restore" => todo'[p] = todo[p]
        BY <2>4
    <2>6. QED BY <1>0, <1>4, <2>1, <2>3, <2>4, <2>5, QuietEffect
<1>5. QED BY <1>3, <1>4

\* The claim is settled in the file.
LEMMA SettledStep ==
    ASSUME Inv, TypeOK', NEW p \in Owner, Live(p), NEW s \in BOOLEAN,
           disp[p] \in {"claimed", "started", "admitted"}, disp[p] = "admitted" <=> s,
           loc[p].inf = cmd[p], Settle(p, cmd[p], s),
           loc' = [loc EXCEPT ![p].inf = NoMsg], disp' = [disp EXCEPT ![p] = "settling"],
           UNCHANGED <<life, cmd, todo, consumed, steers, accepted, taken, excused, dropped, steered>>
    PROVE  AloneInv' /\ StaysGone
<1> DEFINE m == cmd[p]
           q == disk.queue
           r == IF s THEN q ELSE <<m>> \o q
<1>0. /\ Runtime(p) /\ Once /\ Kept /\ Places /\ InOrder /\ TypeOK /\ Recovered(disk) = disk
    BY Sole DEF Inv, AloneInv, TypeInv
<1>1. m # NoMsg /\ Unsettled(p) /\ m \in Msg /\ disk.inflight = m
    BY <1>0 DEF Inv, FenceInv, Captured, Unsettled, TypeOK, Runtime, Shows
<1>2. m \in ToSet(accepted) /\ m \notin ToSet(q) \cup ToSet(disk.turn)
    BY <1>0, <1>1 DEF Runtime, Claiming
<1>3. /\ disk' = [disk EXCEPT !.inflight = NoMsg, !.infOwner = NoOwner,
                              !.queue = IF s THEN @ ELSE <<m>> \o @]
      /\ ownerInflight' = [ownerInflight EXCEPT ![p] = NoMsg]
      /\ ownerQueue' = [ownerQueue EXCEPT ![p] = disk'.queue] /\ ownerTurn' = ownerTurn
    BY <1>0 DEF Settle
<1>4. disk'.inflight = NoMsg /\ disk'.infOwner = NoOwner /\ disk'.queue = r
      /\ disk'.turn = disk.turn /\ disk'.turnOwner = disk.turnOwner
    BY <1>0, <1>3, FileParts
<1>5. /\ q \in Seq(Msg) /\ <<m>> \in Seq(Msg) /\ ToSet(<<m>>) = {m} /\ Distinct(<<m>>)
      /\ \A R : Sorted(<<m>>, R)
    BY <1>0, <1>1, FileParts, SortedOne
<1>6. /\ ToSet(r) = IF s THEN ToSet(q) ELSE ToSet(q) \cup {m}
      /\ Distinct(r)
    <2>1. ToSet(<<m>> \o q) = {m} \cup ToSet(q)
        <3> HIDE DEF m, q
        <3>1. ToSet(<<m>> \o q) = ToSet(<<m>>) \cup ToSet(q)
            BY <1>5, JoinSet, ZenonT(60)
        <3>2. QED BY <1>5, <3>1
    <2>2. Distinct(<<m>> \o q)
        BY <1>0, <1>2, <1>5, DistinctJoin DEF Places
    <2>3. QED BY <1>0, <2>1, <2>2 DEF Places
<1>7. Ahead' = Ahead
    BY DEF Ahead, Plain, Position
<1>8. Sorted(r, Ahead)
    <2>1. \A x \in ToSet(<<m>>) : \A y \in ToSet(q) : <<x, y>> \in Ahead
        BY <1>0, <1>1, <1>5 DEF InOrder
    <2>2. Sorted(q, Ahead)
        BY <1>0 DEF InOrder
    <2> HIDE DEF q, m
    <2>3. Sorted(<<m>> \o q, Ahead)
        BY <1>5, <2>1, <2>2, SortedJoin
    <2>4. QED BY <2>2, <2>3
<1>9. DOMAIN loc = Owner /\ DOMAIN disp = Owner /\ DOMAIN ownerInflight = Owner
      /\ DOMAIN ownerQueue = Owner
    BY <1>0 DEF TypeOK, StoreTypeOK
<1>10. loc'[p].inf = NoMsg /\ loc'[p].turn = loc[p].turn /\ disp'[p] = "settling"
    <2>1. loc[p] = [q |-> loc[p].q, inf |-> loc[p].inf, turn |-> loc[p].turn]
        BY <1>0, SnapshotsTyped
    <2>2. loc'[p] = [loc[p] EXCEPT !.inf = NoMsg]
        BY <1>9
    <2>3. QED BY <1>9, <2>1, <2>2
<1>11. OthersKept(p)
    BY <1>3, <1>9 DEF OthersKept
<1> HIDE DEF r, q
<1>12. Synced(p)'
    BY <1>0, <1>3, <1>4, <1>9 DEF Runtime, Synced
<1>13. Shows(p)'
    BY <1>0, <1>4, <1>10 DEF Runtime, Shows
<1>14. Steering(p)'
    BY <1>0, <1>4 DEF Runtime, Steering
<1>15. ~Unsettled(p)'
    BY <1>10 DEF Unsettled
<1>16. Consuming(p)'
    <2>1. ToSet(accepted) \subseteq Msg
        BY <1>0, ElementIn DEF TypeOK
    <2>2. consumed[p].stage # "none" => consumed[p].msg \notin ToSet(r) \cup {NoMsg}
        BY <1>0, <1>1, <1>6, <2>1, NullsAssumption DEF Runtime, Consuming, q
    <2>3. QED BY <1>0, <1>4, <1>15, <2>2 DEF Runtime, Consuming
<1>17. Claiming(p)' /\ Counted(p)'
    BY <1>0, <1>15 DEF Runtime, Claiming, Counted
<1>18. Stored' = IF s THEN Stored \ {m} ELSE Stored
    BY <1>1, <1>2, <1>4, <1>6 DEF Stored, q
<1>19. Recorded(p)'
    <2>1. ~s => taken[m] <= excused[m]
        BY <1>0, <1>1 DEF Runtime, Counted
    <2>2. \A x \in Stored : x = m \/ taken[x] <= excused[x]
                            \/ (consumed[p].stage = "delivered" /\ x = consumed[p].msg)
        BY <1>0 DEF Runtime, Recorded
    <2>3. QED BY <1>18, <2>1, <2>2 DEF Recorded
<1>20. Places'
    <2>1. ToSet(r) \subseteq Msg /\ ToSet(disk.turn) \subseteq Msg
        BY <1>0, <1>1, <1>5, <1>6, ElementIn, FileParts
    <2>2. ToSet(r) \cap ToSet(disk.turn) = {} /\ Stored' \subseteq ToSet(accepted)
        BY <1>0, <1>2, <1>6, <1>18 DEF Places, q
    <2>3. QED BY <1>0, <1>4, <1>6, <2>1, <2>2, NullsAssumption DEF Places
<1>21. InOrder'
    BY <1>4, <1>7, <1>8 DEF InOrder
<1>22. Once' /\ Kept'
    <2>1. s => taken[m] > 0
        BY <1>0, <1>1 DEF Runtime, Counted
    <2>2. Kept'
        BY <1>0, <1>18, <2>1 DEF Kept
    <2>3. QED BY <1>0, <2>2 DEF Once
<1>23. Runtime(p)'
    BY <1>12, <1>13, <1>14, <1>16, <1>17, <1>19 DEF Runtime
<1>24. StaysGone
    BY <1>18 DEF StaysGone
<1>25. QED BY <1>11, <1>20, <1>21, <1>22, <1>23, <1>24, LiveStep

LEMMA SettleStep ==
    ASSUME Inv, TypeOK', NEW p \in Owner, SettleAdmitted(p) \/ SettleRejected(p)
    PROVE  AloneInv' /\ StaysGone
<1>0. /\ Runtime(p) /\ TypeOK /\ Live(p) /\ Recovered(disk) = disk
    BY Sole DEF Inv, TypeInv, SettleAdmitted, SettleRejected, Ready, Live
<1>1. PICK s \in BOOLEAN : /\ FinishUserMessageDispatch(p, s)
                           /\ disp[p] \in {"claimed", "started", "admitted"}
                           /\ disp[p] = "admitted" <=> s
    BY DEF SettleAdmitted, SettleRejected, NotAdmitted
<1>2. UNCHANGED <<cmd, todo, consumed, steers, accepted, taken, excused, dropped, steered>>
    BY DEF SettleAdmitted, SettleRejected, ghostVars
<1>3. cmd[p] # NoMsg
    BY <1>1 DEF Inv, FenceInv, Captured
<1>4. CASE loc[p].inf # cmd[p]
    <2>1. disp' = [disp EXCEPT ![p] = "settled"] /\ UNCHANGED <<storeVars, loc>>
        BY <1>1, <1>4 DEF FinishUserMessageDispatch
    <2>2. disk.inflight # cmd[p]
        BY <1>0, <1>1, <1>4 DEF Runtime, Shows
    <2>3. disp'[p] = "settled" /\ disp[p] \notin {"claiming", "settling"}
        BY <1>0, <1>1, <2>1 DEF TypeOK
    <2>4. UNCHANGED <<disk, life, ownerQueue, ownerInflight, ownerTurn, loc>>
        BY <2>1 DEF storeVars
    <2>5. todo'[p].act = "restore" => todo'[p] = todo[p]
        BY <1>2
    <2>6. QED BY <1>0, <1>2, <2>1, <2>2, <2>3, <2>4, <2>5, QuietEffect
<1>5. CASE loc[p].inf = cmd[p]
    <2>1. disk.inflight = cmd[p] /\ disk.infOwner = p
        BY <1>0, <1>1, <1>3, <1>5 DEF Runtime, Shows, Synced
    <2>2. MaySettle(p, cmd[p])
        BY <1>0, <2>1 DEF MaySettle
    <2>3. /\ Settle(p, cmd[p], s) /\ loc' = [loc EXCEPT ![p].inf = NoMsg]
          /\ disp' = [disp EXCEPT ![p] = "settling"]
        BY <1>1, <1>5, <2>2 DEF FinishUserMessageDispatch, RefuseSettle
    <2>4. life' = life
        BY <2>3 DEF Settle
    <2>5. QED BY <1>0, <1>1, <1>2, <1>5, <2>3, <2>4, SettledStep
<1>6. QED BY <1>4, <1>5

\* What the end of a consumption that publishes nothing leaves alone.
LEMMA UnpublishedParts ==
    ASSUME Inv, TypeOK', NEW p \in Owner,
           \/ AckFails(p) \/ EndRunFails(p)
           \/ AckSteer(p) /\ consumed[p].msg \notin ToSet(loc[p].turn)
           \/ EndRun(p) /\ Restored(p) = <<>>
    PROVE  /\ Live(p) /\ UNCHANGED <<disk, life, ownerQueue, ownerInflight, ownerTurn>>
           /\ UNCHANGED <<loc, disp, cmd, accepted, taken, dropped, steered>>
           /\ consumed' = [consumed EXCEPT ![p] = NoneConsumed]
           /\ steers' = steers \/ steers' = [steers EXCEPT ![p] = <<>>]
           /\ todo' = todo \/ todo' = [todo EXCEPT ![p] = Kick] \/ todo' = [todo EXCEPT ![p] = Idle]
           /\ consumed[p].stage = "delivered" =>
                  \/ Excuse({consumed[p].msg})
                  \/ excused' = excused /\ consumed[p].msg \notin Stored
           /\ consumed[p].stage # "delivered" => excused' = excused
<1>0. /\ Runtime(p) /\ TypeOK /\ Live(p) /\ todo[p] = Idle /\ Idle.act = "none" /\ Kick.act = "kick"
    BY Sole DEF Inv, TypeInv, AckFails, EndRunFails, AckSteer, EndRun, Ready, Live, Idle, Kick
<1>1. UNCHANGED storeVars
    <2>1. CASE AckFails(p)
        BY <1>0, <2>1, SnapshotsTyped, FailureEffect DEF AckFails
    <2>2. CASE EndRunFails(p)
        <3> DEFINE r == Restored(p)
                   q == loc[p].q
        <3>3. r \in Seq(Msg) /\ q \in Seq(Msg) /\ <<>> \in Seq(Msg) /\ loc[p].inf \in Msg \cup {NoMsg}
            BY <1>0, SnapshotsTyped
        <3> HIDE DEF r, q
        <3>4. r \o q \in Seq(Msg)
            BY <3>3
        <3>1. Restored(p) \o loc[p].q \in Seq(Msg) /\ <<>> \in Seq(Msg) /\ loc[p].inf \in Msg \cup {NoMsg}
            BY <3>3, <3>4 DEF r, q
        <3>2. QED BY <1>0, <2>2, <3>1, FailureEffect DEF EndRunFails
    <2>3. QED BY <2>1, <2>2 DEF AckSteer, EndRun
<1>2. /\ UNCHANGED <<loc, disp, cmd, accepted, taken, dropped, steered>>
      /\ consumed' = [consumed EXCEPT ![p] = NoneConsumed]
      /\ steers' = steers \/ steers' = [steers EXCEPT ![p] = <<>>]
    BY DEF AckFails, EndRunFails, AckSteer, EndRun, ghostVars
<1>3. todo' = todo \/ todo' = [todo EXCEPT ![p] = Kick] \/ todo' = [todo EXCEPT ![p] = Idle]
    BY DEF AckFails, EndRunFails, AckSteer, EndRun
<1>4. consumed[p].stage = "delivered" =>
          \/ Excuse({consumed[p].msg})
          \/ excused' = excused /\ consumed[p].msg \notin Stored
    <2>1. CASE AckSteer(p) /\ consumed[p].msg \notin ToSet(loc[p].turn)
        BY <1>0, <2>1 DEF AckSteer, ghostVars, Runtime, Consuming, Shows, Stored
    <2>2. CASE ~AckSteer(p)
        BY <2>2 DEF AckFails, EndRunFails, EndRun
    <2>3. QED BY <2>1, <2>2 DEF AckSteer, AckFails, EndRunFails, EndRun
<1>5. consumed[p].stage # "delivered" => excused' = excused
    <2>1. ASSUME Excuse({}) PROVE excused' = excused
        <3>1. excused \in [Msg -> Nat] /\ excused' = [m \in Msg |-> excused[m] + 0]
            BY <1>0, <2>1 DEF TypeOK, Excuse
        <3>2. QED BY <3>1
    <2>2. QED BY <2>1 DEF AckFails, EndRunFails, AckSteer, EndRun
<1>6. UNCHANGED <<disk, life, ownerQueue, ownerInflight, ownerTurn>>
    BY <1>1 DEF storeVars
<1>7. QED BY <1>0, <1>2, <1>3, <1>4, <1>5, <1>6

LEMMA UnpublishedStep ==
    ASSUME Inv, TypeOK', NEW p \in Owner,
           \/ AckFails(p) \/ EndRunFails(p)
           \/ AckSteer(p) /\ consumed[p].msg \notin ToSet(loc[p].turn)
           \/ EndRun(p) /\ Restored(p) = <<>>
    PROVE  AloneInv' /\ StaysGone
<1>1. todo[p] = Idle /\ Idle.act = "none" /\ Kick.act = "kick" /\ DOMAIN todo = Owner
    BY DEF Inv, TypeInv, TypeOK, AckFails, EndRunFails, AckSteer, EndRun, Ready, Idle, Kick
<1>2. todo' = todo \/ todo' = [todo EXCEPT ![p] = Kick] \/ todo' = [todo EXCEPT ![p] = Idle]
    BY UnpublishedParts
<1>3. todo'[p].act # "restore"
    BY <1>1, <1>2
<1>4. QED BY <1>2, <1>3, UnpublishedParts, DropStep

-----------------------------------------------------------------------------
(* Publishing a snapshot.                                                  *)

\* The runtime p publishes q, i and t, which hold what the file held and the
\* new message, less what was dropped or taken in.
LEMMA PublishedStep ==
    ASSUME Inv, TypeOK', NEW p \in Owner, Live(p), NEW new,
           NEW q \in Seq(Msg), NEW i \in {NoMsg, loc[p].inf}, NEW t \in Seq(Msg), Persist(p, q, i, t),
           UNCHANGED <<disp, cmd, taken>>, disp[p] \notin {"claiming", "settling"},
           \A o \in Owner \ {p} : /\ steers'[o] = steers[o] /\ consumed'[o] = consumed[o]
                                  /\ todo'[o] = todo[o],
           Accepts(new), dropped \subseteq dropped', steered \subseteq steered',
           Distinct(q), Distinct(t), ToSet(q) \cap ToSet(t) = {}, ToSet(t) \subseteq steered',
           new \subseteq ToSet(q) \cup ToSet(t),
           ToSet(q) \cup ToSet(t) \subseteq ToSet(disk.queue) \cup ToSet(disk.turn) \cup new,
           \A m \in Stored : m \in ToSet(q) \cup ToSet(t) \cup {i} \cup dropped' \/ taken[m] > 0,
           Sorted(q, Ahead'),
           \A m \in Msg : excused[m] <= excused'[m],
           Steering(p)',
           \/ /\ consumed'[p] = consumed[p]
              /\ consumed[p].stage # "none" =>
                     consumed[p].msg \notin ToSet(q) \cup ToSet(steers'[p])
           \/ /\ consumed'[p] = NoneConsumed
              /\ consumed[p].stage = "delivered" =>
                     \/ consumed[p].msg \notin ToSet(q) \cup ToSet(t) \cup {i}
                     \/ taken[consumed[p].msg] <= excused'[consumed[p].msg]
    PROVE  AloneInv' /\ StaysGone
<1>0. /\ Runtime(p) /\ Once /\ Kept /\ Places /\ InOrder /\ TypeOK
      /\ Unsettled(p)' <=> Unsettled(p)
    BY Sole DEF Inv, AloneInv, TypeInv, Unsettled
<1>1. /\ disk'.queue = q /\ disk'.inflight = i /\ disk'.turn = t
      /\ Synced(p)' /\ life' = life
      /\ loc'[p].q = q /\ loc'[p].inf = i /\ loc'[p].turn = t
      /\ \A o \in Owner \ {p} : /\ loc'[o] = loc[o] /\ ownerInflight'[o] = ownerInflight[o]
                                /\ ownerTurn'[o] = ownerTurn[o]
    <2>1. i \in Msg \cup {NoMsg}
        BY <1>0, SnapshotsTyped
    <2>2. QED BY <2>1, PersistEffect
<1>2. disk.inflight = loc[p].inf
    BY <1>0 DEF Runtime, Shows
<1>3. /\ Distinct(accepted') /\ ToSet(accepted') = ToSet(accepted) \cup new
      /\ new \cap ToSet(accepted) = {}
      /\ \A x, y \in ToSet(accepted) : <<x, y>> \in Ahead => <<x, y>> \in Ahead'
      /\ \A x \in ToSet(accepted) : \A y \in new : <<x, y>> \in Ahead'
      /\ \A x, y \in Msg : x \in steered' \/ y \in steered' => <<x, y>> \in Ahead'
    BY <1>0, Growth DEF Places
<1>4. /\ ToSet(disk.queue) \subseteq Stored /\ ToSet(disk.turn) \subseteq Stored
      /\ Stored \subseteq ToSet(accepted) /\ ToSet(accepted) \subseteq Msg
      /\ disk.inflight \in Stored \cup {NoMsg}
      /\ disk.inflight \notin ToSet(disk.queue) \cup ToSet(disk.turn) \cup new
      /\ new \subseteq Msg /\ NoMsg \notin ToSet(accepted) \cup new
    <2>1. ToSet(accepted) \subseteq Msg /\ new \subseteq Msg
        BY <1>0, ElementIn DEF TypeOK, Accepts
    <2>2. ToSet(disk.queue) \subseteq Stored /\ ToSet(disk.turn) \subseteq Stored
          /\ disk.inflight \in Stored \cup {NoMsg}
        BY DEF Stored
    <2>3. QED BY <1>0, <1>3, <2>1, <2>2, NullsAssumption DEF Places
<1>5. Stored' = ToSet(q) \cup ToSet(t) \cup ({i} \ {NoMsg})
    BY <1>1 DEF Stored
<1>6. Stored' \subseteq Stored \cup new
    BY <1>2, <1>4, <1>5
<1>7. OthersKept(p)
    BY <1>1 DEF OthersKept
<1>8. Shows(p)'
    BY <1>1 DEF Shows
<1>9. Consuming(p)'
    <2>1. CASE consumed'[p] = consumed[p] /\ consumed[p].stage = "none"
        BY <1>0, <2>1 DEF Runtime, Consuming
    <2>2. CASE consumed'[p] = consumed[p] /\ consumed[p].stage # "none"
                 /\ consumed[p].msg \notin ToSet(q) \cup ToSet(steers'[p])
        <3>1. /\ consumed[p].msg \in ToSet(accepted) /\ consumed[p].msg # i
              /\ Unsettled(p) => consumed[p].msg # cmd[p]
            BY <1>0, <1>2, <1>4, <2>2 DEF Runtime, Consuming
        <3>2. QED BY <1>0, <1>1, <1>3, <2>2, <3>1 DEF Consuming
    <2>3. CASE consumed'[p] = NoneConsumed
        BY <2>3 DEF Consuming, NoneConsumed
    <2>4. QED BY <2>1, <2>2, <2>3
<1>10. Claiming(p)'
    <2>1. Unsettled(p) => /\ cmd[p] \in ToSet(accepted) /\ cmd[p] \notin ToSet(q) \cup ToSet(t)
                          /\ i \in {cmd[p], NoMsg}
        BY <1>0, <1>2, <1>3 DEF Runtime, Claiming
    <2>2. QED BY <1>0, <1>1, <1>3, <2>1 DEF Claiming
<1>11. \A x \in Msg : taken[x] \in Nat /\ excused[x] \in Nat /\ excused'[x] \in Nat
    BY <1>0, BoundsAssumption DEF TypeOK
<1>12. Counted(p)'
    <2>1. Unsettled(p)' => Unsettled(p) /\ cmd[p] \in Msg
        BY <1>0 DEF Unsettled, TypeOK
    <2>2. NoneConsumed.stage = "none"
        BY DEF NoneConsumed
    <2>3. consumed[p].stage # "none" => consumed[p].msg \in Msg
        BY <1>0, <1>4 DEF Runtime, Consuming
    <2>4. Unsettled(p)' => IF disp'[p] = "admitted" THEN taken'[cmd'[p]] > 0
                           ELSE taken'[cmd'[p]] <= excused'[cmd'[p]]
        BY <1>0, <1>11, <2>1 DEF Runtime, Counted
    <2>5. /\ consumed'[p].stage = "delivered" => taken'[consumed'[p].msg] > 0
          /\ consumed'[p].stage = "popped" => taken'[consumed'[p].msg] <= excused'[consumed'[p].msg]
        BY <1>0, <1>11, <2>2, <2>3 DEF Runtime, Counted
    <2>6. QED BY <2>4, <2>5 DEF Counted
<1>13. Recorded(p)'
    <2>1. ASSUME NEW x \in new PROVE taken'[x] <= excused'[x]
        BY <1>0, <1>3, <1>4, <1>11 DEF Once
    <2>2. ASSUME NEW x \in Stored, x \in Stored'
          PROVE  \/ taken'[x] <= excused'[x]
                 \/ disp'[p] = "admitted" /\ x = cmd'[p]
                 \/ consumed'[p].stage = "delivered" /\ x = consumed'[p].msg
        <3>1. x \in Msg
            BY <1>4, <2>2
        <3>2. taken[x] <= excused[x] => taken'[x] <= excused'[x]
            BY <1>11, <3>1
        <3>3. x \in ToSet(q) \cup ToSet(t) \cup {i}
            BY <1>5, <2>2
        <3>4. QED BY <1>0, <2>2, <3>2, <3>3 DEF Runtime, Recorded
    <2>3. QED BY <1>6, <2>1, <2>2 DEF Recorded
<1>14. Runtime(p)'
    BY <1>1, <1>8, <1>9, <1>10, <1>12, <1>13 DEF Runtime
<1>15. Places'
    <2>1. i \notin ToSet(q) \cup ToSet(t)
        BY <1>2, <1>4
    <2>2. Stored' \subseteq ToSet(accepted')
        BY <1>3, <1>4, <1>6
    <2>3. QED BY <1>1, <1>3, <2>1, <2>2 DEF Places
<1>16. InOrder'
    <2>1. ASSUME i # NoMsg, NEW m \in ToSet(q) PROVE <<i, m>> \in Ahead'
        <3>1. i = disk.inflight /\ i \in ToSet(accepted) /\ i \in Msg
            BY <1>2, <1>4, <2>1
        <3>2. CASE m \in ToSet(disk.queue)
            BY <1>0, <1>3, <1>4, <2>1, <3>1, <3>2 DEF InOrder
        <3>3. CASE m \in ToSet(disk.turn)
            BY <1>0, <1>3, <1>4, <3>1, <3>3 DEF Places
        <3>4. CASE m \in new
            BY <1>3, <3>1, <3>4
        <3>5. QED BY <3>2, <3>3, <3>4
    <2>2. QED BY <1>1, <2>1 DEF InOrder
<1>17. Once'
    <2>1. \A x \in Msg : taken[x] <= 1 + excused'[x]
        BY <1>0, <1>11 DEF Once
    <2>2. QED BY <1>0, <1>3, <2>1 DEF Once
<1>18. Kept'
    <2>1. ASSUME NEW m \in ToSet(accepted'), m \notin dropped' PROVE taken'[m] > 0 \/ m \in Stored'
        <3>1. CASE m \in new
            BY <1>5, <3>1
        <3>2. CASE m \in ToSet(accepted)
            <4>1. taken[m] > 0 \/ m \in Stored
                BY <1>0, <2>1, <3>2 DEF Kept
            <4>2. m # NoMsg
                BY <1>4, <3>2
            <4>3. QED BY <1>5, <2>1, <4>1, <4>2
        <3>3. QED BY <1>3, <2>1, <3>1, <3>2
    <2>2. QED BY <2>1 DEF Kept
<1>19. StaysGone
    BY <1>3, <1>6 DEF StaysGone
<1>20. QED BY <1>1, <1>7, <1>14, <1>15, <1>16, <1>17, <1>18, <1>19, LiveStep

\* The follow-ups in the file keep their order, and turn inputs have none.
LEMMA OrderKept ==
    ASSUME Inv, NEW new, Accepts(new), steered \subseteq steered'
    PROVE  /\ Sorted(disk.queue, Ahead') /\ Sorted(disk.turn, Ahead')
           /\ \A m \in new : \A x \in ToSet(disk.queue) : <<x, m>> \in Ahead'
           /\ \A x \in ToSet(disk.turn) : \A y \in Msg : <<x, y>> \in Ahead'
<1>0. Places /\ InOrder /\ TypeOK
    BY DEF Inv, AloneInv, TypeInv
<1>1. /\ ToSet(accepted') = ToSet(accepted) \cup new
      /\ new \cap ToSet(accepted) = {}
      /\ \A x, y \in ToSet(accepted) : <<x, y>> \in Ahead => <<x, y>> \in Ahead'
      /\ \A x \in ToSet(accepted) : \A y \in new : <<x, y>> \in Ahead'
      /\ \A x, y \in Msg : x \in steered' \/ y \in steered' => <<x, y>> \in Ahead'
    BY <1>0, Growth DEF Places
<1>2. disk.queue \in Seq(Msg) /\ disk.turn \in Seq(Msg)
    BY <1>0, FileParts
<1>3. ToSet(disk.queue) \subseteq ToSet(accepted) /\ ToSet(disk.turn) \subseteq steered
      /\ ToSet(disk.queue) \subseteq Msg /\ ToSet(disk.turn) \subseteq Msg
    BY <1>0, <1>2, ElementIn DEF Places, Stored
<1>4. Sorted(disk.queue, Ahead')
    <2>1. Sorted(disk.queue, Ahead)
        BY <1>0 DEF InOrder
    <2>2. \A x, y \in ToSet(disk.queue) : <<x, y>> \in Ahead => <<x, y>> \in Ahead'
        BY <1>1, <1>3
    <2> DEFINE s == disk.queue
               R == Ahead
               Q == Ahead'
    <2>3. s \in Seq(Msg) /\ Sorted(s, R) /\ \A x, y \in ToSet(s) : <<x, y>> \in R => <<x, y>> \in Q
        BY <1>2, <2>1, <2>2
    <2> HIDE DEF s, R, Q
    <2>4. Sorted(s, Q)
        BY <2>3, SortedWider
    <2>5. QED BY <2>4 DEF s, Q
<1>5. Sorted(disk.turn, Ahead')
    BY <1>1, <1>3 DEF Sorted, ToSet
<1>6. QED BY <1>1, <1>3, <1>4, <1>5

LEMMA PublishedTurn ==
    ASSUME Inv, NEW p \in Owner, Live(p), NEW q \in Seq(Msg), NEW i \in {NoMsg, loc[p].inf},
           NEW t \in Seq(Msg), Persist(p, q, i, t)
    PROVE  disk'.turn = t
<1>1. i \in Msg \cup {NoMsg}
    BY SnapshotsTyped DEF Inv, TypeInv
<1>2. QED BY <1>1, PersistEffect

\* What a runtime between two calls may rely on.
LEMMA Between ==
    ASSUME Inv, NEW p \in Owner, Live(p), disp[p] \notin {"claiming", "settling"}
    PROVE  /\ loc[p].q = disk.queue /\ loc[p].inf = disk.inflight /\ loc[p].turn = disk.turn
           /\ disk.queue \in Seq(Msg) /\ Distinct(disk.queue) /\ ToSet(disk.queue) \subseteq ToSet(accepted)
           /\ disk.turn \in Seq(Msg) /\ Distinct(disk.turn) /\ ToSet(disk.turn) \subseteq ToSet(accepted)
           /\ ToSet(disk.turn) \subseteq steered /\ ToSet(disk.queue) \cap ToSet(disk.turn) = {}
           /\ ToSet(accepted) \subseteq Msg
           /\ Stored = ToSet(disk.queue) \cup ToSet(disk.turn) \cup ({disk.inflight} \ {NoMsg})
           /\ steers[p] \in Seq(Msg) /\ Distinct(steers[p]) /\ ToSet(steers[p]) \subseteq ToSet(disk.turn)
           /\ consumed[p].stage # "none" =>
                 consumed[p].msg \in ToSet(accepted) \ (ToSet(steers[p]) \cup ToSet(disk.queue)
                                                        \cup {disk.inflight})
           /\ Restored(p) = disk.turn
           /\ \A m \in Msg : taken[m] \in Nat /\ excused[m] \in Nat /\ excused[m] <= excused[m]
<1>1. Runtime(p) /\ Places /\ TypeOK
    BY Sole DEF Inv, AloneInv, TypeInv
<1>2. loc[p].q = disk.queue /\ loc[p].inf = disk.inflight /\ loc[p].turn = disk.turn
    BY <1>1 DEF Runtime, Shows
<1>3. disk.queue \in Seq(Msg) /\ disk.turn \in Seq(Msg) /\ steers[p] \in Seq(Msg)
      /\ ToSet(accepted) \subseteq Msg
    <2>1. ToSet(accepted) \subseteq Msg
        BY <1>1, ElementIn DEF TypeOK
    <2>2. QED BY <1>1, <2>1, FileParts, SnapshotsTyped
<1>4. Restored(p) = disk.turn
    <2> DEFINE s == steers[p]
               t == disk.turn
               S == Msg \ ToSet(t)
    <2>1. s \in Seq(Msg) /\ t \in Seq(Msg) /\ ToSet(s) \cap S = {}
        BY <1>1, <1>3 DEF Runtime, Steering
    <2>2. Restored(p) = t \o Only(s, S)
        BY <1>2 DEF Restored
    <2> HIDE DEF s, t, S
    <2>3. Only(s, S) \in Seq(Msg) /\ ToSet(Only(s, S)) = {}
        BY <2>1, OnlyParts
    <2> DEFINE r == Only(s, S)
    <2> HIDE DEF r
    <2>4. r = <<>>
        BY <2>3, ElementIn DEF r
    <2>5. t \o r = t
        BY <2>1, <2>4
    <2>6. QED BY <2>2, <2>5 DEF r, t
<1>5. \A m \in Msg : taken[m] \in Nat /\ excused[m] \in Nat /\ excused[m] <= excused[m]
    BY <1>1, BoundsAssumption DEF TypeOK
<1>6. QED BY <1>1, <1>2, <1>3, <1>4, <1>5 DEF Runtime, Steering, Consuming, Places, Stored

LEMMA SubmitStep ==
    ASSUME Inv, TypeOK', NEW p \in Owner, NEW m \in Msg, Submit(p, m)
    PROVE  AloneInv' /\ StaysGone
<1> DEFINE queue == disk.queue
           q == Append(queue, m)
<1>0. Live(p) /\ disp[p] \notin {"claiming", "settling"} /\ todo[p] = Idle /\ m \notin ToSet(accepted)
    BY DEF Submit, Ready, Live, Fresh
<1>1. queue \in Seq(Msg) /\ Distinct(queue)
    BY <1>0, Between
<1>2. /\ UNCHANGED <<steers, consumed, disp, cmd, todo, taken, excused, dropped, steered>>
      /\ Accepts({m}) /\ Persist(p, q, loc[p].inf, disk.turn)
    BY <1>0, Between DEF Submit, Accepts
<1>3. Sorted(queue, Ahead') /\ \A x \in ToSet(queue) : <<x, m>> \in Ahead'
    BY <1>2, OrderKept
<1>4. m \notin ToSet(queue)
    BY <1>0, Between
<1>5. q \in Seq(Msg) /\ ToSet(q) = ToSet(queue) \cup {m} /\ Distinct(q) /\ Sorted(q, Ahead')
    <2> DEFINE R == Ahead'
    <2> HIDE DEF queue, R
    <2>1. Append(queue, m) \in Seq(Msg) /\ ToSet(Append(queue, m)) = ToSet(queue) \cup {m}
          /\ Distinct(Append(queue, m))
        BY <1>1, <1>4, AppendSet, DistinctAppend
    <2>2. Sorted(queue, R) /\ \A x \in ToSet(queue) : <<x, m>> \in R
        BY <1>3 DEF R
    <2>3. Sorted(Append(queue, m), R)
        BY <1>1, <2>2, SortedAppend
    <2>4. QED BY <2>1, <2>3 DEF R
<1> HIDE DEF q
<1>6. Steering(p)'
    <2>1. disk'.turn = disk.turn
        <3>1. disk.turn \in Seq(Msg)
            BY <1>0, Between
        <3>2. QED BY <1>0, <1>2, <1>5, <3>1, PublishedTurn
    <2>2. Steering(p)
        BY <1>0, Sole DEF Runtime
    <2>3. QED BY <1>2, <2>1, <2>2 DEF Steering
<1>7. consumed[p].stage # "none" => consumed[p].msg \notin ToSet(q) \cup ToSet(steers'[p])
    BY <1>0, <1>2, <1>5, Between
<1>8. /\ ToSet(q) \cap ToSet(disk.turn) = {} /\ ToSet(disk.turn) \subseteq steered'
      /\ ToSet(q) \cup ToSet(disk.turn) \subseteq ToSet(disk.queue) \cup ToSet(disk.turn) \cup {m}
      /\ \A x \in Stored : x \in ToSet(q) \cup ToSet(disk.turn) \cup {loc[p].inf} \cup dropped'
      /\ \A x \in Msg : excused[x] <= excused'[x]
      /\ Distinct(disk.turn) /\ disk.turn \in Seq(Msg)
    BY <1>0, <1>2, <1>5, Between
<1>9. QED BY <1>0, <1>2, <1>5, <1>6, <1>7, <1>8, PublishedStep

LEMMA SubmitSteerStep ==
    ASSUME Inv, TypeOK', NEW p \in Owner, NEW m \in Msg, SubmitSteer(p, m)
    PROVE  AloneInv' /\ StaysGone
<1> DEFINE turn == disk.turn
           t == Append(turn, m)
           s == steers[p]
<1>0. Live(p) /\ disp[p] \notin {"claiming", "settling"} /\ todo[p] = Idle /\ m \notin ToSet(accepted)
      /\ Idle.act = "none" /\ TypeOK
    BY DEF SubmitSteer, Ready, Live, Fresh, Idle, Inv, TypeInv
<1>1. turn \in Seq(Msg) /\ Distinct(turn) /\ s \in Seq(Msg) /\ Distinct(s) /\ ToSet(s) \subseteq ToSet(turn)
    BY <1>0, Between
<1>2. /\ UNCHANGED <<consumed, disp, cmd, todo, taken, excused, dropped>>
      /\ Accepts({m}) /\ Persist(p, disk.queue, loc[p].inf, t)
      /\ steered' = steered \cup {m} /\ steers' = [steers EXCEPT ![p] = Append(s, m)]
    BY <1>0, Between DEF SubmitSteer, Accepts
<1>3. steers'[p] = Append(s, m) /\ \A o \in Owner \ {p} : steers'[o] = steers[o]
    BY <1>0, <1>2 DEF TypeOK
<1>4. m \notin ToSet(turn)
    BY <1>0, Between
<1>5. /\ t \in Seq(Msg) /\ ToSet(t) = ToSet(turn) \cup {m} /\ Distinct(t)
      /\ ToSet(Append(s, m)) = ToSet(s) \cup {m} /\ Distinct(Append(s, m))
    <2> HIDE DEF turn, s
    <2>1. QED BY <1>1, <1>4, AppendSet, DistinctAppend
<1>6. Sorted(disk.queue, Ahead')
    BY <1>2, OrderKept
<1> HIDE DEF t
<1>7. Steering(p)'
    <2>1. disk'.turn = t
        <3>1. disk.queue \in Seq(Msg)
            BY <1>0, Between
        <3>2. QED BY <1>0, <1>2, <1>5, <3>1, PublishedTurn
    <2>2. QED BY <1>0, <1>1, <1>2, <1>3, <1>5, <2>1 DEF Steering
<1>8. consumed[p].stage # "none" => consumed[p].msg \notin ToSet(disk.queue) \cup ToSet(steers'[p])
    BY <1>0, <1>3, <1>5, Between
<1>9. /\ ToSet(disk.queue) \cap ToSet(t) = {} /\ ToSet(t) \subseteq steered'
      /\ ToSet(disk.queue) \cup ToSet(t) \subseteq ToSet(disk.queue) \cup ToSet(disk.turn) \cup {m}
      /\ \A x \in Stored : x \in ToSet(disk.queue) \cup ToSet(t) \cup {loc[p].inf} \cup dropped'
      /\ \A x \in Msg : excused[x] <= excused'[x]
      /\ Distinct(disk.queue) /\ disk.queue \in Seq(Msg)
    BY <1>0, <1>2, <1>5, Between
<1>10. QED BY <1>0, <1>2, <1>3, <1>5, <1>6, <1>7, <1>8, <1>9, PublishedStep

LEMMA WithoutParts ==
    ASSUME NEW s \in Seq(Msg), NEW m, Distinct(s)
    PROVE  /\ Without(s, m) \in Seq(Msg) /\ ToSet(Without(s, m)) = ToSet(s) \ {m}
           /\ Distinct(Without(s, m)) /\ \A R : Sorted(s, R) => Sorted(Without(s, m), R)
BY OnlyParts DEF Without

LEMMA CancelStep ==
    ASSUME Inv, TypeOK', NEW p \in Owner, NEW m \in Msg, Cancel(p, m)
    PROVE  AloneInv' /\ StaysGone
<1> DEFINE q == Without(disk.queue, m)
<1>0. Live(p) /\ disp[p] \notin {"claiming", "settling"} /\ todo[p] = Idle
    BY DEF Cancel, Ready, Live
<1>1. disk.queue \in Seq(Msg) /\ Distinct(disk.queue) /\ disk.turn \in Seq(Msg) /\ Distinct(disk.turn)
    BY <1>0, Between
<1>2. /\ UNCHANGED <<steers, consumed, disp, cmd, todo, taken, excused, accepted, steered>>
      /\ Accepts({}) /\ Persist(p, q, loc[p].inf, disk.turn) /\ dropped' = dropped \cup {m}
    BY <1>0, Between DEF Cancel, Accepts
<1>3. Sorted(disk.queue, Ahead')
    BY <1>2, OrderKept
<1>4. /\ q \in Seq(Msg) /\ ToSet(q) = ToSet(disk.queue) \ {m} /\ Distinct(q)
      /\ Sorted(disk.queue, Ahead') => Sorted(q, Ahead')
    BY <1>1, WithoutParts
<1> HIDE DEF q
<1>6. Steering(p)'
    <2>1. disk'.turn = disk.turn
        BY <1>0, <1>1, <1>2, <1>4, PublishedTurn
    <2>2. Steering(p)
        BY <1>0, Sole DEF Runtime
    <2>3. QED BY <1>2, <2>1, <2>2 DEF Steering
<1>7. consumed[p].stage # "none" => consumed[p].msg \notin ToSet(q) \cup ToSet(steers'[p])
    BY <1>0, <1>2, <1>4, Between
<1>8. /\ ToSet(q) \cap ToSet(disk.turn) = {} /\ ToSet(disk.turn) \subseteq steered'
      /\ ToSet(q) \cup ToSet(disk.turn) \subseteq ToSet(disk.queue) \cup ToSet(disk.turn) \cup {}
      /\ \A x \in Stored : x \in ToSet(q) \cup ToSet(disk.turn) \cup {loc[p].inf} \cup dropped'
      /\ \A x \in Msg : excused[x] <= excused'[x]
    BY <1>0, <1>2, <1>4, Between
<1>9. QED BY <1>0, <1>1, <1>2, <1>3, <1>4, <1>6, <1>7, <1>8, PublishedStep

LEMMA SteerQueuedStep ==
    ASSUME Inv, TypeOK', NEW p \in Owner, NEW m \in Msg, SteerQueued(p, m)
    PROVE  AloneInv' /\ StaysGone
<1> DEFINE q == Without(disk.queue, m)
           turn == disk.turn
           t == Append(turn, m)
           s == steers[p]
           restore == [act |-> "restore", msg |-> m]
<1>0. Live(p) /\ disp[p] \notin {"claiming", "settling"} /\ todo[p] = Idle
      /\ Idle.act = "none" /\ TypeOK /\ restore.msg = m
    BY DEF SteerQueued, Ready, Live, Idle, Inv, TypeInv
<1>1. /\ disk.queue \in Seq(Msg) /\ Distinct(disk.queue)
      /\ turn \in Seq(Msg) /\ Distinct(turn) /\ s \in Seq(Msg) /\ Distinct(s)
      /\ ToSet(s) \subseteq ToSet(turn)
    BY <1>0, Between
<1>2. /\ UNCHANGED <<consumed, disp, cmd, taken, excused, accepted, dropped>>
      /\ Accepts({}) /\ Persist(p, q, loc[p].inf, t) /\ m \in ToSet(disk.queue)
      /\ steered' = steered \cup {m}
      /\ \/ steers' = [steers EXCEPT ![p] = Append(s, m)] /\ todo' = todo
         \/ steers' = steers /\ todo' = [todo EXCEPT ![p] = restore]
    BY <1>0, Between DEF SteerQueued, Accepts
<1> HIDE DEF restore
<1>3. /\ \A o \in Owner \ {p} : steers'[o] = steers[o] /\ todo'[o] = todo[o]
      /\ \/ steers'[p] = Append(s, m) /\ todo'[p] = Idle
         \/ steers'[p] = s /\ todo'[p] = restore
    BY <1>0, <1>2, SMTT(30) DEF TypeOK
<1>4. m \notin ToSet(turn)
    BY <1>0, <1>2, Between
<1>5. /\ t \in Seq(Msg) /\ ToSet(t) = ToSet(turn) \cup {m} /\ Distinct(t)
      /\ ToSet(Append(s, m)) = ToSet(s) \cup {m} /\ Distinct(Append(s, m))
    <2> HIDE DEF turn, s
    <2>1. QED BY <1>1, <1>4, AppendSet, DistinctAppend
<1>6. Sorted(disk.queue, Ahead')
    BY <1>2, OrderKept
<1>7. /\ q \in Seq(Msg) /\ ToSet(q) = ToSet(disk.queue) \ {m} /\ Distinct(q)
      /\ Sorted(disk.queue, Ahead') => Sorted(q, Ahead')
    BY <1>1, WithoutParts
<1> HIDE DEF t, q
<1>8. Steering(p)'
    <2>1. disk'.turn = t
        BY <1>0, <1>2, <1>5, <1>7, PublishedTurn
    <2>2. CASE steers'[p] = Append(s, m) /\ todo'[p] = Idle
        BY <1>0, <1>1, <1>5, <2>1, <2>2 DEF Steering
    <2>3. CASE steers'[p] = s /\ todo'[p] = restore
        <3>1. m # consumed'[p].msg
            <4>1. consumed[p].stage = "none" => consumed[p].msg = NoMsg
                BY <1>0, Sole DEF Runtime, Consuming
            <4>2. QED BY <1>0, <1>2, <4>1, Between, NullsAssumption
        <3>2. m \notin ToSet(s)
            BY <1>1, <1>4
        <3>3. QED BY <1>0, <1>1, <1>5, <2>1, <2>3, <3>1, <3>2 DEF Steering
    <2>4. QED BY <1>3, <2>2, <2>3
<1>9. consumed[p].stage # "none" => consumed[p].msg \notin ToSet(q) \cup ToSet(steers'[p])
    BY <1>0, <1>2, <1>3, <1>5, <1>7, Between, ZenonT(60)
<1>10. /\ ToSet(q) \cap ToSet(t) = {} /\ ToSet(t) \subseteq steered'
       /\ ToSet(q) \cup ToSet(t) \subseteq ToSet(disk.queue) \cup ToSet(disk.turn) \cup {}
       /\ \A x \in Stored : x \in ToSet(q) \cup ToSet(t) \cup {loc[p].inf} \cup dropped'
       /\ \A x \in Msg : excused[x] <= excused'[x]
    BY <1>0, <1>2, <1>5, <1>7, Between
<1>11. \A o \in Owner \ {p} : /\ steers'[o] = steers[o] /\ consumed'[o] = consumed[o]
                              /\ todo'[o] = todo[o]
    BY <1>2, <1>3
<1>12. consumed'[p] = consumed[p] /\ loc[p].inf \in {NoMsg, loc[p].inf} /\ dropped \subseteq dropped'
       /\ steered \subseteq steered' /\ {} \subseteq ToSet(q) \cup ToSet(t)
    BY <1>2
<1>13. UNCHANGED <<disp, cmd, taken>>
    BY <1>2
<1>14. QED BY <1>0, <1>2, <1>5, <1>6, <1>7, <1>8, <1>9, <1>10, <1>11, <1>12, <1>13, PublishedStep

LEMMA RestoreStep ==
    ASSUME Inv, TypeOK', NEW p \in Owner, RestoreAsFollowUp(p)
    PROVE  AloneInv' /\ StaysGone
<1> DEFINE m == todo[p].msg
           queue == disk.queue
           q == <<m>> \o queue
           t == Without(disk.turn, m)
<1>0. Live(p) /\ disp[p] \notin {"claiming", "settling"} /\ Idle.act = "none" /\ TypeOK
      /\ Runtime(p) /\ todo[p].act = "restore"
    BY Sole DEF RestoreAsFollowUp, Live, Idle, Inv, TypeInv, FenceInv, OneCall
<1>1. /\ queue \in Seq(Msg) /\ Distinct(queue) /\ disk.turn \in Seq(Msg) /\ Distinct(disk.turn)
      /\ m \in ToSet(disk.turn) \ ToSet(steers[p]) /\ m # consumed[p].msg /\ m \in Msg
      /\ m \notin ToSet(queue)
    BY <1>0, Between DEF Runtime, Steering
<1>2. /\ UNCHANGED <<steers, consumed, disp, cmd, taken, excused, accepted, steered, dropped>>
      /\ Accepts({}) /\ Persist(p, q, loc[p].inf, t) /\ todo' = [todo EXCEPT ![p] = Idle]
    BY <1>0, Between DEF RestoreAsFollowUp, Accepts, ghostVars
<1>3. Sorted(queue, Ahead') /\ \A x \in ToSet(disk.turn) : \A y \in Msg : <<x, y>> \in Ahead'
    BY <1>2, OrderKept
<1>4. /\ t \in Seq(Msg) /\ ToSet(t) = ToSet(disk.turn) \ {m} /\ Distinct(t)
    BY <1>1, WithoutParts
<1>5. ToSet(queue) \subseteq Msg
    BY <1>1, ElementIn
<1>6. q \in Seq(Msg) /\ ToSet(q) = ToSet(queue) \cup {m} /\ Distinct(q) /\ Sorted(q, Ahead')
    <2> DEFINE R == Ahead'
    <2>1. Sorted(queue, R) /\ \A y \in ToSet(queue) : <<m, y>> \in R
        BY <1>1, <1>3, <1>5
    <2> HIDE DEF m, queue, R
    <2>2. <<m>> \in Seq(Msg) /\ Distinct(<<m>>) /\ ToSet(<<m>>) = {m} /\ Sorted(<<m>>, R)
        BY <1>1, SortedOne
    <2>3. <<m>> \o queue \in Seq(Msg) /\ ToSet(<<m>> \o queue) = ToSet(queue) \cup {m}
        <3>1. <<m>> \o queue \in Seq(Msg)
            BY <1>1, <2>2
        <3>2. ToSet(<<m>> \o queue) = ToSet(<<m>>) \cup ToSet(queue)
            BY <1>1, <2>2, JoinSet, ZenonT(60)
        <3>3. QED BY <2>2, <3>1, <3>2
    <2>4. Distinct(<<m>> \o queue)
        BY <1>1, <2>2, DistinctJoin
    <2>5. Sorted(<<m>> \o queue, R)
        BY <1>1, <2>1, <2>2, SortedJoin
    <2>6. QED BY <2>3, <2>4, <2>5 DEF R
<1> HIDE DEF q, t, m
<1>7. todo'[p] = Idle /\ \A o \in Owner \ {p} : todo'[o] = todo[o]
    BY <1>0, <1>2 DEF TypeOK
<1>8. Steering(p)'
    <2>1. disk'.turn = t
        BY <1>0, <1>2, <1>4, <1>6, PublishedTurn
    <2>2. QED BY <1>0, <1>1, <1>2, <1>4, <1>7, <2>1 DEF Steering, Runtime
<1>9. consumed[p].stage # "none" => consumed[p].msg \notin ToSet(q) \cup ToSet(steers'[p])
    BY <1>0, <1>1, <1>2, <1>6, Between
<1>10. /\ ToSet(q) \cap ToSet(t) = {} /\ ToSet(t) \subseteq steered'
       /\ ToSet(q) \cup ToSet(t) \subseteq ToSet(disk.queue) \cup ToSet(disk.turn) \cup {}
       /\ \A x \in Stored : x \in ToSet(q) \cup ToSet(t) \cup {loc[p].inf} \cup dropped'
       /\ \A x \in Msg : excused[x] <= excused'[x]
    BY <1>0, <1>1, <1>2, <1>4, <1>6, Between
<1>11. \A o \in Owner \ {p} : /\ steers'[o] = steers[o] /\ consumed'[o] = consumed[o]
                              /\ todo'[o] = todo[o]
    BY <1>2, <1>7
<1>12. consumed'[p] = consumed[p] /\ loc[p].inf \in {NoMsg, loc[p].inf} /\ dropped \subseteq dropped'
       /\ steered \subseteq steered' /\ {} \subseteq ToSet(q) \cup ToSet(t)
    BY <1>2
<1>13. UNCHANGED <<disp, cmd, taken>>
    BY <1>2
<1>14. QED BY <1>0, <1>2, <1>4, <1>6, <1>8, <1>9, <1>10, <1>11, <1>12, <1>13, PublishedStep

LEMMA AckStep ==
    ASSUME Inv, TypeOK', NEW p \in Owner, AckSteer(p), consumed[p].msg \in ToSet(loc[p].turn)
    PROVE  AloneInv' /\ StaysGone
<1> DEFINE m == consumed[p].msg
           t == Without(disk.turn, m)
<1>0. Live(p) /\ disp[p] \notin {"claiming", "settling"} /\ Idle.act = "none" /\ TypeOK
      /\ Runtime(p) /\ todo[p] = Idle /\ consumed[p].stage = "delivered"
      /\ NoneConsumed.stage = "none"
    BY Sole DEF AckSteer, Ready, Live, Idle, NoneConsumed, Inv, TypeInv
<1>1. /\ disk.queue \in Seq(Msg) /\ Distinct(disk.queue)
      /\ disk.turn \in Seq(Msg) /\ Distinct(disk.turn)
      /\ m \in ToSet(disk.turn) \ (ToSet(steers[p]) \cup ToSet(disk.queue) \cup {disk.inflight})
      /\ taken[m] > 0
    BY <1>0, Between DEF Runtime, Counted
<1>2. /\ UNCHANGED <<steers, todo, disp, cmd, taken, excused, accepted, steered, dropped>>
      /\ Accepts({}) /\ Persist(p, disk.queue, loc[p].inf, t)
      /\ consumed' = [consumed EXCEPT ![p] = NoneConsumed]
    BY <1>0, Between DEF AckSteer, Accepts, ghostVars
<1>3. Sorted(disk.queue, Ahead')
    BY <1>2, OrderKept
<1>4. /\ t \in Seq(Msg) /\ ToSet(t) = ToSet(disk.turn) \ {m} /\ Distinct(t)
    BY <1>1, WithoutParts
<1> HIDE DEF t, m
<1>5. consumed'[p] = NoneConsumed /\ \A o \in Owner \ {p} : consumed'[o] = consumed[o]
    BY <1>0, <1>2 DEF TypeOK
<1>6. Steering(p)'
    <2>1. disk'.turn = t
        BY <1>0, <1>1, <1>2, <1>4, PublishedTurn
    <2>2. QED BY <1>0, <1>1, <1>2, <1>4, <2>1 DEF Steering, Runtime
<1>7. m \notin ToSet(disk.queue) \cup ToSet(t) \cup {loc[p].inf}
    BY <1>0, <1>1, <1>4, Between
<1>8. /\ ToSet(disk.queue) \cap ToSet(t) = {} /\ ToSet(t) \subseteq steered'
      /\ ToSet(disk.queue) \cup ToSet(t) \subseteq ToSet(disk.queue) \cup ToSet(disk.turn) \cup {}
      /\ \A x \in Stored : x \in ToSet(disk.queue) \cup ToSet(t) \cup {loc[p].inf} \cup dropped'
                           \/ taken[x] > 0
      /\ \A x \in Msg : excused[x] <= excused'[x]
    BY <1>0, <1>1, <1>2, <1>4, Between
<1>9. \A o \in Owner \ {p} : /\ steers'[o] = steers[o] /\ consumed'[o] = consumed[o]
                             /\ todo'[o] = todo[o]
    BY <1>2, <1>5
<1>10. loc[p].inf \in {NoMsg, loc[p].inf} /\ dropped \subseteq dropped'
       /\ steered \subseteq steered' /\ {} \subseteq ToSet(disk.queue) \cup ToSet(t)
    BY <1>2
<1>11. UNCHANGED <<disp, cmd, taken>>
    BY <1>2
<1>12. /\ consumed'[p] = NoneConsumed
       /\ consumed[p].stage = "delivered" =>
              consumed[p].msg \notin ToSet(disk.queue) \cup ToSet(t) \cup {loc[p].inf}
    BY <1>5, <1>7 DEF m
<1>13. QED BY <1>0, <1>1, <1>2, <1>3, <1>4, <1>6, <1>8, <1>9, <1>10, <1>11, <1>12, PublishedStep

LEMMA EndRunStep ==
    ASSUME Inv, TypeOK', NEW p \in Owner, EndRun(p), Restored(p) # <<>>
    PROVE  AloneInv' /\ StaysGone
<1> DEFINE queue == disk.queue
           turn == disk.turn
           q == turn \o queue
           m == consumed[p].msg
<1>0. Live(p) /\ disp[p] \notin {"claiming", "settling"} /\ TypeOK /\ Once
      /\ Runtime(p) /\ todo[p] = Idle /\ Idle.act = "none" /\ Kick.act = "kick"
    BY Sole DEF EndRun, Ready, Live, Idle, Kick, Inv, AloneInv, TypeInv
<1>1. /\ queue \in Seq(Msg) /\ Distinct(queue) /\ turn \in Seq(Msg) /\ Distinct(turn)
      /\ ToSet(turn) \cap ToSet(queue) = {}
    BY <1>0, Between
<1>2. /\ UNCHANGED <<disp, cmd, taken, accepted, steered, dropped>>
      /\ Accepts({}) /\ Persist(p, q, loc[p].inf, <<>>)
      /\ consumed' = [consumed EXCEPT ![p] = NoneConsumed]
      /\ steers' = [steers EXCEPT ![p] = <<>>]
      /\ Excuse(IF consumed[p].stage = "delivered" THEN {m} ELSE {})
    BY <1>0, Between DEF EndRun, Accepts
<1>3. todo' = [todo EXCEPT ![p] = Kick] \/ todo' = [todo EXCEPT ![p] = Idle]
    BY DEF EndRun
<1>4. /\ steers'[p] = <<>> /\ consumed'[p] = NoneConsumed /\ todo'[p] \in {Kick, Idle}
      /\ \A o \in Owner \ {p} : /\ steers'[o] = steers[o] /\ consumed'[o] = consumed[o]
                                /\ todo'[o] = todo[o]
    <2>1. DOMAIN consumed = Owner /\ DOMAIN steers = Owner /\ DOMAIN todo = Owner
        BY <1>0 DEF TypeOK
    <2>2. steers'[p] = <<>> /\ \A o \in Owner \ {p} : steers'[o] = steers[o]
        BY <1>2, <2>1
    <2>3. consumed'[p] = NoneConsumed /\ \A o \in Owner \ {p} : consumed'[o] = consumed[o]
        BY <1>2, <2>1
    <2>4. todo'[p] \in {Kick, Idle} /\ \A o \in Owner \ {p} : todo'[o] = todo[o]
        BY <1>3, <2>1
    <2>5. QED BY <2>2, <2>3, <2>4
<1>5. /\ Sorted(queue, Ahead') /\ Sorted(turn, Ahead')
      /\ \A x \in ToSet(turn) : \A y \in Msg : <<x, y>> \in Ahead'
    BY <1>2, OrderKept
<1>6. q \in Seq(Msg) /\ ToSet(q) = ToSet(queue) \cup ToSet(turn) /\ Distinct(q) /\ Sorted(q, Ahead')
    <2> DEFINE R == Ahead'
    <2>1. Sorted(queue, R) /\ Sorted(turn, R)
          /\ \A x \in ToSet(turn) : \A y \in ToSet(queue) : <<x, y>> \in R
        BY <1>1, <1>5, ElementIn
    <2> HIDE DEF turn, queue, R
    <2>2. turn \o queue \in Seq(Msg)
        BY <1>1
    <2>3. ToSet(turn \o queue) = ToSet(turn) \cup ToSet(queue)
        BY <1>1, JoinSet
    <2>4. Distinct(turn \o queue)
        BY <1>1, DistinctJoin
    <2>5. Sorted(turn \o queue, R)
        BY <1>1, <2>1, SortedJoin
    <2>6. QED BY <2>2, <2>3, <2>4, <2>5 DEF R
<1>7. <<>> \in Seq(Msg) /\ Distinct(<<>>) /\ ToSet(<<>>) = {}
    BY SortedEmpty DEF ToSet
<1> HIDE DEF q, m
<1>8. Steering(p)'
    BY <1>0, <1>4, <1>7 DEF Steering
<1>9. \A x \in Msg : excused[x] \in Nat /\ excused'[x] \in Nat /\ excused[x] <= excused'[x]
    <2>1. \A x \in Msg : excused[x] \in Nat /\ excused'[x] \in Nat
        BY <1>0 DEF TypeOK
    <2>2. QED BY <1>2, <2>1 DEF Excuse
<1>10. consumed[p].stage = "delivered" => taken[m] <= excused'[m]
    <2>1. SUFFICES ASSUME consumed[p].stage = "delivered" PROVE taken[m] <= excused'[m]
        OBVIOUS
    <2>2. m \in Msg
        BY <1>0, <2>1, Between DEF m
    <2>3. excused'[m] = excused[m] + 1 /\ taken[m] <= 1 + excused[m]
        BY <1>0, <1>2, <2>1, <2>2 DEF Excuse, Once
    <2>4. QED BY <1>0, <2>2, <2>3, Between
<1>11. /\ ToSet(q) \cap ToSet(<<>>) = {} /\ ToSet(<<>>) \subseteq steered'
       /\ ToSet(q) \cup ToSet(<<>>) \subseteq ToSet(disk.queue) \cup ToSet(disk.turn) \cup {}
       /\ \A x \in Stored : x \in ToSet(q) \cup ToSet(<<>>) \cup {loc[p].inf} \cup dropped'
       /\ {} \subseteq ToSet(q) \cup ToSet(<<>>)
    BY <1>0, <1>2, <1>6, <1>7, Between
<1>12. /\ consumed'[p] = NoneConsumed
       /\ consumed[p].stage = "delivered" => taken[consumed[p].msg] <= excused'[consumed[p].msg]
    BY <1>4, <1>10 DEF m
<1>13. UNCHANGED <<disp, cmd, taken>> /\ dropped \subseteq dropped' /\ steered \subseteq steered'
       /\ loc[p].inf \in {NoMsg, loc[p].inf}
    BY <1>2
<1>14. QED BY <1>0, <1>2, <1>4, <1>6, <1>7, <1>8, <1>9, <1>11, <1>12, <1>13, PublishedStep

LEMMA ClearStep ==
    ASSUME Inv, TypeOK', NEW p \in Owner, Clear(p)
    PROVE  AloneInv' /\ StaysGone
<1>0. Live(p) /\ disp[p] \notin {"claiming", "settling"} /\ TypeOK
      /\ Runtime(p) /\ todo[p] = Idle /\ Idle.act = "none"
    BY Sole DEF Clear, Ready, Live, Idle, Inv, TypeInv
<1>1. /\ UNCHANGED <<disp, cmd, taken, todo, consumed, excused, accepted, steered>>
      /\ Accepts({}) /\ Persist(p, <<>>, NoMsg, <<>>) /\ dropped' = dropped \cup Held(p)
      /\ steers' = [steers EXCEPT ![p] = <<>>]
    BY DEF Clear, Accepts
<1>2. steers'[p] = <<>> /\ \A o \in Owner \ {p} : steers'[o] = steers[o]
    BY <1>0, <1>1 DEF TypeOK
<1>3. <<>> \in Seq(Msg) /\ Distinct(<<>>) /\ ToSet(<<>>) = {} /\ Sorted(<<>>, Ahead')
    BY SortedEmpty DEF ToSet
<1>4. Steering(p)'
    BY <1>0, <1>1, <1>2, <1>3 DEF Steering
<1>5. Held(p) = Stored
    BY <1>0, Between DEF Held
<1>6. /\ consumed'[p] = consumed[p]
      /\ consumed[p].stage # "none" => consumed[p].msg \notin ToSet(<<>>) \cup ToSet(steers'[p])
    BY <1>1, <1>2, <1>3
<1>7. /\ ToSet(<<>>) \cap ToSet(<<>>) = {} /\ ToSet(<<>>) \subseteq steered'
      /\ ToSet(<<>>) \cup ToSet(<<>>) \subseteq ToSet(disk.queue) \cup ToSet(disk.turn) \cup {}
      /\ \A x \in Stored : x \in ToSet(<<>>) \cup ToSet(<<>>) \cup {NoMsg} \cup dropped'
      /\ {} \subseteq ToSet(<<>>) \cup ToSet(<<>>)
      /\ \A x \in Msg : excused[x] <= excused'[x]
    BY <1>0, <1>1, <1>3, <1>5, Between
<1>8. /\ UNCHANGED <<disp, cmd, taken>> /\ dropped \subseteq dropped' /\ steered \subseteq steered'
      /\ NoMsg \in {NoMsg, loc[p].inf}
      /\ \A o \in Owner \ {p} : /\ steers'[o] = steers[o] /\ consumed'[o] = consumed[o]
                                /\ todo'[o] = todo[o]
    BY <1>1, <1>2
<1>9. QED BY <1>0, <1>1, <1>3, <1>4, <1>6, <1>7, <1>8, PublishedStep

-----------------------------------------------------------------------------
(* Claiming the head of the queue.                                         *)

LEMMA ClaimStep ==
    ASSUME Inv, TypeOK', NEW p \in Owner, Dispatch(p), Claimable(disk)
    PROVE  AloneInv' /\ StaysGone
<1> DEFINE q == disk.queue
           m == Head(q)
           r == Tail(q)
<1>0. Live(p) /\ disp[p] = "idle" /\ TypeOK /\ Runtime(p) /\ Places /\ InOrder /\ Once /\ Kept
      /\ Recovered(disk) = disk /\ Idle.act = "none" /\ q # <<>> /\ disk.turn = <<>>
      /\ disk.inflight = NoMsg
    BY Sole DEF Dispatch, MayDispatch, Live, Idle, Inv, AloneInv, TypeInv, Claimable
<1>1. /\ q \in Seq(Msg) /\ Distinct(q) /\ ToSet(q) \subseteq ToSet(accepted)
      /\ ToSet(accepted) \subseteq Msg /\ Stored = ToSet(q) \cup ToSet(disk.turn)
      /\ \A x \in Msg : taken[x] \in Nat /\ excused[x] \in Nat
    BY <1>0, Between
<1>2. /\ disk' = [disk EXCEPT !.queue = Tail(@), !.inflight = m, !.infOwner = p]
      /\ ownerQueue' = [ownerQueue EXCEPT ![p] = disk'.queue]
      /\ ownerInflight' = [ownerInflight EXCEPT ![p] = m]
      /\ cmd' = [cmd EXCEPT ![p] = m] /\ disp' = [disp EXCEPT ![p] = "claiming"]
      /\ todo' = [todo EXCEPT ![p] = Idle]
      /\ UNCHANGED <<life, ownerTurn, loc, steers, consumed, accepted, taken, excused, dropped, steered>>
    BY <1>0 DEF Dispatch, Claim, Claimable, ClaimedMessage
<1>3. /\ m \in ToSet(q) /\ r \in Seq(Msg) /\ ToSet(q) = {m} \cup ToSet(r) /\ Distinct(r) /\ m \notin ToSet(r)
      /\ Sorted(r, Ahead) /\ \A x \in ToSet(r) : <<m, x>> \in Ahead
    <2> DEFINE R == Ahead
    <2>1. Sorted(q, R) /\ q # <<>>
        BY <1>0 DEF InOrder
    <2> HIDE DEF q, R
    <2>2. /\ Head(q) \in ToSet(q) /\ Tail(q) \in Seq(Msg) /\ ToSet(q) = {Head(q)} \cup ToSet(Tail(q))
          /\ Distinct(Tail(q)) /\ Head(q) \notin ToSet(Tail(q))
          /\ Sorted(Tail(q), R) /\ \A x \in ToSet(Tail(q)) : <<Head(q), x>> \in R
        BY <1>1, <2>1, TailParts
    <2>3. QED BY <2>2 DEF R
<1>4. disk'.inflight = m /\ disk'.infOwner = p /\ disk'.queue = r
      /\ disk'.turn = disk.turn /\ disk'.turnOwner = disk.turnOwner
    BY <1>0, <1>2, FileParts
<1>5. DOMAIN loc = Owner /\ DOMAIN disp = Owner /\ DOMAIN ownerInflight = Owner
      /\ DOMAIN ownerQueue = Owner /\ DOMAIN todo = Owner /\ DOMAIN cmd = Owner
    BY <1>0 DEF TypeOK, StoreTypeOK
<1> HIDE DEF m, r
<1>6. m \in Msg /\ m # NoMsg /\ m \in ToSet(accepted) /\ m \in Stored
    BY <1>1, <1>3, NullsAssumption
<1>7. OthersKept(p)
    BY <1>2, <1>5 DEF OthersKept
<1>8. cmd'[p] = m /\ disp'[p] = "claiming" /\ todo'[p] = Idle /\ Unsettled(p)'
    BY <1>2, <1>5, <1>6 DEF Unsettled
<1>9. Synced(p)'
    BY <1>0, <1>2, <1>4, <1>5, <1>6 DEF Runtime, Synced
<1>10. Shows(p)'
    BY <1>0, <1>2, <1>4, <1>6, <1>8 DEF Runtime, Shows
<1>11. Steering(p)'
    BY <1>0, <1>2, <1>4, <1>8 DEF Runtime, Steering
<1>12. consumed[p].stage # "none" => consumed[p].msg # m /\ consumed[p].msg \notin ToSet(r)
    BY <1>0, <1>3, Between
<1>13. Consuming(p)'
    BY <1>0, <1>2, <1>4, <1>8, <1>12 DEF Runtime, Consuming
<1>14. m \notin ToSet(disk.turn)
    BY <1>0, <1>3 DEF Places
<1>15. Claiming(p)'
    BY <1>2, <1>3, <1>4, <1>6, <1>8, <1>14 DEF Claiming
<1>16. taken[m] <= excused[m]
    BY <1>0, <1>6, <1>12 DEF Runtime, Recorded
<1>17. Counted(p)'
    BY <1>0, <1>2, <1>8, <1>16 DEF Runtime, Counted
<1>18. Stored' = Stored
    BY <1>1, <1>3, <1>4, <1>6 DEF Stored
<1>19. Recorded(p)'
    BY <1>0, <1>2, <1>18 DEF Runtime, Recorded
<1>20. Places'
    <2>1. m \notin ToSet(r) \cup ToSet(disk.turn)
        BY <1>3, <1>14
    <2>2. ToSet(r) \cap ToSet(disk.turn) = {}
        BY <1>0, <1>3 DEF Places
    <2>3. QED BY <1>0, <1>2, <1>3, <1>4, <1>18, <2>1, <2>2 DEF Places
<1>21. InOrder'
    <2>1. Ahead' = Ahead
        BY <1>2 DEF Ahead, Plain, Position
    <2>2. QED BY <1>3, <1>4, <2>1 DEF InOrder
<1>22. Once' /\ Kept'
    BY <1>0, <1>2, <1>18 DEF Once, Kept
<1>23. Runtime(p)'
    BY <1>9, <1>10, <1>11, <1>13, <1>15, <1>17, <1>19 DEF Runtime
<1>24. StaysGone /\ life' = life
    BY <1>2, <1>18 DEF StaysGone
<1>25. QED BY <1>0, <1>7, <1>20, <1>21, <1>22, <1>23, <1>24, LiveStep

\* The runtime learns what the file already says, or that there is nothing to do.
LEMMA RefreshStep ==
    ASSUME Inv, TypeOK', NEW p \in Owner,
           \/ Dispatch(p) /\ ~Claimable(disk)
           \/ RefreshAfterClaim(p)
           \/ RefreshAfterSettle(p)
    PROVE  AloneInv' /\ StaysGone
<1>0. Live(p) /\ TypeOK /\ Runtime(p) /\ Once /\ Recovered(disk) = disk /\ Idle.act = "none"
    BY Sole DEF Dispatch, RefreshAfterClaim, RefreshAfterSettle, Live, Idle, Inv, AloneInv, TypeInv
<1>1. DOMAIN loc = Owner /\ DOMAIN disp = Owner /\ DOMAIN ownerQueue = Owner /\ DOMAIN todo = Owner
      /\ DOMAIN cmd = Owner /\ \A x \in Msg : taken[x] \in Nat /\ excused[x] \in Nat
    BY <1>0, BoundsAssumption DEF TypeOK, StoreTypeOK
<1>2. UNCHANGED <<disk, life, ownerQueue, ownerInflight, ownerTurn, accepted, dropped, steered,
                  steers, consumed, taken, excused>>
    <2>1. CASE Dispatch(p) /\ ~Claimable(disk)
        <3>1. /\ disk' = disk /\ ownerInflight' = ownerInflight
              /\ ownerQueue' = ownerQueue \/ ownerQueue' = [ownerQueue EXCEPT ![p] = disk'.queue]
              /\ UNCHANGED <<life, ownerTurn, accepted, dropped, steered, steers, consumed, taken, excused>>
            BY <1>0, <2>1 DEF Dispatch, Claim
        <3>2. ownerQueue[p] = disk'.queue
            BY <1>0, <3>1 DEF Runtime, Synced
        <3>3. ownerQueue' = ownerQueue
            <4>1. ownerQueue \in [Owner -> Seq(Msg)]
                BY <1>0 DEF TypeOK, StoreTypeOK
            <4>2. QED BY <3>1, <3>2, <4>1
        <3>4. QED BY <3>1, <3>3
    <2>2. CASE RefreshAfterClaim(p) \/ RefreshAfterSettle(p)
        BY <1>0, <2>2 DEF RefreshAfterClaim, RefreshAfterSettle, PendingUserMessages, baselines, ghostVars
    <2>3. QED BY <2>1, <2>2
<1>3. /\ Shows(p)' /\ OthersKept(p) /\ (todo'[p] = Idle \/ todo'[p] = todo[p])
      /\ Unsettled(p)' <=> Unsettled(p)
      /\ Unsettled(p) => cmd'[p] = cmd[p] /\ disp'[p] # "admitted"
      /\ disp[p] # "admitted"
    <2>1. CASE Dispatch(p) /\ ~Claimable(disk)
        <3>1. /\ disp[p] = "idle" /\ disp' = [disp EXCEPT ![p] = "claiming"]
              /\ cmd' = [cmd EXCEPT ![p] = NoMsg] /\ todo' = [todo EXCEPT ![p] = Idle] /\ loc' = loc
            BY <1>0, <2>1 DEF Dispatch, MayDispatch, ClaimedMessage
        <3>2. disp'[p] = "claiming" /\ cmd'[p] = NoMsg /\ todo'[p] = Idle
            BY <1>1, <3>1
        <3>3. Shows(p)'
            BY <1>0, <1>2, <3>1, <3>2 DEF Runtime, Shows
        <3>4. OthersKept(p)
            BY <1>1, <1>2, <3>1 DEF OthersKept
        <3>5. QED BY <3>1, <3>2, <3>3, <3>4 DEF Unsettled
    <2>2. CASE RefreshAfterClaim(p)
        <3>1. /\ disp[p] = "claiming" /\ cmd' = cmd /\ todo' = todo
              /\ disp' = [disp EXCEPT ![p] = IF cmd[p] = NoMsg THEN "idle" ELSE "claimed"]
              /\ loc' = [loc EXCEPT ![p].q = disk.queue, ![p].inf = IF cmd[p] = NoMsg THEN @ ELSE cmd[p]]
            BY <1>2, <2>2 DEF RefreshAfterClaim
        <3>2. disp'[p] = IF cmd[p] = NoMsg THEN "idle" ELSE "claimed"
            BY <1>1, <3>1
        <3>3. /\ \A o \in Owner \ {p} : loc'[o] = loc[o]
              /\ loc'[p] = [q |-> disk.queue, inf |-> IF cmd[p] = NoMsg THEN loc[p].inf ELSE cmd[p],
                            turn |-> loc[p].turn]
            <4>1. loc[p] = [q |-> loc[p].q, inf |-> loc[p].inf, turn |-> loc[p].turn]
                BY <1>0, SnapshotsTyped
            <4>2. loc'[p] = [loc[p] EXCEPT !.q = disk.queue,
                                           !.inf = IF cmd[p] = NoMsg THEN loc[p].inf ELSE cmd[p]]
                  /\ \A o \in Owner \ {p} : loc'[o] = loc[o]
                BY <1>1, <3>1
            <4>3. QED BY <4>1, <4>2
        <3>4. Shows(p)'
            BY <1>0, <1>2, <3>1, <3>2, <3>3 DEF Runtime, Shows
        <3>5. OthersKept(p)
            BY <1>1, <1>2, <3>1, <3>3 DEF OthersKept
        <3>6. QED BY <3>1, <3>2, <3>4, <3>5 DEF Unsettled
    <2>3. CASE RefreshAfterSettle(p)
        <3>1. /\ disp[p] = "settling" /\ cmd' = cmd /\ todo' = todo
              /\ disp' = [disp EXCEPT ![p] = "settled"] /\ loc' = [loc EXCEPT ![p].q = disk.queue]
            BY <1>2, <2>3 DEF RefreshAfterSettle
        <3>2. disp'[p] = "settled"
            BY <1>1, <3>1
        <3>3. /\ \A o \in Owner \ {p} : loc'[o] = loc[o]
              /\ loc'[p] = [q |-> disk.queue, inf |-> loc[p].inf, turn |-> loc[p].turn]
            <4>1. loc[p] = [q |-> loc[p].q, inf |-> loc[p].inf, turn |-> loc[p].turn]
                BY <1>0, SnapshotsTyped
            <4>2. loc'[p] = [loc[p] EXCEPT !.q = disk.queue] /\ \A o \in Owner \ {p} : loc'[o] = loc[o]
                BY <1>1, <3>1
            <4>3. QED BY <4>1, <4>2
        <3>4. Shows(p)'
            BY <1>0, <1>2, <3>1, <3>2, <3>3 DEF Runtime, Shows
        <3>5. OthersKept(p)
            BY <1>1, <1>2, <3>1, <3>3 DEF OthersKept
        <3>6. QED BY <3>1, <3>2, <3>4, <3>5 DEF Unsettled
    <2>4. QED BY <2>1, <2>2, <2>3
<1>4. Steering(p)'
    BY <1>0, <1>2, <1>3 DEF Runtime, Steering
<1>5. Consuming(p)' /\ Claiming(p)'
    <2>1. Consuming(p)'
        BY <1>0, <1>2, <1>3 DEF Runtime, Consuming
    <2>2. Claiming(p)'
        BY <1>0, <1>2, <1>3 DEF Runtime, Claiming
    <2>3. QED BY <2>1, <2>2
<1>6. Counted(p)'
    BY <1>0, <1>2, <1>3 DEF Runtime, Counted
<1>7. Recorded(p)'
    BY <1>0, <1>2, <1>3 DEF Runtime, Recorded, Stored
<1>8. \A m \in Msg : /\ taken'[m] <= 1 + excused'[m] /\ taken[m] <= taken'[m]
                     /\ m \notin ToSet(accepted) => taken'[m] = 0
    BY <1>0, <1>1, <1>2 DEF Once
<1>9. UNCHANGED <<disk, life, ownerQueue, ownerInflight, ownerTurn, accepted, dropped, steered>>
    BY <1>2
<1>10. QED BY <1>0, <1>3, <1>4, <1>5, <1>6, <1>7, <1>8, <1>9, FileKept

-----------------------------------------------------------------------------
(* Runtimes come and go.                                                   *)

\* What no runtime is left to settle goes back to the head of the queue.
LEMMA RecoveredAll ==
    ASSUME Inv, \A o \in Owner : ~OwnerIsLive(o)
    PROVE  LET d == Recovered(disk)
           IN  /\ d.inflight = NoMsg /\ d.infOwner = NoOwner /\ d.turn = <<>> /\ d.turnOwner = NoOwner
               /\ ToSet(d.queue) = Stored /\ Distinct(d.queue) /\ Sorted(d.queue, Ahead)
<1> DEFINE turn == disk.turn
           queue == disk.queue
           m == disk.inflight
           i == IF m # NoMsg THEN <<m>> ELSE <<>>
           R == Ahead
<1>0. Places /\ InOrder /\ Owned /\ TypeOK
    BY DEF Inv, AloneInv, TypeInv
<1>1. /\ turn \in Seq(Msg) /\ queue \in Seq(Msg) /\ m \in Msg \cup {NoMsg}
      /\ ToSet(turn) \subseteq Msg /\ ToSet(queue) \subseteq Msg
    BY <1>0, FileParts, ElementIn
<1>2. \A o : ~OwnerIsLive(o)
    BY DEF OwnerIsLive
<1>3. Recovered(disk) = [queue |-> turn \o i \o queue, inflight |-> NoMsg, infOwner |-> NoOwner,
                         turn |-> <<>>, turnOwner |-> NoOwner]
    BY <1>0, <1>2 DEF Recovered, Owned
<1>4. ToSet(turn) \subseteq steered /\ Distinct(turn) /\ Distinct(queue)
      /\ ToSet(queue) \cap ToSet(turn) = {} /\ m \notin ToSet(queue) \cup ToSet(turn)
    BY <1>0 DEF Places
<1>5. \A x \in ToSet(turn) : \A y \in Msg : <<x, y>> \in R
    BY <1>1, <1>4 DEF Ahead, Plain
<1>6. Sorted(turn, R) /\ Sorted(queue, R)
    BY <1>0, <1>1, <1>5 DEF Sorted, ToSet, InOrder
<1>7. m # NoMsg => \A x \in ToSet(queue) : <<m, x>> \in R
    BY <1>0 DEF InOrder
<1>8. Stored = ToSet(turn) \cup (IF m # NoMsg THEN {m} ELSE {}) \cup ToSet(queue)
    BY DEF Stored
<1> HIDE DEF turn, queue, m, R
<1>9. /\ i \in Seq(Msg) /\ ToSet(i) = (IF m # NoMsg THEN {m} ELSE {}) /\ Distinct(i) /\ Sorted(i, R)
    <2>1. CASE m # NoMsg
        BY <1>1, <2>1, SortedOne
    <2>2. CASE m = NoMsg
        <3>1. ToSet(<<>>) = {}
            BY DEF ToSet
        <3>2. QED BY <2>2, <3>1, SortedEmpty
    <2>3. QED BY <2>1, <2>2
<1> HIDE DEF i
<1> DEFINE a == turn \o i
<1>10. a \in Seq(Msg) /\ ToSet(a) = ToSet(turn) \cup ToSet(i) /\ Distinct(a) /\ Sorted(a, R)
    <2>1. a \in Seq(Msg)
        BY <1>1, <1>9
    <2>2. ToSet(a) = ToSet(turn) \cup ToSet(i)
        BY <1>1, <1>9, JoinSet
    <2>3. Distinct(a)
        BY <1>1, <1>4, <1>9, DistinctJoin
    <2>4. \A x \in ToSet(turn) : \A y \in ToSet(i) : <<x, y>> \in R
        BY <1>1, <1>5, <1>9
    <2>5. Sorted(a, R)
        BY <1>1, <1>6, <1>9, <2>4, SortedJoin
    <2>6. QED BY <2>1, <2>2, <2>3, <2>5
<1> HIDE DEF a
<1>11. ToSet(a \o queue) = Stored /\ Distinct(a \o queue) /\ Sorted(a \o queue, R)
    <2>1. ToSet(a \o queue) = ToSet(a) \cup ToSet(queue)
        BY <1>1, <1>10, JoinSet
    <2>2. ToSet(a) \cap ToSet(queue) = {}
        BY <1>4, <1>9, <1>10
    <2>3. Distinct(a \o queue)
        BY <1>1, <1>4, <1>10, <2>2, DistinctJoin
    <2>4. \A x \in ToSet(a) : \A y \in ToSet(queue) : <<x, y>> \in R
        BY <1>1, <1>5, <1>7, <1>9, <1>10
    <2>5. Sorted(a \o queue, R)
        BY <1>1, <1>6, <1>10, <2>4, SortedJoin
    <2>6. QED BY <1>8, <1>9, <1>10, <2>1, <2>3, <2>5
<1>12. QED BY <1>3, <1>11 DEF a, R

LEMMA StartStep ==
    ASSUME Inv, TypeOK', MaxLive = 1, NEW p \in Owner, Start(p)
    PROVE  AloneInv' /\ StaysGone
<1>0. AloneInv /\ TypeOK /\ Places /\ InOrder /\ Once /\ Kept /\ Abandoned
    BY DEF Inv, AloneInv, TypeInv
<1>1. \A o \in Owner : ~OwnerIsLive(o)
    <2>1. SUFFICES ASSUME NEW o \in Owner, OwnerIsLive(o) PROVE FALSE
        OBVIOUS
    <2>2. LeaseHolders = {o}
        BY <1>0, <2>1 DEF AloneInv, Alone, LeaseHolders
    <2>3. Cardinality(LeaseHolders) = 1
        BY <2>2, FS_Singleton
    <2>4. QED BY <2>3 DEF Start
<1>2. \A o \in Owner : ~Live(o) /\ Blank(o)
    BY <1>0, <1>1 DEF AloneInv, OwnerIsLive, Live
<1> DEFINE d == Recovered(disk)
           q == d.queue
<1>3. /\ d.inflight = NoMsg /\ d.infOwner = NoOwner /\ d.turn = <<>> /\ d.turnOwner = NoOwner
      /\ ToSet(q) = Stored /\ Distinct(q) /\ Sorted(q, Ahead)
    BY <1>1, RecoveredAll
<1>4. /\ disk' = d /\ life' = [life EXCEPT ![p] = "live"]
      /\ ownerQueue' = [ownerQueue EXCEPT ![p] = q] /\ loc' = [loc EXCEPT ![p].q = q]
      /\ todo' = [todo EXCEPT ![p] = Kick]
      /\ UNCHANGED <<ownerInflight, ownerTurn, steers, consumed, disp, cmd, accepted, taken, excused,
                     dropped, steered>>
    BY DEF Start, Load, ghostVars
<1> HIDE DEF d
<1>5. DOMAIN loc = Owner /\ DOMAIN life = Owner /\ DOMAIN ownerQueue = Owner /\ DOMAIN todo = Owner
    BY <1>0 DEF TypeOK, StoreTypeOK
<1>6. loc'[p] = [q |-> q, inf |-> NoMsg, turn |-> <<>>] /\ \A o \in Owner \ {p} : loc'[o] = loc[o]
    <2>1. loc[p] = [q |-> <<>>, inf |-> NoMsg, turn |-> <<>>]
        BY <1>2 DEF Blank, EmptyLoc
    <2>2. loc'[p] = [loc[p] EXCEPT !.q = q] /\ \A o \in Owner \ {p} : loc'[o] = loc[o]
        BY <1>4, <1>5
    <2>3. QED BY <2>1, <2>2
<1>7. /\ life'[p] = "live" /\ \A o \in Owner \ {p} : life'[o] = life[o]
      /\ todo'[p] = Kick /\ \A o \in Owner \ {p} : todo'[o] = todo[o]
      /\ ownerQueue'[p] = q
    BY <1>4, <1>5
<1>8. Live(p)' /\ \A o \in Owner \ {p} : ~Live(o)' /\ Blank(o)' /\ ~OwnerIsLive(o)'
    <2>1. \A o \in Owner \ {p} : Blank(o)'
        BY <1>2, <1>4, <1>6, <1>7 DEF Blank
    <2>2. QED BY <1>1, <1>7, <2>1 DEF Live, OwnerIsLive
<1>9. Alone' /\ Abandoned'
    BY <1>8 DEF Alone, Abandoned
<1>10. Owned'
    BY <1>3, <1>4 DEF Owned
<1>11. Stored' = Stored /\ Ahead' = Ahead
    <2>1. ToSet(<<>>) = {}
        BY DEF ToSet
    <2>2. Stored' = Stored
        BY <1>3, <1>4, <2>1 DEF Stored
    <2>3. QED BY <1>4, <2>2 DEF Ahead, Plain, Position
<1>12. Places'
    <2>1. ToSet(<<>>) = {} /\ Distinct(<<>>)
        BY SortedEmpty DEF ToSet
    <2>2. NoMsg \notin Stored
        BY <1>0, ElementIn, NullsAssumption DEF Places, TypeOK
    <2>3. QED BY <1>0, <1>3, <1>4, <1>11, <2>1, <2>2 DEF Places
<1>13. InOrder'
    BY <1>3, <1>4, <1>11 DEF InOrder
<1>14. Once' /\ Kept'
    BY <1>0, <1>4, <1>11 DEF Once, Kept
<1>15. Runtime(p)'
    <2>0. /\ steers[p] = <<>> /\ consumed[p] = NoneConsumed /\ disp[p] = "idle"
          /\ ownerInflight[p] = NoMsg /\ ownerTurn[p] = <<>>
        BY <1>2 DEF Blank
    <2>1. Synced(p)'
        BY <1>3, <1>4, <1>7, <2>0 DEF Synced
    <2>2. Shows(p)'
        BY <1>3, <1>4, <1>6, <2>0 DEF Shows
    <2>3. Steering(p)'
        <3>1. ToSet(<<>>) = {} /\ Distinct(<<>>)
            BY SortedEmpty DEF ToSet
        <3>2. QED BY <1>3, <1>4, <1>7, <2>0, <3>1 DEF Steering, Kick
    <2>4. Consuming(p)' /\ Counted(p)' /\ Claiming(p)'
        BY <1>4, <2>0 DEF Consuming, Counted, Claiming, Unsettled, NoneConsumed
    <2>5. Recorded(p)'
        BY <1>0, <1>2, <1>4, <1>11 DEF Recorded, Abandoned
    <2>6. QED BY <2>1, <2>2, <2>3, <2>4, <2>5 DEF Runtime
<1>16. \A o \in Owner : (IF Live(o) THEN Runtime(o) ELSE Blank(o))'
    BY <1>8, <1>15
<1>17. StaysGone
    BY <1>11 DEF StaysGone
<1>18. QED BY <1>9, <1>10, <1>12, <1>13, <1>14, <1>16, <1>17 DEF AloneInv

\* A runtime that stops forgets everything.
LEMMA Forgetting ==
    ASSUME TypeOK, NEW p \in Owner, Live(p), ForgetRuntime(p),
           life' = [life EXCEPT ![p] = "gone"],
           ownerQueue' = [ownerQueue EXCEPT ![p] = <<>>],
           ownerInflight' = [ownerInflight EXCEPT ![p] = NoMsg],
           ownerTurn' = [ownerTurn EXCEPT ![p] = <<>>]
    PROVE  /\ life'[p] = "gone" /\ \A o \in Owner \ {p} : life'[o] = life[o]
           /\ Blank(p)' /\ \A o \in Owner \ {p} : Blank(o) => Blank(o)'
<1>1. /\ DOMAIN loc = Owner /\ DOMAIN life = Owner /\ DOMAIN steers = Owner /\ DOMAIN consumed = Owner
      /\ DOMAIN disp = Owner /\ DOMAIN todo = Owner /\ DOMAIN ownerInflight = Owner
      /\ DOMAIN ownerTurn = Owner
    BY DEF TypeOK, StoreTypeOK
<1>2. /\ loc' = [loc EXCEPT ![p] = EmptyLoc] /\ steers' = [steers EXCEPT ![p] = <<>>]
      /\ consumed' = [consumed EXCEPT ![p] = NoneConsumed]
      /\ disp' = [disp EXCEPT ![p] = "idle"] /\ todo' = [todo EXCEPT ![p] = Idle]
    BY DEF ForgetRuntime
<1>3. loc'[p] = EmptyLoc /\ \A o \in Owner \ {p} : loc'[o] = loc[o]
    BY <1>1, <1>2
<1>4. steers'[p] = <<>> /\ \A o \in Owner \ {p} : steers'[o] = steers[o]
    BY <1>1, <1>2
<1>5. consumed'[p] = NoneConsumed /\ \A o \in Owner \ {p} : consumed'[o] = consumed[o]
    BY <1>1, <1>2
<1>6. disp'[p] = "idle" /\ \A o \in Owner \ {p} : disp'[o] = disp[o]
    BY <1>1, <1>2
<1>7. todo'[p] = Idle /\ \A o \in Owner \ {p} : todo'[o] = todo[o]
    BY <1>1, <1>2
<1>8. /\ ownerInflight'[p] = NoMsg /\ \A o \in Owner \ {p} : ownerInflight'[o] = ownerInflight[o]
      /\ ownerTurn'[p] = <<>> /\ \A o \in Owner \ {p} : ownerTurn'[o] = ownerTurn[o]
    BY <1>1
<1>9. Blank(p)'
    BY <1>3, <1>4, <1>5, <1>6, <1>7, <1>8 DEF Blank, EmptyLoc, NoneConsumed, Idle
<1>10. \A o \in Owner \ {p} : Blank(o) => Blank(o)'
    BY <1>3, <1>4, <1>5, <1>6, <1>7, <1>8 DEF Blank, EmptyLoc, NoneConsumed, Idle
<1>11. life'[p] = "gone" /\ \A o \in Owner \ {p} : life'[o] = life[o]
    BY <1>1
<1>12. QED BY <1>9, <1>10, <1>11

\* The messages a stopping runtime had taken in unrecorded are excused.
LEMMA ExcusedAtStop ==
    ASSUME Inv, TypeOK', NEW p \in Owner, Live(p), Excuse(TakenUnrecorded(p)), taken' = taken
    PROVE  /\ \A m \in Stored : taken'[m] <= excused'[m]
           /\ \A m \in Msg : excused[m] <= excused'[m] /\ taken'[m] <= 1 + excused'[m]
<1>0. Runtime(p) /\ TypeOK /\ Once
    BY Sole DEF Inv, AloneInv, TypeInv
<1>1. \A x \in Msg : taken[x] \in Nat /\ excused[x] \in Nat /\ excused'[x] \in Nat
    BY <1>0, BoundsAssumption DEF TypeOK
<1>2. \A x \in Msg : /\ excused[x] <= excused'[x]
                     /\ x \in TakenUnrecorded(p) => excused'[x] = 1 + excused[x]
    BY <1>1 DEF Excuse
<1>3. \A x \in Msg : taken'[x] <= 1 + excused'[x]
    BY <1>0, <1>1, <1>2 DEF Once
<1>4. ASSUME NEW m \in Stored PROVE taken'[m] <= excused'[m]
    <2>1. m \in Msg
        BY <1>0, FileParts, ElementIn DEF Stored
    <2>2. CASE taken[m] <= excused[m]
        BY <1>1, <1>2, <2>1, <2>2
    <2>3. CASE disp[p] = "admitted" /\ m = cmd[p]
        <3>1. Unsettled(p)
            BY <2>1, <2>3, NullsAssumption DEF Unsettled
        <3>2. disk.inflight = m
            BY <1>0, <2>3, <3>1 DEF Runtime, Claiming, Stored
        <3>3. disk.infOwner = p
            BY <1>0, <2>1, <3>2, NullsAssumption DEF Runtime, Synced
        <3>4. m \in TakenUnrecorded(p)
            BY <2>3, <3>2, <3>3 DEF TakenUnrecorded
        <3>5. QED BY <1>0, <1>1, <1>2, <2>1, <3>4 DEF Once
    <2>4. CASE consumed[p].stage = "delivered" /\ m = consumed[p].msg
        <3>1. m \in TakenUnrecorded(p)
            BY <2>4 DEF TakenUnrecorded
        <3>2. QED BY <1>0, <1>1, <1>2, <2>1, <3>1 DEF Once
    <2>5. QED BY <1>0, <2>2, <2>3, <2>4 DEF Runtime, Recorded
<1>5. QED BY <1>2, <1>3, <1>4

LEMMA StopStep ==
    ASSUME Inv, TypeOK', NEW p \in Owner, Crash(p) \/ Shutdown(p)
    PROVE  AloneInv' /\ StaysGone
<1>0. Live(p) /\ Runtime(p) /\ TypeOK /\ Places /\ InOrder /\ Once /\ Kept /\ Owned /\ Alone
    BY Sole DEF Inv, AloneInv, TypeInv, Crash, Vanish, Shutdown, Ready, Live
<1>1. /\ Excuse(TakenUnrecorded(p)) /\ ForgetRuntime(p)
      /\ life' = [life EXCEPT ![p] = "gone"]
      /\ ownerQueue' = [ownerQueue EXCEPT ![p] = <<>>]
      /\ ownerInflight' = [ownerInflight EXCEPT ![p] = NoMsg]
      /\ ownerTurn' = [ownerTurn EXCEPT ![p] = <<>>]
      /\ UNCHANGED <<accepted, taken, steered>>
    BY DEF Crash, Shutdown, Vanish
<1>2. /\ life'[p] = "gone" /\ \A o \in Owner \ {p} : life'[o] = life[o]
      /\ Blank(p)' /\ \A o \in Owner \ {p} : Blank(o) => Blank(o)'
    BY <1>0, <1>1, Forgetting
<1>3. \A o \in Owner \ {p} : ~OwnerIsLive(o) /\ ~Live(o) /\ Blank(o)
    BY <1>0, Sole
<1>4. \A o \in Owner : ~Live(o)' /\ Blank(o)'
    BY <1>2, <1>3 DEF Live
<1>5. Alone'
    BY <1>2, <1>3 DEF Alone, OwnerIsLive
<1>6. /\ \A m \in Stored : taken'[m] <= excused'[m]
      /\ \A m \in Msg : excused[m] <= excused'[m] /\ taken'[m] <= 1 + excused'[m]
    BY <1>0, <1>1, ExcusedAtStop
<1>7. Ahead' = Ahead
    BY <1>1 DEF Ahead, Plain, Position
<1>8. Once'
    BY <1>0, <1>1, <1>6 DEF Once
<1>9. CASE Crash(p)
    <2>1. UNCHANGED <<disk, dropped>>
        BY <1>9 DEF Crash
    <2>2. Stored' = Stored /\ Owned' /\ InOrder'
        BY <1>0, <1>7, <2>1 DEF Stored, Owned, InOrder
    <2>3. Places'
        BY <1>0, <1>1, <2>1, <2>2 DEF Places
    <2>4. Kept' /\ Abandoned'
        BY <1>0, <1>1, <1>6, <2>1, <2>2 DEF Kept, Abandoned
    <2>5. StaysGone
        BY <2>2 DEF StaysGone
    <2>6. QED BY <1>4, <1>5, <1>8, <2>2, <2>3, <2>4, <2>5 DEF AloneInv
<1>10. CASE Shutdown(p)
    <2>1. disk' = SaveResult(p, <<>>, NoMsg, <<>>) /\ dropped' = dropped \cup Held(p)
          /\ disp[p] \notin {"claiming", "settling"}
        BY <1>10 DEF Shutdown, Ready
    <2>2. disk' = File(p, <<>>, NoMsg, <<>>)
        <3>1. <<>> \in Seq(Msg) /\ NoMsg \in Msg \cup {NoMsg}
            BY <1>0, SnapshotsTyped
        <3>2. QED BY <1>0, <2>1, <3>1, SaveEffect
    <2>3. /\ disk'.queue = <<>> /\ disk'.inflight = NoMsg /\ disk'.infOwner = NoOwner
          /\ disk'.turn = <<>> /\ disk'.turnOwner = NoOwner
        BY <2>2 DEF File
    <2>4. ToSet(<<>>) = {} /\ Distinct(<<>>) /\ \A R : Sorted(<<>>, R)
        BY SortedEmpty DEF ToSet
    <2>5. Stored' = {}
        BY <2>3, <2>4 DEF Stored
    <2>6. Held(p) = Stored
        BY <1>0, <2>1, Between DEF Held
    <2>7. Places' /\ InOrder' /\ Owned'
        <3>1. Places'
            BY <1>0, <1>1, <2>3, <2>4, <2>5 DEF Places
        <3>2. InOrder' /\ Owned'
            BY <2>3, <2>4 DEF InOrder, Owned
        <3>3. QED BY <3>1, <3>2
    <2>8. Kept' /\ Abandoned'
        BY <1>0, <1>1, <2>1, <2>5, <2>6 DEF Kept, Abandoned
    <2>9. StaysGone
        BY <2>5 DEF StaysGone
    <2>10. QED BY <1>4, <1>5, <1>8, <2>7, <2>8, <2>9 DEF AloneInv
<1>11. QED BY <1>9, <1>10

LEMMA FreeStep ==
    ASSUME Inv, NEW p \in Owner, FreeLease(p)
    PROVE  AloneInv' /\ StaysGone
<1>0. AloneInv /\ TypeOK
    BY DEF Inv, TypeInv
<1>1. /\ life[p] = "gone" /\ life' = [life EXCEPT ![p] = "dead"]
      /\ UNCHANGED <<disk, ownerQueue, ownerInflight, ownerTurn, loc, steers, consumed, disp, cmd, todo,
                     accepted, taken, excused, dropped, steered>>
    BY DEF FreeLease, LeaseFreed, baselines, runtimeVars, ghostVars
<1>2. life'[p] = "dead" /\ \A o \in Owner \ {p} : life'[o] = life[o]
    BY <1>0, <1>1 DEF TypeOK, StoreTypeOK
<1>3. \A o \in Owner : (Live(o)' <=> Live(o)) /\ (OwnerIsLive(o)' => OwnerIsLive(o))
    BY <1>1, <1>2 DEF Live, OwnerIsLive
<1>4. Stored' = Stored /\ Ahead' = Ahead
    BY <1>1 DEF Stored, Ahead, Plain, Position
<1>5. Alone' /\ Owned' /\ Abandoned'
    BY <1>0, <1>1, <1>3, <1>4 DEF AloneInv, Alone, Owned, Abandoned
<1>6. Places' /\ InOrder' /\ Once' /\ Kept'
    BY <1>0, <1>1, <1>4 DEF AloneInv, Places, InOrder, Once, Kept
<1>7. \A o \in Owner : (Blank(o) => Blank(o)') /\ (Runtime(o) => Runtime(o)')
    <2>1. SUFFICES ASSUME NEW o \in Owner PROVE (Blank(o) => Blank(o)') /\ (Runtime(o) => Runtime(o)')
        OBVIOUS
    <2>2. Blank(o) => Blank(o)'
        BY <1>1 DEF Blank
    <2>3. Unsettled(o)' <=> Unsettled(o)
        BY <1>1 DEF Unsettled
    <2>4. Runtime(o) => Synced(o)' /\ Shows(o)' /\ Steering(o)'
        BY <1>1 DEF Runtime, Synced, Shows, Steering
    <2>5. Runtime(o) => Consuming(o)' /\ Claiming(o)'
        BY <1>1, <2>3 DEF Runtime, Consuming, Claiming
    <2>6. Runtime(o) => Counted(o)' /\ Recorded(o)'
        BY <1>1, <1>4, <2>3 DEF Runtime, Counted, Recorded
    <2>7. QED BY <2>2, <2>4, <2>5, <2>6 DEF Runtime
<1>8. \A o \in Owner : (IF Live(o) THEN Runtime(o) ELSE Blank(o))'
    BY <1>0, <1>3, <1>7 DEF AloneInv
<1>9. StaysGone
    BY <1>4 DEF StaysGone
<1>10. QED BY <1>5, <1>6, <1>8, <1>9 DEF AloneInv

-----------------------------------------------------------------------------
(* The invariant of one runtime at a time.                                 *)

LEMMA AloneInit == Init => AloneInv
<1>1. SUFFICES ASSUME Init PROVE AloneInv
    OBVIOUS
<1>2. /\ disk = EmptyDisk /\ accepted = <<>> /\ steered = {}
      /\ \A o \in Owner : life[o] = "new" /\ Blank(o)
      /\ \A m \in Msg : taken[m] = 0 /\ excused[m] = 0
    BY <1>1 DEF Init, StoreInit, Blank
<1>3. /\ disk.queue = <<>> /\ disk.inflight = NoMsg /\ disk.infOwner = NoOwner
      /\ disk.turn = <<>> /\ disk.turnOwner = NoOwner
    BY <1>2 DEF EmptyDisk
<1>4. ToSet(<<>>) = {} /\ Distinct(<<>>) /\ \A R : Sorted(<<>>, R)
    BY SortedEmpty DEF ToSet
<1>5. Stored = {}
    BY <1>3, <1>4 DEF Stored
<1>6. Alone /\ Owned /\ \A o \in Owner : ~Live(o)
    BY <1>2, <1>3 DEF Alone, OwnerIsLive, Owned, Live
<1>7. Places /\ InOrder
    BY <1>2, <1>3, <1>4, <1>5 DEF Places, InOrder
<1>8. Once /\ Kept /\ Abandoned
    BY <1>2, <1>4, <1>5 DEF Once, Kept, Abandoned
<1>9. QED BY <1>2, <1>6, <1>7, <1>8 DEF AloneInv

LEMMA AloneStep ==
    ASSUME MaxLive = 1
    PROVE  Inv /\ [Next]_vars => Inv' /\ StaysGone
<1>1. SUFFICES ASSUME Inv, [Next]_vars PROVE Inv' /\ StaysGone
    OBVIOUS
<1>2. TypeInv' /\ FenceInv'
    BY <1>1, TypeStep, FenceStep DEF Inv
<1>3. TypeOK'
    BY <1>2 DEF TypeInv
<1>4. CASE UNCHANGED vars
    <2>1. UNCHANGED <<disk, life, ownerQueue, ownerInflight, ownerTurn, loc, steers, consumed, disp, cmd,
                      todo, accepted, taken, excused, dropped, steered>>
        BY <1>4 DEF vars, storeVars, runtimeVars, ghostVars
    <2>2. AloneInv
        BY <1>1 DEF Inv
    <2>3. AloneInv'
        <3>1. Stored' = Stored /\ Ahead' = Ahead
            BY <2>1 DEF Stored, Ahead, Plain, Position
        <3>2. Alone' /\ Owned' /\ Abandoned'
            BY <2>1, <2>2, <3>1 DEF AloneInv, Alone, OwnerIsLive, Owned, Abandoned, Live
        <3>3. Places' /\ InOrder' /\ Once' /\ Kept'
            BY <2>1, <2>2, <3>1 DEF AloneInv, Places, InOrder, Once, Kept
        <3>4. ASSUME NEW o \in Owner PROVE (IF Live(o) THEN Runtime(o) ELSE Blank(o))'
            <4>1. Blank(o) => Blank(o)'
                BY <2>1 DEF Blank
            <4>2. Unsettled(o)' <=> Unsettled(o)
                BY <2>1 DEF Unsettled
            <4>3. Runtime(o) => Synced(o)' /\ Shows(o)' /\ Steering(o)'
                BY <2>1 DEF Runtime, Synced, Shows, Steering
            <4>4. Runtime(o) => Consuming(o)' /\ Claiming(o)'
                BY <2>1, <4>2 DEF Runtime, Consuming, Claiming
            <4>5. Runtime(o) => Counted(o)' /\ Recorded(o)'
                BY <2>1, <3>1, <4>2 DEF Runtime, Counted, Recorded
            <4>6. Runtime(o) => Runtime(o)'
                BY <4>3, <4>4, <4>5 DEF Runtime
            <4>7. QED BY <2>1, <2>2, <4>1, <4>6 DEF AloneInv, Live
        <3>5. QED BY <3>2, <3>3, <3>4 DEF AloneInv
    <2>4. StaysGone
        BY <2>1 DEF StaysGone, Stored
    <2>5. QED BY <1>2, <2>3, <2>4 DEF Inv
<1>5. CASE Next
    <2>1. PICK p \in Owner :
              \/ Start(p) \/ Shutdown(p) \/ FreeLease(p)
              \/ RuntimeStep(p) \/ UserStep(p) \/ FaultStep(p)
        BY <1>5 DEF Next
    <2>2. AloneInv' /\ StaysGone
        <3>1. CASE Start(p) \/ Shutdown(p) \/ FreeLease(p)
            BY <1>1, <1>3, <3>1, StartStep, StopStep, FreeStep
        <3>2. CASE CallStep(p) \/ FinishSteering(p)
            BY <1>1, <1>3, <3>2, ClaimStep, RefreshStep, QuietSteps, RestoreStep DEF CallStep
        <3>3. CASE DispatchStep(p)
            BY <1>1, <1>3, <3>3, RefreshStep, QuietSteps, AdmitStep, SettleStep DEF DispatchStep
        <3>4. CASE RunStep(p)
            BY <1>1, <1>3, <3>4, PopStep, DeliverStep, AckStep, UnpublishedStep, QuietSteps, EndRunStep
               DEF RunStep
        <3>5. CASE UserStep(p)
            BY <1>1, <1>3, <3>5, QuietSteps, ClearStep, SubmitStep, SubmitSteerStep, CancelStep,
               SteerQueuedStep DEF UserStep
        <3>6. CASE FaultStep(p)
            BY <1>1, <1>3, <3>6, StopStep, QuietSteps, SettleFailsStep, UnpublishedStep DEF FaultStep
        <3>7. QED BY <2>1, <3>1, <3>2, <3>3, <3>4, <3>5, <3>6 DEF RuntimeStep
    <2>3. QED BY <1>2, <2>2 DEF Inv
<1>6. QED BY <1>1, <1>4, <1>5

LEMMA InvAlways ==
    ASSUME MaxLive = 1
    PROVE  Spec => []Inv
<1>1. Init => Inv
    BY TypeInit, FenceInit, AloneInit DEF Inv
<1>2. Inv /\ [Next]_vars => Inv'
    BY AloneStep
<1>3. QED BY <1>1, <1>2, PTL DEF Spec

-----------------------------------------------------------------------------
(* The theorems.                                                           *)

LEMMA OccursOnce ==
    ASSUME NEW s \in Seq(Msg), NEW m, Distinct(s)
    PROVE  Occurrences(s, m) = IF m \in ToSet(s) THEN 1 ELSE 0
<1> DEFINE I == {i \in DOMAIN s : s[i] = m}
<1>1. CASE m \in ToSet(s)
    <2>1. PICK i \in DOMAIN s : s[i] = m
        BY <1>1 DEF ToSet
    <2>2. I = {i}
        BY <2>1 DEF Distinct
    <2>3. QED BY <1>1, <2>2, FS_Singleton DEF Occurrences
<1>2. CASE m \notin ToSet(s)
    <2>1. I = {}
        BY <1>2 DEF ToSet
    <2>2. QED BY <1>2, <2>1, FS_EmptySet DEF Occurrences
<1>3. QED BY <1>1, <1>2

\* An accepted message the user did not remove is in the file until a turn has
\* taken it in: across claims, failed and rejected dispatches, steers that no
\* turn consumed, failed writes, crashes and recovery (_seal_turn_input_queue,
\* _recover_stale_owners).
THEOREM NothingIsLost ==
    ASSUME MaxLive = 1
    PROVE  Spec => []NoMessageLost
<1>1. Inv => NoMessageLost
    <2>1. SUFFICES ASSUME Inv PROVE NoMessageLost
        OBVIOUS
    <2>2. Kept
        BY <2>1 DEF Inv, AloneInv
    <2>3. \A m \in Stored : OnDisk(m)
        BY DEF Stored, OnDisk
    <2>4. QED BY <2>2, <2>3 DEF NoMessageLost, Kept
<1>2. QED BY <1>1, InvAlways, PTL

\* The queue, the claim and the turn inputs never hold a message twice, so
\* neither recovery nor requeueing multiplies it.
THEOREM OnePlace ==
    ASSUME MaxLive = 1
    PROVE  Spec => []SinglePlace
<1>1. Inv => SinglePlace
    <2>1. SUFFICES ASSUME Inv PROVE SinglePlace
        OBVIOUS
    <2>2. Places /\ disk.queue \in Seq(Msg) /\ disk.turn \in Seq(Msg)
        BY <2>1, FileParts DEF Inv, AloneInv, TypeInv
    <2>3. ASSUME NEW m \in Msg
          PROVE  Occurrences(disk.queue, m) + Occurrences(disk.turn, m)
                     + (IF disk.inflight = m THEN 1 ELSE 0) <= 1
        <3>1. /\ Occurrences(disk.queue, m) = IF m \in ToSet(disk.queue) THEN 1 ELSE 0
              /\ Occurrences(disk.turn, m) = IF m \in ToSet(disk.turn) THEN 1 ELSE 0
            BY <2>2, OccursOnce DEF Places
        <3>2. /\ ~(m \in ToSet(disk.queue) /\ m \in ToSet(disk.turn))
              /\ disk.inflight = m => m \notin ToSet(disk.queue) /\ m \notin ToSet(disk.turn)
            BY <2>2 DEF Places
        <3>3. QED BY <3>1, <3>2
    <2>4. QED BY <2>3 DEF SinglePlace
<1>2. QED BY <1>1, InvAlways, PTL

\* A message is taken in once for each time its taking could not be recorded,
\* and once more (finish_user_message_dispatch, acknowledge_turn_input).
THEOREM NotTakenAgain ==
    ASSUME MaxLive = 1
    PROVE  Spec => []TakenOnce
<1>1. Inv => TakenOnce
    BY DEF Inv, AloneInv, Once, TakenOnce
<1>2. QED BY <1>1, InvAlways, PTL

\* Messages that were never steered are claimed in the order they were accepted
\* in, after any requeueing or recovery (settle_user_message, load).
THEOREM FollowUpsKeepTheirOrder ==
    ASSUME MaxLive = 1
    PROVE  Spec => []FollowUpsInOrder
<1>1. Inv => FollowUpsInOrder
    <2>1. SUFFICES ASSUME Inv PROVE FollowUpsInOrder
        OBVIOUS
    <2> DEFINE q == disk.queue
               m == disk.inflight
               i == IF m # NoMsg THEN <<m>> ELSE <<>>
               line == i \o q
               R == Ahead
    <2>2. TypeOK /\ InOrder
        BY <2>1 DEF Inv, AloneInv, TypeInv
    <2>3. q \in Seq(Msg) /\ m \in Msg \cup {NoMsg} /\ Sorted(q, R)
          /\ (m # NoMsg => \A x \in ToSet(q) : <<m, x>> \in R)
        BY <2>2, FileParts DEF InOrder
    <2> HIDE DEF q, m, R
    <2>4. i \in Seq(Msg) /\ Sorted(i, R) /\ \A x \in ToSet(i) : \A y \in ToSet(q) : <<x, y>> \in R
        <3>1. CASE m # NoMsg
            BY <2>3, <3>1, SortedOne
        <3>2. CASE m = NoMsg
            <4>1. ToSet(<<>>) = {}
                BY DEF ToSet
            <4>2. QED BY <3>2, <4>1, SortedEmpty
        <3>3. QED BY <3>1, <3>2
    <2> HIDE DEF i
    <2>5. Sorted(line, R) /\ line \in Seq(Msg)
        BY <2>3, <2>4, SortedJoin
    <2> HIDE DEF line
    <2>6. \A a, b \in DOMAIN line :
              a < b /\ Plain(line[a]) /\ Plain(line[b]) => Position(line[a]) < Position(line[b])
        BY <2>5 DEF Sorted, R, Ahead
    <2>7. line = (IF disk.inflight # NoMsg THEN <<disk.inflight>> ELSE <<>>) \o disk.queue
        BY DEF line, i, m, q
    <2>8. QED BY <2>6, <2>7, Zenon DEF FollowUpsInOrder
<1>2. QED BY <1>1, InvAlways, PTL

\* No snapshot that is published later brings back a message that has left the
\* file (_merge_queue_delta, _persist_user_queues).
THEOREM GoneForGood ==
    ASSUME MaxLive = 1
    PROVE  Spec => GoneStaysGone
<1>1. Inv /\ Inv' /\ [Next]_vars
          => [\A m \in ToSet(accepted) : ~OnDisk(m) => ~OnDisk(m)']_vars
    <2>1. SUFFICES ASSUME Inv, Inv', [Next]_vars, NEW m \in ToSet(accepted), ~OnDisk(m)
                   PROVE  ~OnDisk(m)'
        OBVIOUS
    <2>2. TypeOK /\ TypeOK' /\ StaysGone
        BY <2>1, AloneStep DEF Inv, TypeInv
    <2>3. m \in Msg
        BY <2>1, <2>2, ElementIn DEF TypeOK
    <2>4. m \notin Stored
        BY <2>1, <2>2, <2>3, OnDiskIsStored
    <2>5. m \notin Stored'
        BY <2>1, <2>2, <2>4 DEF StaysGone
    <2>6. (OnDisk(m) <=> m \in Stored)'
        BY <2>3, NullsAssumption DEF OnDisk, Stored
    <2>7. QED BY <2>5, <2>6
<1>2. QED BY <1>1, InvAlways, PTL DEF Spec, GoneStaysGone

-----------------------------------------------------------------------------
(* The promise of FollowUpService, with one runtime at a time.             *)

\* What a turn is about to take in, or has taken in and not recorded yet, is in
\* the file under the claim or among the turn inputs, unless the user removed it.
Claimed(o) == Unsettled(o) => cmd[o] \in {disk.inflight} \cup dropped
Consumed(o) ==
    consumed[o].stage # "none" => consumed[o].msg \in ToSet(disk.turn) \cup dropped

\* The record of its taking is the only one that is due.
Accounted(o) ==
    /\ disp[o] = "admitted" => taken[cmd[o]] = excused[cmd[o]] + 1
    /\ consumed[o].stage = "delivered" =>
           taken[consumed[o].msg] = excused[consumed[o].msg] + 1

Hand(o) == Claimed(o) /\ Consumed(o) /\ Accounted(o)
Countable == \A m \in Msg : excused[m] <= taken[m]
HandInv == Countable /\ \A o \in Owner : Hand(o)

\* Every step is one of the service or a stutter.
Serves == [Service!ServiceNext]_(Service!service)

LEMMA BlankHand == \A o \in Owner : Blank(o) => Hand(o)
BY DEF Blank, Hand, Claimed, Consumed, Accounted, Unsettled, NoneConsumed

\* A runtime that holds the lease is the only one with anything in hand.
OneHand == \A p \in Owner : OwnerIsLive(p) => \A o \in Owner \ {p} : Hand(o)

LEMMA OnlyOneHand == Inv => OneHand
<1>1. SUFFICES ASSUME Inv, NEW p \in Owner, OwnerIsLive(p), NEW o \in Owner \ {p}
               PROVE  Hand(o)
    BY DEF OneHand
<1>2. Blank(o)
    BY <1>1 DEF Inv, AloneInv, Alone, OwnerIsLive, Live
<1>3. QED BY <1>2, BlankHand

Waiting == {m \in Msg : OnDisk(m)}

LEMMA WaitingIsStored == TypeOK => Waiting = Stored
<1>1. SUFFICES ASSUME TypeOK PROVE Waiting = Stored
    OBVIOUS
<1>2. Stored \subseteq Msg
    BY <1>1, FileParts, ElementIn DEF Stored
<1>3. QED BY <1>1, <1>2, OnDiskIsStored DEF Waiting

\* The steps of the service, in the terms of the queue.
LEMMA ServiceSteps ==
    ASSUME TypeOK, TypeOK'
    PROVE  /\ Stored' = Stored /\ UNCHANGED <<accepted, taken, excused, dropped, steered>> => Serves
           /\ \A m \in Msg :
                 /\ m \notin ToSet(accepted) /\ accepted' = Append(accepted, m)
                 /\ Stored' = Stored \cup {m} /\ steered' \in {steered, steered \cup {m}}
                 /\ UNCHANGED <<taken, excused, dropped>>
                 => Serves
           /\ \A m \in Stored :
                 /\ steered' = steered \cup {m} /\ Stored' = Stored
                 /\ UNCHANGED <<accepted, taken, excused, dropped>>
                 => Serves
           /\ \A m \in Stored :
                 /\ taken[m] = excused[m] + 1 /\ Stored' = Stored \ {m}
                 /\ UNCHANGED <<accepted, taken, excused, dropped, steered>>
                 => Serves
           /\ \A R \in SUBSET Stored, L \in SUBSET Msg :
                 /\ \A m \in L : taken[m] = excused[m] + 1
                 /\ dropped' = dropped \cup R /\ Stored' = Stored \ R /\ Excuse(L)
                 /\ UNCHANGED <<accepted, taken, steered>>
                 => Serves
<1>1. Waiting = Stored /\ Stored \subseteq Msg
    BY WaitingIsStored DEF Waiting
<1>2. (TypeOK => Waiting = Stored)'
    BY WaitingIsStored, PTL
<1>3. Waiting' = Stored'
    BY <1>2
<1>4. Stored' = Stored /\ UNCHANGED <<accepted, taken, excused, dropped, steered>> => Serves
    BY <1>1, <1>3 DEF Serves, Service!service, Waiting
<1>5. ASSUME NEW m \in Msg, m \notin ToSet(accepted), accepted' = Append(accepted, m),
             Stored' = Stored \cup {m}, steered' \in {steered, steered \cup {m}},
             UNCHANGED <<taken, excused, dropped>>
      PROVE  Serves
    <2>1. Waiting' = Waiting \cup {m}
        BY <1>1, <1>3, <1>5
    <2>2. m \notin Service!ToSet(accepted)
        BY <1>5 DEF Service!ToSet, ToSet
    <2>3. Service!Enter(m)
        BY <1>5, <2>1, <2>2, Zenon DEF Service!Enter, Waiting
    <2>4. QED BY <2>3 DEF Serves, Service!ServiceNext
<1>6. ASSUME NEW m \in Stored, steered' = steered \cup {m}, Stored' = Stored,
             UNCHANGED <<accepted, taken, excused, dropped>>
      PROVE  Serves
    <2>1. Service!Redirect(m)
        BY <1>1, <1>3, <1>6 DEF Service!Redirect, Waiting
    <2>2. QED BY <1>1, <2>1 DEF Serves, Service!ServiceNext
<1>7. ASSUME NEW m \in Stored, taken[m] = excused[m] + 1, Stored' = Stored \ {m},
             UNCHANGED <<accepted, taken, excused, dropped, steered>>
      PROVE  Serves
    <2>1. Service!Record(m)
        BY <1>1, <1>3, <1>7 DEF Service!Record, Service!Served, Waiting
    <2>2. QED BY <1>1, <2>1 DEF Serves, Service!ServiceNext
<1>8. ASSUME NEW R \in SUBSET Stored, NEW L \in SUBSET Msg,
             \A m \in L : taken[m] = excused[m] + 1,
             dropped' = dropped \cup R, Stored' = Stored \ R, Excuse(L),
             UNCHANGED <<accepted, taken, steered>>
      PROVE  Serves
    <2>1. Service!Discard(R, L)
        BY <1>1, <1>3, <1>8 DEF Service!Discard, Service!Served, Waiting, Excuse
    <2>2. R \in SUBSET Msg
        BY <1>1
    <2>3. QED BY <2>1, <2>2 DEF Serves, Service!ServiceNext
<1>9. QED BY <1>4, <1>5, <1>6, <1>7, <1>8

\* Only the runtime that moves has anything in hand.
LEMMA HandFrom ==
    ASSUME Inv', NEW p \in Owner, OwnerIsLive(p)', Hand(p)', Countable'
    PROVE  HandInv'
<1>1. (Inv => OneHand)'
    BY OnlyOneHand, PTL
<1>2. \A o \in Owner \ {p} : Hand(o)'
    BY <1>1 DEF OneHand
<1>3. QED BY <1>2 DEF HandInv

\* A step that is none of the service's.
LEMMA SameService ==
    ASSUME Inv, Inv', HandInv, NEW p \in Owner, OwnerIsLive(p)', Hand(p)', Stored' = Stored,
           UNCHANGED <<accepted, taken, excused, dropped, steered>>
    PROVE  HandInv' /\ Serves
<1>1. Countable'
    BY DEF HandInv, Countable
<1>2. TypeOK /\ TypeOK'
    BY DEF Inv, TypeInv
<1>3. QED BY <1>1, <1>2, HandFrom, ServiceSteps

\* The lease of a live runtime.
LEMMA LiveLease ==
    ASSUME NEW p \in Owner, Live(p), life' = life
    PROVE  OwnerIsLive(p) /\ OwnerIsLive(p)'
BY DEF Live, OwnerIsLive

LEMMA QuietServes ==
    ASSUME Inv, Inv', HandInv, NEW p \in Owner,
           \/ StartDirect(p) \/ Resync(p) \/ KickIgnored(p) \/ FinishSteering(p) \/ ClaimFails(p)
           \/ StartQueued(p) \/ FinishDispatch(p) \/ DeferMailbox(p)
           \/ RestoreFails(p) \/ CommandFails(p)
    PROVE  HandInv' /\ Serves
<1>1. TypeOK /\ TypeOK'
    BY DEF Inv, TypeInv
<1>2. /\ Live(p) /\ UNCHANGED <<disk, life, consumed, accepted, taken, excused, dropped, steered>>
      /\ \/ disp' = disp /\ cmd' = cmd
         \/ disp[p] = "claimed" /\ disp' = [disp EXCEPT ![p] = "started"] /\ cmd' = cmd
         \/ disp[p] = "settled" /\ disp' = [disp EXCEPT ![p] = "idle"]
            /\ cmd' = [cmd EXCEPT ![p] = NoMsg]
    BY <1>1, QuietParts
<1>3. DOMAIN disp = Owner /\ DOMAIN cmd = Owner
    BY <1>1 DEF TypeOK
<1>4. /\ Unsettled(p)' => Unsettled(p) /\ cmd'[p] = cmd[p]
      /\ disp'[p] = "admitted" => disp[p] = "admitted" /\ cmd'[p] = cmd[p]
    BY <1>2, <1>3 DEF Unsettled
<1>5. Hand(p)'
    BY <1>2, <1>4 DEF HandInv, Hand, Claimed, Consumed, Accounted
<1>6. Stored' = Stored
    BY <1>2 DEF Stored
<1>7. QED BY <1>2, <1>5, <1>6, LiveLease, SameService

LEMMA PopServes ==
    ASSUME Inv, Inv', HandInv, NEW p \in Owner, PopSteer(p)
    PROVE  HandInv' /\ Serves
<1>1. Live(p) /\ TypeOK /\ disp[p] \notin {"claiming", "settling"} /\ steers[p] # <<>>
    BY DEF PopSteer, Ready, Live, Inv, TypeInv
<1>2. /\ UNCHANGED <<disk, life, disp, cmd, accepted, taken, excused, dropped, steered>>
      /\ consumed'[p] = [msg |-> Head(steers[p]), stage |-> "popped"]
    BY <1>1 DEF PopSteer, storeVars, ghostVars, TypeOK
<1>3. Head(steers[p]) \in ToSet(disk.turn)
    <2> DEFINE s == steers[p]
    <2>1. s \in Seq(Msg) /\ s # <<>> /\ ToSet(s) \subseteq ToSet(disk.turn)
        BY <1>1, Between
    <2> HIDE DEF s
    <2>2. Head(s) \in ToSet(s)
        BY <2>1, TailParts
    <2>3. QED BY <2>1, <2>2 DEF s
<1>4. Hand(p)'
    BY <1>2, <1>3 DEF HandInv, Hand, Claimed, Consumed, Accounted, Unsettled
<1>5. Stored' = Stored
    BY <1>2 DEF Stored
<1>6. QED BY <1>1, <1>2, <1>4, <1>5, LiveLease, SameService

\* The runtime claims the head of the queue, or learns what the file says.
LEMMA ClaimServes ==
    ASSUME Inv, Inv', HandInv, NEW p \in Owner,
           Dispatch(p) \/ RefreshAfterClaim(p) \/ RefreshAfterSettle(p)
    PROVE  HandInv' /\ Serves
<1>0. Live(p) /\ TypeOK /\ Runtime(p) /\ Recovered(disk) = disk
    BY Sole DEF Dispatch, RefreshAfterClaim, RefreshAfterSettle, Live, Inv, TypeInv
<1>1. DOMAIN disp = Owner /\ DOMAIN cmd = Owner
    BY <1>0 DEF TypeOK
<1>2. UNCHANGED <<life, consumed, accepted, taken, excused, dropped, steered>>
    BY DEF Dispatch, Claim, RefreshAfterClaim, RefreshAfterSettle, PendingUserMessages, ghostVars
<1>3. CASE Dispatch(p) /\ Claimable(disk)
    <2> DEFINE q == disk.queue
               m == Head(q)
    <2>1. /\ disk' = [disk EXCEPT !.queue = Tail(@), !.inflight = m, !.infOwner = p]
          /\ cmd' = [cmd EXCEPT ![p] = m] /\ disp' = [disp EXCEPT ![p] = "claiming"]
        BY <1>0, <1>3 DEF Dispatch, Claim, ClaimedMessage
    <2>2. disk'.queue = Tail(q) /\ disk'.inflight = m /\ disk'.turn = disk.turn
        BY <1>0, <2>1, FileParts
    <2>3. q \in Seq(Msg) /\ q # <<>> /\ disk.inflight = NoMsg
        BY <1>0, <1>3, FileParts DEF Claimable
    <2>4. m \in Msg /\ ToSet(q) = {m} \cup ToSet(Tail(q))
        <3> HIDE DEF q
        <3>1. Head(q) \in ToSet(q) /\ ToSet(q) = {Head(q)} \cup ToSet(Tail(q)) /\ ToSet(q) \subseteq Msg
            BY <2>3, TailParts, ElementIn
        <3>2. QED BY <3>1
    <2> HIDE DEF m
    <2>5. Stored' = Stored
        BY <2>2, <2>3, <2>4, NullsAssumption DEF Stored
    <2>6. cmd'[p] = m /\ disp'[p] = "claiming"
        BY <1>1, <2>1
    <2>7. Hand(p)'
        BY <1>2, <2>2, <2>6 DEF HandInv, Hand, Claimed, Consumed, Accounted
    <2>8. QED BY <1>0, <1>2, <2>5, <2>7, LiveLease, SameService
<1>4. CASE ~(Dispatch(p) /\ Claimable(disk))
    <2>1. disk' = disk
        BY <1>0, <1>4 DEF Dispatch, Claim, RefreshAfterClaim, RefreshAfterSettle, PendingUserMessages
    <2>2. /\ disp'[p] # "admitted"
          /\ Unsettled(p)' => Unsettled(p) /\ cmd'[p] = cmd[p]
        <3>1. CASE Dispatch(p)
            <4>1. cmd' = [cmd EXCEPT ![p] = NoMsg] /\ disp' = [disp EXCEPT ![p] = "claiming"]
                BY <1>0, <1>4, <3>1 DEF Dispatch, ClaimedMessage
            <4>2. QED BY <1>1, <4>1 DEF Unsettled
        <3>2. CASE RefreshAfterClaim(p)
            <4>1. /\ cmd' = cmd /\ disp[p] = "claiming"
                  /\ disp' = [disp EXCEPT ![p] = IF cmd[p] = NoMsg THEN "idle" ELSE "claimed"]
                BY <3>2 DEF RefreshAfterClaim
            <4>2. disp'[p] = IF cmd[p] = NoMsg THEN "idle" ELSE "claimed"
                BY <1>1, <4>1
            <4>3. QED BY <4>1, <4>2 DEF Unsettled
        <3>3. CASE RefreshAfterSettle(p)
            <4>1. disp' = [disp EXCEPT ![p] = "settled"]
                BY <3>3 DEF RefreshAfterSettle
            <4>2. QED BY <1>1, <4>1 DEF Unsettled
        <3>4. QED BY <3>1, <3>2, <3>3
    <2>3. Hand(p)'
        BY <1>2, <2>1, <2>2 DEF HandInv, Hand, Claimed, Consumed, Accounted
    <2>4. Stored' = Stored
        BY <2>1 DEF Stored
    <2>5. QED BY <1>0, <1>2, <2>3, <2>4, LiveLease, SameService
<1>5. QED BY <1>3, <1>4

\* A turn takes m in.
LEMMA ServeStep ==
    ASSUME Inv, Inv', HandInv, NEW p \in Owner, NEW m \in Msg, Live(p), Hand(p)',
           UNCHANGED <<disk, life, accepted, excused, dropped, steered>>,
           taken' = [taken EXCEPT ![m] = @ + 1], taken[m] <= excused[m],
           \/ m \in dropped
           \/ m \in Stored \cap steered
           \/ m = disk.inflight
    PROVE  HandInv' /\ Serves
<1>0. TypeOK /\ TypeOK' /\ Places /\ InOrder
    BY DEF Inv, TypeInv, AloneInv
<1>1. Stored' = Stored /\ Stored \subseteq Msg
    BY <1>0, WaitingIsStored DEF Stored, Waiting
<1>2. \A x \in Msg : taken[x] \in Nat /\ excused[x] \in Nat /\ excused[x] <= taken[x]
    BY <1>0, BoundsAssumption DEF TypeOK, HandInv, Countable
<1>3. DOMAIN taken = Msg
    BY <1>0 DEF TypeOK
<1>4. taken[m] = excused[m]
    BY <1>2
<1>5. Countable'
    BY <1>2, <1>3 DEF Countable
<1> DEFINE W == Waiting
           First == \A i, j \in DOMAIN accepted :
                        accepted[j] = m /\ accepted[i] \in W \ steered => j <= i
<1>6. W = Stored
    BY <1>0, WaitingIsStored
<1>7. (TypeOK => Waiting = Stored)'
    BY WaitingIsStored, PTL
<1>8. W' = W
    BY <1>0, <1>1, <1>6, <1>7
<1>9. ASSUME m = disk.inflight, m \notin steered PROVE m \in W /\ First
    <2>1. m \in Stored
        BY <1>9, NullsAssumption DEF Stored
    <2>2. ASSUME NEW i \in DOMAIN accepted, NEW j \in DOMAIN accepted,
                 accepted[j] = m, accepted[i] \in Stored \ steered
          PROVE  j <= i
        <3>0. i \in Nat /\ j \in Nat
            <4>1. accepted \in Seq(Msg)
                BY <1>0 DEF TypeOK
            <4>2. DOMAIN accepted = 1..Len(accepted)
                BY <4>1
            <4>3. QED BY <4>2
        <3>1. \A k \in DOMAIN accepted : Position(accepted[k]) = k
            BY <1>0 DEF Places, Distinct, Position
        <3>2. CASE accepted[i] = m
            BY <1>0, <2>2, <3>0, <3>2 DEF Places, Distinct
        <3>3. CASE accepted[i] \in ToSet(disk.queue)
            <4>1. <<m, accepted[i]>> \in Ahead
                BY <1>0, <1>9, <3>3, NullsAssumption DEF InOrder
            <4>2. Plain(m) /\ Plain(accepted[i])
                BY <1>9, <2>2 DEF Plain, ToSet
            <4>3. Position(m) < Position(accepted[i])
                BY <4>1, <4>2 DEF Ahead
            <4>4. Position(m) = j /\ Position(accepted[i]) = i
                BY <2>2, <3>1
            <4>5. QED BY <3>0, <4>3, <4>4
        <3>4. accepted[i] \notin ToSet(disk.turn)
            BY <1>0, <2>2 DEF Places
        <3>5. QED BY <1>9, <2>2, <3>2, <3>3, <3>4 DEF Stored
    <2>3. First
        BY <1>6, <2>2
    <2>4. QED BY <1>6, <2>1, <2>3
<1>10. \/ m \in dropped
       \/ m \in W \cap steered
       \/ m \in W /\ First
    <2>1. m = disk.inflight => m \in W
        BY <1>6, NullsAssumption DEF Stored
    <2>2. QED BY <1>6, <1>9, <2>1
<1>11. First <=> Service!First(m)
    BY DEF Service!First, Waiting
<1> HIDE DEF W, First
<1>12. Service!Serve(m)
    BY <1>4, <1>8, <1>10, <1>11, Zenon DEF Service!Serve, W, Waiting
<1>13. Serves
    BY <1>12 DEF Serves, Service!ServiceNext
<1>14. QED BY <1>5, <1>13, LiveLease, HandFrom

LEMMA AdmitServes ==
    ASSUME Inv, Inv', HandInv, NEW p \in Owner, Admit(p)
    PROVE  HandInv' /\ Serves
<1> DEFINE m == cmd[p]
<1>0. /\ Runtime(p) /\ TypeOK /\ TypeOK' /\ Live(p) /\ disp[p] = "started" /\ Hand(p)
    BY Sole DEF Inv, TypeInv, Admit, Ready, Live, HandInv
<1>1. /\ UNCHANGED <<disk, life, cmd, consumed, accepted, excused, dropped, steered>>
      /\ disp'[p] = "admitted"
      /\ taken' = [taken EXCEPT ![m] = @ + 1]
    BY <1>0 DEF Admit, storeVars, TypeOK
<1>2. Unsettled(p) /\ m \in Msg
    BY <1>0 DEF Inv, FenceInv, Captured, Unsettled, TypeOK
<1>3. taken[m] <= excused[m] /\ m \in {disk.inflight} \cup dropped
    BY <1>0, <1>2 DEF Runtime, Counted, Hand, Claimed
<1>4. excused[m] \in Nat /\ taken[m] \in Nat /\ excused[m] <= taken[m]
    BY <1>0, <1>2, BoundsAssumption DEF TypeOK, HandInv, Countable
<1>5. consumed[p].stage # "none" => consumed[p].msg # m
    BY <1>0, <1>2 DEF Runtime, Consuming
<1> HIDE DEF m
<1>6. taken'[m] = excused[m] + 1 /\ \A x : x # m => taken'[x] = taken[x]
    <2>1. DOMAIN taken = Msg
        BY <1>0 DEF TypeOK
    <2>2. QED BY <1>1, <1>2, <1>3, <1>4, <2>1
<1>7. cmd'[p] = m /\ cmd[p] = m
    BY <1>1 DEF m
<1>8. Hand(p)'
    <2>1. Claimed(p)' /\ Consumed(p)'
        BY <1>0, <1>1, <1>3, <1>7 DEF Hand, Claimed, Consumed
    <2>2. Accounted(p)'
        BY <1>0, <1>1, <1>5, <1>6, <1>7 DEF Hand, Accounted
    <2>3. QED BY <2>1, <2>2 DEF Hand
<1>9. QED BY <1>0, <1>1, <1>2, <1>3, <1>8, ServeStep

LEMMA DeliverServes ==
    ASSUME Inv, Inv', HandInv, NEW p \in Owner, DeliverSteer(p)
    PROVE  HandInv' /\ Serves
<1> DEFINE m == consumed[p].msg
<1>0. /\ Runtime(p) /\ TypeOK /\ TypeOK' /\ Live(p) /\ Hand(p) /\ Places
    BY Sole DEF Inv, TypeInv, DeliverSteer, Ready, Live, HandInv, AloneInv
<1>1. /\ UNCHANGED <<disk, life, disp, cmd, accepted, excused, dropped, steered>>
      /\ consumed[p].stage = "popped"
      /\ taken' = [taken EXCEPT ![m] = @ + 1]
    BY DEF DeliverSteer, storeVars
<1>2. consumed'[p].msg = m /\ consumed'[p].stage = "delivered"
    <2>1. consumed' = [consumed EXCEPT ![p].stage = "delivered"]
        BY DEF DeliverSteer
    <2>2. consumed \in [Owner -> [msg : Msg \cup {NoMsg}, stage : {"none", "popped", "delivered"}]]
        BY <1>0 DEF TypeOK
    <2>3. QED BY <2>1, <2>2
<1>3. m \in Msg /\ taken[m] <= excused[m] /\ (Unsettled(p) => m # cmd[p])
    BY <1>0, <1>1, ElementIn DEF Runtime, Consuming, Counted, TypeOK
<1>4. m \in ToSet(disk.turn) \cup dropped
    BY <1>0, <1>1 DEF Hand, Consumed
<1>5. m \in dropped \/ m \in Stored \cap steered
    BY <1>0, <1>4 DEF Places, Stored
<1>6. excused[m] \in Nat /\ taken[m] \in Nat /\ excused[m] <= taken[m]
    <2>1. MaxTaken \in Nat /\ taken \in [Msg -> 0..MaxTaken] /\ excused \in [Msg -> Nat]
        BY <1>0, BoundsAssumption DEF TypeOK
    <2>2. QED BY <1>3, <2>1 DEF HandInv, Countable
<1> HIDE DEF m
<1>7. taken'[m] = excused[m] + 1 /\ \A x : x # m => taken'[x] = taken[x]
    <2>1. DOMAIN taken = Msg
        BY <1>0 DEF TypeOK
    <2>2. QED BY <1>1, <1>3, <1>6, <2>1
<1>8. disp[p] = "admitted" => cmd[p] # m
    BY <1>0, <1>3 DEF Inv, FenceInv, Captured, Unsettled
<1>9. Hand(p)'
    <2>1. Claimed(p)' /\ Consumed(p)'
        BY <1>0, <1>1, <1>2, <1>4 DEF Hand, Claimed, Consumed, Unsettled
    <2>2. Accounted(p)'
        BY <1>0, <1>1, <1>2, <1>7, <1>8 DEF Hand, Accounted
    <2>3. QED BY <2>1, <2>2 DEF Hand
<1>10. QED BY <1>0, <1>1, <1>3, <1>5, <1>9, ServeStep

\* Messages are removed, or the records of their taking lost.
LEMMA DiscardStep ==
    ASSUME Inv, Inv', HandInv, NEW p \in Owner, OwnerIsLive(p)', Hand(p)',
           NEW R \in SUBSET Stored, NEW L \in SUBSET Msg,
           \A m \in L : taken[m] = excused[m] + 1,
           dropped' = dropped \cup R, Stored' = Stored \ R, Excuse(L),
           UNCHANGED <<accepted, taken, steered>>
    PROVE  HandInv' /\ Serves
<1>1. TypeOK /\ TypeOK'
    BY DEF Inv, TypeInv
<1>2. Serves
    BY <1>1, ServiceSteps
<1>3. \A m \in Msg : excused[m] \in Nat /\ taken[m] \in Nat
    BY <1>1, BoundsAssumption DEF TypeOK
<1>4. Countable'
    <2>1. SUFFICES ASSUME NEW m \in Msg PROVE excused'[m] <= taken[m]
        BY DEF Countable
    <2>2. excused'[m] = excused[m] + (IF m \in L THEN 1 ELSE 0) /\ excused[m] <= taken[m]
        BY DEF Excuse, HandInv, Countable
    <2>3. QED BY <1>3, <2>2
<1>5. QED BY <1>2, <1>4, HandFrom

LEMMA SettleServes ==
    ASSUME Inv, Inv', HandInv, NEW p \in Owner, SettleAdmitted(p) \/ SettleRejected(p)
    PROVE  HandInv' /\ Serves
<1>0. /\ Runtime(p) /\ TypeOK /\ TypeOK' /\ Live(p) /\ Recovered(disk) = disk /\ Hand(p)
    BY Sole DEF Inv, TypeInv, HandInv, SettleAdmitted, SettleRejected, Ready, Live
<1>1. PICK s \in BOOLEAN : /\ FinishUserMessageDispatch(p, s)
                           /\ disp[p] \in {"claimed", "started", "admitted"}
                           /\ disp[p] = "admitted" <=> s
    BY DEF SettleAdmitted, SettleRejected, NotAdmitted
<1>2. UNCHANGED <<consumed, accepted, taken, excused, dropped, steered>>
    BY DEF SettleAdmitted, SettleRejected, ghostVars
<1>3. cmd[p] # NoMsg /\ DOMAIN disp = Owner
    BY <1>0, <1>1 DEF Inv, FenceInv, Captured, TypeOK
<1>4. CASE loc[p].inf # cmd[p]
    <2>1. disp' = [disp EXCEPT ![p] = "settled"] /\ disk' = disk /\ life' = life
        BY <1>1, <1>4 DEF FinishUserMessageDispatch, storeVars
    <2>2. disp'[p] = "settled"
        BY <1>3, <2>1
    <2>3. Hand(p)'
        BY <1>0, <1>2, <2>1, <2>2 DEF Hand, Claimed, Consumed, Accounted, Unsettled
    <2>4. Stored' = Stored
        BY <2>1 DEF Stored
    <2>5. QED BY <1>0, <1>2, <2>1, <2>3, <2>4, LiveLease, SameService
<1>5. CASE loc[p].inf = cmd[p]
    <2> DEFINE m == cmd[p]
               q == disk.queue
    <2>1. disk.inflight = m /\ disk.infOwner = p
        BY <1>0, <1>1, <1>3, <1>5 DEF Runtime, Shows, Synced
    <2>2. MaySettle(p, m)
        BY <1>0, <2>1 DEF MaySettle
    <2>3. /\ Settle(p, m, s) /\ disp' = [disp EXCEPT ![p] = "settling"]
        BY <1>1, <1>5, <2>2 DEF FinishUserMessageDispatch, RefuseSettle
    <2>4. /\ disk' = [disk EXCEPT !.inflight = NoMsg, !.infOwner = NoOwner,
                                  !.queue = IF s THEN @ ELSE <<m>> \o @]
          /\ life' = life
        BY <1>0, <2>3 DEF Settle
    <2>5. disk'.inflight = NoMsg /\ disk'.turn = disk.turn
          /\ disk'.queue = IF s THEN q ELSE <<m>> \o q
        BY <1>0, <2>4, FileParts
    <2>6. disp'[p] = "settling"
        BY <1>3, <2>3
    <2>7. Hand(p)'
        BY <1>0, <1>2, <2>5, <2>6 DEF Hand, Claimed, Consumed, Accounted, Unsettled
    <2>8. m \notin ToSet(q) \cup ToSet(disk.turn) /\ m \in Msg /\ q \in Seq(Msg)
        <3>1. m \in Msg /\ q \in Seq(Msg)
            <4>1. cmd \in [Owner -> Msg \cup {NoMsg}]
                BY <1>0 DEF TypeOK
            <4>2. QED BY <1>0, <1>3, <4>1, FileParts
        <3>2. Unsettled(p)
            BY <1>1, <1>3 DEF Unsettled
        <3>3. QED BY <1>0, <3>1, <3>2 DEF Runtime, Claiming
    <2>9. CASE s
        <3>1. m \in Stored /\ Stored' = Stored \ {m}
            BY <1>3, <2>1, <2>5, <2>8, <2>9 DEF Stored
        <3>2. taken[m] = excused[m] + 1
            BY <1>0, <1>1, <2>9 DEF Hand, Accounted
        <3>3. Serves
            BY <1>0, <1>2, <3>1, <3>2, ServiceSteps
        <3>4. Countable'
            BY <1>2 DEF HandInv, Countable
        <3>5. QED BY <1>0, <2>4, <2>7, <3>3, <3>4, LiveLease, HandFrom
    <2>10. CASE ~s
        <3>1. ToSet(<<m>> \o q) = {m} \cup ToSet(q)
            <4> HIDE DEF m, q
            <4>1. <<m>> \in Seq(Msg) /\ q \in Seq(Msg) /\ ToSet(<<m>>) = {m}
                BY <2>8, SortedOne
            <4>2. ToSet(<<m>> \o q) = ToSet(<<m>>) \cup ToSet(q)
                BY <4>1, JoinSet, ZenonT(60)
            <4>3. QED BY <4>1, <4>2
        <3>2. Stored' = Stored
            BY <1>3, <2>1, <2>5, <2>10, <3>1 DEF Stored
        <3>3. QED BY <1>0, <1>2, <2>4, <2>7, <3>2, LiveLease, SameService
    <2>11. QED BY <2>9, <2>10
<1>6. QED BY <1>4, <1>5

LEMMA SettleFailsServes ==
    ASSUME Inv, Inv', HandInv, NEW p \in Owner, SettleFails(p)
    PROVE  HandInv' /\ Serves
<1> DEFINE m == cmd[p]
<1>0. /\ Runtime(p) /\ TypeOK /\ TypeOK' /\ Live(p) /\ Hand(p)
      /\ disp[p] \in {"claimed", "started", "admitted"}
    BY Sole DEF Inv, TypeInv, HandInv, SettleFails, NotAdmitted, Ready, Live
<1>1. UNCHANGED <<disk, life, cmd, consumed, accepted, taken, dropped, steered>>
    BY DEF SettleFails, storeVars
<1>2. disp'[p] \in {"settled", "idle"}
    BY <1>0 DEF SettleFails, TypeOK
<1>3. Unsettled(p) /\ m \in Msg
    BY <1>0 DEF Inv, FenceInv, Captured, Unsettled, TypeOK
<1>4. Claimed(p)' /\ Consumed(p)'
    BY <1>0, <1>1, <1>2 DEF Hand, Claimed, Consumed, Unsettled
<1>5. excused \in [Msg -> Nat]
    BY <1>0 DEF TypeOK
<1>6. consumed[p].stage # "none" => consumed[p].msg # m /\ consumed[p].msg \in Msg
    <2>1. ToSet(accepted) \subseteq Msg
        BY <1>0, ElementIn DEF TypeOK
    <2>2. QED BY <1>0, <1>3, <2>1 DEF Runtime, Consuming
<1>7. Stored' = Stored
    BY <1>1 DEF Stored
<1>8. CASE disp[p] = "admitted"
    <2>1. excused' = [excused EXCEPT ![m] = @ + 1]
        BY <1>8 DEF SettleFails
    <2>2. taken[m] = excused[m] + 1
        BY <1>0, <1>8 DEF Hand, Accounted
    <2> HIDE DEF m
    <2>3. Excuse({m})
        <3>1. \A x \in Msg : excused'[x] = excused[x] + (IF x \in {m} THEN 1 ELSE 0)
            BY <1>3, <1>5, <2>1
        <3>2. excused' = [x \in Msg |-> excused'[x]]
            BY <1>5, <2>1
        <3>3. QED BY <3>1, <3>2, Zenon DEF Excuse
    <2>4. \A x \in Msg \ {m} : excused'[x] = excused[x]
        BY <1>5, <2>1
    <2>5. Hand(p)'
        <3>1. Accounted(p)'
            BY <1>0, <1>1, <1>2, <1>6, <2>4 DEF Hand, Accounted
        <3>2. QED BY <1>4, <3>1 DEF Hand
    <2>6. {} \in SUBSET Stored /\ {m} \in SUBSET Msg /\ \A x \in {m} : taken[x] = excused[x] + 1
        BY <1>3, <2>2
    <2>7. dropped' = dropped \cup {} /\ Stored' = Stored \ {}
        BY <1>1, <1>7
    <2>8. OwnerIsLive(p)'
        BY <1>0, <1>1, LiveLease
    <2>9. QED BY <1>1, <2>3, <2>5, <2>6, <2>7, <2>8, DiscardStep
<1>9. CASE disp[p] # "admitted"
    <2>1. excused' = [excused EXCEPT ![m] = @ + 0]
        BY <1>9 DEF SettleFails
    <2> HIDE DEF m
    <2>2. excused' = excused
        BY <1>3, <1>5, <2>1
    <2>3. Hand(p)'
        BY <1>0, <1>1, <1>2, <1>4, <2>2 DEF Hand, Accounted
    <2>4. QED BY <1>0, <1>1, <1>7, <2>2, <2>3, LiveLease, SameService
<1>10. QED BY <1>8, <1>9

\* The consumption of a steer ends; its taking may go unrecorded.
LEMMA ConsumptionEnds ==
    ASSUME Inv, Inv', HandInv, NEW p \in Owner, Live(p), life' = life,
           UNCHANGED <<disp, cmd, accepted, taken, dropped, steered>>,
           Stored' = Stored, disk'.inflight = disk.inflight, consumed'[p] = NoneConsumed,
           consumed[p].stage = "delivered" => Excuse({consumed[p].msg}) \/ excused' = excused,
           consumed[p].stage # "delivered" => excused' = excused
    PROVE  HandInv' /\ Serves
<1> DEFINE m == consumed[p].msg
<1>0. TypeOK /\ TypeOK' /\ NoneConsumed.stage = "none"
    BY DEF Inv, TypeInv, NoneConsumed
<1>1. Runtime(p) /\ Hand(p)
    BY Sole DEF HandInv
<1>2. Claimed(p)' /\ Consumed(p)'
    BY <1>0, <1>1 DEF Hand, Claimed, Consumed, Unsettled
<1>3. CASE consumed[p].stage = "delivered" /\ Excuse({m})
    <2>1. m \in Msg /\ (disp[p] = "admitted" => cmd[p] \in Msg \ {m})
        <3>1. ToSet(accepted) \subseteq Msg
            BY <1>0, ElementIn DEF TypeOK
        <3>2. disp[p] = "admitted" => Unsettled(p) /\ cmd[p] \in Msg
            BY <1>0 DEF Inv, FenceInv, Captured, Unsettled, TypeOK
        <3>3. QED BY <1>1, <1>3, <3>1, <3>2 DEF Runtime, Consuming
    <2>2. taken[m] = excused[m] + 1
        BY <1>1, <1>3 DEF Hand, Accounted
    <2> HIDE DEF m
    <2>3. \A x \in Msg \ {m} : excused'[x] = excused[x]
        <3>1. \A x \in Msg : excused[x] \in Nat
            BY <1>0 DEF TypeOK
        <3>2. QED BY <1>3, <3>1 DEF Excuse
    <2>4. Hand(p)'
        <3>1. Accounted(p)'
            BY <1>0, <1>1, <2>1, <2>3 DEF Hand, Accounted
        <3>2. QED BY <1>2, <3>1 DEF Hand
    <2>5. {} \in SUBSET Stored /\ {m} \in SUBSET Msg /\ \A x \in {m} : taken[x] = excused[x] + 1
        BY <2>1, <2>2
    <2>6. dropped' = dropped \cup {} /\ Stored' = Stored \ {}
        OBVIOUS
    <2>7. OwnerIsLive(p)'
        BY LiveLease
    <2>8. QED BY <1>3, <2>4, <2>5, <2>6, <2>7, DiscardStep
<1>4. CASE excused' = excused
    <2>1. Hand(p)'
        BY <1>0, <1>1, <1>2, <1>4 DEF Hand, Accounted
    <2>2. QED BY <1>4, <2>1, LiveLease, SameService
<1>5. QED BY <1>3, <1>4

LEMMA UnpublishedServes ==
    ASSUME Inv, Inv', HandInv, NEW p \in Owner,
           \/ AckFails(p) \/ EndRunFails(p)
           \/ AckSteer(p) /\ consumed[p].msg \notin ToSet(loc[p].turn)
           \/ EndRun(p) /\ Restored(p) = <<>>
    PROVE  HandInv' /\ Serves
<1>1. TypeOK /\ TypeOK'
    BY DEF Inv, TypeInv
<1>2. /\ Live(p) /\ UNCHANGED <<disk, life, disp, cmd, accepted, taken, dropped, steered>>
      /\ consumed' = [consumed EXCEPT ![p] = NoneConsumed]
      /\ consumed[p].stage = "delivered" => Excuse({consumed[p].msg}) \/ excused' = excused
      /\ consumed[p].stage # "delivered" => excused' = excused
    BY <1>1, UnpublishedParts
<1>3. consumed'[p] = NoneConsumed
    BY <1>1, <1>2 DEF TypeOK
<1>4. Stored' = Stored /\ disk'.inflight = disk.inflight
    BY <1>2 DEF Stored
<1>5. QED BY <1>2, <1>3, <1>4, ConsumptionEnds

LEMMA PublishedFile ==
    ASSUME Inv, NEW p \in Owner, Live(p), NEW q \in Seq(Msg), NEW i \in {NoMsg, loc[p].inf},
           NEW t \in Seq(Msg), Persist(p, q, i, t)
    PROVE  disk'.queue = q /\ disk'.inflight = i /\ disk'.turn = t /\ life' = life
<1>1. i \in Msg \cup {NoMsg}
    BY SnapshotsTyped DEF Inv, TypeInv
<1>2. disk'.queue = q
    BY <1>1, PersistEffect
<1>3. disk'.inflight = i
    BY <1>1, PersistEffect
<1>4. disk'.turn = t
    BY <1>1, PersistEffect
<1>5. life' = life
    BY <1>1, PersistEffect
<1>6. QED BY <1>2, <1>3, <1>4, <1>5

\* What a published snapshot leaves in the file, and in hand.
LEMMA PublishedHand ==
    ASSUME Inv, NEW p \in Owner, Live(p), disp[p] \notin {"claiming", "settling"}, Hand(p),
           NEW q \in Seq(Msg), NEW i \in {NoMsg, loc[p].inf}, NEW t \in Seq(Msg), Persist(p, q, i, t),
           UNCHANGED <<disp, cmd>>, dropped \subseteq dropped',
           i # disk.inflight => disk.inflight \in dropped'
    PROVE  /\ Stored' = ToSet(q) \cup ToSet(t) \cup ({i} \ {NoMsg})
           /\ disk'.inflight = i /\ disk'.turn = t /\ Claimed(p)' /\ life' = life
           /\ OwnerIsLive(p)'
<1>2. disk'.queue = q /\ disk'.inflight = i /\ disk'.turn = t /\ life' = life
    BY PublishedFile
<1>3. Stored' = ToSet(q) \cup ToSet(t) \cup ({i} \ {NoMsg})
    BY <1>2 DEF Stored
<1>4. Claimed(p)'
    BY <1>2 DEF Hand, Claimed, Unsettled
<1>5. QED BY <1>2, <1>3, <1>4, LiveLease

LEMMA NoneExcused == TypeOK /\ excused' = excused => Excuse({})
<1>1. SUFFICES ASSUME TypeOK, excused' = excused PROVE Excuse({})
    OBVIOUS
<1>2. excused \in [Msg -> Nat]
    BY <1>1 DEF TypeOK
<1>3. \A x \in Msg : excused[x] = excused[x] + (IF x \in {} THEN 1 ELSE 0)
    BY <1>2
<1>4. excused = [x \in Msg |-> excused[x]]
    BY <1>2
<1>5. QED BY <1>1, <1>3, <1>4, Zenon DEF Excuse

\* The user submits a message, as a follow-up or as a steer.
LEMMA EnterServes ==
    ASSUME Inv, Inv', HandInv, NEW p \in Owner, NEW m \in Msg, Submit(p, m) \/ SubmitSteer(p, m)
    PROVE  HandInv' /\ Serves
<1> DEFINE queue == disk.queue
           turn == disk.turn
<1>0. Live(p) /\ disp[p] \notin {"claiming", "settling"} /\ m \notin ToSet(accepted) /\ Hand(p)
      /\ TypeOK /\ TypeOK'
    BY DEF Submit, SubmitSteer, Ready, Live, Fresh, HandInv, Inv, TypeInv
<1>1. /\ queue \in Seq(Msg) /\ turn \in Seq(Msg) /\ loc[p].inf = disk.inflight
      /\ Stored = ToSet(queue) \cup ToSet(turn) \cup ({disk.inflight} \ {NoMsg})
    BY <1>0, Between
<1>2. PICK q, t \in Seq(Msg) :
          /\ Persist(p, q, loc[p].inf, t)
          /\ ToSet(q) \cup ToSet(t) = ToSet(queue) \cup ToSet(turn) \cup {m}
          /\ ToSet(turn) \subseteq ToSet(t)
    <2>1. /\ Append(queue, m) \in Seq(Msg) /\ ToSet(Append(queue, m)) = ToSet(queue) \cup {m}
          /\ Append(turn, m) \in Seq(Msg) /\ ToSet(Append(turn, m)) = ToSet(turn) \cup {m}
        <3> HIDE DEF queue, turn
        <3>1. QED BY <1>1, AppendSet
    <2>2. \/ Persist(p, Append(queue, m), loc[p].inf, turn)
          \/ Persist(p, queue, loc[p].inf, Append(turn, m))
        BY <1>0, Between DEF Submit, SubmitSteer
    <2>3. CASE Persist(p, Append(queue, m), loc[p].inf, turn)
        <3> DEFINE a == Append(queue, m)
        <3> HIDE DEF a, queue, turn
        <3>1. a \in Seq(Msg) /\ ToSet(a) = ToSet(queue) \cup {m} /\ Persist(p, a, loc[p].inf, turn)
            BY <2>1, <2>3 DEF a
        <3>2. QED BY <1>1, <3>1
    <2>4. CASE Persist(p, queue, loc[p].inf, Append(turn, m))
        <3> DEFINE a == Append(turn, m)
        <3> HIDE DEF a, queue, turn
        <3>1. a \in Seq(Msg) /\ ToSet(a) = ToSet(turn) \cup {m} /\ Persist(p, queue, loc[p].inf, a)
            BY <2>1, <2>4 DEF a
        <3>2. QED BY <1>1, <3>1
    <2>5. QED BY <2>2, <2>3, <2>4
<1>3. /\ UNCHANGED <<consumed, disp, cmd, taken, excused, dropped>>
      /\ accepted' = Append(accepted, m) /\ steered' \in {steered, steered \cup {m}}
    BY DEF Submit, SubmitSteer
<1>4. /\ Stored' = ToSet(q) \cup ToSet(t) \cup ({loc[p].inf} \ {NoMsg})
      /\ disk'.turn = t /\ Claimed(p)' /\ OwnerIsLive(p)'
    BY <1>0, <1>1, <1>2, <1>3, PublishedHand
<1>5. Stored' = Stored \cup {m}
    BY <1>1, <1>2, <1>4
<1>6. Hand(p)'
    BY <1>0, <1>2, <1>3, <1>4 DEF Hand, Consumed, Accounted
<1>7. Serves
    BY <1>0, <1>3, <1>5, ServiceSteps
<1>8. Countable'
    BY <1>3 DEF HandInv, Countable
<1>9. QED BY <1>4, <1>6, <1>7, <1>8, HandFrom

LEMMA CancelServes ==
    ASSUME Inv, Inv', HandInv, NEW p \in Owner, NEW m \in Msg, Cancel(p, m)
    PROVE  HandInv' /\ Serves
<1> DEFINE queue == disk.queue
           q == Without(queue, m)
<1>0. Live(p) /\ disp[p] \notin {"claiming", "settling"} /\ Hand(p) /\ TypeOK /\ Places
    BY DEF Cancel, Ready, Live, HandInv, Inv, TypeInv, AloneInv
<1>1. /\ queue \in Seq(Msg) /\ disk.turn \in Seq(Msg) /\ loc[p].inf = disk.inflight
      /\ Distinct(queue) /\ m \in ToSet(queue) /\ m \notin ToSet(disk.turn)
      /\ Stored = ToSet(queue) \cup ToSet(disk.turn) \cup ({disk.inflight} \ {NoMsg})
    BY <1>0, Between DEF Cancel
<1>2. /\ UNCHANGED <<consumed, disp, cmd, taken, excused, accepted, steered>>
      /\ Persist(p, q, loc[p].inf, disk.turn) /\ dropped' = dropped \cup {m}
    BY <1>0, Between DEF Cancel
<1>3. q \in Seq(Msg) /\ ToSet(q) = ToSet(queue) \ {m}
    BY <1>1, WithoutParts
<1> HIDE DEF q
<1>4. /\ Stored' = ToSet(q) \cup ToSet(disk.turn) \cup ({loc[p].inf} \ {NoMsg})
      /\ disk'.turn = disk.turn /\ Claimed(p)' /\ OwnerIsLive(p)'
    BY <1>0, <1>1, <1>2, <1>3, PublishedHand
<1>5. m # disk.inflight
    BY <1>0, <1>1 DEF Places
<1>6. Stored' = Stored \ {m} /\ {m} \in SUBSET Stored
    BY <1>1, <1>3, <1>4, <1>5
<1>7. Hand(p)'
    BY <1>0, <1>2, <1>4 DEF Hand, Consumed, Accounted
<1>8. Excuse({})
    BY <1>0, <1>2, NoneExcused
<1>9. QED BY <1>2, <1>4, <1>6, <1>7, <1>8, DiscardStep

LEMMA RedirectServes ==
    ASSUME Inv, Inv', HandInv, NEW p \in Owner, NEW m \in Msg, SteerQueued(p, m)
    PROVE  HandInv' /\ Serves
<1> DEFINE queue == disk.queue
           turn == disk.turn
           q == Without(queue, m)
           t == Append(turn, m)
<1>0. Live(p) /\ disp[p] \notin {"claiming", "settling"} /\ Hand(p) /\ TypeOK /\ TypeOK'
    BY DEF SteerQueued, Ready, Live, HandInv, Inv, TypeInv
<1>1. /\ queue \in Seq(Msg) /\ turn \in Seq(Msg) /\ loc[p].inf = disk.inflight
      /\ Distinct(queue) /\ m \in ToSet(queue)
      /\ Stored = ToSet(queue) \cup ToSet(turn) \cup ({disk.inflight} \ {NoMsg})
    BY <1>0, Between DEF SteerQueued
<1>2. /\ UNCHANGED <<consumed, disp, cmd, taken, excused, accepted, dropped>>
      /\ Persist(p, q, loc[p].inf, t) /\ steered' = steered \cup {m}
    BY <1>0, Between DEF SteerQueued
<1>3. q \in Seq(Msg) /\ ToSet(q) = ToSet(queue) \ {m}
    BY <1>1, WithoutParts
<1>4. t \in Seq(Msg) /\ ToSet(t) = ToSet(turn) \cup {m}
    <2> HIDE DEF turn
    <2>1. QED BY <1>1, AppendSet
<1> HIDE DEF q, t
<1>5. /\ Stored' = ToSet(q) \cup ToSet(t) \cup ({loc[p].inf} \ {NoMsg})
      /\ disk'.turn = t /\ Claimed(p)' /\ OwnerIsLive(p)'
    BY <1>0, <1>1, <1>2, <1>3, <1>4, PublishedHand
<1>6. Stored' = Stored /\ m \in Stored
    BY <1>1, <1>3, <1>4, <1>5
<1>7. Hand(p)'
    BY <1>0, <1>2, <1>4, <1>5 DEF Hand, Consumed, Accounted
<1>8. Serves
    BY <1>0, <1>2, <1>6, ServiceSteps
<1>9. Countable'
    BY <1>2 DEF HandInv, Countable
<1>10. QED BY <1>5, <1>7, <1>8, <1>9, HandFrom

LEMMA RestoreServes ==
    ASSUME Inv, Inv', HandInv, NEW p \in Owner, RestoreAsFollowUp(p)
    PROVE  HandInv' /\ Serves
<1> DEFINE m == todo[p].msg
           queue == disk.queue
           turn == disk.turn
           q == <<m>> \o queue
           t == Without(turn, m)
<1>0. Live(p) /\ disp[p] \notin {"claiming", "settling"} /\ Idle.act = "none" /\ TypeOK
      /\ Runtime(p) /\ todo[p].act = "restore" /\ Hand(p)
    BY Sole DEF RestoreAsFollowUp, Live, Idle, Inv, TypeInv, FenceInv, OneCall, HandInv
<1>1. /\ queue \in Seq(Msg) /\ turn \in Seq(Msg) /\ Distinct(turn) /\ loc[p].inf = disk.inflight
      /\ m \in ToSet(turn) /\ m # consumed[p].msg /\ m \in Msg
      /\ Stored = ToSet(queue) \cup ToSet(turn) \cup ({disk.inflight} \ {NoMsg})
    BY <1>0, Between DEF Runtime, Steering
<1>2. /\ UNCHANGED <<consumed, disp, cmd, taken, excused, accepted, steered, dropped>>
      /\ Persist(p, q, loc[p].inf, t)
    BY <1>0, Between DEF RestoreAsFollowUp, ghostVars
<1>3. t \in Seq(Msg) /\ ToSet(t) = ToSet(turn) \ {m}
    BY <1>1, WithoutParts
<1>4. q \in Seq(Msg) /\ ToSet(q) = ToSet(queue) \cup {m}
    <2> HIDE DEF m, queue
    <2>1. <<m>> \in Seq(Msg) /\ ToSet(<<m>>) = {m} /\ <<m>> \o queue \in Seq(Msg)
        BY <1>1, SortedOne
    <2>2. ToSet(<<m>> \o queue) = ToSet(<<m>>) \cup ToSet(queue)
        BY <1>1, <2>1, JoinSet, ZenonT(60)
    <2>3. QED BY <2>1, <2>2
<1> HIDE DEF q, t
<1>5. /\ Stored' = ToSet(q) \cup ToSet(t) \cup ({loc[p].inf} \ {NoMsg})
      /\ disk'.turn = t /\ Claimed(p)' /\ life' = life /\ OwnerIsLive(p)'
    BY <1>0, <1>1, <1>2, <1>3, <1>4, PublishedHand
<1>6. Stored' = Stored
    BY <1>1, <1>3, <1>4, <1>5
<1>7. Consumed(p)'
    BY <1>0, <1>1, <1>2, <1>3, <1>5 DEF Hand, Consumed
<1>8. Hand(p)'
    BY <1>0, <1>2, <1>5, <1>7 DEF Hand, Accounted
<1>9. QED BY <1>2, <1>5, <1>6, <1>8, SameService

\* The taking of a steer is recorded.
LEMMA AckServes ==
    ASSUME Inv, Inv', HandInv, NEW p \in Owner, AckSteer(p), consumed[p].msg \in ToSet(loc[p].turn)
    PROVE  HandInv' /\ Serves
<1> DEFINE m == consumed[p].msg
           queue == disk.queue
           turn == disk.turn
           t == Without(turn, m)
<1>0. Live(p) /\ disp[p] \notin {"claiming", "settling"} /\ TypeOK /\ TypeOK' /\ Hand(p) /\ Places
      /\ consumed[p].stage = "delivered" /\ NoneConsumed.stage = "none"
    BY DEF AckSteer, Ready, Live, NoneConsumed, Inv, TypeInv, AloneInv, HandInv
<1>1. /\ queue \in Seq(Msg) /\ turn \in Seq(Msg) /\ Distinct(turn) /\ loc[p].inf = disk.inflight
      /\ m \in ToSet(turn) \ (ToSet(queue) \cup {disk.inflight})
      /\ Stored = ToSet(queue) \cup ToSet(turn) \cup ({disk.inflight} \ {NoMsg})
    BY <1>0, Between
<1>2. /\ UNCHANGED <<disp, cmd, taken, excused, accepted, steered, dropped>>
      /\ Persist(p, queue, loc[p].inf, t)
      /\ consumed' = [consumed EXCEPT ![p] = NoneConsumed]
    BY <1>0, Between DEF AckSteer, ghostVars
<1>3. t \in Seq(Msg) /\ ToSet(t) = ToSet(turn) \ {m}
    BY <1>1, WithoutParts
<1>4. taken[m] = excused[m] + 1
    BY <1>0 DEF Hand, Accounted
<1>5. consumed'[p] = NoneConsumed
    BY <1>0, <1>2 DEF TypeOK
<1> HIDE DEF t, m
<1>6. /\ Stored' = ToSet(queue) \cup ToSet(t) \cup ({loc[p].inf} \ {NoMsg})
      /\ Claimed(p)' /\ life' = life /\ OwnerIsLive(p)'
    BY <1>0, <1>1, <1>2, <1>3, PublishedHand
<1>7. m \in Stored /\ Stored' = Stored \ {m}
    BY <1>1, <1>3, <1>6
<1>8. Hand(p)'
    BY <1>0, <1>2, <1>5, <1>6 DEF Hand, Consumed, Accounted
<1>9. Serves
    BY <1>0, <1>2, <1>4, <1>7, ServiceSteps
<1>10. Countable'
    BY <1>2 DEF HandInv, Countable
<1>11. QED BY <1>6, <1>8, <1>9, <1>10, HandFrom

LEMMA NothingExcused == TypeOK /\ Excuse({}) => excused' = excused
<1>1. SUFFICES ASSUME TypeOK, Excuse({}) PROVE excused' = excused
    OBVIOUS
<1>2. excused \in [Msg -> Nat]
    BY <1>1 DEF TypeOK
<1>3. \A x \in Msg : excused[x] + (IF x \in {} THEN 1 ELSE 0) = excused[x]
    BY <1>2
<1>4. excused' = [x \in Msg |-> excused[x]]
    BY <1>1, <1>3 DEF Excuse
<1>5. QED BY <1>2, <1>4

LEMMA EndRunServes ==
    ASSUME Inv, Inv', HandInv, NEW p \in Owner, EndRun(p), Restored(p) # <<>>
    PROVE  HandInv' /\ Serves
<1> DEFINE queue == disk.queue
           turn == disk.turn
           q == turn \o queue
<1>0. Live(p) /\ disp[p] \notin {"claiming", "settling"} /\ TypeOK
    BY DEF EndRun, Ready, Live, Inv, TypeInv
<1>1. /\ queue \in Seq(Msg) /\ turn \in Seq(Msg) /\ loc[p].inf = disk.inflight
      /\ Stored = ToSet(queue) \cup ToSet(turn) \cup ({disk.inflight} \ {NoMsg})
    BY <1>0, Between
<1>2. /\ UNCHANGED <<disp, cmd, taken, accepted, steered, dropped>>
      /\ Persist(p, q, loc[p].inf, <<>>)
      /\ consumed' = [consumed EXCEPT ![p] = NoneConsumed]
      /\ Excuse(IF consumed[p].stage = "delivered" THEN {consumed[p].msg} ELSE {})
    BY <1>0, Between DEF EndRun
<1>3. q \in Seq(Msg) /\ ToSet(q) = ToSet(queue) \cup ToSet(turn)
    <2> HIDE DEF turn, queue
    <2>1. turn \o queue \in Seq(Msg)
        BY <1>1
    <2>2. ToSet(turn \o queue) = ToSet(turn) \cup ToSet(queue)
        BY <1>1, JoinSet
    <2>3. QED BY <2>1, <2>2
<1>4. <<>> \in Seq(Msg) /\ ToSet(<<>>) = {}
    BY DEF ToSet
<1> HIDE DEF q
<1>5. /\ disk'.queue = q /\ disk'.inflight = loc[p].inf /\ disk'.turn = <<>> /\ life' = life
    BY <1>0, <1>2, <1>3, <1>4, PublishedFile
<1>6. Stored' = Stored /\ disk'.inflight = disk.inflight
    BY <1>1, <1>3, <1>4, <1>5 DEF Stored
<1>7. consumed'[p] = NoneConsumed
    BY <1>0, <1>2 DEF TypeOK
<1>8. /\ consumed[p].stage = "delivered" => Excuse({consumed[p].msg})
      /\ consumed[p].stage # "delivered" => excused' = excused
    BY <1>0, <1>2, NothingExcused
<1>9. QED BY <1>0, <1>2, <1>5, <1>6, <1>7, <1>8, ConsumptionEnds

\* Everything the runtime held is removed.
LEMMA ClearServes ==
    ASSUME Inv, Inv', HandInv, NEW p \in Owner, Clear(p)
    PROVE  HandInv' /\ Serves
<1>0. Live(p) /\ disp[p] \notin {"claiming", "settling"} /\ TypeOK /\ Hand(p)
    BY DEF Clear, Ready, Live, Inv, TypeInv, HandInv
<1>1. /\ UNCHANGED <<disp, cmd, taken, consumed, excused, accepted, steered>>
      /\ Persist(p, <<>>, NoMsg, <<>>) /\ dropped' = dropped \cup Held(p)
    BY DEF Clear
<1>2. Held(p) = Stored
    BY <1>0, Between DEF Held
<1>3. disk.inflight # NoMsg => disk.inflight \in dropped'
    BY <1>1, <1>2 DEF Stored
<1>4. <<>> \in Seq(Msg) /\ ToSet(<<>>) = {} /\ NoMsg \in {NoMsg, loc[p].inf}
    BY DEF ToSet
<1>5. dropped \subseteq dropped' /\ (NoMsg # disk.inflight => disk.inflight \in dropped')
    BY <1>1, <1>3
<1>6. /\ Stored' = ToSet(<<>>) \cup ToSet(<<>>) \cup ({NoMsg} \ {NoMsg})
      /\ Claimed(p)' /\ OwnerIsLive(p)'
    BY <1>0, <1>1, <1>4, <1>5, PublishedHand
<1>7. Stored' = Stored \ Stored /\ Stored \in SUBSET Stored /\ dropped' = dropped \cup Stored
    BY <1>1, <1>2, <1>4, <1>6
<1>8. Consumed(p)'
    BY <1>0, <1>1, <1>7 DEF Hand, Consumed, Stored
<1>9. Hand(p)'
    BY <1>0, <1>1, <1>6, <1>8 DEF Hand, Accounted
<1>10. Excuse({})
    BY <1>0, <1>1, NoneExcused
<1>11. QED BY <1>1, <1>6, <1>7, <1>9, <1>10, DiscardStep

\* A runtime that starts finds every message still waiting.
LEMMA StartServes ==
    ASSUME Inv, Inv', HandInv, MaxLive = 1, NEW p \in Owner, Start(p)
    PROVE  HandInv' /\ Serves
<1>0. AloneInv /\ TypeOK
    BY DEF Inv, TypeInv
<1>1. \A o \in Owner : ~OwnerIsLive(o)
    <2>1. SUFFICES ASSUME NEW o \in Owner, OwnerIsLive(o) PROVE FALSE
        OBVIOUS
    <2>2. LeaseHolders = {o}
        BY <1>0, <2>1 DEF AloneInv, Alone, LeaseHolders
    <2>3. Cardinality(LeaseHolders) = 1
        BY <2>2, FS_Singleton
    <2>4. QED BY <2>3 DEF Start
<1>2. Blank(p)
    BY <1>0, <1>1 DEF AloneInv, OwnerIsLive, Live
<1> DEFINE d == Recovered(disk)
           q == d.queue
<1>3. d.inflight = NoMsg /\ d.turn = <<>> /\ ToSet(q) = Stored
    BY <1>1, RecoveredAll
<1>4. /\ disk' = d /\ life' = [life EXCEPT ![p] = "live"]
      /\ UNCHANGED <<consumed, disp, cmd, accepted, taken, excused, dropped, steered>>
    BY DEF Start, Load, ghostVars
<1> HIDE DEF d
<1>5. Stored' = Stored
    <2>1. ToSet(<<>>) = {}
        BY DEF ToSet
    <2>2. QED BY <1>3, <1>4, <2>1 DEF Stored
<1>6. OwnerIsLive(p)'
    BY <1>0, <1>4 DEF OwnerIsLive, TypeOK, StoreTypeOK
<1>7. disp'[p] = "idle" /\ consumed'[p].stage = "none"
    BY <1>2, <1>4 DEF Blank, NoneConsumed
<1>8. Hand(p)'
    BY <1>7 DEF Hand, Claimed, Consumed, Accounted, Unsettled
<1>9. QED BY <1>4, <1>5, <1>6, <1>8, SameService

\* A runtime that stops leaves its takings unrecorded, and at a shutdown
\* removes what it held.
LEMMA StopServes ==
    ASSUME Inv, Inv', HandInv, NEW p \in Owner, Crash(p) \/ Shutdown(p)
    PROVE  HandInv' /\ Serves
<1> DEFINE L == TakenUnrecorded(p)
<1>0. Live(p) /\ Runtime(p) /\ Hand(p) /\ TypeOK
    BY Sole DEF Inv, TypeInv, Crash, Vanish, Shutdown, Ready, Live, HandInv
<1>1. /\ Excuse(L) /\ ForgetRuntime(p)
      /\ life' = [life EXCEPT ![p] = "gone"]
      /\ ownerQueue' = [ownerQueue EXCEPT ![p] = <<>>]
      /\ ownerInflight' = [ownerInflight EXCEPT ![p] = NoMsg]
      /\ ownerTurn' = [ownerTurn EXCEPT ![p] = <<>>]
      /\ UNCHANGED <<accepted, taken, steered>>
    BY DEF Crash, Shutdown, Vanish
<1>2. life'[p] = "gone" /\ Blank(p)'
    BY <1>0, <1>1, Forgetting
<1>3. Hand(p)'
    <2>1. (\A o \in Owner : Blank(o) => Hand(o))'
        BY BlankHand, PTL
    <2>2. QED BY <1>2, <2>1
<1>4. OwnerIsLive(p)'
    BY <1>2 DEF OwnerIsLive
<1>5. disp[p] = "admitted" => cmd[p] \in Msg
    BY <1>0 DEF Inv, FenceInv, Captured, TypeOK
<1>6. consumed[p].stage = "delivered" => consumed[p].msg \in Msg
    <2>1. ToSet(accepted) \subseteq Msg
        BY <1>0, ElementIn DEF TypeOK
    <2>2. QED BY <1>0, <2>1 DEF Runtime, Consuming
<1>7. L \in SUBSET Msg /\ \A m \in L : taken[m] = excused[m] + 1
    BY <1>0, <1>5, <1>6 DEF TakenUnrecorded, Hand, Accounted
<1> HIDE DEF L
<1>8. CASE Crash(p)
    <2>1. UNCHANGED <<disk, dropped>>
        BY <1>8 DEF Crash
    <2>2. {} \in SUBSET Stored /\ dropped' = dropped \cup {} /\ Stored' = Stored \ {}
        BY <2>1 DEF Stored
    <2>3. QED BY <1>1, <1>3, <1>4, <1>7, <2>2, DiscardStep
<1>9. CASE Shutdown(p)
    <2>1. disk' = SaveResult(p, <<>>, NoMsg, <<>>) /\ dropped' = dropped \cup Held(p)
          /\ disp[p] \notin {"claiming", "settling"}
        BY <1>9 DEF Shutdown, Ready
    <2>2. disk' = File(p, <<>>, NoMsg, <<>>)
        <3>1. <<>> \in Seq(Msg) /\ NoMsg \in Msg \cup {NoMsg}
            BY <1>0, SnapshotsTyped
        <3>2. QED BY <1>0, <2>1, <3>1, SaveEffect
    <2>3. disk'.queue = <<>> /\ disk'.inflight = NoMsg /\ disk'.turn = <<>>
        BY <2>2 DEF File
    <2>4. ToSet(<<>>) = {}
        BY DEF ToSet
    <2>5. Held(p) = Stored
        BY <1>0, <2>1, Between DEF Held
    <2>6. Stored \in SUBSET Stored /\ dropped' = dropped \cup Stored /\ Stored' = Stored \ Stored
        BY <2>1, <2>3, <2>4, <2>5 DEF Stored
    <2>7. QED BY <1>1, <1>3, <1>4, <1>7, <2>6, DiscardStep
<1>10. QED BY <1>8, <1>9

\* Nothing the service knows of changes.
LEMMA StillServes ==
    ASSUME Inv, Inv', HandInv,
           UNCHANGED <<disk, consumed, disp, cmd, accepted, taken, excused, dropped, steered>>
    PROVE  HandInv' /\ Serves
<1>1. Countable'
    BY DEF HandInv, Countable
<1>2. \A o \in Owner : Hand(o)'
    BY DEF HandInv, Hand, Claimed, Consumed, Accounted, Unsettled
<1>3. Stored' = Stored
    BY DEF Stored
<1>4. TypeOK /\ TypeOK'
    BY DEF Inv, TypeInv
<1>5. Serves
    BY <1>3, <1>4, ServiceSteps
<1>6. QED BY <1>1, <1>2, <1>5 DEF HandInv

LEMMA HandInit == Init => HandInv
<1>1. SUFFICES ASSUME Init PROVE HandInv
    OBVIOUS
<1>2. \A o \in Owner : disp[o] = "idle" /\ consumed[o].stage = "none"
    BY <1>1 DEF Init, NoneConsumed
<1>3. \A m \in Msg : excused[m] = 0 /\ taken[m] = 0
    BY <1>1 DEF Init
<1>4. QED BY <1>2, <1>3 DEF HandInv, Countable, Hand, Claimed, Consumed, Accounted, Unsettled

LEMMA HandStep ==
    ASSUME MaxLive = 1
    PROVE  Inv /\ Inv' /\ HandInv /\ [Next]_vars => HandInv' /\ Serves
<1>1. SUFFICES ASSUME Inv, Inv', HandInv, [Next]_vars PROVE HandInv' /\ Serves
    OBVIOUS
<1>2. CASE UNCHANGED vars
    <2>1. UNCHANGED <<disk, consumed, disp, cmd, accepted, taken, excused, dropped, steered>>
        BY <1>2 DEF vars, storeVars, runtimeVars, ghostVars
    <2>2. QED BY <1>1, <2>1, StillServes
<1>3. CASE Next
    <2>1. PICK p \in Owner :
              \/ Start(p) \/ Shutdown(p) \/ FreeLease(p)
              \/ RuntimeStep(p) \/ UserStep(p) \/ FaultStep(p)
        BY <1>3 DEF Next
    <2>2. CASE FreeLease(p)
        <3>1. UNCHANGED <<disk, consumed, disp, cmd, accepted, taken, excused, dropped, steered>>
            BY <2>2 DEF FreeLease, LeaseFreed, runtimeVars, ghostVars
        <3>2. QED BY <1>1, <3>1, StillServes
    <2>3. CASE Start(p) \/ Shutdown(p)
        BY <1>1, <2>3, StartServes, StopServes
    <2>4. CASE CallStep(p) \/ FinishSteering(p)
        BY <1>1, <2>4, ClaimServes, QuietServes, RestoreServes DEF CallStep
    <2>5. CASE DispatchStep(p)
        BY <1>1, <2>5, ClaimServes, QuietServes, AdmitServes, SettleServes DEF DispatchStep
    <2>6. CASE RunStep(p)
        BY <1>1, <2>6, PopServes, DeliverServes, AckServes, UnpublishedServes, QuietServes, EndRunServes
           DEF RunStep
    <2>7. CASE UserStep(p)
        BY <1>1, <2>7, QuietServes, ClearServes, EnterServes, CancelServes, RedirectServes DEF UserStep
    <2>8. CASE FaultStep(p)
        BY <1>1, <2>8, StopServes, QuietServes, SettleFailsServes, UnpublishedServes DEF FaultStep
    <2>9. QED BY <2>1, <2>2, <2>3, <2>4, <2>5, <2>6, <2>7, <2>8 DEF RuntimeStep
<1>4. QED BY <1>1, <1>2, <1>3

LEMMA ServiceBegins == Init => Service!ServiceInit
<1>1. SUFFICES ASSUME Init PROVE Service!ServiceInit
    OBVIOUS
<1>2. /\ accepted = <<>> /\ taken = [m \in Msg |-> 0] /\ excused = [m \in Msg |-> 0]
      /\ dropped = {} /\ steered = {} /\ disk.queue = <<>> /\ disk.inflight = NoMsg /\ disk.turn = <<>>
    BY <1>1 DEF Init, StoreInit, EmptyDisk
<1>3. ToSet(<<>>) = {}
    BY DEF ToSet
<1>4. {m \in Msg : OnDisk(m)} = {}
    BY <1>2, <1>3, NullsAssumption DEF OnDisk
<1>5. QED BY <1>2, <1>4 DEF Service!ServiceInit

\* What a user sees of the queue, whatever the file, the claim, the turns and
\* the leases do beneath it (claim_user_message, settle_user_message,
\* _persist_user_queues, _seal_turn_input_queue, _recover_stale_owners).
THEOREM ImplementsService ==
    ASSUME MaxLive = 1
    PROVE  Spec => ServesFollowUps
<1>1. Init => HandInv /\ Service!ServiceInit
    BY HandInit, ServiceBegins
<1>2. Inv /\ Inv' /\ HandInv /\ [Next]_vars => HandInv' /\ [Service!ServiceNext]_(Service!service)
    BY HandStep DEF Serves
<1>3. QED BY <1>1, <1>2, InvAlways, PTL DEF Spec, ServesFollowUps, Service!ServiceSpec
=============================================================================
