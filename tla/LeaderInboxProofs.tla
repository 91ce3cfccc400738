------------------------- MODULE LeaderInboxProofs -------------------------
(***************************************************************************)
(* Proofs about LeaderInbox, for every set of messages, results and        *)
(* sessions and every number of faults.                                    *)
(***************************************************************************)
EXTENDS LeaderInbox, TLAPS

InTurn(s) == run[s].at \in {"mailbox", "inbox", "request"}
Handled(i) == IF i \in Message THEN mail[i] = "acked" ELSE outbox[i] = "acked"

(* A turn at work is the one that holds the query guard.                     *)
TurnsAreGuarded == \A s \in Session : InTurn(s) => guard = s

(* A run that has not been admitted has nothing in its prompt.               *)
StartsEmpty ==
    \A s \in Session : run[s].at = "start" =>
        run[s].held = {} /\ run[s].lost = {} /\ run[s].taken = {}

(* A held claim is the row's, and no other run's.                            *)
HeldIsClaimed ==
    /\ \A s \in Session : \A m \in run[s].held : mail[m] \in {"leased", "lapsed"}
    /\ \A s, t \in Session : s # t => run[s].held \cap run[t].held = {}

(* A turn lost a claim only to itself.                                       *)
LostIsHeld ==
    \A s \in Session : InTurn(s) =>
        \A m \in run[s].lost : m \in run[s].held \/ mail[m] = "acked"

(* What a turn took from the outbox is not acknowledged yet.                 *)
TakenIsDelivered ==
    \A s \in Session : InTurn(s) => \A r \in run[s].taken : outbox[r] = "delivered"

(* An answered request acknowledged what was seen; a failed one the rest.    *)
SeenIsHandled ==
    /\ \A i \in Item : seen[i] = IF Handled(i) /\ i \notin unread THEN 1 ELSE 0
    /\ \A i \in unread : Handled(i)

Prompts ==
    /\ TurnsAreGuarded
    /\ StartsEmpty
    /\ HeldIsClaimed
    /\ LostIsHeld
    /\ TakenIsDelivered
    /\ SeenIsHandled

IInv == TypeOK /\ WakeClaimHeld /\ Prompts

-----------------------------------------------------------------------------
LEMMA NoRunTyped ==
    /\ NoRun \in Run
    /\ NoRun.at = "off" /\ NoRun.wake = FALSE
    /\ NoRun.held = {} /\ NoRun.lost = {} /\ NoRun.taken = {}
BY DEF NoRun, Run, Stage

LEMMA InitIInv == Init => IInv
<1> SUFFICES ASSUME Init PROVE IInv
  OBVIOUS
<1> USE DEF Init
<1>1. TypeOK
  BY NoRunTyped, MaxFaultsAssumption DEF TypeOK
<1>2. WakeClaimHeld
  BY DEF WakeClaimHeld
<1>3. TurnsAreGuarded /\ StartsEmpty /\ HeldIsClaimed /\ LostIsHeld /\ TakenIsDelivered
  BY NoRunTyped DEF TurnsAreGuarded, StartsEmpty, HeldIsClaimed, LostIsHeld, TakenIsDelivered, InTurn
<1>4. SeenIsHandled
  BY DEF SeenIsHandled, Handled, Item
<1> QED
  BY <1>1, <1>2, <1>3, <1>4 DEF IInv, Prompts

LEMMA ConsumedTyped ==
    ASSUME NEW r \in Run, NEW stage \in Stage
    PROVE  /\ Consumed(r, stage) \in Run
           /\ Consumed(r, stage).at = stage
           /\ Consumed(r, stage).wake = r.wake
           /\ Consumed(r, stage).held = {} /\ Consumed(r, stage).taken = {}
           /\ Consumed(r, stage).lost \subseteq r.lost \cup r.held
BY DEF Consumed, Run

LEMMA GoToTyped ==
    ASSUME TypeOK, NEW s \in Session, NEW stage \in Stage \ {"off"}, GoTo(s, stage)
    PROVE  /\ run' \in [Session -> Run]
           /\ \A t \in Session : run'[t].at = "off" => run'[t] = NoRun
<1> DEFINE next == [run[s] EXCEPT !.at = stage]
<1>1. /\ run \in [Session -> Run]
      /\ \A t \in Session : run[t].at = "off" => run[t] = NoRun
  BY DEF TypeOK
<1>2. next \in Run /\ next.at # "off"
  BY <1>1 DEF Run
<1>3. run' = [run EXCEPT ![s] = next]
  BY DEF GoTo
<1> HIDE DEF next
<1> QED
  BY <1>1, <1>2, <1>3

LEMMA TypeStep == TypeOK /\ [Next]_vars => TypeOK'
<1> SUFFICES ASSUME TypeOK, [Next]_vars PROVE TypeOK'
  OBVIOUS
<1> USE NoRunTyped, NoSessionAssumption, MaxFaultsAssumption DEF TypeOK
<1>1. ASSUME NEW m \in Message, Post(m) PROVE TypeOK'
  BY <1>1 DEF Post, Append, Enqueue, Signal, Signalled, Item
<1>2. ASSUME NEW m \in Message, CrashInPost(m) PROVE TypeOK'
  BY <1>2 DEF CrashInPost, Append, Dies, Fault, Replayable, Item
<1>3. ASSUME NEW m \in Message, LeaseLapses(m) PROVE TypeOK'
  <2>1. faults' \in 0..MaxFaults
    BY <1>3 DEF LeaseLapses, Fault
  <2>2. /\ mail' = [mail EXCEPT ![m] = "lapsed"]
        /\ UNCHANGED <<outbox, from, wakes, run, guard, wakeClaim, seen, unread, missed>>
    BY <1>3 DEF LeaseLapses
  <2> QED
    BY <2>1, <2>2 DEF wakes
<1>4. ASSUME NEW r \in Result, Finish(r) PROVE TypeOK'
  BY <1>4 DEF Finish, Enqueue, Signal, Signalled, Item
<1>5. ASSUME NEW s \in Session, WakeBusy(s) PROVE TypeOK'
  BY <1>5 DEF WakeBusy, Wake, stores
<1>6. ASSUME NEW s \in Session, WakeIdle(s) PROVE TypeOK'
  BY <1>6 DEF WakeIdle, Wake, Waiting, stores
<1>7. ASSUME NEW s \in Session, WakeStart(s) PROVE TypeOK'
  <2>1. run' \in [Session -> Run]
    BY <1>7 DEF WakeStart, Wake, NewRun, Free, Busy, stores, Run, Stage
  <2>2. \A t \in Session : run'[t].at = "off" => run'[t] = NoRun
    BY <1>7 DEF WakeStart, Wake, NewRun, Free, Busy, stores, Run
  <2> QED
    BY <1>7, <2>1, <2>2 DEF WakeStart, Wake, NewRun, Free, Busy, stores
<1>8. ASSUME NEW s \in Session, Admit(s) PROVE TypeOK'
  <2>1. GoTo(s, "mailbox") \/ GoTo(s, "done")
    BY <1>8 DEF Admit
  <2>2. /\ run' \in [Session -> Run]
        /\ \A t \in Session : run'[t].at = "off" => run'[t] = NoRun
    BY <2>1, GoToTyped DEF Stage
  <2> QED
    BY <1>8, <2>2 DEF Admit, RunStep, GuardFree, Waiting, stores, wakes
<1>9. ASSUME NEW s \in Session, ClaimMail(s) PROVE TypeOK'
  <2>1. run' \in [Session -> Run]
    <3> DEFINE T == {m \in Message : mail[m] \in {"queued", "lapsed"}}
               after(t) == [run[t] EXCEPT !.at = IF t = s THEN "inbox" ELSE @,
                                          !.lost = @ \cup (run[t].held \cap T),
                                          !.held = IF t = s THEN @ \cup T ELSE @ \ T]
    <3>1. run' = [t \in Session |-> after(t)]
      BY <1>9 DEF ClaimMail
    <3>2. T \subseteq Message
      OBVIOUS
    <3> HIDE DEF T
    <3>3. ASSUME NEW t \in Session PROVE after(t) \in Run
      BY <3>2 DEF Run, Stage
    <3> QED
      BY <3>1, <3>3
  <2>2. \A t \in Session : run'[t].at = "off" => run'[t] = NoRun
    <3>1. \A t \in Session : run'[t].at = IF t = s THEN "inbox" ELSE run[t].at
      BY <1>9 DEF ClaimMail, Run
    <3>2. \A t \in Session \ {s} : run[t].at = "off" => run'[t] = NoRun
      BY <1>9 DEF ClaimMail, NoRun, Run
    <3> QED
      BY <3>1, <3>2
  <2> QED
    BY <1>9, <2>1, <2>2 DEF ClaimMail, RunStep, wakes
<1>10. ASSUME NEW s \in Session, ReadInbox(s) PROVE TypeOK'
  <2>1. run' \in [Session -> Run]
    BY <1>10, ZenonT(40) DEF ReadInbox, RunStep, wakes, Replayable, Item, Run, Stage
  <2>2. \A t \in Session : run'[t].at = "off" => run'[t] = NoRun
    BY <1>10 DEF ReadInbox, RunStep, wakes, Replayable, Item, Run
  <2> QED
    BY <1>10, <2>1, <2>2 DEF ReadInbox, RunStep, wakes, Replayable, Item
<1>11. ASSUME NEW s \in Session, Renew(s) PROVE TypeOK'
  BY <1>11 DEF Renew, RunStep, wakes
<1>12. ASSUME NEW s \in Session, Retry(s) PROVE TypeOK'
  <2>1. /\ run' \in [Session -> Run]
        /\ \A t \in Session : run'[t].at = "off" => run'[t] = NoRun
    BY <1>12, GoToTyped DEF Retry, Stage
  <2> QED
    BY <1>12, <2>1 DEF Retry, RetryKeeps, RunStep, stores, wakes
<1>13. ASSUME NEW s \in Session, Interrupt(s) PROVE TypeOK'
  <2>1. /\ run' \in [Session -> Run]
        /\ \A t \in Session : run'[t].at = "off" => run'[t] = NoRun
    BY <1>13, GoToTyped DEF Interrupt, Stage
  <2> QED
    BY <1>13, <2>1 DEF Interrupt, Fault, Replayable, stores, wakes, Item
<1>14. ASSUME NEW s \in Session, Cleanup(s) PROVE TypeOK'
  BY <1>14 DEF Cleanup, Released, Recheck, stores
<1>15. ASSUME NEW s \in Session, Prompt(s) PROVE TypeOK'
  <2>1. run' \in [Session -> Run]
    BY <1>15 DEF Prompt, NewRun, stores, wakes, Run, Stage
  <2>2. \A t \in Session : run'[t].at = "off" => run'[t] = NoRun
    BY <1>15 DEF Prompt, NewRun, stores, wakes, Run
  <2> QED
    BY <1>15, <2>1, <2>2 DEF Prompt, NewRun, stores, wakes
<1>16. ASSUME NEW s \in Session, Steer(s) PROVE TypeOK'
  BY <1>16 DEF Steer, Fault, stores
<1>17. ASSUME NEW s \in Session, EndSteer(s) PROVE TypeOK'
  BY <1>17 DEF EndSteer, Waiting, stores
<1>18. ASSUME NEW s \in Session, Close(s) PROVE TypeOK'
  <2>1. run' \in [Session -> Run]
    BY <1>18, ZenonT(40) DEF Close, Fault, Replayable, stores, Run, Stage
  <2>2. \A t \in Session : run'[t].at = "off" => run'[t] = NoRun
    BY <1>18 DEF Close, Fault, Replayable, stores, Run
  <2> QED
    BY <1>18, <2>1, <2>2 DEF Close, Fault, Replayable, stores
<1>19. ASSUME NEW s \in Session, Open(s) PROVE TypeOK'
  BY <1>19 DEF Open, Fault, Waiting, stores
<1>20. ASSUME NEW s \in Session, Answer(s, "mailbox") PROVE TypeOK'
  <2>0. Consumed(run[s], "mailbox") \in Run /\ Consumed(run[s], "mailbox").at = "mailbox"
    BY ConsumedTyped DEF Stage
  <2>1. run' \in [Session -> Run]
    BY <1>20, <2>0 DEF Answer, Acknowledge
  <2>2. \A t \in Session : run'[t].at = "off" => run'[t] = NoRun
    BY <1>20, <2>0 DEF Answer, Acknowledge
  <2> QED
    BY <1>20, <2>1, <2>2 DEF Answer, Acknowledge, RunStep, wakes, Item
<1>21. ASSUME NEW s \in Session, Answer(s, "done") PROVE TypeOK'
  <2>0. Consumed(run[s], "done") \in Run /\ Consumed(run[s], "done").at = "done"
    BY ConsumedTyped DEF Stage
  <2>1. run' \in [Session -> Run]
    BY <1>21, <2>0 DEF Answer, Acknowledge
  <2>2. \A t \in Session : run'[t].at = "off" => run'[t] = NoRun
    BY <1>21, <2>0 DEF Answer, Acknowledge
  <2> QED
    BY <1>21, <2>1, <2>2 DEF Answer, Acknowledge, RunStep, wakes, Item
<1>22. ASSUME NEW s \in Session, RequestFails(s) PROVE TypeOK'
  <2>0. Consumed(run[s], "done") \in Run /\ Consumed(run[s], "done").at = "done"
    BY ConsumedTyped DEF Stage
  <2>1. run' \in [Session -> Run]
    BY <1>22, <2>0 DEF RequestFails, Acknowledge
  <2>2. \A t \in Session : run'[t].at = "off" => run'[t] = NoRun
    BY <1>22, <2>0 DEF RequestFails, Acknowledge
  <2>3. InPrompt(s) \subseteq Item
    BY DEF InPrompt, Run, Item
  <2> QED
    BY <1>22, <2>1, <2>2, <2>3 DEF RequestFails, Acknowledge, RunStep, wakes, Item
<1>23. ASSUME Crash PROVE TypeOK'
  BY <1>23 DEF Crash, Dies, Fault, Replayable, Item
<1>24. ASSUME UNCHANGED vars PROVE TypeOK'
  BY <1>24 DEF vars, stores, wakes
<1> QED
  BY <1>1, <1>2, <1>3, <1>4, <1>5, <1>6, <1>7, <1>8, <1>9, <1>10, <1>11, <1>12, <1>13, <1>14, <1>15, <1>16, <1>17, <1>18, <1>19, <1>20, <1>21, <1>22, <1>23, <1>24 DEF Next, WakeTask, Turn

-----------------------------------------------------------------------------
(* How a step can change a run.                                              *)

LEMMA GoToEffect ==
    ASSUME TypeOK, NEW s \in Session, NEW stage, GoTo(s, stage)
    PROVE  /\ run'[s].at = stage /\ run'[s].wake = run[s].wake
           /\ run'[s].held = run[s].held /\ run'[s].lost = run[s].lost
           /\ run'[s].taken = run[s].taken
           /\ \A t \in Session : t # s => run'[t] = run[t]
BY DEF GoTo, TypeOK, Run

LEMMA WakeClaimStep == TypeOK /\ WakeClaimHeld /\ [Next]_vars => WakeClaimHeld'
<1> SUFFICES ASSUME TypeOK, WakeClaimHeld, [Next]_vars PROVE WakeClaimHeld'
  OBVIOUS
<1> USE NoRunTyped, NoSessionAssumption DEF WakeClaimHeld
<1>1. CASE UNCHANGED <<run, wakeClaim>>
  BY <1>1
<1>2. ASSUME NEW s \in Session, WakeStart(s) PROVE WakeClaimHeld'
  BY <1>2 DEF WakeStart, NewRun, NoRun, TypeOK, Run
<1>3. ASSUME UNCHANGED wakeClaim, \A t \in Session : run'[t].wake = run[t].wake PROVE WakeClaimHeld'
  BY <1>3 DEF TypeOK
<1>4. ASSUME NEW s \in Session, Cleanup(s) PROVE WakeClaimHeld'
  BY <1>4 DEF Cleanup, Released, TypeOK
<1>5. ASSUME NEW s \in Session, Prompt(s) PROVE WakeClaimHeld'
  BY <1>5 DEF Prompt, TypeOK
<1>6. ASSUME NEW s \in Session, Close(s) PROVE WakeClaimHeld'
  BY <1>6 DEF Close, TypeOK, Run
<1>7. CASE Dies
  BY <1>7 DEF Dies
<1>8. ASSUME NEW s \in Session, Admit(s) \/ ClaimMail(s) \/ ReadInbox(s) \/ Retry(s) \/ Interrupt(s)
      PROVE  UNCHANGED wakeClaim /\ \A t \in Session : run'[t].wake = run[t].wake
  <2>1. CASE Admit(s)
    BY <2>1, GoToEffect DEF Admit, RunStep
  <2>2. CASE ClaimMail(s)
    BY <2>2, ZenonT(40) DEF ClaimMail, RunStep, TypeOK, Run
  <2>3. CASE ReadInbox(s)
    BY <2>3 DEF ReadInbox, RunStep, TypeOK, Run
  <2>4. CASE Retry(s) \/ Interrupt(s)
    BY <2>4, GoToEffect DEF Retry, Interrupt, RunStep
  <2> QED
    BY <1>8, <2>1, <2>2, <2>3, <2>4
<1>9. ASSUME NEW s \in Session, NEW stage \in {"mailbox", "done"}, Acknowledge(s, stage)
      PROVE  UNCHANGED wakeClaim /\ \A t \in Session : run'[t].wake = run[t].wake
  BY <1>9, ConsumedTyped DEF Acknowledge, RunStep, TypeOK, Stage
<1>10. ASSUME NEW s \in Session, WakeBusy(s) \/ WakeIdle(s) \/ Renew(s) \/ Steer(s) \/ EndSteer(s) \/ Open(s)
       PROVE  UNCHANGED <<run, wakeClaim>>
  BY <1>10 DEF WakeBusy, WakeIdle, Renew, RunStep, Steer, EndSteer, Open
<1>11. /\ \A m \in Message : Post(m) \/ LeaseLapses(m) => UNCHANGED <<run, wakeClaim>>
       /\ \A r \in Result : Finish(r) => UNCHANGED <<run, wakeClaim>>
  BY DEF Post, LeaseLapses, Finish
<1>12. ASSUME UNCHANGED vars PROVE UNCHANGED <<run, wakeClaim>>
  BY <1>12 DEF vars
<1> QED
  BY <1>1, <1>2, <1>3, <1>4, <1>5, <1>6, <1>7, <1>8, <1>9, <1>10, <1>11, <1>12
     DEF Next, WakeTask, Turn, Answer, RequestFails, Crash, CrashInPost

-----------------------------------------------------------------------------
(* Every step keeps what prompts hold in line with the stores.               *)

(* A run stays, or is out of its turn with no more than it held.             *)
Quiet(s) ==
    \/ run'[s] = run[s] /\ (InTurn(s) => guard' = s)
    \/ /\ run'[s].at \in {"off", "start", "done"}
       /\ run'[s].held \subseteq run[s].held
       /\ run'[s].at = "start" => run'[s].held = {} /\ run'[s].lost = {} /\ run'[s].taken = {}

(* Nothing is claimed, lost, taken or acknowledged.                          *)
StoresQuiet ==
    /\ \A m \in Message :
           \/ mail'[m] = mail[m]
           \/ mail[m] \in {"unsent", "queued"} /\ mail'[m] \in {"unsent", "queued"}
           \/ mail[m] \in {"leased", "lapsed"} /\ mail'[m] \in {"leased", "lapsed"}
    /\ \A i \in Item : outbox'[i] = outbox[i] \/ (outbox[i] = "none" /\ outbox'[i] = "pending")

(* Steps that store, wake, lapse, renew, start or end a run.                 *)
LEMMA QuietKeepsPrompts ==
    ASSUME TypeOK, Prompts, UNCHANGED <<seen, unread>>,
           StoresQuiet,
           \A s \in Session : Quiet(s)
    PROVE  Prompts'
<1>1. TurnsAreGuarded' /\ StartsEmpty'
  BY DEF Quiet, Prompts, TurnsAreGuarded, StartsEmpty, InTurn
<1>2. HeldIsClaimed'
  BY SMTT(20) DEF StoresQuiet, Quiet, Prompts, HeldIsClaimed, TypeOK, Run
<1>3. LostIsHeld'
  BY DEF StoresQuiet, Quiet, Prompts, LostIsHeld, InTurn, TypeOK, Run
<1>4. TakenIsDelivered'
  BY DEF StoresQuiet, Quiet, Prompts, TakenIsDelivered, InTurn, TypeOK, Run, Item
<1>5. SeenIsHandled'
  <2>1. unread \subseteq Item
    BY DEF TypeOK
  <2>2. \A i \in Item : Handled(i)' <=> Handled(i)
    BY DEF StoresQuiet, Handled, Item
  <2> QED
    BY <2>1, <2>2 DEF Prompts, SeenIsHandled
<1> QED
  BY <1>1, <1>2, <1>3, <1>4, <1>5 DEF Prompts

LEMMA AdmitKeepsPrompts ==
    ASSUME TypeOK, Prompts, NEW s \in Session, Admit(s)
    PROVE  Prompts'
<1>1. CASE ~GuardFree(s)
  <2>1. run[s].at = "start" /\ GoTo(s, "done") /\ UNCHANGED <<mail, outbox, seen, unread, guard>>
    BY <1>1 DEF Admit, stores
  <2>2. \A t \in Session : Quiet(t)
    BY <2>1, GoToEffect DEF Quiet, Prompts, TurnsAreGuarded
  <2>3. StoresQuiet
    BY <2>1 DEF StoresQuiet
  <2> QED
    BY <2>1, <2>2, <2>3, QuietKeepsPrompts
<1>2. CASE GuardFree(s)
  <2>1. /\ guard = NoSession /\ guard' = s /\ UNCHANGED <<mail, outbox, seen, unread>>
        /\ run[s].at = "start" /\ GoTo(s, "mailbox")
    BY <1>2 DEF Admit, stores, GuardFree
  <2>2. \A t \in Session : ~InTurn(t)
    BY <2>1, NoSessionAssumption DEF Prompts, TurnsAreGuarded
  <2>3. TurnsAreGuarded' /\ StartsEmpty'
    BY <2>1, <2>2, GoToEffect DEF Prompts, TurnsAreGuarded, StartsEmpty, InTurn
  <2>4. HeldIsClaimed'
    BY <2>1, GoToEffect DEF Prompts, HeldIsClaimed
  <2>5. LostIsHeld' /\ TakenIsDelivered'
    BY <2>1, <2>2, GoToEffect DEF Prompts, LostIsHeld, TakenIsDelivered, InTurn, StartsEmpty
  <2>6. SeenIsHandled'
    BY <2>1 DEF Prompts, SeenIsHandled, Handled
  <2> QED
    BY <2>3, <2>4, <2>5, <2>6 DEF Prompts
<1> QED
  BY <1>1, <1>2

LEMMA ClaimKeepsPrompts ==
    ASSUME TypeOK, Prompts, NEW s \in Session, ClaimMail(s)
    PROVE  Prompts'
<1> DEFINE T == {m \in Message : mail[m] \in {"queued", "lapsed"}}
<1>1. /\ run[s].at = "mailbox"
      /\ \A m \in Message : mail'[m] = IF m \in T THEN "leased" ELSE mail[m]
      /\ UNCHANGED <<outbox, guard, seen, unread>>
  BY DEF ClaimMail
<1>2. \A t \in Session : /\ run'[t].at = IF t = s THEN "inbox" ELSE run[t].at
                         /\ run'[t].lost = run[t].lost \cup (run[t].held \cap T)
                         /\ run'[t].held = IF t = s THEN run[t].held \cup T ELSE run[t].held \ T
                         /\ run'[t].taken = run[t].taken
  BY ZenonT(40) DEF ClaimMail, TypeOK, Run
<1>3. \A t \in Session : InTurn(t) => t = s
  BY <1>1 DEF Prompts, TurnsAreGuarded, InTurn
<1>4. TurnsAreGuarded' /\ StartsEmpty'
  <2>1. \A t \in Session : run[t].at = "start" => run[t].held = {}
    BY DEF Prompts, StartsEmpty
  <2>2. guard' = guard /\ \A t \in Session : InTurn(t)' <=> InTurn(t)
    BY <1>1, <1>2 DEF InTurn
  <2>3. TurnsAreGuarded'
    BY <2>2 DEF Prompts, TurnsAreGuarded
  <2>4. \A t \in Session : run'[t].at = "start" =>
            run[t].at = "start" /\ t # s /\ run'[t].held = run[t].held \ T
                /\ run'[t].lost = run[t].lost \cup (run[t].held \cap T)
                /\ run'[t].taken = run[t].taken
    BY <1>1, <1>2
  <2>5. StartsEmpty'
    <3> HIDE DEF T
    <3> QED
      BY <2>1, <2>4 DEF Prompts, StartsEmpty
  <2> QED
    BY <2>3, <2>5
<1>5. HeldIsClaimed'
  <2>1. \A t \in Session : run[t].held \subseteq Message
    BY DEF TypeOK, Run
  <2>2. ASSUME NEW t \in Session, NEW m \in run'[t].held PROVE mail'[m] \in {"leased", "lapsed"}
    <3>1. m \in Message /\ (m \in T \/ m \in run[t].held)
      BY <1>2, <2>1, <2>2
    <3> QED
      BY <3>1, <1>1 DEF Prompts, HeldIsClaimed
  <2>3. ASSUME NEW t \in Session, NEW u \in Session, t # u
        PROVE  run'[t].held \cap run'[u].held = {}
    <3> SUFFICES ASSUME NEW m \in run'[t].held \cap run'[u].held PROVE FALSE
      OBVIOUS
    <3>1. m \in run[t].held \cap run[u].held
      BY <1>2, <2>1, <2>3, ZenonT(40) DEF Prompts, HeldIsClaimed
    <3> QED
      BY <2>3, <3>1 DEF Prompts, HeldIsClaimed
  <2> QED
    BY <2>2, <2>3 DEF HeldIsClaimed
<1>6. LostIsHeld'
  <2>1. \A t \in Session : InTurn(t)' => t = s
    BY <1>2, <1>3 DEF InTurn
  <2>2. ASSUME NEW m \in run'[s].lost PROVE m \in run'[s].held \/ mail'[m] = "acked"
    <3>1. CASE m \in T
      BY <1>2, <3>1
    <3>2. CASE m \notin T
      <4>1. m \in run[s].lost /\ InTurn(s)
        BY <1>1, <1>2, <3>2, <2>2 DEF InTurn
      <4>2. m \in Message
        BY <4>1 DEF TypeOK, Run
      <4> QED
        BY <1>1, <1>2, <3>2, <4>1, <4>2, ZenonT(40) DEF Prompts, LostIsHeld
    <3> QED
      BY <3>1, <3>2
  <2> QED
    BY <2>1, <2>2 DEF LostIsHeld
<1>7. TakenIsDelivered'
  <2>1. \A t \in Session : InTurn(t)' => InTurn(t)
    BY <1>1, <1>2 DEF InTurn
  <2> QED
    BY <1>1, <1>2, <2>1 DEF Prompts, TakenIsDelivered
<1>8. SeenIsHandled'
  BY <1>1 DEF Prompts, SeenIsHandled, Handled
<1> QED
  BY <1>4, <1>5, <1>6, <1>7, <1>8 DEF Prompts

LEMMA ReadKeepsPrompts ==
    ASSUME TypeOK, Prompts, NEW s \in Session, ReadInbox(s)
    PROVE  Prompts'
<1> DEFINE T == {r \in Result : Replayable(r)} \ run[s].taken
<1>1. /\ run[s].at = "inbox" /\ UNCHANGED <<mail, guard, seen, unread>>
      /\ \A i \in Item : outbox'[i] = IF i \in T THEN "delivered"
                                     ELSE IF i \in Message /\ Replayable(i) THEN "acked"
                                     ELSE outbox[i]
  BY DEF ReadInbox
<1>2. /\ run'[s].at = "request" /\ run'[s].held = run[s].held /\ run'[s].lost = run[s].lost
      /\ run'[s].taken = run[s].taken \cup T
      /\ \A t \in Session : t # s => run'[t] = run[t]
  BY DEF ReadInbox, TypeOK, Run
<1>3. \A t \in Session : InTurn(t) => t = s
  BY <1>1 DEF Prompts, TurnsAreGuarded, InTurn
<1>4. TurnsAreGuarded' /\ StartsEmpty'
  BY <1>1, <1>2 DEF Prompts, TurnsAreGuarded, StartsEmpty, InTurn
<1>5. HeldIsClaimed'
  BY <1>1, <1>2 DEF Prompts, HeldIsClaimed
<1>6. LostIsHeld'
  BY <1>1, <1>2 DEF Prompts, LostIsHeld, InTurn
<1>7. TakenIsDelivered'
  <2>1. \A r \in run'[s].taken : r \in Result /\ (r \in T \/ r \in run[s].taken)
    BY <1>2 DEF TypeOK, Run
  <2>2. \A r \in Result : r \in Item /\ r \notin Message
    BY ItemAssumption DEF Item
  <2>3. \A r \in run'[s].taken : outbox'[r] = "delivered"
    BY <1>1, <2>1, <2>2 DEF Prompts, TakenIsDelivered, InTurn
  <2>4. \A t \in Session : InTurn(t)' => t = s
    BY <1>2, <1>3 DEF InTurn
  <2> QED
    BY <2>3, <2>4 DEF TakenIsDelivered
<1>8. SeenIsHandled'
  <2>1. ASSUME NEW i \in Item, i \notin Message PROVE outbox'[i] = "acked" <=> outbox[i] = "acked"
    BY <1>1, <2>1 DEF Replayable
  <2>2. unread \subseteq Item
    BY DEF TypeOK
  <2>3. \A i \in Item : Handled(i)' <=> Handled(i)
    BY <1>1, <2>1 DEF Handled
  <2> QED
    BY <1>1, <2>2, <2>3 DEF Prompts, SeenIsHandled
<1> QED
  BY <1>4, <1>5, <1>6, <1>7, <1>8 DEF Prompts

LEMMA RetryKeepsPrompts ==
    ASSUME TypeOK, Prompts, NEW s \in Session, Retry(s)
    PROVE  Prompts'
<1>1. run[s].at = "request" /\ GoTo(s, "mailbox") /\ UNCHANGED <<mail, outbox, guard, seen, unread>>
  BY DEF Retry, RetryKeeps, stores
<1>2. TurnsAreGuarded' /\ StartsEmpty'
  BY <1>1, GoToEffect DEF Prompts, TurnsAreGuarded, StartsEmpty, InTurn
<1>3. HeldIsClaimed'
  BY <1>1, GoToEffect DEF Prompts, HeldIsClaimed
<1>4. LostIsHeld' /\ TakenIsDelivered'
  BY <1>1, GoToEffect DEF Prompts, LostIsHeld, TakenIsDelivered, InTurn
<1>5. SeenIsHandled'
  BY <1>1 DEF Prompts, SeenIsHandled, Handled
<1> QED
  BY <1>2, <1>3, <1>4, <1>5 DEF Prompts

(* What a request held and acknowledges is what becomes handled by its end.  *)
LEMMA AcknowledgeHandles ==
    ASSUME TypeOK, Prompts, NEW s \in Session, NEW stage, Acknowledge(s, stage)
    PROVE  /\ InPrompt(s) \subseteq Item
           /\ \A i \in Item : Handled(i)' <=> Handled(i) \/ i \in InPrompt(s)
           /\ \A i \in InPrompt(s) : ~Handled(i)
<1> DEFINE held == run[s].held
           taken == run[s].taken
<1>1. /\ run[s].at = "request"
      /\ \A m \in Message : mail'[m] = IF m \in held THEN "acked" ELSE mail[m]
      /\ \A i \in Item : outbox'[i] = IF i \in taken THEN "acked" ELSE outbox[i]
  BY DEF Acknowledge
<1>2. held \subseteq Message /\ run[s].lost \subseteq Message /\ taken \subseteq Result
  BY DEF TypeOK, Run
<1>3. ASSUME NEW m \in Message
      PROVE  /\ Handled(m)' <=> Handled(m) \/ m \in InPrompt(s)
             /\ m \in InPrompt(s) => ~Handled(m)
  <2>1. m \notin taken
    BY <1>2, ItemAssumption
  <2>2. m \in held => mail[m] # "acked"
    BY DEF Prompts, HeldIsClaimed
  <2>3. m \in run[s].lost => m \in held \/ mail[m] = "acked"
    BY <1>1 DEF Prompts, LostIsHeld, InTurn
  <2> QED
    BY <1>1, <2>1, <2>2, <2>3 DEF InPrompt, Handled
<1>4. ASSUME NEW r \in Result
      PROVE  /\ Handled(r)' <=> Handled(r) \/ r \in InPrompt(s)
             /\ r \in InPrompt(s) => ~Handled(r)
  <2>1. r \in Item /\ r \notin Message /\ r \notin held /\ r \notin run[s].lost
    BY <1>2, ItemAssumption DEF Item
  <2>2. r \in taken => outbox[r] = "delivered"
    BY <1>1 DEF Prompts, TakenIsDelivered, InTurn
  <2> QED
    BY <1>1, <2>1, <2>2 DEF InPrompt, Handled
<1>5. InPrompt(s) \subseteq Item
  BY <1>2 DEF InPrompt, Item
<1> QED
  BY <1>3, <1>4, <1>5 DEF Item

LEMMA AcknowledgeKeepsPrompts ==
    ASSUME TypeOK, Prompts, NEW s \in Session, NEW stage \in {"mailbox", "done"},
           Acknowledge(s, stage)
    PROVE  TurnsAreGuarded' /\ StartsEmpty' /\ HeldIsClaimed' /\ LostIsHeld' /\ TakenIsDelivered'
<1> DEFINE held == run[s].held
           taken == run[s].taken
<1>1. /\ run[s].at = "request"
      /\ \A m \in Message : mail'[m] = IF m \in held THEN "acked" ELSE mail[m]
      /\ \A i \in Item : outbox'[i] = IF i \in taken THEN "acked" ELSE outbox[i]
      /\ guard' = IF stage = "done" THEN NoSession ELSE guard
  BY DEF Acknowledge
<1>2. /\ run'[s].at = stage /\ run'[s].held = {} /\ run'[s].taken = {}
      /\ run'[s].lost \subseteq run[s].lost \cup held
      /\ \A t \in Session : t # s => run'[t] = run[t]
  BY ConsumedTyped DEF Acknowledge, TypeOK, Stage
<1>3. guard = s /\ \A t \in Session : InTurn(t) => t = s
  BY <1>1 DEF Prompts, TurnsAreGuarded, InTurn
<1>4. \A t \in Session : t # s => ~InTurn(t)'
  BY <1>2, <1>3 DEF InTurn
<1>5. TurnsAreGuarded'
  BY <1>1, <1>2, <1>3, <1>4 DEF TurnsAreGuarded, InTurn
<1>6. StartsEmpty'
  BY <1>2 DEF Prompts, StartsEmpty
<1>7. HeldIsClaimed'
  <2>1. ASSUME NEW t \in Session, NEW m \in run'[t].held PROVE mail'[m] \in {"leased", "lapsed"}
    <3>1. t # s /\ m \in run[t].held /\ m \in Message
      BY <1>2, <2>1 DEF TypeOK, Run
    <3>2. m \notin held
      BY <3>1 DEF Prompts, HeldIsClaimed
    <3> QED
      BY <1>1, <3>1, <3>2 DEF Prompts, HeldIsClaimed
  <2>2. ASSUME NEW t \in Session, NEW u \in Session, t # u PROVE run'[t].held \cap run'[u].held = {}
    BY <1>2, <2>2 DEF Prompts, HeldIsClaimed
  <2> QED
    BY <2>1, <2>2 DEF HeldIsClaimed
<1>8. LostIsHeld'
  <2>1. ASSUME NEW m \in run'[s].lost PROVE mail'[m] = "acked"
    <3>1. m \in Message /\ (m \in held \/ m \in run[s].lost)
      BY <1>2, <2>1 DEF TypeOK, Run
    <3> QED
      BY <1>1, <3>1 DEF Prompts, LostIsHeld, InTurn
  <2> QED
    BY <1>4, <2>1 DEF LostIsHeld
<1>9. TakenIsDelivered'
  BY <1>2, <1>4 DEF TakenIsDelivered
<1> QED
  BY <1>5, <1>6, <1>7, <1>8, <1>9

LEMMA AnswerKeepsPrompts ==
    ASSUME TypeOK, Prompts, NEW s \in Session, NEW stage \in {"mailbox", "done"}, Answer(s, stage)
    PROVE  Prompts'
<1>1. Acknowledge(s, stage) /\ UNCHANGED unread
      /\ \A i \in Item : seen'[i] = IF i \in InPrompt(s) THEN seen[i] + 1 ELSE seen[i]
  BY DEF Answer
<1>2. SeenIsHandled'
  <2>1. \A i \in unread : i \in Item
    BY DEF TypeOK
  <2>2. ASSUME NEW i \in Item
        PROVE  seen'[i] = IF Handled(i)' /\ i \notin unread THEN 1 ELSE 0
    <3>1. seen[i] = IF Handled(i) /\ i \notin unread THEN 1 ELSE 0
      BY DEF Prompts, SeenIsHandled
    <3>2. i \in unread => Handled(i)
      BY DEF Prompts, SeenIsHandled
    <3>3. CASE i \in InPrompt(s)
      BY <1>1, <3>1, <3>2, <3>3, AcknowledgeHandles
    <3>4. CASE i \notin InPrompt(s)
      BY <1>1, <3>1, <3>4, AcknowledgeHandles
    <3> QED
      BY <3>3, <3>4
  <2>3. \A i \in unread : Handled(i)'
    BY <1>1, <2>1, AcknowledgeHandles DEF Prompts, SeenIsHandled
  <2> QED
    BY <1>1, <2>2, <2>3 DEF SeenIsHandled
<1> QED
  BY <1>1, <1>2, AcknowledgeKeepsPrompts DEF Prompts

LEMMA FailureKeepsPrompts ==
    ASSUME TypeOK, Prompts, NEW s \in Session, RequestFails(s)
    PROVE  Prompts'
<1>1. Acknowledge(s, "done") /\ UNCHANGED seen /\ unread' = unread \cup InPrompt(s)
  BY DEF RequestFails
<1>2. SeenIsHandled'
  <2>1. unread' \subseteq Item
    BY <1>1, AcknowledgeHandles DEF TypeOK
  <2>2. ASSUME NEW i \in Item
        PROVE  seen[i] = IF Handled(i)' /\ i \notin unread' THEN 1 ELSE 0
    <3>1. seen[i] = IF Handled(i) /\ i \notin unread THEN 1 ELSE 0
      BY DEF Prompts, SeenIsHandled
    <3> QED
      BY <1>1, <3>1, AcknowledgeHandles
  <2>3. \A i \in unread' : Handled(i)'
    BY <1>1, <2>1, AcknowledgeHandles DEF Prompts, SeenIsHandled
  <2> QED
    BY <1>1, <2>2, <2>3 DEF SeenIsHandled
<1> QED
  BY <1>1, <1>2, AcknowledgeKeepsPrompts DEF Prompts

LEMMA RunsStay ==
    ASSUME TypeOK, Prompts, UNCHANGED <<run, guard>>
    PROVE  \A s \in Session : Quiet(s)
BY DEF Quiet, Prompts, TurnsAreGuarded

LEMMA PromptsStep == TypeOK /\ Prompts /\ [Next]_vars => Prompts'
<1> SUFFICES ASSUME TypeOK, Prompts, [Next]_vars PROVE Prompts'
  OBVIOUS
<1>1. ASSUME NEW m \in Message, Post(m) PROVE Prompts'
  <2>1. StoresQuiet /\ UNCHANGED <<run, guard, seen, unread>>
    BY <1>1 DEF Post, Append, Enqueue, StoresQuiet, TypeOK
  <2> QED
    BY <2>1, RunsStay, QuietKeepsPrompts
<1>2. ASSUME NEW r \in Result, Finish(r) PROVE Prompts'
  <2>1. StoresQuiet /\ UNCHANGED <<run, guard, seen, unread>>
    BY <1>2 DEF Finish, Enqueue, StoresQuiet, TypeOK
  <2> QED
    BY <2>1, RunsStay, QuietKeepsPrompts
<1>3. ASSUME NEW m \in Message, LeaseLapses(m) PROVE Prompts'
  <2>1. StoresQuiet /\ UNCHANGED <<run, guard, seen, unread>>
    BY <1>3 DEF LeaseLapses, StoresQuiet, TypeOK
  <2> QED
    BY <2>1, RunsStay, QuietKeepsPrompts
<1>4. ASSUME NEW s \in Session, Renew(s) PROVE Prompts'
  <2>1. UNCHANGED <<outbox, run, guard, seen, unread>>
    BY <1>4 DEF Renew, RunStep
  <2>2. StoresQuiet
    BY <1>4, <2>1 DEF Renew, StoresQuiet, Prompts, HeldIsClaimed
  <2> QED
    BY <2>1, <2>2, RunsStay, QuietKeepsPrompts
<1>5. ASSUME UNCHANGED <<mail, outbox, run, guard, seen, unread>> PROVE Prompts'
  <2>1. StoresQuiet
    BY <1>5 DEF StoresQuiet
  <2> QED
    BY <1>5, <2>1, RunsStay, QuietKeepsPrompts
<1>6. ASSUME NEW s \in Session,
             WakeBusy(s) \/ WakeIdle(s) \/ Steer(s) \/ EndSteer(s) \/ Open(s)
      PROVE  UNCHANGED <<mail, outbox, run, guard, seen, unread>>
  BY <1>6 DEF WakeBusy, WakeIdle, Wake, Steer, EndSteer, Open, stores
<1>7. ASSUME NEW s \in Session, NEW wake \in BOOLEAN, run[s].at = "off",
             run' = [run EXCEPT ![s] = NewRun(wake)], UNCHANGED <<stores, guard, seen, unread>>
      PROVE  Prompts'
  <2>1. StoresQuiet
    BY <1>7 DEF StoresQuiet, stores
  <2>2. /\ NewRun(wake).at = "start" /\ NewRun(wake).held = {}
        /\ NewRun(wake).lost = {} /\ NewRun(wake).taken = {}
    BY DEF NewRun, NoRun
  <2>3. \A t \in Session : Quiet(t)
    BY <1>7, <2>2 DEF Quiet, Prompts, TurnsAreGuarded, TypeOK
  <2> QED
    BY <1>7, <2>1, <2>3, QuietKeepsPrompts
<1>8. ASSUME NEW s \in Session, WakeStart(s) \/ Prompt(s) PROVE Prompts'
  BY <1>7, <1>8 DEF WakeStart, Wake, Busy, Prompt
<1>9. ASSUME NEW s \in Session, Interrupt(s) \/ Cleanup(s) \/ Close(s) PROVE Prompts'
  <2>1. StoresQuiet /\ UNCHANGED <<seen, unread>>
    BY <1>9 DEF Interrupt, Cleanup, Close, stores, StoresQuiet
  <2>2. /\ \A t \in Session : t # s => run'[t] = run[t]
        /\ run'[s].at \in {"off", "done"} /\ run'[s].held \subseteq run[s].held
    <3>1. CASE Interrupt(s)
      BY <3>1, GoToEffect DEF Interrupt
    <3>2. CASE Cleanup(s)
      BY <3>2, NoRunTyped DEF Cleanup, TypeOK
    <3>3. CASE Close(s)
      BY <3>3 DEF Close, TypeOK, Run
    <3> QED
      BY <1>9, <3>1, <3>2, <3>3
  <2>3. guard' = guard \/ (guard = s /\ guard' = NoSession)
    BY <1>9 DEF Interrupt, Cleanup, Close
  <2>4. \A t \in Session : Quiet(t)
    BY <2>2, <2>3 DEF Quiet, Prompts, TurnsAreGuarded
  <2> QED
    BY <2>1, <2>4, QuietKeepsPrompts
<1>10. CASE Crash \/ \E m \in Message : CrashInPost(m)
  <2>1. StoresQuiet /\ UNCHANGED <<seen, unread>>
    BY <1>10 DEF Crash, CrashInPost, Append, Dies, StoresQuiet, TypeOK
  <2>2. \A t \in Session : Quiet(t)
    BY <1>10, NoRunTyped DEF Crash, CrashInPost, Dies, Quiet
  <2> QED
    BY <2>1, <2>2, QuietKeepsPrompts
<1>11. CASE UNCHANGED vars
  BY <1>5, <1>11 DEF vars, stores
<1>12. ASSUME NEW s \in Session,
              Admit(s) \/ ClaimMail(s) \/ ReadInbox(s) \/ Retry(s)
                \/ Answer(s, "mailbox") \/ Answer(s, "done") \/ RequestFails(s)
       PROVE  Prompts'
  BY <1>12, AdmitKeepsPrompts, ClaimKeepsPrompts, ReadKeepsPrompts, RetryKeepsPrompts,
     AnswerKeepsPrompts, FailureKeepsPrompts
<1> QED
  BY <1>1, <1>2, <1>3, <1>4, <1>5, <1>6, <1>8, <1>9, <1>10, <1>11, <1>12
     DEF Next, WakeTask, Turn

LEMMA Invariance == Spec => []IInv
<1>1. IInv /\ [Next]_vars => IInv'
  BY TypeStep, WakeClaimStep, PromptsStep DEF IInv
<1> QED
  BY InitIInv, <1>1, PTL DEF Spec

-----------------------------------------------------------------------------
(* The sessions, their runs, the mailbox and the outbox are well-formed.     *)
THEOREM TypeCorrect == Spec => []TypeOK
<1>1. IInv => TypeOK
  BY DEF IInv
<1> QED
  BY <1>1, Invariance, PTL

(* What is acknowledged was part of a request that was answered, or of one that
   failed and is recorded as such (RequestFails): retries, cancelled turns, closed
   sessions, lapsed leases and crashes lose nothing that was handed to a turn
   (turn_iteration_execution.py:277-279).                                    *)
THEOREM AcknowledgedByARequest == Spec => []HandledIsSeen
<1>1. IInv => HandledIsSeen
  <2> SUFFICES ASSUME IInv PROVE HandledIsSeen
    OBVIOUS
  <2>1. \A m \in Message : mail[m] = "acked" => seen[m] > 0 \/ m \in unread
    BY DEF IInv, Prompts, SeenIsHandled, Handled, Item
  <2>2. \A r \in Result : r \in Item /\ r \notin Message
    BY ItemAssumption DEF Item
  <2>3. \A r \in Result : outbox[r] = "acked" => seen[r] > 0 \/ r \in unread
    BY <2>2 DEF IInv, Prompts, SeenIsHandled, Handled
  <2> QED
    BY <2>1, <2>3 DEF HandledIsSeen
<1> QED
  BY <1>1, Invariance, PTL

(* No message or result is part of two answered requests, whatever windows and
   wakes compete for the conversation (conversation_query_guard.py:40-61).   *)
THEOREM SeenOnce == Spec => []ConsumedOnce
<1>1. IInv => ConsumedOnce
  BY DEF IInv, Prompts, SeenIsHandled, ConsumedOnce
<1> QED
  BY <1>1, Invariance, PTL

(* The wake claim of the conversation is held by a registered wake run or by
   nobody (run_manager.py:1013-1018).                                        *)
THEOREM WakeClaimNotLeaked == Spec => []WakeClaimHeld
<1>1. IInv => WakeClaimHeld
  BY DEF IInv
<1> QED
  BY <1>1, Invariance, PTL
=============================================================================
