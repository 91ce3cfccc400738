------------------------ MODULE ClientCommandsProofs ------------------------
(***************************************************************************)
(* Proofs about ClientCommands, for every set of commands, runtimes and    *)
(* connections, every limit and every bound.                               *)
(***************************************************************************)
EXTENDS ClientCommands, SequenceLemmas

(* What the client need not send again: it took effect, or the file has it. *)
Kept(c) == runs[c] > 0 \/ Owned(c)

(* Every remembered or logged id is that of a command that took effect.      *)
SeenTookEffect ==
    /\ \A c \in ToSet(log) : runs[c] > 0
    /\ \A o \in Owner : \A c \in ToSet(recent[o]) : runs[c] > 0

(* A task past its handler has had its effect.                               *)
EffectsHappened ==
    \A o \in Owner, c \in Command : task[o][c] \in {"executed", "marked"} => runs[c] > 0

(* Whoever executes a command runs, and holds its claim.                     *)
ExecutorHolds ==
    \A o \in Owner, c \in Command :
        task[o][c] \in {"executing", "executed", "marked"} => Running(o) /\ holder[c] = o

(* A receiver has a runtime; what it is going to replay or to acknowledge is
   kept by then.                                                             *)
ReceiversAreJust ==
    \A k \in Conn :
        /\ receiver[k].at # "off" => receiver[k].owner \in Owner
        /\ \A c \in receiver[k].left : Kept(c)
        /\ receiver[k].at = "acking" =>
               receiver[k].cmd \in Command /\ (receiver[k].ok => Kept(receiver[k].cmd))

IInv ==
    /\ TypeOK
    /\ SeenTookEffect
    /\ EffectsHappened
    /\ ExecutorHolds
    /\ ReceiversAreJust
    /\ AcknowledgedIsKept

-----------------------------------------------------------------------------
(* In a set of r or more numbers up to m, one has rank r: the least that has at
   least r elements up to it.                                                *)
LEMMA RankExists ==
    ASSUME NEW m \in Nat, NEW S, S \subseteq 1..m, NEW r \in 1..Cardinality(S)
    PROVE  \E i \in S : Rank(S, i) = r
<1>n. \A j \in S : j \in Nat /\ j >= 1 /\ j <= m
  OBVIOUS
<1>f. IsFiniteSet(1..m)
  BY FS_Interval
<1>0. IsFiniteSet(S) /\ Cardinality(S) \in Nat
  BY <1>f, FS_Subset, FS_CardinalityType
<1>r. r \in Nat /\ r >= 1 /\ r <= Cardinality(S)
  BY <1>0
<1>1. \A i \in Nat : IsFiniteSet({j \in S : j <= i}) /\ Rank(S, i) \in Nat
  BY <1>0, FS_Subset, FS_CardinalityType DEF Rank
<1> DEFINE T == {i \in Nat : Rank(S, i) >= r}
<1>2. m \in T
  <2>1. {j \in S : j <= m} = S
    BY <1>n
  <2> QED
    BY <1>0, <1>r, <2>1 DEF Rank
<1>3. PICK i \in T : \A k \in T : i <= k
  BY <1>2, NatLeast
<1>4. i \in Nat /\ Rank(S, i) >= r
  BY <1>3
<1>5. i # 0
  <2>1. SUFFICES ASSUME i = 0 PROVE FALSE
    OBVIOUS
  <2>2. \A j \in S : ~(j <= 0)
    BY <1>n
  <2>3. {j \in S : j <= 0} = {}
    BY <2>2
  <2>4. Rank(S, 0) = 0
    BY <2>3, FS_EmptySet DEF Rank
  <2> QED
    BY <1>r, <1>4, <2>1, <2>4
<1>6. i-1 \in Nat /\ i-1 < i
  BY <1>4, <1>5
<1>7. Rank(S, i) \in Nat /\ Rank(S, i-1) \in Nat /\ IsFiniteSet({j \in S : j <= i-1})
  BY <1>1, <1>4, <1>6
<1>8. ~ (Rank(S, i-1) >= r)
  <2>1. i-1 \notin T
    BY <1>3, <1>4, <1>6
  <2> QED
    BY <1>6, <2>1
<1>9. \A j \in S : (j <= i) <=> (j <= i-1 \/ j = i)
  BY <1>n, <1>4
<1>10. i \in S
  <2>1. SUFFICES ASSUME i \notin S PROVE FALSE
    OBVIOUS
  <2>2. {j \in S : j <= i} = {j \in S : j <= i-1}
    BY <1>9, <2>1
  <2> QED
    BY <1>4, <1>8, <2>2 DEF Rank
<1>11. Rank(S, i) = Rank(S, i-1) + 1
  <2>1. {j \in S : j <= i} = {j \in S : j <= i-1} \cup {i}
    BY <1>9, <1>10, <1>4
  <2>2. i \notin {j \in S : j <= i-1}
    BY <1>4, <1>6
  <2> QED
    BY <1>7, <2>1, <2>2, FS_AddElement DEF Rank
<1> QED
  BY <1>4, <1>7, <1>8, <1>10, <1>11, <1>r

(* Compaction keeps ids of the log and invents none.                         *)
LEMMA RetainedIds ==
    ASSUME NEW S, NEW ids \in Seq(S)
    PROVE  Retained(ids) \in Seq(S) /\ ToSet(Retained(ids)) \subseteq ToSet(ids)
<1> DEFINE n == Len(ids)
           from == IF n > RecentMax THEN n - RecentMax + 1 ELSE 1
           lst == SubSeq(ids, from, n)
           first == {i \in DOMAIN lst : \A j \in 1..(i - 1) : lst[j] # lst[i]}
           at(r) == CHOOSE i \in first : Rank(first, i) = r
<1>1. n \in Nat /\ from \in Nat /\ from >= 1 /\ from <= n + 1
  BY LimitsAssumption
<1>2. lst \in Seq(S) /\ Len(lst) = n - from + 1 /\ DOMAIN lst = 1..Len(lst)
      /\ \A i \in DOMAIN lst : lst[i] = ids[from + i - 1]
  BY <1>1
<1>3. \A i \in DOMAIN lst : lst[i] \in S /\ lst[i] \in ToSet(ids)
  BY <1>1, <1>2 DEF ToSet
<1> HIDE DEF lst
<1>4. first \subseteq 1..Len(lst) /\ Len(lst) \in Nat
  BY <1>2
<1> HIDE DEF first
<1>5. \A r \in 1..Cardinality(first) : at(r) \in first
  BY <1>4, RankExists
<1>6. Cardinality(first) \in Nat
  <2>1. IsFiniteSet(1..Len(lst))
    BY <1>4, FS_Interval
  <2>2. IsFiniteSet(first)
    BY <1>4, <2>1, FS_Subset
  <2> QED
    BY <2>2, FS_CardinalityType
<1>7. Retained(ids) = [r \in 1..Cardinality(first) |-> lst[at(r)]]
  BY DEF Retained, lst, first
<1> HIDE DEF at
<1>8. \A r \in 1..Cardinality(first) : lst[at(r)] \in S /\ lst[at(r)] \in ToSet(ids)
  BY <1>2, <1>3, <1>4, <1>5
<1>9. Retained(ids) \in Seq(S)
  BY <1>6, <1>7, <1>8
<1> QED
  BY <1>7, <1>8, <1>9 DEF ToSet

LEMMA WindowIds ==
    ASSUME NEW S, NEW s \in Seq(S)
    PROVE  Window(s) \in Seq(S) /\ ToSet(Window(s)) \subseteq ToSet(s)
  BY LimitsAssumption DEF Window, ToSet

LEMMA AppendIds ==
    ASSUME NEW S, NEW s \in Seq(S), NEW c \in S
    PROVE  Append(s, c) \in Seq(S) /\ ToSet(Append(s, c)) \subseteq ToSet(s) \cup {c}
  BY DEF ToSet

-----------------------------------------------------------------------------
(* Type correctness, one lemma per shared part of the actions.               *)
LEMMA FileType ==
    TypeOK => Pending \subseteq Command /\ Holder \in [Command -> Owner \cup {NoOwner}]
  BY DEF TypeOK, Pending, Holder, Stale

LEMMA SpendType ==
    ASSUME TypeOK, NEW b \in {"faults", "failures"}, Spend(b)
    PROVE  budget' \in [faults : 0..MaxFaults, failures : 0..MaxFailures]
  BY BoundsAssumption DEF TypeOK, Spend

LEMMA ExcuseType ==
    ASSUME TypeOK, NEW C, Excuse(C)
    PROVE  excused' \in [Command -> Nat]
<1>1. \A c \in Command : excused[c] + (IF c \in C THEN 1 ELSE 0) \in Nat
  BY DEF TypeOK
<1> QED
  BY <1>1 DEF Excuse

LEMMA AcknowledgeType ==
    ASSUME TypeOK, NEW k \in Conn, NEW c \in Command, NEW ok \in BOOLEAN,
           NEW sched \in BOOLEAN, Acknowledge(k, c, ok, sched)
    PROVE  receiver' \in [Conn -> Receiver]
<1> DEFINE new == [receiver[k] EXCEPT !.at = "acking", !.cmd = c, !.via = conn, !.ok = ok,
                                      !.sched = sched, !.left = receiver[k].left \ {c}]
<1>1. receiver[k] \in Receiver /\ conn \in Conn \cup {NoConn}
  BY DEF TypeOK
<1>2. new \in Receiver
  BY <1>1 DEF Receiver
<1>3. receiver' = [receiver EXCEPT ![k] = new]
  BY DEF Acknowledge
<1> HIDE DEF new
<1> QED
  BY <1>2, <1>3 DEF TypeOK

LEMMA TaskType ==
    ASSUME TypeOK, NEW p, NEW c, NEW s, p \in Owner /\ c \in Command => s \in Stage
    PROVE  [task EXCEPT ![p][c] = s] \in [Owner -> [Command -> Stage]]
<1>1. \A o \in Owner : task[o] \in [Command -> Stage]
  BY DEF TypeOK
<1>2. p \in Owner => [task[p] EXCEPT ![c] = s] \in [Command -> Stage]
  BY <1>1
<1> QED
  BY <1>1, <1>2 DEF TypeOK

LEMMA ReleaseType ==
    ASSUME TypeOK, NEW o \in Owner, NEW c \in Command, Release(o, c)
    PROVE  pending' \subseteq Command /\ holder' \in [Command -> Owner \cup {NoOwner}]
  BY FileType DEF Release, Access

LEMMA InterruptedType ==
    ASSUME TypeOK, NEW o \in Owner, NEW c \in Command, Interrupted(o, c)
    PROVE  /\ task' \in [Owner -> [Command -> Stage]] /\ excused' \in [Command -> Nat]
           /\ UNCHANGED <<log, life, recent, receiver, clientVars, runs>>
  BY ExcuseType DEF Interrupted, GoTo, Stage, TypeOK

LEMMA OffType == Off \in Receiver
  BY DEF Off, Receiver

(* Every step keeps the files, the log, the runtimes and the client well-formed. *)
LEMMA TypeStep == TypeOK /\ [Next]_vars => TypeOK'
<1> SUFFICES ASSUME TypeOK, [Next]_vars PROVE TypeOK'
  OBVIOUS
<1> USE DEF TypeOK, fileVars, clientVars, ghostVars
<1>1. ASSUME NEW k \in Conn, NEW o \in Owner, Attach(k, o) PROVE TypeOK'
  BY <1>1, OffType DEF Attach, Connected, fileVars, Off, Receiver
<1>2. ASSUME NEW k \in Conn, NEW o \in Owner, Create(k, o) PROVE TypeOK'
  <2>1. Retained(log) \in Seq(Command)
    BY RetainedIds
  <2>2. recent' \in [Owner -> Seq(Command)] /\ log' \in Seq(Command)
    BY <1>2, <2>1 DEF Create
  <2>3. /\ excused' \in [Command -> Nat]
        /\ budget' \in [faults : 0..MaxFaults, failures : 0..MaxFailures]
    BY <1>2, ExcuseType, SpendType DEF Create
  <2>4. conn' \in Conn \cup {NoConn} /\ up' \in BOOLEAN /\ wire' \subseteq Command
        /\ receiver' \in [Conn -> Receiver] /\ UNCHANGED <<client, runs>>
    BY <1>2, OffType DEF Create, Connected, Off, Receiver
  <2>5. pending' \subseteq Command /\ holder' \in [Command -> Owner \cup {NoOwner}]
        /\ life' \in [Owner -> {"new", "live", "stopping", "gone", "dead"}]
        /\ UNCHANGED task
    BY <1>2, FileType DEF Create, Access
  <2> QED
    BY <2>2, <2>3, <2>4, <2>5
<1>3. ASSUME ClientLoses PROVE TypeOK'
  BY <1>3 DEF ClientLoses
<1>4. ASSUME Disconnect PROVE TypeOK'
  BY <1>4 DEF Disconnect
<1>5. ASSUME NEW c \in Command, Send(c) PROVE TypeOK'
  BY <1>5 DEF Send
<1>6. ASSUME NEW k \in Conn, StartReplay(k) PROVE TypeOK'
  <2> DEFINE new == [receiver[k] EXCEPT !.at = "replaying", !.left = Pending]
  <2>1. new \in Receiver
    <3>1. receiver[k] \in Receiver /\ Pending \subseteq Command
      BY FileType
    <3> QED
      BY <3>1 DEF Receiver
  <2>2. receiver' = [receiver EXCEPT ![k] = new]
    BY <1>6 DEF StartReplay
  <2>3. receiver' \in [Conn -> Receiver]
    <3> HIDE DEF new
    <3> QED
      BY <2>1, <2>2
  <2> QED
    BY <1>6, <2>3, FileType DEF StartReplay, Access
<1>7. ASSUME NEW k \in Conn, NEW c \in Command, Replay(k, c) PROVE TypeOK'
  BY <1>7, FileType, SpendType, ExcuseType, AcknowledgeType DEF Replay
<1>8. ASSUME NEW k \in Conn, StartReceiving(k) PROVE TypeOK'
  <2>1. [receiver[k] EXCEPT !.at = "receiving"] \in Receiver
    <3>1. receiver[k] \in Receiver
      OBVIOUS
    <3> QED
      BY <3>1 DEF Receiver
  <2> QED
    BY <1>8, <2>1 DEF StartReceiving
<1>9. ASSUME NEW k \in Conn, Leave(k) PROVE TypeOK'
  BY <1>9, OffType DEF Leave
<1>10. ASSUME NEW k \in Conn, NEW c \in Command, ReceiveSeen(k, c) PROVE TypeOK'
  BY <1>10, AcknowledgeType DEF ReceiveSeen, Incoming
<1>11. ASSUME NEW k \in Conn, NEW c \in Command, ReceiveOverBacklog(k, c) PROVE TypeOK'
  BY <1>11, AcknowledgeType DEF ReceiveOverBacklog, Incoming
<1>12. ASSUME NEW k \in Conn, NEW c \in Command, ReceiveOwned(k, c) PROVE TypeOK'
  BY <1>12, AcknowledgeType, FileType DEF ReceiveOwned, Incoming
<1>13. ASSUME NEW k \in Conn, NEW c \in Command, ReceiveUnpersisted(k, c) PROVE TypeOK'
  BY <1>13, AcknowledgeType, FileType, SpendType DEF ReceiveUnpersisted, Incoming, Access
<1>14. ASSUME NEW k \in Conn, AckSent(k) PROVE TypeOK'
  <2> DEFINE r == receiver[k]
             new == [r EXCEPT !.at = IF r.left = {} THEN "receiving" ELSE "replaying",
                              !.cmd = NoCommand, !.via = NoConn, !.ok = FALSE, !.sched = FALSE]
  <2>1. r \in Receiver
    OBVIOUS
  <2>2. new \in Receiver
    BY <2>1 DEF Receiver
  <2>3. receiver' = [receiver EXCEPT ![k] = new]
    BY <1>14 DEF AckSent
  <2>4. receiver' \in [Conn -> Receiver]
    <3> HIDE DEF new
    <3> QED
      BY <2>2, <2>3
  <2>5. task' \in [Owner -> [Command -> Stage]]
    <3> DEFINE p == r.owner
               e == IF r.sched /\ task[p][r.cmd] = "none" THEN "scheduled" ELSE task[p][r.cmd]
    <3>1. task' = [task EXCEPT ![p][r.cmd] = e]
      BY <1>14 DEF AckSent
    <3>2. p \in Owner /\ r.cmd \in Command => e \in Stage
      BY DEF Stage
    <3> HIDE DEF r, e
    <3> QED
      BY <3>1, <3>2, TaskType
  <2>6. client' \in [Command -> {"new", "unacked", "acked", "rejected"}]
    BY <1>14 DEF AckSent
  <2> QED
    BY <1>14, <2>4, <2>5, <2>6 DEF AckSent
<1>15. ASSUME NEW k \in Conn, ReceiverFails(k) PROVE TypeOK'
  BY <1>15, OffType, SpendType DEF ReceiverFails, LoseConnection
<1>16. ASSUME NEW o \in Owner, NEW c \in Command, Claim(o, c) PROVE TypeOK'
  <2>1. pending' \subseteq Command /\ holder' \in [Command -> Owner \cup {NoOwner}]
    BY <1>16, FileType DEF Claim, Access
  <2>2. task' \in [Owner -> [Command -> Stage]]
    <3>1. GoTo(o, c, "executing") \/ GoTo(o, c, "ending")
      BY <1>16 DEF Claim
    <3>2. CASE GoTo(o, c, "executing")
      BY <3>2 DEF GoTo, Stage
    <3>3. CASE GoTo(o, c, "ending")
      BY <3>3 DEF GoTo, Stage
    <3> QED
      BY <3>1, <3>2, <3>3
  <2> QED
    BY <1>16, <2>1, <2>2 DEF Claim
<1>17. ASSUME NEW o \in Owner, NEW c \in Command, ClaimFails(o, c) PROVE TypeOK'
  BY <1>17, SpendType DEF ClaimFails, GoTo, Stage
<1>18. ASSUME NEW o \in Owner, NEW c \in Command, Execute(o, c) PROVE TypeOK'
  BY <1>18, BoundsAssumption, SMTT(20) DEF Execute, GoTo, Stage
<1>19. ASSUME NEW o \in Owner, NEW c \in Command, Mark(o, c) PROVE TypeOK'
  <2> DEFINE ids == Append(recent[o], c)
  <2>1. ids \in Seq(Command) /\ Window(ids) \in Seq(Command) /\ Append(log, c) \in Seq(Command)
    BY WindowIds, AppendIds
  <2>2. /\ task' = [task EXCEPT ![o][c] = "marked"]
        /\ UNCHANGED <<fileVars, life, receiver, clientVars, runs>>
    BY <1>19 DEF Mark, GoTo
  <2>3. recent' \in [Owner -> Seq(Command)] /\ log' \in Seq(Command)
    BY <1>19, <2>1 DEF Mark
  <2>4. excused' \in [Command -> Nat]
    BY <1>19, ExcuseType DEF Mark
  <2>5. budget' \in [faults : 0..MaxFaults, failures : 0..MaxFailures]
    <3>1. Spend("faults") \/ UNCHANGED budget
      <4>1. Len(ids) \in Nat /\ RecentMax \in Nat
        BY <2>1, LimitsAssumption
      <4> QED
        BY <1>19, <4>1 DEF Mark
    <3> QED
      BY <3>1, SpendType
  <2> QED
    BY <2>2, <2>3, <2>4, <2>5 DEF Stage
<1>20. ASSUME NEW o \in Owner, NEW c \in Command, Complete(o, c) PROVE TypeOK'
  BY <1>20, FileType DEF Complete, GoTo, Stage
<1>21. ASSUME NEW o \in Owner, NEW c \in Command, CompleteFails(o, c) PROVE TypeOK'
  BY <1>21, SpendType DEF CompleteFails, GoTo, Stage
<1>22. ASSUME NEW o \in Owner, NEW c \in Command, HandlerFails(o, c) PROVE TypeOK'
  BY <1>22, SpendType, InterruptedType, ReleaseType DEF HandlerFails
<1>23. ASSUME NEW o \in Owner, NEW c \in Command, MarkFails(o, c) PROVE TypeOK'
  BY <1>23, SpendType, InterruptedType, ReleaseType DEF MarkFails
<1>24. ASSUME NEW o \in Owner, NEW c \in Command, ReleaseFails(o, c) PROVE TypeOK'
  <2>1. Interrupted(o, c) /\ UNCHANGED fileVars
    BY <1>24 DEF ReleaseFails
  <2>2. budget' \in [faults : 0..MaxFaults, failures : 0..MaxFailures]
    BY <1>24, BoundsAssumption DEF ReleaseFails
  <2> QED
    BY <2>1, <2>2, InterruptedType
<1>25. ASSUME NEW o \in Owner, NEW c \in Command, TaskDone(o, c) PROVE TypeOK'
  BY <1>25 DEF TaskDone, GoTo, Stage
<1>26. ASSUME NEW o \in Owner, Stop(o) PROVE TypeOK'
  BY <1>26 DEF Stop, LoseConnection
<1>27. ASSUME NEW o \in Owner, NEW c \in Command, CancelTask(o, c) PROVE TypeOK'
  <2>1. ASSUME Interrupted(o, c), Release(o, c), UNCHANGED budget PROVE TypeOK'
    BY <2>1, InterruptedType, ReleaseType
  <2>2. ASSUME GoTo(o, c, "ending"), UNCHANGED budget,
               UNCHANGED <<fileVars, log, life, recent, receiver, clientVars, ghostVars>>
        PROVE TypeOK'
    BY <2>2 DEF GoTo, Stage
  <2> QED
    BY <1>27, <2>1, <2>2 DEF CancelTask
<1>28. ASSUME NEW o \in Owner, Close(o) PROVE TypeOK'
  BY <1>28 DEF Close
<1>29. ASSUME NEW o \in Owner, Crash(o) PROVE TypeOK'
  BY <1>29, OffType, ExcuseType DEF Crash, LoseConnection, NoTasks, Stage
<1>30. ASSUME NEW o \in Owner, FreeLease(o) PROVE TypeOK'
  BY <1>30 DEF FreeLease
<1>31. CASE UNCHANGED vars
  BY <1>31 DEF vars
<1> QED
  BY <1>1, <1>2, <1>3, <1>4, <1>5, <1>6, <1>7, <1>8, <1>9, <1>10, <1>11,
     <1>12, <1>13, <1>14, <1>15, <1>16, <1>17, <1>18, <1>19, <1>20, <1>21,
     <1>22, <1>23, <1>24, <1>25, <1>26, <1>27, <1>28, <1>29, <1>30, <1>31
  DEF Next, ClientStep, Reconnect, FaultStep, LifeStep, ReceiverStep, Receive, TaskStep

-----------------------------------------------------------------------------
(* What is kept stays kept: recovery, claims and releases move a command within
   the file, and only one that took effect is dropped from it.               *)
LEMMA OwnedIs ==
    TypeOK => \A d \in Command : Owned(d) <=> d \in Pending \/ Holder[d] # NoOwner
  BY DEF TypeOK, Owned, Pending, Holder, Stale

LEMMA AccessKeeps ==
    TypeOK /\ Access => \A d \in Command : Owned(d) => Owned(d)'
  BY OwnedIs DEF Access, Owned

LEMMA ReleaseKeeps ==
    ASSUME TypeOK, NEW o \in Owner, NEW c \in Command, Release(o, c)
    PROVE  \A d \in Command : Owned(d) => Owned(d)'
<1>1. CASE Holder[c] = o
  BY <1>1, OwnedIs, FileType DEF Release, Owned
<1>2. CASE Holder[c] # o
  BY <1>2, AccessKeeps DEF Release
<1> QED
  BY <1>1, <1>2

(* The parts of IInv that say what is on record about a command.             *)
Sound == TypeOK /\ SeenTookEffect /\ EffectsHappened /\ ReceiversAreJust

Lasting(c) == (runs[c] > 0 => runs'[c] > 0) /\ (Kept(c) => Kept(c)')

(* The steps that can change the file, or have an effect.                    *)
LEMMA FileSteps ==
    [Next]_vars =>
        \/ UNCHANGED <<pending, holder, runs>>
        \/ \E k \in Conn, o \in Owner :
              \/ Create(k, o)
        \/ \E k \in Conn :
              \/ StartReplay(k)
        \/ \E k \in Conn, c \in Command :
              \/ Replay(k, c)
              \/ ReceiveOwned(k, c)
              \/ ReceiveUnpersisted(k, c)
        \/ \E o \in Owner, c \in Command :
              \/ Claim(o, c)
              \/ Execute(o, c)
              \/ Complete(o, c)
              \/ HandlerFails(o, c)
              \/ MarkFails(o, c)
              \/ CancelTask(o, c)
  BY ZenonT(60)
  DEF Next, ClientStep, Reconnect, FaultStep, LifeStep, ReceiverStep, Receive,
      TaskStep, vars, fileVars, clientVars, ghostVars, Attach, Connected, ClientLoses,
      Disconnect, Send, StartReceiving, Leave, ReceiveSeen, Incoming,
      ReceiveOverBacklog, AckSent, ReceiverFails, ClaimFails, Mark, CompleteFails,
      ReleaseFails, Interrupted, TaskDone, Stop, Close, Crash, FreeLease

LEMMA KeptStep ==
    Sound /\ [Next]_vars
        => \A d \in Command : Lasting(d)
<1> SUFFICES ASSUME Sound,
                    [Next]_vars
             PROVE  \A d \in Command : Lasting(d)
  OBVIOUS
<1> USE DEF Sound
<1>1. ASSUME NEW k \in Conn, NEW o \in Owner, Create(k, o)
      PROVE  \A d \in Command : Lasting(d)
  BY <1>1, AccessKeeps DEF Create, Connected, Lasting, Kept, clientVars, ghostVars
<1>2. ASSUME NEW k \in Conn, StartReplay(k) PROVE \A d \in Command : Lasting(d)
  BY <1>2, AccessKeeps DEF StartReplay, Lasting, Kept, clientVars, ghostVars
<1>3. ASSUME NEW k \in Conn, NEW c \in Command, Replay(k, c)
      PROVE  \A d \in Command : Lasting(d)
  <2>1. UNCHANGED runs
    BY <1>3 DEF Replay, ghostVars
  <2>2. receiver[k].owner \in Owner
    BY <1>3 DEF Replay, ReceiversAreJust
  <2>3. CASE ~Seen(receiver[k].owner, c)
    BY <1>3, <2>1, <2>3 DEF Replay, Lasting, Kept, Owned, fileVars
  <2>4. CASE Seen(receiver[k].owner, c)
    <3>1. runs[c] > 0
      BY <2>2, <2>4 DEF Seen, SeenTookEffect
    <3>2. \A d \in Command \ {c} : Owned(d) => Owned(d)'
      BY <1>3, <2>4, OwnedIs DEF Replay, Owned
    <3> QED
      BY <2>1, <3>1, <3>2 DEF Lasting, Kept
  <2> QED
    BY <2>3, <2>4
<1>4. ASSUME NEW k \in Conn, NEW c \in Command, ReceiveOwned(k, c)
      PROVE  \A d \in Command : Lasting(d)
  <2>1. UNCHANGED runs
    BY <1>4 DEF ReceiveOwned, Incoming, ghostVars
  <2>2. \A d \in Command : Owned(d) => Owned(d)'
    BY <1>4, OwnedIs DEF ReceiveOwned, Owned
  <2> QED
    BY <2>1, <2>2 DEF Lasting, Kept
<1>5. ASSUME NEW k \in Conn, NEW c \in Command, ReceiveUnpersisted(k, c)
      PROVE  \A d \in Command : Lasting(d)
  BY <1>5, AccessKeeps DEF ReceiveUnpersisted, Incoming, Lasting, Kept, clientVars, ghostVars
<1>6. ASSUME NEW o \in Owner, NEW c \in Command, Claim(o, c)
      PROVE  \A d \in Command : Lasting(d)
  <2>1. UNCHANGED runs
    BY <1>6 DEF Claim, ghostVars
  <2>2. CASE Claimable(c)
    <3>1. pending' = Pending \ {c} /\ holder' = [Holder EXCEPT ![c] = o]
      BY <1>6, <2>2 DEF Claim
    <3>2. \A d \in Command : Owned(d) => Owned(d)'
      BY <3>1, OwnedIs, FileType, NullsAssumption DEF Owned
    <3> QED
      BY <2>1, <3>2 DEF Lasting, Kept
  <2>3. CASE ~Claimable(c)
    BY <1>6, <2>1, <2>3, AccessKeeps DEF Claim, Lasting, Kept
  <2> QED
    BY <2>2, <2>3
<1>7. ASSUME NEW o \in Owner, NEW c \in Command, Execute(o, c)
      PROVE  \A d \in Command : Lasting(d)
  <2>1. UNCHANGED fileVars /\ \A d \in Command : runs[d] > 0 => runs'[d] > 0
    <3>1. \A d \in Command : runs[d] \in Nat
      BY BoundsAssumption DEF TypeOK
    <3> QED
      BY <1>7, <3>1 DEF Execute, TypeOK
  <2> QED
    BY <2>1 DEF Lasting, Kept, Owned, fileVars
<1>8. ASSUME NEW o \in Owner, NEW c \in Command, Complete(o, c)
      PROVE  \A d \in Command : Lasting(d)
  <2>1. UNCHANGED runs /\ runs[c] > 0
    BY <1>8 DEF Complete, EffectsHappened, ghostVars
  <2>2. \A d \in Command \ {c} : Owned(d) => Owned(d)'
    BY <1>8, OwnedIs, FileType DEF Complete, Owned
  <2> QED
    BY <2>1, <2>2 DEF Lasting, Kept
<1>9. ASSUME NEW o \in Owner, NEW c \in Command, HandlerFails(o, c)
      PROVE  \A d \in Command : Lasting(d)
  <2>1. UNCHANGED runs
    BY <1>9 DEF HandlerFails, Interrupted
  <2>2. Release(o, c)
    BY <1>9 DEF HandlerFails
  <2> QED
    BY <2>1, <2>2, ReleaseKeeps DEF Lasting, Kept
<1>10. ASSUME NEW o \in Owner, NEW c \in Command, MarkFails(o, c)
      PROVE  \A d \in Command : Lasting(d)
  <2>1. UNCHANGED runs
    BY <1>10 DEF MarkFails, Interrupted
  <2>2. Release(o, c)
    BY <1>10 DEF MarkFails
  <2> QED
    BY <2>1, <2>2, ReleaseKeeps DEF Lasting, Kept
<1>11. ASSUME NEW o \in Owner, NEW c \in Command, CancelTask(o, c)
      PROVE  \A d \in Command : Lasting(d)
  <2>1. CASE Interrupted(o, c) /\ Release(o, c)
    BY <2>1, ReleaseKeeps DEF Interrupted, Lasting, Kept
  <2>2. CASE UNCHANGED fileVars /\ UNCHANGED runs
    BY <2>2 DEF Lasting, Kept, Owned, fileVars
  <2> QED
    BY <1>11, <2>1, <2>2 DEF CancelTask, ghostVars
<1>12. CASE UNCHANGED <<pending, holder, runs>>
  BY <1>12 DEF Lasting, Kept, Owned
<1> QED
  BY <1>1, <1>2, <1>3, <1>4, <1>5, <1>6, <1>7, <1>8, <1>9, <1>10, <1>11, <1>12,
     FileSteps

-----------------------------------------------------------------------------
(* The steps that can change the log or what a runtime remembers of it.       *)
LEMMA MemorySteps ==
    [Next]_vars =>
        \/ UNCHANGED <<log, recent>>
        \/ \E k \in Conn, o \in Owner :
              \/ Create(k, o)
        \/ \E o \in Owner, c \in Command :
              \/ Mark(o, c)
        \/ \E o \in Owner :
              \/ Close(o)
              \/ Crash(o)
  BY ZenonT(60)
  DEF Next, ClientStep, Reconnect, FaultStep, LifeStep, ReceiverStep, Receive,
      TaskStep, vars, fileVars, clientVars, ghostVars, Attach, Connected, ClientLoses,
      Disconnect, Send, StartReplay, Access, Replay, StartReceiving, Leave,
      ReceiveSeen, Incoming, ReceiveOverBacklog, ReceiveOwned, ReceiveUnpersisted,
      AckSent, ReceiverFails, Claim, ClaimFails, Execute, Complete, CompleteFails,
      HandlerFails, Interrupted, MarkFails, ReleaseFails, TaskDone, Stop, CancelTask,
      FreeLease

(* Only a command that took effect is ever remembered or logged.             *)
LEMMA SeenStep ==
    Sound /\ [Next]_vars
        => SeenTookEffect'
<1> SUFFICES ASSUME Sound,
                    [Next]_vars
             PROVE  SeenTookEffect'
  OBVIOUS
<1> USE DEF Sound
<1>a. \A d \in Command : runs[d] > 0 => runs'[d] > 0
  BY KeptStep DEF Lasting
<1>b. log \in Seq(Command) /\ recent \in [Owner -> Seq(Command)]
  BY DEF TypeOK
<1>c. \A s \in Seq(Command) : ToSet(s) \subseteq Command
  BY DEF ToSet
<1>d. (UNCHANGED <<log, recent>>) => SeenTookEffect'
  BY <1>a, <1>b, <1>c DEF SeenTookEffect
<1>e. ToSet(<<>>) = {}
  BY DEF ToSet
<1>1. ASSUME NEW k \in Conn, NEW o \in Owner, Create(k, o) PROVE SeenTookEffect'
  <2>1. CASE UNCHANGED <<log, recent>>
    BY <2>1, <1>d
  <2>2. CASE recent' = [recent EXCEPT ![o] = Retained(log)] /\ log' = Retained(log)
    <3>1. ToSet(Retained(log)) \subseteq ToSet(log)
      BY <1>b, RetainedIds
    <3> QED
      BY <2>2, <3>1, <1>a, <1>b, <1>c DEF SeenTookEffect
  <2> QED
    BY <1>1, <2>1, <2>2 DEF Create
<1>2. ASSUME NEW o \in Owner, NEW c \in Command, Mark(o, c) PROVE SeenTookEffect'
  <2> DEFINE ids == Append(recent[o], c)
  <2>1. runs[c] > 0 /\ UNCHANGED runs
    BY <1>2 DEF Mark, TaskAt, EffectsHappened
  <2>2. ids \in Seq(Command) /\ ToSet(ids) \subseteq ToSet(recent[o]) \cup {c}
    BY <1>b, AppendIds
  <2>3. ToSet(Window(ids)) \subseteq ToSet(recent[o]) \cup {c}
    BY <2>2, WindowIds
  <2>4. ToSet(Append(log, c)) \subseteq ToSet(log) \cup {c}
    BY <1>b, AppendIds
  <2>5. /\ recent' = recent \/ recent' = [recent EXCEPT ![o] = Window(ids)]
        /\ log' = log \/ log' = Window(ids) \/ log' = Append(log, c)
    BY <1>2 DEF Mark
  <2>6. \A d \in ToSet(recent[o]) \cup {c} : runs'[d] > 0
    BY <2>1 DEF SeenTookEffect
  <2>7. \A d \in ToSet(log)' : runs'[d] > 0
    BY <2>1, <2>3, <2>4, <2>5, <2>6 DEF SeenTookEffect
  <2>8. \A p \in Owner : \A d \in ToSet(recent[p])' : runs'[d] > 0
    BY <1>b, <2>1, <2>3, <2>5, <2>6 DEF SeenTookEffect
  <2> QED
    BY <2>7, <2>8 DEF SeenTookEffect
<1>3. ASSUME NEW o \in Owner, Close(o) PROVE SeenTookEffect'
  <2>1. UNCHANGED log /\ recent' = [recent EXCEPT ![o] = <<>>]
    BY <1>3 DEF Close
  <2> QED
    BY <2>1, <1>a, <1>b, <1>c, <1>e DEF SeenTookEffect
<1>4. ASSUME NEW o \in Owner, Crash(o) PROVE SeenTookEffect'
  <2>1. UNCHANGED log /\ recent' = [recent EXCEPT ![o] = <<>>]
    BY <1>4 DEF Crash
  <2> QED
    BY <2>1, <1>a, <1>b, <1>c, <1>e DEF SeenTookEffect
<1>5. CASE UNCHANGED <<log, recent>>
  BY <1>5, <1>d
<1> QED
  BY <1>1, <1>2, <1>3, <1>4, <1>5, MemorySteps

(* The steps that can change the stage of a task.                             *)
LEMMA TaskSteps ==
    [Next]_vars =>
        \/ UNCHANGED task
        \/ \E k \in Conn :
              \/ AckSent(k)
        \/ \E o \in Owner, c \in Command :
              \/ Claim(o, c)
              \/ ClaimFails(o, c)
              \/ Execute(o, c)
              \/ Mark(o, c)
              \/ Complete(o, c)
              \/ CompleteFails(o, c)
              \/ HandlerFails(o, c)
              \/ MarkFails(o, c)
              \/ ReleaseFails(o, c)
              \/ TaskDone(o, c)
              \/ CancelTask(o, c)
        \/ \E o \in Owner :
              \/ Crash(o)
  BY ZenonT(60)
  DEF Next, ClientStep, Reconnect, FaultStep, LifeStep, ReceiverStep, Receive,
      TaskStep, vars, fileVars, clientVars, ghostVars, Attach, Connected, Create,
      Access, ClientLoses, Disconnect, Send, StartReplay, Replay, StartReceiving,
      Leave, ReceiveSeen, Incoming, ReceiveOverBacklog, ReceiveOwned,
      ReceiveUnpersisted, ReceiverFails, Stop, Close, FreeLease

(* A task reaches the end of its handler only with its effect.               *)
LEMMA EffectsStep ==
    Sound /\ [Next]_vars
        => EffectsHappened'
<1> SUFFICES ASSUME Sound,
                    [Next]_vars
             PROVE  EffectsHappened'
  OBVIOUS
<1> USE DEF Sound
<1>a. \A d \in Command : runs[d] > 0 => runs'[d] > 0
  BY KeptStep DEF Lasting
<1>b. task \in [Owner -> [Command -> Stage]] /\ runs \in [Command -> Nat]
  BY BoundsAssumption DEF TypeOK
<1>c. ASSUME UNCHANGED task PROVE EffectsHappened'
  BY <1>a, <1>c DEF EffectsHappened
<1>d. ASSUME NEW o \in Owner, NEW c \in Command, NEW s \in Stage \ {"executed", "marked"},
             GoTo(o, c, s)
      PROVE  EffectsHappened'
  BY <1>a, <1>b, <1>d DEF GoTo, EffectsHappened
<1>1. ASSUME NEW k \in Conn, AckSent(k) PROVE EffectsHappened'
  <2>1. receiver[k].owner \in Owner /\ receiver[k].cmd \in Command
    BY <1>1 DEF AckSent, ReceiversAreJust
  <2>2. UNCHANGED task \/ GoTo(receiver[k].owner, receiver[k].cmd, "scheduled")
    BY <1>1, <1>b, <2>1 DEF AckSent, GoTo
  <2> QED
    BY <2>1, <2>2, <1>c, <1>d DEF Stage
<1>2. ASSUME NEW o \in Owner, NEW c \in Command, Claim(o, c)
      PROVE  EffectsHappened'
  <2>1. GoTo(o, c, "executing") \/ GoTo(o, c, "ending")
    BY <1>2 DEF Claim
  <2> QED
    BY <2>1, <1>d DEF Stage
<1>3. ASSUME NEW o \in Owner, NEW c \in Command, ClaimFails(o, c)
      PROVE  EffectsHappened'
  BY <1>3, <1>d DEF ClaimFails, Stage
<1>4. ASSUME NEW o \in Owner, NEW c \in Command, Execute(o, c)
      PROVE  EffectsHappened'
  BY <1>4, <1>a, <1>b DEF Execute, GoTo, EffectsHappened
<1>5. ASSUME NEW o \in Owner, NEW c \in Command, Mark(o, c)
      PROVE  EffectsHappened'
  <2>1. runs[c] > 0 /\ GoTo(o, c, "marked")
    BY <1>5 DEF Mark, TaskAt, EffectsHappened
  <2> QED
    BY <2>1, <1>a, <1>b DEF GoTo, EffectsHappened
<1>6. ASSUME NEW o \in Owner, NEW c \in Command, Complete(o, c)
      PROVE  EffectsHappened'
  BY <1>6, <1>d DEF Complete, Stage
<1>7. ASSUME NEW o \in Owner, NEW c \in Command, CompleteFails(o, c)
      PROVE  EffectsHappened'
  BY <1>7, <1>d DEF CompleteFails, Stage
<1>8. ASSUME NEW o \in Owner, NEW c \in Command, HandlerFails(o, c)
      PROVE  EffectsHappened'
  BY <1>8, <1>d DEF HandlerFails, Interrupted, Stage
<1>9. ASSUME NEW o \in Owner, NEW c \in Command, MarkFails(o, c)
      PROVE  EffectsHappened'
  BY <1>9, <1>d DEF MarkFails, Interrupted, Stage
<1>10. ASSUME NEW o \in Owner, NEW c \in Command, ReleaseFails(o, c)
      PROVE  EffectsHappened'
  BY <1>10, <1>d DEF ReleaseFails, Interrupted, Stage
<1>11. ASSUME NEW o \in Owner, NEW c \in Command, TaskDone(o, c)
      PROVE  EffectsHappened'
  BY <1>11, <1>d DEF TaskDone, Stage
<1>12. ASSUME NEW o \in Owner, NEW c \in Command, CancelTask(o, c)
      PROVE  EffectsHappened'
  <2>1. GoTo(o, c, "ending")
    BY <1>12 DEF CancelTask, Interrupted
  <2> QED
    BY <2>1, <1>d DEF Stage
<1>13. ASSUME NEW o \in Owner, Crash(o) PROVE EffectsHappened'
  BY <1>13, <1>a, <1>b DEF Crash, NoTasks, EffectsHappened
<1>14. CASE UNCHANGED task
  BY <1>14, <1>c
<1> QED
  BY <1>1, <1>2, <1>3, <1>4, <1>5, <1>6, <1>7, <1>8, <1>9, <1>10, <1>11, <1>12,
     <1>13, <1>14, TaskSteps

-----------------------------------------------------------------------------
(* The steps that can change a task, a claim or the life of a runtime, other
   than by recovering what dead runtimes held.                               *)
LEMMA ExecutorSteps ==
    [Next]_vars =>
        \/ UNCHANGED <<task, life>> /\ (UNCHANGED holder \/ holder' = Holder)
        \/ \E k \in Conn, o \in Owner :
              \/ Create(k, o)
        \/ \E k \in Conn :
              \/ AckSent(k)
        \/ \E o \in Owner, c \in Command :
              \/ Claim(o, c)
              \/ ClaimFails(o, c)
              \/ Execute(o, c)
              \/ Mark(o, c)
              \/ Complete(o, c)
              \/ CompleteFails(o, c)
              \/ HandlerFails(o, c)
              \/ MarkFails(o, c)
              \/ ReleaseFails(o, c)
              \/ TaskDone(o, c)
              \/ CancelTask(o, c)
        \/ \E o \in Owner :
              \/ Stop(o)
              \/ Close(o)
              \/ Crash(o)
              \/ FreeLease(o)
  BY ZenonT(60)
  DEF Next, ClientStep, Reconnect, FaultStep, LifeStep, ReceiverStep, Receive,
      TaskStep, vars, fileVars, clientVars, ghostVars, Attach, Connected, ClientLoses,
      Disconnect, Send, StartReplay, Access, Replay, StartReceiving, Leave,
      ReceiveSeen, Incoming, ReceiveOverBacklog, ReceiveOwned, ReceiveUnpersisted,
      ReceiverFails

(* The claim excludes: only its holder executes a command, and keeps the claim
   until it is done with it.                                                 *)
LEMMA ExecutorStep ==
    TypeOK /\ ExecutorHolds /\ ReceiversAreJust /\ [Next]_vars
        => ExecutorHolds'
<1> SUFFICES ASSUME TypeOK /\ ExecutorHolds /\ ReceiversAreJust,
                    [Next]_vars
             PROVE  ExecutorHolds'
  OBVIOUS
<1> USE DEF fileVars, clientVars, ghostVars
<1> DEFINE Busy == {"executing", "executed", "marked"}
<1>a. /\ task \in [Owner -> [Command -> Stage]] /\ holder \in [Command -> Owner \cup {NoOwner}]
      /\ life \in [Owner -> {"new", "live", "stopping", "gone", "dead"}]
  BY DEF TypeOK
<1>b. \A p \in Owner, d \in Command : task[p][d] \in Busy => Holder[d] = p /\ p # NoOwner
  BY NullsAssumption DEF ExecutorHolds, Running, OwnerIsLive, Stale, Holder
<1>c. ASSUME UNCHANGED task, UNCHANGED life, UNCHANGED holder \/ holder' = Holder
      PROVE  ExecutorHolds'
  BY <1>b, <1>c DEF ExecutorHolds, Running
<1>d. ASSUME NEW o \in Owner, NEW c \in Command, NEW s \in Stage \ Busy, GoTo(o, c, s),
             UNCHANGED life,
             \A d \in Command : \/ holder'[d] \in {holder[d], Holder[d]}
                                \/ (d = c /\ Holder[d] = o)
      PROVE  ExecutorHolds'
  BY <1>a, <1>b, <1>d DEF GoTo, ExecutorHolds, Running
<1>e. ASSUME NEW o \in Owner, UNCHANGED task, UNCHANGED holder, life' = [life EXCEPT ![o] = "dead"],
             \A d \in Command : task[o][d] \notin Busy
      PROVE  ExecutorHolds'
  BY <1>a, <1>e DEF ExecutorHolds, Running
<1>1. ASSUME NEW k \in Conn, NEW o \in Owner, Create(k, o) PROVE ExecutorHolds'
  <2>1. UNCHANGED task /\ holder' = Holder /\ life' = [life EXCEPT ![o] = "live"]
    BY <1>1 DEF Create, Access
  <2> QED
    BY <2>1, <1>a, <1>b DEF ExecutorHolds, Running
<1>2. ASSUME NEW k \in Conn, AckSent(k) PROVE ExecutorHolds'
  <2>1. receiver[k].owner \in Owner /\ receiver[k].cmd \in Command
    BY <1>2 DEF AckSent, ReceiversAreJust
  <2>2. UNCHANGED task \/ GoTo(receiver[k].owner, receiver[k].cmd, "scheduled")
    BY <1>2, <1>a, <2>1 DEF AckSent, GoTo
  <2>3. UNCHANGED <<life, holder>>
    BY <1>2 DEF AckSent
  <2> QED
    BY <2>1, <2>2, <2>3, <1>c, <1>d DEF Stage
<1>3. ASSUME NEW o \in Owner, NEW c \in Command, Claim(o, c) PROVE ExecutorHolds'
  <2>1. CASE Claimable(c)
    <3>1. /\ GoTo(o, c, "executing") /\ UNCHANGED life /\ Running(o)
          /\ holder' = [Holder EXCEPT ![c] = o]
      BY <1>3, <2>1 DEF Claim, TaskAt, Loop
    <3>2. \A p \in Owner : task[p][c] \notin Busy
      BY <2>1, <1>b DEF Claimable
    <3> QED
      BY <3>1, <3>2, <1>a, <1>b, FileType DEF GoTo, ExecutorHolds, Running
  <2>2. CASE ~Claimable(c)
    BY <1>3, <2>2, <1>d DEF Claim, Access, Stage
  <2> QED
    BY <2>1, <2>2
<1>4. ASSUME NEW o \in Owner, NEW c \in Command, ClaimFails(o, c)
      PROVE  ExecutorHolds'
  BY <1>4, <1>d DEF ClaimFails, Stage
<1>5. ASSUME NEW o \in Owner, NEW c \in Command, Execute(o, c)
      PROVE  ExecutorHolds'
  <2>1. /\ GoTo(o, c, "executed") /\ UNCHANGED <<life, holder>>
        /\ task[o][c] \in Busy
    BY <1>5 DEF Execute, TaskAt
  <2> QED
    BY <2>1, <1>a DEF GoTo, ExecutorHolds, Running
<1>6. ASSUME NEW o \in Owner, NEW c \in Command, Mark(o, c) PROVE ExecutorHolds'
  <2>1. /\ GoTo(o, c, "marked") /\ UNCHANGED <<life, holder>>
        /\ task[o][c] \in Busy
    BY <1>6 DEF Mark, TaskAt
  <2> QED
    BY <2>1, <1>a DEF GoTo, ExecutorHolds, Running
<1>7. ASSUME NEW o \in Owner, NEW c \in Command, Complete(o, c)
      PROVE  ExecutorHolds'
  <2>1. GoTo(o, c, "ending") /\ UNCHANGED life
    BY <1>7 DEF Complete
  <2>2. \A d \in Command : holder'[d] \in {holder[d], Holder[d]} \/ (d = c /\ Holder[d] = o)
    BY <1>7, FileType DEF Complete
  <2> QED
    BY <2>1, <2>2, <1>d DEF Stage
<1>8. ASSUME NEW o \in Owner, NEW c \in Command, CompleteFails(o, c)
      PROVE  ExecutorHolds'
  BY <1>8, <1>d DEF CompleteFails, Stage
<1>9. ASSUME NEW o \in Owner, NEW c \in Command, HandlerFails(o, c)
      PROVE  ExecutorHolds'
  <2>1. /\ GoTo(o, c, "ending") /\ UNCHANGED life
        /\ UNCHANGED holder \/ Release(o, c)
    BY <1>9 DEF HandlerFails, Interrupted
  <2>2. \A d \in Command : holder'[d] \in {holder[d], Holder[d]} \/ (d = c /\ Holder[d] = o)
    BY <2>1, FileType DEF Release, Access
  <2> QED
    BY <2>1, <2>2, <1>d DEF Stage
<1>10. ASSUME NEW o \in Owner, NEW c \in Command, MarkFails(o, c)
      PROVE  ExecutorHolds'
  <2>1. /\ GoTo(o, c, "ending") /\ UNCHANGED life
        /\ UNCHANGED holder \/ Release(o, c)
    BY <1>10 DEF MarkFails, Interrupted
  <2>2. \A d \in Command : holder'[d] \in {holder[d], Holder[d]} \/ (d = c /\ Holder[d] = o)
    BY <2>1, FileType DEF Release, Access
  <2> QED
    BY <2>1, <2>2, <1>d DEF Stage
<1>11. ASSUME NEW o \in Owner, NEW c \in Command, ReleaseFails(o, c)
      PROVE  ExecutorHolds'
  <2>1. /\ GoTo(o, c, "ending") /\ UNCHANGED life
        /\ UNCHANGED holder \/ Release(o, c)
    BY <1>11 DEF ReleaseFails, Interrupted
  <2>2. \A d \in Command : holder'[d] \in {holder[d], Holder[d]} \/ (d = c /\ Holder[d] = o)
    BY <2>1, FileType DEF Release, Access
  <2> QED
    BY <2>1, <2>2, <1>d DEF Stage
<1>12. ASSUME NEW o \in Owner, NEW c \in Command, TaskDone(o, c)
      PROVE  ExecutorHolds'
  BY <1>12, <1>d DEF TaskDone, Stage
<1>13. ASSUME NEW o \in Owner, Stop(o) PROVE ExecutorHolds'
  <2>1. UNCHANGED <<task, holder>> /\ life' = [life EXCEPT ![o] = "stopping"]
    BY <1>13 DEF Stop
  <2> QED
    BY <2>1, <1>a DEF ExecutorHolds, Running
<1>14. ASSUME NEW o \in Owner, NEW c \in Command, CancelTask(o, c)
      PROVE  ExecutorHolds'
  <2>1. /\ GoTo(o, c, "ending") /\ UNCHANGED life
        /\ UNCHANGED holder \/ Release(o, c)
    BY <1>14 DEF CancelTask, Interrupted
  <2>2. \A d \in Command : holder'[d] \in {holder[d], Holder[d]} \/ (d = c /\ Holder[d] = o)
    BY <2>1, FileType DEF Release, Access
  <2> QED
    BY <2>1, <2>2, <1>d DEF Stage
<1>15. ASSUME NEW o \in Owner, Close(o) PROVE ExecutorHolds'
  BY <1>15, <1>e DEF Close, NoTasks
<1>16. ASSUME NEW o \in Owner, Crash(o) PROVE ExecutorHolds'
  <2>1. /\ UNCHANGED holder /\ life' = [life EXCEPT ![o] = "gone"]
        /\ task' = [task EXCEPT ![o] = NoTasks]
    BY <1>16 DEF Crash
  <2> QED
    BY <2>1, <1>a DEF ExecutorHolds, Running, NoTasks
<1>17. ASSUME NEW o \in Owner, FreeLease(o) PROVE ExecutorHolds'
  BY <1>17, <1>e DEF FreeLease, ExecutorHolds, Running
<1>18. CASE UNCHANGED <<task, life>> /\ (UNCHANGED holder \/ holder' = Holder)
  BY <1>18, <1>c
<1> QED
  BY <1>1, <1>2, <1>3, <1>4, <1>5, <1>6, <1>7, <1>8, <1>9, <1>10, <1>11, <1>12,
     <1>13, <1>14, <1>15, <1>16, <1>17, <1>18, ExecutorSteps

-----------------------------------------------------------------------------
(* The steps that can change a receiver.                                      *)
LEMMA ReceiverSteps ==
    [Next]_vars =>
        \/ UNCHANGED receiver
        \/ \E k \in Conn, o \in Owner :
              \/ Attach(k, o)
              \/ Create(k, o)
        \/ \E k \in Conn :
              \/ StartReplay(k)
              \/ StartReceiving(k)
              \/ Leave(k)
              \/ AckSent(k)
              \/ ReceiverFails(k)
        \/ \E k \in Conn, c \in Command :
              \/ Replay(k, c)
              \/ ReceiveSeen(k, c)
              \/ ReceiveOverBacklog(k, c)
              \/ ReceiveOwned(k, c)
              \/ ReceiveUnpersisted(k, c)
        \/ \E o \in Owner :
              \/ Crash(o)
  BY ZenonT(60)
  DEF Next, ClientStep, Reconnect, FaultStep, LifeStep, ReceiverStep, Receive,
      TaskStep, vars, fileVars, clientVars, ghostVars, ClientLoses, Disconnect, Send,
      Claim, ClaimFails, Execute, Mark, Complete, CompleteFails, HandlerFails,
      Interrupted, MarkFails, ReleaseFails, TaskDone, Stop, CancelTask, Close,
      FreeLease

(* A receiver acknowledges only what is stored or took effect: when it has
   stored the command, found it in the file, or finds its id in the log.     *)
LEMMA ReceiversStep ==
    Sound /\ [Next]_vars
        => ReceiversAreJust'
<1> SUFFICES ASSUME Sound,
                    [Next]_vars
             PROVE  ReceiversAreJust'
  OBVIOUS
<1> USE DEF Sound
<1> DEFINE K == {d \in Command : Kept(d)'}
           Just(r) == /\ r.at # "off" => r.owner \in Owner
                      /\ r.left \subseteq K
                      /\ r.at = "acking" => r.cmd \in Command /\ (r.ok => r.cmd \in K)
<1>a. \A d \in Command : Kept(d) => Kept(d)'
  BY KeptStep DEF Lasting
<1>b. receiver \in [Conn -> Receiver] /\ \A r \in Receiver : r.left \subseteq Command
  BY DEF TypeOK, Receiver
<1>c. \A k \in Conn : Just(receiver[k])
  <2>1. ASSUME NEW k \in Conn PROVE receiver[k].left \subseteq Command
    BY <1>b
  <2> QED
    BY <1>a, <2>1 DEF ReceiversAreJust
<1>d. ASSUME NEW k \in Conn, NEW r, receiver' = [receiver EXCEPT ![k] = r], Just(r)
      PROVE  ReceiversAreJust'
  BY <1>b, <1>c, <1>d DEF ReceiversAreJust
<1>e. ASSUME UNCHANGED receiver PROVE ReceiversAreJust'
  BY <1>c, <1>e DEF ReceiversAreJust
<1>f. Just(Off)
  BY DEF Off
<1>g. ASSUME NEW k \in Conn, NEW c \in Command, NEW ok, NEW sched,
             Acknowledge(k, c, ok, sched), receiver[k].at # "off", ok => c \in K
      PROVE  ReceiversAreJust'
  <2> DEFINE new == [receiver[k] EXCEPT !.at = "acking", !.cmd = c, !.via = conn, !.ok = ok,
                                        !.sched = sched, !.left = receiver[k].left \ {c}]
  <2>1. receiver' = [receiver EXCEPT ![k] = new]
    BY <1>g DEF Acknowledge
  <2>2. receiver[k] \in Receiver
    BY <1>b
  <2>3. /\ new.at = "acking" /\ new.cmd = c /\ new.ok = ok /\ new.owner = receiver[k].owner
        /\ new.left = receiver[k].left \ {c}
    BY <2>2 DEF Receiver
  <2>4. receiver[k].owner \in Owner /\ receiver[k].left \subseteq K
    BY <1>c, <1>g
  <2> HIDE DEF new
  <2>5. Just(new)
    BY <2>3, <2>4, <1>g
  <2> QED
    BY <2>1, <2>5, <1>d
<1> HIDE DEF Just
<1>1. ASSUME NEW k \in Conn, NEW o \in Owner, Attach(k, o)
      PROVE  ReceiversAreJust'
  <2> DEFINE new == [Off EXCEPT !.owner = o, !.at = "attached"]
  <2>1. receiver' = [receiver EXCEPT ![k] = new]
    BY <1>1 DEF Attach, Connected
  <2>2. Just(new)
    BY DEF Just, Off
  <2> HIDE DEF new
  <2> QED
    BY <2>1, <2>2, <1>d
<1>2. ASSUME NEW k \in Conn, NEW o \in Owner, Create(k, o)
      PROVE  ReceiversAreJust'
  <2> DEFINE new == [Off EXCEPT !.owner = o, !.at = "attached"]
  <2>1. receiver' = [receiver EXCEPT ![k] = new]
    BY <1>2 DEF Create, Connected
  <2>2. Just(new)
    BY DEF Just, Off
  <2> HIDE DEF new
  <2> QED
    BY <2>1, <2>2, <1>d
<1>3. ASSUME NEW k \in Conn, StartReplay(k) PROVE ReceiversAreJust'
  <2> DEFINE new == [receiver[k] EXCEPT !.at = "replaying", !.left = Pending]
  <2>1. receiver' = [receiver EXCEPT ![k] = new] /\ receiver[k].at # "off"
    BY <1>3 DEF StartReplay
  <2>2. receiver[k] \in Receiver /\ receiver[k].owner \in Owner
    BY <1>b, <2>1 DEF ReceiversAreJust
  <2>3. new.at = "replaying" /\ new.owner = receiver[k].owner /\ new.left = Pending
    BY <2>2 DEF Receiver
  <2>4. Pending \subseteq K
    BY <1>a, OwnedIs, FileType DEF Kept
  <2> HIDE DEF new
  <2>5. Just(new)
    BY <2>2, <2>3, <2>4 DEF Just
  <2> QED
    BY <2>1, <2>5, <1>d
<1>4. ASSUME NEW k \in Conn, NEW c \in Command, Replay(k, c)
      PROVE  ReceiversAreJust'
  <2>1. c \in receiver[k].left /\ receiver[k].at # "off" /\ \E sched : Acknowledge(k, c, TRUE, sched)
    BY <1>4 DEF Replay
  <2>2. c \in K
    BY <1>c, <2>1 DEF Just
  <2> QED
    BY <2>1, <2>2, <1>g
<1>5. ASSUME NEW k \in Conn, StartReceiving(k) PROVE ReceiversAreJust'
  <2> DEFINE new == [receiver[k] EXCEPT !.at = "receiving"]
  <2>1. receiver' = [receiver EXCEPT ![k] = new] /\ receiver[k].at # "off"
    BY <1>5 DEF StartReceiving
  <2>2. Just(new)
    BY <1>b, <1>c, <2>1 DEF Just, Receiver
  <2> HIDE DEF new
  <2> QED
    BY <2>1, <2>2, <1>d
<1>6. ASSUME NEW k \in Conn, Leave(k) PROVE ReceiversAreJust'
  BY <1>6, <1>d, <1>f DEF Leave
<1>7. ASSUME NEW k \in Conn, NEW c \in Command, ReceiveSeen(k, c)
      PROVE  ReceiversAreJust'
  <2>1. receiver[k].at # "off" /\ Acknowledge(k, c, TRUE, FALSE)
    BY <1>7 DEF ReceiveSeen, Incoming
  <2>2. c \in K
    BY <1>7, <1>a, <2>1 DEF ReceiveSeen, Seen, SeenTookEffect, ReceiversAreJust, Kept
  <2> QED
    BY <2>1, <2>2, <1>g
<1>8. ASSUME NEW k \in Conn, NEW c \in Command, ReceiveOverBacklog(k, c)
      PROVE  ReceiversAreJust'
  <2>1. receiver[k].at # "off" /\ Acknowledge(k, c, FALSE, FALSE)
    BY <1>8 DEF ReceiveOverBacklog, Incoming
  <2> QED
    BY <2>1, <1>g
<1>9. ASSUME NEW k \in Conn, NEW c \in Command, ReceiveOwned(k, c)
      PROVE  ReceiversAreJust'
  <2>1. receiver[k].at # "off" /\ Acknowledge(k, c, TRUE, TRUE)
    BY <1>9 DEF ReceiveOwned, Incoming
  <2>2. c \in K
    BY <1>9, OwnedIs DEF ReceiveOwned, HasClientCommand, Kept, Owned
  <2> QED
    BY <2>1, <2>2, <1>g
<1>10. ASSUME NEW k \in Conn, NEW c \in Command, ReceiveUnpersisted(k, c)
      PROVE  ReceiversAreJust'
  <2>1. receiver[k].at # "off" /\ Acknowledge(k, c, FALSE, FALSE)
    BY <1>10 DEF ReceiveUnpersisted, Incoming
  <2> QED
    BY <2>1, <1>g
<1>11. ASSUME NEW k \in Conn, AckSent(k) PROVE ReceiversAreJust'
  <2> DEFINE new == [receiver[k] EXCEPT
                        !.at = IF receiver[k].left = {} THEN "receiving" ELSE "replaying",
                        !.cmd = NoCommand, !.via = NoConn, !.ok = FALSE, !.sched = FALSE]
  <2>1. receiver' = [receiver EXCEPT ![k] = new] /\ receiver[k].at # "off"
    BY <1>11 DEF AckSent
  <2>2. receiver[k] \in Receiver
    BY <1>b
  <2>3. new.at # "acking" /\ new.owner = receiver[k].owner /\ new.left = receiver[k].left
    BY <2>2 DEF Receiver
  <2>4. receiver[k].owner \in Owner /\ receiver[k].left \subseteq K
    BY <1>c, <2>1 DEF Just
  <2> HIDE DEF new
  <2>5. Just(new)
    BY <2>3, <2>4 DEF Just
  <2> QED
    BY <2>1, <2>5, <1>d
<1>12. ASSUME NEW k \in Conn, ReceiverFails(k) PROVE ReceiversAreJust'
  BY <1>12, <1>d, <1>f DEF ReceiverFails
<1>13. ASSUME NEW o \in Owner, Crash(o) PROVE ReceiversAreJust'
  <2>1. \A j \in Conn : receiver'[j] \in {Off, receiver[j]}
    BY <1>13 DEF Crash
  <2> QED
    BY <2>1, <1>c, <1>f DEF ReceiversAreJust, Just
<1>14. CASE UNCHANGED receiver
  BY <1>14, <1>e
<1> QED
  BY <1>1, <1>2, <1>3, <1>4, <1>5, <1>6, <1>7, <1>8, <1>9, <1>10, <1>11, <1>12,
     <1>13, <1>14, ReceiverSteps

(* The steps that can change what the client waits for.                       *)
LEMMA ClientSteps ==
    [Next]_vars =>
        \/ UNCHANGED client
        \/ \E c \in Command :
              \/ Send(c)
        \/ \E k \in Conn :
              \/ AckSent(k)
  BY ZenonT(60)
  DEF Next, ClientStep, Reconnect, FaultStep, LifeStep, ReceiverStep, Receive,
      TaskStep, vars, fileVars, clientVars, ghostVars, Attach, Connected, Create,
      Access, ClientLoses, Disconnect, StartReplay, Replay, StartReceiving, Leave,
      ReceiveSeen, Incoming, ReceiveOverBacklog, ReceiveOwned, ReceiveUnpersisted,
      ReceiverFails, Claim, ClaimFails, Execute, Mark, Complete, CompleteFails,
      HandlerFails, Interrupted, MarkFails, ReleaseFails, TaskDone, Stop, CancelTask,
      Close, Crash, FreeLease

(* An acknowledgement goes out only for what is kept, and what is kept stays.  *)
LEMMA AcknowledgedStep ==
    Sound /\ AcknowledgedIsKept /\ [Next]_vars
        => AcknowledgedIsKept'
<1> SUFFICES ASSUME Sound /\ AcknowledgedIsKept,
                    [Next]_vars
             PROVE  AcknowledgedIsKept'
  OBVIOUS
<1> USE DEF Sound
<1>a. \A d \in Command : Kept(d) => Kept(d)'
  BY KeptStep DEF Lasting
<1>b. ASSUME \A d \in Command : client'[d] = "acked" => client[d] = "acked" \/ Kept(d)
      PROVE  AcknowledgedIsKept'
  BY <1>a, <1>b DEF AcknowledgedIsKept, Kept
<1>c. ASSUME UNCHANGED client PROVE AcknowledgedIsKept'
  BY <1>b, <1>c
<1>1. ASSUME NEW c \in Command, Send(c) PROVE AcknowledgedIsKept'
  BY <1>1, <1>b DEF Send, TypeOK
<1>2. ASSUME NEW k \in Conn, AckSent(k) PROVE AcknowledgedIsKept'
  <2> DEFINE r == receiver[k]
             answer == IF r.ok THEN "acked" ELSE "rejected"
             e == IF up /\ conn = r.via /\ client[r.cmd] = "unacked" THEN answer
                  ELSE client[r.cmd]
  <2>1. r.cmd \in Command /\ (r.ok => Kept(r.cmd))
    BY <1>2 DEF AckSent, ReceiversAreJust
  <2>2. client' = [client EXCEPT ![r.cmd] = e] /\ client \in [Command -> {"new", "unacked", "acked", "rejected"}]
    BY <1>2 DEF AckSent, TypeOK
  <2>3. e = "acked" => client[r.cmd] = "acked" \/ Kept(r.cmd)
    BY <2>1
  <2> HIDE DEF r, e
  <2> QED
    BY <2>1, <2>2, <2>3, <1>b
<1>3. CASE UNCHANGED client
  BY <1>3, <1>c
<1> QED
  BY <1>1, <1>2, <1>3, ClientSteps

-----------------------------------------------------------------------------
(* IInv is inductive, so it holds in every reachable state.                  *)
LEMMA InvInit == Init => IInv
<1> SUFFICES ASSUME Init PROVE IInv
  OBVIOUS
<1> USE DEF Init
<1>1. TypeOK
  <2>1. NoTasks \in [Command -> Stage] /\ <<>> \in Seq(Command) /\ 0 \in 0..MaxRuns
        /\ MaxFaults \in 0..MaxFaults /\ MaxFailures \in 0..MaxFailures
    BY BoundsAssumption DEF NoTasks, Stage
  <2> QED
    BY <2>1, OffType DEF TypeOK
<1>2. SeenTookEffect /\ EffectsHappened /\ ExecutorHolds
  BY DEF SeenTookEffect, EffectsHappened, ExecutorHolds, NoTasks, ToSet
<1>3. ReceiversAreJust /\ AcknowledgedIsKept
  BY DEF ReceiversAreJust, AcknowledgedIsKept, Off
<1> QED
  BY <1>1, <1>2, <1>3 DEF IInv

LEMMA InvStep == IInv /\ [Next]_vars => IInv'
  BY TypeStep, SeenStep, EffectsStep, ExecutorStep, ReceiversStep, AcknowledgedStep
  DEF IInv, Sound

LEMMA InvHolds == Spec => []IInv
  BY InvInit, InvStep, PTL DEF Spec

(* The files, the log, every runtime's tasks and receivers and the client are
   well-formed, whatever fails and whoever crashes.                          *)
THEOREM TypeCorrect == Spec => []TypeOK
  BY InvHolds, PTL DEF IInv

(* "ACK means the server durably owns the command": what was acknowledged took
   effect or is in the file, for any number of runtimes at a time.           *)
THEOREM AcknowledgedStaysKept == Spec => []AcknowledgedIsKept
  BY InvHolds, PTL DEF IInv

(* claim_client_command lets one runtime at a time execute a command.        *)
THEOREM OneExecutes == Spec => []ExecutedByOne
<1>1. IInv => ExecutedByOne
  BY DEF IInv, ExecutorHolds, ExecutedByOne
<1> QED
  BY <1>1, InvHolds, PTL

-----------------------------------------------------------------------------
(* Every step is one of the promise, or none that it sees: storing a command
   accepts it, its handler's effect falls under its claim, completing it or
   dropping it from a replay finishes it, and an acknowledgement is one.     *)
Delivers == [Delivery!DeliveryNext]_(Delivery!delivery)

(* The steps that can change what the promise is about.                       *)
LEMMA DeliverySteps ==
    [Next]_vars =>
        \/ UNCHANGED <<pending, holder, runs, client>>
        \/ \E k \in Conn, o \in Owner :
              \/ Create(k, o)
        \/ \E c \in Command :
              \/ Send(c)
        \/ \E k \in Conn :
              \/ StartReplay(k)
              \/ AckSent(k)
        \/ \E k \in Conn, c \in Command :
              \/ Replay(k, c)
              \/ ReceiveOwned(k, c)
              \/ ReceiveUnpersisted(k, c)
        \/ \E o \in Owner, c \in Command :
              \/ Claim(o, c)
              \/ Execute(o, c)
              \/ Complete(o, c)
              \/ HandlerFails(o, c)
              \/ MarkFails(o, c)
              \/ CancelTask(o, c)
  BY ZenonT(60)
  DEF Next, ClientStep, Reconnect, FaultStep, LifeStep, ReceiverStep, Receive,
      TaskStep, vars, fileVars, clientVars, ghostVars, Attach, Connected, ClientLoses,
      Disconnect, StartReceiving, Leave, ReceiveSeen, Incoming, ReceiveOverBacklog,
      ReceiverFails, ClaimFails, Mark, CompleteFails, ReleaseFails, Interrupted,
      TaskDone, Stop, Close, Crash, FreeLease

LEMMA DeliveryStep ==
    IInv /\ [Next]_vars
        => Delivers
<1> SUFFICES ASSUME IInv,
                    [Next]_vars
             PROVE  Delivers
  OBVIOUS
<1> USE DEF fileVars, clientVars, ghostVars
<1> USE DEF IInv
<1> DEFINE O == {d \in Command : Owned(d)}
           E == {d \in Command : runs[d] > 0}
           A == {d \in Command : client[d] = "acked"}
<1>a. ASSUME \A d \in Command : Owned(d) <=> Owned(d)', UNCHANGED <<runs, client>>
      PROVE  Delivers
  <2>1. O' = O /\ E' = E /\ A' = A
    BY <1>a
  <2> QED
    BY <2>1 DEF Delivers, Delivery!delivery
<1>b. ASSUME UNCHANGED fileVars, UNCHANGED runs, UNCHANGED client PROVE Delivers
  BY <1>a, <1>b DEF Owned
<1>c. ASSUME Access, UNCHANGED runs, UNCHANGED client PROVE Delivers
  <2>1. \A d \in Command : Owned(d) <=> Owned(d)'
    BY <1>c, OwnedIs DEF Access, Owned
  <2> QED
    BY <1>a, <1>c, <2>1
<1>d. ASSUME NEW c \in Command, Owned(c), runs[c] > 0, ~Owned(c)', UNCHANGED runs, UNCHANGED client,
             \A d \in Command \ {c} : Owned(d) <=> Owned(d)'
      PROVE  Delivers
  <2>1. O' = O \ {c} /\ E' = E /\ A' = A /\ c \in O \cap E
    BY <1>d
  <2>2. Delivery!Finish(c)
    BY <2>1 DEF Delivery!Finish
  <2> QED
    BY <2>2 DEF Delivers, Delivery!DeliveryNext
<1>e. ASSUME NEW o \in Owner, NEW c \in Command, Release(o, c), UNCHANGED runs, UNCHANGED client
      PROVE  Delivers
  <2>1. CASE Holder[c] = o
    <3>1. \A d \in Command : Owned(d) <=> Owned(d)'
      BY <1>e, <2>1, OwnedIs, FileType, NullsAssumption DEF Release, Owned
    <3> QED
      BY <1>a, <1>e, <3>1
  <2>2. CASE Holder[c] # o
    BY <1>c, <1>e, <2>2 DEF Release
  <2> QED
    BY <2>1, <2>2
<1>1. ASSUME NEW k \in Conn, NEW o \in Owner, Create(k, o) PROVE Delivers
  BY <1>1, <1>c DEF Create, Connected
<1>2. ASSUME NEW c \in Command, Send(c) PROVE Delivers
  <2>1. UNCHANGED fileVars /\ UNCHANGED runs /\ client' = [client EXCEPT ![c] = "unacked"]
        /\ client[c] # "acked"
    BY <1>2 DEF Send
  <2>2. O' = O /\ E' = E /\ A' = A
    BY <2>1 DEF TypeOK, Owned
  <2> QED
    BY <2>2 DEF Delivers, Delivery!delivery
<1>3. ASSUME NEW k \in Conn, StartReplay(k) PROVE Delivers
  BY <1>3, <1>c DEF StartReplay
<1>4. ASSUME NEW k \in Conn, NEW c \in Command, Replay(k, c) PROVE Delivers
  <2>1. UNCHANGED <<runs, client>> /\ receiver[k].owner \in Owner
    BY <1>4 DEF Replay, ReceiversAreJust
  <2>2. CASE ~Seen(receiver[k].owner, c)
    BY <1>4, <2>1, <2>2, <1>b DEF Replay
  <2>3. CASE Seen(receiver[k].owner, c)
    <3>1. runs[c] > 0
      BY <2>1, <2>3 DEF Seen, SeenTookEffect
    <3>2. holder' = Holder /\ pending' = IF Holder[c] = NoOwner THEN Pending \ {c} ELSE Pending
      BY <1>4, <2>3 DEF Replay
    <3>3. \A d \in Command \ {c} : Owned(d) <=> Owned(d)'
      BY <3>2, OwnedIs DEF Owned
    <3>4. Owned(c)' => Owned(c)
      BY <3>2, OwnedIs DEF Owned
    <3> QED
      BY <2>1, <3>1, <3>3, <3>4, <1>a, <1>d
  <2> QED
    BY <2>2, <2>3
<1>5. ASSUME NEW k \in Conn, NEW c \in Command, ReceiveOwned(k, c) PROVE Delivers
  <2>1. UNCHANGED <<runs, client>> /\ holder' = Holder
        /\ pending' = IF HasClientCommand(c) THEN Pending ELSE Pending \cup {c}
    BY <1>5 DEF ReceiveOwned, Incoming
  <2>2. O' = O \cup {c}
    BY <2>1, OwnedIs DEF HasClientCommand, Owned
  <2>3. Delivery!Accept(c)
    BY <2>1, <2>2 DEF Delivery!Accept
  <2> QED
    BY <2>3 DEF Delivers, Delivery!DeliveryNext
<1>6. ASSUME NEW k \in Conn, NEW c \in Command, ReceiveUnpersisted(k, c)
      PROVE  Delivers
  BY <1>6, <1>c DEF ReceiveUnpersisted, Incoming
<1>7. ASSUME NEW k \in Conn, AckSent(k) PROVE Delivers
  <2> DEFINE r == receiver[k]
             e == IF up /\ conn = r.via /\ client[r.cmd] = "unacked"
                  THEN (IF r.ok THEN "acked" ELSE "rejected") ELSE client[r.cmd]
  <2>1. /\ r.cmd \in Command /\ (r.ok => Kept(r.cmd))
        /\ UNCHANGED fileVars /\ UNCHANGED runs
    BY <1>7 DEF AckSent, ReceiversAreJust
  <2>2. client' = [client EXCEPT ![r.cmd] = e] /\ client \in [Command -> {"new", "unacked", "acked", "rejected"}]
    BY <1>7 DEF AckSent, TypeOK
  <2>3. O' = O /\ E' = E
    BY <2>1 DEF Owned
  <2>4. CASE e = client[r.cmd]
    BY <2>1, <2>2, <2>4, <1>b
  <2>5. CASE e = "rejected" /\ client[r.cmd] = "unacked"
    <3>1. A' = A
      <4> HIDE DEF r, e
      <4> QED
        BY <2>1, <2>2, <2>5
    <3> QED
      BY <2>3, <3>1 DEF Delivers, Delivery!delivery
  <2>6. CASE e = "acked" /\ r.ok
    <3>1. A' = A \cup {r.cmd}
      <4> HIDE DEF r, e
      <4> QED
        BY <2>1, <2>2, <2>6
    <3>2. r.cmd \in O \cup E
      BY <2>1, <2>6 DEF Kept
    <3>3. PICK d \in Command : d = r.cmd
      BY <2>1
    <3>4. Delivery!Acknowledged(d)
      BY <2>3, <3>1, <3>2, <3>3 DEF Delivery!Acknowledged
    <3> QED
      BY <3>4 DEF Delivers, Delivery!DeliveryNext
  <2> QED
    BY <2>4, <2>5, <2>6
<1>8. ASSUME NEW o \in Owner, NEW c \in Command, Claim(o, c) PROVE Delivers
  <2>1. CASE Claimable(c)
    <3>1. /\ pending' = Pending \ {c} /\ holder' = [Holder EXCEPT ![c] = o]
          /\ UNCHANGED <<runs, client>>
      BY <1>8, <2>1 DEF Claim
    <3>2. \A d \in Command : Owned(d) <=> Owned(d)'
      BY <3>1, <2>1, OwnedIs, FileType, NullsAssumption DEF Claimable, Owned
    <3> QED
      BY <3>1, <3>2, <1>a
  <2>2. CASE ~Claimable(c)
    BY <1>8, <2>2, <1>c DEF Claim
  <2> QED
    BY <2>1, <2>2
<1>9. ASSUME NEW o \in Owner, NEW c \in Command, Execute(o, c) PROVE Delivers
  <2>1. /\ runs' = [runs EXCEPT ![c] = runs[c] + 1] /\ UNCHANGED fileVars /\ UNCHANGED client
        /\ holder[c] = o
    BY <1>9 DEF Execute, TaskAt, ExecutorHolds
  <2>2. runs[c] \in Nat /\ runs \in [Command -> 0..MaxRuns]
    BY BoundsAssumption DEF TypeOK
  <2>3. O' = O /\ E' = E \cup {c} /\ A' = A /\ c \in O
    BY <2>1, <2>2, NullsAssumption DEF Owned
  <2>4. Delivery!TakeEffect(c)
    BY <2>3 DEF Delivery!TakeEffect
  <2> QED
    BY <2>4 DEF Delivers, Delivery!DeliveryNext
<1>10. ASSUME NEW o \in Owner, NEW c \in Command, Complete(o, c) PROVE Delivers
  <2>1. UNCHANGED <<runs, client>> /\ runs[c] > 0 /\ pending' = Pending
        /\ holder' = [Holder EXCEPT ![c] = IF Holder[c] = o THEN NoOwner ELSE Holder[c]]
    BY <1>10 DEF Complete, EffectsHappened
  <2>2. \A d \in Command \ {c} : Owned(d) <=> Owned(d)'
    BY <2>1, OwnedIs, FileType DEF Owned
  <2>3. Owned(c)' => Owned(c)
    BY <2>1, OwnedIs, FileType DEF Owned
  <2> QED
    BY <2>1, <2>2, <2>3, <1>a, <1>d
<1>11. ASSUME NEW o \in Owner, NEW c \in Command, HandlerFails(o, c)
      PROVE  Delivers
  BY <1>11, <1>e DEF HandlerFails, Interrupted
<1>12. ASSUME NEW o \in Owner, NEW c \in Command, MarkFails(o, c) PROVE Delivers
  BY <1>12, <1>e DEF MarkFails, Interrupted
<1>13. ASSUME NEW o \in Owner, NEW c \in Command, CancelTask(o, c) PROVE Delivers
  BY <1>13, <1>b, <1>e DEF CancelTask, Interrupted
<1>14. CASE UNCHANGED <<pending, holder, runs, client>>
  BY <1>14, <1>b DEF fileVars
<1> QED
  BY <1>1, <1>2, <1>3, <1>4, <1>5, <1>6, <1>7, <1>8, <1>9, <1>10, <1>11, <1>12,
     <1>13, <1>14, DeliverySteps

(* The dispatcher and its files implement CommandDelivery: a command is owned
   until it has taken effect and takes effect only while it is claimed, across
   crashes, lost leases, failed writes and several runtimes.                 *)
THEOREM ImplementsDelivery == Spec => DeliversCommands
<1>1. Init => Delivery!DeliveryInit
  BY DEF Init, Delivery!DeliveryInit, Owned
<1>2. IInv /\ [Next]_vars => [Delivery!DeliveryNext]_(Delivery!delivery)
  BY DeliveryStep DEF Delivers
<1> QED
  BY <1>1, <1>2, InvHolds, PTL DEF Spec, DeliversCommands, Delivery!DeliverySpec

-----------------------------------------------------------------------------
(* One runtime at a time.  An effect that is on record nowhere is one that the
   command may have again: the invariant follows each effect from the handler
   to the log, to the memory of the next runtime.                            *)

(* The last effect has not been excused.                                     *)
Done(c) == runs[c] > excused[c]

(* What a runtime that reads the log remembers of it.                        *)
Latest(ids) == SubSeq(ids, IF Len(ids) > RecentMax THEN Len(ids) - RecentMax + 1 ELSE 1, Len(ids))

Answering(k, c) == receiver[k].at = "acking" /\ receiver[k].cmd = c /\ receiver[k].sched

(* Nobody is at work on c: it is pending, or will be once a lease is free.    *)
Free(c) == c \in pending \/ (holder[c] # NoOwner /\ ~Running(holder[c]))

OneRuns == \A o, p \in Owner : Running(o) /\ Running(p) => o = p
Apart == \A c \in Command : holder[c] # NoOwner => c \notin pending
Logged == (\A o \in Owner : ~Running(o)) =>
              \A c \in Command : Done(c) => c \in ToSet(Latest(log))

(* A runtime that does not run has no memory, tasks or receivers.            *)
Blank(o) ==
    /\ recent[o] = <<>> /\ task[o] = NoTasks
    /\ \A k \in Conn : receiver[k].at # "off" => receiver[k].owner # o

(* The one that runs remembers the end of the log.                           *)
Follows(o) ==
    /\ Len(recent[o]) <= RecentMax /\ Len(recent[o]) <= Len(log)
    /\ \A i \in 1..Len(recent[o]) : recent[o][i] = log[Len(log) - Len(recent[o]) + i]

(* It knows of every effect, or is about to; and it does not claim, nor is
   going to claim, a command that has had its effect.                        *)
Accounted(o, c) ==
    /\ runs[c] <= 1 + excused[c]
    /\ Done(c) => Seen(o, c) \/ task[o][c] = "executed"
    /\ task[o][c] = "executing" => ~Done(c)
    /\ task[o][c] = "scheduled" /\ Free(c) => ~Done(c)
    /\ \A k \in Conn : Answering(k, c) /\ Free(c) => ~Done(c)

OnceInv ==
    /\ OneRuns /\ Apart /\ Logged /\ ExecutedOnce
    /\ \A o \in Owner : IF Running(o) THEN Follows(o) /\ \A c \in Command : Accounted(o, c)
                        ELSE Blank(o)

-----------------------------------------------------------------------------
(* Compaction keeps every one of the latest ids.                              *)
LEMMA RetainedLatest ==
    ASSUME NEW S, NEW ids \in Seq(S)
    PROVE  /\ ToSet(Latest(ids)) \subseteq ToSet(Retained(ids))
           /\ Len(Retained(ids)) <= RecentMax
<1> DEFINE lst == Latest(ids)
           first == {i \in DOMAIN lst : \A j \in 1..(i - 1) : lst[j] # lst[i]}
           at(r) == CHOOSE i \in first : Rank(first, i) = r
<1>1. lst \in Seq(S) /\ Len(lst) \in Nat /\ Len(lst) <= RecentMax /\ DOMAIN lst = 1..Len(lst)
  BY LimitsAssumption DEF Latest
<1>2. Retained(ids) = [r \in 1..Cardinality(first) |-> lst[at(r)]]
  BY DEF Retained, Latest
<1> HIDE DEF lst
<1>3. first \subseteq 1..Len(lst) /\ IsFiniteSet(1..Len(lst)) /\ Cardinality(1..Len(lst)) = Len(lst)
  <2>1. first \subseteq 1..Len(lst)
    BY <1>1
  <2> HIDE DEF first
  <2>2. \A m \in Nat : IsFiniteSet(1..m) /\ Cardinality(1..m) = m
    <3>1. SUFFICES ASSUME NEW m \in Nat PROVE IsFiniteSet(1..m) /\ Cardinality(1..m) = m
      OBVIOUS
    <3>2. m \in Int /\ 1 \in Int /\ (IF 1 > m THEN 0 ELSE m - 1 + 1) = m
      OBVIOUS
    <3> QED
      BY <3>2, FS_Interval
  <2> QED
    BY <1>1, <2>1, <2>2
<1>4. IsFiniteSet(first) /\ Cardinality(first) \in Nat /\ Cardinality(first) <= Len(lst)
  BY <1>3, FS_Subset, FS_CardinalityType
<1>5. ASSUME NEW i \in first PROVE \E r \in 1..Cardinality(first) : at(r) = i
  <2> DEFINE upto(j) == {x \in first : x <= j}
             r == Rank(first, i)
  <2>1. \A j \in first : upto(j) \subseteq first /\ IsFiniteSet(upto(j)) /\ j \in upto(j)
                         /\ Cardinality(upto(j)) \in Nat
    BY <1>3, <1>4, FS_Subset, FS_CardinalityType
  <2>2. r \in 1..Cardinality(first)
    <3> HIDE DEF first
    <3>1. Cardinality(upto(i)) <= Cardinality(first) /\ Cardinality(upto(i)) # 0
      BY <1>4, <2>1, FS_Subset, FS_EmptySet
    <3>2. r = Cardinality(upto(i))
      BY DEF Rank
    <3> HIDE DEF r, upto
    <3> QED
      BY <1>4, <2>1, <3>1, <3>2
  <2>3. ASSUME NEW j \in first, Rank(first, j) = r, j # i PROVE FALSE
    <3>1. ASSUME NEW x \in first, NEW y \in first, x < y PROVE Rank(first, x) # Rank(first, y)
      <4>1. upto(x) \subseteq upto(y) /\ y \in upto(y) \ upto(x)
        BY <1>3, <2>1, <3>1
      <4>2. Cardinality(upto(x)) = Cardinality(upto(y)) => upto(x) = upto(y)
        BY <2>1, <4>1, FS_Subset
      <4> QED
        BY <4>1, <4>2 DEF Rank
    <3>2. i < j \/ j < i
      BY <1>3, <2>3
    <3> QED
      BY <2>3, <3>1, <3>2
  <2>4. at(r) = i
    BY <2>3
  <2> QED
    BY <2>2, <2>4
<1>6. ASSUME NEW e \in ToSet(lst) PROVE e \in ToSet(Retained(ids))
  <2> DEFINE I == {i \in 1..Len(lst) : lst[i] = e}
  <2>1. I \in SUBSET Nat /\ I # {}
    BY <1>1, <1>6 DEF ToSet
  <2>2. PICK i \in I : \A j \in I : i <= j
    BY <2>1, NatLeast
  <2>3. i \in first /\ lst[i] = e
    BY <1>1, <2>1, <2>2
  <2>4. PICK r \in 1..Cardinality(first) : at(r) = i
    BY <1>5, <2>3
  <2>5. r \in DOMAIN Retained(ids) /\ Retained(ids)[r] = e
    BY <1>2, <2>3, <2>4
  <2> QED
    BY <2>5 DEF ToSet
<1>7. Len(Retained(ids)) = Cardinality(first)
  BY <1>2, <1>4
<1> QED
  BY <1>1, <1>4, <1>6, <1>7, LimitsAssumption DEF lst

-----------------------------------------------------------------------------
(* While a runtime runs it is the only one, and every receiver is its own.    *)
LEMMA SoleRuntime ==
    ASSUME IInv, OnceInv, NEW o \in Owner, Running(o)
    PROVE  /\ \A p \in Owner \ {o} : ~Running(p)
           /\ \A k \in Conn : receiver[k].at # "off" => receiver[k].owner = o
<1>1. \A p \in Owner \ {o} : ~Running(p)
  BY DEF OnceInv, OneRuns
<1>2. ASSUME NEW k \in Conn, receiver[k].at # "off" PROVE receiver[k].owner = o
  <2>1. receiver[k].owner \in Owner
    BY <1>2 DEF IInv, ReceiversAreJust
  <2> QED
    BY <1>1, <1>2, <2>1 DEF OnceInv, Blank
<1> QED
  BY <1>1, <1>2

(* Recovery takes no claim from a runtime that runs, and makes nothing free.  *)
LEMMA RecoveryFrees ==
    ASSUME IInv, OnceInv, NEW c \in Command
    PROVE  /\ c \in Pending => Free(c) /\ Holder[c] = NoOwner
           /\ Holder[c] \in Owner \cup {NoOwner}
           /\ Holder[c] # NoOwner => Holder[c] = holder[c]
           /\ ~Free(c) => Holder[c] = holder[c]
<1>1. holder[c] \in Owner \cup {NoOwner} /\ (holder[c] # NoOwner => c \notin pending)
  BY DEF IInv, TypeOK, OnceInv, Apart
<1>2. c \in Stale => holder[c] # NoOwner /\ ~Running(holder[c])
  BY <1>1 DEF Stale, OwnerIsLive, Running
<1>3. Holder[c] = IF c \in Stale THEN NoOwner ELSE holder[c]
  BY DEF Holder
<1> QED
  BY <1>1, <1>2, <1>3 DEF Pending, Free

(* A write to the file, of whoever runs, frees no command but c.              *)
LEMMA FileMoves ==
    ASSUME IInv, OnceInv, TypeOK', UNCHANGED life, NEW c \in Command,
           \/ UNCHANGED fileVars
           \/ \A d \in Command \ {c} : (d \in pending' <=> d \in Pending) /\ holder'[d] = Holder[d],
           holder'[c] # NoOwner => c \notin pending'
    PROVE  Apart' /\ \A d \in Command \ {c} : Free(d)' => Free(d)
<1>1. \A p : Running(p)' <=> Running(p)
  BY DEF Running
<1>2. CASE UNCHANGED fileVars
  BY <1>1, <1>2 DEF fileVars, OnceInv, Apart, Free
<1>3. CASE \A d \in Command \ {c} : (d \in pending' <=> d \in Pending) /\ holder'[d] = Holder[d]
  <2>1. ASSUME NEW d \in Command \ {c}
        PROVE  (holder'[d] # NoOwner => d \notin pending') /\ (Free(d)' => Free(d))
    <3>1. /\ d \in Pending => Free(d) /\ Holder[d] = NoOwner
          /\ Holder[d] # NoOwner => Holder[d] = holder[d]
      BY RecoveryFrees
    <3>2. (d \in pending' <=> d \in Pending) /\ holder'[d] = Holder[d]
      BY <1>3
    <3> QED
      BY <1>1, <3>1, <3>2 DEF Free
  <2> QED
    BY <2>1 DEF Apart
<1> QED
  BY <1>2, <1>3

LEMMA AccessFrees ==
    ASSUME IInv, OnceInv, UNCHANGED life, Access \/ UNCHANGED fileVars
    PROVE  Apart' /\ \A d \in Command : Free(d)' => Free(d)
<1>1. \A p : Running(p)' <=> Running(p)
  BY DEF Running
<1>2. CASE UNCHANGED fileVars
  BY <1>1, <1>2 DEF fileVars, OnceInv, Apart, Free
<1>3. CASE Access
  <2>1. ASSUME NEW d \in Command
        PROVE  (holder'[d] # NoOwner => d \notin pending') /\ (Free(d)' => Free(d))
    <3>1. /\ d \in Pending => Free(d) /\ Holder[d] = NoOwner
          /\ Holder[d] # NoOwner => Holder[d] = holder[d]
      BY RecoveryFrees
    <3>2. (d \in pending' <=> d \in Pending) /\ holder'[d] = Holder[d]
      BY <1>3 DEF Access
    <3> QED
      BY <1>1, <3>1, <3>2 DEF Free
  <2> QED
    BY <2>1 DEF Apart
<1> QED
  BY <1>2, <1>3

(* A step of the runtime that runs: what is left to show is about the commands
   that it touches.                                                          *)
LEMMA RunningStep ==
    ASSUME IInv, OnceInv, TypeOK', NEW o \in Owner, Running(o), Running(o)', NEW C \in SUBSET Command,
           \A p \in Owner \ {o} : life'[p] = life[p] /\ recent'[p] = recent[p] /\ task'[p] = task[p],
           \A d \in Command \ C :
               /\ task'[o][d] = task[o][d] /\ (Free(d)' => Free(d))
               /\ runs'[d] = runs[d] /\ excused'[d] >= excused[d]
               /\ Seen(o, d) => Seen(o, d)' \/ ~Done(d)',
           \A k \in Conn : /\ receiver'[k].at # "off" => receiver'[k].owner = o
                           /\ \A d \in Command \ C : Answering(k, d)' => Answering(k, d),
           Follows(o)', Apart',
           \A c \in C : Accounted(o, c)'
    PROVE  OnceInv'
<1>1. /\ \A p \in Owner \ {o} : ~Running(p) /\ Blank(p)
      /\ \A d \in Command : Accounted(o, d)
      /\ \A d \in Command : runs[d] \in Nat /\ excused[d] \in Nat /\ runs'[d] \in Nat /\ excused'[d] \in Nat
  <2>1. \A p \in Owner \ {o} : ~Running(p) /\ Blank(p)
    BY SoleRuntime DEF OnceInv
  <2>2. \A d \in Command : Accounted(o, d)
    BY DEF OnceInv
  <2>3. \A d \in Command : runs[d] \in Nat /\ excused[d] \in Nat /\ runs'[d] \in Nat /\ excused'[d] \in Nat
    BY BoundsAssumption DEF IInv, TypeOK
  <2> QED
    BY <2>1, <2>2, <2>3
<1>2. \A p \in Owner \ {o} : ~Running(p)' /\ Blank(p)'
  BY <1>1 DEF Running, Blank
<1>3. ASSUME NEW d \in Command \ C PROVE Accounted(o, d)'
  <2>1. /\ Done(d)' => Done(d)
        /\ runs'[d] <= 1 + excused'[d]
    BY <1>1, <1>3 DEF Accounted, Done
  <2>2. (Free(d)' => Free(d)) /\ \A k \in Conn : Answering(k, d)' => Answering(k, d)
    BY <1>3
  <2>3. /\ Done(d)' => Seen(o, d)' \/ task'[o][d] = "executed"
        /\ task'[o][d] = "executing" => ~Done(d)'
        /\ task'[o][d] = "scheduled" /\ Free(d)' => ~Done(d)'
    BY <1>1, <1>3, <2>1, <2>2 DEF Accounted
  <2>4. \A k \in Conn : Answering(k, d)' /\ Free(d)' => ~Done(d)'
    BY <1>1, <1>3, <2>1, <2>2 DEF Accounted
  <2> QED
    BY <2>1, <2>3, <2>4 DEF Accounted
<1>4. ExecutedOnce'
  BY <1>3 DEF ExecutedOnce, Accounted
<1>5. OneRuns' /\ Logged'
  BY <1>2 DEF OneRuns, Logged
<1> QED
  BY <1>2, <1>3, <1>4, <1>5 DEF OnceInv

LEMMA CommandStep ==
    ASSUME IInv, OnceInv, TypeOK', NEW o \in Owner, Running(o), Running(o)', NEW c \in Command,
           \A p \in Owner \ {o} : life'[p] = life[p] /\ recent'[p] = recent[p] /\ task'[p] = task[p],
           \A d \in Command \ {c} :
               /\ task'[o][d] = task[o][d] /\ (Free(d)' => Free(d))
               /\ runs'[d] = runs[d] /\ excused'[d] >= excused[d]
               /\ Seen(o, d) => Seen(o, d)' \/ ~Done(d)',
           \A k \in Conn : /\ receiver'[k].at # "off" => receiver'[k].owner = o
                           /\ \A d \in Command \ {c} : Answering(k, d)' => Answering(k, d),
           Follows(o)', Apart', Accounted(o, c)'
    PROVE  OnceInv'
<1> DEFINE C == {c}
<1>1. C \in SUBSET Command /\ \A d \in C : d = c
  OBVIOUS
<1>2. \A d \in Command \ C : d \in Command \ {c}
  OBVIOUS
<1> HIDE DEF C
<1>3. \A d \in C : Accounted(o, d)'
  BY <1>1
<1> QED
  BY <1>1, <1>2, <1>3, RunningStep

(* A step that only moves receivers, none to schedule a command.              *)
LEMMA ReceiverMoves ==
    ASSUME IInv, OnceInv, TypeOK', NEW o \in Owner, Running(o),
           UNCHANGED <<log, life, recent, task, ghostVars>>, Access \/ UNCHANGED fileVars,
           \A k \in Conn : \/ receiver'[k] = receiver[k]
                           \/ receiver'[k].at = "off"
                           \/ receiver'[k].owner = o /\ \A d \in Command : ~Answering(k, d)'
    PROVE  OnceInv'
<1>1. Running(o)' /\ Follows(o)' /\ \A d \in Command : Seen(o, d) => Seen(o, d)'
  BY DEF OnceInv, Running, Follows, Seen
<1>f. Apart' /\ \A d \in Command : Free(d)' => Free(d)
  BY AccessFrees
<1>2. \A d \in Command : excused'[d] >= excused[d]
  BY DEF IInv, TypeOK, ghostVars
<1>3. \A k \in Conn : /\ receiver'[k].at # "off" => receiver'[k].owner = o
                      /\ \A d \in Command : Answering(k, d)' => Answering(k, d)
  BY SoleRuntime DEF Answering
<1> DEFINE none == {}
<1>4. none \in SUBSET Command /\ \A d \in none : FALSE
  OBVIOUS
<1> HIDE DEF none
<1> QED
  BY <1>1, <1>f, <1>2, <1>3, <1>4, RunningStep DEF ghostVars

(* What the receivers do before and after they answer.                        *)
LEMMA OnceReceives ==
    ASSUME IInv, OnceInv, TypeOK', NEW k \in Conn,
           \/ StartReplay(k) \/ StartReceiving(k) \/ Leave(k) \/ ReceiverFails(k)
           \/ \E c \in Command :
                  ReceiveSeen(k, c) \/ ReceiveOverBacklog(k, c) \/ ReceiveUnpersisted(k, c)
    PROVE  OnceInv'
<1> DEFINE o == receiver[k].owner
<1>1. receiver[k].at # "off" /\ o \in Owner /\ Running(o)
  <2>1. receiver[k].at # "off" /\ Loop(o)
    BY DEF StartReplay, StartReceiving, Leave, ReceiverFails, ReceiveSeen, ReceiveOverBacklog,
           ReceiveUnpersisted, Incoming
  <2> QED
    BY <2>1 DEF Loop, IInv, ReceiversAreJust
<1>2. receiver \in [Conn -> Receiver] /\ receiver[k] \in Receiver
  BY DEF IInv, TypeOK
<1>3. UNCHANGED <<log, life, recent, task, ghostVars>> /\ (Access \/ UNCHANGED fileVars)
  BY DEF StartReplay, StartReceiving, Leave, ReceiverFails, ReceiveSeen,
     ReceiveOverBacklog, ReceiveUnpersisted, Incoming, ghostVars
<1>4. ASSUME NEW r, receiver' = [receiver EXCEPT ![k] = r],
             r.at = "off" \/ (r.owner = o /\ (r.at = "acking" => ~r.sched))
      PROVE  OnceInv'
  <2>1. receiver'[k] = r /\ \A j \in Conn \ {k} : receiver'[j] = receiver[j]
    BY <1>2, <1>4
  <2>2. \A d \in Command : r.at = "off" \/ ~Answering(k, d)'
    BY <1>4, <2>1 DEF Answering
  <2> QED
    BY <1>1, <1>3, <1>4, <2>1, <2>2, ReceiverMoves
<1>5. ASSUME NEW c, NEW ok, Acknowledge(k, c, ok, FALSE) PROVE OnceInv'
  <2> DEFINE r == [receiver[k] EXCEPT !.at = "acking", !.cmd = c, !.via = conn, !.ok = ok,
                                      !.sched = FALSE, !.left = receiver[k].left \ {c}]
  <2>1. receiver' = [receiver EXCEPT ![k] = r]
    BY <1>5 DEF Acknowledge
  <2>2. r.owner = o /\ ~r.sched
    BY <1>2 DEF Receiver
  <2> HIDE DEF r
  <2> QED
    BY <1>4, <2>1, <2>2
<1>6. CASE StartReplay(k)
  <2> DEFINE r == [receiver[k] EXCEPT !.at = "replaying", !.left = Pending]
  <2>1. receiver' = [receiver EXCEPT ![k] = r]
    BY <1>6 DEF StartReplay
  <2>2. r.owner = o /\ r.at = "replaying"
    BY <1>2 DEF Receiver
  <2> HIDE DEF r
  <2> QED
    BY <1>4, <2>1, <2>2
<1>7. CASE StartReceiving(k)
  <2> DEFINE r == [receiver[k] EXCEPT !.at = "receiving"]
  <2>1. receiver' = [receiver EXCEPT ![k] = r]
    BY <1>7 DEF StartReceiving
  <2>2. r.owner = o /\ r.at = "receiving"
    BY <1>2 DEF Receiver
  <2> HIDE DEF r
  <2> QED
    BY <1>4, <2>1, <2>2
<1>8. CASE Leave(k) \/ ReceiverFails(k)
  <2>1. receiver' = [receiver EXCEPT ![k] = Off] /\ Off.at = "off"
    BY <1>8 DEF Leave, ReceiverFails, Off
  <2> HIDE DEF o
  <2> QED
    BY <1>4, <2>1
<1>9. ASSUME NEW c \in Command,
             ReceiveSeen(k, c) \/ ReceiveOverBacklog(k, c) \/ ReceiveUnpersisted(k, c)
      PROVE  OnceInv'
  <2>1. Acknowledge(k, c, TRUE, FALSE) \/ Acknowledge(k, c, FALSE, FALSE)
    BY <1>9 DEF ReceiveSeen, ReceiveOverBacklog, ReceiveUnpersisted
  <2> QED
    BY <1>5, <2>1
<1> QED
  BY <1>6, <1>7, <1>8, <1>9

LEMMA OnceAttaches ==
    ASSUME IInv, OnceInv, TypeOK', NEW k \in Conn, NEW o \in Owner, Attach(k, o)
    PROVE  OnceInv'
<1> DEFINE r == [Off EXCEPT !.owner = o, !.at = "attached"]
<1>1. r.owner = o /\ r.at = "attached"
  BY DEF Off
<1> HIDE DEF r
<1>2. receiver' = [receiver EXCEPT ![k] = r] /\ receiver \in [Conn -> Receiver]
  BY DEF Attach, Connected, IInv, TypeOK, r
<1>3. receiver'[k] = r /\ \A j \in Conn \ {k} : receiver'[j] = receiver[j]
  BY <1>2
<1>4. Running(o) /\ UNCHANGED fileVars /\ UNCHANGED <<log, life, recent, task, ghostVars>>
  BY DEF Attach, Connected, Running, ghostVars
<1>5. \A d \in Command : ~Answering(k, d)'
  BY <1>1, <1>3 DEF Answering
<1> QED
  BY <1>1, <1>3, <1>4, <1>5, ReceiverMoves

(* A command that the runtime does not remember may be scheduled: if it has had
   its effect, that is of a task that still holds the claim.                 *)
LEMMA OnceAnswers ==
    ASSUME IInv, OnceInv, TypeOK', NEW k \in Conn, NEW c \in Command,
           Replay(k, c) \/ ReceiveOwned(k, c)
    PROVE  OnceInv'
<1>o. receiver[k].at # "off" /\ Loop(receiver[k].owner) /\ receiver[k].owner \in Owner
  BY DEF Replay, ReceiveOwned, Incoming, IInv, ReceiversAreJust
<1>p. PICK o \in Owner : o = receiver[k].owner
  BY <1>o
<1>0. receiver[k].at # "off" /\ Loop(o)
  BY <1>o, <1>p
<1>1. o \in Owner /\ Running(o) /\ TypeOK
  BY <1>0 DEF Loop, IInv
<1>2. receiver \in [Conn -> Receiver] /\ receiver[k] \in Receiver
  BY DEF IInv, TypeOK
<1>3. /\ \A j \in Conn : receiver[j].at # "off" => receiver[j].owner = o
      /\ Follows(o) /\ Apart /\ Accounted(o, c)
  BY <1>1, SoleRuntime DEF OnceInv
<1>4. /\ UNCHANGED <<log, life, recent, task, ghostVars>>
      /\ \/ UNCHANGED fileVars
         \/ holder' = Holder /\ (pending' = Pending \/ pending' = Pending \ {c})
         \/ holder' = Holder /\ pending' = Pending \cup {c} /\ ~Seen(o, c) /\ Holder[c] = NoOwner
      /\ \E sched \in BOOLEAN : Acknowledge(k, c, TRUE, sched) /\ (sched => ~Seen(o, c))
  BY <1>p DEF Replay, ReceiveOwned, Incoming, Admissible, HasClientCommand, ghostVars
<1>5. PICK sched \in BOOLEAN : Acknowledge(k, c, TRUE, sched) /\ (sched => ~Seen(o, c))
  BY <1>4
<1> DEFINE r == [receiver[k] EXCEPT !.at = "acking", !.cmd = c, !.via = conn, !.ok = TRUE,
                                    !.sched = sched, !.left = receiver[k].left \ {c}]
<1>6. receiver' = [receiver EXCEPT ![k] = r]
  BY <1>5 DEF Acknowledge
<1>7. r.owner = o /\ r.cmd = c /\ r.sched = sched
  BY <1>2, <1>p DEF Receiver
<1> HIDE DEF r
<1>8. receiver'[k] = r /\ \A j \in Conn \ {k} : receiver'[j] = receiver[j]
  BY <1>2, <1>6
<1>9. /\ \A j \in Conn : receiver'[j].at # "off" => receiver'[j].owner = o
      /\ \A j \in Conn, d \in Command \ {c} : Answering(j, d)' => Answering(j, d)
      /\ \A j \in Conn : Answering(j, c)' => Answering(j, c) \/ ~Seen(o, c)
  BY <1>3, <1>5, <1>7, <1>8 DEF Answering
<1>10. task[o][c] = "executed" => ~Free(c) /\ Holder[c] # NoOwner
  <2>1. task[o][c] = "executed" => holder[c] = o /\ o # NoOwner
    BY <1>1, NullsAssumption DEF IInv, ExecutorHolds
  <2>2. ~Free(c) => Holder[c] = holder[c]
    BY RecoveryFrees
  <2> QED
    BY <1>1, <1>3, <2>1, <2>2 DEF Apart, Free
<1>u. UNCHANGED <<log, life, recent, task, runs, excused>>
  BY <1>4 DEF ghostVars
<1>11. Running(o)' /\ Follows(o)' /\ \A d \in Command : (Seen(o, d)' <=> Seen(o, d)) /\ (Done(d)' <=> Done(d))
  BY <1>1, <1>3, <1>u DEF Done, Seen, Running, Follows
<1>c. /\ c \in Pending => Free(c) /\ Holder[c] = NoOwner
      /\ Holder[c] # NoOwner => Holder[c] = holder[c]
  BY RecoveryFrees
<1>f. /\ holder'[c] # NoOwner => c \notin pending'
      /\ Free(c)' => Free(c) \/ (~Seen(o, c) /\ Holder[c] = NoOwner)
  <2>1. \A p : Running(p)' <=> Running(p)
    BY <1>u DEF Running
  <2> QED
    BY <1>3, <1>4, <1>c, <2>1 DEF fileVars, Apart, Free
<1>g. Apart' /\ \A d \in Command \ {c} : Free(d)' => Free(d)
  <2>1. \/ UNCHANGED fileVars
        \/ \A d \in Command \ {c} : (d \in pending' <=> d \in Pending) /\ holder'[d] = Holder[d]
    BY <1>4
  <2> QED
    BY <1>u, <1>f, <2>1, FileMoves
<1>12. Accounted(o, c)'
  <2>1. Free(c)' /\ Done(c) /\ ~Seen(o, c) => FALSE
    BY <1>3, <1>10, <1>f DEF Accounted
  <2>2. Free(c)' /\ Seen(o, c) => Free(c)
    BY <1>f
  <2>3. \A j \in Conn : Answering(j, c)' /\ Free(c)' => ~Done(c)'
    BY <1>3, <1>9, <1>11, <2>1, <2>2 DEF Accounted
  <2>4. task'[o][c] = "scheduled" /\ Free(c)' => ~Done(c)'
    BY <1>3, <1>u, <1>11, <2>1, <2>2 DEF Accounted
  <2> QED
    BY <1>3, <1>u, <1>11, <2>3, <2>4 DEF Accounted
<1>14. \A d \in Command \ {c} : excused'[d] >= excused[d]
  BY <1>1, <1>u DEF TypeOK
<1> QED
  BY <1>1, <1>u, <1>9, <1>11, <1>12, <1>14, <1>g, CommandStep

(* The acknowledgement is sent, and the command scheduled.                    *)
LEMMA OnceAcknowledges ==
    ASSUME IInv, OnceInv, TypeOK', NEW k \in Conn, AckSent(k)
    PROVE  OnceInv'
<1>o. /\ receiver[k].at = "acking" /\ Loop(receiver[k].owner)
      /\ receiver[k].owner \in Owner /\ receiver[k].cmd \in Command
  BY DEF AckSent, IInv, ReceiversAreJust
<1>p. PICK o \in Owner, c \in Command : o = receiver[k].owner /\ c = receiver[k].cmd
  BY <1>o
<1> DEFINE r == [receiver[k] EXCEPT !.at = IF receiver[k].left = {} THEN "receiving" ELSE "replaying",
                                    !.cmd = NoCommand, !.via = NoConn, !.ok = FALSE, !.sched = FALSE]
           s == IF receiver[k].sched /\ task[o][c] = "none" THEN "scheduled" ELSE task[o][c]
<1>1. receiver[k].at = "acking" /\ o \in Owner /\ c \in Command /\ Running(o) /\ TypeOK
  BY <1>o, <1>p DEF Loop, IInv
<1>2. receiver \in [Conn -> Receiver] /\ receiver[k] \in Receiver
      /\ task \in [Owner -> [Command -> Stage]]
  BY <1>1 DEF TypeOK
<1>3. /\ receiver' = [receiver EXCEPT ![k] = r] /\ task' = [task EXCEPT ![o][c] = s]
      /\ UNCHANGED fileVars /\ UNCHANGED <<log, life, recent, ghostVars>>
  BY <1>p DEF AckSent, ghostVars
<1>4. r.owner = o /\ r.at # "acking"
  BY <1>2, <1>p DEF Receiver
<1>5. /\ \A j \in Conn : receiver[j].at # "off" => receiver[j].owner = o
      /\ Follows(o) /\ Accounted(o, c)
  BY <1>1, SoleRuntime DEF OnceInv
<1>6. s = task[o][c] \/ (s = "scheduled" /\ Answering(k, c))
  BY <1>1, <1>p DEF Answering
<1> HIDE DEF r, s
<1>7. /\ task'[o][c] = s /\ \A p \in Owner \ {o} : task'[p] = task[p]
      /\ \A d \in Command \ {c} : task'[o][d] = task[o][d]
  BY <1>1, <1>2, <1>3
<1>8. receiver'[k] = r /\ \A j \in Conn \ {k} : receiver'[j] = receiver[j]
  BY <1>2, <1>3
<1>9. /\ \A j \in Conn : receiver'[j].at # "off" => receiver'[j].owner = o
      /\ \A j \in Conn, d \in Command : Answering(j, d)' => Answering(j, d)
  BY <1>4, <1>5, <1>8 DEF Answering
<1>u. UNCHANGED <<log, life, recent, runs, excused>>
  BY <1>3 DEF ghostVars
<1>f. Apart' /\ \A d \in Command : Free(d)' => Free(d)
  BY <1>3, AccessFrees
<1>10. Running(o)' /\ Follows(o)' /\ \A d \in Command : (Seen(o, d)' <=> Seen(o, d)) /\ (Done(d)' <=> Done(d))
  BY <1>1, <1>u, <1>5 DEF Running, Follows, Seen, Done
<1>11. Accounted(o, c)'
  <2>1. Free(c)' => Free(c)
    BY <1>f
  <2>2. task'[o][c] = "scheduled" /\ Free(c)' => ~Done(c)
    BY <1>5, <1>6, <1>7, <2>1 DEF Accounted
  <2>3. \A j \in Conn : Answering(j, c)' /\ Free(c)' => ~Done(c)
    BY <1>5, <1>9, <2>1 DEF Accounted
  <2>4. /\ task'[o][c] = "executed" <=> task[o][c] = "executed"
        /\ task'[o][c] = "executing" <=> task[o][c] = "executing"
    <3>1. s = task[o][c] \/ (s = "scheduled" /\ task[o][c] = "none")
      BY DEF s
    <3> QED
      BY <1>7, <3>1
  <2>5. runs'[c] <= 1 + excused'[c]
    BY <1>u, <1>5 DEF Accounted
  <2>6. (Done(c)' => Seen(o, c)' \/ task'[o][c] = "executed") /\ (task'[o][c] = "executing" => ~Done(c)')
    BY <1>5, <1>10, <2>4 DEF Accounted
  <2> QED
    BY <1>10, <2>2, <2>3, <2>5, <2>6 DEF Accounted
<1>13. \A d \in Command : excused'[d] >= excused[d]
  BY <1>1, <1>u DEF TypeOK
<1> QED
  BY <1>1, <1>u, <1>f, <1>7, <1>9, <1>10, <1>11, <1>13, CommandStep

-----------------------------------------------------------------------------
(* A step of the task of c: only c can change but for the effects that fall out
   of the window, which are excused.                                          *)
LEMMA TaskMoves ==
    ASSUME IInv, OnceInv, TypeOK', NEW o \in Owner, Running(o), NEW c \in Command,
           NEW s, s # "scheduled", task' = [task EXCEPT ![o][c] = s],
           UNCHANGED <<life, receiver>>, \A p \in Owner \ {o} : recent'[p] = recent[p],
           \A d \in Command \ {c} :
               /\ Free(d)' => Free(d)
               /\ runs'[d] = runs[d] /\ excused'[d] >= excused[d]
               /\ Seen(o, d) => Seen(o, d)' \/ ~Done(d)',
           Follows(o)', Apart',
           runs'[c] <= 1 + excused'[c],
           Done(c)' => Seen(o, c)' \/ s = "executed",
           s = "executing" => ~Done(c)',
           Free(c)' => ~Done(c)' \/ (Free(c) /\ (Done(c)' => Done(c)))
    PROVE  OnceInv'
<1>1. task \in [Owner -> [Command -> Stage]]
  BY DEF IInv, TypeOK
<1>2. /\ task'[o][c] = s /\ \A p \in Owner \ {o} : task'[p] = task[p]
      /\ \A d \in Command \ {c} : task'[o][d] = task[o][d]
  BY <1>1
<1>3. /\ \A k \in Conn : receiver'[k].at # "off" => receiver'[k].owner = o
      /\ \A k \in Conn, d \in Command : Answering(k, d)' <=> Answering(k, d)
      /\ Running(o)' /\ Accounted(o, c)
  BY SoleRuntime DEF Answering, Running, OnceInv
<1>4. Accounted(o, c)'
  <2>1. \A k \in Conn : Answering(k, c)' /\ Free(c)' => ~Done(c)'
    BY <1>3 DEF Accounted
  <2>2. runs'[c] <= 1 + excused'[c] /\ (task'[o][c] = "executing" => ~Done(c)')
        /\ (task'[o][c] = "scheduled" /\ Free(c)' => ~Done(c)')
        /\ (Done(c)' => Seen(o, c)' \/ task'[o][c] = "executed")
    BY <1>2
  <2> QED
    BY <2>1, <2>2 DEF Accounted
<1> QED
  BY <1>2, <1>3, <1>4, CommandStep

(* ... and one that only moves the task, not to or from where the effect is.   *)
LEMMA TaskRests ==
    ASSUME IInv, OnceInv, TypeOK', NEW o \in Owner, Running(o), NEW c \in Command,
           NEW s, s \notin {"scheduled", "executing"}, task' = [task EXCEPT ![o][c] = s],
           task[o][c] # "executed",
           UNCHANGED <<log, life, recent, receiver, runs, excused>>,
           Apart', \A d \in Command : Free(d)' => Free(d)
    PROVE  OnceInv'
<1>1. Accounted(o, c) /\ Follows(o) /\ TypeOK
  BY DEF OnceInv, IInv
<1>2. Follows(o)' /\ \A d \in Command : (Seen(o, d)' <=> Seen(o, d)) /\ (Done(d)' <=> Done(d))
  BY <1>1 DEF Follows, Seen, Done
<1>3. \A d \in Command : excused'[d] >= excused[d]
  BY <1>1 DEF TypeOK
<1>4. /\ runs'[c] <= 1 + excused'[c]
      /\ Done(c)' => Seen(o, c)' \/ s = "executed"
      /\ Free(c)' => Free(c) /\ (Done(c)' => Done(c))
  BY <1>1, <1>2 DEF Accounted
<1> QED
  BY <1>2, <1>3, <1>4, TaskMoves

(* A task before its handler, and one after it.                               *)
LEMMA OnceTask ==
    ASSUME IInv, OnceInv, TypeOK', NEW o \in Owner, NEW c \in Command,
           \/ Claim(o, c) \/ ClaimFails(o, c) \/ Complete(o, c) \/ CompleteFails(o, c)
           \/ TaskDone(o, c)
           \/ TaskAt(o, c, "scheduled") /\ GoTo(o, c, "ending")
              /\ UNCHANGED <<fileVars, log, life, recent, receiver, clientVars, ghostVars>>
    PROVE  OnceInv'
<1>1. Running(o) /\ TypeOK /\ Accounted(o, c) /\ Follows(o)
  BY DEF Claim, ClaimFails, Complete, CompleteFails, TaskDone, TaskAt, Loop, IInv, OnceInv
<1>u. UNCHANGED <<log, life, recent, receiver, runs, excused>>
  BY DEF Claim, ClaimFails, Complete, CompleteFails, TaskDone, ghostVars
<1>2. Pending \subseteq Command /\ Holder \in [Command -> Owner \cup {NoOwner}]
  BY <1>1 DEF TypeOK, Pending, Holder, Stale
<1>3. /\ c \in Pending => Free(c) /\ Holder[c] = NoOwner
      /\ Holder[c] # NoOwner => Holder[c] = holder[c]
  BY RecoveryFrees
<1>r. \A p : Running(p)' <=> Running(p)
  BY <1>u DEF Running
<1>4. CASE Claim(o, c) /\ Claimable(c)
  <2>1. /\ task[o][c] = "scheduled" /\ c \in Pending
        /\ task' = [task EXCEPT ![o][c] = "executing"]
        /\ pending' = Pending \ {c} /\ holder' = [Holder EXCEPT ![c] = o]
    BY <1>4 DEF Claim, Claimable, TaskAt, GoTo
  <2>2. ~Done(c)
    BY <1>1, <1>3, <2>1 DEF Accounted
  <2>3. Follows(o)' /\ \A d \in Command : (Seen(o, d)' <=> Seen(o, d)) /\ (Done(d)' <=> Done(d))
    BY <1>1, <1>u DEF Follows, Seen, Done
  <2>4. /\ holder'[c] = o /\ c \notin pending'
        /\ \A d \in Command \ {c} : holder'[d] = Holder[d] /\ (d \in pending' <=> d \in Pending)
    BY <1>2, <2>1
  <2>5. Apart' /\ \A d \in Command \ {c} : Free(d)' => Free(d)
    BY <1>u, <2>4, FileMoves
  <2>6. runs'[c] <= 1 + excused'[c] /\ \A d \in Command : excused'[d] >= excused[d] /\ runs'[d] = runs[d]
    BY <1>1, <1>u DEF Accounted, TypeOK
  <2> QED
    BY <1>1, <1>u, <2>1, <2>2, <2>3, <2>5, <2>6, TaskMoves
<1>5. CASE ~(Claim(o, c) /\ Claimable(c))
  <2>1. PICK s \in {"ending", "none"} : task' = [task EXCEPT ![o][c] = s]
    BY <1>5 DEF Claim, ClaimFails, Complete, CompleteFails, TaskDone, GoTo
  <2>2. task[o][c] # "executed"
    BY DEF Claim, ClaimFails, Complete, CompleteFails, TaskDone, TaskAt
  <2>3. \/ Access \/ UNCHANGED fileVars
        \/ pending' = Pending /\ holder' = [Holder EXCEPT ![c] = IF @ = o THEN NoOwner ELSE @]
    BY <1>5 DEF Claim, ClaimFails, Complete, CompleteFails, TaskDone
  <2>4. Apart' /\ \A d \in Command : Free(d)' => Free(d)
    <3>1. CASE Access \/ UNCHANGED fileVars
      BY <1>u, <3>1, AccessFrees
    <3>2. CASE pending' = Pending /\ holder' = [Holder EXCEPT ![c] = IF @ = o THEN NoOwner ELSE @]
      <4>1. /\ holder'[c] \in {NoOwner, Holder[c]}
            /\ \A d \in Command \ {c} : holder'[d] = Holder[d] /\ (d \in pending' <=> d \in Pending)
        BY <1>2, <3>2
      <4>2. (holder'[c] # NoOwner => c \notin pending') /\ (Free(c)' => Free(c))
        BY <1>3, <1>r, <3>2, <4>1 DEF Free
      <4> QED
        BY <1>u, <4>1, <4>2, FileMoves
    <3> QED
      BY <2>3, <3>1, <3>2
  <2> QED
    BY <1>1, <1>u, <2>1, <2>2, <2>4, TaskRests
<1> QED
  BY <1>4, <1>5

(* The handler takes effect: the command had none before that counts.          *)
LEMMA OnceExecutes ==
    ASSUME IInv, OnceInv, TypeOK', NEW o \in Owner, NEW c \in Command, Execute(o, c)
    PROVE  OnceInv'
<1>1. Running(o) /\ TypeOK /\ Apart /\ Accounted(o, c) /\ Follows(o) /\ task[o][c] = "executing"
  BY DEF Execute, TaskAt, Loop, IInv, OnceInv
<1>u. UNCHANGED <<log, life, recent, receiver, excused>> /\ UNCHANGED fileVars
  BY DEF Execute
<1>2. ~Free(c)' /\ Apart' /\ \A d \in Command : Free(d)' => Free(d)
  <2>1. holder[c] = o /\ o # NoOwner
    BY <1>1, NullsAssumption DEF IInv, ExecutorHolds
  <2>2. ~Free(c)
    BY <1>1, <2>1 DEF Apart, Free
  <2> QED
    BY <1>u, <2>2, AccessFrees
<1>3. task' = [task EXCEPT ![o][c] = "executed"] /\ runs' = [runs EXCEPT ![c] = @ + 1]
  BY DEF Execute, GoTo
<1>4. /\ runs \in [Command -> Nat] /\ excused \in [Command -> Nat] /\ ~Done(c)
  BY <1>1, BoundsAssumption DEF TypeOK, Accounted
<1>5. runs'[c] = runs[c] + 1 /\ \A d \in Command \ {c} : runs'[d] = runs[d]
  BY <1>3, <1>4
<1>6. runs'[c] <= 1 + excused'[c] /\ \A d \in Command : excused'[d] >= excused[d]
  BY <1>4, <1>5, <1>u DEF Done
<1>7. Follows(o)' /\ \A d \in Command : Seen(o, d)' <=> Seen(o, d)
  BY <1>1, <1>u DEF Follows, Seen
<1>9. \A d \in Command \ {c} :
         /\ Free(d)' => Free(d)
         /\ runs'[d] = runs[d] /\ excused'[d] >= excused[d] /\ (Seen(o, d) => Seen(o, d)')
  BY <1>2, <1>5, <1>6, <1>7
<1>t. PICK s : s = "executed"
  OBVIOUS
<1>10. s # "scheduled" /\ s # "executing" /\ task' = [task EXCEPT ![o][c] = s]
  BY <1>3, <1>t
<1> QED
  BY <1>1, <1>2, <1>t, <1>6, <1>7, <1>9, <1>10, <1>u, TaskMoves

(* An interrupted command is as if it had not had its effect.                  *)
LEMMA OnceInterrupted ==
    ASSUME IInv, OnceInv, TypeOK', NEW o \in Owner, NEW c \in Command,
           Interrupted(o, c), Release(o, c) \/ UNCHANGED fileVars
    PROVE  OnceInv'
<1>1. Running(o) /\ TypeOK /\ Apart /\ Accounted(o, c) /\ Follows(o)
      /\ task[o][c] \in {"executing", "executed"}
  BY DEF Interrupted, Loop, IInv, OnceInv
<1>2. /\ Pending \subseteq Command /\ Holder \in [Command -> Owner \cup {NoOwner}]
      /\ holder[c] = o /\ o # NoOwner
  BY <1>1, NullsAssumption DEF TypeOK, Pending, Holder, Stale, IInv, ExecutorHolds
<1>u. UNCHANGED <<log, life, recent, receiver, runs>>
  BY DEF Interrupted
<1>3. PICK s : s = "ending"
  OBVIOUS
<1>4. s # "scheduled" /\ s # "executing" /\ task' = [task EXCEPT ![o][c] = s]
  BY <1>3 DEF Interrupted, GoTo
<1>5. /\ \A d \in Command : runs[d] \in Nat /\ excused[d] \in Nat /\ excused'[d] \in Nat
      /\ \A d \in Command \ {c} : excused'[d] = excused[d]
      /\ excused'[c] = excused[c] + (IF task[o][c] = "executed" THEN 1 ELSE 0)
  <2>1. excused' = [d \in Command |->
                       excused[d] + (IF d \in (IF task[o][c] = "executed" THEN {c} ELSE {}) THEN 1 ELSE 0)]
    BY DEF Interrupted, Excuse
  <2>2. \A d \in Command : runs[d] \in Nat /\ excused[d] \in Nat
    BY <1>1, BoundsAssumption DEF TypeOK
  <2> QED
    BY <2>1, <2>2
<1>6. ~Done(c)' /\ runs'[c] <= 1 + excused'[c] /\ excused'[c] >= excused[c]
  BY <1>1, <1>5, <1>u DEF Accounted, Done
<1>7. Apart' /\ \A d \in Command \ {c} : Free(d)' => Free(d)
  <2>1. CASE Release(o, c)
    <3>1. holder'[c] = NoOwner \/ (holder'[c] = Holder[c] /\ pending' = Pending)
      BY <1>2, <2>1 DEF Release, Access
    <3>2. \A d \in Command \ {c} : holder'[d] = Holder[d] /\ (d \in pending' <=> d \in Pending)
      BY <1>2, <2>1 DEF Release, Access
    <3>3. holder'[c] # NoOwner => c \notin pending'
      BY <3>1, RecoveryFrees
    <3> QED
      BY <1>u, <3>2, <3>3, FileMoves
  <2>2. CASE UNCHANGED fileVars
    BY <1>u, <2>2, AccessFrees
  <2> QED
    BY <2>1, <2>2
<1>8. Follows(o)' /\ \A d \in Command : Seen(o, d)' <=> Seen(o, d)
  BY <1>1, <1>u DEF Follows, Seen
<1>9. \A d \in Command \ {c} :
         /\ Free(d)' => Free(d)
         /\ runs'[d] = runs[d] /\ excused'[d] >= excused[d] /\ (Seen(o, d) => Seen(o, d)')
  BY <1>5, <1>7, <1>8, <1>u
<1> QED
  BY <1>1, <1>4, <1>6, <1>7, <1>8, <1>9, <1>u, TaskMoves

(* The effect is recorded; what the window has no place for is excused.        *)
LEMMA OnceMarks ==
    ASSUME IInv, OnceInv, TypeOK', NEW o \in Owner, NEW c \in Command, Mark(o, c)
    PROVE  OnceInv'
<1>1. Running(o) /\ TypeOK /\ Apart /\ Accounted(o, c) /\ Follows(o)
      /\ task[o][c] = "executed"
  BY DEF Mark, TaskAt, Loop, IInv, OnceInv
<1>u. UNCHANGED fileVars /\ UNCHANGED <<life, receiver, runs>>
  BY DEF Mark
<1>2. ~Free(c)' /\ Apart' /\ \A d \in Command : Free(d)' => Free(d)
  <2>1. holder[c] = o /\ o # NoOwner
    BY <1>1, NullsAssumption DEF IInv, ExecutorHolds
  <2>2. ~Free(c)
    BY <1>1, <2>1 DEF Apart, Free
  <2> QED
    BY <1>u, <2>2, AccessFrees
<1>3. PICK s : s = "marked"
  OBVIOUS
<1>4. s # "scheduled" /\ s # "executing" /\ task' = [task EXCEPT ![o][c] = s]
  BY <1>3 DEF Mark, GoTo
<1>5. /\ \A d \in Command : runs[d] \in Nat /\ excused[d] \in Nat
      /\ log \in Seq(Command) /\ recent[o] \in Seq(Command) /\ recent \in [Owner -> Seq(Command)]
  BY <1>1, BoundsAssumption DEF TypeOK
<1>r. \A p \in Owner \ {o} : recent'[p] = recent[p]
  BY <1>5 DEF Mark
<1>6. /\ Follows(o)' /\ Seen(o, c)'
      /\ \A d \in Command : excused'[d] >= excused[d] /\ (Seen(o, d) => Seen(o, d)' \/ ~Done(d)')
  <2>1. CASE Seen(o, c)
    <3>1. UNCHANGED <<recent, log, excused>>
      BY <2>1 DEF Mark
    <3> QED
      BY <1>1, <1>5, <2>1, <3>1 DEF Follows, Seen
  <2>2. CASE ~Seen(o, c)
    <3>0. PICK ids : ids = Append(recent[o], c)
      OBVIOUS
    <3>w. PICK w : w = Window(ids)
      OBVIOUS
    <3>1. /\ recent' = [recent EXCEPT ![o] = w]
          /\ Excuse(ToSet(ids) \ ToSet(w))
          /\ log' = w \/ log' = Append(log, c)
      BY <2>2, <3>0, <3>w DEF Mark
    <3>2. recent'[o] = w
      BY <1>5, <3>1
    <3>3. /\ Len(recent[o]) \in Nat /\ Len(log) \in Nat /\ Len(recent[o]) <= RecentMax
          /\ Len(recent[o]) <= Len(log)
          /\ \A i \in 1..Len(recent[o]) : recent[o][i] = log[Len(log) - Len(recent[o]) + i]
      BY <1>1, <1>5 DEF Follows
    <3>4. /\ w \in Seq(Command) /\ Len(w) <= RecentMax /\ Len(w) <= Len(recent[o]) + 1 /\ c \in ToSet(w)
          /\ \A i \in 1..Len(w) : w[i] = ids[Len(recent[o]) + 1 - Len(w) + i]
      <4>1. PICK r \in Seq(Command), n \in Nat : r = recent[o] /\ n = Len(r)
        BY <1>5, <3>3
      <4>2. RecentMax \in Nat \ {0} /\ n <= RecentMax
        BY <3>3, <4>1, LimitsAssumption
      <4>3. /\ ids \in Seq(Command) /\ Len(ids) = n + 1 /\ ids[n + 1] = c
        BY <3>0, <4>1
      <4>4. CASE n + 1 > RecentMax
        <5>1. w = Tail(ids) /\ ids # <<>>
          BY <3>w, <4>3, <4>4 DEF Window
        <5>2. w \in Seq(Command) /\ Len(w) = n /\ \A i \in 1..n : w[i] = ids[i + 1]
          BY <4>3, <5>1
        <5>3. n \in 1..n /\ w[n] = c
          BY <4>2, <4>3, <4>4, <5>2
        <5>4. c \in ToSet(w)
          BY <5>2, <5>3, ElementIn
        <5>5. \A i \in 1..n : n + 1 - n + i = i + 1
          OBVIOUS
        <5> QED
          BY <4>1, <4>2, <5>2, <5>4, <5>5
      <4>5. CASE ~(n + 1 > RecentMax)
        <5>1. w = ids
          BY <3>w, <4>3, <4>5 DEF Window
        <5>2. c \in ToSet(w)
          <6>1. n + 1 \in 1..Len(ids)
            BY <4>3
          <6> QED
            BY <4>3, <5>1, <6>1, ElementIn
        <5>3. \A i \in 1..(n + 1) : n + 1 - (n + 1) + i = i
          OBVIOUS
        <5> QED
          BY <4>1, <4>2, <4>3, <4>5, <5>1, <5>2, <5>3
      <4> QED
        BY <4>4, <4>5
    <3>5. \A d \in Command : /\ d \in ToSet(recent[o]) => d \in ToSet(ids)
                             /\ excused'[d] = excused[d] + (IF d \in ToSet(ids) \ ToSet(w) THEN 1 ELSE 0)
      <4>1. ToSet(ids) = ToSet(recent[o]) \cup {c}
        BY <1>5, <3>0, AppendSet
      <4> QED
        BY <3>1, <4>1 DEF Excuse
    <3>6. ASSUME NEW d \in Command, Seen(o, d) PROVE Seen(o, d)' \/ ~Done(d)'
      <4>1. d \in ToSet(ids) /\ runs'[d] = runs[d] /\ runs[d] <= 1 + excused[d]
        BY <1>u, <3>5, <3>6 DEF Seen, OnceInv, ExecutedOnce
      <4>2. CASE d \in ToSet(w)
        BY <3>2, <4>2 DEF Seen
      <4>3. CASE d \notin ToSet(w)
        <5>1. excused'[d] = excused[d] + 1
          BY <3>5, <4>1, <4>3
        <5> QED
          BY <1>5, <4>1, <5>1 DEF Done
      <4> QED
        BY <4>2, <4>3
    <3>7. Follows(o)'
      <4>1. CASE log' = w
        BY <3>2, <3>4, <4>1 DEF Follows
      <4>2. CASE log' = Append(log, c)
        <5>1. /\ Len(log') = Len(log) + 1 /\ log'[Len(log) + 1] = c
              /\ \A i \in 1..Len(log) : log'[i] = log[i]
          BY <1>5, <4>2
        <5>2. /\ ids[Len(recent[o]) + 1] = c
              /\ \A i \in 1..Len(recent[o]) : ids[i] = recent[o][i]
          BY <1>5, <3>0
        <5>3. ASSUME NEW i \in 1..Len(w) PROVE w[i] = log'[Len(log') - Len(w) + i]
          <6> DEFINE j == Len(recent[o]) + 1 - Len(w) + i
          <6>1. Len(w) \in Nat /\ w[i] = ids[j] /\ j \in 1..(Len(recent[o]) + 1)
            BY <3>3, <3>4
          <6>n. PICK l \in Nat, m \in Nat, n \in Nat : l = Len(log) /\ m = Len(recent[o]) /\ n = Len(w)
            BY <3>3, <6>1
          <6>2. Len(log') - Len(w) + i = Len(log) - Len(recent[o]) + j
            <7>1. (l + 1) - n + i = l - m + (m + 1 - n + i)
              OBVIOUS
            <7> QED
              BY <5>1, <6>n, <7>1
          <6> HIDE DEF j
          <6>3. CASE j = Len(recent[o]) + 1
            <7>1. Len(log) - Len(recent[o]) + j = Len(log) + 1
              <8>1. l - m + (m + 1) = l + 1
                OBVIOUS
              <8> QED
                BY <6>n, <6>3, <8>1
            <7> QED
              BY <5>1, <5>2, <6>1, <6>2, <6>3, <7>1
          <6>4. CASE j # Len(recent[o]) + 1
            <7>1. j \in 1..Len(recent[o])
              BY <3>3, <6>1, <6>4
            <7>2. Len(log) - Len(recent[o]) + j \in 1..Len(log)
              BY <3>3, <7>1
            <7>3. ids[j] = log[Len(log) - Len(recent[o]) + j]
              BY <3>3, <5>2, <7>1
            <7> QED
              BY <5>1, <6>1, <6>2, <7>2, <7>3
          <6> QED
            BY <6>3, <6>4
        <5>4. Len(w) <= Len(log')
          BY <3>3, <3>4, <5>1
        <5> QED
          BY <3>2, <3>4, <5>3, <5>4 DEF Follows
      <4> QED
        BY <3>1, <4>1, <4>2
    <3>8. Seen(o, c)' /\ \A d \in Command : excused'[d] >= excused[d]
      <4>1. Seen(o, c)'
        BY <3>2, <3>4 DEF Seen
      <4>2. ASSUME NEW d \in Command PROVE excused'[d] >= excused[d]
        <5>1. excused[d] \in Nat /\ excused'[d] = excused[d] + (IF d \in ToSet(ids) \ ToSet(w) THEN 1 ELSE 0)
          BY <1>5, <3>5
        <5> QED
          BY <5>1
      <4> QED
        BY <4>1, <4>2
    <3> QED
      BY <3>6, <3>7, <3>8
  <2> QED
    BY <2>1, <2>2
<1>7. runs'[c] <= 1 + excused'[c]
  <2>1. excused'[c] \in Nat /\ excused'[c] >= excused[c] /\ runs[c] <= 1 + excused[c]
    BY <1>1, <1>6 DEF TypeOK, Accounted
  <2> QED
    BY <1>5, <1>u, <2>1
<1>9. \A d \in Command \ {c} :
         /\ Free(d)' => Free(d)
         /\ runs'[d] = runs[d] /\ excused'[d] >= excused[d]
         /\ (Seen(o, d) => Seen(o, d)' \/ ~Done(d)')
  BY <1>2, <1>6, <1>u
<1> QED
  BY <1>1, <1>r, <1>2, <1>4, <1>6, <1>7, <1>9, <1>u, TaskMoves

-----------------------------------------------------------------------------
(* From one runtime to the next.                                              *)

(* What a runtime remembers is what the next one reads.                       *)
LEMMA FollowsLatest ==
    ASSUME IInv, NEW o \in Owner, Follows(o), NEW c \in Command, Seen(o, c)
    PROVE  c \in ToSet(Latest(log))
<1>1. log \in Seq(Command) /\ recent[o] \in Seq(Command) /\ RecentMax \in Nat \ {0}
  BY LimitsAssumption DEF IInv, TypeOK
<1>2. PICK i \in 1..Len(recent[o]) : recent[o][i] = c
  BY <1>1, ElementIn DEF Seen
<1>3. PICK l \in Nat, m \in Nat : l = Len(log) /\ m = Len(recent[o])
  BY <1>1
<1>4. m <= RecentMax /\ m <= l /\ i \in 1..m /\ log[l - m + i] = c
  BY <1>2, <1>3 DEF Follows
<1> DEFINE from == IF l > RecentMax THEN l - RecentMax + 1 ELSE 1
           j == l - m + i - from + 1
<1>5. from \in 1..(l + 1) /\ j \in 1..(l - from + 1) /\ from + j - 1 = l - m + i
  BY <1>1, <1>4
<1>6. Latest(log) = SubSeq(log, from, l)
  BY <1>3 DEF Latest
<1> HIDE DEF from, j
<1>7. /\ Latest(log) \in Seq(Command) /\ Len(Latest(log)) = l - from + 1
      /\ Latest(log)[j] = log[from + j - 1]
  BY <1>1, <1>3, <1>5, <1>6
<1>8. j \in 1..Len(Latest(log)) /\ Latest(log)[j] = c
  BY <1>4, <1>5, <1>7
<1> QED
  BY <1>7, <1>8, ElementIn

LEMMA OnceStops ==
    ASSUME IInv, OnceInv, TypeOK', NEW o \in Owner, Stop(o)
    PROVE  OnceInv'
<1>1. Running(o) /\ TypeOK /\ Follows(o) /\ life' = [life EXCEPT ![o] = "stopping"]
  BY DEF Stop, Running, IInv, OnceInv
<1>u. UNCHANGED <<pending, holder, log, recent, task, receiver, runs, excused>>
  BY DEF Stop, fileVars, ghostVars
<1>2. Running(o)' /\ \A p \in Owner \ {o} : life'[p] = life[p]
  BY <1>1 DEF TypeOK, Running
<1>f. Apart' /\ \A d \in Command : Free(d)' => Free(d)
  <2>1. \A p \in Owner : Running(p) => Running(p)'
    BY <1>2 DEF Running
  <2>2. \A d \in Command : holder[d] \in Owner \cup {NoOwner}
    BY <1>1 DEF TypeOK
  <2> QED
    BY <1>u, <2>1, <2>2 DEF OnceInv, Apart, Free
<1>3. /\ Follows(o)' /\ \A d \in Command : Seen(o, d) => Seen(o, d)'
      /\ \A d \in Command : excused'[d] >= excused[d]
  BY <1>1, <1>u DEF Follows, Seen, TypeOK
<1>4. \A k \in Conn : /\ receiver'[k].at # "off" => receiver'[k].owner = o
                      /\ \A d \in Command : Answering(k, d)' => Answering(k, d)
  BY <1>1, <1>u, SoleRuntime DEF Answering
<1> DEFINE none == {}
<1>5. none \in SUBSET Command /\ \A d \in none : FALSE
  OBVIOUS
<1> HIDE DEF none
<1> QED
  BY <1>1, <1>u, <1>f, <1>2, <1>3, <1>4, <1>5, RunningStep

(* Its end: what it knew of is in the log, or excused.                        *)
LEMMA OnceEnds ==
    ASSUME IInv, OnceInv, TypeOK', NEW o \in Owner, Close(o) \/ Crash(o)
    PROVE  OnceInv'
<1>1. /\ Running(o) /\ TypeOK /\ Follows(o) /\ Apart /\ ExecutedOnce
      /\ \A c \in Command : Accounted(o, c)
      /\ \A p \in Owner \ {o} : ~Running(p) /\ Blank(p)
  BY SoleRuntime DEF Close, Crash, Running, IInv, OnceInv
<1>u. UNCHANGED <<pending, holder, log, runs>>
  BY DEF Close, Crash, fileVars, ghostVars
<1>2. \E l \in {"gone", "dead"} : life' = [life EXCEPT ![o] = l]
  BY DEF Close, Crash
<1>3. /\ ~Running(o)' /\ recent'[o] = <<>> /\ task'[o] = NoTasks
      /\ \A p \in Owner \ {o} : /\ life'[p] = life[p] /\ recent'[p] = recent[p]
                                /\ task'[p] = task[p]
  <2>1. recent' = [recent EXCEPT ![o] = <<>>]
    BY DEF Close, Crash
  <2>2. task' = [task EXCEPT ![o] = NoTasks] \/ (task' = task /\ task[o] = NoTasks)
    BY DEF Close, Crash
  <2> QED
    BY <1>1, <1>2, <2>1, <2>2 DEF TypeOK, Running
<1>4. \A k \in Conn : receiver'[k].at # "off" => receiver'[k] = receiver[k] /\ receiver[k].owner # o
  BY DEF Close, Crash, Off
<1>5. Blank(o)' /\ \A p \in Owner \ {o} : ~Running(p)' /\ Blank(p)'
  BY <1>1, <1>3, <1>4 DEF Running, Blank
<1>6. \A c \in Command : /\ runs[c] \in Nat /\ excused[c] \in Nat /\ excused'[c] \in Nat
                         /\ excused'[c] >= excused[c]
                         /\ task[o][c] = "executed" => excused'[c] = excused[c] + 1
  <2>1. \A c \in Command : runs[c] \in Nat /\ excused[c] \in Nat /\ excused'[c] \in Nat
    BY <1>1, BoundsAssumption DEF TypeOK
  <2>2. CASE Close(o)
    <3>1. excused' = excused /\ \A c \in Command : task[o][c] = "none"
      BY <2>2 DEF Close, ghostVars, NoTasks
    <3> QED
      BY <2>1, <3>1
  <2>3. CASE Crash(o)
    <3>1. excused' = [c \in Command |->
                         excused[c] + (IF c \in {d \in Command : task[o][d] = "executed"} THEN 1 ELSE 0)]
      BY <2>3 DEF Crash, Excuse
    <3>2. \A c \in Command : excused'[c] = excused[c] + (IF task[o][c] = "executed" THEN 1 ELSE 0)
      BY <3>1
    <3> QED
      BY <2>1, <3>2
  <2> QED
    BY <2>2, <2>3
<1>7. ASSUME NEW c \in Command, Done(c)' PROVE c \in ToSet(Latest(log'))
  <2>1. Done(c) /\ runs[c] <= 1 + excused[c]
    BY <1>1, <1>6, <1>7, <1>u DEF Done, Accounted
  <2>2. task[o][c] # "executed"
    BY <1>6, <1>7, <1>u, <2>1 DEF Done
  <2>3. Seen(o, c)
    BY <1>1, <2>1, <2>2 DEF Accounted
  <2>4. c \in ToSet(Latest(log))
    BY <1>1, <2>3, FollowsLatest
  <2> QED
    BY <1>u, <2>4
<1>8. Logged' /\ Apart' /\ OneRuns'
  <2>1. Logged'
    BY <1>7 DEF Logged, Latest
  <2>2. Apart' /\ OneRuns'
    BY <1>1, <1>5, <1>u DEF Apart, OneRuns
  <2> QED
    BY <2>1, <2>2
<1>9. ExecutedOnce'
  BY <1>1, <1>6, <1>u DEF ExecutedOnce
<1> QED
  BY <1>3, <1>5, <1>8, <1>9 DEF OnceInv

(* A step that moves nothing of this, nor starts or stops a runtime.          *)
LEMMA OnceQuiet ==
    ASSUME IInv, OnceInv, \A o \in Owner : Running(o)' <=> Running(o),
           UNCHANGED <<pending, holder, log, recent, task, receiver, runs, excused>>
    PROVE  OnceInv'
<1>0. \A c \in Command : holder[c] \in Owner \cup {NoOwner}
  BY DEF IInv, TypeOK
<1>1. OneRuns' /\ Apart' /\ ExecutedOnce'
  BY DEF OnceInv, OneRuns, Apart, ExecutedOnce
<1>2. \A c \in Command : Free(c)' <=> Free(c)
  BY <1>0 DEF Free
<1>3. \A o \in Owner : /\ (Blank(o)' <=> Blank(o)) /\ (Follows(o)' <=> Follows(o))
                       /\ \A c \in Command : Accounted(o, c)' <=> Accounted(o, c)
  BY <1>2 DEF Blank, Follows, Accounted, Done, Seen, Answering
<1>4. Logged'
  BY DEF OnceInv, Logged, Done, Latest
<1> QED
  BY <1>1, <1>3, <1>4 DEF OnceInv

LEMMA OnceFreesLease ==
    ASSUME IInv, OnceInv, NEW o \in Owner, FreeLease(o)
    PROVE  OnceInv'
<1>1. /\ life \in [Owner -> {"new", "live", "stopping", "gone", "dead"}]
      /\ holder \in [Command -> Owner \cup {NoOwner}]
      /\ life[o] = "gone" /\ life' = [life EXCEPT ![o] = "dead"]
      /\ UNCHANGED <<pending, holder, log, recent, task, receiver, runs, excused>>
  BY DEF FreeLease, IInv, TypeOK, fileVars, ghostVars
<1>2. \A p \in Owner : Running(p)' <=> Running(p)
  BY <1>1 DEF Running
<1> QED
  BY <1>1, <1>2, OnceQuiet

(* Nobody else runs when a runtime starts: it remembers what is in the log,
   unless that is excused, and a claim that is left behind has no task.       *)
LEMMA OnceCreates ==
    ASSUME MaxLive = 1, IInv, OnceInv, TypeOK', NEW k \in Conn, NEW o \in Owner, Create(k, o)
    PROVE  OnceInv'
<1>1. /\ TypeOK /\ OneRuns /\ ExecutedOnce /\ Logged /\ life[o] = "new"
      /\ life' = [life EXCEPT ![o] = "live"] /\ UNCHANGED <<task, runs>>
      /\ receiver' = [receiver EXCEPT ![k] = [Off EXCEPT !.owner = o, !.at = "attached"]]
  BY DEF Create, Connected, IInv, OnceInv
<1>2. \A p \in Owner : ~Running(p)
  <2>1. SUFFICES ASSUME NEW p \in Owner, Running(p) PROVE FALSE
    OBVIOUS
  <2>2. {q \in Owner : Running(q)} = {p}
    BY <1>1, <2>1 DEF OneRuns
  <2>3. Cardinality({q \in Owner : Running(q)}) = 1
    BY <2>2, FS_Singleton
  <2> QED
    BY <2>3 DEF Create
<1>3. \A p \in Owner : ~Running(p) /\ Blank(p)
  BY <1>2 DEF OnceInv
<1>4. /\ Running(o)' /\ \A p \in Owner \ {o} : ~Running(p)'
  <2>1. life'[o] = "live" /\ \A p \in Owner \ {o} : life'[p] = life[p]
    BY <1>1 DEF TypeOK
  <2> QED
    BY <1>2, <2>1 DEF Running
<1>5. \A j \in Conn : /\ receiver'[j].at # "off" => receiver'[j].owner = o
                      /\ receiver'[j].at # "acking"
  <2>1. receiver'[k].owner = o /\ receiver'[k].at = "attached"
    BY <1>1 DEF TypeOK, Off
  <2>2. \A j \in Conn : receiver[j].at = "off"
    BY <1>3 DEF IInv, ReceiversAreJust, Blank
  <2>3. \A j \in Conn \ {k} : receiver'[j] = receiver[j]
    BY <1>1 DEF TypeOK
  <2> QED
    BY <2>1, <2>2, <2>3
<1>6. \A p \in Owner \ {o} : recent'[p] = recent[p]
  BY <1>1 DEF Create, TypeOK
<1>7. \A p \in Owner \ {o} : Blank(p)'
  BY <1>1, <1>3, <1>5, <1>6 DEF Blank
<1>8. Apart'
  <2>1. \A c \in Command : c \in Pending => Holder[c] = NoOwner
    BY RecoveryFrees
  <2> QED
    BY <2>1 DEF Create, Access, Apart
<1>9. OneRuns' /\ Logged'
  BY <1>4 DEF OneRuns, Logged
<1>10. \A c \in Command : runs[c] \in Nat /\ excused[c] \in Nat /\ runs[c] <= 1 + excused[c]
  BY <1>1, BoundsAssumption DEF TypeOK, ExecutedOnce
<1>11. log \in Seq(Command) /\ recent \in [Owner -> Seq(Command)]
  BY <1>1 DEF TypeOK
<1>12. \A c \in Command : Done(c) => c \in ToSet(Latest(log))
  BY <1>1, <1>3 DEF Logged
<1>13. Follows(o)' /\ \A c \in Command : excused'[c] >= excused[c] /\ (Done(c)' => Seen(o, c)')
  <2>1. CASE recent' = [recent EXCEPT ![o] = Retained(log)] /\ log' = Retained(log) /\ excused' = excused
    <3>1. recent'[o] = log'
      BY <1>11, <2>1
    <3>2. /\ log' \in Seq(Command) /\ Len(log') <= RecentMax
          /\ ToSet(Latest(log)) \subseteq ToSet(log')
      BY <1>11, <2>1, RetainedIds, RetainedLatest
    <3>3. Follows(o)'
      BY <3>1, <3>2 DEF Follows
    <3>4. \A c \in Command : Done(c)' => Seen(o, c)'
      BY <1>1, <1>12, <2>1, <3>1, <3>2 DEF Done, Seen
    <3> QED
      BY <1>10, <2>1, <3>3, <3>4
  <2>2. CASE Excuse(ToSet(log)) /\ UNCHANGED <<recent, log>>
    <3>1. recent'[o] = <<>>
      BY <1>3, <2>2 DEF Blank
    <3>2. Len(log') \in Nat /\ RecentMax \in Nat
      BY <1>11, <2>2, LimitsAssumption
    <3>3. Follows(o)'
      BY <3>1, <3>2 DEF Follows
    <3>4. \A c \in Command : excused'[c] = excused[c] + (IF c \in ToSet(log) THEN 1 ELSE 0)
      BY <2>2 DEF Excuse
    <3>5. \A c \in Command : Done(c) => c \in ToSet(log)
      <4>1. PICK l \in Nat : l = Len(log)
        BY <1>11
      <4> DEFINE from == IF l > RecentMax THEN l - RecentMax + 1 ELSE 1
      <4>2. from \in 1..(l + 1) /\ \A i \in 1..(l - from + 1) : from + i - 1 \in 1..l
        BY LimitsAssumption
      <4>3. Latest(log) = SubSeq(log, from, l)
        BY <4>1 DEF Latest
      <4> HIDE DEF from
      <4>4. /\ Latest(log) \in Seq(Command) /\ Len(Latest(log)) = l - from + 1
            /\ \A i \in 1..(l - from + 1) : Latest(log)[i] = log[from + i - 1]
        BY <1>11, <4>1, <4>2, <4>3
      <4>5. ASSUME NEW c \in ToSet(Latest(log)) PROVE c \in ToSet(log)
        <5> DEFINE lst == Latest(log)
        <5> HIDE DEF lst
        <5>0. lst \in Seq(Command) /\ c \in ToSet(lst) /\ Len(lst) = l - from + 1
          BY <4>4, <4>5 DEF lst
        <5>1. PICK i \in 1..(l - from + 1) : log[from + i - 1] = c
          <6>1. PICK i \in 1..Len(lst) : lst[i] = c
            BY <5>0, ElementIn
          <6> QED
            BY <4>4, <5>0, <6>1 DEF lst
        <5>2. from + i - 1 \in 1..Len(log)
          BY <4>1, <4>2
        <5> QED
          BY <1>11, <5>1, <5>2, ElementIn
      <4> QED
        BY <1>12, <4>5
    <3>6. ASSUME NEW c \in Command PROVE excused'[c] >= excused[c] /\ ~Done(c)'
      <4>1. CASE c \in ToSet(log)
        <5>1. excused'[c] = excused[c] + 1
          BY <3>4, <4>1
        <5> QED
          BY <1>1, <1>10, <5>1 DEF Done
      <4>2. CASE c \notin ToSet(log)
        <5>1. excused'[c] = excused[c] + 0 /\ ~Done(c)
          BY <3>4, <3>5, <4>2
        <5> QED
          BY <1>1, <1>10, <5>1 DEF Done
      <4> QED
        BY <4>1, <4>2
    <3> QED
      BY <3>3, <3>6
  <2> QED
    BY <2>1, <2>2 DEF Create
<1>14. ASSUME NEW c \in Command PROVE Accounted(o, c)' /\ runs'[c] <= 1 + excused'[c]
  <2>1. task'[o][c] = "none"
    BY <1>1, <1>3 DEF Blank, NoTasks
  <2>2. runs'[c] <= 1 + excused'[c]
    <3>1. excused'[c] \in Nat
      BY DEF TypeOK
    <3> QED
      BY <1>1, <1>10, <1>13, <3>1
  <2>3. \A j \in Conn : ~Answering(j, c)'
    BY <1>5 DEF Answering
  <2> QED
    BY <1>13, <2>1, <2>2, <2>3 DEF Accounted
<1>15. ExecutedOnce'
  BY <1>14 DEF ExecutedOnce
<1> QED
  BY <1>4, <1>7, <1>8, <1>9, <1>13, <1>14, <1>15 DEF OnceInv

LEMMA OnceInit == Init => OnceInv
<1> SUFFICES ASSUME Init PROVE OnceInv
  OBVIOUS
<1>1. \A o \in Owner : life[o] = "new" /\ recent[o] = <<>> /\ task[o] = NoTasks
  BY DEF Init
<1>2. \A k \in Conn : receiver[k].at = "off"
  BY DEF Init, Off
<1>3. \A c \in Command : runs[c] = 0 /\ excused[c] = 0 /\ holder[c] = NoOwner
  BY DEF Init
<1>4. \A o \in Owner : ~Running(o) /\ Blank(o)
  BY <1>1, <1>2 DEF Running, Blank
<1>5. OneRuns /\ Apart /\ Logged /\ ExecutedOnce
  BY <1>3, <1>4 DEF OneRuns, Apart, Logged, ExecutedOnce, Done
<1> QED
  BY <1>4, <1>5 DEF OnceInv

LEMMA OnceStep == MaxLive = 1 /\ IInv /\ OnceInv /\ [Next]_vars => OnceInv'
<1> SUFFICES ASSUME MaxLive = 1, IInv, OnceInv, [Next]_vars PROVE OnceInv'
  OBVIOUS
<1>t. TypeOK'
  BY TypeStep DEF IInv
<1>1. CASE UNCHANGED vars
  BY <1>1, OnceQuiet DEF vars, Running
<1>2. CASE ClientStep
  <2>1. CASE ClientLoses \/ Disconnect \/ \E c \in Command : Send(c)
    <3>1. UNCHANGED <<pending, holder, log, life, recent, task, receiver, runs, excused>>
      BY <2>1 DEF ClientLoses, Disconnect, Send, fileVars, ghostVars
    <3> QED
      BY <3>1, OnceQuiet DEF Running
  <2>2. CASE Reconnect
    BY <1>t, <2>2, OnceAttaches, OnceCreates DEF Reconnect
  <2> QED
    BY <1>2, <2>1, <2>2 DEF ClientStep
<1>3. CASE FaultStep
  <2>1. ASSUME NEW k \in Conn, ReceiverFails(k) \/ \E c \in Command : ReceiveUnpersisted(k, c)
        PROVE  OnceInv'
    BY <1>t, <2>1, OnceReceives DEF ReceiverFails
  <2>2. ASSUME NEW o \in Owner, NEW c \in Command,
               ClaimFails(o, c) \/ CompleteFails(o, c)
        PROVE  OnceInv'
    BY <1>t, <2>2, OnceTask
  <2>3. ASSUME NEW o \in Owner, NEW c \in Command,
               HandlerFails(o, c) \/ MarkFails(o, c) \/ ReleaseFails(o, c)
        PROVE  OnceInv'
    BY <1>t, <2>3, OnceInterrupted DEF HandlerFails, MarkFails, ReleaseFails
  <2> QED
    BY <1>3, <2>1, <2>2, <2>3 DEF FaultStep
<1>4. ASSUME NEW k \in Conn, ReceiverStep(k) PROVE OnceInv'
  <2>1. CASE StartReplay(k) \/ StartReceiving(k) \/ Leave(k)
    BY <1>t, <2>1, OnceReceives
  <2>2. CASE AckSent(k)
    BY <1>t, <2>2, OnceAcknowledges
  <2>3. CASE Receive(k) \/ \E c \in Command : Replay(k, c)
    BY <1>t, <2>3, OnceReceives, OnceAnswers DEF Receive
  <2> QED
    BY <1>4, <2>1, <2>2, <2>3 DEF ReceiverStep
<1>5. ASSUME NEW o \in Owner, LifeStep(o) PROVE OnceInv'
  <2>1. CASE Stop(o) \/ Close(o) \/ Crash(o) \/ FreeLease(o)
    BY <1>t, <2>1, OnceStops, OnceEnds, OnceFreesLease
  <2>2. ASSUME NEW c \in Command, CancelTask(o, c) PROVE OnceInv'
    BY <1>t, <2>2, OnceTask, OnceInterrupted DEF CancelTask
  <2> QED
    BY <1>5, <2>1, <2>2 DEF LifeStep
<1>6. ASSUME NEW o \in Owner, NEW c \in Command, TaskStep(o, c) PROVE OnceInv'
  BY <1>t, <1>6, OnceTask, OnceExecutes, OnceMarks DEF TaskStep
<1> QED
  BY <1>1, <1>2, <1>3, <1>4, <1>5, <1>6 DEF Next

(* One runtime at a time executes no command twice, but where its effect could
   not be recorded: "A crash between those writes must replay as a duplicate
   acknowledgement, never execute the command twice"
   (_run_durable_client_command).  Its successor may start while the lease of a
   crashed one is still held, and get that one's claims later.                *)
THEOREM ExecutesOnce == ASSUME MaxLive = 1 PROVE Spec => []ExecutedOnce
<1>1. Init => OnceInv
  BY OnceInit
<1>2. IInv /\ OnceInv /\ [Next]_vars => OnceInv'
  BY OnceStep
<1>3. OnceInv => ExecutedOnce
  BY DEF OnceInv
<1> QED
  BY <1>1, <1>2, <1>3, InvHolds, PTL DEF Spec

=============================================================================
