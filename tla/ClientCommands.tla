--------------------------- MODULE ClientCommands ---------------------------
(***************************************************************************)
(* Admission of client commands                                            *)
(* (backend/ws/command_dispatcher.py, class SessionCommandDispatcher).     *)
(*                                                                         *)
(* A client sends a command until it is acknowledged, again after every    *)
(* reconnection.  A runtime stores the command in the durable queue file   *)
(* before it acknowledges it, executes it in a task of its own, and only   *)
(* then writes its id to the deduplication log and drops it from the file. *)
(* A reconnection replays what is still pending.                           *)
(*                                                                         *)
(* A runtime is one event loop: the steps below are its code from one      *)
(* await to the next.  The file and the log outlive it; its memory of the  *)
(* log (recent), its tasks and its receivers do not.  Modelled are durable *)
(* commands, which carry an id; pings, commands without an id, those that  *)
(* bypass the backlog and the ageing of the log are left out.              *)
(***************************************************************************)
EXTENDS Naturals, FiniteSets, SequencesExt

CONSTANTS
    Command,      \* client commands; an id is unique to its command
    Owner,        \* runtimes of the session, one session object each
    Conn,         \* websocket connections open or still being handled
    NoOwner, NoCommand, NoConn,
    RecentMax,    \* RECENT_CLIENT_COMMAND_IDS_MAX
    MaxTasks,     \* MAX_PENDING_COMMAND_TASKS
    MaxLive,      \* bound: runtimes running at one time
    MaxLeases,    \* bound: leases held at one time, by them or by dead ones
    MaxFaults,    \* bound: file writes that fail
    MaxFailures,  \* bound: commands whose handler fails
    MaxRuns       \* bound: times one command takes effect

ASSUME NullsAssumption ==
    NoOwner \notin Owner /\ NoCommand \notin Command /\ NoConn \notin Conn
ASSUME LimitsAssumption == {RecentMax, MaxTasks} \subseteq Nat \ {0}
ASSUME BoundsAssumption == {MaxLive, MaxLeases, MaxFaults, MaxFailures,
                             MaxRuns} \subseteq Nat

VARIABLES
    pending,   \* the file: commands accepted and not being executed
    holder,    \* the file: command -> the runtime executing it
    log,       \* the deduplication log: ids of executed commands
    life,      \* owner -> "new" | "live" | "stopping" | "gone" | "dead"
    recent,    \* owner -> what it remembers of the log
    task,      \* owner -> command -> stage of its task
    receiver,  \* connection -> the coroutine that receives from it
    conn,      \* the connection the runtime is attached to
    up,        \* it still reaches the client
    wire,      \* commands on their way over it
    client,    \* command -> "new" | "unacked" | "acked" | "rejected"
    runs,      \* history: command -> times its effect happened
    excused,   \* history: command -> times its effect could not be recorded
    budget     \* what is left of the bounds

fileVars == <<pending, holder>>
clientVars == <<conn, up, wire, client>>
ghostVars == <<runs, excused>>
vars == <<pending, holder, log, life, recent, task, receiver, conn, up,
          wire, client, runs, excused, budget>>

\* A task is active from its scheduling until its done-callback has run; its
\* runtime does nothing else between "marked" and the write that completes it.
Stage == {"none", "scheduled", "executing", "executed", "marked", "ending"}

\* owner, stage, the command it acknowledges, the connection that was current
\* when it began to, what it answers, whether it schedules the command then, and
\* what is left of its replay.
Receiver == [owner : Owner \cup {NoOwner},
             at : {"off", "attached", "replaying", "receiving", "acking"},
             cmd : Command \cup {NoCommand}, via : Conn \cup {NoConn},
             ok : BOOLEAN, sched : BOOLEAN, left : SUBSET Command]
Off == [owner |-> NoOwner, at |-> "off", cmd |-> NoCommand, via |-> NoConn,
        ok |-> FALSE, sched |-> FALSE, left |-> {}]

TypeOK ==
    /\ pending \subseteq Command
    /\ holder \in [Command -> Owner \cup {NoOwner}]
    /\ log \in Seq(Command)
    /\ life \in [Owner -> {"new", "live", "stopping", "gone", "dead"}]
    /\ recent \in [Owner -> Seq(Command)]
    /\ task \in [Owner -> [Command -> Stage]]
    /\ receiver \in [Conn -> Receiver]
    /\ conn \in Conn \cup {NoConn}
    /\ up \in BOOLEAN /\ wire \subseteq Command
    /\ client \in [Command -> {"new", "unacked", "acked", "rejected"}]
    /\ runs \in [Command -> 0..MaxRuns] /\ excused \in [Command -> Nat]
    /\ budget \in [faults : 0..MaxFaults, failures : 0..MaxFailures]

NoTasksMisnamed == [c \in Command |-> "idle"]  \* mutant
NoTasks == [c \in Command |-> "none"]

Init ==
    /\ pending = {} /\ holder = [c \in Command |-> NoOwner]
    /\ log = <<>>
    /\ life = [o \in Owner |-> "new"]
    /\ recent = [o \in Owner |-> <<>>]
    /\ task = [o \in Owner |-> NoTasks]
    /\ receiver = [k \in Conn |-> Off]
    /\ conn = NoConn /\ up = FALSE /\ wire = {}
    /\ client = [c \in Command |-> "new"]
    /\ runs = [c \in Command |-> 0] /\ excused = [c \in Command |-> 0]
    /\ budget = [faults |-> MaxFaults, failures |-> MaxFailures]

-----------------------------------------------------------------------------
(* The file.  Every access first recovers the commands of dead runtimes.   *)

Running(o) == life[o] \in {"live", "stopping"}
OwnerIsLive(o) == o \in Owner /\ life[o] \in {"live", "stopping", "gone"}

Stale == {c \in Command : holder[c] # NoOwner /\ ~OwnerIsLive(holder[c])}
PendingOnly == pending  \* mutant: what a dead runtime held is forgotten
Pending == pending \cup Stale
Holder == [c \in Command |-> IF c \in Stale THEN NoOwner ELSE holder[c]]

Access == pending' = Pending /\ holder' = Holder

HasClientCommand(c) == c \in Pending \/ Holder[c] # NoOwner

ClaimableByAny(c) == HasClientCommand(c)  \* mutant: no exclusion
Claimable(c) == c \in Pending /\ Holder[c] = NoOwner

\* Back to pending, if o still holds the claim.
Release(o, c) ==
    IF Holder[c] = o
    THEN /\ pending' = Pending \cup {c}
         /\ holder' = [Holder EXCEPT ![c] = NoOwner]
    ELSE Access

-----------------------------------------------------------------------------
(* The steps of a runtime, and what keeps it from taking one.              *)

Loop(o) == Running(o) /\ \A c \in Command : task[o][c] # "marked"

Spend(b) == budget[b] > 0 /\ budget' = [budget EXCEPT ![b] = @ - 1]

Excuse(C) == excused' = [c \in Command |-> excused[c] + (IF c \in C THEN 1 ELSE 0)]

Unfinished(o) == {c \in Command : task[o][c] \notin {"none", "ending"}}

SeenNever(o, c) == FALSE  \* mutant: the log is not consulted
Seen(o, c) == c \in ToSet(recent[o])

Acknowledge(k, c, ok, sched) ==
    receiver' = [receiver EXCEPT
        ![k].at = "acking", ![k].cmd = c, ![k].via = conn, ![k].ok = ok,
        ![k].sched = sched, ![k].left = @ \ {c}]

LoseConnection(lost) ==
    /\ conn' = IF lost THEN NoConn ELSE conn
    /\ up' = (up /\ ~lost)
    /\ wire' = IF lost THEN {} ELSE wire

\* Up to RecentMax ids, the latest ones, each once at its first place.
Rank(S, i) == Cardinality({j \in S : j <= i})

Retained(ids) ==
    LET n == Len(ids)
        lst == SubSeq(ids, IF n > RecentMax THEN n - RecentMax + 1 ELSE 1, n)
        first == {i \in DOMAIN lst : \A j \in 1..(i - 1) : lst[j] # lst[i]}
    IN  [r \in 1..Cardinality(first) |-> lst[CHOOSE i \in first : Rank(first, i) = r]]

-----------------------------------------------------------------------------
(* The client: it sends, loses its connection and comes back.              *)

Send(c) ==
    /\ up /\ client[c] = "new"
    /\ client' = [client EXCEPT ![c] = "unacked"]
    /\ wire' = wire \cup {c}
    /\ UNCHANGED <<fileVars, log, life, recent, task, receiver, conn, up, ghostVars, budget>>

\* The client loses the connection; the runtime goes on with what has arrived
\* until it notices or a new connection takes over.
ClientLoses ==
    /\ up /\ up' = FALSE
    /\ UNCHANGED <<fileVars, log, life, recent, task, receiver, conn, wire, client,
                   ghostVars, budget>>

Disconnect ==
    /\ conn # NoConn /\ ~up
    /\ conn' = NoConn /\ wire' = {}
    /\ UNCHANGED <<fileVars, log, life, recent, task, receiver, up, client, ghostVars, budget>>

\* What every connection starts with: its receiver, and all that is unacked.
Connected(k, o) ==
    /\ ~up /\ receiver[k] = Off
    /\ conn' = k /\ up' = TRUE
    /\ wire' = {c \in Command : client[c] = "unacked"}
    /\ receiver' = [receiver EXCEPT ![k] = [Off EXCEPT !.owner = o, !.at = "attached"]]
    /\ UNCHANGED <<client, runs>>

\* connect(): to the session that is still there ...
Attach(k, o) ==
    /\ life[o] = "live"
    /\ Connected(k, o)
    /\ UNCHANGED <<fileVars, log, life, recent, task, excused, budget>>

\* ... or to a new one, which loads the file and the log.  A log that cannot be
\* read counts as empty.
Create(k, o) ==
    /\ life[o] = "new"
    /\ Cardinality({p \in Owner : Running(p)}) < MaxLive
    /\ Cardinality({p \in Owner : OwnerIsLive(p)}) < MaxLeases
    /\ Connected(k, o)
    /\ life' = [life EXCEPT ![o] = "live"]
    /\ Access
    /\ \/ /\ recent' = [recent EXCEPT ![o] = Retained(log)]
          /\ log' = Retained(log)
          /\ UNCHANGED <<excused, budget>>
       \/ /\ Spend("faults") /\ Excuse(ToSet(log))
          /\ UNCHANGED <<recent, log>>
    /\ UNCHANGED task

-----------------------------------------------------------------------------
(* The receiver of a connection: replay, then receive.                     *)

StartReplay(k) ==
    LET o == receiver[k].owner
    IN  /\ receiver[k].at = "attached" /\ Loop(o)
        /\ Access
        /\ receiver' = [receiver EXCEPT ![k].at = "replaying", ![k].left = Pending]
        /\ UNCHANGED <<log, life, recent, task, clientVars, ghostVars, budget>>

\* A pending command the log knows was completed by its effect: it is dropped.
Replay(k, c) ==
    LET o == receiver[k].owner
    IN  /\ receiver[k].at = "replaying" /\ c \in receiver[k].left /\ Loop(o)
        /\ IF Seen(o, c)
           THEN /\ pending' = IF Holder[c] = NoOwner THEN Pending \ {c} ELSE Pending
                /\ holder' = Holder
           ELSE UNCHANGED fileVars
        /\ Acknowledge(k, c, TRUE, ~Seen(o, c))
        /\ UNCHANGED <<log, life, recent, task, clientVars, ghostVars, budget>>

StartReceiving(k) ==
    /\ receiver[k].at = "replaying" /\ receiver[k].left = {} /\ Loop(receiver[k].owner)
    /\ receiver' = [receiver EXCEPT ![k].at = "receiving"]
    /\ UNCHANGED <<fileVars, log, life, recent, task, clientVars, ghostVars, budget>>

\* run() finds its connection replaced or its session disconnected.
Leave(k) ==
    /\ receiver[k].at = "receiving" /\ Loop(receiver[k].owner)
    /\ conn # k \/ life[receiver[k].owner] = "stopping"
    /\ receiver' = [receiver EXCEPT ![k] = Off]
    /\ UNCHANGED <<fileVars, log, life, recent, task, clientVars, ghostVars, budget>>

Incoming(k, c) ==
    /\ receiver[k].at = "receiving" /\ conn = k /\ c \in wire
    /\ life[receiver[k].owner] = "live" /\ Loop(receiver[k].owner)
    /\ wire' = wire \ {c}
    /\ UNCHANGED <<log, life, recent, task, conn, up, client, ghostVars>>

ReceiveSeen(k, c) ==
    /\ Incoming(k, c)
    /\ Seen(receiver[k].owner, c)
    /\ Acknowledge(k, c, TRUE, FALSE)
    /\ UNCHANGED <<fileVars, budget>>

ReceiveOverBacklog(k, c) ==
    LET o == receiver[k].owner
    IN  /\ Incoming(k, c)
        /\ ~Seen(o, c) /\ Cardinality(Unfinished(o)) >= MaxTasks
        /\ Acknowledge(k, c, FALSE, FALSE)
        /\ UNCHANGED <<fileVars, budget>>

Admissible(o, c) == ~Seen(o, c) /\ Cardinality(Unfinished(o)) < MaxTasks

\* Mutant: acknowledged without being stored.
ReceiveUnstored(k, c) ==
    /\ Incoming(k, c)
    /\ Admissible(receiver[k].owner, c)
    /\ Access
    /\ Acknowledge(k, c, TRUE, TRUE)
    /\ UNCHANGED budget

\* Already in the file, or stored there now; either way acknowledged and run.
ReceiveOwned(k, c) ==
    /\ Incoming(k, c)
    /\ Admissible(receiver[k].owner, c)
    /\ pending' = IF HasClientCommand(c) THEN Pending ELSE Pending \cup {c}
    /\ holder' = Holder
    /\ Acknowledge(k, c, TRUE, TRUE)
    /\ UNCHANGED budget

\* The write that would store it fails.
ReceiveUnpersisted(k, c) ==
    /\ Incoming(k, c)
    /\ Admissible(receiver[k].owner, c) /\ ~HasClientCommand(c)
    /\ Spend("faults")
    /\ Access
    /\ Acknowledge(k, c, FALSE, FALSE)

\* The acknowledgement reaches the client if its connection is still current;
\* then the command is scheduled unless it is active.
AckSent(k) ==
    LET r == receiver[k]
        answer == IF r.ok THEN "acked" ELSE "rejected"
    IN  /\ r.at = "acking" /\ Loop(r.owner)
        /\ client' = [client EXCEPT ![r.cmd] =
                         IF up /\ conn = r.via /\ @ = "unacked" THEN answer ELSE @]
        /\ task' = [task EXCEPT ![r.owner][r.cmd] =
                       IF r.sched /\ @ = "none" THEN "scheduled" ELSE @]
        /\ receiver' = [receiver EXCEPT
               ![k].at = IF r.left = {} THEN "receiving" ELSE "replaying",
               ![k].cmd = NoCommand, ![k].via = NoConn, ![k].ok = FALSE,
               ![k].sched = FALSE]
        /\ UNCHANGED <<fileVars, log, life, recent, conn, up, wire, ghostVars, budget>>

\* Sending an acknowledgement, or the write that drops a completed command,
\* raises: handle() ends, and with it the connection.
ReceiverFails(k) ==
    /\ \/ receiver[k].at = "acking"
       \/ /\ receiver[k].at = "replaying"
          /\ \E c \in receiver[k].left : Seen(receiver[k].owner, c)
    /\ Loop(receiver[k].owner) /\ Spend("faults")
    /\ receiver' = [receiver EXCEPT ![k] = Off]
    /\ LoseConnection(conn = k)
    /\ UNCHANGED <<fileVars, log, life, recent, task, client, ghostVars>>

-----------------------------------------------------------------------------
(* The task of a command.                                                  *)

TaskAt(o, c, from) == task[o][c] = from /\ Loop(o)
GoTo(o, c, stage) == task' = [task EXCEPT ![o][c] = stage]

\* claim_client_command, or nothing to claim.
Claim(o, c) ==
    /\ TaskAt(o, c, "scheduled") /\ life[o] = "live"
    /\ IF Claimable(c)
       THEN /\ pending' = Pending \ {c}
            /\ holder' = [Holder EXCEPT ![c] = o]
            /\ GoTo(o, c, "executing")
       ELSE Access /\ GoTo(o, c, "ending")
    /\ UNCHANGED <<log, life, recent, receiver, clientVars, ghostVars, budget>>

ClaimFails(o, c) ==
    /\ TaskAt(o, c, "scheduled") /\ life[o] = "live" /\ Claimable(c) /\ Spend("faults")
    /\ GoTo(o, c, "ending")
    /\ UNCHANGED <<fileVars, log, life, recent, receiver, clientVars, ghostVars>>

\* Somewhere in its handler the command takes effect.
Execute(o, c) ==
    /\ TaskAt(o, c, "executing") /\ runs[c] < MaxRuns
    /\ GoTo(o, c, "executed")
    /\ runs' = [runs EXCEPT ![c] = @ + 1]
    /\ UNCHANGED <<fileVars, log, life, recent, receiver, clientVars, excused, budget>>

\* _mark_client_command_seen: into memory and the log, and out of both what
\* exceeds the window (the log unless its rewriting fails).
Window(s) == IF Len(s) > RecentMax THEN Tail(s) ELSE s

Mark(o, c) ==
    LET ids == Append(recent[o], c)
    IN  /\ TaskAt(o, c, "executed")
        /\ GoTo(o, c, "marked")
        /\ IF Seen(o, c) THEN UNCHANGED <<recent, log, excused, budget>>
           ELSE /\ recent' = [recent EXCEPT ![o] = Window(ids)]
                /\ Excuse(ToSet(ids) \ ToSet(Window(ids)))
                /\ \/ /\ Len(ids) > RecentMax
                      /\ log' = Window(ids) /\ UNCHANGED budget
                   \/ /\ Len(ids) > RecentMax => Spend("faults")
                      /\ Len(ids) <= RecentMax => UNCHANGED budget
                      /\ log' = Append(log, c)
        /\ UNCHANGED <<fileVars, life, receiver, clientVars, runs>>

\* complete_client_command, in the same synchronous stretch.
Complete(o, c) ==
    /\ task[o][c] = "marked" /\ Running(o)
    /\ pending' = Pending
    /\ holder' = [Holder EXCEPT ![c] = IF @ = o THEN NoOwner ELSE @]
    /\ GoTo(o, c, "ending")
    /\ UNCHANGED <<log, life, recent, receiver, clientVars, ghostVars, budget>>

\* Its write fails: the claim stays in the file as long as its owner lives.
CompleteFails(o, c) ==
    /\ task[o][c] = "marked" /\ Running(o) /\ Spend("faults")
    /\ GoTo(o, c, "ending")
    /\ UNCHANGED <<fileVars, log, life, recent, receiver, clientVars, ghostVars>>

\* The task is interrupted while it holds the claim: the claim is released,
\* unless that write fails too.  An effect it had is not recorded.
Interrupted(o, c) ==
    /\ task[o][c] \in {"executing", "executed"} /\ Loop(o)
    /\ GoTo(o, c, "ending")
    /\ Excuse(IF task[o][c] = "executed" THEN {c} ELSE {})
    /\ UNCHANGED <<log, life, recent, receiver, clientVars, runs>>

HandlerFails(o, c) ==
    Interrupted(o, c) /\ Spend("failures") /\ Release(o, c)

MarkFails(o, c) ==
    task[o][c] = "executed" /\ Interrupted(o, c) /\ Spend("faults") /\ Release(o, c)

ReleaseFails(o, c) ==
    /\ Interrupted(o, c) /\ UNCHANGED fileVars
    /\ budget.failures > 0 /\ budget.faults > 0
    /\ budget' = [faults |-> budget.faults - 1, failures |-> budget.failures - 1]

TaskDone(o, c) ==
    /\ TaskAt(o, c, "ending")
    /\ GoTo(o, c, "none")
    /\ UNCHANGED <<fileVars, log, life, recent, receiver, clientVars, ghostVars, budget>>

-----------------------------------------------------------------------------
(* shutdown() of a session, the end of a process, and its lease.           *)

ServesClient(o) == conn # NoConn /\ receiver[conn].owner = o

Stop(o) ==
    /\ life[o] = "live" /\ Loop(o)
    /\ life' = [life EXCEPT ![o] = "stopping"]
    /\ LoseConnection(ServesClient(o)) /\ UNCHANGED client
    /\ UNCHANGED <<fileVars, log, recent, task, receiver, ghostVars, budget>>

\* Cancelled before it started, or at an await of its handler.
CancelTask(o, c) ==
    /\ life[o] = "stopping"
    /\ \/ /\ TaskAt(o, c, "scheduled")
          /\ GoTo(o, c, "ending")
          /\ UNCHANGED <<fileVars, log, life, recent, receiver, clientVars, ghostVars>>
       \/ Interrupted(o, c) /\ Release(o, c)
    /\ UNCHANGED budget

Close(o) ==
    /\ life[o] = "stopping" /\ task[o] = NoTasks
    /\ \A k \in Conn : receiver[k].owner # o
    /\ life' = [life EXCEPT ![o] = "dead"]
    /\ recent' = [recent EXCEPT ![o] = <<>>]
    /\ UNCHANGED <<fileVars, log, task, receiver, clientVars, ghostVars, budget>>

Crash(o) ==
    /\ Running(o)
    /\ life' = [life EXCEPT ![o] = "gone"]
    /\ recent' = [recent EXCEPT ![o] = <<>>]
    /\ task' = [task EXCEPT ![o] = NoTasks]
    /\ receiver' = [k \in Conn |-> IF receiver[k].owner = o THEN Off ELSE receiver[k]]
    /\ Excuse({c \in Command : task[o][c] = "executed"})
    /\ LoseConnection(ServesClient(o)) /\ UNCHANGED client
    /\ UNCHANGED <<fileVars, log, runs, budget>>

FreeLease(o) ==
    /\ life[o] = "gone"
    /\ life' = [life EXCEPT ![o] = "dead"]
    /\ UNCHANGED <<fileVars, log, recent, task, receiver, clientVars, ghostVars, budget>>

-----------------------------------------------------------------------------
Receive(k) ==
    \E c \in Command : ReceiveSeen(k, c) \/ ReceiveOverBacklog(k, c) \/ ReceiveOwned(k, c)

ReceiverStep(k) ==
    \/ StartReplay(k) \/ StartReceiving(k) \/ Leave(k) \/ AckSent(k) \/ Receive(k)
    \/ \E c \in Command : Replay(k, c)

TaskStep(o, c) ==
    Claim(o, c) \/ Execute(o, c) \/ Mark(o, c) \/ Complete(o, c) \/ TaskDone(o, c)

Reconnect == \E k \in Conn, o \in Owner : Attach(k, o) \/ Create(k, o)

ClientStep == Reconnect \/ ClientLoses \/ Disconnect \/ \E c \in Command : Send(c)

FaultStep ==
    \/ \E k \in Conn : \/ ReceiverFails(k)
                       \/ \E c \in Command : ReceiveUnpersisted(k, c)
    \/ \E o \in Owner, c \in Command :
           \/ ClaimFails(o, c) \/ CompleteFails(o, c) \/ HandlerFails(o, c)
           \/ MarkFails(o, c) \/ ReleaseFails(o, c)

LifeStep(o) ==
    \/ Stop(o) \/ Close(o) \/ Crash(o) \/ FreeLease(o)
    \/ \E c \in Command : CancelTask(o, c)

Next ==
    \/ ClientStep \/ FaultStep
    \/ \E k \in Conn : ReceiverStep(k)
    \/ \E o \in Owner : LifeStep(o) \/ \E c \in Command : TaskStep(o, c)

Spec == Init /\ [][Next]_vars

-----------------------------------------------------------------------------
(* Properties.                                                             *)

Owned(c) == c \in pending \/ holder[c] # NoOwner

\* A command takes effect once, however often it is sent, acknowledged or
\* replayed, except where the effect could not be recorded: "A crash between
\* those writes must replay as a duplicate acknowledgement, never execute the
\* command twice" (_run_durable_client_command).
ExecutedOnce == \A c \in Command : runs[c] <= 1 + excused[c]

\* "ACK means the server durably owns the command" (run): what the client no
\* longer resends has taken effect or is in the file, whoever crashes.
AcknowledgedIsKept ==
    \A c \in Command : client[c] = "acked" => runs[c] > 0 \/ Owned(c)

\* The promise of CommandDelivery is kept: a command leaves the file only after
\* its effect, and has one only while it is claimed
\* (_run_durable_client_command: claim, execute, mark, complete).
Delivery == INSTANCE CommandDelivery WITH
                owned <- {c \in Command : Owned(c)},
                effects <- {c \in Command : runs[c] > 0},
                acked <- {c \in Command : client[c] = "acked"}
DeliversCommands == Delivery!DeliverySpec

\* No two runtimes execute a command at the same time (claim_client_command).
ExecutedByOne ==
    \A c \in Command : \A o, p \in Owner :
        /\ task[o][c] \in {"executing", "executed", "marked"}
        /\ task[p][c] \in {"executing", "executed", "marked"}
        => o = p

\* The event loop resumes what can continue; a handler returns; an operating
\* system frees a dead process's lease; a client that lost its connection comes
\* back, by itself or reloaded.
Fairness ==
    /\ \A k \in Conn : SF_vars(ReceiverStep(k))
    /\ \A o \in Owner, c \in Command : SF_vars(TaskStep(o, c))
    /\ \A o \in Owner : /\ WF_vars(FreeLease(o)) /\ WF_vars(Close(o))
                        /\ \A c \in Command : WF_vars(CancelTask(o, c))
    /\ SF_vars(Reconnect)
LiveSpec == Spec /\ Fairness

\* An acknowledged command eventually takes effect, by this runtime or, after a
\* crash or a shutdown, by a later one.
NobodyLeft == \A o \in Owner : life[o] \notin {"new", "live"}
AcknowledgedIsExecuted ==
    \A c \in Command : client[c] = "acked" ~> (runs[c] > 0 \/ NobodyLeft)

=============================================================================
