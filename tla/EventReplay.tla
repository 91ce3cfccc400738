----------------------------- MODULE EventReplay -----------------------------
(***************************************************************************)
(* How a renderer follows the events of its session across lost            *)
(* connections, reloads and restarts:                                      *)
(*   - the outbox numbers events, keeps a window of those that can be      *)
(*     replayed and writes them to a log (ws/event_outbox.py,              *)
(*     ws/event_log.py),                                                   *)
(*   - the manager loads the log when it makes a runtime (ws/manager.py),  *)
(*   - session.restore answers a reconnected renderer with a snapshot and, *)
(*     when the window links to its cursor, the events it has missed       *)
(*     (ws/handlers/session.py),                                           *)
(*   - the renderer's cursor moves along that chain                        *)
(*     (frontend/src.v2/hooks/useWebSocket.ts).                            *)
(*                                                                         *)
(* One session and one renderer at a time.                                 *)
(***************************************************************************)
EXTENDS Naturals, Sequences, FiniteSets, SequencesExt

CONSTANTS
    Limit,         \* replay_limit: events kept in the window
    MaxSteps       \* bound: events and disturbances (lost connections, crashes,
                   \* unreadable logs, failed writes, failed reducers, reloads,
                   \* deletions) together

ASSUME LimitAssumption == Limit \in Nat \ {0}
ASSUME BoundAssumption == MaxSteps \in Nat

VARIABLES
    inc,        \* which runtime of the session this is
    up,         \* the runtime exists
    degraded,   \* replay_log_degraded
    eventSeq,   \* _event_seq
    cursor,     \* _replay_cursor
    window,     \* _events
    unwritten,  \* _events_since_rewrite
    queue,      \* _pending_persistence
    write,      \* the write in its thread, or nothing
    failed,     \* _persistence_failed_seqs
    deleting,   \* events of the conversation being deleted
    disk,       \* the lines of the log
    restore,    \* the session.restore handler
    wire,       \* messages on their way to the renderer
    asks,       \* the renderer restores when it connects
    mode,       \* its connection and recovery flags
    cur,        \* lastReceivedServerSeq
    holes,      \* failedReplaySeqs
    buffer,     \* bufferedRecoveryEvents
    applied,    \* recentInboundEventIds
    shown,      \* history: events a snapshot has shown
    repeated,   \* history: an event was applied after it, or a later one
    kept,       \* history: events not deleted, nor lost from the log
    origin,     \* history: the last runtime made over an unreadable log
    behind,     \* history: the renderer remembers a number that is gone
    deleted,    \* history: events of deleted conversations
    steps       \* bound: see MaxSteps

runtime == <<inc, up, degraded, eventSeq, cursor, window, unwritten>>
writer == <<queue, write, failed>>
page == <<asks, mode, cur, holes, buffer, applied>>
ghosts == <<shown, repeated, kept, origin, behind, deleted>>
vars == <<runtime, writer, deleting, disk, restore, wire, page, ghosts, steps>>

Event == [inc : Nat, seq : Nat, prev : Nat]
Write == [rewrite : BOOLEAN, events : Seq(Event), trigger : Nat]
Seqs(s) == {e.seq : e \in ToSet(s)}
Top(s) == Max(Seqs(s) \cup {0})
RetainedOneMore(s) == SubSeq(s, Max({1, Len(s) - Limit}), Len(s))  \* mutant
Retained(s) == SubSeq(s, Max({1, Len(s) - Limit + 1}), Len(s))
Id(e) == <<e.inc, e.seq>>
Without(s, ids) ==
    LET rest[n \in 0..Len(s)] ==
            IF n = 0 THEN <<>>
            ELSE IF Id(s[n]) \in ids THEN rest[n - 1] ELSE Append(rest[n - 1], s[n])
    IN  rest[Len(s)]
Seen == applied \cup shown

NoRestore == [at |-> "none", last |-> 0, current |-> 0, reset |-> FALSE,
              snapshot |-> FALSE, events |-> <<>>]
Ask(last) == [NoRestore EXCEPT !.at = "asked", !.last = last]

Init ==
    /\ inc = 0 /\ up = FALSE /\ degraded = FALSE
    /\ eventSeq = 0 /\ cursor = 0 /\ window = <<>> /\ unwritten = 0
    /\ queue = <<>> /\ write = <<>> /\ failed = {}
    /\ deleting = {} /\ disk = <<>>
    /\ restore = NoRestore /\ wire = <<>>
    /\ asks \in BOOLEAN /\ mode = "off" /\ cur = 0 /\ holes = {}
    /\ buffer = <<>> /\ applied = {}
    /\ shown = {} /\ repeated = FALSE /\ kept = {}
    /\ origin = 0 /\ behind = FALSE /\ deleted = {} /\ steps = 0

Step == steps < MaxSteps /\ steps' = steps + 1

-----------------------------------------------------------------------------
(* The outbox.                                                             *)

\* send_payload holds _send_lock, which a deletion keeps across its awaits.
Unlocked == up /\ deleting = {}

Message(kind, answer) == [kind |-> kind, seq |-> eventSeq + 1, answer |-> answer]
Deliver(m) == wire' = IF mode = "off" THEN wire ELSE Append(wire, m)

\* A rewrite of the whole window empties the queue of single lines before it.
Staged(e) ==
    LET retained == Retained(Append(window, e))
        compact == unwritten + 1 >= Limit
    IN  /\ window' = retained
        /\ unwritten' = IF compact THEN 0 ELSE unwritten + 1
        /\ queue' = IF compact
                    THEN <<[rewrite |-> TRUE, events |-> retained, trigger |-> e.seq]>>
                    ELSE Append(queue, [rewrite |-> FALSE, events |-> <<e>>, trigger |-> e.seq])

\* Live-only events (deltas and the like) only take a number, as the answers
\* below do.
Emit ==
    LET e == [inc |-> inc, seq |-> eventSeq + 1, prev |-> cursor] IN
    /\ Unlocked /\ Step
    /\ eventSeq' = e.seq /\ cursor' = e.seq
    /\ Staged(e)
    /\ Deliver(Message("event", [NoRestore EXCEPT !.events = <<e>>]))
    /\ kept' = kept \cup {e}
    /\ UNCHANGED <<inc, up, degraded, write, failed, deleting, disk, restore, page,
                   shown, repeated, origin, behind, deleted>>

\* _persist_pending: a rewrite is always at the head of the queue, so it is
\* written alone; everything else, one event each, goes into one append, or,
\* after a failure, into a rewrite of the window that also stands for it.
StartWrite ==
    LET first == Head(queue)
        lines == [i \in DOMAIN queue |-> Head(queue[i].events)]
    IN
    /\ up /\ write = <<>> /\ queue # <<>>
    /\ IF first.rewrite
       THEN write' = <<first>> /\ queue' = Tail(queue)
       ELSE /\ write' = IF failed = {}
                        THEN <<[first EXCEPT !.events = lines]>>
                        ELSE <<[first EXCEPT !.rewrite = TRUE, !.events = window]>>
            /\ queue' = <<>>
    /\ UNCHANGED <<runtime, failed, deleting, disk, restore, wire, page, ghosts, steps>>

\* Failures are remembered only for events still in the window.
FinishWrite ==
    /\ up /\ write # <<>>
    /\ LET w == Head(write) IN
       /\ disk' = IF w.rewrite THEN w.events ELSE disk \o w.events
       /\ failed' = (failed \ Seqs(w.events)) \cap Seqs(window)
    /\ write' = <<>>
    /\ UNCHANGED <<runtime, queue, deleting, restore, wire, page, ghosts, steps>>

UnpublishedLines(w) == IF w.rewrite THEN {} ELSE Seqs(w.events)  \* mutant
Unpublished(w) == IF w.rewrite THEN {w.trigger} ELSE Seqs(w.events)

FailWrite ==
    /\ up /\ write # <<>> /\ Step
    /\ failed' = (failed \cup Unpublished(Head(write))) \cap Seqs(window)
    /\ write' = <<>>
    /\ UNCHANGED <<runtime, queue, deleting, disk, restore, wire, page, ghosts>>

DrainedQueue == queue = <<>>  \* mutant
Drained == queue = <<>> /\ write = <<>>

\* Which events are the conversation's is left open until it is deleted:
\* nothing else depends on it, and a deleted conversation sends no more.
BeginDelete ==
    /\ Unlocked /\ Step
    /\ deleting' \in SUBSET {Id(e) : e \in ToSet(window) \cup ToSet(disk)} \ {{}}
    /\ UNCHANGED <<runtime, writer, disk, restore, wire, page, ghosts>>

\* Any later read of the log says anew whether it was read, although the window
\* and the counter are those of the first.
Reads(readable) == IF readable THEN UNCHANGED steps ELSE disk # <<>> /\ Step

\* This runtime was made over an unreadable log, and counts anew.
Partial == origin # 0 /\ origin = inc

Reread(readable) ==
    /\ Reads(readable)
    /\ degraded' = ~readable
    /\ behind' = (behind \/ (readable /\ degraded /\ Partial /\ mode # "live"))

Removed ==
    /\ window' = Without(window, deleting)
    /\ disk' = Without(disk, deleting)
    /\ kept' = {e \in kept : Id(e) \notin deleting}
    /\ deleted' = deleted \cup deleting

Unresolved == \E e \in ToSet(window) : Id(e) \in deleting /\ e.seq \in failed

EndDelete ==
    /\ up /\ deleting # {} /\ Drained
    /\ \/ Unresolved /\ UNCHANGED <<window, disk, kept, deleted, degraded, behind, steps>>
       \/ ~Unresolved /\ Reread(TRUE) /\ Removed
       \/ ~Unresolved /\ Reread(FALSE) /\ UNCHANGED <<window, disk, kept, deleted>>
    /\ deleting' = {}
    /\ UNCHANGED <<inc, up, eventSeq, cursor, unwritten, writer, restore, wire, page,
                   shown, repeated, origin>>

\* The export of the replay log reads it.
Inspect(readable) ==
    /\ up /\ degraded = readable /\ Reread(readable)
    /\ UNCHANGED <<inc, up, eventSeq, cursor, window, unwritten, writer, deleting, disk,
                   restore, wire, page, shown, repeated, kept, origin, deleted>>

-----------------------------------------------------------------------------
(* session.restore.                                                        *)

NoReplay == [missed |-> <<>>, gap |-> FALSE]
Gap == [missed |-> <<>>, gap |-> TRUE]

LinkedInside(missed, last) ==  \* mutant
    LET before(i) == IF i = 1 THEN last ELSE missed[i - 1].seq IN
    IF /\ \A i \in DOMAIN missed : missed[i].seq > before(i) /\ missed[i].seq \notin failed
       /\ \A i \in DOMAIN missed \ {1} : missed[i].prev = before(i)
       /\ Last(missed).seq = cursor
    THEN [missed |-> [i \in DOMAIN missed |-> [missed[i] EXCEPT !.prev = before(i)]],
          gap |-> FALSE]
    ELSE Gap

\* Where the window is entered it may reach back behind `last`; from there on
\* every event must continue the one before it. What is sent is linked anew.
Linked(missed, last) ==
    LET before(i) == IF i = 1 THEN last ELSE missed[i - 1].seq IN
    IF /\ \A i \in DOMAIN missed : missed[i].seq > before(i) /\ missed[i].seq \notin failed
       /\ missed[1].prev <= last
       /\ \A i \in DOMAIN missed \ {1} : missed[i].prev = before(i)
       /\ Last(missed).seq = cursor
    THEN [missed |-> [i \in DOMAIN missed |-> [missed[i] EXCEPT !.prev = before(i)]],
          gap |-> FALSE]
    ELSE Gap

ReplayWindowAfter(last) ==
    LET after == {i \in DOMAIN window : window[i].seq > last} IN
    IF last = 0 \/ last = cursor THEN NoReplay
    ELSE IF last > cursor \/ after = {} THEN Gap
    ELSE Linked(SubSeq(window, Min(after), Len(window)), last)

Answer(last) ==
    LET reset == last > cursor
        from == IF reset THEN cursor ELSE last
        found == ReplayWindowAfter(from)
        gap == found.gap \/ reset \/ degraded
    IN  [at |-> "found", last |-> from, current |-> cursor, reset |-> reset,
         snapshot |-> gap \/ from = 0, events |-> IF gap THEN <<>> ELSE found.missed]

\* The window is read, then the conversation is restored, which awaits, and
\* only then is anything sent: events go out in between.
Look ==
    /\ up /\ restore.at = "asked"
    /\ restore' = Answer(restore.last)
    /\ UNCHANGED <<runtime, writer, deleting, disk, wire, page, ghosts, steps>>

RestoredOnly(r) == NoRestore  \* mutant
AfterRestored(r) == IF r.events = <<>> THEN NoRestore ELSE [r EXCEPT !.at = "sent"]

SendRestored ==
    /\ Unlocked /\ restore.at = "found"
    /\ Deliver(Message("restored", restore))
    /\ eventSeq' = eventSeq + 1
    /\ restore' = AfterRestored(restore)
    /\ UNCHANGED <<inc, up, degraded, cursor, window, unwritten, writer, deleting, disk,
                   page, ghosts, steps>>

SendReplay ==
    /\ Unlocked /\ restore.at = "sent"
    /\ Deliver(Message("replay", restore))
    /\ eventSeq' = eventSeq + 1
    /\ restore' = NoRestore
    /\ UNCHANGED <<inc, up, degraded, cursor, window, unwritten, writer, deleting, disk,
                   page, ghosts, steps>>

-----------------------------------------------------------------------------
(* The renderer.                                                           *)

\* What an event handler works on: the cursor and its history, until one
\* event fails. `bad` is the number of an event whose reducer throws.
Handling(c, h, s) == [cur |-> c, holes |-> h, applied |-> applied, shown |-> s,
                      repeated |-> repeated, ok |-> TRUE]

BehindHole(h, n) == \E i \in h : n > i
Ignored(st, e) == e.seq <= st.cur \/ BehindHole(st.holes, e.seq) \/ Id(e) \in st.applied

NotAfter(st, e) ==
    \E id \in st.applied \cup st.shown :
        id[1] > e.inc \/ (id[1] = e.inc /\ id[2] >= e.seq)

Apply(st, e, bad) ==
    IF ~st.ok \/ Ignored(st, e) THEN st
    ELSE IF e.prev # st.cur \/ e.seq = bad
         THEN [st EXCEPT !.ok = FALSE, !.holes = @ \cup {e.seq}]
         ELSE [st EXCEPT !.cur = e.seq, !.holes = @ \ {e.seq},
                         !.applied = @ \cup {Id(e)}, !.repeated = @ \/ (~behind /\ NotAfter(st, e))]

Handled(st, s, bad) ==
    LET after[n \in 0..Len(s)] ==
            IF n = 0 THEN st ELSE Apply(after[n - 1], s[n], bad)
    IN  after[Len(s)]

\* A failure closes the socket for a resync; closing drops what was buffered.
Settle(handled) == \E st \in {handled} :
    /\ cur' = st.cur /\ holes' = st.holes /\ applied' = st.applied
    /\ shown' = st.shown /\ repeated' = st.repeated
    /\ mode' = IF st.ok THEN "live" ELSE "off"
    /\ wire' = IF st.ok THEN Tail(wire) ELSE <<>>
    /\ buffer' = <<>>
    /\ restore' = IF st.ok THEN restore ELSE NoRestore

Buffer(m) ==
    /\ buffer' = buffer \o m.answer.events /\ wire' = Tail(wire)
    /\ UNCHANGED <<mode, cur, holes, applied, restore, shown, repeated, behind>>

Take(m, bad) ==
    /\ Settle(Handled(Handling(cur, holes, shown), m.answer.events, bad))
    /\ UNCHANGED behind

\* The cursor after a snapshot that no replay follows.
SnapshotBehind(a) == a.last  \* mutant
SnapshotCursor(a) == a.current
SnapshotHoles(a) == IF a.reset THEN {} ELSE {h \in holes : h > a.current}
Shows(a) == IF a.snapshot THEN {Id(e) : e \in {k \in kept : k.inc < inc \/ k.seq <= a.current}} ELSE {}

\* Behind a hole even the answer is ignored, but recovery goes on as if it
\* had been handled.
Restored(m, bad) ==
    LET a == m.answer
        blind == BehindHole(holes, m.seq)
        st == IF blind THEN Handling(cur, holes, shown)
              ELSE Handling(SnapshotCursor(a), SnapshotHoles(a), shown \cup Shows(a))
    IN
    IF a.events # <<>>
    THEN /\ mode' = "replay" /\ wire' = Tail(wire) /\ bad = 0
         /\ UNCHANGED <<cur, holes, buffer, applied, restore, shown, repeated, behind>>
    ELSE /\ Settle(Handled(st, buffer, bad))
         /\ behind' = IF ~blind /\ a.snapshot THEN FALSE ELSE behind

Replayed(m, bad) ==
    /\ LET missed == IF BehindHole(holes, m.seq) THEN <<>> ELSE m.answer.events IN
       Settle(Handled(Handling(cur, holes, shown), missed \o buffer, bad))
    /\ UNCHANGED behind

Receive(bad) ==
    /\ mode # "off" /\ wire # <<>>
    /\ LET m == Head(wire) IN
       \/ m.kind = "event" /\ mode = "live" /\ Take(m, bad)
       \/ m.kind = "event" /\ mode # "live" /\ bad = 0 /\ Buffer(m)
       \/ m.kind = "restored" /\ Restored(m, bad)
       \/ m.kind = "replay" /\ Replayed(m, bad)
    /\ UNCHANGED <<runtime, writer, deleting, disk, asks, kept, origin, deleted>>

ReducerFails ==
    /\ wire # <<>> /\ Step
    /\ \E n \in Seqs(Head(wire).answer.events \o buffer) :
        Receive(n) /\ n \in holes' \ holes

-----------------------------------------------------------------------------
(* Connections, runtimes and pages.                                        *)

\* A page that knows no conversation, and has not been connected before, does
\* not ask for a restore.
Join ==
    /\ mode = "off" /\ asks' = TRUE
    /\ IF asks THEN mode' = "snapshot" /\ restore' = Ask(cur)
               ELSE mode' = "live" /\ restore' = NoRestore
    /\ UNCHANGED <<cur, holes, applied, buffer, wire>>

Misses(top) == ~asks /\ (cur # top \/ kept # {})

Attach ==
    /\ up /\ Join
    /\ behind' = (behind \/ Misses(cursor))
    /\ UNCHANGED <<runtime, writer, deleting, disk, shown, repeated, kept, origin, deleted,
                   steps>>

\* Numbers the renderer remembers and a new runtime that counts from top does
\* not, unless it is told so: an unreadable log is reported, the lost end of a
\* log is not, nor that a runtime over an unreadable log gave numbers out twice.
\* What was written before that may come back into the window much later.
Forgets(top, readable) ==
    \/ \E h \in holes : h > top
    \/ readable /\ cur > top
    \/ Partial
    \/ readable /\ \E e \in ToSet(disk) : e.inc < origin /\ e.seq > cur

Create(readable) ==
    LET loaded == IF readable THEN Retained(disk) ELSE <<>>
        top == Top(loaded)
    IN
    /\ ~up /\ Join
    /\ Reads(readable)
    /\ inc' = inc + 1 /\ up' = TRUE /\ degraded' = ~readable
    /\ origin' = IF readable THEN origin ELSE inc + 1
    /\ eventSeq' = top /\ cursor' = top
    /\ window' = loaded /\ unwritten' = Len(loaded)
    /\ behind' = (behind \/ Misses(top) \/ Forgets(top, readable))
    /\ UNCHANGED <<writer, deleting, disk, shown, repeated, kept, deleted>>

Break == mode' = "off" /\ wire' = <<>> /\ buffer' = <<>> /\ restore' = NoRestore

Disconnect ==
    /\ mode # "off" /\ Step /\ Break
    /\ UNCHANGED <<runtime, writer, deleting, disk, asks, cur, holes, applied, ghosts>>

\* The process dies, or, with nothing left to write, retires the session
\* thirty seconds after its connection was lost.
Written == Max({e.seq : e \in {x \in ToSet(disk) : x.inc = inc}} \cup {0})
Crash ==
    /\ up /\ Step /\ Break
    /\ up' = FALSE /\ eventSeq' = 0 /\ cursor' = 0 /\ window' = <<>> /\ unwritten' = 0
    /\ queue' = <<>> /\ write' = <<>> /\ failed' = {} /\ deleting' = {}
    /\ kept' = {e \in kept : e.inc < inc \/ e.seq <= Written}
    /\ UNCHANGED <<inc, degraded, disk, asks, cur, holes, applied, shown, repeated,
                   origin, behind, deleted>>

Reload ==
    /\ Step /\ Break
    /\ asks' \in BOOLEAN /\ cur' = 0 /\ holes' = {} /\ applied' = {}
    /\ shown' = {} /\ behind' = FALSE
    /\ UNCHANGED <<runtime, writer, deleting, disk, repeated, kept, origin, deleted>>

-----------------------------------------------------------------------------
Next ==
    \/ Emit \/ BeginDelete
    \/ StartWrite \/ FinishWrite \/ FailWrite \/ EndDelete
    \/ Look \/ SendRestored \/ SendReplay
    \/ Receive(0) /\ UNCHANGED steps
    \/ ReducerFails
    \/ Inspect(TRUE) \/ Inspect(FALSE)
    \/ Attach \/ Create(TRUE) \/ Create(FALSE)
    \/ Disconnect \/ Crash \/ Reload

Spec == Init /\ [][Next]_vars

\* asyncio resumes the handler, the writer and the deletion; what is on the
\* wire arrives or the connection breaks; and the renderer reconnects.
Reconnects == Attach \/ Create(TRUE)
Arrives == wire # <<>> /\ wire' \in {Tail(wire), <<>>}
Restores == Look \/ SendRestored \/ SendReplay
Persists == StartWrite \/ FinishWrite \/ EndDelete
FairSpec ==
    /\ Spec
    /\ WF_vars(Reconnects) /\ WF_wire(Arrives)
    /\ WF_vars(Restores) /\ WF_vars(Persists)

-----------------------------------------------------------------------------
(* Properties.                                                             *)

\* Types, and what is cleared with what: a stopped runtime has no state of its
\* own, and nothing is on a wire without a connection.
TypeOK ==
    /\ inc \in Nat /\ up \in BOOLEAN /\ degraded \in BOOLEAN
    /\ eventSeq \in Nat /\ cursor \in 0..eventSeq /\ window \in Seq(Event)
    /\ unwritten \in 0..Limit /\ Len(window) <= Limit
    /\ queue \in Seq(Write) /\ write \in Seq(Write) /\ Len(write) <= 1
    /\ failed \subseteq Nat
    /\ deleting \subseteq Nat \X Nat /\ disk \in Seq(Event)
    /\ asks \in BOOLEAN /\ mode \in {"off", "snapshot", "replay", "live"}
    /\ cur \in Nat /\ holes \subseteq Nat /\ buffer \in Seq(Event)
    /\ steps \in 0..MaxSteps
    /\ up \/ (window = <<>> /\ queue = <<>> /\ write = <<>> /\ mode = "off")
    /\ mode = "off" => wire = <<>> /\ buffer = <<>> /\ restore = NoRestore

\* A renderer that is following the session has applied every event up to its
\* cursor, or been shown a snapshot that holds it, unless it remembers numbers
\* that a restart has given out again.
NothingSkipped ==
    mode = "live" /\ ~behind => \A e \in kept : e.seq <= cur => Id(e) \in Seen

\* No event is applied twice, nor after a later one, nor on top of a snapshot
\* that already shows it.
AppliedInOrder == ~repeated

\* When the writer has caught up and reports no failure, the log ends with the
\* window: every event of it, once, in order, whatever writes have failed.
WindowOnDisk == up /\ Drained /\ failed = {} => IsSuffix(window, disk)

\* The events of a deleted conversation do not come back, neither from the
\* window nor from a write that was on its way when they were deleted.
DeletedStaysDeleted ==
    LET written == UNION {ToSet(w.events) : w \in ToSet(queue) \cup ToSet(write)} IN
    \A e \in ToSet(disk) \cup ToSet(window) \cup written : Id(e) \notin deleted

\* The renderer ends up following the session, unless an event has failed it
\* or it remembers numbers of a counter that was lost.
CatchesUp == <>[](holes # {} \/ behind \/ (mode = "live" /\ cur = cursor))

\* "a handler failure must be replayable after reconnect instead of being
\* acknowledged by the cursor" (useWebSocket.ts:1343): the failed event is
\* applied, or a snapshot replaces it.
FailureIsRepaired == holes # {} ~> holes = {}
=============================================================================
