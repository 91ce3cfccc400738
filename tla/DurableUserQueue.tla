-------------------------- MODULE DurableUserQueue --------------------------
(***************************************************************************)
(* The crash-safe user-message queue of one session                        *)
(* (backend/ws/durable_user_queue.py, class DurableUserMessageQueue).      *)
(*                                                                         *)
(* One JSON file per session is shared by every runtime ("owner") of that  *)
(* session.  Each public method runs under a thread lock and a file lock   *)
(* and re-reads the file first, so a method is one atomic step:            *)
(*      read the file -> recover the work of dead owners -> edit -> write. *)
(* What is NOT shared is each owner's memory of the file: the baselines    *)
(* owner* below, against which its next save computes a delta.             *)
(*                                                                         *)
(* The file is keyed by conversation and the conversations never interact; *)
(* this module is the slice of the file that belongs to one conversation.  *)
(***************************************************************************)
EXTENDS Naturals, FiniteSets, SequencesExt

CONSTANTS
    Msg,        \* user messages; a message id is unique to its message
    Owner,      \* runtime owners; an owner id (uuid4) is never reused
    NoMsg, NoOwner

ASSUME NullsAssumption == NoMsg \notin Msg /\ NoOwner \notin Owner

VARIABLES
    disk,           \* the file: queue, inflight claim, promoted turn inputs
    life,           \* owner -> "new" | "live" | "gone" | "dead"
    ownerQueue,     \* owner -> the queue this owner last saw or saved
    ownerInflight,  \* owner -> the inflight claim it last knew to be its own
    ownerTurn       \* owner -> the turn inputs it last knew to be its own

baselines == <<ownerQueue, ownerInflight, ownerTurn>>
storeVars == <<disk, life, ownerQueue, ownerInflight, ownerTurn>>

EmptyDisk == [queue |-> <<>>, inflight |-> NoMsg, infOwner |-> NoOwner,
              turn |-> <<>>, turnOwner |-> NoOwner]

StoreTypeOK ==
    /\ disk \in [queue : Seq(Msg), inflight : Msg \cup {NoMsg},
                 infOwner : Owner \cup {NoOwner},
                 turn : Seq(Msg), turnOwner : Owner \cup {NoOwner}]
    /\ life \in [Owner -> {"new", "live", "gone", "dead"}]
    /\ ownerQueue \in [Owner -> Seq(Msg)]
    /\ ownerInflight \in [Owner -> Msg \cup {NoMsg}]
    /\ ownerTurn \in [Owner -> Seq(Msg)]

StoreInit ==
    /\ disk = EmptyDisk
    /\ life = [o \in Owner |-> "new"]
    /\ ownerQueue = [o \in Owner |-> <<>>]
    /\ ownerInflight = [o \in Owner |-> NoMsg]
    /\ ownerTurn = [o \in Owner |-> <<>>]

-----------------------------------------------------------------------------
(* Owner leases.  "gone": the runtime stopped but the operating system     *)
(* cannot prove its lease free yet; its work is left alone.                *)

OwnerIsLive(o) == o \in Owner /\ life[o] \in {"live", "gone"}

\* _recover_stale_owners: promoted inputs first, then the inflight message,
\* then whatever was still queued.
Recovered(d) ==
    LET turnDead == d.turn # <<>> /\ ~OwnerIsLive(d.turnOwner)
        infDead  == d.inflight # NoMsg /\ ~OwnerIsLive(d.infOwner)
    IN  [queue     |-> (IF turnDead THEN d.turn ELSE <<>>)
                       \o (IF infDead THEN <<d.inflight>> ELSE <<>>)
                       \o d.queue,
         inflight  |-> IF infDead THEN NoMsg ELSE d.inflight,
         infOwner  |-> IF infDead THEN NoOwner ELSE d.infOwner,
         turn      |-> IF turnDead THEN <<>> ELSE d.turn,
         turnOwner |-> IF turnDead THEN NoOwner ELSE d.turnOwner]

-----------------------------------------------------------------------------
(* The three-way merge of _merge_queue_delta.                              *)

\* The elements of s that are in S, in the order of s.
Only(s, S) ==
    LET rest[n \in 0..Len(s)] ==
            IF n = 0 THEN <<>>
            ELSE IF s[n] \in S THEN Append(rest[n - 1], s[n]) ELSE rest[n - 1]
    IN  rest[Len(s)]

\* Occurrence-numbered commands, so that equal commands have distinct keys.
Indexed(s) ==
    [i \in DOMAIN s |-> <<s[i], Cardinality({j \in 1..(i - 1) : s[j] = s[i]})>>]

\* The caller's relative order, written into the slots its commands occupy.
Reordered(kept, common) ==
    LET isCommon(k) == k \in ToSet(common)
        rank(i) == Cardinality({j \in 1..i : isCommon(kept[j])})
    IN  [i \in DOMAIN kept |->
            IF isCommon(kept[i]) THEN common[rank(i)] ELSE kept[i]]

\* Insert key before the first command that follows it in desired, else append.
InsertBeforeSuccessor(merged, key, desired) ==
    LET later == {desired[j] : j \in {k \in DOMAIN desired :
                     \E i \in 1..(k - 1) : desired[i] = key}}
        slots == {i \in DOMAIN merged : merged[i] \in later}
        first == CHOOSE i \in slots : \A j \in slots : i <= j
    IN  IF key \in ToSet(merged) THEN merged
        ELSE IF slots = {} THEN Append(merged, key)
        ELSE InsertAt(merged, first, key)

MergeQueueDelta(latest, previous, desired) ==
    LET L == Indexed(latest)
        P == ToSet(Indexed(previous))
        D == Indexed(desired)
        kept   == Only(L, ToSet(L) \ (P \ ToSet(D)))
        common == Only(D, P \cap ToSet(kept))
        fresh  == Only(D, ToSet(D) \ P)
        merged[n \in 0..Len(fresh)] ==
            IF n = 0 THEN Reordered(kept, common)
            ELSE InsertBeforeSuccessor(merged[n - 1], fresh[n], D)
        result == merged[Len(fresh)]
    IN  [i \in DOMAIN result |-> result[i][1]]

-----------------------------------------------------------------------------
(* save(): the owner publishes a snapshot of its memory.  An owned part    *)
(* changes only if the owner edited it, still owns it, and nobody else     *)
(* live does; an edit over another live owner's part raises.               *)

Edited(before, after) == before # after

Transferred(o, before, holder, none) == before # none /\ holder # o

SaveRefused(o, inf, turn) ==
    LET d == Recovered(disk)
        foreign(before, after, held, holder, none) ==
            /\ Edited(before, after)
            /\ ~Transferred(o, before, holder, none)
            /\ after # none
            /\ held # none /\ holder \notin {NoOwner, o}
    IN  \/ foreign(ownerInflight[o], inf, d.inflight, d.infOwner, NoMsg)
        \/ foreign(ownerTurn[o], turn, d.turn, d.turnOwner, <<>>)

\* Mutant: the snapshot is published whether or not its owner edited it.
OwnedSnapshot(o, before, after, held, holder, none) ==
    IF Transferred(o, before, holder, none) THEN <<held, holder>>
    ELSE IF after # none THEN <<after, o>>
    ELSE <<none, NoOwner>>

\* merge_owned_delta for one part: the value and its owner after the save.
OwnedDelta(o, before, after, held, holder, none) ==
    IF ~Edited(before, after) \/ Transferred(o, before, holder, none)
    THEN <<held, holder>>
    ELSE IF after # none THEN <<after, o>>
    ELSE IF holder = o THEN <<none, NoOwner>>
    ELSE <<held, holder>>

SaveResult(o, q, inf, turn) ==
    LET d == Recovered(disk)
        i == OwnedDelta(o, ownerInflight[o], inf, d.inflight, d.infOwner, NoMsg)
        t == OwnedDelta(o, ownerTurn[o], turn, d.turn, d.turnOwner, <<>>)
    IN  [queue |-> MergeQueueDelta(d.queue, ownerQueue[o], q),
         inflight |-> i[1], infOwner |-> i[2], turn |-> t[1], turnOwner |-> t[2]]

Save(o, q, inf, turn) ==
    /\ ~SaveRefused(o, inf, turn)
    /\ disk' = SaveResult(o, q, inf, turn)
    /\ ownerQueue' = [ownerQueue EXCEPT ![o] = q]
    /\ ownerInflight' = [ownerInflight EXCEPT ![o] =
           IF disk'.infOwner = o /\ disk'.inflight = inf THEN inf ELSE NoMsg]
    /\ ownerTurn' = [ownerTurn EXCEPT ![o] =
           IF disk'.turnOwner = o /\ disk'.turn = turn THEN turn ELSE <<>>]
    /\ UNCHANGED life

\* The RuntimeError of merge_owned_delta: only the recovery pass is kept.
RefuseSave(o, inf, turn) ==
    /\ SaveRefused(o, inf, turn)
    /\ disk' = Recovered(disk)
    /\ UNCHANGED <<life, baselines>>

-----------------------------------------------------------------------------
(* claim / settle / pending / load / close                                 *)

Claimable(d) == d.inflight = NoMsg /\ d.turn = <<>> /\ d.queue # <<>>

\* claim_user_message: the head of the queue becomes o's inflight message.
\* The baseline is refreshed when something was claimed or the queue was
\* empty, not when a claim was refused because of other work in progress.
Claim(o) ==
    LET d == Recovered(disk)
    IN  /\ disk' = IF Claimable(d)
                   THEN [d EXCEPT !.queue = Tail(@), !.inflight = Head(d.queue),
                                  !.infOwner = o]
                   ELSE d
        /\ ownerQueue' =
               IF d.inflight = NoMsg /\ d.turn = <<>>
               THEN [ownerQueue EXCEPT ![o] = disk'.queue]
               ELSE ownerQueue
        /\ ownerInflight' =
               IF Claimable(d)
               THEN [ownerInflight EXCEPT ![o] = Head(d.queue)]
               ELSE ownerInflight
        /\ UNCHANGED <<life, ownerTurn>>

ClaimedMessage ==
    LET d == Recovered(disk) IN IF Claimable(d) THEN Head(d.queue) ELSE NoMsg

\* settle_user_message accepts only the claim's actual owner.
MaySettle(o, m) ==
    LET d == Recovered(disk) IN d.inflight = m /\ d.infOwner = o

\* Mutants: an admitted message is requeued too; a rejected one goes last.
SettleByRequeue(o, m, succeeded) ==
    LET d == Recovered(disk)
    IN  /\ MaySettle(o, m)
        /\ disk' = [d EXCEPT !.inflight = NoMsg, !.infOwner = NoOwner,
                             !.queue = <<m>> \o @]
        /\ ownerInflight' = [ownerInflight EXCEPT ![o] = NoMsg]
        /\ ownerQueue' = [ownerQueue EXCEPT ![o] = disk'.queue]
        /\ UNCHANGED <<life, ownerTurn>>

SettleAtTail(o, m, succeeded) ==
    LET d == Recovered(disk)
    IN  /\ MaySettle(o, m)
        /\ disk' = [d EXCEPT !.inflight = NoMsg, !.infOwner = NoOwner,
                             !.queue = IF succeeded THEN @ ELSE Append(@, m)]
        /\ ownerInflight' = [ownerInflight EXCEPT ![o] = NoMsg]
        /\ ownerQueue' = [ownerQueue EXCEPT ![o] = disk'.queue]
        /\ UNCHANGED <<life, ownerTurn>>

Settle(o, m, succeeded) ==
    LET d == Recovered(disk)
    IN  /\ MaySettle(o, m)
        /\ disk' = [d EXCEPT !.inflight = NoMsg, !.infOwner = NoOwner,
                             !.queue = IF succeeded THEN @ ELSE <<m>> \o @]
        /\ ownerInflight' = [ownerInflight EXCEPT ![o] = NoMsg]
        /\ ownerQueue' = [ownerQueue EXCEPT ![o] = disk'.queue]
        /\ UNCHANGED <<life, ownerTurn>>

RefuseSettle(o, m) ==
    /\ ~MaySettle(o, m)
    /\ disk' = Recovered(disk)
    /\ UNCHANGED <<life, baselines>>

\* pending_user_messages returns the recovered queue and moves no baseline.
PendingUserMessages(o) ==
    /\ disk' = Recovered(disk)
    /\ UNCHANGED <<life, baselines>>

\* A new runtime: take the lease, then load().  It owns nothing yet.
Load(o) ==
    /\ life[o] = "new"
    /\ life' = [life EXCEPT ![o] = "live"]
    /\ disk' = Recovered(disk)
    /\ ownerQueue' = [ownerQueue EXCEPT ![o] = disk'.queue]
    /\ UNCHANGED <<ownerInflight, ownerTurn>>

\* The runtime stops, by close() or by dying; the file is not rewritten.
Vanish(o) ==
    /\ life[o] = "live"
    /\ life' = [life EXCEPT ![o] = "gone"]
    /\ ownerQueue' = [ownerQueue EXCEPT ![o] = <<>>]
    /\ ownerInflight' = [ownerInflight EXCEPT ![o] = NoMsg]
    /\ ownerTurn' = [ownerTurn EXCEPT ![o] = <<>>]

\* From now on a probe can acquire the lease.
LeaseFreed(o) ==
    /\ life[o] = "gone"
    /\ life' = [life EXCEPT ![o] = "dead"]
    /\ UNCHANGED <<disk, baselines>>

=============================================================================
