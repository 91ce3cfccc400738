-------------------------- MODULE FollowUpService --------------------------
(***************************************************************************)
(* What the queue of user messages promises, whatever it does with files,  *)
(* claims, fences, turns and leases: a message that has entered waits      *)
(* until a turn has taken it in and that is recorded, or until the user    *)
(* removes it; it never comes back; it is taken in again only when the     *)
(* record of the last time was lost; and messages the user did not         *)
(* redirect into a turn are taken in in the order they entered.            *)
(* (SessionQueue implements this specification, with one runtime at a      *)
(* time.)                                                                  *)
(***************************************************************************)
EXTENDS Naturals, SequencesExt

CONSTANT Msg

VARIABLES
    entered,     \* the messages, in the order they entered
    waiting,     \* those that are still to be taken in, or recorded as such
    served,      \* message -> times a turn took it in
    lost,        \* message -> times that could not be recorded
    redirected,  \* messages that may overtake the others
    removed      \* messages the user took back

service == <<entered, waiting, served, lost, redirected, removed>>

ServiceInit ==
    /\ entered = <<>> /\ waiting = {}
    /\ served = [m \in Msg |-> 0] /\ lost = [m \in Msg |-> 0]
    /\ redirected = {} /\ removed = {}

Enter(m) ==
    /\ m \notin ToSet(entered)
    /\ entered' = Append(entered, m) /\ waiting' = waiting \cup {m}
    /\ redirected' \in {redirected, redirected \cup {m}}
    /\ UNCHANGED <<served, lost, removed>>

Redirect(m) ==
    /\ m \in waiting
    /\ redirected' = redirected \cup {m}
    /\ UNCHANGED <<entered, waiting, served, lost, removed>>

\* No message that may not be overtaken has waited longer than m.
First(m) ==
    \A i, j \in DOMAIN entered :
        entered[j] = m /\ entered[i] \in waiting \ redirected => j <= i

\* A removed message may still be taken in: a turn may already have it.
Serve(m) ==
    /\ served[m] = lost[m]
    /\ \/ m \in removed
       \/ m \in waiting \cap redirected
       \/ m \in waiting /\ First(m)
    /\ served' = [served EXCEPT ![m] = @ + 1]
    /\ UNCHANGED <<entered, waiting, lost, redirected, removed>>

Served == {m \in Msg : served[m] = lost[m] + 1}

Record(m) ==
    /\ m \in waiting \cap Served
    /\ waiting' = waiting \ {m}
    /\ UNCHANGED <<entered, served, lost, redirected, removed>>

\* The user takes the messages in R back, and the records for L are lost.
Discard(R, L) ==
    /\ R \subseteq waiting /\ L \subseteq Served
    /\ removed' = removed \cup R /\ waiting' = waiting \ R
    /\ lost' = [m \in Msg |-> lost[m] + (IF m \in L THEN 1 ELSE 0)]
    /\ UNCHANGED <<entered, served, redirected>>

ServiceNext ==
    \/ \E m \in Msg : Enter(m) \/ Redirect(m) \/ Serve(m) \/ Record(m)
    \/ \E R, L \in SUBSET Msg : Discard(R, L)

ServiceSpec == ServiceInit /\ [][ServiceNext]_service
=============================================================================
