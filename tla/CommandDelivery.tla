-------------------------- MODULE CommandDelivery --------------------------
(***************************************************************************)
(* What the backend promises about durable client commands, whatever it    *)
(* does with connections, files, tasks and leases: a command is owned from *)
(* its acceptance until it has taken effect, takes effect only while it is *)
(* owned, and is acknowledged only once it is owned or has taken effect.   *)
(* (ClientCommands implements this specification.)                         *)
(***************************************************************************)
CONSTANT Command

VARIABLES
    owned,     \* commands the backend answers for
    effects,   \* commands that have taken effect
    acked      \* commands the client need not send again

delivery == <<owned, effects, acked>>

DeliveryInit == owned = {} /\ effects = {} /\ acked = {}

Accept(c) ==
    /\ owned' = owned \cup {c}
    /\ UNCHANGED <<effects, acked>>

TakeEffect(c) ==
    /\ c \in owned
    /\ effects' = effects \cup {c}
    /\ UNCHANGED <<owned, acked>>

Finish(c) ==
    /\ c \in owned \cap effects
    /\ owned' = owned \ {c}
    /\ UNCHANGED <<effects, acked>>

Acknowledged(c) ==
    /\ c \in owned \cup effects
    /\ acked' = acked \cup {c}
    /\ UNCHANGED <<owned, effects>>

DeliveryNext ==
    \E c \in Command : Accept(c) \/ TakeEffect(c) \/ Finish(c) \/ Acknowledged(c)

DeliverySpec == DeliveryInit /\ [][DeliveryNext]_delivery
=============================================================================
