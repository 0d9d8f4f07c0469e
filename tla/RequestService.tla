---------------------------- MODULE RequestService ----------------------------
(***************************************************************************)
(* What the proxy is to its clients, with models, backends, breakers and   *)
(* retries left out: a service desk with a waiting room.  A chat is turned *)
(* away or let in; turned away for want of room only when there is none;   *)
(* from the room to one of the desks, never more than there are; answered  *)
(* once, and only when a desk is done with it.  A client that leaves is    *)
(* not missed by the desk.  When the service closes, whoever is in the     *)
(* room or at a desk gets nothing from it.  A stream passes by the room.   *)
(***************************************************************************)
EXTENDS Naturals, FiniteSets

CONSTANTS Chats, Streams, Desks, Room

VARIABLES
    open,      \* chats are let in
    waiting,   \* the chats in the waiting room
    atDesk,    \* the chats at a desk
    finished,  \* the chats a desk is done with, in time for their client
    status     \* status[r]: what r was told, "none" so far, "gone" if its client left

vars == <<open, waiting, atDesk, finished, status>>

Init ==
    /\ open = FALSE
    /\ waiting = {} /\ atDesk = {} /\ finished = {}
    /\ status = [r \in Chats \cup Streams |-> "none"]

Tells(r, s) == status[r] = "none" /\ status' = [status EXCEPT ![r] = s]

\* Malformed, or for an unknown model.
Decline(r) == Tells(r, "4xx") /\ UNCHANGED <<open, waiting, atDesk, finished>>

Enter(c) ==
    /\ open /\ status[c] = "none"
    /\ Cardinality(waiting) < Room
    /\ c \notin waiting \cup atDesk \cup finished
    /\ waiting' = waiting \cup {c}
    /\ UNCHANGED <<open, atDesk, finished, status>>

TurnAway(c) ==
    /\ c \notin waiting \cup atDesk \cup finished
    /\ \/ open /\ Cardinality(waiting) = Room /\ Tells(c, "429")
       \/ ~open /\ Tells(c, "500")
    /\ UNCHANGED <<open, waiting, atDesk, finished>>

\* A desk is done with its chat, or was free, and calls the next one if there is one.
Call ==
    /\ UNCHANGED <<open, status>>
    /\ Cardinality(atDesk') <= Desks
    /\ \E before \in SUBSET atDesk, next \in SUBSET waiting :
           /\ Cardinality(before) <= 1
           /\ Cardinality(next) <= 1
           /\ atDesk' = (atDesk \ before) \cup next
           /\ waiting' = waiting \ next
           /\ finished' \in {finished, finished \cup {c \in before : status[c] = "none"}}

Answer(c) ==
    /\ c \in finished
    /\ \E s \in {"200", "500", "502"} : Tells(c, s)
    /\ UNCHANGED <<open, waiting, atDesk, finished>>

\* The client of a chat that was let in leaves.  Its place in the room or at the desk stays
\* taken.
Leave(c) == Tells(c, "gone") /\ UNCHANGED <<open, waiting, atDesk, finished>>

Pass(s) == Tells(s, "200") /\ UNCHANGED <<open, waiting, atDesk, finished>>

Open ==
    /\ ~open
    /\ open' = TRUE
    /\ UNCHANGED <<waiting, atDesk, finished, status>>

\* The desks are cleared, one after the other, and then the room.
Clear ==
    /\ open
    /\ \/ \E c \in atDesk : atDesk' = atDesk \ {c} /\ UNCHANGED <<open, waiting>>
       \/ atDesk = {} /\ waiting' = {} /\ open' = FALSE /\ UNCHANGED atDesk
    /\ UNCHANGED <<finished, status>>

Next ==
    \/ \E r \in Chats \cup Streams : Decline(r)
    \/ \E c \in Chats : Enter(c) \/ TurnAway(c) \/ Answer(c) \/ Leave(c)
    \/ Call
    \/ \E s \in Streams : Pass(s)
    \/ Open
    \/ Clear

Safety == Init /\ [][Next]_vars
==============================================================================
