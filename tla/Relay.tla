-------------------------------- MODULE Relay --------------------------------
(***************************************************************************)
(* What the forwarding of vehicle packets amounts to, seen from outside    *)
(* and whatever the threads, queues and connections do: a packet is        *)
(* accepted from a vehicle, it may fall late (find its way into the        *)
(* reissue queue), and it is forwarded at most once.  What is forwarded    *)
(* late carries the reissue command if it came as a realtime upload, what  *)
(* is not keeps its command; and what is never late goes out in the order  *)
(* of arrival on each uploader's channel.                                  *)
(***************************************************************************)
EXTENDS Naturals, Sequences

CONSTANTS
    Uploaders,
    Cmds,           \* the commands a vehicle packet may carry
    realtimeUpload, \* enumCmdCode::realtimeUpload
    reissueUpload   \* enumCmdCode::reissueUpload

VARIABLES
    arrived,    \* the command each packet arrived with, by arrival
    late,       \* the packets, by number of arrival, that have been in the reissue queue
    sent        \* what was written to the public platform: packet, command, uploader

vars == <<arrived, late, sent>>

Stamp(i) == IF i \in late /\ arrived[i] = realtimeUpload THEN reissueUpload ELSE arrived[i]

Forwarded(i) == \E k \in DOMAIN sent : sent[k].id = i

Init ==
    /\ arrived = <<>>
    /\ late = {}
    /\ sent = <<>>

Accept(c) ==
    /\ arrived' = Append(arrived, c)
    /\ UNCHANGED <<late, sent>>

FallLate(i) ==
    /\ ~Forwarded(i)
    /\ late' = late \cup {i}
    /\ UNCHANGED <<arrived, sent>>

Forward(u, i) ==
    /\ ~Forwarded(i)
    /\ \A k \in DOMAIN sent :
           sent[k].by = u /\ sent[k].id \notin late /\ i \notin late => sent[k].id < i
    /\ sent' = Append(sent, [id |-> i, cmd |-> Stamp(i), by |-> u])
    /\ UNCHANGED <<arrived, late>>

Next ==
    \/ \E c \in Cmds : Accept(c)
    \/ \E i \in DOMAIN arrived : FallLate(i) \/ \E u \in Uploaders : Forward(u, i)

Spec == Init /\ [][Next]_vars
=============================================================================
