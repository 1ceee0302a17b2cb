------------------------------ MODULE ByteStream ------------------------------
(***************************************************************************)
(* What a caller of a transport may rely on: the bytes the peer sends come *)
(* out of read() in order and none of them is lost, except when the        *)
(* connection breaks: then the end of the stream is cut off.  There are no *)
(* frames and no buffers here.                                             *)
(***************************************************************************)
EXTENDS Naturals, Sequences

VARIABLES
    conn,        \* the connection, counted from 1
    written,     \* bytes the peer has sent on it
    broken,      \* TRUE: nothing that is sent on it arrives any more
    stream,      \* bytes sent, not lost, and not received
    delivered    \* bytes received, over all connections

vars == <<conn, written, broken, stream, delivered>>

Init ==
    /\ conn = 1 /\ written = 0 /\ broken = FALSE
    /\ stream = <<>> /\ delivered = <<>>

(* The bytes of connection c at the positions after p, up to q.            *)
Sent(c, p, q) == [i \in 1 .. q - p |-> [conn |-> c, pos |-> p + i]]

Send ==
    /\ written' > written
    /\ stream' = IF broken THEN stream ELSE stream \o Sent(conn, written, written')
    /\ UNCHANGED <<conn, broken, delivered>>

Receive ==
    /\ \E k \in 1 .. Len(stream) :
        /\ delivered' = delivered \o SubSeq(stream, 1, k)
        /\ stream' = SubSeq(stream, k + 1, Len(stream))
    /\ UNCHANGED <<conn, written, broken>>

Break ==
    /\ ~broken /\ broken' = TRUE
    /\ \E k \in 0 .. Len(stream) : stream' = SubSeq(stream, 1, k)
    /\ UNCHANGED <<conn, written, delivered>>

(* What has arrived of a connection can be received during the next one.   *)
Reconnect ==
    /\ broken /\ broken' = FALSE
    /\ conn' = conn + 1 /\ written' = 0
    /\ UNCHANGED <<stream, delivered>>

Next == Send \/ Receive \/ Break \/ Reconnect

Spec == Init /\ [][Next]_vars
=============================================================================
