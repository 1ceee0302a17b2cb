----------------------------- MODULE SaslFraming -----------------------------
(***************************************************************************)
(* The data phase of TSaslTransport: write() puts a length in front of     *)
(* every buffer, read() takes frames off the connection and keeps what the *)
(* caller has not asked for yet in memBuf_.  shouldWrap_ is never set, so  *)
(* the payload is not wrapped.                                             *)
(*                                                                         *)
(* The peer writes, the transport reads; the other direction is the same   *)
(* code.  Byte p of connection c is [conn |-> c, pos |-> p].  A length is  *)
(* one item on the wire, and a connection that is closed and opened again  *)
(* is a new one.                                                           *)
(***************************************************************************)
EXTENDS Naturals, Sequences

CONSTANTS
    MaxBytes,    \* bytes the peer writes on a connection (a bound)
    MaxFrame,    \* the longest buffer it passes to write()
    MaxRead,     \* the longest read() the protocol layer asks for
    MaxConns,    \* connections, one after the other (a bound)
    DefaultSize  \* DEFAULT_MEM_BUF_SIZE

ASSUME FramingAssumption ==
    /\ MaxBytes \in Nat /\ MaxFrame \in Nat \ {0} /\ MaxRead \in Nat \ {0}
    /\ MaxConns \in Nat \ {0} /\ DefaultSize \in Nat

Bytes == [conn : 1 .. MaxConns, pos : 1 .. MaxBytes]
Lengths == [len : 1 .. MaxFrame]

VARIABLES
    conn,        \* the connection, counted from 1
    written,     \* bytes the peer has written on it
    pending,     \* items written and not flushed
    wire,        \* items flushed and not read
    rpc,         \* where the reader is: "ready", "length", "payload", "failed", "closed"
    want,        \* the len of the read() in progress
    need,        \* the length of the frame it is reading
    unread,      \* memBuf_: bytes buffered and not read
    junk,        \* memBuf_->readEnd(): bytes read that take up space in front
    size,        \* memBuf_: bytes the buffer has been made to hold
    delivered    \* the bytes read() has returned, over all connections

peer   == <<written, pending>>
memBuf == <<unread, junk, size>>
vars   == <<conn, peer, wire, rpc, want, need, memBuf, delivered>>

Init ==
    /\ conn = 1 /\ written = 0 /\ pending = <<>> /\ wire = <<>>
    /\ rpc = "ready" /\ want = 0 /\ need = 0
    /\ unread = <<>> /\ junk = 0 /\ size = DefaultSize
    /\ delivered = <<>>

Least(a, b) == IF a <= b THEN a ELSE b
Most(a, b)  == IF a >= b THEN a ELSE b
First(s, k) == SubSeq(s, 1, k)
Rest(s, k)  == SubSeq(s, k + 1, Len(s))

-----------------------------------------------------------------------------
(* The peer: write(buf, n) is writeLength(n) and the n bytes.              *)
Frame(n) ==
    <<[len |-> n]>> \o [i \in 1 .. n |-> [conn |-> conn, pos |-> written + i]]

Write ==
    /\ rpc # "closed"
    /\ \E n \in 1 .. MaxFrame :
        /\ written + n <= MaxBytes
        /\ written' = written + n
        /\ pending' = pending \o Frame(n)
    /\ UNCHANGED <<conn, wire, rpc, want, need, memBuf, delivered>>

Flush ==
    /\ pending # <<>>
    /\ wire' = wire \o pending /\ pending' = <<>>
    /\ UNCHANGED <<conn, written, rpc, want, need, memBuf, delivered>>

(* A full buffer of the transport below goes out on its own.               *)
Spill ==
    /\ pending # <<>>
    /\ wire' = Append(wire, Head(pending)) /\ pending' = Tail(pending)
    /\ UNCHANGED <<conn, written, rpc, want, need, memBuf, delivered>>

-----------------------------------------------------------------------------
(* Mutants: no shrinkBuffer(); what the caller did not ask for is dropped. *)
NeverShrinks(readEnd) == FALSE

TakeAndDrop(buffered, k) ==
    /\ delivered' = delivered \o First(buffered, k)
    /\ unread' = <<>> /\ junk' = 0
    /\ size' = Most(size, junk + Len(buffered))

(* memBuf_->read(buf, k) and the shrinkBuffer() after it: readEnd() resets *)
(* the pointers of a buffer that is all read, and one that had too much    *)
(* junk goes back to the default size.                                     *)
TooMuchJunk(readEnd) == readEnd > DefaultSize

TakeBuffered(buffered, k) ==
    LET readEnd == junk + k
        rest    == Rest(buffered, k)
    IN  /\ delivered' = delivered \o First(buffered, k)
        /\ unread' = rest
        /\ junk' = IF rest = <<>> THEN 0 ELSE readEnd
        /\ size' = IF rest = <<>> /\ TooMuchJunk(readEnd) THEN DefaultSize
                   ELSE Most(size, junk + Len(buffered))

(* read(buf, len) finds bytes in the buffer.                               *)
ReadBuffered ==
    /\ rpc = "ready" /\ unread # <<>>
    /\ \E len \in 1 .. MaxRead : TakeBuffered(unread, Least(len, Len(unread)))
    /\ UNCHANGED <<conn, peer, wire, rpc, want, need>>

(* It does not, and turns to the connection: readLength() waits there.     *)
ReadMisses ==
    /\ rpc = "ready" /\ unread = <<>>
    /\ \E len \in 1 .. MaxRead : want' = len
    /\ rpc' = "length"
    /\ UNCHANGED <<conn, peer, wire, need, memBuf, delivered>>

ReadLength ==
    /\ rpc = "length" /\ wire # <<>>
    /\ Head(wire) \in Lengths
    /\ need' = Head(wire).len /\ wire' = Tail(wire)
    /\ rpc' = "payload"
    /\ UNCHANGED <<conn, peer, want, memBuf, delivered>>

Payload == First(wire, need)

(* The fast path: the caller asked for exactly one frame.                  *)
IsWholeFrame == want = need

ReadWhole ==
    /\ rpc = "payload" /\ Len(wire) >= need /\ IsWholeFrame
    /\ delivered' = delivered \o Payload
    /\ wire' = Rest(wire, need)
    /\ rpc' = "ready"
    /\ UNCHANGED <<conn, peer, want, need, memBuf>>

ReadPart ==
    /\ rpc = "payload" /\ Len(wire) >= need /\ ~IsWholeFrame
    /\ wire' = Rest(wire, need)
    /\ TakeBuffered(unread \o Payload, Least(want, need))
    /\ rpc' = "ready"
    /\ UNCHANGED <<conn, peer, want, need>>

(* readAll() throws, having taken a part of what it was asked for; the     *)
(* caller does not go on with a connection that has failed.                *)
Asked == IF rpc = "length" THEN 1 ELSE need

ReadFails ==
    /\ rpc \in {"length", "payload"}
    /\ \E k \in 0 .. Least(Asked, Len(wire)) : wire' = Rest(wire, k)
    /\ rpc' = "failed"
    /\ UNCHANGED <<conn, peer, want, need, memBuf, delivered>>

-----------------------------------------------------------------------------
(* close() and a later open(): memBuf_ is not touched.                     *)
Close ==
    /\ rpc \in {"ready", "failed"}
    /\ rpc' = "closed"
    /\ wire' = <<>> /\ pending' = <<>>
    /\ UNCHANGED <<conn, written, want, need, memBuf, delivered>>

Reopen ==
    /\ rpc = "closed" /\ conn < MaxConns
    /\ conn' = conn + 1
    /\ written' = 0
    /\ rpc' = "ready"
    /\ UNCHANGED <<pending, wire, want, need, memBuf, delivered>>

Finished == rpc = "closed" /\ conn = MaxConns /\ UNCHANGED vars

ReadStep == ReadBuffered \/ ReadMisses \/ ReadLength \/ ReadWhole \/ ReadPart

Next ==
    \/ Write \/ Flush \/ Spill
    \/ ReadStep \/ ReadFails
    \/ Close \/ Reopen \/ Finished

Spec == Init /\ [][Next]_vars

(* A caller that goes on reading, and a peer that flushes what it wrote    *)
(* (TProtocol flushes at the end of a message).                            *)
FairSpec == Spec /\ WF_vars(ReadStep) /\ WF_vars(Flush)

-----------------------------------------------------------------------------
(* The types of the variables.                                             *)
TypeOK ==
    /\ conn \in 1 .. MaxConns /\ written \in 0 .. MaxBytes
    /\ pending \in Seq(Bytes \cup Lengths) /\ wire \in Seq(Bytes \cup Lengths)
    /\ rpc \in {"ready", "length", "payload", "failed", "closed"}
    /\ want \in 0 .. MaxRead /\ need \in 0 .. MaxFrame
    /\ unread \in Seq(Bytes) /\ delivered \in Seq(Bytes)
    /\ junk \in Nat /\ size \in Nat

(* A byte comes right after the one before it on its connection, or is the *)
(* first of a connection of which nothing has been returned before.        *)
FollowsAt(s, i) ==
    IF i > 1 /\ s[i - 1].conn = s[i].conn
    THEN s[i].pos = s[i - 1].pos + 1
    ELSE s[i].pos = 1 /\ \A j \in 1 .. i - 1 : s[j].conn < s[i].conn

(* What read() has returned of a connection is what the peer wrote on it,  *)
(* in order, without a gap or a repetition, and before anything of a later *)
(* connection, however the frames and the reads were cut, and wherever a   *)
(* read failed.                                                            *)
ReadsInOrder == \A i \in 1 .. Len(delivered) : FollowsAt(delivered, i)

(* What has arrived, over all connections; how far it goes on connection c.*)
Received == delivered \o unread

LastPos(s, c) ==
    IF s # <<>> /\ s[Len(s)].conn = c THEN s[Len(s)].pos ELSE 0

(* Frames and buffers do not show: the transport is a stream of bytes, of  *)
(* which those in memBuf_ come first and those the peer has written since  *)
(* follow, until a read fails or the connection is closed; what is in      *)
(* memBuf_ then survives that.                                             *)
Broken == rpc \in {"failed", "closed"}

Run(c, p, q) == [i \in 1 .. q - p |-> [conn |-> c, pos |-> p + i]]
Coming == Run(conn, LastPos(Received, conn), written)

Flow == IF Broken THEN unread ELSE unread \o Coming

Stream == INSTANCE ByteStream WITH broken <- Broken, stream <- Flow

IsByteStream == Stream!Spec

(* TSaslTransport.cpp:153-159: a buffer that has been read to the end has  *)
(* the default size at most and no consumed bytes in front, so one long    *)
(* frame does not cost memory for the rest of the connection.              *)
DrainedIsSmall == unread = <<>> => size <= DefaultSize /\ junk = 0

(* A caller that keeps reading gets every byte that was written, unless    *)
(* the connection fails or is closed.                                      *)
Arrived(p) == \E i \in 1 .. Len(delivered) : delivered[i] = [conn |-> conn, pos |-> p]

AllArrives ==
    \A p \in 1 .. MaxBytes :
        written >= p ~> Arrived(p) \/ rpc \in {"failed", "closed"}
=============================================================================
