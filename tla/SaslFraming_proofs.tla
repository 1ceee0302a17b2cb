-------------------------- MODULE SaslFraming_proofs --------------------------
(***************************************************************************)
(* Proofs about the data phase, for any number of connections, lengths of  *)
(* frames and of reads, and any default size of the buffer.  What was      *)
(* returned and buffered, the rest of the frame being read and the frames  *)
(* in transit are, in this order, what the peer wrote.                     *)
(***************************************************************************)
EXTENDS SaslFraming, SequenceTheorems, TLAPS

Items == Bytes \cup Lengths

(* What is on its way: the reader takes it from the wire.                  *)
InTransit == wire \o pending

(* The bytes that remain of a frame whose length has been read.            *)
Ahead == IF rpc = "payload" THEN need ELSE 0

(* w is the last a bytes of a frame, then whole frames.                    *)
FrameAt(w, i, m) ==
    /\ i + m <= Len(w)
    /\ \A j \in i + 1 .. i + m : w[j] \in Bytes
    /\ i + m < Len(w) => w[i + m + 1] \in Lengths

WellFramed(w, a) ==
    /\ a <= Len(w)
    /\ \A i \in 1 .. a : w[i] \in Bytes
    /\ a < Len(w) => w[a + 1] \in Lengths
    /\ \A i \in 1 .. Len(w) : w[i] \in Lengths => FrameAt(w, i, w[i].len)

(* The bytes of w are those of connection c after the first t, up to n: in *)
(* a frame one follows the other, and so they do from a frame to the next. *)
WithinFrames(w) ==
    \A i \in 1 .. Len(w) - 1 :
        w[i] \in Bytes /\ w[i + 1] \in Bytes => w[i + 1].pos = w[i].pos + 1

AcrossFrames(w) ==
    \A i \in 1 .. Len(w) - 2 :
        w[i] \in Bytes /\ w[i + 1] \in Lengths => w[i + 2].pos = w[i].pos + 1

InOrder(w, a, c, t, n) ==
    /\ \A i \in 1 .. Len(w) : w[i] \in Bytes => w[i].conn = c
    /\ WithinFrames(w) /\ AcrossFrames(w)
    /\ IF w = <<>> THEN t = n
       ELSE /\ w[Len(w)] \in Bytes /\ w[Len(w)].pos = n
            /\ w[IF a > 0 THEN 1 ELSE 2].pos = t + 1

(* Where in the stream they are: the first a of w follow t, those of one   *)
(* frame are numbered one after the other, and none is beyond n.           *)
Placed(w, a, t, n) ==
    /\ \A i \in 1 .. Len(w) : w[i] \in Bytes => w[i].pos <= n
    /\ \A j \in 1 .. a : w[j].pos = t + j
    /\ \A i \in 1 .. Len(w) : w[i] \in Lengths =>
            \A j \in 1 .. w[i].len : w[i + j].pos = w[i + 1].pos + j - 1

(* The bytes of s are of connections up to c, each in order.               *)
Returned(s, c) ==
    /\ \A i \in 1 .. Len(s) : FollowsAt(s, i) /\ s[i].conn <= c
    /\ \A i, j \in 1 .. Len(s) : i < j => s[i].conn <= s[j].conn

-----------------------------------------------------------------------------
TypeInv ==
    /\ conn \in 1 .. MaxConns /\ written \in 0 .. MaxBytes
    /\ pending \in Seq(Items) /\ wire \in Seq(Items)
    /\ rpc \in {"ready", "length", "payload", "failed", "closed"}
    /\ want \in Nat /\ need \in Nat
    /\ unread \in Seq(Bytes) /\ delivered \in Seq(Bytes)
    /\ junk \in Nat /\ size \in Nat

(* Where the reader is says what it holds.                                 *)
ReaderInv ==
    /\ rpc \in {"length", "payload"} => unread = <<>> /\ want > 0
    /\ rpc = "payload" => need > 0
    /\ rpc = "closed" => wire = <<>> /\ pending = <<>>

(* As long as no read has failed, the connection can be parsed.            *)
TransitInv ==
    rpc \in {"ready", "length", "payload"} =>
        /\ WellFramed(InTransit, Ahead)
        /\ InOrder(InTransit, Ahead, conn, LastPos(Received, conn), written)
        /\ Placed(InTransit, Ahead, LastPos(Received, conn), written)

ReceivedInv == Returned(Received, conn)

(* memBuf_ has grown no further than what it holds, or is as it was made.  *)
BufferInv ==
    /\ unread = <<>> => junk = 0
    /\ size <= Most(DefaultSize, junk + Len(unread))

FramingInv == TypeInv /\ ReaderInv /\ TransitInv /\ ReceivedInv /\ BufferInv

-----------------------------------------------------------------------------
(* What the operators on sequences of items do.                            *)
LEMMA Disjoint ==
    /\ \A x \in Bytes : x \notin Lengths /\ x.conn \in Nat /\ x.pos \in Nat
    /\ \A x \in Lengths : x.len \in Nat \ {0} /\ x \notin Bytes
BY FramingAssumption DEF Bytes, Lengths

LEMMA RestProperties ==
    ASSUME NEW S, NEW s \in Seq(S), NEW k \in 0 .. Len(s)
    PROVE  /\ Rest(s, k) \in Seq(S) /\ Len(Rest(s, k)) = Len(s) - k
           /\ \A i \in 1 .. Len(s) - k : Rest(s, k)[i] = s[i + k]
           /\ First(s, k) \in Seq(S) /\ Len(First(s, k)) = k
           /\ \A i \in 1 .. k : First(s, k)[i] = s[i]
BY DEF Rest, First

LEMMA Concat ==
    ASSUME NEW S, NEW a \in Seq(S), NEW b \in Seq(S), NEW u, u = a \o b
    PROVE  /\ u \in Seq(S) /\ Len(u) = Len(a) + Len(b)
           /\ \A i \in 1 .. Len(a) : u[i] = a[i]
           /\ \A i \in 1 .. Len(b) : u[Len(a) + i] = b[i]
           /\ \A i \in Len(a) + 1 .. Len(u) : u[i] = b[i - Len(a)]
<1>1. /\ a \o b \in Seq(S) /\ Len(a \o b) = Len(a) + Len(b)
      /\ \A i \in 1 .. Len(a) + Len(b) : (a \o b)[i] =
            IF i <= Len(a) THEN a[i] ELSE b[i - Len(a)]
  BY ConcatProperties
<1>2. /\ u \in Seq(S) /\ Len(u) = Len(a) + Len(b)
      /\ \A i \in 1 .. Len(u) : u[i] = IF i <= Len(a) THEN a[i] ELSE b[i - Len(a)]
  BY <1>1
<1>3. ASSUME NEW i \in 1 .. Len(a) PROVE u[i] = a[i]
  BY <1>2
<1>4. ASSUME NEW i \in Len(a) + 1 .. Len(u) PROVE u[i] = b[i - Len(a)]
  BY <1>2
<1>5. ASSUME NEW i \in 1 .. Len(b) PROVE u[Len(a) + i] = b[i]
  <2>1. Len(a) + i \in Len(a) + 1 .. Len(u) /\ (Len(a) + i) - Len(a) = i
    BY <1>2
  <2> QED
    BY <1>4, <2>1
<1> QED
  BY <1>2, <1>3, <1>4, <1>5

LEMMA TakenFromWire ==
    ASSUME wire \in Seq(Items), pending \in Seq(Items), NEW k \in Nat, k <= Len(wire)
    PROVE  /\ InTransit \in Seq(Items) /\ Rest(wire, k) \o pending \in Seq(Items)
           /\ Len(Rest(wire, k) \o pending) = Len(InTransit) - k
           /\ \A i \in 1 .. Len(InTransit) - k :
                    (Rest(wire, k) \o pending)[i] = InTransit[i + k]
           /\ \A i \in 1 .. k : First(wire, k)[i] = InTransit[i]
           /\ Len(InTransit) = Len(wire) + Len(pending)
<1>1. /\ Rest(wire, k) \in Seq(Items) /\ Len(Rest(wire, k)) = Len(wire) - k
      /\ \A i \in 1 .. Len(wire) - k : Rest(wire, k)[i] = wire[i + k]
      /\ \A i \in 1 .. k : First(wire, k)[i] = wire[i]
  <2>1. k \in 0 .. Len(wire)
    OBVIOUS
  <2> QED
    BY <2>1, RestProperties
<1>2. PICK r \in Seq(Items) : r = Rest(wire, k)
  BY <1>1
<1>3a. PICK u : u = wire \o pending
  OBVIOUS
<1>3. /\ u \in Seq(Items) /\ Len(u) = Len(wire) + Len(pending)
      /\ \A i \in 1 .. Len(wire) : u[i] = wire[i]
      /\ \A i \in 1 .. Len(pending) : u[Len(wire) + i] = pending[i]
      /\ \A i \in Len(wire) + 1 .. Len(u) : u[i] = pending[i - Len(wire)]
  BY <1>3a, Concat
<1>4a. PICK v : v = r \o pending
  OBVIOUS
<1>4. /\ v \in Seq(Items) /\ Len(v) = Len(r) + Len(pending)
      /\ \A i \in 1 .. Len(r) : v[i] = r[i]
      /\ \A i \in 1 .. Len(pending) : v[Len(r) + i] = pending[i]
      /\ \A i \in Len(r) + 1 .. Len(v) : v[i] = pending[i - Len(r)]
  BY <1>4a, Concat
<1>5. Len(r) = Len(wire) - k /\ Len(v) = Len(u) - k
  BY <1>1, <1>2, <1>3, <1>4
<1>6. ASSUME NEW i \in 1 .. Len(u) - k PROVE v[i] = u[i + k]
  <2>1. CASE i \in 1 .. Len(r)
    <3>1. i + k \in 1 .. Len(wire)
      BY <1>5, <2>1
    <3> QED
      BY <1>1, <1>2, <1>3, <1>4, <1>5, <2>1, <3>1
  <2>2. CASE i \in Len(r) + 1 .. Len(v)
    <3>1. i + k \in Len(wire) + 1 .. Len(u) /\ (i + k) - Len(wire) = i - Len(r)
      BY <1>5, <2>2
    <3> QED
      BY <1>3, <1>4, <2>2, <3>1
  <2> QED
    BY <1>5, <2>1, <2>2
<1>7. ASSUME NEW i \in 1 .. k PROVE First(wire, k)[i] = u[i]
  <2>1. i \in 1 .. Len(wire)
    OBVIOUS
  <2> QED
    BY <1>1, <1>3, <2>1
<1>8. InTransit = u /\ Rest(wire, k) \o pending = v
  BY <1>2, <1>3a, <1>4a DEF InTransit
<1> QED
  BY <1>3, <1>4, <1>5, <1>6, <1>7, <1>8

(* A length that is read, and a frame that is taken.                       *)
LEMMA LengthRead ==
    ASSUME NEW w \in Seq(Items), NEW v \in Seq(Items), w # <<>>,
           Len(v) = Len(w) - 1, \A i \in 1 .. Len(v) : v[i] = w[i + 1],
           WellFramed(w, 0), NEW c, NEW t, NEW n, InOrder(w, 0, c, t, n)
    PROVE  \E m \in Nat : /\ m > 0 /\ w[1].len = m
                          /\ WellFramed(v, m) /\ InOrder(v, m, c, t, n)
<1>1. PICK m \in Nat : m > 0 /\ w[1].len = m
  BY Disjoint DEF WellFramed
<1>2. FrameAt(w, 1, m)
  BY <1>1 DEF WellFramed
<1>3. WellFramed(v, m)
  <2>1. /\ m <= Len(v)
        /\ \A i \in 1 .. m : v[i] \in Bytes
        /\ m < Len(v) => v[m + 1] \in Lengths
    BY <1>2 DEF FrameAt
  <2>2. ASSUME NEW i \in 1 .. Len(v), v[i] \in Lengths
        PROVE  FrameAt(v, i, v[i].len)
    <3>1. PICK l \in Nat : v[i].len = l
      BY <2>2, Disjoint
    <3>2. i + 1 \in 1 .. Len(w) /\ v[i] = w[i + 1]
      OBVIOUS
    <3>3. FrameAt(w, i + 1, l)
      BY <2>2, <3>1, <3>2 DEF WellFramed
    <3>4. ASSUME NEW j \in i + 1 .. i + l
          PROVE  v[j] \in Bytes
      <4>1. j + 1 \in (i + 1) + 1 .. (i + 1) + l /\ j \in 1 .. Len(v)
        BY <3>3 DEF FrameAt
      <4> QED
        BY <3>3, <4>1 DEF FrameAt
    <3>5. ASSUME i + l < Len(v)
          PROVE  v[i + l + 1] \in Lengths
      <4>1. (i + 1) + l + 1 = (i + l + 1) + 1 /\ i + l + 1 \in 1 .. Len(v)
        BY <3>5
      <4> QED
        BY <3>3, <3>5, <4>1 DEF FrameAt
    <3> QED
      BY <3>1, <3>3, <3>4, <3>5 DEF FrameAt
  <2> QED
    BY <2>1, <2>2 DEF WellFramed
<1>4. InOrder(v, m, c, t, n)
  <2>1. /\ v # <<>> /\ v[Len(v)] = w[Len(w)] /\ v[1] = w[2]
    BY <1>1, <1>2 DEF FrameAt
  <2>2. \A i \in 1 .. Len(v) : v[i] \in Bytes => v[i].conn = c
    BY DEF InOrder
  <2>3. ASSUME NEW i \in 1 .. Len(v) - 1, v[i] \in Bytes, v[i + 1] \in Bytes
        PROVE  v[i + 1].pos = v[i].pos + 1
    <3>1. i + 1 \in 1 .. Len(w) - 1 /\ v[i] = w[i + 1] /\ v[i + 1] = w[(i + 1) + 1]
      OBVIOUS
    <3> QED
      BY <2>3, <3>1 DEF InOrder, WithinFrames
  <2>4. ASSUME NEW i \in 1 .. Len(v) - 2, v[i] \in Bytes, v[i + 1] \in Lengths
        PROVE  v[i + 2].pos = v[i].pos + 1
    <3>1. i + 1 \in 1 .. Len(w) - 2 /\ v[i] = w[i + 1] /\ v[i + 1] = w[(i + 1) + 1]
          /\ v[i + 2] = w[(i + 1) + 2]
      BY SMTT(30)
    <3> QED
      BY <2>4, <3>1 DEF InOrder, AcrossFrames
  <2> QED
    BY <1>1, <2>1, <2>2, <2>3, <2>4 DEF InOrder, WithinFrames, AcrossFrames
<1> QED
  BY <1>1, <1>3, <1>4

LEMMA FrameTaken ==
    ASSUME NEW w \in Seq(Items), NEW v \in Seq(Items), NEW a \in Nat, a > 0,
           WellFramed(w, a), Len(v) = Len(w) - a, \A i \in 1 .. Len(v) : v[i] = w[i + a],
           NEW c, NEW t, NEW n, InOrder(w, a, c, t, n)
    PROVE  WellFramed(v, 0) /\ InOrder(v, 0, c, w[a].pos, n)
<1>1. a <= Len(w) /\ \A i \in 1 .. a : w[i] \in Bytes
  BY DEF WellFramed
<1>2. WellFramed(v, 0)
  <2>1. ASSUME NEW i \in 1 .. Len(v), v[i] \in Lengths
        PROVE  FrameAt(v, i, v[i].len)
    <3>1. PICK l \in Nat : v[i].len = l
      BY <2>1, Disjoint
    <3>2. i + a \in 1 .. Len(w) /\ v[i] = w[i + a]
      OBVIOUS
    <3>3. FrameAt(w, i + a, l)
      BY <2>1, <3>1, <3>2 DEF WellFramed
    <3>4. ASSUME NEW j \in i + 1 .. i + l
          PROVE  v[j] \in Bytes
      <4>1. j + a \in (i + a) + 1 .. (i + a) + l /\ j \in 1 .. Len(v)
        BY <3>3 DEF FrameAt
      <4> QED
        BY <3>3, <4>1 DEF FrameAt
    <3>5. ASSUME i + l < Len(v)
          PROVE  v[i + l + 1] \in Lengths
      <4>1. (i + a) + l + 1 = (i + l + 1) + a /\ i + l + 1 \in 1 .. Len(v)
        BY <3>5
      <4> QED
        BY <3>3, <3>5, <4>1 DEF FrameAt
    <3> QED
      BY <3>1, <3>3, <3>4, <3>5 DEF FrameAt
  <2>2. 0 < Len(v) => v[1] = w[a + 1] /\ v[1] \in Lengths
    BY <1>1 DEF WellFramed
  <2> QED
    BY <2>1, <2>2 DEF WellFramed
<1>3. InOrder(v, 0, c, w[a].pos, n)
  <2>1. /\ \A i \in 1 .. Len(v) : v[i] \in Bytes => v[i].conn = c
        /\ WithinFrames(v) /\ AcrossFrames(v)
    <3>1. \A i \in 1 .. Len(v) : v[i] \in Bytes => v[i].conn = c
      BY DEF InOrder
    <3>2. ASSUME NEW i \in 1 .. Len(v) - 1, v[i] \in Bytes, v[i + 1] \in Bytes
          PROVE  v[i + 1].pos = v[i].pos + 1
      <4>1. i + a \in 1 .. Len(w) - 1 /\ v[i] = w[i + a] /\ v[i + 1] = w[(i + a) + 1]
        OBVIOUS
      <4> QED
        BY <3>2, <4>1 DEF InOrder, WithinFrames
    <3>3. ASSUME NEW i \in 1 .. Len(v) - 2, v[i] \in Bytes, v[i + 1] \in Lengths
          PROVE  v[i + 2].pos = v[i].pos + 1
      <4>1. i + a \in 1 .. Len(w) - 2 /\ v[i] = w[i + a]
        OBVIOUS
      <4>2. v[i + 1] = w[(i + 1) + a] /\ (i + 1) + a = (i + a) + 1
        OBVIOUS
      <4>3. v[i + 2] = w[(i + 2) + a] /\ (i + 2) + a = (i + a) + 2
        OBVIOUS
      <4> QED
        BY <3>3, <4>1, <4>2, <4>3 DEF InOrder, AcrossFrames
    <3> QED
      BY <3>1, <3>2, <3>3 DEF WithinFrames, AcrossFrames
  <2>2. CASE v = <<>>
    BY <1>1, <2>1, <2>2 DEF InOrder
  <2>3. CASE v # <<>>
    <3>1. Len(v) > 0 /\ v[Len(v)] = w[Len(w)] /\ w[Len(w)] \in Bytes /\ w[Len(w)].pos = n
      BY <1>1, <2>3 DEF InOrder
    <3>2. w[a + 1] \in Lengths /\ a + 1 < Len(w)
      <4>1. w[a + 1] \in Lengths
        BY <3>1 DEF WellFramed
      <4>2. PICK l \in Nat : l > 0 /\ w[a + 1].len = l
        BY <4>1, Disjoint
      <4>3. FrameAt(w, a + 1, l)
        BY <3>1, <4>1, <4>2 DEF WellFramed
      <4> QED
        BY <4>1, <4>2, <4>3 DEF FrameAt
    <3>3. w[a + 2].pos = w[a].pos + 1 /\ v[2] = w[a + 2]
      <4>1. a \in 1 .. Len(w) - 2 /\ w[a] \in Bytes /\ w[a + 1] \in Lengths /\ v[2] = w[a + 2]
        BY <1>1, <3>2
      <4> QED
        BY <4>1 DEF InOrder, AcrossFrames
    <3> QED
      BY <2>1, <2>3, <3>1, <3>3 DEF InOrder
  <2> QED
    BY <2>2, <2>3
<1> QED
  BY <1>2, <1>3

LEMMA FrameBytes ==
    ASSUME NEW w \in Seq(Items), NEW a \in Nat, a > 0, WellFramed(w, a),
           NEW c, NEW t, NEW n, InOrder(w, a, c, t, n)
    PROVE  /\ \A i \in 1 .. a : w[i] \in Bytes /\ w[i].conn = c
           /\ \A i \in 1 .. a - 1 : w[i + 1].pos = w[i].pos + 1
           /\ w[1].pos = t + 1
<1>1. a <= Len(w) /\ \A i \in 1 .. a : w[i] \in Bytes
  BY DEF WellFramed
<1> QED
  BY <1>1 DEF InOrder, WithinFrames

(* A frame that is written: a length and the next m bytes.                 *)
IsFrame(f, c, n, m) ==
    /\ Len(f) = m + 1 /\ f[1] \in Lengths /\ f[1].len = m
    /\ \A i \in 2 .. m + 1 : f[i] \in Bytes /\ f[i].conn = c /\ f[i].pos = n + i - 1

LEMMA FrameWritten ==
    ASSUME NEW w \in Seq(Items), NEW f \in Seq(Items), NEW a \in Nat,
           NEW c, NEW t \in Nat, NEW n \in Nat, NEW m \in Nat, m > 0,
           IsFrame(f, c, n, m), WellFramed(w, a), InOrder(w, a, c, t, n)
    PROVE  WellFramed(w \o f, a) /\ InOrder(w \o f, a, c, t, n + m)
<1>0a. PICK u : u = w \o f
  OBVIOUS
<1>0. /\ u \in Seq(Items) /\ Len(u) = Len(w) + Len(f)
      /\ \A i \in 1 .. Len(w) : u[i] = w[i]
      /\ \A i \in 1 .. Len(f) : u[Len(w) + i] = f[i]
      /\ \A i \in Len(w) + 1 .. Len(u) : u[i] = f[i - Len(w)]
  BY <1>0a, Concat
<1>1. /\ u = w \o f /\ Len(u) = Len(w) + m + 1
      /\ \A i \in 1 .. Len(w) : u[i] = w[i]
  BY <1>0a, <1>0 DEF IsFrame
<1>2. u[Len(w) + 1] = f[1] /\ \A i \in 2 .. m + 1 : u[Len(w) + i] = f[i]
  BY <1>0 DEF IsFrame
<1>3. /\ u[Len(w) + 1] \in Lengths /\ u[Len(w) + 1].len = m /\ u[Len(w) + 1] \notin Bytes
      /\ \A i \in Len(w) + 2 .. Len(u) :
            u[i] \in Bytes /\ u[i].conn = c /\ u[i].pos = n + (i - Len(w)) - 1
      /\ \A i \in Len(w) + 2 .. Len(u) : u[i] \notin Lengths
  <2>1. ASSUME NEW i \in Len(w) + 2 .. Len(u)
        PROVE  u[i] \in Bytes /\ u[i].conn = c /\ u[i].pos = n + (i - Len(w)) - 1
    <3>1. i - Len(w) \in 2 .. m + 1 /\ Len(w) + (i - Len(w)) = i
      BY <1>1
    <3> QED
      BY <1>2, <3>1 DEF IsFrame
  <2> QED
    BY <1>2, <2>1, Disjoint DEF IsFrame
<1>4. WellFramed(u, a)
  <2>1. /\ a <= Len(u)
        /\ \A i \in 1 .. a : u[i] \in Bytes
        /\ a < Len(u) => u[a + 1] \in Lengths
    <3>1. a <= Len(w) /\ \A i \in 1 .. a : u[i] \in Bytes
      BY <1>1 DEF WellFramed
    <3>2. CASE a < Len(w)
      BY <1>1, <3>1, <3>2 DEF WellFramed
    <3>3. CASE a = Len(w)
      BY <1>1, <1>3, <3>1, <3>3
    <3> QED
      BY <1>1, <3>1, <3>2, <3>3
  <2>2. ASSUME NEW i \in 1 .. Len(u), u[i] \in Lengths
        PROVE  FrameAt(u, i, u[i].len)
    <3>1. CASE i \in 1 .. Len(w)
      <4>1. PICK l \in Nat : u[i].len = l
        BY <2>2, Disjoint
      <4>2. FrameAt(w, i, l)
        BY <1>1, <2>2, <3>1, <4>1 DEF WellFramed
      <4>3. i + l < Len(w) => u[i + l + 1] \in Lengths
        <5>1. ASSUME i + l < Len(w) PROVE i + l + 1 \in 1 .. Len(w)
          BY <5>1
        <5> QED
          BY <1>1, <4>2, <5>1 DEF FrameAt
      <4>4. i + l = Len(w) => u[i + l + 1] \in Lengths
        BY <1>3
      <4>5. i + l <= Len(w) /\ \A j \in i + 1 .. i + l : j \in 1 .. Len(w) /\ u[j] \in Bytes
        BY <1>1, <4>2 DEF FrameAt
      <4>6. FrameAt(u, i, l)
        <5>1. i + l <= Len(u) /\ (i + l < Len(w) \/ i + l = Len(w))
          BY <1>0, <1>1, <4>5
        <5> QED
          BY <4>3, <4>4, <4>5, <5>1 DEF FrameAt
      <4> QED
        BY <4>1, <4>6
    <3>2. CASE i = Len(w) + 1
      <4>1. FrameAt(u, Len(w) + 1, m)
        BY <1>1, <1>3, SMTT(30) DEF FrameAt
      <4> QED
        BY <1>3, <3>2, <4>1
    <3> QED
      BY <1>1, <1>3, <2>2, <3>1, <3>2
  <2> QED
    BY <2>1, <2>2 DEF WellFramed
<1>5. \A i \in 1 .. Len(u) : u[i] \in Bytes => u[i].conn = c
  <2> SUFFICES ASSUME NEW i \in 1 .. Len(u), u[i] \in Bytes PROVE u[i].conn = c
    OBVIOUS
  <2>1. CASE i \in 1 .. Len(w)
    BY <1>1, <2>1 DEF InOrder
  <2> QED
    BY <1>1, <1>3, <2>1
<1>6. w # <<>> => w[Len(w)] \in Bytes /\ w[Len(w)].pos = n
  BY DEF InOrder
<1>7. ASSUME NEW i \in 1 .. Len(u) - 1, u[i] \in Bytes, u[i + 1] \in Bytes
      PROVE  u[i + 1].pos = u[i].pos + 1
  <2>1. CASE i \in 1 .. Len(w) - 1
    <3>1. i + 1 \in 1 .. Len(w) /\ u[i] = w[i] /\ u[i + 1] = w[i + 1]
      BY <1>1, <2>1
    <3> QED
      BY <1>7, <2>1, <3>1 DEF InOrder, WithinFrames
  <2>2. CASE i \in Len(w) + 2 .. Len(u)
    <3>1. i + 1 \in Len(w) + 2 .. Len(u) /\ (i + 1) - Len(w) - 1 = (i - Len(w) - 1) + 1
      BY <2>2
    <3>2. u[i].pos = n + (i - Len(w)) - 1
      BY <1>3, <2>2
    <3>3. u[i + 1].pos = n + ((i + 1) - Len(w)) - 1
      BY <1>3, <3>1
    <3> QED
      BY <3>1, <3>2, <3>3
  <2>3. i # Len(w) /\ i # Len(w) + 1
    BY <1>3, <1>7
  <2>4. i \in 1 .. Len(w) - 1 \/ i \in Len(w) + 2 .. Len(u)
    <3>1. Len(u) \in Nat /\ Len(w) \in Nat
      OBVIOUS
    <3> QED
      BY <2>3, <3>1
  <2> QED
    BY <2>1, <2>2, <2>4
<1>8. ASSUME NEW i \in 1 .. Len(u) - 2, u[i] \in Bytes, u[i + 1] \in Lengths
      PROVE  u[i + 2].pos = u[i].pos + 1
  <2>1. CASE i \in 1 .. Len(w) - 2
    <3>1. i + 1 \in 1 .. Len(w) /\ i + 2 \in 1 .. Len(w)
          /\ u[i] = w[i] /\ u[i + 1] = w[i + 1] /\ u[i + 2] = w[i + 2]
      BY <1>1, <2>1
    <3> QED
      BY <1>8, <2>1, <3>1 DEF InOrder, AcrossFrames
  <2>2. CASE i = Len(w)
    <3>1. i + 2 \in Len(w) + 2 .. Len(u) /\ n + ((i + 2) - Len(w)) - 1 = n + 1
      BY <1>1, <2>2
    <3>2. u[i + 2].pos = n + ((i + 2) - Len(w)) - 1
      BY <1>3, <3>1
    <3>3. u[i].pos = n
      BY <1>1, <1>6, <2>2
    <3> QED
      BY <3>1, <3>2, <3>3
  <2>3. i + 1 \notin Len(w) + 2 .. Len(u)
    BY <1>3, <1>8
  <2>4. ASSUME i + 1 = Len(w)
        PROVE  FALSE
    <3>1. u[i + 1] = w[Len(w)] /\ w # <<>>
      BY <1>1, <2>4
    <3> QED
      BY <1>6, <1>8, <3>1, Disjoint
  <2>5. i \in 1 .. Len(w) - 2 \/ i = Len(w)
    BY <1>1, <2>3, <2>4
  <2> QED
    BY <2>1, <2>2, <2>5
<1>9. u # <<>> /\ u[Len(u)] \in Bytes /\ u[Len(u)].pos = n + m
  <2>1. Len(u) \in Len(w) + 2 .. Len(u) /\ n + (Len(u) - Len(w)) - 1 = n + m
    BY <1>1
  <2> QED
    BY <1>1, <1>3, <2>1, SMTT(30)
<1>10. u[IF a > 0 THEN 1 ELSE 2].pos = t + 1
  <2>1. CASE w = <<>>
    <3>1. a = 0 /\ t = n /\ Len(w) = 0
      BY <2>1 DEF WellFramed, InOrder
    <3> QED
      BY <1>1, <1>3, <3>1
  <2>2. CASE w # <<>>
    <3>1. Len(w) > 0 /\ w[IF a > 0 THEN 1 ELSE 2].pos = t + 1
      BY <2>2 DEF InOrder
    <3>2. a > 0 \/ Len(w) > 1
      BY <1>6, <2>2, <3>1, Disjoint DEF WellFramed
    <3> QED
      BY <1>1, <3>1, <3>2
  <2> QED
    BY <2>1, <2>2
<1>11. InOrder(u, a, c, t, n + m)
  BY <1>5, <1>7, <1>8, <1>9, <1>10 DEF InOrder, WithinFrames, AcrossFrames
<1> QED
  BY <1>1, <1>4, <1>11

(* The same of the places.                                                 *)
LEMMA PlacedLength ==
    ASSUME NEW w \in Seq(Items), NEW v \in Seq(Items), w # <<>>,
           Len(v) = Len(w) - 1, \A i \in 1 .. Len(v) : v[i] = w[i + 1],
           WellFramed(w, 0), NEW c, NEW t \in Nat, NEW n, InOrder(w, 0, c, t, n),
           NEW m \in Nat, m > 0, w[1].len = m, Placed(w, 0, t, n)
    PROVE  Placed(v, m, t, n)
<1>1. w[1] \in Lengths /\ FrameAt(w, 1, m) /\ w[2].pos = t + 1
  BY DEF WellFramed, InOrder
<1>2. \A i \in 1 .. Len(v) : v[i] \in Bytes => v[i].pos <= n
  BY DEF Placed
<1>3. ASSUME NEW j \in 1 .. m PROVE v[j].pos = t + j
  <2>1. 1 \in 1 .. Len(w) /\ j \in 1 .. w[1].len /\ v[j] = w[1 + j]
    BY <1>1 DEF FrameAt
  <2>2. w[1 + j].pos = w[1 + 1].pos + j - 1
    BY <1>1, <2>1 DEF Placed
  <2> QED
    BY <1>1, <2>1, <2>2
<1>4. ASSUME NEW i \in 1 .. Len(v), v[i] \in Lengths, NEW j \in 1 .. v[i].len
      PROVE  v[i + j].pos = v[i + 1].pos + j - 1
  <2>1. PICK l \in Nat : v[i].len = l /\ l > 0
    BY <1>4, Disjoint
  <2>2. i + 1 \in 1 .. Len(w) /\ w[i + 1] = v[i]
    OBVIOUS
  <2>3. FrameAt(w, i + 1, l)
    BY <1>4, <2>1, <2>2 DEF WellFramed
  <2>4. v[i + j] = w[(i + 1) + j] /\ v[i + 1] = w[(i + 1) + 1]
    <3>1. j \in Nat /\ j <= l /\ i + 1 + l <= Len(w)
      BY <2>1, <2>3 DEF FrameAt
    <3>2. i + j \in 1 .. Len(v) /\ i + 1 \in 1 .. Len(v)
      BY <2>1, <3>1
    <3>3. (i + 1) + j = (i + j) + 1
      BY <3>1
    <3> QED
      BY <3>2, <3>3
  <2>5. w[(i + 1) + j].pos = w[(i + 1) + 1].pos + j - 1
    BY <1>4, <2>2 DEF Placed
  <2> QED
    BY <2>4, <2>5
<1> QED
  BY <1>2, <1>3, <1>4 DEF Placed

LEMMA PlacedTaken ==
    ASSUME NEW w \in Seq(Items), NEW v \in Seq(Items), NEW a \in Nat, a > 0,
           WellFramed(w, a), Len(v) = Len(w) - a, \A i \in 1 .. Len(v) : v[i] = w[i + a],
           NEW t, NEW s, NEW n, Placed(w, a, t, n)
    PROVE  Placed(v, 0, s, n)
<1>1. ASSUME NEW i \in 1 .. Len(v), v[i] \in Bytes PROVE v[i].pos <= n
  <2>1. i + a \in 1 .. Len(w) /\ v[i] = w[i + a]
    OBVIOUS
  <2> QED
    BY <1>1, <2>1 DEF Placed
<1>2. ASSUME NEW i \in 1 .. Len(v), v[i] \in Lengths, NEW j \in 1 .. v[i].len
      PROVE  v[i + j].pos = v[i + 1].pos + j - 1
  <2>1. PICK l \in Nat : v[i].len = l /\ l > 0
    BY <1>2, Disjoint
  <2>2. i + a \in 1 .. Len(w) /\ w[i + a] = v[i]
    OBVIOUS
  <2>3. FrameAt(w, i + a, l)
    BY <1>2, <2>1, <2>2 DEF WellFramed
  <2>4. v[i + j] = w[(i + a) + j] /\ v[i + 1] = w[(i + a) + 1]
    <3>1. j \in Nat /\ j <= l /\ i + a + l <= Len(w)
      BY <2>1, <2>3 DEF FrameAt
    <3>2. i + j \in 1 .. Len(v) /\ i + 1 \in 1 .. Len(v)
      BY <2>1, <3>1
    <3>3. (i + a) + j = (i + j) + a /\ (i + a) + 1 = (i + 1) + a
      BY <3>1
    <3> QED
      BY <3>2, <3>3, SMTT(30)
  <2>5. w[(i + a) + j].pos = w[(i + a) + 1].pos + j - 1
    BY <1>2, <2>2 DEF Placed
  <2> QED
    BY <2>4, <2>5
<1> QED
  BY <1>1, <1>2 DEF Placed

LEMMA PlacedWritten ==
    ASSUME NEW w \in Seq(Items), NEW f \in Seq(Items), NEW a \in Nat,
           NEW c, NEW t, NEW n \in Nat, NEW m \in Nat, m > 0,
           IsFrame(f, c, n, m), WellFramed(w, a), Placed(w, a, t, n)
    PROVE  Placed(w \o f, a, t, n + m)
<1>1. PICK u : u = w \o f
  OBVIOUS
<1>2. /\ u \in Seq(Items) /\ Len(u) = Len(w) + (m + 1)
      /\ \A i \in 1 .. Len(w) : u[i] = w[i]
      /\ \A i \in 1 .. m + 1 : u[Len(w) + i] = f[i]
  <2>1. Len(f) = m + 1
    BY DEF IsFrame
  <2>2. /\ u \in Seq(Items) /\ Len(u) = Len(w) + Len(f)
        /\ \A i \in 1 .. Len(w) : u[i] = w[i]
        /\ \A i \in 1 .. Len(f) : u[Len(w) + i] = f[i]
    BY <1>1, Concat
  <2> QED
    BY <2>1, <2>2
<1>3. ASSUME NEW i \in 1 .. Len(u), u[i] \in Bytes PROVE u[i].pos <= n + m
  <2>1. CASE i \in 1 .. Len(w)
    <3>1. u[i].pos <= n /\ u[i].pos \in Nat
      BY <1>2, <1>3, <2>1, Disjoint DEF Placed
    <3> QED
      BY <3>1
  <2>2. CASE i \in Len(w) + 1 .. Len(u)
    <3>1. PICK k \in 1 .. m + 1 : i = Len(w) + k /\ u[i] = f[k]
      <4>1. i - Len(w) \in 1 .. m + 1 /\ i = Len(w) + (i - Len(w))
        BY <1>2, <2>2
      <4> QED
        BY <1>2, <4>1
    <3>2. k # 1
      BY <1>3, <3>1, Disjoint DEF IsFrame
    <3>3. f[k].pos = n + k - 1
      BY <3>1, <3>2 DEF IsFrame
    <3> QED
      BY <3>1, <3>3
  <2> QED
    BY <1>2, <2>1, <2>2
<1>4. ASSUME NEW j \in 1 .. a PROVE u[j].pos = t + j
  <2>1. j \in 1 .. Len(w)
    BY DEF WellFramed
  <2> QED
    BY <1>2, <2>1 DEF Placed
<1>5. ASSUME NEW i \in 1 .. Len(u), u[i] \in Lengths, NEW j \in 1 .. u[i].len
      PROVE  u[i + j].pos = u[i + 1].pos + j - 1
  <2>1. CASE i \in 1 .. Len(w)
    <3>1. u[i] = w[i]
      BY <1>2, <2>1
    <3>2. PICK l \in Nat : w[i].len = l /\ l > 0
      BY <1>5, <3>1, Disjoint
    <3>3. FrameAt(w, i, l)
      BY <1>5, <2>1, <3>1, <3>2 DEF WellFramed
    <3>4. j \in 1 .. l /\ i + j \in 1 .. Len(w) /\ i + 1 \in 1 .. Len(w)
      BY <2>1, <3>1, <3>2, <3>3 DEF FrameAt
    <3>5. u[i + j] = w[i + j] /\ u[i + 1] = w[i + 1]
      BY <1>2, <3>4
    <3>6. w[i + j].pos = w[i + 1].pos + j - 1
      BY <1>5, <2>1, <3>1 DEF Placed
    <3> QED
      BY <3>5, <3>6
  <2>2. CASE i \in Len(w) + 1 .. Len(u)
    <3>1. PICK k \in 1 .. m + 1 : i = Len(w) + k /\ u[i] = f[k]
      <4>1. i - Len(w) \in 1 .. m + 1 /\ i = Len(w) + (i - Len(w))
        BY <1>2, <2>2
      <4> QED
        BY <1>2, <4>1
    <3>2. k = 1
      BY <1>5, <3>1, Disjoint DEF IsFrame
    <3>3. j \in 1 .. m
      BY <3>1, <3>2 DEF IsFrame
    <3>4. u[i + j] = f[j + 1] /\ u[i + 1] = f[2]
      <4>1. j + 1 \in 1 .. m + 1 /\ 2 \in 1 .. m + 1
            /\ i + j = Len(w) + (j + 1) /\ i + 1 = Len(w) + 2
        BY <3>1, <3>2, <3>3
      <4> QED
        BY <1>2, <4>1
    <3>5. f[j + 1].pos = n + (j + 1) - 1 /\ f[2].pos = n + 2 - 1
      BY <3>3 DEF IsFrame
    <3> QED
      BY <3>3, <3>4, <3>5
  <2> QED
    BY <1>2, <2>1, <2>2
<1> QED
  BY <1>1, <1>3, <1>4, <1>5 DEF Placed
(* Bytes that are returned or buffered after others.                       *)
LEMMA BytesArrive ==
    ASSUME NEW s \in Seq(Bytes), NEW q \in Seq(Bytes), NEW c \in Nat,
           Returned(s, c), q # <<>>, \A i \in 1 .. Len(q) : q[i].conn = c,
           \A i \in 1 .. Len(q) - 1 : q[i + 1].pos = q[i].pos + 1,
           q[1].pos = LastPos(s, c) + 1
    PROVE  Returned(s \o q, c) /\ LastPos(s \o q, c) = q[Len(q)].pos
<1>0a. PICK u : u = s \o q
  OBVIOUS
<1>0. /\ u \in Seq(Bytes) /\ Len(u) = Len(s) + Len(q)
      /\ \A i \in 1 .. Len(s) : u[i] = s[i]
      /\ \A i \in 1 .. Len(q) : u[Len(s) + i] = q[i]
      /\ \A i \in Len(s) + 1 .. Len(u) : u[i] = q[i - Len(s)]
  BY <1>0a, Concat
<1>1. /\ u = s \o q /\ Len(u) = Len(s) + Len(q) /\ Len(q) > 0
      /\ \A i \in 1 .. Len(s) : u[i] = s[i]
      /\ \A i \in Len(s) + 1 .. Len(u) : u[i] = q[i - Len(s)]
  BY <1>0a, <1>0
<1>2. \A i \in Len(s) + 1 .. Len(u) : u[i].conn = c
  BY <1>1
<1>3. \A i \in 1 .. Len(u) : u[i] \in Bytes /\ u[i].conn \in Nat /\ u[i].conn <= c
  <2>1. ASSUME NEW i \in 1 .. Len(u) PROVE u[i].conn <= c
    <3>1. CASE i <= Len(s)
      BY <1>1, <3>1 DEF Returned
    <3> QED
      BY <1>1, <1>2, <3>1
  <2> QED
    BY <1>0, <2>1, Disjoint
<1>4. \A i, j \in 1 .. Len(u) : i < j => u[i].conn <= u[j].conn
  <2> SUFFICES ASSUME NEW i \in 1 .. Len(u), NEW j \in 1 .. Len(u), i < j
               PROVE  u[i].conn <= u[j].conn
    OBVIOUS
  <2>1. CASE j <= Len(s)
    BY <1>1, <2>1 DEF Returned
  <2>2. CASE j > Len(s)
    <3>1. u[j].conn = c
      BY <1>2, <2>2
    <3> QED
      BY <1>3, <3>1
  <2> QED
    BY <2>1, <2>2
<1>5. ASSUME NEW i \in 1 .. Len(s) PROVE FollowsAt(u, i)
  <2>1. FollowsAt(s, i)
    BY DEF Returned
  <2> QED
    BY <1>1, <2>1 DEF FollowsAt
<1>6. ASSUME NEW i \in Len(s) + 2 .. Len(u) PROVE FollowsAt(u, i)
  <2>1. i - Len(s) - 1 \in 1 .. Len(q) - 1 /\ (i - Len(s) - 1) + 1 = i - Len(s)
        /\ (i - 1) - Len(s) = i - Len(s) - 1 /\ i - 1 \in Len(s) + 1 .. Len(u)
    BY <1>1
  <2>2. u[i].pos = u[i - 1].pos + 1
    BY <1>1, <2>1
  <2> QED
    BY <1>1, <1>2, <2>1, <2>2 DEF FollowsAt
<1>7. FollowsAt(u, Len(s) + 1)
  <2>1. u[Len(s) + 1].conn = c /\ u[Len(s) + 1].pos = LastPos(s, c) + 1
    <3>1. Len(s) + 1 \in Len(s) + 1 .. Len(u) /\ (Len(s) + 1) - Len(s) = 1
      BY <1>1
    <3> QED
      BY <1>1, <1>2, <3>1
  <2>2. CASE s # <<>> /\ s[Len(s)].conn = c
    BY <1>1, <2>1, <2>2 DEF LastPos, FollowsAt
  <2>3. CASE ~(s # <<>> /\ s[Len(s)].conn = c)
    <3>1. \A j \in 1 .. Len(s) : u[j].conn < c
      <4>1. ASSUME NEW j \in 1 .. Len(s) PROVE u[j].conn < c
        <5>1. s[Len(s)].conn # c /\ s # <<>>
          BY <2>3
        <5>2. u[Len(s)].conn \in Nat /\ u[Len(s)].conn < c /\ u[Len(s)] = s[Len(s)]
          BY <1>1, <1>3, <5>1
        <5>3. u[j].conn <= u[Len(s)].conn
          BY <1>1, <1>4, <5>2
        <5> QED
          BY <1>1, <1>3, <5>2, <5>3
      <4> QED
        BY <4>1
    <3>2. u[Len(s) + 1].pos = 1
      BY <2>1, <2>3 DEF LastPos
    <3> QED
      BY <1>1, <2>1, <2>3, <3>1, <3>2 DEF FollowsAt
  <2> QED
    BY <2>2, <2>3
<1>8. Returned(u, c)
  <2>1. \A i \in 1 .. Len(u) : i \in 1 .. Len(s) \/ i = Len(s) + 1 \/ i \in Len(s) + 2 .. Len(u)
    BY <1>1
  <2> QED
    BY <1>3, <1>4, <1>5, <1>6, <1>7, <2>1 DEF Returned
<1>9. LastPos(u, c) = q[Len(q)].pos
  BY <1>1, <1>2 DEF LastPos
<1> QED
  BY <1>1, <1>8, <1>9

(* Cutting a sequence and putting it together again changes nothing.       *)
LEMMA CutAndJoin ==
    ASSUME NEW S, NEW s \in Seq(S), NEW b \in Seq(S), NEW k \in 0 .. Len(b)
    PROVE  (s \o First(b, k)) \o Rest(b, k) = s \o b
<1>1. PICK f \in Seq(S) : f = First(b, k)
  BY RestProperties
<1>2. PICK r \in Seq(S) : r = Rest(b, k)
  BY RestProperties
<1>3. f \o r = b
  <2>1. 1 \in 1 .. Len(b) + 1 /\ k \in 1 - 1 .. Len(b) /\ Len(b) \in k .. Len(b)
    OBVIOUS
  <2>2. SubSeq(b, 1, k) \o SubSeq(b, k + 1, Len(b)) = SubSeq(b, 1, Len(b))
    BY <2>1, ConcatAdjacentSubSeq
  <2>3. SubSeq(b, 1, Len(b)) = b
    BY SubSeqFull
  <2> QED
    BY <1>1, <1>2, <2>2, <2>3 DEF First, Rest
<1>4. (s \o f) \o r = s \o (f \o r)
  BY ConcatAssociative, SMTT(30)
<1> QED
  BY <1>1, <1>2, <1>3, <1>4

LEMMA LastPosNat ==
    ASSUME NEW s \in Seq(Bytes), NEW c
    PROVE  LastPos(s, c) \in Nat
<1>1. CASE s = <<>>
  BY <1>1 DEF LastPos
<1>2. CASE s # <<>>
  <2>1. s[Len(s)] \in Bytes
    BY <1>2
  <2> QED
    BY <2>1, Disjoint DEF LastPos
<1> QED
  BY <1>1, <1>2

-----------------------------------------------------------------------------
LEMMA InitHolds == Init => FramingInv
<1> SUFFICES ASSUME Init PROVE FramingInv
  OBVIOUS
<1>1. InTransit = <<>> /\ Received = <<>>
  BY DEF Init, InTransit, Received
<1>2. TypeInv /\ ReaderInv /\ BufferInv
  BY FramingAssumption DEF Init, TypeInv, ReaderInv, BufferInv, Most, Items, Bytes, Lengths
<1>3. TransitInv
  BY <1>1 DEF Init, TransitInv, WellFramed, InOrder, WithinFrames, AcrossFrames, Placed, Ahead, LastPos
<1>4. ReceivedInv
  BY <1>1 DEF ReceivedInv, Returned
<1> QED
  BY <1>2, <1>3, <1>4 DEF FramingInv

(* The peer writes a frame: it is the next in order.                       *)
LEMMA FrameIsFrame ==
    ASSUME TypeInv, NEW n \in 1 .. MaxFrame, written + n <= MaxBytes
    PROVE  Frame(n) \in Seq(Items) /\ IsFrame(Frame(n), conn, written, n)
<1>1. n \in Nat /\ written \in Nat /\ conn \in 1 .. MaxConns
  BY FramingAssumption DEF TypeInv
<1>2. PICK b : b = [i \in 1 .. n |-> [conn |-> conn, pos |-> written + i]]
  OBVIOUS
<1>3. /\ b \in Seq(Items) /\ Len(b) = n
      /\ \A i \in 1 .. n : b[i] = [conn |-> conn, pos |-> written + i] /\ b[i] \in Bytes
  <2>1. \A i \in 1 .. n : [conn |-> conn, pos |-> written + i] \in Bytes
    BY <1>1, FramingAssumption DEF Bytes
  <2>2. \A i \in 1 .. n : b[i] = [conn |-> conn, pos |-> written + i] /\ b[i] \in Bytes
    BY <1>2, <2>1
  <2>3. b \in [1 .. n -> Items]
    BY <1>2, <2>1 DEF Items
  <2> QED
    BY <1>1, <2>2, <2>3
<1>4. PICK h : h = [len |-> n]
  OBVIOUS
<1>4a. h \in Lengths /\ h.len = n /\ <<h>> \in Seq(Items) /\ Len(<<h>>) = 1
  BY <1>4 DEF Items, Lengths
<1>4b. PICK f : f = <<h>> \o b
  OBVIOUS
<1>4c. /\ f \in Seq(Items) /\ Len(f) = Len(<<h>>) + Len(b)
       /\ \A i \in 1 .. Len(<<h>>) : f[i] = <<h>>[i]
       /\ \A i \in Len(<<h>>) + 1 .. Len(f) : f[i] = b[i - Len(<<h>>)]
  BY <1>3, <1>4a, <1>4b, Concat
<1>5. /\ f \in Seq(Items) /\ Len(f) = n + 1 /\ f[1] = h
      /\ \A i \in 2 .. n + 1 : f[i] = b[i - 1]
  BY <1>1, <1>3, <1>4a, <1>4c
<1>6. f[1] \in Lengths /\ f[1].len = n
  BY <1>4a, <1>5
<1>7. ASSUME NEW i \in 2 .. n + 1
      PROVE  f[i] \in Bytes /\ f[i].conn = conn /\ f[i].pos = written + i - 1
  <2>1. i - 1 \in 1 .. n /\ f[i] = b[i - 1]
    BY <1>1, <1>5
  <2>2. f[i] = [conn |-> conn, pos |-> written + (i - 1)] /\ f[i] \in Bytes
    BY <1>3, <2>1
  <2> QED
    BY <1>1, <2>2
<1>8. IsFrame(f, conn, written, n)
  BY <1>1, <1>5, <1>6, <1>7 DEF IsFrame
<1>9. f = Frame(n)
  BY <1>2, <1>4, <1>4b DEF Frame
<1> QED
  BY <1>5, <1>8, <1>9

LEMMA WriteHolds == FramingInv /\ Write => FramingInv'
<1> SUFFICES ASSUME FramingInv, Write PROVE FramingInv'
  OBVIOUS
<1> USE DEF FramingInv
<1>1. PICK n \in 1 .. MaxFrame : /\ written + n <= MaxBytes /\ written' = written + n
                                 /\ pending' = pending \o Frame(n)
  BY DEF Write
<1>2. UNCHANGED <<conn, wire, rpc, want, need, unread, junk, size, delivered>> /\ rpc # "closed"
  BY DEF Write, memBuf
<1>3. n \in Nat /\ n > 0 /\ written \in Nat
  BY FramingAssumption DEF TypeInv
<1>4. Frame(n) \in Seq(Items) /\ IsFrame(Frame(n), conn, written, n)
  BY <1>1, FrameIsFrame
<1>5. TypeInv'
  <2>1. pending' \in Seq(Items)
    BY <1>1, <1>4, ConcatProperties DEF TypeInv
  <2>2. written' \in 0 .. MaxBytes
    BY <1>1, <1>3, FramingAssumption DEF TypeInv
  <2> QED
    BY <1>2, <2>1, <2>2 DEF TypeInv
<1>6. InTransit \in Seq(Items) /\ InTransit' = InTransit \o Frame(n)
  <2>1. wire \in Seq(Items) /\ pending \in Seq(Items)
    BY DEF TypeInv
  <2>2. PICK f \in Seq(Items) : f = Frame(n)
    BY <1>4
  <2>3. wire \o pending \in Seq(Items) /\ (wire \o pending) \o f = wire \o (pending \o f)
    BY <2>1, ConcatProperties, ConcatAssociative, SMTT(30)
  <2> QED
    BY <1>1, <1>2, <2>2, <2>3 DEF InTransit
<1>7. Received \in Seq(Bytes) /\ Received' = Received
  BY <1>2, ConcatProperties DEF Received, TypeInv
<1>8. TransitInv'
  <2> SUFFICES ASSUME rpc \in {"ready", "length", "payload"}
               PROVE  /\ WellFramed(InTransit', Ahead)
                      /\ InOrder(InTransit', Ahead, conn, LastPos(Received, conn), written + n)
                      /\ Placed(InTransit', Ahead, LastPos(Received, conn), written + n)
    BY <1>1, <1>2, <1>7 DEF TransitInv, Ahead
  <2>1. /\ WellFramed(InTransit, Ahead)
        /\ InOrder(InTransit, Ahead, conn, LastPos(Received, conn), written)
        /\ Placed(InTransit, Ahead, LastPos(Received, conn), written)
    BY DEF TransitInv
  <2>2. Ahead \in Nat /\ LastPos(Received, conn) \in Nat
    BY <1>7, LastPosNat DEF Ahead, TypeInv
  <2> QED
    BY <1>3, <1>4, <1>6, <2>1, <2>2, FrameWritten, PlacedWritten
<1>9. ReaderInv' /\ ReceivedInv' /\ BufferInv'
  BY <1>2, <1>7 DEF ReaderInv, ReceivedInv, BufferInv
<1> QED
  BY <1>5, <1>8, <1>9

(* What goes out stays in transit.                                         *)
LEMMA OutHolds == FramingInv /\ (Flush \/ Spill) => FramingInv'
<1> SUFFICES ASSUME FramingInv, Flush \/ Spill PROVE FramingInv'
  OBVIOUS
<1> USE DEF FramingInv
<1>1. UNCHANGED <<conn, written, rpc, want, need, unread, junk, size, delivered>> /\ pending # <<>>
  BY DEF Flush, Spill, memBuf
<1>2. pending \in Seq(Items) /\ wire \in Seq(Items)
  BY DEF TypeInv
<1>3. InTransit' = InTransit /\ wire' \in Seq(Items) /\ pending' \in Seq(Items)
  <2>1. CASE Flush
    <3>1. wire' = wire \o pending /\ pending' = <<>>
      BY <2>1 DEF Flush
    <3>2. wire \o pending \in Seq(Items)
      BY <1>2, ConcatProperties
    <3>3. (wire \o pending) \o <<>> = wire \o pending
      BY <3>2, ConcatEmptySeq
    <3> QED
      BY <3>1, <3>2, <3>3 DEF InTransit
  <2>2. CASE Spill
    <3>1. wire' = Append(wire, Head(pending)) /\ pending' = Tail(pending)
      BY <2>2 DEF Spill
    <3>2. PICK h \in Items : h = Head(pending)
      BY <1>1, <1>2, HeadTailProperties
    <3>3. PICK t \in Seq(Items) : t = Tail(pending)
      BY <1>1, <1>2, HeadTailProperties
    <3>4. pending = <<h>> \o t
      BY <1>1, <1>2, <3>2, <3>3
    <3>5. <<h>> \in Seq(Items) /\ Append(wire, h) = wire \o <<h>> /\ Append(wire, h) \in Seq(Items)
      BY <1>2
    <3>6. (wire \o <<h>>) \o t = wire \o (<<h>> \o t)
      BY <1>2, <3>5, ConcatAssociative
    <3> QED
      BY <3>1, <3>2, <3>3, <3>4, <3>5, <3>6 DEF InTransit
  <2> QED
    BY <2>1, <2>2
<1>4. TypeInv'
  BY <1>1, <1>3 DEF TypeInv
<1>5. rpc # "closed"
  BY <1>1 DEF ReaderInv
<1> QED
  BY <1>1, <1>3, <1>4, <1>5 DEF ReaderInv, TransitInv, ReceivedInv, BufferInv, Received, Ahead


-----------------------------------------------------------------------------
(* What memBuf_->read() and shrinkBuffer() do: nothing is lost or gained.  *)
LEMMA Taken ==
    ASSUME TypeInv, BufferInv, NEW b \in Seq(Bytes), NEW k \in Nat, k > 0, k <= Len(b),
           Len(unread) <= Len(b), TakeBuffered(b, k)
    PROVE  /\ unread' \in Seq(Bytes) /\ delivered' \in Seq(Bytes)
           /\ junk' \in Nat /\ size' \in Nat /\ BufferInv'
           /\ Received' = delivered \o b
<1>1. k \in 0 .. Len(b)
  OBVIOUS
<1>2. PICK r \in Seq(Bytes) : r = Rest(b, k) /\ Len(r) = Len(b) - k
  BY <1>1, RestProperties
<1>3. PICK f \in Seq(Bytes) : f = First(b, k)
  BY <1>1, RestProperties
<1>4. /\ delivered' = delivered \o f /\ unread' = r
      /\ junk' = IF r = <<>> THEN 0 ELSE junk + k
      /\ size' = IF r = <<>> /\ junk + k > DefaultSize THEN DefaultSize
                 ELSE Most(size, junk + Len(b))
  BY <1>2, <1>3 DEF TakeBuffered, TooMuchJunk
<1>5. /\ junk \in Nat /\ size \in Nat /\ DefaultSize \in Nat /\ Len(unread) \in Nat
      /\ delivered \in Seq(Bytes)
  BY FramingAssumption DEF TypeInv
<1>6. unread' \in Seq(Bytes) /\ delivered' \in Seq(Bytes) /\ junk' \in Nat /\ size' \in Nat
  BY <1>3, <1>4, <1>5, ConcatProperties DEF Most
<1>7. Received' = delivered \o b
  <2>1. (delivered \o First(b, k)) \o Rest(b, k) = delivered \o b
    BY <1>1, <1>5, CutAndJoin
  <2> QED
    BY <1>2, <1>3, <1>4, <2>1 DEF Received
<1>8. BufferInv'
  <2>1. size <= Most(DefaultSize, junk + Len(unread))
    BY DEF BufferInv
  <2>2. size' <= Most(DefaultSize, junk' + Len(r))
    <3>1. CASE r = <<>>
      BY <1>2, <1>4, <1>5, <2>1, <3>1 DEF Most
    <3>2. CASE r # <<>>
      BY <1>2, <1>4, <1>5, <2>1, <3>2, SMTT(30) DEF Most
    <3> QED
      BY <3>1, <3>2
  <2> QED
    BY <1>4, <2>2 DEF BufferInv
<1> QED
  BY <1>6, <1>7, <1>8

LEMMA ReadBufferedHolds == FramingInv /\ ReadBuffered => FramingInv'
<1> SUFFICES ASSUME FramingInv, ReadBuffered PROVE FramingInv'
  OBVIOUS
<1> USE DEF FramingInv
<1>1. PICK len \in 1 .. MaxRead : TakeBuffered(unread, Least(len, Len(unread)))
  BY DEF ReadBuffered
<1>2. UNCHANGED <<conn, written, pending, wire, rpc, want, need>> /\ rpc = "ready"
  BY DEF ReadBuffered, peer
<1>3. unread \in Seq(Bytes) /\ unread # <<>>
  BY DEF ReadBuffered, TypeInv
<1>4. PICK k \in Nat : k = Least(len, Len(unread)) /\ k > 0 /\ k <= Len(unread)
  BY <1>3, FramingAssumption DEF Least
<1>5. /\ unread' \in Seq(Bytes) /\ delivered' \in Seq(Bytes)
      /\ junk' \in Nat /\ size' \in Nat /\ BufferInv'
      /\ Received' = delivered \o unread
  BY <1>1, <1>3, <1>4, Taken
<1> QED
  BY <1>2, <1>5
     DEF TypeInv, ReaderInv, TransitInv, ReceivedInv, Received, InTransit, Ahead

LEMMA ReadMissesHolds == FramingInv /\ ReadMisses => FramingInv'
<1> SUFFICES ASSUME FramingInv, ReadMisses PROVE FramingInv'
  OBVIOUS
<1> USE DEF FramingInv
<1>1. UNCHANGED <<conn, written, pending, wire, need, unread, junk, size, delivered>>
  BY DEF ReadMisses, peer, memBuf
<1>2. /\ rpc = "ready" /\ rpc' = "length" /\ unread = <<>>
      /\ want' \in Nat /\ want' > 0
  BY FramingAssumption DEF ReadMisses
<1> QED
  BY <1>1, <1>2
     DEF TypeInv, ReaderInv, TransitInv, ReceivedInv, BufferInv, Received, InTransit, Ahead

(* The length that is read is that of the bytes that follow.               *)
LEMMA ReadLengthHolds == FramingInv /\ ReadLength => FramingInv'
<1> SUFFICES ASSUME FramingInv, ReadLength PROVE FramingInv'
  OBVIOUS
<1> USE DEF FramingInv
<1>1. UNCHANGED <<conn, written, pending, want, unread, junk, size, delivered>>
  BY DEF ReadLength, peer, memBuf
<1>2. /\ rpc = "length" /\ rpc' = "payload" /\ wire # <<>>
      /\ need' = wire[1].len /\ wire' = Tail(wire)
  BY DEF ReadLength, TypeInv
<1>3. wire \in Seq(Items) /\ pending \in Seq(Items) /\ 1 <= Len(wire)
  BY <1>2 DEF TypeInv
<1>4. wire' = Rest(wire, 1) /\ wire' \in Seq(Items)
  <2>1. Tail(wire) = SubSeq(wire, 2, Len(wire)) /\ Tail(wire) \in Seq(Items)
    BY <1>2, <1>3, TailIsSubSeq, HeadTailProperties
  <2> QED
    BY <1>2, <2>1 DEF Rest
<1>5. PICK w \in Seq(Items) : w = InTransit
  BY <1>3, ConcatProperties DEF InTransit
<1>6. PICK v \in Seq(Items) : /\ v = wire' \o pending /\ Len(v) = Len(w) - 1
                              /\ \A i \in 1 .. Len(w) - 1 : v[i] = w[i + 1]
  BY <1>3, <1>4, <1>5, TakenFromWire
<1>7. w # <<>> /\ w[1] = wire[1]
  BY <1>3, <1>5, ConcatProperties DEF InTransit
<1>8. PICK t : t = LastPos(Received, conn)
  OBVIOUS
<1>9. WellFramed(w, 0) /\ InOrder(w, 0, conn, t, written) /\ Placed(w, 0, t, written)
  BY <1>2, <1>5, <1>8 DEF TransitInv, Ahead
<1>10. PICK m \in Nat : /\ m > 0 /\ w[1].len = m
                        /\ WellFramed(v, m) /\ InOrder(v, m, conn, t, written)
  BY <1>6, <1>7, <1>9, LengthRead
<1>10a. Placed(v, m, t, written)
  <2>1. t \in Nat
    BY <1>8, ConcatProperties, LastPosNat DEF Received, TypeInv
  <2>2. PICK c, n : c = conn /\ n = written
    OBVIOUS
  <2>3. /\ Len(v) = Len(w) - 1 /\ \A i \in 1 .. Len(v) : v[i] = w[i + 1]
        /\ WellFramed(w, 0) /\ InOrder(w, 0, c, t, n) /\ Placed(w, 0, t, n)
    BY <1>6, <1>9, <2>2
  <2> QED
    BY <1>7, <1>10, <2>1, <2>2, <2>3, PlacedLength, SMTT(30)
<1>11. need' = m /\ need' \in Nat /\ need' > 0
  BY <1>2, <1>7, <1>10
<1>12. TransitInv'
  BY <1>1, <1>2, <1>6, <1>8, <1>10, <1>10a, <1>11 DEF TransitInv, InTransit, Ahead, Received
<1>13. TypeInv' /\ ReaderInv'
  BY <1>1, <1>2, <1>4, <1>11 DEF TypeInv, ReaderInv
<1> QED
  BY <1>1, <1>12, <1>13 DEF ReceivedInv, BufferInv, Received

(* A whole frame is taken off the wire.                                    *)
LEMMA PayloadArrives ==
    ASSUME FramingInv, rpc = "payload", Len(wire) >= need
    PROVE  /\ Payload \in Seq(Bytes) /\ Len(Payload) = need /\ need > 0
           /\ Received = delivered /\ Returned(delivered \o Payload, conn)
           /\ Rest(wire, need) \in Seq(Items)
           /\ WellFramed(Rest(wire, need) \o pending, 0)
           /\ InOrder(Rest(wire, need) \o pending, 0, conn,
                      LastPos(delivered \o Payload, conn), written)
           /\ \A i \in 1 .. need : Payload[i].conn = conn
           /\ Placed(Rest(wire, need) \o pending, 0, LastPos(delivered \o Payload, conn), written)
           /\ \A i \in 1 .. need : Payload[i].pos = LastPos(delivered, conn) + i
           /\ LastPos(delivered \o Payload, conn) = LastPos(delivered, conn) + need
           /\ LastPos(delivered \o Payload, conn) <= written
<1> USE DEF FramingInv
<1>1. /\ wire \in Seq(Items) /\ pending \in Seq(Items) /\ delivered \in Seq(Bytes)
      /\ need \in Nat /\ need > 0 /\ need <= Len(wire) /\ conn \in Nat
  BY FramingAssumption DEF TypeInv, ReaderInv
<1>2. Received = delivered
  BY <1>1, ConcatEmptySeq DEF Received, ReaderInv
<1>3. PICK w \in Seq(Items) : w = InTransit
  BY <1>1, ConcatProperties DEF InTransit
<1>4. PICK v \in Seq(Items) : /\ v = Rest(wire, need) \o pending /\ Len(v) = Len(w) - need
                              /\ \A i \in 1 .. Len(w) - need : v[i] = w[i + need]
  BY <1>1, <1>3, TakenFromWire
<1>5. PICK q \in Seq(Items) : /\ q = Payload /\ Len(q) = need
                              /\ \A i \in 1 .. need : q[i] = w[i]
  <2>1. need \in 0 .. Len(wire)
    BY <1>1
  <2>2. First(wire, need) \in Seq(Items) /\ Len(First(wire, need)) = need
    BY <1>1, <2>1, RestProperties
  <2>3. \A i \in 1 .. need : First(wire, need)[i] = w[i]
    BY <1>1, <1>3, TakenFromWire
  <2> QED
    BY <2>2, <2>3 DEF Payload
<1>6. PICK t : t = LastPos(delivered, conn)
  OBVIOUS
<1>7. WellFramed(w, need) /\ InOrder(w, need, conn, t, written) /\ Placed(w, need, t, written)
  BY <1>2, <1>3, <1>6 DEF TransitInv, Ahead
<1>8. PICK a \in Nat : a = need /\ a > 0
  BY <1>1
<1>9. /\ WellFramed(v, 0) /\ InOrder(v, 0, conn, w[a].pos, written)
      /\ \A i \in 1 .. a : w[i] \in Bytes /\ w[i].conn = conn
      /\ \A i \in 1 .. a - 1 : w[i + 1].pos = w[i].pos + 1
      /\ w[1].pos = t + 1
  <2>1. PICK c, n : c = conn /\ n = written
    OBVIOUS
  <2>2. /\ WellFramed(w, a) /\ InOrder(w, a, c, t, n)
        /\ Len(v) = Len(w) - a /\ \A i \in 1 .. Len(v) : v[i] = w[i + a]
    BY <1>4, <1>7, <1>8, <2>1
  <2>3. a > 0
    BY <1>8
  <2>4. WellFramed(v, 0) /\ InOrder(v, 0, c, w[a].pos, n)
    BY <2>2, <2>3, FrameTaken
  <2>5. /\ \A i \in 1 .. a : w[i] \in Bytes /\ w[i].conn = c
        /\ \A i \in 1 .. a - 1 : w[i + 1].pos = w[i].pos + 1
        /\ w[1].pos = t + 1
    BY <2>2, <2>3, FrameBytes
  <2> QED
    BY <2>1, <2>4, <2>5
<1>10. q \in Seq(Bytes) /\ q # <<>>
  BY <1>5, <1>8, <1>9
<1>11. /\ \A i \in 1 .. Len(q) : q[i].conn = conn
       /\ \A i \in 1 .. Len(q) - 1 : q[i + 1].pos = q[i].pos + 1
       /\ q[1].pos = t + 1 /\ q[Len(q)].pos = w[a].pos
  <2>1. \A i \in 1 .. a - 1 : q[i] = w[i] /\ q[i + 1] = w[i + 1]
    BY <1>5, <1>8
  <2>2. Len(q) = a /\ \A i \in 1 .. a : q[i] = w[i]
    BY <1>5, <1>8
  <2>3. \A i \in 1 .. Len(q) : q[i].conn = conn
    BY <1>9, <2>2
  <2>4. \A i \in 1 .. Len(q) - 1 : q[i + 1].pos = q[i].pos + 1
    BY <1>9, <2>1, <2>2
  <2>5. q[1] = w[1] /\ q[Len(q)] = w[a]
    BY <1>8, <2>2
  <2> QED
    BY <1>9, <2>3, <2>4, <2>5
<1>12. Returned(delivered, conn)
  BY <1>2 DEF ReceivedInv
<1>13. Returned(delivered \o q, conn) /\ LastPos(delivered \o q, conn) = w[a].pos
  BY <1>1, <1>6, <1>10, <1>11, <1>12, BytesArrive
<1>14. Rest(wire, need) \in Seq(Items)
  BY <1>1, RestProperties
<1>15. \A i \in 1 .. need : Payload[i].conn = conn /\ Payload[i].pos = t + i
  BY <1>5, <1>7, <1>11 DEF Placed
<1>16. w[a].pos = t + a /\ w[a].pos <= written
  <2>1. a \in 1 .. Len(w) /\ a \in 1 .. need
    BY <1>7, <1>8 DEF WellFramed
  <2> QED
    BY <1>7, <1>9, <2>1 DEF Placed
<1>17. Placed(v, 0, w[a].pos, written)
  <2>1. /\ WellFramed(w, a) /\ Placed(w, a, t, written)
        /\ Len(v) = Len(w) - a /\ \A i \in 1 .. Len(v) : v[i] = w[i + a]
    BY <1>4, <1>7, <1>8
  <2>2. a > 0
    BY <1>8
  <2> QED
    BY <2>1, <2>2, PlacedTaken
<1> QED
  BY <1>1, <1>2, <1>4, <1>5, <1>6, <1>8, <1>9, <1>10, <1>13, <1>14, <1>15, <1>16, <1>17

LEMMA ReadFrameHolds == FramingInv /\ (ReadWhole \/ ReadPart) => FramingInv'
<1> SUFFICES ASSUME FramingInv, ReadWhole \/ ReadPart PROVE FramingInv'
  OBVIOUS
<1>1. /\ UNCHANGED <<conn, written, pending, want, need>>
      /\ rpc = "payload" /\ rpc' = "ready"
      /\ Len(wire) >= need /\ wire' = Rest(wire, need)
  BY DEF ReadWhole, ReadPart, peer
<1>2. PICK q \in Seq(Bytes) :
        /\ q = Payload /\ Len(q) = need /\ need > 0
        /\ Received = delivered /\ Returned(delivered \o q, conn)
        /\ wire' \in Seq(Items)
        /\ WellFramed(wire' \o pending, 0)
        /\ InOrder(wire' \o pending, 0, conn, LastPos(delivered \o q, conn), written)
        /\ Placed(wire' \o pending, 0, LastPos(delivered \o q, conn), written)
  BY <1>1, PayloadArrives
<1> USE DEF FramingInv
<1>3. unread = <<>> /\ want \in Nat /\ want > 0 /\ need \in Nat /\ delivered \in Seq(Bytes)
  BY <1>1 DEF ReaderInv, TypeInv
<1>4. /\ unread' \in Seq(Bytes) /\ delivered' \in Seq(Bytes)
      /\ junk' \in Nat /\ size' \in Nat /\ BufferInv'
      /\ Received' = delivered \o q
  <2>1. CASE ReadWhole
    <3>1. delivered' = delivered \o q /\ UNCHANGED <<unread, junk, size>>
      BY <1>2, <2>1 DEF ReadWhole, memBuf
    <3>2. delivered \o q \in Seq(Bytes) /\ (delivered \o q) \o <<>> = delivered \o q
      BY <1>3, ConcatProperties, ConcatEmptySeq
    <3> QED
      BY <1>3, <3>1, <3>2 DEF TypeInv, BufferInv, Received
  <2>2. CASE ReadPart
    <3>1. unread \o Payload = q
      BY <1>2, <1>3, ConcatEmptySeq
    <3>2. PICK k \in Nat : k = Least(want, need) /\ k > 0 /\ k <= Len(q)
      BY <1>2, <1>3 DEF Least
    <3>3. TakeBuffered(q, k)
      BY <2>2, <3>1, <3>2 DEF ReadPart
    <3>4. Len(unread) <= Len(q)
      BY <1>2, <1>3
    <3> QED
      BY <3>2, <3>3, <3>4, Taken
  <2> QED
    BY <2>1, <2>2
<1>5. TypeInv' /\ ReaderInv'
  BY <1>1, <1>2, <1>4 DEF TypeInv, ReaderInv
<1>6. TransitInv'
  BY <1>1, <1>2, <1>4 DEF TransitInv, InTransit, Ahead
<1>7. ReceivedInv'
  BY <1>1, <1>2, <1>4 DEF ReceivedInv
<1> QED
  BY <1>4, <1>5, <1>6, <1>7

(* After a failure nothing is read any more; what arrived is not touched.  *)
LEMMA FailsOrClosesHolds == FramingInv /\ (ReadFails \/ Close) => FramingInv'
<1> SUFFICES ASSUME FramingInv, ReadFails \/ Close PROVE FramingInv'
  OBVIOUS
<1> USE DEF FramingInv
<1>1. UNCHANGED <<conn, written, want, need, unread, junk, size, delivered>>
  BY DEF ReadFails, Close, peer, memBuf
<1>2. CASE ReadFails
  <2>1. PICK k \in 0 .. Least(Asked, Len(wire)) : wire' = Rest(wire, k)
    BY <1>2 DEF ReadFails
  <2>2. k \in 0 .. Len(wire) /\ wire \in Seq(Items)
    <3>1. Asked \in Nat /\ wire \in Seq(Items)
      BY DEF Asked, TypeInv
    <3> QED
      BY <3>1 DEF Least
  <2>3. wire' \in Seq(Items) /\ pending' = pending /\ rpc' = "failed"
    BY <1>2, <2>1, <2>2, RestProperties DEF ReadFails, peer
  <2> QED
    BY <1>1, <2>3 DEF TypeInv, ReaderInv, TransitInv, ReceivedInv, BufferInv, Received
<1>3. CASE Close
  <2>1. wire' = <<>> /\ pending' = <<>> /\ rpc' = "closed"
    BY <1>3 DEF Close
  <2> QED
    BY <1>1, <2>1 DEF TypeInv, ReaderInv, TransitInv, ReceivedInv, BufferInv, Received
<1> QED
  BY <1>2, <1>3

(* Nothing of the next connection has arrived.                             *)
LEMMA NothingOfTheNext ==
    ASSUME FramingInv
    PROVE  LastPos(Received, conn + 1) = 0
<1>1. conn \in Nat
  BY FramingAssumption DEF FramingInv, TypeInv
<1>2. PICK s \in Seq(Bytes) : s = Received
  BY ConcatProperties DEF Received, FramingInv, TypeInv
<1>3. CASE s = <<>>
  BY <1>2, <1>3 DEF LastPos
<1>4. CASE s # <<>>
  <2>1. Len(s) \in 1 .. Len(s) /\ s[Len(s)] \in Bytes
    BY <1>4
  <2>2. s[Len(s)].conn <= conn /\ s[Len(s)].conn \in Nat
    BY <1>2, <2>1, Disjoint DEF FramingInv, ReceivedInv, Returned
  <2> QED
    BY <1>1, <1>2, <2>2 DEF LastPos
<1> QED
  BY <1>3, <1>4

LEMMA ReopenHolds == FramingInv /\ Reopen => FramingInv'
<1> SUFFICES ASSUME FramingInv, Reopen PROVE FramingInv'
  OBVIOUS
<1> USE DEF FramingInv
<1>1. /\ UNCHANGED <<pending, wire, want, need, unread, junk, size, delivered>>
      /\ conn' = conn + 1 /\ written' = 0 /\ rpc = "closed" /\ rpc' = "ready" /\ conn < MaxConns
  BY DEF Reopen, memBuf
<1>2. conn \in Nat /\ delivered \in Seq(Bytes) /\ unread \in Seq(Bytes) /\ conn >= 1
  BY FramingAssumption DEF TypeInv
<1>3. PICK s \in Seq(Bytes) : s = Received
  BY <1>2, ConcatProperties DEF Received
<1>4. Received' = s /\ Returned(s, conn)
  BY <1>1, <1>3 DEF Received, ReceivedInv
<1>5. \A i \in 1 .. Len(s) : s[i].conn \in Nat /\ s[i].conn <= conn
  <2>1. \A i \in 1 .. Len(s) : s[i] \in Bytes
    OBVIOUS
  <2> QED
    BY <1>4, <2>1, Disjoint DEF Returned
<1>6. LastPos(s, conn + 1) = 0
  BY <1>3, NothingOfTheNext
<1>7. wire = <<>> /\ pending = <<>> /\ InTransit' = <<>>
  BY <1>1 DEF ReaderInv, InTransit
<1>8. TransitInv'
  BY <1>1, <1>4, <1>6, <1>7
     DEF TransitInv, WellFramed, InOrder, WithinFrames, AcrossFrames, Placed, Ahead
<1>9. Returned(s, conn + 1)
  <2>1. ASSUME NEW i \in 1 .. Len(s) PROVE s[i].conn <= conn + 1
    <3>1. PICK c \in Nat : c = s[i].conn
      BY <1>5
    <3>2. PICK d \in Nat : d = conn
      BY <1>2
    <3>3. c <= d
      BY <1>5, <3>1, <3>2
    <3>4. c <= d + 1
      BY <3>3
    <3> QED
      BY <3>1, <3>2, <3>4
  <2> QED
    BY <1>4, <2>1 DEF Returned
<1>10. TypeInv'
  BY <1>1, <1>2, FramingAssumption DEF TypeInv
<1> QED
  BY <1>1, <1>4, <1>8, <1>9, <1>10 DEF ReaderInv, ReceivedInv, BufferInv

-----------------------------------------------------------------------------
LEMMA StepHolds == FramingInv /\ [Next]_vars => FramingInv'
<1> SUFFICES ASSUME FramingInv, [Next]_vars PROVE FramingInv'
  OBVIOUS
<1>1. ASSUME Write PROVE FramingInv'
  BY <1>1, WriteHolds
<1>2. ASSUME Flush \/ Spill PROVE FramingInv'
  BY <1>2, OutHolds
<1>3. ASSUME ReadStep PROVE FramingInv'
  BY <1>3, ReadBufferedHolds, ReadMissesHolds, ReadLengthHolds, ReadFrameHolds DEF ReadStep
<1>4. ASSUME ReadFails \/ Close PROVE FramingInv'
  BY <1>4, FailsOrClosesHolds
<1>5. ASSUME Reopen PROVE FramingInv'
  BY <1>5, ReopenHolds
<1>6. ASSUME UNCHANGED vars PROVE FramingInv'
  BY <1>6 DEF vars, peer, memBuf, FramingInv, TypeInv, ReaderInv, TransitInv, ReceivedInv,
              BufferInv, InTransit, Received, Ahead
<1> QED
  BY <1>1, <1>2, <1>3, <1>4, <1>5, <1>6 DEF Next, Finished

(* The conservation invariant: what was returned and buffered, the rest of *)
(* the frame that is being read and the frames in transit are, in this     *)
(* order, what the peer has written, for any cutting into frames and reads.*)
THEOREM Conservation == Spec => []FramingInv
<1>1. Init => FramingInv
  BY InitHolds
<1>2. FramingInv /\ [Next]_vars => FramingInv'
  BY StepHolds
<1> QED
  BY <1>1, <1>2, PTL DEF Spec

(* read() returns the bytes the peer wrote (TSaslTransport::read(),        *)
(* TSaslTransport.cpp:167-203), in order, without a gap or a repetition,   *)
(* connection after connection, whatever fails between two reads.          *)
THEOREM ReadsAreInOrder == Spec => []ReadsInOrder
<1>1. FramingInv => ReadsInOrder
  <2> SUFFICES ASSUME FramingInv, NEW i \in 1 .. Len(delivered)
               PROVE  FollowsAt(delivered, i)
    BY DEF ReadsInOrder
  <2>1. delivered \in Seq(Bytes) /\ unread \in Seq(Bytes)
    BY DEF FramingInv, TypeInv
  <2>2. PICK u : u = Received
    OBVIOUS
  <2>3. /\ Len(u) = Len(delivered) + Len(unread) /\ u \in Seq(Bytes)
        /\ \A j \in 1 .. Len(delivered) : u[j] = delivered[j]
    BY <2>1, <2>2, Concat DEF Received
  <2>4. FollowsAt(u, i)
    BY <2>1, <2>2, <2>3 DEF FramingInv, ReceivedInv, Returned
  <2>5. \A j \in 1 .. i : u[j] = delivered[j]
    BY <2>1, <2>3
  <2> QED
    BY <2>4, <2>5 DEF FollowsAt
<1> QED
  BY <1>1, Conservation, PTL

(* A buffer that has been read to the end has the default size at most and *)
(* no consumed bytes in front, for any sizes of frames and reads:          *)
(* shrinkBuffer() (TSaslTransport.cpp:153-159) runs when readEnd() was     *)
(* over it, and a buffer that never grew past it needs no shrinking.       *)
THEOREM DrainedBufferIsSmall == Spec => []DrainedIsSmall
<1>1. FramingInv => DrainedIsSmall
  BY FramingAssumption DEF FramingInv, TypeInv, BufferInv, DrainedIsSmall, Most
<1> QED
  BY <1>1, Conservation, PTL

-----------------------------------------------------------------------------
(* The bytes of a connection between two positions.                        *)
LEMMA RunProperties ==
    ASSUME NEW c \in Nat, NEW p \in Nat, NEW q \in Nat, p <= q
    PROVE  /\ Run(c, p, q) \in Seq([conn : Nat, pos : Nat]) /\ Len(Run(c, p, q)) = q - p
           /\ \A i \in 1 .. q - p : Run(c, p, q)[i] = [conn |-> c, pos |-> p + i]
BY DEF Run

LEMMA SameSequence ==
    ASSUME NEW S, NEW a \in Seq(S), NEW b \in Seq(S), Len(a) = Len(b),
           \A i \in 1 .. Len(a) : a[i] = b[i]
    PROVE  a = b
BY SeqEqual

LEMMA RunJoins ==
    ASSUME NEW c \in Nat, NEW p \in Nat, NEW q \in Nat, NEW r \in Nat, p <= q, q <= r
    PROVE  Run(c, p, r) = Run(c, p, q) \o Run(c, q, r)
<1> DEFINE S == [conn : Nat, pos : Nat]
<1>1. PICK a \in Seq(S) : /\ a = Run(c, p, q) /\ Len(a) = q - p
                          /\ \A i \in 1 .. q - p : a[i] = [conn |-> c, pos |-> p + i]
  BY RunProperties
<1>2. PICK b \in Seq(S) : /\ b = Run(c, q, r) /\ Len(b) = r - q
                          /\ \A i \in 1 .. r - q : b[i] = [conn |-> c, pos |-> q + i]
  BY RunProperties, ZenonT(30)
<1>3. PICK l \in Seq(S) : /\ l = Run(c, p, r) /\ Len(l) = r - p
                          /\ \A i \in 1 .. r - p : l[i] = [conn |-> c, pos |-> p + i]
  <2>1. p <= r
    OBVIOUS
  <2> QED
    BY <2>1, RunProperties, ZenonT(30)
<1>4. PICK u : u = a \o b
  OBVIOUS
<1>5. /\ u \in Seq(S) /\ Len(u) = Len(a) + Len(b)
      /\ \A i \in 1 .. Len(a) : u[i] = a[i]
      /\ \A i \in Len(a) + 1 .. Len(u) : u[i] = b[i - Len(a)]
  BY <1>4, Concat
<1>6. ASSUME NEW i \in 1 .. Len(l) PROVE l[i] = u[i]
  <2>1. CASE i \in 1 .. Len(a)
    BY <1>1, <1>3, <1>5, <2>1
  <2>2. CASE i \in Len(a) + 1 .. Len(u)
    <3>1. i - Len(a) \in 1 .. r - q /\ q + (i - Len(a)) = p + i
      BY <1>1, <1>2, <1>5, <2>2
    <3>2. u[i] = [conn |-> c, pos |-> q + (i - Len(a))]
      BY <1>2, <1>5, <2>2, <3>1
    <3> QED
      BY <1>3, <3>1, <3>2
  <2> QED
    BY <1>1, <1>2, <1>3, <1>5, <2>1, <2>2
<1>7. Len(l) = Len(u)
  BY <1>1, <1>2, <1>3, <1>5
<1>8. l = u
  BY <1>5, <1>6, <1>7, SameSequence
<1> QED
  BY <1>1, <1>2, <1>3, <1>4, <1>8

(* Taking from the front of a sequence that something follows.             *)
LEMMA TakenInFront ==
    ASSUME NEW S, NEW a \in Seq(S), NEW b \in Seq(S), NEW k \in Nat, k > 0, k <= Len(a)
    PROVE  /\ k \in 1 .. Len(a \o b)
           /\ SubSeq(a \o b, 1, k) = First(a, k)
           /\ SubSeq(a \o b, k + 1, Len(a \o b)) = Rest(a, k) \o b
<1>1. PICK u : u = a \o b
  OBVIOUS
<1>2. /\ u \in Seq(S) /\ Len(u) = Len(a) + Len(b)
      /\ \A i \in 1 .. Len(a) : u[i] = a[i]
      /\ \A i \in Len(a) + 1 .. Len(u) : u[i] = b[i - Len(a)]
  BY <1>1, Concat
<1>3. k \in 1 .. Len(u) /\ k \in 0 .. Len(u) /\ k \in 0 .. Len(a) /\ k \in 1 .. Len(a)
  BY <1>2
<1>4. SubSeq(u, 1, k) = First(a, k)
  <2>1. 1 \in 1 .. Len(a)
    BY <1>3
  <2> QED
    BY <1>1, <1>3, <2>1, SubSeqOfConcat1 DEF First
<1>6. PICK r \in Seq(S) : /\ r = Rest(a, k) /\ Len(r) = Len(a) - k
                          /\ \A i \in 1 .. Len(a) - k : r[i] = a[i + k]
  BY <1>3, RestProperties
<1>7. PICK v \in Seq(S) : /\ v = Rest(u, k) /\ Len(v) = Len(u) - k
                          /\ \A i \in 1 .. Len(u) - k : v[i] = u[i + k]
  <2>1. u \in Seq(S)
    BY <1>2
  <2> QED
    BY <1>3, <2>1, RestProperties
<1>8. PICK x : x = r \o b
  OBVIOUS
<1>9. /\ x \in Seq(S) /\ Len(x) = Len(r) + Len(b)
      /\ \A i \in 1 .. Len(r) : x[i] = r[i]
      /\ \A i \in Len(r) + 1 .. Len(x) : x[i] = b[i - Len(r)]
  BY <1>8, Concat
<1>10. PICK p \in Nat, q \in Nat : p = Len(a) /\ q = Len(b)
  OBVIOUS
<1>11. Len(u) = p + q /\ Len(r) = p - k /\ Len(v) = p + q - k /\ Len(x) = p + q - k /\ k <= p
  BY <1>2, <1>6, <1>7, <1>9, <1>10
<1>12. v = x
  <2>1. ASSUME NEW i \in 1 .. Len(v) PROVE v[i] = x[i]
    <3>0. i \in 1 .. p + q - k
      BY <1>11
    <3>1. CASE i <= p - k
      <4>1. i \in 1 .. Len(r) /\ i \in 1 .. Len(a) - k /\ i \in 1 .. Len(u) - k
            /\ i + k \in 1 .. Len(a)
        BY <1>10, <1>11, <3>0, <3>1
      <4> QED
        BY <1>2, <1>6, <1>7, <1>9, <4>1
    <3>2. CASE i > p - k
      <4>1. /\ i + k \in Len(a) + 1 .. Len(u) /\ (i + k) - Len(a) = i - Len(r)
            /\ i \in Len(r) + 1 .. Len(x) /\ i \in 1 .. Len(u) - k
        BY <1>10, <1>11, <3>0, <3>2
      <4> QED
        BY <1>2, <1>7, <1>9, <4>1
    <3> QED
      BY <3>0, <3>1, <3>2
  <2>2. Len(v) = Len(x)
    BY <1>11
  <2> QED
    BY <1>9, <2>1, <2>2, SameSequence
<1> QED
  BY <1>1, <1>3, <1>4, <1>6, <1>7, <1>8, <1>12 DEF Rest

-----------------------------------------------------------------------------
(* The stream of the abstract specification, and each step of the frames.  *)
Item == [conn : Nat, pos : Nat]

LEMMA Reached ==
    ASSUME FramingInv, ~Broken
    PROVE  LastPos(Received, conn) \in Nat /\ LastPos(Received, conn) <= written
<1> USE DEF FramingInv
<1>1. LastPos(Received, conn) \in Nat /\ written \in Nat
  <2>1. Received \in Seq(Bytes)
    BY ConcatProperties DEF Received, TypeInv
  <2> QED
    BY <2>1, LastPosNat, FramingAssumption DEF TypeInv
<1>2. PICK w \in Seq(Items) : w = InTransit
  BY ConcatProperties DEF InTransit, TypeInv
<1>3. PICK t \in Nat : t = LastPos(Received, conn)
  BY <1>1
<1>4. PICK a \in Nat : a = Ahead
  BY DEF Ahead, TypeInv
<1>5. WellFramed(w, a) /\ InOrder(w, a, conn, t, written) /\ Placed(w, a, t, written)
  BY <1>2, <1>3, <1>4 DEF TransitInv, Broken, TypeInv
<1>6. CASE w = <<>>
  BY <1>1, <1>3, <1>5, <1>6 DEF InOrder
<1>7. CASE w # <<>>
  <2>1. CASE a > 0
    <3>1. 1 \in 1 .. Len(w) /\ w[1] \in Bytes /\ w[1].pos = t + 1
      BY <1>5, <1>7, <2>1 DEF WellFramed, InOrder
    <3> QED
      BY <1>1, <1>3, <1>5, <3>1 DEF Placed
  <2>2. CASE a = 0
    <3>1. w[1] \in Lengths /\ w[2].pos = t + 1 /\ 1 \in 1 .. Len(w)
      BY <1>5, <1>7, <2>2 DEF WellFramed, InOrder
    <3>2. PICK m \in Nat : m > 0 /\ w[1].len = m
      BY <3>1, Disjoint
    <3>3. FrameAt(w, 1, m)
      BY <1>5, <3>1, <3>2 DEF WellFramed
    <3>4. 2 \in 1 .. Len(w) /\ w[2] \in Bytes
      BY <3>2, <3>3 DEF FrameAt
    <3> QED
      BY <1>1, <1>3, <1>5, <3>1, <3>4 DEF Placed
  <2> QED
    BY <2>1, <2>2
<1> QED
  BY <1>6, <1>7

LEMMA FlowTypes ==
    ASSUME FramingInv
    PROVE  /\ unread \in Seq(Item) /\ Flow \in Seq(Item)
           /\ ~Broken => Coming \in Seq(Item) /\ Flow = unread \o Coming
           /\ Broken => Flow = unread
<1>1. unread \in Seq(Item)
  <2>1. Bytes \subseteq Item
    BY FramingAssumption DEF Bytes, Item
  <2> QED
    BY <2>1, SeqMonotonic DEF FramingInv, TypeInv
<1>2. ASSUME ~Broken PROVE Coming \in Seq(Item)
  <2>1. conn \in Nat /\ written \in Nat
    BY FramingAssumption DEF FramingInv, TypeInv
  <2> QED
    BY <1>2, <2>1, Reached, RunProperties DEF Coming, Item
<1> QED
  BY <1>1, <1>2, ConcatProperties DEF Flow

(* The bytes a read() returns are the next of the stream.                  *)
LEMMA ReceiveMaps ==
    ASSUME NEW b \in Seq(Item), NEW c \in Seq(Item), NEW k \in Nat, k > 0, k <= Len(b),
           Flow = b \o c, Flow' = Rest(b, k) \o c,
           delivered' = delivered \o First(b, k),
           UNCHANGED <<conn, written>>, Broken' = Broken
    PROVE  Stream!Receive
<1>1. /\ k \in 1 .. Len(b \o c)
      /\ SubSeq(b \o c, 1, k) = First(b, k)
      /\ SubSeq(b \o c, k + 1, Len(b \o c)) = Rest(b, k) \o c
  BY TakenInFront
<1>2. /\ k \in 1 .. Len(Flow)
      /\ delivered' = delivered \o SubSeq(Flow, 1, k)
      /\ Flow' = SubSeq(Flow, k + 1, Len(Flow))
  BY <1>1
<1> QED
  BY <1>2 DEF Stream!Receive

LEMMA InitMaps == Init => Stream!Init
<1> SUFFICES ASSUME Init PROVE Stream!Init
  OBVIOUS
<1>1. /\ conn = 1 /\ written = 0 /\ unread = <<>> /\ delivered = <<>> /\ rpc = "ready"
  BY DEF Init
<1>2. Received = <<>> /\ LastPos(Received, conn) = 0
  BY <1>1 DEF Received, LastPos
<1>3. Coming = <<>>
  <2>1. Run(1, 0, 0) \in Seq(Item) /\ Len(Run(1, 0, 0)) = 0
    BY RunProperties DEF Item
  <2> QED
    BY <1>1, <1>2, <2>1 DEF Coming
<1>4. Flow = <<>> /\ Broken = FALSE
  BY <1>1, <1>3 DEF Flow, Broken
<1> QED
  BY <1>1, <1>4 DEF Stream!Init

LEMMA WriteMaps == FramingInv /\ Write => Stream!Send
<1> SUFFICES ASSUME FramingInv, Write PROVE Stream!Send
  OBVIOUS
<1>1. PICK n \in 1 .. MaxFrame : written' = written + n
  BY DEF Write
<1>2. UNCHANGED <<conn, rpc, unread, delivered>>
  BY DEF Write, memBuf
<1>3. n \in Nat /\ n > 0 /\ written \in Nat /\ conn \in Nat
  BY FramingAssumption DEF FramingInv, TypeInv
<1>4. written' > written /\ Broken' = Broken /\ Received' = Received
  BY <1>1, <1>2, <1>3 DEF Broken, Received
<1>5. CASE Broken
  <2>1. Flow' = Flow
    BY <1>2, <1>4, <1>5 DEF Flow
  <2> QED
    BY <1>2, <1>4, <1>5, <2>1 DEF Stream!Send
<1>6. CASE ~Broken
  <2>1. PICK t \in Nat : t = LastPos(Received, conn) /\ t <= written
    BY <1>6, Reached
  <2>2. PICK m \in Nat : m = written' /\ written <= m
    BY <1>1, <1>3
  <2>3. Run(conn, t, m) = Run(conn, t, written) \o Run(conn, written, m)
    <3>1. PICK c \in Nat, e \in Nat : c = conn /\ e = written
      BY <1>3
    <3>2. t <= e /\ e <= m
      BY <2>1, <2>2, <3>1
    <3>3. Run(c, t, m) = Run(c, t, e) \o Run(c, e, m)
      <4>1. c \in Nat /\ e \in Nat /\ t \in Nat /\ m \in Nat
        OBVIOUS
      <4> QED
        BY <3>2, <4>1, RunJoins, ZenonT(30)
    <3> QED
      BY <3>1, <3>3
  <2>4. PICK x \in Seq(Item) : x = Run(conn, t, written)
    BY <1>3, <2>1, RunProperties DEF Item
  <2>5. PICK y \in Seq(Item) : y = Run(conn, written, m)
    BY <1>3, <2>2, RunProperties DEF Item
  <2>6. Coming = x /\ Coming' = x \o y
    BY <1>2, <1>4, <2>1, <2>2, <2>3, <2>4, <2>5 DEF Coming
  <2>7. Flow = unread \o x /\ Flow' = unread \o (x \o y)
    BY <1>2, <1>4, <1>6, <2>6 DEF Flow
  <2>8. (unread \o x) \o y = unread \o (x \o y)
    <3>1. unread \in Seq(Item)
      BY FlowTypes
    <3> QED
      BY <3>1, ConcatAssociative
  <2>9. Stream!Sent(conn, written, written') = y
    BY <2>2, <2>5 DEF Run, Stream!Sent
  <2>10. Flow' = Flow \o Stream!Sent(conn, written, written')
    BY <2>7, <2>8, <2>9
  <2> QED
    BY <1>2, <1>4, <1>6, <2>10 DEF Stream!Send
<1> QED
  BY <1>5, <1>6

(* What moves the frames only is not seen.                                 *)
LEMMA HiddenMaps ==
    FramingInv /\ (Flush \/ Spill \/ ReadMisses \/ ReadLength) => UNCHANGED Stream!vars
<1> SUFFICES ASSUME FramingInv, Flush \/ Spill \/ ReadMisses \/ ReadLength
             PROVE  UNCHANGED Stream!vars
  OBVIOUS
<1>1. UNCHANGED <<conn, written, unread, delivered>>
  BY DEF Flush, Spill, ReadMisses, ReadLength, memBuf, peer
<1>2. Broken' = Broken
  BY DEF Flush, Spill, ReadMisses, ReadLength, Broken
<1>3. Flow' = Flow
  BY <1>1, <1>2 DEF Flow, Coming, Received
<1> QED
  BY <1>1, <1>2, <1>3 DEF Stream!vars

LEMMA ReadBufferedMaps == FramingInv /\ ReadBuffered => Stream!Receive
<1> SUFFICES ASSUME FramingInv, ReadBuffered PROVE Stream!Receive
  OBVIOUS
<1>1. PICK len \in 1 .. MaxRead : TakeBuffered(unread, Least(len, Len(unread)))
  BY DEF ReadBuffered
<1>2. UNCHANGED <<conn, written, rpc>> /\ ~Broken /\ ~Broken' /\ unread # <<>>
  BY DEF ReadBuffered, peer, Broken
<1>3. unread \in Seq(Bytes) /\ delivered \in Seq(Bytes) /\ TypeInv /\ BufferInv
  BY DEF FramingInv, TypeInv
<1>4. PICK k \in Nat : k = Least(len, Len(unread)) /\ k > 0 /\ k <= Len(unread)
  BY <1>2, <1>3, FramingAssumption DEF Least
<1>5. delivered' = delivered \o First(unread, k) /\ unread' = Rest(unread, k)
  BY <1>1, <1>4 DEF TakeBuffered
<1>6. Received' = Received
  <2>1. TakeBuffered(unread, k) /\ Len(unread) <= Len(unread)
    BY <1>1, <1>3, <1>4
  <2>2. Received' = delivered \o unread
    BY <1>3, <1>4, <2>1, Taken
  <2> QED
    BY <2>2 DEF Received
<1>7. Coming' = Coming
  BY <1>2, <1>6 DEF Coming
<1>8. PICK c \in Seq(Item) : c = Coming /\ Flow = unread \o c
  BY <1>2, FlowTypes
<1>9. Flow' = Rest(unread, k) \o c
  BY <1>2, <1>5, <1>7, <1>8 DEF Flow
<1>10. unread \in Seq(Item) /\ Broken' = Broken
  BY <1>2, FlowTypes DEF Broken
<1> QED
  BY <1>2, <1>4, <1>5, <1>8, <1>9, <1>10, ReceiveMaps

(* The frame read is the next part of the stream.                          *)
LEMMA ReadFrameMaps == FramingInv /\ (ReadWhole \/ ReadPart) => Stream!Receive
<1> SUFFICES ASSUME FramingInv, ReadWhole \/ ReadPart PROVE Stream!Receive
  OBVIOUS
<1>1. /\ UNCHANGED <<conn, written>> /\ ~Broken /\ ~Broken'
      /\ rpc = "payload" /\ Len(wire) >= need
  BY DEF ReadWhole, ReadPart, peer, Broken
<1>2. /\ Payload \in Seq(Bytes) /\ Len(Payload) = need /\ need > 0 /\ Received = delivered
      /\ \A i \in 1 .. need : Payload[i].conn = conn
      /\ \A i \in 1 .. need : Payload[i].pos = LastPos(delivered, conn) + i
      /\ LastPos(delivered \o Payload, conn) = LastPos(delivered, conn) + need
      /\ LastPos(delivered \o Payload, conn) <= written
  BY <1>1, PayloadArrives
<1>3. /\ unread = <<>> /\ want \in Nat /\ want > 0 /\ need \in Nat /\ conn \in Nat
      /\ written \in Nat /\ delivered \in Seq(Bytes) /\ TypeInv /\ BufferInv
  BY <1>1, FramingAssumption DEF FramingInv, ReaderInv, TypeInv
<1>4. PICK q \in Seq(Bytes) : q = Payload /\ Len(q) = need
  BY <1>2
<1>5. PICK t \in Nat : t = LastPos(delivered, conn)
  BY <1>3, LastPosNat
<1>6. PICK s \in Nat : s = t + need /\ t <= s /\ s <= written
  BY <1>2, <1>3, <1>5
<1>7. PICK c \in Seq(Item) : c = Run(conn, s, written)
  BY <1>3, <1>6, RunProperties DEF Item
<1>8. q \in Seq(Item) /\ q = Run(conn, t, s)
  <2>1. Bytes \subseteq Item
    BY FramingAssumption DEF Bytes, Item
  <2>2. q \in Seq(Item)
    BY <2>1, SeqMonotonic
  <2>3. PICK r \in Seq(Item) : /\ r = Run(conn, t, s) /\ Len(r) = s - t
                               /\ \A i \in 1 .. s - t : r[i] = [conn |-> conn, pos |-> t + i]
    <3>1. PICK d \in Nat : d = conn
      BY <1>3
    <3>2. t <= s
      BY <1>6
    <3>3. /\ Run(d, t, s) \in Seq(Item) /\ Len(Run(d, t, s)) = s - t
          /\ \A i \in 1 .. s - t : Run(d, t, s)[i] = [conn |-> d, pos |-> t + i]
      BY <3>2, RunProperties DEF Item
    <3> QED
      BY <3>1, <3>3
  <2>4. s - t = need
    BY <1>3, <1>6
  <2>5. ASSUME NEW i \in 1 .. Len(q) PROVE q[i] = r[i]
    <3>1. i \in 1 .. need /\ q[i] \in Item
      BY <1>4, <2>2
    <3>2. q[i].conn = conn /\ q[i].pos = t + i
      BY <1>2, <1>4, <1>5, <3>1
    <3>3. q[i] = [conn |-> q[i].conn, pos |-> q[i].pos]
      BY <3>1 DEF Item
    <3> QED
      BY <2>3, <2>4, <3>1, <3>2, <3>3
  <2>6. Len(q) = Len(r)
    BY <1>4, <2>3, <2>4
  <2> QED
    BY <2>2, <2>3, <2>5, <2>6, SameSequence
<1>9. Flow = q \o c
  <2>1. Run(conn, t, written) = Run(conn, t, s) \o Run(conn, s, written)
    <3>1. PICK d \in Nat, n \in Nat : d = conn /\ n = written
      BY <1>3
    <3>2. t <= s /\ s <= n
      BY <1>6, <3>1
    <3>3. Run(d, t, n) = Run(d, t, s) \o Run(d, s, n)
      BY <3>2, RunJoins, ZenonT(30)
    <3> QED
      BY <3>1, <3>3
  <2>2. Coming = q \o c
    BY <1>2, <1>5, <1>7, <1>8, <2>1 DEF Coming
  <2>3. Coming \in Seq(Item) /\ Flow = <<>> \o Coming
    BY <1>1, <1>3, FlowTypes
  <2> QED
    BY <2>2, <2>3, ConcatEmptySeq
<1>10. PICK k \in Nat : /\ k > 0 /\ k <= Len(q) /\ delivered' = delivered \o First(q, k)
                        /\ unread' = Rest(q, k) /\ Received' = delivered \o q
  <2>1. CASE ReadWhole
    <3>1. delivered' = delivered \o q /\ unread' = <<>>
      BY <1>3, <1>4, <2>1 DEF ReadWhole, memBuf
    <3>2. First(q, Len(q)) = q /\ Rest(q, Len(q)) = <<>>
      BY SubSeqFull, SubSeqEmpty DEF First, Rest
    <3>3. delivered \o q \in Seq(Bytes) /\ (delivered \o q) \o <<>> = delivered \o q
      BY <1>3, ConcatProperties, ConcatEmptySeq
    <3>4. Len(q) \in Nat /\ Len(q) > 0
      BY <1>2, <1>4
    <3>5. PICK l \in Nat : l = Len(q) /\ l > 0 /\ l <= Len(q)
      BY <3>4
    <3>6. delivered' = delivered \o First(q, l) /\ unread' = Rest(q, l)
      BY <3>1, <3>2, <3>5
    <3>7. Received' = delivered \o q
      BY <3>1, <3>3 DEF Received
    <3> QED
      BY <3>5, <3>6, <3>7
  <2>2. CASE ReadPart
    <3>1. unread \o Payload = q
      BY <1>3, <1>4, ConcatEmptySeq
    <3>2. PICK k \in Nat : k = Least(want, need) /\ k > 0 /\ k <= Len(q)
      BY <1>2, <1>3, <1>4 DEF Least
    <3>3. TakeBuffered(q, k)
      BY <2>2, <3>1, <3>2 DEF ReadPart
    <3>4. Len(unread) <= Len(q)
      BY <1>3
    <3>5. Received' = delivered \o q
      BY <1>3, <3>2, <3>3, <3>4, Taken
    <3> QED
      BY <3>2, <3>3, <3>5 DEF TakeBuffered
  <2> QED
    BY <2>1, <2>2
<1>11. Coming' = c
  BY <1>1, <1>2, <1>4, <1>5, <1>6, <1>7, <1>10 DEF Coming
<1>12. Flow' = Rest(q, k) \o c
  BY <1>1, <1>10, <1>11 DEF Flow
<1>13. Broken' = Broken
  BY <1>1 DEF Broken
<1> QED
  BY <1>1, <1>7, <1>8, <1>9, <1>10, <1>12, <1>13, ReceiveMaps

(* A read that fails and a close() cut the stream off after memBuf_.       *)
LEMMA BreakMaps ==
    FramingInv /\ (ReadFails \/ Close) => Stream!Break \/ UNCHANGED Stream!vars
<1> SUFFICES ASSUME FramingInv, ReadFails \/ Close
             PROVE  Stream!Break \/ UNCHANGED Stream!vars
  OBVIOUS
<1>1. UNCHANGED <<conn, written, unread, delivered>> /\ Broken'
  BY DEF ReadFails, Close, memBuf, peer, Broken
<1>2. Flow' = unread
  BY <1>1 DEF Flow
<1>3. CASE Broken
  <2>1. Flow' = Flow /\ Broken' = Broken
    BY <1>1, <1>2, <1>3 DEF Flow, Broken
  <2> QED
    BY <1>1, <2>1 DEF Stream!vars
<1>4. CASE ~Broken
  <2>1. PICK c \in Seq(Item) : Flow = unread \o c
    BY <1>4, FlowTypes
  <2>2. unread \in Seq(Item)
    BY FlowTypes
  <2>3. PICK k \in Nat : k = Len(unread)
    BY <2>2
  <2>4. k \in 0 .. Len(Flow) /\ SubSeq(Flow, 1, k) = unread
    <3>1. CASE unread = <<>>
      <4>1. k = 0 /\ Flow \in Seq(Item)
        BY <2>3, <3>1, FlowTypes
      <4> QED
        BY <3>1, <4>1, SubSeqEmpty
    <3>2. CASE unread # <<>>
      <4>1. k > 0 /\ k <= Len(unread)
        BY <2>2, <2>3, <3>2
      <4>2. k \in 1 .. Len(unread \o c) /\ SubSeq(unread \o c, 1, k) = First(unread, k)
        BY <2>2, <4>1, TakenInFront
      <4>3. First(unread, k) = unread
        BY <2>2, <2>3, SubSeqFull DEF First
      <4> QED
        BY <2>1, <4>2, <4>3
    <3> QED
      BY <3>1, <3>2
  <2>5. Flow' = SubSeq(Flow, 1, k)
    BY <1>2, <2>4
  <2>6. Broken' = TRUE
    BY <1>1 DEF Broken
  <2> QED
    BY <1>1, <1>4, <2>4, <2>5, <2>6 DEF Stream!Break
<1> QED
  BY <1>3, <1>4

LEMMA ReopenMaps == FramingInv /\ Reopen => Stream!Reconnect
<1> SUFFICES ASSUME FramingInv, Reopen PROVE Stream!Reconnect
  OBVIOUS
<1>1. /\ UNCHANGED <<unread, delivered>> /\ conn' = conn + 1 /\ written' = 0
      /\ rpc = "closed" /\ rpc' = "ready"
  BY DEF Reopen, memBuf
<1>2. Broken /\ Broken' = FALSE
  BY <1>1 DEF Broken
<1>3. FramingInv'
  BY ReopenHolds
<1>4. unread \in Seq(Item) /\ conn \in Nat
  BY FlowTypes, FramingAssumption DEF FramingInv, TypeInv
<1>5. PICK s \in Seq(Bytes) : s = Received
  BY ConcatProperties DEF Received, FramingInv, TypeInv
<1>6. LastPos(s, conn + 1) = 0
  BY <1>5, NothingOfTheNext
<1>7. Run(conn + 1, 0, 0) = <<>>
  <2>1. PICK d \in Nat : d = conn + 1
    BY <1>4
  <2>2. Run(d, 0, 0) \in Seq(Item) /\ Len(Run(d, 0, 0)) = 0
    BY RunProperties DEF Item
  <2> QED
    BY <2>1, <2>2
<1>8. Coming' = <<>>
  BY <1>1, <1>5, <1>6, <1>7 DEF Coming, Received
<1>9. Flow' = Flow
  BY <1>1, <1>2, <1>4, <1>8, ConcatEmptySeq DEF Flow
<1> QED
  BY <1>1, <1>2, <1>9 DEF Stream!Reconnect

LEMMA StepMaps == FramingInv /\ [Next]_vars => [Stream!Next]_(Stream!vars)
<1> SUFFICES ASSUME FramingInv, [Next]_vars PROVE [Stream!Next]_(Stream!vars)
  OBVIOUS
<1>1. ASSUME Write PROVE Stream!Next
  BY <1>1, WriteMaps DEF Stream!Next
<1>2. ASSUME Flush \/ Spill PROVE UNCHANGED Stream!vars
  BY <1>2, HiddenMaps
<1>3. ASSUME ReadStep PROVE Stream!Next \/ UNCHANGED Stream!vars
  BY <1>3, HiddenMaps, ReadBufferedMaps, ReadFrameMaps DEF ReadStep, Stream!Next
<1>4. ASSUME ReadFails \/ Close PROVE Stream!Next \/ UNCHANGED Stream!vars
  BY <1>4, BreakMaps DEF Stream!Next
<1>5. ASSUME Reopen PROVE Stream!Next
  BY <1>5, ReopenMaps DEF Stream!Next
<1>6. ASSUME UNCHANGED vars PROVE UNCHANGED Stream!vars
  BY <1>6 DEF vars, peer, memBuf, Stream!vars, Broken, Flow, Coming, Received
<1> QED
  BY <1>1, <1>2, <1>3, <1>4, <1>5, <1>6 DEF Next, Finished

(* The transport implements the stream of bytes: the frames, memBuf_ and   *)
(* the reads that cut across them do not show (TSaslTransport.cpp:145-254).*)
THEOREM TransportIsByteStream == Spec => IsByteStream
<1>1. Init => Stream!Init
  BY InitMaps
<1>2. FramingInv /\ [Next]_vars => [Stream!Next]_(Stream!vars)
  BY StepMaps
<1> QED
  BY <1>1, <1>2, Conservation, PTL DEF Spec, IsByteStream, Stream!Spec
=============================================================================
