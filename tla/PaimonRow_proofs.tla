--------------------------- MODULE PaimonRow_proofs ---------------------------
(***************************************************************************)
(* Proofs about PaimonRow, for rows of any number of fields and strings of *)
(* any length: what hash_code() reads is inside the buffer and a whole     *)
(* number of words, and is what a new builder would hold; a row reads back *)
(* as its calls left it; every hash has a bucket.                          *)
(***************************************************************************)
EXTENDS PaimonRow, TLAPS

Whole(n) == \E k \in Nat : n = 8 * k

Fields == {"arity", "fixed", "cursor", "size", "nulls", "slots", "words"}

(* What is known of a builder's buffer.                                    *)
BufferOK(b) ==
    /\ DOMAIN b = Fields
    /\ b.arity \in Nat /\ b.fixed = FixedSize(b.arity)
    /\ b.size \in Nat /\ b.cursor \in Nat
    /\ b.fixed <= b.cursor /\ b.cursor <= b.size
    /\ Whole(b.cursor)

(* And of its slots and null bits.                                         *)
Typed(b) ==
    /\ BufferOK(b) /\ b.nulls \subseteq Pos(b.arity)
    /\ DOMAIN b.slots = Pos(b.arity)
    /\ \A p \in Pos(b.arity) : DOMAIN b.slots[p] = Pieces

TInv ==
    /\ use \in Uses
    /\ Typed(row) /\ row.arity = use.arity
    /\ Typed(fresh) /\ fresh.arity = use.arity
    /\ DOMAIN last = Pos(use.arity)
    /\ nulled \subseteq Pos(use.arity) /\ covered \subseteq Pos(use.arity)
    /\ writes \in 0 .. use.writes /\ rows \in 1 .. MaxRows

(* round_to_nearest_word: the next whole number of words.                  *)
LEMMA Rounding ==
    ASSUME NEW n \in Nat
    PROVE  /\ RoundedToWord(n) \in Nat /\ Whole(RoundedToWord(n))
           /\ n <= RoundedToWord(n) /\ RoundedToWord(n) < n + 8
<1>1. /\ n = 8 * (n \div 8) + (n % 8)
      /\ n \div 8 \in Nat /\ n % 8 \in 0 .. 7
  OBVIOUS
<1>2. CASE n % 8 = 0
  BY <1>1, <1>2 DEF RoundedToWord, Whole
<1>3. CASE n % 8 # 0
  <2>1. RoundedToWord(n) = 8 * (n \div 8 + 1)
    BY <1>1, <1>3 DEF RoundedToWord
  <2> QED
    BY <1>1, <1>3, <2>1 DEF Whole
<1> QED
  BY <1>2, <1>3

(* ensure_capacity: room for what is needed, and nothing is cut off.       *)
LEMMA Capacity ==
    ASSUME NEW size \in Nat, NEW need \in Nat
    PROVE  /\ EnsureCapacity(size, need) \in Nat
           /\ need <= EnsureCapacity(size, need) /\ size <= EnsureCapacity(size, need)
<1>1. size \div 2 \in Nat
  OBVIOUS
<1> QED
  BY <1>1 DEF EnsureCapacity, Larger

(* calculate_bitset_width_in_bytes: whole words, with a bit for every      *)
(* field after the 8 bits of the header.                                   *)
LEMMA NullBitsFit ==
    ASSUME NEW arity \in Nat
    PROVE  /\ NullBitsSize(arity) \in Nat /\ Whole(NullBitsSize(arity))
           /\ arity + 8 <= 8 * NullBitsSize(arity)
           /\ FixedSize(arity) \in Nat /\ Whole(FixedSize(arity))
<1> DEFINE w == (arity + 71) \div 64
<1>1. w \in Nat /\ arity + 71 <= 64 * w + 63
  OBVIOUS
<1>2. NullBitsSize(arity) = 8 * w
  BY DEF NullBitsSize
<1> HIDE DEF w
<1>3. FixedSize(arity) = 8 * (w + arity)
  BY <1>1, <1>2 DEF FixedSize
<1> QED
  BY <1>1, <1>2, <1>3 DEF Whole

(* A new builder.                                                          *)
LEMMA StartsTyped ==
    ASSUME NEW arity \in Nat, NEW varCapacity \in Nat
    PROVE  /\ Typed(NewBuilder(arity, varCapacity))
           /\ NewBuilder(arity, varCapacity).arity = arity
<1> DEFINE b == NewBuilder(arity, varCapacity)
<1>1. BufferOK(b) /\ b.arity = arity
  BY NullBitsFit DEF NewBuilder, BufferOK, Fields
<1>2. b.nulls = {} /\ b.slots = ZeroSlots(arity)
  BY DEF NewBuilder
<1> QED
  BY <1>1, <1>2 DEF Typed, ZeroSlots

LEMMA WholeSum ==
    ASSUME NEW m \in Nat, NEW n \in Nat, Whole(m), Whole(n)
    PROVE  Whole(m + n) /\ m % 8 = 0
<1>1. PICK j \in Nat : m = 8 * j
  BY DEF Whole
<1>2. PICK k \in Nat : n = 8 * k
  BY DEF Whole
<1>3. m + n = 8 * (j + k) /\ j + k \in Nat
  BY <1>1, <1>2
<1> QED
  BY <1>1, <1>3 DEF Whole

(* A call that writes a slot alone keeps the buffer as it is.              *)
LEMMA SlotCalls ==
    ASSUME NEW b, NEW c, Typed(b), NEW p \in Pos(b.arity), NEW v, NEW width, NEW len,
           \/ c = WritePrimitive(b, p, v, width)
           \/ c = WriteToFixed(b, p, v, len)
           \/ c = SetNullAt(b, p)
    PROVE  Typed(c) /\ c.arity = b.arity
<1>1. /\ DOMAIN c = DOMAIN b
      /\ c.arity = b.arity /\ c.fixed = b.fixed
      /\ c.size = b.size /\ c.cursor = b.cursor
      /\ c.nulls \subseteq b.nulls \cup {p}
      /\ DOMAIN c.slots = DOMAIN b.slots
  BY DEF Typed, BufferOK, Fields, WritePrimitive, WriteToFixed, SetNullAt
<1>2. \E slot : DOMAIN slot = Pieces /\ c.slots = [b.slots EXCEPT ![p] = slot]
  <2> DEFINE value == [i \in Pieces |-> IF i \in Filled(width) THEN <<"value", v, width>>
                                                               ELSE b.slots[p][i]]
             text  == [i \in Pieces |-> <<"string", v, len>>]
             zeros == [i \in Pieces |-> Zero]
  <2>1. \/ c.slots = [b.slots EXCEPT ![p] = value]
        \/ c.slots = [b.slots EXCEPT ![p] = text]
        \/ c.slots = [b.slots EXCEPT ![p] = zeros]
    BY DEF Typed, BufferOK, Fields, WritePrimitive, WriteToFixed, SetNullAt
  <2>2. DOMAIN value = Pieces /\ DOMAIN text = Pieces /\ DOMAIN zeros = Pieces
    OBVIOUS
  <2> QED
    BY <2>1, <2>2, Zenon
<1> QED
  BY <1>1, <1>2 DEF Typed, BufferOK

(* A string of the variable part gets room before it is written.           *)
LEMMA VarCalls ==
    ASSUME NEW b, NEW c, Typed(b), NEW p \in Pos(b.arity), NEW v, NEW len \in Nat,
           c = WriteToVar(b, p, v, len)
    PROVE  Typed(c) /\ c.arity = b.arity
<1> DEFINE r == RoundedToWord(len)
<1>1. r \in Nat /\ Whole(r)
  BY Rounding
<1>2. /\ DOMAIN c = DOMAIN b
      /\ c.size = EnsureCapacity(b.size, b.cursor + r)
      /\ c.cursor = b.cursor + r
      /\ c.arity = b.arity /\ c.fixed = b.fixed /\ c.nulls = b.nulls
      /\ c.slots = [b.slots EXCEPT ![p] = [i \in Pieces |->
                    <<"offset", b.cursor % SlotLimit, len % SlotLimit>>]]
  BY DEF Typed, BufferOK, Fields, WriteToVar
<1> HIDE DEF r
<1>3. b.cursor + r \in Nat /\ b.size \in Nat
  BY <1>1 DEF Typed, BufferOK
<1>4. c.size \in Nat /\ b.cursor + r <= c.size
  BY <1>2, <1>3, Capacity
<1>5. Whole(c.cursor)
  BY <1>1, <1>2, WholeSum DEF Typed, BufferOK
<1>6. BufferOK(c)
  BY <1>1, <1>2, <1>3, <1>4, <1>5, NullBitsFit DEF Typed, BufferOK
<1> QED
  BY <1>2, <1>6 DEF Typed

LEMMA ResetTyped ==
    ASSUME NEW b, Typed(b)
    PROVE  Typed(ResetBuilder(b)) /\ ResetBuilder(b).arity = b.arity
<1> DEFINE c == ResetBuilder(b)
<1>1. /\ DOMAIN c = DOMAIN b /\ c.size = b.size /\ c.arity = b.arity
      /\ c.fixed = b.fixed /\ c.cursor = b.fixed
      /\ c.nulls = {} /\ c.slots = ZeroSlots(b.arity)
  BY DEF Typed, BufferOK, Fields, ResetBuilder
<1> HIDE DEF c
<1>2. BufferOK(c)
  BY <1>1, NullBitsFit DEF Typed, BufferOK
<1> QED
  BY <1>1, <1>2 DEF Typed, ZeroSlots, c

LEMMA CallTyped ==
    ASSUME TInv, NEW p \in Pos(use.arity), NEW call, Call(p, call),
           Typed(row)', row'.arity = row.arity, Typed(fresh)', fresh'.arity = fresh.arity
    PROVE  TInv'
<1>1. use.writes \in Nat
  BY PaimonAssumption DEF TInv
<1>2. use' = use /\ rows' = rows /\ DOMAIN last' = DOMAIN last
  BY DEF Call
<1>3. writes' \in 0 .. use.writes
  BY <1>1 DEF Call, TInv
<1>4. nulled' \subseteq nulled \cup {p} /\ covered' \subseteq covered \cup {p}
  BY DEF Call
<1> QED
  BY <1>2, <1>3, <1>4 DEF TInv

LEMMA NextKeepsTypes == TInv /\ [Next]_vars => TInv'
<1> SUFFICES ASSUME TInv, [Next]_vars PROVE TInv'
  OBVIOUS
<1>0. /\ use \in Uses /\ use.arity \in Nat /\ use.varCapacity \in Nat /\ use.writes \in Nat
      /\ MaxRows \in Nat /\ use.lengths \subseteq Nat
      /\ row.arity = use.arity /\ fresh.arity = use.arity /\ Typed(row) /\ Typed(fresh)
  BY PaimonAssumption DEF TInv
<1>1. ASSUME NEW p \in Pos(use.arity), NEW v \in use.values, NEW width \in {1, 2, 4, 8},
             Write(p, v, width)
      PROVE  TInv'
  <2>1. Typed(row)' /\ row'.arity = row.arity /\ Typed(fresh)' /\ fresh'.arity = fresh.arity
    BY <1>0, <1>1, SlotCalls DEF Write
  <2> QED
    BY <1>1, <2>1, CallTyped DEF Write
<1>2. ASSUME NEW p \in Pos(use.arity), NEW v \in use.values, NEW len \in use.lengths,
             WriteString(p, v, len)
      PROVE  TInv'
  <2>1. len \in Nat
    BY <1>0
  <2>2. Typed(row)' /\ row'.arity = row.arity /\ Typed(fresh)' /\ fresh'.arity = fresh.arity
    BY <1>0, <1>2, <2>1, SlotCalls, VarCalls DEF WriteString, WriteStringTo
  <2> QED
    BY <1>2, <2>2, CallTyped DEF WriteString
<1>3. ASSUME NEW p \in Pos(use.arity), SetNull(p) PROVE TInv'
  <2>1. Typed(row)' /\ row'.arity = row.arity /\ Typed(fresh)' /\ fresh'.arity = fresh.arity
    BY <1>0, <1>3, SlotCalls DEF SetNull
  <2> QED
    BY <1>3, <2>1, CallTyped DEF SetNull
<1>4. CASE Reset
  <2>1. Typed(row)' /\ row'.arity = use.arity
    BY <1>0, <1>4, ResetTyped DEF Reset
  <2>2. Typed(fresh)' /\ fresh'.arity = use.arity
    BY <1>0, <1>4, StartsTyped DEF Reset, New
  <2>3. use' = use /\ writes' \in 0 .. use.writes /\ rows' \in 1 .. MaxRows
    BY <1>0, <1>4 DEF Reset, TInv
  <2> QED
    BY <1>4, <2>1, <2>2, <2>3 DEF Reset, TInv
<1>5. CASE Finished \/ UNCHANGED vars
  BY <1>5 DEF Finished, vars, history, TInv, Typed, BufferOK
<1> QED
  BY <1>1, <1>2, <1>3, <1>4, <1>5 DEF Next

LEMMA TypedAlways == Spec => []TInv
<1>1. Init => TInv
  BY StartsTyped, PaimonAssumption DEF Init, New, TInv
<1> QED
  BY <1>1, NextKeepsTypes, PTL DEF Spec

-----------------------------------------------------------------------------
(* Every builder keeps its layout: one slot per field, null bits only for  *)
(* its fields, through writes, growth and reset.                           *)
THEOREM Types == Spec => []TypeOK
<1>1. TInv => TypeOK
  BY DEF TInv, Typed, BufferOK, TypeOK
<1> QED
  BY <1>1, TypedAlways, PTL

(* The bytes that are hashed are inside the buffer, a whole number of      *)
(* words, and the null bits do not reach into the slots.                   *)
THEOREM Fits == Spec => []UsedFits
<1>1. TInv => UsedFits
  BY NullBitsFit, WholeSum DEF TInv, Typed, BufferOK, UsedFits
<1> QED
  BY <1>1, TypedAlways, PTL

(* paimon_bucket_from_hash: a bucket for every hash, negative ones too,    *)
(* and it is the remainder of the hash's magnitude, Math.abs(hash %        *)
(* numBuckets) of the Java version.                                        *)
THEOREM BucketRange ==
    ASSUME NEW hash \in Int, NEW n \in Nat \ {0}
    PROVE  /\ Bucket(hash, n) \in 0 .. n - 1
           /\ \E k \in Int : hash = n * k + Bucket(hash, n) \/ hash = n * k - Bucket(hash, n)
<1> DEFINE r == hash % n
           q == hash \div n
<1>1. r \in 0 .. n - 1 /\ q \in Int /\ hash = n * q + r
  OBVIOUS
<1> HIDE DEF r, q
<1>2. CASE hash >= 0 \/ r = 0
  <2>1. Bucket(hash, n) = r
    BY <1>1, <1>2 DEF Bucket, Remainder, r
  <2> QED
    BY <1>1, <2>1
<1>3. CASE ~ (hash >= 0 \/ r = 0)
  <2>1. Remainder(hash, n) = r - n
    BY <1>3 DEF Remainder, r
  <2>2. Bucket(hash, n) = n - r
    BY <1>1, <2>1 DEF Bucket
  <2>3. hash = n * (q + 1) - (n - r) /\ q + 1 \in Int
    BY <1>1
  <2>4. \E k \in Int : hash = n * k - Bucket(hash, n)
    BY <2>2, <2>3, Zenon
  <2>5. n - r \in 0 .. n - 1
    BY <1>1, <1>3
  <2> QED
    BY <2>2, <2>4, <2>5, Zenon
<1> QED
  BY <1>2, <1>3

-----------------------------------------------------------------------------
(* A reused builder and a new one hold the same bytes below the cursor.    *)

Shape(b) ==
    /\ DOMAIN b = Fields
    /\ b.arity \in Nat /\ b.fixed = FixedSize(b.arity)
    /\ b.cursor \in Nat /\ b.fixed <= b.cursor
    /\ Whole(b.cursor - b.fixed)
    /\ Len(b.words) \in Nat

SInv ==
    /\ use \in Uses /\ row.arity = use.arity /\ fresh.arity = use.arity
    /\ Shape(row) /\ Shape(fresh)
    /\ ReusedAsNew

LEMMA LengthOf ==
    ASSUME NEW n \in Nat, NEW f, f = [k \in 1 .. n |-> f[k]]
    PROVE  Len(f) = n
<1> DEFINE S == {f[k] : k \in 1 .. n}
<1>1. f \in [1 .. n -> S]
  OBVIOUS
<1>2. f \in Seq(S)
  BY <1>1
<1> QED
  BY <1>1, <1>2

(* What write_bytes_to_var leaves in the words in use: the string's own    *)
(* words after those that were there.                                      *)
LEMMA VarWords ==
    ASSUME NEW b, Shape(b), NEW p, NEW v, NEW len \in Nat,
           NEW c, c = WriteToVar(b, p, v, len)
    PROVE  LET n == RoundedToWord(len) \div 8
           IN  /\ Shape(c) /\ n \in Nat
               /\ c.cursor = b.cursor + RoundedToWord(len)
               /\ UsedWords(b) \in Nat /\ UsedWords(c) = UsedWords(b) + n
               /\ \A k \in 1 .. UsedWords(c) :
                    WordAt(c, k) = IF k > UsedWords(b)
                                   THEN Word(v, len, k - UsedWords(b), Blank)
                                   ELSE WordAt(b, k)
<1> DEFINE r == RoundedToWord(len)
           n == r \div 8
           base == UsedWords(b)
           size == Larger(Len(b.words), base + n)
<1>1. r \in Nat /\ Whole(r)
  BY Rounding
<1>2. PICK i \in Nat : r = 8 * i
  BY <1>1 DEF Whole
<1>3. PICK j \in Nat : b.cursor - b.fixed = 8 * j
  BY DEF Shape, Whole
<1>4. b.fixed \in Nat
  BY NullBitsFit DEF Shape
<1>5. n = i /\ base = j
  BY <1>2, <1>3 DEF UsedWords, Shape
<1>6. size \in Nat /\ base + n <= size /\ Len(b.words) <= size
  BY <1>5 DEF Larger, Shape
<1>7. /\ DOMAIN c = Fields
      /\ c.cursor = b.cursor + r /\ c.arity = b.arity /\ c.fixed = b.fixed
      /\ c.words = [k \in 1 .. size |->
                      IF k > base /\ k <= base + n
                      THEN Word(v, len, k - base,
                                IF k = base + n THEN Padding(WordAt(b, k).data) ELSE Blank)
                      ELSE WordAt(b, k)]
  BY DEF WriteToVar, Shape, Fields, UsedWords
<1> HIDE DEF size, base, n, r
<1>8. Len(c.words) = size
  BY <1>6, <1>7, LengthOf
<1>9. c.cursor - c.fixed = 8 * (j + i) /\ c.cursor \in Nat /\ c.fixed <= c.cursor
  BY <1>1, <1>2, <1>3, <1>4, <1>7 DEF Shape
<1>10. Shape(c) /\ UsedWords(c) = base + n
  <2>1. j + i \in Nat
    OBVIOUS
  <2>2. Whole(c.cursor - c.fixed)
    BY <1>9, <2>1 DEF Whole
  <2>3. UsedWords(c) = j + i
    BY <1>7, <1>9, <2>1 DEF UsedWords
  <2> QED
    BY <1>5, <1>6, <1>7, <1>8, <1>9, <2>2, <2>3 DEF Shape
<1>11. ASSUME NEW k \in 1 .. base + n
       PROVE  WordAt(c, k) = IF k > base THEN Word(v, len, k - base, Blank) ELSE WordAt(b, k)
  <2>1. k \in 1 .. size /\ k <= Len(c.words)
    BY <1>5, <1>6, <1>8
  <2>2. WordAt(c, k) = c.words[k]
    BY <2>1 DEF WordAt
  <2> QED
    BY <1>5, <1>7, <2>1, <2>2 DEF Padding
<1> QED
  BY <1>1, <1>5, <1>7, <1>10, <1>11 DEF base, n, r

(* The calls that write a slot alone, and those of the variable part, keep *)
(* two equal builders equal; so does a reset beside a new builder.         *)
LEMMA SlotCallsSame ==
    ASSUME SInv, use' = use, NEW p, NEW v, NEW width, NEW len,
           \/ /\ row' = WritePrimitive(row, p, v, width)
              /\ fresh' = WritePrimitive(fresh, p, v, width)
           \/ /\ row' = WriteToFixed(row, p, v, len)
              /\ fresh' = WriteToFixed(fresh, p, v, len)
           \/ /\ row' = SetNullAt(row, p)
              /\ fresh' = SetNullAt(fresh, p)
    PROVE  SInv'
<1> DEFINE Kept == /\ DOMAIN row' = Fields /\ DOMAIN fresh' = Fields
                   /\ row'.cursor = row.cursor /\ row'.words = row.words
                   /\ fresh'.cursor = fresh.cursor /\ fresh'.words = fresh.words
                   /\ row'.fixed = row.fixed /\ fresh'.fixed = fresh.fixed
                   /\ row'.arity = row.arity /\ fresh'.arity = fresh.arity
                   /\ row'.nulls = fresh'.nulls /\ row'.slots = fresh'.slots
<1>0. /\ DOMAIN row = Fields /\ DOMAIN fresh = Fields
      /\ row.nulls = fresh.nulls /\ row.slots = fresh.slots
  BY DEF SInv, Shape, ReusedAsNew
<1>1. Kept
  <2>1. CASE /\ row' = WritePrimitive(row, p, v, width)
             /\ fresh' = WritePrimitive(fresh, p, v, width)
    BY <1>0, <2>1 DEF WritePrimitive, Fields
  <2>2. CASE /\ row' = WriteToFixed(row, p, v, len)
             /\ fresh' = WriteToFixed(fresh, p, v, len)
    BY <1>0, <2>2 DEF WriteToFixed, Fields
  <2>3. CASE row' = SetNullAt(row, p) /\ fresh' = SetNullAt(fresh, p)
    BY <1>0, <2>3 DEF SetNullAt, Fields
  <2> QED
    BY <2>1, <2>2, <2>3
<1>3. Shape(row)' /\ Shape(fresh)'
  BY <1>1 DEF SInv, Shape
<1>4. \A k : WordAt(row, k)' = WordAt(row, k) /\ WordAt(fresh, k)' = WordAt(fresh, k)
  BY <1>1 DEF WordAt
<1> QED
  BY <1>1, <1>3, <1>4 DEF SInv, ReusedAsNew, UsedWords

LEMMA VarCallsSame ==
    ASSUME SInv, use' = use, NEW p, NEW v, NEW len \in Nat,
           row' = WriteToVar(row, p, v, len), fresh' = WriteToVar(fresh, p, v, len)
    PROVE  SInv'
<1> DEFINE n == RoundedToWord(len) \div 8
<1>1. /\ Shape(row)' /\ n \in Nat
      /\ row'.cursor = row.cursor + RoundedToWord(len)
      /\ UsedWords(row) \in Nat /\ UsedWords(row)' = UsedWords(row) + n
      /\ \A k \in 1 .. UsedWords(row)' :
            WordAt(row, k)' = IF k > UsedWords(row)
                              THEN Word(v, len, k - UsedWords(row), Blank)
                              ELSE WordAt(row, k)
  BY VarWords DEF SInv
<1>2. /\ Shape(fresh)'
      /\ fresh'.cursor = fresh.cursor + RoundedToWord(len)
      /\ UsedWords(fresh)' = UsedWords(fresh) + n
      /\ \A k \in 1 .. UsedWords(fresh)' :
            WordAt(fresh, k)' = IF k > UsedWords(fresh)
                                THEN Word(v, len, k - UsedWords(fresh), Blank)
                                ELSE WordAt(fresh, k)
  BY VarWords DEF SInv
<1>3. /\ row.cursor = fresh.cursor /\ row.fixed = fresh.fixed
      /\ UsedWords(row) = UsedWords(fresh)
  BY DEF SInv, Shape, ReusedAsNew, UsedWords
<1>4. /\ row'.nulls = fresh'.nulls /\ row'.slots = fresh'.slots
      /\ row'.arity = row.arity /\ fresh'.arity = fresh.arity
  BY <1>3 DEF SInv, Shape, Fields, ReusedAsNew, WriteToVar
<1>5. \A k \in 1 .. UsedWords(row)' : WordAt(row, k)' = WordAt(fresh, k)'
  <2> SUFFICES ASSUME NEW k \in 1 .. UsedWords(row)'
               PROVE  WordAt(row, k)' = WordAt(fresh, k)'
    OBVIOUS
  <2>1. k \in 1 .. UsedWords(fresh)'
    BY <1>1, <1>2, <1>3
  <2>2. CASE k > UsedWords(row)
    BY <1>1, <1>2, <1>3, <2>1, <2>2
  <2>3. CASE ~ (k > UsedWords(row))
    <3>1. k \in 1 .. UsedWords(row)
      BY <1>1, <2>3
    <3>2. WordAt(row, k) = WordAt(fresh, k)
      BY <3>1 DEF SInv, ReusedAsNew, UsedWords
    <3> QED
      BY <1>1, <1>2, <1>3, <2>1, <2>3, <3>2
  <2> QED
    BY <2>2, <2>3
<1> QED
  BY <1>1, <1>2, <1>3, <1>4, <1>5 DEF SInv, ReusedAsNew, UsedWords

LEMMA NewSame ==
    ASSUME NEW arity \in Nat, NEW varCapacity \in Nat
    PROVE  /\ Shape(NewBuilder(arity, varCapacity))
           /\ UsedWords(NewBuilder(arity, varCapacity)) = 0
<1>1. FixedSize(arity) \in Nat /\ FixedSize(arity) - FixedSize(arity) = 8 * 0
  BY NullBitsFit
<1>2. Len(<<>>) = 0 /\ 0 \div 8 = 0
  OBVIOUS
<1> QED
  BY <1>1, <1>2 DEF NewBuilder, Shape, Fields, UsedWords, Whole

LEMMA ResetSame ==
    ASSUME NEW b, Shape(b), NEW varCapacity
    PROVE  /\ Shape(ResetBuilder(b)) /\ UsedWords(ResetBuilder(b)) = 0
           /\ ResetBuilder(b).arity = b.arity
           /\ ResetBuilder(b).cursor = NewBuilder(b.arity, varCapacity).cursor
           /\ ResetBuilder(b).nulls = NewBuilder(b.arity, varCapacity).nulls
           /\ ResetBuilder(b).slots = NewBuilder(b.arity, varCapacity).slots
<1>1. b.arity \in Nat
  BY DEF Shape
<1>2. FixedSize(b.arity) \in Nat /\ FixedSize(b.arity) - FixedSize(b.arity) = 8 * 0
      /\ 0 \div 8 = 0
  BY <1>1, NullBitsFit
<1> DEFINE c == ResetBuilder(b)
<1>3. /\ DOMAIN c = Fields /\ c.arity = b.arity
      /\ c.fixed = FixedSize(b.arity) /\ c.cursor = FixedSize(b.arity)
      /\ c.words = b.words /\ c.nulls = {} /\ c.slots = ZeroSlots(b.arity)
  BY DEF ResetBuilder, Shape, Fields
<1> HIDE DEF c
<1>4. Shape(c) /\ UsedWords(c) = 0
  BY <1>1, <1>2, <1>3 DEF Shape, UsedWords, Whole
<1> QED
  BY <1>3, <1>4 DEF c, NewBuilder

LEMMA NextKeepsSame == SInv /\ [Next]_vars => SInv'
<1> SUFFICES ASSUME SInv, [Next]_vars PROVE SInv'
  OBVIOUS
<1>1. ASSUME NEW p \in Pos(use.arity), NEW v \in use.values, NEW width \in {1, 2, 4, 8},
             Write(p, v, width)
      PROVE  SInv'
  BY <1>1, SlotCallsSame DEF Write, Call
<1>2. ASSUME NEW p \in Pos(use.arity), NEW v \in use.values, NEW len \in use.lengths,
             WriteString(p, v, len)
      PROVE  SInv'
  <2>1. len \in Nat /\ use' = use
    BY <1>2, PaimonAssumption DEF SInv, WriteString, Call
  <2>2. CASE len <= 7
    BY <1>2, <2>1, <2>2, SlotCallsSame DEF WriteString, WriteStringTo
  <2>3. CASE ~ (len <= 7)
    BY <1>2, <2>1, <2>3, VarCallsSame DEF WriteString, WriteStringTo
  <2> QED
    BY <2>2, <2>3
<1>3. ASSUME NEW p \in Pos(use.arity), SetNull(p) PROVE SInv'
  BY <1>3, SlotCallsSame DEF SetNull, Call
<1>4. CASE Reset
  <2>1. use.arity \in Nat /\ use.varCapacity \in Nat
    BY PaimonAssumption DEF SInv
  <2>2. use' = use /\ row' = ResetBuilder(row) /\ fresh' = New
    BY <1>4 DEF Reset
  <2>3. Shape(row)' /\ UsedWords(row)' = 0 /\ row'.arity = use.arity
    BY <2>2, ResetSame DEF SInv
  <2>4. Shape(fresh)' /\ fresh'.arity = use.arity
    BY <2>1, <2>2, NewSame DEF New, NewBuilder
  <2>5. row'.cursor = fresh'.cursor /\ row'.nulls = fresh'.nulls /\ row'.slots = fresh'.slots
    BY <2>2, ResetSame DEF SInv, New
  <2> QED
    BY <2>2, <2>3, <2>4, <2>5 DEF SInv, ReusedAsNew
<1>5. CASE Finished \/ UNCHANGED vars
  BY <1>5 DEF Finished, vars, SInv, Shape, ReusedAsNew, WordAt, UsedWords
<1> QED
  BY <1>1, <1>2, <1>3, <1>4, <1>5 DEF Next

LEMMA SameAlways == Spec => []SInv
<1>1. Init => SInv
  <2> SUFFICES ASSUME Init PROVE SInv
    OBVIOUS
  <2>1. use.arity \in Nat /\ use.varCapacity \in Nat
    BY PaimonAssumption DEF Init
  <2>2. Shape(New) /\ UsedWords(New) = 0 /\ New.arity = use.arity
    BY <2>1, NewSame DEF New, NewBuilder
  <2> QED
    BY <2>2 DEF Init, SInv, ReusedAsNew
<1> QED
  BY <1>1, NextKeepsSame, PTL DEF Spec

(* A builder that is reset holds, below its cursor, what a new builder     *)
(* holds that was given the same calls: nothing of earlier rows is hashed. *)
THEOREM Reuse == Spec => []ReusedAsNew
<1>1. SInv => ReusedAsNew
  BY DEF SInv
<1> QED
  BY <1>1, SameAlways, PTL

-----------------------------------------------------------------------------
(* A row reads back.  What makes it last: the words a slot points to are   *)
(* in use, and later strings are written after those.                      *)

LongString(call) == call[1] = "string" /\ call[3] > 7

InUse(b, p, call) ==
    LongString(call) =>
        /\ call[3] \in Nat
        /\ b.cursor <= SlotLimit =>
            /\ PointsTo(b, p) \in Nat
            /\ PointsTo(b, p) + RoundedToWord(call[3]) \div 8 <= UsedWords(b)

RInv ==
    /\ row.nulls = nulled
    /\ \A p \in Pos(use.arity) :
        /\ Holds(row, p, last[p]) /\ InUse(row, p, last[p])
        /\ p \notin covered => RestIsZero(row, p, last[p])

(* A number below the limit is kept as it is.                              *)
LEMMA BelowLimit ==
    ASSUME NEW n \in Nat, NEW m \in Nat \ {0}, n < m
    PROVE  n % m = n
<1>1. n = m * (n \div m) + (n % m) /\ n \div m \in Nat /\ n % m \in 0 .. m - 1
  OBVIOUS
<1>2. CASE n \div m = 0
  BY <1>1, <1>2
<1>3. CASE n \div m >= 1
  <2>1. m * (n \div m) >= m
    BY <1>1, <1>3
  <2> QED
    BY <1>1, <2>1
<1> QED
  BY <1>1, <1>2, <1>3

(* A field whose slot and words stay keeps what it holds.                  *)
LEMMA Undisturbed ==
    ASSUME NEW b, NEW c, NEW q, NEW call,
           c.slots[q] = b.slots[q], c.fixed = b.fixed,
           b.cursor \in Nat, c.cursor \in Nat, b.cursor <= c.cursor,
           UsedWords(b) \in Nat, UsedWords(c) \in Nat, UsedWords(b) <= UsedWords(c),
           \A k \in 1 .. UsedWords(b) : WordAt(c, k) = WordAt(b, k),
           Holds(b, q, call), InUse(b, q, call)
    PROVE  Holds(c, q, call) /\ InUse(c, q, call)
<1>0. SlotLimit \in Nat
  BY PaimonAssumption
<1>1. PointsTo(c, q) = PointsTo(b, q)
  BY DEF PointsTo
<1>2. CASE LongString(call)
  <2>1. call[3] \in Nat /\ call[1] = "string" /\ call[3] > 7 /\ ~ (call[3] <= 7)
    BY <1>2 DEF InUse, LongString
  <2>2. CASE ~ (c.cursor <= SlotLimit)
    <3>1. InUse(c, q, call)
      BY <2>1, <2>2 DEF InUse
    <3>2. Holds(c, q, call)
      BY <2>1, <2>2 DEF Holds
    <3> QED
      BY <3>1, <3>2
  <2>3. CASE c.cursor <= SlotLimit
    <3> DEFINE n == RoundedToWord(call[3]) \div 8
    <3>1. b.cursor <= SlotLimit
      BY <1>0, <2>3
    <3>2. n \in Nat /\ PointsTo(b, q) \in Nat /\ PointsTo(b, q) + n <= UsedWords(b)
      <4>1. RoundedToWord(call[3]) \in Nat
        BY <2>1, Rounding
      <4> QED
        BY <1>2, <3>1, <4>1 DEF InUse
    <3>3. /\ b.slots[q][1][1] = "offset" /\ b.slots[q][1][3] = call[3]
          /\ \A k \in 1 .. n : WordAt(b, PointsTo(b, q) + k).data = <<call[2], call[3], k>>
      BY <2>1, <3>1 DEF Holds
    <3> HIDE DEF n
    <3>4. InUse(c, q, call)
      BY <1>1, <2>1, <3>2 DEF InUse, n
    <3>5. ASSUME NEW k \in 1 .. n
          PROVE  WordAt(c, PointsTo(c, q) + k) = WordAt(b, PointsTo(b, q) + k)
      <4>1. PointsTo(b, q) + k \in 1 .. UsedWords(b)
        BY <3>2
      <4> QED
        BY <1>1, <4>1
    <3>6. /\ c.slots[q][1][1] = "offset" /\ c.slots[q][1][3] = call[3]
          /\ \A k \in 1 .. n : WordAt(c, PointsTo(c, q) + k).data = <<call[2], call[3], k>>
      BY <3>3, <3>5
    <3>7. Holds(c, q, call)
      BY <2>1, <3>6 DEF Holds, n
    <3> QED
      BY <3>4, <3>7
  <2> QED
    BY <2>2, <2>3
<1>3. CASE ~ LongString(call)
  <2>1. InUse(c, q, call)
    BY <1>3 DEF InUse
  <2>2. Holds(c, q, call)
    BY <1>3 DEF Holds, LongString
  <2> QED
    BY <2>1, <2>2
<1> QED
  BY <1>2, <1>3

(* A field nothing was written to.                                         *)
LEMMA NothingHeld ==
    ASSUME NEW b, NEW arity, b.slots = ZeroSlots(arity), NEW p \in Pos(arity)
    PROVE  Holds(b, p, Nothing) /\ InUse(b, p, Nothing) /\ RestIsZero(b, p, Nothing)
<1>1. b.slots[p] = [i \in Pieces |-> Zero]
  BY DEF ZeroSlots
<1> QED
  BY <1>1 DEF Holds, InUse, LongString, Nothing, RestIsZero

LEMMA UsedInNat ==
    ASSUME NEW b, Shape(b)
    PROVE  UsedWords(b) \in Nat
<1>1. PICK j \in Nat : b.cursor - b.fixed = 8 * j
  BY DEF Shape, Whole
<1> QED
  BY <1>1 DEF UsedWords

(* What a call leaves in its own field.                                    *)
LEMMA PrimitiveHeld ==
    ASSUME NEW b, Typed(b), NEW p \in Pos(b.arity), NEW v, NEW width \in {1, 2, 4, 8},
           NEW c, c = WritePrimitive(b, p, v, width)
    PROVE  /\ Holds(c, p, <<"value", v, width>>) /\ InUse(c, p, <<"value", v, width>>)
           /\ b.slots[p] = [i \in Pieces |-> Zero] => RestIsZero(c, p, <<"value", v, width>>)
<1>1. c.slots[p] = [i \in Pieces |-> IF i \in Filled(width) THEN <<"value", v, width>>
                                                             ELSE b.slots[p][i]]
  BY DEF WritePrimitive, Typed, BufferOK, Fields
<1>2. Filled(width) \subseteq Pieces
  BY DEF Filled, Pieces
<1>3. \A i \in Filled(width) : c.slots[p][i] = <<"value", v, width>>
  BY <1>1, <1>2
<1>4. \A i \in Pieces \ Filled(width) : c.slots[p][i] = b.slots[p][i]
  BY <1>1
<1> QED
  BY <1>3, <1>4 DEF Holds, InUse, LongString, RestIsZero

LEMMA ShortHeld ==
    ASSUME NEW b, Typed(b), NEW p \in Pos(b.arity), NEW v, NEW len \in Nat, len <= 7,
           NEW c, c = WriteToFixed(b, p, v, len)
    PROVE  Holds(c, p, <<"string", v, len>>) /\ InUse(c, p, <<"string", v, len>>)
<1>1. c.slots[p] = [i \in Pieces |-> <<"string", v, len>>]
  BY DEF WriteToFixed, Typed, BufferOK, Fields
<1>2. \A i \in Pieces : c.slots[p][i] = <<"string", v, len>>
  BY <1>1
<1>3. ~ (len > 7)
  OBVIOUS
<1> QED
  BY <1>2, <1>3 DEF Holds, InUse, LongString

LEMMA NullHeld ==
    ASSUME NEW b, Typed(b), NEW p \in Pos(b.arity), NEW c, c = SetNullAt(b, p)
    PROVE  Holds(c, p, <<"null", 0, 0>>) /\ InUse(c, p, <<"null", 0, 0>>)
<1>1. c.slots[p] = [i \in Pieces |-> Zero]
  BY DEF SetNullAt, Typed, BufferOK, Fields
<1> QED
  BY <1>1 DEF Holds, InUse, LongString

(* In a row whose size fits in the slot, so do its offsets and lengths.    *)
LEMMA LongHeld ==
    ASSUME NEW b, Typed(b), Shape(b), NEW p \in Pos(b.arity), NEW v, NEW len \in Nat, len > 7,
           NEW c, c = WriteToVar(b, p, v, len)
    PROVE  Holds(c, p, <<"string", v, len>>) /\ InUse(c, p, <<"string", v, len>>)
<1> DEFINE n == RoundedToWord(len) \div 8
           call == <<"string", v, len>>
<1>1. /\ n \in Nat /\ UsedWords(b) \in Nat /\ UsedWords(c) = UsedWords(b) + n
      /\ c.cursor = b.cursor + RoundedToWord(len)
      /\ \A k \in 1 .. UsedWords(c) :
            WordAt(c, k) = IF k > UsedWords(b) THEN Word(v, len, k - UsedWords(b), Blank)
                                               ELSE WordAt(b, k)
  BY VarWords
<1>2. /\ c.slots[p] = [i \in Pieces |-> <<"offset", b.cursor % SlotLimit, len % SlotLimit>>]
      /\ c.fixed = b.fixed
  BY DEF WriteToVar, Typed, BufferOK, Fields
<1>3. call[1] = "string" /\ call[2] = v /\ call[3] = len /\ ~ (len <= 7)
  OBVIOUS
<1>4. CASE ~ (c.cursor <= SlotLimit)
  BY <1>3, <1>4 DEF Holds, InUse
<1>5. CASE c.cursor <= SlotLimit
  <2>1. b.cursor % SlotLimit = b.cursor /\ len % SlotLimit = len
    <3>1. /\ SlotLimit \in Nat \ {0} /\ b.cursor \in Nat /\ 8 <= b.cursor
          /\ RoundedToWord(len) \in Nat /\ len <= RoundedToWord(len)
      <4>1. b.arity \in Nat /\ b.fixed = NullBitsSize(b.arity) + 8 * b.arity
            /\ b.cursor \in Nat /\ b.fixed <= b.cursor
        BY DEF Shape, FixedSize
      <4>2. NullBitsSize(b.arity) \in Nat /\ b.arity + 8 <= 8 * NullBitsSize(b.arity)
            /\ Whole(NullBitsSize(b.arity))
        BY <4>1, NullBitsFit
      <4>3. 8 <= NullBitsSize(b.arity)
        BY <4>1, <4>2 DEF Whole
      <4> QED
        BY <4>1, <4>2, <4>3, Rounding, PaimonAssumption
    <3>2. b.cursor < SlotLimit /\ len < SlotLimit
      BY <1>1, <1>5, <3>1
    <3> QED
      BY <3>1, <3>2, BelowLimit
  <2>2. c.slots[p][1] = <<"offset", b.cursor, len>>
    BY <1>2, <2>1 DEF Pieces
  <2>3. PointsTo(c, p) = UsedWords(b)
    BY <1>2, <2>2 DEF PointsTo, UsedWords
  <2>4. ASSUME NEW k \in 1 .. n
        PROVE  WordAt(c, PointsTo(c, p) + k).data = <<v, len, k>>
    <3>1. /\ UsedWords(b) + k \in 1 .. UsedWords(c) /\ UsedWords(b) + k > UsedWords(b)
          /\ (UsedWords(b) + k) - UsedWords(b) = k
      BY <1>1
    <3>2. WordAt(c, UsedWords(b) + k) = Word(v, len, k, Blank)
      BY <1>1, <3>1
    <3> QED
      BY <2>3, <3>2 DEF Word
  <2>5. c.slots[p][1][1] = "offset" /\ c.slots[p][1][3] = len
    BY <2>2
  <2>6. InUse(c, p, call)
    BY <1>1, <1>3, <2>3 DEF InUse
  <2>7. Holds(c, p, call)
    BY <1>3, <2>4, <2>5 DEF Holds
  <2> QED
    BY <2>6, <2>7
<1> QED
  BY <1>4, <1>5

(* The other fields.                                                       *)
LEMMA OtherSlots ==
    ASSUME NEW b, Typed(b), Shape(b), NEW p \in Pos(b.arity),
           NEW c, \/ \E v, width : c = WritePrimitive(b, p, v, width)
                  \/ \E v, len : c = WriteToFixed(b, p, v, len)
                  \/ c = SetNullAt(b, p),
           NEW q \in Pos(b.arity), q # p, NEW call, Holds(b, q, call), InUse(b, q, call)
    PROVE  Holds(c, q, call) /\ InUse(c, q, call) /\ c.slots[q] = b.slots[q]
<1>1. /\ c.slots[q] = b.slots[q] /\ c.fixed = b.fixed /\ c.cursor = b.cursor
      /\ c.words = b.words
  BY DEF WritePrimitive, WriteToFixed, SetNullAt, Typed, BufferOK, Fields
<1>2. /\ UsedWords(c) = UsedWords(b)
      /\ \A k \in 1 .. UsedWords(b) : WordAt(c, k) = WordAt(b, k)
  BY <1>1 DEF UsedWords, WordAt
<1>3. UsedWords(b) \in Nat /\ b.cursor \in Nat
  BY UsedInNat DEF Shape
<1> QED
  BY <1>1, <1>2, <1>3, Undisturbed

LEMMA OtherWords ==
    ASSUME NEW b, Typed(b), Shape(b), NEW p \in Pos(b.arity), NEW v, NEW len \in Nat,
           NEW c, c = WriteToVar(b, p, v, len),
           NEW q \in Pos(b.arity), q # p, NEW call, Holds(b, q, call), InUse(b, q, call)
    PROVE  Holds(c, q, call) /\ InUse(c, q, call) /\ c.slots[q] = b.slots[q]
<1> DEFINE n == RoundedToWord(len) \div 8
<1>1. c.slots[q] = b.slots[q] /\ c.fixed = b.fixed
  BY DEF WriteToVar, Typed, BufferOK, Fields
<1>2. /\ n \in Nat /\ UsedWords(b) \in Nat /\ UsedWords(c) = UsedWords(b) + n
      /\ \A k \in 1 .. UsedWords(c) :
            WordAt(c, k) = IF k > UsedWords(b) THEN Word(v, len, k - UsedWords(b), Blank)
                                               ELSE WordAt(b, k)
      /\ c.cursor = b.cursor + RoundedToWord(len)
  BY VarWords
<1>3. \A k \in 1 .. UsedWords(b) : WordAt(c, k) = WordAt(b, k)
  BY <1>2
<1>4. UsedWords(c) \in Nat /\ UsedWords(b) <= UsedWords(c)
  BY <1>2
<1>5. b.cursor \in Nat /\ c.cursor \in Nat /\ b.cursor <= c.cursor
  <2>1. RoundedToWord(len) \in Nat
    BY Rounding
  <2> QED
    BY <1>2, <2>1 DEF Shape
<1> HIDE DEF n
<1> QED
  BY <1>1, <1>2, <1>3, <1>4, <1>5, Undisturbed

(* The slot of a field that is not written yet, or null.                   *)
LEMMA EmptyIsZero ==
    ASSUME NEW b, NEW p, NEW call, Holds(b, p, call), ~ Written(call)
    PROVE  b.slots[p] = [i \in Pieces |-> Zero]
BY DEF Holds, Written

LEMMA CallReadsBack ==
    ASSUME TInv, RInv, NEW p \in Pos(use.arity), NEW call, Call(p, call),
           row'.nulls = IF Written(call) THEN row.nulls ELSE row.nulls \cup {p},
           Holds(row', p, call), InUse(row', p, call),
           ~ (Written(call) /\ Written(last[p])) => RestIsZero(row', p, call),
           \A q \in Pos(use.arity) \ {p} :
                Holds(row, q, last[q]) /\ InUse(row, q, last[q])
                    => /\ Holds(row', q, last[q]) /\ InUse(row', q, last[q])
                       /\ row'.slots[q] = row.slots[q]
    PROVE  RInv'
<1>1. use' = use /\ last' = [last EXCEPT ![p] = call] /\ DOMAIN last = Pos(use.arity)
  BY DEF Call, TInv
<1>2. row'.nulls = nulled'
  BY DEF Call, RInv
<1>3. ASSUME NEW q \in Pos(use.arity)
      PROVE  /\ Holds(row', q, last'[q]) /\ InUse(row', q, last'[q])
             /\ q \notin covered' => RestIsZero(row', q, last'[q])
  <2>1. CASE q = p
    <3>1. q \notin covered' => ~ (Written(call) /\ Written(last[p]))
      BY <2>1 DEF Call
    <3>2. last'[q] = call
      BY <1>1, <2>1
    <3> QED
      BY <2>1, <3>1, <3>2
  <2>2. CASE q # p
    <3>1. last'[q] = last[q]
      BY <1>1, <2>2
    <3>2. q \notin covered' => q \notin covered
      BY <2>2 DEF Call
    <3>3. Holds(row', q, last[q]) /\ InUse(row', q, last[q]) /\ row'.slots[q] = row.slots[q]
      BY <2>2 DEF RInv
    <3>4. q \notin covered => RestIsZero(row', q, last[q])
      BY <3>3 DEF RInv, RestIsZero
    <3> QED
      BY <3>1, <3>2, <3>3, <3>4
  <2> QED
    BY <2>1, <2>2
<1> QED
  BY <1>1, <1>2, <1>3 DEF RInv

LEMMA NextReadsBack == TInv /\ SInv /\ RInv /\ [Next]_vars => RInv'
<1> SUFFICES ASSUME TInv, SInv, RInv, [Next]_vars PROVE RInv'
  OBVIOUS
<1>0. /\ use \in Uses /\ use.arity \in Nat /\ use.lengths \subseteq Nat
      /\ row.arity = use.arity /\ Typed(row) /\ Shape(row)
  BY PaimonAssumption DEF TInv, SInv
<1>1. ASSUME NEW p \in Pos(use.arity), NEW v \in use.values, NEW width \in {1, 2, 4, 8},
             Write(p, v, width)
      PROVE  RInv'
  <2> DEFINE call == <<"value", v, width>>
  <2>1. Call(p, call) /\ row' = WritePrimitive(row, p, v, width) /\ Written(call)
    BY <1>1 DEF Write, Written
  <2>2. row'.nulls = row.nulls
    BY <1>0, <2>1 DEF WritePrimitive, Shape, Fields
  <2>3. ~ Written(last[p]) => row.slots[p] = [i \in Pieces |-> Zero]
    BY EmptyIsZero DEF RInv
  <2> HIDE DEF call
  <2>4. /\ Holds(row', p, call) /\ InUse(row', p, call)
        /\ ~ Written(last[p]) => RestIsZero(row', p, call)
    BY <1>0, <2>1, <2>3, PrimitiveHeld DEF call
  <2>5. ASSUME NEW q \in Pos(use.arity) \ {p}, Holds(row, q, last[q]), InUse(row, q, last[q])
        PROVE  /\ Holds(row', q, last[q]) /\ InUse(row', q, last[q])
               /\ row'.slots[q] = row.slots[q]
    BY <1>0, <2>1, <2>5, OtherSlots
  <2> QED
    BY <2>1, <2>2, <2>4, <2>5, CallReadsBack
<1>2. ASSUME NEW p \in Pos(use.arity), NEW v \in use.values, NEW len \in use.lengths,
             WriteString(p, v, len)
      PROVE  RInv'
  <2> DEFINE call == <<"string", v, len>>
  <2>1. Call(p, call) /\ row' = WriteStringTo(row, p, v, len) /\ len \in Nat
    BY <1>0, <1>2 DEF WriteString
  <2>2. Written(call) /\ RestIsZero(row', p, call)
    BY DEF Written, RestIsZero
  <2>3. row'.nulls = row.nulls
    BY <1>0, <2>1 DEF WriteStringTo, WriteToFixed, WriteToVar, Shape, Fields
  <2> HIDE DEF call
  <2>4. CASE len <= 7
    <3>1. row' = WriteToFixed(row, p, v, len)
      BY <2>1, <2>4 DEF WriteStringTo
    <3>2. Holds(row', p, call) /\ InUse(row', p, call)
      BY <1>0, <2>1, <2>4, <3>1, ShortHeld DEF call
    <3>3. ASSUME NEW q \in Pos(use.arity) \ {p}, Holds(row, q, last[q]), InUse(row, q, last[q])
          PROVE  /\ Holds(row', q, last[q]) /\ InUse(row', q, last[q])
                 /\ row'.slots[q] = row.slots[q]
      BY <1>0, <3>1, <3>3, OtherSlots
    <3> QED
      BY <2>1, <2>2, <2>3, <3>2, <3>3, CallReadsBack
  <2>5. CASE len > 7
    <3>1. row' = WriteToVar(row, p, v, len)
      BY <2>1, <2>5 DEF WriteStringTo
    <3>2. Holds(row', p, call) /\ InUse(row', p, call)
      BY <1>0, <2>1, <2>5, <3>1, LongHeld DEF call
    <3>3. ASSUME NEW q \in Pos(use.arity) \ {p}, Holds(row, q, last[q]), InUse(row, q, last[q])
          PROVE  /\ Holds(row', q, last[q]) /\ InUse(row', q, last[q])
                 /\ row'.slots[q] = row.slots[q]
      BY <1>0, <2>1, <3>1, <3>3, OtherWords
    <3> QED
      BY <2>1, <2>2, <2>3, <3>2, <3>3, CallReadsBack
  <2> QED
    BY <2>1, <2>4, <2>5
<1>3. ASSUME NEW p \in Pos(use.arity), SetNull(p) PROVE RInv'
  <2> DEFINE call == <<"null", 0, 0>>
  <2>1. Call(p, call) /\ row' = SetNullAt(row, p)
    BY <1>3 DEF SetNull
  <2>2. ~ Written(call) /\ RestIsZero(row', p, call)
    BY DEF Written, RestIsZero
  <2>3. row'.nulls = row.nulls \cup {p}
    BY <1>0, <2>1 DEF SetNullAt, Shape, Fields
  <2> HIDE DEF call
  <2>4. Holds(row', p, call) /\ InUse(row', p, call)
    BY <1>0, <2>1, NullHeld DEF call
  <2>5. ASSUME NEW q \in Pos(use.arity) \ {p}, Holds(row, q, last[q]), InUse(row, q, last[q])
        PROVE  /\ Holds(row', q, last[q]) /\ InUse(row', q, last[q])
               /\ row'.slots[q] = row.slots[q]
    BY <1>0, <2>1, <2>5, OtherSlots
  <2> QED
    BY <2>1, <2>2, <2>3, <2>4, <2>5, CallReadsBack
<1>4. CASE Reset
  <2>1. /\ use' = use /\ row'.slots = ZeroSlots(use.arity) /\ row'.nulls = {}
        /\ last' = [p \in Pos(use.arity) |-> Nothing] /\ nulled' = {}
    BY <1>0, <1>4 DEF Reset, ResetBuilder, Shape, Fields
  <2> QED
    BY <2>1, NothingHeld DEF RInv
<1>5. CASE Finished \/ UNCHANGED vars
  <2>1. use' = use /\ row' = row /\ last' = last /\ nulled' = nulled /\ covered' = covered
    BY <1>5 DEF Finished, vars, history
  <2> QED
    BY <2>1 DEF RInv
<1> QED
  BY <1>1, <1>2, <1>3, <1>4, <1>5 DEF Next

(* A row reads back, for any number of fields and any order of calls: a    *)
(* field is null if some call of the row set it to null, written after     *)
(* that or not; its slot, and the words it points to when the row is no    *)
(* larger than SlotLimit, hold what was last written, through the writes   *)
(* of other fields, growth of the buffer and reuse of the builder; and a   *)
(* value that did not go over another write has zeros beside it.           *)
THEOREM FieldsReadBack == Spec => []ReadsBack
<1>1. Init => RInv
  <2> SUFFICES ASSUME Init PROVE RInv
    OBVIOUS
  <2>1. /\ row.slots = ZeroSlots(use.arity) /\ last = [p \in Pos(use.arity) |-> Nothing]
        /\ row.nulls = {} /\ nulled = {}
    BY DEF Init, New, NewBuilder
  <2> QED
    BY <2>1, NothingHeld DEF RInv
<1>2. TInv /\ RInv => ReadsBack
  BY DEF TInv, RInv, ReadsBack
<1> QED
  BY <1>1, <1>2, NextReadsBack, TypedAlways, SameAlways, PTL DEF Spec
=============================================================================
