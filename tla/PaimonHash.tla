------------------------------ MODULE PaimonHash ------------------------------
(***************************************************************************)
(* The hash of a BinaryRow and the bucket it selects: Murmur3 with 32-bit   *)
(* words, as paimon_hash.h computes it from the bytes of the builder.  A    *)
(* 32-bit word is its four bytes, the lowest first: it is read like that,   *)
(* and a product of bytes stays small.                                     *)
(*                                                                         *)
(* The tests of the repository, which hold the values of the Java          *)
(* implementation, are rows of one field.  The bytes come from the tags of *)
(* PaimonRow: here a value is one of those the tests use.                  *)
(***************************************************************************)
EXTENDS PaimonRow
LOCAL INSTANCE Bitwise
LOCAL INSTANCE FiniteSetsExt

CONSTANT BucketCounts       \* numbers of buckets to try

(* Arithmetic of uint32_t: a word is <<b0, b1, b2, b3>>.  The operations   *)
(* of which a hash chains many are functions: their arguments are words    *)
(* before they are used.                                                   *)
Words == [1 .. 4 -> 0 .. 255]

Const(b3, b2, b1, b0) == <<b0, b1, b2, b3>>

FromNat(n) ==
    <<n % 256, (n \div 2 ^ 8) % 256, (n \div 2 ^ 16) % 256, (n \div 2 ^ 24) % 256>>

(* Four columns of any size to bytes, the carry of the last one dropped.   *)
Carried(column1, column2, column3, column4) ==
    LET sum2 == column2 + (column1 \div 256)
        sum3 == column3 + (sum2 \div 256)
        sum4 == column4 + (sum3 \div 256)
    IN  <<column1 % 256, sum2 % 256, sum3 % 256, sum4 % 256>>

Plus(x, y) == Carried(x[1] + y[1], x[2] + y[2], x[3] + y[3], x[4] + y[4])

Times[x \in Words, y \in Words] ==
    Carried(x[1] * y[1],
            x[1] * y[2] + x[2] * y[1],
            x[1] * y[3] + x[2] * y[2] + x[3] * y[1],
            x[1] * y[4] + x[2] * y[3] + x[3] * y[2] + x[4] * y[1])

XorWords[x \in Words, y \in Words] ==
    <<x[1] ^^ y[1], x[2] ^^ y[2], x[3] ^^ y[3], x[4] ^^ y[4]>>

(* Shift right, and rotate left, by whole bytes and the bits that remain.  *)
ShiftRight(x, n) ==
    LET byte(i)    == IF i <= 4 THEN x[i] ELSE 0
        shifted(i) == (byte(i) \div 2 ^ (n % 8)) + ((byte(i + 1) * 2 ^ (8 - (n % 8))) % 256)
        first      == n \div 8
    IN  <<shifted(first + 1), shifted(first + 2), shifted(first + 3), shifted(first + 4)>>

Rotl32(x, n) ==
    LET byte(i)    == x[((i + 7 - (n \div 8)) % 4) + 1]
        rotated(i) == ((byte(i) * 2 ^ (n % 8)) % 256) + (byte(i - 1) \div 2 ^ (8 - (n % 8)))
    IN  <<rotated(1), rotated(2), rotated(3), rotated(4)>>

(* static_cast<int32_t>.                                                   *)
Signed(x) ==
    (IF x[4] < 128 THEN x[4] ELSE x[4] - 256) * 2 ^ 24
    + x[3] * 2 ^ 16 + x[2] * 2 ^ 8 + x[1]

-----------------------------------------------------------------------------
(* Murmur3.                                                                *)
C1   == Const(\hcc, \h9e, \h2d, \h51)
C2   == Const(\h1b, \h87, \h35, \h93)
Seed == FromNat(42)

MixK1(k) == Times[Rotl32(Times[k, C1], 15), C2]

MixH1[h \in Words, k \in Words] ==
    Plus(Times[Rotl32(XorWords[h, k], 13), FromNat(5)], Const(\he6, \h54, \h6b, \h64))

Folded(x, n) == XorWords[x, ShiftRight(x, n)]

Fmix32Len(h, length) ==
    LET mixed == Times[Folded(XorWords[h, FromNat(length)], 16), Const(\h85, \heb, \hca, \h6b)]
    IN  Folded(Times[Folded(mixed, 13), Const(\hc2, \hb2, \hae, \h35)], 16)

(* A tail of less than 4 bytes is ignored, and counted in the length.      *)
HashByWords(bytes) ==
    LET word(w) == <<bytes[4 * w - 3], bytes[4 * w - 2], bytes[4 * w - 1], bytes[4 * w]>>
        mixed[w \in 0 .. Len(bytes) \div 4] ==
            IF w = 0 THEN Seed ELSE MixH1[mixed[w - 1], MixK1(word(w))]
    IN  Signed(Fmix32Len(mixed[Len(bytes) \div 4], Len(bytes)))

-----------------------------------------------------------------------------
(* Data: what the tags of PaimonRow stand for.                             *)
Hello    == <<104, 101, 108, 108, 111, 32, 119, 111, 114, 108, 100, 46>>
NiHao    == <<228, 189, 160, 229, 165, 189, 239, 188, 140>>
ShiJie   == <<228, 184, 150, 231, 149, 140, 239, 188, 129>>
NewLine  == <<10>>

Text(v, len) == CASE len = 12 /\ v = 1 -> Hello
                  [] len = 12 /\ v = 2 -> [Hello EXCEPT ![6] = 10]
                  [] len = 18          -> NiHao \o ShiJie
                  [] len = 19          -> NiHao \o NewLine \o ShiJie
                  [] OTHER             -> [i \in 1 .. len |-> Hello[(i % Len(Hello)) + 1]]

(* The smallest and greatest values, their halves, -1, 0 and 1, of any      *)
(* width: the last byte and the others.                                    *)
Zeros    == 0
One      == 1
MinusOne == 2
MaxValue == 3
MinValue == 4
HalfMax  == 5
HalfMin  == 6

LastByte(v) == CASE v = MinusOne -> \hff [] v = MaxValue -> \h7f [] v = MinValue -> \h80
                 [] v = HalfMax -> \h3f [] v = HalfMin -> \hc0 [] OTHER -> 0

ValueByte(v, width, i) ==
    CASE v = One       -> IF i = 0 THEN 1 ELSE 0
      [] i = width - 1 -> LastByte(v)
      [] OTHER         -> IF v \in {MinusOne, MaxValue, HalfMax} THEN \hff ELSE 0

(* The bytes of the builder: null bits after the 8 bits of the row kind,   *)
(* the slots, the variable part.                                           *)
HeaderByte(b, i) ==
    MapThenSumSet(LAMBDA p : IF (p + 8) \div 8 = i THEN 2 ^ ((p + 8) % 8) ELSE 0, b.nulls)

PieceOf(i) == CHOOSE k \in Pieces : i \in <<{0}, {1}, 2 .. 3, 4 .. 7>>[k]

SlotByte(slot, i) ==
    LET tag == slot[PieceOf(i)]
    IN  CASE tag[1] = "zero"   -> 0
          [] tag[1] = "value"  -> ValueByte(tag[2], tag[3], i)
          [] tag[1] = "string" -> IF i = 7 THEN 128 + tag[3]
                                  ELSE IF i < tag[3] THEN Text(tag[2], tag[3])[i + 1] ELSE 0
          [] tag[1] = "offset" -> IF i < 4 THEN FromNat(tag[3])[i + 1] ELSE FromNat(tag[2])[i - 3]

VarByte(word, i) ==
    LET in(data)   == 8 * (data[3] - 1) + i + 1 \in 1 .. data[2]
        byte(data) == Text(data[1], data[2])[8 * (data[3] - 1) + i + 1]
    IN  CASE in(word.data)    -> byte(word.data)
          [] ~ in(word.data) /\ in(word.padding) -> byte(word.padding)
          [] OTHER            -> 0

ByteAt(b, i) ==
    LET nullBits == NullBitsSize(b.arity)
    IN  CASE i < nullBits               -> HeaderByte(b, i)
          [] i \in nullBits .. b.fixed - 1 ->
                SlotByte(b.slots[(i - nullBits) \div 8], i % 8)
          [] OTHER -> VarByte(WordAt(b, (i - b.fixed) \div 8 + 1), i % 8)

HashCode(b) == HashByWords([i \in 1 .. b.cursor |-> ByteAt(b, i - 1)])

-----------------------------------------------------------------------------
(* The hashes the tests expect, for the values above and by width.         *)
Widths == <<1, 2, 4, 8>>

TestedValue(v) ==
    CASE v = Zeros    -> [w \in 1 .. 4 |-> -300363099]
      [] v = One      -> [w \in 1 .. 4 |-> 1465514398]
      [] v = MinusOne -> <<2004758659, 2143727727, 1133687267, -821098432>>
      [] v = MaxValue -> <<1260004151, 589084209, -1125657321, -1566569095>>
      [] v = MinValue -> <<-1226381822, -141722409, 916225219, 302122119>>
      [] v = HalfMax  -> <<1085547692, -2099834969, -85672531, -1869071721>>
      [] v = HalfMin  -> <<133406334, 1710620104, 446748170, -1758468991>>

Tested ==
    {[call |-> <<"null", 0, 0>>, hash |-> -1748325344],
     [call |-> <<"string", 1, 12>>, hash |-> 188698932],
     [call |-> <<"string", 2, 12>>, hash |-> -2057560262],
     [call |-> <<"string", 1, 18>>, hash |-> -1764217487],
     [call |-> <<"string", 1, 19>>, hash |-> 1946177714]}
    \cup {[call |-> <<"value", v, Widths[w]>>, hash |-> TestedValue(v)[w]] :
            v \in Zeros .. HalfMin, w \in 1 .. 4}

(* A row of one field, written once, has the hash the tests expect (those  *)
(* of the Java implementation), also from a builder that held another row. *)
HashesAsTested ==
    \A t \in Tested : use.arity = 1 /\ writes = 1 /\ last[0] = t.call => HashCode(row) = t.hash

(* Every row has a bucket, whatever the sign of its hash.                  *)
BucketInRange ==
    LET hash == HashCode(row)
    IN  \A n \in BucketCounts : Bucket(hash, n) \in 0 .. n - 1
=============================================================================
