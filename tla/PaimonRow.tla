------------------------------ MODULE PaimonRow ------------------------------
(***************************************************************************)
(* BinaryRowBuilder of paimon_hash: the bytes of a Paimon BinaryRow, made  *)
(* of a header with null bits, an 8-byte slot per field, and a variable    *)
(* part for the strings longer than 7 bytes.  The bytes are hashed, so two *)
(* builders given the same row must hold the same bytes.                   *)
(*                                                                         *)
(* A builder is reused for many rows by reset().  The model runs a reused  *)
(* one and, beside it, one constructed for the present row alone, and      *)
(* gives both the same calls.  Data is abstract: a slot is 4 pieces (its  *)
(* bytes 0, 1, 2-3 and 4-7), the variable part a sequence of words, and a  *)
(* piece or a word is a tag <<kind, a, b>> of what was stored.             *)
(***************************************************************************)
EXTENDS Integers, Sequences

CONSTANTS
    Uses,           \* what builders are constructed with and used for
    SlotLimit,      \* what offset and length fit in, of a slot: 2^32
    MaxRows         \* rows built (a bound)

(* A use: the arguments of the constructor (arity fields, initial_var_cap  *)
(* bytes), the values of primitives and contents of strings, the lengths   *)
(* of strings, and how many calls a row takes (a bound).                   *)
ASSUME PaimonAssumption ==
    /\ MaxRows \in Nat \ {0} /\ SlotLimit \in Nat \ {0}
    /\ \A u \in Uses :
        /\ u.arity \in Nat /\ u.varCapacity \in Nat /\ u.writes \in Nat
        /\ u.values \subseteq Nat /\ u.lengths \subseteq Nat

VARIABLES
    use,        \* the use of this builder
    row,        \* the builder that is reset for each row
    fresh,      \* a builder constructed for this row
    last,       \* the last call for each field in this row
    nulled,     \* the fields some call of this row set to null
    covered,    \* those whose last call wrote over another write
    writes,     \* calls made for this row
    rows        \* rows begun

(* What the calls of this row were; the builder does not keep it.          *)
history == <<last, nulled, covered>>

vars == <<use, row, fresh, history, writes, rows>>

Pos(arity) == 0 .. arity - 1
Pieces == 1 .. 4
Zero   == <<"zero", 0, 0>>
Blank  == <<0, 0, 0>>       \* a word of zeros

Larger(m, n) == IF m > n THEN m ELSE n

-----------------------------------------------------------------------------
(* Mutant: growth by half, even when that is too little.                   *)
GrowByHalf(size, need) == IF size >= need THEN size ELSE size + size \div 2

(* The layout.                                                             *)
NullBitsSize(arity) == ((arity + 63 + 8) \div 64) * 8
FixedSize(arity)    == NullBitsSize(arity) + 8 * arity

RoundedToWord(n) == IF n % 8 = 0 THEN n ELSE n + (8 - (n % 8))

EnsureCapacity(size, need) ==
    IF size >= need THEN size ELSE Larger(size + size \div 2, need)

(* Pieces of a slot that a value of so many bytes fills.                   *)
Filled(width) == CASE width = 1 -> {1}
                   [] width = 2 -> {1, 2}
                   [] width = 4 -> {1, 2, 3}
                   [] width = 8 -> Pieces

ZeroSlots(arity) == [p \in Pos(arity) |-> [i \in Pieces |-> Zero]]

NewBuilder(arity, varCapacity) ==
    [arity |-> arity, fixed |-> FixedSize(arity), cursor |-> FixedSize(arity),
     size |-> FixedSize(arity) + varCapacity,
     nulls |-> {}, slots |-> ZeroSlots(arity), words |-> <<>>]

(* Mutant: the header and its null bits stay too.                          *)
NullBitsStay(b) == [b EXCEPT !.slots = ZeroSlots(b.arity), !.cursor = b.fixed]

(* reset(): the bytes of the variable part stay.                           *)
ResetBuilder(b) == [b EXCEPT !.nulls = {}, !.slots = ZeroSlots(b.arity), !.cursor = b.fixed]

SetNullAt(b, p) ==
    [b EXCEPT !.nulls = @ \cup {p}, !.slots[p] = [i \in Pieces |-> Zero]]

WritePrimitive(b, p, v, width) ==
    [b EXCEPT !.slots[p] =
        [i \in Pieces |-> IF i \in Filled(width) THEN <<"value", v, width>> ELSE @[i]]]

WriteToFixed(b, p, v, len) ==
    [b EXCEPT !.slots[p] = [i \in Pieces |-> <<"string", v, len>>]]

(* A word of the variable part: which word of which string, and what its   *)
(* bytes after the string's end hold.                                      *)
Word(v, len, k, padding) == [data |-> <<v, len, k>>, padding |-> padding]

WordAt(b, k) ==
    IF k <= Len(b.words) THEN b.words[k] ELSE [data |-> Blank, padding |-> Blank]

(* Words of the variable part in use.                                      *)
UsedWords(b) == (b.cursor - b.fixed) \div 8

(* Mutant: the padding is not cleared.                                     *)
PaddingLeft(old) == old

Padding(old) == Blank

(* The slot has 32 bits for the offset and 32 for the length.              *)
WriteToVar(b, p, v, len) ==
    LET n    == RoundedToWord(len) \div 8
        base == UsedWords(b)
    IN  [b EXCEPT
            !.size = EnsureCapacity(@, b.cursor + RoundedToWord(len)),
            !.words = [k \in 1 .. Larger(Len(@), base + n) |->
                IF k > base /\ k <= base + n
                THEN Word(v, len, k - base,
                          IF k = base + n THEN Padding(WordAt(b, k).data) ELSE Blank)
                ELSE WordAt(b, k)],
            !.slots[p] = [i \in Pieces |->
                <<"offset", b.cursor % SlotLimit, len % SlotLimit>>],
            !.cursor = @ + RoundedToWord(len)]

WriteStringTo(b, p, v, len) ==
    IF len <= 7 THEN WriteToFixed(b, p, v, len) ELSE WriteToVar(b, p, v, len)

(* The bucket of a hash: the remainder has the hash's sign in C++.         *)
Remainder(hash, n) ==
    IF hash >= 0 \/ hash % n = 0 THEN hash % n ELSE (hash % n) - n

(* Mutant: the sign of the remainder is kept.                              *)
BucketSigned(hash, n) == IF n <= 0 THEN 0 ELSE Remainder(hash, n)

Bucket(hash, n) ==
    IF n <= 0 THEN 0
    ELSE IF Remainder(hash, n) < 0 THEN -Remainder(hash, n) ELSE Remainder(hash, n)

-----------------------------------------------------------------------------
Nothing == <<"nothing", 0, 0>>

Written(call) == call[1] \in {"value", "string"}

Call(p, call) ==
    /\ writes < use.writes
    /\ writes' = writes + 1
    /\ last' = [last EXCEPT ![p] = call]
    /\ nulled' = IF Written(call) THEN nulled ELSE nulled \cup {p}
    /\ covered' = IF Written(call) /\ Written(last[p]) THEN covered \cup {p}
                                                      ELSE covered \ {p}
    /\ UNCHANGED <<use, rows>>

New == NewBuilder(use.arity, use.varCapacity)

Init ==
    /\ use \in Uses
    /\ row = New /\ fresh = New
    /\ last = [p \in Pos(use.arity) |-> Nothing] /\ nulled = {} /\ covered = {}
    /\ writes = 0 /\ rows = 1

Write(p, v, width) ==
    /\ Call(p, <<"value", v, width>>)
    /\ row' = WritePrimitive(row, p, v, width)
    /\ fresh' = WritePrimitive(fresh, p, v, width)

WriteString(p, v, len) ==
    /\ Call(p, <<"string", v, len>>)
    /\ row' = WriteStringTo(row, p, v, len)
    /\ fresh' = WriteStringTo(fresh, p, v, len)

SetNull(p) ==
    /\ Call(p, <<"null", 0, 0>>)
    /\ row' = SetNullAt(row, p)
    /\ fresh' = SetNullAt(fresh, p)

Reset ==
    /\ rows < MaxRows
    /\ rows' = rows + 1 /\ writes' = 0
    /\ row' = ResetBuilder(row)
    /\ fresh' = New
    /\ last' = [p \in Pos(use.arity) |-> Nothing] /\ nulled' = {} /\ covered' = {}
    /\ UNCHANGED use

Finished == writes = use.writes /\ rows = MaxRows /\ UNCHANGED vars

Next ==
    \/ \E p \in Pos(use.arity) :
        \/ \E v \in use.values : \E width \in {1, 2, 4, 8} : Write(p, v, width)
        \/ \E v \in use.values : \E len \in use.lengths : WriteString(p, v, len)
        \/ SetNull(p)
    \/ Reset
    \/ Finished

Spec == Init /\ [][Next]_vars

-----------------------------------------------------------------------------
(* The types of the variables.                                             *)
TypeOK ==
    /\ use \in Uses
    /\ \A b \in {row, fresh} :
        /\ b.arity = use.arity /\ b.nulls \subseteq Pos(b.arity)
        /\ DOMAIN b.slots = Pos(b.arity)
        /\ \A p \in Pos(b.arity) : DOMAIN b.slots[p] = Pieces
        /\ b.size \in Nat /\ b.cursor \in Nat
    /\ DOMAIN last = Pos(use.arity)
    /\ nulled \subseteq Pos(use.arity) /\ covered \subseteq Pos(use.arity)
    /\ writes \in 0 .. use.writes /\ rows \in 1 .. MaxRows

(* The used bytes of a reused builder are those of a new one: nothing of   *)
(* the rows before is left below the cursor, so equal rows have equal      *)
(* hashes.                                                                 *)
ReusedAsNew ==
    /\ row.cursor = fresh.cursor
    /\ row.nulls = fresh.nulls /\ row.slots = fresh.slots
    /\ \A k \in 1 .. UsedWords(row) : WordAt(row, k) = WordAt(fresh, k)

(* What hash_code() reads, size() bytes, is inside the buffer, and is a    *)
(* whole number of words, as hashing by words requires; the null bits of   *)
(* all fields end before the first slot.                                   *)
UsedFits ==
    /\ row.cursor <= row.size /\ row.cursor % 8 = 0
    /\ row.arity + 8 <= 8 * NullBitsSize(row.arity)

(* The word of the variable part a slot points to, counted from 0.         *)
PointsTo(b, p) == (b.slots[p][1][2] - b.fixed) \div 8

(* What the slot and words of field p hold after a call for it.  A long    *)
(* string is found where the slot points, in rows whose size fits there.   *)
Holds(b, p, call) ==
    LET slot == b.slots[p]
    IN  CASE call[1] = "value" -> \A i \in Filled(call[3]) : slot[i] = call
          [] call[1] = "string" /\ call[3] <= 7 -> \A i \in Pieces : slot[i] = call
          [] call[1] = "string" /\ call[3] > 7 -> b.cursor <= SlotLimit =>
                /\ slot[1][1] = "offset" /\ slot[1][3] = call[3]
                /\ \A k \in 1 .. RoundedToWord(call[3]) \div 8 :
                      WordAt(b, PointsTo(b, p) + k).data = <<call[2], call[3], k>>
          [] OTHER -> slot = [i \in Pieces |-> Zero]

(* The rest of a slot, beside a value.                                     *)
RestIsZero(b, p, call) ==
    call[1] = "value" => \A i \in Pieces \ Filled(call[3]) : b.slots[p][i] = Zero

(* A row reads back, whatever the order of its calls: a field is null if   *)
(* some call of this row set it to null, and then also when it is written  *)
(* after that (set_null_bit is never undone); its slot holds what was last *)
(* written to it, a long string whole where the slot points.  Beside a     *)
(* value its slot is zero, unless the value went over another write: the   *)
(* bytes of a wider one then stay, which this does not say anything of.    *)
ReadsBack ==
    /\ row.nulls = nulled
    /\ \A p \in Pos(row.arity) :
        /\ Holds(row, p, last[p])
        /\ p \notin covered => RestIsZero(row, p, last[p])
=============================================================================
