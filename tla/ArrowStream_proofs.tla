---------------------------- MODULE ArrowStream_proofs ----------------------------
(***************************************************************************)
(* Proofs about the streams between C++ and Java, for any number of        *)
(* failures: the stream has one owner at a time, and the buffers in use    *)
(* are those of the batch the consumer looks at and of the one just        *)
(* fetched.                                                                *)
(***************************************************************************)
EXTENDS ArrowStream, TLAPS

(* Between the import and the end of the reader.                           *)
Reading == {"load", "again", "assign", "use", "leave", "left"}

Over == {"final", "returned", "thrown", "nothing"}

TypeInv ==
    /\ demo \in 1 .. 3 /\ pc \in {"export", "import"} \cup Reading \cup Over
    /\ stack \in {"cleared", "set", "junk"} /\ inner \in {"cleared", "set"}
    /\ released \in 0 .. 1 /\ made \in 0 .. 3 /\ vector \in 0 .. 3
    /\ ok \in BOOLEAN

(* The stream is where its release callback is set, and released when it   *)
(* is nowhere; before the export the struct on the stack is not one.       *)
OwnerInv ==
    /\ inner = "set" <=> pc \in Reading
    /\ pc \in {"export", "import"} \cup Reading => released = 0
    /\ pc = "import" => stack = "set"
    /\ pc \in Reading => stack = "cleared"
    /\ pc = "final" => stack \in {"cleared", "set"} /\ (released = 1 <=> stack = "cleared")
    /\ pc = "returned" => stack = "cleared" /\ released = 1
    /\ pc = "nothing" => released = 0

(* A batch is kept in a buffer of its own.                                 *)
Made(b) == b = Null \/ \E n \in 1 .. made : b = [n |-> n, buffer |-> n]

BatchesInv ==
    /\ content = [b \in 1 .. 3 |-> IF b <= made THEN b ELSE 0]
    /\ Made(batch) /\ Made(fetched)
    /\ fetched # Null => pc = "assign" /\ batch.n < fetched.n
    /\ batch # Null => pc \in Reading \ {"left"}

(* What the consumer holds is in use, and nothing else; the vector of the  *)
(* Java producer lives as long as its stream.                              *)
BuffersInv ==
    /\ exported = {batch.buffer, fetched.buffer} \ {0}
    /\ vector # 0 => JavaProduces /\ pc \in Reading

ArrowInv == TypeInv /\ OwnerInv /\ BatchesInv /\ BuffersInv

-----------------------------------------------------------------------------
LEMMA Tables ==
    /\ \A d \in 1 .. 3 : Batches[d] \in 1 .. 3
    /\ Len(Demos) = 3
    /\ Order[1] = "batch" /\ Order[2] = "reader"
BY DEF Batches, Demos, Order

LEMMA ArrowInit == Init => ArrowInv
<1> SUFFICES ASSUME Init PROVE ArrowInv
  OBVIOUS
<1> USE DEF Init, Reading, Over
<1>1. TypeInv
  <2>1. ok \in BOOLEAN
    BY Zenon
  <2> QED
    BY <2>1 DEF TypeInv
<1>2. OwnerInv /\ BatchesInv /\ BuffersInv
  BY DEF OwnerInv, BatchesInv, BuffersInv, Made, Null
<1> QED
  BY <1>1, <1>2 DEF ArrowInv

-----------------------------------------------------------------------------
(* Steps that touch no batch.                                              *)
LEMMA StructSteps ==
    ASSUME ArrowInv, Export \/ ExportFails \/ Import \/ ImportFails \/ Final
    PROVE  ArrowInv'
<1> USE DEF ArrowInv, Reading, Over, struct, data, Goto, Fails, JavaProduces
<1>1. UNCHANGED <<demo, made, vector, content, exported, fetched, batch>>
  BY DEF Export, ExportFails, Import, ImportFails, Final
<1>2. fetched = Null /\ batch = Null /\ fetched' = Null /\ batch' = Null
  BY <1>1 DEF BatchesInv, Export, ExportFails, Import, ImportFails, Final
<1>3. BatchesInv'
  BY <1>1, <1>2 DEF BatchesInv, Made
<1>4. ok' \in BOOLEAN
  <2>1. ok' = ok \/ ok' = FALSE
    BY DEF Export, ExportFails, Import, ImportFails, Final
  <2> QED
    BY <2>1, Zenon DEF TypeInv
<1>5. vector = 0 /\ BuffersInv'
  BY <1>1, <1>2 DEF BuffersInv, Export, ExportFails, Import, ImportFails, Final
<1>6. OwnerInv'
  BY DEF TypeInv, OwnerInv, Export, ExportFails, Import, ImportFails, Final, StillSet
<1>7. TypeInv'
  BY <1>1, <1>4 DEF TypeInv, OwnerInv, Export, ExportFails, Import, ImportFails, Final,
        StillSet
<1> QED
  BY <1>3, <1>5, <1>6, <1>7

(* Steps that leave the structs alone, and the stream with its reader.     *)
LEMMA ReaderStays ==
    ASSUME ArrowInv, UNCHANGED struct, pc \in Reading, pc' \in Reading,
           UNCHANGED demo, ok' = ok \/ ok' = FALSE, made' \in 0 .. 3, vector' \in 0 .. 3
    PROVE  TypeInv' /\ OwnerInv'
<1>1. ok' \in BOOLEAN
  BY Zenon DEF ArrowInv, TypeInv
<1> QED
  BY <1>1 DEF ArrowInv, TypeInv, OwnerInv, struct, Reading, Over

LEMMA GetSteps ==
    ASSUME ArrowInv, GetNext \/ GetEnd \/ GetNextFails \/ FailsAgain
    PROVE  ArrowInv'
<1> USE DEF ArrowInv, Goto, Fails, Allocated
<1>1. CASE GetNext
  <2>1. /\ made \in 0 .. 2 /\ made' = made + 1 /\ vector \in 0 .. 3
        /\ vector' = IF JavaProduces THEN made + 1 ELSE vector
        /\ pc \in {"load", "again"} /\ pc' = "assign" /\ UNCHANGED <<demo, ok, batch, struct>>
        /\ content' = [content EXCEPT ![made + 1] = made + 1]
        /\ exported' = exported \cup {made + 1}
        /\ fetched' = [n |-> made + 1, buffer |-> made + 1]
    BY <1>1, Tables DEF GetNext, TypeInv
  <2>2. TypeInv' /\ OwnerInv'
    BY <2>1, ReaderStays DEF Reading
  <2>3. fetched = Null
    BY <2>1 DEF BatchesInv
  <2>4. batch.n <= made /\ batch.n \in Nat /\ batch.buffer \in 0 .. made
    BY <2>1 DEF BatchesInv, Made, Null
  <2>5. BatchesInv'
    <3>1. content' = [b \in 1 .. 3 |-> IF b <= made' THEN b ELSE 0]
      <4>1. content' = [b \in 1 .. 3 |-> IF b = made + 1 THEN made + 1 ELSE content[b]]
        BY <2>1 DEF BatchesInv
      <4>2. \A b \in 1 .. 3 : (IF b = made + 1 THEN made + 1 ELSE content[b])
                              = IF b <= made + 1 THEN b ELSE 0
        BY <2>1 DEF BatchesInv
      <4> QED
        BY <2>1, <4>1, <4>2
    <3>2. Made(batch)' /\ Made(fetched)'
      BY <2>1 DEF BatchesInv, Made
    <3>3. batch'.n < fetched'.n
      BY <2>1, <2>4
    <3> QED
      BY <2>1, <3>1, <3>2, <3>3 DEF BatchesInv, Reading
  <2>6. BuffersInv'
    BY <2>1, <2>3, <2>4 DEF BuffersInv, JavaProduces, Null, Reading
  <2> QED
    BY <2>2, <2>5, <2>6
<1>2. CASE GetEnd \/ GetNextFails \/ FailsAgain
  <2>1. /\ pc \in {"load", "again"} /\ pc' \in {"assign", "again", "leave"} /\ UNCHANGED <<demo, batch, struct>>
        /\ UNCHANGED <<made, vector, content, exported>> /\ (ok' = ok \/ ok' = FALSE)
        /\ fetched = Null /\ fetched' = Null
    BY <1>2 DEF GetEnd, GetNextFails, FailsAgain, data, BatchesInv
  <2>2. TypeInv' /\ OwnerInv'
    BY <2>1, ReaderStays DEF Reading, TypeInv
  <2>3. BatchesInv'
    BY <2>1 DEF BatchesInv, Made, Reading
  <2>4. BuffersInv'
    BY <2>1 DEF BuffersInv, JavaProduces, Reading
  <2> QED
    BY <2>2, <2>3, <2>4
<1> QED
  BY <1>1, <1>2

(* Of two batches that are held the older goes.                            *)
LEMMA AssignStep ==
    ASSUME ArrowInv, Assign
    PROVE  ArrowInv'
<1> USE DEF ArrowInv, Goto
<1>1. /\ pc = "assign" /\ pc' = (IF fetched = Null \/ ~ ok THEN "leave" ELSE "use")
      /\ UNCHANGED <<demo, ok, struct, made, vector, content>>
      /\ exported' = exported \ {batch.buffer} /\ batch' = fetched /\ fetched' = Null
  BY DEF Assign
<1>2. TypeInv' /\ OwnerInv'
  BY <1>1, ReaderStays DEF Reading, TypeInv
<1>3. BatchesInv'
  BY <1>1 DEF BatchesInv, Made, Reading
<1>4. fetched.buffer # batch.buffer \/ fetched.buffer = 0
  BY DEF BatchesInv, Made, Null
<1>5. BuffersInv'
  BY <1>1, <1>4 DEF BuffersInv, JavaProduces, Reading, Null
<1> QED
  BY <1>2, <1>3, <1>5

LEMMA UseSteps ==
    ASSUME ArrowInv, Use \/ UseFails
    PROVE  ArrowInv'
<1> USE DEF ArrowInv, Goto, Fails
<1>1. /\ pc = "use" /\ pc' \in {"load", "leave"} /\ (ok' = ok \/ ok' = FALSE)
      /\ UNCHANGED <<demo, struct, made, vector, content, fetched>>
      /\ \/ UNCHANGED <<batch, exported>>
         \/ batch' = Null /\ exported' = exported \ {batch.buffer}
  BY DEF Use, UseFails, data
<1>2. fetched = Null
  BY <1>1 DEF BatchesInv
<1>3. TypeInv' /\ OwnerInv'
  BY <1>1, ReaderStays DEF Reading, TypeInv
<1>4. BatchesInv'
  BY <1>1, <1>2 DEF BatchesInv, Made, Reading
<1>5. BuffersInv'
  BY <1>1, <1>2 DEF BuffersInv, JavaProduces, Reading, Null
<1> QED
  BY <1>3, <1>4, <1>5

-----------------------------------------------------------------------------
LEMMA LeaveStep ==
    ASSUME ArrowInv, LeaveScope
    PROVE  ArrowInv'
<1> USE DEF ArrowInv, Goto
<1>1. /\ pc = "leave" /\ pc' = "left"
      /\ exported' = exported \ {batch.buffer} /\ batch' = Null
      /\ UNCHANGED <<demo, ok, struct, made, vector, content, fetched>>
  BY Tables DEF LeaveScope, Drops
<1>2. fetched = Null
  BY <1>1 DEF BatchesInv
<1>3. TypeInv' /\ OwnerInv'
  BY <1>1, ReaderStays DEF Reading, TypeInv
<1>4. BatchesInv'
  BY <1>1, <1>2 DEF BatchesInv, Made, Reading
<1>5. BuffersInv'
  BY <1>1, <1>2 DEF BuffersInv, JavaProduces, Reading, Null
<1> QED
  BY <1>3, <1>4, <1>5

LEMMA LeftStep ==
    ASSUME ArrowInv, LeftScope
    PROVE  ArrowInv'
<1> USE DEF ArrowInv, Goto
<1>1. /\ pc = "left" /\ pc' \in {"final", "thrown"}
      /\ inner' = "cleared" /\ released' = released + 1 /\ vector' = 0
      /\ UNCHANGED <<demo, ok, stack, made, content, exported, fetched, batch>>
  BY Tables DEF LeftScope, Drops
<1>2. fetched = Null /\ batch = Null
  BY <1>1 DEF BatchesInv, Reading
<1>3. TypeInv' /\ OwnerInv'
  BY <1>1 DEF TypeInv, OwnerInv, Reading, Over
<1>4. BatchesInv'
  BY <1>1, <1>2 DEF BatchesInv, Made
<1>5. BuffersInv'
  BY <1>1, <1>2 DEF BuffersInv
<1> QED
  BY <1>3, <1>4, <1>5

LEMMA NextDemoStep ==
    ASSUME ArrowInv, NextDemo
    PROVE  ArrowInv'
<1> USE DEF ArrowInv, Reading, Over
<1>1. /\ pc \in {"returned", "nothing"} /\ pc' = "export" /\ demo' = demo + 1 /\ demo < 3
      /\ stack' = "junk" /\ inner' = "cleared" /\ released' = 0
      /\ made' = 0 /\ content' = [b \in 1 .. 3 |-> 0]
      /\ UNCHANGED <<vector, exported, fetched, batch>>
  BY Tables DEF NextDemo
<1>2. fetched = Null /\ batch = Null /\ vector = 0
  BY <1>1 DEF BatchesInv, BuffersInv
<1>3. ok' \in BOOLEAN
  BY Zenon DEF NextDemo
<1>4. TypeInv' /\ OwnerInv'
  BY <1>1, <1>2, <1>3 DEF TypeInv, OwnerInv
<1>5. BatchesInv'
  BY <1>1, <1>2 DEF BatchesInv, Made
<1>6. BuffersInv'
  BY <1>1, <1>2 DEF BuffersInv
<1> QED
  BY <1>4, <1>5, <1>6

LEMMA ArrowNext == ArrowInv /\ [Next]_vars => ArrowInv'
<1> SUFFICES ASSUME ArrowInv, [Next]_vars PROVE ArrowInv'
  OBVIOUS
<1>1. CASE UNCHANGED vars
  BY <1>1 DEF vars, struct, data, ArrowInv, TypeInv, OwnerInv, BatchesInv, BuffersInv, Made,
        JavaProduces
<1>2. CASE Next
  BY <1>1, <1>2, StructSteps, GetSteps, AssignStep, UseSteps, LeaveStep, LeftStep,
     NextDemoStep DEF Next, Finished
<1> QED
  BY <1>1, <1>2

-----------------------------------------------------------------------------
(* The invariant behind the facts below.                                   *)
THEOREM ArrowInvariance == Spec => []ArrowInv
<1> QED
  BY ArrowInit, ArrowNext, PTL DEF Spec

(* A function that returns has released its stream exactly once, and left  *)
(* nothing that could release it again, nor a buffer in use, whichever of  *)
(* its steps failed.                                                       *)
THEOREM OneRelease == Spec => []ReleasedOnce
<1>1. ArrowInv => ReleasedOnce
  BY DEF ArrowInv, TypeInv, OwnerInv, BatchesInv, BuffersInv, ReleasedOnce, Reading, Null
<1> QED
  BY <1>1, ArrowInvariance, PTL

(* The release of the provider finds its allocator empty: it comes when    *)
(* the consumer has given back what it held.                               *)
THEOREM EmptyAllocator == Spec => []AllocatorIsEmpty
<1>1. ArrowInv => AllocatorIsEmpty
  BY DEF ArrowInv, TypeInv, OwnerInv, BatchesInv, BuffersInv, AllocatorIsEmpty, Reading,
        Over, Null
<1> QED
  BY <1>1, ArrowInvariance, PTL

(* A batch in use is not written over: the next one has another buffer.    *)
THEOREM HeldStays == Spec => []HeldUnchanged
<1>1. ArrowInv => HeldUnchanged
  BY DEF ArrowInv, TypeInv, BatchesInv, HeldUnchanged, Made
<1> QED
  BY <1>1, ArrowInvariance, PTL
=============================================================================
