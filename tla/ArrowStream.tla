------------------------------ MODULE ArrowStream ------------------------------
(***************************************************************************)
(* The three functions of arrow_abi_demo, which main() calls in turn: each *)
(* passes a C stream of record batches from a producer in one language to  *)
(* a consumer in the other, through an ArrowArrayStream on the C++ stack.  *)
(*                                                                         *)
(* The struct is owned by whoever finds its release callback set.  The     *)
(* consumer's import moves it into the reader and clears the callback on   *)
(* the stack, on which the function calls release at the end if it is      *)
(* still set.  A batch is passed by reference: its buffers live as long as *)
(* somebody holds them, and an allocator of the Java side does not close   *)
(* while one of its buffers lives.                                         *)
(*                                                                         *)
(* External: what the two Arrow libraries do in export, import, get_next   *)
(* and release.  A Java exception becomes a C++ exception that nothing     *)
(* catches, and ends the process.                                          *)
(***************************************************************************)
EXTENDS Naturals, Sequences

CONSTANT MaxFaults      \* failures (a bound)

ASSUME ArrowAssumption == MaxFaults \in Nat

Demos   == <<"read_data", "batch_write", "stream_write">>
Batches == <<2, 1, 3>>      \* that the producer of each makes

VARIABLES
    demo,       \* which function of main() runs
    pc,         \* where it is
    stack,      \* the release callback of the struct on the stack
    inner,      \* that of the struct the consumer's reader owns
    released,   \* times the producer has been released
    made,       \* batches the producer has made
    vector,     \* the buffer of the Java producer's vector; 0 for none
    content,    \* what each buffer holds: the number of a batch
    exported,   \* buffers of arrays the consumer has not released
    fetched,    \* what get_next gave the reader
    batch,      \* the batch the consumer looks at
    ok,         \* nothing has failed in this function
    faults      \* failures so far

struct == <<stack, inner, released>>
data   == <<made, vector, content, exported, fetched, batch>>
vars   == <<demo, pc, struct, data, ok, faults>>

Null == [n |-> 0, buffer |-> 0]
JavaProduces == demo = 1

Init ==
    /\ demo = 1 /\ pc = "export"
    /\ stack = "cleared"        \* memset
    /\ inner = "cleared" /\ released = 0
    /\ made = 0 /\ vector = 0 /\ content = [b \in 1 .. 3 |-> 0]
    /\ exported = {} /\ fetched = Null /\ batch = Null
    /\ ok = TRUE /\ faults = 0

Goto(where) == pc' = where /\ UNCHANGED <<demo, ok, faults>>

Fails(where) ==
    /\ faults < MaxFaults /\ faults' = faults + 1
    /\ pc' = where /\ ok' = FALSE
    /\ UNCHANGED demo

-----------------------------------------------------------------------------
(* generate(), or ExportRecordBatchReader(), into a struct that was not    *)
(* initialised.  When it fails the function returns, or throws.            *)
Export ==
    /\ pc = "export"
    /\ stack' = "set"
    /\ Goto("import")
    /\ UNCHANGED <<inner, released, data>>

ExportFails ==
    /\ pc = "export"
    /\ Fails(IF JavaProduces THEN "thrown" ELSE "nothing")
    /\ UNCHANGED <<struct, data>>

(* Mutant: the struct is copied and the callback stays.                    *)
ImportCopies ==
    /\ pc = "import"
    /\ inner' = stack
    /\ Goto("load")
    /\ UNCHANGED <<stack, released, data>>

(* ImportRecordBatchReader(), Data.importArrayStream().                    *)
Import ==
    /\ pc = "import"
    /\ inner' = stack /\ stack' = "cleared"
    /\ Goto("load")
    /\ UNCHANGED <<released, data>>

(* It fails with the struct not moved, or moved and released.              *)
ImportFails ==
    /\ pc = "import"
    /\ Fails(IF JavaProduces THEN "final" ELSE "thrown")
    /\ \/ UNCHANGED struct
       \/ stack' = "cleared" /\ released' = released + 1 /\ UNCHANGED inner
    /\ UNCHANGED data

-----------------------------------------------------------------------------
(* Mutant: the vector's buffer is written again.                           *)
SameBuffer(n) == 1

(* intVector.allocateNew(), builder.Finish(): a new buffer.                *)
Allocated(n) == n

(* reader->ReadNext(), loadNextBatch(): get_next makes the next batch      *)
(* while the consumer may still hold the one before.                       *)
GetNext ==
    /\ pc \in {"load", "again"} /\ made < Batches[demo]
    /\ LET b == Allocated(made + 1)
       IN  /\ made' = made + 1
           /\ vector' = IF JavaProduces THEN b ELSE vector
           /\ content' = [content EXCEPT ![b] = made + 1]
           /\ exported' = exported \cup {b}
           /\ fetched' = [n |-> made + 1, buffer |-> b]
    /\ Goto("assign")
    /\ UNCHANGED <<struct, batch>>

GetEnd ==
    /\ pc \in {"load", "again"} /\ made = Batches[demo]
    /\ fetched' = Null
    /\ Goto("assign")
    /\ UNCHANGED <<struct, made, vector, content, exported, batch>>

(* CHECK_ARROW_STATUS expands its argument twice: when ReadNext() fails it *)
(* is called again, for the message, before the function returns.  The     *)
(* second call may give a batch, the end, or fail as the first did.        *)
GetNextFails ==
    /\ pc = "load"
    /\ Fails(IF JavaProduces THEN "again" ELSE "leave")
    /\ UNCHANGED <<struct, data>>

FailsAgain ==
    /\ pc = "again"
    /\ Goto("leave")
    /\ UNCHANGED <<struct, data>>

(* The reader stores what it fetched over the batch before, also in the    *)
(* call for the message.                                                   *)
Assign ==
    /\ pc = "assign"
    /\ exported' = exported \ {batch.buffer}
    /\ batch' = fetched /\ fetched' = Null
    /\ Goto(IF fetched = Null \/ ~ ok THEN "leave" ELSE "use")
    /\ UNCHANGED <<struct, made, vector, content>>

(* It is printed.  The Java consumer clears its root after that; the C++   *)
(* one keeps the batch until the next is there.                            *)
Use ==
    /\ pc = "use"
    /\ IF JavaProduces
       THEN UNCHANGED <<batch, exported>>
       ELSE batch' = Null /\ exported' = exported \ {batch.buffer}
    /\ Goto("load")
    /\ UNCHANGED <<struct, made, vector, content, fetched>>

(* PrettyPrint() is called again too, and prints again.                    *)
UseFails ==
    /\ pc = "use"
    /\ Fails("leave")
    /\ UNCHANGED <<struct, data>>

-----------------------------------------------------------------------------
(* The end of the scope: `batch` was declared after `reader` and goes      *)
(* first; try-with-resources closes `root` before `arrowReader`.           *)

(* Mutant: declared the other way round.                                   *)
ReaderFirst == <<"reader", "batch">>

Order == <<"batch", "reader">>

(* The release of the stream closes what the producer has: the provider    *)
(* its vectors and its allocator.                                          *)
Drops(what) ==
    IF what = "batch"
    THEN /\ exported' = exported \ {batch.buffer} /\ batch' = Null
         /\ UNCHANGED <<struct, made, vector, content, fetched>>
    ELSE /\ inner' = "cleared" /\ released' = released + 1 /\ vector' = 0
         /\ UNCHANGED <<stack, made, content, exported, fetched, batch>>

LeaveScope ==
    /\ pc = "leave"
    /\ Drops(Order[1])
    /\ Goto("left")

(* A Java exception goes on after that.                                    *)
LeftScope ==
    /\ pc = "left"
    /\ Drops(Order[2])
    /\ Goto(IF ok \/ JavaProduces THEN "final" ELSE "thrown")

(* if (stream.release) stream.release(&stream);                            *)
StillSet == stack = "set"

Final ==
    /\ pc = "final"
    /\ stack' = "cleared"
    /\ released' = IF StillSet THEN released + 1 ELSE released
    /\ Goto("returned")
    /\ UNCHANGED <<inner, data>>

(* main() goes on with the next function, whose struct is not initialised. *)
NextDemo ==
    /\ pc \in {"returned", "nothing"} /\ demo < Len(Demos)
    /\ demo' = demo + 1 /\ pc' = "export"
    /\ stack' = "junk" /\ inner' = "cleared" /\ released' = 0
    /\ made' = 0 /\ content' = [b \in 1 .. 3 |-> 0]
    /\ ok' = TRUE
    /\ UNCHANGED <<vector, exported, fetched, batch, faults>>

Finished ==
    /\ pc = "thrown" \/ (pc \in {"returned", "nothing"} /\ demo = Len(Demos))
    /\ UNCHANGED vars

Next ==
    \/ Export \/ ExportFails \/ Import \/ ImportFails
    \/ GetNext \/ GetEnd \/ GetNextFails \/ FailsAgain \/ Assign \/ Use \/ UseFails
    \/ LeaveScope \/ LeftScope \/ Final \/ NextDemo \/ Finished

Spec == Init /\ [][Next]_vars

-----------------------------------------------------------------------------
(* When a function that exported a stream returns, the stream has been     *)
(* released exactly once, by the reader or by the function, whatever       *)
(* failed; nothing on the stack is left that could release it again, and   *)
(* no buffer is left with the consumer.                                    *)
ReleasedOnce ==
    /\ released <= 1
    /\ pc = "returned" =>
        /\ released = 1 /\ stack = "cleared" /\ inner = "cleared"
        /\ exported = {} /\ vector = 0

(* The release of the provider closes its allocator, which throws when a   *)
(* buffer is still in use: none is, on any way out of the consumer.        *)
AllocatorIsEmpty == JavaProduces /\ released > 0 => exported = {}

(* A batch the consumer holds keeps its values while the producer makes    *)
(* the next one.                                                           *)
HeldUnchanged ==
    \A b \in {batch, fetched} : b # Null => content[b.buffer] = b.n
=============================================================================
