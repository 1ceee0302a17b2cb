------------------------------ MODULE LanceWrite ------------------------------
(***************************************************************************)
(* lance_write_arrow_stream() as a whole: the threads of LanceFfi, and for *)
(* the write that holds the manager the two sides of LanceStream.  The     *)
(* thread that called is the writer of its stream, inside block_on, and    *)
(* keeps the manager locked for as long as the owner thread takes to       *)
(* answer; the version is committed when its stream ended, and the call    *)
(* fails when the stream did.  The owner is not joined: it may still have  *)
(* to release its stream when the call has returned, and another write may *)
(* have begun by then.                                                     *)
(***************************************************************************)
EXTENDS LanceFfi, Sequences

CONSTANTS
    Batches,    \* batches of a stream
    MaxErrors,  \* get_next calls that fail, of one stream (a bound)
    MaxAgain    \* times the writer asks after the end (a bound)

ASSUME StreamAssumption == Batches \in Nat /\ MaxErrors \in Nat /\ MaxAgain \in Nat

VARIABLES
    (* Of the last write, as in LanceStream.                               *)
    writer, owner, tx, rx, commands, answer,
    item, next, errors, released, again, got, outcome,
    late        \* owners of earlier writes that have not released yet

S == INSTANCE LanceStream

streaming == <<writer, owner, tx, rx, commands, answer, item, next, errors,
               released, again, got, outcome>>
streamed == <<streaming, late>>
system == <<vars, streamed>>

(* No stream has been handed over yet.                                     *)
SystemInit ==
    /\ Init
    /\ writer = "returned" /\ owner = "gone" /\ late = 0
    /\ tx = FALSE /\ rx = FALSE /\ commands = 0 /\ answer = "none"
    /\ item = S!End /\ next = 1 /\ errors = 0 /\ released = 1
    /\ again = 0 /\ got = <<>> /\ outcome = "none"

-----------------------------------------------------------------------------
Writing(t) == pc[t] = "write"
HandedOver == writer # "returned"

(* from_raw takes the stream, the channels are made, the owner spawned.    *)
HandOverStream(t) ==
    /\ Writing(t) /\ ~HandedOver
    /\ late' = IF owner = "gone" THEN late ELSE late + 1
    /\ writer' = "idle" /\ owner' = "recv"
    /\ tx' = TRUE /\ rx' = TRUE /\ commands' = 0 /\ answer' = "none"
    /\ item' = S!End /\ next' = 1 /\ errors' = 0 /\ released' = 0
    /\ again' = 0 /\ got' = <<>> /\ outcome' = "none"
    /\ UNCHANGED vars

(* from_raw fails: the function returns 1 with no owner.                   *)
Unreadable(t) ==
    /\ Writing(t) /\ ~HandedOver /\ Fault
    /\ WriteReturnsError(t)
    /\ UNCHANGED streamed

(* The iterator, called by the writer of the dataset.                      *)
Pulls(t) ==
    /\ Writing(t) /\ HandedOver
    /\ S!Ask \/ S!AskRefused \/ S!GetEnd
    /\ UNCHANGED <<vars, late>>

PullsAgain(t) ==
    /\ Writing(t) /\ S!AskAgain
    /\ UNCHANGED <<vars, late>>

(* The write itself fails, or conflicts with what another process has      *)
(* committed since.                                                        *)
WriterFails(t) ==
    /\ Writing(t) /\ S!WriterFails
    /\ WriteCannotSucceed
    /\ UNCHANGED <<pc, caller, global, mutex, store, aborted, late>>

CommitStream(t) ==
    /\ writer = "end" /\ S!Finish
    /\ Commit(t)
    /\ UNCHANGED late

GiveUp(t) ==
    /\ Writing(t) /\ writer = "failed" /\ S!Finish
    /\ WriteReturnsError(t)
    /\ UNCHANGED <<faults, late>>

-----------------------------------------------------------------------------
OwnerRuns == S!OwnerStep /\ UNCHANGED <<vars, late>>

LateOwnerEnds ==
    /\ late > 0 /\ late' = late - 1
    /\ UNCHANGED <<vars, streaming>>

WriteStep(t) ==
    HandOverStream(t) \/ Pulls(t) \/ CommitStream(t) \/ GiveUp(t)

(* The steps of the call outside the write.                                *)
TableStep(t) == Step(t) /\ UNCHANGED streamed

ThreadStep(t) == ~aborted /\ (WriteStep(t) \/ TableStep(t))

OwnerStep == ~aborted /\ OwnerRuns
LateStep == ~aborted /\ LateOwnerEnds

Environment ==
    /\ ~aborted
    /\ \/ OthersCommit /\ UNCHANGED streamed
       \/ \E t \in Threads :
             \/ (Calls(t) \/ Fails(t)) /\ UNCHANGED streamed
             \/ Unreadable(t) \/ PullsAgain(t) \/ WriterFails(t)

SystemNext ==
    \/ \E t \in Threads : ThreadStep(t)
    \/ OwnerStep \/ LateStep \/ Environment

SystemSpec == SystemInit /\ [][SystemNext]_system

(* A thread inside a call is scheduled, and so are the owners; nobody owes *)
(* a call or a failure.  The mutex need not be fair: the calls of the      *)
(* other threads are finite in number.                                     *)
FairSystemSpec ==
    /\ SystemSpec
    /\ \A t \in Threads : WF_system(ThreadStep(t))
    /\ WF_system(OwnerStep) /\ WF_system(LateStep)

-----------------------------------------------------------------------------
(* What the writer of the dataset has been given are the batches of the    *)
(* stream of this write, in order, each one once.                          *)
GotInOrder == S!GotInOrder

(* A version that is committed holds its stream up to the end: an end the  *)
(* writer saw because the owner was gone, or because its question came too *)
(* late, is the end of the stream and no loss.                             *)
CommitIsWhole ==
    \A t \in Threads : pc[t] = "reload" => got = [i \in 1 .. Batches |-> i]

(* get_next, which reads vectors of main() by reference (main.cpp:         *)
(* TimedRecordBatchReader), only runs inside the call that passed the      *)
(* stream, although the thread it runs on outlives the call.  (The writer  *)
(* is taken to call next() from within block_on.)                          *)
ReadsInsideCall == owner = "next" => \E t \in Threads : Writing(t) /\ mutex = t

(* Each owner ends and has released its stream once, whether its writer    *)
(* came to the end or gave up.                                             *)
StreamReleased ==
    /\ (owner # "gone") ~> ((owner = "gone" /\ released = 1) \/ aborted)
    /\ (late > 0) ~> (late = 0 \/ aborted)
=============================================================================
