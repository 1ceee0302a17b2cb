----------------------------- MODULE LanceStream -----------------------------
(***************************************************************************)
(* One lance_write_arrow_stream(): the batches of a C++ Arrow stream reach *)
(* the writer of the dataset through two channels.  All calls of get_next  *)
(* are made by one dedicated thread, the owner.  The writer's side, a      *)
(* ControlledRecordBatchReader, sends the owner a command for each batch   *)
(* and waits for the answer on a rendezvous channel made for it; that the  *)
(* owner drops its end unanswered means the end of the stream.             *)
(*                                                                         *)
(* The writer is external: it asks for the next batch until it is told the *)
(* end or an error, may ask again after the end, may fail of itself        *)
(* between two batches, and commits what it got at the end only.           *)
(***************************************************************************)
EXTENDS Naturals, Sequences

CONSTANTS
    Batches,    \* batches of the stream
    MaxErrors,  \* get_next calls that fail (a bound)
    MaxAgain    \* times the writer asks after the end (a bound)

VARIABLES
    writer,     \* where the writer is
    owner,      \* where the owner thread is
    tx,         \* the writer holds the sender of the command channel
    rx,         \* the owner holds its receiver
    commands,   \* commands sent and not received
    answer,     \* the rendezvous channel the writer waits on
    item,       \* what get_next returned last
    next,       \* the batch get_next returns next
    errors,     \* get_next calls that have failed
    again,      \* times the writer has asked after the end
    got,        \* what the writer has been given
    outcome,    \* of the write
    released    \* times the stream has been released

channels == <<tx, rx, commands, answer>>
stream   == <<item, next, errors, released>>
progress == <<again, got, outcome>>
vars     == <<writer, owner, channels, stream, progress>>

End == Batches + 1          \* what get_next returns at the end
Error == Batches + 2        \* an error of the stream

Init ==
    /\ writer = "idle" /\ owner = "recv"
    /\ tx = TRUE /\ rx = TRUE /\ commands = 0 /\ answer = "none"
    /\ item = End /\ next = 1 /\ errors = 0 /\ released = 0
    /\ again = 0 /\ got = <<>> /\ outcome = "none"

-----------------------------------------------------------------------------
(* next(): the command, and the wait.  A command that the owner will not   *)
(* receive any more is refused, which is the end of the stream.            *)
Ask ==
    /\ writer = "idle" /\ rx
    /\ commands' = commands + 1 /\ answer' = "waiting"
    /\ writer' = "wait"
    /\ UNCHANGED <<owner, tx, rx, stream, progress>>

AskRefused ==
    /\ writer = "idle" /\ ~rx
    /\ writer' = "end"
    /\ UNCHANGED <<owner, channels, stream, progress>>

(* recv(): the sender of the answer was dropped.                           *)
GetEnd ==
    /\ writer = "wait" /\ answer = "dropped"
    /\ writer' = "end"
    /\ UNCHANGED <<owner, channels, stream, progress>>

AskAgain ==
    /\ writer = "end" /\ again < MaxAgain
    /\ again' = again + 1
    /\ writer' = "idle"
    /\ UNCHANGED <<owner, channels, stream, got, outcome>>

(* Mutant: a writer that pulls ahead fails while its question is answered. *)
WriterFailsWaiting ==
    /\ writer \in {"idle", "wait", "end"}
    /\ writer' = "failed"
    /\ UNCHANGED <<owner, channels, stream, progress>>

(* It fails of itself, but not within next().                              *)
WriterFails ==
    /\ writer \in {"idle", "end"}
    /\ writer' = "failed"
    /\ UNCHANGED <<owner, channels, stream, progress>>

(* Mutant: the reader is leaked.                                           *)
FinishLeaks ==
    /\ writer \in {"end", "failed"}
    /\ outcome' = IF writer = "end" THEN "committed" ELSE "failed"
    /\ writer' = "returned"
    /\ UNCHANGED <<owner, channels, stream, again, got>>

(* The write ends, and its reader is dropped with the command channel's    *)
(* sender.  The function does not wait for the owner.                      *)
Finish ==
    /\ writer \in {"end", "failed"}
    /\ outcome' = IF writer = "end" THEN "committed" ELSE "failed"
    /\ tx' = FALSE
    /\ writer' = "returned"
    /\ again' = 0
    /\ UNCHANGED <<owner, rx, commands, answer, stream, got>>

-----------------------------------------------------------------------------
(* The owner: cmd_rx.recv().                                               *)
Receive ==
    /\ owner = "recv" /\ commands > 0
    /\ commands' = commands - 1
    /\ owner' = "next"
    /\ UNCHANGED <<writer, tx, rx, answer, stream, progress>>

Disconnected ==
    /\ owner = "recv" /\ commands = 0 /\ ~tx
    /\ owner' = "release"
    /\ UNCHANGED <<writer, channels, stream, progress>>

(* Mutant: the stream ends one batch early.                                *)
NextEndEarly ==
    /\ owner = "next" /\ next >= Batches
    /\ item' = End /\ answer' = "dropped"
    /\ owner' = "release"
    /\ UNCHANGED <<writer, tx, rx, commands, next, errors, released, progress>>

(* reader.next(), which calls get_next: a batch or an error is sent to the *)
(* writer; at the end the answer's sender is dropped and the loop left.    *)
Fetched(i) == item' = i /\ owner' = "send" /\ UNCHANGED answer

NextBatch ==
    /\ owner = "next" /\ next <= Batches
    /\ next' = next + 1
    /\ Fetched(next)
    /\ UNCHANGED <<writer, tx, rx, commands, errors, released, progress>>

NextError ==
    /\ owner = "next" /\ errors < MaxErrors
    /\ errors' = errors + 1
    /\ Fetched(Error)
    /\ UNCHANGED <<writer, tx, rx, commands, next, released, progress>>

NextEnd ==
    /\ owner = "next" /\ next > Batches
    /\ item' = End /\ answer' = "dropped"
    /\ owner' = "release"
    /\ UNCHANGED <<writer, tx, rx, commands, next, errors, released, progress>>

(* Mutant: an item is sent again.                                          *)
HandOverAgain ==
    /\ owner = "send" /\ writer = "wait" /\ answer = "waiting" /\ item # Error
    /\ answer' = "none" /\ owner' \in {"recv", "send"}
    /\ writer' = "idle" /\ got' = Append(got, item)
    /\ UNCHANGED <<tx, rx, commands, stream, again, outcome>>

(* resp.send() and recv(): a channel of capacity 0 holds the owner until   *)
(* the writer takes the item, which moves out of the owner.                *)
HandOver ==
    /\ owner = "send" /\ writer = "wait" /\ answer = "waiting"
    /\ answer' = "none" /\ owner' = "recv" /\ item' = End
    /\ IF item = Error
       THEN writer' = "failed" /\ UNCHANGED got
       ELSE writer' = "idle" /\ got' = Append(got, item)
    /\ UNCHANGED <<tx, rx, commands, next, errors, released, again, outcome>>

(* The closure's end: the reader is dropped, which releases the stream,    *)
(* then cmd_rx, with the commands that came meanwhile and the senders they *)
(* hold.                                                                   *)
Release ==
    /\ owner = "release"
    /\ released' = released + 1
    /\ owner' = "leave"
    /\ UNCHANGED <<writer, channels, item, next, errors, progress>>

(* Mutant: the commands of a dropped channel keep their senders.           *)
Forgotten == FALSE

Unanswered == commands > 0

Leave ==
    /\ owner = "leave"
    /\ rx' = FALSE /\ commands' = 0
    /\ answer' = IF Unanswered THEN "dropped" ELSE answer
    /\ owner' = "gone"
    /\ UNCHANGED <<writer, tx, stream, progress>>

Finished == writer = "returned" /\ owner = "gone" /\ UNCHANGED vars

-----------------------------------------------------------------------------
WriterStep ==
    Ask \/ AskRefused \/ GetEnd \/ Finish

OwnerStep ==
    \/ Receive \/ Disconnected \/ NextBatch \/ NextError \/ NextEnd
    \/ HandOver \/ Release \/ Leave

Next == WriterStep \/ OwnerStep \/ AskAgain \/ WriterFails \/ Finished

Spec == Init /\ [][Next]_vars

-----------------------------------------------------------------------------
(* What the writer has been given are the batches of the stream, in order, *)
(* each one once; only the last one fetched may be on its way.             *)
GotInOrder ==
    /\ got = [i \in 1 .. Len(got) |-> i]
    /\ next - 1 - Len(got) \in {0, 1}
=============================================================================
