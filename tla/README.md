# Models and proofs for cpp-demo-projects

The repository is a collection of demonstration programs, most of them a few
straight lines around a library. Six of them keep state of their own, run
threads, handle signals or speak a protocol, and are what this directory is about:

- the SASL transport of `thrift/hive_metastore_demo`,
- the JNI environment cache and the reference-holding helpers of `jni/jni_utils`,
- the C interface of `lance/lance_rust_ffi_demo`, and the thread it streams through,
- the row builder and row hash of `hash/paimon_hash`,
- the streams that `arrow/arrow_abi_demo` passes between C++ and Java,
- the signal handler of `libunwind/coredump_demo`.

`PROJECT.json` lists every run, property, theorem and hazard, and for each
definition the lines of code it stands for. This file is the guide to it.

To check a run: `tlc -config SaslFaults.cfg SaslHandshake.tla`; to check the
proofs: `tlapm SaslNegotiation_proofs.tla`.

## 1. Inventory

| Component | State | Operations | What is hard | What makes it correct |
|---|---|---|---|---|
| SASL negotiation: `TSaslTransport::open`, `doSaslNegotiation`, `TSaslClient` | `conn` (the SASL context), `clientStarted`, `authComplete`; the socket; the server's progress | `open`, its steps (setup, start, receive, answer, wait for COMPLETE), the exception path, `close`, the destructor | Retries on a connection that is still open, flags that outlive a connection, a server that dies or is ahead, read timeouts, who waits for whom | A normal return means the server authenticated this context; failures free it; a call returns |
| SASL framing: `TSaslTransport::read`, `write` | `memBuf_`, the bytes on the wire | `write`, `flush`, `read`, `readLength`, `shrinkBuffer`, `close` | Every cut of frames and reads, a failing read, what is left over at a close | Bytes in order, frames whole, memory given back |
| JNI environment: `get_env`, `getGlobalJNIEnv`, `init_common_classes` | `tls_env`, `init_mutex`, `init_once`, the common classes; the VM | `get_env` from any thread | Races to create the VM with each other and with another library, a failure at each step under the lock, an exception inside the initialisation | An env handed out is ready; one initialisation; calls return |
| JNI references and calls: `AutoJobject`, the helpers | local references of each thread, global ones | `find_class`, `get_method`, the invocations, the map and list helpers, the report of a Java exception | Java may throw at every call, also in the report of an exception; who holds which reference then | No reference used after it is deleted; a thread is left with its results |
| JNI memory monitor | four global references, a static instance | `instance`, its constructor, the two queries | Threads that wait for a constructor that throws; what it keeps is used by all threads | Whole or not there; constructed by one thread; calls return |
| Lance C interface: `lance_init` ... `lance_read_arrow_stream`, `LanceTableManager` | `RUNTIME`, `MANAGER` and its mutex, the dataset it has open; the versions on disk | `lance_init`, create, write, read | Threads that initialise at once, a cached dataset that is old, a commit whose reload fails, other processes | Acknowledged writes are seen; no panic without a cause; calls return |
| Lance stream hand-over: the owner thread | two channels, the C++ stream | `next`, `recv`, `get_next`, drop | A rendezvous and a disconnect as the end of the stream; a question that comes too late; an early failure | Only whole streams are committed; the stream is released |
| Lance row conversion (`lib.rs`) | none | copies | - | - |
| Paimon row: `BinaryRowBuilder` | the buffer, its size, the cursor | constructor, `reset`, `set_null_at`, the writes | Reuse: bytes of an older row; a field written after a null or over a write; the arities and lengths at which a word is added | A reused builder's bytes are a new builder's; inside the buffer; a row reads back as its calls left it |
| Paimon hash and bucket | none | pure functions | 32-bit arithmetic, signs | Bucket in range; equal to the Java version's |
| Arrow stream: `arrow/arrow_abi_demo` | the `ArrowArrayStream` on the stack, its copy in the reader, the batches in use, the Java vector and allocator | export, import, `get_next`, use, release, in two languages | A failure at each step; what leaves the scope first; a vector filled again while its last batch is in use | Released once; the allocator closes empty; a batch in use does not change |
| Core dump handler: `libunwind/coredump_demo` | dispositions and masks, `g_last_ucontext`, the alternate stack, the fiber | install, handle, trace, re-raise, return | Signals and faults inside a handler, which share one context pointer, one fiber and one alternate stack | A handler goes on with its own frame and context; the dump shows the fault; the process ends |
| `jni/bthread_jni_issue` | none of its own | RPC handler that calls Java | The stack of a fiber, inside HotSpot and brpc | - |
| the other demos (brpc echo, leveldb, AWS, protobuf, POCO, the Spring class loader), the Hive IDL | none | library calls in a row | - | Not modelled: nothing of their own to model |

How they interact: `main()` of the metastore demo opens the SASL transport,
which negotiates and then frames the calls of the generated Thrift client. In
`jni_utils` every helper goes through `get_env`, even the destructor of a
reference. `lance_write_arrow_stream` holds the manager's mutex while it waits
for the owner thread, which calls back into the C++ producer. `arrow_abi_demo` and
the JNI server of `bthread_jni_issue` are users of `jni_utils`.

## 2. Modules and the code

### SASL negotiation: `SaslNegotiation`, `AuthHandshake`, `SaslHandshake`

`SaslNegotiation` has one action for each step of `open()` between two
operations of the socket. `pc` is the line `open()` has reached: "setup" before
`sasl_client_new`, "start" before `handleSaslStartMessage`, "recv" in the loop,
"final" in the wait for COMPLETE; "idle" outside. `Throw` is the whole exception
path: `resetSaslContext` and the rethrow, with the connection left open, as the
code does. `conn`, `clientStarted` and `authComplete` are the members of those
names; `live` is what `sasl_client_new` has allocated. Calls of `open()` are
counted, and a SASL context is named by the call that made it, so that a message
left from an earlier attempt can be told from a new one.

The server is the `isClient_ = false` side of the same functions as far as the
code has it, and external beyond: what a SASL library does with a token is to
accept the next token of the context it is talking to, and refuse any other. A
server that is done reads Thrift frames, and takes a second START for the length
of one (`ServerMisreads`).

`AuthHandshake` is what a caller of `open()` is promised: one call at a time,
which is secured only if the server accepted the credentials of that call, and
which ends. `SaslHandshake` instantiates it with the refinement mapping
`attempt <- opens`, `phase <- PhaseOf(outcome)`, `accepted <-` the context of a
server that is done. It also has the inductive invariant of the proofs.

### SASL framing: `SaslFraming`, `ByteStream`

A frame is a length and its bytes; a byte is known by its connection and
position. `TakeBuffered` is `memBuf_->read` with the `shrinkBuffer()` after it,
one step as in the code. `read()` is split where it waits for the socket: for
the length ("length") and for the payload ("payload"). `Close` and `Reopen`
leave `memBuf_` alone, as the code does. `shouldWrap_` is never set in this code, and
`wrap` and `unwrap` are left out.

`ByteStream` is what a caller of `read()` is promised: the bytes that were sent come out in
order and none is lost, until the connection breaks and the end is cut off. `SaslFraming`
instantiates it with `broken <- Broken`, a read that failed or a connection that was closed, and
`stream <- Flow`, what `memBuf_` holds and then every byte of the connection after the last
one that has arrived. `Flow` does not look at the frames and at the bytes in transit: that a read finds its
next bytes there is what the refinement shows. `Write` is a `Send`, a read that returns bytes a
`Receive`, a read that fails or a close a `Break`, `Reopen` a `Reconnect`; `Flush`, `Spill`, a read that finds
the buffer empty and the reading of a length do not show. A `Break` keeps what is in `memBuf_`, and
`Reconnect` keeps it too, because `close()` does.

### JNI environment: `JniEnv`

One `pc` per thread, one action per step of `get_env()` that another thread, or
another library of the process, can come between: the lock, the query for
existing VMs, creating or attaching, `call_once`, each of the class lookups, the
return. The env of thread `t` is `t`, so that a thread which got another's env
would show. A lookup finds the class, raises an exception, or returns null
without one (`NewGlobalRef` out of memory); `Lookups` says which of these may happen.
"relock" is where an exception leads: the destructor of the exception's holder
calls `get_env()` again, in the thread that holds `init_mutex`.

### JNI references: `JniRefs`

A function is a script, the sequence of the JNI calls it makes; a step says which
references the call needs, which it makes, and what the code does when Java
throws there (the two macros, or one of the early returns of a report). A reference is
named by the C++ variable that holds it, and `AutoLocal` says which of these are an
`AutoLocalJobject`. `Unwind` is a C++ exception that leaves the function: `AutoLocal`
goes, plain `jobject`s stay, and a constructor that is left destroys its members.
`part` is where a thread is in `THROW_JNI_EXCEPTION`: the body, the message of the
exception, its stack; C++ leaves open which of the two is made first, and the order
makes no difference to the references. `Construct` and `Enters` are the guard of the
function's static variable. Heap and non-heap usage are alike and are one function here.

### Lance: `LanceFfi`, `LanceStream`, `LanceWrite` and `VersionedTable`

`LanceFfi` has several threads that call the library. `lance_init` is split between
its look at `RUNTIME`, its `RUNTIME.set` and its `MANAGER.set`. The dataset is
its newest version, `table`, and `dataset` is the version the manager holds. A write is
the commit and the reload, which can fail apart. `known` remembers, for a call,
which version had been acknowledged when it began. A panic ends the process, as
`extern "C"` functions abort.

`LanceStream` is one write: the writer's reader, the owner thread and the two
channels. `answer` is the rendezvous channel the writer waits on; the sender
dropped, "dropped", is what the writer takes for the end. The order in which the
owner's closure drops its variables matters and is kept: the reader first
(`Release`), the command channel after it (`Leave`), so that a command may be
sent to a channel that nobody reads any more.

`LanceWrite` composes the two: it extends `LanceFfi` and instantiates `LanceStream` for
the write that holds the manager. The thread that called is the writer of its
stream; `CommitStream` is `Finish` of the stream and `Commit` of the table in one step, and
`GiveUp` is `Finish` with the return of an error. `HandOverStream` begins a new stream; an owner of
an earlier write that has not ended by then is counted in `late`, with nothing left to do
but release. `LanceFfi` alone has the write as one step (`Commit`, `CommitFails`) and is
checked by itself only for `lance_already`.

`VersionedTable` is the table its callers see, without a mutex, a cache, a stream or a panic: a
write is acknowledged when it is visible, what is visible never goes back, a read returns what is
visible, and no read comes between a commit and its answer, although other processes
write at any time. `LanceFfi` instantiates it with `visible <- dataset` and `held <- mine`, the version a thread has
committed and not been answered for; `table` and `seen` are `committed` and `result`. A commit is
an `Append`, a reload an `Acknowledge`, a reload that fails an `Abandon`, `Open` an `Advance`,
`lance_read_arrow_stream` a `Read`, and the creation and the writes of other processes are `Appear`.

### Paimon row: `PaimonRow`

Two builders get the same calls: `row`, reset for each row, and `fresh`, made for
this row alone. A slot is four pieces, because the writes have four widths (1, 2,
4 and 8 bytes) and each fills the first pieces; a word of the variable part is which word of which
string it holds, and its padding. What is kept exactly is the layout: the null
bits, the rounding, the growth of the buffer, the 7-byte rule, and that the slot of a long
string keeps offset and length modulo `SlotLimit`, which is 2^32 in the code. The rows
are kept apart from what was asked of them: `last`, `nulled` and `covered` say which call
of this row was a field's last one, which fields were ever set to null, and which were
written over another write. `ReadsBack` compares the two. A field that was set to null reads null
for the rest of the row, also when it is written after that: no write clears a null bit, only `reset()` does.

### Paimon hash: `PaimonHash`

`PaimonHash` extends `PaimonRow` with the bytes that the tags of its slots and words
stand for, and with the hash of these bytes. A 32-bit word is a tuple of its four
bytes, lowest first: products and sums of bytes with their carries are
small enough for TLC, whose integers have 32 bits. Values and strings are those of
`test_paimon_hash.cpp`, and so are the hashes in `Tested`. `Bucket` stands in
`PaimonRow`, where it can be proved about.

`Uses` says which builders are checked, `use` is the one of a behaviour; `MCPaimon` gives
them: rows of two fields, rows of one field as in the tests, and rows of one field that takes three calls.

### Arrow stream: `ArrowStream`

The three functions of `main()` run one after the other over the same states: `demo` says
which, and with it which language produces. `stack` is the release callback of the struct on
the C++ stack, `inner` that of the struct the reader moved it into. A buffer is a number;
`content` is which batch was written into it, `exported` are the buffers the consumer holds.
`Order` is the order in which the end of the scope drops the batch and the reader: C++ in the
reverse order of declaration, Java's try-with-resources in the reverse order of its resources.
`CHECK_ARROW_STATUS` expands its argument twice, so a `ReadNext` that fails in the C++ consumer is called
once more for the message ("again") and may even succeed, before the function returns.
The Arrow libraries are external: what import, `get_next` and release do to the struct and
the buffers is as the code relies on it.

### Core dump handler: `CoreDump`

The contexts of the one thread are a stack, `main()` first, then a handler for each signal
that interrupted the one before. A context knows the memory its frame is on (`on`), the
signals it blocks, and whether a later one has written over it. `Deliver` is the kernel:
disposition, mask, alternate stack. `StartTrace` is `makecontext` and `swapcontext` with
`CONTEXT_MODE=bad`, which start at the top of the fiber whoever is on it. The walk of the
unwinder is external: it may fault, `abort()` on a heap that is broken, or, inside another trace, hang
on a lock of the allocator.

## 3. The runs

Passing runs:

| Run | Bounds | Distinct states | What it shows |
|---|---|---|---|
| `sasl_faults` | 4 calls of `open()`, 3 rounds, 2 read timeouts | 56 134 | `SecuredAgreement`, `NothingLeftOver`, `FailureFreesContext`; the refinement `HandshakeSafe`; `OpenReturns` |
| `framing` | 2 connections, 4 bytes each, frames and reads of up to 3, a default buffer of 2 | 28 416 | `ReadsInOrder`, `DrainedIsSmall`; the refinement `IsByteStream`; `AllArrives` |
| `jni_threads` | 3 threads, 3 classes, 2 failures, another library | 1 326 | `EnvIsReady`, `ClassesInitOnce`, `CreatorIsAlone`, `CallsReturn` |
| `jni_refs` | 2 threads with 3 calls in all, collections of 2 entries, 2 exceptions | 392 271 | `UsesAreLive`, `HoldsItsResults`, `MonitorIsWhole`, `CallsReturn` |
| `lance_write` | 2 threads, 5 calls in all, streams of 2 batches, 1 failure, 1 failing `get_next` and 1 question after the end per stream, versions of others up to 3 | 230 297 | `AckedIsVisible`, `OneInitialiser`, `NoPanic`, `GotInOrder`, `CommitIsWhole`, `ReadsInsideCall`; the refinement `IsTable`; `CallsReturn`, `StreamReleased` |
| `paimon` | 2 rows; of 2 fields, 2 calls each, strings of 5, 8, 13 and 40 bytes, 16 bytes of room; of 1 field, one call each, the 33 values and strings of the tests; of 1 field, 3 calls each; a slot that counts to 64 | 22 336 | `ReusedAsNew`, `UsedFits`, `ReadsBack`, `HashesAsTested`, `BucketInRange` |
| `arrow_stream` | the three functions with their 2, 1 and 3 batches, 3 failures | 177 | `ReleasedOnce`, `AllocatorIsEmpty`, `HeldUnchanged` |
| `core_dump` | every mode, 3 signals besides the fault | 672 093 | `RunsOnItsFrame`, `TracesItsOwn`, `CoreShowsTheFault`, `EndsOfASignal` |

Why these bounds are enough to mean something. Four calls of `open()` allow a
failed attempt, a retry on the same connection, a close and a reopening with
stale flags, in one behaviour; three rounds make the loop run twice, so that a
challenge may be out of turn within one context. Three bytes make a frame longer than the
default buffer, and a read that ends inside, at and after a frame. Three JNI
threads are one that creates, one that waits and one that attaches; three classes
let a lookup fail first, in the middle and last. Two exceptions are one in a function
and one in its report; three calls are a constructor of the monitor that throws, the
thread that waited for it, and a user of what it built. Five Lance
calls are an initialisation, the creation, and a write and a read with another write between them
whose reload may fail; two batches let a stream end, fail and be asked again at
its beginning, in the middle and at its end. A string of 40
bytes outgrows the buffer by more than its half, which is where growth by half
is not enough; 8 and 13 bytes are a string without and one with padding. With a `SlotLimit` of 64
a row with a string of 40 bytes and a second one of 8 or more is larger than its slots can say, and when the long one comes
first, the offset of the second is cut; all other rows fit.
Three calls for one field are a write, a null and a write again, and two writes after a null.
Three signals are one that interrupts the handler of the fault, one that interrupts that
one, and one that comes when they return.

A property of every run has been seen to fail when the definition it depends on is
changed as a plausible bug would change it; these variants stand in the modules,
marked as mutants, before the definitions they replace.

Runs that find a disagreement between the code and what it says of itself:

| Run | What the code does |
|---|---|
| `sasl_retry` | A comment says a retry of `open()` "would start a new connection negotiation". A failed negotiation leaves the socket open, so the retry sends its START to a server in the middle of the old one. |
| `sasl_reopen` | `close()` does not reset the flags: after a second `open()`, `isComplete()` says that an exchange which has not begun is complete. The server never gets a token and the call fails. |
| `jni_lookup` | A common class that is not found makes the thread wait for the `std::mutex` it holds. |
| `lance_already` | A `lance_init` between the other thread's two `set` calls is told "Already initialized" while `MANAGER` is not set. |

Deadlock is checked except in `jni_threads`, where `jni_lookup`'s thread waits
for itself, and in the Lance runs, where the program is over when a panic has
aborted it or its threads have made their calls.

### Fairness

- `SaslNegotiation`: weak fairness of the client's steps, a thread that is running
  inside `open()`, and of the server's. Opening, closing, timeouts and crashes
  are owed by nobody. `OpenReturns` excepts behaviours with a
  read timeout: after one, a retry on the same connection can meet a server that has finished with the
  first attempt and waits for the rest of what it takes for a frame, and both wait.
- `SaslFraming`: a caller that goes on reading, and a peer that flushes, as
  TProtocol does at the end of a message.
- `JniEnv`, `JniRefs`: weak fairness of each thread's steps. No strong fairness of
  the mutex: a thread with an env does not return for it, and calls are finite in number.
- `LanceWrite`: weak fairness of each thread inside a call, of the owner thread of the
  write, and of the late owners. Calls, failures, questions after the end and other processes
  are owed by nobody. Again no strong fairness of the manager's mutex: calls are finite in number.
- `CoreDump`: weak fairness of the thread and the kernel's delivery (`Step`). Signals from outside
  and faults of the unwinder are owed by nobody; that a trace ends when nothing interrupts it
  is part of `Step` (`EndTrace`).

## 4. What is proved

Proved with TLAPS for every value of the constants:

| Module | Theorem | From |
|---|---|---|
| `SaslNegotiation_proofs` | `TypeCorrect`, `Agreement` (`SecuredAgreement`), `LoopFollowsToken` (`LoopHasToken`), `NoLeakOnFailure` (`FailureFreesContext`), `LeavesNothing` (`NothingLeftOver`), `Refinement` (`HandshakeSafe`) | `Rounds >= 2` |
| `SaslFraming_proofs` | `Conservation`, `ReadsAreInOrder` (`ReadsInOrder`), `DrainedBufferIsSmall` (`DrainedIsSmall`), `TransportIsByteStream` (`IsByteStream`) | the bounds are numbers, frames and reads of at least a byte (`FramingAssumption`) |
| `JniEnv_proofs` | `TypeCorrect`, `Ready` (`EnvIsReady`), `InitOnce` (`ClassesInitOnce`), `CreateAlone` (`CreatorIsAlone`) | no lookup returns null without an exception (`NoNull`) |
| `JniRefs_proofs` | `Invariance`, `UsesLive` (`UsesAreLive`), `HoldsResults` (`HoldsItsResults`), `MonitorWhole` (`MonitorIsWhole`) | the bounds are numbers (`RefsAssumption`) |
| `LanceWrite_proofs` | `AckedVisible` (`AckedIsVisible`), `Panics` (`NoPanic`), `OneInits` (`OneInitialiser`), `InOrder` (`GotInOrder`), `WholeCommits` (`CommitIsWhole`), `InsideCall` (`ReadsInsideCall`), `CacheForward`, `ManagerIsTable` (`IsTable`); of one stream by itself, `OneStreamWhole`, `OneStreamInOrder` | the bounds are numbers (`LanceAssumption`, `StreamAssumption`) |
| `PaimonRow_proofs` | `Types`, `Fits` (`UsedFits`), `Reuse` (`ReusedAsNew`), `FieldsReadBack` (`ReadsBack`), `BucketRange` | the bounds and arguments are numbers (`PaimonAssumption`) |
| `ArrowStream_proofs` | `OneRelease` (`ReleasedOnce`), `EmptyAllocator` (`AllocatorIsEmpty`), `HeldStays` (`HeldUnchanged`) | - |
| `CoreDump_proofs` | `RunsWhole` (`RunsOnItsFrame`), `TracesOwn` (`TracesItsOwn`), `CoreShows` (`CoreShowsTheFault`) | - |

**Negotiation.** `SecuredAgreement` is not inductive: that a COMPLETE comes from a
server done with *this* context follows from where tokens are. `IInv` of
`SaslHandshake` adds, in named parts: `ControlInv` (which flags go with which
place; outside an attempt the two flags agree), `ContextInv` (`conn` is allocated,
and is the newest context inside an attempt), `TokenInv` (a challenge on its way is of the context the server
talks to, a COMPLETE on its way means the server is done, and a client that has
sent a second token was answered, so the server talks to it) and `StaleInv` (a
client whose flags are stale talks to a server that has had no token, so no
COMPLETE can come). `Rounds >= 2` is needed: with a mechanism of one round and a
timeout, a retry on the same connection is taken for authenticated by the COMPLETE
the server sent for the first attempt. The demo's mechanism, GSSAPI, has several rounds.

`NothingLeftOver` needs its own invariant, `LinkInv`, on top of `IInv`. Before the client has sent its START,
what is on its way or with the server is of earlier attempts (`EarlierInv`). A first token comes right
behind its START (`FirstTokenInv`), and a server that has not taken these two has answered nothing and finds
nothing behind them (`UnreadInv`). Once it has, client and server take turns: one message
at most is on its way, in either direction (`TurnsInv`). So when the COMPLETE of this attempt is
read, there is no token of it left to read and no answer behind it.

**Framing.** `FramingInv` is a conservation law. What the reader got, then what is buffered,
then the rest of the frame that is being read, then the frames on the wire, in this order, are the bytes
the peer wrote, without a gap or a repetition, whatever cuts frames and reads make. When a read fails,
the rest of the frame is lost, and what has been delivered and buffered until then stays in order.
`ReadsAreInOrder` is about what is delivered. `DrainedIsSmall`, a buffer read to its end
is back at the default size at most with nothing in front, whatever the frames were, needs to know that the buffer has grown no further
than what was read and what is left in it take up, and that a drained one has been reset (`BufferInv`).

`TransportIsByteStream` asks more than order: the bytes of a read have to be the *next* ones, and as many
as the stream still has. `InOrder` says that neighbours in transit follow each other; to conclude from it
that the k-th byte of a frame is k positions after the last one received takes an induction, which the
prover cannot do. `FramingInv` therefore says it outright (`Placed`): the rest of the frame being
read follows what has arrived, the bytes of each frame are numbered from its first one, and
none is beyond what was written. Each action then maps to one step of `ByteStream` or to none, a lemma each
(`WriteMaps`, `ReadBufferedMaps`, `ReadFrameMaps`, `BreakMaps`, `ReopenMaps`, `HiddenMaps`). For a read of a
frame, what the read returns and what stays in `memBuf_` are the front of `Flow` (`ReceiveMaps`, `TakenInFront`).

**JNI environment.** `MutexInv` says that exactly the thread inside `getGlobalJNIEnv` holds
`init_mutex`; the classes up to the one it looks up are set once, the others not at all
unless the initialisation is done; a thread past `call_once` is attached and finds every class.
A lookup that throws blocks its thread for ever under the mutex, so no second
run of the initialisation assigns a class again: the invariant relies on it, and so
`ClassesInitOnce` would have to be reconsidered if that wait were repaired.
`NoNull` is needed: with null lookups, `init_common_classes` stores null and
`call_once` counts the run, so an env is handed out with a class that is null for good.

**JNI references.** `RefsInv` says of each thread what it holds before the k-th step of the
script it is in: in the body (`InBody`), where a loop repeats steps and so the position in it is what counts,
and in the two parts of a report (`InReport`), for every size of a collection. An early
return or an exception goes through `Unwind`, after which only results are left. Of the
monitor, what its constructor has found so far belongs to the thread that constructs it
(`Builds`), one at a time (`MonitorInv`); whoever else waits, or finds it whole. TLC has
checked this invariant on the bounds of `jni_refs`.

**Lance stream.** `SInv` adds to what is committed where a question is (`QuestionInv`: with the
channel, with the owner, or answered by the end), that the owner leaves its loop only at the end of
the stream or when the writer has returned, and that the writer sees the end only there (`EndInv`),
and that what was fetched is what was handed over and at most one batch more (`GotInv`).

**Lance calls.** `SystemInv` of the composition has three parts. `FfiInv` is about the calls and does
not mention the stream: exactly the thread inside a locked function holds the mutex, so two reloads
or a reload and a read never cross; a thread between the two `set`s is the only one, and the manager
is not set yet; what was acknowledged is at most what the manager holds (`acked <= dataset`), which is
why a failed reload must leave its write unacknowledged. Every step of the system is a step of
the calls or leaves them alone (`SystemIsFfi`), which proves `FfiInv` and that `dataset` never decreases
at once. `SInv` of the stream is kept because a step of the stream in the composition is one of
`LanceStream` (`WriterSide`, `OwnerSide`), which never mentions the calls, and holds anew when a stream is handed over. `WriteInv` ties
the two: a stream whose writer has not returned has a thread inside the write, and a thread that
reloads has seen its write committed.

`ManagerIsTable` is about a system whose every step is one of the calls or leaves them alone, so it is a statement about
the calls alone (`FfiMaps`), and holds of the composition by `SystemIsFfi`. The mapping needs `TableInv`: a
version is held exactly by the thread about to reload, and a function that writes or reads has found the table
and opened it. With the mutex of `FfiInv`, nobody holds a version while another thread opens, commits
or reads (`OneHolds`), which is the atomicity that the abstract table promises. TLC has checked `TableInv` on the bounds
of `lance_write`. `CacheForward` says the part of it that is easiest to lose: the version the manager
holds never goes back.

**Paimon.** The cursor stays a multiple of 8 within the buffer, by what
`EnsureCapacity` and `RoundedToWord` return, and the bits of `Arity` fields after
8 bits of header fit in `NullBitsSize` bytes. `Reuse` has its own
invariant, `SInv`: both builders have the shape of a builder and the same words in use;
its main lemma, `VarWords`, says what `write_bytes_to_var` leaves in each of these words,
padding included. `FieldsReadBack` has `RInv`, which adds that the words a slot points to are in use (`InUse`): a
later string is written after them, and a write to another slot leaves them alone. What a slot says of a long string is
cut to `SlotLimit`, so this is about rows of at most that size, 2^32 bytes: in these every offset and length is
below the limit (`LongHeld`), and since the cursor only grows within a row, so was every earlier one (`Undisturbed`).
The null bits of a row are the fields its calls set to null, in whatever order they were written. A slot is zero
until its field's first write, and again after a null, hence zero beside a value that did not go over another write. `BucketRange` is `BucketInRange` for every
hash and every number of buckets, of the operator alone.

**Arrow.** `ArrowInv` says where the stream is owned: with the reader exactly while the consumer reads,
on the stack before the import, nowhere once it has been released (`OwnerInv`). An import that fails leaves one of the last
two, and the `if (stream.release)` at the end tells them apart. The buffers in use are those of the batch
looked at and of the one just fetched, and nothing else (`BuffersInv`); since each batch has a buffer of its
own (`BatchesInv`), assigning the new one frees exactly the old one.

**Core dump.** The three properties follow from one invariant, `IInv`, about a stack of
contexts of any depth. A handler's signal is not blocked in the context below it (`NestInv`), so when
a handler has raised its signal at the default disposition and returns, exactly that signal is pending and
not blocked (`WaitInv`), no instruction of the context below runs (`Runs`), and the process ends there:
in the context the signal interrupted, which is `CoreShowsTheFault`. Every context that is not the top of
the stack is therefore dead, whatever later handlers write over; `RunInv` has to say only of the
running one that its frame is whole, that `g_last_ucontext` is its own, and how far it is with its
signal. A signal that was handled is blocked from then on, or about to end the process (`HitInv`), so it
cannot come a second time as a first one; the `abort()` of a trace, which unblocks its signal, is
the exception `CoreShowsTheFault` names. TLC has checked `IInv` with four signals, 4.1 million states.

Only model-checked:

- liveness under fairness (`OpenReturns`, `AllArrives`, `CallsReturn`, `StreamReleased`,
  `EndsOfASignal`), which is outside what the prover does;
- the hash, which is computed on the rows of the tests: `PaimonHash` needs the bitwise operators, which
  have no definition the provers can use. `BucketInRange` for the hashes of these rows is an instance of
  `BucketRange`.

## 5. What is left out

- Memory: the buffers of `receiveSaslMessage` and `read()` when a read throws, a
  length too large to allocate (`std::bad_alloc` is not a `TException`, and the
  catch of `doSaslNegotiation` does not see it).
- Frames of length 0, which `readAll()` would take for the end of the stream:
  TProtocol never writes an empty buffer.
- The end of a JNI thread: threads attach and are never detached.
- The global references that each report of a Java exception leaves: `jcls_sw` and
  `jcls_pw` are `AutoLocalJobject`s, so what `_find_class` made as a global reference is
  deleted as a local one, which JNI does not define. The model lets them stay (`Strays`).
- `NewStringUTF` out of memory, null results of a map's `get`, and the helpers that keep no
  reference (`jstr_to_str`, `jbytes_to_str`, `new_jbytes`, `Method::to_string`).
- `close()` leaves bytes in `memBuf_`, which the first `read()` of the next connection
  returns; the model does the same, and `ReadsInOrder` is about each connection's bytes.
- `lance_init` returns 1 when the library is initialised already, where the header
  says "negative on error"; the model has the code's value.
- `paimon_hash()`, for bytes with a tail, which the builder does not use.
- `drop_table`, `read_filtered_data` and `get_table_schema`, which the C interface does
  not call, and `lance_cleanup`, which does nothing.
- Retries of a write whose reload failed: it is committed and reported as failed,
  and the code promises nothing of it.
- A narrow value written over a wider one in the same slot leaves the wider one's
  upper bytes, where a comment of `write_primitive` says "Leave remaining bytes of the 8-byte slot as
  zero". The model does as the code does; `ReadsBack` asks for zeros unless the value went over another write, and
  excepts that case.
- The strings of a row larger than 2^32 bytes: their offsets are cut and point elsewhere. `ReadsBack` excepts
  these rows; `ReusedAsNew` and `UsedFits` hold of them too.

- `jni/bthread_jni_issue`: what goes wrong there happens inside HotSpot, which takes the
  stack of a fiber for that of a thread, and in the scheduler of brpc.
- The Spring class loader demo: JNI calls in a row in one thread.
- Arrow: the search for jars and the environment variables of `init_jni_env`; a process that goes on
  after an exception left one of the functions (nothing catches it, so it does not).
- The core dump handler: what a trace prints, and that `std::cout` keeps it in a buffer when it is no
  terminal. `RunsOnItsFrame` excepts `CONTEXT_MODE=bad` without the alternate stack, which
  the demo's README does not combine: there a nested handler starts on the fiber it is
  already on, and writes over its own frame.

## 6. Plan

The order is by how much of the system's own logic is at stake.

1. Done: negotiation with its abstract handshake, and framing, with proofs; JNI environment and
   references with proofs; Lance, its stream and their composition with proofs; Paimon row with
   proofs, and its hash; the Arrow streams and the core dump handler with proofs.
2. Done: the three abstract specifications (the handshake, the byte stream, the versioned table) and
   their refinements, proved step by step. Every invariant and refinement that a passing run checks is proved,
   except those section 4 lists.
3. Left, when the code grows into it: the row conversion of Lance, if it comes to keep state;
   `lance_cleanup`, when it does something.
