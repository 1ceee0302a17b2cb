--------------------------- MODULE LanceWrite_proofs ---------------------------
(***************************************************************************)
(* Proofs about the calls of the library with the streams of their writes, *)
(* for any number of threads, calls, versions, batches and failures.  The  *)
(* invariant has two sides that meet in the write: that of the calls       *)
(* (FfiInv), which does not mention the stream, and that of the stream of  *)
(* one write (SInv), which does not mention the calls.                     *)
(***************************************************************************)
EXTENDS LanceWrite, SequenceTheorems, TLAPS

-----------------------------------------------------------------------------
(* The thread that has locked the manager is the one between Lock and      *)
(* Returns, and a function of the manager says where it goes from there.   *)
Inside == {"create", "open", "write", "reload", "read"}

MutexInv ==
    /\ \A t \in Threads : pc[t] \in Inside <=> mutex = t
    /\ \A t \in Threads : pc[t] = "lock" => op[t] \in Functions
    /\ \A t \in Threads : pc[t] = "open" => op[t] \in {"write", "read"}

(* Of several threads in lance_init one gets past RUNTIME.set.             *)
InitialisedInv ==
    /\ manager => runtime
    /\ \A t \in Threads : pc[t] = "setManager" => runtime /\ ~manager
    /\ \A t, u \in Threads :
            pc[t] = "setManager" /\ pc[u] = "setManager" => t = u
    /\ \A t \in Threads : initRc[t] = 0 => manager
    /\ \A t, u \in Threads : initRc[t] = 0 /\ initRc[u] = 0 => t = u

(* What was acknowledged is in the version the manager holds: a reload     *)
(* that failed leaves the write unacknowledged.                            *)
VersionsInv ==
    /\ acked <= dataset
    /\ \A t \in Threads : known[t] <= acked
    /\ AckedIsVisible

FfiInv == TypeOK /\ MutexInv /\ InitialisedInv /\ VersionsInv /\ NoPanic

-----------------------------------------------------------------------------
Prefix(n) == [i \in 1 .. n |-> i]

(* The owner has taken the writer's question and not answered it.          *)
Serving == owner \in {"next", "send"}

(* A batch that is fetched and not handed over.                            *)
OnItsWay == IF owner = "send" /\ item # S!Error THEN 1 ELSE 0

TypeInv ==
    /\ writer \in {"idle", "wait", "end", "failed", "returned"}
    /\ owner \in {"recv", "next", "send", "release", "leave", "gone"}
    /\ tx \in BOOLEAN /\ rx \in BOOLEAN /\ commands \in 0 .. 1
    /\ answer \in {"none", "waiting", "dropped"}
    /\ item \in 1 .. S!Error /\ next \in 1 .. S!End
    /\ errors \in 0 .. MaxErrors /\ again \in 0 .. MaxAgain
    /\ released \in 0 .. 1
    /\ outcome \in {"none", "committed", "failed"}

(* A question is with the channel, with the owner, or answered by the end. *)
QuestionInv ==
    /\ commands = 1 => writer = "wait" /\ answer = "waiting" /\ ~Serving
    /\ Serving => writer = "wait" /\ answer = "waiting"
    /\ owner = "gone" => commands = 0
    /\ rx <=> owner # "gone"

(* The owner leaves its loop at the end of the stream or when the writer   *)
(* has returned; the writer comes to the end at the end of the stream.     *)
EndInv ==
    /\ ~tx <=> writer = "returned"
    /\ owner \in {"release", "leave", "gone"} => next = S!End \/ ~tx
    /\ writer = "wait" /\ answer = "dropped" => next = S!End /\ ~Serving
    /\ writer = "end" => next = S!End /\ ~Serving
    /\ outcome # "none" => writer = "returned"
    /\ outcome = "committed" => next = S!End
    /\ released = IF owner \in {"leave", "gone"} THEN 1 ELSE 0

(* The batches fetched are those handed over and at most one more.         *)
GotInv ==
    /\ owner = "send" => item = S!Error \/ (item = next - 1 /\ item \in 1 .. Batches)
    /\ got = Prefix(next - 1 - OnItsWay)
    /\ next - 1 - OnItsWay \in 0 .. Batches

SInv == TypeInv /\ QuestionInv /\ EndInv /\ GotInv

-----------------------------------------------------------------------------
(* The write and the call it belongs to.                                   *)
WriteInv ==
    /\ writer # "returned" => \E t \in Threads : pc[t] = "write"
    /\ \A t \in Threads : pc[t] = "reload" => outcome = "committed"

SystemInv == FfiInv /\ SInv /\ WriteInv

-----------------------------------------------------------------------------
(* What a step of the system is to the calls.                              *)
FaultsMove == Fault \/ UNCHANGED faults

WriteEnds(t) == WriteReturnsError(t) /\ FaultsMove

FaultOnly ==
    FaultsMove /\ UNCHANGED <<pc, caller, global, mutex, store, aborted>>

FfiStep ==
    \/ OthersCommit \/ FaultOnly
    \/ \E t \in Threads :
          Calls(t) \/ Step(t) \/ Fails(t) \/ Commit(t) \/ WriteEnds(t)

LEMMA SystemIsFfi ==
    ASSUME SystemNext
    PROVE  ~aborted /\ FfiStep
<1> USE DEF FfiStep, FaultOnly, FaultsMove, WriteEnds
<1>1. ASSUME NEW t \in Threads, ThreadStep(t) PROVE ~aborted /\ FfiStep
  <2>1. CASE HandOverStream(t) \/ Pulls(t)
    BY <1>1, <2>1 DEF HandOverStream, Pulls, vars, ThreadStep
  <2>2. CASE CommitStream(t)
    BY <1>1, <2>2 DEF CommitStream, ThreadStep
  <2>3. CASE GiveUp(t)
    BY <1>1, <2>3 DEF GiveUp, ThreadStep
  <2>4. CASE TableStep(t)
    BY <1>1, <2>4 DEF TableStep, ThreadStep
  <2> QED
    BY <1>1, <2>1, <2>2, <2>3, <2>4 DEF ThreadStep, WriteStep
<1>2. CASE OwnerStep
  BY <1>2 DEF OwnerStep, OwnerRuns, vars
<1>3. CASE LateStep
  BY <1>3 DEF LateStep, LateOwnerEnds, vars
<1>4. CASE Environment
  <2>1. CASE OthersCommit
    BY <1>4, <2>1 DEF Environment
  <2>2. ASSUME NEW t \in Threads, Calls(t) \/ Fails(t)
        PROVE  ~aborted /\ FfiStep
    BY <1>4, <2>2 DEF Environment
  <2>3. ASSUME NEW t \in Threads, Unreadable(t)
        PROVE  ~aborted /\ FfiStep
    BY <1>4, <2>3 DEF Environment, Unreadable
  <2>4. ASSUME NEW t \in Threads, PullsAgain(t)
        PROVE  ~aborted /\ FfiStep
    BY <1>4, <2>4 DEF Environment, PullsAgain, vars
  <2>5. ASSUME NEW t \in Threads, WriterFails(t)
        PROVE  ~aborted /\ FfiStep
    BY <1>4, <2>5 DEF Environment, WriterFails, WriteCannotSucceed
  <2> QED
    BY <1>4, <2>1, <2>2, <2>3, <2>4, <2>5 DEF Environment
<1> QED
  BY <1>1, <1>2, <1>3, <1>4 DEF SystemNext

-----------------------------------------------------------------------------
(* The calls: one step for each kind of action, by parts of FfiInv.        *)
LEMMA CallInitPreserves ==
    ASSUME FfiInv, NEW t \in Threads, CallInit(t)
    PROVE  FfiInv'
<1> USE LanceAssumption DEF FfiInv, CallInit, AlreadyInitialised, Goto, global, store
<1>1. TypeOK'
  BY DEF TypeOK, Pcs, Codes
<1>2. MutexInv'
  BY DEF TypeOK, MutexInv, Inside
<1>3. InitialisedInv'
  BY DEF TypeOK, InitialisedInv, Pcs, Codes
<1>4. VersionsInv' /\ NoPanic'
  BY DEF TypeOK, VersionsInv, AckedIsVisible, NoPanic, LostRace
<1> QED
  BY <1>1, <1>2, <1>3, <1>4

LEMMA SetRuntimePreserves ==
    ASSUME FfiInv, NEW t \in Threads, SetRuntime(t), ~aborted
    PROVE  FfiInv'
<1> USE LanceAssumption DEF FfiInv, SetRuntime, Panic, Goto, caller, global, store
<1>1. TypeOK'
  <2>1. /\ pc' \in [Threads -> Pcs] /\ faults' \in 0 .. MaxFaults
        /\ UNCHANGED <<op, initRc, calls, known, seen, manager, mutex,
                      dataset, table, mine, acked>>
    BY DEF TypeOK, Pcs
  <2>2. runtime' \in BOOLEAN /\ aborted' \in BOOLEAN
    BY Zenon DEF TypeOK
  <2> QED
    BY <2>1, <2>2 DEF TypeOK
<1>2. MutexInv'
  BY DEF TypeOK, MutexInv, Inside
<1>3. InitialisedInv'
  BY DEF TypeOK, InitialisedInv, Pcs, Codes
<1>4. VersionsInv' /\ NoPanic'
  BY DEF TypeOK, VersionsInv, AckedIsVisible, NoPanic, LostRace
<1> QED
  BY <1>1, <1>2, <1>3, <1>4

LEMMA SetManagerPreserves ==
    ASSUME FfiInv, NEW t \in Threads, SetManager(t), ~aborted
    PROVE  FfiInv'
<1> USE DEF FfiInv, SetManager, Goto, store
<1>1. TypeOK'
  BY DEF TypeOK, Pcs, Codes
<1>2. MutexInv'
  BY DEF TypeOK, MutexInv, Inside
<1>3. InitialisedInv'
  BY DEF TypeOK, InitialisedInv, Pcs, Codes
<1>4. VersionsInv' /\ NoPanic'
  BY DEF TypeOK, VersionsInv, AckedIsVisible, NoPanic, LostRace
<1> QED
  BY <1>1, <1>2, <1>3, <1>4

LEMMA CallTablePreserves ==
    ASSUME FfiInv, NEW t \in Threads, NEW f \in Functions, CallTable(t, f), ~aborted
    PROVE  FfiInv'
<1> USE LanceAssumption DEF FfiInv, CallTable, MayCall, Goto, Functions, global, store
<1>1. runtime /\ manager
  BY DEF InitialisedInv
<1>2. TypeOK'
  <2>1. /\ pc' \in [Threads -> Pcs] /\ op' \in [Threads -> Functions \cup {"none"}]
        /\ calls' \in 0 .. MaxCalls
        /\ UNCHANGED <<initRc, runtime, manager, aborted, mutex, dataset, table,
                      mine, acked, faults>>
    BY <1>1 DEF TypeOK, Pcs
  <2>2. known' \in [Threads -> 0 .. table] /\ seen' \in [Threads -> 0 .. table]
    BY DEF TypeOK
  <2> QED
    BY <2>1, <2>2 DEF TypeOK
<1>3. MutexInv'
  BY <1>1 DEF TypeOK, MutexInv, Inside
<1>4. InitialisedInv'
  BY <1>1 DEF TypeOK, InitialisedInv
<1>5. VersionsInv' /\ NoPanic'
  BY <1>1 DEF TypeOK, VersionsInv, AckedIsVisible, NoPanic
<1> QED
  BY <1>2, <1>3, <1>4, <1>5

LEMMA LockPreserves ==
    ASSUME FfiInv, NEW t \in Threads, Lock(t), ~aborted
    PROVE  FfiInv'
<1> USE LanceAssumption DEF FfiInv, Lock, Goto, Functions, caller, global, store
<1>1. TypeOK'
  BY DEF TypeOK, Pcs, Codes
<1>2. MutexInv'
  BY DEF TypeOK, MutexInv, Inside
<1>3. InitialisedInv'
  BY DEF TypeOK, InitialisedInv
<1>4. VersionsInv' /\ NoPanic'
  BY DEF TypeOK, VersionsInv, AckedIsVisible, NoPanic
<1> QED
  BY <1>1, <1>2, <1>3, <1>4

LEMMA OpenPreserves ==
    ASSUME FfiInv, NEW t \in Threads, Open(t), ~aborted
    PROVE  FfiInv' /\ dataset' >= dataset
<1> USE DEF FfiInv, Open, Opened, Goto, caller, global
<1>1. TypeOK' /\ dataset' >= dataset
  BY DEF TypeOK, Pcs, Codes, Functions, MutexInv
<1>2. MutexInv'
  BY DEF TypeOK, MutexInv, Inside
<1>3. InitialisedInv'
  BY DEF TypeOK, InitialisedInv, MutexInv
<1>4. VersionsInv' /\ NoPanic'
  BY DEF TypeOK, VersionsInv, AckedIsVisible, NoPanic
<1> QED
  BY <1>1, <1>2, <1>3, <1>4

(* Whatever ends a call under the mutex and leaves the versions alone, or  *)
(* moves them as a reload, a read or the creation does.                    *)
LEMMA ReturnsPreserves ==
    ASSUME FfiInv, NEW t \in Threads, Returns(t), ~aborted, pc[t] \in Inside,
           faults' \in 0 .. MaxFaults,
           table' \in Nat, dataset' \in 0 .. table', acked' \in 0 .. dataset',
           table' >= table, dataset' >= dataset, acked' >= acked,
           mine' \in [Threads -> 0 .. table'],
           seen' \in {seen, [seen EXCEPT ![t] = dataset]}
    PROVE  FfiInv'
<1> USE LanceAssumption DEF FfiInv, Returns, Goto, global
<1>1. TypeOK'
  <2>1. /\ pc' \in [Threads -> Pcs] /\ op' \in [Threads -> Functions \cup {"none"}]
        /\ UNCHANGED <<initRc, calls, runtime, manager, aborted>>
        /\ mutex' \in Threads \cup {NoThread}
    BY DEF TypeOK, Pcs
  <2>2. acked' \in 0 .. table'
    OBVIOUS
  <2>3. known' \in [Threads -> 0 .. table'] /\ seen' \in [Threads -> 0 .. table']
    <3>1. table \in Nat /\ 0 .. table \subseteq 0 .. table' /\ dataset \in 0 .. table
      BY DEF TypeOK
    <3> QED
      BY <3>1 DEF TypeOK
  <2> QED
    BY <2>1, <2>2, <2>3 DEF TypeOK
<1>2. MutexInv'
  BY DEF TypeOK, MutexInv, Inside
<1>3. InitialisedInv'
  BY DEF TypeOK, InitialisedInv, Inside
<1>4. VersionsInv' /\ NoPanic'
  BY DEF TypeOK, VersionsInv, AckedIsVisible, NoPanic
<1> QED
  BY <1>1, <1>2, <1>3, <1>4

LEMMA EndsPreserve ==
    ASSUME FfiInv, NEW t \in Threads, ~aborted,
           \/ Create(t) \/ CreateFails(t) \/ Reload(t) \/ ReloadFails(t)
           \/ Read(t) \/ ReadFails(t) \/ WriteEnds(t)
    PROVE  FfiInv' /\ dataset' >= dataset
<1> USE LanceAssumption DEF Inside
<1>1. /\ table \in Nat /\ dataset \in 0 .. table /\ acked \in 0 .. dataset
      /\ mine \in [Threads -> 0 .. table] /\ faults \in 0 .. MaxFaults
  BY DEF FfiInv, TypeOK, VersionsInv
<1>2. CASE Create(t)
  BY <1>1, <1>2, ReturnsPreserves DEF Create
<1>3. CASE CreateFails(t)
  BY <1>1, <1>3, ReturnsPreserves DEF CreateFails, Fault, store
<1>4. CASE Reload(t)
  BY <1>1, <1>4, ReturnsPreserves DEF Reload, Reloaded
<1>5. CASE ReloadFails(t)
  BY <1>1, <1>5, ReturnsPreserves DEF ReloadFails, Fault
<1>6. CASE Read(t)
  <2>1. /\ Returns(t) /\ pc[t] \in Inside
        /\ seen' = [seen EXCEPT ![t] = dataset]
        /\ UNCHANGED <<dataset, table, mine, acked, faults>>
    BY <1>6 DEF Read, store
  <2>2. seen' \in {seen, [seen EXCEPT ![t] = dataset]}
    BY <2>1
  <2>3. /\ table' \in Nat /\ dataset' \in 0 .. table' /\ acked' \in 0 .. dataset'
        /\ table' >= table /\ dataset' >= dataset /\ acked' >= acked
        /\ mine' \in [Threads -> 0 .. table'] /\ faults' \in 0 .. MaxFaults
    BY <1>1, <2>1
  <2>4. Returns(t) /\ pc[t] \in Inside
    BY <2>1
  <2> QED
    BY <2>2, <2>3, <2>4, ReturnsPreserves
<1>7. CASE ReadFails(t)
  BY <1>1, <1>7, ReturnsPreserves DEF ReadFails, Fault, store
<1>8. CASE WriteEnds(t)
  BY <1>1, <1>8, ReturnsPreserves
     DEF WriteEnds, WriteReturnsError, FaultsMove, Fault, store
<1> QED
  BY <1>2, <1>3, <1>4, <1>5, <1>6, <1>7, <1>8

LEMMA CommitPreserves ==
    ASSUME FfiInv, NEW t \in Threads, Commit(t), ~aborted
    PROVE  FfiInv'
<1> USE DEF FfiInv, Commit, Goto, caller, global
<1>1. TypeOK'
  <2>1. /\ pc' \in [Threads -> Pcs]
        /\ UNCHANGED <<op, initRc, calls, known, seen, runtime, manager, mutex,
                      dataset, acked, aborted, faults>>
    BY DEF TypeOK, Pcs
  <2>2. table \in Nat /\ table' = table + 1 /\ 0 .. table \subseteq 0 .. table'
    BY DEF TypeOK
  <2>3. mine' \in [Threads -> 0 .. table']
    BY <2>2 DEF TypeOK
  <2> QED
    BY <2>1, <2>2, <2>3 DEF TypeOK
<1>2. MutexInv'
  BY DEF TypeOK, MutexInv, Inside
<1>3. InitialisedInv'
  BY DEF TypeOK, InitialisedInv
<1>4. VersionsInv' /\ NoPanic'
  BY DEF TypeOK, VersionsInv, AckedIsVisible, NoPanic
<1> QED
  BY <1>1, <1>2, <1>3, <1>4

LEMMA OthersPreserve ==
    ASSUME FfiInv, OthersCommit, ~aborted
    PROVE  FfiInv'
<1> USE DEF FfiInv, OthersCommit, caller, global
<1>1. TypeOK'
  <2>1. table \in Nat /\ table' = table + 1 /\ 0 .. table \subseteq 0 .. table'
    BY DEF TypeOK
  <2> QED
    BY <2>1 DEF TypeOK
<1>2. MutexInv' /\ InitialisedInv' /\ VersionsInv' /\ NoPanic'
  BY DEF MutexInv, InitialisedInv, VersionsInv, AckedIsVisible, NoPanic
<1> QED
  BY <1>1, <1>2

(* A panic for which a failure of the file system or the runtime is the    *)
(* reason, or that of a failure alone.                                     *)
LEMMA FaultPreserves ==
    ASSUME FfiInv, ~aborted,
           \/ FaultOnly
           \/ Fault /\ Panic
    PROVE  FfiInv'
<1> USE LanceAssumption DEF FfiInv, FaultOnly, FaultsMove, Fault, Panic, caller, global, store
<1>1. /\ UNCHANGED <<pc, op, initRc, calls, known, seen, runtime, manager, mutex,
                    dataset, table, mine, acked>>
      /\ faults' \in 0 .. MaxFaults
  BY DEF TypeOK
<1>2. aborted' \in BOOLEAN
  BY Zenon DEF TypeOK
<1>3. aborted' => faults' # 0
  <2>1. CASE FaultOnly
    BY <2>1
  <2>2. CASE Fault /\ Panic
    BY <2>2 DEF TypeOK
  <2> QED
    BY <2>1, <2>2
<1>4. TypeOK'
  BY <1>1, <1>2 DEF TypeOK
<1>5. MutexInv' /\ InitialisedInv' /\ VersionsInv'
  BY <1>1 DEF MutexInv, InitialisedInv, VersionsInv, AckedIsVisible
<1>6. NoPanic'
  BY <1>3 DEF NoPanic
<1> QED
  BY <1>4, <1>5, <1>6

LEMMA FfiPreserves ==
    ASSUME FfiInv, ~aborted, FfiStep
    PROVE  FfiInv' /\ dataset' >= dataset
<1>1. dataset \in Nat
  BY DEF FfiInv, TypeOK
<1>2. ASSUME NEW t \in Threads,
             Calls(t) \/ Step(t) \/ Fails(t) \/ Commit(t) \/ WriteEnds(t)
      PROVE  FfiInv' /\ dataset' >= dataset
  <2>1. CASE CallInit(t)
    BY <1>1, <2>1, CallInitPreserves DEF CallInit, store
  <2>2. ASSUME NEW f \in Functions, CallTable(t, f)
        PROVE  FfiInv' /\ dataset' >= dataset
    <3>1. FfiInv'
      BY <2>2, CallTablePreserves
    <3>2. dataset' = dataset
      BY <2>2 DEF CallTable, store
    <3> QED
      BY <1>1, <3>1, <3>2
  <2>3. CASE SetRuntime(t)
    <3>1. FfiInv'
      BY <2>3, SetRuntimePreserves
    <3>2. dataset' = dataset
      BY <2>3, Zenon DEF SetRuntime, Panic, store
    <3> QED
      BY <1>1, <3>1, <3>2
  <2>4. CASE SetManager(t)
    <3>1. FfiInv'
      BY <2>4, SetManagerPreserves
    <3>2. dataset' = dataset
      BY <2>4, Zenon DEF SetManager, store
    <3> QED
      BY <1>1, <3>1, <3>2
  <2>5. CASE Lock(t)
    BY <1>1, <2>5, LockPreserves DEF Lock, store
  <2>6. CASE Open(t)
    BY <2>6, OpenPreserves
  <2>7. CASE Commit(t)
    <3>1. FfiInv'
      BY <2>7, CommitPreserves
    <3>2. dataset' = dataset
      BY <2>7 DEF Commit
    <3> QED
      BY <1>1, <3>1, <3>2
  <2>8. CASE BuildPanics(t) \/ OpenPanics(t)
    <3>1. Fault /\ Panic
      BY <2>8 DEF BuildPanics, OpenPanics
    <3>2. FfiInv'
      BY <3>1, FaultPreserves
    <3>3. dataset' = dataset
      BY <3>1 DEF Panic, store
    <3> QED
      BY <1>1, <3>2, <3>3
  <2>9. CASE \/ Create(t) \/ CreateFails(t) \/ Reload(t) \/ ReloadFails(t)
             \/ Read(t) \/ ReadFails(t) \/ WriteEnds(t)
    BY <2>9, EndsPreserve
  <2> QED
    BY <1>2, <2>1, <2>2, <2>3, <2>4, <2>5, <2>6, <2>7, <2>8, <2>9
       DEF Calls, Step, Fails
<1>3. CASE OthersCommit
  BY <1>1, <1>3, OthersPreserve DEF OthersCommit
<1>4. CASE FaultOnly
  BY <1>1, <1>4, FaultPreserves DEF FaultOnly, store
<1> QED
  BY <1>2, <1>3, <1>4 DEF FfiStep

-----------------------------------------------------------------------------
(* One more batch handed over.                                             *)
LEMMA PrefixGrows ==
    ASSUME NEW n \in Nat
    PROVE  Append(Prefix(n), n + 1) = Prefix(n + 1)
<1>1. /\ Prefix(n) \in Seq(Nat) /\ Len(Prefix(n)) = n
      /\ Prefix(n + 1) \in Seq(Nat) /\ Len(Prefix(n + 1)) = n + 1
      /\ n + 1 \in Nat
  BY DEF Prefix
<1>2. /\ Append(Prefix(n), n + 1) \in Seq(Nat)
      /\ Len(Append(Prefix(n), n + 1)) = n + 1
      /\ \A i \in 1 .. n : Append(Prefix(n), n + 1)[i] = Prefix(n)[i]
      /\ Append(Prefix(n), n + 1)[n + 1] = n + 1
  BY <1>1, AppendProperties
<1>3. \A i \in 1 .. n + 1 : Append(Prefix(n), n + 1)[i] = Prefix(n + 1)[i]
  BY <1>2 DEF Prefix
<1> QED
  BY <1>1, <1>2, <1>3, SeqEqual

LEMMA StreamInitInv ==
    ASSUME S!Init
    PROVE  SInv
<1> USE StreamAssumption DEF S!Init, S!End, S!Error, Serving, OnItsWay
<1>1. TypeInv
  BY DEF TypeInv
<1>2. QuestionInv /\ EndInv
  BY DEF QuestionInv, EndInv
<1>3. GotInv
  BY DEF GotInv, Prefix
<1> QED
  BY <1>1, <1>2, <1>3 DEF SInv

-----------------------------------------------------------------------------
(* The writer's steps fetch nothing and are given nothing.                 *)
LEMMA WriterKeeps ==
    ASSUME SInv, UNCHANGED <<owner, item, next, got>>
    PROVE  GotInv'
  BY StreamAssumption DEF SInv, GotInv, OnItsWay, Prefix, S!End, S!Error

LEMMA WriterSide ==
    ASSUME SInv, S!Ask \/ S!AskRefused \/ S!GetEnd \/ S!Finish \/ S!AskAgain \/ S!WriterFails
    PROVE  SInv'
<1> USE StreamAssumption DEF SInv, TypeInv, QuestionInv, EndInv, Serving, S!End, S!Error,
        S!channels, S!stream, S!progress
<1>1. CASE S!Ask
  <2>1. GotInv'  BY <1>1, WriterKeeps DEF S!Ask
  <2> QED  BY <1>1, <2>1 DEF S!Ask
<1>2. CASE S!AskRefused
  <2>1. GotInv'  BY <1>2, WriterKeeps DEF S!AskRefused
  <2> QED  BY <1>2, <2>1 DEF S!AskRefused
<1>3. CASE S!GetEnd
  <2>1. GotInv'  BY <1>3, WriterKeeps DEF S!GetEnd
  <2> QED  BY <1>3, <2>1 DEF S!GetEnd
<1>4. CASE S!Finish
  <2>1. GotInv'  BY <1>4, WriterKeeps DEF S!Finish
  <2>2. ~tx' /\ tx' \in BOOLEAN
    BY <1>4, Zenon DEF S!Finish
  <2>3. /\ writer' = "returned" /\ writer \in {"end", "failed"}
        /\ outcome' = IF writer = "end" THEN "committed" ELSE "failed"
        /\ again' = 0
        /\ UNCHANGED <<owner, rx, commands, answer, item, next, errors, released>>
    BY <1>4 DEF S!Finish
  <2>4. TypeInv'
    BY <2>2, <2>3
  <2>5. QuestionInv' /\ EndInv'
    BY <2>2, <2>3
  <2> QED
    BY <2>1, <2>4, <2>5
<1>5. CASE S!AskAgain
  <2>1. GotInv'  BY <1>5, WriterKeeps DEF S!AskAgain
  <2> QED  BY <1>5, <2>1 DEF S!AskAgain
<1>6. CASE S!WriterFails
  <2>1. GotInv'  BY <1>6, WriterKeeps DEF S!WriterFails
  <2> QED  BY <1>6, <2>1 DEF S!WriterFails
<1> QED
  BY <1>1, <1>2, <1>3, <1>4, <1>5, <1>6

(* The owner's steps: receiving, fetching, handing over, leaving.          *)
LEMMA OwnerPreserves ==
    ASSUME SInv, S!OwnerStep
    PROVE  SInv'
<1> USE StreamAssumption DEF SInv, TypeInv, QuestionInv, EndInv, GotInv, Serving,
        OnItsWay, S!End, S!Error, S!channels, S!stream, S!progress
<1>1. CASE S!Receive
  BY <1>1 DEF S!Receive
<1>2. CASE S!Disconnected
  BY <1>2 DEF S!Disconnected
<1>3. CASE S!NextBatch
  BY <1>3 DEF S!NextBatch, S!Fetched
<1>4. CASE S!NextError
  BY <1>4 DEF S!NextError, S!Fetched
<1>5. CASE S!NextEnd
  BY <1>5 DEF S!NextEnd
<1>6. CASE S!HandOver
  <2>1. CASE item = S!Error
    BY <1>6, <2>1 DEF S!HandOver
  <2>2. CASE item # S!Error
    <3>1. got' = Append(Prefix(next - 2), next - 1) /\ next - 2 \in Nat
      BY <1>6, <2>2 DEF S!HandOver
    <3>2. got' = Prefix(next - 1)
      BY <3>1, PrefixGrows, next - 2 + 1 = next - 1
    <3>3. GotInv'
      BY <1>6, <2>2, <3>2 DEF S!HandOver
    <3>4. TypeInv' /\ QuestionInv' /\ EndInv'
      BY <1>6, <2>2 DEF S!HandOver
    <3> QED
      BY <3>3, <3>4
  <2> QED
    BY <2>1, <2>2
<1>7. CASE S!Release
  BY <1>7 DEF S!Release
<1>8. CASE S!Leave
  <2>1. TypeInv'
    <3>1. answer' \in {"none", "waiting", "dropped"}
      BY <1>8 DEF S!Leave
    <3>2. rx' \in BOOLEAN /\ tx' \in BOOLEAN
      BY <1>8, Zenon DEF S!Leave
    <3>3. commands' = 0 /\ owner' = "gone"
          /\ UNCHANGED <<writer, item, next, errors, released, again, outcome>>
      BY <1>8 DEF S!Leave
    <3> QED
      BY <3>1, <3>2, <3>3
  <2>2. QuestionInv' /\ GotInv'
    BY <1>8 DEF S!Leave, S!Unanswered
  <2>3. EndInv'
    BY <1>8 DEF S!Leave, S!Unanswered
  <2> QED
    BY <2>1, <2>2, <2>3
<1> QED
  BY <1>1, <1>2, <1>3, <1>4, <1>5, <1>6, <1>7, <1>8 DEF S!OwnerStep

LEMMA StreamStep ==
    ASSUME SInv, [S!Next]_(S!vars)
    PROVE  SInv'
<1>1. CASE UNCHANGED S!vars
  BY <1>1 DEF S!vars, S!channels, S!stream, S!progress, SInv, TypeInv, QuestionInv, EndInv,
        GotInv, Serving, OnItsWay
<1>2. CASE S!Next
  BY <1>1, <1>2, WriterSide, OwnerPreserves DEF S!Next, S!Finished, S!WriterStep
<1> QED
  BY <1>1, <1>2

(* The invariant behind the two facts below.                               *)
THEOREM StreamInvariance == S!Spec => []SInv
<1>1. S!Init => SInv
  BY StreamInitInv
<1>2. SInv /\ [S!Next]_(S!vars) => SInv'
  BY StreamStep
<1> QED
  BY <1>1, <1>2, PTL DEF S!Spec

(* Whatever is committed is the stream to its end, in order: an end that   *)
(* the writer saw because the owner was gone or its question too late is   *)
(* the end of the stream.                                                  *)
THEOREM OneStreamWhole == S!Spec => [](outcome = "committed" => got = Prefix(Batches))
<1>1. SInv => (outcome = "committed" => got = Prefix(Batches))
  BY StreamAssumption DEF SInv, TypeInv, QuestionInv, EndInv, GotInv, OnItsWay, Serving, S!End
<1> QED
  BY <1>1, StreamInvariance, PTL

(* The writer is given the batches in order, each once, and at most one    *)
(* more has been fetched; the stream is released once at most.             *)
THEOREM OneStreamInOrder == S!Spec => [](S!GotInOrder /\ released <= 1)
<1>1. SInv => S!GotInOrder /\ released <= 1
  <2> SUFFICES ASSUME SInv PROVE S!GotInOrder /\ released <= 1
    OBVIOUS
  <2>1. next - 1 - OnItsWay \in Nat /\ got = Prefix(next - 1 - OnItsWay)
    BY StreamAssumption DEF SInv, GotInv
  <2>2. Len(got) = next - 1 - OnItsWay
    BY <2>1 DEF Prefix
  <2> QED
    BY <2>1, <2>2, StreamAssumption
       DEF SInv, TypeInv, S!GotInOrder, Prefix, OnItsWay, S!End, S!Error
<1> QED
  BY <1>1, StreamInvariance, PTL

-----------------------------------------------------------------------------
(* In the composition the owner's steps leave the call alone, and between  *)
(* two writes the owner of the last one may still come to an end.          *)
LEMMA OwnerSide ==
    ASSUME SInv, S!OwnerStep
    PROVE  SInv' /\ outcome' = outcome /\ (writer = "returned" => writer' = "returned")
<1> USE DEF S!channels, S!stream, S!progress
<1>1. SInv'
  BY OwnerPreserves
<1>2. outcome' = outcome
  BY DEF S!OwnerStep, S!Receive, S!Disconnected, S!NextBatch, S!NextError, S!NextEnd,
         S!HandOver, S!Release, S!Leave
<1>3. writer' = writer \/ writer = "wait"
  BY DEF S!OwnerStep, S!Receive, S!Disconnected, S!NextBatch, S!NextError, S!NextEnd,
         S!HandOver, S!Release, S!Leave
<1> QED
  BY <1>1, <1>2, <1>3

LEMMA StreamStays ==
    ASSUME SInv, UNCHANGED streaming
    PROVE  SInv'
BY StreamStep DEF streaming, S!vars, S!channels, S!stream, S!progress

LEMMA StreamBegins ==
    ASSUME NEW t \in Threads, HandOverStream(t)
    PROVE  SInv'
<1> USE StreamAssumption DEF HandOverStream, S!End, S!Error, Serving, OnItsWay
<1>1. tx' /\ rx' /\ tx' \in BOOLEAN /\ rx' \in BOOLEAN
  BY Zenon
<1>2. TypeInv'
  BY <1>1 DEF TypeInv
<1>3. QuestionInv' /\ EndInv'
  BY <1>1 DEF QuestionInv, EndInv
<1>4. GotInv'
  BY DEF GotInv, Prefix
<1> QED
  BY <1>2, <1>3, <1>4 DEF SInv

-----------------------------------------------------------------------------
LEMMA SystemInitInv ==
    ASSUME SystemInit
    PROVE  SystemInv
<1> USE LanceAssumption, StreamAssumption DEF SystemInit, Init
<1>1. FfiInv
  <2>1. runtime \in BOOLEAN /\ manager \in BOOLEAN /\ aborted \in BOOLEAN
        /\ ~runtime /\ ~manager /\ ~aborted
    BY Zenon
  <2>2. TypeOK
    BY <2>1 DEF TypeOK, Pcs, Codes, None
  <2>3. MutexInv /\ InitialisedInv /\ VersionsInv /\ NoPanic
    BY <2>1 DEF MutexInv, Inside, InitialisedInv, VersionsInv, AckedIsVisible, NoPanic, None
  <2> QED
    BY <2>2, <2>3 DEF FfiInv
<1>2. SInv
  <2> USE DEF S!End, S!Error, Serving, OnItsWay
  <2>1. ~tx /\ ~rx /\ tx \in BOOLEAN /\ rx \in BOOLEAN
    BY Zenon
  <2>2. TypeInv
    BY <2>1 DEF TypeInv
  <2>3. QuestionInv /\ EndInv
    BY <2>1 DEF QuestionInv, EndInv
  <2>4. GotInv
    BY DEF GotInv, Prefix
  <2> QED
    BY <2>2, <2>3, <2>4 DEF SInv
<1>3. WriteInv
  BY DEF WriteInv
<1> QED
  BY <1>1, <1>2, <1>3 DEF SystemInv

(* A step of the calls that leaves the stream alone is not one of a write. *)
LEMMA TableStepKeeps ==
    ASSUME SystemInv, NEW t \in Threads, Calls(t) \/ Step(t) \/ Fails(t), ~aborted,
           UNCHANGED streamed
    PROVE  WriteInv'
<1> USE DEF SystemInv, FfiInv
<1> DEFINE Elsewhere(w) == pc[t] # "write" /\ w # "reload" /\ pc' = [pc EXCEPT ![t] = w]
           Stays == pc[t] # "write" /\ pc' = pc
<1>1. pc \in [Threads -> Pcs]
  BY DEF TypeOK
<1>2. Stays \/ \E w : Elsewhere(w)
  <2>1. ASSUME CallInit(t)
        PROVE  Stays \/ Elsewhere("build")
    BY <2>1 DEF CallInit, Goto
  <2>2. ASSUME NEW f \in Functions, CallTable(t, f)
        PROVE  Stays \/ Elsewhere("lock")
    BY <2>2 DEF CallTable, MayCall, Goto
  <2>3. ASSUME SetRuntime(t)
        PROVE  Stays \/ Elsewhere("setManager")
    <3>1. pc[t] = "build" /\ (pc' = pc \/ pc' = [pc EXCEPT ![t] = "setManager"])
      BY <2>3, Zenon DEF SetRuntime, Panic, Goto
    <3> QED
      BY <3>1
  <2>4. ASSUME SetManager(t)
        PROVE  Elsewhere("out")
    <3>1. pc[t] = "setManager" /\ pc' = [pc EXCEPT ![t] = "out"]
      BY <2>4, Zenon DEF SetManager, Goto
    <3> QED
      BY <3>1
  <2>5. ASSUME Lock(t)
        PROVE  Elsewhere("create") \/ Elsewhere("open")
    BY <2>5 DEF Lock, Goto
  <2>6. ASSUME Open(t)
        PROVE  Elsewhere("write") \/ Elsewhere("read")
    <3>1. pc[t] = "open" /\ op[t] \in {"write", "read"}
      BY <2>6 DEF Open, MutexInv
    <3>2. pc' = [pc EXCEPT ![t] = op[t]]
      BY <2>6 DEF Open, Goto
    <3> QED
      BY <3>1, <3>2
  <2>7. ASSUME \/ Create(t) \/ Reload(t) \/ Read(t)
               \/ CreateFails(t) \/ ReloadFails(t) \/ ReadFails(t)
        PROVE  Elsewhere("out")
    <3>1. pc[t] \in {"create", "reload", "read"} /\ Returns(t)
      BY <2>7 DEF Create, Reload, Read, CreateFails, ReloadFails, ReadFails
    <3> QED
      BY <3>1 DEF Returns, Goto
  <2>8. ASSUME BuildPanics(t) \/ OpenPanics(t)
        PROVE  Stays
    BY <2>8 DEF BuildPanics, OpenPanics, Panic
  <2> QED
    BY <2>1, <2>2, <2>3, <2>4, <2>5, <2>6, <2>7, <2>8, Zenon DEF Calls, Step, Fails
<1>3. writer' = writer /\ outcome' = outcome
  BY DEF streamed, streaming
<1>4. \A u \in Threads : (pc[u] = "write" => pc'[u] = "write")
                         /\ (pc'[u] = "reload" => pc[u] = "reload")
  BY <1>1, <1>2
<1> QED
  BY <1>3, <1>4 DEF WriteInv

LEMMA SystemPreserves ==
    ASSUME SystemInv, [SystemNext]_system
    PROVE  SystemInv'
<1> USE DEF SystemInv
<1>1. CASE UNCHANGED system
  <2>1. UNCHANGED streaming
    BY <1>1 DEF system, streamed
  <2>2. SInv'
    BY <2>1, StreamStays
  <2>3. /\ UNCHANGED <<pc, op, initRc, calls, known, seen, runtime, manager, mutex,
                      dataset, table, mine, acked, aborted, faults>>
        /\ UNCHANGED <<writer, outcome>>
    BY <1>1 DEF system, streamed, streaming, vars, caller, global, store
  <2>4. FfiInv' /\ WriteInv'
    BY <2>3 DEF FfiInv, TypeOK, MutexInv, InitialisedInv, VersionsInv, AckedIsVisible,
        NoPanic, LostRace, WriteInv
  <2> QED
    BY <2>2, <2>4
<1>2. CASE SystemNext
  <2>1. ~aborted /\ FfiInv'
    BY <1>2, SystemIsFfi, FfiPreserves
  <2>2. \A t, u \in Threads : pc[t] = "write" => pc[u] # "reload"
    BY DEF FfiInv, MutexInv, Inside, TypeOK
  <2>3. ASSUME NEW t \in Threads, HandOverStream(t)
        PROVE  SInv' /\ WriteInv'
    <3>1. pc' = pc /\ pc[t] = "write"
      BY <2>3 DEF HandOverStream, Writing, vars
    <3> QED
      BY <2>2, <2>3, <3>1, StreamBegins DEF WriteInv
  <2>4. ASSUME NEW t \in Threads, Writing(t), pc' = pc, outcome' = outcome,
               S!Ask \/ S!AskRefused \/ S!GetEnd \/ S!AskAgain \/ S!WriterFails
        PROVE  SInv' /\ WriteInv'
    BY <2>4, WriterSide DEF WriteInv, Writing
  <2>5. ASSUME NEW t \in Threads, CommitStream(t)
        PROVE  SInv' /\ WriteInv'
    <3>1. S!Finish /\ writer' = "returned" /\ outcome' = "committed"
      BY <2>5 DEF CommitStream, S!Finish
    <3> QED
      BY <3>1, WriterSide DEF WriteInv
  <2>6. ASSUME NEW t \in Threads, GiveUp(t)
        PROVE  SInv' /\ WriteInv'
    <3>1. S!Finish /\ writer' = "returned" /\ pc[t] = "write"
          /\ pc' = [pc EXCEPT ![t] = "out"]
      BY <2>6 DEF GiveUp, S!Finish, Writing, WriteReturnsError, Returns, Goto
    <3>2. \A u \in Threads : pc'[u] # "reload"
      BY <2>2, <3>1 DEF FfiInv, TypeOK
    <3> QED
      BY <3>1, <3>2, WriterSide DEF WriteInv
  <2>7. ASSUME NEW t \in Threads, Unreadable(t)
        PROVE  SInv' /\ WriteInv'
    <3>1. /\ UNCHANGED streaming /\ writer' = "returned" /\ pc[t] = "write"
          /\ pc' = [pc EXCEPT ![t] = "out"]
      BY <2>7 DEF Unreadable, HandedOver, Writing, streamed, streaming,
            WriteReturnsError, Returns, Goto
    <3>2. \A u \in Threads : pc'[u] # "reload"
      BY <2>2, <3>1 DEF FfiInv, TypeOK
    <3> QED
      BY <3>1, <3>2, StreamStays DEF WriteInv
  <2>8. ASSUME NEW t \in Threads, Calls(t) \/ Step(t) \/ Fails(t), UNCHANGED streamed
        PROVE  SInv' /\ WriteInv'
    BY <2>1, <2>8, TableStepKeeps, StreamStays DEF streamed
  <2>9. CASE OthersCommit /\ UNCHANGED streamed
    <3>1. UNCHANGED <<pc, writer, outcome>> /\ UNCHANGED streaming
      BY <2>9 DEF OthersCommit, streamed, streaming
    <3>2. SInv'
      BY <3>1, StreamStays
    <3> QED
      BY <2>1, <3>1, <3>2 DEF WriteInv
  <2>10. CASE OwnerRuns
    <3>1. pc' = pc /\ S!OwnerStep
      BY <2>10 DEF OwnerRuns, vars
    <3>2. SInv' /\ outcome' = outcome /\ (writer = "returned" => writer' = "returned")
      BY <3>1, OwnerSide
    <3> QED
      BY <2>1, <3>1, <3>2 DEF WriteInv
  <2>11. CASE LateOwnerEnds
    <3>1. UNCHANGED <<pc, writer, outcome>> /\ UNCHANGED streaming
      BY <2>11 DEF LateOwnerEnds, vars, streaming
    <3>2. SInv'
      BY <3>1, StreamStays
    <3> QED
      BY <2>1, <3>1, <3>2 DEF WriteInv
  <2>12. ASSUME NEW t \in Threads, ThreadStep(t)
         PROVE  SInv' /\ WriteInv'
    <3>1. CASE Pulls(t)
      BY <3>1, <2>4 DEF Pulls, vars, S!Ask, S!AskRefused, S!GetEnd, S!progress
    <3>2. CASE TableStep(t)
      BY <3>2, <2>8 DEF TableStep
    <3> QED
      BY <2>3, <2>5, <2>6, <2>12, <3>1, <3>2 DEF ThreadStep, WriteStep
  <2>13. CASE Environment
    <3>1. ASSUME NEW t \in Threads, PullsAgain(t)
          PROVE  SInv' /\ WriteInv'
      BY <3>1, <2>4 DEF PullsAgain, vars, S!AskAgain
    <3>2. ASSUME NEW t \in Threads, WriterFails(t)
          PROVE  SInv' /\ WriteInv'
      BY <3>2, <2>4 DEF WriterFails, S!WriterFails, S!progress
    <3>3. ASSUME NEW t \in Threads, Calls(t) \/ Fails(t), UNCHANGED streamed
          PROVE  SInv' /\ WriteInv'
      BY <2>8, <3>3
    <3> QED
      BY <2>1, <2>7, <2>9, <2>13, <3>1, <3>2, <3>3, Zenon DEF Environment
  <2> QED
    BY <1>2, <2>1, <2>10, <2>11, <2>12, <2>13 DEF SystemNext, OwnerStep, LateStep
<1> QED
  BY <1>1, <1>2

-----------------------------------------------------------------------------
(* The invariant behind the facts below.                                   *)
THEOREM Invariance == SystemSpec => []SystemInv
<1>1. SystemInit => SystemInv
  BY SystemInitInv
<1>2. SystemInv /\ [SystemNext]_system => SystemInv'
  BY SystemPreserves
<1> QED
  BY <1>1, <1>2, PTL DEF SystemSpec

(* A read that returns 0 returns every write acknowledged before it was    *)
(* called (open_table keeps the dataset it has; a reload may have failed). *)
THEOREM AckedVisible == SystemSpec => []AckedIsVisible
<1>1. SystemInv => AckedIsVisible
  BY DEF SystemInv, FfiInv, VersionsInv
<1> QED
  BY <1>1, Invariance, PTL

(* Unless something fails, the unwrap()s of ffi.rs do not panic, except    *)
(* that of a lance_init that lost the race for the runtime.                *)
THEOREM Panics == SystemSpec => []NoPanic
<1>1. SystemInv => NoPanic
  BY DEF SystemInv, FfiInv
<1> QED
  BY <1>1, Invariance, PTL

(* Of any number of threads in lance_init, one is told that it initialised *)
(* the library, and it is when that is said.                               *)
THEOREM OneInits == SystemSpec => []OneInitialiser
<1>1. SystemInv => OneInitialiser
  BY DEF SystemInv, FfiInv, InitialisedInv, OneInitialiser
<1> QED
  BY <1>1, Invariance, PTL

(* The writer of the dataset is given the batches of its own stream, in    *)
(* order, each once, whatever owners of earlier writes are still about.    *)
THEOREM InOrder == SystemSpec => []GotInOrder
<1>1. SystemInv => GotInOrder
  <2> SUFFICES ASSUME SystemInv PROVE GotInOrder
    OBVIOUS
  <2>1. next - 1 - OnItsWay \in Nat /\ got = Prefix(next - 1 - OnItsWay)
    BY StreamAssumption DEF SystemInv, SInv, GotInv
  <2>2. Len(got) = next - 1 - OnItsWay
    BY <2>1 DEF Prefix
  <2> QED
    BY <2>1, <2>2, StreamAssumption
       DEF SystemInv, SInv, TypeInv, GotInOrder, S!GotInOrder,
           Prefix, OnItsWay, S!End
<1> QED
  BY <1>1, Invariance, PTL

(* A version is committed and loaded only when its stream came to its end: *)
(* a failed write of the same call leaves nothing to reload.               *)
THEOREM WholeCommits == SystemSpec => []CommitIsWhole
<1>1. SystemInv => CommitIsWhole
  <2> SUFFICES ASSUME SystemInv, NEW t \in Threads, pc[t] = "reload"
               PROVE  got = [i \in 1 .. Batches |-> i]
    BY DEF CommitIsWhole
  <2>1. outcome = "committed"
    BY DEF SystemInv, WriteInv
  <2> QED
    BY <2>1, StreamAssumption
       DEF SystemInv, SInv, TypeInv, QuestionInv, EndInv,
           GotInv, OnItsWay, Serving, S!End, Prefix
<1> QED
  BY <1>1, Invariance, PTL

(* get_next runs only while the call that passed its stream is inside      *)
(* block_on, with the manager locked: the references it reads are live.    *)
THEOREM InsideCall == SystemSpec => []ReadsInsideCall
<1>1. SystemInv => ReadsInsideCall
  <2> SUFFICES ASSUME SystemInv, owner = "next"
               PROVE  \E t \in Threads : Writing(t) /\ mutex = t
    BY DEF ReadsInsideCall
  <2>1. writer = "wait"
    BY DEF SystemInv, SInv, QuestionInv, Serving
  <2>2. PICK t \in Threads : pc[t] = "write"
    BY <2>1 DEF SystemInv, WriteInv
  <2> QED
    BY <2>2 DEF SystemInv, FfiInv, MutexInv, Inside, Writing
<1> QED
  BY <1>1, Invariance, PTL

(* The version the manager holds never goes back, whichever thread moves   *)
(* it and whatever fails.                                                  *)
THEOREM CacheForward == SystemSpec => [][dataset' >= dataset]_vars
<1>1. SystemInv /\ [SystemNext]_system => [dataset' >= dataset]_vars
  <2> SUFFICES ASSUME SystemInv, SystemNext
               PROVE  dataset' >= dataset
    BY DEF system
  <2> QED
    BY SystemIsFfi, FfiPreserves DEF SystemInv
<1> QED
  BY <1>1, Invariance, PTL DEF SystemSpec

-----------------------------------------------------------------------------
(* The table the manager is to its callers.  A version that is held is     *)
(* that of the thread about to reload, and the functions that write and    *)
(* read have found the table and opened it.                                *)
TableInv ==
    /\ \A t \in Threads : mine[t] # 0 <=> pc[t] = "reload"
    /\ \A t \in Threads : op[t] \in {"write", "read"} => table > 0
    /\ \A t \in Threads : pc[t] \in {"write", "read"} => dataset > 0

LEMMA TableInvInit == SystemInit => TableInv
BY DEF SystemInit, Init, TableInv

LEMMA OneHolds ==
    ASSUME FfiInv, TableInv, NEW t \in Threads, pc[t] \in {"open", "write", "read"}
    PROVE  Table!Quiet
BY DEF FfiInv, MutexInv, Inside, TableInv, Table!Quiet

LEMMA CallsMap ==
    ASSUME FfiInv, TableInv, NEW t \in Threads, Calls(t)
    PROVE  TableInv' /\ (Table!Forget(t) \/ UNCHANGED Table!vars)
<1> USE DEF Goto, global, store
<1>1. CASE CallInit(t)
  <2>1. TableInv'
    BY <1>1 DEF CallInit, TableInv, FfiInv, TypeOK
  <2>2. UNCHANGED Table!vars
    BY <1>1 DEF CallInit, Table!vars
  <2> QED
    BY <2>1, <2>2
<1>2. ASSUME NEW f \in Functions, CallTable(t, f)
      PROVE  TableInv' /\ Table!Forget(t)
  <2>1. TableInv'
    BY <1>2 DEF CallTable, MayCall, TableInv, FfiInv, TypeOK, Functions
  <2>2. Table!Forget(t)
    BY <1>2 DEF CallTable, Table!Forget
  <2> QED
    BY <2>1, <2>2
<1> QED
  BY <1>1, <1>2 DEF Calls

(* What does not touch the versions.                                       *)
LEMMA QuietStepsMap ==
    ASSUME FfiInv, TableInv, NEW t \in Threads,
           \/ SetRuntime(t) \/ SetManager(t) \/ Lock(t) \/ BuildPanics(t) \/ OpenPanics(t)
           \/ CreateFails(t) \/ ReadFails(t) \/ WriteEnds(t)
    PROVE  TableInv' /\ UNCHANGED Table!vars
<1> USE DEF Goto, global, store, caller
<1>1. UNCHANGED <<table, dataset, mine, seen>>
  BY DEF SetRuntime, SetManager, Lock, BuildPanics, OpenPanics, Panic, CreateFails,
         ReadFails, WriteEnds, WriteReturnsError
<1>2. CASE SetRuntime(t) \/ BuildPanics(t) \/ OpenPanics(t)
  <2>1. op' = op /\ (pc' = pc \/ (pc' = [pc EXCEPT ![t] = "setManager"] /\ pc[t] = "build"))
    BY <1>2 DEF SetRuntime, BuildPanics, OpenPanics, Panic
  <2> QED
    BY <1>1, <2>1 DEF TableInv, FfiInv, TypeOK, Table!vars
<1>3. CASE SetManager(t)
  BY <1>1, <1>3 DEF SetManager, TableInv, FfiInv, TypeOK, Table!vars
<1>4. CASE Lock(t)
  BY <1>1, <1>4 DEF Lock, TableInv, FfiInv, TypeOK, Table!vars
<1>5. CASE CreateFails(t) \/ ReadFails(t) \/ WriteEnds(t)
  <2>1. /\ pc' = [pc EXCEPT ![t] = "out"] /\ op' = [op EXCEPT ![t] = "none"]
        /\ pc[t] # "reload"
    BY <1>5 DEF CreateFails, ReadFails, WriteEnds, WriteReturnsError, Returns
  <2> QED
    BY <1>1, <2>1 DEF TableInv, FfiInv, TypeOK, Table!vars
<1> QED
  BY <1>2, <1>3, <1>4, <1>5

LEMMA CreateMaps ==
    ASSUME FfiInv, TableInv, NEW t \in Threads, Create(t)
    PROVE  TableInv' /\ (Table!Appear \/ UNCHANGED Table!vars)
<1> USE DEF Create, Returns, Goto
<1>1. TableInv'
  BY DEF TableInv, FfiInv, TypeOK
<1>2. Table!Appear \/ UNCHANGED Table!vars
  BY DEF Table!Appear, Table!vars
<1> QED
  BY <1>1, <1>2

LEMMA OpenMaps ==
    ASSUME FfiInv, TableInv, NEW t \in Threads, Open(t)
    PROVE  TableInv' /\ Table!Advance
<1> USE DEF Open, Opened, Goto, caller
<1>1. /\ table \in Nat /\ dataset \in 0 .. table /\ pc[t] = "open" /\ table > 0
      /\ op[t] \in {"write", "read"} /\ pc \in [Threads -> Pcs]
  BY DEF FfiInv, TypeOK, MutexInv, TableInv
<1>2. Table!Quiet
  BY <1>1, OneHolds
<1>3. dataset' \in dataset .. table /\ dataset' > 0
  BY <1>1
<1>4. TableInv'
  BY <1>1, <1>3 DEF TableInv
<1>5. Table!Advance
  BY <1>2, <1>3 DEF Table!Advance
<1> QED
  BY <1>4, <1>5

LEMMA CommitMaps ==
    ASSUME FfiInv, TableInv, NEW t \in Threads, Commit(t)
    PROVE  TableInv' /\ Table!Append(t)
<1> USE DEF Commit, Goto, caller
<1>1. /\ table \in Nat /\ dataset \in 0 .. table /\ pc[t] = "write" /\ dataset > 0
      /\ pc \in [Threads -> Pcs] /\ mine \in [Threads -> 0 .. table]
  BY DEF FfiInv, TypeOK, TableInv
<1>2. Table!Quiet
  BY <1>1, OneHolds
<1>3. TableInv'
  BY <1>1 DEF TableInv
<1>4. Table!Append(t)
  BY <1>1, <1>2 DEF Table!Append
<1> QED
  BY <1>3, <1>4

LEMMA ReloadMaps ==
    ASSUME FfiInv, TableInv, NEW t \in Threads, Reload(t) \/ ReloadFails(t)
    PROVE  TableInv' /\ (Table!Acknowledge(t) \/ Table!Abandon(t))
<1> USE DEF Returns, Goto
<1>1. /\ table \in Nat /\ dataset \in 0 .. table /\ pc[t] = "reload"
      /\ pc \in [Threads -> Pcs] /\ mine \in [Threads -> 0 .. table]
      /\ op \in [Threads -> Functions \cup {"none"}] /\ mine[t] # 0
  BY DEF FfiInv, TypeOK, TableInv, Reload, ReloadFails
<1>2. mine' = [mine EXCEPT ![t] = 0] /\ UNCHANGED <<table, seen>>
  BY DEF Reload, ReloadFails
<1>3. dataset' = table \/ dataset' = dataset
  BY DEF Reload, Reloaded, ReloadFails
<1>4. pc' = [pc EXCEPT ![t] = "out"] /\ op' = [op EXCEPT ![t] = "none"]
  BY DEF Reload, ReloadFails
<1>5. TableInv'
  BY <1>1, <1>2, <1>3, <1>4 DEF TableInv
<1>6. CASE Reload(t)
  <2>1. dataset' \in mine[t] .. table /\ dataset' >= dataset
    BY <1>1, <1>6 DEF Reload, Reloaded
  <2> QED
    BY <1>1, <1>2, <1>5, <2>1 DEF Table!Acknowledge
<1>7. CASE ReloadFails(t)
  BY <1>1, <1>2, <1>5, <1>7 DEF ReloadFails, Table!Abandon
<1> QED
  BY <1>6, <1>7

LEMMA ReadMaps ==
    ASSUME FfiInv, TableInv, NEW t \in Threads, Read(t)
    PROVE  TableInv' /\ Table!Read(t)
<1> USE DEF Read, Returns, Goto, store
<1>1. pc[t] = "read" /\ dataset > 0
  BY DEF TableInv
<1>2. Table!Quiet
  BY <1>1, OneHolds
<1>3. TableInv'
  BY DEF TableInv, FfiInv, TypeOK
<1>4. Table!Read(t)
  BY <1>1, <1>2 DEF Table!Read
<1> QED
  BY <1>3, <1>4

LEMMA FfiMaps ==
    ASSUME FfiInv, TableInv, FfiStep
    PROVE  TableInv' /\ [Table!Next]_(Table!vars)
<1> USE DEF Table!Next
<1>1. ASSUME NEW t \in Threads,
             Calls(t) \/ Step(t) \/ Fails(t) \/ Commit(t) \/ WriteEnds(t)
      PROVE  TableInv' /\ [Table!Next]_(Table!vars)
  <2>1. CASE Calls(t)
    BY <2>1, CallsMap
  <2>2. CASE \/ SetRuntime(t) \/ SetManager(t) \/ Lock(t) \/ BuildPanics(t) \/ OpenPanics(t)
             \/ CreateFails(t) \/ ReadFails(t) \/ WriteEnds(t)
    BY <2>2, QuietStepsMap
  <2>3. CASE Create(t)
    BY <2>3, CreateMaps
  <2>4. CASE Open(t)
    BY <2>4, OpenMaps
  <2>5. CASE Commit(t)
    BY <2>5, CommitMaps
  <2>6. CASE Reload(t) \/ ReloadFails(t)
    BY <2>6, ReloadMaps
  <2>7. CASE Read(t)
    BY <2>7, ReadMaps
  <2> QED
    BY <1>1, <2>1, <2>2, <2>3, <2>4, <2>5, <2>6, <2>7 DEF Step, Fails
<1>2. CASE OthersCommit
  <2>1. table \in Nat /\ table' = table + 1 /\ UNCHANGED <<pc, op, dataset, mine, seen>>
    BY <1>2 DEF OthersCommit, caller, FfiInv, TypeOK
  <2> QED
    BY <2>1 DEF TableInv, Table!Appear
<1>3. CASE FaultOnly
  BY <1>3 DEF FaultOnly, caller, store, TableInv, Table!vars
<1> QED
  BY <1>1, <1>2, <1>3 DEF FfiStep

(* The manager implements the table (lance_operations.rs:25-97, ffi.rs):   *)
(* what it holds is what is visible, through every interleaving of the     *)
(* threads with each other and with other processes, every failed reload   *)
(* and every panic.                                                        *)
THEOREM ManagerIsTable == SystemSpec => IsTable
<1>1. SystemInit => TableInv /\ Table!Init
  BY TableInvInit DEF SystemInit, Init, Table!Init
<1>2. SystemInv /\ TableInv /\ [SystemNext]_system => TableInv' /\ [Table!Next]_(Table!vars)
  <2>1. ASSUME SystemInv, TableInv, SystemNext
        PROVE  TableInv' /\ [Table!Next]_(Table!vars)
    BY <2>1, SystemIsFfi, FfiMaps DEF SystemInv
  <2>2. ASSUME TableInv, UNCHANGED system
        PROVE  TableInv' /\ UNCHANGED Table!vars
    BY <2>2 DEF system, vars, caller, store, TableInv, Table!vars
  <2> QED
    BY <2>1, <2>2
<1> QED
  BY <1>1, <1>2, Invariance, PTL DEF SystemSpec, IsTable, Table!Spec
=============================================================================
