------------------------------- MODULE LanceFfi -------------------------------
(***************************************************************************)
(* The C interface of the Lance demo: threads of a C++ program that        *)
(* initialise the library (lance_init), create the table                   *)
(* (lance_create_table), write to it (lance_write_arrow_stream) and read   *)
(* it (lance_read_arrow_stream) through one LanceTableManager, which keeps *)
(* the version of the dataset it opened last.                              *)
(*                                                                         *)
(* A panic in one of these extern "C" functions aborts the process.  The   *)
(* dataset is external: a sequence of committed versions, of which only    *)
(* the number is kept; other processes may commit to it.                   *)
(***************************************************************************)
EXTENDS Integers

CONSTANTS
    Threads,        \* threads of the program
    NoThread,       \* not a thread
    Initialisers,   \* those that call lance_init
    Others,         \* other processes commit to the dataset
    MaxVersions,    \* other processes commit up to this version (a bound)
    MaxCalls,       \* calls of all the threads (a bound)
    MaxFaults       \* failures of the file system or the runtime (a bound)

ASSUME LanceAssumption ==
    /\ NoThread \notin Threads /\ Initialisers \subseteq Threads
    /\ Others \in BOOLEAN
    /\ MaxVersions \in Nat /\ MaxCalls \in Nat /\ MaxFaults \in Nat

VARIABLES
    pc,         \* where each thread is
    op,         \* the function of the manager it has called
    initRc,     \* what its last lance_init returned
    calls,      \* calls made so far
    runtime,    \* RUNTIME is set
    manager,    \* MANAGER is set
    mutex,      \* who has locked the manager
    dataset,    \* the version the manager holds; 0 is None
    table,      \* the newest version of the dataset; 0 when there is none
    mine,       \* the version each thread's write committed
    acked,      \* the newest version whose write has returned 0
    known,      \* what acked was when each thread's call began
    seen,       \* the version each thread's last read returned; 0 for none
    aborted,    \* a panic has ended the process
    faults      \* failures so far

caller == <<op, initRc, calls, known, seen>>
global == <<runtime, manager>>
store  == <<dataset, table, mine, acked>>
vars   == <<pc, caller, global, mutex, store, aborted, faults>>

None == 99      \* no return code yet

Init ==
    /\ pc = [t \in Threads |-> "out"] /\ op = [t \in Threads |-> "none"]
    /\ initRc = [t \in Threads |-> None]
    /\ calls = 0
    /\ runtime = FALSE /\ manager = FALSE /\ mutex = NoThread
    /\ dataset = 0 /\ table = 0
    /\ mine = [t \in Threads |-> 0] /\ acked = 0
    /\ known = [t \in Threads |-> 0] /\ seen = [t \in Threads |-> 0]
    /\ aborted = FALSE /\ faults = 0

Goto(t, where) == pc' = [pc EXCEPT ![t] = where]

Fault == faults < MaxFaults /\ faults' = faults + 1

Panic ==
    /\ aborted' = TRUE
    /\ UNCHANGED <<pc, caller, global, mutex, store>>

-----------------------------------------------------------------------------
(* lance_init: RUNTIME is looked at, built, and set, and MANAGER after it. *)
AlreadyInitialised == runtime

(* Mutant: a second call is told that it succeeded.                        *)
CallInitSaysOk(t) ==
    /\ pc[t] = "out" /\ t \in Initialisers /\ calls < MaxCalls
    /\ calls' = calls + 1
    /\ IF AlreadyInitialised
       THEN initRc' = [initRc EXCEPT ![t] = 0] /\ UNCHANGED pc
       ELSE Goto(t, "build") /\ UNCHANGED initRc
    /\ UNCHANGED <<op, known, seen, global, mutex, store, aborted, faults>>

CallInit(t) ==
    /\ pc[t] = "out" /\ t \in Initialisers /\ calls < MaxCalls
    /\ calls' = calls + 1
    /\ IF AlreadyInitialised
       THEN initRc' = [initRc EXCEPT ![t] = 1] /\ UNCHANGED pc
       ELSE Goto(t, "build") /\ UNCHANGED initRc
    /\ UNCHANGED <<op, known, seen, global, mutex, store, aborted, faults>>

SetRuntime(t) ==
    /\ pc[t] = "build"
    /\ IF runtime
       THEN Panic
       ELSE /\ runtime' = TRUE
            /\ Goto(t, "setManager")
            /\ UNCHANGED <<caller, manager, mutex, store, aborted>>
    /\ UNCHANGED faults

(* Runtime::new() or create_dir_all fails.                                 *)
BuildPanics(t) == pc[t] = "build" /\ Fault /\ Panic

(* Mutant: MANAGER is not set.                                             *)
ManagerForgotten(t) ==
    /\ pc[t] = "setManager"
    /\ initRc' = [initRc EXCEPT ![t] = 0]
    /\ Goto(t, "out")
    /\ UNCHANGED <<op, calls, known, seen, runtime, manager, mutex, store, aborted, faults>>

SetManager(t) ==
    /\ pc[t] = "setManager"
    /\ manager' = TRUE
    /\ initRc' = [initRc EXCEPT ![t] = IF manager THEN 1 ELSE 0]
    /\ Goto(t, "out")
    /\ UNCHANGED <<op, calls, known, seen, runtime, mutex, store, aborted, faults>>

-----------------------------------------------------------------------------
(* The other calls come after a lance_init that returned 0, as main() has  *)
(* them, and the reads and writes after the table was created.             *)
Functions == {"create", "write", "read"}

MayCall(t, f) ==
    /\ pc[t] = "out" /\ calls < MaxCalls
    /\ \E u \in Threads : initRc[u] = 0
    /\ f \in {"write", "read"} => table > 0

CallTable(t, f) ==
    /\ MayCall(t, f)
    /\ op' = [op EXCEPT ![t] = f]
    /\ calls' = calls + 1
    /\ known' = [known EXCEPT ![t] = IF f = "read" THEN acked ELSE 0]
    /\ seen' = [seen EXCEPT ![t] = 0]
    /\ IF runtime /\ manager
       THEN Goto(t, "lock") /\ UNCHANGED aborted
       ELSE aborted' = TRUE /\ UNCHANGED pc
    /\ UNCHANGED <<initRc, global, mutex, store, faults>>

(* manager.lock(), kept until the function returns.                        *)
Lock(t) ==
    /\ pc[t] = "lock" /\ mutex = NoThread
    /\ mutex' = t
    /\ Goto(t, IF op[t] = "create" THEN "create" ELSE "open")
    /\ UNCHANGED <<caller, global, store, aborted, faults>>

Returns(t) ==
    /\ mutex' = NoThread
    /\ op' = [op EXCEPT ![t] = "none"]
    /\ Goto(t, "out")
    /\ UNCHANGED <<initRc, calls, known, global, aborted>>

(* create_table: refused when the dataset exists.  The manager does not    *)
(* open what it has created.                                               *)
Create(t) ==
    /\ pc[t] = "create"
    /\ table' = IF table = 0 THEN 1 ELSE table
    /\ Returns(t)
    /\ UNCHANGED <<seen, dataset, mine, acked, faults>>

CreateFails(t) ==
    /\ pc[t] = "create" /\ Fault
    /\ Returns(t)
    /\ UNCHANGED <<seen, store>>

(* open_table: only the first call opens the dataset.                      *)
Opened == IF dataset = 0 THEN table ELSE dataset

Open(t) ==
    /\ pc[t] = "open"
    /\ dataset' = Opened
    /\ Goto(t, op[t])
    /\ UNCHANGED <<caller, global, mutex, table, mine, acked, aborted, faults>>

OpenPanics(t) == pc[t] = "open" /\ dataset = 0 /\ Fault /\ Panic

(* write_from_stream: the new version is committed, then loaded.           *)
Commit(t) ==
    /\ pc[t] = "write"
    /\ table' = table + 1
    /\ mine' = [mine EXCEPT ![t] = table + 1]
    /\ Goto(t, "reload")
    /\ UNCHANGED <<caller, global, mutex, dataset, acked, aborted, faults>>

(* The stream is not readable, or ends in an error, or the write fails; a  *)
(* version committed since by another process may conflict.                *)
WriteCannotSucceed ==
    \/ Fault
    \/ dataset < table /\ UNCHANGED faults

WriteReturnsError(t) ==
    /\ pc[t] = "write"
    /\ Returns(t)
    /\ UNCHANGED <<seen, store>>

CommitFails(t) == WriteReturnsError(t) /\ WriteCannotSucceed

(* Mutants: no reload; the dataset is closed for the next call to open.    *)
NotReloaded == dataset
ReloadedLazily == 0

Reloaded == table

Reload(t) ==
    /\ pc[t] = "reload"
    /\ dataset' = Reloaded
    /\ acked' = IF mine[t] > acked THEN mine[t] ELSE acked
    /\ mine' = [mine EXCEPT ![t] = 0]
    /\ Returns(t)
    /\ UNCHANGED <<seen, table, faults>>

(* The version is committed all the same.                                  *)
ReloadFails(t) ==
    /\ pc[t] = "reload" /\ Fault
    /\ mine' = [mine EXCEPT ![t] = 0]
    /\ Returns(t)
    /\ UNCHANGED <<seen, dataset, table, acked>>

(* read_all_data: of the version the manager holds.                        *)
Read(t) ==
    /\ pc[t] = "read"
    /\ seen' = [seen EXCEPT ![t] = dataset]
    /\ Returns(t)
    /\ UNCHANGED <<store, faults>>

ReadFails(t) ==
    /\ pc[t] = "read" /\ Fault
    /\ Returns(t)
    /\ UNCHANGED <<seen, store>>

OthersCommit ==
    /\ Others /\ 0 < table /\ table < MaxVersions
    /\ table' = table + 1
    /\ UNCHANGED <<pc, caller, global, mutex, dataset, mine, acked, aborted, faults>>

-----------------------------------------------------------------------------
Step(t) ==
    SetRuntime(t) \/ SetManager(t) \/ Lock(t) \/ Create(t) \/ Open(t)
    \/ Reload(t) \/ Read(t)

Fails(t) ==
    BuildPanics(t) \/ CreateFails(t) \/ OpenPanics(t) \/ ReloadFails(t)
    \/ ReadFails(t)

Calls(t) == CallInit(t) \/ \E f \in Functions : CallTable(t, f)

(* The write taken as one step: LanceWrite has it in detail.               *)
Next ==
    /\ ~aborted
    /\ \/ OthersCommit
       \/ \E t \in Threads :
             Calls(t) \/ Step(t) \/ Fails(t) \/ Commit(t) \/ CommitFails(t)

Spec == Init /\ [][Next]_vars

-----------------------------------------------------------------------------
Pcs == {"out", "build", "setManager", "lock", "open", "reload"} \cup Functions

Codes == {0, 1, -3, None}

(* The types of the variables.                                             *)
TypeOK ==
    /\ pc \in [Threads -> Pcs] /\ op \in [Threads -> Functions \cup {"none"}]
    /\ initRc \in [Threads -> Codes]
    /\ calls \in 0 .. MaxCalls
    /\ runtime \in BOOLEAN /\ manager \in BOOLEAN /\ aborted \in BOOLEAN
    /\ mutex \in Threads \cup {NoThread}
    /\ table \in Nat /\ dataset \in 0 .. table /\ acked \in 0 .. table
    /\ mine \in [Threads -> 0 .. table]
    /\ known \in [Threads -> 0 .. table] /\ seen \in [Threads -> 0 .. table]
    /\ faults \in 0 .. MaxFaults

(* A read that returns 0 returns every write that had returned 0 when the  *)
(* read was called, although open_table() keeps the dataset it has and a   *)
(* reload may have failed after a commit.                                  *)
AckedIsVisible == \A t \in Threads : seen[t] # 0 => seen[t] >= known[t]

(* To the threads the manager is a table whose writes are answered when    *)
(* they can be read: the version it holds is what is visible, it never     *)
(* goes back, and the mutex keeps every read from between a commit and its *)
(* reload.                                                                 *)
Table == INSTANCE VersionedTable WITH
    Callers <- Threads, committed <- table, visible <- dataset,
    held <- mine, result <- seen

IsTable == Table!Spec

(* When nothing fails, no unwrap() panics, not of RUNTIME, of MANAGER nor  *)
(* of open_table(), except one: that of a lance_init which lost the race   *)
(* of two threads that both found the library not initialised.             *)
LostRace(t) == pc[t] = "build" /\ runtime

NoPanic == aborted /\ faults = 0 => \E t \in Threads : LostRace(t)

(* Only one thread is told that it initialised the library, and then it is *)
(* initialised.                                                            *)
OneInitialiser ==
    \A t, u \in Threads :
        initRc[t] = 0 => (runtime /\ manager) /\ (initRc[u] = 0 => t = u)

(* A call returns, unless the process ends first.                          *)
CallsReturn == \A t \in Threads : (pc[t] # "out") ~> (pc[t] = "out" \/ aborted)

(* ffi.rs:22 "Already initialized": what lance_init prints when it returns *)
(* 1 is true, and the manager can be used.                                 *)
AlreadyMeansUsable == \A t \in Threads : initRc[t] = 1 => manager
=============================================================================
