------------------------------- MODULE JniEnv -------------------------------
(***************************************************************************)
(* get_env() of jni_utils: threads that find or create the one Java VM of  *)
(* the process, attach to it, look up the common classes once, and keep    *)
(* their JNIEnv in a thread-local variable.                                *)
(*                                                                         *)
(* The VM is external: it can be created once per process, by this code or *)
(* by another library, and hands every attached thread an env of its own   *)
(* (the env of thread t is t).  A class lookup finds the class, raises a   *)
(* Java exception, or, when NewGlobalRef has no memory, returns null with  *)
(* no exception pending.                                                   *)
(***************************************************************************)
EXTENDS Naturals, FiniteSets

CONSTANTS
    Threads,       \* threads that call get_env()
    NoThread,      \* not a thread
    Classes,       \* how many common classes init_common_classes looks up
    Lookups,       \* how a lookup may end, of "found", "exception", "null"
    Foreign,       \* another library may create the VM
    MaxFailures    \* calls of the VM that fail (a bound)

ASSUME JniAssumption ==
    /\ NoThread \notin Threads /\ "foreign" \notin Threads \cup {NoThread}
    /\ Classes \in Nat \ {0} /\ MaxFailures \in Nat
    /\ Lookups \subseteq {"found", "exception", "null"} /\ Foreign \in BOOLEAN

VARIABLES
    pc,          \* where each thread is in get_env()
    tls,         \* tls_env of each thread: the thread whose env it is, or none
    mutex,       \* the owner of init_mutex
    once,        \* init_once has run to the end
    class,       \* the common classes: "unset", "found" or "null"
    assigned,    \* how often each was assigned
    next,        \* the class each thread looks up next
    vm,          \* who created the VM: NoThread, a thread, or "foreign"
    attached,    \* the threads attached to the VM
    failures     \* calls of the VM that have failed

vmState == <<vm, attached>>
init    == <<once, class, assigned, next>>
vars    == <<pc, tls, mutex, init, vmState, failures>>

Idx == 1 .. Classes

Init ==
    /\ pc = [t \in Threads |-> "out"]
    /\ tls = [t \in Threads |-> NoThread]
    /\ mutex = NoThread
    /\ once = FALSE
    /\ class = [k \in Idx |-> "unset"] /\ assigned = [k \in Idx |-> 0]
    /\ next = [t \in Threads |-> 1]
    /\ vm = NoThread /\ attached = {}
    /\ failures = 0

Goto(t, where) == pc' = [pc EXCEPT ![t] = where]
Exists == vm # NoThread

-----------------------------------------------------------------------------
(* get_env(): a thread whose tls_env is set returns it at once.            *)
CallsLocked(t) == tls[t] = NoThread

Call(t) ==
    /\ pc[t] = "out" /\ CallsLocked(t)
    /\ Goto(t, "lock")
    /\ UNCHANGED <<tls, mutex, init, vmState, failures>>

(* Mutant: no init_mutex.                                                  *)
NoMutex == TRUE

CanLock == mutex = NoThread

Lock(t) ==
    /\ pc[t] = "lock" /\ CanLock
    /\ mutex' = t
    /\ Goto(t, "query")
    /\ UNCHANGED <<tls, init, vmState, failures>>

(* JNI_GetCreatedJavaVMs.                                                  *)
Query(t) ==
    /\ pc[t] = "query"
    /\ Goto(t, IF Exists THEN "attach" ELSE "create")
    /\ UNCHANGED <<tls, mutex, init, vmState, failures>>

(* Mutant: the lock is kept.                                               *)
KeepsLock == UNCHANGED mutex

(* The lock_guard's destructor, on the way out with or without exception.  *)
Unlock == mutex' = NoThread

Throw(t) ==
    /\ Goto(t, "out") /\ Unlock
    /\ UNCHANGED <<tls, init, vmState>>

(* JNI_CreateJavaVM attaches the creator.  It is refused in a process that *)
(* has a VM.                                                               *)
Create(t) ==
    /\ pc[t] = "create" /\ ~Exists
    /\ vm' = t /\ attached' = attached \cup {t}
    /\ Goto(t, "once")
    /\ UNCHANGED <<tls, mutex, init, failures>>

CreateRefused(t) ==
    /\ pc[t] = "create" /\ Exists
    /\ Throw(t)
    /\ UNCHANGED failures

(* Mutant: the env of a VM that exists is taken without attaching.         *)
AttachSkipped(t) ==
    /\ pc[t] = "attach"
    /\ Goto(t, "once")
    /\ UNCHANGED <<tls, mutex, init, vmState, failures>>

Attach(t) ==
    /\ pc[t] = "attach"
    /\ attached' = attached \cup {t}
    /\ Goto(t, "once")
    /\ UNCHANGED <<tls, mutex, init, vm, failures>>

(* CLASSPATH is not set, or the VM reports an error.                       *)
CallFails(t) ==
    /\ pc[t] \in {"query", "create", "attach"} /\ failures < MaxFailures
    /\ failures' = failures + 1
    /\ Throw(t)

-----------------------------------------------------------------------------
(* Mutants: no once_flag; the classes only where this code made the VM.    *)
AlwaysInit == TRUE
InitOnCreate == ~once /\ vm # "foreign"

(* call_once(init_once, init_common_classes): a run that throws does not   *)
(* count, and starts again from the first class.                           *)
NeedsInit == ~once

OnceEnter(t) ==
    /\ pc[t] = "once"
    /\ Goto(t, IF NeedsInit THEN "lookup" ELSE "return")
    /\ next' = [next EXCEPT ![t] = 1]
    /\ UNCHANGED <<tls, mutex, once, class, assigned, vmState, failures>>

(* Mutant: one class too many.                                             *)
LookupOneMore(t) ==
    /\ pc[t] = "lookup" /\ next[t] <= Classes
    /\ class' = [class EXCEPT ![next[t]] = "found"]
    /\ assigned' = [assigned EXCEPT ![next[t]] = @ + 1]
    /\ next' = [next EXCEPT ![t] = @ + 1]
    /\ UNCHANGED <<pc, once, tls, mutex, vmState, failures>>

(* find_class: a class, or the null of a failed NewGlobalRef, which no     *)
(* exception accompanies and the caller does not see.                      *)
Lookup(t) ==
    /\ pc[t] = "lookup"
    /\ \E r \in Lookups \ {"exception"} :
        class' = [class EXCEPT ![next[t]] = r]
    /\ assigned' = [assigned EXCEPT ![next[t]] = @ + 1]
    /\ IF next[t] < Classes
       THEN /\ next' = [next EXCEPT ![t] = @ + 1]
            /\ UNCHANGED <<pc, once>>
       ELSE /\ once' = TRUE
            /\ Goto(t, "return")
            /\ UNCHANGED next
    /\ UNCHANGED <<tls, mutex, vmState, failures>>

(* The exception: CHECK_JNI_EXCEPTION holds it in an AutoLocalJobject and  *)
(* throws; the destructor of that object calls get_env(), tls_env is not   *)
(* set yet, and a second lock_guard of this thread on the same std::mutex  *)
(* waits: no step leads out of "relock".                                   *)
LookupThrows(t) ==
    /\ pc[t] = "lookup" /\ "exception" \in Lookups /\ failures < MaxFailures
    /\ failures' = failures + 1
    /\ Goto(t, "relock")
    /\ UNCHANGED <<tls, mutex, init, vmState>>

(* The assignment of tls_env under the lock, and the return.               *)
Return(t) ==
    /\ pc[t] = "return"
    /\ tls' = [tls EXCEPT ![t] = t]
    /\ Unlock
    /\ Goto(t, "out")
    /\ UNCHANGED <<init, vmState, failures>>

(* Another library creates the VM, at any time.                            *)
ForeignCreates ==
    /\ Foreign /\ ~Exists
    /\ vm' = "foreign"
    /\ UNCHANGED <<pc, tls, mutex, init, attached, failures>>

(* Every thread has its env.                                               *)
Finished == (\A t \in Threads : tls[t] # NoThread) /\ Exists /\ UNCHANGED vars

Step(t) ==
    \/ Lock(t) \/ Query(t) \/ Create(t) \/ CreateRefused(t) \/ Attach(t)
    \/ OnceEnter(t) \/ Lookup(t) \/ LookupThrows(t) \/ Return(t)

Next ==
    \/ \E t \in Threads : Call(t) \/ Step(t) \/ CallFails(t)
    \/ ForeignCreates \/ Finished

Spec == Init /\ [][Next]_vars

(* A thread inside get_env() is scheduled.  init_mutex need not be fair:   *)
(* a thread that has its env does not come back for it.                    *)
FairSpec == Spec /\ \A t \in Threads : WF_vars(Step(t))

-----------------------------------------------------------------------------
Pcs == {"out", "lock", "query", "create", "attach", "once", "lookup", "relock",
        "return"}

(* The types of the variables.                                             *)
TypeOK ==
    /\ pc \in [Threads -> Pcs]
    /\ tls \in [Threads -> Threads \cup {NoThread}]
    /\ mutex \in Threads \cup {NoThread}
    /\ once \in BOOLEAN
    /\ class \in [Idx -> {"unset", "found", "null"}]
    /\ assigned \in [Idx -> Nat] /\ next \in [Threads -> Idx]
    /\ vm \in Threads \cup {NoThread, "foreign"} /\ attached \subseteq Threads
    /\ failures \in 0 .. MaxFailures

(* A thread that has an env has one it may use: its own, of a VM it is     *)
(* attached to, with every common class looked up.                         *)
EnvIsReady ==
    \A t \in Threads : tls[t] # NoThread =>
        /\ tls[t] = t /\ t \in attached /\ Exists
        /\ \A k \in Idx : class[k] = "found"

(* jni_utils.cpp:100: no class is looked up twice, so that no global       *)
(* reference is overwritten and lost, whoever created the VM.              *)
ClassesInitOnce == \A k \in Idx : assigned[k] <= 1

(* Two threads of this code never race each other to JNI_CreateJavaVM:     *)
(* only another library can have created a VM since JNI_GetCreatedJavaVMs. *)
CreatorIsAlone ==
    \A t \in Threads : pc[t] = "create" /\ Exists => vm = "foreign"

(* A call of get_env() comes back, with an env or with an exception,       *)
(* unless a lookup has failed (see NoWaitForOneself).                      *)
Stuck == \E t \in Threads : pc[t] = "relock"

CallsReturn == \A t \in Threads : (pc[t] = "lock") ~> (pc[t] = "out" \/ Stuck)

(* jni_utils.cpp:100 "Ensure common classes are initialized exactly once   *)
(* regardless of JVM path": a lookup that fails is reported, and the       *)
(* classes can still be initialised; no thread waits for itself.           *)
NoWaitForOneself == \A t \in Threads : ~(pc[t] = "relock" /\ mutex = t)
=============================================================================
