---------------------------- MODULE JniEnv_proofs ----------------------------
(***************************************************************************)
(* Proofs about JniEnv, for any number of threads and of classes, when a   *)
(* lookup finds its class or raises an exception (but never returns null). *)
(***************************************************************************)
EXTENDS JniEnv, TLAPS

Inside == {"query", "create", "attach", "once", "lookup", "relock", "return"}

(* init_mutex is held by the one thread inside getGlobalJNIEnv.            *)
MutexInv == \A t \in Threads : pc[t] \in Inside <=> mutex = t

(* A thread that has come past JNI_CreateJavaVM or AttachCurrentThread is  *)
(* attached, and one that is about to return has the classes.              *)
AttachInv ==
    \A t \in Threads :
        /\ pc[t] \in {"attach", "once", "lookup", "return"} => Exists
        /\ pc[t] \in {"once", "lookup", "return"} => t \in attached
        /\ pc[t] = "return" => once
        /\ tls[t] # NoThread => tls[t] = t /\ t \in attached /\ Exists /\ once

(* The classes: none is assigned before the first run of                   *)
(* init_common_classes, those before next have been by a run in progress,  *)
(* and all have after it.                                                  *)
ClassInv ==
    /\ once => \A k \in Idx : class[k] = "found"
    /\ \A k \in Idx : assigned[k] <= 1
    /\ \A t \in Threads : pc[t] \in {"lookup", "relock"} => ~once
    /\ \A t \in Threads : pc[t] = "lookup" =>
          \A k \in Idx : IF k < next[t] THEN class[k] = "found" ELSE assigned[k] = 0
    /\ (~once /\ \A t \in Threads : pc[t] \notin {"lookup", "relock"})
          => \A k \in Idx : assigned[k] = 0

EInv == TypeOK /\ MutexInv /\ AttachInv /\ ClassInv /\ CreatorIsAlone

NoNull == Lookups \subseteq {"found", "exception"}

(* The initial state satisfies the invariant.                              *)
LEMMA InitEstablishes == Init => EInv
<1> SUFFICES ASSUME Init PROVE EInv
  OBVIOUS
<1> USE JniAssumption DEF Init
<1>1. TypeOK
  <2>1. 1 \in Idx /\ 0 \in 0 .. MaxFailures /\ "out" \in Pcs
    BY DEF Idx, Pcs
  <2>2. once \in BOOLEAN
    BY Zenon
  <2> QED
    BY <2>1, <2>2 DEF TypeOK
<1>2. MutexInv
  BY DEF MutexInv, Inside
<1>3. AttachInv /\ CreatorIsAlone
  BY DEF AttachInv, CreatorIsAlone, Exists
<1>4. ClassInv
  BY DEF ClassInv, Idx
<1> QED
  BY <1>1, <1>2, <1>3, <1>4 DEF EInv

(* What a thread that moves from one place to another leaves alone.        *)
LEMMA Moves ==
    ASSUME pc \in [Threads -> Pcs], NEW t \in Threads, NEW w \in Pcs, Goto(t, w)
    PROVE  /\ pc' \in [Threads -> Pcs] /\ pc'[t] = w
           /\ \A u \in Threads \ {t} : pc'[u] = pc[u]
BY DEF Goto

(* Steps into and inside the lock that touch neither the classes nor       *)
(* tls_env: from pc[t] to where, taking the lock if it was free.           *)
LEMMA MovePreserves ==
    ASSUME EInv, NEW t \in Threads, NEW w \in Pcs, Goto(t, w),
           UNCHANGED <<tls, once, class, assigned, next, vm, attached>>,
           failures' \in 0 .. MaxFailures,
           pc[t] \notin {"lookup", "relock"}, w \notin {"lookup", "relock"},
           w \in {"attach", "once", "return"} => Exists,
           w \in {"once", "return"} => t \in attached,
           w = "return" => once,
           w = "create" => ~Exists,
           mutex' \in Threads \cup {NoThread},
           w \in Inside <=> mutex' = t,
           mutex' = mutex \/ (mutex' \in {t, NoThread} /\ mutex \in {t, NoThread})
    PROVE  EInv'
<1> USE JniAssumption DEF EInv
<1>1. /\ pc' \in [Threads -> Pcs] /\ pc'[t] = w
      /\ \A u \in Threads \ {t} : pc'[u] = pc[u]
  BY Moves DEF TypeOK
<1>2. TypeOK'
  BY <1>1 DEF TypeOK
<1>3. MutexInv'
  BY <1>1 DEF MutexInv
<1>4. AttachInv'
  BY <1>1 DEF AttachInv, Exists
<1>5. ClassInv'
  <2>1. \A u \in Threads : pc'[u] \in {"lookup", "relock"} => pc[u] = pc'[u]
    BY <1>1
  <2>2. \A u \in Threads : pc[u] \in {"lookup", "relock"} => pc'[u] = pc[u]
    BY <1>1
  <2> QED
    BY <2>1, <2>2 DEF ClassInv
<1>6. CreatorIsAlone'
  BY <1>1 DEF CreatorIsAlone, Exists
<1> QED
  BY <1>2, <1>3, <1>4, <1>5, <1>6

(* Every step of a thread that leaves the classes and tls_env alone.       *)
LEMMA QuietSteps ==
    ASSUME EInv, NEW t \in Threads,
           \/ Call(t) \/ Lock(t) \/ Query(t) \/ CreateRefused(t) \/ CallFails(t)
    PROVE  EInv'
<1> USE JniAssumption
<1>1. /\ pc \in [Threads -> Pcs] /\ failures \in 0 .. MaxFailures
      /\ mutex \in Threads \cup {NoThread}
      /\ pc[t] \in Inside <=> mutex = t
  BY DEF EInv, TypeOK, MutexInv
<1>2. {"lock", "query", "create", "attach", "out"} \subseteq Pcs
  BY DEF Pcs
<1> USE DEF init, vmState
<1>3. CASE Call(t)
  <2>1. pc[t] \notin {"lookup", "relock"} /\ Goto(t, "lock")
    BY <1>3 DEF Call
  <2>2. /\ UNCHANGED <<tls, once, class, assigned, next, vm, attached>>
        /\ mutex' = mutex /\ failures' = failures
    BY <1>3, Zenon DEF Call
  <2>3. "lock" \in Inside <=> mutex' = t
    BY <1>1, <1>3 DEF Call, Inside
  <2>4. failures' \in 0 .. MaxFailures /\ "lock" \in Pcs
        /\ mutex' = mutex /\ mutex' \in Threads \cup {NoThread}
    BY <1>1, <1>2, <2>2
  <2> QED
    BY <2>1, <2>2, <2>3, <2>4, MovePreserves
<1>4. CASE Lock(t)
  BY <1>1, <1>2, <1>4, MovePreserves DEF Lock, CanLock, Inside
<1>5. CASE Query(t)
  <2>1. CASE Exists
    BY <1>1, <1>2, <1>5, <2>1, MovePreserves DEF Query, Inside
  <2>2. CASE ~Exists
    BY <1>1, <1>2, <1>5, <2>2, MovePreserves DEF Query, Inside
  <2> QED
    BY <2>1, <2>2
<1>6. CASE CreateRefused(t)
  BY <1>1, <1>2, <1>6, MovePreserves DEF CreateRefused, Throw, Unlock, Inside
<1>7. CASE CallFails(t)
  <2>1. failures' \in 0 .. MaxFailures
    BY <1>1, <1>7 DEF CallFails
  <2> QED
    BY <1>1, <1>2, <1>7, <2>1, MovePreserves DEF CallFails, Throw, Unlock, Inside
<1> QED
  BY <1>3, <1>4, <1>5, <1>6, <1>7

(* JNI_CreateJavaVM and AttachCurrentThread.  No other thread is inside    *)
(* the lock, so none is about to create a VM of its own.                   *)
LEMMA VmSteps ==
    ASSUME EInv, NEW t \in Threads, Create(t) \/ Attach(t)
    PROVE  EInv'
<1> USE JniAssumption DEF EInv, init
<1>1. /\ Goto(t, "once") /\ attached' = attached \cup {t}
      /\ pc[t] \in {"create", "attach"}
      /\ vm' \in {t, vm} /\ (pc[t] = "attach" => vm' = vm)
      /\ UNCHANGED <<tls, mutex, once, class, assigned, next, failures>>
  BY Zenon DEF Create, Attach
<1>2. "once" \in Pcs
  BY DEF Pcs
<1>3. /\ pc' \in [Threads -> Pcs] /\ pc'[t] = "once"
      /\ \A u \in Threads \ {t} : pc'[u] = pc[u]
  BY <1>1, <1>2, Moves DEF TypeOK
<1>4. mutex = t /\ \A u \in Threads \ {t} : pc[u] \notin Inside
  BY <1>1 DEF MutexInv, Inside
<1>5. Exists'
  <2>1. CASE Create(t)
    BY <2>1 DEF Create, Exists
  <2>2. CASE Attach(t)
    <3>1. Exists
      BY <2>2 DEF Attach, AttachInv
    <3> QED
      BY <2>2, <3>1 DEF Attach, Exists
  <2> QED
    BY <2>1, <2>2
<1>6. TypeOK'
  BY <1>1, <1>3 DEF TypeOK
<1>7. MutexInv'
  BY <1>1, <1>3, <1>4 DEF MutexInv, Inside
<1>8. AttachInv'
  BY <1>1, <1>3, <1>5 DEF AttachInv
<1>9. ClassInv'
  <2>1. \A u \in Threads : pc'[u] \in {"lookup", "relock"} <=> pc[u] \in {"lookup", "relock"}
    BY <1>1, <1>3
  <2>2. \A u \in Threads : pc'[u] = "lookup" => pc[u] = "lookup"
    BY <1>3
  <2> QED
    BY <1>1, <2>1, <2>2 DEF ClassInv
<1>10. CreatorIsAlone'
  BY <1>3, <1>4 DEF CreatorIsAlone, Inside
<1> QED
  BY <1>6, <1>7, <1>8, <1>9, <1>10

(* The thread in the lock is the only one in init_common_classes.          *)
LEMMA Alone ==
    ASSUME EInv, NEW t \in Threads, pc[t] \in Inside
    PROVE  mutex = t /\ \A u \in Threads \ {t} : pc[u] \notin Inside
BY DEF EInv, MutexInv

(* Entering call_once: the first run finds no class assigned.              *)
LEMMA OnceEnterPreserves ==
    ASSUME EInv, NEW t \in Threads, OnceEnter(t)
    PROVE  EInv'
<1> USE JniAssumption DEF EInv
<1>1. /\ pc[t] = "once" /\ next' = [next EXCEPT ![t] = 1]
      /\ UNCHANGED <<tls, mutex, once, class, assigned, vm, attached, failures>>
  BY Zenon DEF OnceEnter, vmState
<1>2. PICK w \in {"lookup", "return"} : Goto(t, w) /\ (w = "return" <=> once)
  BY DEF OnceEnter, NeedsInit
<1>3. mutex = t /\ \A u \in Threads \ {t} : pc[u] \notin Inside
  BY <1>1, Alone DEF Inside
<1>4. /\ pc' \in [Threads -> Pcs] /\ pc'[t] = w
      /\ \A u \in Threads \ {t} : pc'[u] = pc[u]
  BY <1>2, Moves DEF TypeOK, Pcs
<1>5. 1 \in Idx
  BY DEF Idx
<1>6. next' \in [Threads -> Idx] /\ next'[t] = 1
  BY <1>1, <1>5 DEF TypeOK
<1>7. TypeOK'
  BY <1>1, <1>4, <1>6 DEF TypeOK
<1>8. MutexInv'
  BY <1>1, <1>3, <1>4 DEF MutexInv, Inside
<1>9. AttachInv'
  BY <1>1, <1>2, <1>4 DEF AttachInv, Exists
<1>10. ClassInv'
  <2>1. \A u \in Threads \ {t} : pc'[u] \notin {"lookup", "relock"}
    BY <1>3, <1>4 DEF Inside
  <2>2. \A u \in Threads : pc[u] \notin {"lookup", "relock"}
    BY <1>1, <1>3 DEF Inside
  <2>3. ~once => \A k \in Idx : assigned[k] = 0
    BY <2>2 DEF ClassInv
  <2>4. \A k \in Idx : ~(k < 1)
    BY DEF Idx
  <2> QED
    BY <1>1, <1>2, <1>4, <1>6, <2>1, <2>3, <2>4 DEF ClassInv
<1>11. CreatorIsAlone'
  BY <1>3, <1>4 DEF CreatorIsAlone, Inside
<1> QED
  BY <1>7, <1>8, <1>9, <1>10, <1>11

(* A lookup that finds its class assigns one that was unassigned, and the  *)
(* last one completes the run with all of them found.                      *)
LEMMA LookupPreserves ==
    ASSUME EInv, NoNull, NEW t \in Threads, Lookup(t)
    PROVE  EInv'
<1> USE JniAssumption DEF EInv
<1> DEFINE n == next[t]
<1>1. /\ pc[t] = "lookup" /\ class' = [class EXCEPT ![n] = "found"]
      /\ assigned' = [assigned EXCEPT ![n] = @ + 1]
      /\ UNCHANGED <<tls, mutex, vm, attached, failures>>
  BY DEF Lookup, NoNull, vmState
<1>2. n \in Idx /\ n \in Nat /\ Classes \in Nat
  BY DEF TypeOK, Idx
<1>3. mutex = t /\ \A u \in Threads \ {t} : pc[u] \notin Inside
  BY <1>1, Alone DEF Inside
<1>4. class' \in [Idx -> {"unset", "found", "null"}] /\ assigned' \in [Idx -> Nat]
  BY <1>1, <1>2 DEF TypeOK
<1>5. /\ class'[n] = "found" /\ assigned'[n] = 1
      /\ \A k \in Idx \ {n} : class'[k] = class[k] /\ assigned'[k] = assigned[k]
  BY <1>1, <1>2 DEF TypeOK, ClassInv
<1>6. /\ \A k \in Idx : k < n => class[k] = "found"
      /\ \A k \in Idx : ~(k < n) => assigned[k] = 0
      /\ ~once
  BY <1>1 DEF ClassInv
<1>7. \A k \in Idx : k <= n => class'[k] = "found"
  BY <1>2, <1>5, <1>6 DEF Idx
<1>8. \A k \in Idx : assigned'[k] <= 1
  BY <1>5 DEF ClassInv
<1>9. \A k \in Idx : ~(k <= n) => assigned'[k] = 0
  BY <1>2, <1>5, <1>6 DEF Idx
<1>10. CASE n < Classes
  <2>1. next' = [next EXCEPT ![t] = n + 1] /\ UNCHANGED <<pc, once>>
    BY <1>10, Zenon DEF Lookup
  <2>2. next' \in [Threads -> Idx] /\ next'[t] = n + 1
    BY <1>2, <1>10, <2>1 DEF TypeOK, Idx
  <2>3. TypeOK'
    BY <1>1, <1>4, <2>1, <2>2 DEF TypeOK
  <2>4. MutexInv' /\ AttachInv' /\ CreatorIsAlone'
    BY <1>1, <2>1 DEF MutexInv, AttachInv, CreatorIsAlone, Exists
  <2>5. ClassInv'
    <3>1. \A u \in Threads : pc'[u] = "lookup" => u = t
      BY <1>3, <2>1 DEF Inside
    <3>2. \A k \in Idx : IF k < n + 1 THEN class'[k] = "found" ELSE assigned'[k] = 0
      BY <1>2, <1>7, <1>9 DEF Idx
    <3> QED
      BY <1>1, <1>6, <1>8, <2>1, <2>2, <3>1, <3>2 DEF ClassInv
  <2> QED
    BY <2>3, <2>4, <2>5
<1>11. CASE ~(n < Classes)
  <2>1. Goto(t, "return") /\ next' = next
    BY <1>11, Zenon DEF Lookup
  <2>2. once' = TRUE
    BY <1>11, Zenon DEF Lookup
  <2>3. /\ pc' \in [Threads -> Pcs] /\ pc'[t] = "return"
        /\ \A u \in Threads \ {t} : pc'[u] = pc[u]
    BY <2>1, Moves DEF TypeOK, Pcs
  <2>4. TypeOK'
    BY <1>1, <1>4, <2>1, <2>2, <2>3 DEF TypeOK
  <2>5. MutexInv' /\ CreatorIsAlone'
    BY <1>1, <1>3, <2>3 DEF MutexInv, CreatorIsAlone, Inside
  <2>6. AttachInv'
    BY <1>1, <1>3, <2>2, <2>3 DEF AttachInv, Exists
  <2>7. ClassInv'
    <3>1. \A k \in Idx : class'[k] = "found"
      BY <1>2, <1>7, <1>11 DEF Idx
    <3>2. \A u \in Threads : pc'[u] \notin {"lookup", "relock"}
      BY <1>3, <2>3 DEF Inside
    <3> QED
      BY <1>8, <2>2, <3>1, <3>2 DEF ClassInv
  <2> QED
    BY <2>4, <2>5, <2>6, <2>7
<1> QED
  BY <1>10, <1>11

(* A lookup that throws leaves its thread waiting for its own lock.        *)
LEMMA LookupThrowsPreserves ==
    ASSUME EInv, NEW t \in Threads, LookupThrows(t)
    PROVE  EInv'
<1> USE JniAssumption DEF EInv
<1>1. /\ pc[t] = "lookup" /\ Goto(t, "relock")
      /\ UNCHANGED <<tls, mutex, once, class, assigned, next, vm, attached>>
  BY Zenon DEF LookupThrows, init, vmState
<1>2. failures' \in 0 .. MaxFailures
  BY DEF LookupThrows, TypeOK
<1>3. /\ pc' \in [Threads -> Pcs] /\ pc'[t] = "relock"
      /\ \A u \in Threads \ {t} : pc'[u] = pc[u]
  BY <1>1, Moves DEF TypeOK, Pcs
<1>4. TypeOK'
  BY <1>1, <1>2, <1>3 DEF TypeOK
<1>5. MutexInv' /\ AttachInv' /\ CreatorIsAlone'
  BY <1>1, <1>3 DEF MutexInv, AttachInv, CreatorIsAlone, Inside, Exists
<1>6. ClassInv'
  <2>1. \A u \in Threads : pc'[u] \in {"lookup", "relock"} <=> pc[u] \in {"lookup", "relock"}
    BY <1>1, <1>3
  <2>2. \A u \in Threads : pc'[u] = "lookup" => pc[u] = "lookup"
    BY <1>3
  <2> QED
    BY <1>1, <2>1, <2>2 DEF ClassInv
<1> QED
  BY <1>4, <1>5, <1>6

(* The assignment of tls_env, and the release of the lock.                 *)
LEMMA ReturnPreserves ==
    ASSUME EInv, NEW t \in Threads, Return(t)
    PROVE  EInv'
<1> USE JniAssumption DEF EInv
<1>1. /\ pc[t] = "return" /\ Goto(t, "out") /\ mutex' = NoThread
      /\ tls' = [tls EXCEPT ![t] = t]
      /\ UNCHANGED <<once, class, assigned, next, vm, attached, failures>>
  BY Zenon DEF Return, Unlock, init, vmState
<1>2. mutex = t /\ \A u \in Threads \ {t} : pc[u] \notin Inside
  BY <1>1, Alone DEF Inside
<1>3. /\ pc' \in [Threads -> Pcs] /\ pc'[t] = "out"
      /\ \A u \in Threads \ {t} : pc'[u] = pc[u]
  BY <1>1, Moves DEF TypeOK, Pcs
<1>4. tls' \in [Threads -> Threads \cup {NoThread}] /\ tls'[t] = t
      /\ \A u \in Threads \ {t} : tls'[u] = tls[u]
  BY <1>1 DEF TypeOK
<1>5. TypeOK'
  BY <1>1, <1>3, <1>4 DEF TypeOK
<1>6. MutexInv' /\ CreatorIsAlone'
  BY <1>1, <1>2, <1>3 DEF MutexInv, CreatorIsAlone, Inside
<1>7. AttachInv'
  BY <1>1, <1>3, <1>4 DEF AttachInv, Exists
<1>8. ClassInv'
  <2>1. \A u \in Threads : pc'[u] \in {"lookup", "relock"} <=> pc[u] \in {"lookup", "relock"}
    BY <1>1, <1>3
  <2>2. \A u \in Threads : pc'[u] = "lookup" => pc[u] = "lookup"
    BY <1>3
  <2> QED
    BY <1>1, <2>1, <2>2 DEF ClassInv
<1> QED
  BY <1>5, <1>6, <1>7, <1>8

(* A VM created by another library.                                        *)
LEMMA ForeignPreserves == ASSUME EInv, ForeignCreates PROVE EInv'
<1> USE JniAssumption DEF EInv
<1>1. /\ vm' = "foreign"
      /\ UNCHANGED <<pc, tls, mutex, once, class, assigned, next, attached, failures>>
  BY Zenon DEF ForeignCreates, init
<1>2. Exists'
  BY <1>1 DEF Exists
<1>3. TypeOK' /\ CreatorIsAlone'
  BY <1>1 DEF TypeOK, CreatorIsAlone
<1>4. MutexInv' /\ ClassInv'
  BY <1>1 DEF MutexInv, ClassInv
<1>5. AttachInv'
  BY <1>1, <1>2 DEF AttachInv
<1> QED
  BY <1>3, <1>4, <1>5

LEMMA StutterPreserves == EInv /\ UNCHANGED vars => EInv'
BY DEF EInv, vars, init, vmState, TypeOK, MutexInv, AttachInv, ClassInv,
       CreatorIsAlone, Exists

-----------------------------------------------------------------------------
(* The invariant holds in every reachable state.                           *)
THEOREM Invariance == ASSUME NoNull PROVE Spec => []EInv
<1>1. EInv /\ [Next]_vars => EInv'
  <2> SUFFICES ASSUME EInv, [Next]_vars PROVE EInv'
    OBVIOUS
  <2>1. ASSUME NEW t \in Threads, Call(t) \/ Step(t) \/ CallFails(t)
        PROVE  EInv'
    BY <2>1, NoNull, QuietSteps, VmSteps, OnceEnterPreserves, LookupPreserves,
       LookupThrowsPreserves, ReturnPreserves DEF Step
  <2>2. CASE ForeignCreates
    BY <2>2, ForeignPreserves
  <2>3. CASE Finished \/ UNCHANGED vars
    BY <2>3, StutterPreserves DEF Finished
  <2> QED
    BY <2>1, <2>2, <2>3 DEF Next
<1> QED
  BY <1>1, InitEstablishes, PTL DEF Spec

(* The types of the variables.                                             *)
THEOREM TypeCorrect == ASSUME NoNull PROVE Spec => []TypeOK
<1>1. EInv => TypeOK
  BY DEF EInv
<1> QED
  BY <1>1, Invariance, PTL

(* A thread that has an env has its own, of a VM it is attached to, with   *)
(* every common class found.                                               *)
THEOREM Ready == ASSUME NoNull PROVE Spec => []EnvIsReady
<1>1. EInv => EnvIsReady
  BY DEF EInv, AttachInv, ClassInv, EnvIsReady
<1> QED
  BY <1>1, Invariance, PTL

(* No common class is assigned twice, on whatever path the VM came to be.  *)
THEOREM InitOnce == ASSUME NoNull PROVE Spec => []ClassesInitOnce
<1>1. EInv => ClassesInitOnce
  BY DEF EInv, ClassInv, ClassesInitOnce
<1> QED
  BY <1>1, Invariance, PTL

(* Two threads of this code never race to create the VM.                   *)
THEOREM CreateAlone == ASSUME NoNull PROVE Spec => []CreatorIsAlone
<1>1. EInv => CreatorIsAlone
  BY DEF EInv
<1> QED
  BY <1>1, Invariance, PTL
=============================================================================
