------------------------------- MODULE CoreDump -------------------------------
(***************************************************************************)
(* coredump_demo: a handler that prints a stack trace and raises its       *)
(* signal again for the core dump, while other signals, or faults of the   *)
(* unwinder, may interrupt it.                                             *)
(*                                                                         *)
(* The thread's contexts are a stack: main() first, then one for each      *)
(* handler, each interrupting the one before.  A handler's locals and the  *)
(* context it saves lie on the stack the signal found ("core"), on the     *)
(* alternate stack, or on the fiber g_bt_stack, on which CONTEXT_MODE=bad  *)
(* makes each handler run its trace from the top.                          *)
(*                                                                         *)
(* External: delivery of signals by the kernel, and the unwinder, which    *)
(* may fault, or abort() on a heap that is broken.                         *)
(***************************************************************************)
EXTENDS Naturals, Sequences

CONSTANT MaxSignals     \* signals besides main()'s own fault (a bound)

ASSUME SignalsAssumption == MaxSignals \in Nat

Signals == {"SEGV", "ABRT", "ILL", "FPE"}
Order   == <<"SEGV", "ABRT", "ILL", "FPE">>     \* of installation

HandlerModes == {"legacy", "normal", "altstack"}
UnwModes     == {"without_context", "with_context", "backtrace"}

VARIABLES
    mode,       \* HANDLER_MODE
    unw,        \* UNW_MODE
    bad,        \* CONTEXT_MODE is "bad"
    handlers,   \* the disposition of each signal
    pending,    \* signals raised and blocked
    stack,      \* the contexts, the running one last
    last,       \* g_last_ucontext: of which context; 0 for null
    hit,        \* the context each signal's handler interrupted
    extra,      \* signals besides main()'s own fault
    end         \* how the process ended

env  == <<mode, unw, bad>>
vars == <<env, handlers, pending, stack, last, hit, extra, end>>

Alive == [how |-> "alive", sig |-> "none", depth |-> 0]

(* sig: what it handles; on: the stack its frame is on; mask: what it      *)
(* blocks; intact, traceIntact: nothing was written over its frame, or     *)
(* over that of the trace it runs on the fiber.                            *)
Main == [sig |-> "none", pc |-> "main", on |-> "core", mask |-> {},
         intact |-> TRUE, traceIntact |-> TRUE]

Init ==
    /\ mode \in HandlerModes \cup {"invalid"}
    /\ unw \in UnwModes \cup {"invalid"}
    /\ bad \in BOOLEAN
    /\ handlers = [s \in Signals |-> "default"]
    /\ pending = {} /\ stack = <<Main>> /\ last = 0
    /\ hit = [s \in Signals |-> 0]
    /\ extra = 0 /\ end = Alive

Top  == stack[Len(stack)]
Runs == end = Alive /\ pending \subseteq Top.mask

(* The stack the running context is on.                                    *)
Here == IF Top.pc = "trace" /\ bad THEN "fiber" ELSE Top.on

Goto(where) == stack' = [stack EXCEPT ![Len(stack)].pc = where]

Dies(how, s) ==
    /\ end' = [how |-> how, sig |-> s, depth |-> Len(stack)]
    /\ UNCHANGED <<env, handlers, stack, last, hit>>

-----------------------------------------------------------------------------
(* main(): the modes are read, the handlers installed one by one.          *)
Refuse ==
    /\ Runs /\ Top.pc = "main" /\ "invalid" \in {mode, unw}
    /\ Dies("exit", "none")
    /\ UNCHANGED <<pending, extra>>

Install ==
    /\ Runs /\ Top.pc = "main" /\ "invalid" \notin {mode, unw}
    /\ \E i \in DOMAIN Order :
        /\ handlers[Order[i]] = "default"
        /\ \A j \in 1 .. i - 1 : handlers[Order[j]] = "custom"
        /\ handlers' = [handlers EXCEPT ![Order[i]] = "custom"]
        /\ IF i = Len(Order) THEN Goto("fault") ELSE UNCHANGED stack
    /\ UNCHANGED <<env, pending, last, hit, extra, end>>

-----------------------------------------------------------------------------
(* Mutant: SA_NODEFER.                                                     *)
BlockedNothing(s) == {}

(* sa_mask is empty: a handler blocks its own signal and no other.         *)
BlockedBy(s) == {s}

(* SA_ONSTACK: a handler starts at the top of the alternate stack unless   *)
(* the thread is on it, and what is there is written over.                 *)
EntersAtTop == mode = "altstack" /\ Here # "alt"

Interrupted ==
    [i \in DOMAIN stack |->
        [stack[i] EXCEPT !.intact = @ /\ ~(EntersAtTop /\ stack[i].on = "alt")]]

(* The kernel calls the handler of s, or ends the process.                 *)
Deliver(s) ==
    \/ /\ handlers[s] = "default"
       /\ Dies("default", s)
    \/ /\ handlers[s] = "custom"
       /\ stack' = Append(Interrupted,
                          [sig |-> s, pc |-> "entry",
                           on |-> IF mode = "altstack" THEN "alt" ELSE Here,
                           mask |-> Top.mask \cup BlockedBy(s),
                           intact |-> TRUE, traceIntact |-> TRUE])
       /\ hit' = [hit EXCEPT ![s] = Len(stack)]
       /\ UNCHANGED <<env, handlers, last, end>>

(* One handler too many for the SIGSTKSZ bytes of the alternate stack.     *)
Overflows == Here = "alt" /\ Dies("forced", "SEGV")

(* A signal from outside.                                                  *)
Arrives ==
    /\ Runs /\ extra < MaxSignals /\ extra' = extra + 1
    /\ \E s \in Signals :
        \/ /\ s \in Top.mask
           /\ pending' = pending \cup {s}
           /\ UNCHANGED <<env, handlers, stack, last, hit, end>>
        \/ s \notin Top.mask /\ (Deliver(s) \/ Overflows) /\ UNCHANGED pending

(* A fault of the running instruction does not wait: if it is blocked, the *)
(* process ends.                                                           *)
Fault(s) ==
    /\ IF s \in Top.mask THEN Dies("forced", s) ELSE Deliver(s) \/ Overflows
    /\ UNCHANGED pending

(* cause_segfault(), again if a handler should return to it.               *)
MainFaults ==
    /\ Runs /\ Top.pc = "fault"
    /\ Fault("SEGV")
    /\ UNCHANGED extra

(* Without a context the unwinder is not called.                           *)
Walks == Runs /\ Top.pc = "trace" /\ ~(unw = "with_context" /\ last = 0)

TraceFaults ==
    /\ Walks /\ extra < MaxSignals /\ extra' = extra + 1
    /\ \E s \in Signals \ {"ABRT"} : Fault(s)

(* abort() unblocks its signal first.                                      *)
TraceAborts ==
    /\ Walks /\ extra < MaxSignals /\ extra' = extra + 1
    /\ pending' = pending \cup {"ABRT"}
    /\ stack' = [stack EXCEPT ![Len(stack)].mask = @ \ {"ABRT"}]
    /\ UNCHANGED <<env, handlers, last, hit, end>>

(* A pending signal that is unblocked comes before the next instruction.   *)
DeliverPending ==
    /\ end = Alive
    /\ \E s \in pending \ Top.mask :
        /\ pending' = pending \ {s}
        /\ Deliver(s)
    /\ UNCHANGED extra

-----------------------------------------------------------------------------
(* signal_handler().                                                       *)
In(where) == Runs /\ Top.intact /\ Top.pc = where

(* Mutant: the context of the first signal is kept.                        *)
ContextOfFirst == IF last # 0 THEN last ELSE Len(stack)

(* The legacy handler passes null.                                         *)
Context == IF mode = "legacy" THEN 0 ELSE Len(stack)

Enter ==
    /\ In("entry")
    /\ last' = Context
    /\ Goto("begun")
    /\ UNCHANGED <<env, handlers, pending, hit, extra, end>>

(* makecontext() at the top of g_bt_stack: the trace a handler below was   *)
(* running there is lost, and so may be a handler that is on it.           *)
WrittenOver(i, hurt) ==
    [stack[i] EXCEPT
        !.traceIntact = i = Len(stack) \/ stack[i].pc # "trace",
        !.intact = @ /\ (stack[i].on = "fiber" => ~hurt),
        !.pc = IF i = Len(stack) THEN "trace" ELSE @]

StartTrace ==
    /\ In("begun")
    /\ IF bad THEN \E hurt \in BOOLEAN :
                        stack' = [i \in DOMAIN stack |-> WrittenOver(i, hurt)]
              ELSE Goto("trace")
    /\ UNCHANGED <<env, handlers, pending, last, hit, extra, end>>

(* run_on_fiber() is done; swapcontext() returns to the handler.           *)
EndTrace ==
    /\ Runs /\ Top.pc = "trace" /\ Top.traceIntact
    /\ Goto("traced")
    /\ UNCHANGED <<env, handlers, pending, last, hit, extra, end>>

(* A trace inside a trace: the allocator it interrupted is not reentrant.  *)
Reentered == \E i, j \in DOMAIN stack : i < j /\ {stack[i].pc, stack[j].pc} = {"trace"}

TraceHangs ==
    /\ Walks /\ Reentered
    /\ Dies("hung", "none")
    /\ UNCHANGED <<pending, extra>>

(* Mutant: signal(sig_num, SIG_DFL) is forgotten.                          *)
KeepsHandler(s) == handlers

Defaulted(s) == [handlers EXCEPT ![s] = "default"]

SetDefault ==
    /\ In("traced")
    /\ handlers' = Defaulted(Top.sig)
    /\ Goto("defaulted")
    /\ UNCHANGED <<env, pending, last, hit, extra, end>>

(* Mutant: no raise().  For a fault that would do: it happens again.       *)
RaiseNothing(s) == pending

Raised(s) == pending \cup {s}

Raise ==
    /\ In("defaulted")
    /\ pending' = Raised(Top.sig)
    /\ Goto("raised")
    /\ UNCHANGED <<env, handlers, last, hit, extra, end>>

(* The handler returns: the context it interrupted, and its mask.          *)
Return ==
    /\ In("raised")
    /\ stack' = SubSeq(stack, 1, Len(stack) - 1)
    /\ UNCHANGED <<env, handlers, pending, last, hit, extra, end>>

(* A frame that was written over runs: anything, and soon a crash.         *)
Whole(f) == IF f.pc = "trace" THEN f.traceIntact ELSE f.intact

Derail ==
    /\ Runs /\ ~Whole(Top)
    /\ Dies("derailed", "none")
    /\ UNCHANGED <<pending, extra>>

Finished == end # Alive /\ UNCHANGED vars

-----------------------------------------------------------------------------
Handle ==
    Enter \/ StartTrace \/ EndTrace \/ SetDefault \/ Raise \/ Return

Step == Refuse \/ Install \/ MainFaults \/ DeliverPending \/ Handle \/ Derail

Next ==
    \/ Step
    \/ Arrives \/ TraceFaults \/ TraceAborts \/ TraceHangs
    \/ Finished

Spec == Init /\ [][Next]_vars

(* The thread is scheduled, and the kernel delivers.                       *)
FairSpec == Spec /\ WF_vars(Step)

-----------------------------------------------------------------------------
(* A frame that was written over by a later handler, on the alternate      *)
(* stack or on the fiber, never runs again: every handler that comes       *)
(* between ends the process.  So it is but for CONTEXT_MODE=bad without    *)
(* the alternate stack, which the demo's README does not use.              *)
RunsOnItsFrame ==
    Runs /\ (bad => mode = "altstack") => Whole(Top)

(* What the unwinder is given is the context its own handler interrupted,  *)
(* not that of a handler nested in it, which is gone.                      *)
TracesItsOwn ==
    Runs /\ Top.pc = "trace" /\ unw = "with_context"
        => last = (IF mode = "legacy" THEN 0 ELSE Len(stack))

(* The core dump of a signal that was handled shows the context it         *)
(* interrupted, not the handler; but abort() inside a trace may come when  *)
(* a handler below has set SIGABRT to its default.                         *)
CoreShowsTheFault ==
    end.how = "default" /\ hit[end.sig] # 0 =>
        \/ end.depth = hit[end.sig]
        \/ end.sig = "ABRT" /\ Top.pc = "trace"

(* The process whose modes are valid ends, and of a signal, unless one     *)
(* interrupted a trace.                                                    *)
EndsOfASignal ==
    "invalid" \notin {mode, unw} =>
        <>(end.how \in {"default", "forced"} \/ Reentered)
=============================================================================
