---------------------------- MODULE CoreDump_proofs ----------------------------
(***************************************************************************)
(* Proofs about CoreDump, for any number of signals from outside and any   *)
(* depth of nested handlers.                                               *)
(*                                                                         *)
(* The argument: a handler that has run leaves its signal pending, at its  *)
(* default and not blocked in the context below, so no instruction of that *)
(* context runs again: the signal comes first and ends the process.  What  *)
(* later handlers wrote over therefore lies below contexts that never run. *)
(***************************************************************************)
EXTENDS CoreDump, TLAPS

HandlerPcs == {"entry", "begun", "trace", "traced", "defaulted", "raised"}

Frames ==
    [sig : Signals \cup {"none"}, pc : {"main", "fault"} \cup HandlerPcs,
     on : {"core", "alt", "fiber"}, mask : SUBSET Signals,
     intact : BOOLEAN, traceIntact : BOOLEAN]

TypeInv ==
    /\ handlers \in [Signals -> {"default", "custom"}]
    /\ pending \subseteq Signals
    /\ stack \in Seq(Frames) /\ Len(stack) > 0
    /\ hit \in [Signals -> Nat]

(* A handler's signal was not blocked in the context below it, and it      *)
(* blocks no more than that context and itself.                            *)
OnTopOf(f, g, handlerMode) ==
    /\ f.pc \in HandlerPcs /\ f.sig \in Signals
    /\ handlerMode = "altstack" => f.on = "alt"
    /\ f.sig \notin g.mask /\ f.mask \subseteq g.mask \cup {f.sig}

NestInv ==
    /\ stack[1].pc \in {"main", "fault"} /\ stack[1].on = "core"
    /\ \A i \in 2 .. Len(stack) : OnTopOf(stack[i], stack[i - 1], mode)

(* The context whose instructions run: nothing was written over it, the    *)
(* unwinder has its context, and once it has set its signal to the default *)
(* and raised it, so it stays.                                             *)
RunInv ==
    Runs =>
        /\ (bad => mode = "altstack") => Top.intact /\ Top.traceIntact
        /\ Top.pc \in {"begun", "trace"} => last = Context
        /\ Top.pc \in {"defaulted", "raised"} => handlers[Top.sig] = "default"
        /\ Top.pc = "raised" => Top.sig \in pending
        /\ Len(stack) > 1 => hit[Top.sig] = Len(stack) - 1

(* At most one pending signal is not blocked: that of the handler which    *)
(* just returned, or the SIGABRT of a trace.                               *)
WaitInv ==
    end = Alive =>
        \A s \in pending \ Top.mask :
            /\ pending \ {s} \subseteq Top.mask
            /\ hit[s] = Len(stack) \/ (s = "ABRT" /\ Top.pc = "trace")

(* A signal that was handled is blocked, or about to end the process.      *)
HitInv ==
    end = Alive => \A s \in Signals : hit[s] # 0 => s \in Top.mask \cup pending

IInv == TypeInv /\ NestInv /\ RunInv /\ WaitInv /\ HitInv /\ CoreShowsTheFault

-----------------------------------------------------------------------------
LEMMA TopIsFrame == TypeInv => Top \in Frames /\ Len(stack) \in Nat /\ Len(stack) > 0
BY DEF TypeInv, Top

(* The running context alone goes on.                                      *)
LEMMA TopChanges ==
    ASSUME TypeInv, NestInv, NEW f \in Frames, stack' = [stack EXCEPT ![Len(stack)] = f],
           UNCHANGED <<mode, hit>>, pending' \subseteq Signals,
           handlers' \in [Signals -> {"default", "custom"}],
           f.sig = Top.sig, f.on = Top.on, f.mask \subseteq Top.mask,
           f.pc = Top.pc \/ (Top.pc = "main" /\ f.pc = "fault")
                \/ (Top.pc \in HandlerPcs /\ f.pc \in HandlerPcs)
    PROVE  TypeInv' /\ NestInv' /\ Top' = f /\ Len(stack') = Len(stack)
<1>1. PICK n \in Nat : n = Len(stack) /\ n > 0
  BY TopIsFrame
<1>2. /\ stack' \in Seq(Frames) /\ Len(stack') = n /\ stack'[n] = f
      /\ \A i \in 1 .. n : i # n => stack'[i] = stack[i]
  BY <1>1 DEF TypeInv
<1>3. Top' = f /\ Top = stack[n]
  BY <1>1, <1>2 DEF Top
<1>4. TypeInv'
  BY <1>1, <1>2 DEF TypeInv
<1>5. stack'[1].pc \in {"main", "fault"} /\ stack'[1].on = "core"
  <2>1. CASE n = 1
    BY <1>2, <1>3, <2>1 DEF NestInv, HandlerPcs
  <2>2. CASE n # 1
    BY <1>1, <1>2, <2>2 DEF NestInv
  <2> QED
    BY <2>1, <2>2
<1>6. ASSUME NEW i \in 2 .. n
      PROVE  OnTopOf(stack'[i], stack'[i - 1], mode')
  <2>1. OnTopOf(stack[i], stack[i - 1], mode) /\ i - 1 \in 1 .. n /\ i - 1 # n
    BY <1>1 DEF NestInv
  <2>2. stack'[i - 1] = stack[i - 1]
    BY <1>2, <2>1
  <2>3. CASE i = n
    <3>1. /\ f.pc \in HandlerPcs /\ f.sig = stack[i].sig /\ f.on = stack[i].on
          /\ f.mask \subseteq stack[i].mask /\ stack'[i] = f
      BY <1>2, <1>3, <2>1, <2>3 DEF OnTopOf, HandlerPcs
    <3> QED
      BY <2>1, <2>2, <3>1 DEF OnTopOf
  <2>4. CASE i # n
    BY <1>2, <2>1, <2>2, <2>4 DEF OnTopOf
  <2> QED
    BY <2>3, <2>4
<1> QED
  BY <1>1, <1>2, <1>3, <1>4, <1>5, <1>6 DEF NestInv

LEMMA GotoChanges ==
    ASSUME TypeInv, NestInv, NEW where, Goto(where),
           UNCHANGED <<mode, handlers, hit>>, pending' \subseteq Signals,
           (Top.pc = "main" /\ where = "fault")
                \/ (Top.pc \in HandlerPcs /\ where \in HandlerPcs)
    PROVE  /\ TypeInv' /\ NestInv' /\ Top' = [Top EXCEPT !.pc = where]
           /\ Len(stack') = Len(stack)
<1> DEFINE f == [Top EXCEPT !.pc = where]
<1>1. Top \in Frames
  BY TopIsFrame
<1>2. /\ f \in Frames /\ f.sig = Top.sig /\ f.on = Top.on /\ f.mask = Top.mask
      /\ f.pc = where
  BY <1>1 DEF Frames
<1>3. stack' = [stack EXCEPT ![Len(stack)] = f]
  BY DEF Goto, Top
<1> HIDE DEF f
<1>4. TypeInv' /\ NestInv' /\ Top' = f /\ Len(stack') = Len(stack)
  BY <1>2, <1>3, TopChanges DEF TypeInv
<1> QED
  BY <1>4 DEF f

(* The context that runs is still the one that runs.                       *)
LEMMA GoesOn ==
    ASSUME IInv, Runs, TypeInv', NestInv', Len(stack') = Len(stack),
           Top'.sig = Top.sig, Top'.mask = Top.mask,
           UNCHANGED <<end, hit>>, pending \subseteq pending', pending' \subseteq Top.mask
    PROVE  WaitInv' /\ HitInv' /\ CoreShowsTheFault'
           /\ (Len(stack') > 1 => hit'[Top'.sig] = Len(stack') - 1)
<1>1. end = Alive /\ end' = Alive
  BY DEF Runs
<1>2. CoreShowsTheFault'
  BY <1>1 DEF CoreShowsTheFault, Alive
<1>3. pending' \ Top'.mask = {}
  OBVIOUS
<1>4. WaitInv'
  BY <1>3 DEF WaitInv
<1>5. HitInv'
  BY <1>1 DEF IInv, HitInv
<1> QED
  BY <1>2, <1>4, <1>5 DEF IInv, RunInv

(* The process ends.                                                       *)
LEMMA Ends ==
    ASSUME IInv, NEW how \in {"exit", "default", "forced", "hung", "derailed"}, NEW s,
           Dies(how, s), pending' \subseteq Signals,
           how = "default" => \/ hit[s] = 0 \/ hit[s] = Len(stack)
                              \/ (s = "ABRT" /\ Top.pc = "trace")
    PROVE  IInv'
<1>1. /\ end' = [how |-> how, sig |-> s, depth |-> Len(stack)]
      /\ UNCHANGED <<mode, unw, bad, handlers, stack, last, hit>>
  BY DEF Dies, env
<1>2. end' # Alive /\ end'.how = how /\ end'.sig = s /\ end'.depth = Len(stack)
  BY <1>1 DEF Alive
<1>3. Top' = Top
  BY <1>1 DEF Top
<1>4. CoreShowsTheFault'
  BY <1>1, <1>2, <1>3 DEF CoreShowsTheFault
<1>5. TypeInv' /\ NestInv'
  BY <1>1 DEF IInv, TypeInv, NestInv, OnTopOf
<1>6. RunInv' /\ WaitInv' /\ HitInv'
  BY <1>2 DEF RunInv, WaitInv, HitInv, Runs
<1> QED
  BY <1>4, <1>5, <1>6 DEF IInv

(* A handler is called, on top of a context that did not block its signal. *)
LEMMA Called ==
    ASSUME IInv, end = Alive, NEW s \in Signals, s \notin Top.mask,
           Deliver(s), handlers[s] = "custom",
           pending' \subseteq Top.mask, pending \subseteq pending' \cup {s}
    PROVE  IInv'
<1> DEFINE f == [sig |-> s, pc |-> "entry",
                 on |-> IF mode = "altstack" THEN "alt" ELSE Here,
                 mask |-> Top.mask \cup BlockedBy(s),
                 intact |-> TRUE, traceIntact |-> TRUE]
<1>1. /\ stack' = Append(Interrupted, f)
      /\ hit' = [hit EXCEPT ![s] = Len(stack)]
      /\ UNCHANGED <<mode, unw, bad, handlers, last, end>>
  BY DEF Deliver, env
<1>2. PICK n \in Nat : n = Len(stack) /\ n > 0
  BY TopIsFrame DEF IInv
<1>3. Top \in Frames /\ Top = stack[n]
  BY <1>2, TopIsFrame DEF IInv, Top
<1>4. f \in Frames /\ f.mask = Top.mask \cup {s}
  <2>1. Top.mask \subseteq Signals /\ Top.on \in {"core", "alt", "fiber"}
    BY <1>3 DEF Frames
  <2>2. Here \in {"core", "alt", "fiber"}
    BY <2>1 DEF Here
  <2> QED
    BY <2>1, <2>2 DEF Frames, HandlerPcs, BlockedBy
<1>5. /\ Interrupted \in Seq(Frames) /\ Len(Interrupted) = n
      /\ \A i \in 1 .. n : /\ Interrupted[i].sig = stack[i].sig
                           /\ Interrupted[i].pc = stack[i].pc
                           /\ Interrupted[i].on = stack[i].on
                           /\ Interrupted[i].mask = stack[i].mask
  <2>1. DOMAIN stack = 1 .. n /\ \A i \in 1 .. n : stack[i] \in Frames
    BY <1>2 DEF IInv, TypeInv
  <2>3. ASSUME NEW i \in 1 .. n
        PROVE  /\ Interrupted[i] \in Frames
               /\ Interrupted[i].sig = stack[i].sig
               /\ Interrupted[i].pc = stack[i].pc
               /\ Interrupted[i].on = stack[i].on
               /\ Interrupted[i].mask = stack[i].mask
    <3> DEFINE whole == stack[i].intact /\ ~ (EntersAtTop /\ stack[i].on = "alt")
    <3>1. whole \in BOOLEAN
      BY Zenon
    <3>2. Interrupted[i] = [stack[i] EXCEPT !.intact = whole]
      BY <2>1 DEF Interrupted
    <3> HIDE DEF whole
    <3> QED
      BY <2>1, <3>1, <3>2 DEF Frames
  <2>4. Interrupted \in [1 .. n -> Frames]
    BY <2>1, <2>3 DEF Interrupted
  <2> QED
    BY <1>2, <2>3, <2>4
<1> HIDE DEF f
<1>6. /\ stack' \in Seq(Frames) /\ Len(stack') = n + 1 /\ stack'[n + 1] = f
      /\ \A i \in 1 .. n : stack'[i] = Interrupted[i]
  BY <1>1, <1>4, <1>5
<1>7. Top' = f
  BY <1>6 DEF Top
<1>8. TypeInv'
  <2>1. pending' \subseteq Signals
    BY <1>3 DEF Frames
  <2> QED
    BY <1>1, <1>2, <1>6, <2>1 DEF IInv, TypeInv
<1>9. NestInv'
  <2>1. stack'[1].pc \in {"main", "fault"} /\ stack'[1].on = "core"
    BY <1>2, <1>5, <1>6 DEF IInv, NestInv
  <2>2. ASSUME NEW i \in 2 .. n + 1
        PROVE  OnTopOf(stack'[i], stack'[i - 1], mode')
    <3>1. CASE i = n + 1
      <4>1. stack'[i - 1].mask = Top.mask /\ stack'[i] = f
        BY <1>2, <1>3, <1>5, <1>6, <3>1
      <4>2. /\ f.pc \in HandlerPcs /\ f.sig = s
            /\ mode = "altstack" => f.on = "alt"
        BY DEF f, HandlerPcs
      <4>3. mode' = mode
        BY <1>1
      <4> QED
        BY <1>4, <4>1, <4>2, <4>3 DEF OnTopOf
    <3>2. CASE i # n + 1
      <4>1. i \in 1 .. n /\ i - 1 \in 1 .. n /\ i \in 2 .. n
        BY <1>2, <3>2
      <4>2. OnTopOf(stack[i], stack[i - 1], mode)
        BY <1>2, <4>1 DEF IInv, NestInv
      <4>3. /\ stack'[i].sig = stack[i].sig /\ stack'[i].pc = stack[i].pc
            /\ stack'[i].on = stack[i].on /\ stack'[i].mask = stack[i].mask
            /\ stack'[i - 1].mask = stack[i - 1].mask
        BY <1>5, <1>6, <4>1
      <4> QED
        BY <1>1, <4>2, <4>3 DEF OnTopOf
    <3> QED
      BY <3>1, <3>2
  <2> QED
    BY <1>6, <2>1, <2>2 DEF NestInv
<1>10. f.pc = "entry" /\ f.sig = s /\ f.intact = TRUE /\ f.traceIntact = TRUE
  BY DEF f
<1>11. hit'[s] = n /\ \A t \in Signals : t # s => hit'[t] = hit[t]
  BY <1>1, <1>2 DEF IInv, TypeInv
<1>12. RunInv'
  BY <1>2, <1>6, <1>7, <1>10, <1>11 DEF RunInv
<1>13. WaitInv'
  BY <1>4, <1>7 DEF WaitInv
<1>14. HitInv'
  BY <1>1, <1>4, <1>7, <1>11 DEF IInv, HitInv
<1>15. CoreShowsTheFault'
  BY <1>1 DEF CoreShowsTheFault, Alive
<1> QED
  BY <1>8, <1>9, <1>12, <1>13, <1>14, <1>15 DEF IInv

(* The kernel calls the handler of a signal that is not blocked, or ends   *)
(* the process.                                                            *)
LEMMA Delivered ==
    ASSUME IInv, end = Alive, NEW s \in Signals, s \notin Top.mask, Deliver(s),
           pending' \subseteq Top.mask, pending \subseteq pending' \cup {s},
           hit[s] = 0 \/ hit[s] = Len(stack) \/ (s = "ABRT" /\ Top.pc = "trace")
    PROVE  IInv'
<1>1. pending' \subseteq Signals
  BY TopIsFrame DEF IInv, Frames
<1>2. CASE handlers[s] = "default"
  <2>1. Dies("default", s)
    BY <1>2 DEF Deliver
  <2> QED
    BY <1>1, <2>1, Ends
<1>3. CASE handlers[s] = "custom"
  BY <1>3, Called
<1> QED
  BY <1>2, <1>3 DEF Deliver

(* In the context that runs no unblocked signal has been handled.          *)
LEMMA RunsUnhandled ==
    ASSUME IInv, Runs, NEW s \in Signals, s \notin Top.mask
    PROVE  hit[s] = 0
BY DEF IInv, HitInv, Runs

LEMMA Faults ==
    ASSUME IInv, Runs, NEW s \in Signals, Fault(s)
    PROVE  IInv'
<1>1. pending' = pending /\ pending \subseteq Signals /\ end = Alive
  BY DEF Fault, IInv, TypeInv, Runs
<1>2. CASE Dies("forced", s)
  BY <1>1, <1>2, Ends
<1>3. CASE Overflows
  BY <1>1, <1>3, Ends DEF Overflows
<1>4. CASE s \notin Top.mask /\ Deliver(s)
  BY <1>1, <1>4, RunsUnhandled, Delivered DEF Runs
<1> QED
  BY <1>2, <1>3, <1>4 DEF Fault

LEMMA RefuseKeeps ==
    ASSUME IInv, Refuse
    PROVE  IInv'
BY Ends DEF Refuse, IInv, TypeInv

(* main() still runs, so there is no handler yet.                          *)
LEMMA MainIsAlone ==
    ASSUME IInv, Top.pc \in {"main", "fault"}
    PROVE  Len(stack) = 1
<1>1. PICK n \in Nat : n = Len(stack) /\ n > 0
  BY TopIsFrame DEF IInv
<1>2. ASSUME n # 1 PROVE FALSE
  <2>1. n \in 2 .. Len(stack)
    BY <1>1, <1>2
  <2>2. stack[n].pc \in HandlerPcs
    BY <2>1 DEF IInv, NestInv, OnTopOf
  <2> QED
    BY <1>1, <2>2 DEF Top, HandlerPcs
<1> QED
  BY <1>1, <1>2

LEMMA InstallKeeps ==
    ASSUME IInv, Install
    PROVE  IInv'
<1>1. /\ Runs /\ Top.pc = "main"
      /\ UNCHANGED <<mode, unw, bad, pending, last, hit, end>>
      /\ handlers' \in [Signals -> {"default", "custom"}]
      /\ Goto("fault") \/ stack' = stack
  <2>1. ASSUME NEW i \in DOMAIN Order, handlers' = [handlers EXCEPT ![Order[i]] = "custom"]
        PROVE  handlers' \in [Signals -> {"default", "custom"}]
    BY <2>1 DEF IInv, TypeInv
  <2> QED
    BY <2>1 DEF Install, env
<1>2. Top \in Frames /\ Len(stack) = 1
  BY <1>1, TopIsFrame, MainIsAlone DEF IInv
<1>3. /\ stack' \in Seq(Frames) /\ Len(stack') = 1 /\ stack'[1].on = "core"
      /\ Top'.pc \in {"main", "fault"} /\ Top'.sig = Top.sig /\ Top'.mask = Top.mask
      /\ Top'.intact = Top.intact /\ Top'.traceIntact = Top.traceIntact
      /\ stack'[1] = Top'
  <2>1. CASE stack' = stack
    BY <1>1, <1>2, <2>1 DEF Top, IInv, TypeInv, NestInv
  <2>2. CASE Goto("fault")
    <3> DEFINE f == [Top EXCEPT !.pc = "fault"]
    <3>1. stack' = [stack EXCEPT ![1] = f] /\ Top = stack[1]
      BY <1>2, <2>2 DEF Goto, Top
    <3>2. /\ f \in Frames /\ f.pc = "fault" /\ f.sig = Top.sig /\ f.on = Top.on
          /\ f.mask = Top.mask /\ f.intact = Top.intact /\ f.traceIntact = Top.traceIntact
      BY <1>2 DEF Frames
    <3> HIDE DEF f
    <3>3. stack' \in Seq(Frames) /\ Len(stack') = 1 /\ stack'[1] = f
      <4>1. PICK n \in Nat : n = Len(stack)
        BY TopIsFrame DEF IInv
      <4>2. n = 1
        BY <1>2, <4>1, Zenon
      <4>3. stack' = [stack EXCEPT ![n] = f] /\ n \in 1 .. n
        BY <3>1, <4>2
      <4>4. stack' \in Seq(Frames) /\ Len(stack') = n /\ stack'[n] = f
        <5> HIDE <4>2
        <5> QED
          BY <3>2, <4>1, <4>3 DEF IInv, TypeInv
      <4> QED
        BY <4>2, <4>4, Zenon
    <3>4. Top' = stack'[1]
      BY <3>3 DEF Top
    <3> QED
      BY <1>2, <3>1, <3>2, <3>3, <3>4 DEF IInv, NestInv
  <2> QED
    BY <1>1, <2>1, <2>2
<1>4. TypeInv' /\ NestInv'
  <2>1. TypeInv'
    BY <1>1, <1>3 DEF IInv, TypeInv
  <2>2. 2 .. Len(stack') = {}
    BY <1>3
  <2> QED
    BY <1>3, <2>1, <2>2 DEF NestInv
<1>5. pending' \subseteq Top.mask
  BY <1>1 DEF Runs
<1>6. WaitInv' /\ HitInv' /\ CoreShowsTheFault'
  BY <1>1, <1>2, <1>3, <1>4, <1>5, GoesOn
<1>7. RunInv'
  BY <1>1, <1>3 DEF IInv, RunInv, Runs
<1> QED
  BY <1>4, <1>6, <1>7 DEF IInv

LEMMA MainFaultsKeeps ==
    ASSUME IInv, MainFaults
    PROVE  IInv'
BY Faults DEF MainFaults, Signals

LEMMA TraceFaultsKeeps ==
    ASSUME IInv, TraceFaults
    PROVE  IInv'
BY Faults DEF TraceFaults, Walks

LEMMA TraceHangsKeeps ==
    ASSUME IInv, TraceHangs
    PROVE  IInv'
BY Ends DEF TraceHangs, IInv, TypeInv

LEMMA DerailKeeps ==
    ASSUME IInv, Derail
    PROVE  IInv'
BY Ends DEF Derail, IInv, TypeInv

LEMMA ArrivesKeeps ==
    ASSUME IInv, Arrives
    PROVE  IInv'
<1>1. Runs /\ end = Alive /\ pending \subseteq Top.mask /\ Top.mask \subseteq Signals
  BY TopIsFrame DEF Arrives, Runs, IInv, Frames
<1>2. PICK s \in Signals :
        \/ /\ s \in Top.mask
           /\ pending' = pending \cup {s}
           /\ UNCHANGED <<env, handlers, stack, last, hit, end>>
        \/ s \notin Top.mask /\ (Deliver(s) \/ Overflows) /\ UNCHANGED pending
  BY DEF Arrives
<1>3. CASE /\ s \in Top.mask
           /\ pending' = pending \cup {s}
           /\ UNCHANGED <<env, handlers, stack, last, hit, end>>
  <2>1. Top' = Top /\ stack' = stack /\ UNCHANGED <<mode, unw, bad>>
    BY <1>3 DEF Top, env
  <2>2. TypeInv' /\ NestInv'
    BY <1>1, <1>3, <2>1 DEF IInv, TypeInv, NestInv, OnTopOf
  <2>3. WaitInv' /\ HitInv' /\ CoreShowsTheFault'
    BY <1>1, <1>3, <2>1, <2>2, GoesOn
  <2>4. RunInv'
    BY <1>1, <1>3, <2>1 DEF IInv, RunInv, Context
  <2> QED
    BY <2>2, <2>3, <2>4 DEF IInv
<1>4. CASE s \notin Top.mask /\ Deliver(s) /\ UNCHANGED pending
  BY <1>1, <1>4, RunsUnhandled, Delivered
<1>5. CASE Overflows /\ UNCHANGED pending
  BY <1>1, <1>5, Ends DEF Overflows
<1> QED
  BY <1>2, <1>3, <1>4, <1>5

LEMMA DeliverPendingKeeps ==
    ASSUME IInv, DeliverPending
    PROVE  IInv'
<1>1. end = Alive
  BY DEF DeliverPending
<1>2. PICK s \in pending \ Top.mask : pending' = pending \ {s} /\ Deliver(s)
  BY DEF DeliverPending
<1>3. /\ s \in Signals /\ pending' \subseteq Top.mask
      /\ hit[s] = Len(stack) \/ (s = "ABRT" /\ Top.pc = "trace")
  BY <1>1, <1>2 DEF IInv, TypeInv, WaitInv
<1> QED
  BY <1>1, <1>2, <1>3, Delivered

(* abort() leaves its signal pending and not blocked.                      *)
LEMMA TraceAbortsKeeps ==
    ASSUME IInv, TraceAborts
    PROVE  IInv'
<1> DEFINE f == [Top EXCEPT !.mask = Top.mask \ {"ABRT"}]
<1>1. /\ end = Alive /\ pending \subseteq Top.mask /\ Top.pc = "trace"
      /\ pending' = pending \cup {"ABRT"}
      /\ UNCHANGED <<mode, unw, bad, handlers, last, hit, end>>
  BY DEF TraceAborts, Walks, Runs, env
<1>2. Top \in Frames
  BY TopIsFrame DEF IInv
<1>3. /\ f \in Frames /\ f.sig = Top.sig /\ f.on = Top.on /\ f.pc = Top.pc
      /\ f.mask = Top.mask \ {"ABRT"}
  BY <1>2 DEF Frames
<1>4. stack' = [stack EXCEPT ![Len(stack)] = f]
  BY DEF TraceAborts, Top
<1>5. pending' \subseteq Signals
  BY <1>1 DEF IInv, TypeInv, Signals
<1> HIDE DEF f
<1>6. TypeInv' /\ NestInv' /\ Top' = f /\ Len(stack') = Len(stack)
  BY <1>1, <1>3, <1>4, <1>5, TopChanges DEF IInv, TypeInv
<1>7. pending' \ Top'.mask = {"ABRT"} /\ Top'.pc = "trace"
  BY <1>1, <1>3, <1>6
<1>8. RunInv'
  BY <1>7 DEF RunInv, Runs
<1>9. WaitInv'
  <2>1. pending' \ {"ABRT"} \subseteq Top'.mask
    BY <1>7
  <2> QED
    BY <1>7, <2>1 DEF WaitInv
<1>10. HitInv'
  BY <1>1, <1>3, <1>6 DEF IInv, HitInv
<1>11. CoreShowsTheFault'
  BY <1>1 DEF CoreShowsTheFault, Alive
<1> QED
  BY <1>6, <1>8, <1>9, <1>10, <1>11 DEF IInv

-----------------------------------------------------------------------------
(* signal_handler(), step by step.                                         *)

LEMMA HandlerGoesOn ==
    ASSUME IInv, Runs, NEW where \in HandlerPcs, Top.pc \in HandlerPcs, Goto(where),
           UNCHANGED <<mode, bad, hit, end>>, pending \subseteq pending',
           pending' \subseteq Top.mask, handlers' = handlers
    PROVE  /\ TypeInv' /\ NestInv' /\ WaitInv' /\ HitInv' /\ CoreShowsTheFault'
           /\ Top' = [Top EXCEPT !.pc = where] /\ Len(stack') = Len(stack)
           /\ Len(stack') > 1 => hit'[Top'.sig] = Len(stack') - 1
<1>1. Top \in Frames /\ pending' \subseteq Signals
  BY TopIsFrame DEF IInv, Frames
<1>2. /\ TypeInv' /\ NestInv' /\ Top' = [Top EXCEPT !.pc = where]
      /\ Len(stack') = Len(stack)
  BY <1>1, GotoChanges DEF IInv
<1>3. Top'.sig = Top.sig /\ Top'.mask = Top.mask
  BY <1>1, <1>2 DEF Frames
<1>4. WaitInv' /\ HitInv' /\ CoreShowsTheFault'
      /\ (Len(stack') > 1 => hit'[Top'.sig] = Len(stack') - 1)
  BY <1>2, <1>3, GoesOn
<1> QED
  BY <1>2, <1>4

(* What RunInv needs of the context that goes on.                          *)
LEMMA StillRuns ==
    ASSUME IInv, Runs, NEW where \in HandlerPcs, Top' = [Top EXCEPT !.pc = where],
           UNCHANGED <<mode, bad>>, Len(stack') > 1 => hit'[Top'.sig] = Len(stack') - 1,
           where \in {"begun", "trace"} => last' = Context',
           where \in {"defaulted", "raised"} => handlers'[Top.sig] = "default",
           where = "raised" => Top.sig \in pending'
    PROVE  RunInv'
<1>1. Top \in Frames
  BY TopIsFrame DEF IInv
<1>2. /\ Top'.pc = where /\ Top'.sig = Top.sig
      /\ Top'.intact = Top.intact /\ Top'.traceIntact = Top.traceIntact
  BY <1>1 DEF Frames
<1>3. (bad => mode = "altstack") => Top.intact /\ Top.traceIntact
  BY DEF IInv, RunInv
<1> QED
  BY <1>2, <1>3 DEF RunInv

LEMMA EnterKeeps ==
    ASSUME IInv, Enter
    PROVE  IInv'
<1>1. /\ Runs /\ Top.pc = "entry" /\ last' = Context /\ Goto("begun")
      /\ UNCHANGED <<mode, unw, bad, handlers, pending, hit, end>>
      /\ pending \subseteq Top.mask
  BY DEF Enter, In, env, Runs
<1>2. /\ TypeInv' /\ NestInv' /\ WaitInv' /\ HitInv' /\ CoreShowsTheFault'
      /\ Top' = [Top EXCEPT !.pc = "begun"] /\ Len(stack') = Len(stack)
      /\ Len(stack') > 1 => hit'[Top'.sig] = Len(stack') - 1
  BY <1>1, HandlerGoesOn DEF HandlerPcs
<1>3. last' = Context'
  BY <1>1, <1>2 DEF Context
<1>4. RunInv'
  BY <1>1, <1>2, <1>3, StillRuns DEF HandlerPcs
<1> QED
  BY <1>2, <1>4 DEF IInv

LEMMA EndTraceKeeps ==
    ASSUME IInv, EndTrace
    PROVE  IInv'
<1>1. /\ Runs /\ Top.pc = "trace" /\ Goto("traced")
      /\ UNCHANGED <<mode, unw, bad, handlers, pending, hit, end>>
      /\ pending \subseteq Top.mask
  BY DEF EndTrace, env, Runs
<1>2. /\ TypeInv' /\ NestInv' /\ WaitInv' /\ HitInv' /\ CoreShowsTheFault'
      /\ Top' = [Top EXCEPT !.pc = "traced"] /\ Len(stack') = Len(stack)
      /\ Len(stack') > 1 => hit'[Top'.sig] = Len(stack') - 1
  BY <1>1, HandlerGoesOn DEF HandlerPcs
<1>3. RunInv'
  BY <1>1, <1>2, StillRuns DEF HandlerPcs
<1> QED
  BY <1>2, <1>3 DEF IInv

(* The frame of a handler, and the signal it handles.                      *)
LEMMA HandlerFrame ==
    ASSUME IInv, Top.pc \in HandlerPcs
    PROVE  /\ Len(stack) > 1 /\ Top.sig \in Signals
           /\ OnTopOf(Top, stack[Len(stack) - 1], mode)
<1>1. PICK n \in Nat : n = Len(stack) /\ n > 0
  BY TopIsFrame DEF IInv
<1>2. n # 1
  BY <1>1 DEF IInv, NestInv, Top, HandlerPcs
<1>3. n \in 2 .. Len(stack)
  BY <1>1, <1>2
<1>4. OnTopOf(stack[n], stack[n - 1], mode)
  BY <1>3 DEF IInv, NestInv
<1> QED
  BY <1>1, <1>3, <1>4 DEF Top, OnTopOf

(* signal(sig_num, SIG_DFL).                                               *)
LEMMA SetDefaultKeeps ==
    ASSUME IInv, SetDefault
    PROVE  IInv'
<1>1. /\ Runs /\ Top.pc = "traced" /\ Goto("defaulted")
      /\ handlers' = [handlers EXCEPT ![Top.sig] = "default"]
      /\ UNCHANGED <<mode, unw, bad, pending, hit, end>>
      /\ pending \subseteq Top.mask
  BY DEF SetDefault, Defaulted, In, env, Runs
<1>2. Top \in Frames /\ Top.sig \in Signals
  BY <1>1, TopIsFrame, HandlerFrame DEF IInv, HandlerPcs
<1>3. /\ handlers' \in [Signals -> {"default", "custom"}]
      /\ handlers'[Top.sig] = "default"
  BY <1>1, <1>2 DEF IInv, TypeInv
<1> DEFINE f == [Top EXCEPT !.pc = "defaulted"]
<1>4. /\ f \in Frames /\ f.sig = Top.sig /\ f.on = Top.on /\ f.mask = Top.mask
      /\ f.pc = "defaulted"
  BY <1>2 DEF Frames, HandlerPcs
<1>5. stack' = [stack EXCEPT ![Len(stack)] = f]
  BY <1>1 DEF Goto, Top
<1> HIDE DEF f
<1>6. TypeInv' /\ NestInv' /\ Top' = f /\ Len(stack') = Len(stack)
  BY <1>1, <1>3, <1>4, <1>5, TopChanges DEF IInv, TypeInv, HandlerPcs
<1>7. WaitInv' /\ HitInv' /\ CoreShowsTheFault'
      /\ (Len(stack') > 1 => hit'[Top'.sig] = Len(stack') - 1)
  BY <1>1, <1>4, <1>6, GoesOn
<1>8. Top' = [Top EXCEPT !.pc = "defaulted"]
  BY <1>6 DEF f
<1>9. RunInv'
  BY <1>1, <1>3, <1>7, <1>8, StillRuns DEF HandlerPcs
<1> QED
  BY <1>6, <1>7, <1>9 DEF IInv

(* raise(sig_num): the signal is blocked, since it was handled.            *)
LEMMA RaiseKeeps ==
    ASSUME IInv, Raise
    PROVE  IInv'
<1>1. /\ Runs /\ Top.pc = "defaulted" /\ Goto("raised")
      /\ pending' = pending \cup {Top.sig}
      /\ UNCHANGED <<mode, unw, bad, handlers, hit, end>>
      /\ pending \subseteq Top.mask /\ end = Alive
  BY DEF Raise, Raised, In, env, Runs
<1>2. Len(stack) > 1 /\ Top.sig \in Signals
  BY <1>1, HandlerFrame DEF HandlerPcs
<1>3. hit[Top.sig] = Len(stack) - 1 /\ handlers[Top.sig] = "default"
  BY <1>1, <1>2 DEF IInv, RunInv
<1>4. hit[Top.sig] # 0
  <2>1. PICK n \in Nat : n = Len(stack)
    BY TopIsFrame DEF IInv
  <2> QED
    BY <1>2, <1>3, <2>1, SMTT(30)
<1>5. Top.sig \in Top.mask
  BY <1>1, <1>2, <1>4 DEF IInv, HitInv
<1>6. pending' \subseteq Top.mask
  BY <1>1, <1>5
<1>7. /\ TypeInv' /\ NestInv' /\ WaitInv' /\ HitInv' /\ CoreShowsTheFault'
      /\ Top' = [Top EXCEPT !.pc = "raised"] /\ Len(stack') = Len(stack)
      /\ Len(stack') > 1 => hit'[Top'.sig] = Len(stack') - 1
  BY <1>1, <1>6, HandlerGoesOn DEF HandlerPcs
<1>8. RunInv'
  BY <1>1, <1>3, <1>7, StillRuns DEF HandlerPcs
<1> QED
  BY <1>7, <1>8 DEF IInv

(* makecontext() writes over traces below, and what lies on the fiber.     *)
LEMMA FiberTaken ==
    ASSUME IInv, Runs, Top.pc = "begun", NEW hurt \in BOOLEAN,
           stack' = [i \in DOMAIN stack |-> WrittenOver(i, hurt)],
           UNCHANGED <<mode, handlers, hit>>, pending' = pending
    PROVE  /\ TypeInv' /\ NestInv' /\ Len(stack') = Len(stack)
           /\ Top'.sig = Top.sig /\ Top'.mask = Top.mask /\ Top'.pc = "trace"
           /\ Top'.traceIntact = TRUE
           /\ Top.on # "fiber" => Top'.intact = Top.intact
<1>1. PICK n \in Nat : n = Len(stack) /\ n > 0
  BY TopIsFrame DEF IInv
<1>2. DOMAIN stack = 1 .. n /\ \A i \in 1 .. n : stack[i] \in Frames
  BY <1>1 DEF IInv, TypeInv
<1>3. ASSUME NEW i \in 1 .. n
      PROVE  /\ stack'[i] \in Frames
             /\ stack'[i].sig = stack[i].sig /\ stack'[i].on = stack[i].on
             /\ stack'[i].mask = stack[i].mask
             /\ stack'[i].pc = IF i = n THEN "trace" ELSE stack[i].pc
             /\ i = n => stack'[i].traceIntact = TRUE
             /\ stack[i].on # "fiber" => stack'[i].intact = stack[i].intact
  <2> DEFINE whole == stack[i].intact /\ (stack[i].on = "fiber" => ~ hurt)
             trace == i = n \/ stack[i].pc # "trace"
             next == IF i = n THEN "trace" ELSE stack[i].pc
  <2>1. whole \in BOOLEAN /\ trace \in BOOLEAN
    BY Zenon
  <2>2. stack'[i] = [stack[i] EXCEPT !.traceIntact = trace, !.intact = whole,
                                     !.pc = next]
    BY <1>1, <1>2 DEF WrittenOver
  <2>3. stack[i] \in Frames
    BY <1>2
  <2>4. stack[i].on # "fiber" => whole = stack[i].intact
    <3>1. stack[i].intact \in BOOLEAN
      BY <2>3 DEF Frames
    <3> QED
      BY <3>1
  <2>5. i = n => trace = TRUE
    OBVIOUS
  <2>6. next \in {"main", "fault"} \cup HandlerPcs
    BY <2>3 DEF Frames, HandlerPcs
  <2> HIDE DEF whole, trace, next
  <2>7. \E w \in BOOLEAN : w = whole
    BY <2>1, Zenon
  <2>8. \E t \in BOOLEAN : t = trace
    BY <2>1, Zenon
  <2>9. PICK w \in BOOLEAN : w = whole
    BY <2>7
  <2>10. PICK t \in BOOLEAN : t = trace
    BY <2>8
  <2>11. stack'[i] = [stack[i] EXCEPT !.traceIntact = t, !.intact = w, !.pc = next]
    BY <2>2, <2>9, <2>10, Zenon
  <2>12. PICK g \in Frames : g = stack[i]
    BY <2>3
  <2>13. /\ stack'[i] \in Frames
         /\ stack'[i].sig = g.sig /\ stack'[i].on = g.on
         /\ stack'[i].mask = g.mask /\ stack'[i].pc = next
         /\ stack'[i].traceIntact = t /\ stack'[i].intact = w
    <3> DEFINE h == [g EXCEPT !.traceIntact = t]
               k == [h EXCEPT !.intact = w]
    <3>1. /\ h \in Frames /\ h.sig = g.sig /\ h.on = g.on /\ h.mask = g.mask
          /\ h.traceIntact = t
      BY DEF Frames
    <3> HIDE DEF h
    <3>2. /\ k \in Frames /\ k.sig = h.sig /\ k.on = h.on /\ k.mask = h.mask
          /\ k.traceIntact = h.traceIntact /\ k.intact = w
      BY <3>1 DEF Frames
    <3>3. stack'[i] = [k EXCEPT !.pc = next]
      BY <2>11, <2>12 DEF h
    <3> HIDE DEF k
    <3>4. /\ stack'[i] \in Frames /\ stack'[i].pc = next
          /\ stack'[i].sig = k.sig /\ stack'[i].on = k.on /\ stack'[i].mask = k.mask
          /\ stack'[i].traceIntact = k.traceIntact /\ stack'[i].intact = k.intact
      BY <2>6, <3>2, <3>3 DEF Frames
    <3> QED
      BY <3>1, <3>2, <3>4
  <2>14. stack'[i].traceIntact = trace /\ stack'[i].intact = whole
    BY <2>9, <2>10, <2>13, Zenon
  <2> QED
    BY <2>4, <2>5, <2>12, <2>13, <2>14 DEF next
<1>4. stack' \in Seq(Frames) /\ Len(stack') = n
  <2>1. stack' \in [1 .. n -> Frames]
    BY <1>2, <1>3
  <2> QED
    BY <1>1, <2>1
<1>5. Top' = stack'[n] /\ Top = stack[n] /\ n \in 1 .. n
  BY <1>1, <1>4 DEF Top
<1>6. TypeInv'
  BY <1>1, <1>4 DEF IInv, TypeInv
<1>7. n # 1
  BY <1>5 DEF IInv, NestInv
<1>8. NestInv'
  <2>1. stack'[1].pc \in {"main", "fault"} /\ stack'[1].on = "core"
    <3>1. 1 \in 1 .. n /\ 1 # n
      BY <1>1, <1>7
    <3> QED
      BY <1>3, <3>1 DEF IInv, NestInv
  <2>2. ASSUME NEW i \in 2 .. n
        PROVE  OnTopOf(stack'[i], stack'[i - 1], mode')
    <3>1. i \in 1 .. n /\ i - 1 \in 1 .. n
      OBVIOUS
    <3>2. OnTopOf(stack[i], stack[i - 1], mode)
      BY <1>1 DEF IInv, NestInv
    <3>3. /\ stack'[i].sig = stack[i].sig /\ stack'[i].on = stack[i].on
          /\ stack'[i].mask = stack[i].mask
          /\ stack'[i].pc \in {stack[i].pc, "trace"}
          /\ stack'[i - 1].mask = stack[i - 1].mask
      BY <1>3, <3>1
    <3> QED
      BY <3>2, <3>3 DEF OnTopOf, HandlerPcs
  <2> QED
    BY <1>4, <2>1, <2>2 DEF NestInv
<1> QED
  BY <1>1, <1>3, <1>4, <1>5, <1>6, <1>8

LEMMA StartTraceKeeps ==
    ASSUME IInv, StartTrace
    PROVE  IInv'
<1>1. /\ Runs /\ Top.pc = "begun" /\ pending \subseteq Top.mask
      /\ UNCHANGED <<mode, unw, bad, handlers, pending, last, hit, end>>
  BY DEF StartTrace, In, env, Runs
<1>2. last = Context
  BY <1>1 DEF IInv, RunInv
<1>3. CASE bad
  <2>1. PICK hurt \in BOOLEAN : stack' = [i \in DOMAIN stack |-> WrittenOver(i, hurt)]
    BY <1>3 DEF StartTrace
  <2>2. /\ TypeInv' /\ NestInv' /\ Len(stack') = Len(stack)
        /\ Top'.sig = Top.sig /\ Top'.mask = Top.mask /\ Top'.pc = "trace"
        /\ Top'.traceIntact = TRUE
        /\ Top.on # "fiber" => Top'.intact = Top.intact
    BY <1>1, <2>1, FiberTaken
  <2>3. WaitInv' /\ HitInv' /\ CoreShowsTheFault'
        /\ (Len(stack') > 1 => hit'[Top'.sig] = Len(stack') - 1)
    BY <1>1, <2>2, GoesOn
  <2>4. (bad => mode = "altstack") => Top'.intact /\ Top'.traceIntact
    <3> SUFFICES ASSUME mode = "altstack" PROVE Top'.intact /\ Top'.traceIntact
      BY <1>3
    <3>1. Top.on = "alt"
      BY <1>1, HandlerFrame DEF OnTopOf, HandlerPcs
    <3>2. Top.intact
      BY <1>1 DEF IInv, RunInv
    <3> QED
      BY <2>2, <3>1, <3>2
  <2>5. last' = Context'
    BY <1>1, <1>2, <2>2 DEF Context
  <2>6. RunInv'
    BY <1>1, <2>2, <2>3, <2>4, <2>5 DEF RunInv
  <2> QED
    BY <2>2, <2>3, <2>6 DEF IInv
<1>4. CASE ~ bad
  <2>1. Goto("trace")
    BY <1>4 DEF StartTrace
  <2>2. /\ TypeInv' /\ NestInv' /\ WaitInv' /\ HitInv' /\ CoreShowsTheFault'
        /\ Top' = [Top EXCEPT !.pc = "trace"] /\ Len(stack') = Len(stack)
        /\ Len(stack') > 1 => hit'[Top'.sig] = Len(stack') - 1
    BY <1>1, <2>1, HandlerGoesOn DEF HandlerPcs
  <2>3. last' = Context'
    BY <1>1, <1>2, <2>2 DEF Context
  <2>4. RunInv'
    BY <1>1, <2>2, <2>3, StillRuns DEF HandlerPcs
  <2> QED
    BY <2>2, <2>4 DEF IInv
<1> QED
  BY <1>3, <1>4

(* A handler returns: the context below does not run, for the signal is    *)
(* pending, not blocked there, and at its default.                         *)
LEMMA ReturnKeeps ==
    ASSUME IInv, Return
    PROVE  IInv'
<1>1. /\ Runs /\ Top.pc = "raised" /\ pending \subseteq Top.mask /\ end = Alive
      /\ stack' = SubSeq(stack, 1, Len(stack) - 1)
      /\ UNCHANGED <<mode, unw, bad, handlers, pending, last, hit, end>>
  BY DEF Return, In, env, Runs
<1>2. PICK n \in Nat : n = Len(stack) /\ n > 0
  BY TopIsFrame DEF IInv
<1>3. /\ n > 1 /\ Top.sig \in Signals /\ OnTopOf(Top, stack[n - 1], mode)
      /\ Top.sig \in pending /\ hit[Top.sig] = n - 1
  BY <1>1, <1>2, HandlerFrame DEF IInv, RunInv, HandlerPcs
<1>4. PICK m \in Nat : m = n - 1 /\ m > 0
  BY <1>2, <1>3
<1>5. /\ stack' \in Seq(Frames) /\ Len(stack') = m
      /\ \A i \in 1 .. m : stack'[i] = stack[i]
  BY <1>1, <1>2, <1>4 DEF IInv, TypeInv
<1>6. Top' = stack[m]
  BY <1>4, <1>5 DEF Top
<1>7. TypeInv'
  BY <1>1, <1>4, <1>5 DEF IInv, TypeInv
<1>8. NestInv'
  <2>1. ASSUME NEW i \in 2 .. m PROVE OnTopOf(stack'[i], stack'[i - 1], mode')
    <3>1. i \in 1 .. m /\ i - 1 \in 1 .. m /\ i \in 2 .. n
      BY <1>4
    <3>2. OnTopOf(stack[i], stack[i - 1], mode)
      BY <1>2, <3>1 DEF IInv, NestInv
    <3> QED
      BY <1>1, <1>5, <3>1, <3>2
  <2>2. stack'[1] = stack[1]
    BY <1>4, <1>5
  <2> QED
    BY <1>5, <2>1, <2>2 DEF IInv, NestInv
<1>9. Top.sig \notin Top'.mask /\ Top.mask \subseteq Top'.mask \cup {Top.sig}
  BY <1>3, <1>4, <1>6 DEF OnTopOf
<1>10. RunInv'
  BY <1>1, <1>3, <1>9 DEF RunInv, Runs
<1>11. WaitInv'
  <2>1. pending' \ Top'.mask = {Top.sig} /\ pending' \ {Top.sig} \subseteq Top'.mask
    BY <1>1, <1>3, <1>9
  <2>2. hit'[Top.sig] = Len(stack')
    BY <1>1, <1>3, <1>4, <1>5
  <2> QED
    BY <2>1, <2>2 DEF WaitInv
<1>12. HitInv'
  BY <1>1, <1>3, <1>9 DEF IInv, HitInv
<1>13. CoreShowsTheFault'
  BY <1>1 DEF CoreShowsTheFault, Alive
<1> QED
  BY <1>7, <1>8, <1>10, <1>11, <1>12, <1>13 DEF IInv

-----------------------------------------------------------------------------
LEMMA InitHolds == Init => IInv
<1> SUFFICES ASSUME Init PROVE IInv
  OBVIOUS
<1>1. /\ stack = <<Main>> /\ pending = {} /\ end = Alive
      /\ handlers = [s \in Signals |-> "default"] /\ hit = [s \in Signals |-> 0]
  BY DEF Init
<1>2. Main \in Frames
  BY DEF Main, Frames
<1>3. stack \in Seq(Frames) /\ Len(stack) = 1 /\ stack[1] = Main
  BY <1>1, <1>2
<1>4. Top = Main
  BY <1>3 DEF Top
<1>5. TypeInv
  BY <1>1, <1>3 DEF TypeInv
<1>6. NestInv
  <2>1. 2 .. Len(stack) = {}
    BY <1>3
  <2> QED
    BY <1>3, <2>1 DEF NestInv, Main
<1>7. RunInv
  BY <1>3, <1>4 DEF RunInv, Main
<1>8. WaitInv /\ HitInv /\ CoreShowsTheFault
  BY <1>1 DEF WaitInv, HitInv, CoreShowsTheFault, Alive
<1> QED
  BY <1>5, <1>6, <1>7, <1>8 DEF IInv

LEMMA StutterKeeps ==
    ASSUME IInv, Finished \/ UNCHANGED vars
    PROVE  IInv'
<1>1. UNCHANGED vars
  BY DEF Finished
<1> QED
  BY <1>1 DEF vars, env, IInv, TypeInv, NestInv, OnTopOf, RunInv, WaitInv, HitInv,
              CoreShowsTheFault, Runs, Top, Context

LEMMA NextKeeps == IInv /\ [Next]_vars => IInv'
BY RefuseKeeps, InstallKeeps, MainFaultsKeeps, DeliverPendingKeeps, EnterKeeps,
   StartTraceKeeps, EndTraceKeeps, SetDefaultKeeps, RaiseKeeps, ReturnKeeps, DerailKeeps,
   ArrivesKeeps, TraceFaultsKeeps, TraceAbortsKeeps, TraceHangsKeeps, StutterKeeps
   DEF Next, Step, Handle

LEMMA Invariance == Spec => []IInv
BY InitHolds, NextKeeps, PTL DEF Spec

(* With a good context, or the alternate stack, a frame that a later       *)
(* handler wrote over never runs again, however deep the handlers nest.    *)
THEOREM RunsWhole == Spec => []RunsOnItsFrame
<1>1. IInv => RunsOnItsFrame
  BY DEF IInv, RunInv, RunsOnItsFrame, Whole
<1> QED
  BY <1>1, Invariance, PTL

(* The unwinder of a handler is given the context that handler             *)
(* interrupted, not that of a handler nested in it.                        *)
THEOREM TracesOwn == Spec => []TracesItsOwn
<1>1. IInv => TracesItsOwn
  BY DEF IInv, RunInv, TracesItsOwn, Context
<1> QED
  BY <1>1, Invariance, PTL

(* The core dump shows the context a handled signal interrupted, except    *)
(* for the abort() of a trace whose handlers below have reset SIGABRT.     *)
THEOREM CoreShows == Spec => []CoreShowsTheFault
<1>1. IInv => CoreShowsTheFault
  BY DEF IInv
<1> QED
  BY <1>1, Invariance, PTL
=============================================================================
