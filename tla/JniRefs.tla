------------------------------- MODULE JniRefs -------------------------------
(***************************************************************************)
(* The references that the helpers of jni_utils make and delete: local     *)
(* ones, which belong to a thread, and global ones.  Some are held by an   *)
(* AutoJobject, whose destructor deletes them when its scope ends, also by *)
(* an exception; others by a plain jobject.                                *)
(*                                                                         *)
(* A function is a script: the JNI calls it makes in order, each with the  *)
(* references it needs, the one it makes, and what the code does when Java *)
(* throws.  A reference is named by the variable that holds it.  A Java    *)
(* exception is itself a reference; THROW_JNI_EXCEPTION makes its report   *)
(* by two more scripts, in which Java may throw again.                     *)
(***************************************************************************)
EXTENDS Integers, Sequences, FiniteSets

CONSTANTS
    Threads,
    NoThread,
    Entries,        \* entries of the maps and items of the lists
    MaxCalls,       \* calls of all threads (a bound)
    MaxFaults       \* exceptions that Java throws (a bound)

ASSUME RefsAssumption ==
    /\ NoThread \notin Threads
    /\ Entries \in Nat /\ MaxCalls \in Nat /\ MaxFaults \in Nat

VARIABLES
    fn,         \* the function each thread is in, or "none"
    part,       \* its body, or the report of an exception thrown in it
    at,         \* the next step of that script
    locals,     \* live local references of each thread
    results,    \* those among them that the caller has been given
    globals,    \* live global references
    guard,      \* the thread that initialises the MemoryMonitor
    built,      \* the MemoryMonitor is initialised
    threw,      \* an exception has left a function of the thread
    calls, faults

frame == <<fn, part, at>>
vars  == <<frame, locals, results, globals, guard, built, threw, calls, faults>>

-----------------------------------------------------------------------------
(* Mutant: map_to_jmap does not hold what put() returns.                   *)
HelperAutoButTmp == {"jthr", "jstr_key", "jstr_value", "jstr_item", "jmxbean",
                     "jobj_memory_usage"}

(* Variables that are AutoLocalJobject: of the helpers, and of a report.   *)
HelperAuto == {"jthr", "jstr_key", "jstr_value", "tmp", "jstr_item", "jmxbean",
               "jobj_memory_usage"}
ReportAuto == {"jcls_execption", "jstr", "jobj_sw", "jcls_thr", "jobj_pw"}
AutoLocal  == HelperAuto \cup ReportAuto

Classes == {"jcls_hashmap", "jcls_arraylist"}   \* found by init_common_classes()
Members == {"jcls_management_factory", "jcls_memory_mxbean", "jcls_memory_usage",
            "jobj_memory_mxbean"}               \* AutoGlobalJobjects of MemoryMonitor
Strays  == {"jcls_sw", "jcls_pw"}               \* global, in AutoLocalJobjects

(* A step of a script.  "fails" is what an exception leads to: "never" (no *)
(* exception, or none that is looked at), "plain" (CHECK_JNI_EXCEPTION),   *)
(* "report" (THROW_JNI_EXCEPTION), and in a report "held" and "dropped",   *)
(* by whether a variable holds the exception when the report is given up.  *)
Step(needs, makes, fails) == [needs |-> needs, makes |-> makes, fails |-> fails, ends |-> {}]
ScopeEnds(names)          == [needs |-> {}, makes |-> {}, fails |-> "never", ends |-> names]

FindClass(name)        == Step({}, {name}, "plain")
GetMethod(class)       == Step({class}, {}, "plain")
Invoke(needs, makes)   == Step(needs, makes, "report")
NewStringUTF(name)     == Step({}, {name}, "never")
NewGlobalRef(of, name) == Step({of}, {name}, "never")

Times(n, steps) == [k \in 1 .. n * Len(steps) |-> steps[((k - 1) % Len(steps)) + 1]]

GetFromJmap ==
    <<GetMethod("jcls_hashmap"), NewStringUTF("jstr_key"),
      Invoke({"jmap", "jstr_key"}, {"value"}), ScopeEnds({"jstr_key"})>>

MapToJmap ==
    <<GetMethod("jcls_hashmap"), GetMethod("jcls_hashmap"),
      Invoke({"jcls_hashmap"}, {"jmap"})>>
    \o Times(Entries,
        <<NewStringUTF("jstr_key"), NewStringUTF("jstr_value"),
          Invoke({"jmap", "jstr_key", "jstr_value"}, {"tmp"}),
          ScopeEnds({"tmp", "jstr_value", "jstr_key"})>>)

VstrsToJlstrs ==
    <<GetMethod("jcls_arraylist"), GetMethod("jcls_arraylist"),
      Invoke({"jcls_arraylist"}, {"jlist"})>>
    \o Times(Entries,
        <<NewStringUTF("jstr_item"), Invoke({"jlist", "jstr_item"}, {}),
          ScopeEnds({"jstr_item"})>>)

(* Mutant: the member holds the local reference itself.                    *)
ConstructorWithLocal ==
    <<FindClass("jcls_management_factory"), GetMethod("jcls_management_factory"),
      Invoke({"jcls_management_factory"}, {"jmxbean"}), ScopeEnds({"jmxbean"}),
      FindClass("jcls_memory_mxbean"), GetMethod("jcls_memory_mxbean"),
      GetMethod("jcls_memory_mxbean"), FindClass("jcls_memory_usage")>>
    \o Times(4, <<GetMethod("jcls_memory_usage")>>)

Constructor ==
    <<FindClass("jcls_management_factory"), GetMethod("jcls_management_factory"),
      Invoke({"jcls_management_factory"}, {"jmxbean"}),
      NewGlobalRef("jmxbean", "jobj_memory_mxbean"), ScopeEnds({"jmxbean"}),
      FindClass("jcls_memory_mxbean"), GetMethod("jcls_memory_mxbean"),
      GetMethod("jcls_memory_mxbean"), FindClass("jcls_memory_usage")>>
    \o Times(4, <<GetMethod("jcls_memory_usage")>>)

GetMemoryUsage ==
    <<Invoke({"jobj_memory_mxbean"}, {"jobj_memory_usage"})>>
    \o Times(4, <<Invoke({"jobj_memory_usage"}, {})>>)
    \o <<ScopeEnds({"jobj_memory_usage"})>>

ExceptionMessage ==
    <<Step({"jthr"}, {"jcls_execption"}, "never"),
      Step({"jcls_execption"}, {}, "dropped"),
      Step({"jthr"}, {"jstr"}, "held"),
      ScopeEnds(ReportAuto)>>

JstackTrace ==
    <<Step({"jthr"}, {"jcls_execption"}, "never"),
      Step({}, {"jcls_sw"}, "dropped"), Step({"jcls_sw"}, {}, "dropped"),
      Step({"jcls_sw"}, {"jobj_sw"}, "dropped"),
      Step({}, {"jcls_pw"}, "dropped"), Step({"jcls_pw"}, {}, "dropped"),
      Step({"jcls_pw", "jobj_sw"}, {"jobj_pw"}, "dropped"),
      Step({"jthr"}, {"jcls_thr"}, "never"), Step({"jcls_thr"}, {}, "dropped"),
      Step({"jthr", "jobj_pw"}, {}, "dropped"), Step({"jcls_sw"}, {}, "dropped"),
      Step({"jobj_sw"}, {"jstr"}, "dropped"),
      ScopeEnds(ReportAuto)>>

Script(f, p) ==
    CASE p = "message" -> ExceptionMessage
      [] p = "stack"   -> JstackTrace
      [] f = "get_from_jmap"    /\ p = "body" -> GetFromJmap
      [] f = "map_to_jmap"      /\ p = "body" -> MapToJmap
      [] f = "vstrs_to_jlstrs"  /\ p = "body" -> VstrsToJlstrs
      [] f = "MemoryMonitor"    /\ p = "body" -> Constructor
      [] f = "get_memory_usage" /\ p = "body" -> GetMemoryUsage

(* What a function returns to its caller, and what it gets from it.        *)
Result(f) == CASE f = "get_from_jmap"   -> {"value"}
               [] f = "map_to_jmap"     -> {"jmap"}
               [] f = "vstrs_to_jlstrs" -> {"jlist"}
               [] OTHER                 -> {}
Argument(f) == IF f = "get_from_jmap" THEN {"jmap"} ELSE {}

Calls == {"get_from_jmap", "map_to_jmap", "vstrs_to_jlstrs", "instance"}

-----------------------------------------------------------------------------
Running(t) == fn[t] \notin {"none", "instance"}
Here(t)    == Script(fn[t], part[t])[at[t]]
AtEnd(t)   == at[t] > Len(Script(fn[t], part[t]))

Goto(t, f, p) ==
    /\ fn' = [fn EXCEPT ![t] = f]
    /\ part' = [part EXCEPT ![t] = p]
    /\ at' = [at EXCEPT ![t] = 1]

Init ==
    /\ fn = [t \in Threads |-> "none"] /\ part = [t \in Threads |-> "body"]
    /\ at = [t \in Threads |-> 1]
    /\ locals = [t \in Threads |-> {}] /\ results = [t \in Threads |-> {}]
    /\ globals = Classes
    /\ guard = NoThread /\ built = FALSE
    /\ threw = [t \in Threads |-> FALSE]
    /\ calls = 0 /\ faults = 0

(* A caller keeps one result of each function, and lets go of it later.    *)
Call(t, f) ==
    /\ fn[t] = "none" /\ calls < MaxCalls
    /\ Argument(f) \subseteq results[t] /\ Result(f) \cap locals[t] = {}
    /\ calls' = calls + 1
    /\ Goto(t, f, "body")
    /\ UNCHANGED <<locals, results, globals, guard, built, threw, faults>>

LetGo(t, name) ==
    /\ fn[t] = "none" /\ name \in results[t]
    /\ locals' = [locals EXCEPT ![t] = @ \ {name}]
    /\ results' = [results EXCEPT ![t] = @ \ {name}]
    /\ UNCHANGED <<frame, globals, guard, built, threw, calls, faults>>

(* The static variable of instance(): one thread constructs it, others     *)
(* wait; when the constructor throws, the next one tries.                  *)
Enters(t) == ~ built /\ guard = NoThread

Construct(t) ==
    /\ fn[t] = "instance" /\ Enters(t)
    /\ guard' = t
    /\ Goto(t, "MemoryMonitor", "body")
    /\ UNCHANGED <<locals, results, globals, built, threw, calls, faults>>

UseInstance(t) ==
    /\ fn[t] = "instance" /\ built
    /\ Goto(t, "get_memory_usage", "body")
    /\ UNCHANGED <<locals, results, globals, guard, built, threw, calls, faults>>

IsGlobal(name) == name \in Members \cup Strays

Runs(t) ==
    /\ Running(t) /\ ~ AtEnd(t)
    /\ at' = [at EXCEPT ![t] = @ + 1]
    /\ locals' = [locals EXCEPT ![t] =
                    (@ \cup {n \in Here(t).makes : ~ IsGlobal(n)}) \ (Here(t).ends \cap AutoLocal)]
    /\ globals' = globals \cup {n \in Here(t).makes : IsGlobal(n)}
    /\ UNCHANGED <<fn, part, results, guard, built, threw, calls, faults>>

(* Mutant: the destructors of the members do not run.                      *)
MembersStay(t) == /\ globals' = globals
                  /\ guard' = IF fn[t] = "MemoryMonitor" THEN NoThread ELSE guard

(* Mutant: nobody may construct it again.                                  *)
GuardStays(t) ==
    IF fn[t] = "MemoryMonitor"
    THEN globals' = globals \ Members /\ UNCHANGED guard
    ELSE UNCHANGED <<globals, guard>>

(* An exception leaves the constructor: its members are destroyed, the     *)
(* static variable stays uninitialised.                                    *)
MembersGo(t) ==
    IF fn[t] = "MemoryMonitor"
    THEN globals' = globals \ Members /\ guard' = NoThread
    ELSE UNCHANGED <<globals, guard>>

(* A C++ exception leaves the function: whatever an AutoJobject holds is   *)
(* deleted.                                                                *)
Unwind(t) ==
    /\ locals' = [locals EXCEPT ![t] = @ \ AutoLocal]
    /\ MembersGo(t)
    /\ threw' = [threw EXCEPT ![t] = TRUE]
    /\ Goto(t, "none", "body")
    /\ UNCHANGED <<results, built, calls>>

Fault(t) ==
    /\ Running(t) /\ ~ AtEnd(t) /\ faults < MaxFaults
    /\ faults' = faults + 1

ThrowsPlain(t) == Fault(t) /\ Here(t).fails = "plain" /\ Unwind(t)

ThrowsReported(t) ==
    /\ Fault(t) /\ Here(t).fails = "report"
    /\ locals' = [locals EXCEPT ![t] = @ \cup {"jthr"}]
    /\ Goto(t, fn[t], "message")
    /\ UNCHANGED <<results, globals, guard, built, threw, calls>>

(* A report is given up, and returns a message instead.                    *)
ReportFails(t) ==
    /\ Fault(t) /\ Here(t).fails \in {"held", "dropped"}
    /\ locals' = [locals EXCEPT ![t] =
                    (@ \ ReportAuto) \cup (IF Here(t).fails = "held" THEN {} ELSE {"dropped"})]
    /\ at' = [at EXCEPT ![t] = Len(Script(fn[t], part[t])) + 1]
    /\ UNCHANGED <<fn, part, results, globals, guard, built, threw, calls>>

MessageEnds(t) ==
    /\ Running(t) /\ AtEnd(t) /\ part[t] = "message"
    /\ Goto(t, fn[t], "stack")
    /\ UNCHANGED <<locals, results, globals, guard, built, threw, calls, faults>>

ReportEnds(t) ==
    /\ Running(t) /\ AtEnd(t) /\ part[t] = "stack"
    /\ Unwind(t) /\ UNCHANGED faults

Constructed(t) ==
    /\ fn[t] = "MemoryMonitor" /\ AtEnd(t) /\ part[t] = "body"
    /\ built' = TRUE /\ guard' = NoThread
    /\ Goto(t, "get_memory_usage", "body")
    /\ UNCHANGED <<locals, results, globals, threw, calls, faults>>

Returns(t) ==
    /\ Running(t) /\ AtEnd(t) /\ part[t] = "body" /\ fn[t] # "MemoryMonitor"
    /\ results' = [results EXCEPT ![t] = @ \cup Result(fn[t])]
    /\ Goto(t, "none", "body")
    /\ UNCHANGED <<locals, globals, guard, built, threw, calls, faults>>

Proceeds(t) ==
    \/ Construct(t) \/ UseInstance(t)
    \/ Runs(t) \/ ThrowsPlain(t) \/ ThrowsReported(t) \/ ReportFails(t)
    \/ MessageEnds(t) \/ ReportEnds(t) \/ Constructed(t) \/ Returns(t)

Finished == (\A t \in Threads : fn[t] = "none") /\ UNCHANGED vars

Next ==
    \/ \E t \in Threads :
        \/ \E f \in Calls : Call(t, f)
        \/ \E name \in results[t] : LetGo(t, name)
        \/ Proceeds(t)
    \/ Finished

Spec     == Init /\ [][Next]_vars
FairSpec == Spec /\ \A t \in Threads : WF_vars(Proceeds(t))

-----------------------------------------------------------------------------
(* Whatever a JNI call is given is live, in the thread that makes it: no   *)
(* reference is used after an AutoJobject has deleted it, and none of      *)
(* another thread's local ones through the shared MemoryMonitor.           *)
UsesAreLive ==
    \A t \in Threads :
        Running(t) /\ ~ AtEnd(t) => Here(t).needs \subseteq locals[t] \cup globals

(* Between calls a thread holds what it was given, and no more; exceptions *)
(* add nothing but the collection that was being filled, which a plain     *)
(* jobject holds, and exceptions of a report that was given up.            *)
HoldsItsResults ==
    \A t \in Threads : fn[t] = "none" =>
        /\ results[t] \subseteq locals[t]
        /\ ~ threw[t] => locals[t] = results[t]
        /\ threw[t]   => locals[t] \ results[t] \subseteq {"jmap", "jlist", "dropped"}

(* The MemoryMonitor is whole or not there: when its constructor throws,   *)
(* nothing it had found stays, and once it is built nothing is missing.    *)
MonitorIsWhole ==
    /\ built => Members \subseteq globals
    /\ ~ built /\ guard = NoThread => Members \cap globals = {}
    /\ Cardinality({t \in Threads : fn[t] = "MemoryMonitor"}) <= 1

(* A call returns or throws, also when the thread that constructs the      *)
(* MemoryMonitor while others wait for it fails.                           *)
CallsReturn ==
    \A t \in Threads : fn[t] # "none" ~> fn[t] = "none"
=============================================================================
