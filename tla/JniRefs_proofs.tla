--------------------------- MODULE JniRefs_proofs ---------------------------
(***************************************************************************)
(* The proofs about JniRefs: which references a thread holds before each   *)
(* step of each script, and what follows from it, for any number of        *)
(* threads, entries, calls and exceptions.                                 *)
(*                                                                         *)
(* First the invariant, then what each script does step by step (Effect,   *)
(* Reports), then that every action keeps the invariant.                   *)
(***************************************************************************)
EXTENDS JniRefs, TLAPS, SequenceTheorems, FiniteSetTheorems

(* What a script's body holds of its own before its k-th step; the loops   *)
(* of the collections begin at the fourth.                                 *)
HeldInMap(j)  == CASE j = 0 -> {"jmap"}
                   [] j = 1 -> {"jmap", "jstr_key"}
                   [] j = 2 -> {"jmap", "jstr_key", "jstr_value"}
                   [] j = 3 -> {"jmap", "jstr_key", "jstr_value", "tmp"}
HeldInList(j) == IF j = 0 THEN {"jlist"} ELSE {"jlist", "jstr_item"}

HeldInGet(k) ==
    (IF k \in {3, 4} THEN {"jstr_key"} ELSE {}) \cup (IF k >= 4 THEN {"value"} ELSE {})

Held(f, k) ==
    CASE f = "get_from_jmap"    -> HeldInGet(k)
      [] f = "map_to_jmap"      -> IF k <= 3 THEN {} ELSE HeldInMap((k - 4) % 4)
      [] f = "vstrs_to_jlstrs"  -> IF k <= 3 THEN {} ELSE HeldInList((k - 4) % 3)
      [] f = "MemoryMonitor"    -> IF k \in {4, 5} THEN {"jmxbean"} ELSE {}
      [] f = "get_memory_usage" -> IF k \in 2 .. 6 THEN {"jobj_memory_usage"} ELSE {}
      [] OTHER -> {}

(* The members that the constructor has found before its k-th step.        *)
Found(k) ==
    {n \in Members :
        \/ n = "jcls_management_factory" /\ k >= 2
        \/ n = "jobj_memory_mxbean" /\ k >= 5
        \/ n = "jcls_memory_mxbean" /\ k >= 7
        \/ n = "jcls_memory_usage" /\ k >= 10}

(* What a report has made before its k-th step and has not deleted.        *)
Noted(p, k) ==
    IF p = "message" THEN IF k = 2 THEN {"jcls_execption"} ELSE {}
    ELSE {n \in {"jobj_sw", "jobj_pw", "jcls_thr"} :
            /\ k <= 13
            /\ n = "jobj_sw" => k >= 5
            /\ n = "jobj_pw" => k >= 8
            /\ n = "jcls_thr" => k >= 9}

Wrote(p, k) ==
    {n \in Strays : p = "stack" /\ (n = "jcls_sw" => k >= 3) /\ (n = "jcls_pw" => k >= 6)}

Returned == {"value", "jmap", "jlist"}
Kept     == {"jmap", "jlist", "dropped"}    \* plain jobjects that an exception leaves
Bodies   == {"get_from_jmap", "map_to_jmap", "vstrs_to_jlstrs", "MemoryMonitor",
             "get_memory_usage"}

TypeInv ==
    /\ fn \in [Threads -> Bodies \cup {"none", "instance"}]
    /\ part \in [Threads -> {"body", "message", "stack"}]
    /\ at \in [Threads -> Nat \ {0}]
    /\ DOMAIN locals = Threads /\ results \in [Threads -> SUBSET Returned]
    /\ guard \in Threads \cup {NoThread} /\ built \in BOOLEAN
    /\ threw \in [Threads -> BOOLEAN]

(* Where a thread is.                                                      *)
Place(t) ==
    /\ Running(t) => at[t] <= Len(Script(fn[t], part[t])) + 1
    /\ ~ Running(t) => part[t] = "body"
    /\ Argument(fn[t]) \subseteq results[t]

(* In a function a thread holds its results and what the script has made;  *)
(* exceptions have added Kept.                                             *)
InBody(t) ==
    part[t] = "body" =>
        /\ results[t] \cup Held(fn[t], at[t]) \subseteq locals[t]
        /\ locals[t] \subseteq results[t] \cup Held(fn[t], at[t])
                               \cup (IF threw[t] THEN Kept ELSE {})

(* In a report it holds the exception, and what the throw found.           *)
InReport(t) ==
    part[t] # "body" =>
        /\ results[t] \cup {"jthr"} \cup Noted(part[t], at[t]) \subseteq locals[t]
        /\ locals[t] \subseteq results[t] \cup AutoLocal \cup Kept
        /\ at[t] <= 13 => Wrote(part[t], at[t]) \subseteq globals

(* The MemoryMonitor belongs to the thread that constructs it.             *)
Builds(t) ==
    /\ fn[t] = "MemoryMonitor" =>
        /\ guard = t
        /\ part[t] = "body" => Found(at[t]) \subseteq globals
    /\ fn[t] = "get_memory_usage" => built

MonitorInv ==
    /\ Classes \subseteq globals
    /\ built => guard = NoThread /\ Members \subseteq globals
    /\ ~ built /\ guard = NoThread => Members \cap globals = {}

RefsInv ==
    /\ TypeInv /\ MonitorInv
    /\ \A t \in Threads : Place(t) /\ InBody(t) /\ InReport(t) /\ Builds(t)

-----------------------------------------------------------------------------

(* Steps that are repeated.  The number of steps is a literal, of which the*)
(* provers know the remainders.                                            *)
LEMMA FourTimes ==
    ASSUME NEW n \in Nat, NEW S, NEW s \in Seq(S), Len(s) = 4
    PROVE  /\ Times(n, s) \in Seq(S) /\ Len(Times(n, s)) = 4 * n
           /\ \A k \in 1 .. 4 * n : Times(n, s)[k] = s[((k - 1) % 4) + 1]
<1>1. Times(n, s) = [k \in 1 .. 4 * n |-> s[((k - 1) % 4) + 1]]
  BY DEF Times
<1>2. ASSUME NEW k \in 1 .. 4 * n PROVE ((k - 1) % 4) + 1 \in 1 .. Len(s)
  OBVIOUS
<1>3. 4 * n \in Nat
  OBVIOUS
<1>4. Times(n, s) \in [1 .. 4 * n -> S]
  <2>1. ASSUME NEW k \in 1 .. 4 * n PROVE s[((k - 1) % 4) + 1] \in S
    <3>1. PICK i \in 1 .. Len(s) : i = ((k - 1) % 4) + 1
      BY <1>2
    <3> QED
      BY <3>1, ElementOfSeq
  <2> QED
    BY <1>1, <2>1
<1>5. Times(n, s) \in Seq(S)
  BY <1>3, <1>4, SeqDef
<1>6. DOMAIN Times(n, s) = 1 .. Len(Times(n, s)) /\ DOMAIN Times(n, s) = 1 .. 4 * n
  BY <1>1, <1>5, LenProperties
<1> QED
  BY <1>1, <1>3, <1>5, <1>6, LenProperties

LEMMA ThreeTimes ==
    ASSUME NEW n \in Nat, NEW S, NEW s \in Seq(S), Len(s) = 3
    PROVE  /\ Times(n, s) \in Seq(S) /\ Len(Times(n, s)) = 3 * n
           /\ \A k \in 1 .. 3 * n : Times(n, s)[k] = s[((k - 1) % 3) + 1]
<1>1. Times(n, s) = [k \in 1 .. 3 * n |-> s[((k - 1) % 3) + 1]]
  BY DEF Times
<1>2. ASSUME NEW k \in 1 .. 3 * n PROVE ((k - 1) % 3) + 1 \in 1 .. Len(s)
  OBVIOUS
<1>3. 3 * n \in Nat
  OBVIOUS
<1>4. Times(n, s) \in [1 .. 3 * n -> S]
  <2>1. ASSUME NEW k \in 1 .. 3 * n PROVE s[((k - 1) % 3) + 1] \in S
    <3>1. PICK i \in 1 .. Len(s) : i = ((k - 1) % 3) + 1
      BY <1>2
    <3> QED
      BY <3>1, ElementOfSeq
  <2> QED
    BY <1>1, <2>1
<1>5. Times(n, s) \in Seq(S)
  BY <1>3, <1>4, SeqDef
<1>6. DOMAIN Times(n, s) = 1 .. Len(Times(n, s)) /\ DOMAIN Times(n, s) = 1 .. 3 * n
  BY <1>1, <1>5, LenProperties
<1> QED
  BY <1>1, <1>3, <1>5, <1>6, LenProperties

LEMMA OneTimes ==
    ASSUME NEW n \in Nat, NEW S, NEW s \in Seq(S), Len(s) = 1
    PROVE  /\ Times(n, s) \in Seq(S) /\ Len(Times(n, s)) = n
           /\ \A k \in 1 .. n : Times(n, s)[k] = s[1]
<1>1. \A k \in 1 .. n : ((k - 1) % 1) + 1 = 1
  OBVIOUS
<1>2. Times(n, s) = [k \in 1 .. n |-> s[1]]
  BY <1>1 DEF Times
<1>3. s[1] \in S
  BY ElementOfSeq
<1>4. Times(n, s) \in [1 .. n -> S]
  BY <1>2, <1>3
<1>5. Times(n, s) \in Seq(S)
  BY <1>4, SeqDef
<1>6. DOMAIN Times(n, s) = 1 .. Len(Times(n, s)) /\ DOMAIN Times(n, s) = 1 .. n
  BY <1>2, <1>5, LenProperties
<1> QED
  BY <1>2, <1>5, <1>6, LenProperties

(* One element, before a sequence and after it.                            *)
LEMMA Before ==
    ASSUME NEW S, NEW x \in S, NEW u \in Seq(S), NEW m \in Nat, m = Len(u)
    PROVE  /\ <<x>> \o u \in Seq(S) /\ Len(<<x>> \o u) = m + 1 /\ (<<x>> \o u)[1] = x
           /\ \A k \in 2 .. m + 1 : (<<x>> \o u)[k] = u[k - 1]
<1>1. PICK s \in Seq(S) : s = <<x>> /\ Len(s) = 1 /\ s[1] = x
  <2>1. <<x>> \in Seq(S) /\ Len(<<x>>) = 1 /\ <<x>>[1] = x
    OBVIOUS
  <2> QED
    BY <2>1, Zenon
<1>2. PICK v \in Seq(S) : v = s \o u
  BY ConcatProperties
<1>3. Len(v) = 1 + m /\ \A k \in 1 .. 1 + m : v[k] = IF k <= 1 THEN s[k] ELSE u[k - 1]
  BY <1>1, <1>2, ConcatProperties
<1> QED
  BY <1>1, <1>2, <1>3

LEMMA After ==
    ASSUME NEW S, NEW x \in S, NEW u \in Seq(S), NEW m \in Nat, m = Len(u)
    PROVE  /\ Len(u \o <<x>>) = m + 1 /\ (u \o <<x>>)[m + 1] = x
           /\ \A k \in 1 .. m : (u \o <<x>>)[k] = u[k]
<1>1. PICK s \in Seq(S) : s = <<x>> /\ Len(s) = 1 /\ s[1] = x
  <2>1. <<x>> \in Seq(S) /\ Len(<<x>>) = 1 /\ <<x>>[1] = x
    OBVIOUS
  <2> QED
    BY <2>1, Zenon
<1>2. PICK v \in Seq(S) : v = u \o s
  BY ConcatProperties
<1>3. Len(v) = m + 1 /\ \A k \in 1 .. m + 1 : v[k] = IF k <= m THEN u[k] ELSE s[k - m]
  BY <1>1, <1>2, ConcatProperties
<1> QED
  BY <1>1, <1>2, <1>3

(* The fields of a step.                                                   *)
Is(s, needs, makes, fails, ends) ==
    s.needs = needs /\ s.makes = makes /\ s.fails = fails /\ s.ends = ends

(* What the k-th step of the body of f, s, does: it is given references    *)
(* that are there, it takes what is held to what the next step holds, it   *)
(* makes no global reference but the monitor's, and when Java throws there *)
(* nothing is held that would stay but Kept.                               *)
Uses(f, k, s) ==
    s.needs \subseteq Held(f, k) \cup Argument(f) \cup Classes
                      \cup (IF f = "MemoryMonitor" THEN Found(k) ELSE {})
                      \cup (IF f = "get_memory_usage" THEN Members ELSE {})

Moves(f, k, s) ==
    Held(f, k + 1) = (Held(f, k) \cup {n \in s.makes : ~ IsGlobal(n)}) \ (s.ends \cap AutoLocal)

Finds(f, k, s) ==
    /\ f = "MemoryMonitor" => Found(k + 1) \subseteq Found(k) \cup s.makes
    /\ {n \in s.makes : IsGlobal(n)} \subseteq (IF f = "MemoryMonitor" THEN Members ELSE {})

Fails(f, k, s) ==
    /\ s.fails \in {"never", "plain", "report"}
    /\ s.fails # "never" => Held(f, k) \subseteq AutoLocal \cup Kept

Effect(f, k, s) == Uses(f, k, s) /\ Moves(f, k, s) /\ Finds(f, k, s) /\ Fails(f, k, s)

LEMMA AutoNames ==
    /\ HelperAuto \subseteq AutoLocal /\ ReportAuto \subseteq AutoLocal
    /\ {"jthr", "jstr_key", "jstr_value", "tmp", "jstr_item", "jmxbean",
        "jobj_memory_usage"} \subseteq AutoLocal
    /\ (Returned \cup Kept) \cap AutoLocal = {}
<1>1. (Returned \cup Kept) \cap HelperAuto = {}
  BY DEF HelperAuto, Returned, Kept
<1>2. (Returned \cup Kept) \cap ReportAuto = {}
  BY DEF ReportAuto, Returned, Kept
<1>3. HelperAuto \subseteq AutoLocal /\ ReportAuto \subseteq AutoLocal
  BY DEF AutoLocal
<1>4. {"jthr", "jstr_key", "jstr_value", "tmp", "jstr_item", "jmxbean",
       "jobj_memory_usage"} \subseteq HelperAuto
  BY DEF HelperAuto
<1>5. (Returned \cup Kept) \cap AutoLocal = {}
  BY <1>1, <1>2 DEF AutoLocal
<1> QED
  BY <1>3, <1>4, <1>5

(* The steps of the scripts.                                               *)
LEMMA GetScript ==
    /\ Len(GetFromJmap) = 4
    /\ Is(GetFromJmap[1], {"jcls_hashmap"}, {}, "plain", {})
    /\ Is(GetFromJmap[2], {}, {"jstr_key"}, "never", {})
    /\ Is(GetFromJmap[3], {"jmap", "jstr_key"}, {"value"}, "report", {})
    /\ Is(GetFromJmap[4], {}, {}, "never", {"jstr_key"})
BY DEF GetFromJmap, Is, GetMethod, NewStringUTF, Invoke, ScopeEnds, Step

LEMMA UsageScript ==
    /\ Len(GetMemoryUsage) = 6
    /\ Is(GetMemoryUsage[1], {"jobj_memory_mxbean"}, {"jobj_memory_usage"}, "report", {})
    /\ \A k \in 2 .. 5 : Is(GetMemoryUsage[k], {"jobj_memory_usage"}, {}, "report", {})
    /\ Is(GetMemoryUsage[6], {}, {}, "never", {"jobj_memory_usage"})
<1>1. PICK x, y, z : /\ x = Invoke({"jobj_memory_mxbean"}, {"jobj_memory_usage"})
                     /\ y = Invoke({"jobj_memory_usage"}, {})
                     /\ z = ScopeEnds({"jobj_memory_usage"})
  OBVIOUS
<1>2. /\ Is(x, {"jobj_memory_mxbean"}, {"jobj_memory_usage"}, "report", {})
      /\ Is(y, {"jobj_memory_usage"}, {}, "report", {})
      /\ Is(z, {}, {}, "never", {"jobj_memory_usage"})
  BY <1>1 DEF Is, Invoke, ScopeEnds, Step
<1>3. PICK S : S = {x, y, z}
  OBVIOUS
<1>4. <<x>> \in Seq(S) /\ <<y>> \in Seq(S) /\ <<z>> \in Seq(S) /\ Len(<<y>>) = 1 /\ <<y>>[1] = y
  BY <1>3
<1>5. /\ Times(4, <<y>>) \in Seq(S) /\ Len(Times(4, <<y>>)) = 4
      /\ \A k \in 1 .. 4 : Times(4, <<y>>)[k] = y
  <2>1. PICK s \in Seq(S) : s = <<y>>
    BY <1>4
  <2>2. Len(s) = 1 /\ s[1] = y /\ 4 \in Nat
    BY <1>4, <2>1
  <2>3. /\ Times(4, s) \in Seq(S) /\ Len(Times(4, s)) = 4
        /\ \A k \in 1 .. 4 : Times(4, s)[k] = s[1]
    BY <2>2, OneTimes
  <2> QED
    BY <2>1, <2>2, <2>3
<1>6. PICK u \in Seq(S) : u = Times(4, <<y>>) /\ Len(u) = 4 /\ \A k \in 1 .. 4 : u[k] = y
  BY <1>5, Zenon
<1>7. GetMemoryUsage = (<<x>> \o u) \o <<z>>
  BY <1>1, <1>6 DEF GetMemoryUsage
<1>8. PICK v \in Seq(S) : /\ v = <<x>> \o u /\ Len(v) = 5 /\ v[1] = x
                          /\ \A k \in 2 .. 5 : v[k] = u[k - 1]
  <2>1. PICK m \in Nat : m = Len(u) /\ m = 4
    BY <1>6
  <2>2. m = Len(u) /\ x \in S
    BY <1>3, <2>1
  <2>3. /\ <<x>> \o u \in Seq(S) /\ Len(<<x>> \o u) = m + 1 /\ (<<x>> \o u)[1] = x
        /\ \A k \in 2 .. m + 1 : (<<x>> \o u)[k] = u[k - 1]
    BY <2>2, Before
  <2>4. m + 1 = 5
    BY <2>1
  <2> QED
    BY <2>3, <2>4
<1>9. ASSUME NEW k \in 2 .. 5 PROVE v[k] = y
  <2>1. k - 1 \in 1 .. 4
    OBVIOUS
  <2> QED
    BY <1>6, <1>8, <2>1
<1>10. /\ Len(GetMemoryUsage) = 6 /\ GetMemoryUsage[6] = z
       /\ \A k \in 1 .. 5 : GetMemoryUsage[k] = v[k]
  <2>1. PICK m \in Nat : m = Len(v) /\ m = 5
    BY <1>8
  <2>2. m = Len(v) /\ z \in S
    BY <1>3, <2>1
  <2>3. /\ Len(v \o <<z>>) = m + 1 /\ (v \o <<z>>)[m + 1] = z
        /\ \A k \in 1 .. m : (v \o <<z>>)[k] = v[k]
    BY <2>2, After
  <2>4. m + 1 = 6 /\ m = 5
    BY <2>1
  <2> QED
    BY <1>7, <1>8, <2>3, <2>4
<1> QED
  BY <1>2, <1>8, <1>9, <1>10

LEMMA MapScript ==
    /\ Len(MapToJmap) = 3 + 4 * Entries
    /\ \A k \in 1 .. 2 : Is(MapToJmap[k], {"jcls_hashmap"}, {}, "plain", {})
    /\ Is(MapToJmap[3], {"jcls_hashmap"}, {"jmap"}, "report", {})
    /\ \A k \in 4 .. 3 + 4 * Entries :
        /\ (k - 4) % 4 = 0 => Is(MapToJmap[k], {}, {"jstr_key"}, "never", {})
        /\ (k - 4) % 4 = 1 => Is(MapToJmap[k], {}, {"jstr_value"}, "never", {})
        /\ (k - 4) % 4 = 2 =>
             Is(MapToJmap[k], {"jmap", "jstr_key", "jstr_value"}, {"tmp"}, "report", {})
        /\ (k - 4) % 4 = 3 =>
             Is(MapToJmap[k], {}, {}, "never", {"tmp", "jstr_value", "jstr_key"})
<1>1. PICK a, b, p, q, r, e :
        /\ a = GetMethod("jcls_hashmap") /\ b = Invoke({"jcls_hashmap"}, {"jmap"})
        /\ p = NewStringUTF("jstr_key") /\ q = NewStringUTF("jstr_value")
        /\ r = Invoke({"jmap", "jstr_key", "jstr_value"}, {"tmp"})
        /\ e = ScopeEnds({"tmp", "jstr_value", "jstr_key"})
  OBVIOUS
<1>2. /\ Is(a, {"jcls_hashmap"}, {}, "plain", {})
      /\ Is(b, {"jcls_hashmap"}, {"jmap"}, "report", {})
      /\ Is(p, {}, {"jstr_key"}, "never", {}) /\ Is(q, {}, {"jstr_value"}, "never", {})
      /\ Is(r, {"jmap", "jstr_key", "jstr_value"}, {"tmp"}, "report", {})
      /\ Is(e, {}, {}, "never", {"tmp", "jstr_value", "jstr_key"})
  BY <1>1 DEF Is, GetMethod, NewStringUTF, Invoke, ScopeEnds, Step
<1>3. PICK S : S = {a, b, p, q, r, e}
  OBVIOUS
<1>4. <<a, a, b>> \in Seq(S) /\ <<p, q, r, e>> \in Seq(S)
  BY <1>3
<1>5. PICK h \in Seq(S) : h = <<a, a, b>>
  BY <1>4
<1>6. Len(h) = 3 /\ h[1] = a /\ h[2] = a /\ h[3] = b
  BY <1>5
<1>7. PICK s \in Seq(S) : s = <<p, q, r, e>>
  BY <1>4
<1>8. Len(s) = 4 /\ s[1] = p /\ s[2] = q /\ s[3] = r /\ s[4] = e /\ Entries \in Nat
  BY <1>7, RefsAssumption
<1>9. /\ Times(Entries, s) \in Seq(S) /\ Len(Times(Entries, s)) = 4 * Entries
      /\ \A k \in 1 .. 4 * Entries : Times(Entries, s)[k] = s[((k - 1) % 4) + 1]
  BY <1>8, FourTimes
<1>10. PICK u \in Seq(S) : /\ u = Times(Entries, s) /\ Len(u) = 4 * Entries
                           /\ \A k \in 1 .. 4 * Entries : u[k] = s[((k - 1) % 4) + 1]
  BY <1>9, Zenon
<1>11. MapToJmap = h \o u
  BY <1>1, <1>5, <1>7, <1>10 DEF MapToJmap
<1>12. /\ Len(MapToJmap) = 3 + 4 * Entries
       /\ MapToJmap[1] = a /\ MapToJmap[2] = a /\ MapToJmap[3] = b
       /\ \A k \in 4 .. 3 + 4 * Entries : MapToJmap[k] = u[k - 3]
  <2>1. PICK m \in Nat : m = Len(u) /\ m = 4 * Entries
    BY <1>8, <1>10
  <2>2. PICK n \in Nat : n = Len(h) /\ n = 3
    BY <1>6
  <2>3. PICK w \in Seq(S) : w = MapToJmap /\ w = h \o u
    BY <1>11, ConcatProperties
  <2>4. /\ Len(w) = n + m /\ \A k \in 1 .. n : w[k] = h[k]
        /\ \A k \in n + 1 .. n + m : w[k] = u[k - n]
    <3>1. n = Len(h) /\ m = Len(u) /\ w = h \o u
      BY <2>1, <2>2, <2>3
    <3> QED
      BY <3>1
  <2>5. n + 1 = 4 /\ n + m = 3 + 4 * Entries
    BY <2>1, <2>2
  <2>6. /\ Len(w) = 3 + 4 * Entries /\ w[1] = h[1] /\ w[2] = h[2] /\ w[3] = h[3]
        /\ \A k \in 4 .. 3 + 4 * Entries : w[k] = u[k - 3]
    BY <2>2, <2>4, <2>5
  <2> QED
    BY <1>6, <2>3, <2>6
<1>13. ASSUME NEW k \in 4 .. 3 + 4 * Entries
       PROVE  MapToJmap[k] = s[((k - 4) % 4) + 1]
  <2>1. k - 3 \in 1 .. 4 * Entries /\ (k - 3) - 1 = k - 4
    BY <1>8
  <2> QED
    BY <1>10, <1>12, <2>1
<1> QED
  BY <1>2, <1>8, <1>12, <1>13, SMTT(30)

LEMMA ListScript ==
    /\ Len(VstrsToJlstrs) = 3 + 3 * Entries
    /\ \A k \in 1 .. 2 : Is(VstrsToJlstrs[k], {"jcls_arraylist"}, {}, "plain", {})
    /\ Is(VstrsToJlstrs[3], {"jcls_arraylist"}, {"jlist"}, "report", {})
    /\ \A k \in 4 .. 3 + 3 * Entries :
        /\ (k - 4) % 3 = 0 => Is(VstrsToJlstrs[k], {}, {"jstr_item"}, "never", {})
        /\ (k - 4) % 3 = 1 => Is(VstrsToJlstrs[k], {"jlist", "jstr_item"}, {}, "report", {})
        /\ (k - 4) % 3 = 2 => Is(VstrsToJlstrs[k], {}, {}, "never", {"jstr_item"})
<1>1. PICK a, b, p, q, e :
        /\ a = GetMethod("jcls_arraylist") /\ b = Invoke({"jcls_arraylist"}, {"jlist"})
        /\ p = NewStringUTF("jstr_item") /\ q = Invoke({"jlist", "jstr_item"}, {})
        /\ e = ScopeEnds({"jstr_item"})
  OBVIOUS
<1>2. /\ Is(a, {"jcls_arraylist"}, {}, "plain", {})
      /\ Is(b, {"jcls_arraylist"}, {"jlist"}, "report", {})
      /\ Is(p, {}, {"jstr_item"}, "never", {})
      /\ Is(q, {"jlist", "jstr_item"}, {}, "report", {})
      /\ Is(e, {}, {}, "never", {"jstr_item"})
  BY <1>1 DEF Is, GetMethod, NewStringUTF, Invoke, ScopeEnds, Step
<1>3. PICK S : S = {a, b, p, q, e}
  OBVIOUS
<1>4. <<a, a, b>> \in Seq(S) /\ <<p, q, e>> \in Seq(S)
  BY <1>3
<1>5. PICK h \in Seq(S) : h = <<a, a, b>>
  BY <1>4
<1>6. Len(h) = 3 /\ h[1] = a /\ h[2] = a /\ h[3] = b
  BY <1>5
<1>7. PICK s \in Seq(S) : s = <<p, q, e>>
  BY <1>4
<1>8. Len(s) = 3 /\ s[1] = p /\ s[2] = q /\ s[3] = e /\ Entries \in Nat
  BY <1>7, RefsAssumption
<1>9. /\ Times(Entries, s) \in Seq(S) /\ Len(Times(Entries, s)) = 3 * Entries
      /\ \A k \in 1 .. 3 * Entries : Times(Entries, s)[k] = s[((k - 1) % 3) + 1]
  BY <1>8, ThreeTimes
<1>10. PICK u \in Seq(S) : /\ u = Times(Entries, s) /\ Len(u) = 3 * Entries
                           /\ \A k \in 1 .. 3 * Entries : u[k] = s[((k - 1) % 3) + 1]
  BY <1>9, Zenon
<1>11. VstrsToJlstrs = h \o u
  BY <1>1, <1>5, <1>7, <1>10 DEF VstrsToJlstrs
<1>12. /\ Len(VstrsToJlstrs) = 3 + 3 * Entries
       /\ VstrsToJlstrs[1] = a /\ VstrsToJlstrs[2] = a /\ VstrsToJlstrs[3] = b
       /\ \A k \in 4 .. 3 + 3 * Entries : VstrsToJlstrs[k] = u[k - 3]
  <2>1. PICK m \in Nat : m = Len(u) /\ m = 3 * Entries
    BY <1>8, <1>10
  <2>2. PICK n \in Nat : n = Len(h) /\ n = 3
    BY <1>6
  <2>3. PICK w \in Seq(S) : w = VstrsToJlstrs /\ w = h \o u
    BY <1>11, ConcatProperties
  <2>4. /\ Len(w) = n + m /\ \A k \in 1 .. n : w[k] = h[k]
        /\ \A k \in n + 1 .. n + m : w[k] = u[k - n]
    <3>1. n = Len(h) /\ m = Len(u) /\ w = h \o u
      BY <2>1, <2>2, <2>3
    <3> QED
      BY <3>1
  <2>5. n + 1 = 4 /\ n + m = 3 + 3 * Entries
    BY <2>1, <2>2
  <2>6. /\ Len(w) = 3 + 3 * Entries /\ w[1] = h[1] /\ w[2] = h[2] /\ w[3] = h[3]
        /\ \A k \in 4 .. 3 + 3 * Entries : w[k] = u[k - 3]
    BY <2>2, <2>4, <2>5
  <2> QED
    BY <1>6, <2>3, <2>6
<1>13. ASSUME NEW k \in 4 .. 3 + 3 * Entries
       PROVE  VstrsToJlstrs[k] = s[((k - 4) % 3) + 1]
  <2>1. k - 3 \in 1 .. 3 * Entries /\ (k - 3) - 1 = k - 4
    BY <1>8
  <2> QED
    BY <1>10, <1>12, <2>1
<1> QED
  BY <1>2, <1>8, <1>12, <1>13

LEMMA ConstructorScript ==
    /\ Len(Constructor) = 13
    /\ Is(Constructor[1], {}, {"jcls_management_factory"}, "plain", {})
    /\ Is(Constructor[2], {"jcls_management_factory"}, {}, "plain", {})
    /\ Is(Constructor[3], {"jcls_management_factory"}, {"jmxbean"}, "report", {})
    /\ Is(Constructor[4], {"jmxbean"}, {"jobj_memory_mxbean"}, "never", {})
    /\ Is(Constructor[5], {}, {}, "never", {"jmxbean"})
    /\ Is(Constructor[6], {}, {"jcls_memory_mxbean"}, "plain", {})
    /\ \A k \in 7 .. 8 : Is(Constructor[k], {"jcls_memory_mxbean"}, {}, "plain", {})
    /\ Is(Constructor[9], {}, {"jcls_memory_usage"}, "plain", {})
    /\ \A k \in 10 .. 13 : Is(Constructor[k], {"jcls_memory_usage"}, {}, "plain", {})
<1>1. PICK a, b, c, d, e, f, g, h, i :
        /\ a = FindClass("jcls_management_factory") /\ b = GetMethod("jcls_management_factory")
        /\ c = Invoke({"jcls_management_factory"}, {"jmxbean"})
        /\ d = NewGlobalRef("jmxbean", "jobj_memory_mxbean") /\ e = ScopeEnds({"jmxbean"})
        /\ f = FindClass("jcls_memory_mxbean") /\ g = GetMethod("jcls_memory_mxbean")
        /\ h = FindClass("jcls_memory_usage") /\ i = GetMethod("jcls_memory_usage")
  OBVIOUS
<1>2. /\ Is(a, {}, {"jcls_management_factory"}, "plain", {})
      /\ Is(b, {"jcls_management_factory"}, {}, "plain", {})
      /\ Is(c, {"jcls_management_factory"}, {"jmxbean"}, "report", {})
      /\ Is(d, {"jmxbean"}, {"jobj_memory_mxbean"}, "never", {})
      /\ Is(e, {}, {}, "never", {"jmxbean"})
      /\ Is(f, {}, {"jcls_memory_mxbean"}, "plain", {})
      /\ Is(g, {"jcls_memory_mxbean"}, {}, "plain", {})
      /\ Is(h, {}, {"jcls_memory_usage"}, "plain", {})
      /\ Is(i, {"jcls_memory_usage"}, {}, "plain", {})
  BY <1>1 DEF Is, FindClass, GetMethod, NewGlobalRef, Invoke, ScopeEnds, Step
<1>3. PICK S : S = {a, b, c, d, e, f, g, h, i}
  OBVIOUS
<1>4. <<a, b, c, d, e, f, g, g, h>> \in Seq(S) /\ <<i>> \in Seq(S)
  BY <1>3
<1>5. PICK s \in Seq(S) : s = <<a, b, c, d, e, f, g, g, h>>
  BY <1>4
<1>6. /\ Len(s) = 9 /\ s[1] = a /\ s[2] = b /\ s[3] = c /\ s[4] = d /\ s[5] = e
      /\ s[6] = f /\ s[7] = g /\ s[8] = g /\ s[9] = h
  BY <1>5
<1>7. PICK r \in Seq(S) : r = <<i>>
  BY <1>4
<1>8. Len(r) = 1 /\ r[1] = i /\ 4 \in Nat
  BY <1>7
<1>9. /\ Times(4, r) \in Seq(S) /\ Len(Times(4, r)) = 4
      /\ \A k \in 1 .. 4 : Times(4, r)[k] = r[1]
  BY <1>8, OneTimes
<1>10. PICK u \in Seq(S) : u = Times(4, r) /\ Len(u) = 4 /\ \A k \in 1 .. 4 : u[k] = r[1]
  BY <1>9, Zenon
<1>11. Constructor = s \o u
  BY <1>1, <1>5, <1>7, <1>10 DEF Constructor
<1>12. /\ Len(Constructor) = 13 /\ \A k \in 1 .. 9 : Constructor[k] = s[k]
       /\ \A k \in 10 .. 13 : Constructor[k] = u[k - 9]
  <2>1. PICK n \in Nat : n = Len(s) /\ n = 9
    BY <1>6
  <2>2. PICK m \in Nat : m = Len(u) /\ m = 4
    BY <1>10
  <2>3. PICK x \in Seq(S) : x = Constructor /\ x = s \o u
    BY <1>11, ConcatProperties
  <2>4. /\ Len(x) = n + m /\ \A k \in 1 .. n : x[k] = s[k]
        /\ \A k \in n + 1 .. n + m : x[k] = u[k - n]
    <3>1. n = Len(s) /\ m = Len(u) /\ x = s \o u
      BY <2>1, <2>2, <2>3
    <3> QED
      BY <3>1
  <2>5. n + m = 13 /\ n + 1 = 10
    BY <2>1, <2>2
  <2>6. Len(x) = 13 /\ (\A k \in 1 .. 9 : x[k] = s[k]) /\ \A k \in 10 .. 13 : x[k] = u[k - 9]
    BY <2>1, <2>4, <2>5
  <2> QED
    BY <2>3, <2>6
<1>13. \A k \in 10 .. 13 : k - 9 \in 1 .. 4 /\ Constructor[k] = i
  BY <1>8, <1>10, <1>12, SMTT(30)
<1> QED
  BY <1>2, <1>6, <1>12, <1>13

LEMMA MessageScript ==
    /\ Len(ExceptionMessage) = 4
    /\ Is(ExceptionMessage[1], {"jthr"}, {"jcls_execption"}, "never", {})
    /\ Is(ExceptionMessage[2], {"jcls_execption"}, {}, "dropped", {})
    /\ Is(ExceptionMessage[3], {"jthr"}, {"jstr"}, "held", {})
    /\ Is(ExceptionMessage[4], {}, {}, "never", ReportAuto)
BY DEF ExceptionMessage, Is, ScopeEnds, Step

LEMMA StackScript ==
    /\ Len(JstackTrace) = 13
    /\ Is(JstackTrace[1], {"jthr"}, {"jcls_execption"}, "never", {})
    /\ Is(JstackTrace[2], {}, {"jcls_sw"}, "dropped", {})
    /\ Is(JstackTrace[3], {"jcls_sw"}, {}, "dropped", {})
    /\ Is(JstackTrace[4], {"jcls_sw"}, {"jobj_sw"}, "dropped", {})
    /\ Is(JstackTrace[5], {}, {"jcls_pw"}, "dropped", {})
    /\ Is(JstackTrace[6], {"jcls_pw"}, {}, "dropped", {})
    /\ Is(JstackTrace[7], {"jcls_pw", "jobj_sw"}, {"jobj_pw"}, "dropped", {})
    /\ Is(JstackTrace[8], {"jthr"}, {"jcls_thr"}, "never", {})
    /\ Is(JstackTrace[9], {"jcls_thr"}, {}, "dropped", {})
    /\ Is(JstackTrace[10], {"jthr", "jobj_pw"}, {}, "dropped", {})
    /\ Is(JstackTrace[11], {"jcls_sw"}, {}, "dropped", {})
    /\ Is(JstackTrace[12], {"jobj_sw"}, {"jstr"}, "dropped", {})
    /\ Is(JstackTrace[13], {}, {}, "never", ReportAuto)
BY DEF JstackTrace, Is, ScopeEnds, Step

(* Effect holds of every step, one script after the other.                 *)
LEMMA Gets == \A k \in 1 .. 4 : Effect("get_from_jmap", k, GetFromJmap[k])
<1>1. /\ Held("get_from_jmap", 1) = {} /\ Held("get_from_jmap", 2) = {}
      /\ Held("get_from_jmap", 3) = {"jstr_key"}
      /\ Held("get_from_jmap", 4) = {"jstr_key", "value"}
      /\ Held("get_from_jmap", 5) = {"value"}
  BY DEF Held, HeldInGet
<1>2. ASSUME NEW k \in 1 .. 4 PROVE Uses("get_from_jmap", k, GetFromJmap[k])
  BY <1>1, GetScript DEF Is, Uses, Argument, Classes
<1>3. ASSUME NEW k \in 1 .. 4 PROVE Moves("get_from_jmap", k, GetFromJmap[k])
  <2>1. CASE k = 1
    BY <2>1, <1>1, GetScript DEF Is, Moves
  <2>2. CASE k = 2
    BY <2>2, <1>1, GetScript DEF Is, Moves, IsGlobal, Members, Strays
  <2>3. CASE k = 3
    BY <2>3, <1>1, GetScript DEF Is, Moves, IsGlobal, Members, Strays
  <2>4. CASE k = 4
    BY <2>4, <1>1, GetScript, AutoNames DEF Is, Moves, Returned
  <2> QED
    BY <2>1, <2>2, <2>3, <2>4
<1>4. ASSUME NEW k \in 1 .. 4 PROVE Finds("get_from_jmap", k, GetFromJmap[k])
  BY GetScript DEF Is, Finds, IsGlobal, Members, Strays
<1>5. ASSUME NEW k \in 1 .. 4 PROVE Fails("get_from_jmap", k, GetFromJmap[k])
  <2>1. k \in {1, 3} \/ GetFromJmap[k].fails = "never"
    BY GetScript DEF Is
  <2> QED
    BY <1>1, <2>1, GetScript, AutoNames DEF Is, Fails
<1> QED
  BY <1>2, <1>3, <1>4, <1>5 DEF Effect

LEMMA Usages == \A k \in 1 .. 6 : Effect("get_memory_usage", k, GetMemoryUsage[k])
<1>1. /\ Held("get_memory_usage", 1) = {} /\ Held("get_memory_usage", 7) = {}
      /\ \A k \in 2 .. 6 : Held("get_memory_usage", k) = {"jobj_memory_usage"}
  BY DEF Held
<1>2. ASSUME NEW k \in 1 .. 6 PROVE Uses("get_memory_usage", k, GetMemoryUsage[k])
  BY <1>1, UsageScript DEF Is, Uses, Members
<1>3. ASSUME NEW k \in 1 .. 6 PROVE Moves("get_memory_usage", k, GetMemoryUsage[k])
  <2>1. CASE k = 1
    BY <2>1, <1>1, UsageScript DEF Is, Moves, IsGlobal, Members, Strays
  <2>2. CASE k \in 2 .. 5
    <3>1. Held("get_memory_usage", k) = Held("get_memory_usage", k + 1)
      BY <1>1, <2>2
    <3> QED
      BY <3>1, <2>2, UsageScript DEF Is, Moves
  <2>3. CASE k = 6
    BY <2>3, <1>1, UsageScript, AutoNames DEF Is, Moves
  <2> QED
    BY <2>1, <2>2, <2>3
<1>4. ASSUME NEW k \in 1 .. 6 PROVE Finds("get_memory_usage", k, GetMemoryUsage[k])
  BY UsageScript DEF Is, Finds, IsGlobal, Members, Strays
<1>5. ASSUME NEW k \in 1 .. 6 PROVE Fails("get_memory_usage", k, GetMemoryUsage[k])
  BY <1>1, UsageScript, AutoNames DEF Is, Fails
<1> QED
  BY <1>2, <1>3, <1>4, <1>5 DEF Effect

LEMMA Maps == \A k \in 1 .. 3 + 4 * Entries : Effect("map_to_jmap", k, MapToJmap[k])
<1>1. SUFFICES ASSUME NEW k \in 1 .. 3 + 4 * Entries
               PROVE  Effect("map_to_jmap", k, MapToJmap[k])
  OBVIOUS
<1>2. \A i \in Nat : Held("map_to_jmap", i) = IF i <= 3 THEN {} ELSE HeldInMap((i - 4) % 4)
  BY DEF Held
<1>3. /\ HeldInMap(0) = {"jmap"} /\ HeldInMap(1) = {"jmap", "jstr_key"}
      /\ HeldInMap(2) = {"jmap", "jstr_key", "jstr_value"}
      /\ HeldInMap(3) = {"jmap", "jstr_key", "jstr_value", "tmp"}
  BY DEF HeldInMap
<1>4. k \in Nat /\ k + 1 \in Nat /\ 4 * Entries \in Nat
  BY RefsAssumption
<1>5. CASE k \in 1 .. 2
  <2>1. Held("map_to_jmap", k) = {} /\ Held("map_to_jmap", k + 1) = {}
    BY <1>2, <1>4, <1>5
  <2>2. Is(MapToJmap[k], {"jcls_hashmap"}, {}, "plain", {})
    BY <1>5, MapScript
  <2>3. Uses("map_to_jmap", k, MapToJmap[k])
    BY <2>1, <2>2 DEF Is, Uses, Classes
  <2> QED
    BY <2>1, <2>2, <2>3 DEF Is, Effect, Moves, Finds, Fails
<1>6. CASE k = 3
  <2>1. Held("map_to_jmap", 3) = {} /\ Held("map_to_jmap", 4) = {"jmap"}
    BY <1>2, <1>3
  <2>2. Is(MapToJmap[k], {"jcls_hashmap"}, {"jmap"}, "report", {})
    BY <1>6, MapScript
  <2>3. Uses("map_to_jmap", k, MapToJmap[k])
    BY <2>1, <2>2, <1>6 DEF Is, Uses, Classes
  <2>4. Moves("map_to_jmap", k, MapToJmap[k]) /\ Finds("map_to_jmap", k, MapToJmap[k])
    BY <2>1, <2>2, <1>6 DEF Is, Moves, Finds, IsGlobal, Members, Strays
  <2> QED
    BY <2>1, <2>2, <2>3, <2>4, <1>6 DEF Is, Effect, Fails
<1>7. CASE k \in 4 .. 3 + 4 * Entries
  <2>1. /\ Held("map_to_jmap", k) = HeldInMap((k - 4) % 4)
        /\ Held("map_to_jmap", k + 1) = HeldInMap(((k + 1) - 4) % 4)
    BY <1>2, <1>4, <1>7
  <2>2. (k - 4) % 4 \in 0 .. 3
    BY <1>7
  <2>3. CASE (k - 4) % 4 = 0
    <3>1. Held("map_to_jmap", k) = {"jmap"} /\ Held("map_to_jmap", k + 1) = {"jmap", "jstr_key"}
      <4>1. ((k + 1) - 4) % 4 = 1
        BY <1>7, <2>3
      <4> QED
        BY <4>1, <1>3, <2>1, <2>3
    <3>2. Is(MapToJmap[k], {}, {"jstr_key"}, "never", {})
      BY <1>7, <2>3, MapScript
    <3> QED
      BY <3>1, <3>2 DEF Is, Effect, Uses, Moves, Finds, Fails, IsGlobal, Members, Strays
  <2>4. CASE (k - 4) % 4 = 1
    <3>1. /\ Held("map_to_jmap", k) = {"jmap", "jstr_key"}
          /\ Held("map_to_jmap", k + 1) = {"jmap", "jstr_key", "jstr_value"}
      <4>1. ((k + 1) - 4) % 4 = 2
        BY <1>7, <2>4
      <4> QED
        BY <4>1, <1>3, <2>1, <2>4
    <3>2. Is(MapToJmap[k], {}, {"jstr_value"}, "never", {})
      BY <1>7, <2>4, MapScript
    <3> QED
      BY <3>1, <3>2 DEF Is, Effect, Uses, Moves, Finds, Fails, IsGlobal, Members, Strays
  <2>5. CASE (k - 4) % 4 = 2
    <3>1. /\ Held("map_to_jmap", k) = {"jmap", "jstr_key", "jstr_value"}
          /\ Held("map_to_jmap", k + 1) = {"jmap", "jstr_key", "jstr_value", "tmp"}
      <4>1. ((k + 1) - 4) % 4 = 3
        BY <1>7, <2>5
      <4> QED
        BY <4>1, <1>3, <2>1, <2>5
    <3>2. Is(MapToJmap[k], {"jmap", "jstr_key", "jstr_value"}, {"tmp"}, "report", {})
      BY <1>7, <2>5, MapScript
    <3>3. Uses("map_to_jmap", k, MapToJmap[k]) /\ Fails("map_to_jmap", k, MapToJmap[k])
      BY <3>1, <3>2, AutoNames DEF Is, Uses, Fails, Kept
    <3> QED
      BY <3>1, <3>2, <3>3 DEF Is, Effect, Moves, Finds, IsGlobal, Members, Strays
  <2>6. CASE (k - 4) % 4 = 3
    <3>1. /\ Held("map_to_jmap", k) = {"jmap", "jstr_key", "jstr_value", "tmp"}
          /\ Held("map_to_jmap", k + 1) = {"jmap"}
      <4>1. ((k + 1) - 4) % 4 = 0
        BY <1>7, <2>6
      <4> QED
        BY <4>1, <1>3, <2>1, <2>6
    <3>2. Is(MapToJmap[k], {}, {}, "never", {"tmp", "jstr_value", "jstr_key"})
      BY <1>7, <2>6, MapScript
    <3>3. Moves("map_to_jmap", k, MapToJmap[k])
      BY <3>1, <3>2, AutoNames DEF Is, Moves, Kept
    <3> QED
      BY <3>1, <3>2, <3>3 DEF Is, Effect, Uses, Finds, Fails
  <2> QED
    BY <2>2, <2>3, <2>4, <2>5, <2>6
<1> QED
  BY <1>4, <1>5, <1>6, <1>7

LEMMA Lists == \A k \in 1 .. 3 + 3 * Entries : Effect("vstrs_to_jlstrs", k, VstrsToJlstrs[k])
<1>1. SUFFICES ASSUME NEW k \in 1 .. 3 + 3 * Entries
               PROVE  Effect("vstrs_to_jlstrs", k, VstrsToJlstrs[k])
  OBVIOUS
<1>2. \A i \in Nat : Held("vstrs_to_jlstrs", i) = IF i <= 3 THEN {} ELSE HeldInList((i - 4) % 3)
  BY DEF Held
<1>3. /\ HeldInList(0) = {"jlist"} /\ HeldInList(1) = {"jlist", "jstr_item"}
      /\ HeldInList(2) = {"jlist", "jstr_item"}
  BY DEF HeldInList
<1>4. k \in Nat /\ k + 1 \in Nat /\ 3 * Entries \in Nat
  BY RefsAssumption
<1>5. CASE k \in 1 .. 2
  <2>1. Held("vstrs_to_jlstrs", k) = {} /\ Held("vstrs_to_jlstrs", k + 1) = {}
    BY <1>2, <1>4, <1>5
  <2>2. Is(VstrsToJlstrs[k], {"jcls_arraylist"}, {}, "plain", {})
    BY <1>5, ListScript
  <2>3. Uses("vstrs_to_jlstrs", k, VstrsToJlstrs[k])
    BY <2>1, <2>2 DEF Is, Uses, Classes
  <2> QED
    BY <2>1, <2>2, <2>3 DEF Is, Effect, Moves, Finds, Fails
<1>6. CASE k = 3
  <2>1. Held("vstrs_to_jlstrs", 3) = {} /\ Held("vstrs_to_jlstrs", 4) = {"jlist"}
    BY <1>2, <1>3
  <2>2. Is(VstrsToJlstrs[k], {"jcls_arraylist"}, {"jlist"}, "report", {})
    BY <1>6, ListScript
  <2>3. Uses("vstrs_to_jlstrs", k, VstrsToJlstrs[k])
    BY <2>1, <2>2, <1>6 DEF Is, Uses, Classes
  <2>4. /\ Moves("vstrs_to_jlstrs", k, VstrsToJlstrs[k])
        /\ Finds("vstrs_to_jlstrs", k, VstrsToJlstrs[k])
    BY <2>1, <2>2, <1>6 DEF Is, Moves, Finds, IsGlobal, Members, Strays
  <2> QED
    BY <2>1, <2>2, <2>3, <2>4, <1>6 DEF Is, Effect, Fails
<1>7. CASE k \in 4 .. 3 + 3 * Entries
  <2>1. /\ Held("vstrs_to_jlstrs", k) = HeldInList((k - 4) % 3)
        /\ Held("vstrs_to_jlstrs", k + 1) = HeldInList(((k + 1) - 4) % 3)
    BY <1>2, <1>4, <1>7
  <2>2. (k - 4) % 3 \in 0 .. 2
    BY <1>7
  <2>3. CASE (k - 4) % 3 = 0
    <3>1. /\ Held("vstrs_to_jlstrs", k) = {"jlist"}
          /\ Held("vstrs_to_jlstrs", k + 1) = {"jlist", "jstr_item"}
      <4>1. ((k + 1) - 4) % 3 = 1
        BY <1>7, <2>3
      <4> QED
        BY <4>1, <1>3, <2>1, <2>3
    <3>2. Is(VstrsToJlstrs[k], {}, {"jstr_item"}, "never", {})
      BY <1>7, <2>3, ListScript
    <3> QED
      BY <3>1, <3>2 DEF Is, Effect, Uses, Moves, Finds, Fails, IsGlobal, Members, Strays
  <2>4. CASE (k - 4) % 3 = 1
    <3>1. /\ Held("vstrs_to_jlstrs", k) = {"jlist", "jstr_item"}
          /\ Held("vstrs_to_jlstrs", k + 1) = {"jlist", "jstr_item"}
      <4>1. ((k + 1) - 4) % 3 = 2
        BY <1>7, <2>4
      <4> QED
        BY <4>1, <1>3, <2>1, <2>4
    <3>2. Is(VstrsToJlstrs[k], {"jlist", "jstr_item"}, {}, "report", {})
      BY <1>7, <2>4, ListScript
    <3>3. /\ Uses("vstrs_to_jlstrs", k, VstrsToJlstrs[k])
          /\ Fails("vstrs_to_jlstrs", k, VstrsToJlstrs[k])
      BY <3>1, <3>2, AutoNames DEF Is, Uses, Fails, Kept
    <3> QED
      BY <3>1, <3>2, <3>3 DEF Is, Effect, Moves, Finds
  <2>5. CASE (k - 4) % 3 = 2
    <3>1. /\ Held("vstrs_to_jlstrs", k) = {"jlist", "jstr_item"}
          /\ Held("vstrs_to_jlstrs", k + 1) = {"jlist"}
      <4>1. ((k + 1) - 4) % 3 = 0
        BY <1>7, <2>5
      <4> QED
        BY <4>1, <1>3, <2>1, <2>5
    <3>2. Is(VstrsToJlstrs[k], {}, {}, "never", {"jstr_item"})
      BY <1>7, <2>5, ListScript
    <3>3. Moves("vstrs_to_jlstrs", k, VstrsToJlstrs[k])
      BY <3>1, <3>2, AutoNames DEF Is, Moves, Kept
    <3> QED
      BY <3>1, <3>2, <3>3 DEF Is, Effect, Uses, Finds, Fails
  <2> QED
    BY <2>2, <2>3, <2>4, <2>5
<1> QED
  BY <1>4, <1>5, <1>6, <1>7

LEMMA Constructs == \A k \in 1 .. 13 : Effect("MemoryMonitor", k, Constructor[k])
<1>1. SUFFICES ASSUME NEW k \in 1 .. 13 PROVE Effect("MemoryMonitor", k, Constructor[k])
  OBVIOUS
<1>2. \A i \in 1 .. 14 : Held("MemoryMonitor", i) = IF i \in {4, 5} THEN {"jmxbean"} ELSE {}
  BY DEF Held
<1>3. Uses("MemoryMonitor", k, Constructor[k])
  <2>1. Constructor[k].needs \subseteq Held("MemoryMonitor", k) \cup Found(k)
    BY <1>2, ConstructorScript DEF Is, Found, Members
  <2> QED
    BY <2>1 DEF Uses
<1>4. Moves("MemoryMonitor", k, Constructor[k])
  <2>1. {n \in Constructor[k].makes : ~ IsGlobal(n)} = IF k = 3 THEN {"jmxbean"} ELSE {}
    BY ConstructorScript DEF Is, IsGlobal, Members, Strays
  <2>2. Constructor[k].ends \cap AutoLocal = IF k = 5 THEN {"jmxbean"} ELSE {}
    BY ConstructorScript, AutoNames DEF Is
  <2> QED
    BY <1>2, <2>1, <2>2 DEF Moves
<1>5. Finds("MemoryMonitor", k, Constructor[k])
  <2>1. Found(k + 1) \subseteq Found(k) \cup Constructor[k].makes
    BY ConstructorScript DEF Is, Found
  <2>2. {n \in Constructor[k].makes : IsGlobal(n)} \subseteq Members
    BY ConstructorScript DEF Is, IsGlobal, Members, Strays
  <2> QED
    BY <2>1, <2>2 DEF Finds
<1>6. Fails("MemoryMonitor", k, Constructor[k])
  <2>1. Held("MemoryMonitor", k) \subseteq AutoLocal
    BY <1>2, AutoNames
  <2>2. Constructor[k].fails \in {"never", "plain", "report"}
    BY ConstructorScript DEF Is
  <2> QED
    BY <2>1, <2>2 DEF Fails
<1> QED
  BY <1>3, <1>4, <1>5, <1>6 DEF Effect

-----------------------------------------------------------------------------
(* Every step of every script.                                             *)
LEMMA ScriptIs ==
    /\ Script("get_from_jmap", "body") = GetFromJmap
    /\ Script("map_to_jmap", "body") = MapToJmap
    /\ Script("vstrs_to_jlstrs", "body") = VstrsToJlstrs
    /\ Script("MemoryMonitor", "body") = Constructor
    /\ Script("get_memory_usage", "body") = GetMemoryUsage
    /\ \A f \in Bodies : Script(f, "message") = ExceptionMessage /\ Script(f, "stack") = JstackTrace
BY DEF Script, Bodies

LEMMA BodyLength ==
    ASSUME NEW f \in Bodies
    PROVE  /\ Len(Script(f, "body")) \in Nat
           /\ Held(f, 1) = {} /\ Held(f, Len(Script(f, "body")) + 1) = Result(f)
           /\ Result(f) \subseteq Returned
<1>1. CASE f = "get_from_jmap"
  <2>1. Held(f, 1) = {} /\ Held(f, 5) = {"value"}
    BY <1>1 DEF Held, HeldInGet
  <2>2. PICK m \in Nat : m = Len(Script(f, "body")) /\ m = 4
    BY <1>1, ScriptIs, GetScript
  <2>3. m + 1 = 5
    <3>1. m = 4
      BY <2>2, Zenon
    <3> QED
      BY <3>1
  <2>4. Result(f) = {"value"} /\ {"value"} \subseteq Returned
    BY <1>1 DEF Result, Returned
  <2>5. Held(f, m + 1) = Result(f)
    BY <2>1, <2>3, <2>4
  <2> QED
    BY <2>1, <2>2, <2>4, <2>5
<1>2. CASE f = "map_to_jmap"
  <2>1. /\ 3 + 4 * Entries \in Nat /\ ((3 + 4 * Entries) + 1) - 4 = 4 * Entries
        /\ (4 * Entries) % 4 = 0
    BY RefsAssumption
  <2>2. Held(f, 1) = {} /\ Held(f, (3 + 4 * Entries) + 1) = HeldInMap(0)
    BY <1>2, <2>1 DEF Held
  <2>3. HeldInMap(0) = {"jmap"} /\ Result(f) = {"jmap"}
    BY <1>2 DEF HeldInMap, Result
  <2> QED
    BY <1>2, <2>1, <2>2, <2>3, ScriptIs, MapScript DEF Returned
<1>3. CASE f = "vstrs_to_jlstrs"
  <2>1. /\ 3 + 3 * Entries \in Nat /\ ((3 + 3 * Entries) + 1) - 4 = 3 * Entries
        /\ (3 * Entries) % 3 = 0
    BY RefsAssumption
  <2>2. Held(f, 1) = {} /\ Held(f, (3 + 3 * Entries) + 1) = HeldInList(0)
    <3>1. PICK n \in Nat : n = (3 + 3 * Entries) + 1 /\ n > 3
      <4>1. (3 + 3 * Entries) + 1 \in Nat /\ (3 + 3 * Entries) + 1 > 3
        BY <2>1, RefsAssumption
      <4> QED
        BY <4>1
    <3>2. (n - 4) % 3 = 0
      BY <2>1, <3>1
    <3>3. Held(f, n) = HeldInList((n - 4) % 3) /\ Held(f, 1) = {}
      BY <1>3, <3>1 DEF Held
    <3> QED
      BY <3>1, <3>2, <3>3
  <2>3. HeldInList(0) = {"jlist"} /\ Result(f) = {"jlist"}
    BY <1>3 DEF HeldInList, Result
  <2> QED
    BY <1>3, <2>1, <2>2, <2>3, ScriptIs, ListScript DEF Returned
<1>4. CASE f = "MemoryMonitor"
  <2>1. Held(f, 1) = {} /\ Held(f, 14) = {} /\ Result(f) = {}
    BY <1>4 DEF Held, Result
  <2>2. PICK m \in Nat : m = Len(Script(f, "body")) /\ m = 13
    BY <1>4, ScriptIs, ConstructorScript
  <2>3. m + 1 = 14
    <3>1. m = 13
      BY <2>2, Zenon
    <3> QED
      BY <3>1
  <2>4. Held(f, m + 1) = Result(f)
    BY <2>1, <2>3
  <2> QED
    BY <2>1, <2>2, <2>4
<1>5. CASE f = "get_memory_usage"
  <2>1. Held(f, 1) = {} /\ Held(f, 7) = {} /\ Result(f) = {}
    BY <1>5 DEF Held, Result
  <2>2. PICK m \in Nat : m = Len(Script(f, "body")) /\ m = 6
    BY <1>5, ScriptIs, UsageScript
  <2>3. m + 1 = 7
    <3>1. m = 6
      BY <2>2, Zenon
    <3> QED
      BY <3>1
  <2>4. Held(f, m + 1) = Result(f)
    BY <2>1, <2>3
  <2> QED
    BY <2>1, <2>2, <2>4
<1> QED
  BY <1>1, <1>2, <1>3, <1>4, <1>5 DEF Bodies

LEMMA ConstructorEnds ==
    Found(1) = {} /\ Found(Len(Script("MemoryMonitor", "body")) + 1) = Members
<1>1. Found(1) = {} /\ Found(14) = Members
  BY DEF Found, Members
<1>2. PICK m \in Nat : m = Len(Script("MemoryMonitor", "body")) /\ m = 13
  BY ScriptIs, ConstructorScript
<1>3. m + 1 = 14
  <2>1. m = 13
    BY <1>2, Zenon
  <2> QED
    BY <2>1
<1>4. Found(m + 1) = Members
  BY <1>1, <1>3
<1> QED
  BY <1>1, <1>2, <1>4

LEMMA BodyStep ==
    ASSUME NEW f \in Bodies, NEW k \in Nat \ {0}, k <= Len(Script(f, "body"))
    PROVE  Effect(f, k, Script(f, "body")[k])
<1>1. CASE f = "get_from_jmap"
  BY <1>1, ScriptIs, GetScript, Gets
<1>2. CASE f = "map_to_jmap"
  <2>1. k \in 1 .. 3 + 4 * Entries
    BY <1>2, ScriptIs, MapScript, RefsAssumption
  <2> QED
    BY <1>2, <2>1, ScriptIs, Maps
<1>3. CASE f = "vstrs_to_jlstrs"
  <2>1. k \in 1 .. 3 + 3 * Entries
    BY <1>3, ScriptIs, ListScript, RefsAssumption
  <2> QED
    BY <1>3, <2>1, ScriptIs, Lists
<1>4. CASE f = "MemoryMonitor"
  BY <1>4, ScriptIs, ConstructorScript, Constructs
<1>5. CASE f = "get_memory_usage"
  BY <1>5, ScriptIs, UsageScript, Usages
<1> QED
  BY <1>1, <1>2, <1>3, <1>4, <1>5 DEF Bodies

LEMMA ReportLength ==
    ASSUME NEW f \in Bodies, NEW p \in {"message", "stack"}
    PROVE  /\ Len(Script(f, p)) \in Nat
           /\ Noted(p, 1) = {} /\ Noted(p, Len(Script(f, p)) + 1) = {} /\ Wrote(p, 1) = {}
           /\ Len(Script(f, p)) + 1 <= 13 => Wrote(p, Len(Script(f, p)) + 1) = {}
<1>1. CASE p = "message"
  BY <1>1, ScriptIs, MessageScript DEF Noted, Wrote
<1>2. CASE p = "stack"
  <2>1. Len(Script(f, p)) = 13 /\ 13 + 1 = 14
    BY <1>2, ScriptIs, StackScript
  <2>2. Noted(p, 1) = {} /\ Noted(p, 14) = {}
    BY <1>2 DEF Noted
  <2>3. Wrote(p, 1) = {}
    BY <1>2 DEF Wrote, Strays
  <2> QED
    BY <2>1, <2>2, <2>3
<1> QED
  BY <1>1, <1>2

(* What the k-th step of the report p, s, does.                            *)
Reports(p, k, s) ==
    /\ s.needs \subseteq {"jthr"} \cup Noted(p, k) \cup Wrote(p, k)
    /\ s.makes \subseteq ReportAuto \cup Strays
    /\ Noted(p, k + 1) \subseteq (Noted(p, k) \cup s.makes) \ s.ends
    /\ Noted(p, k + 1) \subseteq ReportAuto
    /\ k < 13 => Wrote(p, k + 1) \subseteq Wrote(p, k) \cup s.makes
    /\ Wrote(p, k) \subseteq Strays
    /\ s.ends \subseteq ReportAuto
    /\ s.fails \in {"never", "held", "dropped"}

LEMMA ReportStep ==
    ASSUME NEW f \in Bodies, NEW p \in {"message", "stack"},
           NEW k \in Nat \ {0}, k <= Len(Script(f, p))
    PROVE  k <= 13 /\ Reports(p, k, Script(f, p)[k])
<1>1. CASE p = "message"
  <2>1. k \in 1 .. 4 /\ Script(f, p)[k] = ExceptionMessage[k]
    BY <1>1, ScriptIs, MessageScript
  <2>2. Noted(p, k) = (IF k = 2 THEN {"jcls_execption"} ELSE {}) /\ Wrote(p, k) = {}
    BY <1>1 DEF Noted, Wrote
  <2>3. Noted(p, k + 1) = (IF k = 1 THEN {"jcls_execption"} ELSE {}) /\ Wrote(p, k + 1) = {}
    BY <1>1 DEF Noted, Wrote
  <2> QED
    BY <2>1, <2>2, <2>3, MessageScript DEF Is, Reports, ReportAuto
<1>2. CASE p = "stack"
  <2>1. k \in 1 .. 13 /\ Script(f, p)[k] = JstackTrace[k]
    BY <1>2, ScriptIs, StackScript, SMTT(30)
  <2>2. /\ JstackTrace[k].needs \subseteq {"jthr"} \cup Noted(p, k) \cup Wrote(p, k)
    BY <1>2, <2>1, StackScript DEF Is, Noted, Wrote, Strays
  <2>3. /\ JstackTrace[k].makes \subseteq ReportAuto \cup Strays
        /\ JstackTrace[k].ends \subseteq ReportAuto
    BY <2>1, StackScript DEF Is, ReportAuto, Strays
  <2>4. Noted(p, k + 1) \subseteq (Noted(p, k) \cup JstackTrace[k].makes) \ JstackTrace[k].ends
    BY <1>2, <2>1, StackScript DEF Is, Noted
  <2>5. k < 13 => Wrote(p, k + 1) \subseteq Wrote(p, k) \cup JstackTrace[k].makes
    BY <1>2, <2>1, StackScript DEF Is, Wrote
  <2>6. JstackTrace[k].fails \in {"never", "held", "dropped"}
    BY <2>1, StackScript DEF Is
  <2>7. Wrote(p, k) \subseteq Strays /\ Noted(p, k + 1) \subseteq ReportAuto
    BY <1>2 DEF Wrote, Noted, ReportAuto
  <2> QED
    BY <2>1, <2>2, <2>3, <2>4, <2>5, <2>6, <2>7 DEF Reports
<1> QED
  BY <1>1, <1>2

-----------------------------------------------------------------------------
(* The invariant.  A step is of one thread; the others keep their place.   *)
Alone(t) ==
    \A u \in Threads \ {t} :
        /\ fn'[u] = fn[u] /\ part'[u] = part[u] /\ at'[u] = at[u]
        /\ locals'[u] = locals[u] /\ results'[u] = results[u] /\ threw'[u] = threw[u]

LEMMA OthersKeep ==
    ASSUME NEW t \in Threads, NEW u \in Threads, u # t, Alone(t),
           Place(u), InBody(u), InReport(u), Strays \cap globals \subseteq globals'
    PROVE  Place(u)' /\ InBody(u)' /\ InReport(u)'
<1>1. /\ fn'[u] = fn[u] /\ part'[u] = part[u] /\ at'[u] = at[u]
      /\ locals'[u] = locals[u] /\ results'[u] = results[u] /\ threw'[u] = threw[u]
  BY DEF Alone
<1>2. Place(u)'
  BY <1>1 DEF Place, Running
<1>3. InBody(u)'
  BY <1>1 DEF InBody
<1>4. Wrote(part[u], at[u]) \subseteq Strays
  BY DEF Wrote
<1>5. InReport(u)'
  BY <1>1, <1>4 DEF InReport
<1> QED
  BY <1>2, <1>3, <1>5

LEMMA GoneTo ==
    ASSUME TypeInv, NEW t \in Threads, NEW f, NEW p, Goto(t, f, p)
    PROVE  /\ fn'[t] = f /\ part'[t] = p /\ at'[t] = 1
           /\ \A u \in Threads \ {t} : fn'[u] = fn[u] /\ part'[u] = part[u] /\ at'[u] = at[u]
           /\ fn' = [fn EXCEPT ![t] = f] /\ part' = [part EXCEPT ![t] = p]
           /\ at' = [at EXCEPT ![t] = 1]
BY DEF Goto, TypeInv

(* Names that no two kinds of variable share.                              *)
LEMMA Kinds ==
    /\ Members \cap Strays = {} /\ Members \cap Classes = {} /\ ReportAuto \cap Members = {}
    /\ Kept \cap AutoLocal = {} /\ Returned \cap AutoLocal = {}
    /\ ReportAuto \subseteq AutoLocal /\ "jthr" \in AutoLocal /\ "jthr" \notin ReportAuto
    /\ "dropped" \in Kept /\ "dropped" \notin AutoLocal
    /\ ReportAuto \cap Strays = {}
    /\ Argument("none") = {} /\ Argument("instance") = {} /\ Held("none", 1) = {}
    /\ Held("instance", 1) = {}
<1>1. Members \cap Strays = {} /\ Members \cap Classes = {}
  BY DEF Members, Strays, Classes
<1>2. ReportAuto \cap Members = {} /\ ReportAuto \cap Strays = {} /\ "jthr" \notin ReportAuto
  BY DEF ReportAuto, Members, Strays
<1>3. "dropped" \in Kept
  BY DEF Kept
<1>4. Argument("none") = {} /\ Argument("instance") = {}
  BY DEF Argument
<1>5. Held("none", 1) = {} /\ Held("instance", 1) = {}
  BY DEF Held
<1> QED
  BY <1>1, <1>2, <1>3, <1>4, <1>5, AutoNames

LEMMA Starts ==
    ASSUME NEW f \in Bodies \cup {"none", "instance"}
    PROVE  Held(f, 1) = {}
BY BodyLength, Kinds

LEMMA Bodily ==
    ASSUME NEW t \in Threads, TypeInv
    PROVE  /\ Running(t) <=> fn[t] \in Bodies
           /\ Running(t)' <=> fn'[t] \notin {"none", "instance"}
           /\ part[t] \in {"body", "message", "stack"} /\ at[t] \in Nat \ {0}
           /\ Running(t) => Len(Script(fn[t], part[t])) \in Nat
<1>1. Running(t) <=> fn[t] \in Bodies
  BY DEF TypeInv, Running, Bodies
<1>2. part[t] \in {"body", "message", "stack"} /\ at[t] \in Nat \ {0}
  BY DEF TypeInv
<1>3. Running(t) => Len(Script(fn[t], part[t])) \in Nat
  BY <1>1, <1>2, BodyLength, ReportLength
<1> QED
  BY <1>1, <1>2, <1>3 DEF Running

LEMMA CallKeeps ==
    ASSUME RefsInv, NEW t \in Threads, NEW f \in Calls, Call(t, f)
    PROVE  RefsInv'
<1> USE DEF RefsInv
<1>1. /\ fn[t] = "none" /\ Argument(f) \subseteq results[t] /\ Goto(t, f, "body")
      /\ UNCHANGED <<locals, results, globals, guard, built, threw>>
  BY DEF Call
<1>2. /\ fn'[t] = f /\ part'[t] = "body" /\ at'[t] = 1 /\ Alone(t)
      /\ fn' = [fn EXCEPT ![t] = f] /\ part' = [part EXCEPT ![t] = "body"]
      /\ at' = [at EXCEPT ![t] = 1]
  BY <1>1, GoneTo DEF Alone
<1>3. f \in Bodies \cup {"none", "instance"} /\ f # "MemoryMonitor" /\ f # "get_memory_usage"
  BY DEF Calls, Bodies
<1>4. part[t] = "body" /\ Held("none", 1) = {} /\ Held("none", at[t]) = {} /\ Held(f, 1) = {}
  BY <1>1, <1>3, Starts, Kinds DEF Place, Running, Held
<1>5. TypeInv'
  BY <1>1, <1>2, <1>3 DEF TypeInv
<1>6. MonitorInv'
  BY <1>1 DEF MonitorInv
<1>7. Place(t)'
  <2>1. f \in Bodies => 1 <= Len(Script(f, "body")) + 1
    BY BodyLength
  <2> QED
    BY <1>1, <1>2, <1>3, <2>1 DEF Place, Running
<1>8. InBody(t)' /\ InReport(t)'
  BY <1>1, <1>2, <1>4 DEF InBody, InReport
<1>9. Builds(t)'
  BY <1>2, <1>3 DEF Builds
<1>10. ASSUME NEW u \in Threads, u # t
       PROVE  Place(u)' /\ InBody(u)' /\ InReport(u)' /\ Builds(u)'
  <2>1. Place(u)' /\ InBody(u)' /\ InReport(u)'
    BY <1>1, <1>2, <1>10, OthersKeep
  <2>2. Builds(u)'
    BY <1>1, <1>2, <1>10 DEF Builds, Alone
  <2> QED
    BY <2>1, <2>2
<1> QED
  BY <1>5, <1>6, <1>7, <1>8, <1>9, <1>10

LEMMA LetGoKeeps ==
    ASSUME RefsInv, NEW t \in Threads, NEW name \in results[t], LetGo(t, name)
    PROVE  RefsInv'
<1> USE DEF RefsInv
<1>1. /\ fn[t] = "none"
      /\ locals' = [locals EXCEPT ![t] = @ \ {name}]
      /\ results' = [results EXCEPT ![t] = @ \ {name}]
      /\ UNCHANGED <<fn, part, at, globals, guard, built, threw>>
  BY DEF LetGo, frame
<1>2. /\ locals'[t] = locals[t] \ {name} /\ results'[t] = results[t] \ {name} /\ Alone(t)
  BY <1>1 DEF TypeInv, Alone
<1>3. part[t] = "body" /\ Held("none", at[t]) = {}
  BY <1>1 DEF Place, Running, Held
<1>4. TypeInv'
  BY <1>1 DEF TypeInv
<1>5. MonitorInv' /\ Builds(t)'
  BY <1>1 DEF MonitorInv, Builds
<1>6. Place(t)'
  BY <1>1, <1>3, Kinds DEF Place, Running
<1>7. InBody(t)' /\ InReport(t)'
  BY <1>1, <1>2, <1>3 DEF InBody, InReport
<1>8. ASSUME NEW u \in Threads, u # t
      PROVE  Place(u)' /\ InBody(u)' /\ InReport(u)' /\ Builds(u)'
  <2>1. Place(u)' /\ InBody(u)' /\ InReport(u)'
    BY <1>1, <1>2, <1>8, OthersKeep
  <2>2. Builds(u)'
    BY <1>1, <1>8 DEF Builds
  <2> QED
    BY <2>1, <2>2
<1> QED
  BY <1>4, <1>5, <1>6, <1>7, <1>8

(* The static variable of instance().                                      *)
LEMMA ConstructKeeps ==
    ASSUME RefsInv, NEW t \in Threads, Construct(t)
    PROVE  RefsInv'
<1> USE DEF RefsInv
<1>1. /\ fn[t] = "instance" /\ ~ built /\ guard = NoThread /\ guard' = t
      /\ Goto(t, "MemoryMonitor", "body")
      /\ UNCHANGED <<locals, results, globals, built, threw>>
  BY DEF Construct, Enters
<1>2. /\ fn'[t] = "MemoryMonitor" /\ part'[t] = "body" /\ at'[t] = 1 /\ Alone(t)
      /\ fn' = [fn EXCEPT ![t] = "MemoryMonitor"] /\ part' = [part EXCEPT ![t] = "body"]
      /\ at' = [at EXCEPT ![t] = 1]
  BY <1>1, GoneTo DEF Alone
<1>3. "MemoryMonitor" \in Bodies /\ Argument("MemoryMonitor") = {}
  BY DEF Bodies, Argument
<1>4. /\ part[t] = "body" /\ Held("instance", at[t]) = {} /\ Held("MemoryMonitor", 1) = {}
  BY <1>1, <1>3, Starts DEF Place, Running, Held
<1>5. TypeInv'
  BY <1>1, <1>2, <1>3 DEF TypeInv
<1>6. MonitorInv'
  BY <1>1, RefsAssumption DEF MonitorInv
<1>7. Place(t)'
  <2>1. 1 <= Len(Script("MemoryMonitor", "body")) + 1
    BY <1>3, BodyLength
  <2> QED
    BY <1>2, <1>3, <2>1 DEF Place, Running
<1>8. InBody(t)' /\ InReport(t)'
  BY <1>1, <1>2, <1>4 DEF InBody, InReport
<1>9. Builds(t)'
  BY <1>1, <1>2, ConstructorEnds DEF Builds
<1>10. ASSUME NEW u \in Threads, u # t
       PROVE  Place(u)' /\ InBody(u)' /\ InReport(u)' /\ Builds(u)'
  <2>1. Place(u)' /\ InBody(u)' /\ InReport(u)'
    BY <1>1, <1>2, <1>10, OthersKeep
  <2>2. fn[u] # "MemoryMonitor"
    BY <1>1, RefsAssumption DEF Builds
  <2>3. Builds(u)'
    BY <1>1, <1>2, <1>10, <2>2 DEF Builds, Alone
  <2> QED
    BY <2>1, <2>3
<1> QED
  BY <1>5, <1>6, <1>7, <1>8, <1>9, <1>10

LEMMA UseInstanceKeeps ==
    ASSUME RefsInv, NEW t \in Threads,
           \/ UseInstance(t)
           \/ Constructed(t)
    PROVE  RefsInv'
<1> USE DEF RefsInv
<1>1. /\ \/ fn[t] = "instance" /\ built /\ guard' = guard
         \/ fn[t] = "MemoryMonitor" /\ AtEnd(t) /\ part[t] = "body" /\ guard' = NoThread
      /\ built' /\ built' \in BOOLEAN /\ Goto(t, "get_memory_usage", "body")
      /\ UNCHANGED <<locals, results, globals, threw>>
  BY DEF UseInstance, Constructed, TypeInv
<1>2. /\ fn'[t] = "get_memory_usage" /\ part'[t] = "body" /\ at'[t] = 1 /\ Alone(t)
      /\ fn' = [fn EXCEPT ![t] = "get_memory_usage"] /\ part' = [part EXCEPT ![t] = "body"]
      /\ at' = [at EXCEPT ![t] = 1]
  BY <1>1, GoneTo DEF Alone
<1>3. /\ "get_memory_usage" \in Bodies /\ Argument("get_memory_usage") = {}
      /\ "MemoryMonitor" \in Bodies /\ Result("MemoryMonitor") = {}
  BY DEF Bodies, Argument, Result
<1>4. /\ part[t] = "body" /\ Held("get_memory_usage", 1) = {} /\ Held(fn[t], at[t]) = {}
      /\ Members \subseteq globals
  <2>1. CASE fn[t] = "instance" /\ built
    BY <1>3, <2>1, Starts DEF Place, Running, Held, MonitorInv
  <2>2. CASE fn[t] = "MemoryMonitor" /\ AtEnd(t) /\ part[t] = "body"
    <3>1. at[t] = Len(Script("MemoryMonitor", "body")) + 1
      <4>1. PICK m \in Nat : m = Len(Script("MemoryMonitor", "body"))
        BY <1>3, BodyLength
      <4>2. PICK k \in Nat : k = at[t]
        BY DEF TypeInv
      <4>3. k > m /\ k <= m + 1
        BY <2>2, <4>1, <4>2 DEF AtEnd, Place, Running
      <4>4. k = m + 1
        BY <4>3
      <4> QED
        BY <4>1, <4>2, <4>4
    <3>2. Held("MemoryMonitor", at[t]) = {} /\ Found(at[t]) = Members
      BY <1>3, <3>1, BodyLength, ConstructorEnds
    <3>3. Found(at[t]) \subseteq globals
      BY <2>2 DEF Builds
    <3> QED
      BY <1>3, <2>2, <3>2, <3>3, Starts
  <2> QED
    BY <1>1, <2>1, <2>2
<1>5. TypeInv'
  BY <1>1, <1>2, <1>3 DEF TypeInv
<1>6. MonitorInv' /\ guard' = NoThread
  BY <1>1, <1>4 DEF MonitorInv
<1>7. Place(t)'
  <2>1. 1 <= Len(Script("get_memory_usage", "body")) + 1
    BY <1>3, BodyLength
  <2> QED
    BY <1>2, <1>3, <2>1 DEF Place, Running
<1>8. InBody(t)' /\ InReport(t)'
  BY <1>1, <1>2, <1>4 DEF InBody, InReport
<1>9. Builds(t)'
  BY <1>1, <1>2 DEF Builds
<1>10. ASSUME NEW u \in Threads, u # t
       PROVE  Place(u)' /\ InBody(u)' /\ InReport(u)' /\ Builds(u)'
  <2>1. Place(u)' /\ InBody(u)' /\ InReport(u)'
    BY <1>1, <1>2, <1>10, OthersKeep
  <2>2. fn[u] # "MemoryMonitor"
    BY <1>1, <1>10, RefsAssumption DEF Builds, MonitorInv
  <2>3. Builds(u)'
    BY <1>1, <1>2, <1>10, <2>2 DEF Builds, Alone
  <2> QED
    BY <2>1, <2>3
<1> QED
  BY <1>5, <1>6, <1>7, <1>8, <1>9, <1>10

(* A step of a script.                                                     *)
LEMMA RunsInBody ==
    ASSUME RefsInv, NEW t \in Threads, Runs(t), part[t] = "body"
    PROVE  /\ InBody(t)' /\ Builds(t)'
           /\ {n \in Here(t).makes : IsGlobal(n)} \subseteq
                (IF fn[t] = "MemoryMonitor" THEN Members ELSE {})
<1> USE DEF RefsInv
<1>1. /\ Running(t) /\ ~ AtEnd(t) /\ at' = [at EXCEPT ![t] = @ + 1]
      /\ locals' = [locals EXCEPT ![t] =
                    (@ \cup {n \in Here(t).makes : ~ IsGlobal(n)}) \ (Here(t).ends \cap AutoLocal)]
      /\ globals' = globals \cup {n \in Here(t).makes : IsGlobal(n)}
      /\ UNCHANGED <<fn, part, results, guard, built, threw>>
  BY DEF Runs
<1>2. fn[t] \in Bodies /\ at[t] \in Nat \ {0} /\ at[t] <= Len(Script(fn[t], "body"))
  BY <1>1, Bodily DEF AtEnd
<1>3. PICK s : s = Here(t)
  OBVIOUS
<1>4. Effect(fn[t], at[t], s)
  BY <1>2, <1>3, BodyStep DEF Here
<1>5. /\ locals'[t] = (locals[t] \cup {n \in s.makes : ~ IsGlobal(n)}) \ (s.ends \cap AutoLocal)
      /\ at'[t] = at[t] + 1
  BY <1>1, <1>3 DEF TypeInv
<1>6. Held(fn[t], at[t] + 1) =
        (Held(fn[t], at[t]) \cup {n \in s.makes : ~ IsGlobal(n)}) \ (s.ends \cap AutoLocal)
  BY <1>4 DEF Effect, Moves
<1>7. InBody(t)'
  <2>1. results[t] \cap AutoLocal = {} /\ Kept \cap AutoLocal = {}
    BY Kinds DEF TypeInv
  <2>2. /\ results[t] \cup Held(fn[t], at[t]) \subseteq locals[t]
        /\ locals[t] \subseteq results[t] \cup Held(fn[t], at[t])
                               \cup (IF threw[t] THEN Kept ELSE {})
    BY DEF InBody
  <2>3. PICK X : X = IF threw[t] THEN Kept ELSE {}
    OBVIOUS
  <2>4. X \cap AutoLocal = {} /\ locals[t] \subseteq results[t] \cup Held(fn[t], at[t]) \cup X
    BY <2>1, <2>2, <2>3
  <2>5. results[t] \cup Held(fn[t], at[t] + 1) \subseteq locals'[t]
    BY <1>5, <1>6, <2>1, <2>2
  <2>6. locals'[t] \subseteq results[t] \cup Held(fn[t], at[t] + 1) \cup X
    BY <1>5, <1>6, <2>4
  <2> QED
    BY <1>1, <1>5, <2>3, <2>5, <2>6 DEF InBody
<1>8. Builds(t)'
  <2>1. fn[t] = "MemoryMonitor" => Found(at[t] + 1) \subseteq globals'
    <3>1. SUFFICES ASSUME fn[t] = "MemoryMonitor" PROVE Found(at[t] + 1) \subseteq globals'
      OBVIOUS
    <3>2. Found(at[t]) \subseteq globals /\ Found(at[t] + 1) \subseteq Found(at[t]) \cup s.makes
      BY <1>4, <3>1 DEF Builds, Effect, Finds
    <3>3. \A n \in Found(at[t] + 1) : IsGlobal(n)
      BY DEF Found, IsGlobal
    <3> QED
      BY <1>1, <1>3, <3>2, <3>3
  <2> QED
    BY <1>1, <1>5, <2>1 DEF Builds
<1> QED
  BY <1>3, <1>4, <1>7, <1>8 DEF Effect, Finds

LEMMA RunsInReport ==
    ASSUME RefsInv, NEW t \in Threads, Runs(t), part[t] # "body"
    PROVE  /\ InReport(t)' /\ Builds(t)'
           /\ {n \in Here(t).makes : IsGlobal(n)} \subseteq Strays
<1> USE DEF RefsInv
<1>1. /\ Running(t) /\ ~ AtEnd(t) /\ at' = [at EXCEPT ![t] = @ + 1]
      /\ locals' = [locals EXCEPT ![t] =
                    (@ \cup {n \in Here(t).makes : ~ IsGlobal(n)}) \ (Here(t).ends \cap AutoLocal)]
      /\ globals' = globals \cup {n \in Here(t).makes : IsGlobal(n)}
      /\ UNCHANGED <<fn, part, results, guard, built, threw>>
  BY DEF Runs
<1>2. /\ fn[t] \in Bodies /\ at[t] \in Nat \ {0} /\ at[t] <= Len(Script(fn[t], part[t]))
      /\ part[t] \in {"message", "stack"}
  BY <1>1, Bodily DEF AtEnd
<1>3. PICK s : s = Here(t)
  OBVIOUS
<1>4. at[t] <= 13 /\ Reports(part[t], at[t], s)
  BY <1>2, <1>3, ReportStep DEF Here
<1>5. /\ locals'[t] = (locals[t] \cup {n \in s.makes : ~ IsGlobal(n)}) \ (s.ends \cap AutoLocal)
      /\ at'[t] = at[t] + 1
  BY <1>1, <1>3 DEF TypeInv
<1>6. /\ results[t] \cup {"jthr"} \cup Noted(part[t], at[t]) \subseteq locals[t]
      /\ locals[t] \subseteq results[t] \cup AutoLocal \cup Kept
      /\ Wrote(part[t], at[t]) \subseteq globals
  BY <1>2, <1>4 DEF InReport
<1>7. /\ \A n \in s.makes : IsGlobal(n) => n \in Strays
      /\ \A n \in ReportAuto : ~ IsGlobal(n)
  BY <1>4, Kinds DEF Reports, IsGlobal
<1>8. results[t] \cup {"jthr"} \subseteq locals'[t]
  <2>1. results[t] \cap AutoLocal = {} /\ "jthr" \notin s.ends
    BY <1>4, Kinds DEF TypeInv, Reports
  <2> QED
    BY <1>5, <1>6, <2>1
<1>9. Noted(part[t], at[t] + 1) \subseteq locals'[t]
  <2>1. ASSUME NEW n \in Noted(part[t], at[t] + 1) PROVE n \in locals'[t]
    <3>1. n \in ReportAuto /\ n \notin s.ends /\ (n \in Noted(part[t], at[t]) \/ n \in s.makes)
      BY <1>4 DEF Reports
    <3> QED
      BY <1>5, <1>6, <1>7, <3>1
  <2> QED
    BY <2>1
<1>10. locals'[t] \subseteq results[t] \cup AutoLocal \cup Kept
  <2>1. ASSUME NEW n \in s.makes, ~ IsGlobal(n) PROVE n \in AutoLocal
    BY <1>4, <2>1, Kinds DEF Reports, IsGlobal
  <2> QED
    BY <1>5, <1>6, <2>1
<1>11. at[t] + 1 <= 13 => Wrote(part[t], at[t] + 1) \subseteq globals'
  <2>1. SUFFICES ASSUME at[t] + 1 <= 13, NEW n \in Wrote(part[t], at[t] + 1)
                 PROVE  n \in globals'
    OBVIOUS
  <2>2. at[t] < 13
    BY <1>2, <2>1
  <2>3. n \in Wrote(part[t], at[t]) \cup s.makes /\ IsGlobal(n)
    BY <1>4, <2>2 DEF Reports, Wrote, IsGlobal
  <2> QED
    BY <1>1, <1>3, <1>6, <2>3
<1>12. InReport(t)'
  BY <1>1, <1>5, <1>8, <1>9, <1>10, <1>11 DEF InReport
<1>13. Builds(t)'
  BY <1>1, <1>2 DEF Builds
<1> QED
  BY <1>3, <1>7, <1>12, <1>13

LEMMA RunsKeeps ==
    ASSUME RefsInv, NEW t \in Threads, Runs(t)
    PROVE  RefsInv'
<1> USE DEF RefsInv
<1>1. /\ Running(t) /\ ~ AtEnd(t) /\ at' = [at EXCEPT ![t] = @ + 1]
      /\ locals' = [locals EXCEPT ![t] =
                    (@ \cup {n \in Here(t).makes : ~ IsGlobal(n)}) \ (Here(t).ends \cap AutoLocal)]
      /\ globals' = globals \cup {n \in Here(t).makes : IsGlobal(n)}
      /\ UNCHANGED <<fn, part, results, guard, built, threw>>
  BY DEF Runs
<1>2. Alone(t) /\ at'[t] = at[t] + 1 /\ at[t] \in Nat \ {0}
  BY <1>1 DEF TypeInv, Alone
<1>3. TypeInv'
  BY <1>1, <1>2 DEF TypeInv
<1>4. {n \in Here(t).makes : IsGlobal(n)} \subseteq
        (IF fn[t] = "MemoryMonitor" THEN Members ELSE {}) \cup Strays
  BY RunsInBody, RunsInReport
<1>5. InBody(t)' /\ InReport(t)' /\ Builds(t)'
  <2>1. part'[t] = part[t]
    BY <1>1
  <2> QED
    BY <2>1, RunsInBody, RunsInReport DEF InBody, InReport
<1>6. Place(t)'
  <2>1. PICK m \in Nat : m = Len(Script(fn[t], part[t]))
    BY <1>1, Bodily
  <2>2. PICK k \in Nat : k = at[t]
    BY <1>2
  <2>3. k <= m
    BY <1>1, <2>1, <2>2 DEF AtEnd
  <2>4. k + 1 <= m + 1
    BY <2>3
  <2>5. at'[t] <= Len(Script(fn'[t], part'[t])) + 1
    BY <1>1, <1>2, <2>1, <2>2, <2>4
  <2> QED
    BY <1>1, <2>5 DEF Place, Running
<1>7. MonitorInv'
  <2>1. fn[t] = "MemoryMonitor" => ~ built /\ guard # NoThread
    BY RefsAssumption DEF Builds, MonitorInv
  <2>2. ~ built /\ guard = NoThread => Members \cap globals' = {}
    BY <1>1, <1>4, <2>1, Kinds DEF MonitorInv
  <2> QED
    BY <1>1, <2>2 DEF MonitorInv
<1>8. ASSUME NEW u \in Threads, u # t
      PROVE  Place(u)' /\ InBody(u)' /\ InReport(u)' /\ Builds(u)'
  <2>1. Place(u)' /\ InBody(u)' /\ InReport(u)'
    BY <1>1, <1>2, <1>8, OthersKeep
  <2>2. Builds(u)'
    BY <1>1, <1>2, <1>8 DEF Builds
  <2> QED
    BY <2>1, <2>2
<1> QED
  BY <1>3, <1>5, <1>6, <1>7, <1>8

(* An exception leaves the function, from its body or after a report.      *)
LEMMA UnwindKeeps ==
    ASSUME RefsInv, NEW t \in Threads, Running(t), Unwind(t),
           locals[t] \subseteq results[t] \cup AutoLocal \cup Kept,
           results[t] \subseteq locals[t]
    PROVE  RefsInv'
<1> USE DEF RefsInv
<1>1. /\ locals' = [locals EXCEPT ![t] = @ \ AutoLocal]
      /\ threw' = [threw EXCEPT ![t] = TRUE]
      /\ Goto(t, "none", "body") /\ UNCHANGED <<results, built>>
      /\ IF fn[t] = "MemoryMonitor"
         THEN globals' = globals \ Members /\ guard' = NoThread
         ELSE UNCHANGED <<globals, guard>>
  BY DEF Unwind, MembersGo
<1>2. /\ fn'[t] = "none" /\ part'[t] = "body" /\ at'[t] = 1
      /\ fn' = [fn EXCEPT ![t] = "none"] /\ part' = [part EXCEPT ![t] = "body"]
      /\ at' = [at EXCEPT ![t] = 1]
      /\ \A u \in Threads \ {t} : fn'[u] = fn[u] /\ part'[u] = part[u] /\ at'[u] = at[u]
  BY <1>1, GoneTo
<1>3. /\ locals'[t] = locals[t] \ AutoLocal /\ threw'[t] = TRUE
      /\ \A u \in Threads \ {t} : locals'[u] = locals[u] /\ threw'[u] = threw[u]
  BY <1>1 DEF TypeInv
<1>4. Alone(t)
  BY <1>1, <1>2, <1>3 DEF Alone
<1>5. TypeInv'
  <2>1. guard' \in Threads \cup {NoThread}
    BY <1>1 DEF TypeInv
  <2> QED
    BY <1>1, <1>2, <2>1 DEF TypeInv
<1>6. MonitorInv'
  <2>1. CASE fn[t] = "MemoryMonitor"
    <3>1. guard = t /\ ~ built
      BY <2>1, RefsAssumption DEF Builds, MonitorInv
    <3>2. globals' = globals \ Members
      BY <1>1, <2>1
    <3> QED
      BY <1>1, <3>1, <3>2, Kinds DEF MonitorInv
  <2>2. CASE fn[t] # "MemoryMonitor"
    BY <1>1, <2>2 DEF MonitorInv
  <2> QED
    BY <2>1, <2>2
<1>7. Place(t)'
  BY <1>2, Kinds DEF Place, Running
<1>8. InBody(t)' /\ InReport(t)'
  <2>1. results[t] \cap AutoLocal = {}
    BY Kinds DEF TypeInv
  <2>2. results[t] \subseteq locals'[t] /\ locals'[t] \subseteq results[t] \cup Kept
    BY <1>3, <2>1
  <2> QED
    BY <1>1, <1>2, <1>3, <2>2, Kinds DEF InBody, InReport
<1>9. Builds(t)'
  BY <1>2 DEF Builds
<1>10. ASSUME NEW u \in Threads, u # t
       PROVE  Place(u)' /\ InBody(u)' /\ InReport(u)' /\ Builds(u)'
  <2>1. Strays \cap globals \subseteq globals'
    BY <1>1, Kinds
  <2>2. Place(u)' /\ InBody(u)' /\ InReport(u)'
    BY <1>4, <1>10, <2>1, OthersKeep
  <2>3. fn[u] = "MemoryMonitor" => fn[t] # "MemoryMonitor"
    BY <1>10 DEF Builds
  <2>4. Builds(u)'
    BY <1>1, <1>2, <1>10, <2>3 DEF Builds
  <2> QED
    BY <2>2, <2>4
<1> QED
  BY <1>5, <1>6, <1>7, <1>8, <1>9, <1>10

LEMMA ThrowsPlainKeeps ==
    ASSUME RefsInv, NEW t \in Threads, ThrowsPlain(t)
    PROVE  RefsInv'
<1>1. /\ Running(t) /\ ~ AtEnd(t) /\ Here(t).fails = "plain" /\ Unwind(t)
  BY DEF ThrowsPlain, Fault
<1>2. /\ fn[t] \in Bodies /\ part[t] \in {"body", "message", "stack"} /\ at[t] \in Nat \ {0}
      /\ at[t] <= Len(Script(fn[t], part[t]))
  BY <1>1, Bodily DEF AtEnd, RefsInv
<1>3. part[t] = "body"
  BY <1>1, <1>2, ReportStep DEF Here, Reports
<1>4. Held(fn[t], at[t]) \subseteq AutoLocal \cup Kept
  BY <1>1, <1>2, <1>3, BodyStep DEF Here, Effect, Fails
<1>5. /\ locals[t] \subseteq results[t] \cup AutoLocal \cup Kept
      /\ results[t] \subseteq locals[t]
  BY <1>3, <1>4 DEF RefsInv, InBody
<1> QED
  BY <1>1, <1>5, UnwindKeeps

LEMMA ReportEndsKeeps ==
    ASSUME RefsInv, NEW t \in Threads, ReportEnds(t)
    PROVE  RefsInv'
<1>1. Running(t) /\ part[t] = "stack" /\ Unwind(t)
  BY DEF ReportEnds
<1>2. /\ locals[t] \subseteq results[t] \cup AutoLocal \cup Kept
      /\ results[t] \subseteq locals[t]
  BY <1>1 DEF RefsInv, InReport
<1> QED
  BY <1>1, <1>2, UnwindKeeps

(* Steps of one thread that leave the monitor alone.                       *)
LEMMA StepApart ==
    ASSUME RefsInv, NEW t \in Threads, Alone(t), TypeInv',
           Place(t)', InBody(t)', InReport(t)', Builds(t)',
           UNCHANGED <<globals, guard, built>>
    PROVE  RefsInv'
<1> USE DEF RefsInv
<1>1. MonitorInv'
  BY DEF MonitorInv
<1>2. ASSUME NEW u \in Threads, u # t
      PROVE  Place(u)' /\ InBody(u)' /\ InReport(u)' /\ Builds(u)'
  <2>1. Place(u)' /\ InBody(u)' /\ InReport(u)'
    BY <1>2, OthersKeep
  <2>2. Builds(u)'
    BY <1>2 DEF Builds, Alone
  <2> QED
    BY <2>1, <2>2
<1> QED
  BY <1>1, <1>2

LEMMA ThrowsReportedKeeps ==
    ASSUME RefsInv, NEW t \in Threads, ThrowsReported(t)
    PROVE  RefsInv'
<1>1. /\ Running(t) /\ ~ AtEnd(t) /\ Here(t).fails = "report"
      /\ locals' = [locals EXCEPT ![t] = @ \cup {"jthr"}]
      /\ Goto(t, fn[t], "message")
      /\ UNCHANGED <<results, globals, guard, built, threw>>
  BY DEF ThrowsReported, Fault
<1>2. /\ fn[t] \in Bodies /\ part[t] \in {"body", "message", "stack"} /\ at[t] \in Nat \ {0}
      /\ at[t] <= Len(Script(fn[t], part[t]))
  BY <1>1, Bodily DEF AtEnd, RefsInv
<1>3. part[t] = "body"
  BY <1>1, <1>2, ReportStep DEF Here, Reports
<1>4. Held(fn[t], at[t]) \subseteq AutoLocal \cup Kept
  BY <1>1, <1>2, <1>3, BodyStep DEF Here, Effect, Fails
<1>5. TypeInv
  BY DEF RefsInv
<1>6. /\ fn'[t] = fn[t] /\ part'[t] = "message" /\ at'[t] = 1
      /\ fn' = [fn EXCEPT ![t] = fn[t]] /\ part' = [part EXCEPT ![t] = "message"]
      /\ at' = [at EXCEPT ![t] = 1]
      /\ \A u \in Threads \ {t} : fn'[u] = fn[u] /\ part'[u] = part[u] /\ at'[u] = at[u]
  BY <1>1, <1>5, GoneTo
<1>7. locals'[t] = locals[t] \cup {"jthr"} /\ Alone(t)
  BY <1>1, <1>5, <1>6 DEF TypeInv, Alone
<1>8. TypeInv'
  BY <1>1, <1>5, <1>6 DEF TypeInv
<1>9. Place(t)'
  <2>1. 1 <= Len(Script(fn[t], "message")) + 1
    BY <1>2, ReportLength
  <2> QED
    BY <1>1, <1>6, <2>1 DEF RefsInv, Place, Running
<1>10. InBody(t)' /\ InReport(t)'
  <2>1. Noted("message", 1) = {} /\ Wrote("message", 1) = {}
    BY <1>2, ReportLength
  <2>2. /\ results[t] \cup {"jthr"} \subseteq locals'[t]
        /\ locals'[t] \subseteq results[t] \cup AutoLocal \cup Kept
    BY <1>3, <1>4, <1>7, Kinds DEF RefsInv, InBody
  <2> QED
    BY <1>1, <1>6, <2>1, <2>2 DEF InBody, InReport
<1>11. Builds(t)'
  BY <1>1, <1>6 DEF RefsInv, Builds
<1> QED
  BY <1>1, <1>7, <1>8, <1>9, <1>10, <1>11, StepApart

LEMMA ReportFailsKeeps ==
    ASSUME RefsInv, NEW t \in Threads, ReportFails(t)
    PROVE  RefsInv'
<1>1. /\ Running(t) /\ ~ AtEnd(t) /\ Here(t).fails \in {"held", "dropped"}
      /\ locals' = [locals EXCEPT ![t] =
              (@ \ ReportAuto) \cup (IF Here(t).fails = "held" THEN {} ELSE {"dropped"})]
      /\ at' = [at EXCEPT ![t] = Len(Script(fn[t], part[t])) + 1]
      /\ UNCHANGED <<fn, part, results, globals, guard, built, threw>>
  BY DEF ReportFails, Fault
<1>2. /\ fn[t] \in Bodies /\ part[t] \in {"body", "message", "stack"} /\ at[t] \in Nat \ {0}
      /\ at[t] <= Len(Script(fn[t], part[t]))
  BY <1>1, Bodily DEF AtEnd, RefsInv
<1>3. part[t] \in {"message", "stack"}
  BY <1>1, <1>2, BodyStep DEF Here, Effect, Fails
<1>4. TypeInv
  BY DEF RefsInv
<1>5. PICK X : X = (IF Here(t).fails = "held" THEN {} ELSE {"dropped"})
  OBVIOUS
<1>6. PICK m \in Nat : m = Len(Script(fn[t], part[t]))
  BY <1>2, <1>3, ReportLength
<1>7. /\ locals'[t] = (locals[t] \ ReportAuto) \cup X /\ at'[t] = m + 1 /\ Alone(t)
  BY <1>1, <1>4, <1>5, <1>6 DEF TypeInv, Alone
<1>8. TypeInv'
  BY <1>1, <1>4, <1>6 DEF TypeInv
<1>9. Place(t)'
  <2>1. at'[t] <= Len(Script(fn'[t], part'[t])) + 1
    BY <1>1, <1>6, <1>7
  <2> QED
    BY <1>1, <2>1 DEF RefsInv, Place, Running
<1>10. InBody(t)' /\ InReport(t)'
  <2>1. Noted(part[t], m + 1) = {} /\ (m + 1 <= 13 => Wrote(part[t], m + 1) = {})
    BY <1>2, <1>3, <1>6, ReportLength
  <2>2. /\ results[t] \cup {"jthr"} \subseteq locals[t]
        /\ locals[t] \subseteq results[t] \cup AutoLocal \cup Kept
    BY <1>3 DEF RefsInv, InReport
  <2>3. results[t] \cap ReportAuto = {} /\ X \subseteq Kept
    BY <1>4, <1>5, Kinds DEF TypeInv
  <2>4. /\ results[t] \cup {"jthr"} \subseteq locals'[t]
        /\ locals'[t] \subseteq results[t] \cup AutoLocal \cup Kept
    BY <1>7, <2>2, <2>3, Kinds
  <2> QED
    BY <1>1, <1>3, <1>7, <2>1, <2>4 DEF InBody, InReport
<1>11. Builds(t)'
  BY <1>1, <1>3 DEF RefsInv, Builds
<1> QED
  BY <1>1, <1>7, <1>8, <1>9, <1>10, <1>11, StepApart

LEMMA MessageEndsKeeps ==
    ASSUME RefsInv, NEW t \in Threads, MessageEnds(t)
    PROVE  RefsInv'
<1>1. /\ Running(t) /\ part[t] = "message" /\ Goto(t, fn[t], "stack")
      /\ UNCHANGED <<locals, results, globals, guard, built, threw>>
  BY DEF MessageEnds
<1>2. TypeInv
  BY DEF RefsInv
<1>3. fn[t] \in Bodies
  BY <1>1, <1>2, Bodily
<1>4. /\ fn'[t] = fn[t] /\ part'[t] = "stack" /\ at'[t] = 1
      /\ fn' = [fn EXCEPT ![t] = fn[t]] /\ part' = [part EXCEPT ![t] = "stack"]
      /\ at' = [at EXCEPT ![t] = 1]
      /\ \A u \in Threads \ {t} : fn'[u] = fn[u] /\ part'[u] = part[u] /\ at'[u] = at[u]
  BY <1>1, <1>2, GoneTo
<1>5. Alone(t) /\ TypeInv'
  BY <1>1, <1>2, <1>4 DEF TypeInv, Alone
<1>6. Place(t)'
  <2>1. 1 <= Len(Script(fn[t], "stack")) + 1
    BY <1>3, ReportLength
  <2> QED
    BY <1>1, <1>4, <2>1 DEF RefsInv, Place, Running
<1>7. InBody(t)' /\ InReport(t)'
  <2>1. Noted("stack", 1) = {} /\ Wrote("stack", 1) = {}
    BY <1>3, ReportLength
  <2>2. /\ results[t] \cup {"jthr"} \subseteq locals[t]
        /\ locals[t] \subseteq results[t] \cup AutoLocal \cup Kept
    BY <1>1 DEF RefsInv, InReport
  <2> QED
    BY <1>1, <1>4, <2>1, <2>2 DEF InBody, InReport
<1>8. Builds(t)'
  BY <1>1, <1>4 DEF RefsInv, Builds
<1> QED
  BY <1>1, <1>5, <1>6, <1>7, <1>8, StepApart

LEMMA ReturnsKeeps ==
    ASSUME RefsInv, NEW t \in Threads, Returns(t)
    PROVE  RefsInv'
<1>1. /\ Running(t) /\ AtEnd(t) /\ part[t] = "body" /\ fn[t] # "MemoryMonitor"
      /\ results' = [results EXCEPT ![t] = @ \cup Result(fn[t])]
      /\ Goto(t, "none", "body")
      /\ UNCHANGED <<locals, globals, guard, built, threw>>
  BY DEF Returns
<1>2. TypeInv
  BY DEF RefsInv
<1>3. fn[t] \in Bodies /\ Result(fn[t]) \subseteq Returned
  BY <1>1, <1>2, Bodily, BodyLength
<1>4. Held(fn[t], at[t]) = Result(fn[t])
  <2>1. PICK m \in Nat : m = Len(Script(fn[t], "body"))
    BY <1>3, BodyLength
  <2>2. PICK k \in Nat : k = at[t]
    BY <1>2 DEF TypeInv
  <2>3. k > m /\ k <= m + 1
    BY <1>1, <2>1, <2>2 DEF AtEnd, RefsInv, Place
  <2>4. k = m + 1
    BY <2>3
  <2> QED
    BY <1>3, <2>1, <2>2, <2>4, BodyLength
<1>5. /\ fn'[t] = "none" /\ part'[t] = "body" /\ at'[t] = 1
      /\ fn' = [fn EXCEPT ![t] = "none"] /\ part' = [part EXCEPT ![t] = "body"]
      /\ at' = [at EXCEPT ![t] = 1]
      /\ \A u \in Threads \ {t} : fn'[u] = fn[u] /\ part'[u] = part[u] /\ at'[u] = at[u]
  BY <1>1, <1>2, GoneTo
<1>6. results'[t] = results[t] \cup Result(fn[t]) /\ Alone(t)
  BY <1>1, <1>2, <1>5 DEF TypeInv, Alone
<1>7. TypeInv'
  <2>1. results' \in [Threads -> SUBSET Returned]
    BY <1>1, <1>2, <1>3 DEF TypeInv
  <2> QED
    BY <1>1, <1>2, <1>5, <2>1 DEF TypeInv
<1>8. Place(t)' /\ Builds(t)'
  BY <1>5, Kinds DEF Place, Running, Builds
<1>9. InBody(t)' /\ InReport(t)'
  BY <1>1, <1>4, <1>5, <1>6, Kinds DEF RefsInv, InBody, InReport
<1> QED
  BY <1>1, <1>6, <1>7, <1>8, <1>9, StepApart

LEMMA RefsInitial == Init => RefsInv
<1> SUFFICES ASSUME Init PROVE RefsInv
  OBVIOUS
<1> USE DEF Init
<1>1. TypeInv
  <2>1. fn \in [Threads -> Bodies \cup {"none", "instance"}] /\ at \in [Threads -> Nat \ {0}]
    OBVIOUS
  <2>2. /\ part \in [Threads -> {"body", "message", "stack"}]
        /\ DOMAIN locals = Threads /\ results \in [Threads -> SUBSET Returned]
    OBVIOUS
  <2>3. built \in BOOLEAN /\ threw \in [Threads -> BOOLEAN]
    OBVIOUS
  <2> QED
    BY <2>1, <2>2, <2>3 DEF TypeInv
<1>2. MonitorInv
  BY Kinds DEF MonitorInv
<1>3. ASSUME NEW t \in Threads PROVE Place(t) /\ InBody(t) /\ InReport(t) /\ Builds(t)
  BY Kinds DEF Place, Running, InBody, InReport, Builds
<1> QED
  BY <1>1, <1>2, <1>3 DEF RefsInv

LEMMA RefsPreserved == RefsInv /\ [Next]_vars => RefsInv'
<1> SUFFICES ASSUME RefsInv, [Next]_vars PROVE RefsInv'
  OBVIOUS
<1>1. ASSUME NEW t \in Threads, NEW f \in Calls, Call(t, f) PROVE RefsInv'
  BY <1>1, CallKeeps
<1>2. ASSUME NEW t \in Threads, NEW name \in results[t], LetGo(t, name) PROVE RefsInv'
  BY <1>2, LetGoKeeps
<1>3. ASSUME NEW t \in Threads, Proceeds(t) PROVE RefsInv'
  BY <1>3, ConstructKeeps, UseInstanceKeeps, RunsKeeps, ThrowsPlainKeeps, ThrowsReportedKeeps,
     ReportFailsKeeps, MessageEndsKeeps, ReportEndsKeeps, ReturnsKeeps DEF Proceeds
<1>4. CASE UNCHANGED vars
  BY <1>4 DEF vars, frame, RefsInv, TypeInv, MonitorInv, Place, Running, InBody, InReport, Builds
<1> QED
  BY <1>1, <1>2, <1>3, <1>4 DEF Next, Finished

(* The invariant: before each step of each script, what the thread holds.  *)
THEOREM Invariance == Spec => []RefsInv
<1>1. Init => RefsInv
  BY RefsInitial
<1>2. RefsInv /\ [Next]_vars => RefsInv'
  BY RefsPreserved
<1> QED
  BY <1>1, <1>2, PTL DEF Spec

(* No JNI call of the helpers is given a reference that is gone, or a      *)
(* local one of another thread (jni_utils.cpp, jni_utils.h:93-154), for    *)
(* collections of any size and exceptions at any of their calls.           *)
THEOREM UsesLive == Spec => []UsesAreLive
<1>1. RefsInv => UsesAreLive
  <2>1. SUFFICES ASSUME RefsInv, NEW t \in Threads, Running(t), ~ AtEnd(t)
                 PROVE  Here(t).needs \subseteq locals[t] \cup globals
    BY DEF UsesAreLive
  <2>2. /\ fn[t] \in Bodies /\ at[t] \in Nat \ {0} /\ at[t] <= Len(Script(fn[t], part[t]))
        /\ part[t] \in {"body", "message", "stack"}
    BY <2>1, Bodily DEF AtEnd, RefsInv
  <2>3. CASE part[t] = "body"
    <3>1. Uses(fn[t], at[t], Here(t))
      BY <2>2, <2>3, BodyStep DEF Here, Effect
    <3>2. Held(fn[t], at[t]) \subseteq locals[t] /\ Argument(fn[t]) \subseteq locals[t]
      BY <2>1, <2>3 DEF RefsInv, InBody, Place
    <3>3. /\ Classes \subseteq globals
          /\ fn[t] = "MemoryMonitor" => Found(at[t]) \subseteq globals
          /\ fn[t] = "get_memory_usage" => Members \subseteq globals
      BY <2>1, <2>3 DEF RefsInv, Builds, MonitorInv
    <3> QED
      BY <3>1, <3>2, <3>3 DEF Uses
  <2>4. CASE part[t] # "body"
    <3>1. at[t] <= 13 /\ Reports(part[t], at[t], Here(t))
      BY <2>2, <2>4, ReportStep DEF Here
    <3> QED
      BY <2>1, <2>4, <3>1 DEF RefsInv, InReport, Reports
  <2> QED
    BY <2>3, <2>4
<1> QED
  BY <1>1, Invariance, PTL

(* Between calls a thread holds its results and no more, also after any    *)
(* exceptions, but for the plain jobjects map_to_jmap and vstrs_to_jlstrs  *)
(* fill and the exceptions of reports that were given up.                  *)
THEOREM HoldsResults == Spec => []HoldsItsResults
<1>1. RefsInv => HoldsItsResults
  <2>1. SUFFICES ASSUME RefsInv, NEW t \in Threads, fn[t] = "none"
                 PROVE  /\ results[t] \subseteq locals[t]
                        /\ ~ threw[t] => locals[t] = results[t]
                        /\ threw[t] => locals[t] \ results[t] \subseteq {"jmap", "jlist", "dropped"}
    BY DEF HoldsItsResults
  <2>2. part[t] = "body" /\ Held("none", at[t]) = {}
    BY <2>1 DEF RefsInv, Place, Running, Held
  <2> QED
    BY <2>1, <2>2 DEF RefsInv, InBody, Kept
<1> QED
  BY <1>1, Invariance, PTL

(* The MemoryMonitor is whole or not there, and at most one thread is in   *)
(* its constructor (MemoryMonitor::instance(), jni_utils.cpp:513-516).     *)
THEOREM MonitorWhole == Spec => []MonitorIsWhole
<1>1. RefsInv => MonitorIsWhole
  <2>1. SUFFICES ASSUME RefsInv
                 PROVE  Cardinality({t \in Threads : fn[t] = "MemoryMonitor"}) <= 1
    BY DEF MonitorIsWhole, RefsInv, MonitorInv
  <2>2. {t \in Threads : fn[t] = "MemoryMonitor"} \subseteq {guard}
    BY <2>1 DEF RefsInv, Builds
  <2>3. IsFiniteSet({guard}) /\ Cardinality({guard}) = 1
    BY FS_Singleton
  <2>4. Cardinality({t \in Threads : fn[t] = "MemoryMonitor"}) <= Cardinality({guard})
    BY <2>2, <2>3, FS_Subset
  <2> QED
    BY <2>3, <2>4
<1> QED
  BY <1>1, Invariance, PTL
=============================================================================
