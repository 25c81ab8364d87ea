-------------------------- MODULE RequestLog_proofs --------------------------
(***************************************************************************)
(* Proofs about Startup and RequestLog, for any requests, any number of    *)
(* derivations, any way the shared logger was derived, any settings in the *)
(* file and the environment, and any number of destinations that break.    *)
(***************************************************************************)
EXTENDS RequestLog, FiniteSetTheorems, TLAPS
-----------------------------------------------------------------------------
(* Start-up: the settings in force are those wanted.                       *)

\* What is left to read still yields, over what the struct holds, what is wanted.
SettingsInv ==
    /\ stage \in {"file", "env", "init", "running", "refused"}
    /\ DOMAIN cfg = Settings
    /\ stage = "file" => cfg = Zero /\ wanted = Precedence(env, file)
    /\ stage = "env" =>
          wanted = WithDefaults([s \in Settings |-> IF env[s] # Unset THEN env[s] ELSE cfg[s]])
    /\ stage = "init" => wanted = WithDefaults(cfg)
    /\ stage = "running" => wanted = cfg /\ cfg.level \in Levels /\ cfg.mode \in Modes

LEMMA ZeroStruct == DOMAIN Zero = Settings
BY DEF Zero, Settings

LEMMA SettingsInit == StartInit => SettingsInv
BY ZeroStruct DEF StartInit, SettingsInv

LEMMA SettingsNext == SettingsInv /\ Start => SettingsInv'
<1> SUFFICES ASSUME SettingsInv, Start PROVE SettingsInv'
  OBVIOUS
<1>1. CASE LoadFile
  <2>1. CASE stage' = "env"
    <3>1. cfg' = [s \in Settings |-> IF file[s] = Unset THEN Zero[s] ELSE file[s]]
      BY <1>1, <2>1 DEF LoadFile, SettingsInv
    <3>2. [s \in Settings |-> IF env[s] # Unset THEN env[s] ELSE cfg'[s]]
          = [s \in Settings |-> IF env[s] # Unset THEN env[s]
                                ELSE IF file[s] # Unset THEN file[s] ELSE Zero[s]]
      BY <3>1
    <3>3. env' = env /\ wanted' = wanted /\ wanted = Precedence(env, file)
      BY <1>1 DEF LoadFile, SettingsInv
    <3> QED
      BY <2>1, <3>1, <3>2, <3>3 DEF SettingsInv, Precedence
  <2>2. CASE stage' = "refused" /\ UNCHANGED cfg
    BY <2>2 DEF SettingsInv
  <2> QED
    BY <1>1, <2>1, <2>2 DEF LoadFile
<1>2. CASE OverrideFromEnv
  <2>1. DOMAIN cfg' = Settings
    BY <1>2 DEF OverrideFromEnv
  <2>2. stage' \in {"init", "refused"}
    BY <1>2 DEF OverrideFromEnv
  <2>3. ASSUME stage' = "init" PROVE wanted' = WithDefaults(cfg')
    <3>1. \A s \in Settings : Given(s) => Parses(s, env[s])
      BY <1>2, <2>3 DEF OverrideFromEnv
    <3>2. cfg' = [s \in Settings |-> IF env[s] # Unset THEN env[s] ELSE cfg[s]]
      BY <1>2, <3>1 DEF OverrideFromEnv, Given
    <3> QED
      BY <1>2, <3>2 DEF OverrideFromEnv, SettingsInv
  <2> QED
    BY <2>1, <2>2, <2>3 DEF SettingsInv
<1>3. CASE InitLogx
  <2>1. cfg' = wanted /\ wanted' = wanted
    BY <1>3 DEF InitLogx, SettingsInv
  <2>2. DOMAIN cfg' = Settings
    BY <1>3 DEF InitLogx, SettingsInv, WithDefaults
  <2>3. /\ stage' \in {"running", "refused"}
        /\ stage' = "running" => cfg'.level \in Levels /\ cfg'.mode \in Modes
    BY <1>3 DEF InitLogx
  <2> QED
    BY <2>1, <2>2, <2>3 DEF SettingsInv
<1> QED
  BY <1>1, <1>2, <1>3 DEF Start
-----------------------------------------------------------------------------
(* Writing: what becomes of one line.                                      *)

\* Write stops where the first destination fails.
LEMMA WriteStops ==
    ASSUME NEW ws, NEW m \in 0..Len(ws), Len(ws) \in Nat,
           \A j \in 1..m : ws[j] \notin broken,
           m = Len(ws) \/ ws[m + 1] \in broken
    PROVE  Write(ws) = SubSeq(ws, 1, m)
<1> DEFINE good == {k \in 0..Len(ws) : \A j \in 1..k : ws[j] \notin broken}
<1>1. m \in good
  OBVIOUS
<1>2. ASSUME NEW k \in good PROVE k <= m
  <2>1. CASE m = Len(ws)
    BY <2>1
  <2>2. CASE ws[m + 1] \in broken
    <3> SUFFICES ASSUME k > m PROVE FALSE
      OBVIOUS
    <3>1. m + 1 \in 1..k
      OBVIOUS
    <3> QED
      BY <2>2, <3>1
  <2> QED
    BY <2>1, <2>2
<1>3. ASSUME NEW k \in good, \A j \in good : j <= k PROVE k = m
  BY <1>1, <1>2, <1>3
<1>4. (CHOOSE k \in good : \A j \in good : j <= k) = m
  <2> HIDE DEF good
  <2> QED
    BY <1>1, <1>2, <1>3
<1> QED
  BY <1>4 DEF Write

LEMMA WriteOne ==
    ASSUME NEW a
    PROVE  Write(<<a>>) = IF a \in broken THEN << >> ELSE <<a>>
<1>1. CASE a \in broken
  <2>1. Write(<<a>>) = SubSeq(<<a>>, 1, 0)
    BY <1>1, WriteStops
  <2> QED
    BY <1>1, <2>1
<1>2. CASE a \notin broken
  <2>1. Write(<<a>>) = SubSeq(<<a>>, 1, 1)
    BY <1>2, WriteStops
  <2> QED
    BY <1>2, <2>1
<1> QED
  BY <1>1, <1>2

LEMMA WriteTwo ==
    ASSUME NEW a, NEW b
    PROVE  Write(<<a, b>>) = IF a \in broken THEN << >> ELSE IF b \in broken THEN <<a>> ELSE <<a, b>>
<1>1. CASE a \in broken
  <2>1. Write(<<a, b>>) = SubSeq(<<a, b>>, 1, 0)
    BY <1>1, WriteStops
  <2> QED
    BY <1>1, <2>1
<1>2. CASE a \notin broken /\ b \in broken
  <2> DEFINE ws == <<a, b>>
  <2>1. Len(ws) = 2 /\ ws[1] = a /\ ws[1 + 1] = b
    OBVIOUS
  <2>2. 1 \in 0..Len(ws) /\ Len(ws) \in Nat /\ \A j \in 1..1 : ws[j] \notin broken
    BY <1>2, <2>1
  <2>3. Write(ws) = SubSeq(ws, 1, 1)
    <3> HIDE DEF ws
    <3> QED
      BY <1>2, <2>1, <2>2, WriteStops
  <2> QED
    BY <1>2, <2>3
<1>3. CASE a \notin broken /\ b \notin broken
  <2>1. \A j \in 1..2 : <<a, b>>[j] \notin broken
    BY <1>3
  <2>2. Write(<<a, b>>) = SubSeq(<<a, b>>, 1, 2)
    BY <1>3, <2>1, WriteStops
  <2> QED
    BY <1>3, <2>2
<1> QED
  BY <1>1, <1>2, <1>3

LEMMA DestinationsFinite == ASSUME NEW S \in SUBSET Destinations PROVE IsFiniteSet(S)
<1>1. IsFiniteSet({"stdout"}) /\ IsFiniteSet({"app.log"}) /\ IsFiniteSet({"error.log"})
  BY FS_Singleton
<1>2. Destinations = {"stdout"} \cup ({"app.log"} \cup {"error.log"})
  BY DEF Destinations
<1>3. IsFiniteSet(Destinations)
  BY <1>1, <1>2, FS_Union
<1> QED
  BY <1>3, FS_Subset

LEMMA BrokenOnce ==
    ASSUME broken \subseteq Destinations, Cardinality(broken) <= 1, NEW a \in broken, NEW b \in broken
    PROVE  a = b
<1>1. IsFiniteSet(broken) /\ Cardinality(broken) \in Nat
  BY DestinationsFinite, FS_CardinalityType
<1>2. Cardinality(broken) = 1
  BY <1>1, FS_EmptySet
<1> QED
  BY <1>1, <1>2, FS_Singleton

\* The destinations one Write reaches, each once.
LEMMA WriteOneReaches ==
    ASSUME NEW a
    PROVE  /\ Write(<<a>>) \in Seq({a}) /\ IsInjective(Write(<<a>>))
           /\ ToSet(Write(<<a>>)) = {a} \ broken
<1>1. << >> \in Seq({a}) /\ IsInjective(<< >>) /\ ToSet(<< >>) = {}
  BY DEF IsInjective, ToSet
<1>2. <<a>> \in Seq({a}) /\ IsInjective(<<a>>) /\ ToSet(<<a>>) = {a}
  BY DEF IsInjective, ToSet
<1> QED
  BY <1>1, <1>2, WriteOne

LEMMA WriteTwoReaches ==
    ASSUME NEW a, NEW b, a # b
    PROVE  /\ Write(<<a, b>>) \in Seq({a, b}) /\ IsInjective(Write(<<a, b>>))
           /\ ToSet(Write(<<a, b>>)) = IF a \in broken THEN {} ELSE {a, b} \ broken
<1>1. << >> \in Seq({a, b}) /\ IsInjective(<< >>) /\ ToSet(<< >>) = {}
  BY DEF IsInjective, ToSet
<1>2. <<a>> \in Seq({a, b}) /\ IsInjective(<<a>>) /\ ToSet(<<a>>) = {a}
  BY DEF IsInjective, ToSet
<1>3. <<a, b>> \in Seq({a, b}) /\ DOMAIN <<a, b>> = {1, 2} /\ <<a, b>>[1] = a /\ <<a, b>>[2] = b
  OBVIOUS
<1>4. IsInjective(<<a, b>>) /\ ToSet(<<a, b>>) = {a, b}
  BY <1>3 DEF IsInjective, ToSet
<1>5. CASE a \in broken
  BY <1>1, <1>5, WriteTwo
<1>6. CASE a \notin broken /\ b \in broken
  BY <1>2, <1>6, WriteTwo
<1>7. CASE a \notin broken /\ b \notin broken
  BY <1>3, <1>4, <1>7, WriteTwo
<1> QED
  BY <1>5, <1>6, <1>7

\* Two Writes whose destinations differ.
LEMMA TwoWrites ==
    ASSUME NEW S, NEW T, S \cap T = {}, NEW s \in Seq(S), NEW t \in Seq(T),
           IsInjective(s), IsInjective(t)
    PROVE  IsInjective(s \o t) /\ ToSet(s \o t) = ToSet(s) \cup ToSet(t)
<1>1. Len(s \o t) = Len(s) + Len(t) /\ Len(s) \in Nat /\ Len(t) \in Nat
  OBVIOUS
<1>2. DOMAIN (s \o t) = 1..(Len(s) + Len(t)) /\ DOMAIN s = 1..Len(s) /\ DOMAIN t = 1..Len(t)
  OBVIOUS
<1>3. \A k \in 1..Len(s) : (s \o t)[k] = s[k] /\ s[k] \in S
  OBVIOUS
<1>4. \A k \in 1..Len(t) : (s \o t)[k + Len(s)] = t[k] /\ t[k] \in T
  OBVIOUS
<1>5. \A k \in (Len(s) + 1)..(Len(s) + Len(t)) :
         k - Len(s) \in 1..Len(t) /\ (s \o t)[k] = t[k - Len(s)] /\ t[k - Len(s)] \in T
  BY <1>1
<1>6. IsInjective(s \o t)
  BY <1>1, <1>2, <1>3, <1>5 DEF IsInjective
<1>7. ToSet(s \o t) = ToSet(s) \cup ToSet(t)
  <2>1. ASSUME NEW x \in ToSet(s \o t) PROVE x \in ToSet(s) \cup ToSet(t)
    BY <1>1, <1>2, <1>3, <1>5 DEF ToSet
  <2>2. ASSUME NEW x \in ToSet(s) PROVE x \in ToSet(s \o t)
    BY <1>1, <1>2, <1>3 DEF ToSet
  <2>3. ASSUME NEW x \in ToSet(t) PROVE x \in ToSet(s \o t)
    <3>1. PICK k \in 1..Len(t) : x = t[k]
      BY <1>2 DEF ToSet
    <3>2. k + Len(s) \in DOMAIN (s \o t) /\ (s \o t)[k + Len(s)] = x
      BY <1>1, <1>2, <1>4, <3>1
    <3> QED
      BY <3>2 DEF ToSet
  <2> QED
    BY <2>1, <2>2, <2>3
<1> QED
  BY <1>6, <1>7

LEMMA NewLineArrives ==
    ASSUME stage = "running", SettingsInv, broken \subseteq Destinations,
           NEW l, l.level \in {"info", "error"}, Enabled(l.level), l.to = Reached(l.level)
    PROVE  Arrived(l, wanted, broken)
<1>1. wanted = cfg /\ cfg.level \in {"info", "error"} /\ cfg.mode \in {"dev", "prod"}
  BY DEF SettingsInv, Levels, Modes
<1>2. CASE cfg.mode = "dev"
  <2>1. Takes(cfg.level, l.level)
    BY <1>2 DEF Enabled
  <2>2. Due(wanted, l.level) = {"stdout"}
    BY <1>1, <1>2, <2>1 DEF Due
  <2>3. l.to = Write(<<"stdout">>)
    BY <1>2, <2>1 DEF Reached
  <2>4. IsInjective(l.to) /\ ToSet(l.to) = {"stdout"} \ broken
    BY <2>3, WriteOneReaches
  <2> QED
    BY <1>1, <1>2, <2>2, <2>4 DEF Arrived
<1>3. CASE cfg.mode = "prod" /\ l.level = "info"
  <2>1. Takes(cfg.level, "info") /\ cfg.level = "info"
    BY <1>1, <1>3 DEF Enabled, Takes
  <2>2. CASE cfg.console = "true"
    <3>1. Due(wanted, l.level) = {"app.log", "stdout"}
      BY <1>1, <1>3, <2>1, <2>2 DEF Due, Destinations
    <3>2. l.to = Write(<<"stdout", "app.log">>)
      BY <1>3, <2>1, <2>2 DEF Reached, Handle, AppWriters
    <3>3. /\ IsInjective(l.to)
          /\ ToSet(l.to) = IF "stdout" \in broken THEN {} ELSE {"stdout", "app.log"} \ broken
      <4>1. "stdout" # "app.log"
        OBVIOUS
      <4>2. /\ IsInjective(Write(<<"stdout", "app.log">>))
            /\ ToSet(Write(<<"stdout", "app.log">>))
                 = IF "stdout" \in broken THEN {} ELSE {"stdout", "app.log"} \ broken
        BY <4>1, WriteTwoReaches
      <4> QED
        BY <3>2, <4>2
    <3> QED
      BY <1>1, <1>3, <3>1, <3>3 DEF Arrived
  <2>3. CASE cfg.console # "true"
    <3>1. Due(wanted, l.level) = {"app.log"}
      BY <1>1, <1>3, <2>1, <2>3 DEF Due, Destinations
    <3>2. l.to = Write(<<"app.log">>)
      BY <1>3, <2>1, <2>3 DEF Reached, Handle, AppWriters
    <3>3. /\ IsInjective(l.to)
          /\ ToSet(l.to) = {"app.log"} \ broken
      BY <3>2, WriteOneReaches
    <3> QED
      BY <1>1, <1>3, <3>1, <3>3 DEF Arrived
  <2> QED
    BY <2>2, <2>3
<1>4. CASE cfg.mode = "prod" /\ l.level = "error"
  <2>1. Takes(cfg.level, "error") /\ Due(wanted, l.level) = {"app.log", "error.log", "stdout"}
    BY <1>1, <1>4 DEF Takes, Due, Destinations
  <2>2. CASE cfg.console = "true"
    <3>1. l.to = Write(<<"stdout", "app.log">>) \o Write(<<"error.log">>)
      BY <1>4, <2>1, <2>2 DEF Reached, Handle, AppWriters, ErrWriters
    <3>2. /\ IsInjective(l.to)
          /\ ToSet(l.to) = (IF "stdout" \in broken THEN {} ELSE {"stdout", "app.log"} \ broken)
                           \cup ({"error.log"} \ broken)
      <4> DEFINE s == Write(<<"stdout", "app.log">>)
                 t == Write(<<"error.log">>)
      <4>1. "stdout" # "app.log" /\ {"stdout", "app.log"} \cap {"error.log"} = {}
        OBVIOUS
      <4>2. /\ s \in Seq({"stdout", "app.log"}) /\ IsInjective(s)
            /\ ToSet(s) = IF "stdout" \in broken THEN {} ELSE {"stdout", "app.log"} \ broken
        BY <4>1, WriteTwoReaches
      <4>3. t \in Seq({"error.log"}) /\ IsInjective(t) /\ ToSet(t) = {"error.log"} \ broken
        BY WriteOneReaches
      <4>4. l.to = s \o t
        BY <3>1
      <4> HIDE DEF s, t
      <4> QED
        BY <4>1, <4>2, <4>3, <4>4, TwoWrites
    <3>3. Cardinality(broken) <= 1 => ~({"stdout", "error.log"} \subseteq broken)
                                      /\ ~({"app.log", "error.log"} \subseteq broken)
      BY BrokenOnce
    <3> QED
      BY <1>1, <1>4, <2>1, <3>2, <3>3 DEF Arrived
  <2>3. CASE cfg.console # "true"
    <3>1. l.to = Write(<<"app.log">>) \o Write(<<"stdout", "error.log">>)
      BY <1>4, <2>1, <2>3 DEF Reached, Handle, AppWriters, ErrWriters
    <3>2. /\ IsInjective(l.to)
          /\ ToSet(l.to) = ({"app.log"} \ broken)
                           \cup (IF "stdout" \in broken THEN {} ELSE {"stdout", "error.log"} \ broken)
      <4> DEFINE s == Write(<<"stdout", "error.log">>)
                 t == Write(<<"app.log">>)
      <4>1. "stdout" # "error.log" /\ {"app.log"} \cap {"stdout", "error.log"} = {}
        OBVIOUS
      <4>2. /\ s \in Seq({"stdout", "error.log"}) /\ IsInjective(s)
            /\ ToSet(s) = IF "stdout" \in broken THEN {} ELSE {"stdout", "error.log"} \ broken
        BY <4>1, WriteTwoReaches
      <4>3. t \in Seq({"app.log"}) /\ IsInjective(t) /\ ToSet(t) = {"app.log"} \ broken
        BY WriteOneReaches
      <4>4. l.to = t \o s
        BY <3>1
      <4> HIDE DEF s, t
      <4>5. IsInjective(t \o s) /\ ToSet(t \o s) = ToSet(t) \cup ToSet(s)
        BY <4>1, <4>2, <4>3, TwoWrites
      <4> QED
        BY <4>2, <4>3, <4>4, <4>5
    <3>3. Cardinality(broken) <= 1 => ~({"app.log", "stdout"} \subseteq broken)
                                      /\ ~({"app.log", "error.log"} \subseteq broken)
      BY BrokenOnce
    <3> QED
      BY <1>1, <1>4, <2>1, <3>2, <3>3 DEF Arrived
  <2> QED
    BY <2>2, <2>3
<1> QED
  BY <1>1, <1>2, <1>3, <1>4

\* Destinations that break later change nothing about a line that was written before.
LEMMA ArrivedStays ==
    ASSUME NEW l, NEW w, NEW b, NEW c \in SUBSET Destinations, b \subseteq c, Arrived(l, w, b)
    PROVE  Arrived(l, w, c)
<1>1. IsFiniteSet(c)
  BY DestinationsFinite
<1>2. /\ Cardinality(b) \in Nat /\ Cardinality(c) \in Nat
      /\ Cardinality(b) <= Cardinality(c)
  BY <1>1, FS_Subset, FS_CardinalityType
<1> QED
  BY <1>2 DEF Arrived
-----------------------------------------------------------------------------
(* Handlers: a derived logger remembers its own derivation.                *)

Mods == [kind : {"attr", "group"}, by : Requests \cup {"service"}]

Handlers == [arr : Nat, len : Nat, cap : Nat, base : Seq(Mods), grouped : BOOLEAN]

\* Among the arrays a that of handler h holds its own derivation, and nothing beyond it.
Remembers(a, h) ==
    /\ h \in Handlers
    /\ h.grouped = (Groups(h.base) > 0)
    /\ h.arr \in 1..Len(a) /\ a[h.arr] = h.base /\ h.len = Len(h.base)

LEMMA GroupsType == ASSUME NEW chain \in Seq(Mods) PROVE Groups(chain) \in Nat
<1>1. IsFiniteSet(1..Len(chain))
  BY FS_Interval
<1>2. IsFiniteSet({k \in 1..Len(chain) : chain[k].kind = "group"})
  BY <1>1, FS_Subset
<1> QED
  BY <1>2, FS_CardinalityType DEF Groups

LEMMA NoGroups == Groups(<< >>) = 0
<1>1. {k \in 1..Len(<< >>) : << >>[k].kind = "group"} = {}
  OBVIOUS
<1> QED
  BY <1>1, FS_EmptySet DEF Groups

LEMMA HandlerType ==
    ASSUME NEW arr \in Nat, NEW len \in Nat, NEW cap \in Nat, NEW base \in Seq(Mods)
    PROVE  /\ Handler(arr, len, cap, base) \in Handlers
           /\ Handler(arr, len, cap, base).grouped = (Groups(base) > 0)
<1>1. (Groups(base) > 0) \in BOOLEAN
  BY GroupsType
<1> QED
  BY <1>1 DEF Handler, Handlers

\* Deriving from a clipped slice leaves every array as it is and makes a new one.
LEMMA WithRemembers ==
    ASSUME arrays \in Seq(Seq(Mods)), NEW h, Remembers(arrays, h), NEW mod \in Mods,
           arrays' = With(h, mod).arrays, NEW g, g = With(h, mod).handler
    PROVE  /\ arrays' \in Seq(Seq(Mods))
           /\ Len(arrays') = Len(arrays) + 1 /\ \A k \in 1..Len(arrays) : arrays'[k] = arrays[k]
           /\ Remembers(arrays', g)
<1> DEFINE s == Clipped(h)
           mods == Append(h.base, mod)
<1>1. s.len = h.len /\ s.cap = h.len /\ h.len \in Nat /\ h.len = Len(h.base)
  BY DEF Clipped, Remembers, Handlers
<1>2. h.base \in Seq(Mods) /\ SubSeq(arrays[h.arr], 1, h.len) = h.base
  BY DEF Remembers, Handlers
<1>3. mods \in Seq(Mods) /\ Len(mods) = h.len + 1
  BY <1>1, <1>2
<1>4. ~(s.len < s.cap)
  BY <1>1
<1>5. arrays' = Append(arrays, mods) /\ g = Handler(Len(arrays) + 1, s.len + 1, Grown(s.len), mods)
  BY <1>2, <1>4 DEF With
<1>6. Grown(s.len) \in Nat /\ s.len + 1 \in Nat /\ Len(arrays) + 1 \in Nat
  BY <1>1 DEF Grown
<1>7. g.arr = Len(arrays) + 1 /\ g.len = h.len + 1 /\ g.base = mods
  BY <1>1, <1>5 DEF Handler
<1> HIDE DEF mods, s
<1>8. /\ arrays' \in Seq(Seq(Mods)) /\ Len(arrays') = Len(arrays) + 1
      /\ arrays'[Len(arrays) + 1] = mods /\ \A k \in 1..Len(arrays) : arrays'[k] = arrays[k]
  BY <1>3, <1>5
<1>9. g \in Handlers /\ g.grouped = (Groups(mods) > 0)
  <2>1. g = Handler(Len(arrays) + 1, s.len + 1, Grown(s.len), mods)
    BY <1>5
  <2>2. s.len + 1 \in Nat /\ Grown(s.len) \in Nat /\ Len(arrays) + 1 \in Nat /\ mods \in Seq(Mods)
    BY <1>3, <1>6
  <2>3. /\ Handler(Len(arrays) + 1, s.len + 1, Grown(s.len), mods) \in Handlers
        /\ Handler(Len(arrays) + 1, s.len + 1, Grown(s.len), mods).grouped = (Groups(mods) > 0)
    BY <2>2, HandlerType, Zenon
  <2> QED
    BY <2>1, <2>3, Zenon
<1>10. Remembers(arrays', g)
  BY <1>3, <1>7, <1>8, <1>9 DEF Remembers
<1> QED
  BY <1>8, <1>10
-----------------------------------------------------------------------------
(* Requests and their lines.                                               *)

Lines == [what : {"entry", "panic", "access"}, level : {"info", "error"}, id : Requests,
          status : {200, 500}, chain : Seq(Mods), inside : Nat, derived : Seq(Mods),
          to : Seq(Destinations)]

RequestTyping ==
    /\ broken \subseteq Destinations
    /\ arrays \in Seq(Seq(Mods)) /\ logger \in [Requests -> Handlers]
    /\ pc \in [Requests -> {"new", "handler", "recovery", "access", "done"}]
    /\ status \in [Requests -> {200, 500}]
    /\ began \in [Requests -> BOOLEAN] /\ panicked \in [Requests -> BOOLEAN]
    /\ lines \in [Requests -> Seq(Lines)]

\* Requests begin when the service runs; the loggers they use are well derived.
LoggersInv ==
    /\ stage # "running" => \A r \in Requests : pc[r] = "new"
    /\ stage = "running" => Remembers(arrays, parent)
    /\ \A r \in Requests : pc[r] # "new" => Remembers(arrays, logger[r])

\* How many records of an access and of a panic request r has by now.
Accesses(r) == IF pc[r] = "done" /\ wanted.level = "info" THEN 1 ELSE 0
Panics(r) == IF panicked[r] /\ pc[r] \in {"access", "done"} THEN 1 ELSE 0

\* What the middlewares of r have written so far: entries, then the panic, then the access.
CourseOf(r) ==
    LET n == Len(lines[r])
    IN  /\ pc[r] = "new" => lines[r] = << >>
        /\ pc[r] \in {"new", "handler"} => ~panicked[r]
        /\ pc[r] = "recovery" => panicked[r]
        /\ pc[r] \in {"new", "handler", "recovery"} => status[r] = 200
        /\ pc[r] \in {"access", "done"} => (status[r] = 500 <=> panicked[r] /\ ~began[r])
        /\ n >= Accesses(r) + Panics(r)
        /\ \A k \in 1..n :
              /\ lines[r][k].what = IF k > n - Accesses(r) THEN "access"
                                    ELSE IF k > n - Accesses(r) - Panics(r) THEN "panic"
                                    ELSE "entry"
              /\ lines[r][k].what = "access" => lines[r][k].status = status[r]

CourseInv == \A r \in Requests : CourseOf(r)

\* Each line so far shows its logger and has arrived.
LinesInv ==
    \A r \in Requests : \A k \in 1..Len(lines[r]) :
        /\ lines[r][k].chain = lines[r][k].derived /\ lines[r][k].inside = 0
        /\ Arrived(lines[r][k], wanted, broken)

RequestInv == SettingsInv /\ RequestTyping /\ LoggersInv /\ CourseInv /\ LinesInv

LEMMA RequestInitInv == RequestInit => RequestInv
<1> SUFFICES ASSUME RequestInit PROVE RequestInv
  OBVIOUS
<1>1. SettingsInv /\ stage = "file" /\ broken = {}
  BY SettingsInit DEF RequestInit, StartInit
<1>2. << >> \in Seq(Seq(Mods)) /\ << >> \in Seq(Mods) /\ << >> \in Seq(Lines)
  OBVIOUS
<1>3. parent \in Handlers
  BY <1>2, HandlerType DEF RequestInit
<1>4. RequestTyping
  BY <1>1, <1>2, <1>3 DEF RequestInit, RequestTyping
<1>5. \A r \in Requests : pc[r] = "new" /\ lines[r] = << >> /\ ~panicked[r] /\ status[r] = 200
  BY DEF RequestInit
<1>6. LoggersInv
  BY <1>1, <1>5 DEF LoggersInv
<1>7. CourseInv
  <2>1. \A r \in Requests : Accesses(r) = 0 /\ Panics(r) = 0 /\ Len(lines[r]) = 0
    BY <1>5 DEF Accesses, Panics
  <2> QED
    BY <1>5, <2>1 DEF CourseInv, CourseOf
<1>8. LinesInv
  BY <1>5 DEF LinesInv
<1> QED
  BY <1>1, <1>4, <1>6, <1>7, <1>8 DEF RequestInv

LEMMA WriteType ==
    ASSUME NEW a \in Destinations, NEW b \in Destinations
    PROVE  Write(<<a>>) \in Seq(Destinations) /\ Write(<<a, b>>) \in Seq(Destinations)
<1>1. /\ << >> \in Seq(Destinations) /\ <<a>> \in Seq(Destinations)
      /\ <<a, b>> \in Seq(Destinations)
  OBVIOUS
<1>2. Write(<<a>>) \in {<< >>, <<a>>}
  BY WriteOne
<1>3. Write(<<a, b>>) \in {<< >>, <<a>>, <<a, b>>}
  BY WriteTwo
<1> QED
  BY <1>1, <1>2, <1>3

LEMMA ReachedType == ASSUME NEW level PROVE Reached(level) \in Seq(Destinations)
<1>1. "stdout" \in Destinations /\ "app.log" \in Destinations /\ "error.log" \in Destinations
  BY DEF Destinations
<1>2. /\ Write(<<"stdout">>) \in Seq(Destinations)
      /\ Write(AppWriters) \in Seq(Destinations) /\ Write(ErrWriters) \in Seq(Destinations)
  BY <1>1, WriteType DEF AppWriters, ErrWriters
<1>3. << >> \in Seq(Destinations)
  OBVIOUS
<1>4. Handle(level) \in Seq(Destinations)
  BY <1>2, <1>3 DEF Handle
<1> QED
  BY <1>2, <1>3, <1>4 DEF Reached

\* One more record of request r, from a logger that is well derived: no line changes, and
\* the new one, if the level is taken, shows its logger and arrives.
LEMMA LoggedKeeps ==
    ASSUME RequestInv, stage = "running", NEW r \in Requests, NEW h \in Handlers,
           h.grouped = (Groups(h.base) > 0), Fast(h) \/ Remembers(arrays, h),
           NEW what \in {"entry", "panic", "access"}, NEW level \in {"info", "error"},
           Logged(r, what, level, h), UNCHANGED <<stage, cfg, wanted, broken>>
    PROVE  /\ lines' \in [Requests -> Seq(Lines)]
           /\ LinesInv'
           /\ \A q \in Requests \ {r} : lines'[q] = lines[q]
           /\ IF Enabled(level)
                THEN \E l : lines'[r] = Append(lines[r], l) /\ l.what = what /\ l.status = status[r]
                ELSE lines'[r] = lines[r]
<1> DEFINE l == LineOf(r, what, level, h)
<1>1. CASE ~Enabled(level)
  <2>1. lines' = lines
    BY <1>1 DEF Logged
  <2>2. LinesInv'
    BY <2>1, ArrivedStays DEF RequestInv, RequestTyping, LinesInv
  <2> QED
    BY <1>1, <2>1, <2>2 DEF RequestInv, RequestTyping
<1>2. CASE Enabled(level)
  <2>1. h.base \in Seq(Mods) /\ Groups(h.base) \in Nat /\ status[r] \in {200, 500}
    BY GroupsType DEF Handlers, RequestInv, RequestTyping
  <2>2. ASSUME ~Fast(h) PROVE SubSeq(arrays[h.arr], 1, h.len) = h.base
    BY <2>1, <2>2 DEF Remembers
  <2>9. ASSUME Fast(h) PROVE Groups(h.base) = 0
    <3>1. ~(Groups(h.base) > 0)
      BY <2>9 DEF Fast
    <3> QED
      BY <2>1, <3>1
  <2>3. /\ l.what = what /\ l.level = level /\ l.status = status[r] /\ l.id = r
        /\ l.derived = h.base /\ l.to = Reached(level)
        /\ l.chain = h.base /\ l.inside = 0
    BY <2>2, <2>9 DEF LineOf
  <2>4. l \in Lines
    BY <2>1, <2>2, ReachedType DEF LineOf, Fast, Lines
  <2>6. lines' = [lines EXCEPT ![r] = Append(@, l)]
    BY <1>2 DEF Logged
  <2> HIDE DEF l
  <2>5. Arrived(l, wanted, broken)
    <3>1. l.level \in {"info", "error"} /\ Enabled(l.level) /\ l.to = Reached(l.level)
      BY <1>2, <2>3
    <3>2. SettingsInv /\ broken \subseteq Destinations
      BY DEF RequestInv, RequestTyping
    <3> QED
      BY <3>1, <3>2, NewLineArrives
  <2>7. /\ lines' \in [Requests -> Seq(Lines)] /\ lines[r] \in Seq(Lines)
        /\ lines'[r] = Append(lines[r], l) /\ \A q \in Requests \ {r} : lines'[q] = lines[q]
    BY <2>4, <2>6 DEF RequestInv, RequestTyping
  <2>8. LinesInv'
    <3> SUFFICES ASSUME NEW q \in Requests, NEW k \in 1..Len(lines'[q])
                 PROVE  /\ lines'[q][k].chain = lines'[q][k].derived /\ lines'[q][k].inside = 0
                        /\ Arrived(lines[q][k], wanted, broken)'
      BY DEF LinesInv
    <3>1. CASE q = r /\ k = Len(lines[r]) + 1
      <4>1. lines'[q][k] = l
        BY <2>7, <3>1
      <4> QED
        BY <2>3, <2>5, <4>1, ArrivedStays DEF RequestInv, RequestTyping
    <3>2. CASE ~(q = r /\ k = Len(lines[r]) + 1)
      <4>1. k \in 1..Len(lines[q]) /\ lines'[q][k] = lines[q][k]
        BY <2>7, <3>2
      <4> QED
        BY <4>1, ArrivedStays DEF RequestInv, RequestTyping, LinesInv
    <3> QED
      BY <3>1, <3>2
  <2> QED
    BY <1>2, <2>3, <2>7, <2>8
<1> QED
  BY <1>1, <1>2

LEMMA SeqGrows == ASSUME NEW A, NEW B, A \subseteq B, NEW s \in Seq(A) PROVE s \in Seq(B)
<1>1. Len(s) \in Nat /\ s = [k \in 1..Len(s) |-> s[k]] /\ \A k \in 1..Len(s) : s[k] \in A
  OBVIOUS
<1> QED
  BY <1>1

LEMMA ShapesOfMods == ASSUME NEW shape \in Shapes PROVE shape \in Seq(Mods)
<1> DEFINE Own == [kind : {"attr", "group"}, by : {"service"}]
<1>1. Own \subseteq Mods
  BY DEF Mods
<1>2. shape \in Seq(Own)
  BY ShapesAssumption
<1> HIDE DEF Own
<1> QED
  BY <1>1, <1>2, SeqGrows

LEMMA StartUpKeeps == RequestInv /\ StartUp => RequestInv'
<1> SUFFICES ASSUME RequestInv, StartUp PROVE RequestInv'
  OBVIOUS
<1>1. SettingsInv' /\ stage \in {"file", "env", "init"}
  BY SettingsNext DEF StartUp, RequestInv, Start, LoadFile, OverrideFromEnv, InitLogx
<1>2. UNCHANGED <<requestVars, wanted, broken>>
  BY DEF StartUp, Start, LoadFile, OverrideFromEnv, InitLogx
<1>3. \A r \in Requests : pc[r] = "new" /\ pc'[r] = "new" /\ lines'[r] = << >> /\ lines[r] = << >>
  BY <1>1, <1>2 DEF requestVars, RequestInv, LoggersInv, CourseInv, CourseOf
<1>4. arrays' \in Seq(Seq(Mods)) /\ (stage' = "running" => Remembers(arrays', parent'))
  <2>1. CASE stage' = "running"
    <3>1. PICK shape \in Shapes : /\ arrays' = <<shape>>
                                 /\ parent' = Handler(1, Len(shape), CapOf(Len(shape)), shape)
      BY <2>1 DEF StartUp
    <3>3. shape \in Seq(Mods)
      BY ShapesOfMods
    <3>4. Len(shape) \in Nat /\ CapOf(Len(shape)) \in Nat
      BY <3>3 DEF CapOf, Grown
    <3>5. parent' \in Handlers /\ parent'.grouped = (Groups(parent'.base) > 0)
      BY <3>1, <3>3, <3>4, HandlerType DEF Handler
    <3>6. /\ arrays' \in Seq(Seq(Mods)) /\ Len(arrays') = 1 /\ arrays'[1] = shape
          /\ parent'.arr = 1 /\ parent'.len = Len(shape) /\ parent'.base = shape
      BY <3>1, <3>3 DEF Handler
    <3>7. Remembers(arrays', parent')
      BY <3>5, <3>6 DEF Remembers
    <3> QED
      BY <3>6, <3>7
  <2>2. CASE stage' # "running"
    BY <2>2 DEF StartUp, RequestInv, RequestTyping
  <2> QED
    BY <2>1, <2>2
<1>5. RequestTyping' /\ LoggersInv'
  BY <1>2, <1>3, <1>4 DEF requestVars, RequestInv, RequestTyping, LoggersInv
<1>6. CourseInv'
  <2>1. \A r \in Requests : Accesses(r)' = Accesses(r) /\ Panics(r)' = Panics(r)
    BY <1>2 DEF requestVars, Accesses, Panics
  <2> QED
    BY <1>2, <2>1 DEF requestVars, RequestInv, CourseInv, CourseOf
<1>7. LinesInv'
  BY <1>3 DEF LinesInv
<1> QED
  BY <1>1, <1>5, <1>6, <1>7 DEF RequestInv

LEMMA BreakKeeps == RequestInv /\ BreakOne => RequestInv'
<1> SUFFICES ASSUME RequestInv, BreakOne PROVE RequestInv'
  OBVIOUS
<1>1. /\ UNCHANGED <<stage, cfg, wanted, arrays, parent, requestVars>> /\ stage = "running"
      /\ broken \subseteq broken' /\ broken' \subseteq Destinations
  BY DEF BreakOne, Break, RequestInv, RequestTyping
<1>2. SettingsInv'
  BY <1>1 DEF RequestInv, SettingsInv
<1>3. RequestTyping' /\ LoggersInv'
  BY <1>1 DEF requestVars, RequestInv, RequestTyping, LoggersInv, Remembers
<1>4. CourseInv'
  <2>1. \A r \in Requests : Accesses(r)' = Accesses(r) /\ Panics(r)' = Panics(r)
    BY <1>1 DEF requestVars, Accesses, Panics
  <2> QED
    BY <1>1, <2>1 DEF requestVars, RequestInv, CourseInv, CourseOf
<1>5. LinesInv'
  BY <1>1, ArrivedStays DEF requestVars, RequestInv, LinesInv
<1> QED
  BY <1>2, <1>3, <1>4, <1>5 DEF RequestInv

\* A step of request r leaves the others where they are.
LEMMA OneMoves ==
    ASSUME RequestInv, stage = "running", NEW r \in Requests, UNCHANGED <<startVars, parent>>,
           \A q \in Requests \ {r} : /\ pc'[q] = pc[q] /\ logger'[q] = logger[q]
                                     /\ status'[q] = status[q] /\ began'[q] = began[q]
                                     /\ panicked'[q] = panicked[q] /\ lines'[q] = lines[q],
           Len(arrays) <= Len(arrays'), \A k \in 1..Len(arrays) : arrays'[k] = arrays[k],
           RequestTyping', LinesInv', Remembers(arrays', logger'[r]), CourseOf(r)'
    PROVE  RequestInv'
<1>1. SettingsInv'
  BY DEF startVars, RequestInv, SettingsInv
<1>2. ASSUME NEW h, Remembers(arrays, h) PROVE Remembers(arrays', h)
  <2>1. /\ h \in Handlers /\ h.grouped = (Groups(h.base) > 0) /\ h.len = Len(h.base)
        /\ h.arr \in 1..Len(arrays) /\ arrays[h.arr] = h.base
    BY <1>2 DEF Remembers
  <2>2. Len(arrays) \in Nat /\ Len(arrays') \in Nat
    BY DEF RequestInv, RequestTyping
  <2>3. h.arr \in 1..Len(arrays') /\ arrays'[h.arr] = h.base
    BY <2>1, <2>2
  <2> QED
    BY <2>1, <2>3 DEF Remembers
<1>3. LoggersInv'
  BY <1>2 DEF startVars, RequestInv, LoggersInv
<1>4. ASSUME NEW q \in Requests \ {r} PROVE CourseOf(q)'
  <2>1. Accesses(q)' = Accesses(q) /\ Panics(q)' = Panics(q)
    BY DEF startVars, Accesses, Panics
  <2> QED
    BY <2>1 DEF RequestInv, CourseInv, CourseOf
<1> QED
  BY <1>1, <1>3, <1>4 DEF RequestInv, CourseInv

LEMMA BeginKeeps == ASSUME RequestInv, NEW r \in Requests, Begin(r) PROVE RequestInv'
<1>1. /\ stage = "running" /\ pc[r] = "new" /\ pc' = [pc EXCEPT ![r] = "handler"]
      /\ logger' = [logger EXCEPT ![r] = parent]
      /\ UNCHANGED <<startVars, arrays, parent, status, began, panicked, lines>>
  BY DEF Begin, Goto
<1>2. Remembers(arrays, parent)
  BY <1>1 DEF RequestInv, LoggersInv
<1>3. parent \in Handlers
  BY <1>2 DEF Remembers
<1>4. RequestTyping'
  BY <1>1, <1>3 DEF startVars, RequestInv, RequestTyping
<1>5. pc'[r] = "handler" /\ logger'[r] = parent
  BY <1>1 DEF RequestInv, RequestTyping
<1>6. CourseOf(r)'
  <2>1. Accesses(r)' = 0 /\ Panics(r)' = 0
    BY <1>5 DEF Accesses, Panics
  <2>2. lines[r] = << >> /\ ~panicked[r] /\ status[r] = 200
    BY <1>1 DEF RequestInv, CourseInv, CourseOf
  <2> QED
    BY <1>1, <1>5, <2>1, <2>2 DEF CourseOf
<1>7. LinesInv'
  BY <1>1 DEF startVars, RequestInv, LinesInv
<1>8. \A q \in Requests \ {r} : pc'[q] = pc[q] /\ logger'[q] = logger[q]
  BY <1>1 DEF RequestInv, RequestTyping
<1>9. Len(arrays) <= Len(arrays')
  BY <1>1 DEF RequestInv, RequestTyping
<1> QED
  BY <1>1, <1>2, <1>4, <1>5, <1>6, <1>7, <1>8, <1>9, OneMoves

LEMMA Running ==
    ASSUME RequestInv, NEW r \in Requests, pc[r] # "new"
    PROVE  /\ stage = "running" /\ Remembers(arrays, logger[r])
           /\ Len(arrays) \in Nat
BY DEF RequestInv, RequestTyping, LoggersInv

LEMMA DeriveKeeps == ASSUME RequestInv, NEW r \in Requests, Derive(r) PROVE RequestInv'
<1>1. /\ pc[r] = "handler"
      /\ UNCHANGED <<startVars, parent, pc, status, began, panicked, lines>>
  BY DEF Derive
<1>2. stage = "running" /\ Remembers(arrays, logger[r])
  BY <1>1, Running
<1>3. PICK kind \in {"attr", "group"} :
         /\ arrays' = With(logger[r], [kind |-> kind, by |-> r]).arrays
         /\ logger' = [logger EXCEPT ![r] = With(logger[r], [kind |-> kind, by |-> r]).handler]
  BY DEF Derive
<1>4. [kind |-> kind, by |-> r] \in Mods
  BY DEF Mods
<1>5. logger'[r] = With(logger[r], [kind |-> kind, by |-> r]).handler
  BY <1>3 DEF RequestInv, RequestTyping
<1>6. /\ arrays' \in Seq(Seq(Mods)) /\ Len(arrays') = Len(arrays) + 1
      /\ \A k \in 1..Len(arrays) : arrays'[k] = arrays[k]
      /\ Remembers(arrays', logger'[r])
  BY <1>2, <1>3, <1>4, <1>5, WithRemembers DEF RequestInv, RequestTyping
<1>7. logger' \in [Requests -> Handlers] /\ \A q \in Requests \ {r} : logger'[q] = logger[q]
  BY <1>3, <1>5, <1>6 DEF RequestInv, RequestTyping, Remembers
<1>8. RequestTyping'
  BY <1>1, <1>6, <1>7 DEF startVars, RequestInv, RequestTyping
<1>9. CourseOf(r)'
  <2>1. Accesses(r)' = Accesses(r) /\ Panics(r)' = Panics(r)
    BY <1>1 DEF startVars, Accesses, Panics
  <2> QED
    BY <1>1, <2>1 DEF RequestInv, CourseInv, CourseOf
<1>10. LinesInv'
  BY <1>1 DEF startVars, RequestInv, LinesInv
<1>11. Len(arrays) <= Len(arrays')
  BY <1>1, <1>6, Running
<1> QED
  BY <1>1, <1>2, <1>6, <1>7, <1>8, <1>9, <1>10, <1>11, OneMoves

\* A response, a return and a panic: no line, no logger.
LEMMA HandlerKeeps ==
    ASSUME RequestInv, NEW r \in Requests, Respond(r) \/ Return(r) \/ Panic(r)
    PROVE  RequestInv'
<1>1. /\ pc[r] = "handler" /\ UNCHANGED <<startVars, arrays, parent, logger, status, lines>>
      /\ \A q \in Requests \ {r} :
            pc'[q] = pc[q] /\ began'[q] = began[q] /\ panicked'[q] = panicked[q]
  BY DEF Respond, Return, Panic, Goto, RequestInv, RequestTyping
<1>2. \/ pc'[r] \in {"handler", "access"} /\ ~panicked'[r]
      \/ pc'[r] = "recovery" /\ panicked'[r]
  <2>1. ~panicked[r]
    BY <1>1 DEF RequestInv, CourseInv, CourseOf
  <2>2. CASE Respond(r) \/ Return(r)
    BY <2>1, <2>2 DEF Respond, Return, Goto, RequestInv, RequestTyping
  <2>3. CASE Panic(r)
    BY <2>3 DEF Panic, Goto, RequestInv, RequestTyping
  <2> QED
    BY <2>2, <2>3
<1>3. stage = "running" /\ Remembers(arrays, logger[r]) /\ Len(arrays) \in Nat
  BY <1>1, Running
<1>4. RequestTyping'
  <2>1. CASE Respond(r)
    BY <1>1, <2>1 DEF Respond, startVars, RequestInv, RequestTyping
  <2>2. CASE Return(r)
    BY <1>1, <2>2 DEF Return, Goto, startVars, RequestInv, RequestTyping
  <2>3. CASE Panic(r)
    <3>1. pc' = [pc EXCEPT ![r] = "recovery"] /\ UNCHANGED began
      BY <2>3 DEF Panic, Goto
    <3>2. panicked' \in [Requests -> BOOLEAN]
      BY <2>3 DEF Panic, RequestInv, RequestTyping
    <3> QED
      BY <1>1, <3>1, <3>2 DEF startVars, RequestInv, RequestTyping
  <2> QED
    BY <2>1, <2>2, <2>3
<1>5. CourseOf(r)'
  <2>1. Accesses(r) = 0 /\ Panics(r) = 0 /\ Accesses(r)' = 0 /\ Panics(r)' = 0
    BY <1>1, <1>2 DEF Accesses, Panics
  <2>2. status[r] = 200 /\ Len(lines[r]) \in Nat
    BY <1>1 DEF RequestInv, RequestTyping, CourseInv, CourseOf
  <2> QED
    BY <1>1, <1>2, <2>1, <2>2 DEF RequestInv, CourseInv, CourseOf
<1>6. LinesInv'
  BY <1>1 DEF startVars, RequestInv, LinesInv
<1> QED
  BY <1>1, <1>3, <1>4, <1>5, <1>6, OneMoves

LEMMA LogKeeps == ASSUME RequestInv, NEW r \in Requests, Log(r) PROVE RequestInv'
<1>1. /\ pc[r] = "handler" /\ lines[r] = << >> /\ Logged(r, "entry", "error", logger[r])
      /\ UNCHANGED <<startVars, arrays, parent, logger, pc, status, began, panicked>>
  BY DEF Log
<1>2. stage = "running" /\ Remembers(arrays, logger[r]) /\ Len(arrays) \in Nat
  BY <1>1, Running
<1>3. logger[r] \in Handlers /\ logger[r].grouped = (Groups(logger[r].base) > 0)
  BY <1>2 DEF Remembers
<1>4. UNCHANGED <<stage, cfg, wanted, broken>>
  BY <1>1 DEF startVars
<1>5. /\ lines' \in [Requests -> Seq(Lines)] /\ LinesInv'
      /\ \A q \in Requests \ {r} : lines'[q] = lines[q]
      /\ lines'[r] = lines[r] \/ \E l : lines'[r] = Append(lines[r], l) /\ l.what = "entry"
  BY <1>1, <1>2, <1>3, <1>4, LoggedKeeps
<1>6. RequestTyping'
  BY <1>1, <1>5 DEF startVars, RequestInv, RequestTyping
<1>7. CourseOf(r)'
  <2>1. Accesses(r)' = 0 /\ Panics(r)' = 0
    BY <1>1 DEF Accesses, Panics
  <2>2. ~panicked[r] /\ status[r] = 200
    BY <1>1 DEF RequestInv, CourseInv, CourseOf
  <2>3. Len(lines'[r]) \in {0, 1} /\ \A k \in 1..Len(lines'[r]) : lines'[r][k].what = "entry"
    <3>1. CASE lines'[r] = << >>
      BY <3>1
    <3>2. ASSUME NEW l, lines'[r] = Append(<< >>, l), l.what = "entry"
          PROVE  Len(lines'[r]) = 1 /\ lines'[r][1].what = "entry"
      BY <3>2
    <3> QED
      BY <1>1, <1>5, <3>1, <3>2
  <2> QED
    BY <1>1, <2>1, <2>2, <2>3 DEF CourseOf
<1> QED
  BY <1>1, <1>2, <1>5, <1>6, <1>7, OneMoves

LEMMA DefaultPlain ==
    Default \in Handlers /\ Default.grouped = (Groups(Default.base) > 0) /\ Fast(Default)
<1>1. << >> \in Seq(Mods)
  OBVIOUS
<1>2. Default \in Handlers /\ Default.grouped = (Groups(<< >>) > 0) /\ Default.base = << >>
  BY <1>1, HandlerType DEF Default, Handler
<1>3. ~(Groups(<< >>) > 0)
  BY NoGroups
<1>4. Fast(Default)
  BY <1>2, <1>3 DEF Fast
<1> QED
  BY <1>2, <1>4

\* The record that Recovery or AccessLog writes comes after the others.
LEMMA RecoverKeeps == ASSUME RequestInv, NEW r \in Requests, Recover(r) PROVE RequestInv'
<1>1. /\ pc[r] = "recovery" /\ Logged(r, "panic", "error", Default)
      /\ UNCHANGED <<startVars, arrays, parent, logger, began, panicked>>
  BY DEF Recover
<1>2. /\ status' = [status EXCEPT ![r] = IF began[r] THEN @ ELSE 500]
      /\ pc' = [pc EXCEPT ![r] = "access"]
  BY DEF Recover, Goto, AfterRecovery
<1>3. stage = "running" /\ Remembers(arrays, logger[r]) /\ Len(arrays) \in Nat
  BY <1>1, Running
<1>4. UNCHANGED <<stage, cfg, wanted, broken>>
  BY <1>1 DEF startVars
<1>5. Enabled("error")
  BY DEF Enabled, Takes
<1>6. /\ lines' \in [Requests -> Seq(Lines)] /\ LinesInv'
      /\ \A q \in Requests \ {r} : lines'[q] = lines[q]
      /\ \E l : lines'[r] = Append(lines[r], l) /\ l.what = "panic"
  BY <1>1, <1>3, <1>4, <1>5, DefaultPlain, LoggedKeeps
<1>7. pc' \in [Requests -> {"new", "handler", "recovery", "access", "done"}] /\ pc'[r] = "access"
  BY <1>2 DEF RequestInv, RequestTyping
<1>8. status' \in [Requests -> {200, 500}] /\ status'[r] = IF began[r] THEN status[r] ELSE 500
  BY <1>2 DEF RequestInv, RequestTyping
<1>9. RequestTyping'
  BY <1>1, <1>6, <1>7, <1>8 DEF startVars, RequestInv, RequestTyping
<1>10. \A q \in Requests \ {r} : pc'[q] = pc[q] /\ status'[q] = status[q]
  BY <1>2 DEF RequestInv, RequestTyping
<1>11. CourseOf(r)'
  <2>1. panicked[r] /\ status[r] = 200 /\ Accesses(r) = 0 /\ Panics(r) = 0
    <3>1. CourseOf(r)
      BY DEF RequestInv, CourseInv
    <3>2. panicked[r] /\ status[r] = 200
      BY <1>1, <3>1 DEF CourseOf
    <3> QED
      BY <1>1, <3>2 DEF Accesses, Panics
  <2>2. Accesses(r)' = 0 /\ Panics(r)' = 1
    BY <1>1, <1>7, <2>1 DEF Accesses, Panics
  <2>3. lines[r] \in Seq(Lines) /\ \A k \in 1..Len(lines[r]) : lines[r][k].what = "entry"
    BY <2>1 DEF RequestInv, RequestTyping, CourseInv, CourseOf
  <2>4. /\ Len(lines'[r]) = Len(lines[r]) + 1 /\ Len(lines[r]) \in Nat
        /\ lines'[r][Len(lines[r]) + 1].what = "panic"
        /\ \A k \in 1..Len(lines[r]) : lines'[r][k].what = "entry"
    BY <1>6, <2>3
  <2>5. panicked'[r] /\ (status'[r] = 500 <=> panicked'[r] /\ ~began'[r])
    BY <1>1, <1>8, <2>1
  <2> QED
    BY <1>7, <2>2, <2>4, <2>5 DEF CourseOf
<1> QED
  BY <1>1, <1>3, <1>6, <1>9, <1>10, <1>11, OneMoves

LEMMA AccessKeeps == ASSUME RequestInv, NEW r \in Requests, Access(r) PROVE RequestInv'
<1>1. /\ pc[r] = "access" /\ Logged(r, "access", "info", Default)
      /\ pc' = [pc EXCEPT ![r] = "done"]
      /\ UNCHANGED <<startVars, arrays, parent, logger, status, began, panicked>>
  BY DEF Access, Goto
<1>2. stage = "running" /\ Remembers(arrays, logger[r]) /\ Len(arrays) \in Nat
  BY <1>1, Running
<1>3. UNCHANGED <<stage, cfg, wanted, broken>>
  BY <1>1 DEF startVars
<1>4. Enabled("info") <=> wanted.level = "info"
  BY <1>2 DEF Enabled, Takes, RequestInv, SettingsInv
<1>5. /\ lines' \in [Requests -> Seq(Lines)] /\ LinesInv'
      /\ \A q \in Requests \ {r} : lines'[q] = lines[q]
      /\ IF wanted.level = "info"
           THEN \E l : lines'[r] = Append(lines[r], l) /\ l.what = "access" /\ l.status = status[r]
           ELSE lines'[r] = lines[r]
  BY <1>1, <1>2, <1>3, <1>4, DefaultPlain, LoggedKeeps
<1>6. pc' \in [Requests -> {"new", "handler", "recovery", "access", "done"}] /\ pc'[r] = "done"
  BY <1>1 DEF RequestInv, RequestTyping
<1>7. RequestTyping'
  BY <1>1, <1>5, <1>6 DEF startVars, RequestInv, RequestTyping
<1>8. \A q \in Requests \ {r} : pc'[q] = pc[q]
  BY <1>1 DEF RequestInv, RequestTyping
<1>9. CourseOf(r)'
  <2>1. Accesses(r) = 0 /\ Panics(r)' = Panics(r) /\ Panics(r) \in {0, 1}
    BY <1>1, <1>6 DEF Accesses, Panics
  <2>2. Accesses(r)' = IF wanted.level = "info" THEN 1 ELSE 0
    BY <1>3, <1>6 DEF Accesses
  <2>3. /\ lines[r] \in Seq(Lines) /\ Len(lines[r]) \in Nat /\ Len(lines[r]) >= Panics(r)
        /\ \A k \in 1..Len(lines[r]) :
              lines[r][k].what = IF k > Len(lines[r]) - Panics(r) THEN "panic" ELSE "entry"
        /\ status[r] = 500 <=> panicked[r] /\ ~began[r]
    BY <1>1, <2>1 DEF RequestInv, RequestTyping, CourseInv, CourseOf
  <2>4. CASE wanted.level = "info"
    <3>1. /\ Len(lines'[r]) = Len(lines[r]) + 1
          /\ lines'[r][Len(lines[r]) + 1].what = "access"
          /\ lines'[r][Len(lines[r]) + 1].status = status'[r]
          /\ \A k \in 1..Len(lines[r]) : lines'[r][k] = lines[r][k]
      <4>1. PICK l : lines'[r] = Append(lines[r], l) /\ l.what = "access" /\ l.status = status[r]
        BY <1>5, <2>4
      <4>2. lines[r] \in Seq(Lines) /\ status'[r] = status[r]
        BY <1>1, <2>3
      <4>3. /\ Len(lines'[r]) = Len(lines[r]) + 1 /\ lines'[r][Len(lines[r]) + 1] = l
            /\ \A k \in 1..Len(lines[r]) : lines'[r][k] = lines[r][k]
        BY <4>1, <4>2
      <4> QED
        BY <4>1, <4>2, <4>3
    <3> QED
      BY <1>1, <1>6, <2>1, <2>2, <2>3, <2>4, <3>1 DEF CourseOf
  <2>5. CASE wanted.level # "info"
    BY <1>1, <1>5, <1>6, <2>1, <2>2, <2>3, <2>5 DEF CourseOf
  <2> QED
    BY <2>4, <2>5
<1> QED
  BY <1>1, <1>2, <1>5, <1>7, <1>8, <1>9, OneMoves

LEMMA RequestStep == RequestInv /\ [RequestNext]_vars => RequestInv'
<1> SUFFICES ASSUME RequestInv, [RequestNext]_vars PROVE RequestInv'
  OBVIOUS
<1>1. CASE UNCHANGED vars
  <2>1. UNCHANGED <<stage, cfg, wanted, file, env, broken, arrays, parent, requestVars>>
    BY <1>1 DEF vars, startVars
  <2>2. SettingsInv' /\ LoggersInv' /\ LinesInv'
    BY <2>1 DEF requestVars, RequestInv, SettingsInv, LoggersInv, LinesInv
  <2>3. RequestTyping'
    BY <2>1 DEF requestVars, RequestInv, RequestTyping
  <2>4. CourseInv'
    <3>1. \A r \in Requests : Accesses(r)' = Accesses(r) /\ Panics(r)' = Panics(r)
      BY <2>1 DEF requestVars, Accesses, Panics
    <3> QED
      BY <2>1, <3>1 DEF requestVars, RequestInv, CourseInv, CourseOf
  <2> QED
    BY <2>2, <2>3, <2>4 DEF RequestInv
<1> QED
  BY <1>1, StartUpKeeps, BreakKeeps, BeginKeeps, DeriveKeeps, HandlerKeeps, LogKeeps, RecoverKeeps,
     AccessKeeps DEF RequestNext

\* The inductive invariant of start-up and requests.
THEOREM RequestInvariant == RequestSpec => []RequestInv
BY RequestInitInv, RequestStep, PTL DEF RequestSpec
-----------------------------------------------------------------------------
(* The properties.                                                         *)

LEMMA EveryLine ==
    ASSUME RequestTyping, NEW l \in AllLines
    PROVE  \E r \in Requests : \E k \in 1..Len(lines[r]) : l = lines[r][k]
<1>1. PICK r \in Requests : l \in ToSet(lines[r])
  BY DEF AllLines
<1>2. lines[r] \in Seq(Lines)
  BY DEF RequestTyping
<1>3. DOMAIN lines[r] = 1..Len(lines[r])
  BY <1>2
<1> QED
  BY <1>1, <1>3 DEF ToSet

\* LinesShowTheirLogger: no line shows the attributes or groups that another request has
\* derived from the shared logger, or has the request id inside a group.
THEOREM LinesAlwaysShowTheirLogger == RequestSpec => []LinesShowTheirLogger
<1>1. RequestInv => LinesShowTheirLogger
  BY EveryLine DEF RequestInv, LinesInv, LinesShowTheirLogger
<1> QED
  BY <1>1, RequestInvariant, PTL

\* A service that runs has the settings that come of the environment before the file, and
\* the file before the defaults, with a level and a mode that logx knows.
THEOREM RunsAsConfigured ==
    RequestSpec => [](stage = "running" => /\ cfg = wanted
                                          /\ cfg.level \in Levels /\ cfg.mode \in Modes)
<1>1. RequestInv => (stage = "running" => /\ cfg = wanted
                                          /\ cfg.level \in Levels /\ cfg.mode \in Modes)
  BY DEF RequestInv, SettingsInv
<1> QED
  BY <1>1, RequestInvariant, PTL

\* LinesArrive: the settings in force are those file and environment ask for, and no
\* broken destination takes a line from another handler.
THEOREM LinesAlwaysArrive == RequestSpec => []LinesArrive
<1>1. RequestInv => LinesArrive
  BY EveryLine DEF RequestInv, LinesInv, LinesArrive
<1> QED
  BY <1>1, RequestInvariant, PTL

\* PanicsAreTold: a request that is done has its access record last, with the status its
\* client got, and the record of its panic, if any, right before.
THEOREM PanicsAreAlwaysTold == RequestSpec => []PanicsAreTold
<1>1. RequestInv => PanicsAreTold
  <2> SUFFICES ASSUME RequestInv, NEW r \in Requests, pc[r] = "done"
               PROVE  LET n == Len(lines[r])
                          told(what) == {k \in 1..n : lines[r][k].what = what}
                      IN  /\ told("access") = IF wanted.level = "info" THEN {n} ELSE {}
                          /\ told("panic") = IF ~panicked[r] THEN {}
                                             ELSE IF wanted.level = "info" THEN {n - 1} ELSE {n}
                          /\ \A k \in told("access") : lines[r][k].status = status[r]
                          /\ status[r] = 500 <=> (panicked[r] /\ ~began[r])
    BY DEF PanicsAreTold
  <2>1. CourseOf(r) /\ Len(lines[r]) \in Nat
    BY DEF RequestInv, RequestTyping, CourseInv
  <2>2. /\ Accesses(r) = IF wanted.level = "info" THEN 1 ELSE 0
        /\ Panics(r) = IF panicked[r] THEN 1 ELSE 0
    BY DEF Accesses, Panics
  <2> DEFINE n == Len(lines[r])
             told(what) == {k \in 1..n : lines[r][k].what = what}
  <2>3. /\ n \in Nat /\ n >= Accesses(r) + Panics(r)
        /\ \A k \in 1..n : lines[r][k].what = IF k > n - Accesses(r) THEN "access"
                                              ELSE IF k > n - Accesses(r) - Panics(r) THEN "panic"
                                              ELSE "entry"
    BY <2>1 DEF CourseOf
  <2>4. told("access") = IF wanted.level = "info" THEN {n} ELSE {}
    <3>1. CASE wanted.level = "info"
      <4>1. Accesses(r) = 1 /\ Panics(r) \in {0, 1}
        BY <2>2, <3>1
      <4>2. n \in 1..n /\ \A k \in 1..n : lines[r][k].what = "access" <=> k = n
        BY <2>3, <4>1
      <4> QED
        BY <3>1, <4>2
    <3>2. CASE wanted.level # "info"
      <4>1. Accesses(r) = 0
        BY <2>2, <3>2
      <4>2. \A k \in 1..n : lines[r][k].what # "access"
        BY <2>3, <4>1
      <4> QED
        BY <3>2, <4>2
    <3> QED
      BY <3>1, <3>2
  <2>5. told("panic") = IF ~panicked[r] THEN {} ELSE IF wanted.level = "info" THEN {n - 1} ELSE {n}
    <3>1. CASE panicked[r] /\ wanted.level = "info"
      <4>1. Accesses(r) = 1 /\ Panics(r) = 1
        BY <2>2, <3>1
      <4>2. n - 1 \in 1..n /\ \A k \in 1..n : lines[r][k].what = "panic" <=> k = n - 1
        BY <2>3, <4>1
      <4> QED
        BY <3>1, <4>2
    <3>2. CASE panicked[r] /\ wanted.level # "info"
      <4>1. Accesses(r) = 0 /\ Panics(r) = 1
        BY <2>2, <3>2
      <4>2. n \in 1..n /\ \A k \in 1..n : lines[r][k].what = "panic" <=> k = n
        BY <2>3, <4>1
      <4> QED
        BY <3>2, <4>2
    <3>3. CASE ~panicked[r]
      <4>1. Accesses(r) \in {0, 1} /\ Panics(r) = 0
        BY <2>2, <3>3
      <4>2. \A k \in 1..n : lines[r][k].what # "panic"
        BY <2>3, <4>1
      <4> QED
        BY <3>3, <4>2
    <3> QED
      BY <3>1, <3>2, <3>3
  <2>6. \A k \in told("access") : lines[r][k].status = status[r]
    BY <2>1 DEF CourseOf
  <2>7. status[r] = 500 <=> (panicked[r] /\ ~began[r])
    BY <2>1 DEF CourseOf
  <2> QED
    BY <2>4, <2>5, <2>6, <2>7
<1> QED
  BY <1>1, RequestInvariant, PTL
=============================================================================
