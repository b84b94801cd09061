-------------------------- MODULE ConfMeaning_proofs --------------------------
(***************************************************************************)
(* Proof that conf_create keeps its promise: whatever the file holds, the  *)
(* four passes answer what the file means (ConfMeaning), or NULL if it     *)
(* means nothing or something failed.                                      *)
(*                                                                         *)
(* Trace: a file that composes has one stack before each event, so that    *)
(* reading on is determined.  AnswerInv says, for each phase, what part    *)
(* of the meaning the events read so far have; each action keeps it and    *)
(* is a step of the promise, or a stutter (Promised).                      *)
(***************************************************************************)
EXTENDS ConfMeaning, XadminConf_proofs, Induction, FiniteSetTheorems

USE DEF CONF_ROOT_DEPTH, CONF_MAX_DEPTH, CONF_DEFAULT_ARGS

(***************************************************************************)
(* libyaml's stacks as the file is read.                                   *)
(***************************************************************************)
After(S, e) == {NextStack(o, e) : o \in {x \in S : Accepts(x, e)}}

\* StacksAfter satisfies the equations that define it.
LEMMA StacksSteps ==
  ASSUME NEW f \in Files
  PROVE  /\ StacksAfter(f)[0] = {InitialStack}
         /\ \A n \in 1 .. Len(f.events) :
              StacksAfter(f)[n] = After(StacksAfter(f)[n - 1], f.events[n])
<1> DEFINE V == SUBSET {o \in Seq(YamlState) : Nested(o)}
           step == [n \in Nat |-> [S \in V |->
                      IF n \in 1 .. Len(f.events) THEN After(S, f.events[n]) ELSE {}]]
<1>1. f.events \in Seq(Event) /\ Len(f.events) \in Nat
  BY FilesAssumption
<1>2. ASSUME NEW n \in 1 .. Len(f.events), NEW S \in V
      PROVE  After(S, f.events[n]) \in V
  <2>1. f.events[n] \in Event
    BY <1>1
  <2>2. ASSUME NEW o \in S, Accepts(o, f.events[n])
        PROVE  NextStack(o, f.events[n]) \in {x \in Seq(YamlState) : Nested(x)}
    <3>1. Nested(NextStack(o, f.events[n]))
      BY <2>1, <2>2, NextStackNested
    <3> QED
      BY <3>1 DEF Nested
  <2> QED
    BY <2>2 DEF After
<1>3. step \in [Nat -> [V -> V]]
  <2>1. \A n \in Nat, S \in V :
          (IF n \in 1 .. Len(f.events) THEN After(S, f.events[n]) ELSE {}) \in V
    <3>1. {} \in V
      OBVIOUS
    <3> HIDE DEF V
    <3> QED
      BY <1>2, <3>1
  <2> HIDE DEF V
  <2> QED
    BY <2>1
<1>4. {InitialStack} \in V
  BY InitialStackNested DEF Nested
<1>5. \A n \in 1 .. Len(f.events), S \in V : step[n][S] = After(S, f.events[n])
  <2> HIDE DEF V
  <2> QED
    BY <1>1
<1> HIDE DEF step, V
<1>6. PICK g : Solves(g, Len(f.events), V, {InitialStack}, step)
  <2>1. step \in StepsOver(V)
    BY <1>3, Zenon DEF StepsOver
  <2> QED
    BY <1>1, <1>4, <2>1, Recursion
<1>7. ASSUME NEW n \in 0 .. Len(f.events)
      PROVE  g[n] = IF n = 0 THEN {InitialStack} ELSE After(g[n - 1], f.events[n])
  <2>1. CASE n = 0
    BY <1>6, <2>1 DEF Solves
  <2>2. CASE n # 0
    <3>1. n \in 1 .. Len(f.events) /\ n - 1 \in 0 .. Len(f.events)
      BY <2>2
    <3>2. g[n - 1] \in V
      BY <1>6, <3>1 DEF Solves
    <3>3. step[n][g[n - 1]] = After(g[n - 1], f.events[n])
      BY <1>5, <3>1, <3>2
    <3>4. g[n] = step[n][g[n - 1]]
      BY <1>6, <3>1 DEF Solves
    <3> QED
      BY <2>2, <3>3, <3>4
  <2> QED
    BY <2>1, <2>2
<1>8. g = [n \in 0 .. Len(f.events) |->
             IF n = 0 THEN {InitialStack} ELSE After(g[n - 1], f.events[n])]
  BY <1>6, <1>7 DEF Solves
<1>9. StacksAfter(f) = [n \in 0 .. Len(f.events) |->
         IF n = 0 THEN {InitialStack}
         ELSE After(StacksAfter(f)[n - 1], f.events[n])]
  BY <1>8 DEF StacksAfter, After
<1> DEFINE A == StacksAfter(f)
<1>10. A = [n \in 0 .. Len(f.events) |->
              IF n = 0 THEN {InitialStack} ELSE After(A[n - 1], f.events[n])]
  BY <1>9
<1> HIDE DEF A
<1>11. A[0] = {InitialStack}
  BY <1>1, <1>10
<1>12. ASSUME NEW n \in 1 .. Len(f.events) PROVE A[n] = After(A[n - 1], f.events[n])
  <2>1. n \in 0 .. Len(f.events) /\ n # 0
    BY <1>1
  <2> QED
    BY <1>10, <2>1
<1> QED
  BY <1>11, <1>12 DEF A

\* The stack after each event.
Stack(f, n) == CHOOSE o \in StacksAfter(f)[n] : TRUE

\* It is nested, and there is no other one.
LEMMA StacksNested ==
  ASSUME NEW f \in Files, NEW n \in 0 .. Len(f.events)
  PROVE  /\ \A o \in StacksAfter(f)[n] : Nested(o)
         /\ \A o, p \in StacksAfter(f)[n] : o = p
<1> DEFINE Good(k) == /\ \A o \in StacksAfter(f)[k] : Nested(o)
                     /\ \A o, p \in StacksAfter(f)[k] : o = p
           T == {k \in 0 .. Len(f.events) : ~Good(k)}
<1>1. f.events \in Seq(Event) /\ Len(f.events) \in Nat
  BY FilesAssumption
<1>2. Good(0)
  BY StacksSteps, InitialStackNested
<1>3. ASSUME NEW k \in 1 .. Len(f.events), Good(k - 1)
      PROVE  Good(k)
  <2>1. f.events[k] \in Event
    BY <1>1
  <2>2. StacksAfter(f)[k] = After(StacksAfter(f)[k - 1], f.events[k])
    BY StacksSteps
  <2>3. ASSUME NEW o \in StacksAfter(f)[k - 1], Accepts(o, f.events[k])
        PROVE  Nested(NextStack(o, f.events[k]))
    BY <1>3, <2>1, <2>3, NextStackNested
  <2> QED
    BY <1>3, <2>2, <2>3 DEF After
<1> HIDE DEF Good
<1>4. T = {}
  <2> SUFFICES ASSUME T # {} PROVE FALSE
    OBVIOUS
  <2>1. PICK k \in T : \A m \in T : k <= m
    <3>1. T \in SUBSET Nat
      BY <1>1
    <3> HIDE DEF T
    <3> QED
      BY <3>1, LeastNumber
  <2>2. k \in 1 .. Len(f.events)
    BY <1>1, <1>2, <2>1
  <2>3. k - 1 \in 0 .. Len(f.events) /\ ~(k <= k - 1)
    BY <1>1, <2>2
  <2>4. Good(k - 1)
    BY <2>1, <2>3
  <2> QED
    BY <1>3, <2>1, <2>2, <2>4
<1> QED
  BY <1>4 DEF Good

\* In a file that composes, no event is refused.
LEMMA Trace ==
  ASSUME NEW f \in Files, Composes(f)
  PROVE  /\ Stack(f, 0) = InitialStack
         /\ Stack(f, Len(f.events)) = <<"done">>
         /\ \A n \in 0 .. Len(f.events) :
              StacksAfter(f)[n] = {Stack(f, n)} /\ Nested(Stack(f, n))
         /\ \A n \in 1 .. Len(f.events) :
              /\ Accepts(Stack(f, n - 1), f.events[n])
              /\ Stack(f, n) = NextStack(Stack(f, n - 1), f.events[n])
<1>1. f.events \in Seq(Event) /\ Len(f.events) \in Nat
  BY FilesAssumption
<1> DEFINE T == {k \in Nat : k <= Len(f.events) /\ StacksAfter(f)[Len(f.events) - k] = {}}
<1>2. T = {}
  <2> SUFFICES ASSUME T # {} PROVE FALSE
    OBVIOUS
  <2>1. PICK k \in T : \A m \in T : k <= m
    <3>1. T \in SUBSET Nat
      BY <1>1
    <3> HIDE DEF T
    <3> QED
      BY <3>1, LeastNumber
  <2>2. k # 0
    BY <1>1, <2>1 DEF Composes
  <2> DEFINE n == Len(f.events) - k + 1
  <2>3. n \in 1 .. Len(f.events) /\ n - 1 = Len(f.events) - k
        /\ k - 1 \in Nat /\ Len(f.events) - (k - 1) = n /\ ~(k <= k - 1)
        /\ k - 1 <= Len(f.events)
    BY <1>1, <2>1, <2>2
  <2> HIDE DEF n
  <2>4. StacksAfter(f)[n] = {}
    <3>1. StacksAfter(f)[n] = After(StacksAfter(f)[n - 1], f.events[n])
      BY <2>3, StacksSteps
    <3>2. StacksAfter(f)[n - 1] = {}
      BY <2>1, <2>3
    <3> QED
      BY <3>1, <3>2 DEF After
  <2> QED
    BY <2>1, <2>3, <2>4
<1>3. ASSUME NEW n \in 0 .. Len(f.events)
      PROVE  StacksAfter(f)[n] = {Stack(f, n)} /\ Nested(Stack(f, n))
  <2>1. StacksAfter(f)[n] # {}
    <3>1. Len(f.events) - n \in Nat /\ Len(f.events) - n <= Len(f.events)
          /\ Len(f.events) - (Len(f.events) - n) = n
      BY <1>1
    <3>2. Len(f.events) - n \notin T
      BY <1>2
    <3> QED
      BY <3>1, <3>2
  <2>2. Stack(f, n) \in StacksAfter(f)[n]
    BY <2>1 DEF Stack
  <2> QED
    BY <2>2, StacksNested
<1>4. ASSUME NEW n \in 1 .. Len(f.events)
      PROVE  /\ Accepts(Stack(f, n - 1), f.events[n])
             /\ Stack(f, n) = NextStack(Stack(f, n - 1), f.events[n])
  <2>1. n - 1 \in 0 .. Len(f.events) /\ n \in 0 .. Len(f.events)
    OBVIOUS
  <2>2. StacksAfter(f)[n - 1] = {Stack(f, n - 1)} /\ StacksAfter(f)[n] = {Stack(f, n)}
    BY <1>3, <2>1
  <2>3. StacksAfter(f)[n] = After(StacksAfter(f)[n - 1], f.events[n])
    BY StacksSteps
  <2> QED
    BY <2>2, <2>3 DEF After
<1>5. Stack(f, 0) = InitialStack /\ Stack(f, Len(f.events)) = <<"done">>
  <2>1. 0 \in 0 .. Len(f.events) /\ Len(f.events) \in 0 .. Len(f.events)
    BY <1>1
  <2>2. StacksAfter(f)[0] = {Stack(f, 0)}
        /\ StacksAfter(f)[Len(f.events)] = {Stack(f, Len(f.events))}
    BY <1>3, <2>1
  <2> QED
    BY <2>2, StacksSteps DEF Composes
<1> QED
  BY <1>3, <1>4, <1>5

\* After the end of the stream there are no events.
LEMMA DoneStays ==
  ASSUME NEW f \in Files, Composes(f), NEW n \in 0 .. Len(f.events),
         Stack(f, n) = <<"done">>, NEW m \in n .. Len(f.events)
  PROVE  Stack(f, m) = <<"done">>
<1>1. f.events \in Seq(Event) /\ Len(f.events) \in Nat /\ n \in Nat
  BY FilesAssumption
<1> DEFINE T == {k \in n .. Len(f.events) : Stack(f, k) # <<"done">>}
<1>2. T = {}
  <2> SUFFICES ASSUME T # {} PROVE FALSE
    OBVIOUS
  <2>1. PICK k \in T : \A i \in T : k <= i
    <3>1. T \in SUBSET Nat
      BY <1>1
    <3> HIDE DEF T
    <3> QED
      BY <3>1, LeastNumber
  <2>2. k \in n + 1 .. Len(f.events) /\ Stack(f, k) # <<"done">>
    BY <1>1, <2>1
  <2>3. /\ k - 1 \in n .. Len(f.events) /\ ~(k <= k - 1)
        /\ k \in 1 .. Len(f.events)
    BY <1>1, <2>2
  <2>4. Stack(f, k - 1) = <<"done">>
    BY <2>1, <2>3
  <2>5. Accepts(<<"done">>, f.events[k]) /\ Stack(f, k) = NextStack(<<"done">>, f.events[k])
    BY <2>3, <2>4, Trace
  <2>6. f.events[k].type = "None"
    BY <2>5 DEF Accepts, Expected, Top
  <2> QED
    BY <2>2, <2>5, <2>6 DEF NextStack
<1> QED
  BY <1>2

-----------------------------------------------------------------------------
(***************************************************************************)
(* The parts of a file, by the stack at each.                              *)
(***************************************************************************)

\* Which part a scalar is, read off the one stack before it.
LEMMA Parts ==
  ASSUME NEW f \in Files, Composes(f)
  PROVE  /\ \A n \in Events(f) : n \in 1 .. Len(f.events) /\ Before(f, n) = {Stack(f, n - 1)}
         /\ \A n \in PoolNames(f) : n \in ScalarEvents(f) /\ InRoot(Stack(f, n - 1), "key")
         /\ \A n \in DirectiveNames(f) : n \in ScalarEvents(f) /\ InPool(Stack(f, n - 1), "key")
         /\ \A n \in GivenValues(f) :
              /\ n \in ScalarEvents(f)
              /\ InPool(Stack(f, n - 1), "value") \/ InSequence(Stack(f, n - 1))
         /\ \A n \in ScalarEvents(f) :
              /\ n \in Events(f) /\ n \in Nat /\ f.events[n].type = "Scalar"
              /\ InRoot(Stack(f, n - 1), "key") => n \in PoolNames(f)
              /\ InPool(Stack(f, n - 1), "key") => n \in DirectiveNames(f)
              /\ InPool(Stack(f, n - 1), "value") \/ InSequence(Stack(f, n - 1))
                   => n \in GivenValues(f)
<1>1. f.events \in Seq(Event) /\ Len(f.events) \in Nat
  BY FilesAssumption
<1>2. ASSUME NEW n \in Events(f)
      PROVE  n \in 1 .. Len(f.events) /\ n \in Nat /\ Before(f, n) = {Stack(f, n - 1)}
  <2>1. n \in 1 .. Len(f.events) /\ n - 1 \in 0 .. Len(f.events)
    BY <1>1 DEF Events
  <2> QED
    BY <2>1, Trace DEF Before
<1> QED
  BY <1>2 DEF PoolNames, DirectiveNames, GivenValues, ScalarEvents

\* No event is two of them.
LEMMA PartsApart ==
  ASSUME NEW f \in Files, Composes(f), NEW n
  PROVE  /\ n \in PoolNames(f) => n \notin DirectiveNames(f) /\ n \notin GivenValues(f)
         /\ n \in DirectiveNames(f) => n \notin PoolNames(f) /\ n \notin GivenValues(f)
         /\ n \in GivenValues(f) => n \notin PoolNames(f) /\ n \notin DirectiveNames(f)
BY Parts DEF InRoot, InPool, InSequence

\* They are events: numbers from one on.
LEMMA PartsNumbered ==
  ASSUME NEW f \in Files
  PROVE  /\ PoolNames(f) \in SUBSET Nat /\ DirectiveNames(f) \in SUBSET Nat
         /\ GivenValues(f) \in SUBSET Nat /\ SequenceStarts(f) \in SUBSET Nat
BY FilesAssumption DEF PoolNames, DirectiveNames, GivenValues, SequenceStarts, ScalarEvents, Events

\* The last event of some before another one is unique.
LEMMA OneLast ==
  ASSUME NEW S \in SUBSET Nat, NEW n \in Nat, NEW l, NEW m,
         LastBefore(S, l, n), LastBefore(S, m, n)
  PROVE  l = m
<1>1. l \in Nat /\ m \in Nat /\ l <= m /\ m <= l
  BY DEF LastBefore
<1> QED
  BY <1>1

\* It stays the last until one of them comes.
LEMMA StillLast ==
  ASSUME NEW S \in SUBSET Nat, NEW n \in Nat, NEW m, n \notin S
  PROVE  LastBefore(S, m, n) <=> LastBefore(S, m, n + 1)
<1>1. \A l \in S : l < n <=> l < n + 1
  OBVIOUS
<1> QED
  BY <1>1, Zenon DEF LastBefore

\* A value is for one directive.
LEMMA ForOne ==
  ASSUME NEW f \in Files, NEW n \in Nat, NEW k, NEW l, IsFor(f, n, k), IsFor(f, n, l)
  PROVE  k = l
<1>1. DirectiveNames(f) \in SUBSET Nat
  BY PartsNumbered
<1> QED
  BY <1>1, OneLast DEF IsFor

\* A value is in one pool.
LEMMA InOnePool ==
  ASSUME NEW f \in Files, NEW v, NEW p, NEW q, NEW k, NEW l,
         Gives(f, p, k, v), Gives(f, q, l, v)
  PROVE  p = q
<1>1. PoolNames(f) \in SUBSET Nat /\ v \in Nat
  BY PartsNumbered DEF Gives
<1> QED
  BY <1>1, OneLast DEF Gives

-----------------------------------------------------------------------------
(***************************************************************************)
(* What the parse pass has filled in after n events of a file.             *)
(***************************************************************************)
Given(f, p, key, v, n) == v \in GivenValues(f) /\ v <= n /\ Gives(f, p, key, v)

FilledPool(f, p, cp, n) ==
  /\ cp.name = f.events[p].value
  /\ \A key \in StringDirectives :
       \/ \E v : Given(f, p, key, v, n) /\ cp.str[key] = f.events[v].value
       \/ (\A v : ~Given(f, p, key, v, n)) /\ cp.str[key] = NULL
  /\ \A key \in NumDirectives :
       \/ \E v : /\ Given(f, p, key, v, n) /\ f.events[v].value \in DOMAIN NumOf
                 /\ cp.num[key] = NumOf[f.events[v].value]
       \/ (\A v : ~Given(f, p, key, v, n)) /\ cp.num[key] = CONF_UNSET_NUM

\* Which name each pool has: all those read so far, in their order.
NamesOf(f, at, pools, n) ==
  /\ at \in [DOMAIN pools -> PoolNames(f)]
  /\ \A i, j \in DOMAIN pools : i < j => at[i] < at[j]
  /\ \A i \in DOMAIN pools : at[i] <= n
  /\ \A p \in PoolNames(f) : p <= n => \E i \in DOMAIN pools : at[i] = p

Filled(f, pools, n) ==
  \E at : /\ NamesOf(f, at, pools, n)
          /\ \A i \in DOMAIN pools : FilledPool(f, at[i], pools[i], n)

SameKey(f, v, w) == \E key \in Directives : IsFor(f, v, key) /\ IsFor(f, w, key)

NameBetween(f, v, w) == \E p \in PoolNames(f) : v < p /\ p < w

SettableSoFar(f, n) ==
  /\ \A v \in GivenValues(f) :
       v <= n => \E key \in Directives : IsFor(f, v, key) /\ Fits(f, v, key)
  /\ \A v, w \in GivenValues(f) :
       v < w /\ w <= n /\ SameKey(f, v, w) => NameBetween(f, v, w)

\* An event that is not given to a pool leaves it as filled as it was.
LEMMA OtherEvent ==
  ASSUME NEW f \in Files, NEW p, NEW cp, NEW n \in Nat, FilledPool(f, p, cp, n),
         \A key \in Directives : ~Gives(f, p, key, n + 1)
  PROVE  FilledPool(f, p, cp, n + 1)
<1>1. ASSUME NEW key \in Directives, NEW v
      PROVE  Given(f, p, key, v, n) <=> Given(f, p, key, v, n + 1)
  <2>1. v \in GivenValues(f) => v \in Nat
    BY PartsNumbered
  <2>2. v \in Nat => (v <= n + 1 <=> v <= n \/ v = n + 1)
    OBVIOUS
  <2> QED
    BY <2>1, <2>2 DEF Given
<1> QED
  BY <1>1 DEF FilledPool, Directives

\* So one that is neither a name nor given leaves all pools.
LEMMA QuietEvent ==
  ASSUME NEW f \in Files, NEW n \in Nat, NEW pools, n + 1 \notin GivenValues(f)
  PROVE  /\ n + 1 \notin PoolNames(f) /\ Filled(f, pools, n) => Filled(f, pools, n + 1)
         /\ SettableSoFar(f, n) => SettableSoFar(f, n + 1)
<1>1. PoolNames(f) \in SUBSET Nat /\ GivenValues(f) \in SUBSET Nat
  BY PartsNumbered
<1>2. /\ \A v \in GivenValues(f) : v <= n + 1 <=> v <= n
      /\ n + 1 \notin PoolNames(f) => \A p \in PoolNames(f) : p <= n + 1 <=> p <= n
  BY <1>1
<1>3. ASSUME n + 1 \notin PoolNames(f), Filled(f, pools, n)
      PROVE  Filled(f, pools, n + 1)
  <2>1. PICK at : /\ NamesOf(f, at, pools, n)
                  /\ \A i \in DOMAIN pools : FilledPool(f, at[i], pools[i], n)
    BY <1>3 DEF Filled
  <2>2. NamesOf(f, at, pools, n + 1)
    BY <1>2, <1>3, <2>1 DEF NamesOf
  <2>3. ASSUME NEW i \in DOMAIN pools PROVE FilledPool(f, at[i], pools[i], n + 1)
    <3>1. \A key \in Directives : ~Gives(f, at[i], key, n + 1)
      BY DEF Gives
    <3> QED
      BY <2>1, <3>1, OtherEvent
  <2> QED
    BY <2>2, <2>3 DEF Filled
<1>4. SettableSoFar(f, n) => SettableSoFar(f, n + 1)
  BY <1>2 DEF SettableSoFar
<1> QED
  BY <1>3, <1>4

\* The name of a pool: a new pool in which nothing is set.
LEMMA NameEvent ==
  ASSUME NEW f \in Files, Composes(f), NEW n \in Nat, NEW pools \in Seq(ConfPool),
         n + 1 \in PoolNames(f), Filled(f, pools, n)
  PROVE  Filled(f, Append(pools, InitialPool(f.events[n + 1].value)), n + 1)
<1> DEFINE new == InitialPool(f.events[n + 1].value)
           more == Append(pools, new)
<1>1. PoolNames(f) \in SUBSET Nat /\ GivenValues(f) \in SUBSET Nat
  BY PartsNumbered
<1>2. PICK at : /\ NamesOf(f, at, pools, n)
                /\ \A i \in DOMAIN pools : FilledPool(f, at[i], pools[i], n)
  BY DEF Filled
<1>3. new \in ConfPool
  <2>1. f.events[n + 1].value \in Scalar
    <3>1. n + 1 \in 1 .. Len(f.events) /\ f.events \in Seq(Event)
      BY FilesAssumption, Parts
    <3>2. f.events[n + 1] \in Event
      BY <3>1
    <3> QED
      BY <3>2 DEF Event
  <2> QED
    BY <2>1, InitialPoolTyped
<1> HIDE DEF new
<1>4. /\ Len(pools) \in Nat /\ DOMAIN pools = 1 .. Len(pools)
      /\ DOMAIN more = 1 .. Len(pools) + 1 /\ more[Len(pools) + 1] = new
      /\ \A i \in 1 .. Len(pools) : more[i] = pools[i]
  BY <1>3
<1> HIDE DEF more
<1> DEFINE to == [i \in DOMAIN more |-> IF i = Len(pools) + 1 THEN n + 1 ELSE at[i]]
<1>5. /\ to[Len(pools) + 1] = n + 1
      /\ \A i \in DOMAIN pools : i \in DOMAIN more /\ to[i] = at[i]
      /\ \A i \in DOMAIN more : i \in DOMAIN pools \/ i = Len(pools) + 1
      /\ to \in [DOMAIN more -> PoolNames(f)]
  BY <1>2, <1>4 DEF NamesOf
<1> HIDE DEF to
<1>6. NamesOf(f, to, more, n + 1)
  <2>1. ASSUME NEW i \in DOMAIN more, NEW j \in DOMAIN more, i < j
        PROVE  to[i] < to[j]
    <3>1. i \in DOMAIN pools
      BY <1>4, <2>1
    <3>2. to[i] = at[i] /\ at[i] <= n /\ at[i] \in Nat
      BY <1>1, <1>2, <1>5, <3>1 DEF NamesOf
    <3>3. CASE j = Len(pools) + 1
      BY <1>5, <3>2, <3>3
    <3>4. CASE j \in DOMAIN pools
      BY <1>2, <1>5, <2>1, <3>1, <3>4 DEF NamesOf
    <3> QED
      BY <1>5, <3>3, <3>4
  <2>2. \A i \in DOMAIN more : to[i] <= n + 1
    BY <1>1, <1>2, <1>5 DEF NamesOf
  <2>3. ASSUME NEW p \in PoolNames(f), p <= n + 1
        PROVE  \E i \in DOMAIN more : to[i] = p
    <3>1. p <= n \/ p = n + 1
      BY <1>1, <2>3
    <3>2. CASE p <= n
      BY <1>2, <1>5, <3>2 DEF NamesOf
    <3>3. CASE p = n + 1
      BY <1>4, <1>5, <3>3
    <3> QED
      BY <3>1, <3>2, <3>3
  <2> QED
    BY <1>5, <2>1, <2>2, <2>3 DEF NamesOf
<1>7. ASSUME NEW i \in DOMAIN more PROVE FilledPool(f, to[i], more[i], n + 1)
  <2>1. CASE i \in DOMAIN pools
    <3>1. n + 1 \notin GivenValues(f)
      BY PartsApart
    <3>2. \A key \in Directives : ~Gives(f, at[i], key, n + 1)
      BY <3>1 DEF Gives
    <3>3. FilledPool(f, at[i], pools[i], n + 1)
      BY <1>2, <2>1, <3>2, OtherEvent
    <3> QED
      BY <1>4, <1>5, <2>1, <3>3
  <2>2. CASE i = Len(pools) + 1
    <3>1. to[i] = n + 1 /\ more[i] = new
      BY <1>4, <1>5, <2>2
    <3>2. \A key, v : ~Given(f, n + 1, key, v, n + 1)
      <4>1. ASSUME NEW key, NEW v, Given(f, n + 1, key, v, n + 1) PROVE FALSE
        <5>1. v \in Nat /\ v <= n + 1 /\ n + 1 < v
          BY <1>1, <4>1 DEF Given, Gives, LastBefore
        <5> QED
          BY <5>1
      <4> QED
        BY <4>1
    <3>3. /\ new.name = f.events[n + 1].value
          /\ \A key \in StringDirectives : new.str[key] = NULL
          /\ \A key \in NumDirectives : new.num[key] = CONF_UNSET_NUM
      BY DEF new, InitialPool
    <3> QED
      BY <3>1, <3>2, <3>3 DEF FilledPool
  <2> QED
    BY <1>5, <2>1, <2>2
<1> QED
  BY <1>6, <1>7 DEF Filled, more, new

\* The pool filled last is the one that a value is given to.
LEMMA LastPool ==
  ASSUME NEW f \in Files, NEW n \in Nat, NEW pools \in Seq(ConfPool), pools # <<>>,
         NEW at, NamesOf(f, at, pools, n), n + 1 \notin PoolNames(f)
  PROVE  /\ Len(pools) \in DOMAIN pools
         /\ LastBefore(PoolNames(f), at[Len(pools)], n + 1)
<1>1. PoolNames(f) \in SUBSET Nat
  BY PartsNumbered
<1>2. Len(pools) \in Nat /\ DOMAIN pools = 1 .. Len(pools) /\ Len(pools) \in DOMAIN pools
  OBVIOUS
<1>3. at[Len(pools)] \in PoolNames(f) /\ at[Len(pools)] < n + 1
  BY <1>1, <1>2 DEF NamesOf
<1>4. ASSUME NEW l \in PoolNames(f), l < n + 1 PROVE l <= at[Len(pools)]
  <2>1. l <= n
    BY <1>1, <1>4
  <2>2. PICK i \in DOMAIN pools : at[i] = l
    BY <2>1 DEF NamesOf
  <2>3. CASE i = Len(pools)
    BY <1>1, <1>3, <2>2, <2>3
  <2>4. CASE i < Len(pools)
    <3>1. at[i] < at[Len(pools)]
      BY <1>2, <2>4 DEF NamesOf
    <3> QED
      BY <1>1, <1>3, <2>2, <3>1
  <2> QED
    BY <1>2, <2>3, <2>4
<1> QED
  BY <1>2, <1>3, <1>4 DEF LastBefore

\* A field is set if and only if a value was given to it.
LEMMA SetIfGiven ==
  ASSUME NEW f \in Files, NEW p, NEW cp, NEW n, FilledPool(f, p, cp, n),
         NEW key \in Directives
  PROVE  IsSet(cp, key) <=> \E v : Given(f, p, key, v, n)
<1>1. ASSUME NEW v, Given(f, p, key, v, n) PROVE f.events[v].value \in Scalar
  <2>1. v \in 1 .. Len(f.events) /\ f.events \in Seq(Event)
    BY <1>1, FilesAssumption DEF Given, GivenValues, ScalarEvents, Events
  <2>2. f.events[v] \in Event
    BY <2>1
  <2> QED
    BY <2>2 DEF Event
<1>2. CASE key \in StringDirectives
  <2>1. NULL \notin Scalar
    BY ConstantsAssumption
  <2> QED
    BY <1>1, <1>2, <2>1 DEF FilledPool, IsSet
<1>3. CASE key \notin StringDirectives
  <2>1. key \in NumDirectives
    BY <1>3 DEF Directives
  <2>2. \A x \in DOMAIN NumOf : NumOf[x] \in Nat /\ NumOf[x] # CONF_UNSET_NUM
    BY ConstantsAssumption DEF CONF_UNSET_NUM
  <2> QED
    BY <1>3, <2>1, <2>2 DEF FilledPool, IsSet
<1> QED
  BY <1>2, <1>3

\* An earlier value for the same directive is in the same pool, unless the name
\* of another one came in between.
LEMMA EarlierValue ==
  ASSUME NEW f \in Files, Composes(f), NEW n \in Nat, NEW p, NEW key, NEW v \in GivenValues(f),
         v <= n, LastBefore(PoolNames(f), p, n + 1), IsFor(f, v, key)
  PROVE  Given(f, p, key, v, n) <=> ~NameBetween(f, v, n + 1)
<1>1. /\ PoolNames(f) \in SUBSET Nat /\ v \in Nat /\ v \notin PoolNames(f)
      /\ p \in PoolNames(f) /\ p < n + 1 /\ \A l \in PoolNames(f) : l < n + 1 => l <= p
  BY PartsNumbered, PartsApart DEF LastBefore
<1>2. ASSUME NameBetween(f, v, n + 1) PROVE ~Given(f, p, key, v, n)
  <2>1. PICK q \in PoolNames(f) : v < q /\ q < n + 1
    BY <1>2 DEF NameBetween
  <2>2. q <= p /\ v < p
    BY <1>1, <2>1
  <2>3. ~(p < v)
    BY <1>1, <2>2
  <2> QED
    BY <2>3 DEF Given, Gives, LastBefore
<1>3. ASSUME ~NameBetween(f, v, n + 1) PROVE Given(f, p, key, v, n)
  <2>1. ~(v < p) /\ p # v
    BY <1>1, <1>3 DEF NameBetween
  <2>2. p < v /\ \A l \in PoolNames(f) : l < v => l <= p
    BY <1>1, <2>1
  <2>3. LastBefore(PoolNames(f), p, v)
    BY <1>1, <2>2 DEF LastBefore
  <2> QED
    BY <2>3 DEF Given, Gives
<1> QED
  BY <1>2, <1>3

\* The parser refuses a value only in a file that cannot be set.
LEMMA RejectedEvent ==
  ASSUME NEW f \in Files, Composes(f), NEW n \in Nat, NEW pools \in Seq(ConfPool), pools # <<>>,
         n + 1 \in GivenValues(f), NEW key \in Directives, IsFor(f, n + 1, key),
         Filled(f, pools, n),
         Rejected(pools[Len(pools)], key, f.events[n + 1].value)
  PROVE  ~IsSettable(f)
<1>1. PICK at : /\ NamesOf(f, at, pools, n)
                /\ \A i \in DOMAIN pools : FilledPool(f, at[i], pools[i], n)
  BY DEF Filled
<1>2. n + 1 \notin PoolNames(f) /\ n + 1 \in Nat
  BY PartsApart
<1>3. Len(pools) \in DOMAIN pools /\ LastBefore(PoolNames(f), at[Len(pools)], n + 1)
  BY <1>1, <1>2, LastPool
<1>4. CASE IsSet(pools[Len(pools)], key)
  <2>1. PICK v : Given(f, at[Len(pools)], key, v, n)
    BY <1>1, <1>3, <1>4, SetIfGiven
  <2>2. v \in GivenValues(f) /\ v \in Nat /\ v <= n /\ v < n + 1 /\ IsFor(f, v, key)
    BY <2>1, PartsNumbered DEF Given, Gives
  <2>3. ~NameBetween(f, v, n + 1)
    BY <1>3, <2>1, <2>2, EarlierValue
  <2> QED
    BY <2>2, <2>3 DEF IsSettable, NameBetween
<1>5. CASE key \in NumDirectives /\ Atoi(f.events[n + 1].value) < 0
  <2>1. f.events[n + 1].value \notin DOMAIN NumOf
    BY <1>5, ConstantsAssumption DEF Atoi
  <2>2. ~Fits(f, n + 1, key)
    BY <1>5, <2>1 DEF Fits
  <2>3. \A k \in Directives : IsFor(f, n + 1, k) => k = key
    BY <1>2, ForOne
  <2> QED
    BY <2>2, <2>3 DEF IsSettable
<1> QED
  BY <1>4, <1>5 DEF Rejected

\* Otherwise it sets the field that the value is given to, and no other.
LEMMA SetEvent ==
  ASSUME NEW f \in Files, NEW n \in Nat, NEW p, NEW cp \in ConfPool, FilledPool(f, p, cp, n),
         NEW key \in Directives, Gives(f, p, key, n + 1),
         ~Rejected(cp, key, f.events[n + 1].value)
  PROVE  FilledPool(f, p, SetField(cp, key, f.events[n + 1].value), n + 1)
<1> DEFINE value == f.events[n + 1].value
           new == SetField(cp, key, value)
<1>1. n + 1 \in GivenValues(f) /\ IsFor(f, n + 1, key) /\ n + 1 \in Nat
  BY DEF Gives
<1>2. \A k : Gives(f, p, k, n + 1) => k = key
  BY <1>1, ForOne DEF Gives
<1>3. Given(f, p, key, n + 1, n + 1)
  BY <1>1 DEF Given
<1>4. ASSUME NEW k \in Directives, k # key, NEW v
      PROVE  Given(f, p, k, v, n) <=> Given(f, p, k, v, n + 1)
  <2>1. v \in GivenValues(f) => v \in Nat
    BY PartsNumbered
  <2>2. v \in Nat => (v <= n + 1 <=> v <= n \/ v = n + 1)
    OBVIOUS
  <2> QED
    BY <1>2, <1>4, <2>1, <2>2 DEF Given
<1>5. cp.str \in [StringDirectives -> Scalar \cup {NULL}] /\ cp.num \in [NumDirectives -> Int]
  BY DEF ConfPool
<1>6. CASE key \in StringDirectives
  <2>1. /\ new.name = cp.name /\ new.num = cp.num
        /\ new.str = [cp.str EXCEPT ![key] = value]
    BY <1>6 DEF SetField, ConfPool
  <2>2. key \notin NumDirectives
    BY <1>6 DEF StringDirectives, NumDirectives
  <2>3. /\ new.str[key] = value
        /\ \A k \in StringDirectives : k # key => new.str[k] = cp.str[k]
    BY <1>5, <1>6, <2>1
  <2> HIDE DEF new
  <2>4. ASSUME NEW k \in StringDirectives
        PROVE  \/ \E v : Given(f, p, k, v, n + 1) /\ new.str[k] = f.events[v].value
               \/ (\A v : ~Given(f, p, k, v, n + 1)) /\ new.str[k] = NULL
    <3>1. CASE k = key
      BY <1>3, <2>3, <3>1
    <3>2. CASE k # key
      BY <1>4, <2>3, <3>2 DEF FilledPool, Directives
    <3> QED
      BY <3>1, <3>2
  <2>5. ASSUME NEW k \in NumDirectives
        PROVE  \/ \E v : /\ Given(f, p, k, v, n + 1) /\ f.events[v].value \in DOMAIN NumOf
                         /\ new.num[k] = NumOf[f.events[v].value]
               \/ (\A v : ~Given(f, p, k, v, n + 1)) /\ new.num[k] = CONF_UNSET_NUM
    BY <1>4, <2>1, <2>2 DEF FilledPool, Directives
  <2> QED
    BY <2>1, <2>4, <2>5 DEF FilledPool, new
<1>7. CASE key \notin StringDirectives
  <2>1. key \in NumDirectives
    BY <1>7 DEF Directives
  <2>2. /\ new.name = cp.name /\ new.str = cp.str
        /\ new.num = [cp.num EXCEPT ![key] = Atoi(value)]
    BY <1>7 DEF SetField, ConfPool
  <2>3. value \in DOMAIN NumOf /\ Atoi(value) = NumOf[value]
    <3>1. ~(Atoi(value) < 0)
      BY <2>1 DEF Rejected
    <3> QED
      BY <3>1 DEF Atoi
  <2>4. /\ new.num[key] = NumOf[value]
        /\ \A k \in NumDirectives : k # key => new.num[k] = cp.num[k]
    BY <1>5, <2>1, <2>2, <2>3
  <2> HIDE DEF new
  <2>5. ASSUME NEW k \in StringDirectives
        PROVE  \/ \E v : Given(f, p, k, v, n + 1) /\ new.str[k] = f.events[v].value
               \/ (\A v : ~Given(f, p, k, v, n + 1)) /\ new.str[k] = NULL
    BY <1>4, <1>7, <2>2 DEF FilledPool, Directives
  <2>6. ASSUME NEW k \in NumDirectives
        PROVE  \/ \E v : /\ Given(f, p, k, v, n + 1) /\ f.events[v].value \in DOMAIN NumOf
                         /\ new.num[k] = NumOf[f.events[v].value]
               \/ (\A v : ~Given(f, p, k, v, n + 1)) /\ new.num[k] = CONF_UNSET_NUM
    <3>1. CASE k = key
      BY <1>3, <2>3, <2>4, <3>1
    <3>2. CASE k # key
      BY <1>4, <2>4, <3>2 DEF FilledPool, Directives
    <3> QED
      BY <3>1, <3>2
  <2> QED
    BY <2>2, <2>5, <2>6 DEF FilledPool, new
<1> QED
  BY <1>6, <1>7

\* So the pools stay filled as the file says, and what was given stays settable.
LEMMA ValueEvent ==
  ASSUME NEW f \in Files, Composes(f), NEW n \in Nat, NEW pools \in Seq(ConfPool), pools # <<>>,
         n + 1 \in GivenValues(f), NEW key \in Directives, IsFor(f, n + 1, key),
         Filled(f, pools, n), SettableSoFar(f, n),
         ~Rejected(pools[Len(pools)], key, f.events[n + 1].value)
  PROVE  /\ Filled(f, [pools EXCEPT ![Len(pools)] =
                         SetField(pools[Len(pools)], key, f.events[n + 1].value)], n + 1)
         /\ SettableSoFar(f, n + 1)
<1> DEFINE last == Len(pools)
           new == SetField(pools[last], key, f.events[n + 1].value)
           more == [pools EXCEPT ![last] = new]
<1>1. PICK at : /\ NamesOf(f, at, pools, n)
                /\ \A i \in DOMAIN pools : FilledPool(f, at[i], pools[i], n)
  BY DEF Filled
<1>2. n + 1 \notin PoolNames(f) /\ n + 1 \in Nat
      /\ PoolNames(f) \in SUBSET Nat /\ GivenValues(f) \in SUBSET Nat
  BY PartsApart, PartsNumbered
<1>3. last \in DOMAIN pools /\ LastBefore(PoolNames(f), at[last], n + 1)
  BY <1>1, <1>2, LastPool
<1>4. Gives(f, at[last], key, n + 1)
  BY <1>3 DEF Gives
<1>5. FilledPool(f, at[last], new, n + 1)
  <2>1. pools[last] \in ConfPool /\ FilledPool(f, at[last], pools[last], n)
    BY <1>1, <1>3
  <2> QED
    BY <1>4, <2>1, SetEvent
<1> HIDE DEF new
<1>6. ASSUME NEW i \in DOMAIN pools, i # last
      PROVE  FilledPool(f, at[i], pools[i], n + 1)
  <2>1. at[i] # at[last]
    <3>1. i < last /\ i \in DOMAIN pools /\ last \in DOMAIN pools
      BY <1>3, <1>6
    <3>2. at[i] < at[last] /\ at[i] \in Nat
      BY <1>1, <1>2, <3>1 DEF NamesOf
    <3> QED
      BY <3>2
  <2>2. \A k \in Directives : ~Gives(f, at[i], k, n + 1)
    BY <1>4, <2>1, InOnePool
  <2> QED
    BY <1>1, <1>6, <2>2, OtherEvent
<1>7. /\ DOMAIN more = DOMAIN pools /\ more[last] = new
      /\ \A i \in DOMAIN pools : i # last => more[i] = pools[i]
  BY <1>3
<1> HIDE DEF more
<1>8. NamesOf(f, at, more, n + 1)
  <2>1. \A v \in PoolNames(f) : v <= n + 1 <=> v <= n
    BY <1>2
  <2>2. \A i \in DOMAIN pools : at[i] \in PoolNames(f)
    BY <1>1 DEF NamesOf
  <2> QED
    BY <1>1, <1>7, <2>1, <2>2 DEF NamesOf
<1>9. Filled(f, more, n + 1)
  BY <1>5, <1>6, <1>7, <1>8 DEF Filled
<1>10. Fits(f, n + 1, key)
  BY DEF Rejected, Fits, Atoi
<1>11. ASSUME NEW v \in GivenValues(f), v < n + 1, SameKey(f, v, n + 1)
       PROVE  NameBetween(f, v, n + 1)
  <2>1. v \in Nat /\ v <= n
    BY <1>2, <1>11
  <2>2. IsFor(f, v, key)
    BY <1>2, <1>11, ForOne DEF SameKey
  <2>3. ~IsSet(pools[last], key)
    BY DEF Rejected
  <2>4. ~Given(f, at[last], key, v, n)
    BY <1>1, <1>3, <2>3, SetIfGiven
  <2> QED
    BY <1>3, <2>1, <2>2, <2>4, EarlierValue
<1>12. SettableSoFar(f, n + 1)
  <2>1. \A v \in GivenValues(f) : v <= n + 1 <=> v <= n \/ v = n + 1
    BY <1>2
  <2>2. ASSUME NEW v \in GivenValues(f), v <= n + 1
        PROVE  \E k \in Directives : IsFor(f, v, k) /\ Fits(f, v, k)
    BY <1>10, <2>1, <2>2 DEF SettableSoFar
  <2>3. ASSUME NEW v \in GivenValues(f), NEW w \in GivenValues(f),
               v < w, w <= n + 1, SameKey(f, v, w)
        PROVE  NameBetween(f, v, w)
    BY <1>11, <2>1, <2>3 DEF SettableSoFar
  <2> QED
    BY <2>2, <2>3 DEF SettableSoFar
<1> QED
  BY <1>9, <1>12 DEF more, new

\* When all of the file has been read, everything in it could be set.
LEMMA AllSettable ==
  ASSUME NEW f \in Files, NEW n, SettableSoFar(f, n), \A v \in GivenValues(f) : v <= n
  PROVE  IsSettable(f)
BY DEF SettableSoFar, IsSettable, SameKey, NameBetween

\* The pools are then, with the defaults, what the file means.
LEMMA AllFilled ==
  ASSUME NEW f \in Files, NEW n, NEW pools \in Seq(ConfPool), Filled(f, pools, n),
         \A v \in PoolNames(f) \cup GivenValues(f) : v <= n
  PROVE  Means(f, [i \in 1 .. Len(pools) |-> ValidatedPool(pools[i])])
<1> DEFINE done == [i \in 1 .. Len(pools) |-> ValidatedPool(pools[i])]
<1>1. PICK at : /\ NamesOf(f, at, pools, n)
                /\ \A i \in DOMAIN pools : FilledPool(f, at[i], pools[i], n)
  BY DEF Filled
<1>2. /\ DOMAIN done = DOMAIN pools
      /\ \A i \in DOMAIN pools : done[i] = ValidatedPool(pools[i]) /\ pools[i] \in ConfPool
  OBVIOUS
<1>3. ASSUME NEW p, NEW cp \in ConfPool, FilledPool(f, p, cp, n)
      PROVE  IsPoolAt(f, p, ValidatedPool(cp))
  <2> DEFINE valid == ValidatedPool(cp)
  <2>1. /\ valid.name = cp.name /\ valid.str = cp.str /\ valid.valid
        /\ \A key \in NumDirectives : valid.num[key] = WithDefault(cp, key)
    BY DEF ValidatedPool, ConfPool
  <2> HIDE DEF valid
  <2>2. \A key, v : Given(f, p, key, v, n) <=> v \in GivenValues(f) /\ Gives(f, p, key, v)
    BY DEF Given
  <2>3. ASSUME NEW key \in StringDirectives
        PROVE  \/ \E v \in GivenValues(f) :
                    Gives(f, p, key, v) /\ valid.str[key] = f.events[v].value
               \/ NotGiven(f, p, key) /\ valid.str[key] = NULL
    BY <1>3, <2>1, <2>2 DEF FilledPool, NotGiven
  <2>4. ASSUME NEW key \in NumDirectives
        PROVE  \/ \E v \in GivenValues(f) :
                    Gives(f, p, key, v) /\ valid.num[key] = NumOf[f.events[v].value]
               \/ NotGiven(f, p, key) /\ valid.num[key] = DefaultOf(valid.name, key)
    <3>1. CASE \E v : /\ Given(f, p, key, v, n) /\ f.events[v].value \in DOMAIN NumOf
                      /\ cp.num[key] = NumOf[f.events[v].value]
      <4>1. PICK v : /\ Given(f, p, key, v, n) /\ f.events[v].value \in DOMAIN NumOf
                     /\ cp.num[key] = NumOf[f.events[v].value]
        BY <3>1
      <4>2. cp.num[key] \in Nat
        BY <4>1, ConstantsAssumption
      <4>3. valid.num[key] = cp.num[key]
        BY <2>1, <4>2 DEF WithDefault, CONF_UNSET_NUM
      <4> QED
        BY <2>2, <4>1, <4>3
    <3>2. CASE (\A v : ~Given(f, p, key, v, n)) /\ cp.num[key] = CONF_UNSET_NUM
      <4>1. WithDefault(cp, key) = DefaultOf(cp.name, key)
        BY <3>2 DEF WithDefault, DefaultPort, DefaultOf, CONF_UNSET_NUM
      <4> QED
        BY <2>1, <2>2, <3>2, <4>1 DEF NotGiven
    <3> QED
      BY <1>3, <3>1, <3>2 DEF FilledPool
  <2> QED
    BY <1>3, <2>1, <2>3, <2>4 DEF IsPoolAt, FilledPool, valid
<1> HIDE DEF done
<1>4. \A i \in DOMAIN done : IsPoolAt(f, at[i], done[i])
  BY <1>1, <1>2, <1>3
<1>5. /\ at \in [DOMAIN done -> PoolNames(f)]
      /\ \A i, j \in DOMAIN done : i < j => at[i] < at[j]
      /\ \A p \in PoolNames(f) : \E i \in DOMAIN done : at[i] = p
  BY <1>1, <1>2 DEF NamesOf
<1> QED
  BY <1>4, <1>5 DEF Means, done

-----------------------------------------------------------------------------
(***************************************************************************)
(* The passes over the events of a file that nobody rewrites meanwhile.    *)
(***************************************************************************)
Reached ==
  /\ pos \in 0 .. Len(disk.events)
  /\ open = Stack(disk, pos)

PlacedSoFar(f, n) ==
  \A i \in Events(f) : i <= n => Placed(Stack(f, i - 1), f.events[i])

\* A sequence after the last pool name among the first n events.
SequenceHere(f, n) == \E m \in SequenceStarts(f) : m <= n /\ ~NameBetween(f, m, n + 1)

OneSequenceSoFar(f, n) ==
  \A l, m \in SequenceStarts(f) : l < m /\ m <= n => NameBetween(f, l, m)

\* conf_validate_structure: its flag says whether this pool has a sequence.
FlagAgrees ==
  /\ InRoot(open, "value") => ~SequenceHere(disk, pos)
  /\ InPool(open, "key") \/ InPool(open, "value") \/ InSequence(open) =>
       (check.seq <=> SequenceHere(disk, pos))

StructureInv ==
  /\ Reached
  /\ PlacedSoFar(disk, pos)
  /\ OneSequenceSoFar(disk, pos)
  /\ FlagAgrees

\* conf_parse: the document has begun once the parser is inside it; nothing is
\* named or given before the root mapping.
DocumentBegun == \E d \in Documents(disk) : d <= pos

BeginInv ==
  /\ Reached
  /\ \A n \in ScalarEvents(disk) : pos < n
  /\ Len(open) = 2 => DocumentBegun

FilledSoFar == Filled(disk, pool, pos) /\ SettableSoFar(disk, pos)

CoreInv ==
  /\ Reached
  /\ DocumentBegun
  /\ FilledSoFar
  /\ Len(arg) = 2 => IsFor(disk, pos + 1, arg[2])

\* The root mapping was read: what is left ends the document and the stream.
Closing(o) ==
  \/ Len(o) = 1 /\ o[1] = "stream"
  \/ Len(o) = 2 /\ o[1] = "stream" /\ o[2] = "docend"

EndInv == Reached /\ DocumentBegun /\ FilledSoFar /\ Closing(open) /\ depth = 0

PostInv == Reached /\ FilledSoFar /\ open = <<"done">>

AnswerInv ==
  /\ phase \in {"open", "document", "tokens", "structure", "parse"} => ~parser
  /\ phase \in {"structure_events", "begin", "core", "end"} => parser
  /\ phase \in {"tokens", "structure", "structure_events"} =>
       Composes(disk) /\ Cardinality(Documents(disk)) = 1
  /\ phase = "structure_events" => StructureInv
  /\ phase \in {"parse", "begin", "core", "end", "post"} => IsConfiguration(disk) /\ sound
  /\ phase \in {"open", "document", "tokens", "structure", "structure_events",
                "parse", "begin", "core", "end"} => ~parsed
  /\ phase = "begin" => BeginInv
  /\ phase = "core" => CoreInv
  /\ phase = "end" => EndInv
  /\ phase = "post" => PostInv
  /\ phase = "destroy" => faults > 0 \/ ~Meaningful(disk)

\* Once a pass has read so far, it can read on to the end of the stream.
LEMMA ReadsOn ==
  ASSUME TypeInv, Composes(disk), Reached, parser
  PROVE  /\ CanRead(disk, pos, open)
         /\ Top(open) # "done" =>
              /\ pos + 1 \in Events(disk) /\ NextEvent = disk.events[pos + 1]
              /\ pos + 1 \in 1 .. Len(disk.events)
              /\ Accepts(open, NextEvent)
         /\ Top(open) # "done" /\ Fetch /\ disk' = disk =>
              /\ pos' = pos + 1
              /\ open' = NextStack(open, NextEvent)
              /\ Reached'
         /\ Top(open) = "done" /\ Fetch /\ disk' = disk =>
              pos' = pos /\ open' = open /\ NextEvent = NoEvent /\ Reached'
<1>1. disk \in Files /\ Len(disk.events) \in Nat /\ pos \in 0 .. Len(disk.events)
      /\ open = Stack(disk, pos)
  BY FilesAssumption DEF TypeInv, TypeOK, Reached
<1>2. CASE Top(open) = "done"
  <2>1. CanRead(disk, pos, open) /\ NextEvent = NoEvent
    BY <1>2 DEF CanRead, NextEvent, EventAt
  <2>2. NextStack(open, NoEvent) = open
    BY DEF NextStack, NoEvent
  <2> QED
    BY <1>2, <2>1, <2>2 DEF Fetch, Reached
<1>3. CASE Top(open) # "done"
  <2>1. pos # Len(disk.events)
    <3>1. Stack(disk, Len(disk.events)) = <<"done">>
      BY <1>1, Trace
    <3> QED
      BY <1>1, <1>3, <3>1, SMTT(20) DEF Top
  <2>2. pos + 1 \in 1 .. Len(disk.events) /\ pos < Len(disk.events) /\ (pos + 1) - 1 = pos
    BY <1>1, <2>1
  <2>3. /\ Accepts(open, disk.events[pos + 1])
        /\ Stack(disk, pos + 1) = NextStack(open, disk.events[pos + 1])
    BY <1>1, <2>2, Trace
  <2>4. NextEvent = disk.events[pos + 1]
    BY <1>3 DEF NextEvent, EventAt
  <2>5. pos + 1 \in Events(disk)
    BY <2>2 DEF Events
  <2>6. CanRead(disk, pos, open)
    BY <2>2, <2>3 DEF CanRead
  <2>7. Fetch /\ disk' = disk =>
          pos' = pos + 1 /\ open' = NextStack(open, NextEvent) /\ Reached'
    <3> SUFFICES ASSUME Fetch, disk' = disk
                 PROVE  pos' = pos + 1 /\ open' = NextStack(open, NextEvent) /\ Reached'
      OBVIOUS
    <3>1. pos' = pos + 1 /\ open' = NextStack(open, NextEvent)
      BY <1>3 DEF Fetch
    <3>2. pos' \in 0 .. Len(disk.events) /\ open' = Stack(disk, pos')
      BY <2>2, <2>3, <2>4, <3>1
    <3> QED
      BY <3>1, <3>2 DEF Reached
  <2> QED
    BY <1>3, <2>2, <2>3, <2>4, <2>5, <2>6, <2>7
<1> QED
  BY <1>2, <1>3

\* A pass begins at the first event.
LEMMA ReadsFirst ==
  ASSUME TypeInv, disk' = disk, Composes(disk), pos' = 0, open' = InitialStack
  PROVE  Reached'
<1>1. disk \in Files /\ Len(disk.events) \in Nat
  BY FilesAssumption DEF TypeInv, TypeOK
<1> QED
  BY <1>1, Trace DEF Reached

-----------------------------------------------------------------------------
(***************************************************************************)
(* conf_validate_structure refuses no configuration.                       *)
(***************************************************************************)

\* It lets pass what is placed, and the first sequence of a pool.
LEMMA PlacedPasses ==
  ASSUME TypeInv, ValidatorAgrees, NEW e \in Event, Placed(open, e),
         e.type = "SequenceStart" => ~check.seq
  PROVE  ~Misplaced(check, e)
<1>1. /\ check.depth \in Int /\ check.count \in [0 .. 2 -> Nat]
      /\ check.seq \in BOOLEAN
  BY DEF TypeInv, TypeOK
<1>2. CASE Outside(open) /\ check.depth = 0 /\ ~check.seq
  <2>1. e.type \in {"StreamStart", "DocumentStart", "MappingStart", "DocumentEnd", "StreamEnd"}
    BY <1>2 DEF Placed, Outside, InRoot, InPool, InSequence
  <2> QED
    BY <1>2, <2>1 DEF Misplaced, MisplacedMapping
<1>3. CASE InRoot(open, "key") /\ check.depth = 1 /\ check.count[1] = 0
  <2>1. e.type \in {"Scalar", "MappingEnd"}
    BY <1>3 DEF Placed, Outside, InRoot, InPool, InSequence
  <2> QED
    BY <1>3, <2>1 DEF Misplaced, MisplacedScalar
<1>4. CASE InRoot(open, "value") /\ check.depth = 1 /\ check.count[1] = 1
  <2>1. e.type = "MappingStart"
    BY <1>4 DEF Placed, Outside, InRoot, InPool, InSequence
  <2> QED
    BY <1>4, <2>1 DEF Misplaced, MisplacedMapping
<1>5. CASE InPool(open, "key") /\ check.depth = 2
  <2>1. e.type \in {"Scalar", "MappingEnd"}
    BY <1>5 DEF Placed, Outside, InRoot, InPool, InSequence
  <2> QED
    BY <1>5, <2>1 DEF Misplaced, MisplacedScalar
<1>6. CASE InPool(open, "value") /\ check.depth = 2 /\ check.count[2] = 1
  <2>1. e.type \in {"Scalar", "SequenceStart"}
    BY <1>6 DEF Placed, Outside, InRoot, InPool, InSequence
  <2> QED
    BY <1>6, <2>1 DEF Misplaced, MisplacedScalar, MisplacedSequence
<1>7. CASE InSequence(open) /\ check.depth = 2
  <2>1. e.type \in {"Scalar", "SequenceEnd"}
    BY <1>7 DEF Placed, Outside, InRoot, InPool, InSequence
  <2> QED
    BY <1>7, <2>1 DEF Misplaced, MisplacedScalar
<1> QED
  BY <1>2, <1>3, <1>4, <1>5, <1>6, <1>7 DEF ValidatorAgrees

\* What an event does to SequenceHere.
LEMMA SequenceSteps ==
  ASSUME NEW f \in Files, Composes(f), NEW n \in Nat, n + 1 \in Events(f)
  PROVE  /\ n + 1 \in PoolNames(f) => ~SequenceHere(f, n + 1)
         /\ f.events[n + 1].type = "SequenceStart" => SequenceHere(f, n + 1)
         /\ n + 1 \notin PoolNames(f) /\ f.events[n + 1].type # "SequenceStart" =>
              (SequenceHere(f, n + 1) <=> SequenceHere(f, n))
<1>1. /\ PoolNames(f) \in SUBSET Nat /\ SequenceStarts(f) \in SUBSET Nat
      /\ n + 1 \in Nat /\ n + 1 < (n + 1) + 1
  BY PartsNumbered
<1>2. \A m \in SequenceStarts(f) : m <= n + 1 <=> m <= n \/ m = n + 1
  BY <1>1
<1>3. \A p \in PoolNames(f) : p < (n + 1) + 1 <=> p < n + 1 \/ p = n + 1
  BY <1>1
<1>4. ASSUME n + 1 \in PoolNames(f), NEW m \in SequenceStarts(f), m <= n + 1
      PROVE  NameBetween(f, m, (n + 1) + 1)
  <2>1. m # n + 1
    BY <1>4, Parts DEF SequenceStarts
  <2>2. m < n + 1
    BY <1>1, <1>4, <2>1
  <2> QED
    BY <1>1, <1>4, <2>2 DEF NameBetween
<1>5. ASSUME f.events[n + 1].type = "SequenceStart" PROVE SequenceHere(f, n + 1)
  <2>1. n + 1 \in SequenceStarts(f)
    BY <1>5 DEF SequenceStarts
  <2>2. ~NameBetween(f, n + 1, (n + 1) + 1)
    BY <1>1 DEF NameBetween
  <2> QED
    BY <1>1, <2>1, <2>2 DEF SequenceHere
<1>6. ASSUME n + 1 \notin PoolNames(f), f.events[n + 1].type # "SequenceStart"
      PROVE  SequenceHere(f, n + 1) <=> SequenceHere(f, n)
  <2>1. n + 1 \notin SequenceStarts(f)
    BY <1>6 DEF SequenceStarts
  <2>2. \A m \in SequenceStarts(f) : NameBetween(f, m, (n + 1) + 1) <=> NameBetween(f, m, n + 1)
    BY <1>3, <1>6 DEF NameBetween
  <2> QED
    BY <1>2, <2>1, <2>2 DEF SequenceHere
<1> QED
  BY <1>4, <1>5, <1>6 DEF SequenceHere

\* What the structure pass knows at each of its events.
StructureStep ==
  /\ TypeInv /\ ValidatorInv /\ open[1] # "done" /\ parser /\ TokensAllowed(disk)
  /\ Composes(disk) /\ Cardinality(Documents(disk)) = 1
  /\ StructureInv
  /\ Fetch

\* The event it reads is one of the file, at the stack the file has there.
LEMMA StructureReads ==
  ASSUME StructureStep
  PROVE  /\ disk \in Files /\ pos \in Nat /\ Nested(open) /\ open = Stack(disk, pos)
         /\ Top(open) # "done"
         /\ pos + 1 \in Events(disk) /\ NextEvent = disk.events[pos + 1]
         /\ NextEvent \in Event /\ Accepts(open, NextEvent) /\ NextEvent.type # "Alias"
         /\ open' = NextStack(open, NextEvent)
<1>1. disk \in Files /\ pos \in Nat /\ Nested(open) /\ open = Stack(disk, pos)
  BY DEF StructureStep, TypeInv, TypeOK, StructureInv, Reached
<1>2. Top(open) # "done"
  BY DEF StructureStep, ValidatorInv, ValidatorAgrees, Outside, InRoot, InPool, InSequence, Top
<1>3. /\ pos + 1 \in Events(disk) /\ NextEvent = disk.events[pos + 1]
      /\ pos + 1 \in 1 .. Len(disk.events)
  BY <1>2, ReadsOn DEF StructureStep, StructureInv
<1>4. NextEvent \in Event /\ Accepts(open, NextEvent) /\ open' = NextStack(open, NextEvent)
  BY FetchTyped DEF StructureStep, Fetch
<1>5. NextEvent.type # "Alias"
  BY <1>3 DEF StructureStep, TokensAllowed
<1> QED
  BY <1>1, <1>2, <1>3, <1>4, <1>5

\* What it refuses is no configuration.
LEMMA StructureRefuses ==
  ASSUME StructureStep, Misplaced(check, NextEvent)
  PROVE  ~IsConfiguration(disk)
<1> SUFFICES ASSUME IsConfiguration(disk) PROVE FALSE
  OBVIOUS
<1>1. NextEvent.type \in {"MappingStart", "SequenceStart", "Scalar"}
  BY DEF StructureStep, Misplaced
<1>2. Before(disk, pos + 1) = {open}
  <2>1. pos + 1 - 1 = pos
    BY StructureReads
  <2> QED
    BY <2>1, StructureReads, Parts DEF StructureStep
<1>3. Placed(open, NextEvent)
  BY <1>1, <1>2, StructureReads DEF IsConfiguration
<1>4. NextEvent.type = "SequenceStart" /\ check.seq
  BY <1>3, StructureReads, PlacedPasses DEF StructureStep, ValidatorInv
<1>5. InPool(open, "value")
  BY <1>3, <1>4 DEF Placed
<1>6. PICK m \in SequenceStarts(disk) : m <= pos /\ ~NameBetween(disk, m, pos + 1)
  BY <1>4, <1>5 DEF StructureStep, StructureInv, FlagAgrees, SequenceHere
<1>7. pos + 1 \in SequenceStarts(disk)
  BY <1>4, StructureReads DEF SequenceStarts
<1>8. m \in Nat /\ m < pos + 1
  BY <1>6, StructureReads, PartsNumbered
<1> QED
  BY <1>6, <1>7, <1>8 DEF IsConfiguration, NameBetween

\* What it lets pass keeps its flag in step with the file.
LEMMA FlagStep ==
  ASSUME StructureStep, ~Misplaced(check, NextEvent), check' = Counted(check, NextEvent),
         disk' = disk, pos' = pos + 1
  PROVE  FlagAgrees'
<1> DEFINE e == NextEvent
<1>1. /\ disk \in Files /\ pos \in Nat /\ Nested(open) /\ open = Stack(disk, pos)
      /\ pos + 1 \in Events(disk) /\ e = disk.events[pos + 1]
      /\ e \in Event /\ Accepts(open, e) /\ open' = NextStack(open, e)
  BY StructureReads
<1>2. Placed(open, e)
  BY StructureReads, NotMisplaced DEF StructureStep
<1>3. /\ e.type # "MappingEnd" /\ e.type # "SequenceStart" =>
           (check'.seq <=> check.seq)
      /\ e.type = "SequenceStart" => check'.seq
  <2>1. check \in [depth : Int, count : [0 .. 2 -> Nat], seq : BOOLEAN]
    BY DEF StructureStep, TypeInv, TypeOK
  <2>2. e.type \notin {"MappingEnd", "SequenceStart"} => Counted(check, e).seq = check.seq
    BY <2>1 DEF Counted
  <2>3. e.type = "SequenceStart" => Counted(check, e).seq
    BY <2>1, CountedFields
  <2> QED
    BY <2>2, <2>3
<1>4. /\ e.type = "Scalar" /\ InRoot(open, "key") => ~SequenceHere(disk, pos + 1)
      /\ e.type = "SequenceStart" => SequenceHere(disk, pos + 1)
      /\ e.type # "SequenceStart" /\ ~(e.type = "Scalar" /\ InRoot(open, "key")) =>
           (SequenceHere(disk, pos + 1) <=> SequenceHere(disk, pos))
  <2>1. (pos + 1) - 1 = pos
    BY <1>1
  <2>2. pos + 1 \in PoolNames(disk) <=> e.type = "Scalar" /\ InRoot(open, "key")
    BY <1>1, <2>1, Parts DEF StructureStep, ScalarEvents
  <2> QED
    BY <1>1, <2>2, SequenceSteps DEF StructureStep
<1>5. FlagAgrees /\ ValidatorAgrees
  BY DEF StructureStep, StructureInv, ValidatorInv
<1>6. (InRoot(open, "key") \/ InRoot(open, "value")) => ~check.seq
  BY <1>5 DEF ValidatorAgrees, Outside, InRoot, InPool, InSequence
<1> HIDE DEF e
<1>7. CASE Outside(open)
  <2>1. InRoot(open', "key") \/ Outside(open')
    BY <1>1, <1>2, <1>7, MoveOutside
  <2> QED
    BY <2>1 DEF FlagAgrees, Outside, InRoot, InPool, InSequence
<1>8. CASE Len(open) = 3
  <2>1. \/ InRoot(open, "key") /\ e.type = "Scalar" /\ InRoot(open', "value")
        \/ Outside(open')
        \/ InRoot(open, "value") /\ e.type = "MappingStart" /\ InPool(open', "key")
    BY <1>1, <1>2, <1>8, MoveInRoot
  <2>2. CASE InRoot(open, "key") /\ e.type = "Scalar" /\ InRoot(open', "value")
    BY <1>4, <2>2 DEF FlagAgrees, InRoot, InPool, InSequence
  <2>3. CASE Outside(open')
    BY <2>3 DEF FlagAgrees, Outside, InRoot, InPool, InSequence
  <2>4. CASE InRoot(open, "value") /\ e.type = "MappingStart" /\ InPool(open', "key")
    <3>1. ~SequenceHere(disk, pos) /\ ~check.seq
      BY <1>5, <1>6, <2>4 DEF FlagAgrees
    <3>2. ~SequenceHere(disk, pos + 1) /\ ~check'.seq
      BY <1>3, <1>4, <2>4, <3>1
    <3> QED
      BY <2>4, <3>2 DEF FlagAgrees, InRoot, InPool
  <2> QED
    BY <2>1, <2>2, <2>3, <2>4
<1>9. CASE Len(open) > 3
  <2>1. \/ InRoot(open', "key")
        \/ /\ InPool(open, "key") \/ InPool(open, "value") \/ InSequence(open)
           /\ ~InRoot(open', "value") /\ ~InRoot(open, "key")
           /\ e.type \in {"Scalar", "SequenceStart", "SequenceEnd"}
    BY <1>1, <1>2, <1>9, MoveInPool DEF InRoot, InPool, InSequence
  <2>2. CASE InRoot(open', "key")
    BY <2>2 DEF FlagAgrees, InRoot, InPool, InSequence
  <2>3. CASE /\ InPool(open, "key") \/ InPool(open, "value") \/ InSequence(open)
             /\ ~InRoot(open', "value") /\ ~InRoot(open, "key")
             /\ e.type \in {"Scalar", "SequenceStart", "SequenceEnd"}
    <3>1. check.seq <=> SequenceHere(disk, pos)
      BY <1>5, <2>3 DEF FlagAgrees
    <3>2. check'.seq <=> SequenceHere(disk, pos + 1)
      BY <1>3, <1>4, <2>3, <3>1
    <3> QED
      BY <2>3, <3>2 DEF FlagAgrees
  <2> QED
    BY <2>1, <2>2, <2>3
<1>10. Outside(open) \/ Len(open) = 3 \/ Len(open) > 3
  <2>1. PICK k \in Nat : k = Len(open)
    BY <1>1 DEF Nested
  <2> QED
    BY <1>5, <2>1 DEF ValidatorAgrees, InRoot, InPool, InSequence
<1> QED
  BY <1>7, <1>8, <1>9, <1>10

\* And a file that it has let pass is a configuration.
LEMMA StructureGoesOn ==
  ASSUME StructureStep, ~Misplaced(check, NextEvent), check' = Counted(check, NextEvent),
         disk' = disk
  PROVE  /\ StructureInv'
         /\ NextEvent.type = "StreamEnd" => IsConfiguration(disk)
<1> DEFINE e == NextEvent
<1>1. /\ disk \in Files /\ pos \in Nat /\ Nested(open) /\ open = Stack(disk, pos)
      /\ pos + 1 \in Events(disk) /\ e = disk.events[pos + 1]
      /\ e \in Event /\ Accepts(open, e) /\ open' = NextStack(open, e)
      /\ (pos + 1) - 1 = pos
  BY StructureReads
<1>2. pos' = pos + 1 /\ Reached'
  BY StructureReads, ReadsOn DEF StructureStep, StructureInv
<1>3. Placed(open, e)
  BY StructureReads, NotMisplaced DEF StructureStep
<1>4. PlacedSoFar(disk, pos + 1)
  <2>1. \A i \in Events(disk) : i <= pos + 1 <=> i <= pos \/ i = pos + 1
    BY <1>1 DEF Events
  <2> QED
    BY <1>1, <1>3, <2>1 DEF StructureStep, StructureInv, PlacedSoFar
<1>5. OneSequenceSoFar(disk, pos + 1)
  <2>1. \A m \in SequenceStarts(disk) : m \in Nat /\ (m <= pos + 1 <=> m <= pos \/ m = pos + 1)
    BY <1>1, PartsNumbered
  <2>2. ASSUME pos + 1 \in SequenceStarts(disk)
        PROVE  ~SequenceHere(disk, pos)
    <3>1. e.type = "SequenceStart"
      BY <1>1, <2>2 DEF SequenceStarts
    <3>2. ~check.seq
      BY <3>1 DEF Misplaced, MisplacedSequence
    <3>3. InPool(open, "value")
      <4>1. e.type = "SequenceStart" => InPool(open, "value")
        BY <1>3 DEF Placed
      <4> QED
        BY <3>1, <4>1
    <3> QED
      BY <3>2, <3>3 DEF StructureStep, StructureInv, FlagAgrees
  <2>3. ASSUME NEW l \in SequenceStarts(disk), NEW m \in SequenceStarts(disk),
               l < m, m <= pos + 1
        PROVE  NameBetween(disk, l, m)
    <3>1. CASE m <= pos
      BY <2>3, <3>1 DEF StructureStep, StructureInv, OneSequenceSoFar
    <3>2. CASE m = pos + 1
      <4>1. l \in Nat /\ l < pos + 1
        BY <2>1, <2>3, <3>2
      <4>2. l <= pos
        BY <1>1, <4>1
      <4> QED
        BY <2>2, <3>2, <4>2 DEF SequenceHere
    <3> QED
      BY <2>1, <2>3, <3>1, <3>2
  <2> QED
    BY <2>3 DEF OneSequenceSoFar
<1>6. FlagAgrees'
  BY <1>2, FlagStep
<1>7. StructureInv'
  BY <1>2, <1>4, <1>5, <1>6 DEF StructureInv
<1>8. ASSUME e.type = "StreamEnd" PROVE IsConfiguration(disk)
  <2>1. Stack(disk, pos + 1) = <<"done">> /\ pos + 1 \in 0 .. Len(disk.events)
    <3>1. Stack(disk, pos + 1) = <<"done">>
      BY <1>1, <1>2, <1>8 DEF Reached, NextStack
    <3> QED
      BY <1>2, <3>1 DEF Reached
  <2>2. Composes(disk) /\ Len(disk.events) \in Nat
    BY <1>1, FilesAssumption DEF StructureStep
  <2>3. ASSUME NEW n \in Events(disk), n > pos + 1
        PROVE  Stack(disk, n - 1) = <<"done">> /\ disk.events[n].type = "None"
    <3>1. n \in 1 .. Len(disk.events) /\ n - 1 \in pos + 1 .. Len(disk.events)
      BY <1>1, <2>2, <2>3 DEF Events
    <3>2. Stack(disk, n - 1) = <<"done">>
      BY <1>1, <2>1, <2>2, <3>1, DoneStays
    <3>3. Accepts(<<"done">>, disk.events[n])
      BY <1>1, <2>2, <3>1, <3>2, Trace
    <3> QED
      BY <3>2, <3>3 DEF Accepts, Expected, Top
  <2>4. ASSUME NEW n \in Events(disk), disk.events[n].type # "None"
        PROVE  \E o \in Before(disk, n) : Placed(o, disk.events[n])
    <3>1. n <= pos + 1
      BY <1>1, <2>3, <2>4 DEF Events
    <3>2. Placed(Stack(disk, n - 1), disk.events[n])
      BY <1>4, <3>1 DEF PlacedSoFar
    <3> QED
      BY <1>1, <2>2, <3>2, Parts
  <2>5. ASSUME NEW m \in SequenceStarts(disk), NEW n \in SequenceStarts(disk), m < n
        PROVE  \E p \in PoolNames(disk) : m < p /\ p < n
    <3>1. n \in Events(disk) /\ disk.events[n].type = "SequenceStart"
      BY DEF SequenceStarts
    <3>2. n <= pos + 1
      BY <1>1, <2>3, <3>1 DEF Events
    <3> QED
      BY <1>5, <2>5, <3>2 DEF OneSequenceSoFar, NameBetween
  <2> QED
    BY <2>4, <2>5 DEF StructureStep, IsConfiguration
<1> QED
  BY <1>7, <1>8

-----------------------------------------------------------------------------
(***************************************************************************)
(* conf_parse reads a configuration.                                       *)
(***************************************************************************)

\* What it knows at each of its events.
ParseStep ==
  /\ TypeInv /\ parser /\ Reached /\ IsConfiguration(disk)
  /\ Fetch /\ disk' = disk

\* The next event is placed, and one of the file.
LEMMA ParseReads ==
  ASSUME ParseStep, Top(open) # "done"
  PROVE  /\ disk \in Files /\ Composes(disk) /\ pos \in Nat /\ (pos + 1) - 1 = pos
         /\ Nested(open) /\ open = Stack(disk, pos)
         /\ pos + 1 \in Events(disk) /\ NextEvent = disk.events[pos + 1]
         /\ NextEvent \in Event /\ Accepts(open, NextEvent)
         /\ open' = NextStack(open, NextEvent) /\ pos' = pos + 1 /\ Reached'
         /\ Placed(open, NextEvent)
<1>1. /\ disk \in Files /\ Composes(disk) /\ pos \in Nat /\ (pos + 1) - 1 = pos
      /\ Nested(open) /\ open = Stack(disk, pos)
  BY DEF ParseStep, TypeInv, TypeOK, Reached, IsConfiguration
<1>2. /\ pos + 1 \in Events(disk) /\ NextEvent = disk.events[pos + 1]
      /\ open' = NextStack(open, NextEvent) /\ pos' = pos + 1 /\ Reached'
  BY <1>1, ReadsOn DEF ParseStep
<1>3. NextEvent \in Event /\ Accepts(open, NextEvent)
  BY FetchTyped DEF ParseStep
<1>4. NextEvent.type # "None"
  <2>1. Top(open) \in YamlState
    BY <1>1 DEF Nested, Top
  <2> QED
    BY <1>3, <2>1 DEF Accepts, Expected, YamlState, NodeEvents
<1>5. \E o \in Before(disk, pos + 1) : Placed(o, NextEvent)
  BY <1>2, <1>4 DEF ParseStep, IsConfiguration
<1>6. Before(disk, pos + 1) = {open}
  BY <1>1, <1>2, Parts
<1> QED
  BY <1>1, <1>2, <1>3, <1>5, <1>6

\* An event that is no scalar changes nothing that is filled in.
LEMMA NoScalar ==
  ASSUME ParseStep, Top(open) # "done", NextEvent.type # "Scalar", NEW pools
  PROVE  /\ pos + 1 \notin ScalarEvents(disk)
         /\ pos + 1 \notin PoolNames(disk) /\ pos + 1 \notin GivenValues(disk)
         /\ pos + 1 \notin DirectiveNames(disk)
         /\ Filled(disk, pools, pos) => Filled(disk, pools, pos + 1)
         /\ SettableSoFar(disk, pos) => SettableSoFar(disk, pos + 1)
<1>1. pos + 1 \notin ScalarEvents(disk)
  BY ParseReads DEF ScalarEvents
<1>2. /\ pos + 1 \notin PoolNames(disk) /\ pos + 1 \notin GivenValues(disk)
      /\ pos + 1 \notin DirectiveNames(disk)
  BY <1>1 DEF PoolNames, GivenValues, DirectiveNames
<1> QED
  BY <1>1, <1>2, ParseReads, QuietEvent

\* The directive that is named stays the last one until another is named.
LEMMA StillNamed ==
  ASSUME NEW f \in Files, NEW n \in Nat, n \notin DirectiveNames(f), NEW key, IsFor(f, n, key)
  PROVE  IsFor(f, n + 1, key)
BY StillLast, PartsNumbered DEF IsFor

\* The document has begun before its root mapping does.
LEMMA BeginGoesOn ==
  ASSUME ParseStep, BeginInv, Outside(open), pool = <<>>, arg = <<>>,
         UNCHANGED <<pool, arg>>
  PROVE  /\ NextEvent.type # "MappingStart" => BeginInv'
         /\ NextEvent.type = "MappingStart" => CoreInv'
<1>1. CASE Top(open) = "done"
  <2>1. pos' = pos /\ open' = open /\ NextEvent.type = "None" /\ Reached'
    <3>1. Composes(disk)
      BY DEF ParseStep, IsConfiguration
    <3>2. pos' = pos /\ open' = open /\ NextEvent = NoEvent /\ Reached'
      BY <1>1, <3>1, ReadsOn DEF ParseStep
    <3> QED
      BY <3>2 DEF NoEvent
  <2> QED
    BY <2>1 DEF ParseStep, BeginInv, DocumentBegun
<1>2. CASE Top(open) # "done"
  <2> DEFINE e == NextEvent
  <2>1. /\ disk \in Files /\ pos \in Nat /\ Nested(open)
        /\ pos + 1 \in Events(disk) /\ e = disk.events[pos + 1]
        /\ e \in Event /\ Accepts(open, e) /\ open' = NextStack(open, e)
        /\ pos' = pos + 1 /\ Reached' /\ Placed(open, e) /\ disk' = disk
    BY <1>2, ParseReads DEF ParseStep
  <2> HIDE DEF e
  <2>2. e.type \in {"StreamStart", "DocumentStart", "MappingStart", "DocumentEnd", "StreamEnd"}
    BY <2>1 DEF Placed, Outside, InRoot, InPool, InSequence
  <2>3. /\ pos + 1 \notin ScalarEvents(disk)
        /\ Filled(disk, <<>>, pos) => Filled(disk, <<>>, pos + 1)
        /\ SettableSoFar(disk, pos) => SettableSoFar(disk, pos + 1)
    BY <1>2, <2>2, NoScalar DEF e
  <2>4. \A n \in ScalarEvents(disk) : pos + 1 < n
    <3>1. \A n \in ScalarEvents(disk) : n \in Nat /\ pos < n /\ n # pos + 1
      BY <2>1, <2>3 DEF BeginInv, ScalarEvents, Events
    <3> QED
      BY <2>1, <3>1
  <2>5. ASSUME e.type # "MappingStart" PROVE BeginInv'
    <3>1. CASE e.type = "DocumentStart"
      <4>1. pos + 1 \in Documents(disk)
        BY <2>1, <3>1 DEF Documents, Events
      <4> QED
        BY <2>1, <2>4, <4>1 DEF BeginInv, DocumentBegun
    <3>2. CASE e.type \in {"StreamStart", "DocumentEnd", "StreamEnd"}
      <4>1. Len(open') # 2
        <5>1. CASE e.type = "DocumentEnd"
          <6>1. open \in Seq(YamlState) /\ Len(open) \in {1, 2} /\ open' = SubSeq(open, 1, Len(open) - 1)
            BY <2>1, <5>1 DEF NextStack, Nested, Outside
          <6>2. PICK k \in {1, 2} : k = Len(open)
            BY <6>1
          <6>3. Len(open') = k - 1
            BY <6>1, <6>2
          <6> QED
            BY <6>2, <6>3
        <5>2. CASE e.type \in {"StreamStart", "StreamEnd"}
          BY <2>1, <5>2 DEF NextStack
        <5> QED
          BY <3>2, <5>1, <5>2
      <4> QED
        BY <2>1, <2>4, <4>1 DEF BeginInv
    <3> QED
      BY <2>2, <2>5, <3>1, <3>2
  <2>6. ASSUME e.type = "MappingStart" PROVE CoreInv'
    <3>1. Len(open) = 2
      BY <2>1, <2>6 DEF Accepts, Expected, Top, Outside, NodeEvents
    <3>2. DocumentBegun'
      <4>1. PICK d \in Documents(disk) : d <= pos
        BY <3>1 DEF BeginInv, DocumentBegun
      <4>2. d \in Nat
        BY DEF Documents
      <4>3. d <= pos + 1
        BY <2>1, <4>1, <4>2
      <4> QED
        BY <2>1, <4>3 DEF DocumentBegun
    <3>3. Filled(disk, <<>>, pos + 1)
      <4> DEFINE at == [i \in {} |-> 0]
      <4>1. DOMAIN <<>> = {}
        OBVIOUS
      <4>2. \A p \in PoolNames(disk) : ~(p <= pos + 1)
        BY <2>1, <2>4 DEF PoolNames, ScalarEvents, Events
      <4>3. NamesOf(disk, at, <<>>, pos + 1)
        BY <4>1, <4>2 DEF NamesOf
      <4> QED
        BY <4>1, <4>3 DEF Filled
    <3>4. SettableSoFar(disk, pos + 1)
      <4>1. \A v \in GivenValues(disk) : ~(v <= pos + 1)
        BY <2>1, <2>4 DEF GivenValues, ScalarEvents, Events
      <4> QED
        BY <4>1 DEF SettableSoFar
    <3>5. Len(arg') # 2 /\ pool' = <<>>
      OBVIOUS
    <3> QED
      BY <2>1, <3>2, <3>3, <3>4, <3>5 DEF CoreInv, FilledSoFar
  <2> QED
    BY <2>5, <2>6 DEF e
<1> QED
  BY <1>1, <1>2

\* conf_parse_core is inside the root mapping, and what comes takes it where
\* libyaml is.
LEMMA CoreReads ==
  ASSUME ParseStep, ParserAgrees
  PROVE  Top(open) # "done" /\ Turns /\ (DocumentBegun => DocumentBegun')
<1>1. Top(open) # "done"
  BY DEF ParserAgrees, InRoot, InPool, InSequence, Top
<1>2. Turns
  BY <1>1, ParseReads, ParserTurns DEF ParseStep
<1>3. ASSUME DocumentBegun PROVE DocumentBegun'
  <2>1. PICK d \in Documents(disk) : d <= pos
    BY <1>3 DEF DocumentBegun
  <2>2. d \in Nat
    BY DEF Documents
  <2>3. disk' = disk /\ d <= pos'
    BY <1>1, <2>1, <2>2, ParseReads DEF ParseStep
  <2> QED
    BY <2>3 DEF DocumentBegun
<1> QED
  BY <1>1, <1>2, <1>3

\* An event that is no scalar leaves the pools as they are.
LEMMA CoreQuiet ==
  ASSUME ParseStep, ParserAgrees, CoreInv, NextEvent.type # "Scalar", pool' = pool
  PROVE  /\ Reached' /\ DocumentBegun' /\ FilledSoFar'
         /\ \A key : IsFor(disk, pos + 1, key) => IsFor(disk, pos + 1, key)'
<1>1. Top(open) # "done" /\ DocumentBegun'
  BY CoreReads DEF CoreInv
<1>2. /\ disk \in Files /\ pos \in Nat /\ pos' = pos + 1 /\ Reached' /\ disk' = disk
  BY <1>1, ParseReads DEF ParseStep
<1>3. FilledSoFar'
  BY <1>1, <1>2, NoScalar DEF CoreInv, FilledSoFar
<1>4. \A key : IsFor(disk, pos + 1, key) => IsFor(disk, pos' + 1, key)
  <2>1. pos + 1 \notin DirectiveNames(disk) /\ pos + 1 \in Nat
    BY <1>1, <1>2, NoScalar
  <2> QED
    BY <1>2, <2>1, StillNamed
<1> QED
  BY <1>1, <1>2, <1>3, <1>4

\* The turns that read no scalar.
LEMMA CoreNoScalar ==
  ASSUME ParseStep, ParserInv, CoreInv, arg \in Seq(Scalar),
         CoreMappingStart \/ CoreMappingEnd \/ CoreSequenceStart \/ CoreSequenceEnd
  PROVE  /\ phase' = "core" => CoreInv'
         /\ phase' = "end" => EndInv'
         /\ phase' \in {"core", "end"} /\ outcome' = outcome
<1> USE DEF Goto, Undefined
<1>1. ParserAgrees /\ TypeInv
  BY DEF ParserInv, ParseStep
<1>2. Turns
  BY <1>1, CoreReads
<1>3. /\ Reached' /\ DocumentBegun' /\ FilledSoFar'
      /\ \A key : IsFor(disk, pos + 1, key) => IsFor(disk, pos + 1, key)'
  <2>1. NextEvent.type # "Scalar" /\ pool' = pool
    BY DEF CoreMappingStart, CoreMappingEnd, CoreSequenceStart, CoreSequenceEnd, CoreFetch, result
  <2> QED
    BY <1>1, <2>1, CoreQuiet
<1>4. (Len(arg) = 0 => arg = <<>>) /\ (Len(arg) # 0 => arg # <<>>)
  OBVIOUS
<1>5. Len(arg) > 0 => Len(SubSeq(arg, 1, Len(arg) - 1)) = Len(arg) - 1
  BY Popped
<1>6. CASE CoreMappingStart \/ CoreSequenceStart
  <2>1. arg' = arg /\ phase' = "core" /\ outcome' = outcome
    BY <1>6 DEF CoreMappingStart, CoreSequenceStart, CoreFetch, result
  <2> QED
    BY <1>3, <2>1 DEF CoreInv
<1>7. CASE CoreMappingEnd
  <2>1. NextEvent.type = "MappingEnd" /\ phase = "core"
    BY <1>7 DEF CoreMappingEnd, CoreFetch
  <2>2. CASE InRoot(open, "key")
    <3>1. depth = 1
      BY <1>1, <2>2, Positions
    <3>2. phase' = "end" /\ depth' = 0 /\ outcome' = outcome
      BY <1>7, <3>1 DEF CoreMappingEnd
    <3>3. open \in Seq(YamlState) /\ Len(open) = 3
          /\ open' = SubSeq(open, 1, Len(open) - 1)
      BY <1>1, <2>1, <2>2 DEF InRoot, TypeInv, TypeOK, ParseStep, Fetch, NextStack
    <3>4. Closing(open')
      BY <2>2, <3>3, Shortened DEF Closing, Keeps, InRoot
    <3> QED
      BY <1>3, <3>2, <3>4 DEF EndInv
  <2>3. CASE InPool(open, "key")
    <3>1. depth = 2 /\ Len(arg) = 1
      BY <1>1, <2>3, Positions
    <3>2. PopScalar /\ arg # <<>>
      BY <1>4, <1>7, <3>1 DEF CoreMappingEnd
    <3>3. Len(arg') = 0 /\ phase' = "core" /\ outcome' = outcome
      BY <1>5, <2>1, <3>1, <3>2 DEF PopScalar
    <3> QED
      BY <1>3, <3>3 DEF CoreInv
  <2> QED
    BY <1>2, <2>1, <2>2, <2>3 DEF Turns
<1>8. CASE CoreSequenceEnd
  <2>1. NextEvent.type = "SequenceEnd" /\ phase = "core" /\ PopScalar
    BY <1>8 DEF CoreSequenceEnd, CoreFetch
  <2>2. Len(arg) = 2
    BY <1>1, <1>2, <2>1, Positions DEF Turns
  <2>3. Len(arg') = 1 /\ phase' = "core" /\ outcome' = outcome
    BY <1>4, <1>5, <2>1, <2>2 DEF PopScalar
  <2> QED
    BY <1>3, <2>3 DEF CoreInv
<1> QED
  BY <1>6, <1>7, <1>8

\* A directive's name.
LEMMA CoreNames ==
  ASSUME ParseStep, ParserInv, CoreInv, arg \in Seq(Scalar), CoreKey
  PROVE  CoreInv'
<1>1. ParserAgrees /\ TypeInv
  BY DEF ParserInv, ParseStep
<1>2. Turns /\ Top(open) # "done" /\ DocumentBegun' /\ NextEvent.type = "Scalar"
      /\ ~StartsPool /\ ~IsLeaf
  BY <1>1, CoreReads DEF CoreInv, CoreKey, CoreFetch
<1>3. InPool(open, "key") /\ Len(arg) = 1
  BY <1>1, <1>2, Positions DEF Turns, StartsPool, IsLeaf
<1>4. /\ disk \in Files /\ Composes(disk) /\ pos \in Nat /\ (pos + 1) - 1 = pos
      /\ pos + 1 \in Events(disk) /\ open = Stack(disk, pos)
      /\ NextEvent = disk.events[pos + 1] /\ NextEvent \in Event
      /\ pos' = pos + 1 /\ Reached' /\ disk' = disk
  BY <1>2, ParseReads DEF ParseStep
<1>5. pos + 1 \in DirectiveNames(disk)
  BY <1>2, <1>3, <1>4, Parts DEF ScalarEvents
<1>6. pos + 1 \notin PoolNames(disk) /\ pos + 1 \notin GivenValues(disk)
  BY <1>4, <1>5, PartsApart
<1>7. pool' = pool /\ arg' = Append(arg, NextEvent.value)
  BY DEF CoreKey
<1>8. FilledSoFar'
  BY <1>4, <1>6, <1>7, QuietEvent DEF CoreInv, FilledSoFar
<1>9. arg'[2] = NextEvent.value
  <2>1. NextEvent.value \in Scalar
    BY <1>4 DEF Event
  <2>2. Append(arg, NextEvent.value)[Len(arg) + 1] = NextEvent.value
    BY <2>1
  <2> QED
    BY <1>3, <1>7, <2>2
<1>10. IsFor(disk, pos' + 1, NextEvent.value)
  <2>1. LastBefore(DirectiveNames(disk), pos + 1, (pos + 1) + 1)
    <3>1. \A l \in DirectiveNames(disk) : l < (pos + 1) + 1 => l <= pos + 1
      BY <1>4, PartsNumbered
    <3> QED
      BY <1>4, <1>5, <3>1 DEF LastBefore
  <2> QED
    BY <1>4, <1>5, <2>1 DEF IsFor
<1> QED
  BY <1>2, <1>4, <1>8, <1>9, <1>10 DEF CoreInv

\* A pool's name.
LEMMA CoreNamesPool ==
  ASSUME ParseStep, ParserInv, CoreInv, arg \in Seq(Scalar), CorePoolName
  PROVE  /\ phase' = "core" => CoreInv'
         /\ phase' = "core" \/ (phase' = "destroy" /\ Fault)
         /\ outcome' = outcome
<1> USE DEF Goto, Error, Undefined
<1>1. ParserAgrees /\ TypeInv
  BY DEF ParserInv, ParseStep
<1>2. Turns /\ Top(open) # "done" /\ DocumentBegun' /\ NextEvent.type = "Scalar" /\ StartsPool
      /\ phase = "core"
  BY <1>1, CoreReads DEF CoreInv, CorePoolName, CoreFetch
<1>3. InRoot(open, "key") /\ Len(arg) = 0 /\ arg = <<>>
  <2>1. InRoot(open, "key")
    BY <1>1, <1>2, Positions DEF Turns, StartsPool
  <2>2. Len(arg) = 0
    BY <1>1, <2>1, Positions
  <2> QED
    BY <2>1, <2>2
<1>4. /\ disk \in Files /\ Composes(disk) /\ pos \in Nat /\ (pos + 1) - 1 = pos
      /\ pos + 1 \in Events(disk) /\ open = Stack(disk, pos)
      /\ NextEvent = disk.events[pos + 1] /\ NextEvent \in Event
      /\ pos' = pos + 1 /\ Reached' /\ disk' = disk
  BY <1>2, ParseReads DEF ParseStep
<1>5. pos + 1 \in PoolNames(disk)
  BY <1>2, <1>3, <1>4, Parts DEF ScalarEvents
<1>6. outcome' = outcome /\ (phase' = "core" \/ (phase' = "destroy" /\ Fault))
  <2>1. \/ Fault /\ phase' = "destroy" /\ UNCHANGED outcome
        \/ outcome' = outcome /\ phase' = phase
    BY <1>3, Zenon DEF CorePoolName
  <2> QED
    BY <1>2, <2>1, Zenon
<1>7. ASSUME phase' = "core" PROVE CoreInv'
  <2>1. pool' = Append(pool, InitialPool(NextEvent.value))
    BY <1>3, <1>7 DEF CorePoolName
  <2>2. pool \in Seq(ConfPool)
    BY <1>1 DEF TypeInv, TypeOK
  <2>3. Filled(disk, pool', pos + 1)
    BY <1>4, <1>5, <2>1, <2>2, NameEvent DEF CoreInv, FilledSoFar
  <2>4. SettableSoFar(disk, pos + 1)
    <3>1. pos + 1 \notin GivenValues(disk)
      BY <1>4, <1>5, PartsApart
    <3> QED
      BY <1>4, <3>1, QuietEvent DEF CoreInv, FilledSoFar
  <2>5. Len(arg') # 2
    <3>1. arg' = Append(<<>>, NextEvent.value)
      BY <1>3 DEF CorePoolName
    <3> QED
      BY <3>1
  <2> QED
    BY <1>2, <1>4, <2>3, <2>4, <2>5 DEF CoreInv, FilledSoFar
<1> QED
  BY <1>6, <1>7

\* A value is given to the directive named last, in the pool named last.
LEMMA LeafReads ==
  ASSUME ParseStep, ParserInv, CoreInv, arg \in Seq(Scalar), DataFresh, CoreLeaf
  PROVE  /\ Top(open) # "done" /\ phase = "core" /\ Len(arg) = 2
         /\ HandleValue(arg[2], NextEvent.value)
         /\ pool \in Seq(ConfPool) /\ pool # <<>> /\ data.idx = Len(pool) /\ ~Dangling
         /\ pos + 1 \in GivenValues(disk) /\ IsFor(disk, pos + 1, arg[2])
         /\ NextEvent = disk.events[pos + 1] /\ NextEvent.value \in Scalar
<1>1. ParserAgrees /\ TypeInv /\ (Len(arg) > 0 => data # NULL)
  BY DEF ParserInv, ParseStep
<1>2. Turns /\ Top(open) # "done" /\ NextEvent.type = "Scalar"
      /\ ~StartsPool /\ IsLeaf /\ phase = "core"
  BY <1>1, CoreReads DEF CoreLeaf, CoreFetch
<1>3. InPool(open, "value") \/ InSequence(open)
  BY <1>1, <1>2, Positions DEF Turns, StartsPool, IsLeaf
<1>4. Len(arg) = 2
  BY <1>1, <1>3, Positions
<1>5. /\ disk \in Files /\ Composes(disk) /\ pos \in Nat /\ (pos + 1) - 1 = pos
      /\ pos + 1 \in Events(disk) /\ open = Stack(disk, pos)
      /\ NextEvent = disk.events[pos + 1] /\ NextEvent \in Event
  BY <1>2, ParseReads
<1>6. pos + 1 \in GivenValues(disk)
  BY <1>2, <1>3, <1>5, Parts DEF ScalarEvents
<1>7. IsFor(disk, pos + 1, arg[2])
  BY <1>4 DEF CoreInv
<1>8. data # NULL /\ arg # <<>>
  BY <1>1, <1>4
<1>9. data.idx = Len(pool) /\ ~Dangling
  BY <1>2, <1>8 DEF DataFresh, Dangling
<1>10. pool \in Seq(ConfPool) /\ pool # <<>>
  <2>1. pool \in Seq(ConfPool) /\ data.idx \in Nat \ {0}
    BY <1>1, <1>8 DEF TypeInv, TypeOK
  <2> QED
    BY <1>9, <2>1
<1>11. HandleValue(arg[2], NextEvent.value)
  BY <1>4, <1>8 DEF CoreLeaf
<1>12. NextEvent.value \in Scalar
  BY <1>5 DEF Event
<1> QED
  BY <1>2, <1>4, <1>5, <1>6, <1>7, <1>9, <1>10, <1>11, <1>12

\* It is set, or refused for a reason; or there is no such directive.
LEMMA CoreSets ==
  ASSUME ParseStep, ParserInv, CoreInv, arg \in Seq(Scalar), DataFresh, CoreLeaf,
         outcome = "running"
  PROVE  /\ phase' = "core" => CoreInv'
         /\ phase' = "destroy" => Fault \/ ~Meaningful(disk)
         /\ phase' \in {"core", "destroy", "over"}
         /\ phase' = "over" => outcome' = "overrun" /\ Careless(disk)
         /\ phase' # "over" => outcome' = outcome
<1> USE DEF Goto, Error, Undefined
<1> DEFINE key == arg[2]
           value == NextEvent.value
<1>1. /\ Top(open) # "done" /\ phase = "core" /\ Len(arg) = 2
      /\ HandleValue(key, value)
      /\ pool \in Seq(ConfPool) /\ pool # <<>> /\ data.idx = Len(pool) /\ ~Dangling
      /\ pos + 1 \in GivenValues(disk) /\ IsFor(disk, pos + 1, key)
      /\ NextEvent = disk.events[pos + 1] /\ value \in Scalar
  BY LeafReads
<1>2. /\ disk \in Files /\ Composes(disk) /\ pos \in Nat
      /\ pos' = pos + 1 /\ Reached' /\ disk' = disk
  BY <1>1, ParseReads DEF ParseStep
<1>3. CASE key \notin Directives
  <2>1. phase' = "over" /\ outcome' = "overrun"
    BY <1>1, <1>3 DEF HandleValue
  <2>2. ASSUME NEW k \in Directives, IsFor(disk, pos + 1, k) PROVE FALSE
    <3>1. pos + 1 \in Nat
      BY <1>2
    <3>2. k = key
      BY <1>1, <1>2, <2>2, <3>1, ForOne
    <3> QED
      BY <1>3, <3>2
  <2>3. Careless(disk)
    BY <1>1, <2>2 DEF Careless, ParseStep
  <2> QED
    BY <2>1, <2>3
<1>4. CASE key \in Directives
  <2>1. \/ /\ Rejected(pool[Len(pool)], key, value)
           /\ phase' = "destroy" /\ outcome' = outcome
        \/ /\ ~Rejected(pool[Len(pool)], key, value)
           /\ pool' = [pool EXCEPT ![Len(pool)] = SetField(pool[Len(pool)], key, value)]
           /\ PopLeaf /\ phase' = "core" /\ outcome' = outcome
        \/ Fault /\ phase' = "destroy" /\ outcome' = outcome
    BY <1>1, <1>4 DEF HandleValue
  <2>2. CASE Rejected(pool[Len(pool)], key, value) /\ phase' = "destroy" /\ outcome' = outcome
    <3>1. ~IsSettable(disk)
      BY <1>1, <1>2, <1>4, <2>2, RejectedEvent DEF CoreInv, FilledSoFar
    <3> QED
      BY <2>2, <3>1 DEF Meaningful
  <2>3. CASE /\ ~Rejected(pool[Len(pool)], key, value)
             /\ pool' = [pool EXCEPT ![Len(pool)] = SetField(pool[Len(pool)], key, value)]
             /\ PopLeaf /\ phase' = "core" /\ outcome' = outcome
    <3>1. FilledSoFar'
      BY <1>1, <1>2, <1>4, <2>3, ValueEvent DEF CoreInv, FilledSoFar
    <3>2. DocumentBegun'
      BY CoreReads DEF CoreInv, ParserInv
    <3>3. IsFor(disk, pos' + 1, key)
      <4>1. pos + 1 \notin DirectiveNames(disk) /\ pos + 1 \in Nat
        BY <1>1, <1>2, PartsApart
      <4> QED
        BY <1>1, <1>2, <4>1, StillNamed
    <3>4. Len(arg') = 2 => arg'[2] = key
      <4>1. CASE seq
        <5>1. arg' = SubSeq(arg, 1, Len(arg))
          BY <2>3, <4>1 DEF PopLeaf
        <5> QED
          BY <1>1, <5>1
      <4>2. CASE ~seq
        <5>1. arg' = SubSeq(arg, 1, Len(arg) - 1)
          BY <2>3, <4>2 DEF PopLeaf
        <5>2. Len(arg') = 1
          BY <1>1, <5>1, Popped
        <5> QED
          BY <5>2
      <4> QED
        BY <4>1, <4>2
    <3> QED
      BY <1>2, <2>3, <3>1, <3>2, <3>3, <3>4 DEF CoreInv
  <2>4. CASE Fault /\ phase' = "destroy" /\ outcome' = outcome
    BY <2>4
  <2> QED
    BY <2>1, <2>2, <2>3, <2>4
<1> QED
  BY <1>3, <1>4

-----------------------------------------------------------------------------
(***************************************************************************)
(* The end of the file.                                                    *)
(***************************************************************************)

\* A configuration has one document.
LEMMA OneDocument ==
  ASSUME NEW f \in Files, IsConfiguration(f), NEW d \in Documents(f), NEW e \in Documents(f)
  PROVE  d = e
<1>1. Len(f.events) \in Nat /\ Documents(f) \in SUBSET (1 .. Len(f.events))
  BY FilesAssumption DEF Documents
<1>2. IsFiniteSet(1 .. Len(f.events))
  BY <1>1, FS_Interval
<1>3. IsFiniteSet(Documents(f))
  BY <1>1, <1>2, FS_Subset
<1>4. Cardinality(Documents(f)) = 1
  BY DEF IsConfiguration
<1>5. \E x : Documents(f) = {x}
  BY <1>3, <1>4, FS_Singleton
<1> QED
  BY <1>5

\* After it there is nothing but the end of the stream.
LEMMA EndGoesOn ==
  ASSUME ParseStep, EndInv, UNCHANGED <<pool, depth>>
  PROVE  /\ NextEvent.type # "StreamEnd" => EndInv'
         /\ NextEvent.type = "StreamEnd" => PostInv'
<1> DEFINE e == NextEvent
<1>1. Top(open) # "done" /\ Outside(open)
  BY DEF EndInv, Closing, Top, Outside
<1>2. /\ disk \in Files /\ pos \in Nat /\ Nested(open)
      /\ pos + 1 \in Events(disk) /\ e = disk.events[pos + 1]
      /\ e \in Event /\ Accepts(open, e) /\ open' = NextStack(open, e)
      /\ pos' = pos + 1 /\ Reached' /\ Placed(open, e) /\ disk' = disk
  BY <1>1, ParseReads DEF ParseStep
<1>3. PICK d \in Documents(disk) : d <= pos
  BY DEF EndInv, DocumentBegun
<1>4. d \in Nat /\ d <= pos + 1 /\ d # pos + 1
  BY <1>2, <1>3 DEF Documents
<1>5. e.type # "DocumentStart"
  <2>1. e.type = "DocumentStart" => pos + 1 \in Documents(disk)
    BY <1>2 DEF Documents, Events
  <2> QED
    BY <1>2, <1>4, <2>1, OneDocument DEF ParseStep
<1>6. \/ e.type = "StreamEnd"
      \/ e.type = "DocumentEnd" /\ Len(open) = 2 /\ open[1] = "stream"
  <2>1. CASE Len(open) = 1 /\ open[1] = "stream"
    BY <1>2, <1>5, <2>1 DEF Accepts, Expected, Top
  <2>2. CASE Len(open) = 2 /\ open[1] = "stream" /\ open[2] = "docend"
    BY <1>2, <2>2 DEF Accepts, Expected, Top
  <2> QED
    BY <2>1, <2>2 DEF EndInv, Closing
<1>7. FilledSoFar'
  <2>1. e.type # "Scalar"
    BY <1>6
  <2> QED
    BY <1>1, <1>2, <2>1, NoScalar DEF EndInv, FilledSoFar
<1>8. DocumentBegun'
  BY <1>2, <1>4 DEF DocumentBegun
<1> HIDE DEF e
<1>9. CASE e.type = "StreamEnd"
  BY <1>2, <1>7, <1>9 DEF PostInv, NextStack, e
<1>10. CASE e.type = "DocumentEnd" /\ Len(open) = 2 /\ open[1] = "stream"
  <2>1. open' = SubSeq(open, 1, Len(open) - 1) /\ open \in Seq(YamlState)
    BY <1>2, <1>10 DEF NextStack, Nested
  <2>2. Len(open') = 1 /\ open'[1] = "stream"
    BY <1>10, <2>1
  <2> QED
    BY <1>2, <1>7, <1>8, <1>10, <2>2 DEF EndInv, Closing, e
<1> QED
  BY <1>6, <1>9, <1>10 DEF e

\* Then every name and every value has been read.
LEMMA AllRead ==
  ASSUME TypeInv, IsConfiguration(disk), PostInv
  PROVE  \A v \in PoolNames(disk) \cup GivenValues(disk) : v <= pos
<1>1. /\ disk \in Files /\ Composes(disk) /\ pos \in 0 .. Len(disk.events)
      /\ Stack(disk, pos) = <<"done">>
  BY DEF TypeInv, TypeOK, IsConfiguration, PostInv, Reached
<1>2. ASSUME NEW v \in PoolNames(disk) \cup GivenValues(disk), ~(v <= pos)
      PROVE  FALSE
  <2>1. /\ v \in Events(disk) /\ v \in 1 .. Len(disk.events)
        /\ \/ InRoot(Stack(disk, v - 1), "key") \/ InPool(Stack(disk, v - 1), "value")
           \/ InSequence(Stack(disk, v - 1))
    BY <1>1, Parts
  <2>2. v - 1 \in pos .. Len(disk.events)
    BY <1>1, <1>2, <2>1
  <2>3. Stack(disk, v - 1) = <<"done">>
    BY <1>1, <2>2, DoneStays
  <2> QED
    BY <2>1, <2>3 DEF InRoot, InPool, InSequence
<1> QED
  BY <1>2

\* So conf_post_validate hands out what the file means.
LEMMA PostAnswers ==
  ASSUME TypeInv, LoaderInv, IsConfiguration(disk), PostInv, PostValidate
  PROVE  /\ phase' = "destroy" => outcome' = outcome /\ ~Meaningful(disk)
         /\ outcome' = "loaded" => Meaningful(disk) /\ Means(disk, pool')
         /\ phase' = "over" /\ outcome' # "loaded" => outcome' = "badlog" /\ Careless(disk)
         /\ phase' \in {"destroy", "over"}
<1> USE DEF Goto, Error, Undefined
<1>1. pool \in Seq(ConfPool) /\ sound /\ parsed /\ outcome = "running" /\ disk \in Files
  BY DEF TypeInv, TypeOK, LoaderInv, PostValidate
<1>2. \A v \in PoolNames(disk) \cup GivenValues(disk) : v <= pos
  BY AllRead
<1>3. PICK at : /\ NamesOf(disk, at, pool, pos)
                /\ \A i \in DOMAIN pool : FilledPool(disk, at[i], pool[i], pos)
  BY DEF PostInv, FilledSoFar, Filled
<1>4. (pool = <<>>) <=> (PoolNames(disk) = {})
  <2>1. at \in [DOMAIN pool -> PoolNames(disk)]
        /\ \A p \in PoolNames(disk) : \E i \in DOMAIN pool : at[i] = p
    BY <1>2, <1>3 DEF NamesOf
  <2>2. (pool = <<>>) <=> (DOMAIN pool = {})
    BY <1>1
  <2> QED
    BY <2>1, <2>2
<1>5. IsSettable(disk)
  BY <1>1, <1>2, AllSettable DEF PostInv, FilledSoFar
<1>6. \/ pool = <<>> /\ phase' = "destroy" /\ outcome' = outcome
      \/ /\ pool # <<>> /\ phase' = "over" /\ outcome' = "loaded"
         /\ pool' = [i \in 1 .. Len(pool) |-> ValidatedPool(pool[i])]
      \/ /\ pool = <<>> \/ \E i \in 1 .. Len(pool) : pool[i].name = ""
         /\ phase' = "over" /\ outcome' = "badlog"
  BY <1>1 DEF PostValidate
<1>7. CASE pool = <<>> /\ phase' = "destroy" /\ outcome' = outcome
  BY <1>1, <1>4, <1>7 DEF Meaningful
<1>8. CASE /\ pool # <<>> /\ phase' = "over" /\ outcome' = "loaded"
           /\ pool' = [i \in 1 .. Len(pool) |-> ValidatedPool(pool[i])]
  <2>1. Meaningful(disk)
    BY <1>4, <1>5, <1>8 DEF Meaningful
  <2>2. Means(disk, pool')
    BY <1>1, <1>2, <1>8, AllFilled DEF PostInv, FilledSoFar
  <2> QED
    BY <1>8, <2>1, <2>2
<1>9. CASE /\ pool = <<>> \/ \E i \in 1 .. Len(pool) : pool[i].name = ""
           /\ phase' = "over" /\ outcome' = "badlog"
  <2>1. CASE pool = <<>>
    BY <1>4, <1>9, <2>1 DEF Careless
  <2>2. CASE \E i \in 1 .. Len(pool) : pool[i].name = ""
    <3>1. DOMAIN pool = 1 .. Len(pool)
      BY <1>1
    <3>2. PICK i \in DOMAIN pool : pool[i].name = ""
      BY <2>2, <3>1
    <3>3. at[i] \in PoolNames(disk) /\ disk.events[at[i]].value = ""
      BY <1>3, <3>2 DEF NamesOf, FilledPool
    <3> QED
      BY <1>9, <3>3 DEF Careless
  <2> QED
    BY <1>9, <2>1, <2>2
<1> QED
  BY <1>6, <1>7, <1>8, <1>9

-----------------------------------------------------------------------------
(***************************************************************************)
(* Every step of conf_create is a step that its promise allows.            *)
(***************************************************************************)
Promised == [Loader!Next]_<<disk, faults > 0, Answer, Handed>>

\* Until it answers, all that a caller can tell is whether something failed.
LEMMA Silent ==
  ASSUME TypeInv, outcome = "running", outcome' = "running", disk' = disk,
         faults' = faults \/ Fault
  PROVE  Promised
<1>1. Answer = "pending" /\ Answer' = "pending" /\ Handed = <<>> /\ Handed' = <<>>
  BY DEF Answer, Handed
<1>2. CASE faults' = faults
  <2>1. UNCHANGED <<disk, faults > 0, Answer, Handed>>
    BY <1>1, <1>2
  <2> QED
    BY <2>1 DEF Promised
<1>3. CASE Fault
  <2>1. (faults' > 0) = TRUE
    BY <1>3, ConstantsAssumption DEF Fault, TypeInv, TypeOK
  <2>2. Loader!Starve
    BY <1>1, <2>1 DEF Loader!Starve
  <2> QED
    BY <2>2 DEF Promised, Loader!Next
<1> QED
  BY <1>2, <1>3

\* A step to the error label is one in which a resource fails, or the file was
\* found to mean nothing.
LEMMA Refused ==
  ASSUME TypeInv, phase' = "destroy", disk' = disk, Fault \/ ~Meaningful(disk)
  PROVE  AnswerInv'
<1>1. Fault => faults' > 0
  BY ConstantsAssumption DEF Fault, TypeInv, TypeOK
<1> QED
  BY <1>1 DEF AnswerInv

\* What holds at each step that goes on.
Kept ==
  /\ TypeInv /\ LoaderInv /\ SafeInv /\ AnswerInv
  /\ TypeInv'

\* conf_open, and the two passes that do not walk the events.
LEMMA AnswerFirst ==
  ASSUME Kept, Open \/ ValidateDocument \/ ValidateTokens
  PROVE  AnswerInv' /\ Promised
<1> USE DEF Goto, Error, reader, flags, result
<1>1. TypeInv /\ AnswerInv /\ outcome = "running" /\ disk' = disk
  BY DEF Kept, LoaderInv, Open, ValidateDocument, ValidateTokens
<1>2. CASE Open
  <2>1. CASE phase' = "document" /\ UNCHANGED <<faults, outcome>>
    <3>1. AnswerInv'
      BY <1>1, <1>2, <2>1 DEF AnswerInv, Open
    <3> QED
      BY <1>1, <2>1, <3>1, Silent
  <2>2. CASE Fault /\ phase' = "over" /\ outcome' = "failed"
    <3>1. Answer = "pending" /\ Answer' = "NULL" /\ Handed = <<>> /\ Handed' = <<>>
      BY <1>1, <2>2 DEF Answer, Handed
    <3>2. (faults' > 0) = TRUE
      BY <1>1, <2>2, ConstantsAssumption DEF Fault, TypeInv, TypeOK
    <3>3. Loader!Refuse
      BY <1>1, <3>1, <3>2 DEF Loader!Refuse
    <3>4. AnswerInv'
      BY <2>2 DEF AnswerInv
    <3> QED
      BY <3>3, <3>4 DEF Promised, Loader!Next
  <2> QED
    BY <1>2, <2>1, <2>2 DEF Open
<1>3. CASE ValidateDocument
  <2>1. outcome' = "running" /\ (faults' = faults \/ Fault)
    BY <1>1, <1>3 DEF ValidateDocument
  <2>2. CASE phase' = "tokens"
    <3>1. AnswerInv'
      BY <1>1, <1>3, <2>2 DEF AnswerInv, ValidateDocument
    <3> QED
      BY <1>1, <2>1, <3>1, Silent
  <2>3. CASE phase' = "destroy"
    <3>1. Fault \/ ~Meaningful(disk)
      BY <1>3, <2>3 DEF ValidateDocument, Meaningful, IsConfiguration
    <3>2. AnswerInv'
      BY <1>1, <2>3, <3>1, Refused
    <3> QED
      BY <1>1, <2>1, <3>2, Silent
  <2>4. phase' \in {"tokens", "destroy"}
    BY <1>3 DEF ValidateDocument
  <2> QED
    BY <2>2, <2>3, <2>4
<1>4. CASE ValidateTokens
  <2>1. outcome' = "running" /\ (faults' = faults \/ Fault)
    BY <1>1, <1>4 DEF ValidateTokens
  <2>2. CASE phase' = "structure"
    <3>1. UNCHANGED parser
      BY <1>4, <2>2 DEF ValidateTokens
    <3>2. AnswerInv'
      BY <1>1, <1>4, <2>2, <3>1 DEF AnswerInv, ValidateTokens
    <3> QED
      BY <1>1, <2>1, <3>2, Silent
  <2>3. CASE phase' = "destroy"
    <3>1. Composes(disk)
      BY <1>1, <1>4 DEF AnswerInv, ValidateTokens
    <3>2. Fault \/ ~Meaningful(disk)
      BY <1>4, <2>3, <3>1 DEF ValidateTokens, Meaningful, IsConfiguration
    <3>3. AnswerInv'
      BY <1>1, <2>3, <3>2, Refused
    <3> QED
      BY <1>1, <2>1, <3>3, Silent
  <2>4. phase' \in {"structure", "destroy"}
    BY <1>4 DEF ValidateTokens
  <2> QED
    BY <2>2, <2>3, <2>4
<1> QED
  BY <1>2, <1>3, <1>4

\* conf_validate_structure.
LEMMA AnswerStructure ==
  ASSUME Kept, StructureBegin \/ StructureEvent
  PROVE  AnswerInv' /\ Promised
<1> USE DEF Goto, Error, reader, flags, result
<1>1. TypeInv /\ AnswerInv /\ SafeInv /\ outcome = "running" /\ disk' = disk
      /\ outcome' = "running"
  BY DEF Kept, LoaderInv, StructureBegin, StructureEvent
<1>2. CASE StructureBegin
  <2>1. /\ phase = "structure" /\ ~parser /\ ~parsed /\ parsed' = parsed
        /\ Composes(disk) /\ Cardinality(Documents(disk)) = 1 /\ disk \in Files
    BY <1>1, <1>2 DEF StructureBegin, AnswerInv, TypeInv, TypeOK
  <2>2. CASE YamlInit /\ phase' = "structure_events" /\ UNCHANGED faults
    <3>1. pos' = 0 /\ open' = InitialStack /\ parser' = TRUE
      BY <2>2 DEF YamlInit
    <3>2. Reached'
      BY <1>1, <2>1, <3>1, ReadsFirst
    <3>3. PlacedSoFar(disk, 0)
      BY DEF PlacedSoFar, Events
    <3>4. OneSequenceSoFar(disk, 0)
      BY DEF OneSequenceSoFar, SequenceStarts, Events
    <3>5. FlagAgrees'
      BY <3>1 DEF FlagAgrees, InitialStack, InRoot, InPool, InSequence
    <3>6. StructureInv'
      BY <1>1, <3>1, <3>2, <3>3, <3>4, <3>5 DEF StructureInv
    <3>7. AnswerInv'
      BY <1>1, <2>1, <2>2, <3>1, <3>6 DEF AnswerInv
    <3> QED
      BY <1>1, <2>2, <3>7, Silent
  <2>3. CASE Fault /\ phase' = "destroy"
    BY <1>1, <2>3, Refused, Silent
  <2> QED
    BY <1>2, <2>1, <2>2, <2>3 DEF StructureBegin, YamlInitFails
<1>3. CASE StructureEvent
  <2>1. /\ phase = "structure_events" /\ parser /\ StructureInv /\ Composes(disk)
        /\ ~parsed /\ parsed' = parsed /\ Reached
        /\ Cardinality(Documents(disk)) = 1
        /\ TokensAllowed(disk) /\ ValidatorInv /\ open[1] # "done"
    BY <1>1, <1>3 DEF StructureEvent, AnswerInv, SafeInv, StructureInv
  <2>2. CanRead(disk, pos, open)
    BY <1>1, <2>1, ReadsOn
  <2>3. CASE Fault /\ phase' = "destroy"
    BY <1>1, <2>3, Refused, Silent
  <2>4. CASE Fetch /\ UNCHANGED faults
    <3>1. StructureStep
      BY <1>1, <2>1, <2>4 DEF StructureStep
    <3>2. CASE Misplaced(check, NextEvent)
      <4>1. phase' = "destroy"
        BY <1>3, <2>1, <2>2, <2>4, <3>2 DEF StructureEvent, FetchFails
      <4>2. ~Meaningful(disk)
        BY <3>1, <3>2, StructureRefuses DEF Meaningful
      <4> QED
        BY <1>1, <2>4, <4>1, <4>2, Refused, Silent
    <3>3. CASE phase' # "destroy" /\ ~Misplaced(check, NextEvent)
      <4>1. /\ check' = Counted(check, NextEvent)
            /\ IF NextEvent.type = "StreamEnd"
               THEN phase' = "parse" /\ parser' = FALSE /\ sound' = TRUE
               ELSE UNCHANGED <<phase, parser, sound>>
        BY <1>3, <3>3 DEF StructureEvent
      <4>2. StructureInv' /\ (NextEvent.type = "StreamEnd" => IsConfiguration(disk))
        BY <1>1, <3>1, <3>3, <4>1, StructureGoesOn
      <4>3. CASE NextEvent.type = "StreamEnd"
        <5>1. AnswerInv'
          BY <1>1, <2>1, <4>1, <4>2, <4>3 DEF AnswerInv
        <5> QED
          BY <1>1, <2>4, <5>1, Silent
      <4>4. CASE NextEvent.type # "StreamEnd"
        <5>1. AnswerInv'
          BY <1>1, <2>1, <4>1, <4>2, <4>4 DEF AnswerInv
        <5> QED
          BY <1>1, <2>4, <5>1, Silent
      <4> QED
        BY <4>3, <4>4
    <3>4. CASE phase' = "destroy" /\ ~Misplaced(check, NextEvent)
      <4>1. Fault
        BY <1>3, <2>1, <2>2, <3>4 DEF StructureEvent, FetchFails
      <4> QED
        BY <1>1, <3>4, <4>1, Refused, Silent
    <3> QED
      BY <3>2, <3>3, <3>4
  <2> QED
    BY <1>3, <2>1, <2>2, <2>3, <2>4 DEF StructureEvent, FetchFails
<1> QED
  BY <1>2, <1>3

\* conf_parse up to the root mapping, and what follows it.
LEMMA AnswerParse ==
  ASSUME Kept, ParseBegin \/ BeginEvent \/ EndEvent
  PROVE  AnswerInv' /\ Promised
<1> USE DEF Goto, Error, reader, flags, result
<1>1. /\ TypeInv /\ LoaderInv /\ AnswerInv /\ SafeInv
      /\ outcome = "running" /\ outcome' = "running" /\ disk' = disk
      /\ disk \in Files /\ IsConfiguration(disk) /\ Composes(disk) /\ sound /\ ~parsed
  BY DEF Kept, LoaderInv, AnswerInv, ParseBegin, BeginEvent, EndEvent, TypeInv, TypeOK,
     IsConfiguration
<1>2. CASE Fault /\ phase' = "destroy"
  BY <1>1, <1>2, Refused, Silent
<1>3. CASE ParseBegin
  <2>1. ~parser /\ phase = "parse" /\ arg = <<>> /\ depth = 0
    BY <1>1, <1>3 DEF ParseBegin, AnswerInv, LoaderInv, Early
  <2>2. CASE YamlInit /\ phase' = "begin" /\ UNCHANGED faults
    <3>1. pos' = 0 /\ open' = InitialStack /\ parser' = TRUE
      BY <2>2 DEF YamlInit
    <3>2. Reached'
      BY <1>1, <3>1, ReadsFirst
    <3>3. \A n \in ScalarEvents(disk) : 0 < n
      BY <1>1, PartsNumbered DEF ScalarEvents, Events
    <3>4. Len(InitialStack) = 1
      BY DEF InitialStack
    <3>5. BeginInv'
      BY <1>1, <3>1, <3>2, <3>3, <3>4 DEF BeginInv
    <3>6. AnswerInv'
      BY <1>1, <1>3, <2>2, <3>1, <3>5 DEF AnswerInv, ParseBegin
    <3> QED
      BY <1>1, <2>2, <3>6, Silent
  <2> QED
    BY <1>1, <1>2, <1>3, <2>1, <2>2 DEF ParseBegin, YamlInitFails
<1>4. CASE BeginEvent
  <2>1. phase = "begin" /\ parser /\ BeginInv /\ Outside(open) /\ pool = <<>> /\ arg = <<>>
    BY <1>1, <1>4 DEF BeginEvent, AnswerInv, SafeInv, LoaderInv, Early
  <2>2. CanRead(disk, pos, open)
    BY <1>1, <2>1, ReadsOn DEF BeginInv
  <2>3. CASE Fetch /\ phase' # "destroy"
    <3>1. ParseStep
      BY <1>1, <2>1, <2>3 DEF ParseStep, BeginInv
    <3>2. /\ UNCHANGED <<pool, arg, faults, parser, sound, parsed>>
          /\ IF NextEvent.type = "MappingStart" THEN phase' = "core" ELSE phase' = phase
      BY <1>4, <2>3 DEF BeginEvent
    <3>3. /\ NextEvent.type # "MappingStart" => BeginInv'
          /\ NextEvent.type = "MappingStart" => CoreInv'
      BY <2>1, <3>1, <3>2, BeginGoesOn
    <3>4. AnswerInv'
      BY <1>1, <2>1, <3>2, <3>3 DEF AnswerInv
    <3> QED
      BY <1>1, <3>2, <3>4, Silent
  <2> QED
    BY <1>2, <1>4, <2>1, <2>2, <2>3 DEF BeginEvent, FetchFails
<1>5. CASE EndEvent
  <2>1. phase = "end" /\ parser /\ EndInv /\ depth = 0
    BY <1>1, <1>5 DEF EndEvent, AnswerInv, EndInv
  <2>2. CanRead(disk, pos, open)
    BY <1>1, <2>1, ReadsOn DEF EndInv
  <2>3. CASE Fetch /\ phase' # "destroy"
    <3>1. ParseStep
      BY <1>1, <2>1, <2>3 DEF ParseStep, EndInv
    <3>2. /\ UNCHANGED <<pool, depth, faults, sound>>
          /\ IF NextEvent.type = "StreamEnd" THEN phase' = "post"
             ELSE UNCHANGED <<phase, parser, parsed>>
      BY <1>1, <1>5, <2>1, <2>3 DEF EndEvent
    <3>3. /\ NextEvent.type # "StreamEnd" => EndInv'
          /\ NextEvent.type = "StreamEnd" => PostInv'
      BY <2>1, <3>1, <3>2, EndGoesOn
    <3>4. AnswerInv'
      BY <1>1, <2>1, <3>2, <3>3 DEF AnswerInv
    <3> QED
      BY <1>1, <3>2, <3>4, Silent
  <2> QED
    BY <1>1, <1>2, <1>5, <2>1, <2>2, <2>3 DEF EndEvent, FetchFails
<1> QED
  BY <1>3, <1>4, <1>5

\* conf_parse_core; it meets what C does not define only on a careless file.
LEMMA AnswerCore ==
  ASSUME Kept, CoreEvent
  PROVE  AnswerInv' /\ Promised
<1> USE DEF Goto, Error, reader, flags, result
<1>1. /\ phase = "core" /\ disk' = disk /\ UNCHANGED <<parser, sound, parsed>>
  BY DEF CoreEvent, CoreFetch, CoreFetchFails, CoreMappingStart, CoreMappingEnd,
     CoreSequenceStart, CoreSequenceEnd, CoreOther, CoreScalarNoMemory, CoreKey,
     CorePoolName, CoreLeaf
<1>2. /\ TypeInv /\ LoaderInv /\ AnswerInv /\ outcome = "running"
      /\ IsConfiguration(disk) /\ Composes(disk) /\ sound /\ ~parsed /\ parser
      /\ CoreInv /\ ParserInv /\ ParserAgrees /\ DataFresh /\ arg \in Seq(Scalar)
  BY <1>1 DEF Kept, LoaderInv, SafeInv, ParserInv, AnswerInv, TypeInv, TypeOK,
     IsConfiguration
<1>3. CanRead(disk, pos, open)
  BY <1>2, ReadsOn DEF CoreInv
<1>4. CASE Fault /\ phase' = "destroy" /\ outcome' = outcome
  BY <1>1, <1>2, <1>4, Refused, Silent
<1>5. Fetch => ParseStep
  BY <1>1, <1>2 DEF ParseStep, CoreInv
<1>6. CASE phase' = "core" /\ CoreInv' /\ UNCHANGED <<faults, outcome>>
  <2>1. AnswerInv'
    BY <1>1, <1>2, <1>6 DEF AnswerInv
  <2> QED
    BY <1>1, <1>2, <1>6, <2>1, Silent
<1>7. CASE CoreFetchFails \/ CoreScalarNoMemory
  BY <1>2, <1>3, <1>4, <1>7 DEF CoreFetchFails, CoreScalarNoMemory, FetchFails
<1>8. CASE CoreMappingStart \/ CoreMappingEnd \/ CoreSequenceStart \/ CoreSequenceEnd
  <2>1. Fetch /\ UNCHANGED faults
    BY <1>8 DEF CoreMappingStart, CoreMappingEnd, CoreSequenceStart, CoreSequenceEnd, CoreFetch
  <2>2. /\ phase' = "core" => CoreInv'
        /\ phase' = "end" => EndInv'
        /\ phase' \in {"core", "end"} /\ outcome' = outcome
    BY <1>2, <1>5, <1>8, <2>1, CoreNoScalar
  <2>3. CASE phase' = "end"
    <3>1. AnswerInv'
      BY <1>1, <1>2, <2>2, <2>3 DEF AnswerInv
    <3> QED
      BY <1>1, <1>2, <2>1, <2>2, <3>1, Silent
  <2> QED
    BY <1>6, <2>1, <2>2, <2>3
<1>9. CASE CoreOther
  <2>1. Fetch /\ NextEvent.type \notin {"MappingStart", "MappingEnd", "SequenceStart",
                                        "SequenceEnd", "Scalar"}
    BY <1>9 DEF CoreOther
  <2>2. Turns
    BY <1>2, <1>5, <2>1, CoreReads
  <2> QED
    BY <2>1, <2>2 DEF Turns
<1>10. CASE CoreKey
  <2>1. Fetch /\ phase' = "core" /\ UNCHANGED <<faults, outcome>>
    BY <1>1, <1>10 DEF CoreKey, CoreFetch
  <2>2. CoreInv'
    BY <1>2, <1>5, <1>10, <2>1, CoreNames
  <2> QED
    BY <1>6, <2>1, <2>2
<1>11. CASE CorePoolName
  <2>1. Fetch
    BY <1>11 DEF CorePoolName, CoreFetch
  <2>2. /\ phase' = "core" => CoreInv'
        /\ phase' = "core" \/ (phase' = "destroy" /\ Fault)
        /\ outcome' = outcome
    BY <1>2, <1>5, <1>11, <2>1, CoreNamesPool
  <2>3. phase' = "core" => UNCHANGED faults
    BY <1>11 DEF CorePoolName, Undefined
  <2> QED
    BY <1>4, <1>6, <2>2, <2>3
<1>12. CASE CoreLeaf
  <2>1. Fetch
    BY <1>12 DEF CoreLeaf, CoreFetch
  <2>2. /\ phase' = "core" => CoreInv'
        /\ phase' = "destroy" => Fault \/ ~Meaningful(disk)
        /\ phase' \in {"core", "destroy", "over"}
        /\ phase' = "over" => outcome' = "overrun" /\ Careless(disk)
        /\ phase' # "over" => outcome' = outcome
    BY <1>2, <1>5, <1>12, <2>1, CoreSets
  <2>3. HandleValue(arg[2], NextEvent.value)
    BY <1>2, <1>5, <1>12, <2>1, LeafReads
  <2>4. /\ faults' = faults \/ Fault
        /\ phase' \in {"core", "over"} => faults' = faults
    BY <1>1, <2>3 DEF HandleValue, Undefined
  <2>5. CASE phase' = "destroy"
    <3>1. AnswerInv'
      BY <1>1, <1>2, <2>2, <2>5, Refused
    <3> QED
      BY <1>1, <1>2, <2>2, <2>4, <2>5, <3>1, Silent
  <2>6. CASE phase' = "over"
    <3>1. AnswerInv'
      BY <2>6 DEF AnswerInv
    <3>2. /\ Answer = "pending" /\ Answer' = "undefined" /\ Handed = <<>> /\ Handed' = <<>>
      BY <1>2, <2>2, <2>6 DEF Answer, Handed
    <3>3. Loader!GoWild
      BY <1>1, <2>2, <2>4, <2>6, <3>2 DEF Loader!GoWild
    <3> QED
      BY <3>1, <3>3 DEF Promised, Loader!Next
  <2> QED
    BY <1>6, <2>2, <2>4, <2>5, <2>6
<1> QED
  BY <1>7, <1>8, <1>9, <1>10, <1>11, <1>12 DEF CoreEvent

\* conf_post_validate hands out what the file means; conf_destroy hands out
\* nothing.
LEMMA AnswerLast ==
  ASSUME Kept, PostValidate \/ Destroy
  PROVE  AnswerInv' /\ Promised
<1> USE DEF Goto, Error, reader, flags, result
<1>1. /\ TypeInv /\ LoaderInv /\ AnswerInv /\ outcome = "running"
      /\ disk' = disk /\ faults' = faults /\ (faults' > 0) = (faults > 0)
      /\ Answer = "pending" /\ Handed = <<>>
  BY DEF Kept, LoaderInv, PostValidate, Destroy, Answer, Handed
<1>2. CASE PostValidate
  <2>1. IsConfiguration(disk) /\ PostInv
    BY <1>1, <1>2 DEF PostValidate, AnswerInv
  <2>2. /\ phase' = "destroy" => outcome' = outcome /\ ~Meaningful(disk)
        /\ outcome' = "loaded" => Meaningful(disk) /\ Means(disk, pool')
        /\ phase' = "over" /\ outcome' # "loaded" => outcome' = "badlog" /\ Careless(disk)
        /\ phase' \in {"destroy", "over"}
    BY <1>1, <1>2, <2>1, PostAnswers
  <2>3. CASE phase' = "destroy"
    BY <1>1, <2>2, <2>3, Refused, Silent
  <2>4. CASE phase' = "over"
    <3>1. AnswerInv'
      BY <2>4 DEF AnswerInv
    <3>2. CASE outcome' = "loaded"
      <4>1. Answer' = "pools" /\ Handed' = pool'
        BY <3>2 DEF Answer, Handed
      <4>2. Loader!Load
        BY <1>1, <2>2, <3>2, <4>1 DEF Loader!Load
      <4> QED
        BY <3>1, <4>2 DEF Promised, Loader!Next
    <3>3. CASE outcome' # "loaded"
      <4>1. Answer' = "undefined" /\ Handed' = <<>>
        BY <2>2, <2>4, <3>3 DEF Answer, Handed
      <4>2. Loader!GoWild
        BY <1>1, <2>2, <2>4, <3>3, <4>1 DEF Loader!GoWild
      <4> QED
        BY <3>1, <4>2 DEF Promised, Loader!Next
    <3> QED
      BY <3>2, <3>3
  <2> QED
    BY <2>2, <2>3, <2>4
<1>3. CASE Destroy
  <2>1. /\ phase = "destroy" /\ phase' = "over" /\ outcome' = "failed"
        /\ faults > 0 \/ ~Meaningful(disk)
    BY <1>1, <1>3 DEF Destroy, AnswerInv
  <2>2. Answer' = "NULL" /\ Handed' = <<>>
    BY <2>1 DEF Answer, Handed
  <2>3. Loader!Refuse
    BY <1>1, <2>1, <2>2 DEF Loader!Refuse
  <2>4. AnswerInv'
    BY <2>1 DEF AnswerInv
  <2> QED
    BY <2>3, <2>4 DEF Promised, Loader!Next
<1> QED
  BY <1>2, <1>3

\* As long as nobody rewrites the file, every step keeps the promise.
LEMMA AnswerStep ==
  ASSUME IInv, Undisturbed => AnswerInv, [Next]_vars, Undisturbed'
  PROVE  AnswerInv' /\ Promised
<1>1. edits \in Nat /\ TypeInv /\ TypeInv'
  BY TypeStep, ConstantsAssumption DEF IInv, TypeInv, TypeOK
<1>2. ~EditFile
  BY <1>1 DEF EditFile, Undisturbed
<1>3. edits' = edits
  BY <1>2 DEF Next, Load, Over, vars, Open, ValidateDocument, ValidateTokens,
     StructureBegin, StructureEvent, ParseBegin, BeginEvent, CoreEvent, EndEvent,
     PostValidate, Destroy, CoreFetch, CoreFetchFails, CoreMappingStart,
     CoreMappingEnd, CoreSequenceStart, CoreSequenceEnd, CoreOther,
     CoreScalarNoMemory, CoreKey, CorePoolName, CoreLeaf
<1>4. Kept
  BY <1>1, <1>3 DEF IInv, Kept, Undisturbed
<1>5. CASE UNCHANGED vars
  <2>1. /\ UNCHANGED <<disk, faults, outcome, pool, phase, parser, sound, parsed>>
        /\ UNCHANGED <<pos, open, check, arg, depth>>
    BY <1>5 DEF vars, reader, flags, result
  <2>2. AnswerInv'
    BY <1>4, <2>1 DEF Kept, AnswerInv, StructureInv, BeginInv, CoreInv, EndInv, PostInv,
       Reached, FlagAgrees, DocumentBegun, FilledSoFar
  <2>3. UNCHANGED <<disk, faults > 0, Answer, Handed>>
    BY <2>1 DEF Answer, Handed
  <2> QED
    BY <2>2, <2>3 DEF Promised
<1>6. CASE Load
  BY <1>4, <1>6, AnswerFirst, AnswerStructure, AnswerParse, AnswerCore, AnswerLast DEF Load
<1> QED
  BY <1>2, <1>5, <1>6 DEF Next, Over

\* It holds when conf_create is called, before anything was read.
LEMMA AnswerInit ==
  ASSUME Init
  PROVE  AnswerInv /\ Loader!Init
<1>1. AnswerInv
  BY DEF Init, AnswerInv
<1>2. (faults > 0) = FALSE /\ Answer = "pending" /\ Handed = <<>>
  BY DEF Init, Answer, Handed
<1> QED
  BY <1>1, <1>2 DEF Init, Loader!Init

-----------------------------------------------------------------------------
\* For every file: its loader answers with the pools that the events of the
\* file mean, each directive set from the one value given to it and the rest
\* from the defaults; or with NULL, because something failed or the file means
\* no pools.  Only a careless file leaves the answer to C (conf_create).
THEOREM LoaderAlwaysImplemented == Spec /\ []Undisturbed => ImplementsLoader
<1> DEFINE Inv == IInv /\ (Undisturbed => AnswerInv)
<1>1. Init => Inv
  BY InvInit, AnswerInit
<1>2. Inv /\ [Next]_vars => Inv'
  BY InvStep, AnswerStep
<1>3. Init => Loader!Init
  BY AnswerInit
<1>4. Inv /\ [Next]_vars /\ Undisturbed' =>
        [Loader!Next]_<<disk, faults > 0, Answer, Handed>>
  BY AnswerStep DEF Promised
<1> HIDE DEF Inv
<1> QED
  BY <1>1, <1>2, <1>3, <1>4, PTL DEF Spec, ImplementsLoader, Loader!Spec
=============================================================================
