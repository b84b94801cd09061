------------------------------ MODULE ConfMeaning ------------------------------
(***************************************************************************)
(* What a configuration file means, told from the nesting of its events    *)
(* alone, without passes, counters or an argument stack; and the promise   *)
(* of conf_create (ConfLoader) with that meaning.                          *)
(***************************************************************************)
EXTENDS XadminConf

Events(f) == 1 .. Len(f.events)

\* Where libyaml is when event n of a file comes: one stack, or none if the
\* file cannot be read so far.
Before(f, n) == StacksAfter(f)[n - 1]

-----------------------------------------------------------------------------
(***************************************************************************)
(* The parts of a configuration, each known by the number of its event.    *)
(***************************************************************************)
ScalarEvents(f) == {n \in Events(f) : f.events[n].type = "Scalar"}

PoolNames(f) == {n \in ScalarEvents(f) : \E o \in Before(f, n) : InRoot(o, "key")}

DirectiveNames(f) == {n \in ScalarEvents(f) : \E o \in Before(f, n) : InPool(o, "key")}

GivenValues(f) ==
  {n \in ScalarEvents(f) : \E o \in Before(f, n) : InPool(o, "value") \/ InSequence(o)}

SequenceStarts(f) == {n \in Events(f) : f.events[n].type = "SequenceStart"}

\* Of some events, m is the last one before n.
LastBefore(events, m, n) ==
  /\ m \in events /\ m < n
  /\ \A l \in events : l < n => l <= m

\* Value v is given to a directive.
IsFor(f, v, key) ==
  \E m \in DirectiveNames(f) :
    LastBefore(DirectiveNames(f), m, v) /\ f.events[m].value = key

\* In the pool whose name is event p, value v is given to a directive.
Gives(f, p, key, v) ==
  /\ v \in GivenValues(f)
  /\ LastBefore(PoolNames(f), p, v)
  /\ IsFor(f, v, key)

-----------------------------------------------------------------------------
(***************************************************************************)
(* Which files are configurations, and which of them can be loaded.        *)
(***************************************************************************)

\* One document of pools, in which every event is placed; a pool has at most
\* one sequence.
IsConfiguration(f) ==
  /\ TokensAllowed(f)
  /\ Composes(f)
  /\ Cardinality(Documents(f)) = 1
  /\ \A n \in Events(f) :
       f.events[n].type # "None" => \E o \in Before(f, n) : Placed(o, f.events[n])
  /\ \A m, n \in SequenceStarts(f) :
       m < n => \E p \in PoolNames(f) : m < p /\ p < n

\* A number is given to a directive that has one.
Fits(f, v, key) == key \in NumDirectives => f.events[v].value \in DOMAIN NumOf

\* Every value is given to a directive that there is, and fits it; and no pool
\* gives a directive two.
IsSettable(f) ==
  /\ \A v \in GivenValues(f) : \E key \in Directives : IsFor(f, v, key) /\ Fits(f, v, key)
  /\ \A v, w \in GivenValues(f) :
       v < w /\ (\E key \in Directives : IsFor(f, v, key) /\ IsFor(f, w, key)) =>
         \E p \in PoolNames(f) : v < p /\ p < w

Meaningful(f) == IsConfiguration(f) /\ PoolNames(f) # {} /\ IsSettable(f)

\* The files that C does not define an answer for: a directive that does not
\* exist, a pool with an empty name, or no pool.
Careless(f) ==
  /\ IsConfiguration(f)
  /\ \/ \E v \in GivenValues(f) : \A key \in Directives : ~IsFor(f, v, key)
     \/ \E p \in PoolNames(f) : f.events[p].value = ""
     \/ PoolNames(f) = {}

-----------------------------------------------------------------------------
(***************************************************************************)
(* The pools that a file means.                                            *)
(***************************************************************************)
DefaultOf(name, key) ==
  CASE key = "port" /\ name = "meta" -> 5432
    [] key = "port" /\ name = "data" -> 27017
    [] key \in {"thr_pool_min", "thr_pool_max", "conn_pool_min", "conn_pool_max"} -> 1
    [] OTHER -> -1

NotGiven(f, p, key) == \A v \in GivenValues(f) : ~Gives(f, p, key, v)

\* The pool with its name at event p.
IsPoolAt(f, p, cp) ==
  /\ cp.name = f.events[p].value
  /\ \A key \in StringDirectives :
       \/ \E v \in GivenValues(f) : Gives(f, p, key, v) /\ cp.str[key] = f.events[v].value
       \/ NotGiven(f, p, key) /\ cp.str[key] = NULL
  /\ \A key \in NumDirectives :
       \/ \E v \in GivenValues(f) :
            Gives(f, p, key, v) /\ cp.num[key] = NumOf[f.events[v].value]
       \/ NotGiven(f, p, key) /\ cp.num[key] = DefaultOf(cp.name, key)
  /\ cp.valid

\* All of them, in the order of their names.
Means(f, pools) ==
  \E at \in [DOMAIN pools -> PoolNames(f)] :
    /\ \A i, j \in DOMAIN pools : i < j => at[i] < at[j]
    /\ \A p \in PoolNames(f) : \E i \in DOMAIN pools : at[i] = p
    /\ \A i \in DOMAIN pools : IsPoolAt(f, at[i], pools[i])

-----------------------------------------------------------------------------
Answer ==
  CASE outcome = "running" -> "pending"
    [] outcome = "loaded" -> "pools"
    [] outcome = "failed" -> "NULL"
    [] OTHER -> "undefined"

Handed == IF outcome = "loaded" THEN pool ELSE <<>>

Loader ==
  INSTANCE ConfLoader WITH
    Contents <- Files, NoPools <- <<>>,
    content <- disk, starved <- faults > 0, answer <- Answer, pools <- Handed

\* The four passes over the file answer what it means: all of its pools, in
\* order, with every directive set once and the defaults filled in; or NULL, if
\* it means none or something failed (conf_create).  What a failing call leaves
\* allocated is not a part of the answer.
ImplementsLoader == Loader!Spec
=============================================================================
