--------------------------- MODULE XadminConf_proofs ---------------------------
(***************************************************************************)
(* Proofs about the configuration loader: the types of its variables, and  *)
(* that its passes over the file agree.                                    *)
(***************************************************************************)
EXTENDS XadminConf, TLAPS

(***************************************************************************)
(* libyaml's stack: an outermost construct, and constructs inside it.      *)
(***************************************************************************)
Outermost == {"start", "stream", "done"}

Nested(o) ==
  /\ o \in Seq(YamlState)
  /\ Len(o) > 0
  /\ o[1] \in Outermost
  /\ \A i \in 2 .. Len(o) : o[i] \notin Outermost

\* The initial stack is nested, and so is the next one: reading an event never
\* pops the outermost construct.
LEMMA InitialStackNested == Nested(InitialStack)
  BY DEF Nested, InitialStack, Outermost, YamlState

\* Reading an event that the parser accepts keeps its constructs nested.
LEMMA NextStackNested ==
  ASSUME NEW o, Nested(o), NEW e \in Event, Accepts(o, e)
  PROVE  Nested(NextStack(o, e))
<1>1. /\ o \in Seq(YamlState) /\ Len(o) \in Nat \ {0}
      /\ Top(o) \in YamlState /\ Top(o) = o[Len(o)]
  BY DEF Nested, Top
<1>2. CASE e.type \in {"StreamStart", "StreamEnd"}
  BY <1>2 DEF Nested, NextStack, Outermost, YamlState
<1>3. CASE e.type = "DocumentStart"
  <2>1. NextStack(o, e) = Append(o, "root")
    BY <1>3 DEF NextStack, Opened
  <2>2. QED
    BY <1>1, <2>1 DEF Nested, Outermost, YamlState
<1>4. ASSUME e.type \in NodeEvents
      PROVE  /\ Nested(NodeRead(o))
             /\ Len(NodeRead(o)) = Len(o)
  <2>1. Top(o) \in {"root", "key", "value", "seq"}
    BY <1>1, <1>4 DEF Accepts, Expected, NodeEvents, YamlState
  <2>2. AfterNode[Top(o)] \in YamlState \ Outermost
    BY <2>1 DEF AfterNode, YamlState, Outermost
  <2>3. Len(o) > 1
    BY <1>1, <2>1 DEF Nested, Outermost
  <2>4. NodeRead(o) \in Seq(YamlState) /\ Len(NodeRead(o)) = Len(o)
    BY <1>1, <2>2 DEF NodeRead
  <2>5. \A i \in 1 .. Len(o) :
          NodeRead(o)[i] = IF i = Len(o) THEN AfterNode[Top(o)] ELSE o[i]
    BY <1>1 DEF NodeRead
  <2>6. QED
    BY <1>1, <2>2, <2>3, <2>4, <2>5 DEF Nested
<1>5. CASE e.type \in {"Scalar", "Alias"}
  <2>1. NextStack(o, e) = NodeRead(o)
    BY <1>5 DEF NextStack
  <2>2. QED
    BY <1>4, <1>5, <2>1 DEF NodeEvents
<1>6. CASE e.type \in {"MappingStart", "SequenceStart"}
  <2>1. PICK c \in {"key", "seq"} : NextStack(o, e) = Append(NodeRead(o), c)
    BY <1>6 DEF NextStack, Opened
  <2>2. Nested(NodeRead(o))
    BY <1>4, <1>6 DEF NodeEvents
  <2>3. QED
    BY <2>1, <2>2 DEF Nested, Outermost, YamlState
<1>7. CASE e.type \in {"MappingEnd", "SequenceEnd", "DocumentEnd"}
  <2>1. NextStack(o, e) = SubSeq(o, 1, Len(o) - 1)
    BY <1>7 DEF NextStack
  <2>2. Top(o) \notin Outermost
    BY <1>1, <1>7 DEF Accepts, Expected, NodeEvents, YamlState, Outermost
  <2>3. Len(o) > 1
    BY <1>1, <2>2 DEF Nested
  <2>4. QED
    BY <1>1, <2>1, <2>3 DEF Nested
<1>8. CASE e.type = "None"
  BY <1>8 DEF NextStack
<1>9. QED
  BY <1>2, <1>3, <1>5, <1>6, <1>7, <1>8 DEF Event, EventTypes, NodeEvents

-----------------------------------------------------------------------------
(***************************************************************************)
(* Where an event that is placed takes the parser.                         *)
(***************************************************************************)
USE DEF CONF_ROOT_DEPTH, CONF_MAX_DEPTH, CONF_DEFAULT_ARGS

\* The first constructs of two stacks are the same, up to the k-th.
Keeps(o, n, k) ==
  /\ k > 0 => n[1] = o[1]
  /\ k > 1 => n[2] = o[2]
  /\ k > 2 => n[3] = o[3]
  /\ k > 3 => n[4] = o[4]

\* A construct more, or less, leaves the others as they are.
LEMMA Appended ==
  ASSUME NEW o \in Seq(YamlState), NEW c \in YamlState
  PROVE  /\ Append(o, c) \in Seq(YamlState)
         /\ Len(Append(o, c)) = Len(o) + 1
         /\ Keeps(o, Append(o, c), Len(o))
         /\ Append(o, c)[Len(o) + 1] = c
  BY DEF Keeps

\* A stack without its last construct.
LEMMA Shortened ==
  ASSUME NEW o \in Seq(YamlState), Len(o) > 1
  PROVE  /\ SubSeq(o, 1, Len(o) - 1) \in Seq(YamlState)
         /\ Len(SubSeq(o, 1, Len(o) - 1)) = Len(o) - 1
         /\ Keeps(o, SubSeq(o, 1, Len(o) - 1), Len(o) - 1)
  BY DEF Keeps

\* A node inside the innermost construct changes what that construct expects.
LEMMA NodeReadAt ==
  ASSUME NEW o, Nested(o), o[Len(o)] \in {"root", "key", "value", "seq"}
  PROVE  /\ NodeRead(o) \in Seq(YamlState)
         /\ Len(NodeRead(o)) = Len(o)
         /\ Keeps(o, NodeRead(o), Len(o) - 1)
         /\ o[Len(o)] = "root" => NodeRead(o)[Len(o)] = "docend"
         /\ o[Len(o)] = "key" => NodeRead(o)[Len(o)] = "value"
         /\ o[Len(o)] = "value" => NodeRead(o)[Len(o)] = "key"
         /\ o[Len(o)] = "seq" => NodeRead(o)[Len(o)] = "seq"
<1>1. AfterNode[o[Len(o)]] \in YamlState
  BY DEF AfterNode, YamlState
<1>2. /\ NodeRead(o) \in Seq(YamlState)
      /\ Len(NodeRead(o)) = Len(o)
      /\ Keeps(o, NodeRead(o), Len(o) - 1)
      /\ NodeRead(o)[Len(o)] = AfterNode[o[Len(o)]]
  BY <1>1 DEF NodeRead, Nested, Top, Keeps
<1>3. QED
  BY <1>2 DEF AfterNode

\* What a node, a start and an end do at each place.
LEMMA ReadInRoot ==
  ASSUME NEW o, Nested(o), NEW x \in {"key", "value"}, InRoot(o, x)
  PROVE  InRoot(NodeRead(o), IF x = "key" THEN "value" ELSE "key")
<1>1. Len(o) = 3 /\ o[Len(o)] = x /\ o[1] = "stream" /\ o[2] = "docend"
  BY DEF InRoot
<1>2. Len(NodeRead(o)) = Len(o) /\ Keeps(o, NodeRead(o), Len(o) - 1)
  BY <1>1, NodeReadAt
<1>3. NodeRead(o)[Len(o)] = IF x = "key" THEN "value" ELSE "key"
  BY <1>1, NodeReadAt
<1>4. NodeRead(o)[1] = o[1] /\ NodeRead(o)[2] = o[2]
  BY <1>1, <1>2 DEF Keeps
<1>5. QED
  BY <1>1, <1>2, <1>3, <1>4 DEF InRoot

\* A node read in a pool's mapping turns a key into a value and back.
LEMMA ReadInPool ==
  ASSUME NEW o, Nested(o), NEW x \in {"key", "value"}, InPool(o, x)
  PROVE  InPool(NodeRead(o), IF x = "key" THEN "value" ELSE "key")
<1>1. /\ Len(o) = 4 /\ o[Len(o)] = x
      /\ o[1] = "stream" /\ o[2] = "docend" /\ o[3] = "key"
  BY DEF InPool
<1>2. Len(NodeRead(o)) = Len(o) /\ Keeps(o, NodeRead(o), Len(o) - 1)
  BY <1>1, NodeReadAt
<1>3. NodeRead(o)[Len(o)] = IF x = "key" THEN "value" ELSE "key"
  BY <1>1, NodeReadAt
<1>4. NodeRead(o)[1] = o[1] /\ NodeRead(o)[2] = o[2] /\ NodeRead(o)[3] = o[3]
  BY <1>1, <1>2 DEF Keeps
<1>5. QED
  BY <1>1, <1>2, <1>3, <1>4 DEF InPool

\* A node read in a sequence leaves the stack in the sequence.
LEMMA ReadInSequence ==
  ASSUME NEW o, Nested(o), InSequence(o)
  PROVE  InSequence(NodeRead(o))
<1>1. /\ Len(o) = 5 /\ o[Len(o)] = "seq"
      /\ o[1] = "stream" /\ o[2] = "docend" /\ o[3] = "key" /\ o[4] = "key"
  BY DEF InSequence
<1>2. Len(NodeRead(o)) = Len(o) /\ Keeps(o, NodeRead(o), Len(o) - 1)
  BY <1>1, NodeReadAt
<1>3. NodeRead(o)[Len(o)] = "seq"
  BY <1>1, NodeReadAt
<1>4. /\ NodeRead(o)[1] = o[1] /\ NodeRead(o)[2] = o[2]
      /\ NodeRead(o)[3] = o[3] /\ NodeRead(o)[4] = o[4]
  BY <1>1, <1>2 DEF Keeps
<1>5. QED
  BY <1>1, <1>2, <1>3, <1>4 DEF InSequence

\* Where a construct opened in the root mapping or in a pool leads.
LEMMA OpenConstruct ==
  ASSUME NEW o \in Seq(YamlState)
  PROVE  /\ InRoot(o, "key") => InPool(Append(o, "key"), "key")
         /\ InPool(o, "key") => InSequence(Append(o, "seq"))
<1>1. CASE InRoot(o, "key")
  <2>1. /\ Len(o) = 3 /\ "key" \in YamlState
        /\ o[1] = "stream" /\ o[2] = "docend" /\ o[3] = "key"
    BY <1>1 DEF InRoot, YamlState
  <2>2. /\ Len(Append(o, "key")) = Len(o) + 1
        /\ Keeps(o, Append(o, "key"), Len(o))
        /\ Append(o, "key")[Len(o) + 1] = "key"
    BY <2>1, Appended
  <2>3. InPool(Append(o, "key"), "key")
    BY <2>1, <2>2 DEF Keeps, InPool
  <2>4. QED
    BY <1>1, <2>3 DEF InRoot, InPool
<1>2. CASE InPool(o, "key")
  <2>1. /\ Len(o) = 4 /\ "seq" \in YamlState
        /\ o[1] = "stream" /\ o[2] = "docend" /\ o[3] = "key" /\ o[4] = "key"
    BY <1>2 DEF InPool, YamlState
  <2>2. /\ Len(Append(o, "seq")) = Len(o) + 1
        /\ Keeps(o, Append(o, "seq"), Len(o))
        /\ Append(o, "seq")[Len(o) + 1] = "seq"
    BY <2>1, Appended
  <2>3. InSequence(Append(o, "seq"))
    BY <2>1, <2>2 DEF Keeps, InSequence
  <2>4. QED
    BY <1>2, <2>3 DEF InRoot, InPool
<1>3. CASE ~InRoot(o, "key") /\ ~InPool(o, "key")
  BY <1>3
<1>4. QED
  BY <1>1, <1>2, <1>3 DEF InRoot, InPool

\* Where the end of the innermost construct leads.
LEMMA CloseConstruct ==
  ASSUME NEW o \in Seq(YamlState), NEW n, n = SubSeq(o, 1, Len(o) - 1)
  PROVE  /\ InRoot(o, "key") => Outside(n) /\ n[1] = "stream"
         /\ InPool(o, "key") => InRoot(n, "key")
         /\ InSequence(o) => InPool(n, "key")
<1>1. Len(o) > 1 => Len(n) = Len(o) - 1 /\ Keeps(o, n, Len(o) - 1)
  BY Shortened
<1>2. QED
  BY <1>1 DEF Keeps, InRoot, InPool, InSequence, Outside

\* From outside the root mapping an event of a sound file leads into it, or
\* stays outside.
LEMMA MoveOutside ==
  ASSUME NEW o, Nested(o), NEW e \in Event, Accepts(o, e), Placed(o, e), Outside(o)
  PROVE  /\ e.type = "MappingStart" => InRoot(NextStack(o, e), "key")
         /\ e.type # "MappingStart" => Outside(NextStack(o, e))
         /\ e.type # "StreamEnd" => NextStack(o, e)[1] = "stream"
<1>1. o \in Seq(YamlState) /\ Len(o) \in {1, 2} /\ Top(o) = o[Len(o)]
  BY DEF Nested, Top, Outside
<1>2. e.type \in {"StreamStart", "DocumentStart", "MappingStart", "DocumentEnd",
                  "StreamEnd"}
  BY <1>1 DEF Placed, Outside, InRoot, InPool, InSequence
<1>3. CASE e.type \in {"StreamStart", "StreamEnd"}
  BY <1>3 DEF NextStack, Outside
<1>4. CASE e.type = "DocumentStart"
  <2>1. Len(o) = 1 /\ o[1] = "stream"
    BY <1>1, <1>4 DEF Accepts, Expected, Outside, NodeEvents
  <2>2. NextStack(o, e) = Append(o, "root")
    BY <1>4 DEF NextStack, Opened
  <2>3. QED
    BY <1>1, <1>4, <2>1, <2>2, Appended DEF Outside, YamlState, Keeps
<1>5. CASE e.type = "MappingStart"
  <2>1. Len(o) = 2 /\ o[1] = "stream" /\ o[2] = "root"
    BY <1>1, <1>5 DEF Accepts, Expected, Outside, NodeEvents
  <2>2. NextStack(o, e) = Append(NodeRead(o), "key")
    BY <1>5 DEF NextStack, Opened
  <2>3. /\ NodeRead(o) \in Seq(YamlState) /\ Len(NodeRead(o)) = 2
        /\ NodeRead(o)[1] = "stream" /\ NodeRead(o)[2] = "docend"
    <3>1. /\ o[Len(o)] = "root" /\ Nested(o)
          /\ NodeRead(o) \in Seq(YamlState) /\ Len(NodeRead(o)) = Len(o)
          /\ NodeRead(o)[1] = o[1]
      BY <2>1, NodeReadAt, SMTT(20) DEF Keeps
    <3>2. NodeRead(o)[Len(o)] = "docend"
      BY <3>1, NodeReadAt
    <3>3. QED
      BY <2>1, <3>1, <3>2
  <2>4. QED
    BY <1>5, <2>2, <2>3, Appended DEF InRoot, YamlState, Keeps
<1>6. CASE e.type = "DocumentEnd"
  <2>1. Len(o) = 2 /\ o[1] = "stream"
    BY <1>1, <1>6 DEF Accepts, Expected, Outside, NodeEvents
  <2>2. NextStack(o, e) = SubSeq(o, 1, 1)
    BY <1>6, <2>1 DEF NextStack
  <2>3. QED
    BY <1>1, <1>6, <2>1, <2>2 DEF Outside
<1>7. QED
  BY <1>2, <1>3, <1>4, <1>5, <1>6

\* What an event of a sound file can be in the root mapping, and where it leads.
LEMMA MoveInRoot ==
  ASSUME NEW o, Nested(o), NEW e \in Event, Placed(o, e), Len(o) = 3
  PROVE  \/ /\ InRoot(o, "key") /\ e.type = "Scalar"
            /\ InRoot(NextStack(o, e), "value")
         \/ /\ InRoot(o, "key") /\ e.type = "MappingEnd"
            /\ Outside(NextStack(o, e)) /\ NextStack(o, e)[1] = "stream"
         \/ /\ InRoot(o, "value") /\ e.type = "MappingStart"
            /\ InPool(NextStack(o, e), "key")
<1>1. o \in Seq(YamlState)
  BY DEF Nested
<1>2. CASE InRoot(o, "key") /\ e.type = "Scalar"
  <2>1. NextStack(o, e) = NodeRead(o)
    BY <1>2 DEF NextStack
  <2>2. QED
    BY <1>2, <2>1, ReadInRoot
<1>3. CASE InRoot(o, "key") /\ e.type = "MappingEnd"
  <2>1. NextStack(o, e) = SubSeq(o, 1, Len(o) - 1)
    BY <1>3 DEF NextStack
  <2>2. QED
    BY <1>1, <1>3, <2>1, CloseConstruct
<1>4. CASE InRoot(o, "value") /\ e.type = "MappingStart"
  <2>1. NextStack(o, e) = Append(NodeRead(o), "key")
    BY <1>4 DEF NextStack, Opened
  <2>2. InRoot(NodeRead(o), "key")
    BY <1>4, ReadInRoot
  <2>3. NodeRead(o) \in Seq(YamlState)
    BY <1>4, NodeReadAt DEF InRoot
  <2>4. QED
    BY <1>4, <2>1, <2>2, <2>3, OpenConstruct
<1>5. QED
  BY <1>2, <1>3, <1>4 DEF Placed, Outside, InRoot, InPool, InSequence

\* What it can be in a pool or in a sequence of one, and where it leads.
LEMMA MoveInPool ==
  ASSUME NEW o, Nested(o), NEW e \in Event, Placed(o, e), Len(o) > 3
  PROVE  \/ /\ InPool(o, "key") /\ e.type = "Scalar"
            /\ InPool(NextStack(o, e), "value")
         \/ /\ InPool(o, "key") /\ e.type = "MappingEnd"
            /\ InRoot(NextStack(o, e), "key")
         \/ /\ InPool(o, "value") /\ e.type = "Scalar"
            /\ InPool(NextStack(o, e), "key")
         \/ /\ InPool(o, "value") /\ e.type = "SequenceStart"
            /\ InSequence(NextStack(o, e))
         \/ /\ InSequence(o) /\ e.type = "Scalar"
            /\ InSequence(NextStack(o, e))
         \/ /\ InSequence(o) /\ e.type = "SequenceEnd"
            /\ InPool(NextStack(o, e), "key")
<1>1. o \in Seq(YamlState)
  BY DEF Nested
<1>2. /\ e.type = "Scalar" => NextStack(o, e) = NodeRead(o)
      /\ e.type = "SequenceStart" => NextStack(o, e) = Append(NodeRead(o), "seq")
      /\ e.type \in {"MappingEnd", "SequenceEnd"} =>
           NextStack(o, e) = SubSeq(o, 1, Len(o) - 1)
  BY DEF NextStack, Opened
<1>3. CASE InPool(o, "key") /\ e.type = "Scalar"
  BY <1>2, <1>3, ReadInPool
<1>4. CASE InPool(o, "key") /\ e.type = "MappingEnd"
  BY <1>1, <1>2, <1>4, CloseConstruct
<1>5. CASE InPool(o, "value") /\ e.type = "Scalar"
  BY <1>2, <1>5, ReadInPool
<1>6. CASE InPool(o, "value") /\ e.type = "SequenceStart"
  <2>1. InPool(NodeRead(o), "key")
    BY <1>6, ReadInPool
  <2>2. NodeRead(o) \in Seq(YamlState)
    BY <1>6, NodeReadAt DEF InPool
  <2>3. QED
    BY <1>2, <1>6, <2>1, <2>2, OpenConstruct
<1>7. CASE InSequence(o) /\ e.type = "Scalar"
  BY <1>2, <1>7, ReadInSequence
<1>8. CASE InSequence(o) /\ e.type = "SequenceEnd"
  BY <1>1, <1>2, <1>8, CloseConstruct
<1>9. CASE Len(o) > 3 /\ Placed(o, e)
  <2>1. ASSUME Len(o) = 1 PROVE FALSE
    BY <1>1, <1>9, <2>1
  <2>2. ASSUME Len(o) = 2 PROVE FALSE
    BY <1>1, <1>9, <2>2
  <2>3. ASSUME Len(o) = 3 PROVE FALSE
    BY <1>1, <1>9, <2>3
  <2>4. ~Outside(o) /\ ~InRoot(o, "key") /\ ~InRoot(o, "value")
    BY <2>1, <2>2, <2>3 DEF Outside, InRoot
  <2>5. QED
    BY <1>3, <1>4, <1>5, <1>6, <1>7, <1>8, <1>9, <2>4 DEF Placed
<1>10. QED
  BY <1>9

-----------------------------------------------------------------------------
(***************************************************************************)
(* Type correctness.  What libyaml delivers is an event, and its stack     *)
(* stays nested: that it never becomes empty is part of the type.          *)
(***************************************************************************)
TypeInv == TypeOK /\ Nested(open)

\* conf_event_next hands out an event, of the file or the empty one.
LEMMA EventFetched ==
  ASSUME TypeInv, CanRead(disk, pos, open)
  PROVE  NextEvent \in Event /\ Accepts(open, NextEvent)
<1>1. disk \in Files /\ pos \in Nat /\ disk.events \in Seq(Event)
  BY FilesAssumption DEF TypeInv, TypeOK
<1>2. CASE Top(open) = "done"
  <2>1. NextEvent = NoEvent
    BY <1>2 DEF NextEvent, EventAt
  <2>2. NoEvent \in Event
    BY ScalarAssumption DEF NoEvent, Event, EventTypes
  <2>3. Accepts(open, NoEvent)
    BY <1>2 DEF Accepts, Expected, NoEvent
  <2>4. QED
    BY <2>1, <2>2, <2>3
<1>3. CASE Top(open) # "done"
  <2>1. pos < Len(disk.events) /\ NextEvent = disk.events[pos + 1]
    BY <1>3 DEF CanRead, NextEvent, EventAt
  <2>2. QED
    BY <1>1, <1>3, <2>1 DEF CanRead
<1>4. QED
  BY <1>2, <1>3

\* Fetching keeps the position and the stack well-typed.
LEMMA FetchTyped ==
  ASSUME TypeInv, Fetch
  PROVE  /\ NextEvent \in Event /\ Accepts(open, NextEvent)
         /\ pos' \in Nat
         /\ Nested(open') /\ open' \in Seq(YamlState) /\ Len(open') > 0
<1>1. NextEvent \in Event /\ Accepts(open, NextEvent)
  BY EventFetched DEF Fetch
<1>2. Nested(open')
  BY <1>1, NextStackNested DEF TypeInv, Fetch
<1>3. pos' \in Nat
  BY DEF Fetch, TypeInv, TypeOK
<1>4. QED
  BY <1>1, <1>2, <1>3 DEF Nested

\* Counting a failure keeps the count within its bound.
LEMMA FaultTyped ==
  ASSUME TypeInv, Fault
  PROVE  faults' \in 0 .. MaxFaults
<1>1. faults \in 0 .. MaxFaults
  BY DEF TypeInv, TypeOK
<1>2. faults < MaxFaults /\ faults' = faults + 1
  BY DEF Fault
<1>3. MaxFaults \in Nat
  BY ConstantsAssumption
<1>4. QED
  BY <1>1, <1>2, <1>3

\* The counters of conf_validate_structure stay numbers, whatever happens.
LEMMA CountedTyped ==
  ASSUME NEW c \in [depth : Int, count : [0 .. 2 -> Nat], seq : BOOLEAN], NEW e
  PROVE  Counted(c, e) \in [depth : Int, count : [0 .. 2 -> Nat], seq : BOOLEAN]
<1> DEFINE new == [c.count EXCEPT ![c.depth] =
                     IF c.depth = 2 /\ c.count[c.depth] = 2 THEN 1
                     ELSE c.count[c.depth] + 1]
<1>1. c.depth \in Int /\ c.count \in [0 .. 2 -> Nat] /\ c.seq \in BOOLEAN
  OBVIOUS
<1>2. CASE e.type = "Scalar"
  <2>1. \A i \in 0 .. 2 : new[i] \in Nat
    BY <1>1
  <2>2. new \in [0 .. 2 -> Nat]
    BY <1>1, <2>1, Zenon
  <2>3. Counted(c, e) = [c EXCEPT !.count = new]
    BY <1>2 DEF Counted
  <2>4. QED
    BY <2>2, <2>3
<1>3. CASE e.type = "MappingEnd"
  <2>1. [c.count EXCEPT ![c.depth - 1] = 0] \in [0 .. 2 -> Nat]
    BY <1>1
  <2>2. (c.seq /\ c.depth # 2) \in BOOLEAN
    BY Zenon
  <2>3. Counted(c, e) = LeftMapping(c)
    BY <1>3 DEF Counted
  <2>4. QED
    BY <1>1, <2>1, <2>2, <2>3 DEF LeftMapping
<1>4. CASE e.type = "MappingStart"
  <2>1. Counted(c, e) = [c EXCEPT !.depth = c.depth + 1]
    BY <1>4 DEF Counted
  <2>2. QED
    BY <1>1, <2>1
<1>5. CASE e.type = "SequenceStart"
  <2>1. Counted(c, e) = [c EXCEPT !.seq = TRUE]
    BY <1>5 DEF Counted
  <2>2. QED
    BY <1>1, <2>1
<1>6. CASE e.type = "SequenceEnd"
  <2>1. Counted(c, e) = [c EXCEPT !.count = [c.count EXCEPT ![c.depth] = 0]]
    BY <1>6 DEF Counted
  <2>2. [c.count EXCEPT ![c.depth] = 0] \in [0 .. 2 -> Nat]
    BY <1>1
  <2>3. QED
    BY <1>1, <2>1, <2>2
<1>7. CASE e.type \notin {"Scalar", "MappingEnd", "MappingStart", "SequenceStart",
                          "SequenceEnd"}
  <2>1. Counted(c, e) = c
    BY <1>7 DEF Counted
  <2>2. QED
    BY <2>1
<1>8. QED
  BY <1>2, <1>3, <1>4, <1>5, <1>6, <1>7

\* A sequence stays one of the same elements when one of them is replaced.
LEMMA Updated ==
  ASSUME NEW S, NEW s \in Seq(S), NEW i, NEW x, i \in DOMAIN s => x \in S
  PROVE  [s EXCEPT ![i] = x] \in Seq(S)
<1>1. Len(s) \in Nat /\ DOMAIN s = 1 .. Len(s) /\ s \in [1 .. Len(s) -> S]
  OBVIOUS
<1>2. [s EXCEPT ![i] = x] \in [1 .. Len(s) -> S]
  BY <1>1, Zenon
<1>3. QED
  BY <1>1, <1>2

\* What the handlers make of a pool is a pool.
LEMMA PoolTyped ==
  ASSUME NEW cp \in ConfPool, NEW key \in Directives, NEW value \in Scalar
  PROVE  SetField(cp, key, value) \in ConfPool
<1>1. Atoi(value) \in Int
  BY ConstantsAssumption DEF Atoi
<1>2. SetField(cp, key, value) \in ConfPool
  BY <1>1 DEF SetField, ConfPool, Directives
<1>3. QED
  BY <1>2

\* conf_validate_pool makes a pool of a pool.
LEMMA ValidatedTyped ==
  ASSUME NEW cp \in ConfPool
  PROVE  ValidatedPool(cp) \in ConfPool
<1>1. \A k \in NumDirectives : WithDefault(cp, k) \in Int
  BY DEF WithDefault, DefaultPort, ConfPool, CONF_UNSET_NUM
<1>2. [k \in NumDirectives |-> WithDefault(cp, k)] \in [NumDirectives -> Int]
  BY <1>1
<1>3. QED
  BY <1>2 DEF ValidatedPool, ConfPool

\* conf_pool_init makes a pool.
LEMMA InitialPoolTyped ==
  ASSUME NEW name \in Scalar \cup {NULL}
  PROVE  InitialPool(name) \in ConfPool
BY DEF InitialPool, ConfPool, CONF_UNSET_NUM

\* conf_create starts well-typed.
LEMMA TypeInit ==
  ASSUME Init
  PROVE  TypeInv
<1>1. Nested(open)
  BY InitialStackNested DEF Init
<1>2. [d \in 0 .. CONF_MAX_DEPTH |-> 0] \in [0 .. CONF_MAX_DEPTH -> Nat]
  OBVIOUS
<1>3. check \in [depth : Int, count : [0 .. CONF_MAX_DEPTH -> Nat], seq : BOOLEAN]
  BY <1>2 DEF Init
<1>4. open \in Seq(YamlState) /\ Len(open) > 0
  BY <1>1 DEF Nested
<1>5. alloc \in [n : Nat \ {0}, moves : Nat] /\ edits \in 0 .. MaxEdits
      /\ faults \in 0 .. MaxFaults
  BY ConstantsAssumption DEF Init
<1>6. arg \in Seq(Scalar) /\ pool \in Seq(ConfPool)
  BY DEF Init
<1>7. TypeOK
  BY <1>3, <1>4, <1>5, <1>6 DEF Init, TypeOK
<1>8. QED
  BY <1>1, <1>7 DEF TypeInv

\* The passes before conf_parse_core.
LEMMA TypePasses ==
  ASSUME TypeInv,
         \/ Open \/ ValidateDocument \/ ValidateTokens \/ StructureBegin
         \/ StructureEvent \/ ParseBegin \/ BeginEvent \/ EndEvent
  PROVE  TypeInv'
<1> USE DEF Goto, Error, reader, flags, result
<1>1. Fault => faults' \in 0 .. MaxFaults
  BY FaultTyped
<1>2. Nested(InitialStack)
  BY InitialStackNested
<1>3. Fetch => pos' \in Nat /\ Nested(open') /\ open' \in Seq(YamlState) /\ Len(open') > 0
  BY FetchTyped
<1>4. CASE Open
  BY <1>1, <1>4 DEF Open, TypeInv, TypeOK
<1>5. CASE ValidateDocument
  BY <1>1, <1>5 DEF ValidateDocument, TypeInv, TypeOK
<1>6. CASE ValidateTokens
  BY <1>1, <1>6 DEF ValidateTokens, TypeInv, TypeOK
<1>7. CASE StructureBegin
  <2>1. [depth |-> 0, seq |-> FALSE, count |-> [d \in 0 .. CONF_MAX_DEPTH |-> 0]]
          \in [depth : Int, count : [0 .. CONF_MAX_DEPTH -> Nat], seq : BOOLEAN]
    OBVIOUS
  <2>2. CASE YamlInit /\ UNCHANGED faults
    <3>1. Nested(open') /\ pos' \in Nat
      BY <1>2, <2>2 DEF YamlInit
    <3>2. check' \in [depth : Int, count : [0 .. CONF_MAX_DEPTH -> Nat], seq : BOOLEAN]
      BY <1>7, <2>1 DEF StructureBegin, TypeInv, TypeOK
    <3>3. phase' \in {"structure_events", "destroy"} /\ parser' \in BOOLEAN
      BY <1>7, <2>2 DEF StructureBegin, YamlInit, TypeInv, TypeOK
    <3>4. QED
      BY <1>7, <2>2, <3>1, <3>2, <3>3 DEF StructureBegin, TypeInv, TypeOK, Nested
  <2>3. CASE YamlInitFails /\ Error /\ UNCHANGED <<check, reader, parser>>
    BY <1>1, <1>7, <2>3 DEF StructureBegin, YamlInitFails, TypeInv, TypeOK
  <2>4. QED
    BY <1>7, <2>2, <2>3 DEF StructureBegin
<1>8. CASE StructureEvent
  <2>1. Counted(check, NextEvent)
          \in [depth : Int, count : [0 .. CONF_MAX_DEPTH -> Nat], seq : BOOLEAN]
    BY CountedTyped DEF TypeInv, TypeOK
  <2>2. CASE Fetch
    BY <1>3, <1>8, <2>1, <2>2, FaultTyped, ZenonT(40) DEF StructureEvent, FetchFails, TypeInv, TypeOK
  <2>3. CASE ~Fetch
    BY <1>1, <1>8, <2>3 DEF StructureEvent, FetchFails, TypeInv, TypeOK
  <2>4. QED
    BY <2>2, <2>3
<1>9. CASE ParseBegin
  <2>1. CASE YamlInit /\ phase' = "begin" /\ UNCHANGED faults
    <3>1. Nested(open') /\ pos' \in Nat /\ parser' \in BOOLEAN
      BY <1>2, <2>1 DEF YamlInit
    <3>2. QED
      BY <1>9, <2>1, <3>1 DEF ParseBegin, TypeInv, TypeOK, Nested
  <2>2. CASE Error /\ UNCHANGED <<reader, parser>> /\ (Fault \/ UNCHANGED faults)
    BY <1>1, <1>9, <2>2 DEF ParseBegin, TypeInv, TypeOK
  <2>3. QED
    BY <1>9, <2>1, <2>2 DEF ParseBegin, YamlInitFails
<1>10. CASE BeginEvent
  <2>1. faults' \in 0 .. MaxFaults /\ phase' \in {"begin", "core", "destroy"}
        /\ depth' \in Int
    BY <1>1, <1>10, SMTT(20) DEF BeginEvent, FetchFails, TypeInv, TypeOK
  <2>2. pos' \in Nat /\ Nested(open') /\ open' \in Seq(YamlState) /\ Len(open') > 0
    BY <1>3, <1>10 DEF BeginEvent, TypeInv, TypeOK
  <2>3. QED
    BY <1>10, <2>1, <2>2 DEF BeginEvent, TypeInv, TypeOK
<1>11. CASE EndEvent
  BY <1>1, <1>3, <1>11, ZenonT(40) DEF EndEvent, FetchFails, TypeInv, TypeOK
<1>12. QED
  BY <1>4, <1>5, <1>6, <1>7, <1>8, <1>9, <1>10, <1>11

\* conf_parse_core: what it does to the argument stack and to the pools.
LEMMA TypeCore ==
  ASSUME TypeInv, CoreEvent
  PROVE  TypeInv'
<1> USE DEF Goto, Error, reader, flags, result, Undefined
<1>1. Fault => faults' \in 0 .. MaxFaults
  BY FaultTyped
<1>2. Fetch => /\ NextEvent.value \in Scalar
               /\ pos' \in Nat /\ Nested(open')
               /\ open' \in Seq(YamlState) /\ Len(open') > 0
  BY FetchTyped DEF Event
<1>3. PopScalar => /\ arg' \in Seq(Scalar)
                   /\ phase' \in {phase, "over"}
                   /\ outcome' \in {outcome, "wild"}
  <2>1. arg \in Seq(Scalar)
    BY DEF TypeInv, TypeOK
  <2>2. CASE arg = <<>>
    BY <2>1, <2>2 DEF PopScalar
  <2>3. CASE arg # <<>>
    <3>1. Len(arg) - 1 \in 0 .. Len(arg)
      BY <2>1, <2>3
    <3>2. SubSeq(arg, 1, Len(arg) - 1) \in Seq(Scalar)
      BY <2>1, <3>1
    <3>3. QED
      BY <2>3, <3>2 DEF PopScalar
  <2>4. QED
    BY <2>2, <2>3
<1>4. CASE CoreFetchFails
  BY <1>1, <1>4 DEF CoreFetchFails, FetchFails, TypeInv, TypeOK
<1>5. CASE CoreMappingStart
  BY <1>2, <1>5 DEF CoreMappingStart, CoreFetch, TypeInv, TypeOK
<1>6. CASE CoreMappingEnd
  <2>1. /\ Fetch /\ depth' = depth - 1 /\ phase = "core"
        /\ UNCHANGED <<disk, edits, faults, check, flags, seq, pool, alloc, data>>
    BY <1>6 DEF CoreMappingEnd, CoreFetch
  <2>2. /\ arg \in Seq(Scalar)
        /\ depth \in Int /\ depth' \in Int
    BY <2>1 DEF TypeInv, TypeOK
  <2>3. /\ arg' \in Seq(Scalar)
        /\ phase' \in {phase, "end", "over"}
        /\ outcome' \in {outcome, "wild"}
    BY <1>3, <1>6, <2>2 DEF CoreMappingEnd
  <2>4. QED
    BY <1>2, <2>1, <2>2, <2>3 DEF TypeInv, TypeOK
<1>7. CASE CoreSequenceStart
  BY <1>2, <1>7 DEF CoreSequenceStart, CoreFetch, TypeInv, TypeOK
<1>8. CASE CoreSequenceEnd
  <2>1. /\ Fetch /\ PopScalar /\ seq' = FALSE /\ phase = "core"
        /\ UNCHANGED <<disk, edits, faults, check, flags, depth, pool, alloc, data>>
    BY <1>8 DEF CoreSequenceEnd, CoreFetch
  <2>2. QED
    BY <1>2, <1>3, <2>1 DEF TypeInv, TypeOK
<1>9. CASE CoreOther
  BY <1>2, <1>9 DEF CoreOther, TypeInv, TypeOK
<1>10. CASE CoreScalarNoMemory
  BY <1>1, <1>2, <1>10 DEF CoreScalarNoMemory, CoreFetch, TypeInv, TypeOK
<1>11. CASE CoreKey
  BY <1>2, <1>11 DEF CoreKey, CoreFetch, TypeInv, TypeOK
<1>12. CASE CorePoolName
  <2>1. /\ Fetch /\ arg' = Append(arg, NextEvent.value) /\ arg' \in Seq(Scalar)
    BY <1>2, <1>12 DEF CorePoolName, CoreFetch, TypeInv, TypeOK
  <2>2. \A name \in Scalar \cup {NULL} :
          Append(pool, InitialPool(name)) \in Seq(ConfPool)
    BY InitialPoolTyped DEF TypeInv, TypeOK
  <2>3. pool' \in Seq(ConfPool)
    <3>1. \/ pool' = pool
          \/ \E name \in Scalar \cup {NULL} : pool' = Append(pool, InitialPool(name))
      BY <1>2, <1>12, <2>1 DEF CorePoolName
    <3>2. QED
      BY <2>2, <3>1 DEF TypeInv, TypeOK
  <2>4. \A a \in Grown : a \in [n : Nat \ {0}, moves : Nat]
    BY SMTT(20) DEF Grown, TypeInv, TypeOK
  <2>5. \A a \in Grown : PushedAt(a) \in [idx : Nat \ {0}, at : Nat]
    BY <2>4 DEF PushedAt, TypeInv, TypeOK
  <2>6. /\ alloc' \in [n : Nat \ {0}, moves : Nat]
        /\ data' \in [idx : Nat \ {0}, at : Nat] \cup {NULL}
    BY <1>12, <2>4, <2>5 DEF CorePoolName, TypeInv, TypeOK
  <2>7. /\ faults' \in 0 .. MaxFaults
        /\ phase' \in {"core", "destroy", "over"}
        /\ outcome' \in {outcome, "wild"}
    BY <1>1, <1>12 DEF CorePoolName, CoreFetch, TypeInv, TypeOK
  <2>8. UNCHANGED <<disk, edits, check, flags, depth, seq>>
    BY <1>12 DEF CorePoolName
  <2>9. QED
    BY <1>2, <2>1, <2>3, <2>6, <2>7, <2>8, SMTT(20) DEF TypeInv, TypeOK
<1>13. CASE CoreLeaf
  <2>1. Fetch /\ NextEvent.value \in Scalar /\ phase = "core"
    BY <1>2, <1>13 DEF CoreLeaf, CoreFetch
  <2>2. CASE arg = <<>>
    <3>1. HandleName(NextEvent.value)
      BY <1>13, <2>2 DEF CoreLeaf
    <3>2. \A name \in Scalar \cup {NULL} :
            [pool EXCEPT ![data.idx] = InitialPool(name)] \in Seq(ConfPool)
      BY InitialPoolTyped, Updated DEF TypeInv, TypeOK
    <3>3. arg' = arg
          /\ \/ pool' = pool
             \/ \E name \in Scalar \cup {NULL} :
                  pool' = [pool EXCEPT ![data.idx] = InitialPool(name)]
      BY <2>1, <3>1 DEF HandleName
    <3>4. pool' \in Seq(ConfPool)
      BY <3>2, <3>3, ZenonT(40) DEF TypeInv, TypeOK
    <3>5. /\ faults' \in 0 .. MaxFaults
          /\ phase' \in {"core", "destroy", "over"}
          /\ outcome' \in {outcome, "wild"}
      BY <1>1, <2>1, <3>1 DEF HandleName, TypeInv, TypeOK
    <3>6. QED
      <4>1. UNCHANGED <<disk, edits, check, flags, depth, seq, alloc, data>>
        BY <1>13 DEF CoreLeaf
      <4> QED
        BY <1>2, <2>1, <3>3, <3>4, <3>5, <4>1, SMTT(20) DEF TypeInv, TypeOK
  <2>3. CASE arg # <<>>
    <3> DEFINE key == arg[Len(arg)]
    <3>1. HandleValue(key, NextEvent.value)
      BY <1>13, <2>3 DEF CoreLeaf
    <3>2. Len(arg) \in Nat \ {0} /\ arg \in Seq(Scalar)
      BY <2>3 DEF TypeInv, TypeOK
    <3>3. PopLeaf => arg' \in Seq(Scalar)
      BY <3>2 DEF PopLeaf
    <3>4. arg' \in Seq(Scalar)
      BY <3>1, <3>2, <3>3 DEF HandleValue
    <3>5. key \in Directives =>
            [pool EXCEPT ![data.idx] = SetField(@, key, NextEvent.value)] \in Seq(ConfPool)
      <4> SUFFICES ASSUME key \in Directives
                   PROVE  [pool EXCEPT ![data.idx] =
                             SetField(pool[data.idx], key, NextEvent.value)]
                             \in Seq(ConfPool)
        OBVIOUS
      <4>1. pool \in Seq(ConfPool)
        BY DEF TypeInv, TypeOK
      <4>2. data.idx \in DOMAIN pool =>
              SetField(pool[data.idx], key, NextEvent.value) \in ConfPool
        BY <2>1, <4>1, PoolTyped
      <4>3. QED
        BY <4>1, <4>2, Updated
    <3>6. pool' \in Seq(ConfPool)
      BY <3>1, <3>5 DEF HandleValue, TypeInv, TypeOK
    <3>7. /\ faults' \in 0 .. MaxFaults
          /\ phase' \in {"core", "destroy", "over"}
          /\ outcome' \in {outcome, "wild", "overrun"}
      BY <1>1, <2>1, <3>1 DEF HandleValue, TypeInv, TypeOK
    <3>8. UNCHANGED <<disk, edits, check, flags, depth, seq, alloc, data>>
      BY <1>13 DEF CoreLeaf
    <3>9. QED
      BY <1>2, <2>1, <3>4, <3>6, <3>7, <3>8, SMTT(20) DEF TypeInv, TypeOK
  <2>4. QED
    BY <2>2, <2>3
<1>14. QED
  BY <1>4, <1>5, <1>6, <1>7, <1>8, <1>9, <1>10, <1>11, <1>12, <1>13 DEF CoreEvent

\* Every step of conf_create keeps the types.
LEMMA TypeStep ==
  ASSUME TypeInv, [Next]_vars
  PROVE  TypeInv'
<1> USE DEF Goto, Error, reader, flags, result, Undefined
<1>1. CASE \/ Open \/ ValidateDocument \/ ValidateTokens \/ StructureBegin
           \/ StructureEvent \/ ParseBegin \/ BeginEvent \/ EndEvent
  BY <1>1, TypePasses
<1>2. CASE CoreEvent
  BY <1>2, TypeCore
<1>3. CASE PostValidate
  <2>1. \A i \in 1 .. Len(pool) : ValidatedPool(pool[i]) \in ConfPool
    BY ValidatedTyped DEF TypeInv, TypeOK
  <2>2. [i \in 1 .. Len(pool) |-> ValidatedPool(pool[i])] \in Seq(ConfPool)
    BY <2>1 DEF TypeInv, TypeOK
  <2>3. pool' \in Seq(ConfPool)
    BY <1>3, <2>2 DEF PostValidate, TypeInv, TypeOK
  <2>4. QED
    BY <1>3, <2>3 DEF PostValidate, TypeInv, TypeOK
<1>4. CASE Destroy
  BY <1>4 DEF Destroy, TypeInv, TypeOK
<1>5. CASE EditFile
  <2>1. edits' \in 0 .. MaxEdits
    BY <1>5, ConstantsAssumption DEF EditFile, TypeInv, TypeOK
  <2>2. QED
    BY <1>5, <2>1 DEF EditFile, TypeInv, TypeOK
<1>6. CASE UNCHANGED vars
  BY <1>6 DEF vars, TypeInv, TypeOK
<1>7. QED
  BY <1>1, <1>2, <1>3, <1>4, <1>5, <1>6 DEF Next, Load, Over

\* Every variable of the loader keeps its type, and libyaml's stack is never
\* empty, whatever the file holds and whoever rewrites it meanwhile.
THEOREM TypeCorrect == Spec => []TypeOK
<1>1. Init => TypeInv
  BY TypeInit
<1>2. TypeInv /\ [Next]_vars => TypeInv'
  BY TypeStep
<1>3. TypeInv => TypeOK
  BY DEF TypeInv
<1>4. QED
  BY <1>1, <1>2, <1>3, PTL DEF Spec

-----------------------------------------------------------------------------
(***************************************************************************)
(* The passes agree: whatever the file holds, the structure pass refuses   *)
(* what the parse pass cannot handle, as long as both read the same file.  *)
(***************************************************************************)

(***************************************************************************)
(* conf_validate_structure.  ValidatorAgrees alone is not inductive: the   *)
(* counters of the levels that are not open must be known as well.         *)
(***************************************************************************)
InRootMapping(o) == InRoot(o, "key") \/ InRoot(o, "value")

CountsLeft ==
  /\ Outside(open) => check.count[1] = 0
  /\ Outside(open) \/ InRootMapping(open) => check.count[2] \in {0, 2}

ValidatorInv == ValidatorAgrees /\ CountsLeft

\* What the counters do not refuse is placed where a configuration has it.
LEMMA NotMisplaced ==
  ASSUME TypeInv, ValidatorInv, open[1] # "done",
         NEW e \in Event, Accepts(open, e), e.type # "Alias", ~Misplaced(check, e)
  PROVE  Placed(open, e)
<1>1. open \in Seq(YamlState) /\ Top(open) = open[Len(open)]
  BY DEF TypeInv, TypeOK, Top
<1>2. /\ check.depth \in Int /\ check.count \in [0 .. 2 -> Nat]
      /\ check.seq \in BOOLEAN
  BY DEF TypeInv, TypeOK
<1>3. e.type \in Expected[open[Len(open)]]
  BY <1>1 DEF Accepts
<1>4. CASE Outside(open) /\ check.depth = 0 /\ ~check.seq
  <2>1. /\ Len(open) = 1 => open[Len(open)] \in {"start", "stream"}
        /\ Len(open) # 1 => open[Len(open)] \in {"root", "docend"}
    BY <1>1, <1>4 DEF Outside
  <2>2. e.type \in {"StreamStart", "DocumentStart", "MappingStart", "SequenceStart",
                    "DocumentEnd", "StreamEnd", "Scalar"}
    BY <1>3, <2>1 DEF Expected, NodeEvents
  <2>3. e.type \notin {"Scalar", "SequenceStart"}
    BY <1>2, <1>4 DEF Misplaced, MisplacedScalar, MisplacedSequence
  <2>4. QED
    BY <1>4, <2>2, <2>3 DEF Placed
<1>5. CASE InRoot(open, "key") /\ check.depth = 1 /\ check.count[1] = 0
  <2>1. e.type \in {"Scalar", "MappingStart", "SequenceStart", "MappingEnd"}
    BY <1>1, <1>3, <1>5 DEF Expected, NodeEvents, InRoot
  <2>2. e.type \notin {"MappingStart", "SequenceStart"}
    BY <1>2, <1>5 DEF Misplaced, MisplacedMapping, MisplacedSequence
  <2>3. QED
    BY <1>5, <2>1, <2>2 DEF Placed
<1>6. CASE InRoot(open, "value") /\ check.depth = 1 /\ check.count[1] = 1
  <2>1. e.type \in {"Scalar", "MappingStart", "SequenceStart"}
    BY <1>1, <1>3, <1>6 DEF Expected, NodeEvents, InRoot
  <2>2. e.type \notin {"Scalar", "SequenceStart"}
    BY <1>2, <1>6 DEF Misplaced, MisplacedScalar, MisplacedSequence
  <2>3. QED
    BY <1>6, <2>1, <2>2 DEF Placed
<1>7. CASE InPool(open, "key") /\ check.depth = 2 /\ check.count[2] \in {0, 2}
  <2>1. e.type \in {"Scalar", "MappingStart", "SequenceStart", "MappingEnd"}
    BY <1>1, <1>3, <1>7 DEF Expected, NodeEvents, InPool
  <2>2. e.type \notin {"MappingStart", "SequenceStart"}
    BY <1>2, <1>7 DEF Misplaced, MisplacedMapping, MisplacedSequence
  <2>3. QED
    BY <1>7, <2>1, <2>2 DEF Placed
<1>8. CASE InPool(open, "value") /\ check.depth = 2
  <2>1. e.type \in {"Scalar", "MappingStart", "SequenceStart"}
    BY <1>1, <1>3, <1>8 DEF Expected, NodeEvents, InPool
  <2>2. e.type # "MappingStart"
    BY <1>2, <1>8 DEF Misplaced, MisplacedMapping
  <2>3. QED
    BY <1>8, <2>1, <2>2 DEF Placed
<1>9. CASE InSequence(open) /\ check.depth = 2 /\ check.seq
  <2>1. e.type \in {"Scalar", "MappingStart", "SequenceStart", "SequenceEnd"}
    BY <1>1, <1>3, <1>9 DEF Expected, NodeEvents, InSequence
  <2>2. e.type \notin {"MappingStart", "SequenceStart"}
    BY <1>2, <1>9 DEF Misplaced, MisplacedMapping, MisplacedSequence
  <2>3. QED
    BY <1>9, <2>1, <2>2 DEF Placed
<1>10. QED
  BY <1>4, <1>5, <1>6, <1>7, <1>8, <1>9 DEF ValidatorInv, ValidatorAgrees

\* What counting an event does to each counter.
LEMMA CountedFields ==
  ASSUME NEW c \in [depth : Int, count : [0 .. 2 -> Nat], seq : BOOLEAN], NEW e
  PROVE  /\ e.type = "MappingStart" =>
              /\ Counted(c, e).depth = c.depth + 1 /\ Counted(c, e).seq = c.seq
              /\ Counted(c, e).count = c.count
         /\ e.type = "MappingEnd" =>
              /\ Counted(c, e).depth = c.depth - 1
              /\ ~c.seq \/ c.depth = 2 => ~Counted(c, e).seq
              /\ c.depth = 1 => /\ Counted(c, e).count[1] = c.count[1]
                                /\ Counted(c, e).count[2] = c.count[2]
              /\ c.depth = 2 => /\ Counted(c, e).count[1] = 0
                                /\ Counted(c, e).count[2] = c.count[2]
         /\ e.type = "SequenceStart" =>
              Counted(c, e).depth = c.depth /\ Counted(c, e).seq
         /\ e.type = "SequenceEnd" =>
              /\ Counted(c, e).depth = c.depth
              /\ c.depth = 2 => Counted(c, e).count[2] = 0
         /\ e.type = "Scalar" =>
              /\ Counted(c, e).depth = c.depth /\ Counted(c, e).seq = c.seq
              /\ c.depth = 1 => /\ Counted(c, e).count[1] = c.count[1] + 1
                                /\ Counted(c, e).count[2] = c.count[2]
              /\ c.depth = 2 => Counted(c, e).count[2] =
                                  IF c.count[2] = 2 THEN 1 ELSE c.count[2] + 1
<1>1. CASE e.type = "MappingStart"
  <2>1. Counted(c, e) = [c EXCEPT !.depth = c.depth + 1]
    BY <1>1 DEF Counted
  <2>2. QED
    BY <1>1, <2>1
<1>2. CASE e.type = "MappingEnd"
  <2>1. Counted(c, e) = LeftMapping(c)
    BY <1>2 DEF Counted
  <2>2. /\ Counted(c, e).depth = c.depth - 1
        /\ Counted(c, e).count = [c.count EXCEPT ![c.depth - 1] = 0]
        /\ Counted(c, e).seq = (c.seq /\ c.depth # 2)
    BY <2>1 DEF LeftMapping
  <2>3. ~c.seq \/ c.depth = 2 => ~Counted(c, e).seq
    BY <2>2
  <2>4. c.depth = 1 => /\ Counted(c, e).count[1] = c.count[1]
                       /\ Counted(c, e).count[2] = c.count[2]
    BY <2>2
  <2>5. c.depth = 2 => /\ Counted(c, e).count[1] = 0
                       /\ Counted(c, e).count[2] = c.count[2]
    BY <2>2
  <2>6. QED
    BY <1>2, <2>2, <2>3, <2>4, <2>5
<1>3. CASE e.type = "SequenceStart"
  <2>1. Counted(c, e) = [c EXCEPT !.seq = TRUE]
    BY <1>3 DEF Counted
  <2>2. QED
    BY <1>3, <2>1
<1>4. CASE e.type = "SequenceEnd"
  <2>1. Counted(c, e) = [c EXCEPT !.count = [c.count EXCEPT ![c.depth] = 0]]
    BY <1>4 DEF Counted
  <2>2. QED
    BY <1>4, <2>1
<1>5. CASE e.type = "Scalar"
  <2>1. Counted(c, e) =
          [c EXCEPT !.count = [c.count EXCEPT ![c.depth] =
             IF c.depth = 2 /\ c.count[c.depth] = 2 THEN 1 ELSE c.count[c.depth] + 1]]
    BY <1>5 DEF Counted
  <2>2. QED
    BY <1>5, <2>1
<1>6. QED
  BY <1>1, <1>2, <1>3, <1>4, <1>5

\* The counters follow.
LEMMA ValidatorStep ==
  ASSUME TypeInv, ValidatorInv, open[1] # "done",
         NEW e \in Event, Accepts(open, e), e.type # "Alias", ~Misplaced(check, e),
         open' = NextStack(open, e), check' = Counted(check, e)
  PROVE  ValidatorInv' /\ (e.type # "StreamEnd" => open'[1] # "done")
<1>1. Nested(open) /\ open \in Seq(YamlState) /\ Placed(open, e)
  BY NotMisplaced DEF TypeInv, TypeOK
<1>2. /\ check \in [depth : Int, count : [0 .. 2 -> Nat], seq : BOOLEAN]
      /\ check.depth \in Int /\ check.count \in [0 .. 2 -> Nat]
      /\ check.seq \in BOOLEAN
  BY DEF TypeInv, TypeOK
<1>3. CASE Len(open) \in {1, 2}
  <2>1. Outside(open) /\ check.depth = 0 /\ ~check.seq
        /\ check.count[1] = 0 /\ check.count[2] \in {0, 2}
    BY <1>1, <1>3
    DEF ValidatorInv, ValidatorAgrees, CountsLeft, InRoot, InPool, InSequence
  <2>2. e.type \in {"StreamStart", "DocumentStart", "MappingStart", "DocumentEnd",
                    "StreamEnd"}
    BY <1>1, <1>3 DEF Placed, InRoot, InPool, InSequence
  <2>3. CASE e.type = "MappingStart"
    <3>1. InRoot(open', "key")
      BY <1>1, <2>1, <2>3, MoveOutside
    <3>2. check'.depth = 1 /\ check'.count = check.count /\ check'.seq = check.seq
      BY <1>2, <2>1, <2>3, CountedFields
    <3>3. QED
      BY <2>1, <2>3, <3>1, <3>2
      DEF ValidatorInv, ValidatorAgrees, CountsLeft, InRoot, Outside
  <2>4. CASE e.type # "MappingStart"
    <3>1. Outside(open') /\ (e.type # "StreamEnd" => open'[1] = "stream")
      BY <1>1, <2>1, <2>4, MoveOutside
    <3>2. check' = check
      BY <2>2, <2>4 DEF Counted
    <3>3. QED
      BY <2>1, <3>1, <3>2 DEF ValidatorInv, ValidatorAgrees, CountsLeft
  <2>5. QED
    BY <2>3, <2>4
<1>4. CASE Len(open) = 3
  <2>1. check.depth = 1 /\ ~check.seq /\ check.count[2] \in {0, 2}
    BY <1>1, <1>4
    DEF ValidatorInv, ValidatorAgrees, CountsLeft, InRootMapping, InRoot, Outside,
        InPool, InSequence
  <2>2. CASE InRoot(open, "key") /\ e.type = "Scalar" /\ InRoot(open', "value")
    <3>1. check.count[1] = 0
      BY <1>4, <2>2 DEF ValidatorInv, ValidatorAgrees, InRoot, Outside, InPool, InSequence
    <3>2. /\ check'.depth = 1 /\ check'.seq = check.seq
          /\ check'.count[1] = 1 /\ check'.count[2] = check.count[2]
      BY <1>2, <2>1, <2>2, <3>1, CountedFields
    <3>3. QED
      BY <2>1, <2>2, <3>2
      DEF ValidatorInv, ValidatorAgrees, CountsLeft, InRoot, Outside
  <2>3. CASE InRoot(open, "key") /\ e.type = "MappingEnd" /\ Outside(open')
             /\ open'[1] = "stream"
    <3>1. check.count[1] = 0
      BY <1>4, <2>3 DEF ValidatorInv, ValidatorAgrees, InRoot, Outside, InPool, InSequence
    <3>2. /\ check'.depth = 0 /\ ~check'.seq
          /\ check'.count[1] = 0 /\ check'.count[2] = check.count[2]
      BY <1>2, <2>1, <2>3, <3>1, CountedFields
    <3>3. QED
      BY <2>1, <2>3, <3>2 DEF ValidatorInv, ValidatorAgrees, CountsLeft
  <2>4. CASE InRoot(open, "value") /\ e.type = "MappingStart" /\ InPool(open', "key")
    <3>1. /\ check'.depth = 2 /\ check'.count = check.count
      BY <1>2, <2>1, <2>4, CountedFields
    <3>2. QED
      BY <2>1, <2>4, <3>1
      DEF ValidatorInv, ValidatorAgrees, CountsLeft, InRootMapping, InRoot, InPool, Outside
  <2>5. QED
    BY <1>1, <1>4, <2>2, <2>3, <2>4, MoveInRoot
<1>5. CASE Len(open) > 3
  <2>1. check.depth = 2
    <3>1. ~Outside(open) /\ ~InRootMapping(open)
      <4>1. ASSUME Len(open) = 1 PROVE FALSE
        BY <1>1, <1>5, <4>1
      <4>2. ASSUME Len(open) = 2 PROVE FALSE
        BY <1>1, <1>5, <4>2
      <4>3. ASSUME Len(open) = 3 PROVE FALSE
        BY <1>1, <1>5, <4>3
      <4>4. QED
        BY <4>1, <4>2, <4>3 DEF Outside, InRootMapping, InRoot
    <3>2. QED
      BY <3>1 DEF ValidatorInv, ValidatorAgrees, InRootMapping
  <2>2. CASE InPool(open, "key") /\ e.type = "Scalar" /\ InPool(open', "value")
    <3>1. check.count[2] \in {0, 2}
      BY <2>2 DEF ValidatorInv, ValidatorAgrees, InRoot, Outside, InPool, InSequence
    <3>2. check'.depth = 2 /\ check'.count[2] = 1
      BY <1>2, <2>1, <2>2, <3>1, CountedFields
    <3>3. QED
      BY <2>2, <3>2
      DEF ValidatorInv, ValidatorAgrees, CountsLeft, InRootMapping, InRoot, InPool, Outside
  <2>3. CASE InPool(open, "key") /\ e.type = "MappingEnd" /\ InRoot(open', "key")
    <3>1. check.count[2] \in {0, 2}
      BY <2>3 DEF ValidatorInv, ValidatorAgrees, InRoot, Outside, InPool, InSequence
    <3>2. /\ check'.depth = 1 /\ ~check'.seq
          /\ check'.count[1] = 0 /\ check'.count[2] = check.count[2]
      BY <1>2, <2>1, <2>3, CountedFields
    <3>3. QED
      BY <2>3, <3>1, <3>2
      DEF ValidatorInv, ValidatorAgrees, CountsLeft, InRootMapping, InRoot, InPool, Outside
  <2>4. CASE InPool(open, "value") /\ e.type = "Scalar" /\ InPool(open', "key")
    <3>1. check.count[2] = 1
      BY <2>4 DEF ValidatorInv, ValidatorAgrees, InRoot, Outside, InPool, InSequence
    <3>2. check'.depth = 2 /\ check'.count[2] = 2
      BY <1>2, <2>1, <2>4, <3>1, CountedFields
    <3>3. QED
      BY <2>4, <3>2
      DEF ValidatorInv, ValidatorAgrees, CountsLeft, InRootMapping, InRoot, InPool, Outside
  <2>5. CASE e.type = "SequenceStart" /\ InSequence(open')
    <3>1. check'.depth = 2 /\ check'.seq
      BY <1>2, <2>1, <2>5, CountedFields
    <3>2. QED
      BY <2>5, <3>1
      DEF ValidatorInv, ValidatorAgrees, CountsLeft, InRootMapping, InRoot, InSequence, Outside
  <2>6. CASE InSequence(open) /\ e.type = "Scalar" /\ InSequence(open')
    <3>1. check.seq
      BY <2>6 DEF ValidatorInv, ValidatorAgrees, InRoot, Outside, InPool, InSequence
    <3>2. check'.depth = 2 /\ check'.seq
      BY <1>2, <2>1, <2>6, <3>1, CountedFields
    <3>3. QED
      BY <2>6, <3>2
      DEF ValidatorInv, ValidatorAgrees, CountsLeft, InRootMapping, InRoot, InSequence, Outside
  <2>7. CASE e.type = "SequenceEnd" /\ InPool(open', "key")
    <3>1. check'.depth = 2 /\ check'.count[2] = 0
      BY <1>2, <2>1, <2>7, CountedFields
    <3>2. QED
      BY <2>7, <3>1
      DEF ValidatorInv, ValidatorAgrees, CountsLeft, InRootMapping, InRoot, InPool, Outside
  <2>8. QED
    BY <1>1, <1>5, <2>2, <2>3, <2>4, <2>5, <2>6, <2>7, MoveInPool
<1>6. Len(open) \in {1, 2} \/ Len(open) = 3 \/ Len(open) > 3
  <2>1. PICK n \in Nat : n = Len(open) /\ n > 0
    BY <1>1 DEF TypeInv, TypeOK
  <2>2. n \in {1, 2} \/ n = 3 \/ n > 3
    BY <2>1
  <2>3. QED
    BY <2>1, <2>2
<1>7. QED
  BY <1>1, <1>3, <1>4, <1>5, <1>6

-----------------------------------------------------------------------------
(***************************************************************************)
(* What the structure pass leaves to the parse pass: a walk through the    *)
(* file's events, from the initial stack, on which every event is placed.  *)
(***************************************************************************)
Walk(file, t, n) ==
  /\ n \in 0 .. Len(file.events)
  /\ t \in [0 .. n -> Seq(YamlState)]
  /\ t[0] = InitialStack
  /\ \A i \in 0 .. n - 1 :
       /\ Top(t[i]) # "done"
       /\ Accepts(t[i], file.events[i + 1])
       /\ Placed(t[i], file.events[i + 1])
       /\ t[i + 1] = NextStack(t[i], file.events[i + 1])

\* The file can be walked as far as the current pass has read it.
WalkedSoFar == \E t : Walk(disk, t, pos) /\ t[pos] = open

\* The file can be walked to its end, and the current pass is on the way.
SoundFile == \E n : \E t : Walk(disk, t, n) /\ t[n] = <<"done">>

OnSoundWalk ==
  \E n : \E t : /\ Walk(disk, t, n) /\ t[n] = <<"done">>
               /\ pos <= n /\ t[pos] = open

\* conf_validate_structure's walk begins at the file's first event.
LEMMA WalkBegins ==
  ASSUME TypeInv', pos' = 0, open' = InitialStack
  PROVE  WalkedSoFar'
<1> DEFINE t == [i \in 0 .. 0 |-> InitialStack]
<1>1. InitialStack \in Seq(YamlState)
  BY InitialStackNested DEF Nested
<1>2. disk' \in Files /\ disk'.events \in Seq(Event)
  BY FilesAssumption DEF TypeInv, TypeOK
<1>3. Walk(disk', t, 0)
  BY <1>1, <1>2 DEF Walk
<1>4. t[0] = open'
  OBVIOUS
<1>5. QED
  BY <1>3, <1>4 DEF WalkedSoFar

\* And it goes on with every event that the check does not refuse.
LEMMA WalkGoesOn ==
  ASSUME TypeInv, TypeInv', WalkedSoFar, Fetch, Top(open) # "done", disk' = disk,
         Placed(open, NextEvent)
  PROVE  WalkedSoFar'
<1>1. /\ disk.events \in Seq(Event) /\ pos \in Nat /\ pos < Len(disk.events)
      /\ NextEvent = disk.events[pos + 1] /\ Accepts(open, NextEvent)
      /\ pos' = pos + 1 /\ open' = NextStack(open, NextEvent)
      /\ open' \in Seq(YamlState)
  BY FilesAssumption DEF TypeInv, TypeOK, Fetch, CanRead, NextEvent, EventAt
<1>2. PICK t : Walk(disk, t, pos) /\ t[pos] = open
  BY DEF WalkedSoFar
<1> DEFINE u == [i \in 0 .. pos + 1 |-> IF i = pos + 1 THEN open' ELSE t[i]]
<1>3. /\ u[pos + 1] = open'
      /\ \A i \in 0 .. pos : u[i] = t[i]
      /\ u \in [0 .. pos + 1 -> Seq(YamlState)]
  BY <1>1, <1>2 DEF Walk
<1>4. u[0] = InitialStack
  BY <1>1, <1>2, <1>3 DEF Walk
<1>5. ASSUME NEW i \in 0 .. (pos + 1) - 1
      PROVE  /\ Top(u[i]) # "done"
             /\ Accepts(u[i], disk.events[i + 1])
             /\ Placed(u[i], disk.events[i + 1])
             /\ u[i + 1] = NextStack(u[i], disk.events[i + 1])
  <2> HIDE DEF u
  <2>1. CASE i = pos
    BY <1>1, <1>2, <1>3, <2>1
  <2>2. CASE i # pos
    <3>1. i \in 0 .. pos - 1 /\ i \in 0 .. pos /\ i + 1 \in 0 .. pos
      BY <1>1, <2>2
    <3>2. u[i] = t[i] /\ u[i + 1] = t[i + 1]
      BY <1>3, <3>1
    <3>3. QED
      BY <1>2, <3>1, <3>2 DEF Walk
  <2>3. QED
    BY <2>1, <2>2
<1>6. pos + 1 \in 0 .. Len(disk.events)
  BY <1>1
<1>7. Walk(disk, u, pos + 1)
  BY <1>3, <1>4, <1>5, <1>6 DEF Walk
<1>8. QED
  BY <1>1, <1>3, <1>7 DEF WalkedSoFar

\* Any walk of a sound file starts where a pass starts, and follows it.
LEMMA SoundWalkBegins ==
  ASSUME SoundFile, disk' = disk, pos' = 0, open' = InitialStack
  PROVE  OnSoundWalk'
<1>1. PICK n : \E t : Walk(disk, t, n) /\ t[n] = <<"done">>
  BY DEF SoundFile
<1>2. PICK t : Walk(disk, t, n) /\ t[n] = <<"done">>
  BY <1>1
<1>3. 0 <= n /\ t[0] = InitialStack
  BY <1>2 DEF Walk
<1>4. QED
  BY <1>2, <1>3 DEF OnSoundWalk

\* The parser, on a file whose walk was completed, repeats that walk.
LEMMA SoundWalkGoesOn ==
  ASSUME TypeInv, OnSoundWalk, Fetch, disk' = disk
  PROVE  /\ OnSoundWalk'
         /\ \/ open = <<"done">> /\ open' = open /\ NextEvent.type = "None"
            \/ Placed(open, NextEvent) /\ Accepts(open, NextEvent)
<1>1. disk.events \in Seq(Event) /\ pos \in Nat
  BY FilesAssumption DEF TypeInv, TypeOK
<1>2. PICK n : \E t : /\ Walk(disk, t, n) /\ t[n] = <<"done">>
                      /\ pos <= n /\ t[pos] = open
  BY DEF OnSoundWalk
<1>3. PICK t : /\ Walk(disk, t, n) /\ t[n] = <<"done">>
               /\ pos <= n /\ t[pos] = open
  BY <1>2
<1>4. n \in Nat
  BY <1>1, <1>3 DEF Walk
<1>5. CASE pos = n
  <2>1. open = <<"done">> /\ Top(open) = "done"
    BY <1>3, <1>5, SMTT(20) DEF Top
  <2>2. NextEvent.type = "None" /\ pos' = pos /\ open' = open
    BY <2>1 DEF Fetch, NextEvent, EventAt, NoEvent, NextStack
  <2>3. OnSoundWalk'
    BY <1>3, <2>2 DEF OnSoundWalk
  <2>4. QED
    BY <2>1, <2>2, <2>3
<1>6. CASE pos < n
  <2>1. pos \in 0 .. n - 1
    BY <1>1, <1>4, <1>6
  <2>2. /\ Top(open) # "done"
        /\ Accepts(open, disk.events[pos + 1])
        /\ Placed(open, disk.events[pos + 1])
        /\ t[pos + 1] = NextStack(open, disk.events[pos + 1])
    BY <1>3, <2>1 DEF Walk
  <2>3. NextEvent = disk.events[pos + 1] /\ pos' = pos + 1 /\ open' = t[pos + 1]
    BY <2>2 DEF Fetch, NextEvent, EventAt
  <2>4. pos + 1 <= n
    BY <1>1, <1>4, <1>6
  <2>5. OnSoundWalk'
    BY <1>3, <2>3, <2>4 DEF OnSoundWalk
  <2>6. QED
    BY <2>2, <2>3, <2>5
<1>7. QED
  BY <1>1, <1>3, <1>4, <1>5, <1>6

-----------------------------------------------------------------------------
(***************************************************************************)
(* conf_parse_core on a sound file.                                        *)
(***************************************************************************)

\* It is at one of its five positions, and a value has a pool to go to.
ParserInv == ParserAgrees /\ (Len(arg) > 0 => data # NULL)

\* Where each event that may come takes libyaml.
Turns ==
  \/ InRoot(open, "key") /\ NextEvent.type = "Scalar" /\ InRoot(open', "value")
  \/ InRoot(open, "key") /\ NextEvent.type = "MappingEnd" /\ Outside(open')
  \/ InRoot(open, "value") /\ NextEvent.type = "MappingStart" /\ InPool(open', "key")
  \/ InPool(open, "key") /\ NextEvent.type = "Scalar" /\ InPool(open', "value")
  \/ InPool(open, "key") /\ NextEvent.type = "MappingEnd" /\ InRoot(open', "key")
  \/ InPool(open, "value") /\ NextEvent.type = "Scalar" /\ InPool(open', "key")
  \/ InPool(open, "value") /\ NextEvent.type = "SequenceStart" /\ InSequence(open')
  \/ InSequence(open) /\ NextEvent.type = "Scalar" /\ InSequence(open')
  \/ InSequence(open) /\ NextEvent.type = "SequenceEnd" /\ InPool(open', "key")

\* The turns of the parser that a sound file allows, by where the event is.
LEMMA ParserTurns ==
  ASSUME TypeInv, ParserAgrees, Fetch, Placed(open, NextEvent)
  PROVE  Turns
<1>1. NextEvent \in Event /\ Nested(open) /\ open' = NextStack(open, NextEvent)
  BY FetchTyped DEF TypeInv, Fetch
<1>2. CASE Len(open) = 3
  BY <1>1, <1>2, MoveInRoot DEF Turns
<1>3. CASE Len(open) > 3
  BY <1>1, <1>3, MoveInPool DEF Turns
<1>4. PICK n \in {3, 4, 5} : n = Len(open)
  BY DEF ParserAgrees, InRoot, InPool, InSequence
<1>5. n = 3 \/ n > 3
  OBVIOUS
<1>6. QED
  BY <1>2, <1>3, <1>4, <1>5

\* The argument stack without its last scalar, and without none.
LEMMA Popped ==
  ASSUME NEW s \in Seq(Scalar), Len(s) > 0
  PROVE  /\ SubSeq(s, 1, Len(s) - 1) \in Seq(Scalar)
         /\ Len(SubSeq(s, 1, Len(s) - 1)) = Len(s) - 1
         /\ Len(SubSeq(s, 1, Len(s))) = Len(s)
<1>1. PICK n \in Nat : n = Len(s) /\ n > 0
  OBVIOUS
<1>2. Len(SubSeq(s, 1, n)) = n
  BY <1>1
<1>3. SubSeq(s, 1, n - 1) \in Seq(Scalar) /\ Len(SubSeq(s, 1, n - 1)) = n - 1
  BY <1>1
<1>4. QED
  BY <1>1, <1>2, <1>3

\* The five positions exclude one another.
LEMMA Positions ==
  ASSUME ParserAgrees, TypeInv
  PROVE  /\ InRoot(open, "key") => depth = 1 /\ ~seq /\ Len(arg) = 0
         /\ InRoot(open, "value") => depth = 1 /\ ~seq /\ Len(arg) = 1
         /\ InPool(open, "key") => depth = 2 /\ ~seq /\ Len(arg) = 1
         /\ InPool(open, "value") => depth = 2 /\ ~seq /\ Len(arg) = 2
         /\ InSequence(open) => depth = 2 /\ seq /\ Len(arg) = 2
BY DEF ParserAgrees, InRoot, InPool, InSequence

\* A turn of conf_parse_core on a sound file keeps the parser in step, and
\* writes nowhere it should not.
LEMMA ParserStep ==
  ASSUME TypeInv, TypeInv', DataFresh, phase = "core", ParserInv,
         outcome = "running",
         Fetch => Placed(open, NextEvent),
         CoreEvent
  PROVE  /\ phase' = "core" => ParserInv'
         /\ outcome' # "wild"
<1> USE DEF Goto, Error, Undefined, reader, flags, result
<1>1. /\ arg \in Seq(Scalar) /\ Len(arg) \in Nat /\ data = data
      /\ (Len(arg) = 0 => arg = <<>>) /\ (Len(arg) # 0 => arg # <<>>)
  BY DEF TypeInv, TypeOK
<1>2. Fetch => Turns
  BY ParserTurns DEF ParserInv
<1>3. ParserAgrees /\ (Len(arg) > 0 => data # NULL)
  BY DEF ParserInv
<1>4. Len(arg) > 0 =>
        /\ SubSeq(arg, 1, Len(arg) - 1) \in Seq(Scalar)
        /\ Len(SubSeq(arg, 1, Len(arg) - 1)) = Len(arg) - 1
        /\ Len(SubSeq(arg, 1, Len(arg))) = Len(arg)
  BY <1>1, Popped
<1>5. CASE CoreFetchFails \/ CoreScalarNoMemory
  BY <1>5 DEF CoreFetchFails, CoreScalarNoMemory
<1>6. CASE CoreMappingStart
  <2>1. InRoot(open, "value") /\ InPool(open', "key") /\ depth = 1 /\ ~seq /\ Len(arg) = 1
    BY <1>2, <1>3, <1>6, Positions DEF CoreMappingStart, CoreFetch, Turns
  <2>2. QED
    BY <1>3, <1>6, <2>1 DEF CoreMappingStart, ParserInv, ParserAgrees
<1>7. CASE CoreMappingEnd
  <2>1. Turns /\ NextEvent.type = "MappingEnd"
    BY <1>2, <1>7 DEF CoreMappingEnd, CoreFetch
  <2>2. CASE InRoot(open, "key")
    BY <1>3, <1>7, <2>2, Positions DEF CoreMappingEnd
  <2>3. CASE InPool(open, "key") /\ InRoot(open', "key")
    <3>1. depth = 2 /\ ~seq /\ Len(arg) = 1 /\ PopScalar /\ arg # <<>>
      BY <1>1, <1>3, <1>7, <2>3, Positions DEF CoreMappingEnd
    <3>2. Len(arg') = 0 /\ depth' = 1 /\ ~seq' /\ outcome' = outcome
      BY <1>4, <1>7, <3>1 DEF CoreMappingEnd, PopScalar
    <3>3. QED
      BY <2>3, <3>2 DEF ParserInv, ParserAgrees
  <2>4. QED
    BY <2>1, <2>2, <2>3 DEF Turns
<1>8. CASE CoreSequenceStart
  <2>1. InPool(open, "value") /\ InSequence(open') /\ depth = 2 /\ Len(arg) = 2
    BY <1>2, <1>3, <1>8, Positions DEF CoreSequenceStart, CoreFetch, Turns
  <2>2. QED
    BY <1>3, <1>8, <2>1 DEF CoreSequenceStart, ParserInv, ParserAgrees
<1>9. CASE CoreSequenceEnd
  <2>1. InSequence(open) /\ InPool(open', "key") /\ depth = 2 /\ Len(arg) = 2
        /\ PopScalar /\ arg # <<>>
    BY <1>1, <1>2, <1>3, <1>9, Positions DEF CoreSequenceEnd, CoreFetch, Turns
  <2>2. Len(arg') = 1 /\ depth' = 2 /\ ~seq' /\ outcome' = outcome /\ data' = data
    BY <1>4, <1>9, <2>1 DEF CoreSequenceEnd, PopScalar
  <2>3. QED
    BY <1>3, <2>1, <2>2 DEF ParserInv, ParserAgrees
<1>10. CASE CoreOther
  BY <1>2, <1>10 DEF CoreOther, Turns
<1>11. CASE CoreKey
  <2>1. Turns /\ NextEvent.type = "Scalar" /\ ~StartsPool /\ ~IsLeaf
    BY <1>2, <1>11 DEF CoreKey, CoreFetch
  <2>2. InPool(open, "key") /\ InPool(open', "value")
        /\ depth = 2 /\ ~seq /\ Len(arg) = 1
    BY <1>3, <2>1, Positions DEF Turns, StartsPool, IsLeaf
  <2>3. Len(arg') = 2
    <3>1. NextEvent.value \in Scalar /\ arg' = Append(arg, NextEvent.value)
      BY <1>11, FetchTyped DEF CoreKey, CoreFetch, Event
    <3>2. Len(arg') = Len(arg) + 1
      BY <1>1, <3>1
    <3>3. QED
      BY <2>2, <3>2
  <2>4. QED
    BY <1>3, <1>11, <2>2, <2>3 DEF CoreKey, ParserInv, ParserAgrees
<1>12. CASE CorePoolName
  <2>1. Turns /\ NextEvent.type = "Scalar" /\ StartsPool
    BY <1>2, <1>12 DEF CorePoolName, CoreFetch
  <2>2. InRoot(open, "key") /\ InRoot(open', "value")
        /\ depth = 1 /\ ~seq /\ Len(arg) = 0 /\ arg = <<>>
    BY <1>1, <1>3, <2>1, Positions DEF Turns, StartsPool
  <2>3. Len(arg') = 1 /\ depth' = 1 /\ ~seq' /\ outcome' = outcome
    BY <1>1, <1>12, <2>2 DEF CorePoolName
  <2>4. phase' = "core" => data' # NULL
    <3>1. phase' = "core" => \E a \in Grown : data' = PushedAt(a)
      BY <1>12 DEF CorePoolName
    <3>2. \A a \in Grown : PushedAt(a) \in [idx : Nat, at : Nat]
      <4>1. alloc \in [n : Nat \ {0}, moves : Nat] /\ Len(pool) \in Nat
        BY DEF TypeInv, TypeOK
      <4>2. \A a \in Grown : a.moves \in Nat
        BY <4>1 DEF Grown
      <4>3. QED
        BY <4>1, <4>2 DEF PushedAt
    <3>3. QED
      BY <3>1, <3>2, ConstantsAssumption
  <2>5. QED
    BY <2>2, <2>3, <2>4 DEF ParserInv, ParserAgrees
<1>13. CASE CoreLeaf
  <2>1. Turns /\ NextEvent.type = "Scalar" /\ ~StartsPool /\ IsLeaf
    BY <1>2, <1>13 DEF CoreLeaf, CoreFetch
  <2>2. \/ /\ InPool(open, "value") /\ InPool(open', "key")
           /\ depth = 2 /\ ~seq /\ Len(arg) = 2
        \/ /\ InSequence(open) /\ InSequence(open')
           /\ depth = 2 /\ seq /\ Len(arg) = 2
    BY <1>3, <2>1, Positions DEF Turns, StartsPool, IsLeaf
  <2>3. arg # <<>> /\ ~Dangling
    <3>1. PICK n \in {2} : n = Len(arg)
      BY <2>2
    <3>2. Len(arg) # 0 /\ Len(arg) > 0
      BY <3>1
    <3>3. QED
      BY <1>1, <1>3, <3>2 DEF Dangling, DataFresh
  <2>4. HandleValue(arg[Len(arg)], NextEvent.value)
    BY <1>13, <2>3 DEF CoreLeaf
  <2>5. outcome' # "wild" /\ (phase' = "core" => PopLeaf)
    BY <2>3, <2>4 DEF HandleValue
  <2>6. depth' = depth /\ seq' = seq /\ data' = data
    BY <1>13 DEF CoreLeaf
  <2>7. PopLeaf => Len(arg') = IF seq THEN 2 ELSE 1
    <3>1. Len(arg) > 0 /\ Len(arg) = 2
      <4>1. PICK n \in {2} : n = Len(arg)
        BY <2>2
      <4>2. QED
        BY <4>1
    <3>2. CASE seq
      BY <1>4, <3>1, <3>2 DEF PopLeaf
    <3>3. CASE ~seq
      BY <1>4, <3>1, <3>3 DEF PopLeaf
    <3>4. QED
      BY <3>2, <3>3
  <2>8. QED
    BY <1>3, <2>2, <2>5, <2>6, <2>7 DEF ParserInv, ParserAgrees
<1>14. QED
  BY <1>5, <1>6, <1>7, <1>8, <1>9, <1>10, <1>11, <1>12, <1>13 DEF CoreEvent

-----------------------------------------------------------------------------
(***************************************************************************)
(* What holds of the loader even while the file is rewritten.              *)
(***************************************************************************)
Early == {"open", "document", "tokens", "structure", "structure_events", "parse", "begin"}

Named == \A i \in DOMAIN pool : pool[i].name # NULL

LoaderInv ==
  /\ phase \in Early => depth = 0 /\ ~seq /\ arg = <<>> /\ pool = <<>> /\ data = NULL
  /\ DataFresh
  /\ phase # "over" => outcome = "running"
  /\ phase \in {"core", "end", "post"} => Named
  /\ phase = "post" => sound /\ parsed /\ ~parser /\ depth = 0
  /\ LoadedIsComplete

\* conf_pool_init keeps the name it is given.
LEMMA InitialPoolNamed ==
  ASSUME NEW name \in Scalar
  PROVE  InitialPool(name).name # NULL
BY ConstantsAssumption DEF InitialPool

\* LoaderInv holds when conf_create is called.
LEMMA LoaderInit ==
  ASSUME Init
  PROVE  LoaderInv
BY DEF Init, LoaderInv, Early, DataFresh, LoadedIsComplete

\* A turn of conf_parse_core keeps LoaderInv, whatever the file holds.
LEMMA LoaderCore ==
  ASSUME TypeInv, TypeInv', LoaderInv, CoreEvent
  PROVE  LoaderInv'
<1> USE DEF Goto, Error, Undefined, reader, flags, result
<1>1. /\ phase = "core" /\ outcome = "running" /\ Named
      /\ phase' \in {"core", "end", "destroy", "over"}
      /\ (phase' # "over" => outcome' = "running") /\ outcome' # "loaded"
  BY DEF LoaderInv, CoreEvent, CoreFetch, CoreFetchFails, CoreMappingStart, CoreMappingEnd,
         CoreSequenceStart, CoreSequenceEnd, CoreOther, CoreScalarNoMemory, CoreKey,
         CorePoolName, CoreLeaf, PopScalar, HandleName, HandleValue
<1>2. pool \in Seq(ConfPool) /\ pool' \in Seq(ConfPool) /\ DataFresh
  BY DEF TypeInv, TypeOK, LoaderInv
<1>3. NextEvent.value \in Scalar \/ ~Fetch
  BY FetchTyped DEF Event
<1>4. CASE CorePoolName
  <2>1. phase' = "core" =>
          /\ pool' = Append(pool, InitialPool(NextEvent.value)) /\ NextEvent.value \in Scalar
          /\ alloc' \in Grown /\ data' = PushedAt(alloc')
    BY <1>3, <1>4 DEF CorePoolName, CoreFetch
  <2>2. phase' \in {"core", "destroy", "over"}
    BY <1>1, <1>4 DEF CorePoolName
  <2>3. phase' = "core" => DataFresh' /\ Named'
    <3> SUFFICES ASSUME phase' = "core" PROVE DataFresh' /\ Named'
      OBVIOUS
    <3>1. InitialPool(NextEvent.value) \in ConfPool
      BY <2>1, InitialPoolTyped
    <3>2. Len(pool') = Len(pool) + 1
          /\ \A i \in DOMAIN pool' :
               pool'[i] = IF i = Len(pool) + 1 THEN InitialPool(NextEvent.value) ELSE pool[i]
      BY <1>2, <2>1, <3>1
    <3>3. Named'
      BY <1>1, <1>2, <2>1, <3>2, InitialPoolNamed DEF Named
    <3>4. DataFresh'
      BY <2>1, <3>2 DEF DataFresh, PushedAt
    <3>5. QED
      BY <3>3, <3>4
  <2>4. QED
    BY <1>1, <2>2, <2>3 DEF LoaderInv, Early, DataFresh, LoadedIsComplete
<1>5. CASE CoreLeaf
  <2>1. data' = data /\ alloc' = alloc
    BY <1>5 DEF CoreLeaf
  <2>2. phase' = "core" =>
          \/ pool' = [pool EXCEPT ![data.idx] = InitialPool(NextEvent.value)]
          \/ \E key \in Directives :
               pool' = [pool EXCEPT ![data.idx] =
                          SetField(pool[data.idx], key, NextEvent.value)]
    BY <1>1, <1>5 DEF CoreLeaf, HandleName, HandleValue
  <2>3. phase' = "core" => Len(pool') = Len(pool)
    BY <1>2, <2>2
  <2>4. phase' = "core" => Named'
    <3>1. \A key : SetField(pool[data.idx], key, NextEvent.value).name = pool[data.idx].name
      BY DEF SetField
    <3>2. InitialPool(NextEvent.value).name # NULL
      BY <1>3, <1>5, InitialPoolNamed DEF CoreLeaf, CoreFetch
    <3>3. QED
      BY <1>1, <1>2, <2>2, <3>1, <3>2 DEF Named
  <2>5. phase' \in {"core", "destroy", "over"}
    BY <1>1, <1>5 DEF CoreLeaf, HandleName, HandleValue
  <2>6. QED
    BY <1>1, <1>2, <2>1, <2>3, <2>4, <2>5 DEF LoaderInv, Early, DataFresh, LoadedIsComplete
<1>6. CASE ~CorePoolName /\ ~CoreLeaf
  <2>1. pool' = pool /\ alloc' = alloc /\ data' = data
    BY <1>6 DEF CoreEvent, CoreFetch, CoreFetchFails, CoreMappingStart, CoreMappingEnd,
         CoreSequenceStart, CoreSequenceEnd, CoreOther, CoreScalarNoMemory, CoreKey
  <2>2. QED
    BY <1>1, <1>2, <2>1 DEF LoaderInv, Early, DataFresh, LoadedIsComplete, Named
<1>7. QED
  BY <1>4, <1>5, <1>6

\* Every step keeps LoaderInv.
LEMMA LoaderStep ==
  ASSUME TypeInv, TypeInv', LoaderInv, [Next]_vars
  PROVE  LoaderInv'
<1> USE DEF Goto, Error, Undefined, reader, flags, result, LoaderInv, Early, Named,
            DataFresh, LoadedIsComplete
<1>1. CASE Open
  BY <1>1 DEF Open
<1>2. CASE ValidateDocument
  BY <1>2 DEF ValidateDocument
<1>3. CASE ValidateTokens
  BY <1>3 DEF ValidateTokens
<1>4. CASE StructureBegin
  BY <1>4 DEF StructureBegin
<1>5. CASE StructureEvent
  BY <1>5 DEF StructureEvent
<1>6. CASE ParseBegin
  BY <1>6 DEF ParseBegin
<1>7. CASE BeginEvent
  BY <1>7 DEF BeginEvent
<1>8. CASE CoreEvent
  BY <1>8, LoaderCore
<1>9. CASE EndEvent
  BY <1>9 DEF EndEvent
<1>10. CASE PostValidate
  <2>1. pool \in Seq(ConfPool)
    BY DEF TypeInv, TypeOK
  <2>2. CASE outcome' = "loaded"
    <3>1. /\ sound /\ parsed /\ ~parser /\ depth = 0 /\ Named
          /\ pool # <<>> /\ phase' = "over"
          /\ pool' = [i \in 1 .. Len(pool) |-> ValidatedPool(pool[i])]
      BY <1>10, <2>2 DEF PostValidate
    <3>2. /\ Len(pool) \in Nat \ {0} /\ DOMAIN pool' = 1 .. Len(pool)
          /\ DOMAIN pool = 1 .. Len(pool)
      BY <2>1, <3>1
    <3>3. ASSUME NEW i \in 1 .. Len(pool)
          PROVE  pool'[i].name # NULL /\ pool'[i].valid
      <4>1. pool'[i] = ValidatedPool(pool[i]) /\ pool[i] \in ConfPool /\ pool[i].name # NULL
        BY <2>1, <3>1, <3>2, <3>3
      <4>2. QED
        BY <4>1 DEF ValidatedPool, ConfPool
    <3>4. pool' # <<>>
      BY <3>1, <3>2
    <3>5. QED
      BY <1>10, <3>1, <3>2, <3>3, <3>4 DEF PostValidate
  <2>3. CASE outcome' # "loaded"
    BY <1>10, <2>3 DEF PostValidate
  <2>4. QED
    BY <2>2, <2>3
<1>11. CASE Destroy
  BY <1>11 DEF Destroy
<1>12. CASE EditFile
  BY <1>12 DEF EditFile
<1>13. CASE UNCHANGED vars
  BY <1>13 DEF vars
<1>14. QED
  BY <1>1, <1>2, <1>3, <1>4, <1>5, <1>6, <1>7, <1>8, <1>9, <1>10, <1>11, <1>12, <1>13
  DEF Next, Load, Over

-----------------------------------------------------------------------------
(***************************************************************************)
(* What holds of the loader as long as all passes read the same file.      *)
(***************************************************************************)
SafeInv ==
  /\ phase \in {"structure", "structure_events"} => TokensAllowed(disk)
  /\ phase = "structure_events" => ValidatorInv /\ open[1] # "done" /\ WalkedSoFar
  /\ phase = "parse" => SoundFile
  /\ phase \in {"begin", "core"} => OnSoundWalk
  /\ phase = "begin" => Outside(open)
  /\ phase = "core" => ParserInv
  /\ outcome # "wild"

IInv == TypeInv /\ LoaderInv /\ (Undisturbed => SafeInv)

\* conf_validate_structure, one event at a time.
LEMMA SafeStructure ==
  ASSUME TypeInv, TypeInv', LoaderInv, SafeInv, StructureBegin \/ StructureEvent
  PROVE  SafeInv'
<1> USE DEF Goto, Error, reader, flags, result
<1>1. CASE StructureBegin
  <2>1. phase = "structure" /\ disk' = disk /\ outcome' = outcome
        /\ phase' \in {"structure_events", "destroy"}
    BY <1>1 DEF StructureBegin
  <2>2. ASSUME phase' = "structure_events"
        PROVE  ValidatorInv' /\ open'[1] # "done" /\ WalkedSoFar'
    <3>1. /\ pos' = 0 /\ open' = InitialStack
          /\ check' = [depth |-> 0, seq |-> FALSE,
                       count |-> [d \in 0 .. CONF_MAX_DEPTH |-> 0]]
      BY <1>1, <2>2 DEF StructureBegin, YamlInit
    <3>2. Outside(open') /\ open'[1] # "done"
      BY <3>1 DEF Outside, InitialStack
    <3>3. check'.depth = 0 /\ ~check'.seq /\ check'.count[1] = 0 /\ check'.count[2] = 0
      BY <3>1
    <3>4. QED
      BY <3>1, <3>2, <3>3, WalkBegins DEF ValidatorInv, ValidatorAgrees, CountsLeft
  <2>3. QED
    BY <2>1, <2>2 DEF SafeInv
<1>2. CASE StructureEvent
  <2>1. /\ phase = "structure_events" /\ disk' = disk /\ outcome' = outcome
        /\ phase' \in {"structure_events", "parse", "destroy"}
        /\ TokensAllowed(disk) /\ ValidatorInv /\ open[1] # "done" /\ WalkedSoFar
    BY <1>2 DEF StructureEvent, SafeInv
  <2>2. ASSUME phase' # "destroy"
        PROVE  /\ ValidatorInv' /\ WalkedSoFar'
               /\ phase' = "structure_events" => open'[1] # "done"
               /\ phase' = "parse" => SoundFile'
    <3>1. /\ Fetch /\ ~Misplaced(check, NextEvent) /\ check' = Counted(check, NextEvent)
          /\ (NextEvent.type = "StreamEnd") <=> (phase' = "parse")
      BY <1>2, <2>1, <2>2 DEF StructureEvent
    <3>2. NextEvent \in Event /\ Accepts(open, NextEvent) /\ open' = NextStack(open, NextEvent)
      BY <3>1, FetchTyped DEF Fetch
    <3>3. Top(open) # "done"
      BY <2>1 DEF ValidatorInv, ValidatorAgrees, Outside, InRoot, InPool, InSequence, Top
    <3>4. NextEvent.type # "Alias"
      <4>1. /\ pos \in Nat /\ pos < Len(disk.events) /\ NextEvent = disk.events[pos + 1]
            /\ disk.events \in Seq(Event)
        BY <3>1, <3>3, FilesAssumption
        DEF Fetch, CanRead, NextEvent, EventAt, TypeInv, TypeOK
      <4>2. pos + 1 \in 1 .. Len(disk.events)
        BY <4>1
      <4>3. QED
        BY <2>1, <4>1, <4>2 DEF TokensAllowed
    <3>5. Placed(open, NextEvent)
      BY <2>1, <3>1, <3>2, <3>4, NotMisplaced
    <3>6. ValidatorInv' /\ (NextEvent.type # "StreamEnd" => open'[1] # "done")
      BY <2>1, <3>1, <3>2, <3>4, ValidatorStep
    <3>7. WalkedSoFar'
      BY <2>1, <3>1, <3>3, <3>5, WalkGoesOn
    <3>8. ASSUME phase' = "parse" PROVE SoundFile'
      <4>1. open' = <<"done">>
        BY <3>1, <3>2, <3>8 DEF NextStack
      <4>2. QED
        BY <3>7, <4>1 DEF WalkedSoFar, SoundFile
    <3>9. QED
      BY <3>1, <3>6, <3>7, <3>8
  <2>3. QED
    BY <2>1, <2>2 DEF SafeInv
<1>3. QED
  BY <1>1, <1>2

\* conf_parse up to the root mapping.
LEMMA SafeBegin ==
  ASSUME TypeInv, TypeInv', LoaderInv, SafeInv, ParseBegin \/ BeginEvent
  PROVE  SafeInv'
<1> USE DEF Goto, Error, reader, flags, result
<1>1. CASE ParseBegin
  <2>1. phase = "parse" /\ disk' = disk /\ outcome' = outcome /\ SoundFile
        /\ phase' \in {"begin", "destroy"}
    BY <1>1 DEF ParseBegin, SafeInv
  <2>2. ASSUME phase' = "begin"
        PROVE  OnSoundWalk' /\ Outside(open')
    <3>1. pos' = 0 /\ open' = InitialStack
      BY <1>1, <2>2 DEF ParseBegin, YamlInit
    <3>2. QED
      BY <2>1, <3>1, SoundWalkBegins DEF Outside, InitialStack
  <2>3. QED
    BY <2>1, <2>2 DEF SafeInv
<1>2. CASE BeginEvent
  <2>1. phase = "begin" /\ disk' = disk /\ outcome' = outcome
        /\ OnSoundWalk /\ Outside(open)
        /\ depth = 0 /\ ~seq /\ arg = <<>>
        /\ phase' \in {"begin", "core", "destroy"}
    BY <1>2 DEF BeginEvent, SafeInv, LoaderInv, Early
  <2>2. ASSUME phase' # "destroy"
        PROVE  /\ OnSoundWalk'
               /\ phase' = "begin" => Outside(open')
               /\ phase' = "core" => ParserInv'
    <3>1. Fetch /\ ((NextEvent.type = "MappingStart") <=> (phase' = "core"))
          /\ (phase' = "core" => depth' = depth + 1) /\ seq' = seq /\ arg' = arg
      BY <1>2, <2>1, <2>2 DEF BeginEvent
    <3>2. OnSoundWalk'
          /\ \/ open' = open /\ NextEvent.type = "None"
             \/ Placed(open, NextEvent) /\ Accepts(open, NextEvent)
      BY <2>1, <3>1, SoundWalkGoesOn
    <3>3. CASE open' = open /\ NextEvent.type = "None"
      BY <2>1, <3>1, <3>2, <3>3
    <3>4. CASE Placed(open, NextEvent) /\ Accepts(open, NextEvent)
      <4>1. /\ NextEvent \in Event /\ Nested(open)
            /\ open' = NextStack(open, NextEvent)
        BY <3>1, FetchTyped DEF Fetch, TypeInv
      <4>2. /\ NextEvent.type = "MappingStart" => InRoot(open', "key")
            /\ NextEvent.type # "MappingStart" => Outside(open')
        BY <2>1, <3>4, <4>1, MoveOutside
      <4>3. Len(arg') = 0
        BY <2>1, <3>1
      <4>4. QED
        BY <2>1, <3>1, <3>2, <4>2, <4>3 DEF ParserInv, ParserAgrees
    <3>5. QED
      BY <3>2, <3>3, <3>4
  <2>3. QED
    BY <2>1, <2>2 DEF SafeInv
<1>3. QED
  BY <1>1, <1>2

\* conf_parse_core.
LEMMA SafeCore ==
  ASSUME TypeInv, TypeInv', LoaderInv, SafeInv, CoreEvent
  PROVE  SafeInv'
<1>1. /\ phase = "core" /\ disk' = disk
      /\ phase' \in {"core", "end", "destroy", "over"}
      /\ outcome = "running" /\ DataFresh /\ OnSoundWalk /\ ParserInv
  BY DEF LoaderInv, SafeInv, CoreEvent, CoreFetch, CoreFetchFails, CoreMappingStart,
         CoreMappingEnd, CoreSequenceStart, CoreSequenceEnd, CoreOther,
         CoreScalarNoMemory, CoreKey, CorePoolName, CoreLeaf, PopScalar, HandleName,
         HandleValue, Goto, Error, Undefined
<1>2. Fetch => OnSoundWalk' /\ Placed(open, NextEvent)
  <2>1. SUFFICES ASSUME Fetch PROVE OnSoundWalk' /\ Placed(open, NextEvent)
    OBVIOUS
  <2>2. open # <<"done">>
    BY <1>1 DEF ParserInv, ParserAgrees, InRoot, InPool, InSequence
  <2>3. QED
    BY <1>1, <2>1, <2>2, SoundWalkGoesOn
<1>3. /\ phase' = "core" => ParserInv'
      /\ outcome' # "wild"
  BY <1>1, <1>2, ParserStep
<1>4. phase' = "core" => Fetch
  BY <1>1 DEF CoreEvent, CoreFetch, CoreFetchFails, CoreMappingStart,
         CoreMappingEnd, CoreSequenceStart, CoreSequenceEnd, CoreOther,
         CoreScalarNoMemory, CoreKey, CorePoolName, CoreLeaf, Goto, Error
<1>5. QED
  BY <1>1, <1>2, <1>3, <1>4 DEF SafeInv

\* While the file is not rewritten, every step keeps SafeInv.
LEMMA SafeStep ==
  ASSUME TypeInv, TypeInv', LoaderInv, SafeInv, [Next]_vars, ~EditFile
  PROVE  SafeInv'
<1> USE DEF Goto, Error, Undefined, reader, flags, result, SafeInv
<1>1. CASE Open \/ ValidateDocument
  BY <1>1 DEF Open, ValidateDocument
<1>2. CASE ValidateTokens
  BY <1>2 DEF ValidateTokens
<1>3. CASE StructureBegin \/ StructureEvent
  BY <1>3, SafeStructure
<1>4. CASE ParseBegin \/ BeginEvent
  BY <1>4, SafeBegin
<1>5. CASE CoreEvent
  BY <1>5, SafeCore
<1>6. CASE EndEvent
  BY <1>6 DEF EndEvent
<1>7. CASE PostValidate
  BY <1>7 DEF PostValidate
<1>8. CASE Destroy
  BY <1>8 DEF Destroy
<1>9. CASE UNCHANGED vars
  BY <1>9 DEF vars, ValidatorInv, ValidatorAgrees, CountsLeft, WalkedSoFar, OnSoundWalk,
     SoundFile, ParserInv, ParserAgrees
<1>10. QED
  BY <1>1, <1>2, <1>3, <1>4, <1>5, <1>6, <1>7, <1>8, <1>9 DEF Next, Load, Over

\* The inductive invariant holds when conf_create is called.
LEMMA InvInit ==
  ASSUME Init
  PROVE  IInv
BY TypeInit, LoaderInit DEF IInv, SafeInv, Init

\* Every step keeps it.
LEMMA InvStep ==
  ASSUME IInv, [Next]_vars
  PROVE  IInv'
<1>1. TypeInv /\ TypeInv'
  BY TypeStep DEF IInv
<1>2. LoaderInv /\ LoaderInv'
  BY <1>1, LoaderStep DEF IInv
<1>3. ASSUME Undisturbed' PROVE SafeInv'
  <2>1. edits \in Nat
    BY <1>1, ConstantsAssumption DEF TypeInv, TypeOK
  <2>2. ~EditFile
    BY <1>3, <2>1 DEF EditFile, Undisturbed
  <2>3. edits' = edits
    BY <2>2 DEF Next, Load, Over, vars, Open, ValidateDocument, ValidateTokens,
       StructureBegin, StructureEvent, ParseBegin, BeginEvent, CoreEvent, EndEvent,
       PostValidate, Destroy, CoreFetch, CoreFetchFails, CoreMappingStart,
       CoreMappingEnd, CoreSequenceStart, CoreSequenceEnd, CoreOther,
       CoreScalarNoMemory, CoreKey, CorePoolName, CoreLeaf
  <2>4. SafeInv
    BY <1>3, <2>3 DEF IInv, Undisturbed
  <2>5. QED
    BY <1>1, <1>2, <2>2, <2>4, SafeStep
<1>4. QED
  BY <1>1, <1>2, <1>3 DEF IInv

\* So it holds throughout.
LEMMA InvAlways == Spec => []IInv
<1>1. Init => IInv
  BY InvInit
<1>2. IInv /\ [Next]_vars => IInv'
  BY InvStep
<1>3. QED
  BY <1>1, <1>2, PTL DEF Spec

-----------------------------------------------------------------------------
\* For every file: conf_parse_core never pops an empty stack of scalars, never
\* sets a field without a pool and never recurses without end, provided the
\* file it reads is the one conf_pre_validate read.
THEOREM NoWildAccessEver == Spec => []NoWildAccess
<1>1. IInv => NoWildAccess
  BY DEF IInv, SafeInv, NoWildAccess
<1>2. QED
  BY <1>1, InvAlways, PTL

\* conf_validate_structure's depth, counts and seq flag follow the nesting of
\* every file.
THEOREM ValidatorAlwaysInStep == Spec => []ValidatorInStep
<1>1. IInv => ValidatorInStep
  BY DEF IInv, SafeInv, ValidatorInStep, ValidatorInv
<1>2. QED
  BY <1>1, InvAlways, PTL

\* conf_parse_core's depth, seq flag and argument stack follow the nesting of
\* every file that conf_pre_validate lets pass.
THEOREM ParserAlwaysInStep == Spec => []ParserInStep
<1>1. IInv => ParserInStep
  BY DEF IInv, SafeInv, ParserInStep, ParserInv
<1>2. QED
  BY <1>1, InvAlways, PTL

\* The argument array of CONF_DEFAULT_ARGS elements is never grown, so that the
\* pointer conf_push_scalar returns stays valid.
THEOREM ArgAlwaysFits == Spec => []ArgFits
<1>1. IInv => ArgFits
  BY DEF IInv, SafeInv, ArgFits, ParserInv, ParserAgrees
<1>2. QED
  BY <1>1, InvAlways, PTL

\* However often cf->pool is reallocated, the pool pointer that conf_parse_core
\* passes down is the last pool, where it now is.
THEOREM DataAlwaysFresh == Spec => []DataFresh
<1>1. IInv => DataFresh
  BY DEF IInv, LoaderInv
<1>2. QED
  BY <1>1, InvAlways, PTL

\* conf_create hands out only what was parsed to its end and validated, even if
\* the file is rewritten between its passes.
THEOREM LoadedAlwaysComplete == Spec => []LoadedIsComplete
<1>1. IInv => LoadedIsComplete
  BY DEF IInv, LoaderInv
<1>2. QED
  BY <1>1, InvAlways, PTL

-----------------------------------------------------------------------------
\* A pool keeps what was set in it.
FieldsKept(cp, cq) ==
  /\ \A k \in StringDirectives : cp.str[k] # NULL => cq.str[k] = cp.str[k]
  /\ \A k \in NumDirectives : cp.num[k] # CONF_UNSET_NUM => cq.num[k] = cp.num[k]

\* What conf_handler does not reject is a field that was unset.
LEMMA SetFieldKeeps ==
  ASSUME NEW cp \in ConfPool, NEW key \in Directives, NEW value,
         ~Rejected(cp, key, value)
  PROVE  FieldsKept(cp, SetField(cp, key, value))
<1>1. cp.str \in [StringDirectives -> Scalar \cup {NULL}] /\ cp.num \in [NumDirectives -> Int]
  BY DEF ConfPool
<1>2. ~IsSet(cp, key)
  BY DEF Rejected
<1>3. CASE key \in StringDirectives
  <2>1. /\ SetField(cp, key, value).str = [cp.str EXCEPT ![key] = value]
        /\ SetField(cp, key, value).num = cp.num
    BY <1>3 DEF SetField, ConfPool
  <2>2. cp.str[key] = NULL
    BY <1>2, <1>3 DEF IsSet
  <2>3. QED
    BY <1>1, <2>1, <2>2 DEF FieldsKept
<1>4. CASE key \notin StringDirectives
  <2>1. /\ SetField(cp, key, value).num = [cp.num EXCEPT ![key] = Atoi(value)]
        /\ SetField(cp, key, value).str = cp.str
    BY <1>4 DEF SetField, ConfPool
  <2>2. cp.num[key] = CONF_UNSET_NUM
    BY <1>2, <1>4 DEF IsSet
  <2>3. QED
    BY <1>1, <2>1, <2>2 DEF FieldsKept
<1>5. QED
  BY <1>3, <1>4

\* A turn of conf_parse_core on a sound file leaves what was set in a pool.
LEMMA WriteOnceStep ==
  ASSUME IInv, [Next]_vars, Undisturbed, phase = "core", phase' = "core",
         NEW i \in DOMAIN pool
  PROVE  FieldsKept(pool[i], pool'[i])
<1> USE DEF Goto, Error, Undefined, reader, flags, result
<1>1. pool \in Seq(ConfPool) /\ TypeInv /\ ParserInv /\ OnSoundWalk
  BY DEF IInv, SafeInv, TypeInv, TypeOK
<1>2. CASE UNCHANGED pool
  BY <1>2 DEF FieldsKept
<1>3. CASE CorePoolName
  <2>1. pool' = Append(pool, InitialPool(NextEvent.value)) /\ NextEvent.value \in Scalar
    BY <1>3, <1>1, FetchTyped DEF CorePoolName, CoreFetch, Event
  <2>2. InitialPool(NextEvent.value) \in ConfPool
    BY <2>1, InitialPoolTyped
  <2>3. pool'[i] = pool[i]
    BY <1>1, <2>1, <2>2
  <2>4. QED
    BY <2>3 DEF FieldsKept
<1>4. CASE CoreLeaf
  <2>1. Fetch /\ IsLeaf /\ ~StartsPool
    BY <1>4 DEF CoreLeaf, CoreFetch
  <2>2. arg # <<>>
    <3>1. ParserAgrees
      BY <1>1 DEF ParserInv
    <3>2. CASE depth = 1 /\ ~seq
      BY <2>1, <3>2 DEF IsLeaf
    <3>3. CASE Len(arg) \in {1, 2}
      BY <3>3
    <3>4. QED
      BY <3>1, <3>2, <3>3 DEF ParserAgrees
  <2>3. HandleValue(arg[Len(arg)], NextEvent.value)
    BY <1>4, <2>2 DEF CoreLeaf
  <2>4. PICK key \in Directives :
          \/ UNCHANGED pool
          \/ /\ ~Rejected(pool[data.idx], key, NextEvent.value)
             /\ pool' = [pool EXCEPT ![data.idx] =
                          SetField(pool[data.idx], key, NextEvent.value)]
    BY <2>3 DEF HandleValue
  <2>5. CASE i = data.idx /\ ~UNCHANGED pool
    <3>1. pool'[i] = SetField(pool[i], key, NextEvent.value)
          /\ ~Rejected(pool[i], key, NextEvent.value) /\ pool[i] \in ConfPool
      BY <1>1, <2>4, <2>5
    <3>2. QED
      BY <3>1, SetFieldKeeps
  <2>6. CASE i # data.idx /\ ~UNCHANGED pool
    <3>1. pool'[i] = pool[i]
      BY <1>1, <2>4, <2>6
    <3>2. QED
      BY <3>1 DEF FieldsKept
  <2>7. QED
    BY <1>2, <2>5, <2>6
<1>5. CASE [Next]_vars /\ ~CorePoolName /\ ~CoreLeaf
  <2>1. UNCHANGED pool
    BY <1>5 DEF Next, Load, Over, vars, Open, ValidateDocument, ValidateTokens,
       StructureBegin, StructureEvent, ParseBegin, BeginEvent, CoreEvent, EndEvent,
       PostValidate, Destroy, EditFile, CoreFetch, CoreFetchFails, CoreMappingStart,
       CoreMappingEnd, CoreSequenceStart, CoreSequenceEnd, CoreOther,
       CoreScalarNoMemory, CoreKey
  <2>2. QED
    BY <1>2, <2>1
<1>6. QED
  BY <1>3, <1>4, <1>5

\* Whatever the file says twice, a pool's field is set at most once: every
\* further value is refused as a duplicate.
THEOREM FieldsAlwaysWriteOnce == Spec => FieldsWriteOnce
<1>1. IInv /\ [Next]_vars =>
        (Undisturbed /\ phase = "core" /\ phase' = "core" =>
           \A i \in DOMAIN pool :
             /\ \A k \in StringDirectives :
                   pool[i].str[k] # NULL => pool'[i].str[k] = pool[i].str[k]
             /\ \A k \in NumDirectives :
                   pool[i].num[k] # CONF_UNSET_NUM => pool'[i].num[k] = pool[i].num[k])
  BY WriteOnceStep DEF FieldsKept
<1>2. QED
  BY <1>1, InvAlways, PTL DEF Spec, FieldsWriteOnce

=============================================================================
