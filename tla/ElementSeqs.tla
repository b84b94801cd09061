----------------------------- MODULE ElementSeqs -----------------------------
(***************************************************************************)
(* What a client of the dynamic array (xarray.c) counts on: each array is  *)
(* a sequence of elements, and a pointer that the client was given stands  *)
(* for the place of an element until he adds to the sequence or takes from *)
(* it.  What cannot be done for want of memory leaves all as it was.       *)
(***************************************************************************)
EXTENDS Integers, Sequences, FiniteSets

CONSTANTS NULL, Arrays, Values

VARIABLES
  seq,    \* the elements of each array, or NULL if it is not in use
  cursor, \* the place in each array that the client's pointer stands for, or 0
  walk,   \* the array whose elements are visited, and how many have been
  result  \* the element just taken off, or how the visit just ended, or NULL

vars == <<seq, cursor, walk, result>>

IsSorted(s) == \A i, j \in DOMAIN s : i <= j => s[i] <= s[j]

\* A sequence holds each value as often as another of its length.
Reorders(s, t) ==
  \A v \in Values :
    Cardinality({i \in DOMAIN t : s[i] = v}) = Cardinality({i \in DOMAIN t : t[i] = v})

Init ==
  /\ seq = [x \in Arrays |-> NULL]
  /\ cursor = [x \in Arrays |-> 0]
  /\ walk = NULL
  /\ result = NULL

\* Nothing else happens while the elements of an array are visited, except
\* that the visitor may change the one he visits.
Idle == walk = NULL

Start(x) ==
  /\ Idle
  /\ seq[x] = NULL
  /\ seq' = [seq EXCEPT ![x] = <<>>]
  /\ cursor' = [cursor EXCEPT ![x] = 0]
  /\ result' = NULL
  /\ UNCHANGED walk

\* An array is given up only when it is empty.
Finish(x) ==
  /\ Idle
  /\ seq[x] = <<>>
  /\ seq' = [seq EXCEPT ![x] = NULL]
  /\ cursor' = [cursor EXCEPT ![x] = 0]
  /\ result' = NULL
  /\ UNCHANGED walk

\* A new element's value is any.
Add(x) ==
  /\ Idle
  /\ seq[x] # NULL
  /\ \E v \in Values : seq' = [seq EXCEPT ![x] = Append(seq[x], v)]
  /\ cursor' = [cursor EXCEPT ![x] = Len(seq[x]) + 1]
  /\ result' = NULL
  /\ UNCHANGED walk

Take(x) ==
  /\ Idle
  /\ seq[x] # NULL /\ seq[x] # <<>>
  /\ result' = [popped |-> seq[x][Len(seq[x])]]
  /\ seq' = [seq EXCEPT ![x] = SubSeq(seq[x], 1, Len(seq[x]) - 1)]
  /\ cursor' = [cursor EXCEPT ![x] = 0]
  /\ UNCHANGED walk

Point(x) ==
  /\ Idle
  /\ seq[x] # NULL
  /\ \E i \in 1 .. Len(seq[x]) : cursor' = [cursor EXCEPT ![x] = i]
  /\ result' = NULL
  /\ UNCHANGED <<seq, walk>>

Put(x) ==
  /\ cursor[x] # 0
  /\ \E v \in Values : seq' = [seq EXCEPT ![x][cursor[x]] = v]
  /\ result' = NULL
  /\ UNCHANGED <<cursor, walk>>

Exchange(x, y) ==
  /\ Idle
  /\ seq' = [seq EXCEPT ![x] = seq[y], ![y] = seq[x]]
  /\ cursor' = [cursor EXCEPT ![x] = cursor[y], ![y] = cursor[x]]
  /\ result' = NULL
  /\ UNCHANGED walk

Sort(x) ==
  /\ Idle
  /\ seq[x] # NULL
  /\ \E s \in [DOMAIN seq[x] -> Values] :
       /\ IsSorted(s) /\ Reorders(s, seq[x])
       /\ seq' = [seq EXCEPT ![x] = s]
  /\ result' = NULL
  /\ UNCHANGED <<cursor, walk>>

\* The elements are visited once each, in order.
Visit(x) ==
  LET n == IF Idle THEN 1 ELSE walk.visited + 1
  IN /\ Idle \/ walk.array = x
     /\ seq[x] # NULL /\ n <= Len(seq[x])
     /\ walk' = [array |-> x, visited |-> n]
     /\ cursor' = [cursor EXCEPT ![x] = n]
     /\ result' = NULL
     /\ UNCHANGED seq

\* A visit ends well if every element was visited, or else the visitor has had
\* enough.
Leave ==
  /\ ~Idle
  /\ \/ result' = [each |-> "error"]
     \/ result' = [each |-> "ok"] /\ walk.visited = Len(seq[walk.array])
  /\ walk' = NULL
  /\ UNCHANGED <<seq, cursor>>

\* A call is refused: an array in use is started again, one with elements is
\* given up, there is no memory.
Refuse ==
  /\ result' = NULL
  /\ UNCHANGED <<seq, cursor, walk>>

Next ==
  \/ \E x \in Arrays :
       Start(x) \/ Finish(x) \/ Add(x) \/ Take(x) \/ Point(x) \/ Put(x)
         \/ Sort(x) \/ Visit(x)
  \/ \E x, y \in Arrays : Exchange(x, y)
  \/ Leave \/ Refuse

Spec == Init /\ [][Next]_vars
=============================================================================
