-------------------------------- MODULE XArray --------------------------------
(***************************************************************************)
(* The dynamic array of xadmin (xarray.c): elements of one size in a block *)
(* of memory that is doubled, and may move, when it is full.  Several      *)
(* arrays share the memory, and the client holds one pointer into each of  *)
(* them, the one he was given last.                                        *)
(*                                                                         *)
(* One step per call; array_each is a step per element, in which its       *)
(* function may write to the element.  The client keeps to the rules that  *)
(* its callers keep to: an array is used between array_init and            *)
(* array_deinit, and a pointer not after a push to, or a pop from, its     *)
(* array.  The memory that malloc and realloc hand out holds anything.     *)
(***************************************************************************)
EXTENDS Integers, Sequences, FiniteSets

CONSTANTS
  NULL,   \* the null pointer
  Arrays, \* the arrays in the program
  Values, \* what an element can be
  Rubbish, \* what memory can hold that was just allocated
  Blocks, \* the blocks of memory there are
  Width,  \* how many numbers a uint32_t can hold
  Size,   \* the size of an element
  Counts, \* bound: the elements that an array is created for
  Memory, \* the elements that the largest possible block has room for
  MaxElements \* bound: the elements of any two arrays

ASSUME ArrayAssumption ==
  /\ Width \in Nat /\ Size \in Nat \ {0} /\ Memory \in Nat
  /\ Counts \subseteq Nat /\ MaxElements \in Nat
  /\ Size * Memory < Width
  /\ Rubbish # {} /\ Rubbish \subseteq Values /\ Values \subseteq Int
  /\ NULL \notin Values \cup Blocks
  /\ NULL \notin Seq(Values)
  /\ NULL \notin [elem : Blocks, idx : Nat]
  /\ NULL \notin [array : Arrays, i : Nat, nelem : Nat]
  /\ NULL \notin [array : Arrays, visited : Nat]

VARIABLES
  block,   \* what each block of memory holds; NULL if it is not allocated
  array,   \* struct array: elem, nelem and nalloc
  inuse,   \* the arrays between array_init and array_deinit
  pointer, \* the client's pointer into each array, or NULL
  each,    \* array_each: the array, i and nelem; or NULL
  result   \* what array_pop or array_each has returned, if that was the last call

vars == <<block, array, inuse, pointer, each, result>>

-----------------------------------------------------------------------------
null_array == [elem |-> NULL, nelem |-> 0, nalloc |-> 0]

Init ==
  /\ block = [b \in Blocks |-> NULL]
  /\ array = [x \in Arrays |-> null_array]
  /\ inuse = {}
  /\ pointer = [x \in Arrays |-> NULL]
  /\ each = NULL
  /\ result = NULL

Room(n) == [1 .. n -> Values]

\* What n elements of new memory hold.
Fresh(n) == [1 .. n -> Rubbish]

\* The address of the element at an index, which begins at 0.
Address(x, i) == [elem |-> array[x].elem, idx |-> i]

Content(address) == block[address.elem][address.idx + 1]

Idle == each = NULL

\* A call that is refused, or has no memory, changes nothing.
Refused == result' = NULL /\ UNCHANGED <<block, array, inuse, pointer, each>>

\* array_init.
ArrayInit(x, n) ==
  /\ Idle
  /\ x \notin inuse
  /\ \/ /\ n # 0 /\ n <= Memory
        /\ \E b \in Blocks :
             /\ block[b] = NULL
             /\ \E content \in Fresh(n) : block' = [block EXCEPT ![b] = content]
             /\ array' = [array EXCEPT ![x] = [elem |-> b, nelem |-> 0, nalloc |-> n]]
        /\ inuse' = inuse \cup {x}
        /\ pointer' = [pointer EXCEPT ![x] = NULL]
        /\ result' = NULL
        /\ UNCHANGED each
     \/ Refused

\* array_deinit gives the block back, if the array is empty; the struct goes
\* on pointing to it.
ArrayDeinit(x) ==
  /\ Idle
  /\ x \in inuse
  /\ \/ /\ array[x].nelem = 0
        /\ block' = [block EXCEPT ![array[x].elem] = NULL]
        /\ inuse' = inuse \ {x}
        /\ pointer' = [pointer EXCEPT ![x] = NULL]
        /\ result' = NULL
        /\ UNCHANGED <<array, each>>
     \/ array[x].nelem # 0 /\ Refused

\* realloc to n elements: the block stays where it is or moves, and what was
\* in it stays.  And mistakes: the block stays as small as it was; the old
\* block is not given back.
ReallocNothing(x, n) ==
  /\ n <= Memory
  /\ \E b \in Blocks :
       /\ b = array[x].elem \/ block[b] = NULL
       /\ block' = [block EXCEPT ![array[x].elem] = NULL, ![b] = block[array[x].elem]]
       /\ array' = [array EXCEPT ![x].elem = b,
                                 ![x].nalloc = (2 * array[x].nalloc) % Width,
                                 ![x].nelem = array[x].nelem + 1]

ReallocKeeping(x, n) ==
  /\ n <= Memory
  /\ \E b \in Blocks, more \in Fresh(n - array[x].nalloc) :
       /\ block[b] = NULL
       /\ block' = [block EXCEPT ![b] = block[array[x].elem] \o more]
       /\ array' = [array EXCEPT ![x].elem = b,
                                 ![x].nalloc = (2 * array[x].nalloc) % Width,
                                 ![x].nelem = array[x].nelem + 1]

Realloc(x, n) ==
  /\ n <= Memory
  /\ \E b \in Blocks, more \in Fresh(n - array[x].nalloc) :
       /\ b = array[x].elem \/ block[b] = NULL
       /\ block' = [block EXCEPT ![array[x].elem] = NULL,
                                ![b] = block[array[x].elem] \o more]
       /\ array' = [array EXCEPT ![x] = [elem   |-> b,
                                         nelem  |-> array[x].nelem + 1,
                                         nalloc |-> (2 * array[x].nalloc) % Width]]

\* What array_push returns; and mistaken, computed before the memory moves.
PushedBefore(x) == Address(x, array[x].nelem)
Pushed(x) == [elem |-> array'[x].elem, idx |-> array[x].nelem]

\* array_push.
ArrayPush(x) ==
  /\ Idle
  /\ x \in inuse
  /\ \A y \in inuse \ {x} : array[x].nelem + array[y].nelem < MaxElements
  /\ \/ /\ array[x].nelem = array[x].nalloc
        /\ Realloc(x, 2 * array[x].nalloc)
        /\ pointer' = [pointer EXCEPT ![x] = Pushed(x)]
        /\ result' = NULL
        /\ UNCHANGED <<inuse, each>>
     \/ array[x].nelem = array[x].nalloc /\ Refused
     \/ /\ array[x].nelem # array[x].nalloc
        /\ array' = [array EXCEPT ![x].nelem = array[x].nelem + 1]
        /\ pointer' = [pointer EXCEPT ![x] = Pushed(x)]
        /\ result' = NULL
        /\ UNCHANGED <<block, inuse, each>>

\* array_pop; its callers read the element before anything else happens.
ArrayPop(x) ==
  /\ Idle
  /\ x \in inuse
  /\ \/ /\ array[x].nelem # 0
        /\ array' = [array EXCEPT ![x].nelem = array[x].nelem - 1]
        /\ result' = [popped |-> Content(Address(x, array[x].nelem - 1))]
        /\ pointer' = [pointer EXCEPT ![x] = NULL]
        /\ UNCHANGED <<block, inuse, each>>
     \/ array[x].nelem = 0 /\ Refused

\* array_get, and array_top, which gets the last element if there is one; and
\* mistaken, without a look.
ArrayGet(x, i) ==
  /\ Idle
  /\ x \in inuse
  /\ \/ /\ i < array[x].nelem
        /\ pointer' = [pointer EXCEPT ![x] = Address(x, i)]
        /\ result' = NULL
        /\ UNCHANGED <<block, array, inuse, each>>
     \/ i >= array[x].nelem /\ Refused

ArrayTopOfNone(x) == ArrayGet(x, array[x].nelem - 1)
ArrayTop(x) ==
  \/ array[x].nelem # 0 /\ ArrayGet(x, array[x].nelem - 1)
  \/ Idle /\ x \in inuse /\ array[x].nelem = 0 /\ Refused

\* What array_idx makes of the client's pointer: the offset is a uint32_t.
ArrayIdx(x) ==
  LET off == (pointer[x].idx * Size) % Width
  IN off \div Size

\* array_swap; the client's pointers go with the elements.
ArraySwap(x, y) ==
  /\ Idle
  /\ x \in inuse /\ y \in inuse
  /\ array' = [array EXCEPT ![x] = array[y], ![y] = array[x]]
  /\ pointer' = [pointer EXCEPT ![x] = pointer[y], ![y] = pointer[x]]
  /\ result' = NULL
  /\ UNCHANGED <<block, inuse, each>>

IsSorted(s) == \A i, j \in DOMAIN s : i <= j => s[i] <= s[j]

\* A sequence holds each value as often as the first n elements of another.
Reorders(s, t, n) ==
  \A v \in Values :
    Cardinality({i \in 1 .. n : s[i] = v}) = Cardinality({i \in 1 .. n : t[i] = v})

\* array_sort; qsort orders the elements in their block.
ArraySort(x) ==
  /\ Idle
  /\ x \in inuse
  /\ \/ /\ array[x].nelem # 0
        /\ \E s \in Room(array[x].nelem) :
             /\ IsSorted(s) /\ Reorders(s, block[array[x].elem], array[x].nelem)
             /\ block' = [block EXCEPT ![array[x].elem] =
                            [i \in DOMAIN @ |-> IF i <= array[x].nelem THEN s[i] ELSE @[i]]]
        /\ result' = NULL
        /\ UNCHANGED <<array, inuse, pointer, each>>
     \/ array[x].nelem = 0 /\ Refused

\* array_each of an empty array.
EachOfNone(x) == Idle /\ x \in inuse /\ array[x].nelem = 0 /\ Refused

\* array_each, which has read nelem before the first call: its function is
\* called with the next element, or array_each returns.
EachCall(x) ==
  /\ \/ each = NULL /\ array[x].nelem # 0
        /\ each' = [array |-> x, i |-> 0, nelem |-> array[x].nelem]
     \/ /\ each # NULL
        /\ each.array = x /\ each.i + 1 < each.nelem
        /\ each' = [each EXCEPT !.i = each.i + 1]
  /\ x \in inuse
  /\ pointer' = [pointer EXCEPT ![x] = Address(x, each'.i)]
  /\ result' = NULL
  /\ UNCHANGED <<block, array, inuse>>

\* The loop ends behind the last element, or when the function fails; and a
\* mistake, before the last element.
EachEndsEarly == each.i + 2 >= each.nelem
EachEnds == each.i + 1 = each.nelem

EachReturn ==
  /\ each # NULL
  /\ each' = NULL
  /\ \/ result' = [each |-> "error"]
     \/ EachEnds /\ result' = [each |-> "ok"]
  /\ UNCHANGED <<block, array, inuse, pointer>>

\* The client writes through his pointer.
Write(x) ==
  /\ pointer[x] # NULL
  /\ \E v \in Values :
       block' = [block EXCEPT ![pointer[x].elem][pointer[x].idx + 1] = v]
  /\ result' = NULL
  /\ UNCHANGED <<array, inuse, pointer, each>>

Next ==
  \/ \E x \in Arrays :
       \/ \E n \in Counts : ArrayInit(x, n)
       \/ \E i \in 0 .. Memory : ArrayGet(x, i)
       \/ ArrayDeinit(x) \/ ArrayPush(x) \/ ArrayPop(x) \/ ArrayTop(x)
       \/ ArraySort(x) \/ EachOfNone(x) \/ EachCall(x) \/ Write(x)
  \/ \E x, y \in Arrays : ArraySwap(x, y)
  \/ EachReturn

Spec == Init /\ [][Next]_vars

-----------------------------------------------------------------------------
\* The types of the variables.
TypeOK ==
  /\ block \in [Blocks -> Seq(Values) \cup {NULL}]
  /\ array \in [Arrays -> [elem : Blocks \cup {NULL}, nelem : Nat, nalloc : Nat]]
  /\ inuse \subseteq Arrays
  /\ pointer \in [Arrays -> [elem : Blocks, idx : Nat] \cup {NULL}]
  /\ each \in [array : Arrays, i : Nat, nelem : Nat] \cup {NULL}
  /\ result \in [popped : Values] \cup [each : {"ok", "error"}] \cup {NULL}

\* The books of an array agree with the memory it has: as many elements as it
\* believes have room in its block, at least as many as it has (array_push).
BooksAgree ==
  \A x \in inuse :
    /\ array[x].elem # NULL
    /\ block[array[x].elem] # NULL
    /\ array[x].nelem <= array[x].nalloc
    /\ Len(block[array[x].elem]) = array[x].nalloc

\* Memory has one owner: no two arrays share a block, whatever was moved or
\* swapped, and no block is allocated that no array in use has (array_push,
\* array_deinit, array_swap).
OneOwner ==
  /\ \A x, y \in inuse : array[x].elem = array[y].elem => x = y
  /\ \A b \in Blocks : block[b] # NULL => \E x \in inuse : array[x].elem = b

\* A pointer that the client may use is at an element of its array, where the
\* array is now, and its index is told right (array_get, array_idx).
PointerGood ==
  \A x \in Arrays :
    pointer[x] # NULL =>
      /\ x \in inuse
      /\ pointer[x].elem = array[x].elem
      /\ pointer[x].idx < array[x].nelem
      /\ ArrayIdx(x) = pointer[x].idx

\* For its client each array is the sequence of its elements (ElementSeqs).
Elements(x) == SubSeq(block[array[x].elem], 1, array[x].nelem)

Abstract ==
  INSTANCE ElementSeqs WITH
    seq    <- [x \in Arrays |-> IF x \in inuse THEN Elements(x) ELSE NULL],
    cursor <- [x \in Arrays |-> IF pointer[x] = NULL THEN 0 ELSE pointer[x].idx + 1],
    walk   <- IF each = NULL THEN NULL
              ELSE [array |-> each.array, visited |-> each.i + 1]

\* Growing, moving and sharing the memory never shows: xarray.c implements
\* sequences.
ImplementsSeqs == Abstract!Spec
=============================================================================
