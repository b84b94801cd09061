----------------------------- MODULE XArray_proofs -----------------------------
(***************************************************************************)
(* The dynamic array for any number of arrays, blocks and elements: its    *)
(* books, who owns which block, where the client's pointers point, and     *)
(* that all of it implements sequences.                                    *)
(***************************************************************************)
EXTENDS XArray, TLAPS, SequenceTheorems

\* An array in use has room for an element, and for no more than there can be.
RoomInv == \A x \in inuse : array[x].nalloc \in 1 .. Memory

\* Where the client's pointers are.
PointerInv ==
  \A x \in Arrays :
    pointer[x] # NULL =>
      /\ x \in inuse
      /\ pointer[x].elem = array[x].elem
      /\ pointer[x].idx < array[x].nelem

\* The length that array_each has read is still the array's.
EachInv ==
  each # NULL =>
    /\ each.array \in inuse
    /\ each.nelem = array[each.array].nelem
    /\ each.i < each.nelem

IInv == TypeOK /\ BooksAgree /\ OneOwner /\ RoomInv /\ PointerInv /\ EachInv

Struct == [elem : Blocks \cup {NULL}, nelem : Nat, nalloc : Nat]

-----------------------------------------------------------------------------
(***************************************************************************)
(* Numbers: what fits a block fits a uint32_t.                             *)
(***************************************************************************)
LEMMA Fits ==
  ASSUME NEW m \in 0 .. Memory
  PROVE  /\ m < Width
         /\ m * Size \in Nat /\ m * Size < Width
<1>1. /\ Width \in Nat /\ Size \in Nat /\ Size >= 1 /\ Memory \in Nat
      /\ Size * Memory < Width
  BY ArrayAssumption
<1>2. m * Size \in Nat /\ m * Size <= Memory * Size
  BY <1>1
<1>3. m <= m * Size
  BY <1>1
<1>4. Memory * Size = Size * Memory
  BY <1>1
<1> QED
  BY <1>1, <1>2, <1>3, <1>4

\* What fits is not reduced.
LEMMA SmallMod ==
  ASSUME NEW a \in Nat, NEW w \in Nat, a < w
  PROVE  a % w = a
  OBVIOUS

\* array_idx: an offset in bytes gives the index back.
LEMMA DivBack ==
  ASSUME NEW m \in Nat, NEW s \in Nat \ {0}
  PROVE  (m * s) \div s = m
  OBVIOUS

\* 2 * nalloc does not wrap around while its block fits the memory.
LEMMA Doubled ==
  ASSUME NEW n \in Nat, 2 * n <= Memory
  PROVE  (2 * n) % Width = 2 * n
<1>1. 2 * n \in 0 .. Memory
  BY ArrayAssumption
<1> QED
  BY <1>1, Fits, SmallMod, ArrayAssumption

-----------------------------------------------------------------------------
(***************************************************************************)
(* Blocks.                                                                 *)
(***************************************************************************)
LEMMA FreshSeq ==
  ASSUME NEW n \in Nat, NEW s \in Fresh(n)
  PROVE  s \in Seq(Values) /\ Len(s) = n /\ s # NULL
<1>1. s \in [1 .. n -> Values]
  BY ArrayAssumption DEF Fresh
<1> QED
  BY <1>1, ArrayAssumption

\* A block that grows is still a block, longer by its new rest.
LEMMA Extended ==
  ASSUME NEW s \in Seq(Values), NEW t \in Seq(Values)
  PROVE  s \o t \in Seq(Values) /\ Len(s \o t) = Len(s) + Len(t) /\ s \o t # NULL
<1>1. s \o t \in Seq(Values) /\ Len(s \o t) = Len(s) + Len(t)
  BY ConcatProperties
<1>2. NULL \notin Seq(Values)
  BY ArrayAssumption
<1> QED
  BY <1>1, <1>2

\* A block with one element written is still a block.
LEMMA Written ==
  ASSUME NEW s \in Seq(Values), NEW i \in 1 .. Len(s), NEW v \in Values
  PROVE  /\ [s EXCEPT ![i] = v] \in Seq(Values)
         /\ Len([s EXCEPT ![i] = v]) = Len(s)
         /\ [s EXCEPT ![i] = v] # NULL
  BY ArrayAssumption

\* A block whose elements are rearranged is still a block.
LEMMA Sorted ==
  ASSUME NEW s \in Seq(Values), NEW n \in 0 .. Len(s), NEW t \in Room(n)
  PROVE  LET r == [i \in DOMAIN s |-> IF i <= n THEN t[i] ELSE s[i]]
         IN r \in Seq(Values) /\ Len(r) = Len(s) /\ r # NULL
<1> DEFINE r == [i \in DOMAIN s |-> IF i <= n THEN t[i] ELSE s[i]]
<1>1. DOMAIN s = 1 .. Len(s) /\ Len(s) \in Nat
  OBVIOUS
<1>2. r \in [1 .. Len(s) -> Values]
  BY <1>1 DEF Room
<1>3. r \in Seq(Values) /\ Len(r) = Len(s)
  BY <1>1, <1>2
<1> QED
  BY <1>3, ArrayAssumption

-----------------------------------------------------------------------------
(***************************************************************************)
(* The invariant.                                                          *)
(***************************************************************************)
LEMMA InitInv == Init => IInv
<1> SUFFICES ASSUME Init PROVE IInv
  OBVIOUS
<1> USE DEF Init
<1>1. TypeOK
  BY DEF TypeOK, null_array
<1>2. BooksAgree /\ OneOwner /\ RoomInv /\ PointerInv /\ EachInv
  BY DEF BooksAgree, OneOwner, RoomInv, PointerInv, EachInv
<1> QED
  BY <1>1, <1>2 DEF IInv

\* Of a block that an array in use has.
LEMMA BlockOf ==
  ASSUME TypeOK, BooksAgree, RoomInv, NEW x \in inuse
  PROVE  /\ x \in Arrays
         /\ array[x] \in Struct
         /\ array[x].elem \in Blocks
         /\ block[array[x].elem] \in Seq(Values)
         /\ Len(block[array[x].elem]) = array[x].nalloc
         /\ array[x].nelem \in 0 .. array[x].nalloc
         /\ array[x].nalloc \in 1 .. Memory
  BY ArrayAssumption DEF TypeOK, BooksAgree, RoomInv, Struct

\* A step that leaves the structs of the arrays alone, and writes to blocks
\* without changing their lengths.
LEMMA SameLengths ==
  ASSUME IInv, UNCHANGED <<array, inuse>>,
         block' \in [Blocks -> Seq(Values) \cup {NULL}],
         \A b \in Blocks : block'[b] = NULL <=> block[b] = NULL,
         \A b \in Blocks : block[b] # NULL => Len(block'[b]) = Len(block[b])
  PROVE  BooksAgree' /\ OneOwner' /\ RoomInv'
  BY BlockOf DEF IInv, BooksAgree, OneOwner, RoomInv

\* A struct with another count of elements.
LEMMA Counted ==
  ASSUME NEW s \in Struct, NEW n \in Nat
  PROVE  LET c == [s EXCEPT !.nelem = n]
         IN c \in Struct /\ c.elem = s.elem /\ c.nalloc = s.nalloc /\ c.nelem = n
  BY DEF Struct

\* array_init keeps the invariant.
LEMMA InitArrayStep ==
  ASSUME IInv, NEW x \in Arrays, NEW n \in Counts, ArrayInit(x, n), ~Refused
  PROVE  IInv'
<1> USE DEF IInv
<1>1. PICK b \in Blocks, content \in Fresh(n) :
        /\ block[b] = NULL
        /\ block' = [block EXCEPT ![b] = content]
        /\ array' = [array EXCEPT ![x] = [elem |-> b, nelem |-> 0, nalloc |-> n]]
  BY DEF ArrayInit
<1>2. /\ Idle /\ x \notin inuse /\ n # 0 /\ n <= Memory
      /\ inuse' = inuse \cup {x}
      /\ pointer' = [pointer EXCEPT ![x] = NULL]
      /\ result' = NULL /\ UNCHANGED each
  BY DEF ArrayInit
<1>3. n \in 1 .. Memory
  BY <1>2, ArrayAssumption
<1>4. content \in Seq(Values) /\ Len(content) = n /\ content # NULL
  BY <1>3, FreshSeq
<1>5. /\ array'[x] = [elem |-> b, nelem |-> 0, nalloc |-> n]
      /\ \A y \in inuse : array'[y] = array[y] /\ y # x
      /\ block'[b] = content
      /\ \A c \in Blocks \ {b} : block'[c] = block[c]
  BY <1>1, <1>2 DEF TypeOK
<1>6. \A y \in inuse : array[y].elem # b /\ array[y].elem \in Blocks
  BY <1>1, BlockOf DEF BooksAgree
<1>7. TypeOK'
  BY <1>1, <1>2, <1>3, <1>4 DEF TypeOK
<1>8. BooksAgree' /\ RoomInv'
  BY <1>2, <1>3, <1>4, <1>5, <1>6, ArrayAssumption DEF BooksAgree, RoomInv
<1>9. OneOwner'
  BY <1>2, <1>5, <1>6 DEF OneOwner
<1>10. PointerInv' /\ EachInv'
  BY <1>2, <1>5 DEF PointerInv, EachInv, Idle, TypeOK
<1> QED
  BY <1>7, <1>8, <1>9, <1>10

\* array_deinit keeps it: the block goes with its only owner.
LEMMA DeinitStep ==
  ASSUME IInv, NEW x \in Arrays, ArrayDeinit(x), ~Refused
  PROVE  IInv'
<1> USE DEF IInv
<1>1. /\ Idle /\ x \in inuse
      /\ block' = [block EXCEPT ![array[x].elem] = NULL]
      /\ inuse' = inuse \ {x}
      /\ pointer' = [pointer EXCEPT ![x] = NULL]
      /\ result' = NULL
      /\ UNCHANGED <<array, each>>
  BY DEF ArrayDeinit
<1>2. \A y \in inuse \ {x} : array[y].elem # array[x].elem /\ array[y].elem \in Blocks
  BY <1>1, BlockOf DEF OneOwner
<1>3. \A y \in inuse \ {x} : block'[array[y].elem] = block[array[y].elem]
  BY <1>1, <1>2, BlockOf DEF TypeOK
<1>4. TypeOK'
  BY <1>1 DEF TypeOK
<1>5. BooksAgree' /\ RoomInv'
  BY <1>1, <1>3 DEF BooksAgree, RoomInv
<1>6. OneOwner'
  BY <1>1, <1>2, BlockOf DEF OneOwner, TypeOK
<1>7. PointerInv' /\ EachInv'
  BY <1>1 DEF PointerInv, EachInv, Idle, TypeOK
<1> QED
  BY <1>4, <1>5, <1>6, <1>7

\* What realloc makes of an array.
LEMMA ReallocStep ==
  ASSUME IInv, NEW x \in inuse, array[x].nelem = array[x].nalloc,
         Realloc(x, 2 * array[x].nalloc), UNCHANGED inuse
  PROVE  /\ block' \in [Blocks -> Seq(Values) \cup {NULL}]
         /\ array' \in [Arrays -> Struct]
         /\ BooksAgree' /\ OneOwner' /\ RoomInv'
         /\ array'[x].nelem = array[x].nelem + 1
         /\ array'[x].elem \in Blocks
         /\ \E more \in Seq(Values) :
              /\ more # <<>>
              /\ block'[array'[x].elem] = block[array[x].elem] \o more
         /\ \A y \in Arrays \ {x} : array'[y] = array[y]
         /\ \A y \in inuse \ {x} : block'[array[y].elem] = block[array[y].elem]
<1> USE DEF IInv
<1> DEFINE old == array[x].elem
           n == array[x].nalloc
<1>1. /\ x \in Arrays /\ old \in Blocks /\ n \in 1 .. Memory
      /\ block[old] \in Seq(Values) /\ Len(block[old]) = n
      /\ array[x] \in Struct
  BY BlockOf
<1>2. n \in Nat /\ n >= 1 /\ 2 * n - n = n
  BY <1>1, ArrayAssumption
<1>3. PICK b \in Blocks, more \in Fresh(2 * n - n) :
        /\ b = old \/ block[b] = NULL
        /\ block' = [block EXCEPT ![old] = NULL, ![b] = block[old] \o more]
        /\ array' = [array EXCEPT ![x] = [elem   |-> b,
                                          nelem  |-> array[x].nelem + 1,
                                          nalloc |-> (2 * n) % Width]]
  BY DEF Realloc
<1>4. 2 * n <= Memory /\ (2 * n) % Width = 2 * n
  BY <1>2, Doubled DEF Realloc
<1>5. more \in Seq(Values) /\ Len(more) = n
  BY <1>2, FreshSeq
<1> DEFINE s == block[old] \o more
<1>6. s \in Seq(Values) /\ Len(s) = 2 * n /\ s # NULL
  <2>1. s \in Seq(Values) /\ Len(s) = Len(block[old]) + Len(more) /\ s # NULL
    BY <1>1, <1>5, Extended
  <2>2. Len(block[old]) + Len(more) = 2 * n
    <3> HIDE DEF old, n, s
    <3> QED
      BY <1>1, <1>2, <1>5
  <2> QED
    BY <2>1, <2>2
<1> HIDE DEF s
<1>7. block' = [block EXCEPT ![old] = NULL, ![b] = s]
  BY <1>3 DEF s
<1>8. /\ block' \in [Blocks -> Seq(Values) \cup {NULL}]
      /\ block'[b] = s
      /\ \A c \in Blocks \ {b, old} : block'[c] = block[c]
      /\ old # b => block'[old] = NULL
  BY <1>1, <1>6, <1>7 DEF TypeOK
<1>9. /\ array' \in [Arrays -> Struct]
      /\ array'[x] = [elem |-> b, nelem |-> n + 1, nalloc |-> 2 * n]
      /\ \A y \in Arrays \ {x} : array'[y] = array[y]
  BY <1>1, <1>2, <1>3, <1>4 DEF TypeOK, Struct
<1>10. \A y \in inuse \ {x} :
         y \in Arrays /\ array[y].elem \in Blocks /\ array[y].elem \notin {b, old}
  <2> SUFFICES ASSUME NEW y \in inuse \ {x}
               PROVE  y \in Arrays /\ array[y].elem \in Blocks /\ array[y].elem \notin {b, old}
    OBVIOUS
  <2>1. y \in Arrays /\ array[y].elem \in Blocks /\ block[array[y].elem] # NULL
    BY BlockOf DEF BooksAgree
  <2>2. array[y].elem # old
    BY DEF OneOwner
  <2> QED
    BY <1>3, <2>1, <2>2
<1>11. \A y \in inuse \ {x} : block'[array[y].elem] = block[array[y].elem]
  BY <1>8, <1>10
<1> HIDE DEF old, n
<1>12. BooksAgree' /\ RoomInv'
  <2> SUFFICES ASSUME NEW y \in inuse
               PROVE  /\ array'[y].elem # NULL
                      /\ block'[array'[y].elem] # NULL
                      /\ array'[y].nelem <= array'[y].nalloc
                      /\ Len(block'[array'[y].elem]) = array'[y].nalloc
                      /\ array'[y].nalloc \in 1 .. Memory
    BY DEF BooksAgree, RoomInv
  <2>1. CASE y = x
    <3>1. array'[y].elem = b /\ array'[y].nelem = n + 1 /\ array'[y].nalloc = 2 * n
      BY <1>9, <2>1
    <3>2. block'[array'[y].elem] = s /\ array'[y].elem # NULL
      BY <1>8, <3>1, ArrayAssumption
    <3>3. n + 1 <= 2 * n /\ 2 * n \in 1 .. Memory
      BY <1>2, <1>4, ArrayAssumption
    <3> QED
      BY <1>6, <3>1, <3>2, <3>3
  <2>2. CASE y # x
    BY <1>9, <1>10, <1>11, <2>2 DEF BooksAgree, RoomInv
  <2> QED
    BY <2>1, <2>2
<1>13. OneOwner'
  <2>1. ASSUME NEW y \in inuse, NEW z \in inuse, array'[y].elem = array'[z].elem
        PROVE  y = z
    BY <1>9, <1>10, <2>1 DEF OneOwner
  <2>2. ASSUME NEW c \in Blocks, block'[c] # NULL
        PROVE  \E y \in inuse : array'[y].elem = c
    <3>1. CASE c = b
      BY <1>9, <3>1
    <3>2. CASE c # b
      <4>1. c # old /\ block[c] # NULL
        BY <1>8, <2>2, <3>2
      <4>2. PICK y \in inuse : array[y].elem = c
        BY <4>1 DEF OneOwner
      <4>3. y # x /\ y \in Arrays
        BY <1>10, <4>1, <4>2 DEF old, TypeOK
      <4> QED
        BY <1>9, <4>2, <4>3
    <3> QED
      BY <3>1, <3>2
  <2> QED
    BY <2>1, <2>2 DEF OneOwner
<1>14. more # <<>>
  BY <1>2, <1>5
<1> QED
  <2>1. array'[x].nelem = array[x].nelem + 1 /\ array'[x].elem = b
    BY <1>9 DEF n
  <2>2. block'[array'[x].elem] = block[array[x].elem] \o more
    BY <1>8, <2>1 DEF s, old
  <2>3. array'[x].elem \in Blocks
    BY <2>1
  <2> QED
    BY <1>5, <1>8, <1>9, <1>11, <1>12, <1>13, <1>14, <2>1, <2>2, <2>3

\* array_push keeps it, where the array is full and where it is not.
LEMMA PushStep ==
  ASSUME IInv, NEW x \in Arrays, ArrayPush(x), ~Refused
  PROVE  IInv'
<1> USE DEF IInv
<1>1. /\ Idle /\ x \in inuse
      /\ pointer' = [pointer EXCEPT ![x] = Pushed(x)]
      /\ result' = NULL
      /\ UNCHANGED <<inuse, each>>
  BY DEF ArrayPush
<1>2. CASE array[x].nelem = array[x].nalloc /\ Realloc(x, 2 * array[x].nalloc)
  <2>1. /\ block' \in [Blocks -> Seq(Values) \cup {NULL}]
        /\ array' \in [Arrays -> Struct]
        /\ BooksAgree' /\ OneOwner' /\ RoomInv'
        /\ array'[x].nelem = array[x].nelem + 1
        /\ array'[x].elem \in Blocks
        /\ \A y \in Arrays \ {x} : array'[y] = array[y]
    BY <1>1, <1>2, ReallocStep
  <2>2. array[x].nelem \in Nat
    BY <1>1, BlockOf DEF Struct
  <2>3. pointer'[x] = [elem |-> array'[x].elem, idx |-> array[x].nelem]
        /\ \A y \in Arrays \ {x} : pointer'[y] = pointer[y]
    BY <1>1 DEF Pushed, TypeOK
  <2>4. TypeOK'
    BY <1>1, <2>1, <2>2 DEF TypeOK, Struct, Pushed
  <2>5. PointerInv' /\ EachInv'
    BY <1>1, <2>1, <2>2, <2>3 DEF PointerInv, EachInv, Idle
  <2> QED
    BY <2>1, <2>4, <2>5
<1>3. CASE /\ array[x].nelem # array[x].nalloc
           /\ array' = [array EXCEPT ![x].nelem = array[x].nelem + 1]
           /\ UNCHANGED block
  <2>1. /\ array[x] \in Struct /\ array[x].elem \in Blocks
        /\ array[x].nelem + 1 \in 0 .. array[x].nalloc
    BY <1>1, <1>3, BlockOf DEF Struct
  <2>2. /\ array' \in [Arrays -> Struct]
        /\ array'[x].elem = array[x].elem /\ array'[x].nalloc = array[x].nalloc
        /\ array'[x].nelem = array[x].nelem + 1
        /\ \A y \in Arrays \ {x} : array'[y] = array[y]
    <3> DEFINE c == [array[x] EXCEPT !.nelem = array[x].nelem + 1]
    <3>1. array \in [Arrays -> Struct] /\ array[x].nelem + 1 \in Nat
      BY <2>1 DEF TypeOK, Struct
    <3>2. /\ c \in Struct /\ c.elem = array[x].elem /\ c.nalloc = array[x].nalloc
          /\ c.nelem = array[x].nelem + 1
      BY <3>1, Counted
    <3>3. array' = [array EXCEPT ![x] = c]
      BY <1>3
    <3> HIDE DEF c
    <3> QED
      BY <3>1, <3>2, <3>3
  <2>3. \A y \in inuse : /\ y \in Arrays
                         /\ array'[y].elem = array[y].elem
                         /\ array'[y].nalloc = array[y].nalloc
    BY <2>2 DEF TypeOK
  <2>4. BooksAgree' /\ RoomInv' /\ OneOwner'
    BY <1>1, <1>3, <2>1, <2>2, <2>3 DEF BooksAgree, RoomInv, OneOwner
  <2>5. pointer'[x] = [elem |-> array[x].elem, idx |-> array[x].nelem]
        /\ \A y \in Arrays \ {x} : pointer'[y] = pointer[y]
    BY <1>1, <2>2 DEF Pushed, TypeOK
  <2>6. TypeOK'
    BY <1>1, <1>3, <2>1, <2>2 DEF TypeOK, Struct, Pushed
  <2>7. PointerInv' /\ EachInv'
    BY <1>1, <2>1, <2>2, <2>5 DEF PointerInv, EachInv, Idle, Struct
  <2> QED
    BY <2>4, <2>6, <2>7
<1> QED
  BY <1>2, <1>3 DEF ArrayPush

\* array_pop keeps it.
LEMMA PopStep ==
  ASSUME IInv, NEW x \in Arrays, ArrayPop(x), ~Refused
  PROVE  IInv'
<1> USE DEF IInv
<1>1. /\ Idle /\ x \in inuse /\ array[x].nelem # 0
      /\ array' = [array EXCEPT ![x].nelem = array[x].nelem - 1]
      /\ result' = [popped |-> Content(Address(x, array[x].nelem - 1))]
      /\ pointer' = [pointer EXCEPT ![x] = NULL]
      /\ UNCHANGED <<block, inuse, each>>
  BY DEF ArrayPop
<1>2. /\ array[x] \in Struct /\ array[x].elem \in Blocks
      /\ array[x].nelem - 1 \in 0 .. array[x].nalloc - 1
      /\ block[array[x].elem] \in Seq(Values)
      /\ Len(block[array[x].elem]) = array[x].nalloc
  BY <1>1, BlockOf DEF Struct
<1>3. Content(Address(x, array[x].nelem - 1)) \in Values
  BY <1>2 DEF Content, Address, Struct
<1>4. /\ array' \in [Arrays -> Struct]
      /\ array'[x].elem = array[x].elem /\ array'[x].nalloc = array[x].nalloc
      /\ array'[x].nelem = array[x].nelem - 1
      /\ \A y \in Arrays \ {x} : array'[y] = array[y]
  <2> DEFINE c == [array[x] EXCEPT !.nelem = array[x].nelem - 1]
  <2>1. array \in [Arrays -> Struct] /\ array[x].nelem - 1 \in Nat
    BY <1>2 DEF TypeOK, Struct
  <2>2. /\ c \in Struct /\ c.elem = array[x].elem /\ c.nalloc = array[x].nalloc
        /\ c.nelem = array[x].nelem - 1
    BY <2>1, Counted
  <2>3. array' = [array EXCEPT ![x] = c]
    BY <1>1
  <2> HIDE DEF c
  <2> QED
    BY <2>1, <2>2, <2>3
<1>5. \A y \in inuse : /\ y \in Arrays
                       /\ array'[y].elem = array[y].elem
                       /\ array'[y].nalloc = array[y].nalloc
  BY <1>4 DEF TypeOK
<1>6. BooksAgree' /\ RoomInv' /\ OneOwner'
  BY <1>1, <1>2, <1>4, <1>5 DEF BooksAgree, RoomInv, OneOwner
<1>7. TypeOK'
  BY <1>1, <1>3, <1>4 DEF TypeOK, Struct
<1>8. PointerInv' /\ EachInv'
  BY <1>1, <1>4 DEF PointerInv, EachInv, Idle, TypeOK
<1> QED
  BY <1>6, <1>7, <1>8

\* array_get and array_top keep it: the pointer is at an element.
LEMMA GetStep ==
  ASSUME IInv, NEW x \in Arrays, NEW i \in Nat, ArrayGet(x, i), ~Refused
  PROVE  IInv'
<1> USE DEF IInv
<1>1. /\ Idle /\ x \in inuse /\ i < array[x].nelem
      /\ pointer' = [pointer EXCEPT ![x] = Address(x, i)]
      /\ result' = NULL
      /\ UNCHANGED <<block, array, inuse, each>>
  BY DEF ArrayGet
<1>2. array[x].elem \in Blocks
  BY <1>1, BlockOf
<1>3. pointer'[x] = [elem |-> array[x].elem, idx |-> i]
      /\ \A y \in Arrays \ {x} : pointer'[y] = pointer[y]
  BY <1>1 DEF Address, TypeOK
<1>4. TypeOK' /\ BooksAgree' /\ OneOwner' /\ RoomInv'
  BY <1>1, <1>2 DEF TypeOK, BooksAgree, OneOwner, RoomInv, Address
<1>5. PointerInv' /\ EachInv'
  BY <1>1, <1>3 DEF PointerInv, EachInv, Idle
<1> QED
  BY <1>4, <1>5

\* array_swap keeps it: blocks and pointers change hands together.
LEMMA SwapStep ==
  ASSUME IInv, NEW x \in Arrays, NEW y \in Arrays, ArraySwap(x, y)
  PROVE  IInv'
<1> USE DEF IInv
<1>1. /\ Idle /\ x \in inuse /\ y \in inuse
      /\ array' = [array EXCEPT ![x] = array[y], ![y] = array[x]]
      /\ pointer' = [pointer EXCEPT ![x] = pointer[y], ![y] = pointer[x]]
      /\ result' = NULL
      /\ UNCHANGED <<block, inuse, each>>
  BY DEF ArraySwap
<1> DEFINE other(z) == IF z = x THEN y ELSE IF z = y THEN x ELSE z
<1>2. \A z \in Arrays : /\ array'[z] = array[other(z)] /\ pointer'[z] = pointer[other(z)]
                        /\ other(z) \in Arrays /\ other(other(z)) = z
                        /\ z \in inuse <=> other(z) \in inuse
  BY <1>1 DEF TypeOK
<1>3. TypeOK'
  BY <1>1 DEF TypeOK
<1>4. inuse \subseteq Arrays
  BY DEF TypeOK
<1> HIDE DEF other
<1>5. BooksAgree' /\ RoomInv'
  <2> SUFFICES ASSUME NEW z \in inuse
               PROVE  /\ array'[z].elem # NULL
                      /\ block[array'[z].elem] # NULL
                      /\ array'[z].nelem <= array'[z].nalloc
                      /\ Len(block[array'[z].elem]) = array'[z].nalloc
                      /\ array'[z].nalloc \in 1 .. Memory
    BY <1>1 DEF BooksAgree, RoomInv
  <2>1. array'[z] = array[other(z)] /\ other(z) \in inuse
    BY <1>2, <1>4
  <2> QED
    BY <2>1 DEF BooksAgree, RoomInv
<1>6. OneOwner'
  <2>1. ASSUME NEW u \in inuse, NEW v \in inuse, array'[u].elem = array'[v].elem
        PROVE  u = v
    <3>1. other(u) = other(v)
      BY <1>2, <1>4, <2>1 DEF OneOwner
    <3> QED
      BY <1>2, <1>4, <3>1
  <2>2. ASSUME NEW b \in Blocks, block'[b] # NULL
        PROVE  \E u \in inuse : array'[u].elem = b
    <3>1. PICK u \in inuse : array[u].elem = b
      BY <1>1, <2>2 DEF OneOwner
    <3>2. other(u) \in inuse /\ array'[other(u)].elem = b
      BY <1>2, <1>4, <3>1
    <3> QED
      BY <3>2
  <2> QED
    BY <1>1, <2>1, <2>2 DEF OneOwner
<1>7. PointerInv'
  <2> SUFFICES ASSUME NEW z \in Arrays, pointer'[z] # NULL
               PROVE  /\ z \in inuse
                      /\ pointer'[z].elem = array'[z].elem
                      /\ pointer'[z].idx < array'[z].nelem
    BY <1>1 DEF PointerInv
  <2>1. /\ array'[z] = array[other(z)] /\ pointer'[z] = pointer[other(z)]
        /\ other(z) \in Arrays
        /\ z \in inuse <=> other(z) \in inuse
    BY <1>2
  <2> QED
    BY <2>1 DEF PointerInv
<1>8. EachInv'
  BY <1>1 DEF EachInv, Idle
<1> QED
  BY <1>3, <1>5, <1>6, <1>7, <1>8

\* array_sort and the client's writes change what blocks hold, and no length.
LEMMA ContentStep ==
  ASSUME IInv, NEW x \in inuse, UNCHANGED <<array, inuse, pointer, each>>, result' = NULL,
         NEW s \in Seq(Values), Len(s) = Len(block[array[x].elem]), s # NULL,
         block' = [block EXCEPT ![array[x].elem] = s]
  PROVE  IInv'
<1> USE DEF IInv
<1>1. block[array[x].elem] # NULL
  BY DEF BooksAgree
<1>2. /\ block' \in [Blocks -> Seq(Values) \cup {NULL}]
      /\ \A b \in Blocks : block'[b] = NULL <=> block[b] = NULL
      /\ \A b \in Blocks : block[b] # NULL => Len(block'[b]) = Len(block[b])
  BY <1>1, BlockOf DEF TypeOK
<1>3. BooksAgree' /\ OneOwner' /\ RoomInv'
  BY <1>2, SameLengths
<1>4. TypeOK' /\ PointerInv' /\ EachInv'
  BY <1>2 DEF TypeOK, PointerInv, EachInv
<1> QED
  BY <1>3, <1>4

\* array_sort keeps it.
LEMMA SortStep ==
  ASSUME IInv, NEW x \in Arrays, ArraySort(x), ~Refused
  PROVE  IInv'
<1> USE DEF IInv
<1> DEFINE b == array[x].elem
           n == array[x].nelem
           sorted(t) == [i \in DOMAIN block[b] |-> IF i <= n THEN t[i] ELSE block[b][i]]
<1>1. x \in inuse /\ result' = NULL /\ UNCHANGED <<array, inuse, pointer, each>>
  BY DEF ArraySort
<1>2. block[b] \in Seq(Values) /\ n \in 0 .. Len(block[b])
  BY <1>1, BlockOf
<1>3. PICK t \in Room(n) : block' = [block EXCEPT ![b] = sorted(t)]
  BY <1>1, BlockOf DEF ArraySort, TypeOK
<1>4. sorted(t) \in Seq(Values) /\ Len(sorted(t)) = Len(block[b]) /\ sorted(t) # NULL
  BY <1>2, Sorted
<1> HIDE DEF sorted
<1> QED
  BY <1>1, <1>3, <1>4, ContentStep

\* Writing through a pointer keeps it.
LEMMA WriteStep ==
  ASSUME IInv, NEW x \in Arrays, Write(x)
  PROVE  IInv'
<1> USE DEF IInv
<1> DEFINE b == array[x].elem
           i == pointer[x].idx + 1
<1>1. /\ pointer[x] # NULL /\ result' = NULL
      /\ UNCHANGED <<array, inuse, pointer, each>>
  BY DEF Write
<1>2. x \in inuse /\ pointer[x].elem = b /\ pointer[x].idx \in Nat
      /\ pointer[x].idx < array[x].nelem
  BY <1>1 DEF PointerInv, TypeOK
<1>3. block[b] \in Seq(Values) /\ b \in Blocks /\ i \in 1 .. Len(block[b])
  BY <1>2, BlockOf
<1>4. PICK v \in Values : block' = [block EXCEPT ![b] = [block[b] EXCEPT ![i] = v]]
  BY <1>2 DEF Write
<1> DEFINE s == [block[b] EXCEPT ![i] = v]
<1>5. s \in Seq(Values) /\ Len(s) = Len(block[b]) /\ s # NULL
  BY <1>3, Written
<1> HIDE DEF s
<1>6. block' = [block EXCEPT ![b] = s]
  BY <1>4 DEF s
<1> QED
  BY <1>1, <1>2, <1>5, <1>6, ContentStep

\* A turn of array_each keeps it.
LEMMA EachCallStep ==
  ASSUME IInv, NEW x \in Arrays, EachCall(x)
  PROVE  IInv'
<1> USE DEF IInv
<1>1. /\ x \in inuse
      /\ pointer' = [pointer EXCEPT ![x] = Address(x, each'.i)]
      /\ result' = NULL
      /\ UNCHANGED <<block, array, inuse>>
  BY DEF EachCall
<1>2. array[x].elem \in Blocks /\ array[x].nelem \in Nat
  BY <1>1, BlockOf DEF Struct
<1>3. each' = [array |-> x, i |-> each'.i, nelem |-> array[x].nelem]
      /\ each'.i \in Nat /\ each'.i < array[x].nelem
  <2>1. CASE each = NULL /\ array[x].nelem # 0
             /\ each' = [array |-> x, i |-> 0, nelem |-> array[x].nelem]
    BY <1>2, <2>1
  <2>2. CASE each # NULL /\ each.array = x /\ each.i + 1 < each.nelem
             /\ each' = [each EXCEPT !.i = each.i + 1]
    BY <2>2 DEF TypeOK, EachInv
  <2> QED
    BY <2>1, <2>2 DEF EachCall
<1>4. pointer'[x] = [elem |-> array[x].elem, idx |-> each'.i]
      /\ \A y \in Arrays \ {x} : pointer'[y] = pointer[y]
  BY <1>1 DEF Address, TypeOK
<1>5. TypeOK'
  BY <1>1, <1>2, <1>3 DEF TypeOK, Address
<1>6. BooksAgree' /\ OneOwner' /\ RoomInv'
  BY <1>1 DEF BooksAgree, OneOwner, RoomInv
<1>7. PointerInv' /\ EachInv'
  BY <1>1, <1>3, <1>4 DEF PointerInv, EachInv
<1> QED
  BY <1>5, <1>6, <1>7

\* The end of array_each keeps it.
LEMMA EachReturnStep ==
  ASSUME IInv, EachReturn
  PROVE  IInv'
  BY DEF IInv, EachReturn, TypeOK, BooksAgree, OneOwner, RoomInv, PointerInv, EachInv

\* A call that is refused changes nothing but the result.
LEMMA RefusedStep ==
  ASSUME IInv, UNCHANGED <<block, array, inuse, pointer, each>>, result' \in {result, NULL}
  PROVE  IInv'
  BY DEF IInv, TypeOK, BooksAgree, OneOwner, RoomInv, PointerInv, EachInv

\* Every step keeps the invariant.
LEMMA InvNext == IInv /\ [Next]_vars => IInv'
<1> SUFFICES ASSUME IInv, [Next]_vars PROVE IInv'
  OBVIOUS
<1>1. CASE Refused \/ UNCHANGED vars
  BY <1>1, RefusedStep DEF Refused, vars
<1>2. ASSUME NEW x \in Arrays, NEW n \in Counts, ArrayInit(x, n), ~Refused PROVE IInv'
  BY <1>2, InitArrayStep
<1>3. ASSUME NEW x \in Arrays, NEW i \in 0 .. Memory, ArrayGet(x, i), ~Refused PROVE IInv'
  BY <1>3, GetStep
<1>4. ASSUME NEW x \in Arrays, ArrayTop(x), ~Refused PROVE IInv'
  <2>1. array[x].nelem - 1 \in Nat
    BY <1>4, BlockOf DEF ArrayTop, ArrayGet, IInv, Struct
  <2> QED
    BY <1>4, <2>1, GetStep DEF ArrayTop
<1> QED
  BY <1>1, <1>2, <1>3, <1>4, DeinitStep, PushStep, PopStep, SwapStep, SortStep, WriteStep,
     EachCallStep, EachReturnStep
  DEF Next, EachOfNone

\* So it holds throughout.
LEMMA InvAlways == Spec => []IInv
  BY InitInv, InvNext, PTL DEF Spec

-----------------------------------------------------------------------------
\* The structs, blocks and pointers keep their types (xarray.h).
THEOREM TypeCorrect == Spec => []TypeOK
<1>1. IInv => TypeOK
  BY DEF IInv
<1> QED
  BY <1>1, InvAlways, PTL

\* However often an array grows, it never believes to have more room than its
\* block has, nor more elements than room (array_push).
THEOREM BooksAlwaysAgree == Spec => []BooksAgree
<1>1. IInv => BooksAgree
  BY DEF IInv
<1> QED
  BY <1>1, InvAlways, PTL

\* No two arrays ever share a block, and none is lost (array_push, array_swap).
THEOREM AlwaysOneOwner == Spec => []OneOwner
<1>1. IInv => OneOwner
  BY DEF IInv
<1> QED
  BY <1>1, InvAlways, PTL

\* The pointers that a client may use are at elements, where the array is now,
\* and array_idx tells their index, though it computes in a uint32_t.
THEOREM PointerAlwaysGood == Spec => []PointerGood
<1>1. IInv => PointerGood
  <2> SUFFICES ASSUME IInv, NEW x \in Arrays, pointer[x] # NULL
               PROVE  /\ x \in inuse
                      /\ pointer[x].elem = array[x].elem
                      /\ pointer[x].idx < array[x].nelem
                      /\ ArrayIdx(x) = pointer[x].idx
    BY DEF PointerGood
  <2> DEFINE i == pointer[x].idx
  <2>1. x \in inuse /\ pointer[x].elem = array[x].elem /\ i < array[x].nelem /\ i \in Nat
    BY DEF IInv, PointerInv, TypeOK
  <2>2. i \in 0 .. Memory
    BY <2>1, BlockOf, ArrayAssumption DEF IInv
  <2>3. Width \in Nat /\ Size \in Nat \ {0}
    BY ArrayAssumption
  <2> HIDE DEF i
  <2>4. (i * Size) % Width = i * Size
    BY <2>2, <2>3, Fits, SmallMod
  <2>5. (i * Size) \div Size = i
    BY <2>2, <2>3, DivBack
  <2>6. ArrayIdx(x) = i
    BY <2>4, <2>5 DEF ArrayIdx, i
  <2> QED
    BY <2>1, <2>6 DEF i
<1> QED
  BY <1>1, InvAlways, PTL

-----------------------------------------------------------------------------
(***************************************************************************)
(* The refinement: what the arrays are for their client.                   *)
(***************************************************************************)
Seqs == [x \in Arrays |-> IF x \in inuse THEN Elements(x) ELSE NULL]
CursorOf(p) == IF p = NULL THEN 0 ELSE p.idx + 1
Cursors == [x \in Arrays |-> CursorOf(pointer[x])]
Walk == IF each = NULL THEN NULL ELSE [array |-> each.array, visited |-> each.i + 1]

\* The elements of an array are the first nelem of its block.
LEMMA ElementsAre ==
  ASSUME IInv, NEW x \in inuse
  PROVE  /\ Elements(x) \in Seq(Values)
         /\ Len(Elements(x)) = array[x].nelem
         /\ \A i \in 1 .. array[x].nelem : Elements(x)[i] = block[array[x].elem][i]
         /\ Elements(x) # NULL
         /\ array[x].nelem \in Nat
<1> DEFINE s == block[array[x].elem]
           n == array[x].nelem
<1>1. s \in Seq(Values) /\ n \in Nat /\ n <= Len(s)
  BY BlockOf DEF IInv
<1>2. \A i \in 1 .. n : s[i] \in Values
  BY <1>1
<1> HIDE DEF s, n
<1>3. /\ SubSeq(s, 1, n) \in Seq(Values)
      /\ Len(SubSeq(s, 1, n)) = IF 1 <= n THEN n - 1 + 1 ELSE 0
      /\ \A i \in 1 .. n - 1 + 1 : SubSeq(s, 1, n)[i] = s[1 + i - 1]
  BY <1>1, <1>2, SubSeqProperties
<1>4. /\ Len(SubSeq(s, 1, n)) = n
      /\ \A i \in 1 .. n : SubSeq(s, 1, n)[i] = s[i]
  BY <1>1, <1>3
<1>5. SubSeq(s, 1, n) # NULL
  BY <1>3, ArrayAssumption
<1> QED
  BY <1>1, <1>3, <1>4, <1>5 DEF Elements, s, n

\* Elements(x)' is a sequence that agrees with the block in the next state.
LEMMA ElementsBecome ==
  ASSUME IInv', NEW x \in inuse', NEW t \in Seq(Values), Len(t) = array'[x].nelem,
         \A i \in 1 .. array'[x].nelem : t[i] = block'[array'[x].elem][i]
  PROVE  Elements(x)' = t
<1> DEFINE s == block'[array'[x].elem]
           n == array'[x].nelem
<1>1. s \in Seq(Values) /\ n \in Nat /\ n <= Len(s)
  BY ArrayAssumption DEF IInv, TypeOK, BooksAgree, RoomInv
<1>2. \A i \in 1 .. n : s[i] \in Values
  BY <1>1
<1>3. Len(t) = n /\ \A i \in 1 .. n : t[i] = s[i]
  OBVIOUS
<1> HIDE DEF s, n
<1>4. /\ SubSeq(s, 1, n) \in Seq(Values)
      /\ Len(SubSeq(s, 1, n)) = IF 1 <= n THEN n - 1 + 1 ELSE 0
      /\ \A i \in 1 .. n - 1 + 1 : SubSeq(s, 1, n)[i] = s[1 + i - 1]
  BY <1>1, <1>2, SubSeqProperties
<1>5. /\ Len(SubSeq(s, 1, n)) = Len(t)
      /\ \A i \in 1 .. Len(t) : SubSeq(s, 1, n)[i] = t[i]
  BY <1>1, <1>3, <1>4
<1>6. SubSeq(s, 1, n) = t
  BY <1>4, <1>5, SeqEqual
<1> QED
  BY <1>6 DEF Elements, s, n

\* A step that touches one array only.
LEMMA SeqsChange ==
  ASSUME IInv, IInv', NEW x \in Arrays,
         \A y \in Arrays \ {x} :
           /\ y \in inuse' <=> y \in inuse
           /\ y \in inuse => /\ array'[y].nelem = array[y].nelem
                             /\ block'[array'[y].elem] = block[array[y].elem]
  PROVE  Seqs' = [Seqs EXCEPT ![x] = IF x \in inuse' THEN Elements(x)' ELSE NULL]
<1>1. \A y \in Arrays \ {x} : y \in inuse => Elements(y)' = Elements(y)
  BY DEF Elements
<1> QED
  BY <1>1 DEF Seqs

\* A cursor follows its pointer, and no other does.
LEMMA CursorsChange ==
  ASSUME IInv, NEW x \in Arrays, NEW p, pointer' = [pointer EXCEPT ![x] = p]
  PROVE  Cursors' = [Cursors EXCEPT ![x] = CursorOf(p)]
  BY DEF Cursors, IInv, TypeOK

\* The cursor of a pointer is the index of its element, counted from 1.
LEMMA CursorOfAddress ==
  ASSUME NEW b \in Blocks, NEW i \in Nat
  PROVE  CursorOf([elem |-> b, idx |-> i]) = i + 1
<1>1. [elem |-> b, idx |-> i] \in [elem : Blocks, idx : Nat]
  OBVIOUS
<1> QED
  BY <1>1, ArrayAssumption DEF CursorOf

\* No pointer is no cursor.
LEMMA CursorOfNone == CursorOf(NULL) = 0
  BY DEF CursorOf

\* No array is in use at first, on either side.
LEMMA RefineInit == Init => Abstract!Init
  BY DEF Init, Abstract!Init

\* array_init starts an empty sequence.
LEMMA RefineStart ==
  ASSUME IInv, IInv', NEW x \in Arrays, NEW n \in Counts, ArrayInit(x, n), ~Refused
  PROVE  Abstract!Start(x)
<1>1. PICK b \in Blocks, content \in Fresh(n) :
        /\ block[b] = NULL
        /\ block' = [block EXCEPT ![b] = content]
        /\ array' = [array EXCEPT ![x] = [elem |-> b, nelem |-> 0, nalloc |-> n]]
  BY DEF ArrayInit
<1>2. /\ Idle /\ x \notin inuse
      /\ inuse' = inuse \cup {x}
      /\ pointer' = [pointer EXCEPT ![x] = NULL]
      /\ result' = NULL /\ UNCHANGED each
  BY DEF ArrayInit
<1>3. array'[x].nelem = 0
  BY <1>1 DEF IInv, TypeOK
<1>4. Elements(x)' = <<>>
  <2>1. x \in inuse'
    BY <1>2
  <2>2. <<>> \in Seq(Values) /\ Len(<<>>) = 0 /\ 1 .. 0 = {}
    OBVIOUS
  <2> QED
    BY <1>3, <2>1, <2>2, ElementsBecome
<1>5. Seqs' = [Seqs EXCEPT ![x] = <<>>]
  <2>1. ASSUME NEW y \in Arrays \ {x}, y \in inuse
        PROVE  array'[y] = array[y] /\ block'[array'[y].elem] = block[array[y].elem]
    <3>1. array[y].elem \in Blocks /\ array[y].elem # b
      BY <1>1, <2>1, BlockOf DEF IInv, BooksAgree
    <3> QED
      BY <1>1, <3>1 DEF IInv, TypeOK
  <2>2. Seqs' = [Seqs EXCEPT ![x] = IF x \in inuse' THEN Elements(x)' ELSE NULL]
    BY <1>2, <2>1, SeqsChange
  <2> QED
    BY <1>2, <1>4, <2>2
<1>6. Cursors' = [Cursors EXCEPT ![x] = 0]
  BY <1>2, CursorsChange, CursorOfNone
<1>7. Walk = NULL /\ Walk' = Walk /\ Seqs[x] = NULL
  BY <1>2 DEF Idle, Walk, Seqs
<1> QED
  BY <1>2, <1>5, <1>6, <1>7 DEF Abstract!Start, Abstract!Idle, Seqs, Cursors, CursorOf, Walk

\* array_deinit ends a sequence.
LEMMA RefineFinish ==
  ASSUME IInv, IInv', NEW x \in Arrays, ArrayDeinit(x), ~Refused
  PROVE  Abstract!Finish(x)
<1>1. /\ Idle /\ x \in inuse /\ array[x].nelem = 0
      /\ block' = [block EXCEPT ![array[x].elem] = NULL]
      /\ inuse' = inuse \ {x}
      /\ pointer' = [pointer EXCEPT ![x] = NULL]
      /\ result' = NULL
      /\ UNCHANGED <<array, each>>
  BY DEF ArrayDeinit
<1>2. Elements(x) = <<>>
  BY <1>1, ElementsAre, EmptySeq
<1>3. Seqs' = [Seqs EXCEPT ![x] = NULL]
  <2>1. ASSUME NEW y \in Arrays \ {x}, y \in inuse
        PROVE  block'[array[y].elem] = block[array[y].elem]
    <3>1. array[y].elem \in Blocks /\ array[y].elem # array[x].elem
      BY <1>1, <2>1, BlockOf DEF IInv, OneOwner
    <3> QED
      BY <1>1, <3>1 DEF IInv, TypeOK
  <2>2. Seqs' = [Seqs EXCEPT ![x] = IF x \in inuse' THEN Elements(x)' ELSE NULL]
    BY <1>1, <2>1, SeqsChange
  <2> QED
    BY <1>1, <2>2
<1>4. Cursors' = [Cursors EXCEPT ![x] = 0]
  BY <1>1, CursorsChange, CursorOfNone
<1>5. Walk = NULL /\ Walk' = Walk /\ Seqs[x] = <<>>
  BY <1>1, <1>2 DEF Idle, Walk, Seqs
<1> QED
  BY <1>1, <1>3, <1>4, <1>5 DEF Abstract!Finish, Abstract!Idle, Seqs, Cursors, CursorOf, Walk

\* Behind the elements that were there, a push appends one of any value.
LEMMA PushAppends ==
  ASSUME IInv, IInv', NEW x \in Arrays, ArrayPush(x), ~Refused
  PROVE  /\ \E v \in Values : Elements(x)' = Append(Elements(x), v)
         /\ \A y \in Arrays \ {x} :
              y \in inuse => /\ array'[y].nelem = array[y].nelem
                             /\ block'[array'[y].elem] = block[array[y].elem]
<1> DEFINE s == block[array[x].elem]
           r == block'[array'[x].elem]
           n == array[x].nelem
<1>1. x \in inuse /\ x \in inuse' /\ UNCHANGED inuse
  BY DEF ArrayPush
<1>2. s \in Seq(Values) /\ n \in 0 .. Len(s) /\ n \in Nat
  BY <1>1, BlockOf DEF IInv, Struct
<1>3. /\ r \in Seq(Values)
      /\ array'[x].nelem = n + 1
      /\ n + 1 <= Len(r)
      /\ \A i \in 1 .. n : r[i] = s[i]
      /\ \A y \in Arrays \ {x} :
           y \in inuse => /\ array'[y].nelem = array[y].nelem
                          /\ block'[array'[y].elem] = block[array[y].elem]
  <2>1. CASE array[x].nelem = array[x].nalloc /\ Realloc(x, 2 * array[x].nalloc)
    <3>1. /\ array'[x].nelem = n + 1
          /\ \A y \in Arrays \ {x} : array'[y] = array[y]
          /\ \A y \in inuse \ {x} : block'[array[y].elem] = block[array[y].elem]
      BY <1>1, <2>1, ReallocStep
    <3>2. PICK more \in Seq(Values) : more # <<>> /\ r = s \o more
      BY <1>1, <2>1, ReallocStep
    <3>3. n = Len(s) /\ Len(more) \in Nat /\ Len(more) # 0
      BY <1>1, <2>1, <3>2, BlockOf, EmptySeq DEF IInv
    <3> HIDE DEF s, r, n
    <3>4. /\ r \in Seq(Values) /\ Len(r) = Len(s) + Len(more)
          /\ \A i \in 1 .. Len(s) : r[i] = s[i]
      BY <1>2, <3>2, ConcatProperties
    <3> QED
      BY <1>2, <3>1, <3>3, <3>4 DEF n
  <2>2. CASE /\ array[x].nelem # array[x].nalloc
             /\ array' = [array EXCEPT ![x].nelem = array[x].nelem + 1]
             /\ UNCHANGED block
    <3>1. array'[x].elem = array[x].elem /\ array'[x].nelem = n + 1
          /\ \A y \in Arrays \ {x} : array'[y] = array[y]
      BY <2>2 DEF IInv, TypeOK
    <3>2. n + 1 <= Len(s)
      BY <1>1, <2>2, BlockOf DEF IInv
    <3> QED
      BY <1>2, <2>2, <3>1, <3>2
  <2> QED
    BY <2>1, <2>2 DEF ArrayPush
<1>4. r[n + 1] \in Values
  BY <1>2, <1>3
<1> DEFINE t == Append(Elements(x), r[n + 1])
<1>5. /\ Elements(x) \in Seq(Values) /\ Len(Elements(x)) = n
      /\ \A i \in 1 .. n : Elements(x)[i] = s[i]
  BY <1>1, ElementsAre
<1>6. /\ t \in Seq(Values) /\ Len(t) = n + 1
      /\ \A i \in 1 .. n : t[i] = Elements(x)[i]
      /\ t[n + 1] = r[n + 1]
  <2> HIDE DEF s, r, n
  <2> QED
    BY <1>2, <1>4, <1>5, AppendProperties
<1>7. \A i \in 1 .. n + 1 : t[i] = r[i]
  <2> HIDE DEF s, r, n, t
  <2> QED
    BY <1>2, <1>3, <1>5, <1>6
<1> HIDE DEF t
<1>8. Elements(x)' = t
  BY <1>1, <1>3, <1>6, <1>7, ElementsBecome
<1> QED
  BY <1>3, <1>4, <1>8 DEF t

\* array_push adds an element, whether or not the block moves.
LEMMA RefineAdd ==
  ASSUME IInv, IInv', NEW x \in Arrays, ArrayPush(x), ~Refused
  PROVE  Abstract!Add(x)
<1>1. /\ Idle /\ x \in inuse
      /\ pointer' = [pointer EXCEPT ![x] = Pushed(x)]
      /\ result' = NULL
      /\ UNCHANGED <<inuse, each>>
  BY DEF ArrayPush
<1>2. PICK v \in Values : Elements(x)' = Append(Elements(x), v)
  BY PushAppends
<1>3. Seqs' = [Seqs EXCEPT ![x] = Elements(x)']
  BY <1>1, PushAppends, SeqsChange
<1>4. Seqs[x] = Elements(x) /\ Elements(x) # NULL /\ Len(Elements(x)) = array[x].nelem
      /\ array[x].nelem \in Nat
  BY <1>1, ElementsAre DEF Seqs
<1>5. Cursors' = [Cursors EXCEPT ![x] = Len(Seqs[x]) + 1]
  <2>1. array'[x].elem \in Blocks
    BY <1>1 DEF IInv, TypeOK, BooksAgree
  <2> DEFINE p == [elem |-> array'[x].elem, idx |-> array[x].nelem]
  <2>2. pointer' = [pointer EXCEPT ![x] = p]
    BY <1>1 DEF Pushed
  <2>3. CursorOf(p) = Len(Seqs[x]) + 1
    BY <1>4, <2>1, CursorOfAddress
  <2> HIDE DEF p
  <2> QED
    BY <2>2, <2>3, CursorsChange
<1>6. Walk = NULL /\ Walk' = Walk
  BY <1>1 DEF Idle, Walk
<1>7. Seqs' = [Seqs EXCEPT ![x] = Append(Seqs[x], v)]
  BY <1>2, <1>3, <1>4
<1>8. Seqs[x] # NULL
  BY <1>4
<1> QED
  BY <1>1, <1>5, <1>6, <1>7, <1>8
  DEF Abstract!Add, Abstract!Idle, Seqs, Cursors, CursorOf, Walk

\* array_pop takes the last element.
LEMMA RefineTake ==
  ASSUME IInv, IInv', NEW x \in Arrays, ArrayPop(x), ~Refused
  PROVE  Abstract!Take(x)
<1> DEFINE n == array[x].nelem
           e == Elements(x)
<1>1. /\ Idle /\ x \in inuse /\ n # 0
      /\ array' = [array EXCEPT ![x].nelem = n - 1]
      /\ result' = [popped |-> Content(Address(x, n - 1))]
      /\ pointer' = [pointer EXCEPT ![x] = NULL]
      /\ UNCHANGED <<block, inuse, each>>
  BY DEF ArrayPop
<1>2. /\ e \in Seq(Values) /\ Len(e) = n /\ n \in Nat /\ e # NULL
      /\ \A i \in 1 .. n : e[i] = block[array[x].elem][i]
  BY <1>1, ElementsAre
<1>3. array'[x].nelem = n - 1 /\ array'[x].elem = array[x].elem
      /\ \A y \in Arrays \ {x} : array'[y] = array[y]
  BY <1>1 DEF IInv, TypeOK
<1>4. Content(Address(x, n - 1)) = e[Len(e)]
  BY <1>1, <1>2 DEF Content, Address
<1> DEFINE t == SubSeq(e, 1, Len(e) - 1)
<1>5. /\ t \in Seq(Values) /\ Len(t) = n - 1
      /\ \A i \in 1 .. n - 1 : t[i] = e[i]
  <2> HIDE DEF e, n
  <2>1. n - 1 \in Int /\ \A i \in 1 .. n - 1 : e[i] \in Values
    BY <1>2
  <2>2. /\ SubSeq(e, 1, n - 1) \in Seq(Values)
        /\ Len(SubSeq(e, 1, n - 1)) = IF 1 <= n - 1 THEN n - 1 - 1 + 1 ELSE 0
        /\ \A i \in 1 .. n - 1 - 1 + 1 : SubSeq(e, 1, n - 1)[i] = e[1 + i - 1]
    BY <2>1, SubSeqProperties
  <2> QED
    BY <1>1, <1>2, <2>2
<1>6. Elements(x)' = t
  <2>1. \A i \in 1 .. n - 1 : t[i] = block'[array'[x].elem][i]
    BY <1>1, <1>2, <1>3, <1>5
  <2> HIDE DEF t
  <2> QED
    BY <1>1, <1>3, <1>5, <2>1, ElementsBecome
<1>7. Seqs' = [Seqs EXCEPT ![x] = t]
  <2> HIDE DEF t
  <2> QED
    BY <1>1, <1>3, <1>6, SeqsChange
<1>8. Cursors' = [Cursors EXCEPT ![x] = 0]
  BY <1>1, CursorsChange, CursorOfNone
<1>9. Walk = NULL /\ Walk' = Walk /\ Seqs[x] = e
  BY <1>1 DEF Idle, Walk, Seqs
<1>10. e # <<>>
  BY <1>1, <1>2, EmptySeq
<1> HIDE DEF e, n
<1>11. /\ Seqs' = [Seqs EXCEPT ![x] = SubSeq(Seqs[x], 1, Len(Seqs[x]) - 1)]
       /\ result' = [popped |-> Seqs[x][Len(Seqs[x])]]
       /\ Seqs[x] # NULL /\ Seqs[x] # <<>>
  BY <1>1, <1>2, <1>4, <1>7, <1>9, <1>10
<1> QED
  BY <1>8, <1>9, <1>11 DEF Abstract!Take, Abstract!Idle, Seqs, Cursors, CursorOf, Walk

\* Steps after which every array has the elements it had.
LEMMA SeqsStay ==
  ASSUME UNCHANGED <<block, array, inuse>>
  PROVE  Seqs' = Seqs
  BY DEF Seqs, Elements

\* array_get points at an element.
LEMMA RefinePoint ==
  ASSUME IInv, NEW x \in Arrays, NEW i \in Nat, ArrayGet(x, i), ~Refused
  PROVE  Abstract!Point(x)
<1>1. /\ Idle /\ x \in inuse /\ i < array[x].nelem
      /\ pointer' = [pointer EXCEPT ![x] = Address(x, i)]
      /\ result' = NULL
      /\ UNCHANGED <<block, array, inuse, each>>
  BY DEF ArrayGet
<1>2. /\ Seqs[x] = Elements(x) /\ Elements(x) # NULL
      /\ Len(Elements(x)) = array[x].nelem /\ array[x].nelem \in Nat
  BY <1>1, ElementsAre DEF Seqs
<1>3. i + 1 \in 1 .. Len(Seqs[x]) /\ Seqs[x] # NULL
  BY <1>1, <1>2
<1>4. Cursors' = [Cursors EXCEPT ![x] = i + 1]
  <2>1. array[x].elem \in Blocks
    BY <1>1, BlockOf DEF IInv
  <2>2. CursorOf(Address(x, i)) = i + 1
    BY <2>1, CursorOfAddress DEF Address
  <2> QED
    BY <1>1, <2>2, CursorsChange
<1>5. Walk = NULL /\ Walk' = Walk /\ Seqs' = Seqs
  BY <1>1, SeqsStay DEF Idle, Walk
<1> QED
  BY <1>1, <1>3, <1>4, <1>5
  DEF Abstract!Point, Abstract!Idle, Seqs, Cursors, CursorOf, Walk

\* array_swap exchanges two sequences.
LEMMA RefineExchange ==
  ASSUME IInv, NEW x \in Arrays, NEW y \in Arrays, ArraySwap(x, y)
  PROVE  Abstract!Exchange(x, y)
<1>1. /\ Idle /\ x \in inuse /\ y \in inuse
      /\ array' = [array EXCEPT ![x] = array[y], ![y] = array[x]]
      /\ pointer' = [pointer EXCEPT ![x] = pointer[y], ![y] = pointer[x]]
      /\ result' = NULL
      /\ UNCHANGED <<block, inuse, each>>
  BY DEF ArraySwap
<1>2. /\ array \in [Arrays -> Struct] /\ DOMAIN pointer = Arrays
  BY DEF IInv, TypeOK, Struct
<1>3. Seqs' = [Seqs EXCEPT ![x] = Seqs[y], ![y] = Seqs[x]]
  BY <1>1, <1>2 DEF Seqs, Elements
<1>4. Cursors' = [Cursors EXCEPT ![x] = Cursors[y], ![y] = Cursors[x]]
  BY <1>1, <1>2 DEF Cursors
<1>5. Walk = NULL /\ Walk' = Walk
  BY <1>1 DEF Idle, Walk
<1> QED
  BY <1>1, <1>3, <1>4, <1>5
  DEF Abstract!Exchange, Abstract!Idle, Seqs, Cursors, CursorOf, Walk

\* A turn of array_each visits the next element.
LEMMA RefineVisit ==
  ASSUME IInv, NEW x \in Arrays, EachCall(x)
  PROVE  Abstract!Visit(x)
<1> DEFINE n == IF Walk = NULL THEN 1 ELSE Walk.visited + 1
<1>1. /\ x \in inuse
      /\ pointer' = [pointer EXCEPT ![x] = Address(x, each'.i)]
      /\ result' = NULL
      /\ UNCHANGED <<block, array, inuse>>
  BY DEF EachCall
<1>2. /\ Seqs[x] = Elements(x) /\ Elements(x) # NULL
      /\ Len(Elements(x)) = array[x].nelem /\ array[x].nelem \in Nat
  BY <1>1, ElementsAre DEF Seqs
<1>3. /\ each' # NULL /\ each'.array = x /\ each'.i \in Nat /\ each'.i + 1 = n
      /\ n <= array[x].nelem
      /\ Walk = NULL \/ Walk.array = x
  <2>1. CASE each = NULL /\ array[x].nelem # 0
             /\ each' = [array |-> x, i |-> 0, nelem |-> array[x].nelem]
    <3>1. each' \in [array : Arrays, i : Nat, nelem : Nat]
      BY <1>2, <2>1
    <3>2. each' # NULL
      BY <3>1, ArrayAssumption
    <3> QED
      BY <1>2, <2>1, <3>2 DEF Walk
  <2>2. CASE each # NULL /\ each.array = x /\ each.i + 1 < each.nelem
             /\ each' = [each EXCEPT !.i = each.i + 1]
    <3>1. each \in [array : Arrays, i : Nat, nelem : Nat] /\ each.nelem = array[x].nelem
      BY <2>2 DEF IInv, TypeOK, EachInv
    <3>2. each' \in [array : Arrays, i : Nat, nelem : Nat]
      BY <2>2, <3>1
    <3>3. each' # NULL
      BY <3>2, ArrayAssumption
    <3>4. Walk = [array |-> each.array, visited |-> each.i + 1]
      BY <2>2 DEF Walk
    <3>5. Walk \in [array : Arrays, visited : Nat]
      BY <3>1, <3>4
    <3>6. Walk # NULL
      BY <3>5, ArrayAssumption
    <3> QED
      BY <2>2, <3>1, <3>3, <3>4, <3>6
  <2> QED
    BY <2>1, <2>2 DEF EachCall
<1>4. Cursors' = [Cursors EXCEPT ![x] = n]
  <2>1. array[x].elem \in Blocks
    BY <1>1, BlockOf DEF IInv
  <2>2. CursorOf(Address(x, each'.i)) = n
    BY <1>3, <2>1, CursorOfAddress DEF Address
  <2> QED
    BY <1>1, <2>2, CursorsChange
<1>5. Walk' = [array |-> x, visited |-> n]
  BY <1>3 DEF Walk
<1>6. Seqs' = Seqs
  BY <1>1, SeqsStay
<1>7. Seqs[x] # NULL /\ n <= Len(Seqs[x])
  BY <1>2, <1>3
<1> QED
  BY <1>1, <1>3, <1>4, <1>5, <1>6, <1>7
  DEF Abstract!Visit, Abstract!Idle, Seqs, Cursors, CursorOf, Walk

\* The end of array_each leaves the walk.
LEMMA RefineLeave ==
  ASSUME IInv, EachReturn
  PROVE  Abstract!Leave
<1>1. /\ each # NULL /\ each' = NULL
      /\ \/ result' = [each |-> "error"]
         \/ each.i + 1 = each.nelem /\ result' = [each |-> "ok"]
      /\ UNCHANGED <<block, array, inuse, pointer>>
  BY DEF EachReturn, EachEnds
<1>2. /\ each \in [array : Arrays, i : Nat, nelem : Nat]
      /\ each.array \in inuse /\ each.nelem = array[each.array].nelem
  BY <1>1 DEF IInv, TypeOK, EachInv
<1>3. Walk = [array |-> each.array, visited |-> each.i + 1]
  BY <1>1 DEF Walk
<1>4. Walk \in [array : Arrays, visited : Nat]
  BY <1>2, <1>3
<1>5. Walk # NULL
  BY <1>4, ArrayAssumption
<1>6. Len(Seqs[each.array]) = each.nelem
  BY <1>2, ElementsAre DEF Seqs
<1>7. Walk' = NULL /\ Seqs' = Seqs /\ Cursors' = Cursors
  BY <1>1, SeqsStay DEF Walk, Cursors
<1>8. \/ result' = [each |-> "error"]
      \/ result' = [each |-> "ok"] /\ Walk.visited = Len(Seqs[Walk.array])
  BY <1>1, <1>3, <1>6
<1> QED
  BY <1>5, <1>7, <1>8 DEF Abstract!Leave, Abstract!Idle, Seqs, Cursors, CursorOf, Walk

\* A call that is refused leaves the sequences as they are.
LEMMA RefineRefuse ==
  ASSUME Refused
  PROVE  Abstract!Refuse
<1>1. result' = NULL /\ UNCHANGED <<block, array, inuse, pointer, each>>
  BY DEF Refused
<1>2. Seqs' = Seqs /\ Cursors' = Cursors /\ Walk' = Walk
  BY <1>1, SeqsStay DEF Cursors, Walk
<1> QED
  BY <1>1, <1>2 DEF Abstract!Refuse, Seqs, Cursors, CursorOf, Walk

\* A step that writes to the block of one array.
LEMMA OthersStay ==
  ASSUME IInv, NEW x \in inuse, UNCHANGED <<array, inuse>>, NEW s,
         block' = [block EXCEPT ![array[x].elem] = s]
  PROVE  /\ block'[array[x].elem] = s
         /\ \A y \in Arrays \ {x} :
              /\ y \in inuse' <=> y \in inuse
              /\ y \in inuse => /\ array'[y].nelem = array[y].nelem
                                /\ block'[array'[y].elem] = block[array[y].elem]
<1>1. array[x].elem \in Blocks /\ DOMAIN block = Blocks
  BY BlockOf DEF IInv, TypeOK
<1>2. ASSUME NEW y \in inuse, y # x
      PROVE  array[y].elem \in Blocks /\ array[y].elem # array[x].elem
  BY <1>2, BlockOf DEF IInv, OneOwner
<1> QED
  BY <1>1, <1>2

\* Both modules count alike.
LEMMA SameCardinality ==
  ASSUME NEW S
  PROVE  Abstract!Cardinality(S) = Cardinality(S)
  BY Zenon DEF Cardinality, Abstract!Cardinality

\* array_sort rearranges the sequence.
LEMMA RefineSort ==
  ASSUME IInv, IInv', NEW x \in Arrays, ArraySort(x), ~Refused
  PROVE  Abstract!Sort(x)
<1> DEFINE b == array[x].elem
           n == array[x].nelem
           e == Elements(x)
           sorted(t) == [i \in DOMAIN block[b] |-> IF i <= n THEN t[i] ELSE block[b][i]]
<1>1. Idle /\ x \in inuse /\ result' = NULL /\ UNCHANGED <<array, inuse, pointer, each>>
  BY DEF ArraySort
<1>2. /\ block[b] \in Seq(Values) /\ n \in 0 .. Len(block[b])
      /\ e \in Seq(Values) /\ Len(e) = n /\ n \in Nat /\ e # NULL
      /\ \A i \in 1 .. n : e[i] = block[b][i]
  BY <1>1, BlockOf, ElementsAre DEF IInv
<1>3. PICK t \in Room(n) :
        /\ IsSorted(t) /\ Reorders(t, block[b], n)
        /\ block' = [block EXCEPT ![b] = sorted(t)]
  BY <1>1, BlockOf DEF ArraySort, IInv, TypeOK
<1>4. /\ t \in [1 .. n -> Values] /\ t \in Seq(Values) /\ Len(t) = n
  BY <1>2, SMTT(20) DEF Room
<1>5. \A i \in 1 .. n : sorted(t)[i] = t[i]
  BY <1>2
<1>6. /\ block'[b] = sorted(t)
      /\ \A y \in Arrays \ {x} :
           /\ y \in inuse' <=> y \in inuse
           /\ y \in inuse => /\ array'[y].nelem = array[y].nelem
                             /\ block'[array'[y].elem] = block[array[y].elem]
  <2> HIDE DEF sorted
  <2> QED
    BY <1>1, <1>3, OthersStay
<1>7. Elements(x)' = t
  <2> HIDE DEF sorted
  <2> QED
    BY <1>1, <1>4, <1>5, <1>6, ElementsBecome
<1>8. Seqs' = [Seqs EXCEPT ![x] = t]
  BY <1>1, <1>6, <1>7, SeqsChange
<1>9. DOMAIN e = 1 .. n
  BY <1>2
<1>10. Abstract!Reorders(t, e)
  <2>1. ASSUME NEW v \in Values
        PROVE  Cardinality({i \in DOMAIN e : t[i] = v})
                 = Cardinality({i \in DOMAIN e : e[i] = v})
    <3>1. {i \in DOMAIN e : e[i] = v} = {i \in 1 .. n : block[b][i] = v}
      BY <1>2, <1>9
    <3>2. {i \in DOMAIN e : t[i] = v} = {i \in 1 .. n : t[i] = v}
      BY <1>9
    <3> HIDE DEF e
    <3> QED
      BY <1>3, <3>1, <3>2 DEF Reorders
  <2> HIDE DEF e
  <2> QED
    BY <2>1, SameCardinality, Zenon DEF Abstract!Reorders
<1>11. Abstract!IsSorted(t)
  BY <1>3 DEF IsSorted, Abstract!IsSorted
<1>12. /\ Walk = NULL /\ Walk' = Walk /\ Cursors' = Cursors
       /\ Seqs[x] = e
  BY <1>1 DEF Idle, Walk, Cursors, Seqs
<1> HIDE DEF e, n
<1>13. /\ Seqs[x] # NULL /\ t \in [DOMAIN Seqs[x] -> Values]
       /\ Abstract!Reorders(t, Seqs[x])
  BY <1>2, <1>4, <1>9, <1>10, <1>12
<1> QED
  BY <1>1, <1>8, <1>11, <1>12, <1>13
  DEF Abstract!Sort, Abstract!Idle, Seqs, Cursors, CursorOf, Walk

\* Writing through a pointer replaces the element under the cursor.
LEMMA RefinePut ==
  ASSUME IInv, IInv', NEW x \in Arrays, Write(x)
  PROVE  Abstract!Put(x)
<1> DEFINE b == array[x].elem
           n == array[x].nelem
           i == pointer[x].idx + 1
           e == Elements(x)
<1>1. /\ pointer[x] # NULL /\ result' = NULL
      /\ UNCHANGED <<array, inuse, pointer, each>>
  BY DEF Write
<1>2. x \in inuse /\ pointer[x].elem = b /\ pointer[x].idx \in Nat /\ pointer[x].idx < n
  BY <1>1 DEF IInv, PointerInv, TypeOK
<1>3. /\ block[b] \in Seq(Values) /\ n \in 0 .. Len(block[b])
      /\ e \in Seq(Values) /\ Len(e) = n /\ n \in Nat
      /\ \A j \in 1 .. n : e[j] = block[b][j]
  BY <1>2, BlockOf, ElementsAre DEF IInv
<1>4. i \in 1 .. n
  BY <1>2, <1>3
<1>5. PICK v \in Values : block' = [block EXCEPT ![b] = [block[b] EXCEPT ![i] = v]]
  BY <1>2 DEF Write
<1> DEFINE s == [block[b] EXCEPT ![i] = v]
           t == [e EXCEPT ![i] = v]
<1>6. /\ t \in Seq(Values) /\ Len(t) = n
      /\ \A j \in 1 .. n : t[j] = s[j]
  <2> HIDE DEF e, i, n
  <2> QED
    BY <1>3, <1>4
<1> HIDE DEF s, t
<1>7. /\ block'[b] = s
      /\ \A y \in Arrays \ {x} :
           /\ y \in inuse' <=> y \in inuse
           /\ y \in inuse => /\ array'[y].nelem = array[y].nelem
                             /\ block'[array'[y].elem] = block[array[y].elem]
  BY <1>1, <1>2, <1>5, OthersStay DEF s
<1>8. Elements(x)' = t
  BY <1>1, <1>2, <1>6, <1>7, ElementsBecome
<1>9. Seqs' = [Seqs EXCEPT ![x] = t]
  BY <1>1, <1>2, <1>7, <1>8, SeqsChange
<1>10. Seqs[x] = e /\ x \in Arrays
  BY <1>2 DEF Seqs
<1>11. Cursors[x] = i
  BY <1>1 DEF Cursors, CursorOf
<1>12. Cursors[x] # 0
  BY <1>4, <1>11
<1>13. Walk' = Walk /\ Cursors' = Cursors
  BY <1>1 DEF Walk, Cursors
<1>14. Seqs' = [Seqs EXCEPT ![x][Cursors[x]] = v]
  BY <1>9, <1>10, <1>11 DEF t
<1> QED
  BY <1>1, <1>12, <1>13, <1>14
  DEF Abstract!Put, Abstract!Idle, Seqs, Cursors, CursorOf, Walk

\* Every step is one of the sequences, or changes nothing of them.
LEMMA RefineNext == IInv /\ IInv' /\ [Next]_vars => [Abstract!Next]_(Abstract!vars)
<1> SUFFICES ASSUME IInv, IInv', [Next]_vars PROVE [Abstract!Next]_(Abstract!vars)
  OBVIOUS
<1>1. CASE UNCHANGED vars
  BY <1>1, SeqsStay DEF vars, Abstract!vars, Seqs, Elements
<1>2. CASE Refused
  BY <1>2, RefineRefuse DEF Abstract!Next
<1>3. ASSUME NEW x \in Arrays, NEW n \in Counts, ArrayInit(x, n), ~Refused
      PROVE  Abstract!Next
  BY <1>3, RefineStart DEF Abstract!Next
<1>4. ASSUME NEW x \in Arrays, NEW i \in 0 .. Memory, ArrayGet(x, i), ~Refused
      PROVE  Abstract!Next
  BY <1>4, RefinePoint DEF Abstract!Next
<1>5. ASSUME NEW x \in Arrays, ArrayTop(x), ~Refused PROVE Abstract!Next
  <2>1. array[x].nelem - 1 \in Nat
    BY <1>5, BlockOf DEF ArrayTop, ArrayGet, IInv, Struct
  <2> QED
    BY <1>5, <2>1, RefinePoint DEF ArrayTop, Abstract!Next
<1>6. ASSUME NEW x \in Arrays, ~Refused,
             ArrayDeinit(x) \/ ArrayPush(x) \/ ArrayPop(x) \/ ArraySort(x)
      PROVE  Abstract!Next
  BY <1>6, RefineFinish, RefineAdd, RefineTake, RefineSort DEF Abstract!Next
<1>7. ASSUME NEW x \in Arrays, EachCall(x) \/ Write(x) PROVE Abstract!Next
  BY <1>7, RefineVisit, RefinePut DEF Abstract!Next
<1>8. ASSUME NEW x \in Arrays, NEW y \in Arrays, ArraySwap(x, y) PROVE Abstract!Next
  BY <1>8, RefineExchange DEF Abstract!Next
<1>9. CASE EachReturn
  BY <1>9, RefineLeave DEF Abstract!Next
<1> QED
  BY <1>1, <1>2, <1>3, <1>4, <1>5, <1>6, <1>7, <1>8, <1>9 DEF Next, EachOfNone

\* For their client the arrays are sequences, whatever moves, grows or is
\* shared out below (xarray.c).
THEOREM Implements == Spec => ImplementsSeqs
  BY RefineInit, RefineNext, InvAlways, PTL DEF Spec, ImplementsSeqs, Abstract!Spec
=============================================================================
