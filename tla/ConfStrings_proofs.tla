-------------------------- MODULE ConfStrings_proofs --------------------------
(***************************************************************************)
(* The texts of a configuration, for any files, fields, numbers of pools   *)
(* and failures of malloc: who owns them, and where they can be lost.      *)
(* And what the loader makes of a text that should be a number: both the   *)
(* C code's value and the number meant are recursions over the text, and   *)
(* are compared character by character.                                    *)
(***************************************************************************)
EXTENDS ConfStrings, Induction, TLAPS

\* The arguments on the stack have texts, and no others.
ArgInv == \A i \in 1 .. 3 : data[<<0, Argument[i]>>] # NULL <=> i <= narg

\* Only the pools that there are have texts.
PoolInv == \A k \in 1 .. MaxPools, f \in Fields : data[<<k, f>>] # NULL => k <= npool

\* What is on the stack when a pool begins, and when a directive is set.
StageInv ==
  /\ pc = "pool" => narg = 1
  /\ pc \in {"set", "pop"} => narg = 3
  /\ pc \in {"scalar", "set", "pop"} /\ narg >= 1 => npool >= 1

MemoryOK ==
  /\ data \in [Place -> Blocks \cup {NULL}]
  /\ heap \in [Blocks -> Texts \cup {NULL}]
  /\ lost \subseteq Blocks

IInv == TypeOK /\ TextHasOneOwner /\ ArgInv /\ PoolInv /\ StageInv /\ LossBounded

-----------------------------------------------------------------------------
(***************************************************************************)
(* Places and texts.                                                       *)
(***************************************************************************)
LEMMA ArgumentNames ==
  /\ Argument[1] = "poolname" /\ Argument[2] = "key" /\ Argument[3] = "value"
  /\ Arguments = {"poolname", "key", "value"}
  /\ \A i \in 1 .. 3 : Argument[i] \in Arguments
  /\ \A i, j \in 1 .. 3 : Argument[i] = Argument[j] => i = j
<1>1. Argument[1] = "poolname" /\ Argument[2] = "key" /\ Argument[3] = "value"
  BY DEF Argument
<1>2. 1 .. 3 = {1, 2, 3}
  OBVIOUS
<1> QED
  BY <1>1, <1>2 DEF Arguments

\* A place is one of the three arguments or a field of a pool, never both.
LEMMA Places ==
  /\ \A i \in 1 .. 3 : <<0, Argument[i]>> \in Place
  /\ \A k \in 1 .. MaxPools, f \in Fields : <<k, f>> \in Place
  /\ \A p \in Place : \/ \E i \in 1 .. 3 : p = <<0, Argument[i]>>
                      \/ \E k \in 1 .. MaxPools, f \in Fields : p = <<k, f>>
  /\ \A k \in 1 .. MaxPools, i \in 1 .. 3, f \in Fields : <<k, f>> # <<0, Argument[i]>>
<1>1. \A i \in 1 .. 3 : Argument[i] \in Arguments
  BY ArgumentNames
<1>2. \A a \in Arguments : \E i \in 1 .. 3 : a = Argument[i]
  BY DEF Arguments
<1> QED
  BY <1>1, <1>2 DEF Place

\* The null pointer is no block and no text.
LEMMA Nulls == NULL \notin Blocks /\ NULL \notin Texts /\ Blocks \subseteq Nat
  BY StringsAssumption DEF Blocks

\* What is pushed is a text.
LEMMA ScalarsAreTexts ==
  ASSUME NEW i \in 1 .. 3, NEW text \in Scalars[Argument[i]]
  PROVE  text \in Texts
  BY ArgumentNames DEF Texts

-----------------------------------------------------------------------------
(***************************************************************************)
(* The two things that happen to texts.                                    *)
(***************************************************************************)
LEMMA CopyKeeps ==
  ASSUME MemoryOK, TextHasOneOwner, UNCHANGED lost,
         NEW place \in Place, data[place] = NULL,
         NEW text \in Texts, Copy(place, text)
  PROVE  /\ MemoryOK' /\ TextHasOneOwner'
         /\ data'[place] # NULL
         /\ \A p \in Place \ {place} : data'[p] = data[p]
<1>1. PICK b \in Blocks :
        /\ heap[b] = NULL
        /\ data' = [data EXCEPT ![place] = b]
        /\ heap' = [heap EXCEPT ![b] = text]
  BY DEF Copy, IsFree
<1>2. b # NULL /\ text # NULL
  BY Nulls
<1>3. data'[place] = b /\ \A p \in Place \ {place} : data'[p] = data[p]
  BY <1>1 DEF MemoryOK
<1>4. heap'[b] = text /\ \A c \in Blocks \ {b} : heap'[c] = heap[c]
  BY <1>1 DEF MemoryOK
<1>5. MemoryOK'
  BY <1>1 DEF MemoryOK
<1>6. b \notin Allocated /\ b \notin Pointed /\ b \notin lost
  BY <1>1 DEF TextHasOneOwner, Allocated
<1>7. \A p \in Place : data[p] # b
  BY <1>2, <1>6 DEF Pointed
<1>8. Allocated' = Allocated \cup {b}
  BY <1>2, <1>4 DEF Allocated
<1>9. Pointed' = Pointed \cup {b}
  BY <1>2, <1>3 DEF Pointed
<1>10. \A p, q \in Place : data'[p] = data'[q] /\ data'[p] # NULL => p = q
  BY <1>3, <1>7 DEF TextHasOneOwner
<1>11. TextHasOneOwner'
  BY <1>6, <1>8, <1>9, <1>10 DEF TextHasOneOwner
<1> QED
  BY <1>2, <1>3, <1>5, <1>11

\* string_deinit and string_init leave each text that remains with one owner.
LEMMA ReleaseKeeps ==
  ASSUME MemoryOK, TextHasOneOwner,
         NEW released \in SUBSET Place, NEW reset \in SUBSET Place,
         released \cap reset = {}, Release(released, reset)
  PROVE  /\ MemoryOK' /\ TextHasOneOwner'
         /\ \A p \in Place :
              data'[p] = IF p \in released \cup reset THEN NULL ELSE data[p]
<1>1. \A p \in Place : data'[p] = IF p \in released \cup reset THEN NULL ELSE data[p]
  BY DEF Release
<1>2. /\ heap' = [b \in Blocks |-> IF \E p \in released : data[p] = b THEN NULL ELSE heap[b]]
      /\ lost' = lost \cup ({data[p] : p \in reset} \ {NULL})
  BY DEF Release
<1> DEFINE freed == {data[p] : p \in released} \ {NULL}
           mislaid == {data[p] : p \in reset} \ {NULL}
<1>3. MemoryOK'
  <2>1. mislaid \subseteq Blocks
    BY DEF MemoryOK
  <2>2. data' \in [Place -> Blocks \cup {NULL}]
    BY DEF MemoryOK, Release
  <2>3. heap' \in [Blocks -> Texts \cup {NULL}]
    BY <1>2 DEF MemoryOK
  <2> QED
    BY <1>2, <2>1, <2>2, <2>3 DEF MemoryOK
<1>4. Allocated' = Allocated \ freed
  BY <1>2, Nulls DEF Allocated, MemoryOK
<1>5. Pointed = {data[p] : p \in Place} \ {NULL}
      /\ \A p, q \in Place : data[p] = data[q] /\ data[p] # NULL => p = q
  BY DEF Pointed, TextHasOneOwner
<1>6. Pointed' = Pointed \ (freed \cup mislaid)
  <2>1. ASSUME NEW b \in Pointed' PROVE b \in Pointed /\ b \notin freed \cup mislaid
    <3>1. PICK p \in Place : data'[p] = b /\ b # NULL
      BY <2>1 DEF Pointed
    <3>2. p \notin released \cup reset /\ data[p] = b
      BY <1>1, <3>1
    <3> QED
      BY <1>5, <3>1, <3>2
  <2>2. ASSUME NEW b \in Pointed, b \notin freed \cup mislaid PROVE b \in Pointed'
    <3>1. PICK p \in Place : data[p] = b /\ b # NULL
      BY <1>5
    <3>2. p \notin released \cup reset
      BY <2>2, <3>1
    <3>3. data'[p] = b
      BY <1>1, <3>1, <3>2
    <3> QED
      BY <3>1, <3>3 DEF Pointed
  <2> QED
    BY <2>1, <2>2
<1>7. /\ freed \subseteq Pointed /\ mislaid \subseteq Pointed
      /\ freed \cap mislaid = {}
  BY <1>5
<1>8. lost' = lost \cup mislaid
  BY <1>2
<1>9. \A p, q \in Place : data'[p] = data'[q] /\ data'[p] # NULL => p = q
  BY <1>1, <1>5
<1>10. TextHasOneOwner'
  <2> HIDE DEF freed, mislaid
  <2>1. Allocated = Pointed \cup lost /\ Pointed \cap lost = {}
    BY DEF TextHasOneOwner
  <2>2. Allocated' = Pointed' \cup lost' /\ Pointed' \cap lost' = {}
    BY <1>4, <1>6, <1>7, <1>8, <2>1
  <2> QED
    BY <1>9, <2>2 DEF TextHasOneOwner
<1> QED
  BY <1>1, <1>3, <1>10

\* conf_pop_scalar gives back exactly the arguments it takes off, and loses none.
LEMMA PopKeeps ==
  ASSUME MemoryOK, TextHasOneOwner, ArgInv, narg \in 0 .. 3, NEW n \in 1 .. narg, Pop(n)
  PROVE  /\ MemoryOK' /\ TextHasOneOwner' /\ ArgInv'
         /\ UNCHANGED lost /\ narg' = narg - n
         /\ \A k \in 1 .. MaxPools, f \in Fields : data'[<<k, f>>] = data[<<k, f>>]
<1> DEFINE released == {<<0, Argument[i]>> : i \in narg - n + 1 .. narg}
<1>1. Release(released, {}) /\ narg' = narg - n
  BY DEF Pop
<1>2. narg - n + 1 .. narg \subseteq 1 .. 3
  OBVIOUS
<1>3. released \in SUBSET Place
  BY <1>2, Places
<1>4. /\ MemoryOK' /\ TextHasOneOwner'
      /\ \A p \in Place : data'[p] = IF p \in released THEN NULL ELSE data[p]
  <2> HIDE DEF released
  <2> QED
    BY <1>1, <1>3, ReleaseKeeps
<1>5. UNCHANGED lost
  BY <1>1 DEF Release
<1>6. \A k \in 1 .. MaxPools, f \in Fields : <<k, f>> \notin released
  BY <1>2, Places
<1>7. \A i \in 1 .. 3 : <<0, Argument[i]>> \in released <=> i \in narg - n + 1 .. narg
  BY <1>2, ArgumentNames
<1> HIDE DEF released
<1>8. ArgInv'
  <2> SUFFICES ASSUME NEW i \in 1 .. 3
               PROVE  data'[<<0, Argument[i]>>] # NULL <=> i <= narg'
    BY DEF ArgInv
  <2>1. data[<<0, Argument[i]>>] # NULL <=> i <= narg
    BY DEF ArgInv
  <2>2. data'[<<0, Argument[i]>>]
          = IF i \in narg - n + 1 .. narg THEN NULL ELSE data[<<0, Argument[i]>>]
    BY <1>4, <1>7, Places
  <2> QED
    BY <1>1, <2>1, <2>2
<1> QED
  BY <1>1, <1>4, <1>5, <1>6, <1>8, Places

-----------------------------------------------------------------------------
(***************************************************************************)
(* The invariant.                                                          *)
(***************************************************************************)
LEMMA InitInv == Init => IInv
<1> SUFFICES ASSUME Init PROVE IInv
  OBVIOUS
<1> USE DEF Init
<1>1. TypeOK
  BY StringsAssumption DEF TypeOK, CONF_UNSET_NUM
<1>2. TextHasOneOwner
  BY DEF TextHasOneOwner, Allocated, Pointed
<1>3. ArgInv /\ PoolInv
  BY Places DEF ArgInv, PoolInv
<1>4. StageInv /\ LossBounded
  BY DEF StageInv, LossBounded
<1> QED
  BY <1>1, <1>2, <1>3, <1>4 DEF IInv

\* The text of an argument on the stack, or of any other place that has one.
LEMMA TextIsText ==
  ASSUME TypeOK, TextHasOneOwner, NEW p \in Place, data[p] # NULL
  PROVE  TextAt(p) \in Texts
<1>1. data[p] \in Allocated
  BY DEF TextHasOneOwner, Pointed
<1> QED
  BY <1>1 DEF Allocated, TextAt, TypeOK

\* conf_push_scalar keeps the invariant, with memory or without.
LEMMA PushScalarStep ==
  ASSUME IInv, PushScalar
  PROVE  IInv'
<1> USE DEF IInv
<1>1. /\ pc = "scalar" /\ narg \in 0 .. 2
      /\ UNCHANGED <<npool, number, origin, lost>>
  BY DEF PushScalar, TypeOK
<1>2. CASE NoMemory /\ UNCHANGED narg
  <2>1. TypeOK' /\ StageInv' /\ LossBounded'
    BY <1>1, <1>2, StringsAssumption
    DEF NoMemory, Fails, Goto, TypeOK, StageInv, LossBounded
  <2>2. TextHasOneOwner' /\ ArgInv' /\ PoolInv'
    BY <1>1, <1>2 DEF NoMemory, TextHasOneOwner, Allocated, Pointed, ArgInv, PoolInv
  <2> QED
    BY <2>1, <2>2
<1>3. ASSUME NEW text \in Scalars[Argument[narg + 1]],
             Copy(<<0, Argument[narg + 1]>>, text),
             narg' = narg + 1,
             pc' = <<"pool", "scalar", "set">>[narg + 1],
             UNCHANGED faults
      PROVE  IInv'
  <2> DEFINE place == <<0, Argument[narg + 1]>>
  <2>1. narg + 1 \in 1 .. 3
    BY <1>1
  <2>2. place \in Place /\ data[place] = NULL /\ text \in Texts
    <3>1. text \in Texts
      BY <1>3, <2>1, ScalarsAreTexts
    <3>2. ~(narg + 1 <= narg)
      BY <1>1
    <3>3. place \in Place
      BY <2>1, Places
    <3> QED
      BY <2>1, <3>1, <3>2, <3>3 DEF ArgInv
  <2>3. /\ MemoryOK' /\ TextHasOneOwner' /\ data'[place] # NULL
        /\ \A p \in Place \ {place} : data'[p] = data[p]
    <3> HIDE DEF place
    <3>1. MemoryOK
      BY DEF TypeOK, MemoryOK
    <3>2. Copy(place, text)
      BY <1>3 DEF place
    <3> QED
      BY <1>1, <2>2, <3>1, <3>2, CopyKeeps
  <2>4. pc' = IF narg = 0 THEN "pool" ELSE IF narg = 1 THEN "scalar" ELSE "set"
    BY <1>1, <1>3
  <2>5. TypeOK'
    BY <1>1, <1>3, <2>3, <2>4 DEF TypeOK, MemoryOK
  <2>6. ArgInv'
    <3> SUFFICES ASSUME NEW i \in 1 .. 3
                 PROVE  data'[<<0, Argument[i]>>] # NULL <=> i <= narg'
      BY DEF ArgInv
    <3>1. CASE i = narg + 1
      BY <1>3, <2>3, <3>1
    <3>2. CASE i # narg + 1
      <4>1. <<0, Argument[i]>> # place /\ <<0, Argument[i]>> \in Place
        BY <2>1, <3>2, ArgumentNames, Places
      <4>2. data'[<<0, Argument[i]>>] = data[<<0, Argument[i]>>]
        BY <2>3, <4>1
      <4> QED
        BY <1>1, <1>3, <3>2, <4>2 DEF ArgInv
    <3> QED
      BY <3>1, <3>2
  <2>7. PoolInv'
    BY <1>1, <2>1, <2>3, Places DEF PoolInv
  <2>8. StageInv' /\ LossBounded'
    BY <1>1, <1>3, <2>4 DEF StageInv, LossBounded, TypeOK
  <2> QED
    BY <2>3, <2>5, <2>6, <2>7, <2>8
<1> QED
  BY <1>2, <1>3 DEF PushScalar, Goto

\* conf_pool_init keeps it: the new pool's name is where no text was.
LEMMA PoolInitStep ==
  ASSUME IInv, PoolInit
  PROVE  IInv'
<1> USE DEF IInv
<1>1. /\ pc = "pool" /\ narg = 1 /\ npool \in Nat /\ npool < MaxPools /\ MaxPools \in Nat
      /\ npool' = npool + 1
      /\ UNCHANGED <<narg, number, origin, lost>>
  BY StringsAssumption DEF PoolInit, StageInv, TypeOK
<1>2. CASE NoMemory
  <2>1. TypeOK' /\ StageInv' /\ LossBounded'
    BY <1>1, <1>2, StringsAssumption
    DEF NoMemory, Fails, Goto, TypeOK, StageInv, LossBounded
  <2>2. TextHasOneOwner' /\ ArgInv'
    BY <1>1, <1>2 DEF NoMemory, TextHasOneOwner, Allocated, Pointed, ArgInv
  <2>3. PoolInv'
    BY <1>1, <1>2 DEF NoMemory, PoolInv
  <2> QED
    BY <2>1, <2>2, <2>3
<1>3. ASSUME Copy(<<npool', "name">>, TextAt(<<0, "poolname">>)),
             pc' = "scalar", UNCHANGED faults
      PROVE  IInv'
  <2> DEFINE place == <<npool + 1, "name">>
             text == TextAt(<<0, "poolname">>)
  <2>1. npool + 1 \in 1 .. MaxPools /\ "name" \in Fields
    BY <1>1, StringsAssumption
  <2>2. place \in Place
    BY <2>1, Places
  <2>3. data[place] = NULL
    BY <1>1, <2>1 DEF PoolInv
  <2>4. text \in Texts
    <3>1. <<0, "poolname">> \in Place /\ data[<<0, "poolname">>] # NULL
      BY <1>1, ArgumentNames, Places DEF ArgInv
    <3> QED
      BY <3>1, TextIsText
  <2>5. /\ MemoryOK' /\ TextHasOneOwner' /\ data'[place] # NULL
        /\ \A p \in Place \ {place} : data'[p] = data[p]
    <3>1. MemoryOK
      BY DEF TypeOK, MemoryOK
    <3>2. Copy(place, text)
      BY <1>1, <1>3
    <3> HIDE DEF place, text
    <3> QED
      BY <1>1, <2>2, <2>3, <2>4, <3>1, <3>2, CopyKeeps
  <2>6. TypeOK'
    BY <1>1, <1>3, <2>1, <2>5 DEF TypeOK, MemoryOK
  <2>7. ArgInv'
    BY <1>1, <2>1, <2>5, Places DEF ArgInv
  <2>8. PoolInv'
    <3> SUFFICES ASSUME NEW k \in 1 .. MaxPools, NEW f \in Fields, data'[<<k, f>>] # NULL
                 PROVE  k <= npool'
      BY DEF PoolInv
    <3>1. CASE k = npool + 1
      BY <1>1, <3>1
    <3>2. CASE k # npool + 1
      <4>1. <<k, f>> \in Place \ {place}
        BY <3>2, Places
      <4>2. data[<<k, f>>] # NULL
        BY <2>5, <4>1
      <4> QED
        BY <1>1, <4>2 DEF PoolInv
    <3> QED
      BY <3>1, <3>2
  <2>9. StageInv' /\ LossBounded'
    BY <1>1, <1>3 DEF StageInv, LossBounded
  <2> QED
    BY <2>5, <2>6, <2>7, <2>8, <2>9
<1> QED
  BY <1>2, <1>3 DEF PoolInit, Goto

\* conf_set_string keeps it: it only writes where no text is.
LEMMA SetStringStep ==
  ASSUME IInv, NEW field \in Fields \ {"name"}, SetString(field)
  PROVE  IInv'
<1> USE DEF IInv
<1>1. /\ pc = "set" /\ narg = 3 /\ npool \in 1 .. MaxPools
      /\ UNCHANGED <<narg, npool, number, origin, lost>>
  BY StringsAssumption DEF SetString, StageInv, TypeOK
<1>2. CASE pc' = "destroy" /\ UNCHANGED <<data, heap>> /\ faults' \in 0 .. MaxFaults
  <2>1. TypeOK' /\ StageInv' /\ LossBounded'
    BY <1>1, <1>2 DEF TypeOK, StageInv, LossBounded
  <2>2. TextHasOneOwner' /\ ArgInv' /\ PoolInv'
    BY <1>1, <1>2 DEF TextHasOneOwner, Allocated, Pointed, ArgInv, PoolInv
  <2> QED
    BY <2>1, <2>2
<1>3. ASSUME ~IsSet(field), Copy(<<npool, field>>, TextAt(<<0, "value">>)),
             pc' = "pop", UNCHANGED faults
      PROVE  IInv'
  <2> DEFINE place == <<npool, field>>
             text == TextAt(<<0, "value">>)
  <2>1. place \in Place /\ data[place] = NULL
    BY <1>1, <1>3, Places DEF IsSet
  <2>2. text \in Texts
    <3>1. <<0, "value">> \in Place /\ data[<<0, "value">>] # NULL
      BY <1>1, ArgumentNames, Places DEF ArgInv
    <3> QED
      BY <3>1, TextIsText
  <2>3. /\ MemoryOK' /\ TextHasOneOwner' /\ data'[place] # NULL
        /\ \A p \in Place \ {place} : data'[p] = data[p]
    <3>1. MemoryOK
      BY DEF TypeOK, MemoryOK
    <3>2. Copy(place, text)
      BY <1>3
    <3> HIDE DEF place, text
    <3> QED
      BY <1>1, <2>1, <2>2, <3>1, <3>2, CopyKeeps
  <2>4. TypeOK'
    BY <1>1, <1>3, <2>3 DEF TypeOK, MemoryOK
  <2>5. ArgInv'
    BY <1>1, <2>3, Places DEF ArgInv
  <2>6. PoolInv'
    <3> SUFFICES ASSUME NEW k \in 1 .. MaxPools, NEW f \in Fields, data'[<<k, f>>] # NULL
                 PROVE  k <= npool'
      BY DEF PoolInv
    <3>1. CASE k = npool
      BY <1>1, <3>1
    <3>2. CASE k # npool
      <4>1. <<k, f>> \in Place \ {place}
        BY <3>2, Places
      <4>2. data[<<k, f>>] # NULL
        BY <2>3, <4>1
      <4> QED
        BY <1>1, <4>2 DEF PoolInv
    <3> QED
      BY <3>1, <3>2
  <2>7. StageInv' /\ LossBounded'
    BY <1>1, <1>3 DEF StageInv, LossBounded
  <2> QED
    BY <2>3, <2>4, <2>5, <2>6, <2>7
<1>4. faults \in 0 .. MaxFaults /\ (faults < MaxFaults => faults + 1 \in 0 .. MaxFaults)
  BY StringsAssumption DEF TypeOK
<1> QED
  BY <1>2, <1>3, <1>4 DEF SetString, NoMemory, Fails, Goto

\* conf_set_num keeps it, accepting or refusing the text.
LEMMA SetNumStep ==
  ASSUME IInv, NEW field \in Numbers, SetNum(field)
  PROVE  IInv'
<1> USE DEF IInv
<1> DEFINE text == TextAt(<<0, "value">>)
<1>1. /\ pc = "set" /\ narg = 3
      /\ pc' \in {"pop", "destroy"}
      /\ UNCHANGED <<data, heap, narg, npool, lost, faults>>
      /\ \/ UNCHANGED <<number, origin>>
         \/ /\ number' = [number EXCEPT ![<<npool, field>>] = NcAtoi(text)]
            /\ origin' = [origin EXCEPT ![<<npool, field>>] = text]
  BY DEF SetNum, StageInv, Fails, Goto
<1>2. text \in Texts
  <2>1. <<0, "value">> \in Place /\ data[<<0, "value">>] # NULL
    BY <1>1, ArgumentNames, Places DEF ArgInv
  <2> QED
    BY <2>1, TextIsText
<1>3. NcAtoi(text) \in Int
  BY DEF NcAtoi
<1> HIDE DEF text
<1>4. TypeOK'
  BY <1>1, <1>2, <1>3 DEF TypeOK
<1>5. TextHasOneOwner' /\ ArgInv' /\ PoolInv' /\ StageInv' /\ LossBounded'
  BY <1>1 DEF TextHasOneOwner, Allocated, Pointed, ArgInv, PoolInv, StageInv, LossBounded
<1> QED
  BY <1>4, <1>5

\* A pop keeps it, while parsing and in conf_destroy.
LEMMA PopStep ==
  ASSUME IInv, NEW n \in 1 .. narg, Pop(n), UNCHANGED <<npool, number, origin, faults>>,
         \/ pc \in {"scalar", "pop"} /\ pc' = "scalar"
         \/ pc = "destroy" /\ pc' = "destroy"
  PROVE  IInv'
<1> USE DEF IInv
<1>1. /\ MemoryOK' /\ TextHasOneOwner' /\ ArgInv'
      /\ UNCHANGED lost /\ narg' = narg - n /\ narg \in 0 .. 3
      /\ \A k \in 1 .. MaxPools, f \in Fields : data'[<<k, f>>] = data[<<k, f>>]
  BY PopKeeps DEF TypeOK, MemoryOK
<1>2. TypeOK'
  BY <1>1 DEF TypeOK, MemoryOK
<1>3. PoolInv' /\ StageInv' /\ LossBounded'
  BY <1>1 DEF PoolInv, StageInv, LossBounded
<1> QED
  BY <1>1, <1>2, <1>3

\* conf_pool_deinit keeps it: what it resets without releasing is lost, and the
\* rest is released once.
LEMMA DestroyPoolStep ==
  ASSUME IInv, DestroyPool
  PROVE  IInv'
<1> USE DEF IInv
<1> DEFINE released == {npool} \X Released
           reset == {npool} \X (Fields \cap Unreleased)
<1>1. /\ pc = "destroy" /\ narg = 0 /\ npool \in 1 .. MaxPools
      /\ Release(released, reset)
      /\ npool' = npool - 1
      /\ UNCHANGED <<narg, faults, pc>>
  BY StringsAssumption DEF DestroyPool, TypeOK
<1>2. /\ released \in SUBSET Place /\ reset \in SUBSET Place /\ released \cap reset = {}
      /\ released \cup reset = {npool} \X Fields
  BY <1>1 DEF Released, Place
<1>3. /\ MemoryOK' /\ TextHasOneOwner'
      /\ \A p \in Place : data'[p] = IF p \in released \cup reset THEN NULL ELSE data[p]
  <2> HIDE DEF released, reset
  <2>1. MemoryOK
    BY DEF TypeOK, MemoryOK
  <2> QED
    BY <1>1, <1>2, <2>1, ReleaseKeeps
<1> HIDE DEF released, reset
<1>4. TypeOK'
  <2>1. number' \in [NumberPlace -> Int]
    BY DEF DestroyPool, TypeOK, CONF_UNSET_NUM
  <2>2. origin' \in [NumberPlace -> Texts \cup {NULL}]
    BY DEF DestroyPool, TypeOK
  <2>3. npool' \in 0 .. MaxPools
    BY <1>1, StringsAssumption
  <2> QED
    BY <1>1, <1>3, <2>1, <2>2, <2>3 DEF TypeOK, MemoryOK
<1>5. ArgInv'
  BY <1>1, <1>2, <1>3, Places DEF ArgInv
<1>6. PoolInv'
  <2> SUFFICES ASSUME NEW k \in 1 .. MaxPools, NEW f \in Fields, data'[<<k, f>>] # NULL
               PROVE  k <= npool'
    BY DEF PoolInv
  <2>1. <<k, f>> \in Place
    BY Places
  <2>2. <<k, f>> \notin released \cup reset /\ data[<<k, f>>] # NULL
    BY <1>3, <2>1
  <2>3. k # npool /\ k <= npool
    BY <1>2, <2>2 DEF PoolInv
  <2> QED
    BY <1>1, <2>3
<1>7. StageInv' /\ LossBounded'
  BY <1>1 DEF StageInv, LossBounded
<1> QED
  BY <1>3, <1>4, <1>5, <1>6, <1>7

\* Every step keeps the invariant.
LEMMA InvNext == IInv /\ [Next]_vars => IInv'
<1> SUFFICES ASSUME IInv, [Next]_vars PROVE IInv'
  OBVIOUS
<1> USE DEF IInv
<1>1. CASE UNCHANGED vars
  BY <1>1 DEF vars, TypeOK, TextHasOneOwner, Allocated, Pointed, ArgInv, PoolInv, StageInv, LossBounded
<1>2. CASE PopAfter
  <2>1. PICK n \in {1, 2} : Pop(n) /\ n <= narg
    BY <1>2 DEF PopAfter, StageInv
  <2>2. n \in 1 .. narg
    BY <2>1 DEF TypeOK
  <2> QED
    BY <1>2, <2>1, <2>2, PopStep DEF PopAfter, Goto
<1>3. CASE DestroyArg
  <2>1. 1 \in 1 .. narg /\ Pop(1)
    BY <1>3 DEF DestroyArg, TypeOK
  <2> QED
    BY <1>3, <2>1, PopStep DEF DestroyArg
<1>4. CASE Finish
  BY <1>4 DEF Finish, Fails, Goto, TypeOK, TextHasOneOwner, Allocated, Pointed, ArgInv, PoolInv,
     StageInv, LossBounded
<1>5. CASE DestroyConf
  BY <1>5 DEF DestroyConf, Goto, TypeOK, TextHasOneOwner, Allocated, Pointed, ArgInv, PoolInv,
     StageInv, LossBounded
<1> QED
  BY <1>1, <1>2, <1>3, <1>4, <1>5, PushScalarStep, PoolInitStep, SetStringStep, SetNumStep,
     DestroyPoolStep
  DEF Next

\* So it holds throughout.
LEMMA InvAlways == Spec => []IInv
  BY InitInv, InvNext, PTL DEF Spec

-----------------------------------------------------------------------------
\* The pointers, texts, counts and numbers keep their types (xadmin_conf.c).
THEOREM TypeCorrect == Spec => []TypeOK
<1>1. IInv => TypeOK
  BY DEF IInv
<1> QED
  BY <1>1, InvAlways, PTL

\* No text is released twice, read after its release or forgotten, except by
\* conf_pool_deinit, whatever the file says and whichever malloc fails.
THEOREM AlwaysOneOwner == Spec => []TextHasOneOwner
<1>1. IInv => TextHasOneOwner
  BY DEF IInv
<1> QED
  BY <1>1, InvAlways, PTL

\* A configuration that is loaded, or destroyed, has left nothing on the stack
\* (conf_pop_scalar, conf_destroy).
THEOREM NeverBeyond == Spec => []NothingBeyond
<1>1. IInv => NothingBeyond
  <2> SUFFICES ASSUME IInv, NEW p \in Place, data[p] # NULL
               PROVE  \/ p[1] = 0 /\ \E i \in 1 .. narg : p[2] = Argument[i]
                      \/ p[1] \in 1 .. npool
    BY DEF NothingBeyond
  <2>1. ASSUME NEW i \in 1 .. 3, p = <<0, Argument[i]>>
        PROVE  p[1] = 0 /\ \E j \in 1 .. narg : p[2] = Argument[j]
    <3>1. i <= narg /\ narg \in Nat
      BY <2>1 DEF IInv, ArgInv, TypeOK
    <3>2. i \in 1 .. narg
      BY <3>1
    <3> QED
      BY <2>1, <3>2
  <2>2. ASSUME NEW k \in 1 .. MaxPools, NEW f \in Fields, p = <<k, f>>
        PROVE  p[1] \in 1 .. npool
    <3>1. k <= npool
      BY <2>2 DEF IInv, PoolInv
    <3> QED
      BY <2>2, <3>1 DEF IInv, TypeOK
  <2> QED
    BY <2>1, <2>2, Places
<1> QED
  BY <1>1, InvAlways, PTL

\* While a file is parsed no text is lost, nor when it has been.
THEOREM LossAlwaysBounded == Spec => []LossBounded
<1>1. IInv => LossBounded
  BY DEF IInv
<1> QED
  BY <1>1, InvAlways, PTL
-----------------------------------------------------------------------------
(***************************************************************************)
(* Recursions over a text.                                                 *)
(***************************************************************************)
\* _nc_atoi's value: its equations.
LEMMA ValuesSteps ==
  ASSUME NEW text \in Seq(Nat)
  PROVE  /\ Values(text)[0] = 0
         /\ \A n \in 1 .. Len(text) :
               Values(text)[n] = (Values(text)[n - 1] * 10 + text[n]) % Width
<1> DEFINE step == [n \in Nat |-> [v \in Int |->
                      IF n \in 1 .. Len(text) THEN (v * 10 + text[n]) % Width ELSE 0]]
<1>1. step \in [Nat -> [Int -> Int]]
  BY StringsAssumption
<1>2. \A n \in 1 .. Len(text), v \in Int : step[n][v] = (v * 10 + text[n]) % Width
  OBVIOUS
<1> HIDE DEF step
<1>3. PICK g : Solves(g, Len(text), Int, 0, step)
  <2>1. Len(text) \in Nat /\ 0 \in Int
    OBVIOUS
  <2>2. step \in StepsOver(Int)
    BY <1>1, Zenon DEF StepsOver
  <2> QED
    BY <2>1, <2>2, Recursion
<1>4. ASSUME NEW n \in 0 .. Len(text)
      PROVE  g[n] = IF n = 0 THEN 0 ELSE (g[n - 1] * 10 + text[n]) % Width
  <2>1. CASE n = 0
    BY <1>3, <2>1 DEF Solves
  <2>2. CASE n # 0
    <3>1. n \in 1 .. Len(text) /\ n - 1 \in 0 .. Len(text)
      BY <2>2
    <3>2. g[n - 1] \in Int
      BY <1>3, <3>1 DEF Solves
    <3>3. step[n][g[n - 1]] = (g[n - 1] * 10 + text[n]) % Width
      BY <1>2, <3>1, <3>2
    <3>4. g[n] = step[n][g[n - 1]]
      BY <1>3, <3>1 DEF Solves
    <3> QED
      BY <2>2, <3>3, <3>4
  <2> QED
    BY <2>1, <2>2
<1>5. g = [n \in 0 .. Len(text) |-> IF n = 0 THEN 0 ELSE (g[n - 1] * 10 + text[n]) % Width]
  BY <1>3, <1>4 DEF Solves
<1>6. Values(text) = [n \in 0 .. Len(text) |->
          IF n = 0 THEN 0 ELSE (Values(text)[n - 1] * 10 + text[n]) % Width]
  BY <1>5 DEF Values
<1> DEFINE f == Values(text)
           next(n) == IF n = 0 THEN 0 ELSE (f[n - 1] * 10 + text[n]) % Width
<1>7. f = [n \in 0 .. Len(text) |-> next(n)]
  BY <1>6
<1> HIDE DEF f, next
<1>8. \A n \in 0 .. Len(text) : f[n] = next(n)
  BY <1>7
<1>9. 0 \in 0 .. Len(text) /\ \A n \in 1 .. Len(text) : n \in 0 .. Len(text) /\ n # 0
  OBVIOUS
<1> QED
  BY <1>8, <1>9, Zenon DEF f, next

\* The number meant: its equations.
LEMMA SaidSteps ==
  ASSUME NEW text \in Seq(Nat)
  PROVE  /\ Said(text)[0] = 0
         /\ \A n \in 1 .. Len(text) :
               Said(text)[n] = 10 * Said(text)[n - 1] + text[n]
<1> DEFINE step == [n \in Nat |-> [v \in Int |->
                      IF n \in 1 .. Len(text) THEN 10 * v + text[n] ELSE 0]]
<1>1. step \in [Nat -> [Int -> Int]]
  OBVIOUS
<1>2. \A n \in 1 .. Len(text), v \in Int : step[n][v] = 10 * v + text[n]
  OBVIOUS
<1> HIDE DEF step
<1>3. PICK g : Solves(g, Len(text), Int, 0, step)
  <2>1. Len(text) \in Nat /\ 0 \in Int
    OBVIOUS
  <2>2. step \in StepsOver(Int)
    BY <1>1, Zenon DEF StepsOver
  <2> QED
    BY <2>1, <2>2, Recursion
<1>4. ASSUME NEW n \in 0 .. Len(text)
      PROVE  g[n] = IF n = 0 THEN 0 ELSE 10 * g[n - 1] + text[n]
  <2>1. CASE n = 0
    BY <1>3, <2>1 DEF Solves
  <2>2. CASE n # 0
    <3>1. n \in 1 .. Len(text) /\ n - 1 \in 0 .. Len(text)
      BY <2>2
    <3>2. g[n - 1] \in Int
      BY <1>3, <3>1 DEF Solves
    <3>3. step[n][g[n - 1]] = 10 * g[n - 1] + text[n]
      BY <1>2, <3>1, <3>2
    <3>4. g[n] = step[n][g[n - 1]]
      BY <1>3, <3>1 DEF Solves
    <3> QED
      BY <2>2, <3>3, <3>4
  <2> QED
    BY <2>1, <2>2
<1>5. g = [n \in 0 .. Len(text) |-> IF n = 0 THEN 0 ELSE 10 * g[n - 1] + text[n]]
  BY <1>3, <1>4 DEF Solves
<1>6. Said(text) = [n \in 0 .. Len(text) |->
          IF n = 0 THEN 0 ELSE 10 * Said(text)[n - 1] + text[n]]
  BY <1>5 DEF Said
<1> DEFINE f == Said(text)
           next(n) == IF n = 0 THEN 0 ELSE 10 * f[n - 1] + text[n]
<1>7. f = [n \in 0 .. Len(text) |-> next(n)]
  BY <1>6
<1> HIDE DEF f, next
<1>8. \A n \in 0 .. Len(text) : f[n] = next(n)
  BY <1>7
<1>9. 0 \in 0 .. Len(text) /\ \A n \in 1 .. Len(text) : n \in 0 .. Len(text) /\ n # 0
  OBVIOUS
<1> QED
  BY <1>8, <1>9, Zenon DEF f, next

\* A number that fits is never reduced: the loop has what was meant so far, or
\* what was meant is too large already.
LEMMA NumberFits ==
  ASSUME NEW text \in Seq(Characters), IsNumber(text), 2 * NumberSaid(text) < Width
  PROVE  Value(text) = NumberSaid(text)
<1> DEFINE A == Values(text)
           B == Said(text)
           T == {n \in 0 .. Len(text) : ~(B[n] \in Nat /\ (A[n] = B[n] \/ 2 * B[n] >= Width))}
<1>1. text \in Seq(Nat) /\ Width \in Nat \ {0} /\ Len(text) \in Nat
  BY StringsAssumption DEF Characters, NoDigit
<1>2. /\ A[0] = 0 /\ B[0] = 0
      /\ \A n \in 1 .. Len(text) : /\ A[n] = (A[n - 1] * 10 + text[n]) % Width
                                   /\ B[n] = 10 * B[n - 1] + text[n]
  BY <1>1, ValuesSteps, SaidSteps
<1> HIDE DEF A, B
<1>3. T = {}
  <2> SUFFICES ASSUME T # {} PROVE FALSE
    OBVIOUS
  <2>1. PICK n \in T : \A m \in T : n <= m
    <3> HIDE DEF T
    <3>1. T \in SUBSET Nat
      BY <1>1 DEF T
    <3> QED
      BY <3>1, LeastNumber
  <2>2. n \in 1 .. Len(text)
    BY <1>1, <1>2, <2>1
  <2>3. n - 1 \in 0 .. Len(text) /\ ~(n <= n - 1)
    BY <2>2
  <2>4. n - 1 \notin T
    BY <2>1, <2>3
  <2>5. B[n - 1] \in Nat /\ (A[n - 1] = B[n - 1] \/ 2 * B[n - 1] >= Width)
    BY <2>3, <2>4
  <2>6. text[n] \in Nat
    BY <1>1, <2>2
  <2>7. B[n] \in Nat /\ B[n] >= B[n - 1] /\ B[n] = 10 * B[n - 1] + text[n]
    <3>1. B[n] = 10 * B[n - 1] + text[n]
      BY <1>2, <2>2, Zenon
    <3>2. \A b, c \in Nat : 10 * b + c \in Nat /\ 10 * b + c >= b
      OBVIOUS
    <3>3. B[n - 1] \in Nat
      BY <2>5, Zenon
    <3> QED
      BY <2>6, <3>1, <3>2, <3>3, Zenon
  <2>8. CASE 2 * B[n - 1] >= Width \/ 2 * B[n] >= Width
    <3>1. 2 * B[n] >= Width
      <4>1. B[n - 1] \in Nat /\ B[n] \in Nat /\ Width \in Nat /\ B[n] >= B[n - 1]
        BY <1>1, <2>5, <2>7, Zenon
      <4> QED
        BY <2>8, <4>1
    <3>2. n \notin T
      BY <2>7, <3>1
    <3> QED
      BY <2>1, <3>2
  <2>9. CASE A[n - 1] = B[n - 1] /\ ~(2 * B[n] >= Width)
    <3>1. A[n] = B[n] % Width
      BY <1>2, <2>2, <2>5, <2>6, <2>7, <2>9
    <3>2. B[n] < Width
      BY <1>1, <2>7, <2>9
    <3>3. \A x \in Nat, w \in Nat \ {0} : x < w => x % w = x
      OBVIOUS
    <3>4. A[n] = B[n]
      BY <1>1, <2>7, <3>1, <3>2, <3>3
    <3> QED
      BY <2>1, <2>7, <3>4
  <2> QED
    BY <2>5, <2>8, <2>9
<1>4. B[Len(text)] \in Nat /\ (A[Len(text)] = B[Len(text)] \/ 2 * B[Len(text)] >= Width)
  <2>1. Len(text) \in 0 .. Len(text)
    BY <1>1
  <2> QED
    BY <1>3, <2>1
<1>5. NumberSaid(text) = B[Len(text)] /\ Value(text) = Signed(A[Len(text)])
  BY DEF NumberSaid, Value, A, B
<1> QED
  BY <1>1, <1>4, <1>5 DEF Signed

-----------------------------------------------------------------------------
(***************************************************************************)
(* The numbers of the pools.                                               *)
(***************************************************************************)
LEMMA NumbersNext ==
  ASSUME IInv, NumberAsWritten, [Next]_vars
  PROVE  NumberAsWritten'
<1>1. CASE UNCHANGED <<number, origin>>
  BY <1>1 DEF NumberAsWritten
<1>2. ASSUME NEW field \in Numbers, SetNum(field)
      PROVE  NumberAsWritten'
  <2> DEFINE text == TextAt(<<0, "value">>)
  <2>1. CASE UNCHANGED <<number, origin>>
    BY <1>1, <2>1
  <2>2. CASE /\ NcAtoi(text) >= 0
             /\ number' = [number EXCEPT ![<<npool, field>>] = NcAtoi(text)]
             /\ origin' = [origin EXCEPT ![<<npool, field>>] = text]
    <3>1. text \in Seq(Characters) /\ text # NULL
      <4>1. <<0, "value">> \in Place /\ data[<<0, "value">>] # NULL
        BY <1>2, ArgumentNames, Places DEF SetNum, IInv, StageInv, ArgInv
      <4>2. text \in Texts
        BY <4>1, TextIsText DEF IInv
      <4> QED
        BY <4>2, StringsAssumption
    <3> HIDE DEF text
    <3>2. IsNumber(text) /\ NcAtoi(text) = Value(text)
      BY <2>2 DEF NcAtoi
    <3>3. 2 * NumberSaid(text) < Width => NcAtoi(text) = NumberSaid(text)
      BY <3>1, <3>2, NumberFits
    <3> SUFFICES ASSUME NEW p \in NumberPlace
                 PROVE  IF origin'[p] = NULL THEN number'[p] = CONF_UNSET_NUM
                        ELSE /\ IsNumber(origin'[p])
                             /\ number'[p] >= 0
                             /\ 2 * NumberSaid(origin'[p]) < Width
                                  => number'[p] = NumberSaid(origin'[p])
      BY DEF NumberAsWritten
    <3>4. CASE p = <<npool, field>>
      <4>1. number'[p] = NcAtoi(text) /\ origin'[p] = text
        BY <2>2, <3>4 DEF IInv, TypeOK
      <4> QED
        BY <2>2, <3>1, <3>2, <3>3, <4>1
    <3>5. CASE p # <<npool, field>>
      <4>1. number'[p] = number[p] /\ origin'[p] = origin[p]
        BY <2>2, <3>5 DEF IInv, TypeOK
      <4> QED
        BY <4>1 DEF NumberAsWritten
    <3> QED
      BY <3>4, <3>5
  <2> QED
    BY <1>2, <2>1, <2>2 DEF SetNum
<1>3. CASE DestroyPool
  BY <1>3 DEF DestroyPool, NumberAsWritten
<1> QED
  BY <1>1, <1>2, <1>3
  DEF Next, vars, PushScalar, PoolInit, PopAfter, Finish, SetString, DestroyArg, DestroyConf

\* A number that fits an int is what the file says, digit by digit, whatever
\* the width of an int; any other is refused or taken for a number that is not
\* negative, and a field that no text set is unset (conf_set_num, _nc_atoi).
THEOREM NumberAlwaysAsWritten == Spec => []NumberAsWritten
<1>1. Init => NumberAsWritten
  BY DEF Init, NumberAsWritten
<1>2. IInv /\ NumberAsWritten /\ [Next]_vars => NumberAsWritten'
  BY NumbersNext
<1> QED
  BY <1>1, <1>2, InvAlways, PTL DEF Spec
=============================================================================
