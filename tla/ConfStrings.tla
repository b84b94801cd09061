------------------------------ MODULE ConfStrings ------------------------------
(***************************************************************************)
(* Who owns the texts of a configuration: the strings (xstring.c) on the   *)
(* loader's argument stack and in its pools (xadmin_conf.c), each of them  *)
(* a length and a pointer to memory of its own; and what the loader makes  *)
(* of a text that should be a number.                                      *)
(*                                                                         *)
(* A place is where a struct string is: an argument, or a field of a pool. *)
(* The steps are the operations on them, in the order in which the parser  *)
(* applies them to a file that the passes before have accepted (see        *)
(* XadminConf): push a scalar, begin a pool with its name, set a directive,*)
(* pop.  malloc fails MaxFaults times, and conf_destroy follows a failure. *)
(***************************************************************************)
EXTENDS Integers, Sequences

CONSTANTS
  NULL,      \* the null pointer
  Scalars,   \* the texts that a file has for a pool's name, a key and a value
  Fields,    \* the strings of a pool, its name among them
  Numbers,   \* the numbers of a pool
  MaxPools,  \* bound: the pools of a file
  MaxBlocks, \* bound: the texts in memory
  MaxFaults, \* bound: calls of malloc that fail
  Width      \* how many numbers an int can hold

\* The argument stack, from the bottom.
Argument == <<"poolname", "key", "value">>
Arguments == {Argument[i] : i \in 1 .. 3}

\* conf_pool_deinit only resets these.
Unreleased ==
  {"certificate", "enable", "interface", "no_vmac", "gateway", "primary_addr"}

Place == ({0} \X Arguments) \cup ((1 .. MaxPools) \X Fields)
NumberPlace == (1 .. MaxPools) \X Numbers
Blocks == 1 .. MaxBlocks
Texts == UNION {Scalars[a] : a \in Arguments}

\* A character is a digit, or something else.
NoDigit == 10
Characters == 0 .. NoDigit

ASSUME StringsAssumption ==
  /\ Texts \subseteq Seq(Characters)
  /\ NULL \notin Seq(Characters) /\ NULL \notin Nat
  /\ "name" \in Fields
  /\ MaxPools \in Nat /\ MaxBlocks \in Nat /\ MaxFaults \in Nat
  /\ Width \in Nat \ {0}

VARIABLES
  data,   \* the memory that the string at a place points to
  heap,   \* the text in each block of memory; NULL if it is not allocated
  narg,   \* array_n(&cf->arg)
  npool,  \* array_n(&cf->pool)
  number, \* the numbers of the pools
  origin, \* history: the text that each of them was made of
  lost,   \* history: the blocks whose last pointer was reset
  faults, \* how many calls of malloc have failed
  pc      \* what comes next: a scalar, a pool, a directive, destroy; or the end

vars == <<data, heap, narg, npool, number, origin, lost, faults, pc>>

-----------------------------------------------------------------------------
(***************************************************************************)
(* Numbers.                                                                *)
(***************************************************************************)
CONF_UNSET_NUM == -1

\* An int that has wrapped around.
Signed(n) == IF 2 * n >= Width THEN n - Width ELSE n

IsNumber(text) == text # <<>> /\ \A i \in DOMAIN text : text[i] # NoDigit

\* What the loop has in value after each of the characters.
Values(text) ==
  LET value[n \in 0 .. Len(text)] ==
        IF n = 0 THEN 0 ELSE (value[n - 1] * 10 + text[n]) % Width
  IN value

\* What it has in the end; and mistaken, one character before.
ValueShort(text) == Signed(Values(text)[Len(text) - 1])
Value(text) == Signed(Values(text)[Len(text)])

\* _nc_atoi
NcAtoi(text) == IF IsNumber(text) /\ Value(text) \in Nat THEN Value(text) ELSE -1

-----------------------------------------------------------------------------
(***************************************************************************)
(* Strings.  Which free block malloc hands out makes no difference: it is  *)
(* the first one.                                                          *)
(***************************************************************************)
IsFree(b) == heap[b] = NULL /\ \A c \in 1 .. b - 1 : heap[c] # NULL

\* string_copy, and string_duplicate, which copies another string: the
\* pointer that was there is overwritten.  And mistaken, the text gets a
\* character too many.
CopyMore(place, text) ==
  \E b \in Blocks :
    /\ IsFree(b)
    /\ data' = [data EXCEPT ![place] = b]
    /\ heap' = [heap EXCEPT ![b] = Append(text, NoDigit)]

Copy(place, text) ==
  \E b \in Blocks :
    /\ IsFree(b)
    /\ data' = [data EXCEPT ![place] = b]
    /\ heap' = [heap EXCEPT ![b] = text]

\* string_deinit at each of some places; string_init at each of others.
Release(released, reset) ==
  /\ heap' = [b \in Blocks |-> IF \E p \in released : data[p] = b THEN NULL ELSE heap[b]]
  /\ data' = [p \in Place |-> IF p \in released \cup reset THEN NULL ELSE data[p]]
  /\ lost' = lost \cup ({data[p] : p \in reset} \ {NULL})

TextAt(place) == heap[data[place]]

-----------------------------------------------------------------------------
Init ==
  /\ data = [p \in Place |-> NULL]
  /\ heap = [b \in Blocks |-> NULL]
  /\ narg = 0
  /\ npool = 0
  /\ number = [p \in NumberPlace |-> CONF_UNSET_NUM]
  /\ origin = [p \in NumberPlace |-> NULL]
  /\ lost = {}
  /\ faults = 0
  /\ pc = "scalar"

Goto(p) == pc' = p

\* An error: conf_create calls conf_destroy.
Fails == Goto("destroy")

NoMemory ==
  /\ faults < MaxFaults
  /\ faults' = faults + 1
  /\ Fails
  /\ UNCHANGED <<data, heap>>

\* conf_push_scalar.
PushScalar ==
  /\ pc = "scalar"
  /\ narg < 3
  /\ \/ /\ \E text \in Scalars[Argument[narg + 1]] : Copy(<<0, Argument[narg + 1]>>, text)
        /\ narg' = narg + 1
        /\ Goto(<<"pool", "scalar", "set">>[narg + 1])
        /\ UNCHANGED faults
     \/ NoMemory /\ UNCHANGED narg
  /\ UNCHANGED <<npool, number, origin, lost>>

\* array_push of a pool, and conf_pool_init; without memory for its name the
\* pool stays.
PoolInit ==
  /\ pc = "pool"
  /\ npool < MaxPools
  /\ npool' = npool + 1
  /\ \/ /\ Copy(<<npool', "name">>, TextAt(<<0, "poolname">>))
        /\ Goto("scalar")
        /\ UNCHANGED faults
     \/ NoMemory
  /\ UNCHANGED <<narg, number, origin, lost>>

\* conf_set_string refuses a directive that is set; and mistaken, it does not.
NeverSet(field) == FALSE
IsSet(field) == data[<<npool, field>>] # NULL

SetString(field) ==
  /\ pc = "set"
  /\ \/ /\ ~IsSet(field)
        /\ \/ Copy(<<npool, field>>, TextAt(<<0, "value">>)) /\ Goto("pop") /\ UNCHANGED faults
           \/ NoMemory
     \/ IsSet(field) /\ Fails /\ UNCHANGED <<data, heap, faults>>
  /\ UNCHANGED <<narg, npool, number, origin, lost>>

\* conf_set_num
SetNum(field) ==
  LET text == TextAt(<<0, "value">>)
  IN /\ pc = "set"
     /\ \/ /\ number[<<npool, field>>] = CONF_UNSET_NUM
           /\ NcAtoi(text) >= 0
           /\ number' = [number EXCEPT ![<<npool, field>>] = NcAtoi(text)]
           /\ origin' = [origin EXCEPT ![<<npool, field>>] = text]
           /\ Goto("pop")
        \/ /\ \/ number[<<npool, field>>] # CONF_UNSET_NUM
              \/ NcAtoi(text) < 0
           /\ Fails
           /\ UNCHANGED <<number, origin>>
     /\ UNCHANGED <<data, heap, narg, npool, lost, faults>>

\* conf_pop_scalar, n times.  And mistakes: string_init for string_deinit; the
\* array keeps its count.
PopForgets(n) ==
  /\ Release({}, {<<0, Argument[i]>> : i \in narg - n + 1 .. narg})
  /\ narg' = narg - n

PopStays(n) ==
  /\ Release({<<0, Argument[i]>> : i \in narg - n + 1 .. narg}, {})
  /\ narg' = narg

Pop(n) ==
  /\ Release({<<0, Argument[i]>> : i \in narg - n + 1 .. narg}, {})
  /\ narg' = narg - n

\* After a directive its value is popped, and its key unless more values
\* follow; at the end of a pool its name.
PopAfter ==
  /\ \/ pc = "pop" /\ \E n \in {1, 2} : Pop(n)
     \/ pc = "scalar" /\ narg \in {1, 2} /\ Pop(1)
  /\ Goto("scalar")
  /\ UNCHANGED <<npool, number, origin, faults>>

\* The file ends, and conf_create returns; or it is refused.
Finish ==
  /\ pc = "scalar"
  /\ \/ narg = 0 /\ npool > 0 /\ Goto("loaded")
     \/ Fails
  /\ UNCHANGED <<data, heap, narg, npool, number, origin, lost, faults>>

-----------------------------------------------------------------------------
(***************************************************************************)
(* conf_destroy.                                                           *)
(***************************************************************************)
DestroyArg ==
  /\ pc = "destroy"
  /\ narg > 0
  /\ Pop(1)
  /\ UNCHANGED <<npool, number, origin, faults, pc>>

\* The strings that conf_pool_deinit releases; and mistaken, all but one.
ReleasedButPasswd == Fields \ (Unreleased \cup {"passwd"})
Released == Fields \ Unreleased

\* conf_pool_deinit; the numbers go with the pool.
DestroyPool ==
  /\ pc = "destroy"
  /\ narg = 0 /\ npool > 0
  /\ Release({npool} \X Released, {npool} \X (Fields \cap Unreleased))
  /\ npool' = npool - 1
  /\ number' = [p \in NumberPlace |-> IF p[1] = npool THEN CONF_UNSET_NUM ELSE number[p]]
  /\ origin' = [p \in NumberPlace |-> IF p[1] = npool THEN NULL ELSE origin[p]]
  /\ UNCHANGED <<narg, faults, pc>>

DestroyConf ==
  /\ pc = "destroy"
  /\ narg = 0 /\ npool = 0
  /\ Goto("gone")
  /\ UNCHANGED <<data, heap, narg, npool, number, origin, lost, faults>>

Next ==
  \/ PushScalar \/ PoolInit \/ PopAfter \/ Finish
  \/ \E field \in Fields \ {"name"} : SetString(field)
  \/ \E field \in Numbers : SetNum(field)
  \/ DestroyArg \/ DestroyPool \/ DestroyConf

\* The loader is sequential code that keeps running.
Spec == Init /\ [][Next]_vars /\ WF_vars(DestroyArg \/ DestroyPool \/ DestroyConf)

-----------------------------------------------------------------------------
\* The types of the variables.
TypeOK ==
  /\ data \in [Place -> Blocks \cup {NULL}]
  /\ heap \in [Blocks -> Texts \cup {NULL}]
  /\ narg \in 0 .. 3
  /\ npool \in 0 .. MaxPools
  /\ number \in [NumberPlace -> Int]
  /\ origin \in [NumberPlace -> Texts \cup {NULL}]
  /\ lost \subseteq Blocks
  /\ faults \in 0 .. MaxFaults
  /\ pc \in {"scalar", "pool", "set", "pop", "destroy", "loaded", "gone"}

Pointed == {data[p] : p \in Place} \ {NULL}
Allocated == {b \in Blocks : heap[b] # NULL}

\* Every text in memory has one owner: no two strings share it, so that none
\* is released twice or read after its release, and none is forgotten, except
\* those that conf_pool_deinit resets without releasing them.
TextHasOneOwner ==
  /\ \A p, q \in Place : data[p] = data[q] /\ data[p] # NULL => p = q
  /\ Allocated = Pointed \cup lost
  /\ Pointed \cap lost = {}

\* Only the arguments and pools that there are have texts; so a configuration
\* that was loaded has no arguments' texts left, and one that was destroyed
\* leaves nothing behind but texts of those six fields.
NothingBeyond ==
  \A p \in Place :
    data[p] # NULL => \/ p[1] = 0 /\ \E i \in 1 .. narg : p[2] = Argument[i]
                      \/ p[1] \in 1 .. npool

\* No text is forgotten while the file is parsed, nor when a configuration is
\* loaded: only conf_destroy loses any.
LossBounded == lost # {} => pc \in {"destroy", "gone"}

\* What a text says, of any length.
Said(text) ==
  LET said[n \in 0 .. Len(text)] ==
        IF n = 0 THEN 0 ELSE 10 * said[n - 1] + text[n]
  IN said

NumberSaid(text) == Said(text)[Len(text)]

\* A number is what its text says, in the width of an int: one that fits is
\* never changed, and what does not fit is either refused or, wrapped around,
\* taken for another (conf_set_num, _nc_atoi).
NumberAsWritten ==
  \A p \in NumberPlace :
    IF origin[p] = NULL THEN number[p] = CONF_UNSET_NUM
    ELSE /\ IsNumber(origin[p])
         /\ number[p] >= 0
         /\ 2 * NumberSaid(origin[p]) < Width => number[p] = NumberSaid(origin[p])

\* conf_destroy ends.
Destroyed == pc = "destroy" ~> pc = "gone"
=============================================================================
