------------------------------ MODULE XadminConf ------------------------------
(***************************************************************************)
(* The configuration loader of xadmin (xadmin_conf.c): conf_create and     *)
(* everything it calls.  The file is read four times: to compose it into   *)
(* documents, to scan its tokens, to check the structure of its events,    *)
(* and at last to parse the events into an array of configuration pools.   *)
(* Only the last pass builds data; it relies on the first three to have    *)
(* refused whatever it cannot handle.                                      *)
(*                                                                         *)
(* One step per libyaml event in the two passes that walk events; the      *)
(* document and the token pass are one step each.  `phase' is the program  *)
(* counter.  valid_event and valid_token are 0 between steps because every *)
(* step that fetches an event or a token also releases it.                 *)
(***************************************************************************)
EXTENDS YamlEvents, Integers, FiniteSets

CONSTANTS
  NULL,       \* the null pointer
  Files,      \* the contents the configuration file can have
  NumOf,      \* what _nc_atoi makes of the scalars it accepts
  PoolAlloc,  \* CONF_DEFAULT_POOL, the pools allocated at first
  MaxFaults,  \* bound: library calls that fail (malloc, realloc, libyaml)
  MaxEdits    \* bound: times the file is rewritten while it is being loaded

ASSUME FilesAssumption ==
  \A f \in Files : /\ f.tokens \in {"allowed", "disallowed"}
                   /\ f.events \in Seq(Event)

ASSUME ConstantsAssumption ==
  /\ NULL \notin Scalar \cup [idx : Nat, at : Nat]
  /\ DOMAIN NumOf \subseteq Scalar
  /\ \A s \in DOMAIN NumOf : NumOf[s] \in Nat
  /\ PoolAlloc \in Nat \ {0}
  /\ MaxFaults \in Nat
  /\ MaxEdits \in Nat

VARIABLES
  disk,     \* the file's content now
  edits,    \* how often it was rewritten since conf_create was called
  faults,   \* how many library calls have failed
  phase,    \* where conf_create is
  pos,      \* events read in the current pass
  open,     \* libyaml's stack in the current pass
  check,    \* the locals of conf_validate_structure
  parser,   \* cf->valid_parser
  sound,    \* cf->sound
  parsed,   \* cf->parsed
  depth,    \* cf->depth
  seq,      \* cf->seq
  arg,      \* cf->arg, the stack of scalars
  pool,     \* cf->pool, the pools
  alloc,    \* cf->pool's nalloc and the number of times its memory moved
  data,     \* conf_parse_core's data: the pool being filled
  outcome   \* what became of the call

reader == <<pos, open>>
flags == <<parser, sound, parsed>>
result == <<arg, pool, alloc, data>>
vars == <<disk, edits, faults, phase, check, reader, flags, depth, seq,
          result, outcome>>

-----------------------------------------------------------------------------
(***************************************************************************)
(* The command table and the pools.                                        *)
(***************************************************************************)
CONF_ROOT_DEPTH == 1
\* (mistaken: a level more, and nothing else changed)
OneDeeper == CONF_ROOT_DEPTH + 2
CONF_MAX_DEPTH == CONF_ROOT_DEPTH + 1
CONF_DEFAULT_ARGS == 3
CONF_UNSET_NUM == -1

\* conf_commands: the directives conf_set_string and conf_set_num serve.
StringDirectives ==
  {"product", "ip", "database", "user", "passwd", "certificate", "enable",
   "interface", "no_vmac", "gateway", "primary_addr"}

NumDirectives ==
  {"port", "thr_pool_min", "thr_pool_max", "conn_pool_min", "conn_pool_max",
   "worker_thread", "vrid", "adver_int", "priority"}

Directives == StringDirectives \cup NumDirectives

ConfPool ==
  [name  : Scalar \cup {NULL},
   str   : [StringDirectives -> Scalar \cup {NULL}],
   num   : [NumDirectives -> Int],
   valid : BOOLEAN]

\* conf_pool_init; name is NULL if string_duplicate had no memory.
InitialPool(name) ==
  [name  |-> name,
   str   |-> [k \in StringDirectives |-> NULL],
   num   |-> [k \in NumDirectives |-> CONF_UNSET_NUM],
   valid |-> FALSE]

\* _nc_atoi
Atoi(s) == IF s \in DOMAIN NumOf THEN NumOf[s] ELSE -1

\* conf_validate_pool's defaults
DefaultPort(cp) ==
  CASE cp.name = "meta" -> 5432
    [] cp.name = "data" -> 27017
    [] OTHER -> CONF_UNSET_NUM

WithDefault(cp, k) ==
  IF cp.num[k] # CONF_UNSET_NUM THEN cp.num[k]
  ELSE CASE k = "port" -> DefaultPort(cp)
         [] k \in {"thr_pool_min", "thr_pool_max", "conn_pool_min",
                   "conn_pool_max"} -> 1
         [] OTHER -> CONF_UNSET_NUM

\* Mistake: the pool is not marked as validated.
UnmarkedPool(cp) ==
  [cp EXCEPT !.num = [k \in NumDirectives |-> WithDefault(cp, k)]]

ValidatedPool(cp) ==
  [cp EXCEPT !.num = [k \in NumDirectives |-> WithDefault(cp, k)],
             !.valid = TRUE]

-----------------------------------------------------------------------------
(***************************************************************************)
(* Steps common to the passes.                                             *)
(***************************************************************************)

\* The next event of the current pass, and fetching it: conf_event_next.
NextEvent == EventAt(disk, pos, open)

Fetch ==
  /\ parser
  /\ CanRead(disk, pos, open)
  /\ pos' = IF Top(open) = "done" THEN pos ELSE pos + 1
  /\ open' = NextStack(open, NextEvent)

\* A library call fails: no memory, or libyaml cannot read the file.
Fault ==
  /\ faults < MaxFaults
  /\ faults' = faults + 1

\* conf_event_next fails: the event is refused, or there is a fault.
FetchFails ==
  \/ ~parser /\ UNCHANGED faults
  \/ ~CanRead(disk, pos, open) /\ UNCHANGED faults
  \/ Fault

\* conf_yaml_init: seek to the beginning, initialise a parser.
YamlInit ==
  /\ ~parser
  /\ parser' = TRUE
  /\ pos' = 0
  /\ open' = InitialStack

YamlInitFails ==
  \/ parser /\ UNCHANGED faults
  \/ Fault

Goto(p) == phase' = p

\* conf_create's error label: the rest is conf_destroy.
Error == Goto("destroy")

\* Behaviour that C does not define; nothing is promised any more.
Undefined(how) ==
  /\ outcome' = how
  /\ Goto("over")

-----------------------------------------------------------------------------
Init ==
  /\ disk \in Files
  /\ edits = 0
  /\ faults = 0
  /\ phase = "open"
  /\ pos = 0
  /\ open = InitialStack
  /\ check = [depth |-> 0, count |-> [d \in 0 .. CONF_MAX_DEPTH |-> 0], seq |-> FALSE]
  /\ parser = FALSE
  /\ sound = FALSE
  /\ parsed = FALSE
  /\ depth = 0
  /\ seq = FALSE
  /\ arg = <<>>
  /\ pool = <<>>
  /\ alloc = [n |-> PoolAlloc, moves |-> 0]
  /\ data = NULL
  /\ outcome = "running"

\* conf_open: whatever fails releases what was acquired before it.
Open ==
  /\ phase = "open"
  /\ \/ Goto("document") /\ UNCHANGED <<faults, outcome>>
     \/ Fault /\ Goto("over") /\ outcome' = "failed"
  /\ UNCHANGED <<disk, edits, check, reader, flags, depth, seq, result>>

-----------------------------------------------------------------------------
(***************************************************************************)
(* conf_pre_validate.                                                      *)
(***************************************************************************)

\* conf_validate_document: the file composes, into exactly one document.
\* The parser is deleted again on every path.
ValidateDocument ==
  /\ phase = "document"
  /\ \/ /\ Composes(disk) /\ Cardinality(Documents(disk)) = 1
        /\ Goto("tokens") /\ UNCHANGED faults
     \/ /\ ~(Composes(disk) /\ Cardinality(Documents(disk)) = 1)
        /\ Error /\ UNCHANGED faults
     \/ Fault /\ Error
  /\ UNCHANGED <<disk, edits, check, reader, flags, depth, seq, result, outcome>>

\* conf_validate_tokens: deletes the parser, unless scanning fails midway.
ValidateTokens ==
  /\ phase = "tokens"
  /\ \/ /\ TokensAllowed(disk)
        /\ Goto("structure") /\ UNCHANGED <<faults, parser>>
     \/ /\ ~TokensAllowed(disk)
        /\ Error /\ UNCHANGED <<faults, parser>>
     \/ /\ Fault \/ (~Composes(disk) /\ UNCHANGED faults)
        /\ Error /\ parser' \in BOOLEAN
  /\ UNCHANGED <<disk, edits, check, reader, sound, parsed, depth, seq, result, outcome>>

\* conf_validate_structure up to its loop.
StructureBegin ==
  /\ phase = "structure"
  /\ \/ /\ YamlInit
        /\ check' = [depth |-> 0, seq |-> FALSE,
                     count |-> [d \in 0 .. CONF_MAX_DEPTH |-> 0]]
        /\ Goto("structure_events")
        /\ UNCHANGED faults
     \/ YamlInitFails /\ Error /\ UNCHANGED <<check, reader, parser>>
  /\ UNCHANGED <<disk, edits, sound, parsed, depth, seq, result, outcome>>

\* What conf_validate_structure refuses, and mistakes that forget a part of it.
MisplacedMapping(c) ==
  \/ c.depth = CONF_ROOT_DEPTH /\ c.count[c.depth] # 1
  \/ c.depth >= CONF_MAX_DEPTH

SecondSequenceUnnoticed(c) == c.depth # CONF_MAX_DEPTH \/ c.count[c.depth] # 1

MisplacedSequence(c) ==
  c.seq \/ c.depth # CONF_MAX_DEPTH \/ c.count[c.depth] # 1

BareValueUnnoticed(c) == c.depth = 0
RootUnnoticed(c) == c.depth = CONF_ROOT_DEPTH /\ c.count[c.depth] # 0

MisplacedScalar(c) ==
  \/ c.depth = 0
  \/ c.depth = CONF_ROOT_DEPTH /\ c.count[c.depth] # 0

Misplaced(c, e) ==
  \/ e.type = "MappingStart" /\ MisplacedMapping(c)
  \/ e.type = "SequenceStart" /\ MisplacedSequence(c)
  \/ e.type = "Scalar" /\ MisplacedScalar(c)

\* How it leaves a mapping; and mistaken, with the count reset too soon.
LeftTooSoon(c) ==
  [depth |-> c.depth - 1,
   count |-> [c.count EXCEPT ![c.depth] = 0],
   seq   |-> c.seq /\ c.depth # CONF_MAX_DEPTH]

LeftMapping(c) ==
  [depth |-> c.depth - 1,
   count |-> [c.count EXCEPT ![c.depth - 1] = 0],
   seq   |-> c.seq /\ c.depth # CONF_MAX_DEPTH]

\* How it counts what it does not refuse.
Counted(c, e) ==
  CASE e.type = "MappingStart" -> [c EXCEPT !.depth = @ + 1]
    [] e.type = "MappingEnd" -> LeftMapping(c)
    [] e.type = "SequenceStart" -> [c EXCEPT !.seq = TRUE]
    [] e.type = "SequenceEnd" -> [c EXCEPT !.count[c.depth] = 0]
    [] e.type = "Scalar" ->
         [c EXCEPT !.count[c.depth] =
                     IF c.depth = CONF_MAX_DEPTH /\ @ = 2 THEN 1 ELSE @ + 1]
    [] OTHER -> c

\* One turn of conf_validate_structure's loop.
StructureEvent ==
  /\ phase = "structure_events"
  /\ \/ /\ Fetch
        /\ IF Misplaced(check, NextEvent)
           THEN Error /\ parser' = FALSE /\ UNCHANGED <<check, sound>>
           ELSE /\ check' = Counted(check, NextEvent)
                /\ IF NextEvent.type = "StreamEnd"
                   THEN Goto("parse") /\ parser' = FALSE /\ sound' = TRUE
                   ELSE UNCHANGED <<phase, parser, sound>>
        /\ UNCHANGED faults
     \/ FetchFails /\ Error /\ UNCHANGED <<reader, check, parser, sound>>
  /\ UNCHANGED <<disk, edits, parsed, depth, seq, result, outcome>>

-----------------------------------------------------------------------------
(***************************************************************************)
(* conf_parse.                                                             *)
(***************************************************************************)

\* conf_parse and conf_begin_parse up to its loop.
ParseBegin ==
  /\ phase = "parse"
  /\ \/ /\ sound /\ ~parsed /\ arg = <<>> /\ depth = 0
        /\ YamlInit
        /\ Goto("begin")
        /\ UNCHANGED faults
     \/ /\ ~(sound /\ ~parsed /\ arg = <<>> /\ depth = 0)
        /\ Error /\ UNCHANGED <<faults, reader, parser>>
     \/ YamlInitFails /\ Error /\ UNCHANGED <<reader, parser>>
  /\ UNCHANGED <<disk, edits, check, sound, parsed, depth, seq, result, outcome>>

\* One turn of conf_begin_parse's loop: on to the root mapping.
BeginEvent ==
  /\ phase = "begin"
  /\ \/ /\ Fetch
        /\ IF NextEvent.type = "MappingStart"
           THEN depth' = depth + 1 /\ Goto("core")
           ELSE UNCHANGED <<depth, phase>>
        /\ UNCHANGED faults
     \/ FetchFails /\ Error /\ UNCHANGED <<reader, depth>>
  /\ UNCHANGED <<disk, edits, check, flags, seq, result, outcome>>

\* conf_parse_core fetches an event of the given type.
CoreFetch(type) ==
  /\ phase = "core"
  /\ Fetch
  /\ NextEvent.type = type

\* conf_parse_core: conf_event_next fails.
CoreFetchFails ==
  /\ phase = "core"
  /\ FetchFails
  /\ Error
  /\ UNCHANGED <<disk, edits, check, reader, flags, depth, seq, result, outcome>>

\* conf_pop_scalar; of an empty array it dereferences NULL.
PopScalar ==
  IF arg = <<>> THEN Undefined("wild") /\ UNCHANGED arg
  ELSE arg' = SubSeq(arg, 1, Len(arg) - 1) /\ UNCHANGED <<phase, outcome>>

CoreMappingStart ==
  /\ CoreFetch("MappingStart")
  /\ depth' = depth + 1
  /\ UNCHANGED <<disk, edits, faults, phase, check, flags, seq, result, outcome>>

CoreMappingEnd ==
  /\ CoreFetch("MappingEnd")
  /\ depth' = depth - 1
  /\ CASE depth = 2 -> PopScalar
       [] depth = 1 -> Goto("end") /\ UNCHANGED <<arg, outcome>>
       [] OTHER -> UNCHANGED <<phase, arg, outcome>>
  /\ UNCHANGED <<disk, edits, faults, check, flags, seq, pool, alloc, data>>

CoreSequenceStart ==
  /\ CoreFetch("SequenceStart")
  /\ seq' = TRUE
  /\ UNCHANGED <<disk, edits, faults, phase, check, flags, depth, result, outcome>>

CoreSequenceEnd ==
  /\ CoreFetch("SequenceEnd")
  /\ seq' = FALSE
  /\ PopScalar
  /\ UNCHANGED <<disk, edits, faults, check, flags, depth, pool, alloc, data>>

\* An event conf_parse_core does not know is skipped; but past the end of
\* the stream it calls itself until the stack is exhausted.
CoreOther ==
  /\ phase = "core"
  /\ Fetch
  /\ NextEvent.type \notin {"MappingStart", "MappingEnd", "SequenceStart",
                            "SequenceEnd", "Scalar"}
  /\ IF NextEvent.type = "None" THEN Undefined("wild")
     ELSE UNCHANGED <<phase, outcome>>
  /\ UNCHANGED <<disk, edits, faults, check, flags, depth, seq, result>>

-----------------------------------------------------------------------------
(***************************************************************************)
(* conf_parse_core on a scalar: conf_push_scalar, then by position.        *)
(***************************************************************************)
StartsPool == ~seq /\ depth = CONF_ROOT_DEPTH
IsLeaf == seq \/ (depth # CONF_ROOT_DEPTH /\ Len(arg) = depth)

\* conf_push_scalar has no memory: it takes the scalar off again.
CoreScalarNoMemory ==
  /\ CoreFetch("Scalar")
  /\ Fault
  /\ Error
  /\ UNCHANGED <<disk, edits, check, flags, depth, seq, result, outcome>>

\* A directive's name, and anything else that is only remembered.
CoreKey ==
  /\ CoreFetch("Scalar")
  /\ ~StartsPool /\ ~IsLeaf
  /\ arg' = Append(arg, NextEvent.value)
  /\ UNCHANGED <<disk, edits, faults, phase, check, flags, depth, seq,
                 pool, alloc, data, outcome>>

\* array_push(&cf->pool): a full array is doubled, and may be moved.
PoolGrows == Len(pool) = alloc.n

Grown ==
  IF PoolGrows
  THEN {[n |-> 2 * alloc.n, moves |-> alloc.moves],
        [n |-> 2 * alloc.n, moves |-> alloc.moves + 1]}
  ELSE {alloc}

\* Mistakes: a pointer into the array as it was, and an index off by one.
PushedAtOldMemory(a) == [idx |-> Len(pool) + 1, at |-> alloc.moves]
PushedAtLast(a) == [idx |-> Len(pool), at |-> a.moves]

\* The element that array_push returns, in the array as it now is.
PushedAt(a) == [idx |-> Len(pool) + 1, at |-> a.moves]

\* The name of a pool: array_push and, through conf_handler,
\* conf_pool_init on the new element.  Called with more than the name on
\* the argument stack, conf_handler would set fields of that element
\* before anything initialised them.
CorePoolName ==
  /\ CoreFetch("Scalar")
  /\ StartsPool
  /\ arg' = Append(arg, NextEvent.value)
  /\ \/ /\ PoolGrows /\ Fault /\ Error
        /\ UNCHANGED <<pool, alloc, data, outcome>>
     \/ /\ alloc' \in Grown
        /\ data' = PushedAt(alloc')
        /\ IF arg # <<>>
           THEN Undefined("wild") /\ UNCHANGED <<faults, pool>>
           ELSE /\ UNCHANGED outcome
                /\ \/ /\ pool' = Append(pool, InitialPool(NextEvent.value))
                      /\ UNCHANGED <<faults, phase>>
                   \/ /\ pool' = Append(pool, InitialPool(NULL))
                      /\ Fault /\ Error
  /\ UNCHANGED <<disk, edits, check, flags, depth, seq>>

\* The pool that data points to: none, or one in memory since given back.
Dangling == data = NULL \/ data.at # alloc.moves

\* conf_set_string and conf_set_num on a pool that data points to.
IsSet(cp, key) ==
  IF key \in StringDirectives THEN cp.str[key] # NULL
  ELSE cp.num[key] # CONF_UNSET_NUM

\* Mistake: a directive that was set already is set again.
RejectedNumber(cp, key, value) == key \in NumDirectives /\ Atoi(value) < 0

Rejected(cp, key, value) ==
  \/ IsSet(cp, key)
  \/ key \in NumDirectives /\ Atoi(value) < 0

SetField(cp, key, value) ==
  IF key \in StringDirectives THEN [cp EXCEPT !.str[key] = value]
  ELSE [cp EXCEPT !.num[key] = Atoi(value)]

\* Mistake: the directive's name stays on the stack.
PopValueOnly == arg' = arg

\* conf_parse_core's pops after conf_handler.
PopLeaf ==
  arg' = SubSeq(arg, 1, IF seq THEN Len(arg) ELSE Len(arg) - 1)

\* conf_handler with a value that is alone on the argument stack takes it for
\* a pool's name, and conf_pool_init begins the pool again.
HandleName(value) ==
  IF Dangling
  THEN Undefined("wild") /\ UNCHANGED <<faults, arg, pool>>
  ELSE /\ UNCHANGED <<arg, outcome>>
       /\ \/ /\ pool' = [pool EXCEPT ![data.idx] = InitialPool(value)]
             /\ UNCHANGED <<faults, phase>>
          \/ /\ pool' = [pool EXCEPT ![data.idx] = InitialPool(NULL)]
             /\ Fault /\ Error

\* conf_handler with a directive and its value.  The loop over conf_commands
\* has no end: an empty name matches the terminating null_command, whose set
\* is NULL, and any other name the table does not list is looked for beyond it.
HandleValue(key, value) ==
  IF key \notin Directives
  THEN Undefined("overrun") /\ UNCHANGED <<faults, arg, pool>>
  ELSE IF Dangling
  THEN Undefined("wild") /\ UNCHANGED <<faults, arg, pool>>
  ELSE /\ PopLeaf
       /\ UNCHANGED outcome
       /\ \/ /\ Rejected(pool[data.idx], key, value)
             /\ Error /\ UNCHANGED <<faults, pool>>
          \/ /\ ~Rejected(pool[data.idx], key, value)
             /\ pool' = [pool EXCEPT ![data.idx] = SetField(@, key, value)]
             /\ UNCHANGED <<faults, phase>>
          \/ /\ ~IsSet(pool[data.idx], key) /\ key \in StringDirectives
             /\ Fault /\ Error /\ UNCHANGED pool

\* A directive's value, or an element of its sequence.
CoreLeaf ==
  /\ CoreFetch("Scalar")
  /\ ~StartsPool /\ IsLeaf
  /\ IF arg = <<>> THEN HandleName(NextEvent.value)
     ELSE HandleValue(arg[Len(arg)], NextEvent.value)
  /\ UNCHANGED <<disk, edits, check, flags, depth, seq, alloc, data>>

CoreEvent ==
  \/ CoreFetchFails
  \/ CoreMappingStart
  \/ CoreMappingEnd
  \/ CoreSequenceStart
  \/ CoreSequenceEnd
  \/ CoreOther
  \/ CoreScalarNoMemory
  \/ CoreKey
  \/ CorePoolName
  \/ CoreLeaf

-----------------------------------------------------------------------------
\* One turn of conf_end_parse's loop; its entry checks are on cf's state as
\* conf_parse_core left it.
EndEvent ==
  /\ phase = "end"
  /\ IF ~(sound /\ ~parsed /\ depth = 0)
     THEN Error /\ UNCHANGED <<faults, reader, parser, parsed>>
     ELSE \/ /\ Fetch
             /\ IF NextEvent.type = "StreamEnd"
                THEN parser' = FALSE /\ parsed' = TRUE /\ Goto("post")
                ELSE UNCHANGED <<parser, parsed, phase>>
             /\ UNCHANGED faults
          \/ FetchFails /\ Error /\ UNCHANGED <<reader, parser, parsed>>
  /\ UNCHANGED <<disk, edits, check, sound, depth, seq, result, outcome>>

\* conf_post_validate and the end of conf_create.  Two of its log messages
\* are given too little: that there are no pools (a length is missing), and
\* that a pool's name is empty (a structure where "%s" wants a pointer).
PostValidate ==
  /\ phase = "post"
  /\ IF ~(sound /\ parsed)
     THEN Error /\ UNCHANGED <<pool, outcome>>
     ELSE \/ /\ pool = <<>>
             /\ Error /\ UNCHANGED <<pool, outcome>>
          \/ /\ pool # <<>>
             /\ pool' = [i \in 1 .. Len(pool) |-> ValidatedPool(pool[i])]
             /\ outcome' = "loaded"
             /\ Goto("over")
          \/ /\ pool = <<>> \/ \E i \in 1 .. Len(pool) : pool[i].name = ""
             /\ Undefined("badlog")
             /\ UNCHANGED pool
  /\ UNCHANGED <<disk, edits, faults, check, reader, flags, depth, seq, arg, alloc, data>>

\* conf_destroy, and conf_create returns NULL.
Destroy ==
  /\ phase = "destroy"
  /\ arg' = <<>>
  /\ pool' = <<>>
  /\ outcome' = "failed"
  /\ Goto("over")
  /\ UNCHANGED <<disk, edits, faults, check, reader, flags, depth, seq, alloc, data>>

\* Somebody rewrites the file between two passes over it.
EditFile ==
  /\ phase \in {"tokens", "structure", "parse"}
  /\ edits < MaxEdits
  /\ edits' = edits + 1
  /\ disk' \in Files
  /\ UNCHANGED <<faults, phase, check, reader, flags, depth, seq, result, outcome>>

Over == phase = "over" /\ UNCHANGED vars

Load ==
  \/ Open \/ ValidateDocument \/ ValidateTokens \/ StructureBegin
  \/ StructureEvent \/ ParseBegin \/ BeginEvent \/ CoreEvent \/ EndEvent
  \/ PostValidate \/ Destroy

Next == Load \/ EditFile \/ Over

\* conf_create is ordinary sequential code: it keeps running, and no call need
\* fail.
Spec == Init /\ [][Next]_vars /\ WF_vars(Load /\ faults' = faults)

-----------------------------------------------------------------------------
(***************************************************************************)
(* Correctness.  Both passes over the events keep a position of their own  *)
(* (depth, counts, seq; depth, seq, the argument stack), and nothing but   *)
(* the grammar of YAML makes it agree with libyaml's.  The places that a   *)
(* sound file can take the parser to:                                      *)
(***************************************************************************)
Outside(o) ==
  \/ Len(o) = 1 /\ o[1] \in {"start", "stream", "done"}
  \/ Len(o) = 2 /\ o[1] = "stream" /\ o[2] \in {"root", "docend"}

InRoot(o, expects) ==
  Len(o) = 3 /\ o[1] = "stream" /\ o[2] = "docend" /\ o[3] = expects

InPool(o, expects) ==
  Len(o) = 4 /\ o[1] = "stream" /\ o[2] = "docend" /\ o[3] = "key" /\ o[4] = expects

InSequence(o) ==
  /\ Len(o) = 5 /\ o[1] = "stream" /\ o[2] = "docend" /\ o[3] = "key"
  /\ o[4] = "key" /\ o[5] = "seq"

\* The events that a configuration has at each of them: a mapping of pool
\* names to mappings of directives to values or sequences of values.
Placed(o, e) ==
  \/ Outside(o) /\ e.type \in {"StreamStart", "DocumentStart", "MappingStart",
                               "DocumentEnd", "StreamEnd"}
  \/ InRoot(o, "key") /\ e.type \in {"Scalar", "MappingEnd"}
  \/ InRoot(o, "value") /\ e.type = "MappingStart"
  \/ InPool(o, "key") /\ e.type \in {"Scalar", "MappingEnd"}
  \/ InPool(o, "value") /\ e.type \in {"Scalar", "SequenceStart"}
  \/ InSequence(o) /\ e.type \in {"Scalar", "SequenceEnd"}

\* conf_validate_structure's counters at each of these places.
ValidatorAgrees ==
  \/ Outside(open) /\ check.depth = 0 /\ ~check.seq
  \/ InRoot(open, "key") /\ check.depth = 1 /\ check.count[1] = 0 /\ ~check.seq
  \/ InRoot(open, "value") /\ check.depth = 1 /\ check.count[1] = 1 /\ ~check.seq
  \/ InPool(open, "key") /\ check.depth = 2 /\ check.count[2] \in {0, 2}
  \/ InPool(open, "value") /\ check.depth = 2 /\ check.count[2] = 1
  \/ InSequence(open) /\ check.depth = 2 /\ check.seq

\* conf_parse_core's depth, seq flag and argument stack at each of them.
ParserAgrees ==
  \/ InRoot(open, "key") /\ depth = 1 /\ ~seq /\ Len(arg) = 0
  \/ InRoot(open, "value") /\ depth = 1 /\ ~seq /\ Len(arg) = 1
  \/ InPool(open, "key") /\ depth = 2 /\ ~seq /\ Len(arg) = 1
  \/ InPool(open, "value") /\ depth = 2 /\ ~seq /\ Len(arg) = 2
  \/ InSequence(open) /\ depth = 2 /\ seq /\ Len(arg) = 2

Undisturbed == edits = 0

TypeOK ==
  /\ disk \in Files
  /\ edits \in 0 .. MaxEdits
  /\ faults \in 0 .. MaxFaults
  /\ phase \in {"open", "document", "tokens", "structure", "structure_events",
                "parse", "begin", "core", "end", "post", "destroy", "over"}
  /\ pos \in Nat
  /\ open \in Seq(YamlState) /\ Len(open) > 0
  /\ check \in [depth : Int, count : [0 .. CONF_MAX_DEPTH -> Nat], seq : BOOLEAN]
  /\ parser \in BOOLEAN /\ sound \in BOOLEAN /\ parsed \in BOOLEAN
  /\ depth \in Int
  /\ seq \in BOOLEAN
  /\ arg \in Seq(Scalar)
  /\ pool \in Seq(ConfPool)
  /\ alloc \in [n : Nat \ {0}, moves : Nat]
  /\ data \in [idx : Nat \ {0}, at : Nat] \cup {NULL}
  /\ outcome \in {"running", "loaded", "failed", "wild", "overrun", "badlog"}

\* The structure pass counts in step with the nesting of the file, so that
\* what it refuses is what is misplaced (conf_validate_structure).
ValidatorInStep == Undisturbed /\ phase = "structure_events" => ValidatorAgrees

\* The parse pass pushes, pops and descends in step with the nesting of the
\* file: its five positions are the only ones it is ever in (conf_parse_core).
ParserInStep == Undisturbed /\ phase = "core" => ParserAgrees

\* conf_parse_core never pops an empty stack, never handles a value without
\* a pool, and always terminates, whatever the file holds: the three passes
\* before it refuse every other file.
NoWildAccess == Undisturbed => outcome # "wild"

\* The pool that conf_parse_core hands down through its recursion is the
\* last one of cf->pool, and lies in memory that array_push has not moved
\* since.
DataFresh ==
  data # NULL /\ phase = "core" =>
    /\ data.idx = Len(pool)
    /\ data.at = alloc.moves

\* CONF_DEFAULT_ARGS is enough: whenever conf_push_scalar may be called there
\* is room for one more scalar, so cf->arg is never moved to other memory.
ArgFits == Undisturbed /\ phase = "core" => Len(arg) < CONF_DEFAULT_ARGS

\* Whatever is written to the file meanwhile: what conf_create hands out was
\* parsed to its end, and every pool in it has a name and was validated.
LoadedIsComplete ==
  outcome = "loaded" =>
    /\ sound /\ parsed /\ ~parser /\ depth = 0
    /\ pool # <<>>
    /\ \A i \in DOMAIN pool : pool[i].name # NULL /\ pool[i].valid

\* A field is written once: until the loader gives everything back, no
\* directive overwrites what another one, or another element of its own
\* sequence, has set ("is a duplicate").
FieldsWriteOnce ==
  [][Undisturbed /\ phase = "core" /\ phase' = "core" =>
       \A i \in DOMAIN pool :
          /\ \A k \in StringDirectives :
                pool[i].str[k] # NULL => pool'[i].str[k] = pool[i].str[k]
          /\ \A k \in NumDirectives :
                pool[i].num[k] # CONF_UNSET_NUM => pool'[i].num[k] = pool[i].num[k]]_vars

\* conf_create returns, or C leaves it undefined what it does.
Returns == <>(phase = "over" \/ edits > 0)

=============================================================================
