# xadmin in TLA+

`xadmin` (src/xadmin, C, about 3.8k lines) is the administration program of a
security appliance. It reads a YAML configuration, builds the description of its
databases from it, connects to the PostgreSQL "meta" database, and then shows
text menus at which an administrator sets the network up, changes the password,
and starts or stops services. This directory holds its models, the TLC runs that
check them, and the TLAPS proofs about them.

## Inventory

| component | state it keeps | operations | where it is hard | what makes it correct |
|---|---|---|---|---|
| configuration loader, `xadmin_conf.c` | `struct conf`: the open file, the libyaml parser, `depth`, `seq`, the argument stack `arg`, the array `pool`, `sound`/`parsed` | `conf_open`, three validation passes, `conf_parse`, `conf_post_validate`, `conf_destroy`, all called by `conf_create` | two passes keep separate books of the same nesting; pools move in memory while a pointer to one is held; every library call may fail; the file is read four times | all or nothing: the pools that the file means, or NULL; no access to a pool that is not there |
| database pool, `xdb_pool.c`, and the transform in `xadmin_conf.c` | `struct xmeta_db`: URIs, account, connection | `xdb_pool_create`, `conf_db_each_transform`, `xdb_pool_ping`, `xdb_pool_preconnect` | partial failure; an uninitialised buffer; several pools for one structure; ping and connect are two calls to two addresses | one pool's data, whole (of a pool that has a password); a connection when the console starts |
| `main` and `ctx_create`, `xadmin.c` | `struct context` | start-up, in order, giving up at the first failure | which failure leads where | no exit without a reason |
| console, `xadmin.c` | the call stack of menus, locals of the command, `network.conf`, what waits on stdin | four menus, eight commands, four ways to read the terminal | characters that one prompt leaves are read by the next; interrupts; file truncated before it is rewritten; texts that go through a shell | what is saved is what was typed; what is applied agrees with it as far as the shell leaves the texts alone and `ifconfig` obeys |
| services, `xadmin.c` | none; reads `/proc` and a process list | `check_all_service`, `get_pid` | processes come and go during the scan; names that the kernel cuts short | a service that ran all along, and whose status shows its name, is found |
| array, `xarray.c` | elements, count, room | push, pop, get, top, each, sort, swap | doubling moves the elements | an element stays what it was, at its index |
| string, `xstring.c` | pointer, length | duplicate, copy, compare, deinit | who owns the memory; what is left when an allocation fails half way | each text is released once, and only where the code gives it up |
| backup, `xdbbackup.c` | table list file, dump files, counts | connect, list tables, dump | partial failure, counting | not built: the Makefile leaves it out and its calls are commented out |

The components interact by calls. `main` calls `ctx_create`, which calls
`conf_create`, `xdb_pool_create` (which has `array_each` call
`conf_db_each_transform` for each configuration pool) and `xdb_pool_preconnect`,
and then `sgadmin_start`. There are no threads; concurrency comes from outside:
whoever rewrites the configuration file, the database servers, the user and his
signals. libyaml and libpq are external.

The hazards, each with its line and the properties about it, are listed in
`PROJECT.json`.

## Modules

| module | models | one step is |
|---|---|---|
| `YamlEvents` | libyaml as the loader uses it (external): the grammar of event streams, and what composing and scanning a file answer | (operators only) |
| `XadminConf` | `conf_create` and everything it calls | a libyaml event in `conf_validate_structure`, `conf_begin_parse`, `conf_parse_core` and `conf_end_parse`; a whole call for the rest |
| `ConfLoader` | the abstract loader: what `conf_create` promises | the answer |
| `ConfMeaning` | what a file means, told from the nesting of its events; `ImplementsLoader` | (operators only) |
| `ConfStrings` | the texts of a configuration: `xstring.c` as the loader and `conf_destroy` use it, and `_nc_atoi` | an operation on one string, a pop, or the end of a pool |
| `XArray` | `xarray.c` over blocks of memory | a call; in `array_each` one element |
| `ElementSeqs` | the abstract arrays: what a client counts on | a call |
| `Startup` | `main`, `ctx_create`, `xdb_pool_create`, the transform, ping and connect | a call that can fail; one pool of the configuration |
| `Console` | `sgadmin_start`, its three menus, and the commands | one read of the terminal and everything up to the next one |
| `Services` | `check_all_service` and `get_pid`, with the processes in `/proc` | a system call that looks at the processes, or a change of one process |
| `MC...` | the constants of the runs | |
| `Induction` | theorems about recursive functions, shared by the proofs | |
| `..._proofs` | theorems and proofs | |

**XadminConf.** `phase` is the program counter. `pos` and `open` are libyaml's
state in the current pass: how many events were read, and the stack of constructs
that are open. `check` holds the locals of `conf_validate_structure` (`depth`,
`count`, `seq`); `depth`, `seq`, `arg`, `pool`, `parser` (`valid_parser`), `sound`
and `parsed` are the fields of `struct conf`. `alloc` is the room of the pool
array and how often its memory has moved, and `data` the pool pointer of
`conf_parse_core`, as an index and the memory it points into: `array_push` that
doubles may or may not move the array, and a pointer from before the move is
dangling. A file is a sequence of events, and whether its tokens are all of
allowed classes. Any library call may fail (`Fault`), up to `MaxFaults` times, and
the file may be rewritten between two passes (`EditFile`), up to `MaxEdits` times.
`outcome` is "wild" where the code would pop an empty stack, use a missing or
moved pool, or recurse for ever; "overrun" where `conf_handler` runs off the end of
its table; "badlog" where a log call has arguments of the wrong type. Texts are
members of a small set, and `_nc_atoi` a partial function on it (`ConfStrings` has
its arithmetic).

**ConfMeaning.** The parts of a file (names of pools, names of directives, values)
are known by the number of their event, and each is what it is because of the one
stack that libyaml has there (`Before`). A value is given to the directive named
last before it, in the pool named last. `IsConfiguration` says which files have
the shape the loader accepts, `Meaningful` which of these can be loaded, `Careless`
which have no answer that C defines, and `Means(f, pools)` that these are the
pools of a file: in the order of their names, each field from the one value given
to it, or the default. `Answer` and `Handed` map the state of `XadminConf` to
that of `ConfLoader`.

Two simplifications: the recursion of `conf_parse_core` is a loop (each call
handles one event and ends in the next call, and `data` is all it hands down),
and an edit happens between passes, not in the middle of one (libyaml buffers
what it reads).

**ConfStrings.** A *place* is where a `struct string` is: one of the three
arguments, or a field of a pool. `data` is the pointer at each place, `heap` the
text in each block of memory, `narg` and `npool` the lengths of the two arrays,
and `lost` (history) the blocks whose last pointer was overwritten. The steps are
the operations on strings in the order in which the parser applies them to a file
that was accepted: `PushScalar`, `PoolInit`, `SetString`, `SetNum`, `PopAfter`,
and at the end, or after a failing `malloc`, `conf_destroy` in three actions.
`conf_pool_deinit` resets six of the fields without releasing them; `Unreleased`
names them. A text is a sequence of digits and of characters that are none;
`NcAtoi` computes modulo `Width`, as `_nc_atoi` does in the int of the build.

**XArray.** A block of memory holds a sequence of elements; `array` are the
structs, `pointer` the last pointer the client was given into each array, `each`
the locals of a running `array_each`. `array_push` of a full array takes a block
twice as large, where the array is or elsewhere, whose rest holds anything, or
fails. `array_idx` computes in a `uint32_t`. The client keeps to what the callers
in this repository keep to: no pointer is used after a push or pop of its array, and the
function of `array_each` leaves the array's length alone. `ElementSeqs` has a
sequence, a cursor and a walk for each array, and no memory; `ImplementsSeqs` is
the refinement. `alloc` and `data` in `XadminConf` are this array once more, cut
down to its moves.

**Startup.** `pc` is the call that comes next. `heap` is what has been allocated,
`cf` the configuration, as any nonempty sequence of pools (which is what
`ConfLoader` promises), `meta` the structure `xmeta_db`, with a URI as the record
of what it tells libpq, and `buffer` what is left on the stack where
`conf_db_each_transform` has its uninitialised `passwd`: garbage, or what the call
before decrypted. A pool of `mongodb` is written through `xdata_db`, which nothing
sets: `pc = "wild"`. Servers start and stop up to `MaxFlaps` times.

**Console.** `input` is what was typed and not yet read; the terminal delivers
whole lines except to `mygetch`, and stdio keeps what a prompt leaves. `frames`
is the call stack of menus ("Prev" calls the other menu, it does not return),
`at` the kind of prompt, `cmd` and `answers` the running command and its locals,
`fp`, `buffered` and `file` the stream on `network.conf`, what was written to it
and not yet out, and the file. `interface` is what `ifconfig` last did and
`passwd` what `chpasswd` was last told. `told` is a history variable: the lines
typed at the prompts of the running command. `Typed` says what the user types at
which kind of prompt, so that each run is about one user.

Texts reach `ifconfig` and `chpasswd` through `system`, unquoted, and nobody looks
at what comes of it. `Special` are the characters that the shell, or one of these
programs, takes for itself. A text without one arrives as it is (`ToldIfconfig`,
`ToldChpasswd`); what comes of another is `Unknown`, which stands for anything, the
state before included. An empty interface name is no word of the command, so the
next one, "inet", is taken for the name: to just return at the prompt that offers
"default:eth1" has `ifconfig` configure an interface of that name. A password that is
too long for the command's buffer cuts `chpasswd` off. `ifconfig` may refuse whatever
it is told (`Ifconfig`). What else a text with special characters can make the
shell do (a command of its own, a file) is left out.

**Services.** `procs` says which program each process number runs now. `pc` is
the next call; `lines`, `procname`, `dp`, `pid`, `fp` and `line` are the locals of
`check_all_service` and `get_pid`. `entries` and `listed` are the kernel's side of
the directory: `readdir` hands out entries that an earlier `getdents` has listed,
as many at a time as it likes, in ascending order. A status that is open becomes
unreadable when its process ends, even if another process gets the number, and
`fgets`, whose result is not looked at, then leaves the line as it was (`LineRead`).
`Shown` is the name that the status of a program shows, of which the kernel keeps
15 characters: a service with a longer name in the list is reported as down though
it runs. `steady`, `ran` and `missed` are history: who has run on since the directory was
opened, whether a process of the name was there, and whether a status vanished
before it was read.

## Runs

| run | instance | shows |
|---|---|---|
| `files` | one to four pools with good, bad, repeated and unknown directives; every tree of up to ten events, with aliases; odd files (none or two documents, disallowed tokens, truncated); room for one pool; one fault | types; both passes stay in step with the nesting; no wild access; three arguments suffice; the pool pointer is fresh over two doublings; no field is overwritten; `XadminConf` implements `ConfLoader` and returns; and (`EventsMeanTheirTree`, an assumption that TLC evaluates) what `ConfMeaning` reads off the events is what the tree says that the file was written from |
| `edits` | files any of which may replace any other between two passes; one fault | what is loaded is complete even then |
| `unknown` | pools | **violated**: an unknown directive is not refused |
| `documented` | the file shape in the comment of `conf_validate_structure` | **violated**: it is not loaded |
| `startup` | one or two pools out of six, two hosts, two ports, one fault, one server that starts or stops | a structure is held whole or not at all; the addresses, and the password if there is one, are those of the meta database named last; the console has a connection, to the host that was pinged and at the default port; giving up has a reason; start-up ends |
| `user` | a user who waits for prompts, with texts that are empty or 10 characters long and answers of one or 31, in all menus and with interrupts | one line per prompt; saved as typed; the password as typed twice; file and interface agree, unless the file names none or `ifconfig` refused; nothing is held back; every command ends |
| `cancel` | the same user | **violated**: cancelling empties `network.conf` |
| `longpasswd` | a password of eleven characters | **violated**: reported as changed, and not changed |
| `services` | three processes of two programs, one with a name the kernel cuts short; a list of two services and a comment; one fault | a service is found whose process runs all along and shows the name; one reported ran, unless a status vanished; all is closed; each search ends |
| `stale` | the same | **violated**: a service that never ran is printed as running |
| `array` | two arrays, three blocks of up to four elements | the books agree with the memory; each block has one owner; pointers stay good; `XArray` implements `ElementSeqs` |
| `strings` | up to two pools with two strings that are released, one that is not, and a number; an int of four bits; one fault | one owner for each text; nothing on the stack of a loaded configuration; texts are lost by `conf_destroy` alone; numbers that fit are read as written; `conf_destroy` ends |

The five violated runs are the findings in `PROJECT.json`, each against a comment
or a message of the program.

**Why the bounds are enough.** The loader's control depends on a file only
through the depth of nesting (at most three are told apart), the parity of a
mapping's children, and the class of a directive; trees of ten events reach one
level more than is allowed, a sequence inside a pool, and every misplacement above. `PoolAlloc = 1` (the code: 8)
makes the array double with the second and the third pool. A second fault in one
load brings nothing new, as the first one ends it; a second edit could only replace
what the first wrote, and the theorems about edited files bound neither. A
start-up with two pools has every order of a meta pool and another, and the
transform keeps nothing but `meta` and `buffer` between two pools. The console's
buffers keep their real sizes (11 and 33). Texts and get_vchar's answers are read
into buffers of the same size by the same operators: an answer takes them to their
limit, and the texts are the shortest there is and the longest password that its
command has room for. Two menus on the stack reach every command and a full stack.
Nobody in the runs types a special character: what `ConfiguredAsSaved` and
`PasswdTypedTwice` say of such texts is little, and it is proved. Users who type ahead, whose lines are too long or whose keys send
several characters are not run: what holds of them is proved of every user
(`ConfiguredAlwaysAsSaved`, `NothingEverHeldBack`). Three processes allow one that
runs on, one listed before and one after it, and another that takes a number that
was freed. Three blocks let each of two arrays move, and one of them find no
memory; with arrays created for one element and up to three elements in both, one of them doubles
twice. `MaxBlocks = 9` is all that two pools of three strings and three arguments
can hold, and four bits let a number of two digits wrap around into an accepted
and into a refused one. `array_init` for no elements is tried (`Counts`).

`CHECK_DEADLOCK FALSE` is only in the runs of `Console`, `Startup` and
`ConfStrings`, which stop: the program exits, or the configuration is gone.

**Fairness.** `conf_create`, `main` and `check_all_service` are sequential code
that keeps running: weak fairness of a step of theirs. In `XadminConf` and
`Services` it is a step in which no call fails (conjoined with
`faults' = faults`), so that no failure is ever owed. It is used by `Returns`, `Ends` and `SearchEnds`; the processes of `Services` are not
constrained and may come and go for ever. `ConfStrings` assumes that
`conf_destroy` runs on, and nothing of the parser before it. In `Console`
the reads are weakly fair (the program returns from `fgets` once a line waits),
and the user is assumed to go on answering within a command: he types at text
and key prompts again and again, and to a question he gives each of his answers
at some time. Nothing is assumed of what he chooses at a menu. `Returns` is about
a file that nobody rewrites: `conf_begin_parse` would turn for ever on one that
was emptied between two passes.

## Proofs

All theorems hold for every value of the constants that satisfies the named
assumptions (`ScalarAssumption`, `FilesAssumption`, `ConstantsAssumption`,
`ConsoleAssumption`, `StartupAssumption`, `ServicesAssumption`, `ArrayAssumption`,
`StringsAssumption`): any finite files, any texts, any users, any configurations,
processes, arrays and memory, and any number of faults, edits and servers'
changes.

* `XadminConf_proofs`: `TypeCorrect`. The type invariant needs that libyaml's
  stack is *nested* (an innermost construct over "stream", each of the others at
  the place that awaits its end), so that it is never empty after a pop. One
  lemma per action. Then `ValidatorAlwaysInStep`, `ParserAlwaysInStep`,
  `NoWildAccessEver`, `ArgAlwaysFits`, `DataAlwaysFresh`, `LoadedAlwaysComplete`,
  `FieldsAlwaysWriteOnce`. The heart is the link between two passes: the
  structure pass, having accepted events 1 to n, knows that each of them was
  *placed* where a configuration has it, by a *walk* of libyaml's stacks. The
  parse pass later walks the same stacks, so each event it meets is placed, and
  its own books agree with the stack at five positions. Neither pass's books
  alone are inductive, and none of it holds for a file that changes in between,
  which is why the properties are conditional on `edits = 0`; `LoadedIsComplete`
  and `DataFresh` are not, and rest on the flags alone.
* `ConfMeaning_proofs`: `LoaderAlwaysImplemented`, that `conf_create` keeps the
  promise of `ConfLoader`, for every file. Its hypothesis `[]Undisturbed` is that
  nobody rewrites the file between two passes (as in the run, `MaxEdits = 0`):
  otherwise the file that is parsed need not be the one that was validated. The
  argument has four parts.
  1. *Files.* By induction over the events, a file that composes has exactly one
     nested stack before each of them, and refuses none (`Trace`, `DoneStays`). So
     libyaml's state in a pass is determined by the number of events read
     (`Reached`), and a pass can always read on.
  2. *Meaning, event by event.* `Filled(f, pools, n)` and `SettableSoFar(f, n)`
     say what the pools are after n events. A lemma for each kind of event says
     how they go on: `NameEvent`, `SetEvent`, `ValueEvent`, `QuietEvent`;
     `RejectedEvent` says that what `conf_set_string` or `conf_set_num` refuses
     is a value given twice or no number, so that the file means nothing.
     `AllFilled` says that at the end, with the defaults, they are what the file
     means.
  3. *Passes.* `AnswerInv` says this of the state, phase by phase: the structure
     pass has found every event placed and a sequence in this pool exactly if its
     flag is set (`StructureInv`), and what it refuses is no configuration; the
     parse pass is on a configuration and has filled in what was read
     (`BeginInv`, `CoreInv`, `EndInv`, `PostInv`); and `conf_destroy` is only
     reached after a fault or on a file that means nothing.
  4. *Steps.* Each action keeps `AnswerInv` and is a step of `ConfLoader` or a
     stutter (`AnswerFirst` to `AnswerStep`, for the actions in their order).
* `Induction`: that a set of naturals has a least member (`LeastNumber`), and that
  a recursion over 0 .. n has a solution (`Recursion`), so that a recursive
  function satisfies its equations (`StacksSteps`, `SaidSteps`). The steps of the
  recursion are given as a function, since the provers cannot use the library's
  theorems, which take an operator; inductions are by the least counterexample.
* `ConfStrings_proofs`: `TypeCorrect`, `AlwaysOneOwner`, `NeverBeyond`,
  `LossAlwaysBounded`, `NumberAlwaysAsWritten`. `TextHasOneOwner` is inductive only with
  what is on the stack at each stage of the parser (`StageInv`), that exactly the
  lowest `narg` arguments have texts (`ArgInv`), and that only existing pools have
  any (`PoolInv`): a `string_copy` overwrites a pointer, and loses a text unless
  that was null. Three lemmas say what a copy, a release and a pop do to owners;
  each action cites one. `NumberAsWritten` compares what `_nc_atoi`'s loop has
  after each character, in the width of an int, with what the text says so far: by
  induction the two are the same, or what the text says is too large already
  (`NumberFits`).
* `XArray_proofs`: `TypeCorrect`, `BooksAlwaysAgree`, `AlwaysOneOwner`,
  `PointerAlwaysGood`, and `Implements`, the refinement of `ElementSeqs`. The
  strengthening adds that an array in use has room for between one element and
  the largest block's (so that `2 * nalloc` neither wraps nor is zero), that
  pointers are at elements, and that the length `array_each` has read is still
  the array's. The refinement has a lemma for each action, which computes what
  the abstract sequences, cursors and walk become.
* `Console_proofs`: `ConfiguredAlwaysAsSaved`, `NothingEverHeldBack`, from
  `IInv == StreamInv /\ TextsInv /\ FileInv`: where the stream is open, how many
  texts a command has read by which prompt, and what file, buffer and interface
  can be in each case. They hold for a user who types anything, and so does
  `TypeCorrect`. `ConfiguredAsSaved` promises nothing of the interface where the file names none,
  the shell took a text for its own, or `ifconfig` refused: there the file says what
  was typed, and the interface is whatever came of it. `AlwaysOneLineOnePrompt`, `AlwaysSavedAsTyped` and
  `PasswdAlwaysTypedTwice` hold of every user who waits for the prompts and whose
  lines are shorter than the buffers and end with their only newline (`Waits`;
  `WaitingUser` of the run is one). They need that `fgets` finds the *first* newline, which exists as the least member of a
  set of naturals, and that each text that was read is a line that was told, with
  the last one possibly still to be read (`ToldInv`). `PasswdTypedTwice` is
  about passwords that the shell leaves alone, of any length: those that are too
  long for the command never reach chpasswd.
* `Startup_proofs`: `TypeCorrect`, `WholePoolAlwaysHeld`, `AlwaysOneMetaPool`,
  `ConsoleAlwaysConnected`, `ExitAlwaysHasReason`. `OneMetaPool` says whose the
  addresses are and, if that pool has a password, whose the password; a pool
  without one is given what the stack held, of which nothing is said, and it counts
  as a reason to give up. `ConsoleConnected` states that the connection is to the
  pinged host but at the default port, as the code has it. The strengthening says from
  which pools `meta` was written at each point of the transform, that nothing
  happened to faults and servers if none is counted, and which of the two
  addresses has answered by the time of `connect`.
* `Services_proofs`: `TypeCorrect`, `SteadyAlwaysFound`, `RunningAlwaysRan`,
  `AlwaysAllClosed`. `SteadyIsFound` is about the name that a status shows, and
  would not hold of a program's own name that is longer. A process that has run on is, at each moment, still to be
  listed, or listed and not yet returned, or in hand, or not of the name
  (`Ahead`, `SearchInv`); it runs on through the opening of its status, so that
  the status can be read. And as long as the directory is open, whoever has the
  name now has been counted (`HistoryInv`).

**Only model-checked.** `Returns`, `Ends`, `CommandEnds`, `SearchEnds` and
`Destroyed` are liveness, which the prover does not do. That the events of a file
mean what its tree says (`EventsMeanTheirTree`) is evaluated on the files of the
runs: it is about recursive definitions, and an induction over trees. Every other
property of a passing run is proved.

## Not modelled

* `xdbbackup.c`: not compiled (the Makefile leaves it out), and its calls are
  commented out.
* `encryptStr`, `decryptStr`, `daemon_get_conf`, `get_vuint32`,
  `conf_meta_passwd_set`, `conf_data_passwd_set`, `array_create`,
  `array_destroy`, `array_null`, `array_set`, `xdb_pool_disconnect`: called by
  nobody in the build, or inlines without state of their own. `array_swap`,
  `array_sort` and `array_idx` are not called in the build either, but are
  modelled as part of what `xarray.h` offers.
* `conf_dump`, `conf_file_dump`, logging and the Makefile: they change no state.
* Two consoles on one `network.conf`: the code says nothing of what they should
  leave in it.
* The depth of `conf_parse_core`'s recursion, which is the number of events of
  the file, and the end of the console's input without a hang-up (the menu loop
  spins).
* Errors in writing `network.conf` once it is open, which the code does not look
  at.
* A text with a NUL in it (a "\0" escape of YAML), for which `string_copy` writes
  behind the block it was given.
* The parsers that a failing pass leaves undeleted are in the state (`parser`), but
  `conf_create`'s promise (`ConfLoader`) does not speak of them, nor of the six
  strings of a pool that `conf_destroy` does not release: no property forbids either.
* The contents of a text beyond what a property tells apart, and what the
  commands do that `system` runs, but for what `ifconfig` and `chpasswd` are told.

## What could follow

1. `Startup` with the loader in place of the abstraction, and the console behind
   it: every configuration that `XadminConf` loads is one that `Startup` assumes.
   Today both sides meet in `ConfLoader`, which `XadminConf` implements and
   whose promise `StartupAssumption` states.
2. Two `Console`s that share `file`, once it is said what should hold of them.
