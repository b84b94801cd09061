----------------------------- MODULE MCXadminConf -----------------------------
(***************************************************************************)
(* Files for the configuration loader, built as trees so that what a file  *)
(* means can be told without reading its events, and the constants of the  *)
(* runs.  A tree is a scalar, an alias, or a mapping or a sequence of      *)
(* nodes; the children of a mapping are its keys and values in turn.       *)
(***************************************************************************)
EXTENDS ConfMeaning, SequencesExt, TLC

Leaf(text) == [kind |-> "scalar", text |-> text, kids |-> <<>>]
Alias == [kind |-> "alias", text |-> "", kids |-> <<>>]
Mapping(kids) == [kind |-> "mapping", text |-> "", kids |-> kids]
Sequence(kids) == [kind |-> "sequence", text |-> "", kids |-> kids]

Ev(type) == [type |-> type, value |-> ""]

\* The events of a node, and those of a document around it.
RECURSIVE EventsOf(_)
EventsOf(node) ==
  LET inner == FlattenSeq([i \in DOMAIN node.kids |-> EventsOf(node.kids[i])])
  IN CASE node.kind = "scalar"   -> <<[type |-> "Scalar", value |-> node.text]>>
       [] node.kind = "alias"    -> <<Ev("Alias")>>
       [] node.kind = "mapping"  -> <<Ev("MappingStart")>> \o inner \o <<Ev("MappingEnd")>>
       [] node.kind = "sequence" -> <<Ev("SequenceStart")>> \o inner \o <<Ev("SequenceEnd")>>

Document(node) == <<Ev("DocumentStart")>> \o EventsOf(node) \o <<Ev("DocumentEnd")>>

\* A file, and the tree it was written from, which the loader never sees.
Stream(documents, tree) ==
  [tokens |-> "allowed",
   events |-> <<Ev("StreamStart")>> \o FlattenSeq(documents) \o <<Ev("StreamEnd")>>,
   tree   |-> tree]

File(node) == Stream(<<Document(node)>>, node)

-----------------------------------------------------------------------------
(***************************************************************************)
(* What a tree means.                                                      *)
(***************************************************************************)
Keys(node) == [i \in 1 .. Len(node.kids) \div 2 |-> node.kids[2 * i - 1]]
Values(node) == [i \in 1 .. Len(node.kids) \div 2 |-> node.kids[2 * i]]

\* A directive has one value, or a sequence of them.
IsValue(node) ==
  \/ node.kind = "scalar"
  \/ node.kind = "sequence" /\ \A i \in DOMAIN node.kids : node.kids[i].kind = "scalar"

ValuesOf(node) == IF node.kind = "scalar" THEN <<node>> ELSE node.kids

IsPool(node) ==
  /\ node.kind = "mapping"
  /\ \A i \in DOMAIN Keys(node) : Keys(node)[i].kind = "scalar"
  /\ \A i \in DOMAIN Values(node) : IsValue(Values(node)[i])
  /\ Cardinality({i \in DOMAIN Values(node) : Values(node)[i].kind = "sequence"}) <= 1

IsPoolMapping(node) ==
  /\ node.kind = "mapping"
  /\ \A i \in DOMAIN Keys(node) : Keys(node)[i].kind = "scalar"
  /\ \A i \in DOMAIN Values(node) : IsPool(Values(node)[i])

\* The directives of a pool with their values, one pair per value.
Settings(node) ==
  FlattenSeq([i \in DOMAIN Keys(node) |->
    [j \in DOMAIN ValuesOf(Values(node)[i]) |->
       [key |-> Keys(node)[i].text, value |-> ValuesOf(Values(node)[i])[j].text]]])

AreSettable(settings) ==
  \A i \in DOMAIN settings :
     /\ settings[i].key \in Directives
     /\ settings[i].key \in NumDirectives => settings[i].value \in DOMAIN NumOf
     /\ \A j \in 1 .. i - 1 : settings[j].key # settings[i].key

SettingOf(settings, key, otherwise) ==
  IF \E i \in DOMAIN settings : settings[i].key = key
  THEN settings[CHOOSE i \in DOMAIN settings : settings[i].key = key].value
  ELSE otherwise

PoolOf(name, settings) ==
  [name  |-> name,
   str   |-> [k \in StringDirectives |-> SettingOf(settings, k, NULL)],
   num   |-> [k \in NumDirectives |->
                LET text == SettingOf(settings, k, NULL)
                IN IF text = NULL THEN DefaultOf(name, k) ELSE NumOf[text]],
   valid |-> TRUE]

IsMeaningful(node) ==
  /\ IsPoolMapping(node)
  /\ node.kids # <<>>
  /\ \A i \in DOMAIN Values(node) : AreSettable(Settings(Values(node)[i]))

PoolsOf(node) ==
  [i \in DOMAIN Keys(node) |-> PoolOf(Keys(node)[i].text, Settings(Values(node)[i]))]

\* The files that C does not define an answer for.
IsCareless(node) ==
  /\ IsPoolMapping(node)
  /\ \/ \E i \in DOMAIN Values(node) :
          \E j \in DOMAIN Settings(Values(node)[i]) :
             Settings(Values(node)[i])[j].key \notin Directives
     \/ \E i \in DOMAIN Keys(node) : Keys(node)[i].text = ""
     \/ node.kids = <<>>

-----------------------------------------------------------------------------
(***************************************************************************)
(* Trees of pools: one pool with up to two entries, among them values that *)
(* are no numbers, duplicates, sequences and an unknown directive; and up  *)
(* to four pools with one entry each.                                      *)
(***************************************************************************)
Texts == {"", "meta", "data", "ip", "user", "port", "bogus", "7"}
Numbers == [s \in {"7"} |-> 7]

Entries(keys, texts) ==
  {<<Leaf(k), Leaf(v)>> : k \in keys, v \in texts}
    \cup {<<Leaf(k), Sequence(vs)>> : k \in keys,
            vs \in {<<Leaf("7")>>, <<Leaf("7"), Leaf("7")>>, <<Leaf("7"), Leaf("ip")>>}}

Pools(keys, texts, n) ==
  {Mapping(FlattenSeq(es)) :
     es \in UNION {[1 .. m -> Entries(keys, texts)] : m \in 1 .. n}}

OnePool ==
  {Mapping(<<Leaf("meta"), p>>) : p \in Pools({"ip", "port", "bogus"}, {"7", ""}, 2)}

SmallPools ==
  {Mapping(<<Leaf("ip"), Leaf("ip")>>), Mapping(<<Leaf("port"), Leaf("7")>>),
   Mapping(<<Leaf("port"), Leaf("ip")>>), Mapping(<<Leaf("ip"), Sequence(<<Leaf("7")>>)>>)}

\* Mappings of 1 to n pools.
Several(names, pools, n) ==
  {Mapping(FlattenSeq(ps)) :
     ps \in UNION {[1 .. m -> {<<Leaf(name), p>> : name \in names, p \in pools}]
                     : m \in 1 .. n}}

SeveralPools ==
  Several({"meta", "data", ""}, SmallPools, 2)
    \cup Several({"meta"}, {Mapping(<<Leaf("ip"), Leaf("ip")>>)}, 4)

PoolTrees == OnePool \cup SeveralPools

\* Trees of any shape, by the number of their events, with one text only; a
\* collection has a member, since an empty one takes a token that
\* conf_validate_tokens refuses.
RECURSIVE NodesOf(_), ListsOf(_)
NodesOf(n) ==
  IF n = 1 THEN {Leaf("ip"), Alias}
  ELSE IF n < 3 THEN {}
  ELSE {Sequence(kids) : kids \in ListsOf(n - 2)}
         \cup {Mapping(kids) : kids \in {l \in ListsOf(n - 2) : Len(l) % 2 = 0}}

ListsOf(n) ==
  IF n = 0 THEN {<<>>}
  ELSE UNION {{<<h>> \o t : h \in NodesOf(k), t \in ListsOf(n - k)} : k \in 1 .. n}

AnyTrees == UNION {NodesOf(n) : n \in 1 .. 10}

-----------------------------------------------------------------------------
\* Files that are not one document of a tree.
Sample == Mapping(<<Leaf("meta"), Mapping(<<Leaf("ip"), Leaf("7")>>)>>)

OddFiles ==
  {Stream(<<>>, Alias), Stream(<<Document(Sample), Document(Sample)>>, Alias),
   [File(Sample) EXCEPT !.tokens = "disallowed", !.tree = Alias]}
    \cup {[File(Sample) EXCEPT !.events = SubSeq(@, 1, n), !.tree = Alias] :
            n \in 0 .. Len(File(Sample).events) - 1}

PoolTreeFiles == {File(t) : t \in PoolTrees}
AnyTreeFiles == {File(t) : t \in AnyTrees} \cup OddFiles
AllTreeFiles == PoolTreeFiles \cup AnyTreeFiles

\* Small files and files that trip a parser which nobody protects: what a file
\* can be rewritten to after it was validated.
TrippingTrees ==
  {Sample,
   Mapping(<<Leaf("meta"), Sequence(<<Leaf("7")>>)>>),
   Mapping(<<Leaf("meta"), Mapping(<<Leaf("ip"), Mapping(<<Leaf("ip"), Leaf("7")>>)>>)>>),
   Mapping(<<Leaf("meta"), Mapping(<<Leaf("ip"), Leaf("7")>>), Sequence(<<Leaf("7")>>), Alias>>),
   Mapping(<<Leaf("meta"), Mapping(<<Leaf("ip"), Alias>>), Leaf("data"), Alias>>)}

\* An empty mapping, which only the flow style can write.
EmptyFile == [File(Mapping(<<>>)) EXCEPT !.tokens = "disallowed", !.tree = Alias]

EditTreeFiles ==
  {File(t) : t \in TrippingTrees \cup UNION {NodesOf(n) : n \in 1 .. 6}} \cup {EmptyFile}

\* The documented shape (the comment in conf_validate_structure): keyx and
\* keyy, each with single values and one sequence of three elements.
DocumentedPool ==
  Mapping(<<Leaf("ip"), Leaf("7"),
            Leaf("user"), Sequence(<<Leaf("7"), Leaf("ip"), Leaf("7")>>),
            Leaf("port"), Leaf("7")>>)

DocumentedTreeFiles ==
  {File(Mapping(<<Leaf("meta"), DocumentedPool, Leaf("data"), DocumentedPool>>))}

\* The values of Files.  TLC evaluates a definition that a cfg names at every
\* use, and any other constant definition once.
PoolFiles == PoolTreeFiles
AllFiles == AllTreeFiles
EditFiles == EditTreeFiles
DocumentedFiles == DocumentedTreeFiles

-----------------------------------------------------------------------------
(***************************************************************************)
(* The meaning of a file's events (ConfMeaning) is that of its tree.       *)
(***************************************************************************)
ASSUME EventsMeanTheirTree ==
  \A f \in Files :
    /\ Meaningful(f) <=> IsMeaningful(f.tree)
    /\ Careless(f) <=> IsCareless(f.tree)
    /\ Meaningful(f) => Means(f, PoolsOf(f.tree))

-----------------------------------------------------------------------------
(***************************************************************************)
(* What the source says, and the code does not do.                         *)
(***************************************************************************)

\* A directive that the table does not list is refused: conf_handler logs
\* "is unknown" and returns LD_ERROR (xadmin_conf.c:713).
UnknownIsRefused == outcome # "overrun"

\* A file of the shape that conf_validate_structure's comment documents is
\* loaded, if its directives exist (xadmin_conf.c:1203).
DocumentedShapeLoads == outcome # "failed"
=============================================================================
