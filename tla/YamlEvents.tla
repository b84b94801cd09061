------------------------------ MODULE YamlEvents ------------------------------
(***************************************************************************)
(* libyaml as xadmin_conf.c uses it: the event stream that                 *)
(* yaml_parser_parse delivers (conf_event_next), the documents that        *)
(* yaml_parser_load composes (conf_validate_document) and the tokens that  *)
(* yaml_parser_scan returns (conf_validate_tokens).  The library is not in *)
(* the repository; only its contract with the caller is modelled:          *)
(*                                                                         *)
(*  - the events of a stream nest, and the nodes of a mapping alternate    *)
(*    between keys and values.  Where the text does not allow the next     *)
(*    event, yaml_parser_parse returns 0;                                  *)
(*  - once the end of the stream was delivered, the parser succeeds for    *)
(*    ever with an empty event (YAML_NO_EVENT).                            *)
(*                                                                         *)
(* A configuration file is a record [tokens, events]: `events' is any      *)
(* finite sequence of events, grammatical or not, and `tokens' says        *)
(* whether some token other than an alias is of a class that               *)
(* conf_validate_tokens disallows (directives, document markers, flow      *)
(* style, anchors, tags).                                                  *)
(***************************************************************************)
EXTENDS Naturals, Sequences

CONSTANT Scalar \* the texts that occur in configuration files, "" among them

ASSUME ScalarAssumption == "" \in Scalar

NodeEvents == {"Scalar", "Alias", "MappingStart", "SequenceStart"}

EventTypes ==
  NodeEvents \cup {"StreamStart", "DocumentStart", "DocumentEnd", "StreamEnd",
                   "MappingEnd", "SequenceEnd", "None"}

\* A yaml_event_t: `value' is meaningful for a scalar.
Event == [type : EventTypes, value : Scalar]

NoEvent == [type |-> "None", value |-> ""]

\* The parser's states: what the construct being read expects next.
YamlState == {"start", "stream", "root", "docend", "key", "value", "seq", "done"}

\* The event types each state accepts.
Expected ==
  [start  |-> {"StreamStart"},
   stream |-> {"DocumentStart", "StreamEnd"},
   root   |-> NodeEvents,
   docend |-> {"DocumentEnd"},
   key    |-> NodeEvents \cup {"MappingEnd"},
   value  |-> NodeEvents,
   seq    |-> NodeEvents \cup {"SequenceEnd"},
   done   |-> {"None"}]

\* The state of a construct once one more node of it was read.
AfterNode ==
  [root |-> "docend", key |-> "value", value |-> "key", seq |-> "seq"]

\* The construct a starting event opens.
Opened == [DocumentStart |-> "root", MappingStart |-> "key", SequenceStart |-> "seq"]

(***************************************************************************)
(* The parser's stack of constructs, innermost last, before the first      *)
(* event and after one more event.                                         *)
(***************************************************************************)
InitialStack == <<"start">>

Top(open) == open[Len(open)]

Accepts(open, e) == e.type \in Expected[Top(open)]

NodeRead(open) == [open EXCEPT ![Len(open)] = AfterNode[Top(open)]]

NextStack(open, e) ==
  CASE e.type = "StreamStart"   -> <<"stream">>
    [] e.type = "DocumentStart" -> Append(open, Opened[e.type])
    [] e.type \in {"Scalar", "Alias"} -> NodeRead(open)
    [] e.type \in {"MappingStart", "SequenceStart"} ->
         Append(NodeRead(open), Opened[e.type])
    [] e.type \in {"MappingEnd", "SequenceEnd", "DocumentEnd"} ->
         SubSeq(open, 1, Len(open) - 1)
    [] e.type = "StreamEnd"     -> <<"done">>
    [] OTHER -> open

\* Whether the parser, having read pos events of file, can deliver another.
CanRead(file, pos, open) ==
  \/ Top(open) = "done"
  \/ pos < Len(file.events) /\ Accepts(open, file.events[pos + 1])

EventAt(file, pos, open) ==
  IF Top(open) = "done" THEN NoEvent ELSE file.events[pos + 1]

(***************************************************************************)
(* The stacks the parser can have after each prefix of a file's events:    *)
(* one, or none from the first event on that it refuses.                   *)
(***************************************************************************)
StacksAfter(file) ==
  LET after[n \in 0 .. Len(file.events)] ==
        IF n = 0 THEN {InitialStack}
        ELSE LET e == file.events[n]
             IN {NextStack(open, e) : open \in {o \in after[n - 1] : Accepts(o, e)}}
  IN after

\* The whole file can be composed, and the documents it holds.
Composes(file) == <<"done">> \in StacksAfter(file)[Len(file.events)]

Documents(file) ==
  {n \in 1 .. Len(file.events) : file.events[n].type = "DocumentStart"}

\* Every token of the file is of a class that conf_validate_tokens lets pass.
TokensAllowed(file) ==
  /\ file.tokens = "allowed"
  /\ \A n \in 1 .. Len(file.events) : file.events[n].type # "Alias"

=============================================================================
