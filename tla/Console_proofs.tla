---------------------------- MODULE Console_proofs ----------------------------
(***************************************************************************)
(* network.conf and the interface it describes (default_ip_setup), however *)
(* the user types and wherever he interrupts the program.                  *)
(*                                                                         *)
(* The file alone does not tell enough for an induction: between fputs and *)
(* fclose the setup is on the interface and in the stream, and the file is *)
(* empty.  So the invariant also says where the stream is open, and what   *)
(* it holds there.  How many texts were read when the user is asked to     *)
(* apply them matters too; what the texts are does not.                    *)
(***************************************************************************)
EXTENDS Console, Induction, SequenceTheorems, TLAPS

\* The stream is open, or could not be opened, within default_ip_setup only;
\* while it is open the file is empty, and until the user has agreed so is
\* the stream.
StreamInv ==
  /\ fp \in {"closed", "open", "null"}
  /\ fp # "closed" => cmd = "ip" /\ at \in {"text", "confirm", "key", "crashed"}
  /\ fp = "open" => file = <<>>
  /\ buffered # <<>> => fp = "open" /\ at = "key" /\ Describes(buffered)
  /\ at = "crashed" => fp # "open"

\* The texts read so far.
TextsInv ==
  /\ \E S : answers \in Seq(S)
  /\ at = "menu" => answers = <<>>
  /\ at = "text" => cmd \in DOMAIN Texts /\ Len(answers) < Texts[cmd]
  /\ at = "confirm" /\ cmd = "ip" => Len(answers) = Texts.ip

FileInv ==
  \/ file = <<>>
  \/ file = <<"saved">> /\ interface = <<"configured">>
  \/ Describes(file)

IInv == StreamInv /\ TextsInv /\ FileInv

-----------------------------------------------------------------------------
\* One more text makes the answers one longer.
LEMMA OneMore ==
  ASSUME NEW s, NEW S, s \in Seq(S), NEW x
  PROVE  /\ Append(s, x) \in Seq(S \cup {x})
         /\ Len(Append(s, x)) = Len(s) + 1
         /\ Len(s) \in Nat
<1>1. s \in Seq(S \cup {x})
  OBVIOUS
<1>2. QED
  BY <1>1

\* The invariant holds before the first menu.
LEMMA InvInit ==
  ASSUME Init
  PROVE  IInv
<1>1. <<>> \in Seq({})
  OBVIOUS
<1>2. QED
  BY <1>1 DEF Init, IInv, StreamInv, TextsInv, FileInv, Describes

\* A menu's turn keeps it.
LEMMA MenuStep ==
  ASSUME IInv, Menu
  PROVE  IInv'
<1> DEFINE entry == SelectMenu(frames[Len(frames)], Atoi(Chopped(Read(SG_UINT32_MAXLEN))))
<1> USE DEF IInv, StreamInv, TextsInv, FileInv, Describes, network
<1>1. at = "menu" /\ fp = "closed" /\ buffered = <<>> /\ answers = <<>>
  BY DEF Menu
<1>2. CASE Call(entry)
  BY <1>1, <1>2 DEF Call
<1>3. CASE entry \in Commands /\ Start(entry)
  <2>1. answers' = <<>> /\ UNCHANGED <<buffered, interface>> /\ cmd' = entry
    BY <1>1, <1>3 DEF Start, Stay
  <2>2. CASE entry = "ip" /\ at' = FirstPrompt(entry) /\ OpenNetwork
    <3>1. at' = "text"
      BY <2>2 DEF FirstPrompt, Texts
    <3>2. QED
      BY <1>1, <2>1, <2>2, <3>1 DEF OpenNetwork, Texts
  <2>3. CASE entry # "ip" /\ UNCHANGED <<fp, file>>
    <3>1. at' = "crashed" \/ at' = FirstPrompt(entry)
      BY <1>3 DEF Start
    <3>2. at' = "text" => entry = "passwd"
      BY <2>3, <3>1, <1>3 DEF FirstPrompt, Texts, Commands
    <3>3. at' # "menu"
      BY <3>1 DEF FirstPrompt
    <3>4. QED
      BY <1>1, <2>1, <2>3, <3>2, <3>3 DEF Texts
  <2>4. QED
    BY <1>3, <2>2, <2>3 DEF Start
<1>4. CASE UNCHANGED <<answers, network, cmd>> /\ at' \in {at, "exited"}
  BY <1>1, <1>4
<1>5. QED
  BY <1>1, <1>2, <1>3, <1>4 DEF Menu

\* A text that is read keeps it.
LEMMA TextStep ==
  ASSUME IInv, Text
  PROVE  IInv'
<1> USE DEF IInv, StreamInv, TextsInv, FileInv, Describes, network
<1> DEFINE x == Chopped(Read(SG_ISTRING_MAXLEN))
<1>1. /\ at = "text" /\ buffered = <<>>
      /\ answers' = Append(answers, x)
      /\ UNCHANGED <<cmd, network>>
      /\ cmd \in DOMAIN Texts /\ Len(answers) < Texts[cmd]
  BY DEF Text
<1>2. PICK S : answers \in Seq(S)
  OBVIOUS
<1>3. /\ answers' \in Seq(S \cup {x})
      /\ Len(answers') = Len(answers) + 1 /\ Len(answers) \in Nat
  BY <1>1, <1>2, OneMore
<1>4. /\ at' \in {"text", "key", "confirm"}
      /\ at' = "text" <=> Len(answers') < Texts[cmd]
  BY DEF Text
<1>5. cmd = "ip" /\ at' = "confirm" => Len(answers') = Texts.ip
  BY <1>1, <1>3, <1>4 DEF Texts
<1>6. QED
  BY <1>1, <1>3, <1>4, <1>5

\* What is known of the interface after ifconfig ran is what it was told.
LEMMA DoneAsTold ==
  ASSUME Len(answers) = Texts.ip, UNCHANGED answers,
         Ifconfig(answers[5], answers[1], answers[2])
  PROVE  Describes(answers)'
<1> SUFFICES ASSUME interface' # Unknown, answers[5] # <<>>
             PROVE  interface' = <<answers[5], answers[1], answers[2]>>
  BY DEF Describes, Unknown
<1> QED
  BY DEF Ifconfig, ToldIfconfig

\* The answer to a question keeps it.
LEMMA ConfirmStep ==
  ASSUME IInv, Confirm
  PROVE  IInv'
<1> USE DEF IInv, StreamInv, TextsInv, FileInv, Describes, network, Stay, Return
<1>1. at = "confirm" /\ buffered = <<>> /\ UNCHANGED cmd
  BY DEF Confirm
<1>2. CASE ApplyNetwork
  <2>1. Len(answers) = Texts.ip
    BY <1>1, <1>2 DEF ApplyNetwork
  <2>2. CASE fp = "open"
    <3>1. /\ buffered' = answers /\ at' = "key" /\ UNCHANGED <<fp, file, answers>>
          /\ file = <<>>
      BY <1>2, <2>2 DEF ApplyNetwork, PutTexts
    <3>2. Ifconfig(answers[5], answers[1], answers[2])
      BY <1>2, <2>2 DEF ApplyNetwork
    <3>3. Describes(answers)'
      BY <2>1, <3>1, <3>2, DoneAsTold
    <3> QED
      BY <1>1, <2>2, <3>1, <3>3
  <2>3. CASE fp # "open"
    BY <1>1, <1>2, <2>3 DEF ApplyNetwork
  <2>4. QED
    BY <2>2, <2>3
<1>3. CASE ApplyPasswd
  BY <1>1, <1>3 DEF ApplyPasswd
<1>4. CASE ApplyService
  BY <1>1, <1>4 DEF ApplyService
<1>5. CASE ApplySystem
  <2>1. <<>> \in Seq({})
    OBVIOUS
  <2>2. QED
    BY <1>1, <1>5, <2>1 DEF ApplySystem
<1>6. CASE at' = "key" /\ Stay /\ UNCHANGED network
  BY <1>1, <1>6
<1>7. CASE Stay /\ UNCHANGED <<at, network>>
  BY <1>1, <1>7
<1>8. QED
  BY <1>1, <1>2, <1>3, <1>4, <1>5, <1>6, <1>7 DEF Confirm

\* The end of a command keeps it: the stream, if it is open, is written out.
LEMMA KeyStep ==
  ASSUME IInv, Key
  PROVE  IInv'
<1> USE DEF IInv, StreamInv, TextsInv, FileInv, Describes, network, Stay, Return
<1>1. at = "key" /\ UNCHANGED cmd /\ CloseNetwork
  BY DEF Key
<1>2. <<>> \in Seq({})
  OBVIOUS
<1>3. CASE fp = "open"
  BY <1>1, <1>2, <1>3 DEF CloseNetwork
<1>4. CASE fp = "null"
  BY <1>1, <1>4 DEF CloseNetwork
<1>5. CASE fp = "closed"
  BY <1>1, <1>2, <1>5 DEF CloseNetwork
<1>6. QED
  BY <1>3, <1>4, <1>5

\* So every step of the user and of the program keeps it.
LEMMA InvStep ==
  ASSUME IInv, [Next]_vars
  PROVE  IInv'
<1>1. CASE Types
  BY <1>1 DEF Types, Type, IInv, StreamInv, TextsInv, FileInv, Describes, network
<1>2. CASE Interrupt
  BY <1>2 DEF Interrupt, Running, Prompts, IInv, StreamInv, TextsInv, FileInv, Describes
<1>3. CASE Menu
  BY <1>3, MenuStep
<1>4. CASE Text
  BY <1>4, TextStep
<1>5. CASE Confirm
  BY <1>5, ConfirmStep
<1>6. CASE Key
  BY <1>6, KeyStep
<1>7. CASE UNCHANGED vars
  BY <1>7 DEF vars, user, IInv, StreamInv, TextsInv, FileInv, Describes, network
<1>8. QED
  BY <1>1, <1>2, <1>3, <1>4, <1>5, <1>6, <1>7 DEF Next

\* And it holds throughout.
LEMMA InvAlways == Spec => []IInv
<1>1. Init => IInv
  BY InvInit
<1>2. IInv /\ [Next]_vars => IInv'
  BY InvStep
<1>3. QED
  BY <1>1, <1>2, PTL DEF Spec

\* network.conf, unless it is empty, describes the interface as it is
\* configured, unless the file names none, the shell took a text for its own, or
\* ifconfig refused: for every user, whatever he types and wherever he
\* interrupts default_ip_setup.
THEOREM ConfiguredAlwaysAsSaved == Spec => []ConfiguredAsSaved
<1>1. IInv => ConfiguredAsSaved
  BY DEF IInv, FileInv, Describes, ConfiguredAsSaved
<1>2. QED
  BY <1>1, InvAlways, PTL

\* At a menu, and after the program has ended, the stream on network.conf is
\* closed and nothing waits in it (default_ip_setup).
THEOREM NothingEverHeldBack == Spec => []NothingHeldBack
<1>1. IInv => NothingHeldBack
  BY DEF IInv, StreamInv, NothingHeldBack
<1>2. QED
  BY <1>1, InvAlways, PTL

-----------------------------------------------------------------------------
(***************************************************************************)
(* How the characters typed become answers.                                *)
(*                                                                         *)
(* For every user the variables keep their types, which takes that fgets   *)
(* finds where to stop.  And for every user who waits for the prompts and  *)
(* types lines that fit them, whatever else he types: no prompt takes a    *)
(* part of another's answer, network.conf gets what he typed, and chpasswd *)
(* a password that he typed twice, if the shell leaves it alone.  The      *)
(* induction follows each text from told, where the user's line is noted,  *)
(* to answers.                                                             *)
(***************************************************************************)

(***************************************************************************)
(* fgets.                                                                  *)
(***************************************************************************)
\* fgets takes what its buffer holds, or up to a line's end, and no more.
LEMMA TakenIs ==
  ASSUME input \in Seq(STRING), NEW size \in Nat, size >= 2, CanRead(size)
  PROVE  /\ Taken(size) \in 1 .. Len(input)
         /\ Taken(size) = size - 1 \/ Taken(size) \in LineEnds
         /\ \A j \in 1 .. Taken(size) - 1 : j # size - 1 /\ j \notin LineEnds
<1> DEFINE Stop(i) == i = size - 1 \/ i \in LineEnds
           T == {i \in 1 .. Len(input) : Stop(i)}
<1>1. Len(input) \in Nat /\ LineEnds \subseteq 1 .. Len(input)
  BY DEF LineEnds
<1>2. T # {}
  <2>1. ASSUME NEW i \in LineEnds PROVE i \in T
    BY <1>1
  <2>2. Len(input) >= size - 1 => size - 1 \in T
    BY <1>1
  <2> QED
    BY <2>1, <2>2 DEF CanRead
<1>3. T \in SUBSET Nat
  BY <1>1
<1>4. PICK n \in T : \A m \in T : n <= m
  <2> HIDE DEF T
  <2> QED
    BY <1>2, <1>3, LeastNumber
<1>5. n \in 1 .. Len(input) /\ Stop(n) /\ \A j \in 1 .. (n - 1) : ~Stop(j)
  BY <1>1, <1>4
<1>6. /\ Taken(size) \in 1 .. Len(input) /\ Stop(Taken(size))
      /\ \A j \in 1 .. (Taken(size) - 1) : ~Stop(j)
  <2>1. Taken(size) = CHOOSE i \in 1 .. Len(input) :
                        Stop(i) /\ \A j \in 1 .. (i - 1) : ~Stop(j)
    BY DEF Taken
  <2> HIDE DEF Stop
  <2> QED
    BY <1>5, <2>1
<1> QED
  BY <1>6

\* What is read and what is left are texts.
LEMMA ReadTypes ==
  ASSUME input \in Seq(STRING), NEW size \in Nat, size >= 2, CanRead(size)
  PROVE  /\ Read(size) \in Seq(STRING) /\ Len(Read(size)) = Taken(size)
         /\ \A i \in 1 .. Taken(size) : Read(size)[i] = input[i]
         /\ Chopped(Read(size)) \in Seq(STRING)
         /\ Rest(size) \in Seq(STRING)
<1> DEFINE n == Taken(size)
<1>1. n \in 1 .. Len(input) /\ Len(input) \in Nat
  BY TakenIs
<1> HIDE DEF n
<1>2. \A i \in 1 .. Len(input) : input[i] \in STRING
  BY <1>1, ElementOfSeq
<1>3. /\ Read(size) \in Seq(STRING) /\ Len(Read(size)) = n
      /\ \A i \in 1 .. n : Read(size)[i] = input[i]
  <2>1. /\ SubSeq(input, 1, n) \in Seq(STRING)
        /\ Len(SubSeq(input, 1, n)) = IF 1 <= n THEN n - 1 + 1 ELSE 0
        /\ \A i \in 1 .. n - 1 + 1 : SubSeq(input, 1, n)[i] = input[1 + i - 1]
    BY <1>1, <1>2, SubSeqProperties
  <2> QED
    BY <1>1, <2>1 DEF Read, n
<1>4. Rest(size) \in Seq(STRING)
  BY <1>1, <1>2, SubSeqProperties DEF Rest, n
<1>5. Chopped(Read(size)) \in Seq(STRING)
  <2>1. \A i \in 1 .. n - 1 : Read(size)[i] \in STRING
    BY <1>1, <1>3, ElementOfSeq
  <2> QED
    BY <1>1, <1>3, <2>1, SubSeqProperties DEF Chopped
<1> QED
  BY <1>3, <1>4, <1>5 DEF n

\* Both buffers have room for a character and the end of the text.
LEMMA Sizes ==
  /\ SG_UINT32_MAXLEN \in Nat /\ SG_UINT32_MAXLEN >= 2
  /\ SG_ISTRING_MAXLEN \in Nat /\ SG_ISTRING_MAXLEN >= 2
  BY DEF SG_UINT32_MAXLEN, SG_ISTRING_MAXLEN

-----------------------------------------------------------------------------
(***************************************************************************)
(* Every user.                                                             *)
(***************************************************************************)

\* A password is confirmed only after it was typed twice alike.
PasswdInv ==
  at = "confirm" /\ cmd = "passwd" => Len(answers) = 2 /\ answers[1] = answers[2]

TInv == IInv /\ TypeOK /\ PasswdInv

\* What a user types ends with a newline, but for a single key.
LEMMA TypedTexts ==
  ASSUME NEW prompt \in Prompts, NEW text \in Typed[prompt]
  PROVE  /\ text \in Seq(STRING) /\ Len(text) \in Nat \ {0}
         /\ prompt # "key" => text[Len(text)] = Newline
  BY ConsoleAssumption, EmptySeq

\* The types hold at the first menu.
LEMMA TInit == Init => TInv
<1> SUFFICES ASSUME Init PROVE TInv
  OBVIOUS
<1>1. IInv
  BY InvInit
<1>2. TypeOK
  <2>1. "sgadmin" \in Menus
    BY DEF Menus, Entry
  <2>2. <<"sgadmin">> \in Seq(Menus) /\ Len(<<"sgadmin">>) = 1
    BY <2>1
  <2>3. 1 \in 1 .. StackLimit
    BY ConsoleAssumption
  <2>4. Len(<<"configured">>) = 1
    OBVIOUS
  <2>5. <<>> \in Seq(STRING) /\ <<>> \in Seq(Typed.text) /\ <<>> \in Seq(Seq(STRING))
    OBVIOUS
  <2> QED
    BY <2>2, <2>3, <2>4, <2>5 DEF Init, TypeOK, Prompts
<1>3. PasswdInv
  BY DEF Init, PasswdInv
<1> QED
  BY <1>1, <1>2, <1>3 DEF TInv

\* Typing keeps the types.
LEMMA TypeStep ==
  ASSUME TInv, Types
  PROVE  TypeOK' /\ PasswdInv'
<1> USE DEF TInv
<1>1. PICK text \in Typed[at] :
        /\ at \in Prompts
        /\ input' = input \o text
        /\ told' = IF at = "text" THEN Append(told, text) ELSE told
        /\ UNCHANGED <<frames, at, cmd, answers, network, passwd>>
  BY DEF Types, Type, Running
<1>2. input' \in Seq(STRING)
  BY <1>1, TypedTexts, ConcatProperties DEF TypeOK
<1>3. told' \in Seq(Typed.text)
  <2>1. CASE at = "text"
    BY <1>1, <2>1 DEF TypeOK
  <2>2. CASE at # "text"
    BY <1>1, <2>2 DEF TypeOK
  <2> QED
    BY <2>1, <2>2
<1> QED
  BY <1>1, <1>2, <1>3 DEF TypeOK, PasswdInv, network

\* A choice at a menu keeps the types (sgadmin_start and its menus).
LEMMA MenuTypes ==
  ASSUME TInv, Menu
  PROVE  TypeOK' /\ PasswdInv'
<1> DEFINE entry == SelectMenu(frames[Len(frames)], Atoi(Chopped(Read(SG_UINT32_MAXLEN))))
<1> USE DEF TInv
<1>1. /\ at = "menu" /\ buffered = <<>> /\ answers = <<>>
      /\ CanRead(SG_UINT32_MAXLEN)
      /\ input' = Rest(SG_UINT32_MAXLEN)
      /\ UNCHANGED passwd
  BY DEF Menu, IInv, StreamInv, TextsInv
<1>2. input' \in Seq(STRING)
  BY <1>1, Sizes, ReadTypes DEF TypeOK
<1>3. CASE entry \in Menus /\ Call(entry)
  <2> HIDE DEF entry
  <2>1. CASE Len(frames) < StackLimit /\ frames' = Append(frames, entry) /\ UNCHANGED at
    <3>1. frames' \in Seq(Menus) /\ Len(frames') = Len(frames) + 1
      BY <1>3, <2>1, AppendProperties DEF TypeOK
    <3> QED
      BY <1>1, <1>2, <1>3, <2>1, <3>1, ConsoleAssumption
      DEF Call, network, TypeOK, PasswdInv
  <2>2. CASE at' = "crashed" /\ UNCHANGED frames
    BY <1>1, <1>2, <1>3, <2>2 DEF Call, network, TypeOK, PasswdInv
  <2> QED
    BY <1>3, <2>1, <2>2 DEF Call
<1>4. CASE entry \in Commands /\ Start(entry)
  <2> HIDE DEF entry
  <2>1. at' \in {"key", "text", "confirm", "crashed"}
    BY <1>4 DEF Start, FirstPrompt
  <2>2. cmd' = entry /\ UNCHANGED <<told, answers, frames, buffered, interface>>
    BY <1>4 DEF Start, Stay
  <2>3. fp' \in {"closed", "open", "null"}
    BY <1>4 DEF Start, OpenNetwork, TypeOK
  <2>4. at' = "confirm" => entry # "passwd"
    BY <1>4 DEF Start, FirstPrompt, Texts
  <2> QED
    BY <1>1, <1>2, <1>4, <2>1, <2>2, <2>3, <2>4 DEF TypeOK, PasswdInv, Prompts
<1>5. CASE at' \in {at, "exited"} /\ UNCHANGED <<told, frames, cmd, answers, network>>
  BY <1>1, <1>2, <1>5 DEF network, TypeOK, PasswdInv
<1> QED
  BY <1>3, <1>4, <1>5 DEF Menu

\* A line read at a text prompt keeps the types (_get_enter).
LEMMA TextTypes ==
  ASSUME TInv, Text
  PROVE  TypeOK' /\ PasswdInv'
<1> USE DEF TInv
<1> DEFINE x == Chopped(Read(SG_ISTRING_MAXLEN))
<1>1. /\ at = "text" /\ buffered = <<>>
      /\ CanRead(SG_ISTRING_MAXLEN)
      /\ input' = Rest(SG_ISTRING_MAXLEN)
      /\ answers' = Append(answers, x)
      /\ UNCHANGED <<told, frames, cmd, network, passwd>>
      /\ cmd \in DOMAIN Texts /\ Len(answers) < Texts[cmd]
  BY DEF Text, IInv, StreamInv, TextsInv
<1>2. x \in Seq(STRING) /\ input' \in Seq(STRING)
  BY <1>1, Sizes, ReadTypes DEF TypeOK
<1> HIDE DEF x
<1>3. /\ answers' \in Seq(Seq(STRING)) /\ Len(answers') = Len(answers) + 1
      /\ Len(answers) \in Nat
  BY <1>1, <1>2, AppendProperties DEF TypeOK
<1>4. /\ at' \in {"text", "key", "confirm"}
      /\ at' = "text" <=> Len(answers') < Texts[cmd]
      /\ at' = "confirm" /\ cmd = "passwd" => answers'[1] = answers'[2]
  BY DEF Text, Confirmed
<1>5. TypeOK'
  BY <1>1, <1>2, <1>3, <1>4 DEF TypeOK, Prompts, network
<1>6. PasswdInv'
  BY <1>1, <1>3, <1>4 DEF PasswdInv, Texts
<1> QED
  BY <1>5, <1>6

\* An answer to a question keeps the types (get_vchar).
LEMMA ConfirmTypes ==
  ASSUME TInv, Confirm
  PROVE  TypeOK' /\ PasswdInv'
<1> USE DEF TInv, network, Stay, Return
<1>1. /\ at = "confirm" /\ buffered = <<>>
      /\ CanRead(SG_ISTRING_MAXLEN)
      /\ input' = Rest(SG_ISTRING_MAXLEN)
      /\ UNCHANGED <<frames, cmd>>
  BY DEF Confirm, IInv, StreamInv
<1>2. input' \in Seq(STRING)
  BY <1>1, Sizes, ReadTypes DEF TypeOK
<1>3. CASE ApplyNetwork
  <2>1. buffered' \in {<<>>, answers'} /\ at' \in {"key", "crashed"}
    BY <1>1, <1>3 DEF ApplyNetwork, PutTexts
  <2>2. Len(Unknown) = 1 /\ Len(ToldIfconfig(answers[5], answers[1], answers[2])) \in {1, 3}
    BY DEF ToldIfconfig, Unknown
  <2>3. Ifconfig(answers[5], answers[1], answers[2]) \/ UNCHANGED interface
    BY <1>3 DEF ApplyNetwork
  <2>4. Len(interface') \in {1, 3}
    BY <2>2, <2>3 DEF Ifconfig, TypeOK
  <2> QED
    BY <1>1, <1>2, <1>3, <2>1, <2>4 DEF ApplyNetwork, TypeOK, PasswdInv, Prompts
<1>4. CASE ApplyPasswd
  <2>1. answers[1] \in Seq(STRING)
    <3>1. 1 \in 1 .. Len(answers)
      BY <1>1, <1>4 DEF ApplyPasswd, PasswdInv
    <3> QED
      BY <3>1, ElementOfSeq DEF TypeOK
  <2>2. passwd' \in {<<"initial">>, Unknown} \cup Seq(STRING)
    BY <1>4, <2>1 DEF ApplyPasswd, ToldChpasswd, TypeOK
  <2> QED
    BY <1>1, <1>2, <1>4, <2>2 DEF ApplyPasswd, TypeOK, PasswdInv, Prompts
<1>5. CASE ApplyService
  BY <1>1, <1>2, <1>5 DEF ApplyService, TypeOK, PasswdInv, Prompts
<1>6. CASE ApplySystem
  BY <1>1, <1>2, <1>6, EmptySeq DEF ApplySystem, TypeOK, PasswdInv, Prompts
<1>7. CASE at' \in {"key", at} /\ Stay /\ UNCHANGED <<network, passwd>>
  BY <1>1, <1>2, <1>7 DEF TypeOK, PasswdInv, Prompts
<1> QED
  BY <1>3, <1>4, <1>5, <1>6, <1>7 DEF Confirm

\* A key keeps the types (mygetch).
LEMMA KeyTypes ==
  ASSUME TInv, Key
  PROVE  TypeOK' /\ PasswdInv'
<1> USE DEF TInv, network, Stay, Return
<1>1. /\ at = "key" /\ input # <<>>
      /\ input' = SubSeq(input, 2, Len(input))
      /\ UNCHANGED <<frames, cmd, passwd>>
      /\ CloseNetwork
  BY DEF Key
<1>2. input' \in Seq(STRING)
  BY <1>1, SubSeqProperties DEF TypeOK
<1>3. \/ /\ UNCHANGED <<told, answers, network>> /\ at' = "crashed"
      \/ /\ at' = "menu" /\ told' = <<>> /\ answers' = <<>> /\ UNCHANGED interface
         /\ fp' = "closed" /\ buffered' = <<>>
  BY <1>1 DEF CloseNetwork, IInv, StreamInv
<1> QED
  BY <1>1, <1>2, <1>3, EmptySeq DEF TypeOK, PasswdInv, Prompts

\* Every step keeps the types.
LEMMA TStep == TInv /\ [Next]_vars => TInv'
<1> SUFFICES ASSUME TInv, [Next]_vars PROVE TInv'
  OBVIOUS
<1>1. IInv'
  BY InvStep DEF TInv
<1>2. CASE Interrupt
  BY <1>1, <1>2 DEF Interrupt, user, TInv, TypeOK, PasswdInv
<1>3. CASE UNCHANGED vars
  BY <1>1, <1>3 DEF vars, user, network, TInv, TypeOK, PasswdInv
<1> QED
  BY <1>1, <1>2, <1>3, TypeStep, MenuTypes, TextTypes, ConfirmTypes, KeyTypes DEF Next, TInv

\* So they hold throughout, for every user.
LEMMA TAlways == Spec => []TInv
  BY TInit, TStep, PTL DEF Spec

\* The types, for every user (xadmin.c).
THEOREM TypeCorrect == Spec => []TypeOK
<1>1. TInv => TypeOK
  BY DEF TInv
<1> QED
  BY <1>1, TAlways, PTL

-----------------------------------------------------------------------------
(***************************************************************************)
(* The user who waits, and whose lines fit.                                *)
(***************************************************************************)
Size ==
  [menu |-> SG_UINT32_MAXLEN, text |-> SG_ISTRING_MAXLEN, confirm |-> SG_ISTRING_MAXLEN]

LinesFit ==
  /\ \A prompt \in {"menu", "text", "confirm"} : \A text \in Typed[prompt] :
       /\ Len(text) < Size[prompt]
       /\ \A i \in 1 .. Len(text) - 1 : text[i] # Newline
  /\ \A text \in Typed.key : Len(text) = 1

Waits == TypeAhead = 0 /\ LinesFit

\* A text that was read is a line that was typed, and the last line typed may
\* still wait to be read.
ToldInv ==
  /\ \A i \in 1 .. Len(answers) : told[i] = Append(answers[i], Newline)
  /\ at = "text" => /\ input = <<>> => Len(told) = Len(answers)
                    /\ input # <<>> => /\ Len(told) = Len(answers) + 1
                                       /\ told[Len(told)] = input
  /\ at = "menu" => told = <<>>

WInv == Waits /\ TInv /\ OneLineOnePrompt /\ ToldInv

\* fgets takes the line, and nothing is left of it.
LEMMA LineRead ==
  ASSUME Waits, NEW prompt \in {"menu", "text", "confirm"}, input \in Typed[prompt]
  PROVE  /\ Rest(Size[prompt]) = <<>>
         /\ Append(Chopped(Read(Size[prompt])), Newline) = input
<1> DEFINE size == Size[prompt]
           n == Len(input)
<1>1. input \in Seq(STRING) /\ n \in Nat \ {0} /\ input[n] = Newline
  BY TypedTexts DEF Prompts
<1>2. size \in Nat /\ size >= 2
  BY Sizes DEF Size
<1>3. n < size /\ \A i \in 1 .. n - 1 : input[i] # Newline
  BY DEF Waits, LinesFit
<1> HIDE DEF size
<1>4. n \in LineEnds /\ \A i \in 1 .. n - 1 : i \notin LineEnds
  BY <1>1, <1>3 DEF LineEnds
<1>5. CanRead(size)
  BY <1>4 DEF CanRead
<1>6. Taken(size) = n
  BY <1>1, <1>2, <1>3, <1>4, <1>5, TakenIs
<1>7. Rest(size) = <<>>
  BY <1>1, <1>6, SubSeqEmpty DEF Rest
<1>8. Read(size) = input
  <2>1. /\ Read(size) \in Seq(STRING) /\ Len(Read(size)) = n
        /\ \A i \in 1 .. n : Read(size)[i] = input[i]
    BY <1>1, <1>2, <1>5, <1>6, ReadTypes
  <2> QED
    BY <1>1, <2>1, SeqEqual
<1> DEFINE c == Chopped(input)
<1>9. /\ c \in Seq(STRING) /\ Len(c) = n - 1
      /\ \A i \in 1 .. n - 1 : c[i] = input[i]
  <2>1. \A i \in 1 .. n - 1 : input[i] \in STRING
    BY <1>1, ElementOfSeq
  <2>2. /\ SubSeq(input, 1, n - 1) \in Seq(STRING)
        /\ Len(SubSeq(input, 1, n - 1)) = IF 1 <= n - 1 THEN n - 1 - 1 + 1 ELSE 0
        /\ \A i \in 1 .. n - 1 - 1 + 1 : SubSeq(input, 1, n - 1)[i] = input[1 + i - 1]
    BY <1>1, <2>1, SubSeqProperties
  <2>3. c = SubSeq(input, 1, n - 1)
    BY DEF Chopped
  <2> HIDE DEF c, n
  <2> QED
    BY <1>1, <2>2, <2>3
<1> HIDE DEF c
<1>10. Append(c, Newline) = input
  <2>1. Newline \in STRING
    BY <1>1, ElementOfSeq
  <2>2. /\ Append(c, Newline) \in Seq(STRING) /\ Len(Append(c, Newline)) = n
        /\ \A i \in 1 .. n - 1 : Append(c, Newline)[i] = c[i]
        /\ Append(c, Newline)[n] = Newline
    BY <1>1, <1>9, <2>1, AppendProperties
  <2>3. \A i \in 1 .. n : Append(c, Newline)[i] = input[i]
    BY <1>1, <1>9, <2>2
  <2> QED
    BY <1>1, <2>2, <2>3, SeqEqual
<1> QED
  BY <1>7, <1>8, <1>10 DEF c, size

\* Where something is read, it is one of the lines for that prompt.
LEMMA LineWaits ==
  ASSUME WInv, NEW prompt \in {"menu", "text", "confirm"}, at = prompt,
         CanRead(Size[prompt])
  PROVE  input \in Typed[prompt] /\ input # <<>>
<1>1. input \in {<<>>} \cup Typed[prompt]
  BY DEF WInv, OneLineOnePrompt, Running, Prompts
<1>2. <<>> \notin Typed[prompt]
  BY ConsoleAssumption DEF Prompts
<1>3. input # <<>>
  <2> SUFFICES ASSUME input = <<>> PROVE FALSE
    OBVIOUS
  <2>1. Len(input) = 0 /\ LineEnds = {}
    BY DEF LineEnds
  <2> QED
    BY <2>1, Sizes DEF CanRead, Size
<1> QED
  BY <1>1, <1>3

\* He who waits types into an empty terminal.
LEMMA WaitingTypes ==
  ASSUME WInv, Types
  PROVE  OneLineOnePrompt' /\ ToldInv'
<1> USE DEF WInv, TInv
<1>1. PICK text \in Typed[at] :
        /\ at \in Prompts
        /\ Len(input) <= TypeAhead
        /\ input' = input \o text
        /\ told' = IF at = "text" THEN Append(told, text) ELSE told
        /\ UNCHANGED <<frames, at, cmd, answers>>
  BY DEF Types, Type, Running
<1>2. text \in Seq(STRING) /\ text # <<>>
  BY <1>1, ConsoleAssumption
<1>3. input = <<>>
  BY <1>1, EmptySeq DEF Waits, TypeOK
<1>4. input' = text
  BY <1>1, <1>2, <1>3, ConcatEmptySeq
<1>5. OneLineOnePrompt'
  BY <1>1, <1>4 DEF OneLineOnePrompt
<1>6. CASE at = "text"
  <2>1. told \in Seq(Typed.text) /\ Len(told) = Len(answers) /\ Len(told) \in Nat
    BY <1>3, <1>6 DEF TypeOK, ToldInv
  <2>2. /\ Len(told') = Len(told) + 1 /\ told'[Len(told) + 1] = text
        /\ \A i \in 1 .. Len(told) : told'[i] = told[i]
    BY <1>1, <1>6, <2>1, AppendProperties
  <2> QED
    BY <1>1, <1>2, <1>4, <1>5, <1>6, <2>1, <2>2 DEF ToldInv
<1>7. CASE at # "text"
  BY <1>1, <1>5, <1>7 DEF ToldInv
<1> QED
  BY <1>6, <1>7

\* A menu reads all of his line.
LEMMA WaitingMenu ==
  ASSUME WInv, Menu
  PROVE  OneLineOnePrompt' /\ ToldInv'
<1> USE DEF WInv, TInv
<1>1. /\ at = "menu" /\ answers = <<>> /\ told = <<>>
      /\ CanRead(SG_UINT32_MAXLEN)
      /\ input' = Rest(SG_UINT32_MAXLEN)
  BY DEF Menu, IInv, TextsInv, ToldInv
<1>2. input' = <<>>
  BY <1>1, LineWaits, LineRead DEF Size
<1>3. UNCHANGED <<told, answers>>
  BY DEF Menu, Call, Start, Stay
<1> QED
  BY <1>1, <1>2, <1>3 DEF OneLineOnePrompt, ToldInv

\* A text prompt reads all of his line, and remembers what was told.
LEMMA WaitingText ==
  ASSUME WInv, Text
  PROVE  OneLineOnePrompt' /\ ToldInv'
<1> USE DEF WInv, TInv
<1> DEFINE x == Chopped(Read(SG_ISTRING_MAXLEN))
<1>1. /\ at = "text" /\ CanRead(SG_ISTRING_MAXLEN)
      /\ input' = Rest(SG_ISTRING_MAXLEN)
      /\ answers' = Append(answers, x)
      /\ UNCHANGED told
      /\ at' \in {"text", "key", "confirm"}
  BY DEF Text
<1>2. input' = <<>> /\ Append(x, Newline) = input /\ input # <<>>
  BY <1>1, LineWaits, LineRead DEF Size
<1>3. x \in Seq(STRING)
  BY <1>1, Sizes, ReadTypes DEF TypeOK
<1> HIDE DEF x
<1>4. /\ Len(answers) \in Nat /\ Len(answers') = Len(answers) + 1
      /\ \A i \in 1 .. Len(answers) : answers'[i] = answers[i]
      /\ answers'[Len(answers) + 1] = x
  BY <1>1, <1>3, AppendProperties DEF TypeOK
<1>5. Len(told) = Len(answers) + 1 /\ told[Len(answers) + 1] = input
  BY <1>1, <1>2 DEF ToldInv
<1>6. \A i \in 1 .. Len(answers') : told'[i] = Append(answers'[i], Newline)
  BY <1>1, <1>2, <1>4, <1>5 DEF ToldInv
<1> QED
  BY <1>1, <1>2, <1>4, <1>5, <1>6 DEF OneLineOnePrompt, ToldInv

\* A question reads all of his line.
LEMMA WaitingConfirm ==
  ASSUME WInv, Confirm
  PROVE  OneLineOnePrompt' /\ ToldInv'
<1> USE DEF WInv, TInv
<1>1. /\ at = "confirm" /\ CanRead(SG_ISTRING_MAXLEN)
      /\ input' = Rest(SG_ISTRING_MAXLEN)
  BY DEF Confirm
<1>2. input' = <<>>
  BY <1>1, LineWaits, LineRead DEF Size
<1>3. \/ UNCHANGED <<told, answers>> /\ at' \in {"key", "crashed", "confirm"}
      \/ told' = <<>> /\ answers' = <<>>
  BY <1>1 DEF Confirm, ApplyNetwork, ApplyPasswd, ApplyService, ApplySystem, Stay, Return
<1> QED
  BY <1>1, <1>2, <1>3 DEF OneLineOnePrompt, ToldInv

\* A key is all he typed.
LEMMA WaitingKey ==
  ASSUME WInv, Key
  PROVE  OneLineOnePrompt' /\ ToldInv'
<1> USE DEF WInv, TInv
<1>1. /\ at = "key" /\ input # <<>>
      /\ input' = SubSeq(input, 2, Len(input))
      /\ CloseNetwork
  BY DEF Key
<1>2. input' = <<>>
  <2>1. Len(input) = 1
    BY <1>1 DEF OneLineOnePrompt, Running, Prompts, Waits, LinesFit
  <2> QED
    BY <1>1, <2>1, SubSeqEmpty
<1>3. \/ UNCHANGED <<told, answers>> /\ at' = "crashed"
      \/ told' = <<>> /\ answers' = <<>>
  BY <1>1 DEF CloseNetwork, Stay, Return
<1> QED
  BY <1>2, <1>3 DEF OneLineOnePrompt, ToldInv

\* Nothing was typed before the first menu.
LEMMA WInit == Waits /\ Init => WInv
<1> SUFFICES ASSUME Waits, Init PROVE WInv
  OBVIOUS
<1>1. TInv
  BY TInit
<1> QED
  BY <1>1 DEF Init, WInv, OneLineOnePrompt, ToldInv

\* Every step keeps this, for the user who waits.
LEMMA WStep == WInv /\ [Next]_vars => WInv'
<1> SUFFICES ASSUME WInv, [Next]_vars PROVE WInv'
  OBVIOUS
<1>1. TInv' /\ Waits'
  BY TStep DEF WInv, Waits, LinesFit, Size
<1>2. CASE Interrupt
  BY <1>1, <1>2 DEF Interrupt, user, WInv, OneLineOnePrompt, ToldInv, Running, Prompts
<1>3. CASE UNCHANGED vars
  BY <1>1, <1>3 DEF vars, user, WInv, OneLineOnePrompt, ToldInv, Running
<1> QED
  BY <1>1, <1>2, <1>3, WaitingTypes, WaitingMenu, WaitingText, WaitingConfirm, WaitingKey
  DEF Next, WInv

\* So it holds throughout, for him.
LEMMA WAlways == Waits /\ Spec => []WInv
  BY WInit, WStep, PTL DEF Spec

\* The user who waits, and whose lines fit, is understood line by line: no
\* prompt leaves a part of its answer to the next one (_get_enter, get_vchar,
\* mygetch).
THEOREM AlwaysOneLineOnePrompt == Waits /\ Spec => []OneLineOnePrompt
<1>1. WInv => OneLineOnePrompt
  BY DEF WInv
<1> QED
  BY <1>1, WAlways, PTL

\* And network.conf gets what he typed, line by line (default_ip_setup).
THEOREM AlwaysSavedAsTyped == Waits /\ Spec => SavedAsTyped
<1>1. ASSUME WInv, [Next]_vars, file' # file, file' # <<>>
      PROVE  /\ Len(file') = Texts.ip
             /\ \A i \in 1 .. Texts.ip : told[i] = Append(file'[i], Newline)
  <2>1. Key /\ file' = buffered
    BY <1>1 DEF Next, Types, Type, Interrupt, Menu, Call, Start, OpenNetwork, Text, Confirm,
       ApplyNetwork, ApplyPasswd, ApplyService, ApplySystem, Key, CloseNetwork, network, vars
  <2>2. buffered # <<>> /\ buffered = answers /\ Len(buffered) = Texts.ip
    BY <1>1, <2>1 DEF WInv, TInv, TypeOK, IInv, StreamInv, Describes
  <2> QED
    BY <1>1, <2>1, <2>2 DEF WInv, ToldInv
<1>2. WInv /\ [Next]_vars =>
        (file' # file /\ file' # <<>> =>
           /\ Len(file') = Texts.ip
           /\ \A i \in 1 .. Texts.ip : told[i] = Append(file'[i], Newline))
  BY <1>1
<1> QED
  BY <1>2, WAlways, PTL DEF SavedAsTyped, Spec

\* And a password that the shell leaves alone reaches chpasswd only if he typed
\* it twice (change_admin_passwd).
THEOREM PasswdAlwaysTypedTwice == Waits /\ Spec => PasswdTypedTwice
<1>1. ASSUME WInv, [Next]_vars, passwd' # passwd, Literal(answers[1])
      PROVE  \A i \in 1 .. 2 : told[i] = Append(passwd', Newline)
  <2>1. Confirm /\ ApplyPasswd
    BY <1>1 DEF Next, Types, Type, Interrupt, Menu, Text, Confirm, ApplyNetwork,
       ApplyService, ApplySystem, Key, vars
  <2>2. at = "confirm" /\ cmd = "passwd" /\ passwd' = ToldChpasswd(answers[1])
    BY <2>1 DEF Confirm, ApplyPasswd
  <2>3. passwd' = answers[1]
    BY <1>1, <2>2 DEF ToldChpasswd
  <2>4. Len(answers) = 2 /\ answers[1] = answers[2]
    BY <1>1, <2>2 DEF WInv, TInv, PasswdInv
  <2> QED
    BY <1>1, <2>3, <2>4 DEF WInv, ToldInv
<1>2. WInv /\ [Next]_vars =>
        (passwd' # passwd /\ Literal(answers[1]) =>
           \A i \in 1 .. 2 : told[i] = Append(passwd', Newline))
  BY <1>1
<1> QED
  BY <1>2, WAlways, PTL DEF PasswdTypedTwice, Spec

=============================================================================
