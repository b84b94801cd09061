------------------------------- MODULE Console -------------------------------
(***************************************************************************)
(* The menus of xadmin (xadmin.c): sgadmin_start, the three menus it calls *)
(* and the commands these run, as one user at a terminal drives them.      *)
(*                                                                         *)
(* What matters is how the characters typed are shared out among the       *)
(* prompts: fgets leaves what does not fit its buffer to the next prompt,  *)
(* and mygetch takes one character of whatever waits.  So the input is a   *)
(* sequence of characters, and each read is a step.  A prompt is where the *)
(* program stops; the statements between two prompts run in the step that  *)
(* reads the answer to the first.                                          *)
(*                                                                         *)
(* The programs started with system() are external.  Texts reach ifconfig  *)
(* and chpasswd by way of the shell, in which nothing quotes them, and     *)
(* nobody looks at what comes of it: a text with a character that the      *)
(* shell takes for itself may become anything, an empty one is no word at  *)
(* all, and ifconfig may refuse what it is told.  What nobody can tell is  *)
(* then Unknown.  (Whatever else such a text makes the shell do is left    *)
(* out.)  poweroff and reboot return before the machine goes down.         *)
(***************************************************************************)
EXTENDS Naturals, Sequences

CONSTANTS
  Typed,      \* what the user types, by the kind of prompt he sees
  TypeAhead,  \* bound: characters that may wait when the user types on
  StackLimit, \* the menus that the call stack has room for
  Special     \* the characters that the shell, or a program it runs, takes for
              \* itself: blanks, quotes, "$", ";", "|" and their like

Newline == "\n"

\* The kinds of prompts: a menu's, _get_enter's, get_vchar's and mygetch's.
Prompts == {"menu", "text", "confirm", "key"}

ASSUME ConsoleAssumption ==
  /\ \A prompt \in Prompts : \A text \in Typed[prompt] :
       /\ text \in Seq(STRING) /\ text # <<>>
       /\ prompt # "key" => text[Len(text)] = Newline
  /\ TypeAhead \in Nat
  /\ StackLimit \in Nat \ {0}
  /\ Special \subseteq STRING

VARIABLES
  input,     \* typed and not yet read, by the terminal or by stdio
  told,      \* the lines typed at prompts for a text since the command began
  frames,    \* the menus on the call stack, the current one last
  at,        \* the kind of prompt the program is at, or "exited", "crashed"
  cmd,       \* the command that runs, or ran last
  answers,   \* the texts it has read
  fp,        \* default_ip_setup's stream on network.conf
  buffered,  \* what was written to the stream and not yet to the file
  file,      \* network.conf: the values of its lines
  interface, \* what ifconfig last did: an interface's name, address and netmask
  passwd     \* what chpasswd was last told

user == <<input, told>>
network == <<fp, buffered, file, interface>>
vars == <<user, frames, at, cmd, answers, network, passwd>>

-----------------------------------------------------------------------------
(***************************************************************************)
(* Reading the terminal.                                                   *)
(***************************************************************************)
SG_UINT32_MAXLEN == 11
\* (mistaken: 31 characters and their newline, and no room for the 0 at the end)
NoRoomForEnd == 31 + 1
SG_ISTRING_MAXLEN == 33

\* How many of the characters that wait fgets takes into a buffer of a size.
LineEnds == {i \in 1 .. Len(input) : input[i] = Newline}

Taken(size) ==
  LET Stop(i) == i = size - 1 \/ i \in LineEnds
  IN CHOOSE i \in 1 .. Len(input) : Stop(i) /\ \A j \in 1 .. (i - 1) : ~Stop(j)

\* fgets returns: a line's end waits, or as much as the buffer holds.
CanRead(size) == LineEnds # {} \/ Len(input) >= size - 1

Read(size) == SubSeq(input, 1, Taken(size))
Rest(size) == SubSeq(input, Taken(size) + 1, Len(input))

\* buf[strlen(buf) - 1] = '\0': the last character goes, newline or not.
Chopped(text) == SubSeq(text, 1, Len(text) - 1)

Digit ==
  [c \in {"0", "1", "2", "3", "4", "5", "6", "7", "8", "9"} |->
     CHOOSE d \in 0 .. 9 : c = <<"0", "1", "2", "3", "4", "5", "6", "7", "8", "9">>[d + 1]]

\* atoi; the sign is left out: what is negative is as an uint32_t beyond
\* every menu, and 0 is refused by every menu as well.
Atoi(text) ==
  LET value[n \in 0 .. Len(text)] ==
        IF n = 0 THEN 0 ELSE 10 * value[n - 1] + Digit[text[n]]
      digits == {n \in 0 .. Len(text) : \A i \in 1 .. n : text[i] \in DOMAIN Digit}
  IN value[CHOOSE n \in digits : \A m \in digits : m <= n]

-----------------------------------------------------------------------------
(***************************************************************************)
(* The menus.  An entry is another menu, a command, "none" for a call that *)
(* is commented out, or "exit".                                            *)
(***************************************************************************)
Entry ==
  [sgadmin  |-> <<"network", "admin", "database", "exit">>,
   network  |-> <<"ip", "info", "sgadmin", "exit">>,
   admin    |-> <<"services", "start", "stop", "poweroff", "reboot", "passwd",
                  "none", "sgadmin", "exit">>,
   database |-> <<"none", "none", "sgadmin", "exit">>]

Menus == DOMAIN Entry

Commands == {"ip", "info", "services", "start", "stop", "poweroff", "reboot", "passwd"}

\* select_menu: what the number typed stands for; "again" if it is refused.
SelectMenu(menu, choice) ==
  CASE choice \in DOMAIN Entry[menu] -> Entry[menu][choice]
    [] menu = "sgadmin" /\ choice = 99999 -> "none"
    [] OTHER -> "again"

\* The texts a command asks for, and the letters that answer its question.
Texts == [ip |-> 5, passwd |-> 2]

Question ==
  [c \in Commands \ {"info", "services"} |->
     IF c \in DOMAIN Texts THEN "apply or cancel" ELSE "yes or no"]

\* Mistake: one of the questions has no letters, as if get_vchar did not know
\* it.
OneQuestion ==
  [yes |-> [q \in {"apply or cancel", "yes or no"} |->
              IF q = "yes or no" THEN {"y", "Y"} ELSE {}],
   no  |-> [q \in {"apply or cancel", "yes or no"} |->
              IF q = "yes or no" THEN {"n", "N"} ELSE {}]]

Letters ==
  [yes |-> [q \in {"apply or cancel", "yes or no"} |->
              IF q = "yes or no" THEN {"y", "Y"} ELSE {"a", "A"}],
   no  |-> [q \in {"apply or cancel", "yes or no"} |->
              IF q = "yes or no" THEN {"n", "N"} ELSE {"c", "C"}]]

\* Where a command stops first.
FirstPrompt(c) ==
  CASE c \in {"info", "services"} -> "key"
    [] c \in DOMAIN Texts -> "text"
    [] OTHER -> "confirm"

Init ==
  /\ input = <<>>
  /\ told = <<>>
  /\ frames = <<"sgadmin">>
  /\ at = "menu"
  /\ cmd = "none"
  /\ answers = <<>>
  /\ fp = "closed"
  /\ buffered = <<>>
  /\ file = <<"saved">>
  /\ interface = <<"configured">>
  /\ passwd = <<"initial">>

\* A command returns: its locals are gone.
Return == at' = "menu" /\ told' = <<>> /\ answers' = <<>>
Stay == UNCHANGED <<told, answers>>

Running == at \in Prompts

AllTyped == UNION {Typed[prompt] : prompt \in Prompts}

\* The user types, at the prompt or ahead of it.
Type(text) ==
  /\ Running
  /\ Len(input) <= TypeAhead
  /\ text \in Typed[at]
  /\ input' = input \o text
  /\ told' = IF at = "text" THEN Append(told, text) ELSE told
  /\ UNCHANGED <<frames, at, cmd, answers, network, passwd>>

\* The user interrupts the program, or the terminal hangs up: the stream's
\* buffer is lost.
Interrupt ==
  /\ Running
  /\ at' = "exited"
  /\ fp' = "closed"
  /\ buffered' = <<>>
  /\ UNCHANGED <<user, frames, cmd, answers, file, interface, passwd>>

-----------------------------------------------------------------------------
(***************************************************************************)
(* A menu's turn.                                                          *)
(***************************************************************************)

\* A menu calls another one, "Prev" included, and the stack grows.
Call(menu) ==
  /\ IF Len(frames) < StackLimit
     THEN frames' = Append(frames, menu) /\ UNCHANGED at
     ELSE at' = "crashed" /\ UNCHANGED frames
  /\ UNCHANGED <<told, cmd, answers, network>>

\* Mistake: the file is opened to append to it.
OpenNetworkToAppend ==
  \/ fp' = "open" /\ UNCHANGED file
  \/ fp' = "null" /\ UNCHANGED file

\* default_ip_setup opens network.conf to write before it asks anything.
OpenNetwork ==
  \/ fp' = "open" /\ file' = <<>>
  \/ fp' = "null" /\ UNCHANGED file

\* A command starts.  check_all_service needs the list of processes.
Start(c) ==
  /\ cmd' = c
  /\ \/ at' = FirstPrompt(c)
     \/ c = "services" /\ at' = "crashed"
  /\ IF c = "ip" THEN OpenNetwork ELSE UNCHANGED <<fp, file>>
  /\ Stay
  /\ UNCHANGED <<frames, buffered, interface>>

Menu ==
  /\ at = "menu"
  /\ CanRead(SG_UINT32_MAXLEN)
  /\ input' = Rest(SG_UINT32_MAXLEN)
  /\ LET entry == SelectMenu(frames[Len(frames)], Atoi(Chopped(Read(SG_UINT32_MAXLEN))))
     IN \/ entry \in Menus /\ Call(entry)
        \/ entry \in Commands /\ Start(entry)
        \/ /\ entry = "exit"
           /\ at' = "exited"
           /\ UNCHANGED <<told, frames, cmd, answers, network>>
        \/ /\ entry \in {"none", "again"}
           /\ UNCHANGED <<told, frames, at, cmd, answers, network>>
  /\ UNCHANGED passwd

-----------------------------------------------------------------------------
(***************************************************************************)
(* A command's prompts.                                                    *)
(***************************************************************************)

\* Whether two texts for a password are the same; and mistaken, if they start
\* alike.
SameStart(a, b) == \A i \in 1 .. Len(a) : i <= Len(b) => a[i] = b[i]
Confirmed(a, b) == a = b

\* _get_enter, and what follows the last of the texts.
Text ==
  /\ at = "text"
  /\ CanRead(SG_ISTRING_MAXLEN)
  /\ input' = Rest(SG_ISTRING_MAXLEN)
  /\ answers' = Append(answers, Chopped(Read(SG_ISTRING_MAXLEN)))
  /\ at' = IF Len(answers') < Texts[cmd] THEN "text"
           ELSE IF cmd = "passwd" /\ ~Confirmed(answers'[1], answers'[2]) THEN "key"
           ELSE "confirm"
  /\ UNCHANGED <<told, frames, cmd, network, passwd>>

(***************************************************************************)
(* The shell.                                                              *)
(***************************************************************************)
Inet == <<"i", "n", "e", "t">>

\* What an unquoted text, or a program that refused, has left behind: the same
\* as before, or anything else.
Unknown == <<"unknown">>

Literal(text) == \A i \in 1 .. Len(text) : text[i] \notin Special

\* What ifconfig is told.  An empty name is no word of the command, so the word
\* behind it, "inet", is taken for the name; an empty address or netmask takes
\* a keyword from the other.
ToldIfconfig(name, address, netmask) ==
  IF /\ \A text \in {name, address, netmask} : Literal(text)
     /\ address # <<>> /\ netmask # <<>>
  THEN <<IF name = <<>> THEN Inet ELSE name, address, netmask>>
  ELSE Unknown

\* ifconfig runs.  It may refuse, and nobody looks at its result.
Ifconfig(name, address, netmask) ==
  interface' \in {ToldIfconfig(name, address, netmask), Unknown}

\* The longest password for which "echo admin:" before it and " | chpasswd"
\* behind it fit the command's buffer; what is cut off does not run chpasswd.
PasswdRoom == (SG_ISTRING_MAXLEN - 1) - 11 - 11

\* What chpasswd was told last, once it has been told a text.
ToldChpasswd(text) ==
  CASE ~Literal(text) -> Unknown
    [] Literal(text) /\ Len(text) <= PasswdRoom -> text
    [] OTHER -> passwd

-----------------------------------------------------------------------------
\* default_ip_setup writes its texts to the stream; and mistaken, two of them
\* swapped.
PutSwapped == buffered' = <<answers[2], answers[1], answers[3], answers[4], answers[5]>>
PutTexts == buffered' = answers

\* The user agrees to a command's question.
ApplyNetwork ==
  /\ cmd = "ip"
  /\ IF fp = "open"
     THEN /\ PutTexts
          /\ Ifconfig(answers[5], answers[1], answers[2])
          /\ at' = "key"
     ELSE at' = "crashed" /\ UNCHANGED <<buffered, interface>>
  /\ Stay
  /\ UNCHANGED <<fp, file, passwd>>

ApplyPasswd ==
  /\ cmd = "passwd"
  /\ passwd' = ToldChpasswd(answers[1])
  /\ at' = "key"
  /\ Stay
  /\ UNCHANGED network

ApplyService ==
  /\ cmd \in {"start", "stop"}
  /\ at' = "key"
  /\ Stay
  /\ UNCHANGED <<network, passwd>>

ApplySystem ==
  /\ cmd \in {"poweroff", "reboot"}
  /\ Return
  /\ UNCHANGED <<network, passwd>>

\* get_vchar, until the letter is one of the question's.
Confirm ==
  /\ at = "confirm"
  /\ CanRead(SG_ISTRING_MAXLEN)
  /\ input' = Rest(SG_ISTRING_MAXLEN)
  /\ \/ /\ input[1] \in Letters.yes[Question[cmd]]
        /\ ApplyNetwork \/ ApplyPasswd \/ ApplyService \/ ApplySystem
     \/ /\ input[1] \in Letters.no[Question[cmd]]
        /\ at' = "key" /\ Stay /\ UNCHANGED <<network, passwd>>
     \/ /\ \A answer \in DOMAIN Letters : input[1] \notin Letters[answer][Question[cmd]]
        /\ Stay /\ UNCHANGED <<at, network, passwd>>
  /\ UNCHANGED <<frames, cmd>>

\* default_ip_setup closes the stream, which writes the buffer out; and
\* mistaken, it closes only what it wrote to.
CloseIfWritten ==
  CASE buffered # <<>> ->
         /\ file' = buffered
         /\ buffered' = <<>>
         /\ fp' = "closed"
         /\ Return
         /\ UNCHANGED interface
    [] OTHER -> Return /\ UNCHANGED network

\* Mistake: it does not close at all.
NotClosed == Return /\ UNCHANGED network

CloseNetwork ==
  CASE fp = "open" ->
         /\ file' = buffered
         /\ buffered' = <<>>
         /\ fp' = "closed"
         /\ Return
         /\ UNCHANGED interface
    [] fp = "null" -> at' = "crashed" /\ Stay /\ UNCHANGED network
    [] OTHER -> Return /\ UNCHANGED network

\* mygetch, and back to the menu.
Key ==
  /\ at = "key"
  /\ input # <<>>
  /\ input' = SubSeq(input, 2, Len(input))
  /\ CloseNetwork
  /\ UNCHANGED <<frames, cmd, passwd>>

Types == \E text \in AllTyped : Type(text)

Next == Types \/ Interrupt \/ Menu \/ Text \/ Confirm \/ Key

Spec == Init /\ [][Next]_vars

(***************************************************************************)
(* The program runs on.  The user need not choose anything, but within a   *)
(* command he goes on answering: he types some text, presses some key, and *)
(* to a question he gives each of his answers in the end.                  *)
(***************************************************************************)
FairSpec ==
  /\ Spec
  /\ WF_vars(Menu) /\ WF_vars(Text) /\ WF_vars(Confirm) /\ WF_vars(Key)
  /\ SF_vars(at = "text" /\ Types) /\ SF_vars(at = "key" /\ Types)
  /\ \A text \in Typed.confirm : SF_vars(at = "confirm" /\ Type(text))

-----------------------------------------------------------------------------
\* The types of the variables.
TypeOK ==
  /\ input \in Seq(STRING)
  /\ told \in Seq(Typed.text)
  /\ frames \in Seq(Menus) /\ Len(frames) \in 1 .. StackLimit
  /\ at \in Prompts \cup {"exited", "crashed"}
  /\ cmd \in Commands \cup {"none"}
  /\ answers \in Seq(Seq(STRING))
  /\ fp \in {"closed", "open", "null"}
  /\ buffered \in {<<>>, answers}
  /\ Len(interface) \in {1, 3}
  /\ passwd \in {<<"initial">>, Unknown} \cup Seq(STRING)

\* A user who waits for each prompt, and whose lines fit it, is understood
\* line by line: no prompt leaves a part of its answer to the next one.
OneLineOnePrompt == Running => input \in {<<>>} \cup Typed[at]

\* And network.conf then holds what he typed when he was asked, line by
\* line, or nothing if he cancelled (default_ip_setup).
SavedAsTyped ==
  [][file' # file /\ file' # <<>> => /\ Len(file') = Texts.ip
                                /\ \A i \in 1 .. Texts.ip : told[i] = Append(file'[i], Newline)]_vars

\* A password that the shell leaves alone reaches chpasswd only if he typed it
\* twice; of what becomes of any other nothing is said (change_admin_passwd).
PasswdTypedTwice ==
  [][passwd' # passwd /\ Literal(answers[1]) =>
       \A i \in 1 .. 2 : told[i] = Append(passwd', Newline)]_vars

\* Five values, and the interface that they configure, if it is known and they
\* name one.
Describes(form) ==
  /\ Len(form) = Texts.ip
  /\ interface # Unknown /\ form[5] # <<>> => interface = <<form[5], form[1], form[2]>>

\* However the user types, and wherever he interrupts the program: what
\* network.conf says, if anything, is how the interface is configured, unless
\* the file names none, the shell took a text for its own, or ifconfig refused
\* (default_ip_setup).
ConfiguredAsSaved ==
  \/ file = <<>>
  \/ file = <<"saved">> /\ interface = <<"configured">>
  \/ Describes(file)

\* No way back to a menu, and none out of the program, leaves the stream on
\* network.conf open or holds back what was written to it.
NothingHeldBack == at \in {"menu", "exited"} => fp = "closed" /\ buffered = <<>>

\* Every command ends: the user who goes on answering is back at a menu, or
\* out of the program.
CommandEnds ==
  at \in {"text", "confirm", "key"} ~> at \in {"menu", "exited", "crashed"}

\* What default_ip_setup says when the user cancels: "Cancel default ip
\* setup."  While no setup was applied, the file should be as it was.
CancelKeepsNetwork ==
  at = "menu" /\ interface = <<"configured">> => file = <<"saved">>

\* What change_admin_passwd says once the user agreed: "Admin password
\* change complete".
PasswordChangeComplete ==
  [][/\ at = "confirm" /\ at' = "key" /\ cmd = "passwd"
     /\ input[1] \in Letters.yes[Question[cmd]]
     => passwd' = answers[1]]_vars
=============================================================================
