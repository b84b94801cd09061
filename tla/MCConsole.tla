------------------------------ MODULE MCConsole ------------------------------
(***************************************************************************)
(* Users of the console for TLC.                                           *)
(***************************************************************************)
EXTENDS Console

Line(text) == Append(text, Newline)

\* A text of the same character all along.
Long(c, n) == [i \in 1 .. n |-> c]

\* A user who waits for the prompts and whose lines fit.  He goes through all
\* the menus, "Prev" and the hidden entry included, sometimes just returns,
\* and now and then gives an answer that a question does not know, as long as
\* its buffer allows.  One of his texts is empty, the other as long as a
\* password may be.
WaitingUser ==
  [menu    |-> {Line(<<c>>) : c \in {"1", "2", "3", "4", "5", "6", "7", "8", "9"}}
                 \cup {Line(<<>>), Line(Long("9", 5))},
   text    |-> {Line(<<>>), Line(Long("x", 10))},
   confirm |-> {Line(<<c>>) : c \in {"y", "n", "a", "c"}} \cup {Line(Long("x", 31))},
   key     |-> {<<"k">>, <<Newline>>}]

\* A password a character too long for its command.
LongPasswdUser == [WaitingUser EXCEPT !.text = {Line(Long("p", 11))}]
=============================================================================
