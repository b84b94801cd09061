--------------------------- MODULE Services_proofs ---------------------------
(***************************************************************************)
(* Whatever the processes do, however many there are: what the search of   *)
(* get_pid finds, what it leaves open, and how its variables are typed.    *)
(***************************************************************************)
EXTENDS Services, TLAPS

\* While a status is looked for or read, there is a process in hand.
InHand == pc \in {"fopen", "fgets"} => pid \in Pids

BookInv == TypeOK /\ AllClosed /\ InHand

\* Who has run on is alive; and if a process has the name now, one was there
\* during the search.
HistoryInv ==
  /\ steady \subseteq Alive
  /\ dp => \A p \in Pids : Name(p) = procname => ran

\* Who has run on is still to be listed, is listed, is in hand, or is not the
\* one looked for.
Ahead(p) ==
  \/ p > listed
  \/ p \in entries
  \/ pc \in {"fopen", "fgets"} /\ pid = p /\ fp # "ended"

SearchInv ==
  dp /\ faults = 0 => \A p \in steady : Ahead(p) \/ Name(p) # procname

IInv == BookInv /\ HistoryInv /\ SearchInv /\ SteadyIsFound /\ RunningRan

-----------------------------------------------------------------------------
\* The list is finite, and each entry has a name.
LEMMA ListType ==
  /\ Len(List) \in Nat
  /\ \A i \in 1 .. Len(List) : List[i].procname \in Names
<1> DEFINE Entry == [kind : {"comment", "service"}, procname : Names]
<1>1. List \in Seq(Entry)
  BY ServicesAssumption
<1>2. Len(List) \in Nat /\ \A i \in 1 .. Len(List) : List[i] \in Entry
  <2> HIDE DEF Entry
  <2> QED
    BY <1>1
<1>3. \A e \in Entry : e.procname \in Names
  OBVIOUS
<1> QED
  BY <1>2, <1>3

\* What has a name is a process.
LEMMA NameType ==
  ASSUME TypeOK, NEW p \in Pids
  PROVE  /\ Name(p) \in Names \cup {NULL}
         /\ Name(p) \in Names => procs[p] # NULL
  BY ServicesAssumption DEF TypeOK, Name

\* The invariant holds before the first scan.
LEMMA InitInv == Init => IInv
<1> SUFFICES ASSUME Init PROVE IInv
  OBVIOUS
<1>1. TypeOK
  <2>1. MaxFaults \in Nat /\ LastPid \in Nat
    BY ServicesAssumption
  <2>2. /\ procs \in [Pids -> Programs \cup {NULL}]
        /\ faults = 0 /\ lines = 0 /\ listed = 0
        /\ pc = "menu" /\ fp = "closed"
        /\ dp = FALSE /\ ran = FALSE /\ missed = FALSE
        /\ entries = {} /\ steady = {} /\ pid = NULL /\ found = NULL /\ line = NULL
    BY Zenon DEF Init
  <2>3. procname \in Names
    BY Zenon DEF Init
  <2>4. faults \in 0 .. MaxFaults /\ lines \in 0 .. Len(List) /\ listed \in 0 .. LastPid
    BY <2>1, <2>2, ListType
  <2> QED
    BY <2>2, <2>3, <2>4 DEF TypeOK
<1>2. AllClosed /\ InHand
  BY DEF Init, AllClosed, InHand
<1>3. HistoryInv /\ SearchInv
  BY DEF Init, HistoryInv, SearchInv, Alive
<1>4. SteadyIsFound /\ RunningRan
  BY DEF Init, SteadyIsFound, RunningRan
<1> QED
  BY <1>1, <1>2, <1>3, <1>4 DEF IInv, BookInv

\* What an operation of get_pid leaves of the books.
LEMMA BookNext == BookInv /\ [Next]_vars => BookInv'
<1> SUFFICES ASSUME BookInv, [Next]_vars PROVE BookInv'
  OBVIOUS
<1> USE ServicesAssumption DEF BookInv, AllClosed, InHand, scan, history
<1>1. ASSUME NEW p \in Pids, Change(p) PROVE BookInv'
  <2>1. PICK program \in (Programs \cup {NULL}) \ {procs[p]} :
          /\ procs' = [procs EXCEPT ![p] = program]
          /\ fp' = IF pid = p /\ fp = "open" /\ program = NULL THEN "ended" ELSE fp
          /\ steady' = steady \ {p}
          /\ ran' = (ran \/ (program # NULL /\ dp /\ Shown[program] = procname))
          /\ UNCHANGED <<faults, pc, lines, procname, dp, entries, listed, pid, line,
                         found, missed>>
    BY <1>1 DEF Change
  <2>2. ran' \in BOOLEAN
    BY <2>1, Zenon DEF TypeOK
  <2> QED
    BY <2>1, <2>2 DEF TypeOK
<1>2. CASE Begin
  BY <1>2 DEF Begin, Goto, TypeOK
<1>3. CASE Line
  <2>1. lines' \in 1 .. Len(List)
    BY <1>3, ListType DEF Line, TypeOK
  <2>2. procname' \in Names /\ pc' \in {"line", "opendir"}
    BY <1>3, <2>1, ListType DEF Line, Goto, TypeOK
  <2>3. UNCHANGED <<procs, faults, scan, line, found, history>> /\ ~dp /\ fp = "closed"
    BY <1>3 DEF Line
  <2> QED
    BY <2>1, <2>2, <2>3, ListType DEF TypeOK
<1>4. CASE End
  BY <1>4 DEF End, Goto, TypeOK
<1>5. CASE Report
  BY <1>5 DEF Report, Goto, TypeOK
<1>6. CASE Opendir
  <2>1. CASE /\ dp' = TRUE /\ entries' = {NoNumber} /\ listed' = 0
             /\ steady' = Alive
             /\ ran' = \E p \in Alive : Name(p) = procname
             /\ missed' = FALSE
             /\ Goto("readdir")
             /\ UNCHANGED <<faults, found>>
    <3>1. ran' \in BOOLEAN
      BY <2>1, Zenon
    <3>2. listed' \in 0 .. LastPid /\ entries' \subseteq Pids \cup {NoNumber}
      BY <2>1
    <3>3. steady' \subseteq Pids
      BY <2>1 DEF Alive
    <3>4. pc' = "readdir" /\ dp' = TRUE /\ missed' = FALSE /\ UNCHANGED <<faults, found>>
      BY <2>1 DEF Goto
    <3>5. /\ line' \in {line, NULL} /\ UNCHANGED <<procs, lines, procname, pid, fp>>
          /\ fp = "closed"
      BY <1>6 DEF Opendir
    <3> QED
      BY <3>1, <3>2, <3>3, <3>4, <3>5 DEF TypeOK
  <2>2. CASE Fault /\ Return(NULL) /\ UNCHANGED <<dp, entries, listed, history>>
    BY <1>6, <2>2 DEF Opendir, Fault, Return, Goto, TypeOK
  <2> QED
    BY <1>6, <2>1, <2>2 DEF Opendir
<1>7. CASE Getdents
  BY <1>7 DEF Getdents, Unlisted, Alive, TypeOK, Pids
<1>8. CASE Closedir
  BY <1>8 DEF Closedir, Leave, Return, Goto, TypeOK
<1>9. CASE Readdir
  BY <1>9 DEF Readdir, IsNumber, NoNumber, Goto, TypeOK
<1>10. CASE Fopen
  BY <1>10 DEF Fopen, Fault, Goto, TypeOK
<1>11. CASE Fgets
  <2>1. pid \in Pids /\ Name(pid) \in Names \cup {NULL}
    BY <1>11, NameType DEF Fgets
  <2>2. line' \in Names \cup {NULL}
    BY <1>11, <2>1 DEF Fgets, LineRead, TypeOK
  <2> QED
    BY <1>11, <2>1, <2>2 DEF Fgets, Leave, Return, Goto, TypeOK
<1>12. CASE UNCHANGED vars
  BY <1>12 DEF vars, TypeOK
<1> QED
  BY <1>1, <1>2, <1>3, <1>4, <1>5, <1>6, <1>7, <1>8, <1>9, <1>10, <1>11, <1>12
  DEF Next, Step, Changes

-----------------------------------------------------------------------------
\* What the processes can do to the search.
LEMMA ChangeSearch ==
  ASSUME IInv, NEW p \in Pids, Change(p)
  PROVE  HistoryInv' /\ SearchInv' /\ SteadyIsFound' /\ RunningRan'
<1>1. PICK program \in (Programs \cup {NULL}) \ {procs[p]} :
        /\ procs' = [procs EXCEPT ![p] = program]
        /\ fp' = IF pid = p /\ fp = "open" /\ program = NULL THEN "ended" ELSE fp
        /\ steady' = steady \ {p}
        /\ ran' = (ran \/ (program # NULL /\ dp /\ Shown[program] = procname))
        /\ UNCHANGED <<faults, pc, lines, procname, dp, entries, listed, pid, line,
                       found, missed>>
  BY DEF Change
<1> USE DEF IInv, BookInv
<1>2. \A q \in Pids \ {p} : procs'[q] = procs[q] /\ Name(q)' = Name(q)
  BY <1>1 DEF TypeOK, Name
<1>3. Name(p)' = IF program = NULL THEN NULL ELSE Shown[program]
  BY <1>1 DEF TypeOK, Name
<1>4. steady' \subseteq Alive'
  BY <1>1, <1>2 DEF HistoryInv, Alive
<1>5. ran => ran'
  BY <1>1, Zenon
<1>6. dp' => \A q \in Pids : Name(q)' = procname' => ran'
  <2> SUFFICES ASSUME dp, NEW q \in Pids, Name(q)' = procname PROVE ran'
    BY <1>1
  <2>1. CASE q = p
    <3>1. program # NULL /\ Shown[program] = procname
      BY <1>3, <2>1, ServicesAssumption DEF TypeOK
    <3> QED
      BY <1>1, <3>1, Zenon
  <2>2. CASE q # p
    BY <1>2, <1>5, <2>2 DEF HistoryInv
  <2> QED
    BY <2>1, <2>2
<1>7. SearchInv'
  <2> SUFFICES ASSUME dp, faults = 0, NEW q \in steady, q # p
               PROVE  Ahead(q)' \/ Name(q)' # procname
    BY <1>1 DEF SearchInv
  <2>1. q \in Pids /\ Name(q)' = Name(q)
    BY <1>2 DEF TypeOK
  <2>2. Ahead(q) => Ahead(q)'
    BY <1>1 DEF Ahead
  <2> QED
    BY <2>1, <2>2 DEF SearchInv
<1>8. SteadyIsFound'
  BY <1>1, <1>2 DEF SteadyIsFound, TypeOK
<1>9. RunningRan'
  BY <1>1, <1>5 DEF RunningRan
<1> QED
  BY <1>4, <1>6, <1>7, <1>8, <1>9 DEF HistoryInv

\* And the operations of the program.
LEMMA SearchNext ==
  IInv /\ [Next]_vars => HistoryInv' /\ SearchInv' /\ SteadyIsFound' /\ RunningRan'
<1> SUFFICES ASSUME IInv, [Next]_vars
             PROVE  HistoryInv' /\ SearchInv' /\ SteadyIsFound' /\ RunningRan'
  OBVIOUS
<1> USE ServicesAssumption DEF IInv, BookInv, scan, history
<1>1. ASSUME NEW p \in Pids, Change(p)
      PROVE  HistoryInv' /\ SearchInv' /\ SteadyIsFound' /\ RunningRan'
  BY <1>1, ChangeSearch
<1>2. ASSUME UNCHANGED procs PROVE Alive' = Alive /\ \A p \in Pids : Name(p)' = Name(p)
  BY <1>2 DEF Alive, Name
<1>3. CASE Begin \/ Line \/ End \/ Report
  <2>1. /\ UNCHANGED <<procs, steady, ran, dp>> /\ ~dp
        /\ pc' \notin {"report", "fopen", "fgets"}
    BY <1>3 DEF Begin, Line, End, Report, Goto, AllClosed
  <2> QED
    BY <1>2, <2>1 DEF HistoryInv, SearchInv, SteadyIsFound, RunningRan
<1>4. CASE Opendir
  <2>1. UNCHANGED <<procs, procname>> /\ Alive' = Alive /\ \A p \in Pids : Name(p)' = Name(p)
    BY <1>2, <1>4 DEF Opendir
  <2>2. CASE /\ dp' = TRUE /\ entries' = {NoNumber} /\ listed' = 0
             /\ steady' = Alive
             /\ ran' = \E p \in Alive : Name(p) = procname
             /\ missed' = FALSE
             /\ Goto("readdir")
             /\ UNCHANGED <<faults, found>>
    <3>1. \A p \in Pids : Name(p)' = procname' => ran'
      <4> SUFFICES ASSUME NEW p \in Pids, Name(p) = procname PROVE ran'
        BY <2>1
      <4>1. p \in Alive
        BY NameType DEF TypeOK, Alive
      <4> QED
        BY <2>2, <4>1, Zenon
    <3>2. \A p \in steady' : p > listed'
      BY <2>2 DEF Alive, Pids
    <3> QED
      BY <2>1, <2>2, <3>1, <3>2
      DEF HistoryInv, SearchInv, Ahead, SteadyIsFound, RunningRan, Goto
  <2>3. CASE Fault /\ Return(NULL) /\ UNCHANGED <<dp, entries, listed, history>>
    <3>1. faults' # 0 /\ ~dp
      BY <1>4, <2>3 DEF Fault, Opendir, TypeOK, AllClosed
    <3> QED
      BY <2>1, <2>3, <3>1
      DEF HistoryInv, SearchInv, SteadyIsFound, RunningRan, Return, Goto
  <2> QED
    BY <1>4, <2>2, <2>3 DEF Opendir
<1>5. CASE Getdents
  <2>1. PICK last \in Unlisted :
          entries' = {p \in Unlisted : p <= last} /\ listed' = last
    BY <1>5 DEF Getdents
  <2>2. UNCHANGED <<procs, procname, dp, steady, ran, faults, pc>> /\ pc = "readdir" /\ entries = {}
    BY <1>5 DEF Getdents
  <2>3. Alive' = Alive /\ \A p \in Pids : Name(p)' = Name(p)
    BY <1>2, <2>2
  <2>4. \A p \in steady : Ahead(p) => Ahead(p)'
    BY <2>1, <2>2 DEF Ahead, Unlisted, Alive, HistoryInv, Pids
  <2> QED
    BY <2>2, <2>3, <2>4 DEF HistoryInv, SearchInv, SteadyIsFound, RunningRan, TypeOK
<1>6. CASE Closedir
  <2>1. /\ UNCHANGED <<procs, procname, steady, ran, faults>> /\ pc = "readdir"
        /\ entries = {} /\ Unlisted = {} /\ ~dp' /\ found' = NULL /\ dp
    BY <1>6 DEF Closedir, Leave, Return, AllClosed
  <2>2. Alive' = Alive /\ \A p \in Pids : Name(p)' = Name(p)
    BY <1>2, <2>1
  <2>3. \A p \in steady : ~Ahead(p)
    BY <2>1 DEF Ahead, Unlisted, HistoryInv
  <2>4. faults = 0 => \A p \in steady : Name(p)' # procname
    BY <2>1, <2>2, <2>3 DEF SearchInv, TypeOK
  <2> QED
    BY <2>1, <2>2, <2>4 DEF HistoryInv, SearchInv, SteadyIsFound, RunningRan
<1>7. CASE Readdir
  <2>1. PICK entry \in entries :
          /\ First(entry, entries)
          /\ entries' = entries \ {entry}
          /\ \/ ~IsNumber(entry) /\ UNCHANGED <<pid, pc>>
             \/ IsNumber(entry) /\ pid' = entry /\ Goto("fopen")
    BY <1>7 DEF Readdir
  <2>2. UNCHANGED <<procs, procname, dp, steady, ran, faults, listed, fp>> /\ pc = "readdir"
        /\ fp = "closed" /\ pc' # "report"
    BY <1>7, <2>1 DEF Readdir, Goto, AllClosed
  <2>3. Alive' = Alive /\ \A p \in Pids : Name(p)' = Name(p)
    BY <1>2, <2>2
  <2>4. \A p \in steady : Ahead(p) => Ahead(p)'
    <3> SUFFICES ASSUME NEW p \in steady, Ahead(p) PROVE Ahead(p)'
      OBVIOUS
    <3>1. CASE p = entry
      <4>1. IsNumber(entry)
        BY <3>1 DEF IsNumber, NoNumber, TypeOK, Pids
      <4> QED
        BY <2>1, <2>2, <3>1, <4>1 DEF Ahead, Goto
    <3>2. CASE p # entry
      BY <2>1, <2>2, <3>2 DEF Ahead
    <3> QED
      BY <3>1, <3>2
  <2> QED
    BY <2>2, <2>3, <2>4 DEF HistoryInv, SearchInv, SteadyIsFound, RunningRan, TypeOK
<1>8. CASE Fopen
  <2>1. /\ UNCHANGED <<procs, procname, dp, steady, ran, entries, listed, pid>>
        /\ pc = "fopen" /\ pc' \in {"fgets", "readdir"} /\ pid \in Pids /\ fp = "closed"
    BY <1>8 DEF Fopen, Goto, InHand, AllClosed
  <2>2. Alive' = Alive /\ \A p \in Pids : Name(p)' = Name(p)
    BY <1>2, <2>1
  <2>3. faults' = 0 => faults = 0 /\ \A p \in steady : Ahead(p) => Ahead(p)'
    <3> SUFFICES ASSUME faults' = 0, NEW p \in steady, Ahead(p)
                 PROVE  faults = 0 /\ Ahead(p)'
      BY <1>8 DEF Fopen, Fault, TypeOK
    <3>1. procs[p] # NULL
      BY DEF HistoryInv, Alive
    <3> QED
      BY <1>8, <2>1, <3>1 DEF Fopen, Fault, Ahead, Goto, TypeOK
  <2> QED
    BY <2>1, <2>2, <2>3 DEF HistoryInv, SearchInv, SteadyIsFound, RunningRan, TypeOK
<1>9. CASE Fgets
  <2>1. /\ UNCHANGED <<procs, procname, faults, steady, ran, entries, listed, pid>>
        /\ pc = "fgets" /\ pid \in Pids /\ dp /\ fp \in {"open", "ended"}
        /\ line' = LineRead /\ missed' = (missed \/ fp = "ended")
    BY <1>9 DEF Fgets, InHand, AllClosed, TypeOK
  <2>2. Alive' = Alive /\ \A p \in Pids : Name(p)' = Name(p)
    BY <1>2, <2>1
  <2>3. CASE line' = procname /\ Leave(pid)
    <3>1. ~dp' /\ found' # NULL
      BY <2>1, <2>3 DEF Leave, Return
    <3>2. ~missed' => ran'
      <4> SUFFICES ASSUME ~missed' PROVE ran
        BY <2>1
      <4>1. fp = "open"
        BY <2>1
      <4> QED
        BY <2>1, <2>3, <4>1 DEF LineRead, HistoryInv
    <3> QED
      BY <2>1, <2>2, <3>1, <3>2 DEF HistoryInv, SearchInv, SteadyIsFound, RunningRan
  <2>4. CASE line' # procname /\ Goto("readdir") /\ UNCHANGED <<dp, found>>
    <3>1. \A p \in steady : Ahead(p) => Ahead(p)' \/ Name(p) # procname
      BY <2>1, <2>4 DEF Ahead, LineRead, Goto
    <3> QED
      BY <2>1, <2>2, <2>4, <3>1
      DEF HistoryInv, SearchInv, SteadyIsFound, RunningRan, Goto, TypeOK
  <2> QED
    BY <1>9, <2>3, <2>4 DEF Fgets
<1>10. CASE UNCHANGED vars
  <2>1. Alive' = Alive /\ \A p \in Pids : Name(p)' = Name(p)
    BY <1>2, <1>10 DEF vars
  <2> QED
    BY <1>10, <2>1 DEF vars, HistoryInv, SearchInv, Ahead, SteadyIsFound, RunningRan, TypeOK
<1> QED
  BY <1>1, <1>3, <1>4, <1>5, <1>6, <1>7, <1>8, <1>9, <1>10 DEF Next, Step, Changes

\* So it holds throughout.
LEMMA InvAlways == Spec => []IInv
<1>1. IInv /\ [Next]_vars => IInv'
  BY BookNext, SearchNext DEF IInv
<1> QED
  BY InitInv, <1>1, PTL DEF Spec

-----------------------------------------------------------------------------
\* The variables of check_all_service and get_pid keep their types.
THEOREM TypeCorrect == Spec => []TypeOK
<1>1. IInv => TypeOK
  BY DEF IInv, BookInv
<1> QED
  BY <1>1, InvAlways, PTL

\* If a process whose status shows the name of a service runs throughout a
\* search in which no call fails, the service is not reported as down, whatever
\* the others do (get_pid).
THEOREM SteadyAlwaysFound == Spec => []SteadyIsFound
<1>1. IInv => SteadyIsFound
  BY DEF IInv
<1> QED
  BY <1>1, InvAlways, PTL

\* A service is only reported as running if a process of its name was there
\* during the search, or some status vanished before it was read (get_pid).
THEOREM RunningAlwaysRan == Spec => []RunningRan
<1>1. IInv => RunningRan
  BY DEF IInv
<1> QED
  BY <1>1, InvAlways, PTL

\* No way out of the search leaves the directory or a status open (get_pid).
THEOREM AlwaysAllClosed == Spec => []AllClosed
<1>1. IInv => AllClosed
  BY DEF IInv, BookInv
<1> QED
  BY <1>1, InvAlways, PTL
=============================================================================
