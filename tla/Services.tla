------------------------------- MODULE Services -------------------------------
(***************************************************************************)
(* check_all_service and get_pid (xadmin.c): for each name in a list, all  *)
(* of /proc is searched for a process of that name, and the service is     *)
(* reported as running or as down.                                         *)
(*                                                                         *)
(* Processes start, end and change their programs all the time, as often   *)
(* as they like: between two entries of the directory, between an entry    *)
(* and the opening of its status, and between the opening and the reading. *)
(* One step per system call that looks at them.  The kernel is external:   *)
(* it lists processes in the order of their numbers, some at a time; a     *)
(* status that was opened stays that process's, and cannot be read once    *)
(* the process has ended, whoever has its number by then.                  *)
(***************************************************************************)
EXTENDS Naturals, Sequences

CONSTANTS
  NULL,     \* no process, no program, nothing found (the code's -1)
  LastPid,  \* bound: the numbers of processes are 1 to LastPid
  Programs, \* what processes run
  Names,    \* what sscanf can read of a status, and the list name
  Shown,    \* what it reads of each program's
  List,     \* the lines of XADMIN_PROCLIST
  MaxFaults \* bound: calls of opendir and fopen that fail for no such reason

Pids == 1 .. LastPid

\* An entry of /proc that is no process: which_number answers -1.
NoNumber == 0

ASSUME ServicesAssumption ==
  /\ LastPid \in Nat /\ MaxFaults \in Nat
  /\ Shown \in [Programs -> Names]
  /\ NULL \notin Names /\ NULL \notin Programs /\ NULL \notin Pids
  /\ List \in Seq([kind : {"comment", "service"}, procname : Names])

VARIABLES
  procs,    \* the program of each process
  faults,   \* how many calls have failed
  pc,       \* the call that comes next
  lines,    \* the lines of the list that have been read
  procname, \* the service looked for; before the first, anything
  dp,       \* the directory stream is open
  entries,  \* the entries that were listed and not yet returned by readdir
  listed,   \* the number of the last process that was listed
  pid,      \* the process looked at
  fp,       \* its status: closed, open, or open and the process has ended
  line,     \* the name in the line that was read last, by this call or before
  found,    \* what get_pid returns
  steady,   \* history: who has run unchanged since the directory was opened
  ran,      \* history: a process of the name was there since then
  missed    \* history: a status was opened since then and could not be read

scan == <<dp, entries, listed, pid, fp>>
history == <<steady, ran, missed>>
vars == <<procs, faults, pc, lines, procname, scan, line, found, history>>

-----------------------------------------------------------------------------
Name(p) == IF procs[p] = NULL THEN NULL ELSE Shown[procs[p]]

Alive == {p \in Pids : procs[p] # NULL}

Init ==
  /\ procs \in [Pids -> Programs \cup {NULL}]
  /\ faults = 0
  /\ pc = "menu"
  /\ lines = 0
  /\ procname \in Names
  /\ dp = FALSE /\ entries = {} /\ listed = 0 /\ pid = NULL /\ fp = "closed"
  /\ line = NULL
  /\ found = NULL
  /\ steady = {} /\ ran = FALSE /\ missed = FALSE

\* A process starts, ends, or runs another program.
Change(p) ==
  \E program \in (Programs \cup {NULL}) \ {procs[p]} :
    /\ procs' = [procs EXCEPT ![p] = program]
    /\ fp' = IF pid = p /\ fp = "open" /\ program = NULL THEN "ended" ELSE fp
    /\ steady' = steady \ {p}
    /\ ran' = (ran \/ (program # NULL /\ dp /\ Shown[program] = procname))
    /\ UNCHANGED <<faults, pc, lines, procname, dp, entries, listed, pid, line,
                   found, missed>>

Goto(p) == pc' = p

Fault ==
  /\ faults < MaxFaults
  /\ faults' = faults + 1

-----------------------------------------------------------------------------
(***************************************************************************)
(* check_all_service.                                                      *)
(***************************************************************************)

\* The list is opened.  Without one, fgets gets a null pointer.
Begin ==
  /\ pc = "menu"
  /\ lines' = 0
  /\ Goto("line") \/ Goto("crashed")
  /\ UNCHANGED <<procs, faults, procname, scan, line, found, history>>

\* A line of the list; those that are empty or begin with '#' are skipped,
\* and the others lose their last character.
Line ==
  /\ pc = "line"
  /\ lines < Len(List)
  /\ lines' = lines + 1
  /\ IF List[lines'].kind = "comment"
     THEN UNCHANGED <<pc, procname>>
     ELSE procname' = List[lines'].procname /\ Goto("opendir")
  /\ UNCHANGED <<procs, faults, scan, line, found, history>>

\* The list ends, and mygetch waits for a key.
End ==
  /\ pc = "line"
  /\ lines = Len(List)
  /\ Goto("menu")
  /\ UNCHANGED <<procs, faults, lines, procname, scan, line, found, history>>

\* The service is printed as running or as down.
Report ==
  /\ pc = "report"
  /\ Goto("line")
  /\ UNCHANGED <<procs, faults, lines, procname, scan, line, found, history>>

-----------------------------------------------------------------------------
(***************************************************************************)
(* get_pid.                                                                *)
(***************************************************************************)
Return(result) == Goto("report") /\ found' = result

\* get_pid returns with the directory closed; and mistaken, without.
LeaveOpen(result) == UNCHANGED dp /\ Return(result)
Leave(result) == dp' = FALSE /\ Return(result)

\* /proc begins with entries that are no processes.  The line is a local that
\* nothing initialises: it holds what an earlier call has left, or no name.
Opendir ==
  /\ pc = "opendir"
  /\ \/ /\ dp' = TRUE /\ entries' = {NoNumber} /\ listed' = 0
        /\ steady' = Alive
        /\ ran' = \E p \in Alive : Name(p) = procname
        /\ missed' = FALSE
        /\ Goto("readdir")
        /\ UNCHANGED <<faults, found>>
     \/ Fault /\ Return(NULL) /\ UNCHANGED <<dp, entries, listed, history>>
  /\ line' \in {line, NULL}
  /\ UNCHANGED <<procs, lines, procname, pid, fp>>

\* The processes that were not listed yet.  And mistakes: the next one is
\* passed over; those that were listed before are listed again.
UnlistedButNext == {p \in Alive : p > listed + 1}
ListedAgain == Alive
Unlisted == {p \in Alive : p > listed}

First(p, pids) == p \in pids /\ \A q \in pids : p <= q

\* readdir has no entry left: the kernel lists the next processes, however many.
Getdents ==
  /\ pc = "readdir"
  /\ entries = {}
  /\ \E last \in Unlisted :
       /\ entries' = {p \in Unlisted : p <= last}
       /\ listed' = last
  /\ UNCHANGED <<procs, faults, pc, lines, procname, dp, pid, fp, line, found, history>>

\* The directory ends: the service was not found.
Closedir ==
  /\ pc = "readdir"
  /\ entries = {}
  /\ Unlisted = {}
  /\ Leave(NULL)
  /\ UNCHANGED <<procs, faults, lines, procname, entries, listed, pid, fp, line, history>>

\* which_number; and mistaken, it takes anything for a number.
AnyNumber(entry) == TRUE
IsNumber(entry) == entry # NoNumber

\* readdir returns an entry, which is skipped unless it is a number.
Readdir ==
  /\ pc = "readdir"
  /\ \E entry \in entries :
       /\ First(entry, entries)
       /\ entries' = entries \ {entry}
       /\ \/ ~IsNumber(entry) /\ UNCHANGED <<pid, pc>>
          \/ IsNumber(entry) /\ pid' = entry /\ Goto("fopen")
  /\ UNCHANGED <<procs, faults, lines, procname, dp, listed, fp, line, found, history>>

\* The process's status is opened, if there still is a process of its number;
\* or else it is passed over.
Fopen ==
  /\ pc = "fopen"
  /\ \/ procs[pid] # NULL /\ fp' = "open" /\ Goto("fgets") /\ UNCHANGED faults
     \/ procs[pid] = NULL /\ Goto("readdir") /\ UNCHANGED <<fp, faults>>
     \/ Fault /\ Goto("readdir") /\ UNCHANGED fp
  /\ UNCHANGED <<procs, lines, procname, dp, entries, listed, pid, line, found, history>>

\* What is in the line once fgets was called: nobody looks whether it failed.
\* And mistaken, the line that is there already is kept.
LineKept == IF fp = "open" /\ line = NULL THEN Name(pid) ELSE line
LineRead == IF fp = "open" THEN Name(pid) ELSE line

\* The status is read and closed, and the name in the line compared.
Fgets ==
  /\ pc = "fgets"
  /\ line' = LineRead
  /\ missed' = (missed \/ fp = "ended")
  /\ fp' = "closed"
  /\ \/ line' = procname /\ Leave(pid)
     \/ line' # procname /\ Goto("readdir") /\ UNCHANGED <<dp, found>>
  /\ UNCHANGED <<procs, faults, lines, procname, entries, listed, pid, steady, ran>>

-----------------------------------------------------------------------------
Step ==
  \/ Begin \/ Line \/ End \/ Report
  \/ Opendir \/ Getdents \/ Closedir \/ Readdir \/ Fopen \/ Fgets

Changes == \E p \in Pids : Change(p)

Next == Step \/ Changes

\* check_all_service is sequential code that keeps running, and no call of it
\* need fail.  Of the processes nothing is assumed: they may come and go for
\* ever.
Spec == Init /\ [][Next]_vars /\ WF_vars(Step /\ faults' = faults)

-----------------------------------------------------------------------------
\* The types of the variables.
TypeOK ==
  /\ procs \in [Pids -> Programs \cup {NULL}]
  /\ faults \in 0 .. MaxFaults
  /\ pc \in {"menu", "line", "opendir", "readdir", "fopen", "fgets", "report", "crashed"}
  /\ lines \in 0 .. Len(List)
  /\ procname \in Names
  /\ dp \in BOOLEAN /\ ran \in BOOLEAN /\ missed \in BOOLEAN
  /\ entries \subseteq Pids \cup {NoNumber}
  /\ listed \in 0 .. LastPid
  /\ pid \in Pids \cup {NULL} /\ found \in Pids \cup {NULL}
  /\ fp \in {"closed", "open", "ended"}
  /\ line \in Names \cup {NULL}
  /\ steady \subseteq Pids

\* Whatever the other processes do during the scan: a service is not reported
\* as down if a process whose status shows its name ran all the time from the
\* opening of /proc to its end (get_pid).  A program whose name is longer than
\* the kernel keeps shows another one, and is reported as down though it runs.
SteadyIsFound ==
  pc = "report" /\ found = NULL /\ faults = 0 => \A p \in steady : Name(p) # procname

\* And it is not reported as running if it never was during the scan, as long
\* as every status that could be opened could be read as well (get_pid).
RunningRan == pc = "report" /\ found # NULL /\ ~missed => ran

\* No way out of the search leaves the directory or a status open; each call
\* would lose a descriptor (get_pid).
AllClosed ==
  /\ dp <=> pc \in {"readdir", "fopen", "fgets"}
  /\ fp # "closed" <=> pc = "fgets"

\* Each name of the list gets its answer, though the processes never stop to
\* come and go: the search goes through their numbers once (get_pid).
SearchEnds == pc = "opendir" ~> pc = "report"

\* What the program prints, "running", should be so: the service ran at some
\* time during the search.
RunningIsTrue == pc = "report" /\ found # NULL => ran
=============================================================================
