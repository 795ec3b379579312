------------------------------- MODULE Programs -------------------------------
(***************************************************************************)
(* The programs that read the file system, one of which runs: ls and cat   *)
(* (FileReaders), grep (Grep) and fish (Fish, with Blink).  A program is   *)
(* not preempted, so the others stand still while one runs.                *)
(***************************************************************************)
EXTENDS Fish

allVars == <<readerVars, grepVars, fishVars>>

ReadersIdle ==
    /\ arg = <<>> /\ chunk = 0 /\ pc = "idle"
    /\ e = Closed /\ out = <<>>

ProgramsInit ==
    \/ Init /\ GrepIdle /\ FishIdle
    \/ prog = "grep" /\ ReadersIdle /\ GrepInit /\ FishIdle
    \/ prog = "fish" /\ ReadersIdle /\ GrepIdle /\ FishInit

ProgramsNext ==
    \/ Next /\ UNCHANGED <<grepVars, fishVars>>
    \/ GrepNext /\ UNCHANGED <<readerVars, fishVars>>
    \/ FishNext /\ UNCHANGED <<readerVars, grepVars>>

\* The program that runs is never preempted, its reads of the file system do not block,
\* and its reads of the clock return (RtcReadReturns of Rtc), so it keeps running.
ProgramsSpec == ProgramsInit /\ [][ProgramsNext]_allVars /\ WF_allVars(ProgramsNext)

-------------------------------------------------------------------------------
\* How the program that runs ended, if it has.
Ended == CASE prog = "grep" -> gpc [] prog = "fish" -> fpc [] OTHER -> pc

\* What the program needs is there: the file of ls and cat, the argument of grep, the two
\* frames of fish.
HasInput ==
    CASE prog = "grep" -> search # <<>>
      [] prog = "fish" -> \A k \in 1..2 : Matches(frames[k]) # {}
      [] OTHER -> Matches(arg) # {}

\* Every one of the programs stops, with status 0 whenever what it needs is there: ls and
\* grep at the empty name behind the last entry, cat and grep at the end of a file, the
\* two loops of add_frames when both files have ended, the waits of fish's main.
ProgramsReturn == <>(Ended = IF HasInput THEN "done" ELSE "failed")

===============================================================================
