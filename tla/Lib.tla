---------------------------------- MODULE Lib ----------------------------------
(***************************************************************************)
(* lib.c as a whole: the screen, the memory routines and printf.  The      *)
(* parts share no state, so it is enough to let the routines run, one at a *)
(* time and to their end, while the screen is empty.                       *)
(***************************************************************************)
EXTENDS Screen, LibMemory, LibFormat

LibInit == Init /\ MemInit /\ NotPrinting

LibNext ==
    \/ fn = "none" /\ ~printing /\ ~df /\ Next /\ UNCHANGED <<memVars, formatVars>>
    \/ Init /\ ~printing /\ MemNext /\ UNCHANGED <<vars, formatVars>>
    \/ Init /\ fn = "none" /\ ~df /\ FormatNext /\ UNCHANGED <<vars, memVars>>

LibSpec == LibInit /\ [][LibNext]_<<vars, memVars, formatVars>>

===============================================================================
