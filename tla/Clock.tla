--------------------------------- MODULE Clock ---------------------------------
(***************************************************************************)
(* The real-time clock and the blinking characters its ticks drive.  The   *)
(* driver of the kernel and the list of fish share no variable, so it is   *)
(* enough to let the one run while the other is as it was at the start.    *)
(***************************************************************************)
EXTENDS Rtc, Blink

ClockInit == Init /\ BlinkInit

ClockNext ==
    \/ BlinkInit /\ Next /\ UNCHANGED blinkVars
    \/ Init /\ BlinkNext /\ UNCHANGED vars

\* The fairness of Rtc; the calls of a program may stop at any time.
ClockSpec ==
    /\ ClockInit /\ [][ClockNext]_<<vars, blinkVars>>
    /\ WF_vars(Raise) /\ WF_vars(rtc_handler) /\ WF_vars(ReadSteps)

===============================================================================
