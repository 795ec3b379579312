----------------------------- MODULE ProcessStack -----------------------------
(***************************************************************************)
(* What the process calls promise: programs run one inside the other.      *)
(* execute puts a program on top and halt takes it off; the one on top is  *)
(* the one that runs; the bottom is a shell, and when it ends a fresh      *)
(* shell takes its place.                                                  *)
(***************************************************************************)
EXTENDS Integers, Sequences

CONSTANTS Programs, shell, Depth

VARIABLES stack, running, stopped

svars == <<stack, running, stopped>>

Init == stack = <<>> /\ running = 0 /\ stopped = FALSE

Top(s) == s[Len(s)]

Boot == stack = <<>> /\ stack' = <<shell>>

Execute(p) == stack # <<>> /\ Len(stack) < Depth /\ stack' = Append(stack, p)

Halt == Len(stack) > 1 /\ stack' = SubSeq(stack, 1, Len(stack) - 1)

HaltLast == Len(stack) = 1 /\ stack' = <<shell>>

\* A step of the stack: whatever is then on top runs.
Step ==
    /\ ~stopped
    /\ Boot \/ (\E p \in Programs : Execute(p)) \/ Halt \/ HaltLast
    /\ running' = Top(stack')
    /\ UNCHANGED stopped

\* An exception stops the machine.
Stop == ~stopped /\ stack # <<>> /\ stopped' = TRUE /\ UNCHANGED <<stack, running>>

Next == Step \/ Stop

Spec == Init /\ [][Next]_svars
===============================================================================
