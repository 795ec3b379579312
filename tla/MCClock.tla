------------------------------- MODULE MCClock -------------------------------
(***************************************************************************)
(* Three structures for two cells and a location off the screen, so that   *)
(* cells are shared and the array is used up; phases of one and two ticks, *)
(* and one of 7 that is negative in a signed word of 8 values.             *)
(***************************************************************************)
EXTENDS Clock

At(loc, on, off, m, n) ==
    [location |-> loc, on_char |-> on, off_char |-> off, on_length |-> m, off_length |-> n]
MCBlinks == {At(1, "I", "M", 1, 2), At(2, "a", "b", 2, 7), At(3, "I", "M", 1, 1)}
MCLiveScreen == [cell \in 0..2 |-> "#"]

===============================================================================
