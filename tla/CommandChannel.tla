--------------------------- MODULE CommandChannel ---------------------------
(***************************************************************************)
(* What the hardware-in-the-loop runner needs of its serial line, however   *)
(* commands are framed: one command at a time, taken (run or refused) by    *)
(* the firmware at most once, answered only then, and none sent after the   *)
(* line was once lost.                                                      *)
(***************************************************************************)
EXTENDS Integers

VARIABLES
    alive,      \* the line may still be used
    called,     \* how many commands were handed to the line
    taken,      \* the last command the firmware took
    answered    \* the last command whose answer was accepted

vars == <<alive, called, taken, answered>>

Init ==
    /\ alive = TRUE
    /\ called = 0
    /\ taken = 0
    /\ answered = 0

\* A command goes out only behind an answered one; it may kill the line.
Call ==
    /\ alive
    /\ answered = called
    /\ called' = called + 1
    /\ alive' \in BOOLEAN
    /\ UNCHANGED <<taken, answered>>

\* The firmware takes the newest command, also when nobody waits any more.
Take ==
    /\ taken < called
    /\ taken' = called
    /\ UNCHANGED <<alive, called, answered>>

Answer ==
    /\ alive
    /\ answered < called
    /\ taken = called
    /\ answered' = called
    /\ UNCHANGED <<alive, called, taken>>

Lose ==
    /\ alive' = FALSE
    /\ UNCHANGED <<called, taken, answered>>

Next == Call \/ Take \/ Answer \/ Lose

Spec == Init /\ [][Next]_vars
=============================================================================
