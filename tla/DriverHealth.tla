---------------------------- MODULE DriverHealth ----------------------------
(***************************************************************************)
(* What the driver promises about health, apart from how it counts: the     *)
(* four-state classification that TCA9548A.h documents for DriverState, as  *)
(* a machine that sees only bindings and the outcomes of tracked transfers. *)
(* The streak of failures is counted up to the binding's threshold; more of *)
(* them change nothing.  OFFLINE is a classification, not a gate: a success *)
(* leads from any state to READY.                                           *)
(***************************************************************************)
EXTENDS Integers

CONSTANT Thresholds     \* the offline thresholds of the bindings on offer, at least 1

VARIABLES
    threshold,  \* of the current binding, 0 when there is none
    seen,       \* a tracked transfer of this binding has succeeded
    streak,     \* tracked failures since the last success, up to the threshold
    health      \* the published classification

vars == <<threshold, seen, streak, health>>

Unbound == threshold = 0

Init ==
    /\ threshold = 0
    /\ seen = FALSE
    /\ streak = 0
    /\ health = "UNINIT"

Fresh ==
    /\ seen' = FALSE
    /\ streak' = 0
    /\ health' = "UNINIT"

Bind ==
    /\ Unbound
    /\ threshold' \in Thresholds
    /\ Fresh

Unbind ==
    /\ threshold' = 0
    /\ Fresh

Success ==
    /\ ~Unbound
    /\ seen' = TRUE
    /\ streak' = 0
    /\ health' = "READY"
    /\ UNCHANGED threshold

Failure ==
    /\ ~Unbound
    /\ streak' = IF streak < threshold THEN streak + 1 ELSE threshold
    /\ health' = IF ~seen THEN "UNINIT"
                 ELSE IF streak' = threshold THEN "OFFLINE" ELSE "DEGRADED"
    /\ UNCHANGED <<threshold, seen>>

Next == Bind \/ Unbind \/ Success \/ Failure

Spec == Init /\ [][Next]_vars
=============================================================================
