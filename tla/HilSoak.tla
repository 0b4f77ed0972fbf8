------------------------------ MODULE HilSoak ------------------------------
(***************************************************************************)
(* run_soak() of tools/tca9548a_hil.py: baselines of the console's and the  *)
(* driver's counters, paced batches of mixed stress, readback and counter   *)
(* checks until the deadline, then cleanup and the final counters.  An      *)
(* exchange is one step with an outcome, as in HilMaskChecks.  Counters      *)
(* saturate; transfers may fail and console output may be dropped at any    *)
(* time, and another master may write the mux.                              *)
(*                                                                         *)
(* The clock starts when the setup is done.                                 *)
(***************************************************************************)
EXTENDS Integers, Sequences

CONSTANTS
    Second,         \* ticks; the batch interval and the longest sleep
    Durations,      \* --soak-duration-s, in ticks
    Delays,         \* --command-delay-s, in ticks
    Cap,            \* MAX_SOAK_BATCHES
    Lag,            \* bounds the ticks a command takes or a sleep overruns
    CounterMax      \* UINT32_MAX, where the firmware's counters stay

ASSUME SoakAssumption ==
    /\ Second \in Nat \ {0} /\ Durations \subseteq Nat \ {0} /\ Delays \subseteq Nat
    /\ Lag \in Nat /\ CounterMax \in Nat \ {0}
    /\ Cap \in Nat /\ \A d \in Durations : d <= Cap * Second

VARIABLES
    duration, delay,
    phase, step,
    clock,          \* since the setup; it stops with the loop
    began,          \* when the last batch began
    attempts, batches,
    consoleBase,    \* drop counter of the baseline, -1 without one
    healthBase,     \* failure counter of the baseline, -1 without one
    previous,       \* previous_verbose
    errors,         \* kinds of error in the summary
    synchronized, recording,
    drops, failures,    \* the firmware's counters
    verbose,
    off,            \* all channels are off
    entry,          \* history: verbosity at the start
    lost, failed,   \* history: output was dropped, a transfer failed, between the
                    \* baseline and the final counter
    touched         \* history: another master wrote since the last readback

request == <<duration, delay>>
time == <<clock, began>>
counts == <<attempts, batches>>
baselines == <<consoleBase, healthBase>>
line == <<synchronized, recording>>
mux == <<off, touched>>
truth == <<drops, failures, lost, failed>>
vars == <<request, phase, step, time, counts, baselines, previous, errors, line,
          truth, verbose, mux, entry>>

SetupScript == <<"CONSOLE", "HEALTH", "VERBOSE", "VERBOSE_OFF">>
BatchScript == <<"STRESS", "READ", "HEALTH", "CONSOLE">>
CleanupScript ==
    (IF attempts > 0 THEN <<"OFF", "READ">> ELSE <<>>)
    \o (IF previous = "on" THEN <<"VERBOSE_ON">> ELSE <<>>)

Init ==
    /\ duration \in Durations /\ delay \in Delays
    /\ phase = "SETUP" /\ step = 1
    /\ clock = 0 /\ began = 0
    /\ attempts = 0 /\ batches = 0
    /\ consoleBase = -1 /\ healthBase = -1
    /\ previous = "unknown"
    /\ errors = {}
    /\ synchronized = TRUE /\ recording \in BOOLEAN
    /\ drops \in 0 .. CounterMax /\ failures \in 0 .. CounterMax
    /\ lost = FALSE /\ failed = FALSE
    /\ verbose \in {"on", "off"} /\ entry = verbose
    /\ off \in BOOLEAN /\ touched = FALSE

-----------------------------------------------------------------------------
(* One exchange                                                            *)

Outcomes == {"ANSWERED", "REFUSED", "LOST", "UNRECORDED", "INTERRUPTED"}

\* Fault: a counter that cannot move any more is compared like any other.
ComparedOnly(count, base) == base = -1 \/ count = base
\* parse_console(), parse_health(), compare_console(), compare_health()
Unmoved(count, base) == count < CounterMax /\ (base = -1 \/ count = base)

\* What the host demands of an answer.
Accepted(cmd) ==
    CASE cmd = "CONSOLE" -> Unmoved(drops, consoleBase)
      [] cmd = "HEALTH" -> Unmoved(failures, healthBase)
      [] cmd = "READ" -> off
      [] OTHER -> TRUE

\* What a command does; one that was not answered may have run or not.
Exchange(cmd, outcome) ==
    LET ran == outcome \in {"ANSWERED", "UNRECORDED"}
    IN  /\ outcome = "UNRECORDED" => recording
        /\ recording' = (recording /\ outcome # "UNRECORDED")
        /\ synchronized' = (outcome # "LOST")
        /\ CASE cmd = "STRESS" -> off' \in {TRUE} \cup IF ran THEN {} ELSE BOOLEAN
             [] cmd = "OFF" -> off' \in {TRUE} \cup IF ran THEN {} ELSE {off}
             [] OTHER -> off' = off
        /\ CASE cmd = "VERBOSE_OFF" -> verbose' \in {"off"} \cup IF ran THEN {} ELSE {verbose}
             [] cmd = "VERBOSE_ON" -> verbose' \in {"on"} \cup IF ran THEN {} ELSE {verbose}
             [] OTHER -> verbose' = verbose
        /\ touched' = (touched /\ ~(cmd = "READ" /\ outcome = "ANSWERED"))

Holds(cmd, outcome) == outcome = "ANSWERED" /\ Accepted(cmd)

\* check_console() and check_health() keep what they compared.
Keeps(cmd) ==
    /\ consoleBase' = IF cmd = "CONSOLE" THEN drops ELSE consoleBase
    /\ healthBase' = IF cmd = "HEALTH" THEN failures ELSE healthBase

Fails(kind) == errors' = errors \cup {kind}

-----------------------------------------------------------------------------
(* The soak                                                                *)

\* Baselines first, then verbose is turned off if it is on; the clock starts.
StartLoop == phase' = "LOOP" /\ step' = 1 /\ clock' \in 0 .. Lag

Setup ==
    /\ phase = "SETUP"
    /\ LET cmd == SetupScript[step]
       IN  \E outcome \in Outcomes :
             /\ Exchange(cmd, outcome)
             /\ IF Holds(cmd, outcome)
                THEN /\ Keeps(cmd)
                     /\ previous' = IF cmd = "VERBOSE" THEN verbose ELSE previous
                     /\ IF step = 4 \/ (cmd = "VERBOSE" /\ verbose = "off") THEN StartLoop
                        ELSE step' = step + 1 /\ UNCHANGED <<phase, clock>>
                     /\ UNCHANGED errors
                ELSE /\ phase' = "CLEANUP" /\ step' = 1
                     /\ Fails("ANOMALY")
                     /\ UNCHANGED <<baselines, previous, clock>>
    /\ UNCHANGED <<request, began, counts, truth, entry>>

BeginBatch ==
    /\ phase = "LOOP" /\ clock < duration /\ attempts < Cap
    /\ phase' = "BATCH" /\ step' = 1
    /\ began' = clock
    /\ attempts' = attempts + 1
    /\ UNCHANGED <<request, clock, batches, baselines, previous, errors, line, truth,
                   verbose, mux, entry>>

EndLoop ==
    /\ phase = "LOOP" /\ ~(clock < duration /\ attempts < Cap)
    /\ phase' = "CLEANUP" /\ step' = 1
    /\ IF batches = 0 THEN Fails("NO_BATCH")
       ELSE IF clock < duration THEN Fails("CAP") ELSE UNCHANGED errors
    /\ UNCHANGED <<request, time, counts, baselines, previous, line, truth, verbose, mux, entry>>

Batch ==
    /\ phase = "BATCH"
    /\ LET cmd == BatchScript[step]
       IN  \E outcome \in Outcomes :
             /\ Exchange(cmd, outcome)
             /\ IF Holds(cmd, outcome)
                THEN /\ Keeps(cmd)
                     /\ batches' = batches + IF step = Len(BatchScript) THEN 1 ELSE 0
                     /\ phase' = IF step = Len(BatchScript) THEN "PAUSE" ELSE "BATCH"
                     /\ step' = IF step = Len(BatchScript) THEN 1 ELSE step + 1
                     /\ UNCHANGED errors
                ELSE /\ phase' = "CLEANUP" /\ step' = 1
                     /\ Fails("ANOMALY")
                     /\ UNCHANGED <<batches, baselines>>
    /\ \E t \in 0 .. Lag : clock' = clock + t
    /\ UNCHANGED <<request, began, attempts, previous, truth, entry>>

Least(a, b) == IF a < b THEN a ELSE b
Greatest(a, b) == IF a > b THEN a ELSE b

\* Fault: a batch follows as soon as the commands and the delay allow.
NoInterval == 0
Interval == Second

\* The first sleep is at most a second, measured from now; the others end when the
\* next batch is due, measured from this one's beginning.
FirstPause == Least(duration - clock, Greatest(delay, began + Interval - clock))
NextBatch == Least(duration, began + Greatest(Interval, delay))
Wake == IF FirstPause <= 0 THEN clock
        ELSE Greatest(NextBatch, clock + Least(FirstPause, Second))

Pause ==
    /\ phase = "PAUSE"
    /\ \/ /\ phase' = "LOOP"
          /\ \E t \in 0 .. Lag : clock' = Wake + t
          /\ UNCHANGED errors
       \/ /\ FirstPause > 0                     \* interrupted
          /\ phase' = "CLEANUP"
          /\ Fails("ANOMALY")
          /\ UNCHANGED clock
    /\ UNCHANGED <<request, step, began, counts, baselines, previous, line, truth,
                   verbose, mux, entry>>

-----------------------------------------------------------------------------
(* Cleanup and final evidence                                              *)

\* A command that fails does not keep the next ones from being tried.
Cleanup ==
    /\ phase = "CLEANUP" /\ step <= Len(CleanupScript) /\ synchronized
    /\ LET cmd == CleanupScript[step]
       IN  \E outcome \in Outcomes :
             /\ Exchange(cmd, outcome)
             /\ IF Holds(cmd, outcome) THEN UNCHANGED errors ELSE Fails("CLEANUP")
    /\ step' = step + 1
    /\ UNCHANGED <<request, phase, time, counts, baselines, previous, truth, entry>>

\* Fault: cleanup that could not be sent is left out silently.
Unsent == errors
CleanupNotRun == errors \cup {"CLEANUP"}

EndCleanup ==
    /\ phase = "CLEANUP"
    /\ \/ step > Len(CleanupScript) /\ UNCHANGED errors
       \/ step <= Len(CleanupScript) /\ ~synchronized /\ errors' = CleanupNotRun
    /\ IF consoleBase # -1 /\ synchronized
       THEN phase' = "FINAL" /\ step' = IF healthBase # -1 THEN 1 ELSE 2
       ELSE phase' = "DONE" /\ step' = 1
    /\ UNCHANGED <<request, time, counts, baselines, previous, line, truth, verbose, mux, entry>>

\* Health, then console, which cannot be sent if health lost the boundary.
Final ==
    /\ phase = "FINAL"
    /\ LET cmd == <<"HEALTH", "CONSOLE">>[step]
       IN  \/ /\ synchronized
              /\ \E outcome \in Outcomes :
                   /\ Exchange(cmd, outcome)
                   /\ IF Holds(cmd, outcome) THEN Keeps(cmd) /\ UNCHANGED errors
                      ELSE Fails("FINAL") /\ UNCHANGED baselines
           \/ ~synchronized /\ Fails("FINAL") /\ UNCHANGED <<baselines, line, verbose, mux>>
    /\ IF step = 1 THEN step' = 2 /\ UNCHANGED phase ELSE phase' = "DONE" /\ step' = 1
    /\ UNCHANGED <<request, time, counts, previous, truth, entry>>

-----------------------------------------------------------------------------
(* The firmware and the bus                                                *)

Counted(count) == Least(count + 1, CounterMax)

DropOutput ==
    /\ phase # "DONE"
    /\ drops' = Counted(drops)
    /\ lost' = (lost \/ consoleBase # -1)
    /\ UNCHANGED <<request, phase, step, time, counts, baselines, previous, errors, line,
                   failures, failed, verbose, mux, entry>>

FailTransfer ==
    /\ phase # "DONE"
    /\ failures' = Counted(failures)
    /\ failed' = (failed \/ (healthBase # -1 /\ ~(phase = "FINAL" /\ step = 2)))
    /\ UNCHANGED <<request, phase, step, time, counts, baselines, previous, errors, line,
                   drops, lost, verbose, mux, entry>>

Disturb ==
    /\ phase # "DONE" /\ off
    /\ off' = FALSE /\ touched' = TRUE
    /\ UNCHANGED <<request, phase, step, time, counts, baselines, previous, errors, line,
                   truth, verbose, entry>>

Next ==
    \/ Setup \/ BeginBatch \/ EndLoop \/ Batch \/ Pause \/ Cleanup \/ EndCleanup \/ Final
    \/ DropOutput \/ FailTransfer \/ Disturb

Spec == Init /\ [][Next]_vars

-----------------------------------------------------------------------------
(* Properties                                                              *)

Ended == phase = "DONE"

\* A soak without an error ran at least one batch and completed all it began, for
\* the whole duration; nothing failed on the bus and no output was dropped
\* between the baselines and the final counters, not even at a saturated counter.
SoakPassIsEvidence ==
    Ended /\ errors = {} =>
      /\ batches > 0 /\ batches = attempts /\ clock >= duration
      /\ consoleBase # -1 /\ ~lost
      /\ healthBase # -1 /\ ~failed

\* Whatever ends the soak, the mux is left off and verbosity as it was, or an error
\* says that cleanup was not done or not verified, unless another master wrote
\* since the last readback.
CleanupIsOwed ==
    Ended /\ "CLEANUP" \notin errors =>
      /\ attempts > 0 => off \/ touched
      /\ verbose = entry

\* No soak that can be asked for is ended by the batch cap instead of its deadline.
CapNeverBinds == "CAP" \notin errors
=============================================================================
