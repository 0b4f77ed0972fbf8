---------------------------- MODULE HilSoak_proofs ----------------------------
(***************************************************************************)
(* Proofs about HilSoak for every duration, delay, lag and counter width:    *)
(* what a soak without errors shows, what its cleanup owes, and that its     *)
(* pacing keeps it under the batch cap.                                      *)
(***************************************************************************)
EXTENDS HilSoak, SequenceTheorems, TLAPS

-----------------------------------------------------------------------------
(* Types                                                                   *)

Counters == 0 .. CounterMax
Phases == {"SETUP", "LOOP", "BATCH", "PAUSE", "CLEANUP", "FINAL", "DONE"}

TypeInv ==
    /\ duration \in Durations /\ delay \in Delays
    /\ phase \in Phases /\ step \in Nat \ {0}
    /\ phase = "SETUP" => step \in 1 .. 4
    /\ phase = "BATCH" => step \in 1 .. 4
    /\ phase \in {"LOOP", "PAUSE"} => step = 1
    /\ phase = "FINAL" => step \in 1 .. 2
    /\ clock \in Nat /\ began \in Nat
    /\ attempts \in Nat /\ batches \in Nat
    /\ consoleBase \in {-1} \cup Counters /\ healthBase \in {-1} \cup Counters
    /\ drops \in Counters /\ failures \in Counters

\* A step moves at most these by one exchange.
LEMMA ExchangeLeaves ==
    ASSUME NEW cmd, NEW outcome, Exchange(cmd, outcome)
    PROVE  /\ ~synchronized' => outcome = "LOST"
           /\ cmd \notin {"STRESS", "OFF"} => off' = off
           /\ cmd \notin {"VERBOSE_OFF", "VERBOSE_ON"} => verbose' = verbose
           /\ touched' = (touched /\ ~(cmd = "READ" /\ outcome = "ANSWERED"))
  <1>1. synchronized' = (outcome # "LOST")
        /\ touched' = (touched /\ ~(cmd = "READ" /\ outcome = "ANSWERED"))
    BY Zenon DEF Exchange
  <1>2. cmd \notin {"STRESS", "OFF"} => off' = off
    BY Zenon DEF Exchange
  <1>3. cmd \notin {"VERBOSE_OFF", "VERBOSE_ON"} => verbose' = verbose
    BY Zenon DEF Exchange
  <1> QED
    BY <1>1, <1>2, <1>3

\* Counters stay in their width.
LEMMA CountedType ==
    ASSUME NEW count \in Counters
    PROVE  Counted(count) \in Counters /\ (count < CounterMax => Counted(count) = count + 1)
                                        /\ (count = CounterMax => Counted(count) = count)
  BY SoakAssumption DEF Counters, Counted, Least

\* A pause ends no earlier than it began, and not before the next batch is due
\* unless the soak is over.
LEMMA WakeBounds ==
    ASSUME duration \in Nat, delay \in Nat, clock \in Nat, began \in Nat
    PROVE  Wake \in Nat /\ Wake >= clock /\ (Wake >= duration \/ Wake >= began + Second)
  <1>1. Second \in Nat \ {0}
    BY SoakAssumption
  <1>2. CASE FirstPause <= 0
    <2>1. duration - clock <= 0 \/ Greatest(delay, began + Second - clock) <= 0
      BY <1>1, <1>2 DEF FirstPause, Interval, Least
    <2>2. Greatest(delay, began + Second - clock) >= began + Second - clock
      BY <1>1 DEF Greatest
    <2>3. Greatest(delay, began + Second - clock) \in Int
      BY <1>1 DEF Greatest
    <2>4. Wake = clock
      BY <1>2 DEF Wake
    <2> QED
      BY <1>1, <2>1, <2>2, <2>3, <2>4
  <1>3. CASE ~(FirstPause <= 0)
    <2>1. FirstPause \in Nat /\ NextBatch \in Nat
      BY <1>1, <1>3 DEF FirstPause, NextBatch, Interval, Least, Greatest
    <2>2. NextBatch >= duration \/ NextBatch >= began + Second
      BY <1>1 DEF NextBatch, Interval, Least, Greatest
    <2>3. Wake = Greatest(NextBatch, clock + Least(FirstPause, Second))
      BY <1>3 DEF Wake
    <2> QED
      BY <1>1, <2>1, <2>2, <2>3 DEF Greatest, Least
  <1> QED
    BY <1>2, <1>3

\* The initial values have their types.
LEMMA TypeInit == Init => TypeInv
  BY SoakAssumption DEF Init, TypeInv, Phases, Counters

\* Every step keeps the types.
LEMMA TypeStep == TypeInv /\ [Next]_vars => TypeInv'
  <1> SUFFICES ASSUME TypeInv, [Next]_vars PROVE TypeInv'
    OBVIOUS
  <1> USE SoakAssumption DEF TypeInv, Phases, request, time, counts, baselines, truth
  <1>1. CASE Setup
    BY <1>1 DEF Setup, StartLoop, Keeps
  <1>2. CASE BeginBatch
    BY <1>2 DEF BeginBatch
  <1>3. CASE EndLoop
    BY <1>3 DEF EndLoop
  <1>4. CASE Batch
    BY <1>4 DEF Batch, Keeps, BatchScript
  <1>5. CASE Pause
    <2>1. duration \in Nat /\ delay \in Nat
      OBVIOUS
    <2> QED
      BY <1>5, <2>1, WakeBounds DEF Pause
  <1>6. CASE Cleanup
    BY <1>6 DEF Cleanup
  <1>7. CASE EndCleanup
    BY <1>7 DEF EndCleanup
  <1>8. CASE Final
    BY <1>8 DEF Final, Keeps
  <1>9. CASE DropOutput
    BY <1>9, CountedType DEF DropOutput
  <1>10. CASE FailTransfer
    BY <1>10, CountedType DEF FailTransfer
  <1>11. CASE Disturb \/ UNCHANGED vars
    BY <1>11 DEF Disturb, vars
  <1> QED
    BY <1>1, <1>2, <1>3, <1>4, <1>5, <1>6, <1>7, <1>8, <1>9, <1>10, <1>11 DEF Next

-----------------------------------------------------------------------------
(* Pacing                                                                  *)

\* Batches begin at least a second apart, so their number is bounded by the clock.
Paced ==
    /\ phase = "SETUP" => attempts = 0
    /\ phase = "LOOP" => clock >= duration \/ attempts * Second <= clock
    /\ phase \in {"BATCH", "PAUSE"} => attempts * Second <= began + Second
    /\ "CAP" \notin errors

\* The cap is more batches than fit into the longest duration.
LEMMA CapBounds ==
    ASSUME attempts \in Nat, duration \in Durations, attempts * Second < duration
    PROVE  attempts < Cap
  <1>1. Second \in Nat \ {0} /\ Cap \in Nat /\ duration <= Cap * Second /\ duration \in Nat
    BY SoakAssumption
  <1>2. \A m, n, s \in Nat : m >= n => m * s >= n * s
    OBVIOUS
  <1>3. attempts >= Cap => attempts * Second >= Cap * Second
    BY <1>1, <1>2
  <1>4. attempts * Second \in Nat /\ Cap * Second \in Nat
    BY <1>1
  <1> QED
    BY <1>1, <1>3, <1>4

\* The pause of a batch keeps the next one a second behind it.
LEMMA PacedStep == TypeInv /\ Paced /\ [Next]_vars => Paced'
  <1> SUFFICES ASSUME TypeInv, Paced, [Next]_vars PROVE Paced'
    OBVIOUS
  <1> USE DEF Paced, Fails
  <1>a. duration \in Nat /\ delay \in Nat /\ Second \in Nat \ {0} /\ clock \in Nat /\ began \in Nat
        /\ attempts \in Nat
    BY SoakAssumption DEF TypeInv
  <1>b. attempts * Second \in Nat
    BY <1>a
  <1>1. CASE Setup
    <2>1. attempts' = 0 /\ "CAP" \notin errors' /\ phase' \in {"SETUP", "LOOP", "CLEANUP"}
      BY <1>1 DEF Setup, StartLoop, counts
    <2>2. clock' \in Nat
      BY <1>1, TypeStep DEF TypeInv
    <2> QED
      BY <1>a, <2>1, <2>2
  <1>2. CASE BeginBatch
    <2>1. attempts' = attempts + 1 /\ began' = clock /\ attempts * Second <= clock
          /\ phase' = "BATCH" /\ errors' = errors
      BY <1>2, <1>a DEF BeginBatch
    <2>2. (attempts + 1) * Second = attempts * Second + Second
      BY <1>a
    <2> QED
      BY <1>a, <1>b, <2>1, <2>2
  <1>3. CASE EndLoop
    <2>1. clock < duration => attempts < Cap
      BY <1>3, <1>a, <1>b, CapBounds DEF EndLoop, TypeInv
    <2> QED
      BY <1>3, <2>1 DEF EndLoop
  <1>4. CASE Batch
    BY <1>4 DEF Batch
  <1>5. CASE Pause
    <2>1. CASE phase' = "LOOP"
      <3>1. clock' >= Wake /\ clock' \in Nat /\ UNCHANGED <<began, attempts, duration, errors>>
        <4>1. PICK t \in 0 .. Lag : clock' = Wake + t
          BY <1>5, <2>1 DEF Pause
        <4> QED
          BY <1>5, <1>a, <2>1, <4>1, WakeBounds, SoakAssumption DEF Pause, request, counts
      <3>2. Wake >= duration \/ Wake >= began + Second
        BY <1>a, WakeBounds
      <3> QED
        BY <1>5, <1>a, <1>b, <2>1, <3>1, <3>2, WakeBounds DEF Pause
    <2>2. CASE phase' # "LOOP"
      BY <1>5, <2>2 DEF Pause
    <2> QED
      BY <2>1, <2>2
  <1>6. CASE Cleanup
    BY <1>6 DEF Cleanup
  <1>7. CASE EndCleanup
    BY <1>7 DEF EndCleanup, CleanupNotRun
  <1>8. CASE Final
    BY <1>8 DEF Final
  <1>9. CASE DropOutput \/ FailTransfer \/ Disturb \/ UNCHANGED vars
    <2>1. UNCHANGED <<phase, attempts, clock, began, duration, errors>>
      BY <1>9 DEF DropOutput, FailTransfer, Disturb, vars, request, time, counts
    <2> QED
      BY <2>1
  <1> QED
    BY <1>1, <1>2, <1>3, <1>4, <1>5, <1>6, <1>7, <1>8, <1>9 DEF Next

\* However long a soak, however slow its commands, it is never ended by the cap.
THEOREM CapNeverBindsAlways == Spec => []CapNeverBinds
  <1>1. Init => TypeInv /\ Paced
    BY TypeInit DEF Init, Paced
  <1>2. TypeInv /\ Paced /\ [Next]_vars => (TypeInv /\ Paced)'
    BY TypeStep, PacedStep
  <1>3. Paced => CapNeverBinds
    BY DEF Paced, CapNeverBinds
  <1> QED
    BY <1>1, <1>2, <1>3, PTL DEF Spec

-----------------------------------------------------------------------------
(* Evidence                                                                *)

HasBases == consoleBase # -1 /\ healthBase # -1

\* A counter that moved since its baseline is above it, also at its limit, because no
\* baseline is taken at the limit.
Moves ==
    /\ consoleBase # -1 => consoleBase < CounterMax /\ consoleBase <= drops
    /\ lost => consoleBase # -1 /\ consoleBase < drops
    /\ healthBase # -1 => healthBase < CounterMax /\ healthBase <= failures
    /\ failed => healthBase # -1 /\ healthBase < failures

\* What a soak without errors has behind it in each phase.
SoFar ==
    /\ ~synchronized => errors # {}
    /\ phase = "SETUP" => attempts = 0 /\ batches = 0
    /\ errors = {} =>
         /\ phase = "SETUP" => (step > 1 => consoleBase # -1) /\ (step > 2 => healthBase # -1)
         /\ phase # "SETUP" => HasBases
         /\ phase = "BATCH" => attempts = batches + 1
         /\ phase \notin {"SETUP", "BATCH"} => attempts = batches
         /\ phase \in {"CLEANUP", "FINAL", "DONE"} => batches > 0 /\ clock >= duration
         /\ phase = "FINAL" /\ step = 2 => ~failed
         /\ phase = "DONE" => ~failed /\ ~lost

\* A counter that is accepted has not moved, and is kept as it was or first taken.
LEMMA MovesStep == TypeInv /\ Moves /\ [Next]_vars => Moves'
  <1> SUFFICES ASSUME TypeInv, Moves, [Next]_vars PROVE Moves'
    OBVIOUS
  <1>a. consoleBase \in Int /\ healthBase \in Int /\ drops \in Int /\ failures \in Int
        /\ drops <= CounterMax /\ failures <= CounterMax /\ CounterMax \in Nat
        /\ drops \in Counters /\ failures \in Counters
    BY SoakAssumption DEF TypeInv, Counters
  <1>b. ASSUME NEW cmd, NEW outcome, Holds(cmd, outcome), Keeps(cmd), UNCHANGED truth
        PROVE  Moves'
    <2>1. CASE cmd = "CONSOLE"
      BY <1>a, <1>b, <2>1 DEF Holds, Accepted, Unmoved, Keeps, Moves, truth
    <2>2. CASE cmd = "HEALTH"
      BY <1>a, <1>b, <2>2 DEF Holds, Accepted, Unmoved, Keeps, Moves, truth
    <2>3. CASE cmd \notin {"CONSOLE", "HEALTH"}
      BY <1>a, <1>b, <2>3 DEF Keeps, Moves, truth
    <2> QED
      BY <2>1, <2>2, <2>3
  <1>c. ASSUME UNCHANGED <<baselines, truth>> PROVE Moves'
    BY <1>c DEF Moves, baselines, truth
  <1>1. CASE Setup
    BY <1>1, <1>b, <1>c DEF Setup
  <1>2. CASE BeginBatch \/ EndLoop \/ Pause \/ Cleanup \/ EndCleanup \/ Disturb \/ UNCHANGED vars
    <2>1. UNCHANGED <<baselines, truth>>
      BY <1>2 DEF BeginBatch, EndLoop, Pause, Cleanup, EndCleanup, Disturb, vars
    <2> QED
      BY <2>1, <1>c
  <1>3. CASE Batch
    BY <1>3, <1>b, <1>c DEF Batch
  <1>4. CASE Final
    BY <1>4, <1>b, <1>c DEF Final
  <1>5. CASE DropOutput
    <2>1. drops' = Counted(drops) /\ (lost' => lost \/ consoleBase # -1)
          /\ UNCHANGED <<consoleBase, healthBase, failures, failed>>
      BY <1>5 DEF DropOutput, baselines
    <2>2. drops' \in Int /\ drops' >= drops /\ (drops < CounterMax => drops' > drops)
      BY <2>1, <1>a, CountedType
    <2> QED
      BY <2>1, <2>2, <1>a DEF Moves
  <1>6. CASE FailTransfer
    <2>1. failures' = Counted(failures) /\ (failed' => failed \/ healthBase # -1)
          /\ UNCHANGED <<consoleBase, healthBase, drops, lost>>
      BY <1>6 DEF FailTransfer, baselines
    <2>2. failures' \in Int /\ failures' >= failures /\ (failures < CounterMax => failures' > failures)
      BY <2>1, <1>a, CountedType
    <2> QED
      BY <2>1, <2>2, <1>a DEF Moves
  <1> QED
    BY <1>1, <1>2, <1>3, <1>4, <1>5, <1>6 DEF Next

\* An accepted counter shows that nothing was lost since the baseline.
LEMMA AcceptedShows ==
    ASSUME TypeInv, Moves
    PROVE  /\ Accepted("CONSOLE") /\ consoleBase # -1 => ~lost
           /\ Accepted("HEALTH") /\ healthBase # -1 => ~failed
  BY SoakAssumption DEF TypeInv, Counters, Moves, Accepted, Unmoved

\* Each phase adds its part, and an exchange that fails leaves an error.
LEMMA SoFarStep == TypeInv /\ Moves /\ SoFar /\ [Next]_vars => SoFar'
  <1> SUFFICES ASSUME TypeInv, Moves, SoFar, [Next]_vars PROVE SoFar'
    OBVIOUS
  <1>a. attempts \in Nat /\ batches \in Nat /\ clock \in Nat /\ duration \in Nat
    BY SoakAssumption DEF TypeInv
  <1>b. ASSUME NEW cmd, NEW outcome, Exchange(cmd, outcome), Holds(cmd, outcome)
        PROVE  synchronized'
    BY <1>b, ExchangeLeaves DEF Holds
  <1>1. CASE Setup
    <2> PICK outcome \in Outcomes :
          /\ Exchange(SetupScript[step], outcome)
          /\ IF Holds(SetupScript[step], outcome)
             THEN /\ Keeps(SetupScript[step])
                  /\ IF step = 4 \/ (SetupScript[step] = "VERBOSE" /\ verbose = "off") THEN StartLoop
                     ELSE step' = step + 1 /\ UNCHANGED <<phase, clock>>
                  /\ UNCHANGED errors
             ELSE Fails("ANOMALY") /\ phase' = "CLEANUP"
      BY <1>1 DEF Setup
    <2>1. phase = "SETUP" /\ UNCHANGED <<attempts, batches, lost, failed>> /\ step \in 1 .. 4
      BY <1>1 DEF Setup, counts, truth, TypeInv
    <2>2. CASE Holds(SetupScript[step], outcome)
      <3>1. synchronized' /\ errors' = errors
        BY <1>b, <2>2
      <3>2. CASE errors = {}
        <4>1. /\ step = 1 => consoleBase' # -1
              /\ step > 1 => consoleBase' = consoleBase
              /\ step = 2 => healthBase' # -1
              /\ step > 2 => healthBase' = healthBase
          BY <2>1, <2>2, SoakAssumption DEF Keeps, SetupScript, TypeInv, Counters
        <4>2. \/ phase' = "LOOP" /\ step > 2
              \/ phase' = "SETUP" /\ step' = step + 1
          BY <2>1, <2>2 DEF SetupScript, StartLoop
        <4> QED
          BY <2>1, <3>1, <3>2, <4>1, <4>2 DEF SoFar, HasBases
      <3>3. CASE errors # {}
        <4>1. phase' \in {"LOOP", "SETUP"}
          BY <2>1, <2>2 DEF StartLoop
        <4> QED
          BY <2>1, <3>1, <3>3, <4>1 DEF SoFar
      <3> QED
        BY <3>2, <3>3
    <2>3. CASE ~Holds(SetupScript[step], outcome)
      <3>1. errors' # {} /\ phase' = "CLEANUP"
        BY <2>3 DEF Fails
      <3> QED
        BY <3>1 DEF SoFar
    <2> QED
      BY <2>2, <2>3
  <1>2. CASE BeginBatch
    BY <1>2, <1>a DEF BeginBatch, SoFar, HasBases, baselines, line
  <1>3. CASE EndLoop
    <2>1. phase = "LOOP" /\ phase' = "CLEANUP" /\ UNCHANGED <<clock, duration, attempts, batches>>
          /\ UNCHANGED <<consoleBase, healthBase, synchronized>>
      BY <1>3 DEF EndLoop, time, request, counts, baselines, line
    <2>2. errors' = {} => errors = {} /\ batches # 0 /\ ~(clock < duration)
      BY <1>3 DEF EndLoop, Fails
    <2>3. errors = {} \/ errors' # {}
      BY <2>2
    <2> QED
      BY <1>a, <2>1, <2>2 DEF SoFar, HasBases
  <1>4. CASE Batch
    <2> PICK outcome \in Outcomes :
          /\ Exchange(BatchScript[step], outcome)
          /\ IF Holds(BatchScript[step], outcome)
             THEN /\ Keeps(BatchScript[step])
                  /\ batches' = batches + IF step = Len(BatchScript) THEN 1 ELSE 0
                  /\ phase' = IF step = Len(BatchScript) THEN "PAUSE" ELSE "BATCH"
                  /\ UNCHANGED errors
             ELSE Fails("ANOMALY") /\ phase' = "CLEANUP"
      BY <1>4 DEF Batch
    <2>1. phase = "BATCH" /\ UNCHANGED <<attempts, lost, failed>>
      BY <1>4 DEF Batch, truth
    <2>2. CASE Holds(BatchScript[step], outcome)
      <3>1. synchronized' /\ errors' = errors
        BY <1>b, <2>2
      <3>2. HasBases => HasBases'
        BY <2>2, SoakAssumption DEF Keeps, HasBases, TypeInv, Counters
      <3>3. attempts = batches + 1 =>
              \/ phase' = "BATCH" /\ attempts' = batches' + 1
              \/ phase' = "PAUSE" /\ attempts' = batches'
        BY <1>a, <2>1, <2>2
      <3>4. phase' \in {"BATCH", "PAUSE"}
        BY <2>2
      <3> QED
        BY <2>1, <3>1, <3>2, <3>3, <3>4 DEF SoFar
    <2>3. CASE ~Holds(BatchScript[step], outcome)
      <3>1. errors' # {} /\ phase' = "CLEANUP"
        BY <2>3 DEF Fails
      <3> QED
        BY <3>1 DEF SoFar
    <2> QED
      BY <2>2, <2>3
  <1>5. CASE Pause
    BY <1>5 DEF Pause, SoFar, HasBases, baselines, counts, line, Fails
  <1>6. CASE Cleanup
    <2> PICK outcome \in Outcomes :
          /\ Exchange(CleanupScript[step], outcome)
          /\ IF Holds(CleanupScript[step], outcome) THEN UNCHANGED errors ELSE Fails("CLEANUP")
      BY <1>6 DEF Cleanup
    <2>1. phase = "CLEANUP" /\ phase' = phase
          /\ UNCHANGED <<consoleBase, healthBase, attempts, batches, clock, duration>>
      BY <1>6 DEF Cleanup, baselines, counts, time, request
    <2>2. \/ errors' # {}
          \/ errors' = errors /\ synchronized'
      BY <1>b DEF Fails
    <2> QED
      BY <2>1, <2>2 DEF SoFar, HasBases
  <1>7. CASE EndCleanup
    <2>1. phase = "CLEANUP" /\ phase' \in {"FINAL", "DONE"} /\ UNCHANGED synchronized
          /\ UNCHANGED <<consoleBase, healthBase, attempts, batches, clock, duration, lost, failed>>
      BY <1>7 DEF EndCleanup, baselines, counts, time, request, line, truth
    <2>2. errors' = errors \/ errors' # {}
      BY <1>7 DEF EndCleanup, CleanupNotRun
    <2>3. errors' = {} => phase' = "FINAL" /\ step' = 1
      <3>1. errors' = {} => errors = {} /\ HasBases /\ synchronized
        BY <2>1, <2>2 DEF SoFar
      <3> QED
        BY <1>7, <3>1 DEF EndCleanup, HasBases
    <2> QED
      BY <2>1, <2>2, <2>3 DEF SoFar, HasBases
  <1>8. CASE Final
    <2> DEFINE cmd == <<"HEALTH", "CONSOLE">>[step]
    <2>1. phase = "FINAL" /\ phase' \in {"FINAL", "DONE"} /\ step \in 1 .. 2
          /\ UNCHANGED <<attempts, batches, clock, duration, lost, failed>>
          /\ (step = 1 => phase' = "FINAL" /\ step' = 2) /\ (step = 2 => phase' = "DONE")
      BY <1>8 DEF Final, counts, time, request, truth, TypeInv
    <2>2. \/ errors' # {}
          \/ errors' = errors /\ synchronized' /\ Accepted(cmd) /\ Keeps(cmd)
      BY <1>8, <1>b DEF Final, Fails, Holds
    <2>3. CASE errors' # {}
      BY <2>1, <2>3 DEF SoFar
    <2>4. CASE errors' = {}
      <3>1. errors = {} /\ synchronized' /\ Accepted(cmd) /\ Keeps(cmd) /\ HasBases
        BY <2>1, <2>2, <2>4 DEF SoFar
      <3>2. HasBases'
        BY <3>1, SoakAssumption DEF Keeps, HasBases, TypeInv, Counters
      <3>3. CASE step = 1
        <4>1. ~failed
          BY <3>1, <3>3, AcceptedShows DEF HasBases
        <4> QED
          BY <2>1, <3>1, <3>2, <3>3, <4>1 DEF SoFar
      <3>4. CASE step = 2
        <4>1. ~lost
          BY <3>1, <3>4, AcceptedShows DEF HasBases
        <4> QED
          BY <2>1, <3>1, <3>2, <3>4, <4>1 DEF SoFar
      <3> QED
        BY <2>1, <3>3, <3>4
    <2> QED
      BY <2>3, <2>4
  <1>9. CASE DropOutput
    BY <1>9 DEF DropOutput, SoFar, HasBases, baselines, counts, time, request, line
  <1>10. CASE FailTransfer
    BY <1>10 DEF FailTransfer, SoFar, HasBases, baselines, counts, time, request, line
  <1>11. CASE Disturb \/ UNCHANGED vars
    <2>1. UNCHANGED <<phase, step, clock, duration, attempts, batches, consoleBase, healthBase,
                      errors, synchronized, lost, failed>>
      BY <1>11 DEF Disturb, vars, baselines, counts, time, request, line, truth
    <2> QED
      BY <2>1 DEF SoFar, HasBases
  <1> QED
    BY <1>1, <1>2, <1>3, <1>4, <1>5, <1>6, <1>7, <1>8, <1>9, <1>10, <1>11 DEF Next

\* A soak without an error completed every batch it began, for the whole duration,
\* and nothing failed or was dropped meanwhile, whatever the width of the counters.
THEOREM SoakPassIsEvidenceAlways == Spec => []SoakPassIsEvidence
  <1>1. Init => TypeInv /\ Moves /\ SoFar
    BY TypeInit DEF Init, Moves, SoFar
  <1>2. TypeInv /\ Moves /\ SoFar /\ [Next]_vars => (TypeInv /\ Moves /\ SoFar)'
    BY TypeStep, MovesStep, SoFarStep
  <1>3. SoFar => SoakPassIsEvidence
    BY DEF SoFar, HasBases, SoakPassIsEvidence, Ended
  <1> QED
    BY <1>1, <1>2, <1>3, PTL DEF Spec

-----------------------------------------------------------------------------
(* Cleanup                                                                 *)

Verbosities == {"on", "off"}
OffSteps == IF attempts > 0 THEN 2 ELSE 0

\* The cleanup is OFF and its readback, if a batch was begun, and then verbosity, if
\* it was on.
LEMMA CleanupSteps ==
    ASSUME attempts \in Nat
    PROVE  /\ Len(CleanupScript) = OffSteps + IF previous = "on" THEN 1 ELSE 0
           /\ attempts > 0 => CleanupScript[1] = "OFF" /\ CleanupScript[2] = "READ"
           /\ previous = "on" => CleanupScript[OffSteps + 1] = "VERBOSE_ON"
  <1> DEFINE front == IF attempts > 0 THEN <<"OFF", "READ">> ELSE <<>>
             back == IF previous = "on" THEN <<"VERBOSE_ON">> ELSE <<>>
             S == {"OFF", "READ", "VERBOSE_ON"}
  <1>1. front \in Seq(S) /\ back \in Seq(S)
    <2>1. <<>> \in Seq(S) /\ <<"OFF", "READ">> \in Seq(S) /\ <<"VERBOSE_ON">> \in Seq(S)
      OBVIOUS
    <2> QED
      BY <2>1
  <1>2. Len(front) = OffSteps /\ (attempts > 0 => front[1] = "OFF" /\ front[2] = "READ")
    BY DEF OffSteps
  <1>3. Len(back) = (IF previous = "on" THEN 1 ELSE 0) /\ (previous = "on" => back[1] = "VERBOSE_ON")
    OBVIOUS
  <1>4. CleanupScript = front \o back
    BY DEF CleanupScript
  <1>5. OffSteps \in Nat /\ (attempts > 0 => OffSteps = 2)
    BY DEF OffSteps
  <1> HIDE DEF front, back, S
  <1>6. /\ Len(front \o back) = Len(front) + Len(back)
        /\ \A i \in 1 .. Len(front) + Len(back) :
             (front \o back)[i] = IF i <= Len(front) THEN front[i] ELSE back[i - Len(front)]
    BY <1>1, ConcatProperties
  <1> QED
    BY <1>2, <1>3, <1>4, <1>5, <1>6

\* How far the mux and verbosity are from where the soak found them.
Owed ==
    /\ entry \in Verbosities /\ verbose \in Verbosities
    /\ phase = "SETUP" => attempts = 0 /\ (step < 4 => previous = "unknown")
                                      /\ (step = 4 => previous = "on")
    /\ previous = "unknown" => verbose = entry
    /\ previous = "on" => entry = "on"
    /\ previous = "off" => entry = "off" /\ verbose = "off"
    /\ previous \in Verbosities \cup {"unknown"}
    /\ phase = "CLEANUP" /\ "CLEANUP" \notin errors =>
         /\ attempts > 0 =>
              /\ step = 2 => off \/ touched
              /\ step > 2 => off \/ touched
         /\ previous = "on" /\ step > OffSteps + 1 => verbose = "on"
    /\ phase \in {"FINAL", "DONE"} /\ "CLEANUP" \notin errors =>
         /\ attempts > 0 => off \/ touched
         /\ verbose = entry

\* Commands that are not about the mux or verbosity leave both.
LEMMA OtherCommands ==
    ASSUME NEW cmd \in {"CONSOLE", "HEALTH", "VERBOSE"}, NEW outcome, Exchange(cmd, outcome)
    PROVE  off' = off /\ verbose' = verbose /\ (touched => touched')
  BY ExchangeLeaves

\* Whatever fails, cleanup is done and verified, or the failure is an error.
LEMMA OwedStep == TypeInv /\ Owed /\ [Next]_vars => Owed'
  <1> SUFFICES ASSUME TypeInv, Owed, [Next]_vars PROVE Owed'
    OBVIOUS
  <1>a. attempts \in Nat /\ step \in Nat \ {0}
    BY DEF TypeInv
  <1>b. ASSUME NEW cmd, NEW outcome, Exchange(cmd, outcome)
        PROVE  /\ cmd = "OFF" /\ outcome = "ANSWERED" => off'
               /\ cmd = "VERBOSE_ON" /\ outcome = "ANSWERED" => verbose' = "on"
               /\ cmd = "VERBOSE_ON" => verbose' \in {"on", verbose}
               /\ cmd = "VERBOSE_OFF" => verbose' \in {"off", verbose}
    <2>1. cmd = "OFF" /\ outcome = "ANSWERED" => off' \in {TRUE} \cup {}
      BY <1>b, Zenon DEF Exchange
    <2>2. cmd = "VERBOSE_ON" => verbose' \in {"on"} \cup IF outcome \in {"ANSWERED", "UNRECORDED"} THEN {} ELSE {verbose}
      BY <1>b, Zenon DEF Exchange
    <2>3. cmd = "VERBOSE_OFF" => verbose' \in {"off"} \cup IF outcome \in {"ANSWERED", "UNRECORDED"} THEN {} ELSE {verbose}
      BY <1>b, Zenon DEF Exchange
    <2> QED
      BY <2>1, <2>2, <2>3
  <1>1. CASE Setup
    <2> PICK outcome \in Outcomes :
          /\ Exchange(SetupScript[step], outcome)
          /\ IF Holds(SetupScript[step], outcome)
             THEN /\ previous' = IF SetupScript[step] = "VERBOSE" THEN verbose ELSE previous
                  /\ IF step = 4 \/ (SetupScript[step] = "VERBOSE" /\ verbose = "off") THEN StartLoop
                     ELSE step' = step + 1 /\ UNCHANGED <<phase, clock>>
             ELSE phase' = "CLEANUP" /\ step' = 1 /\ UNCHANGED previous
      BY <1>1 DEF Setup
    <2>1. phase = "SETUP" /\ attempts = 0 /\ attempts' = 0 /\ entry' = entry /\ step \in 1 .. 4
      BY <1>1 DEF Setup, counts, TypeInv, Owed
    <2>2. CASE step \in 1 .. 3
      <3>1. verbose' = verbose /\ verbose = entry /\ previous = "unknown"
        BY <2>1, <2>2, OtherCommands DEF SetupScript, Owed
      <3>2. \/ step = 3 /\ previous' = verbose /\ phase' = "SETUP" /\ step' = 4 /\ verbose # "off"
            \/ step = 3 /\ previous' = verbose /\ phase' = "LOOP" /\ verbose = "off"
            \/ step < 3 /\ previous' = previous /\ phase' = "SETUP" /\ step' = step + 1
            \/ previous' = previous /\ phase' = "CLEANUP" /\ step' = 1
        BY <2>1, <2>2 DEF SetupScript, StartLoop
      <3> QED
        BY <2>1, <3>1, <3>2 DEF Owed, Verbosities
    <2>3. CASE step = 4
      <3>1. previous = "on" /\ previous' = "on" /\ phase' \in {"LOOP", "CLEANUP"}
            /\ (phase' = "CLEANUP" => step' = 1)
        BY <2>1, <2>3 DEF SetupScript, StartLoop, Owed
      <3>2. verbose' \in Verbosities
        BY <1>b, <2>3 DEF SetupScript, Owed, Verbosities
      <3> QED
        BY <2>1, <3>1, <3>2 DEF Owed, Verbosities, OffSteps
    <2> QED
      BY <2>1, <2>2, <2>3
  <1>2. CASE BeginBatch \/ EndLoop \/ Pause
    <2>1. UNCHANGED <<verbose, previous, entry>>
      BY <1>2 DEF BeginBatch, EndLoop, Pause
    <2>2. phase' \in {"BATCH", "LOOP"} \/ (phase' = "CLEANUP" /\ step' = 1)
      <3>1. CASE BeginBatch \/ EndLoop
        BY <3>1 DEF BeginBatch, EndLoop
      <3>2. CASE Pause
        <4>1. phase = "PAUSE" => step = 1
          BY DEF TypeInv
        <4> QED
          BY <3>2, <4>1 DEF Pause
      <3> QED
        BY <1>2, <3>1, <3>2
    <2> QED
      BY <2>1, <2>2 DEF Owed, Verbosities, OffSteps
  <1>4. CASE Batch
    <2> PICK outcome \in Outcomes : Exchange(BatchScript[step], outcome)
      BY <1>4 DEF Batch
    <2>1. verbose' = verbose /\ UNCHANGED <<previous, entry>>
      <3>1. BatchScript[step] \notin {"VERBOSE_OFF", "VERBOSE_ON"}
        BY <1>4 DEF BatchScript, TypeInv, Batch
      <3> QED
        BY <1>4, <3>1, ExchangeLeaves DEF Batch
    <2>2. phase' \in {"BATCH", "PAUSE"} \/ (phase' = "CLEANUP" /\ step' = 1)
      BY <1>4 DEF Batch
    <2> QED
      BY <2>1, <2>2 DEF Owed, Verbosities, OffSteps
  <1>6. CASE Cleanup
    <2> DEFINE cmd == CleanupScript[step]
    <2> PICK outcome \in Outcomes :
          /\ Exchange(cmd, outcome)
          /\ IF Holds(cmd, outcome) THEN UNCHANGED errors ELSE Fails("CLEANUP")
      BY <1>6 DEF Cleanup
    <2>1. phase = "CLEANUP" /\ phase' = phase /\ step' = step + 1 /\ step <= Len(CleanupScript)
          /\ UNCHANGED <<attempts, previous, entry>>
      BY <1>6 DEF Cleanup, counts
    <2>2. OffSteps \in Nat /\ OffSteps' = OffSteps
      BY <2>1 DEF OffSteps
    <2>3. \/ step <= OffSteps /\ step = 1 /\ cmd = "OFF" /\ OffSteps = 2
          \/ step <= OffSteps /\ step = 2 /\ cmd = "READ" /\ OffSteps = 2
          \/ step = OffSteps + 1 /\ cmd = "VERBOSE_ON" /\ previous = "on"
      BY <1>a, <2>1, CleanupSteps DEF OffSteps
    <2>4. verbose' \in Verbosities /\ (previous # "on" => verbose' = verbose)
      BY <1>b, <2>3, ExchangeLeaves DEF Owed, Verbosities
    <2>5. CASE "CLEANUP" \in errors'
      BY <2>1, <2>4, <2>5 DEF Owed, Verbosities
    <2>6. CASE "CLEANUP" \notin errors'
      <3>1. Holds(cmd, outcome) /\ outcome = "ANSWERED" /\ "CLEANUP" \notin errors
        BY <2>6 DEF Holds, Fails
      <3>2. CASE cmd = "OFF"
        BY <1>a, <1>b, <2>1, <2>2, <2>3, <2>4, <3>1, <3>2 DEF Owed, Verbosities
      <3>3. CASE cmd = "READ"
        <4>1. off /\ off' = off
          BY <3>1, <3>3, ExchangeLeaves DEF Holds, Accepted
        <4> QED
          BY <1>a, <2>1, <2>2, <2>3, <2>4, <3>3, <4>1 DEF Owed, Verbosities
      <3>4. CASE cmd = "VERBOSE_ON"
        <4>1. off' = off /\ (touched => touched') /\ verbose' = "on"
          BY <1>b, <3>1, <3>4, ExchangeLeaves
        <4>2. attempts > 0 => step > 2 /\ step' > 2
          BY <1>a, <2>1, <2>3, <3>4 DEF OffSteps
        <4> QED
          BY <1>a, <2>1, <2>2, <2>3, <2>4, <3>1, <4>1, <4>2 DEF Owed, Verbosities
      <3> QED
        BY <2>3, <3>2, <3>3, <3>4
    <2> QED
      BY <2>5, <2>6
  <1>7. CASE EndCleanup
    <2>1. phase = "CLEANUP" /\ phase' \in {"FINAL", "DONE"}
          /\ UNCHANGED <<attempts, previous, entry, verbose, off, touched>>
      BY <1>7 DEF EndCleanup, counts, mux
    <2>2. "CLEANUP" \notin errors' => "CLEANUP" \notin errors /\ step > Len(CleanupScript)
      BY <1>7 DEF EndCleanup, CleanupNotRun
    <2>3. OffSteps \in Nat /\ (attempts > 0 => OffSteps = 2)
      BY DEF OffSteps
    <2>4. "CLEANUP" \notin errors' =>
            /\ attempts > 0 => step > 2
            /\ previous = "on" => step > OffSteps + 1
      BY <1>a, <2>2, <2>3, CleanupSteps
    <2> QED
      BY <2>1, <2>2, <2>4 DEF Owed, Verbosities
  <1>8. CASE Final
    <2>1. off' = off /\ verbose' = verbose /\ (touched => touched')
      <3>1. <<"HEALTH", "CONSOLE">>[step] \in {"CONSOLE", "HEALTH", "VERBOSE"}
        BY <1>8 DEF Final, TypeInv
      <3> QED
        BY <1>8, <3>1, OtherCommands DEF Final, mux
    <2>2. phase = "FINAL" /\ phase' \in {"FINAL", "DONE"} /\ UNCHANGED <<attempts, previous, entry>>
          /\ ("CLEANUP" \notin errors' => "CLEANUP" \notin errors)
      BY <1>8 DEF Final, counts, Fails
    <2> QED
      BY <2>1, <2>2 DEF Owed, Verbosities
  <1>9. CASE DropOutput \/ FailTransfer \/ UNCHANGED vars
    <2>1. UNCHANGED <<phase, step, attempts, previous, errors, verbose, off, touched, entry>>
      BY <1>9 DEF DropOutput, FailTransfer, vars, counts, mux
    <2> QED
      BY <2>1 DEF Owed, Verbosities, OffSteps
  <1>10. CASE Disturb
    <2>1. UNCHANGED <<phase, step, attempts, previous, errors, verbose, entry>> /\ touched'
      BY <1>10 DEF Disturb, counts
    <2> QED
      BY <2>1 DEF Owed, Verbosities, OffSteps
  <1> QED
    BY <1>1, <1>2, <1>4, <1>6, <1>7, <1>8, <1>9, <1>10 DEF Next

\* The mux is left off and verbosity as it was found, or the summary says that
\* cleanup failed, whichever of its commands could not be sent.
THEOREM CleanupIsOwedAlways == Spec => []CleanupIsOwed
  <1>1. Init => TypeInv /\ Owed
    BY TypeInit DEF Init, Owed, Verbosities
  <1>2. TypeInv /\ Owed /\ [Next]_vars => (TypeInv /\ Owed)'
    BY TypeStep, OwedStep
  <1>3. Owed => CleanupIsOwed
    BY DEF Owed, CleanupIsOwed, Ended
  <1> QED
    BY <1>1, <1>2, <1>3, PTL DEF Spec
=============================================================================
