---------------------------- MODULE HilRun_proofs ----------------------------
(***************************************************************************)
(* Proofs about the runner.  First HilRun, for a plan of any length: what    *)
(* the results, the exit code, the files of others and the sealed manifest   *)
(* say can be relied on; each invariant is shown inductive with the help of  *)
(* those before it.  Then HilVerdict, the judgement of one reply, for any    *)
(* range of addresses and any number of rounds: its verdicts are true.       *)
(***************************************************************************)
EXTENDS HilRun, HilVerdict, FiniteSetTheorems, SequenceTheorems, TLAPS

-----------------------------------------------------------------------------
(* Types                                                                   *)

\* Filling in, degrading and failing the list of results keep it a list of results.
LEMMA ResultOperatorsType ==
    ASSUME NEW r \in [Plan -> Statuses \cup {"PENDING"}]
    PROVE  /\ NotRunFrom(r) \in [Plan -> Statuses]
           /\ Degraded(r) \in [Plan -> Statuses \cup {"PENDING"}]
           /\ FailSession(r) \in [Plan -> Statuses]
  <1>1. NotRunFrom(r) \in [Plan -> Statuses]
    BY DEF NotRunFrom, Statuses
  <1>2. ASSUME NEW q \in [Plan -> Statuses \cup {"PENDING"}]
        PROVE  Degraded(q) \in [Plan -> Statuses \cup {"PENDING"}]
    BY DEF Degraded, Statuses
  <1>3. ASSUME NEW q \in [Plan -> Statuses]
        PROVE  Degraded(q) \in [Plan -> Statuses]
    BY DEF Degraded, Statuses
  <1> QED
    BY <1>1, <1>2, <1>3 DEF FailSession

\* The exit code and the overall status of any list are ones of the report.
LEMMA StatusTypes ==
    ASSUME NEW r, NEW failed
    PROVE  /\ ResultExitCode(r) \in 0 .. 1
           /\ OverallStatus(r, failed) \in Statuses
  BY DEF ResultExitCode, OverallStatus, Statuses

\* The types hold before the preflight.
LEMMA TypeInit == Init => TypeOK
  <1> SUFFICES ASSUME Init PROVE TypeOK
    OBVIOUS
  <1>1. options \in [dry : BOOLEAN, allow : BOOLEAN, outputs : SUBSET Files]
    BY Zenon DEF Init, Files
  <1>2. next \in Plan
    BY PlanAssumption DEF Init, Plan
  <1>3. results \in [Plan -> Statuses \cup {"PENDING"}]
    BY DEF Init
  <1>4. file \in [Files -> Contents] /\ said \in [Files -> Statuses \cup {"NOTHING"}]
        /\ seal \in [Files -> Contents \cup {"UNSEALED"}]
    BY DEF Init, Contents
  <1>5. phase \in Phases /\ exit \in 0 .. 2
    BY DEF Init, Phases
  <1> QED
    BY <1>1, <1>2, <1>3, <1>4, <1>5 DEF Init, TypeOK

\* Every step of main() and of other processes keeps the types.
LEMMA TypeStep == TypeOK /\ [Next]_vars => TypeOK'
  <1> SUFFICES ASSUME TypeOK, [Next]_vars PROVE TypeOK'
    OBVIOUS
  <1>e. results \in [Plan -> Statuses \cup {"PENDING"}]
    BY DEF TypeOK
  <1>f. [Plan -> Statuses] \subseteq [Plan -> Statuses \cup {"PENDING"}]
    OBVIOUS
  <1>a. \/ results' = results \/ results' = NotRunFrom(results)
        \/ results' = Degraded(results) \/ results' = FailSession(results)
        => results' \in [Plan -> Statuses \cup {"PENDING"}]
    BY <1>e, <1>f, ResultOperatorsType, Zenon
  <1>b. ASSUME NEW status \in Statuses,
               \/ results' = [results EXCEPT ![next] = status]
               \/ results' = NotRunFrom([results EXCEPT ![next] = status])
        PROVE  results' \in [Plan -> Statuses \cup {"PENDING"}]
    <2>1. [results EXCEPT ![next] = status] \in [Plan -> Statuses \cup {"PENDING"}]
      BY <1>e
    <2>2. NotRunFrom([results EXCEPT ![next] = status]) \in [Plan -> Statuses]
      BY <2>1, ResultOperatorsType, Zenon
    <2> QED
      BY <1>b, <1>f, <2>1, <2>2, Zenon
  <1>c. ResultExitCode(results) \in 0 .. 2 /\ OverallStatus(results, errors) \in Statuses
    BY StatusTypes
  <1> USE DEF TypeOK, Phases, Contents, session, evidence
  <1>1. CASE Preflight
    BY <1>1 DEF Preflight, Refuse
  <1>2. ASSUME NEW f \in Files, Reserve(f) PROVE TypeOK'
    BY <1>2 DEF Reserve, Refuse
  <1>3. CASE Reserved
    <2>1. results' \in [Plan -> Statuses \cup {"PENDING"}]
      BY <1>3, <1>a, Zenon DEF Reserved
    <2> QED
      BY <1>3, <2>1 DEF Reserved
  <1>4. CASE Others
    BY <1>4 DEF Others
  <1>5. CASE StartTranscript
    <2>1. results' \in [Plan -> Statuses \cup {"PENDING"}]
      BY <1>5, <1>a, Zenon DEF StartTranscript
    <2> QED
      BY <1>5, <2>1 DEF StartTranscript, TranscriptFails
  <1>6. CASE OpenPort
    <2>1. results' \in [Plan -> Statuses \cup {"PENDING"}]
      BY <1>6, <1>a, Zenon DEF OpenPort, Interrupted
    <2>2. phase' \in Phases /\ port' \in BOOLEAN /\ mishap' \in BOOLEAN
      BY <1>6 DEF OpenPort, Interrupted
    <2> QED
      BY <1>6, <2>1, <2>2 DEF OpenPort
  <1>7. CASE Synchronize
    <2>1. results' \in [Plan -> Statuses \cup {"PENDING"}]
      BY <1>7, <1>a, Zenon DEF Synchronize, Interrupted
    <2>2. phase' \in Phases /\ mishap' \in BOOLEAN /\ errors' \in BOOLEAN
      BY <1>7 DEF Synchronize, Interrupted, TranscriptFails
    <2>3. file' \in [Files -> Contents]
      BY <1>7 DEF Synchronize, TranscriptFails
    <2> QED
      BY <1>7, <2>1, <2>2, <2>3 DEF Synchronize
  <1>8. CASE RunStep
    <2>1. file' \in [Files -> Contents] /\ errors' \in BOOLEAN /\ mishap' \in BOOLEAN
      BY <1>8 DEF RunStep, TranscriptFails, Interrupted
    <2>2. results' \in [Plan -> Statuses \cup {"PENDING"}]
      <3>1. CASE results' = FailSession(results)
        BY <3>1, <1>a, Zenon
      <3>2. ASSUME NEW status \in Statuses, EndsWith(status)
            PROVE  results' \in [Plan -> Statuses \cup {"PENDING"}]
        <4>1. \/ results' = [results EXCEPT ![next] = status]
              \/ results' = NotRunFrom([results EXCEPT ![next] = status])
          BY <3>2, Zenon DEF EndsWith
        <4> QED
          BY <4>1, <1>b, Zenon
      <3> QED
        BY <1>8, <3>1, <3>2 DEF RunStep, Interrupted, Statuses
    <2>3. phase' \in Phases
      BY <1>8 DEF RunStep, EndsWith
    <2>4. attempted' \in SUBSET Plan /\ passed' \in SUBSET Plan
      BY <1>8 DEF RunStep
    <2> QED
      BY <1>8, <2>1, <2>2, <2>3, <2>4 DEF RunStep
  <1>9. CASE Pause
    <2>1. next' \in Plan
      BY <1>9, PlanAssumption DEF Pause, Plan
    <2>2. phase' \in Phases /\ mishap' \in BOOLEAN
      BY <1>9 DEF Pause, Interrupted
    <2>3. results' \in [Plan -> Statuses \cup {"PENDING"}]
      BY <1>9, <1>a, Zenon DEF Pause, Interrupted
    <2> QED
      BY <1>9, <2>1, <2>2, <2>3 DEF Pause
  <1>10. CASE ClosePort
    <2>1. results' \in [Plan -> Statuses \cup {"PENDING"}]
      BY <1>10, <1>a, Zenon DEF ClosePort, Interrupted
    <2>2. phase' \in Phases /\ port' \in BOOLEAN /\ mishap' \in BOOLEAN
      BY <1>10 DEF ClosePort, Interrupted
    <2> QED
      BY <1>10, <2>1, <2>2 DEF ClosePort
  <1>11. CASE CloseTranscript
    <2>1. results' \in [Plan -> Statuses \cup {"PENDING"}]
      BY <1>11, <1>a, Zenon DEF CloseTranscript
    <2>2. file' \in [Files -> Contents]
      BY <1>11 DEF CloseTranscript
    <2>3. phase' \in Phases /\ open' \in SUBSET Files
          /\ errors' \in BOOLEAN /\ mishap' \in BOOLEAN
      BY <1>11 DEF CloseTranscript
    <2> QED
      BY <1>11, <2>1, <2>2, <2>3 DEF CloseTranscript
  <1>12. CASE Summary
    BY <1>12, <1>c DEF Summary
  <1>13. CASE WriteReport
    <2>1. file' \in [Files -> Contents] /\ open' \in SUBSET Files
      BY <1>13 DEF WriteReport, WriteArtifact
    <2>2. said' \in [Files -> Statuses \cup {"NOTHING"}]
      BY <1>13, <1>c DEF WriteReport, WriteArtifact
    <2>3. errors' \in BOOLEAN /\ mishap' \in BOOLEAN
      BY <1>13, Zenon DEF WriteReport
    <2>4. phase' \in Phases /\ exit' \in 0 .. 2
      BY <1>13 DEF WriteReport
    <2> QED
      BY <1>13, <2>1, <2>2, <2>3, <2>4 DEF WriteReport
  <1>14. CASE WriteResults
    <2>1. file' \in [Files -> Contents] /\ open' \in SUBSET Files
      BY <1>14 DEF WriteResults, WriteArtifact, Unseal, Unlinked
    <2>2. said' \in [Files -> Statuses \cup {"NOTHING"}]
      BY <1>14, <1>c DEF WriteResults, WriteArtifact
    <2>3. errors' \in BOOLEAN /\ mishap' \in BOOLEAN
      BY <1>14 DEF WriteResults, Unseal
    <2>4. phase' \in Phases
      BY <1>14 DEF WriteResults, Unseal
    <2>5. stranded' \in BOOLEAN
      BY <1>14 DEF WriteResults, Unseal
    <2>6. exit' = exit \/ exit' = 1
      BY <1>14, Zenon DEF WriteResults, Unseal
    <2> QED
      BY <1>14, <2>1, <2>2, <2>3, <2>4, <2>5, <2>6 DEF WriteResults
  <1>15. CASE WriteManifest
    <2>1. file' \in [Files -> Contents] /\ open' \in SUBSET Files
      BY <1>15 DEF WriteManifest, WriteArtifact, Unseal, Unlinked
    <2>2. said' \in [Files -> Statuses \cup {"NOTHING"}]
      <3>1. said' = [said EXCEPT !["manifest"] = OverallStatus(results, errors)]
        BY <1>15 DEF WriteManifest, WriteArtifact
      <3> QED
        BY <3>1, <1>c
    <2>3. errors' \in BOOLEAN /\ mishap' \in BOOLEAN
      BY <1>15 DEF WriteManifest, Unseal
    <2>4. phase' \in Phases
      BY <1>15 DEF WriteManifest, Unseal
    <2>6. exit' = exit \/ exit' = 1
      BY <1>15, Zenon DEF WriteManifest, Unseal
    <2>5. seal' \in [Files -> Contents \cup {"UNSEALED"}]
      BY <1>15 DEF WriteManifest, WriteArtifact
    <2>7. stranded' \in BOOLEAN
      BY <1>15 DEF WriteManifest, Unseal
    <2> QED
      BY <1>15, <2>1, <2>2, <2>3, <2>4, <2>6, <2>5, <2>7 DEF WriteManifest
  <1>16. CASE UNCHANGED vars
    BY <1>16 DEF vars
  <1> QED
    BY <1>1, <1>2, <1>3, <1>4, <1>5, <1>6, <1>7, <1>8, <1>9, <1>10, <1>11, <1>12,
       <1>13, <1>14, <1>15, <1>16 DEF Next

\* Every variable keeps its type, for a plan of any length.
THEOREM TypeCorrect == Spec => []TypeOK
  BY TypeInit, TypeStep, PTL DEF Spec

-----------------------------------------------------------------------------
(* The files of others                                                     *)

Mine(f) == file[f] \notin {"ABSENT", "FOREIGN"}

LinePhases == {"TRANSCRIPT", "OPEN", "SYNC", "STEP", "PAUSE", "CLOSE_PORT", "CLOSE_TRANSCRIPT"}
EvidencePhases == {"SUMMARY", "REPORT", "RESULTS", "MANIFEST"}

\* What is open was created by this run, and from the end of the reservation on
\* everything it writes to is.
FilesInv ==
    /\ phase = "PREFLIGHT" => open = {}
    /\ phase = "RESERVE" => open \subseteq Paths /\ \A f \in open : Mine(f)
    /\ phase \in LinePhases \cup EvidencePhases => \A f \in Paths : Mine(f)
    /\ phase \in LinePhases => ~options.dry /\ open \subseteq Paths
    /\ phase \in {"SUMMARY", "REPORT"} => open \subseteq Paths \ {"transcript"}
    /\ phase = "RESULTS" => HasDir /\ open \subseteq {"results", "manifest"}
    /\ phase = "MANIFEST" => HasDir /\ open \subseteq {"manifest"}

\* The command line, and with it the set of outputs, is fixed for the run.
LEMMA OptionsFixed ==
    ASSUME [Next]_vars
    PROVE  options' = options /\ Paths' = Paths /\ HasDir' = HasDir /\ Transcribed' = Transcribed
  <1>1. options' = options
    BY DEF Next, vars, Preflight, Refuse, Reserve, Reserved, Others, StartTranscript, OpenPort,
           Synchronize, RunStep, Pause, ClosePort, CloseTranscript, Summary, WriteReport,
           WriteResults, WriteManifest
  <1> QED
    BY <1>1 DEF Paths, HasDir, Transcribed

\* The outputs of a run are files, and an artifact directory adds its three.
LEMMA PathsAreFiles ==
    ASSUME TypeOK
    PROVE  /\ Paths \subseteq Files
           /\ HasDir => {"report", "results", "manifest"} \subseteq Paths
           /\ ~HasDir => Paths \subseteq Requested
  BY DEF TypeOK, Paths, HasDir, Files, Requested

\* Nothing is open before the reservation.
LEMMA FilesInit == Init => FilesInv
  BY DEF Init, FilesInv, LinePhases, EvidencePhases

\* No step opens a file the run did not create, and none of those it writes
\* to is lost to others.
LEMMA FilesStep == TypeOK /\ FilesInv /\ [Next]_vars => FilesInv'
  <1> SUFFICES ASSUME TypeOK, FilesInv, [Next]_vars PROVE FilesInv'
    OBVIOUS
  <1>a. options' = options /\ Paths' = Paths /\ HasDir' = HasDir /\ Transcribed' = Transcribed
    BY OptionsFixed
  <1>b. Paths \subseteq Files /\ open \subseteq Files /\ file \in [Files -> Contents]
    BY PathsAreFiles DEF TypeOK
  <1> USE <1>a, <1>b DEF FilesInv, LinePhases, EvidencePhases, Mine, session, evidence
  <1>1. CASE Preflight
    BY <1>1 DEF Preflight, Refuse
  <1>2. ASSUME NEW f \in Files, Reserve(f) PROVE FilesInv'
    BY <1>2 DEF Reserve, Refuse
  <1>3. CASE Reserved
    BY <1>3 DEF Reserved, Paths
  <1>4. CASE Others
    BY <1>4 DEF Others
  <1>5. CASE StartTranscript
    BY <1>5 DEF StartTranscript, TranscriptFails
  <1>6. CASE OpenPort
    BY <1>6 DEF OpenPort
  <1>7. CASE Synchronize
    BY <1>7 DEF Synchronize, TranscriptFails
  <1>8. CASE RunStep
    BY <1>8 DEF RunStep, EndsWith, TranscriptFails
  <1>9. CASE Pause
    BY <1>9 DEF Pause
  <1>10. CASE ClosePort
    BY <1>10 DEF ClosePort
  <1>11. CASE CloseTranscript
    BY <1>11 DEF CloseTranscript
  <1>12. CASE Summary
    BY <1>12 DEF Summary
  <1>13. CASE WriteReport
    <2>1. HasDir => "report" \in Paths
      BY PathsAreFiles
    <2>2. phase' = "RESULTS" => HasDir /\ open' \subseteq {"results", "manifest"}
      BY <1>13, <2>1 DEF WriteReport, WriteArtifact, Files
    <2>3. \A f \in Paths : Mine(f)'
      BY <1>13 DEF WriteReport, WriteArtifact
    <2> QED
      BY <1>13, <2>2, <2>3 DEF WriteReport
  <1>14. CASE WriteResults
    BY <1>14 DEF WriteResults, WriteArtifact, Unseal
  <1>15. CASE WriteManifest
    BY <1>15 DEF WriteManifest, WriteArtifact, Unseal
  <1>16. CASE UNCHANGED vars
    BY <1>16 DEF vars
  <1> QED
    BY <1>1, <1>2, <1>3, <1>4, <1>5, <1>6, <1>7, <1>8, <1>9, <1>10, <1>11, <1>12,
       <1>13, <1>14, <1>15, <1>16 DEF Next

\* From the end of the reservation on, every output belongs to the run.
THEOREM FilesCorrect == Spec => [](TypeOK /\ FilesInv)
  BY TypeInit, TypeStep, FilesInit, FilesStep, PTL DEF Spec

\* No step touches a file of somebody else, and the serial line is opened only
\* once every output of the run exists and is its own.
THEOREM OthersAreSafeAlways == Spec => OthersAreSafe
  <1> DEFINE Step ==
        /\ \A f \in Files : file[f] = "FOREIGN" => file'[f] = "FOREIGN"
        /\ ~port /\ port' => \A f \in Paths : file[f] \notin {"ABSENT", "FOREIGN"}
  <1>1. TypeOK /\ FilesInv /\ [Next]_vars => [Step]_vars
    <2> SUFFICES ASSUME TypeOK, FilesInv, Next PROVE Step
      OBVIOUS
    <2>a. Paths \subseteq Files /\ file \in [Files -> Contents]
          /\ (HasDir => {"report", "results", "manifest"} \subseteq Paths)
      BY PathsAreFiles DEF TypeOK
    <2>b. HasDir => \A f \in {"report", "results", "manifest"} : file[f] # "FOREIGN" \/ phase \notin EvidencePhases
      BY <2>a DEF FilesInv, Mine
    <2> USE <2>a, <2>b DEF FilesInv, LinePhases, EvidencePhases, Mine, session, evidence
    <2>1. CASE Preflight
      BY <2>1 DEF Preflight, Refuse
    <2>2. ASSUME NEW f \in Files, Reserve(f) PROVE Step
      BY <2>2 DEF Reserve, Refuse, Creatable
    <2>3. CASE Reserved
      BY <2>3 DEF Reserved
    <2>4. CASE Others
      BY <2>4 DEF Others
    <2>5. CASE StartTranscript
      BY <2>5 DEF StartTranscript, TranscriptFails
    <2>6. CASE OpenPort
      BY <2>6 DEF OpenPort
    <2>7. CASE Synchronize
      BY <2>7 DEF Synchronize, TranscriptFails
    <2>8. CASE RunStep
      BY <2>8 DEF RunStep, TranscriptFails
    <2>9. CASE Pause
      BY <2>9 DEF Pause
    <2>10. CASE ClosePort
      BY <2>10 DEF ClosePort
    <2>11. CASE CloseTranscript
      BY <2>11 DEF CloseTranscript, Transcribed
    <2>12. CASE Summary
      BY <2>12 DEF Summary
    <2>13. CASE WriteReport
      BY <2>13 DEF WriteReport, WriteArtifact
    <2>14. CASE WriteResults
      BY <2>14 DEF WriteResults, WriteArtifact, Unseal
    <2>15. CASE WriteManifest
      BY <2>15 DEF WriteManifest, WriteArtifact, Unseal
    <2> QED
      BY <2>1, <2>2, <2>3, <2>4, <2>5, <2>6, <2>7, <2>8, <2>9, <2>10, <2>11, <2>12,
         <2>13, <2>14, <2>15 DEF Next
  <1> QED
    BY <1>1, FilesCorrect, PTL DEF Spec, OthersAreSafe

-----------------------------------------------------------------------------
(* The results                                                             *)

HonestFor(r, ran, began, hurt) ==
    /\ ~Some(r, "PENDING")
    /\ \A k \in Plan :
        /\ r[k] = "PASS" => k \in ran
        /\ r[k] # "PASS" => \A j \in Plan : j > k => r[j] = "NOT_RUN"
        /\ r[k] = "NOT_RUN" /\ k \in began => hurt /\ Some(r, "UNKNOWN")

\* Before its steps a run has no results; then every step behind the current
\* one passed; once the session is over the results are honest.
Waiting == {"PREFLIGHT", "RESERVE", "TRANSCRIPT", "OPEN", "SYNC"}
Closing == {"CLOSE_PORT", "CLOSE_TRANSCRIPT"}

PassedBefore(n) ==
    \A k \in Plan : IF k < n THEN results[k] = "PASS" /\ k \in passed
                    ELSE results[k] = "PENDING" /\ k \notin attempted

ResultsInv ==
    /\ phase \in Waiting => next = 1 /\ PassedBefore(1)
    /\ phase = "STEP" => PassedBefore(next)
    /\ phase = "PAUSE" => PassedBefore(next + 1)
    /\ phase \in Closing \cup EvidencePhases => HonestFor(results, passed, attempted, mishap)
    /\ phase \in Closing => \E k \in Plan : LastExecuted(results, k)

\* Degrading the last executed result keeps the list honest.
LEMMA DegradedHonest ==
    ASSUME NEW r \in [Plan -> Statuses \cup {"PENDING"}], NEW ran, NEW began, NEW hurt,
           HonestFor(r, ran, began, hurt)
    PROVE  /\ HonestFor(Degraded(r), ran, began, TRUE)
           /\ \A k \in Plan : LastExecuted(r, k) => LastExecuted(Degraded(r), k)
           /\ (\E k \in Plan : LastExecuted(r, k)) =>
                Some(Degraded(r), "FAIL") \/ Some(Degraded(r), "UNKNOWN")
  <1>1. CASE Some(r, "FAIL")
    BY <1>1 DEF Degraded, HonestFor
  <1>2. CASE ~Some(r, "FAIL")
    <2>1. Degraded(r) = [k \in Plan |-> IF LastExecuted(r, k) THEN "UNKNOWN" ELSE r[k]]
      BY <1>2 DEF Degraded
    <2>2. \A k \in Plan : Degraded(r)[k] = "UNKNOWN" \/ (Degraded(r)[k] = r[k] /\ ~LastExecuted(r, k))
      BY <2>1
    <2>3. \A k \in Plan : r[k] = "UNKNOWN" => Degraded(r)[k] = "UNKNOWN"
      BY <2>1
    <2>4. \A k \in Plan : LastExecuted(r, k) => Degraded(r)[k] = "UNKNOWN"
      BY <2>1
    <2>5. ASSUME NEW k \in Plan, NEW j \in Plan, j > k, r[k] # "PASS" \/ LastExecuted(r, k)
          PROVE  Degraded(r)[j] = "NOT_RUN"
      <3>1. r[j] = "NOT_RUN"
        BY <2>5 DEF HonestFor, LastExecuted
      <3>2. ~LastExecuted(r, j)
        BY <2>5, <3>1 DEF LastExecuted, Plan
      <3> QED
        BY <2>1, <3>1, <3>2
    <2>6. HonestFor(Degraded(r), ran, began, TRUE)
      <3>1. ~Some(Degraded(r), "PENDING")
        BY <2>2 DEF HonestFor, Some
      <3>2. Some(r, "UNKNOWN") => Some(Degraded(r), "UNKNOWN")
        BY <2>3 DEF Some
      <3>3. ASSUME NEW k \in Plan
            PROVE  /\ Degraded(r)[k] = "PASS" => k \in ran
                   /\ Degraded(r)[k] # "PASS" => \A j \in Plan : j > k => Degraded(r)[j] = "NOT_RUN"
                   /\ Degraded(r)[k] = "NOT_RUN" /\ k \in began => Some(Degraded(r), "UNKNOWN")
        <4>1. Degraded(r)[k] # "PASS" => r[k] # "PASS" \/ LastExecuted(r, k)
          BY <2>1
        <4> QED
          BY <2>2, <2>5, <3>2, <4>1 DEF HonestFor
      <3> QED
        BY <3>1, <3>3 DEF HonestFor
    <2>7. ASSUME NEW k \in Plan, LastExecuted(r, k)
          PROVE  LastExecuted(Degraded(r), k)
      BY <2>4, <2>5, <2>7 DEF LastExecuted
    <2> QED
      BY <2>4, <2>6, <2>7 DEF Some
  <1> QED
    BY <1>1, <1>2

\* The interrupt of a session whose steps before n passed: what becomes of its list.
LEMMA InterruptIsSeen ==
    ASSUME NEW r \in [Plan -> Statuses \cup {"PENDING"}], NEW n \in 1 .. N + 1,
           \A k \in Plan : r[k] = IF k < n THEN "PASS" ELSE "PENDING"
    PROVE  LET w == IF n = 1 THEN 1 ELSE n - 1 IN
           /\ w \in Plan
           /\ \A k \in Plan : FailSession(r)[k] =
                IF k = w THEN "UNKNOWN" ELSE IF k < n THEN "PASS" ELSE "NOT_RUN"
           /\ Some(FailSession(r), "UNKNOWN")
  <1> DEFINE q == NotRunFrom(r)
             w == IF n = 1 THEN 1 ELSE n - 1
  <1>1. \A k \in Plan : q[k] = IF k < n THEN "PASS" ELSE "NOT_RUN"
    BY DEF NotRunFrom
  <1>2. w \in Plan /\ LastExecuted(q, w)
    BY <1>1, PlanAssumption DEF Plan, LastExecuted
  <1>3. FailSession(r) = [k \in Plan |-> IF LastExecuted(q, k) THEN "UNKNOWN" ELSE q[k]]
    BY <1>1 DEF FailSession, Degraded, Some
  <1> HIDE DEF q
  <1>4. \A k \in Plan : LastExecuted(q, k) => k = w
    BY <1>1, <1>2, PlanAssumption DEF LastExecuted, Plan
  <1>5. \A k \in Plan : FailSession(r)[k] = IF k = w THEN "UNKNOWN" ELSE IF k < n THEN "PASS" ELSE "NOT_RUN"
    BY <1>1, <1>2, <1>3, <1>4
  <1>6. Some(FailSession(r), "UNKNOWN")
    BY <1>2, <1>5 DEF Some
  <1> QED
    BY <1>2, <1>5, <1>6

\* That list is honest, step n being begun or not.
LEMMA FailSessionHonest ==
    ASSUME NEW r \in [Plan -> Statuses \cup {"PENDING"}], NEW ran, NEW began,
           NEW n \in 1 .. N + 1,
           \A k \in Plan : IF k < n THEN r[k] = "PASS" /\ k \in ran
                           ELSE r[k] = "PENDING" /\ (k \in began => k = n)
    PROVE  /\ HonestFor(FailSession(r), ran, began, TRUE)
           /\ \E k \in Plan : LastExecuted(FailSession(r), k)
  <1> DEFINE w == IF n = 1 THEN 1 ELSE n - 1
  <1>1. \A k \in Plan : r[k] = IF k < n THEN "PASS" ELSE "PENDING"
    OBVIOUS
  <1>2. /\ w \in Plan
        /\ \A k \in Plan : FailSession(r)[k] = IF k = w THEN "UNKNOWN" ELSE IF k < n THEN "PASS" ELSE "NOT_RUN"
        /\ Some(FailSession(r), "UNKNOWN")
    BY <1>1, InterruptIsSeen
  <1>3. LastExecuted(FailSession(r), w)
    BY <1>2, PlanAssumption DEF LastExecuted, Plan
  <1>4. HonestFor(FailSession(r), ran, began, TRUE)
    BY <1>2, PlanAssumption DEF HonestFor, Some, Plan
  <1> QED
    BY <1>2, <1>3, <1>4

\* The list behind a step that ended: the steps after it were not run.
LEMMA NotRunFromHonest ==
    ASSUME NEW r \in [Plan -> Statuses \cup {"PENDING"}], NEW ran, NEW began, NEW hurt,
           NEW n \in Plan, r[n] \in Statuses \ {"NOT_RUN"}, r[n] = "PASS" => n \in ran,
           \A k \in Plan : k < n => r[k] = "PASS" /\ k \in ran,
           \A k \in Plan : k > n => r[k] = "PENDING" /\ k \notin began
    PROVE  HonestFor(NotRunFrom(r), ran, began, hurt) /\ LastExecuted(NotRunFrom(r), n)
  <1>1. \A k \in Plan : NotRunFrom(r)[k] = IF k > n THEN "NOT_RUN" ELSE r[k]
    BY DEF NotRunFrom, Statuses, Plan
  <1>2. LastExecuted(NotRunFrom(r), n)
    BY <1>1 DEF LastExecuted, Statuses, Plan
  <1>3. HonestFor(NotRunFrom(r), ran, began, hurt)
    BY <1>1 DEF HonestFor, Some, Statuses, Plan
  <1> QED
    BY <1>2, <1>3

\* A complete list is not changed by append_not_run_results().
LEMMA NothingPending ==
    ASSUME NEW r \in [Plan -> Statuses \cup {"PENDING"}], ~Some(r, "PENDING")
    PROVE  NotRunFrom(r) = r
  BY DEF NotRunFrom, Some

\* No step has a result before the first one.
LEMMA ResultsInit == Init => ResultsInv
  <1> SUFFICES ASSUME Init PROVE ResultsInv
    OBVIOUS
  <1>1. PassedBefore(1)
    BY DEF Init, PassedBefore, Plan
  <1> QED
    BY <1>1 DEF Init, ResultsInv, Waiting, Closing, EvidencePhases

\* Every step, failure and interrupt keeps the results before the current step
\* passed and those behind it unclaimed.
LEMMA ResultsStep == TypeOK /\ ResultsInv /\ [Next]_vars => ResultsInv'
  <1> SUFFICES ASSUME TypeOK, ResultsInv, [Next]_vars PROVE ResultsInv'
    OBVIOUS
  <1>a. results \in [Plan -> Statuses \cup {"PENDING"}] /\ next \in Plan
    BY DEF TypeOK
  \* Nothing of the results changes, and they are honest.
  <1>b. ASSUME UNCHANGED <<results, attempted, passed>>, mishap => mishap',
               HonestFor(results, passed, attempted, mishap)
        PROVE  HonestFor(results', passed', attempted', mishap')
    BY <1>b DEF HonestFor
  \* An interrupt, whenever it comes while results are honest.
  <1>c. ASSUME HonestFor(results, passed, attempted, mishap), \E k \in Plan : LastExecuted(results, k),
               results' \in {Degraded(results), FailSession(results)}, mishap' = TRUE,
               UNCHANGED <<attempted, passed>>
        PROVE  HonestFor(results', passed', attempted', mishap') /\ \E k \in Plan : LastExecuted(results', k)
    <2>1. NotRunFrom(results) = results
      BY <1>a, <1>c, NothingPending DEF HonestFor
    <2>2. results' = Degraded(results)
      BY <1>c, <2>1 DEF FailSession
    <2>3. /\ HonestFor(Degraded(results), passed, attempted, TRUE)
          /\ \A k \in Plan : LastExecuted(results, k) => LastExecuted(Degraded(results), k)
      BY <1>a, <1>c, DegradedHonest
    <2> QED
      BY <1>c, <2>2, <2>3
  \* An interrupt in step n, before its result is there, or behind the step before it.
  <1>d. ASSUME NEW n \in 1 .. N + 1, PassedBefore(n), results' = FailSession(results), mishap' = TRUE,
               passed' \in {passed, passed \cup {n}}, attempted' \in {attempted, attempted \cup {n}}
        PROVE  HonestFor(results', passed', attempted', mishap') /\ \E k \in Plan : LastExecuted(results', k)
    <2>1. \A k \in Plan : IF k < n THEN results[k] = "PASS" /\ k \in passed'
                          ELSE results[k] = "PENDING" /\ (k \in attempted' => k = n)
      BY <1>d DEF PassedBefore
    <2> QED
      BY <1>a, <1>d, <2>1, FailSessionHonest
  <1> USE <1>a DEF ResultsInv, Waiting, Closing, EvidencePhases, session, evidence
  <1>1. CASE Preflight
    BY <1>1 DEF Preflight, Refuse, PassedBefore
  <1>2. ASSUME NEW f \in Files, Reserve(f) PROVE ResultsInv'
    BY <1>2 DEF Reserve, Refuse, PassedBefore
  <1>3. CASE Reserved
    <2>1. HonestFor(NotRunFrom(results), passed, attempted, mishap)
      BY <1>3 DEF Reserved, PassedBefore, NotRunFrom, HonestFor, Some, Plan
    <2> QED
      BY <1>3, <2>1 DEF Reserved, PassedBefore
  <1>4. CASE Others
    BY <1>4, <1>b DEF Others, PassedBefore
  <1>5. CASE StartTranscript
    <2>1. HonestFor(NotRunFrom(results), passed, attempted, mishap')
      BY <1>5 DEF StartTranscript, PassedBefore, NotRunFrom, HonestFor, Some, Plan
    <2> QED
      BY <1>5, <2>1 DEF StartTranscript, PassedBefore
  <1>e. ASSUME PassedBefore(1), phase' \in Closing, Interrupted, UNCHANGED <<attempted, passed>>
        PROVE  ResultsInv'
    <2>1. 1 \in 1 .. N + 1
      BY PlanAssumption
    <2>2. results' = FailSession(results) /\ mishap' = TRUE
      BY <1>e DEF Interrupted
    <2>3. HonestFor(results', passed', attempted', mishap') /\ \E k \in Plan : LastExecuted(results', k)
      BY <1>d, <1>e, <2>1, <2>2
    <2> QED
      BY <1>e, <2>3
  <1>6. CASE OpenPort
    <2>1. CASE phase' = "SYNC" /\ UNCHANGED results
      BY <1>6, <2>1 DEF OpenPort, PassedBefore
    <2>2. CASE phase' = "CLOSE_TRANSCRIPT" /\ Interrupted
      BY <1>6, <2>2, <1>e DEF OpenPort
    <2> QED
      BY <1>6, <2>1, <2>2 DEF OpenPort
  <1>7. CASE Synchronize
    <2>1. CASE phase' = "STEP" /\ UNCHANGED results
      BY <1>7, <2>1 DEF Synchronize, PassedBefore
    <2>2. CASE phase' = "CLOSE_PORT" /\ Interrupted
      BY <1>7, <2>2, <1>e DEF Synchronize
    <2> QED
      BY <1>7, <2>1, <2>2 DEF Synchronize
  <1>8. CASE RunStep
    <2>1. PassedBefore(next)
      BY <1>8 DEF RunStep
    <2>2. CASE /\ EndsWith("PASS") /\ attempted' = attempted \cup {next} /\ passed' = passed \cup {next}
      <3>1. phase' = "PAUSE" /\ results' = [results EXCEPT ![next] = "PASS"] /\ next' = next
        BY <1>8, <2>2 DEF EndsWith, RunStep
      <3>2. PassedBefore(next + 1)'
        BY <2>1, <2>2, <3>1 DEF PassedBefore, Plan
      <3> QED
        BY <3>1, <3>2
    <2>3. ASSUME NEW status \in {"FAIL", "UNKNOWN"}, EndsWith(status),
                 attempted' = attempted \cup {next}, passed' \in {passed, passed \cup {next}}
          PROVE  ResultsInv'
      <3> DEFINE r == [results EXCEPT ![next] = status]
      <3>1. phase' = "CLOSE_PORT" /\ results' = NotRunFrom(r)
        BY <2>3 DEF EndsWith
      <3>2. r \in [Plan -> Statuses \cup {"PENDING"}] /\ r[next] = status
        BY DEF Statuses
      <3>3. /\ \A k \in Plan : k < next => r[k] = "PASS" /\ k \in passed'
            /\ \A k \in Plan : k > next => r[k] = "PENDING" /\ k \notin attempted'
        BY <2>1, <2>3 DEF PassedBefore, Plan
      <3>4. status \in Statuses \ {"NOT_RUN"} /\ status # "PASS"
        BY DEF Statuses
      <3> HIDE DEF r
      <3>5. HonestFor(NotRunFrom(r), passed', attempted', mishap') /\ LastExecuted(NotRunFrom(r), next)
        BY <3>2, <3>3, <3>4, NotRunFromHonest
      <3> QED
        BY <3>1, <3>5
    <2>4. CASE /\ phase' = "CLOSE_PORT" /\ Interrupted
               /\ attempted' = attempted \cup {next} /\ passed' \in {passed, passed \cup {next}}
      <3>1. next \in 1 .. N + 1 /\ results' = FailSession(results) /\ mishap' = TRUE
        BY <2>4, PlanAssumption DEF Interrupted, Plan
      <3>2. HonestFor(results', passed', attempted', mishap') /\ \E k \in Plan : LastExecuted(results', k)
        BY <2>1, <2>4, <3>1, <1>d
      <3> QED
        BY <2>4, <3>2
    <2> QED
      BY <1>8, <2>2, <2>3, <2>4, Zenon DEF RunStep
  <1>9. CASE Pause
    <2>1. PassedBefore(next + 1) /\ next + 1 \in 1 .. N + 1
      BY <1>9, PlanAssumption DEF Pause, Plan
    <2>2. CASE phase' = "CLOSE_PORT" /\ Interrupted /\ UNCHANGED <<next, attempted, passed>>
      BY <2>1, <2>2, <1>d DEF Interrupted
    <2>3. CASE next = N /\ phase' = "CLOSE_PORT" /\ UNCHANGED session /\ UNCHANGED mishap
      <3>1. \A k \in Plan : results[k] = "PASS" /\ k \in passed
        BY <2>1, <2>3, PlanAssumption DEF PassedBefore, Plan
      <3>2. HonestFor(results, passed, attempted, mishap) /\ LastExecuted(results, N)
        BY <3>1, PlanAssumption DEF HonestFor, Some, LastExecuted, Plan
      <3> QED
        BY <2>3, <3>2
    <2>4. CASE next # N /\ phase' = "STEP" /\ next' = next + 1 /\ UNCHANGED <<results, attempted, passed>>
      BY <2>1, <2>4 DEF PassedBefore
    <2> QED
      BY <1>9, <2>2, <2>3, <2>4 DEF Pause
  <1>10. CASE ClosePort
    <2>1. HonestFor(results, passed, attempted, mishap) /\ \E k \in Plan : LastExecuted(results, k)
      BY <1>10 DEF ClosePort
    <2> QED
      BY <1>10, <2>1, <1>b, <1>c DEF ClosePort, Interrupted
  <1>11. CASE CloseTranscript
    <2>1. HonestFor(results, passed, attempted, mishap) /\ \E k \in Plan : LastExecuted(results, k)
      BY <1>11 DEF CloseTranscript
    <2>2. HonestFor(results', passed', attempted', mishap')
      BY <1>11, <2>1, <1>b, <1>c DEF CloseTranscript
    <2> QED
      BY <1>11, <2>2 DEF CloseTranscript
  <1>12. CASE Summary
    <2>1. HonestFor(results', passed', attempted', mishap')
      BY <1>12, <1>b DEF Summary
    <2> QED
      BY <1>12, <2>1 DEF Summary
  <1>13. CASE WriteReport
    <2>1. mishap => mishap'
      BY <1>13, Zenon DEF WriteReport
    <2>2. HonestFor(results', passed', attempted', mishap')
      BY <1>13, <1>b, <2>1 DEF WriteReport
    <2> QED
      BY <1>13, <2>2 DEF WriteReport
  <1>14. CASE WriteResults
    <2>1. HonestFor(results', passed', attempted', mishap')
      BY <1>14, <1>b DEF WriteResults, Unseal
    <2> QED
      BY <1>14, <2>1 DEF WriteResults, Unseal
  <1>15. CASE WriteManifest
    BY <1>15 DEF WriteManifest, Unseal
  <1>16. CASE UNCHANGED vars
    BY <1>16, <1>b DEF vars, PassedBefore
  <1> QED
    BY <1>1, <1>2, <1>3, <1>4, <1>5, <1>6, <1>7, <1>8, <1>9, <1>10, <1>11, <1>12,
       <1>13, <1>14, <1>15, <1>16 DEF Next

\* For a plan of any length: from the summary on every step has a result, PASS
\* only where the step passed, and nothing was run behind one that did not.
THEOREM ResultsAreHonestAlways == Spec => []ResultsAreHonest
  <1>1. ResultsInv => ResultsAreHonest
    BY DEF ResultsInv, EvidencePhases, HonestFor, ResultsAreHonest
  <1> QED
    BY <1>1, TypeInit, TypeStep, ResultsInit, ResultsStep, PTL DEF Spec

-----------------------------------------------------------------------------
(* The transcript                                                          *)

\* The transcript is whole once it is closed, or an artifact error is recorded;
\* nothing has gone wrong as long as the session goes on.
TranscriptInv ==
    /\ phase \in Waiting \cup {"STEP", "PAUSE"} => ~mishap /\ ~errors
    /\ phase = "RESERVE" => \A f \in open : file[f] = "EMPTY"
    /\ phase \in LinePhases /\ Transcribed =>
         \/ file["transcript"] = "EMPTY"
         \/ phase \in Closing /\ file["transcript"] = "DAMAGED" /\ errors
    /\ phase \in EvidencePhases /\ Transcribed =>
         file["transcript"] = "WHOLE" \/ (file["transcript"] = "DAMAGED" /\ errors)

\* The transcript is empty and nothing went wrong before the session.
LEMMA TranscriptInit == Init => TranscriptInv
  BY DEF Init, TranscriptInv, LinePhases, EvidencePhases

\* Every step keeps the transcript open until it is complete or known to be
\* damaged.
LEMMA TranscriptStep == TypeOK /\ FilesInv /\ TranscriptInv /\ [Next]_vars => TranscriptInv'
  <1> SUFFICES ASSUME TypeOK, FilesInv, TranscriptInv, [Next]_vars PROVE TranscriptInv'
    OBVIOUS
  <1>a. Transcribed' = Transcribed
    BY OptionsFixed
  <1>b. file \in [Files -> Contents] /\ errors \in BOOLEAN /\ "transcript" \in Files /\ (options.dry => ~Transcribed)
    BY DEF TypeOK, Transcribed, Paths, Files
  <1> USE <1>a, <1>b DEF TranscriptInv, Waiting, Closing, LinePhases, EvidencePhases, session, evidence
  <1>1. CASE Preflight
    BY <1>1 DEF Preflight, Refuse, FilesInv
  <1>2. ASSUME NEW f \in Files, Reserve(f) PROVE TranscriptInv'
    <2>1. Paths \subseteq Files /\ open \subseteq Paths
      BY <1>2, PathsAreFiles DEF Reserve, FilesInv
    <2> QED
      BY <1>2, <2>1 DEF Reserve, Refuse
  <1>3. CASE Reserved
    BY <1>3 DEF Reserved, Transcribed
  <1>4. CASE Others
    BY <1>4, PathsAreFiles DEF Others, FilesInv
  <1>5. CASE StartTranscript
    BY <1>5 DEF StartTranscript, TranscriptFails
  <1>6. CASE OpenPort
    BY <1>6 DEF OpenPort, Interrupted
  <1>7. CASE Synchronize
    BY <1>7 DEF Synchronize, TranscriptFails, Interrupted
  <1>8. CASE RunStep
    BY <1>8 DEF RunStep, EndsWith, TranscriptFails, Interrupted
  <1>9. CASE Pause
    BY <1>9 DEF Pause, Interrupted
  <1>10. CASE ClosePort
    BY <1>10 DEF ClosePort
  <1>11. CASE CloseTranscript
    BY <1>11 DEF CloseTranscript
  <1>12. CASE Summary
    BY <1>12 DEF Summary
  <1>13. CASE WriteReport
    <2>1. file'["transcript"] = file["transcript"] /\ (errors => errors')
      BY <1>13 DEF WriteReport, WriteArtifact
    <2> QED
      BY <1>13, <2>1 DEF WriteReport
  <1>14. CASE WriteResults
    BY <1>14 DEF WriteResults, WriteArtifact, Unseal
  <1>15. CASE WriteManifest
    BY <1>15 DEF WriteManifest, Unseal
  <1>16. CASE UNCHANGED vars
    BY <1>16 DEF vars
  <1> QED
    BY <1>1, <1>2, <1>3, <1>4, <1>5, <1>6, <1>7, <1>8, <1>9, <1>10, <1>11, <1>12,
       <1>13, <1>14, <1>15, <1>16 DEF Next

-----------------------------------------------------------------------------
(* The verdict                                                             *)

Troubled(r) == Some(r, "FAIL") \/ Some(r, "UNKNOWN")

\* In a live run neither a mishap nor a step that was not run goes without a
\* result, or an artifact error, that the exit code cannot overlook.
VerdictInv ==
    phase \in Closing \cup EvidencePhases /\ ~options.dry /\ (mishap \/ Some(results, "NOT_RUN")) =>
      errors \/ Troubled(results)

\* Nothing went wrong before the session.
LEMMA VerdictInit == Init => VerdictInv
  BY DEF Init, VerdictInv, Closing, EvidencePhases

\* Every failure and interrupt of the session leaves a FAIL or UNKNOWN in the
\* results or an artifact error.
LEMMA VerdictStep ==
    TypeOK /\ FilesInv /\ ResultsInv /\ TranscriptInv /\ VerdictInv /\ [Next]_vars => VerdictInv'
  <1> SUFFICES ASSUME TypeOK, FilesInv, ResultsInv, TranscriptInv, VerdictInv, [Next]_vars PROVE VerdictInv'
    OBVIOUS
  <1>a. results \in [Plan -> Statuses \cup {"PENDING"}] /\ next \in Plan /\ errors \in BOOLEAN
        /\ options' = options
    BY OptionsFixed DEF TypeOK
  \* An interrupt of a session that had begun no step, or some.
  <1>b. ASSUME NEW n \in 1 .. N + 1, PassedBefore(n) PROVE Troubled(FailSession(results))
    <2>1. \A k \in Plan : results[k] = IF k < n THEN "PASS" ELSE "PENDING"
      BY <1>b DEF PassedBefore
    <2>2. Some(FailSession(results), "UNKNOWN")
      BY <1>a, <1>b, <2>1, InterruptIsSeen
    <2> QED
      BY <2>2 DEF Troubled
  \* An interrupt while the session is being closed.
  <1>c. ASSUME phase \in Closing
        PROVE  Troubled(Degraded(results)) /\ Troubled(FailSession(results))
    <2>1. HonestFor(results, passed, attempted, mishap) /\ \E k \in Plan : LastExecuted(results, k)
      BY <1>c DEF ResultsInv
    <2>2. NotRunFrom(results) = results
      BY <1>a, <2>1, NothingPending DEF HonestFor
    <2>3. Troubled(Degraded(results))
      BY <1>a, <2>1, DegradedHonest DEF Troubled
    <2> QED
      BY <2>2, <2>3 DEF FailSession
  <1> USE <1>a DEF VerdictInv, Closing, EvidencePhases, session, evidence
  <1>1. CASE Preflight
    BY <1>1 DEF Preflight, Refuse
  <1>2. ASSUME NEW f \in Files, Reserve(f) PROVE VerdictInv'
    BY <1>2 DEF Reserve, Refuse
  <1>3. CASE Reserved
    BY <1>3 DEF Reserved
  <1>4. CASE Others
    BY <1>4 DEF Others
  <1>5. CASE StartTranscript
    BY <1>5 DEF StartTranscript, TranscriptFails
  <1>e. ASSUME PassedBefore(1), Interrupted PROVE Troubled(results')
    BY <1>b, <1>e, PlanAssumption DEF Interrupted
  <1>6. CASE OpenPort
    <2>1. PassedBefore(1)
      BY <1>6 DEF OpenPort, ResultsInv, Waiting
    <2> QED
      BY <1>6, <2>1, <1>e DEF OpenPort
  <1>7. CASE Synchronize
    <2>1. PassedBefore(1)
      BY <1>7 DEF Synchronize, ResultsInv, Waiting
    <2> QED
      BY <1>7, <2>1, <1>e DEF Synchronize
  <1>8. CASE RunStep
    <2>1. PassedBefore(next) /\ next \in 1 .. N + 1
      BY <1>8, PlanAssumption DEF RunStep, ResultsInv, Plan
    <2>2. CASE EndsWith("PASS")
      BY <2>2 DEF EndsWith
    <2>3. ASSUME NEW status \in {"FAIL", "UNKNOWN"}, EndsWith(status) PROVE VerdictInv'
      <3>1. results' = NotRunFrom([results EXCEPT ![next] = status])
        BY <2>3 DEF EndsWith
      <3>2. results'[next] = status
        BY <3>1 DEF NotRunFrom
      <3> QED
        BY <3>2 DEF Troubled, Some
    <2>4. CASE Interrupted
      BY <2>1, <2>4, <1>b DEF Interrupted
    <2> QED
      BY <1>8, <2>2, <2>3, <2>4, Zenon DEF RunStep
  <1>9. CASE Pause
    <2>1. PassedBefore(next + 1) /\ next + 1 \in 1 .. N + 1
      BY <1>9, PlanAssumption DEF Pause, ResultsInv, Plan
    <2>2. CASE Interrupted
      BY <2>1, <2>2, <1>b DEF Interrupted
    <2>3. CASE phase' = "STEP"
      BY <2>3
    <2>4. CASE next = N /\ UNCHANGED <<results, mishap>>
      <3>1. \A k \in Plan : results[k] = "PASS"
        BY <2>1, <2>4, PlanAssumption DEF PassedBefore, Plan
      <3>2. ~mishap
        BY <1>9 DEF Pause, TranscriptInv
      <3> QED
        BY <2>4, <3>1, <3>2 DEF Some
    <2> QED
      BY <1>9, <2>2, <2>3, <2>4 DEF Pause
  <1>10. CASE ClosePort
    BY <1>10, <1>c DEF ClosePort, Interrupted
  <1>11. CASE CloseTranscript
    BY <1>11, <1>c DEF CloseTranscript
  <1>12. CASE Summary
    BY <1>12 DEF Summary
  <1>13. CASE WriteReport
    <2>1. results' = results /\ (errors => errors') /\ (mishap' => mishap \/ errors')
      BY <1>13 DEF WriteReport, WriteArtifact
    <2> QED
      BY <1>13, <2>1 DEF WriteReport
  <1>14. CASE WriteResults
    BY <1>14 DEF WriteResults, Unseal
  <1>15. CASE WriteManifest
    BY <1>15 DEF WriteManifest, Unseal
  <1>16. CASE UNCHANGED vars
    BY <1>16 DEF vars
  <1> QED
    BY <1>1, <1>2, <1>3, <1>4, <1>5, <1>6, <1>7, <1>8, <1>9, <1>10, <1>11, <1>12,
       <1>13, <1>14, <1>15, <1>16 DEF Next

-----------------------------------------------------------------------------
(* The exit code and the documents                                         *)

Reported == OverallStatus(results, errors)

\* What the report, the results and the exit code say once they are written, and
\* at the end the two properties themselves.
WritingInv ==
    /\ HasDir \/ options.outputs \subseteq {"report", "transcript"}
    /\ phase = "REPORT" => exit = ResultExitCode(results)
    /\ phase \in {"RESULTS", "MANIFEST"} =>
         /\ exit = IF errors THEN 1 ELSE ResultExitCode(results)
         /\ \/ file["report"] = "WHOLE" /\ said["report"] = Reported
            \/ file["report"] = "DAMAGED" /\ errors
    /\ phase = "MANIFEST" => file["results"] = "WHOLE" /\ said["results"] = Reported
    /\ stranded => phase = "DONE"
    /\ phase = "DONE" => ExitZeroIsEarned /\ SealIsTrue

\* No document says anything before the session.
LEMMA WritingInit == Init => WritingInv
  <1> SUFFICES ASSUME Init PROVE WritingInv
    OBVIOUS
  <1>1. HasDir \/ options.outputs \subseteq {"report", "transcript"}
    BY Zenon DEF Init, HasDir
  <1> QED
    BY <1>1 DEF Init, WritingInv

\* A live run whose exit code is 0 without an artifact error passed every step.
LEMMA AllPassed ==
    ASSUME TypeOK, ResultsInv, VerdictInv, phase \in EvidencePhases, ~options.dry,
           ~errors, ResultExitCode(results) = 0
    PROVE  passed = Plan /\ ~mishap
  <1>1. HonestFor(results, passed, attempted, mishap)
    BY DEF ResultsInv, EvidencePhases
  <1>2. ~Troubled(results)
    BY DEF ResultExitCode, Troubled
  <1>3. ~mishap /\ ~Some(results, "NOT_RUN")
    BY <1>2 DEF VerdictInv
  <1>4. \A k \in Plan : results[k] = "PASS"
    BY <1>1, <1>2, <1>3 DEF TypeOK, Statuses, Some, Troubled, HonestFor
  <1> QED
    BY <1>1, <1>3, <1>4 DEF HonestFor, TypeOK

\* PASS is what a complete run with exit code 0 says.
LEMMA PassMeansZero ==
    ASSUME NEW r, NEW failed \in BOOLEAN, OverallStatus(r, failed) = "PASS"
    PROVE  ~failed /\ ResultExitCode(r) = 0
  BY DEF OverallStatus, ResultExitCode

\* A manifest is stranded by the last step of all.
LEMMA StrandedLast ==
    ASSUME stranded => phase = "DONE", [Next]_vars
    PROVE  /\ stranded' => phase' = "DONE"
           /\ phase # "DONE" => ~stranded
  <1>1. CASE Preflight \/ (\E f \in Files : Reserve(f)) \/ Reserved \/ Others
    BY <1>1 DEF Preflight, Refuse, Reserve, Reserved, Others
  <1>2. CASE StartTranscript \/ OpenPort \/ Synchronize \/ RunStep \/ Pause \/ ClosePort \/ CloseTranscript
    BY <1>2 DEF StartTranscript, OpenPort, Synchronize, RunStep, Pause, ClosePort, CloseTranscript
  <1>3. CASE Summary \/ WriteReport
    BY <1>3 DEF Summary, WriteReport
  <1>4. CASE WriteResults
    <2>1. phase = "RESULTS" /\ (stranded' = stranded \/ phase' = "DONE")
      BY <1>4, Zenon DEF WriteResults, Unseal
    <2> QED
      BY <2>1
  <1>5. CASE WriteManifest
    <2>1. phase = "MANIFEST" /\ (stranded' = stranded \/ phase' = "DONE")
      BY <1>5, Zenon DEF WriteManifest, Unseal
    <2> QED
      BY <2>1
  <1>6. CASE UNCHANGED vars
    BY <1>6 DEF vars
  <1> QED
    BY <1>1, <1>2, <1>3, <1>4, <1>5, <1>6, Zenon DEF Next

\* Every step of the summary, the report, results.json and the manifest keeps
\* them in agreement with the results and the exit code.
LEMMA WritingStep ==
    TypeOK /\ FilesInv /\ ResultsInv /\ TranscriptInv /\ VerdictInv /\ WritingInv /\ [Next]_vars => WritingInv'
  <1> SUFFICES ASSUME TypeOK, FilesInv, ResultsInv, TranscriptInv, VerdictInv, WritingInv, [Next]_vars
               PROVE  WritingInv'
    OBVIOUS
  <1>a. options' = options /\ Paths' = Paths /\ HasDir' = HasDir /\ Transcribed' = Transcribed
    BY OptionsFixed
  <1>b. HasDir \/ options.outputs \subseteq {"report", "transcript"}
    BY DEF WritingInv
  <1>c. /\ file \in [Files -> Contents] /\ said \in [Files -> Statuses \cup {"NOTHING"}]
        /\ errors \in BOOLEAN /\ Paths \subseteq Files
        /\ (HasDir => {"report", "results", "manifest"} \subseteq Paths)
        /\ {"report", "transcript", "results", "manifest"} \subseteq Files
    BY PathsAreFiles DEF TypeOK, Files
  <1>g. ASSUME results' = results PROVE ResultExitCode(results)' = ResultExitCode(results)
    BY <1>a, <1>g DEF ResultExitCode, Some
  <1>h. ASSUME results' = results, errors' = errors PROVE Reported' = Reported
    BY <1>h DEF Reported, OverallStatus, Some
  <1>s. (stranded' => phase' = "DONE") /\ (phase # "DONE" => ~stranded)
    BY StrandedLast DEF WritingInv
  \* A refused run has no results and exit code 1.
  <1>d. ASSUME phase \in Waiting, Refuse PROVE WritingInv'
    <2>1. 1 \in Plan /\ results'[1] = "PENDING"
      BY <1>d, PlanAssumption DEF ResultsInv, PassedBefore, Plan, Refuse, session
    <2> QED
      BY <1>a, <1>b, <1>d, <1>s, <2>1 DEF Refuse, WritingInv, ExitZeroIsEarned, SealIsTrue, Ended
  \* Steps of the session do not come near the report.
  <1>e. ASSUME phase' \notin {"REPORT", "RESULTS", "MANIFEST", "DONE"} PROVE WritingInv'
    BY <1>a, <1>b, <1>e, <1>s DEF WritingInv
  <1>1. CASE Preflight
    BY <1>1, <1>d, <1>e DEF Preflight, Waiting
  <1>2. ASSUME NEW f \in Files, Reserve(f) PROVE WritingInv'
    BY <1>2, <1>d, <1>e DEF Reserve, Waiting
  <1>3. CASE Reserved
    BY <1>3, <1>e DEF Reserved
  <1>4. CASE Others
    <2>1. \A f \in Files : file[f] # "ABSENT" => file'[f] = file[f]
      BY <1>4, <1>c DEF Others
    <2> QED
      BY <1>4, <1>a, <1>b, <1>c, <1>g, <1>h, <2>1 DEF Others, WritingInv, session
  <1>5. CASE StartTranscript
    BY <1>5, <1>e DEF StartTranscript
  <1>6. CASE OpenPort
    BY <1>6, <1>e DEF OpenPort
  <1>7. CASE Synchronize
    BY <1>7, <1>e DEF Synchronize
  <1>8. CASE RunStep
    BY <1>8, <1>e DEF RunStep, EndsWith
  <1>9. CASE Pause
    BY <1>9, <1>e DEF Pause
  <1>10. CASE ClosePort
    BY <1>10, <1>e DEF ClosePort
  <1>11. CASE CloseTranscript
    BY <1>11, <1>e DEF CloseTranscript
  <1>12. CASE Summary
    <2>1. phase' = "REPORT" /\ exit' = ResultExitCode(results) /\ results' = results
      BY <1>12 DEF Summary, session
    <2> QED
      BY <1>a, <1>b, <1>g, <1>s, <2>1 DEF WritingInv
  <1>13. CASE WriteReport
    <2>1. exit = ResultExitCode(results) /\ results' = results /\ passed' = passed
      BY <1>13 DEF WriteReport, WritingInv, session
    <2>2. /\ \/ "report" \notin Paths /\ UNCHANGED <<file, said, errors, mishap>>
             \/ /\ "report" \in Paths /\ UNCHANGED <<errors, mishap>>
                /\ file' = [file EXCEPT !["report"] = "WHOLE"]
                /\ said' = [said EXCEPT !["report"] = Reported]
             \/ /\ "report" \in Paths /\ errors'
                /\ file' = [file EXCEPT !["report"] = "DAMAGED"]
          /\ exit' = IF errors' THEN 1 ELSE exit
      <3>1. CASE "report" \notin Paths /\ UNCHANGED <<file, said, open, errors, mishap>>
        BY <1>13, <3>1 DEF WriteReport
      <3>2. ASSUME "report" \in Paths, NEW ok \in BOOLEAN, WriteArtifact("report", ok),
                   errors' = (errors \/ ~ok), mishap' = (mishap \/ ~ok)
            PROVE  \/ /\ UNCHANGED <<errors, mishap>>
                      /\ file' = [file EXCEPT !["report"] = "WHOLE"]
                      /\ said' = [said EXCEPT !["report"] = Reported]
                   \/ /\ errors' /\ file' = [file EXCEPT !["report"] = "DAMAGED"]
        <4>1. CASE ok
          BY <1>c, <3>2, <4>1 DEF WriteArtifact, Reported, TypeOK
        <4>2. CASE ~ok
          BY <3>2, <4>2 DEF WriteArtifact
        <4> QED
          BY <4>1, <4>2
      <3>3. exit' = IF errors' THEN 1 ELSE exit
        BY <1>13 DEF WriteReport
      <3> QED
        BY <1>13, <3>1, <3>2, <3>3, Zenon DEF WriteReport
    <2>3. CASE HasDir
      <3>1. phase' = "RESULTS" /\ "report" \in Paths
        BY <1>13, <1>c, <2>3 DEF WriteReport
      <3> QED
        <4>1. exit' = IF errors' THEN 1 ELSE ResultExitCode(results)'
          BY <1>g, <2>1, <2>2
        <4>2. \/ file'["report"] = "WHOLE" /\ said'["report"] = Reported'
              \/ file'["report"] = "DAMAGED" /\ errors'
          BY <1>c, <1>h, <2>1, <2>2, <3>1
        <4> QED
          BY <1>a, <1>b, <1>s, <3>1, <4>1, <4>2 DEF WritingInv
    <2>4. CASE ~HasDir
      <3>1. phase' = "DONE" /\ ~HasDir'
        BY <1>13, <1>a, <2>4 DEF WriteReport
      <3>2. SealIsTrue'
        BY <3>1 DEF SealIsTrue
      <3>3. ASSUME exit' = 0, ~options.dry
            PROVE  passed' = Plan /\ ~mishap' /\ \A f \in Paths : file'[f] = "WHOLE"
        <4>1. ~errors' /\ ResultExitCode(results) = 0
          BY <3>3, <2>1, <2>2
        <4>2. ~errors /\ UNCHANGED mishap
          BY <4>1, <2>2
        <4>3. passed = Plan /\ ~mishap
          BY <1>13, <3>3, <4>1, <4>2, AllPassed DEF WriteReport, EvidencePhases
        <4>4. Paths \subseteq {"report", "transcript"}
          BY <1>b, <2>4 DEF Paths
        <4>5. "report" \in Paths => file'["report"] = "WHOLE"
          BY <1>c, <2>2, <4>1
        <4>6. "transcript" \in Paths => file["transcript"] = "WHOLE"
          BY <1>13, <4>2 DEF WriteReport, TranscriptInv, EvidencePhases, Transcribed
        <4>7. file'["transcript"] = file["transcript"]
          BY <1>c, <2>2
        <4> QED
          BY <2>1, <4>2, <4>3, <4>4, <4>5, <4>6, <4>7
      <3>4. ExitZeroIsEarned'
        BY <3>3, <1>a DEF ExitZeroIsEarned, Ended
      <3> QED
        BY <1>a, <1>b, <3>1, <3>2, <3>4 DEF WritingInv
    <2> QED
      BY <2>3, <2>4
  \* A bundle that failed leaves exit code 1 and no manifest, or a stranded one.
  <1>f. ASSUME NEW content, Unseal(content), content \in [Files -> Contents] PROVE WritingInv'
    <2>1. /\ phase' = "DONE" /\ exit' = 1 /\ open' = {}
          /\ stranded' \/ file'["manifest"] = "ABSENT"
      BY <1>c, <1>f DEF Unseal, Unlinked
    <2> QED
      BY <1>a, <1>b, <1>s, <2>1 DEF WritingInv, ExitZeroIsEarned, SealIsTrue, Ended
  <1>14. CASE WriteResults
    <2>1. CASE Unseal([file EXCEPT !["results"] = "DAMAGED"])
      BY <1>c, <1>f, <2>1 DEF Contents
    <2>2. CASE /\ WriteArtifact("results", TRUE) /\ phase' = "MANIFEST"
               /\ UNCHANGED <<errors, exit, mishap, stranded>>
      <3>1. /\ file' = [file EXCEPT !["results"] = "WHOLE"]
            /\ said' = [said EXCEPT !["results"] = Reported]
            /\ results' = results /\ phase = "RESULTS"
        BY <1>14, <2>2 DEF WriteArtifact, Reported, WriteResults, session
      <3> QED
        BY <1>a, <1>b, <1>c, <1>g, <1>h, <1>s, <2>2, <3>1 DEF WritingInv
    <2> QED
      BY <1>14, <2>1, <2>2 DEF WriteResults
  <1>15. CASE WriteManifest
    <2>1. CASE Unseal([file EXCEPT !["manifest"] = "DAMAGED"])
      BY <1>c, <1>f, <2>1 DEF Contents
    <2>2. CASE /\ WriteArtifact("manifest", TRUE)
               /\ seal' = [f \in Files |-> IF f \in Paths \ {"manifest"} THEN file[f] ELSE "UNSEALED"]
               /\ phase' = "DONE" /\ UNCHANGED <<errors, exit, mishap, stranded>>
      <3>1. /\ file' = [file EXCEPT !["manifest"] = "WHOLE"]
            /\ said' = [said EXCEPT !["manifest"] = Reported]
            /\ open' = open \ {"manifest"} /\ results' = results /\ passed' = passed /\ phase = "MANIFEST"
        BY <1>15, <2>2 DEF WriteArtifact, Reported, WriteManifest, session
      <3>2. /\ HasDir /\ open' = {}
            /\ exit = IF errors THEN 1 ELSE ResultExitCode(results)
            /\ file["results"] = "WHOLE" /\ said["results"] = Reported
            /\ \/ file["report"] = "WHOLE" /\ said["report"] = Reported
               \/ file["report"] = "DAMAGED" /\ errors
        BY <3>1 DEF WritingInv, FilesInv
      <3>3. "transcript" \in Paths =>
              file["transcript"] = "WHOLE" \/ (file["transcript"] = "DAMAGED" /\ errors)
        BY <3>1 DEF TranscriptInv, EvidencePhases, Transcribed
      <3>4. ~errors => \A f \in Paths : file'[f] = "WHOLE"
        BY <1>c, <3>1, <3>2, <3>3 DEF Files
      <3>5. ExitZeroIsEarned'
        <4>1. ASSUME exit = 0, ~options.dry PROVE ~errors /\ passed = Plan /\ ~mishap
          BY <3>1, <3>2, <4>1, AllPassed DEF EvidencePhases
        <4> QED
          BY <1>a, <2>2, <3>1, <3>4, <4>1 DEF ExitZeroIsEarned, Ended
      <3>6. SealIsTrue'
        <4>1. ASSUME NEW f \in Paths \ {"manifest"}
              PROVE  seal'[f] = file'[f] /\ file'[f] # "EMPTY"
          BY <1>c, <2>2, <3>1, <3>2, <3>3, <4>1 DEF Files
        <4>2. said'["manifest"] = Reported /\ said'["results"] = Reported /\ said'["report"] = said["report"]
          BY <1>c, <3>1, <3>2
        <4>3. Reported = "PASS" => ~errors /\ ResultExitCode(results) = 0
          BY <1>c, PassMeansZero DEF Reported
        <4>4. ~stranded'
          BY <1>s, <2>2, <3>1
        <4>5. said'["manifest"] = "PASS" =>
                exit' = 0 /\ said'["report"] = "PASS" /\ \A f \in Paths : file'[f] = "WHOLE"
          BY <1>c, <2>2, <3>1, <3>2, <3>4, <4>2, <4>3
        <4> QED
          BY <1>a, <3>2, <4>1, <4>2, <4>4, <4>5 DEF SealIsTrue
      <3> QED
        BY <1>a, <1>b, <1>s, <2>2, <3>5, <3>6 DEF WritingInv
    <2> QED
      BY <1>15, <2>1, <2>2 DEF WriteManifest
  <1>16. CASE UNCHANGED vars
    <2>1. UNCHANGED <<phase, results, errors, exit, file, said, seal, open, passed, mishap, stranded>>
      BY <1>16 DEF vars, session, evidence
    <2> QED
      BY <1>a, <1>b, <1>g, <1>h, <1>s, <2>1 DEF WritingInv, ExitZeroIsEarned, SealIsTrue, Ended
  <1> QED
    BY <1>1, <1>2, <1>3, <1>4, <1>5, <1>6, <1>7, <1>8, <1>9, <1>10, <1>11, <1>12,
       <1>13, <1>14, <1>15, <1>16 DEF Next

Inv == TypeOK /\ FilesInv /\ ResultsInv /\ TranscriptInv /\ VerdictInv /\ WritingInv

\* The invariant of one invocation holds in every state.
THEOREM InvCorrect == Spec => []Inv
  <1>1. Init => Inv
    BY TypeInit, FilesInit, ResultsInit, TranscriptInit, VerdictInit, WritingInit DEF Inv
  <1>2. Inv /\ [Next]_vars => Inv'
    BY TypeStep, FilesStep, ResultsStep, TranscriptStep, VerdictStep, WritingStep DEF Inv
  <1> QED
    BY <1>1, <1>2, PTL DEF Spec

\* For a plan of any length a live run exits 0 only if every step passed, nothing
\* was interrupted or failed, and every requested file is complete.
THEOREM ExitZeroIsEarnedAlways == Spec => []ExitZeroIsEarned
  <1>1. Inv => ExitZeroIsEarned
    BY DEF Inv, WritingInv, ExitZeroIsEarned, Ended
  <1> QED
    BY <1>1, InvCorrect, PTL

\* For a plan of any length a manifest that is left behind seals closed, unchanged
\* files and says of the run what results.json and the exit code say, unless it is
\* one the run could not remove, which comes with exit code 1.
THEOREM SealIsTrueAlways == Spec => []SealIsTrue
  <1>1. Inv => SealIsTrue
    BY DEF Inv, WritingInv, SealIsTrue, Ended
  <1> QED
    BY <1>1, InvCorrect, PTL

-----------------------------------------------------------------------------
(* What the runner concludes from a reply                                  *)

\* The ranks of a finite set's elements count it.
LEMMA Ranks ==
    ASSUME NEW S \in SUBSET Int, IsFiniteSet(S)
    PROVE  /\ Cardinality(S) \in Nat
           /\ \A a \in S : Rank(S, a) \in 1 .. Cardinality(S)
           /\ \A a, b \in S : Rank(S, a) = Rank(S, b) => a = b
           /\ \A r \in 1 .. Cardinality(S) : \E a \in S : Rank(S, a) = r
  <1> DEFINE n == Cardinality(S)
             Upto(a) == {b \in S : b <= a}
             f == [a \in S |-> Rank(S, a)]
  <1>1. n \in Nat
    BY FS_CardinalityType
  <1>2. \A a : Rank(S, a) = Cardinality(Upto(a))
    BY DEF Rank
  <1>3. ASSUME NEW a \in S
        PROVE  IsFiniteSet(Upto(a)) /\ Cardinality(Upto(a)) \in 1 .. n
    <2>1. Upto(a) \in SUBSET S /\ Upto(a) # {}
      OBVIOUS
    <2>2. IsFiniteSet(Upto(a)) /\ Cardinality(Upto(a)) <= n
      BY <2>1, FS_Subset
    <2>3. Cardinality(Upto(a)) \in Nat /\ Cardinality(Upto(a)) # 0
      BY <2>1, <2>2, FS_CardinalityType, FS_EmptySet
    <2> QED
      BY <1>1, <2>2, <2>3
  <1>4. ASSUME NEW a \in S, NEW b \in S, a < b
        PROVE  Cardinality(Upto(a)) # Cardinality(Upto(b))
    <2>1. Upto(a) \in SUBSET Upto(b) /\ b \in Upto(b) /\ b \notin Upto(a)
      <3>1. a \in Int /\ b \in Int /\ \A c \in S : c \in Int
        OBVIOUS
      <3>2. \A c \in S : c <= a => c <= b
        BY <1>4, <3>1
      <3>3. b <= b /\ ~(b <= a)
        BY <1>4, <3>1
      <3> QED
        BY <3>2, <3>3
    <2>2. Upto(a) # Upto(b)
      BY <2>1
    <2> HIDE DEF Upto
    <2>3. Cardinality(Upto(b)) = Cardinality(Upto(a)) => Upto(b) = Upto(a)
      BY <1>3, <2>1, FS_Subset
    <2> QED
      BY <2>2, <2>3
  <1>5. \A a, b \in S : Rank(S, a) = Rank(S, b) => a = b
    <2> SUFFICES ASSUME NEW a \in S, NEW b \in S, a # b
                 PROVE  Rank(S, a) # Rank(S, b)
      OBVIOUS
    <2>1. a < b \/ b < a
      OBVIOUS
    <2> HIDE DEF Upto
    <2> QED
      BY <1>2, <1>4, <2>1
  <1>6. \A a \in S : Rank(S, a) \in 1 .. n
    <2> HIDE DEF Upto, n
    <2> QED
      BY <1>2, <1>3
  <1>7. f \in Injection(S, 1 .. n)
    <2> HIDE DEF n
    <2> QED
      BY <1>5, <1>6 DEF Injection, IsInjective
  <1>8. IsFiniteSet(1 .. n) /\ Cardinality(1 .. n) = n
    <2> HIDE DEF n
    <2>1. IsFiniteSet(1 .. n) /\ Cardinality(1 .. n) = IF 1 > n THEN 0 ELSE n - 1 + 1
      BY <1>1, FS_Interval
    <2> QED
      BY <1>1, <2>1
  <1>9. f \in Surjection(S, 1 .. n)
    <2> HIDE DEF f
    <2> QED
      BY <1>7, <1>8, FS_Injection
  <1> HIDE DEF n
  <1> QED
    BY <1>1, <1>5, <1>6, <1>9 DEF Surjection, n

\* A set in ascending order lists each element once.
LEMMA InOrder ==
    ASSUME NEW S \in SUBSET Int, IsFiniteSet(S)
    PROVE  LET n == Cardinality(S)
               s == Ascending(S)
           IN  /\ n \in Nat /\ s = [i \in 1 .. n |-> s[i]]
               /\ \A i \in 1 .. n : s[i] \in S
               /\ \A a \in S : \E i \in 1 .. n : s[i] = a
  <1> DEFINE n == Cardinality(S)
             s == Ascending(S)
  <1>1. s = [i \in 1 .. n |-> CHOOSE a \in S : Rank(S, a) = i]
    BY DEF Ascending
  <1>2. ASSUME NEW i \in 1 .. n
        PROVE  s[i] \in S /\ Rank(S, s[i]) = i
    <2>1. \E a \in S : Rank(S, a) = i
      BY Ranks
    <2>2. s[i] = CHOOSE a \in S : Rank(S, a) = i
      <3> HIDE DEF s
      <3> QED
        BY <1>1
    <2> QED
      BY <2>1, <2>2
  <1> HIDE DEF s, n
  <1>3. ASSUME NEW a \in S PROVE \E i \in 1 .. n : s[i] = a
    <2>1. Rank(S, a) \in 1 .. n
      BY Ranks DEF n
    <2>2. s[Rank(S, a)] \in S
          /\ Rank(S, s[Rank(S, a)]) = Rank(S, a)
      BY <1>2, <2>1
    <2>3. s[Rank(S, a)] = a
      <3>1. \A b, c \in S : Rank(S, b) = Rank(S, c) => b = c
        BY Ranks
      <3> QED
        BY <2>2, <3>1
    <2> QED
      BY <2>1, <2>3
  <1>4. n \in Nat
    BY Ranks DEF n
  <1> QED
    BY <1>1, <1>2, <1>3, <1>4 DEF s, n

LEMMA ElementsOf ==
    ASSUME NEW X, NEW s \in Seq(X)
    PROVE  /\ s \in Seq(ToSet(s)) /\ ToSet(s) \subseteq X
           /\ Len(s) \in Nat /\ DOMAIN s = 1 .. Len(s)
  <1>1. s \in [1 .. Len(s) -> X] /\ DOMAIN s = 1 .. Len(s) /\ Len(s) \in Nat
    BY LenProperties
  <1>2. \A i \in 1 .. Len(s) : s[i] \in ToSet(s)
    BY <1>1 DEF ToSet
  <1>3. ToSet(s) \subseteq X
    BY <1>1 DEF ToSet
  <1>4. s \in Seq(ToSet(s))
    BY <1>1, <1>2, SubSeqFull, SubSeqProperties
  <1> QED
    BY <1>1, <1>3, <1>4

\* A kind of which there is one line.
LEMMA OneLine ==
    ASSUME NEW kind, One(kind)
    PROVE  \E j \in DOMAIN lines : The(kind) = lines[j] /\ lines[j].kind = kind
  <1>1. At(kind) # {}
    <2>1. Cardinality(At(kind)) = 1
      BY Zenon DEF One
    <2> QED
      BY <2>1, FS_EmptySet
  <1>2. (CHOOSE i \in At(kind) : TRUE) \in At(kind)
    BY <1>1, Zenon
  <1>3. PICK j \in At(kind) : j = CHOOSE i \in At(kind) : TRUE
    BY <1>2, Zenon
  <1>4. The(kind) = lines[j]
    BY <1>3, Zenon DEF The
  <1>5. j \in DOMAIN lines /\ lines[j].kind = kind
    BY Zenon DEF At
  <1> QED
    BY <1>4, <1>5, Zenon

LEMMA OnlyLine ==
    ASSUME NEW kind, NEW j, At(kind) = {j}
    PROVE  One(kind) /\ The(kind) = lines[j]
  <1>1. Cardinality({j}) = 1
    BY FS_Singleton
  <1>2. (CHOOSE i \in {j} : TRUE) = j
    OBVIOUS
  <1> QED
    BY <1>1, <1>2, Zenon DEF One, The

\* The rows of a table that is exact are there, all of them.
LEMMA EveryRow ==
    ASSUME NEW X, lines \in Seq(X), NEW kind, NEW n \in Nat, ExactRows(kind, n),
           NEW r \in 1 .. n
    PROVE  \E i \in DOMAIN lines : lines[i].kind = kind /\ lines[i].row = r
  <1> DEFINE S == At(kind)
  <1>1. S \in SUBSET (1 .. Len(lines)) /\ Len(lines) \in Nat
    BY ElementsOf DEF At
  <1>2. S \in SUBSET Int /\ IsFiniteSet(S)
    <2> HIDE DEF S
    <2>1. IsFiniteSet(1 .. Len(lines))
      BY <1>1, FS_Interval
    <2>2. IsFiniteSet(S)
      BY <1>1, <2>1, FS_Subset
    <2> QED
      BY <1>1, <2>2
  <1>3. Cardinality(S) = n /\ \A i \in S : lines[i].row = Rank(S, i)
    BY Zenon DEF ExactRows
  <1> HIDE DEF S
  <1>4. PICK i \in S : Rank(S, i) = r
    BY <1>2, <1>3, Ranks
  <1> QED
    BY <1>3, <1>4, Zenon DEF S, At

LEMMA RowsInOrder ==
    ASSUME NEW kind, NEW n \in Nat, At(kind) = 1 .. n,
           \A i \in 1 .. n : lines[i].row = i
    PROVE  ExactRows(kind, n)
  <1>1. Cardinality(1 .. n) = n
    <2>1. Cardinality(1 .. n) = IF 1 > n THEN 0 ELSE n - 1 + 1
      BY FS_Interval
    <2> QED
      BY <2>1
  <1>2. ASSUME NEW i \in 1 .. n PROVE Rank(1 .. n, i) = i
    <2>1. {b \in 1 .. n : b <= i} = 1 .. i
      OBVIOUS
    <2>2. Cardinality(1 .. i) = IF 1 > i THEN 0 ELSE i - 1 + 1
      BY FS_Interval
    <2>3. Cardinality(1 .. i) = i
      BY <2>2
    <2> QED
      BY <2>1, <2>3, Zenon DEF Rank
  <1> QED
    BY <1>1, <1>2, Zenon DEF ExactRows

LEMMA ScanEnds ==
    ASSUME NEW cmd \in {"scan", "discover"}, truth \in Endings(cmd)
    PROVE  LET all == IF cmd = "scan" THEN Scanned ELSE Candidates
           IN  /\ truth.ok \in BOOLEAN /\ truth.present \in SUBSET all
               /\ truth.errorAt \in {0} \cup all /\ truth.target \in all
               /\ all \in SUBSET (1 .. LastAddress) /\ Configured \in all
               /\ IsFiniteSet(all) /\ Cardinality(all) \in Nat
  <1> DEFINE all == IF cmd = "scan" THEN Scanned ELSE Candidates
  <1>1. /\ LastAddress \in Nat /\ FirstCandidate \in 1 .. LastAddress
        /\ Configured \in FirstCandidate .. LastAddress
    BY VerdictAssumption
  <1>2. all \in SUBSET (1 .. LastAddress) /\ Configured \in all /\ 0 \notin all
    BY <1>1 DEF Scanned, Candidates
  <1>3. IsFiniteSet(all) /\ Cardinality(all) \in Nat
    <2>1. IsFiniteSet(1 .. LastAddress)
      BY <1>1, FS_Interval
    <2> HIDE DEF all
    <2> QED
      BY <1>2, <2>1, FS_Subset, FS_CardinalityType
  <1>4. CASE cmd = "scan"
    <2>1. truth \in [ok : BOOLEAN, mask : Masks, present : SUBSET Scanned,
                     errorAt : {0} \cup Scanned, target : {Configured}]
      BY <1>4 DEF Endings, NoError
    <2> QED
      BY <1>2, <1>3, <1>4, <2>1
  <1>5. CASE cmd = "discover"
    <2>1. truth \in [ok : BOOLEAN, present : SUBSET Candidates,
                     errorAt : {0} \cup Candidates, target : Candidates]
      BY <1>5 DEF Endings, NoError
    <2> QED
      BY <1>2, <1>3, <1>5, <2>1
  <1> QED
    BY <1>4, <1>5

\* The lines of a scan.
LEMMA ScanPrints ==
    ASSUME NEW all \in SUBSET Int, IsFiniteSet(all)
    PROVE  LET acked == Acked(truth, all)
           IN  ScanLines(truth, all) \in Seq({Found(a) : a \in acked}
                 \cup {ScanError(truth.errorAt)} \cup ToSet(ScanSummary(truth, all)))
  <1> DEFINE acked == Acked(truth, all)
             n == Cardinality(acked)
             summary == ScanSummary(truth, all)
             X == {Found(a) : a \in acked}
                    \cup {ScanError(truth.errorAt)} \cup ToSet(summary)
             found == [i \in 1 .. n |-> Found(Ascending(acked)[i])]
             failed == IF Errors(truth) = 1 THEN <<ScanError(truth.errorAt)>> ELSE <<>>
  <1>1. acked \in SUBSET all /\ acked \in SUBSET Int /\ IsFiniteSet(acked)
    <2>1. acked \in SUBSET all
      BY DEF Acked, Reached
    <2> HIDE DEF acked
    <2> QED
      BY <2>1, FS_Subset
  <1>2. n \in Nat /\ \A i \in 1 .. n : Ascending(acked)[i] \in acked
    <2> HIDE DEF acked
    <2> QED
      BY <1>1, InOrder
  <1>3. summary \in Seq(ToSet(summary))
    <2>1. \E a, b, c, d : summary = <<a, b, c, d>>
      BY Zenon DEF ScanSummary
    <2>2. PICK a, b, c, d : summary = <<a, b, c, d>>
      BY <2>1, Zenon
    <2>3. <<a, b, c, d>> \in Seq({a, b, c, d})
      OBVIOUS
    <2> HIDE DEF summary
    <2> QED
      BY <2>2, <2>3, ElementsOf
  <1>4. ScanLines(truth, all) = (found \o failed) \o summary
    BY Zenon DEF ScanLines
  <1> HIDE DEF acked, n, summary
  <1>5. found \in Seq(X)
    <2>1. \A i \in 1 .. n : Found(Ascending(acked)[i]) \in X
      BY <1>2, Zenon
    <2> HIDE DEF X
    <2> QED
      BY <1>2, <2>1
  <1>6. failed \in Seq(X) /\ summary \in Seq(X)
    <2>1. ScanError(truth.errorAt) \in X /\ ToSet(summary) \subseteq X
      OBVIOUS
    <2> HIDE DEF X
    <2> QED
      BY <1>3, <2>1, SeqMonotonic
  <1> HIDE DEF X, found, failed
  <1>7. (found \o failed) \o summary \in Seq(X)
    BY <1>5, <1>6, ConcatProperties
  <1> QED
    BY <1>4, <1>7 DEF X, acked, summary

\* Checks of these labels, each with its result.
Checks(labels, failing) == {Check(l, l \notin failing) : l \in labels}

LEMMA PrintedChecks ==
    ASSUME NEW X, NEW labels \in Seq(X), NEW failing
    PROVE  /\ Printed(labels, failing) \in Seq(Checks(ToSet(labels), failing))
           /\ AllIn(labels, failing) =>
                Printed(labels, failing) =
                  [i \in 1 .. Len(labels) |-> Check(labels[i], TRUE)]
  <1> DEFINE reached == {i \in DOMAIN labels :
                           \A j \in 1 .. i - 1 : labels[j] \notin failing \ Continues}
             n == Cardinality(reached)
             checks == Checks(ToSet(labels), failing)
  <1>1. Printed(labels, failing) =
          [i \in 1 .. n |-> Check(labels[i], labels[i] \notin failing)]
    BY Zenon DEF Printed
  <1>2. Len(labels) \in Nat /\ DOMAIN labels = 1 .. Len(labels)
    BY ElementsOf
  <1>3. Cardinality(1 .. Len(labels)) = Len(labels) /\ IsFiniteSet(1 .. Len(labels))
    <2>1. /\ IsFiniteSet(1 .. Len(labels))
          /\ Cardinality(1 .. Len(labels)) = IF 1 > Len(labels) THEN 0 ELSE Len(labels) - 1 + 1
      BY <1>2, FS_Interval
    <2> QED
      BY <1>2, <2>1
  <1>4. n \in 0 .. Len(labels)
    <2>1. reached \in SUBSET (1 .. Len(labels))
      BY <1>2
    <2> HIDE DEF reached
    <2>2. IsFiniteSet(reached) /\ Cardinality(reached) <= Len(labels)
      BY <1>3, <2>1, FS_Subset
    <2>3. Cardinality(reached) \in Nat
      BY <2>2, FS_CardinalityType
    <2> QED
      BY <1>2, <2>2, <2>3
  <1>5. Printed(labels, failing) \in Seq(checks)
    <2>1. \A i \in 1 .. n : labels[i] \in ToSet(labels)
      <3> HIDE DEF n
      <3> QED
        BY <1>2, <1>4 DEF ToSet
    <2>2. \A i \in 1 .. n : Check(labels[i], labels[i] \notin failing) \in checks
      BY <2>1, Zenon DEF Checks
    <2> HIDE DEF n, checks
    <2>3. [i \in 1 .. n |-> Check(labels[i], labels[i] \notin failing)] \in Seq(checks)
      BY <1>4, <2>2
    <2> QED
      BY <1>1, <2>3
  <1>6. ASSUME AllIn(labels, failing)
        PROVE  Printed(labels, failing) =
                 [i \in 1 .. Len(labels) |-> Check(labels[i], TRUE)]
    <2>1. \A i \in 1 .. Len(labels) : labels[i] \notin failing
      BY <1>2, <1>6, Zenon DEF AllIn
    <2>2. reached = 1 .. Len(labels)
      BY <1>2, <2>1
    <2>3. n = Len(labels)
      BY <1>3, <2>2, Zenon
    <2>4. \A i \in 1 .. Len(labels) : Check(labels[i], labels[i] \notin failing) = Check(labels[i], TRUE)
      BY <2>1 DEF Check
    <2> HIDE DEF n
    <2> QED
      BY <1>1, <2>3, <2>4
  <1> QED
    BY <1>5, <1>6

\* The labels of the checks: every list has its own.
Static == ToSet(StaticChecks)
Parser == ToSet(ParserChecks)
Probe == ToSet(ProbeChecks)
Mask == ToSet(MaskChecks)
Reset == ToSet(ResetChecks)

LEMMA OneOf == ASSUME NEW X, NEW a \in X PROVE <<a>> \in Seq(X)
  OBVIOUS

LEMMA Two ==
    ASSUME NEW a, NEW b PROVE ToSet(<<a, b>>) = {a, b} /\ <<a, b>> \in Seq({a, b})
  BY DEF ToSet

LEMMA ThreeOf ==
    ASSUME NEW a, NEW b, NEW c PROVE ToSet(<<a, b, c>>) = {a, b, c} /\ <<a, b, c>> \in Seq({a, b, c})
  BY DEF ToSet

LEMMA Four ==
    ASSUME NEW a, NEW b, NEW c, NEW d
    PROVE  ToSet(<<a, b, c, d>>) = {a, b, c, d} /\ <<a, b, c, d>> \in Seq({a, b, c, d})
  BY DEF ToSet

LEMMA Seven ==
    ASSUME NEW a, NEW b, NEW c, NEW d, NEW e, NEW f, NEW g
    PROVE  /\ ToSet(<<a, b, c, d, e, f, g>>) = {a, b, c, d, e, f, g}
           /\ <<a, b, c, d, e, f, g>> \in Seq({a, b, c, d, e, f, g})
  <1> DEFINE s == <<a, b, c, d, e, f, g>>
  <1>1. s \in Seq({a, b, c, d, e, f, g})
    OBVIOUS
  <1>2. DOMAIN s = 1 .. 7
    OBVIOUS
  <1>3. ToSet(s) = {s[i] : i \in 1 .. 7}
    BY <1>2 DEF ToSet
  <1>4. {s[i] : i \in 1 .. 7} = {a, b, c, d, e, f, g}
    OBVIOUS
  <1> QED
    BY <1>1, <1>3, <1>4

LEMMA LabelFacts ==
    /\ StaticChecks \in Seq(Static) /\ ParserChecks \in Seq(Parser)
    /\ ProbeChecks \in Seq(Probe) /\ MaskChecks \in Seq(Mask)
    /\ ResetChecks \in Seq(Reset)
    /\ (Static \cup Parser) \cap (Probe \cup Mask \cup Reset) = {} /\ Static \cap Parser = {}
    /\ Probe \cap Mask = {} /\ (Probe \cup Mask) \cap Reset = {} /\ Reset # {}
    /\ \A l \in {"hardReset", RestoreCheck} :
         l \notin Static \cup Parser \cup Probe \cup Mask \cup Reset
    /\ "hardReset" # RestoreCheck /\ "probe" \in Probe
    /\ "probe no-health-side-effects" \in Probe
  <1>1. /\ Static = {"typed ChannelMask is one byte", "address helper", "version"}
        /\ StaticChecks \in Seq(Static)
    BY ThreeOf, Zenon DEF Static, StaticChecks
  <1>2. /\ Parser = {"numeric parser rejects invalid input",
                     "line parser rejects controls and overflow"}
        /\ ParserChecks \in Seq(Parser)
    BY Two, Zenon DEF Parser, ParserChecks
  <1>3. /\ Probe = {"probe", "probe no-health-side-effects", "capture original mask readback"}
        /\ ProbeChecks \in Seq(Probe)
    BY ThreeOf, Zenon DEF Probe, ProbeChecks
  <1>4. /\ Mask = {"disableAll write", "disableAll readback", "all eight one-hot channels",
                   "write mask 0xA5", "read mask 0xA5", "recover safe-off write",
                   "recover readback 0x00"}
        /\ MaskChecks \in Seq(Mask)
    <2>1. Mask = {"disableAll write", "disableAll readback", "all eight one-hot channels",
                   "write mask 0xA5", "read mask 0xA5", "recover safe-off write",
                   "recover readback 0x00"}
      <3>1. MaskChecks =
              <<"disableAll write", "disableAll readback", "all eight one-hot channels",
                "write mask 0xA5", "read mask 0xA5", "recover safe-off write",
                "recover readback 0x00">>
        BY Zenon DEF MaskChecks
      <3>2. ASSUME NEW s, s = MaskChecks
            PROVE  ToSet(s) =
                     {"disableAll write", "disableAll readback", "all eight one-hot channels",
                      "write mask 0xA5", "read mask 0xA5", "recover safe-off write",
                      "recover readback 0x00"}
        <4>1. DOMAIN s = 1 .. 7 /\ 1 .. 7 = {1, 2, 3, 4, 5, 6, 7}
          <5>1. \A a, b, c, d, e, f, g : DOMAIN <<a, b, c, d, e, f, g>> = 1 .. 7
            OBVIOUS
          <5>2. DOMAIN s = 1 .. 7
            BY <3>1, <3>2, <5>1, Zenon
          <5>3. 1 .. 7 = {1, 2, 3, 4, 5, 6, 7}
            OBVIOUS
          <5> QED
            BY <5>2, <5>3
        <4>2. ToSet(s) = {s[1], s[2], s[3], s[4], s[5], s[6], s[7]}
          BY <4>1 DEF ToSet
        <4>3. s[1] = "disableAll write" /\ s[2] = "disableAll readback"
          BY <3>1, <3>2
        <4>4. s[3] = "all eight one-hot channels" /\ s[4] = "write mask 0xA5"
          BY <3>1, <3>2
        <4>5. s[5] = "read mask 0xA5" /\ s[6] = "recover safe-off write"
          BY <3>1, <3>2
        <4>6. s[7] = "recover readback 0x00"
          BY <3>1, <3>2
        <4> QED
          BY <4>2, <4>3, <4>4, <4>5, <4>6, Zenon
      <3> QED
        BY <3>2, Zenon DEF Mask
    <2>2. MaskChecks \in Seq({"disableAll write", "disableAll readback", "all eight one-hot channels",
                   "write mask 0xA5", "read mask 0xA5", "recover safe-off write",
                   "recover readback 0x00"})
      BY Seven, Zenon DEF MaskChecks
    <2> QED
      BY <2>1, <2>2
  <1>5. /\ Reset = {"hardReset seed write", "hardReset seed readback",
                    "hardReset exact-zero verification", "hardReset leaves verified all-off"}
        /\ ResetChecks \in Seq(Reset)
    <2>1. Reset = {"hardReset seed write", "hardReset seed readback",
                    "hardReset exact-zero verification", "hardReset leaves verified all-off"}
      <3>1. Reset = ToSet(<<"hardReset seed write", "hardReset seed readback",
                            "hardReset exact-zero verification", "hardReset leaves verified all-off">>)
        BY Zenon DEF Reset, ResetChecks
      <3> QED
        BY <3>1, Four, Zenon
    <2>2. ResetChecks \in Seq({"hardReset seed write", "hardReset seed readback",
                    "hardReset exact-zero verification", "hardReset leaves verified all-off"})
      BY Four DEF ResetChecks
    <2> QED
      BY <2>1, <2>2
  <1> QED
    BY <1>1, <1>2, <1>3, <1>4, <1>5 DEF RestoreCheck

HilCommands == {"hil dry", "hil parser", "hil run", "hil run reset"}

LEMMA HilEnds ==
    ASSUME NEW cmd \in HilCommands, truth \in Endings(cmd)
    PROVE  /\ cmd = "hil dry" => truth.failing = {}
           /\ cmd = "hil parser" => truth.failing \subseteq Parser
           /\ cmd \in {"hil run", "hil run reset"} =>
                truth.failing \subseteq {"hardReset", RestoreCheck} \cup Probe \cup Mask \cup Reset
           /\ truth.failing \cap Static = {}
  <1>1. CASE cmd = "hil dry"
    <2>1. truth \in [failing : {{}}]
      BY <1>1, Zenon DEF Endings
    <2> QED
      BY <1>1, <2>1
  <1>2. CASE cmd = "hil parser"
    <2>1. truth \in [failing : ParserFailures]
      BY <1>2, Zenon DEF Endings
    <2>2. truth.failing \subseteq Parser
      BY <2>1 DEF ParserFailures, Parser
    <2> QED
      BY <1>2, <2>2, LabelFacts
  <1>3. CASE cmd \in {"hil run", "hil run reset"}
    <2>1. truth \in [failing : RunFailures]
      BY <1>3, Zenon DEF Endings
    <2>2. /\ ToSet(ProbeChecks) = Probe /\ ToSet(MaskChecks) = Mask
          /\ ToSet(ResetChecks) = Reset
      BY Zenon DEF Probe, Mask, Reset
    <2>3. truth.failing \subseteq {"hardReset", RestoreCheck} \cup Probe \cup Mask \cup Reset
      BY <2>1, <2>2 DEF RunFailures
    <2> QED
      BY <1>3, <2>3, LabelFacts
  <1> QED
    BY <1>1, <1>2, <1>3 DEF HilCommands

\* The checks that may be printed, each with the result it had.
HilChecks ==
    LET labels == {l \in Static \cup Parser \cup Probe \cup Mask \cup Reset
                           \cup {"hardReset", RestoreCheck} :
                     "hardReset" \in truth.failing => l \notin Reset}
    IN  Checks(labels, truth.failing)
          \cup {Skip(l) : l \in {"probe", "mask I/O", "hardReset"}}

LEMMA HilPrints ==
    ASSUME NEW cmd \in HilCommands, truth \in Endings(cmd), step.cmd = cmd
    PROVE  HilBody(truth) \in Seq(HilChecks)
  <1> DEFINE f == truth.failing
             of(labels) == Checks(labels, f)
             reset == IF cmd # "hil run reset" THEN <<Skip("hardReset")>>
                      ELSE IF "hardReset" \in f THEN <<Check("hardReset", FALSE)>>
                      ELSE Printed(ResetChecks, f)
             masks == (Printed(MaskChecks, f)
                         \o (IF AllIn(MaskChecks, f) THEN reset ELSE <<>>))
                         \o <<Check(RestoreCheck, RestoreCheck \notin f)>>
             probes == IF "probe" \in f
                       THEN Printed(<<"probe", "probe no-health-side-effects">>, f)
                       ELSE Printed(ProbeChecks, f)
             static == Printed(StaticChecks, {})
             parser == IF cmd = "hil parser" THEN Printed(ParserChecks, f) ELSE <<>>
             skips == <<Skip("probe"), Skip("mask I/O"), Skip("hardReset")>>
             rest == IF cmd \in {"hil dry", "hil parser"} THEN skips
                     ELSE probes \o (IF AllIn(ProbeChecks, f) THEN masks ELSE <<>>)
  <1>1. HilBody(truth) = (static \o parser) \o rest
    BY Zenon DEF HilBody
  <1>2. /\ of(Static) \subseteq HilChecks /\ of(Parser) \subseteq HilChecks
        /\ of(Probe) \subseteq HilChecks /\ of(Mask) \subseteq HilChecks
        /\ "hardReset" \notin f => of(Reset) \subseteq HilChecks
        /\ \A l \in {"hardReset", RestoreCheck} : Check(l, l \notin f) \in HilChecks
        /\ \A l \in {"probe", "mask I/O", "hardReset"} : Skip(l) \in HilChecks
    BY LabelFacts, Zenon DEF HilChecks, Checks
  <1>a. /\ StaticChecks \in Seq(Static) /\ ParserChecks \in Seq(Parser)
        /\ ProbeChecks \in Seq(Probe) /\ MaskChecks \in Seq(Mask)
        /\ ResetChecks \in Seq(Reset)
    BY LabelFacts
  <1> HIDE DEF f
  <1>b. /\ Check(RestoreCheck, RestoreCheck \notin f) \in HilChecks
        /\ Skip("probe") \in HilChecks /\ Skip("mask I/O") \in HilChecks
        /\ Skip("hardReset") \in HilChecks
    BY <1>2
  <1>3. static \in Seq(HilChecks)
    <2>1. static \in Seq(Checks(Static, {}))
      BY <1>a, PrintedChecks, Zenon DEF Static
    <2>2. f \cap Static = {}
      BY HilEnds DEF f
    <2>3. \A l \in Static : Check(l, l \notin {}) = Check(l, l \notin f)
      BY <2>2 DEF Check
    <2>4. Checks(Static, {}) \subseteq HilChecks
      BY <1>2, <2>3 DEF Checks
    <2> QED
      BY <2>1, <2>4, SeqMonotonic
  <1>4. parser \in Seq(HilChecks)
    <2>1. Printed(ParserChecks, f) \in Seq(of(Parser))
      BY <1>a, PrintedChecks, Zenon DEF Parser
    <2> HIDE DEF of
    <2>2. Printed(ParserChecks, f) \in Seq(HilChecks)
      BY <1>2, <2>1, SeqMonotonic
    <2> QED
      BY <2>2, EmptySeq
  <1>5. probes \in Seq(HilChecks)
    <2>1. Printed(ProbeChecks, f) \in Seq(of(Probe))
      BY <1>a, PrintedChecks, Zenon DEF Probe
    <2>2. Printed(<<"probe", "probe no-health-side-effects">>, f)
            \in Seq(of({"probe", "probe no-health-side-effects"}))
      <3>1. /\ <<"probe", "probe no-health-side-effects">> \in Seq({"probe", "probe no-health-side-effects"})
            /\ ToSet(<<"probe", "probe no-health-side-effects">>) = {"probe", "probe no-health-side-effects"}
        BY Two, Zenon
      <3> QED
        BY <3>1, PrintedChecks, Zenon
    <2>3. of({"probe", "probe no-health-side-effects"}) \subseteq HilChecks
      <3>1. of({"probe", "probe no-health-side-effects"}) \subseteq of(Probe)
        BY LabelFacts DEF Checks
      <3> HIDE DEF of
      <3> QED
        BY <1>2, <3>1
    <2> HIDE DEF of
    <2>4. /\ Printed(ProbeChecks, f) \in Seq(HilChecks)
          /\ Printed(<<"probe", "probe no-health-side-effects">>, f) \in Seq(HilChecks)
      BY <1>2, <2>1, <2>2, <2>3, SeqMonotonic
    <2> QED
      BY <2>4
  <1>6. reset \in Seq(HilChecks)
    <2>1. CASE "hardReset" \notin f
      <3>1. Printed(ResetChecks, f) \in Seq(of(Reset))
        BY <1>a, PrintedChecks, Zenon DEF Reset
      <3> HIDE DEF of
      <3>2. Printed(ResetChecks, f) \in Seq(HilChecks)
        BY <1>2, <2>1, <3>1, SeqMonotonic
      <3>3. <<Skip("hardReset")>> \in Seq(HilChecks)
        BY <1>b, OneOf
      <3> QED
        BY <2>1, <3>2, <3>3
    <2>2. CASE "hardReset" \in f
      <3>1. Check("hardReset", FALSE) \in HilChecks
        BY <1>2, <2>2 DEF Check
      <3>2. /\ <<Check("hardReset", FALSE)>> \in Seq(HilChecks)
            /\ <<Skip("hardReset")>> \in Seq(HilChecks)
        BY <1>b, <3>1, OneOf
      <3> QED
        BY <2>2, <3>2
    <2> QED
      BY <2>1, <2>2
  <1>7. masks \in Seq(HilChecks)
    <2>1. Printed(MaskChecks, f) \in Seq(of(Mask))
      BY <1>a, PrintedChecks, Zenon DEF Mask
    <2> HIDE DEF of, reset
    <2>2. Printed(MaskChecks, f) \in Seq(HilChecks)
      BY <1>2, <2>1, SeqMonotonic
    <2>3. (IF AllIn(MaskChecks, f) THEN reset ELSE <<>>) \in Seq(HilChecks)
      BY <1>6, EmptySeq
    <2>4. <<Check(RestoreCheck, RestoreCheck \notin f)>> \in Seq(HilChecks)
      BY <1>b, OneOf
    <2> QED
      BY <2>2, <2>3, <2>4, ConcatProperties
  <1>8. rest \in Seq(HilChecks)
    <2> HIDE DEF probes, masks
    <2>1. skips \in Seq(HilChecks)
      <3>1. \A a, b, c \in HilChecks : <<a, b, c>> \in Seq(HilChecks)
        OBVIOUS
      <3> QED
        BY <1>b, <3>1, Zenon
    <2>2. (IF AllIn(ProbeChecks, f) THEN masks ELSE <<>>) \in Seq(HilChecks)
      BY <1>7, EmptySeq
    <2>3. probes \o (IF AllIn(ProbeChecks, f) THEN masks ELSE <<>>) \in Seq(HilChecks)
      BY <1>5, <2>2, ConcatProperties
    <2> QED
      BY <2>1, <2>3
  <1> HIDE DEF static, parser, rest
  <1> QED
    BY <1>1, <1>3, <1>4, <1>8, ConcatProperties

-----------------------------------------------------------------------------
(* What a reply may say                                                    *)

ReadLine == [kind |-> "READ", code |-> Ok(truth.ok), mask |-> truth.mask]
CacheLine(provenance) == [kind |-> "CACHE", provenance |-> provenance]
VerboseLine == [kind |-> "VERBOSE", set |-> truth.set]
ConsoleLine == [kind |-> "CONSOLE", connected |-> truth.connected, lost |-> truth.lost]
Row(kind, i) == [kind |-> kind, row |-> i, as |-> IF i \in truth.odd THEN "BAD" ELSE "GOOD"]
AddressLine == [kind |-> "ADDRESS", address |-> truth.target]
TopologyLine == [kind |-> "TOPOLOGY", code |-> Ok(truth.ok), mask |-> truth.mask]

CleanRounds == truth.rounds = Count /\ ~truth.spoiled
Results == [kind |-> "RESULTS", completed |-> truth.rounds, requested |-> Count,
            status |-> Ok(CleanRounds /\ truth.safeOff), safeOff |-> Ok(truth.safeOff)]
Delta == [kind |-> "DELTA", failures |-> truth.failures]
Session ==
    [kind |-> "SESSION", success |-> PerRound * truth.rounds + truth.rest, failures |-> truth.failures]
StressEnd == End(CleanRounds /\ truth.safeOff, truth.rounds, Count)
SafeOffFailed == Check("final safe-off", FALSE)

Tally ==
    LET Number(as) == Cardinality({i \in DOMAIN HilBody(truth) :
                                             HilBody(truth)[i].as = as})
    IN  [kind |-> "HIL", pass |-> Number("PASS"), fail |-> Number("FAIL"), skip |-> Number("SKIP")]

HealthTold == {Row("HEALTH", i) : i \in 1 .. 8} \cup {CacheLine("OBSERVED")}
CfgTold == {Row("CFG", i) : i \in 1 .. 6} \cup {AddressLine}
ScanTold(all) ==
    {Found(a) : a \in Acked(truth, all)}
      \cup {ScanError(truth.errorAt)} \cup ToSet(ScanSummary(truth, all))
DiscoverTold == IF truth.ok THEN ScanTold(Candidates) ELSE {Op(FALSE)}
StressTold == {Results, Delta, Session, SafeOffFailed, StressEnd}
HilTold == HilChecks \cup {Tally}

\* The lines a reply to this command is made of.
Told(cmd) ==
    CASE cmd = "read" -> {ReadLine}
      [] cmd = "op" -> {Op(truth.ok)}
      [] cmd = "invalidate" -> {Op(TRUE), CacheLine("UNKNOWN")}
      [] cmd = "verbose" -> {VerboseLine}
      [] cmd = "console" -> {ConsoleLine}
      [] cmd = "health" -> HealthTold
      [] cmd = "cfg" -> CfgTold
      [] cmd = "scan" -> {TopologyLine} \cup ScanTold(Scanned)
      [] cmd = "discover" -> DiscoverTold
      [] cmd \in {"stress", "stress_mix"} -> StressTold
      [] OTHER -> HilTold

LEMMA RowsThen ==
    ASSUME NEW kind, NEW n \in Nat, NEW last
    PROVE  [i \in 1 .. n |-> Row(kind, i)] \o <<last>>
             \in Seq({Row(kind, i) : i \in 1 .. n} \cup {last})
  <1> DEFINE X == {Row(kind, i) : i \in 1 .. n} \cup {last}
  <1>1. \A i \in 1 .. n : Row(kind, i) \in X
    OBVIOUS
  <1>2. last \in X
    OBVIOUS
  <1> HIDE DEF X
  <1>3. [i \in 1 .. n |-> Row(kind, i)] \in Seq(X) /\ <<last>> \in Seq(X)
    BY <1>1, <1>2
  <1>4. [i \in 1 .. n |-> Row(kind, i)] \o <<last>> \in Seq(X)
    BY <1>3, ConcatProperties
  <1> QED
    BY <1>4 DEF X

LEMMA HealthPrints == HealthLines(truth) \in Seq(HealthTold)
  <1>1. HealthRows - 1 = 8
    BY DEF HealthRows
  <1>2. HealthLines(truth) =
          [i \in 1 .. 8 |-> Row("HEALTH", i)] \o <<CacheLine("OBSERVED")>>
    BY <1>1, Zenon DEF HealthLines, Row, CacheLine
  <1> QED
    BY <1>2, RowsThen DEF HealthTold

LEMMA CfgPrints == CfgLines(truth) \in Seq(CfgTold)
  <1>1. CfgLines(truth) = [i \in 1 .. 6 |-> Row("CFG", i)] \o <<AddressLine>>
    BY Zenon DEF CfgLines, Row, AddressLine
  <1> QED
    BY <1>1, RowsThen DEF CfgTold

LEMMA StressPrints == StressLines(truth) \in Seq(StressTold)
  <1> DEFINE off == IF truth.safeOff THEN <<>> ELSE <<SafeOffFailed>>
  <1>1. StressLines(truth) = (<<Results, Delta, Session>> \o off) \o <<StressEnd>>
    BY Zenon DEF StressLines, Results, Delta, Session, StressEnd, SafeOffFailed,
                 CleanRounds
  <1>2. /\ Results \in StressTold /\ Delta \in StressTold /\ Session \in StressTold
        /\ SafeOffFailed \in StressTold /\ StressEnd \in StressTold
    BY DEF StressTold
  <1>3. <<Results, Delta, Session>> \in Seq(StressTold)
    <2>1. \A a, b, c \in StressTold : <<a, b, c>> \in Seq(StressTold)
      OBVIOUS
    <2> QED
      BY <1>2, <2>1, Zenon
  <1>4. off \in Seq(StressTold) /\ <<StressEnd>> \in Seq(StressTold)
    BY <1>2, EmptySeq, OneOf
  <1> HIDE DEF off
  <1> QED
    BY <1>1, <1>3, <1>4, ConcatProperties

\* A reply is made of the lines it may say.
LEMMA ReplyTold ==
    ASSUME NEW cmd \in Commands, step.cmd = cmd, truth \in Endings(cmd)
    PROVE  Reply(truth) \in Seq(Told(cmd))
  <1>1. CASE cmd = "read"
    <2>1. Reply(truth) = <<ReadLine>> /\ Told(cmd) = {ReadLine}
      BY <1>1, Zenon DEF Reply, Told, ReadLine
    <2> QED
      BY <2>1
  <1>2. CASE cmd = "op"
    <2>1. Reply(truth) = <<Op(truth.ok)>> /\ Told(cmd) = {Op(truth.ok)}
      BY <1>2, Zenon DEF Reply, Told
    <2> QED
      BY <2>1
  <1>3. CASE cmd = "invalidate"
    <2>1. /\ Reply(truth) = <<Op(TRUE), CacheLine("UNKNOWN")>>
          /\ Told(cmd) = {Op(TRUE), CacheLine("UNKNOWN")}
      BY <1>3, Zenon DEF Reply, Told, CacheLine
    <2> QED
      BY <2>1, Two
  <1>4. CASE cmd = "verbose"
    <2>1. Reply(truth) = <<VerboseLine>> /\ Told(cmd) = {VerboseLine}
      BY <1>4, Zenon DEF Reply, Told, VerboseLine
    <2> QED
      BY <2>1
  <1>5. CASE cmd = "console"
    <2>1. Reply(truth) = <<ConsoleLine>> /\ Told(cmd) = {ConsoleLine}
      BY <1>5, Zenon DEF Reply, Told, ConsoleLine
    <2> QED
      BY <2>1
  <1>6. CASE cmd = "health"
    <2>1. Reply(truth) = HealthLines(truth) /\ Told(cmd) = HealthTold
      BY <1>6, Zenon DEF Reply, Told
    <2> QED
      BY <2>1, HealthPrints
  <1>7. CASE cmd = "cfg"
    <2>1. Reply(truth) = CfgLines(truth) /\ Told(cmd) = CfgTold
      BY <1>7, Zenon DEF Reply, Told
    <2> QED
      BY <2>1, CfgPrints
  <1>8. CASE cmd = "scan"
    <2>1. /\ Reply(truth) = <<TopologyLine>> \o ScanLines(truth, Scanned)
          /\ Told(cmd) = {TopologyLine} \cup ScanTold(Scanned)
      BY <1>8, Zenon DEF Reply, Told, TopologyLine
    <2>2. ScanLines(truth, Scanned) \in Seq(ScanTold(Scanned))
      <3>1. Scanned \in SUBSET Int /\ IsFiniteSet(Scanned)
        BY <1>8, ScanEnds
      <3> QED
        BY <3>1, ScanPrints DEF ScanTold
    <2>3. /\ <<TopologyLine>> \in Seq(Told(cmd))
          /\ ScanLines(truth, Scanned) \in Seq(Told(cmd))
      BY <2>1, <2>2, SeqMonotonic, OneOf
    <2> QED
      BY <2>1, <2>3, ConcatProperties
  <1>9. CASE cmd = "discover"
    <2>1. /\ Reply(truth) = IF truth.ok THEN ScanLines(truth, Candidates)
                                    ELSE <<Op(FALSE)>>
          /\ Told(cmd) = DiscoverTold
      BY <1>9, Zenon DEF Reply, Told
    <2>2. ScanLines(truth, Candidates) \in Seq(ScanTold(Candidates))
      <3>1. Candidates \in SUBSET Int /\ IsFiniteSet(Candidates)
        BY <1>9, ScanEnds
      <3> QED
        BY <3>1, ScanPrints DEF ScanTold
    <2> QED
      BY <2>1, <2>2, OneOf DEF DiscoverTold
  <1>10. CASE cmd \in {"stress", "stress_mix"}
    <2>1. Reply(truth) = StressLines(truth) /\ Told(cmd) = StressTold
      BY <1>10, Zenon DEF Reply, Told
    <2> QED
      BY <2>1, StressPrints
  <1>11. CASE cmd \in HilCommands
    <2>1. Reply(truth) = HilLines(truth) /\ Told(cmd) = HilTold
      BY <1>11, Zenon DEF Reply, Told, HilCommands
    <2>2. HilLines(truth) = HilBody(truth) \o <<Tally>>
      BY Zenon DEF HilLines, Tally
    <2>3. HilBody(truth) \in Seq(HilTold) /\ <<Tally>> \in Seq(HilTold)
      BY <1>11, HilPrints, SeqMonotonic, OneOf DEF HilTold
    <2> QED
      BY <2>1, <2>2, <2>3, ConcatProperties
  <1> QED
    BY <1>1, <1>2, <1>3, <1>4, <1>5, <1>6, <1>7, <1>8, <1>9, <1>10, <1>11
       DEF Commands, HilCommands

-----------------------------------------------------------------------------
(* The judgement of a reply keeps until the end                            *)

\* The verdict depends on the step and the lines alone.
LEMMA SameVerdict ==
    ASSUME step' = step, lines' = lines
    PROVE  Classified' = Classified
  <1>1. \A kind : At(kind)' = At(kind)
    BY DEF At
  <1>2. \A kind : One(kind)' = One(kind) /\ The(kind)' = The(kind)
    BY <1>1 DEF One, The
  <1>3. Kinds' = Kinds
    BY DEF Kinds
  <1>4. Addresses' = Addresses
    BY <1>1 DEF Addresses
  <1>5. \A kind, n : ExactRows(kind, n)' = ExactRows(kind, n)
    BY <1>1 DEF ExactRows
  <1>6. \A n : CountedFound(n)' = CountedFound(n)
    BY <1>1, <1>4 DEF CountedFound
  <1>7. Required' = Required /\ PerRound' = PerRound
        /\ Tokens' = Tokens
    BY DEF Required, PerRound, Tokens
  <1>8. Labels' = Labels
    BY <1>1 DEF Labels
  <1>9. HealthHolds' = HealthHolds /\ CfgHolds' = CfgHolds
    BY <1>1, <1>2, <1>5 DEF HealthHolds, CfgHolds
  <1>10. ScanHolds' = ScanHolds /\ DiscoverHolds' = DiscoverHolds
    BY <1>2, <1>4, <1>6 DEF ScanHolds, DiscoverHolds
  <1>11. StressHolds' = StressHolds
    BY <1>2, <1>7 DEF StressHolds, Transfers
  <1>12. HilHolds' = HilHolds
    BY <1>1, <1>2, <1>7, <1>8 DEF HilHolds
  <1>13. \A n : LossHolds(n)' = LossHolds(n)
    BY DEF LossHolds
  <1>14. Holds' = Holds
    BY <1>2, <1>9, <1>10, <1>11, <1>12, <1>13, Zenon DEF Holds
  <1>15. \A l : Failing(l)' = Failing(l)
    BY DEF Failing
  <1> QED
    BY <1>3, <1>7, <1>14, <1>15, Zenon DEF Classified

\* What may be printed depends on the step and on the truth alone.
LEMMA SameReply ==
    ASSUME step' = step, truth' = truth
    PROVE  /\ Reply(truth)' = Reply(truth)
           /\ Told(step.cmd)' = Told(step.cmd)
           /\ (Endings(step.cmd))' = Endings(step.cmd)
  <1>1. PerRound' = PerRound
    BY DEF PerRound
  <1>2. HilBody(truth)' = HilBody(truth)
    BY DEF HilBody
  <1>3. HilLines(truth)' = HilLines(truth)
    BY <1>2, Zenon DEF HilLines
  <1>4. StressLines(truth)' = StressLines(truth)
    BY <1>1 DEF StressLines
  <1>5. Reply(truth)' = Reply(truth)
    BY <1>3, <1>4, Zenon DEF Reply
  <1>6. \A kind, i : Row(kind, i)' = Row(kind, i)
    BY DEF Row
  <1>7. HealthTold' = HealthTold /\ CfgTold' = CfgTold
    BY <1>6 DEF HealthTold, CfgTold, AddressLine
  <1>8. \A all : ScanTold(all)' = ScanTold(all)
    BY DEF ScanTold
  <1>9. DiscoverTold' = DiscoverTold
    BY <1>8 DEF DiscoverTold
  <1>10. StressTold' = StressTold
    BY <1>1 DEF StressTold, Results, Delta, Session, StressEnd, CleanRounds
  <1>11. Tally' = Tally
    BY <1>2, Zenon DEF Tally
  <1>12. HilChecks' = HilChecks
    BY DEF HilChecks
  <1>13. HilTold' = HilTold
    BY <1>11, <1>12 DEF HilTold
  <1>14. Told(step.cmd)' = Told(step.cmd)
    BY <1>7, <1>8, <1>9, <1>10, <1>13, Zenon
       DEF Told, ReadLine, VerboseLine, ConsoleLine, TopologyLine
  <1> QED
    BY <1>5, <1>14

\* Until it is garbled, the reply is what the firmware printed; afterwards its
\* lines are still lines of that reply, or the mark of a loss.
ReplyInv ==
    /\ step.cmd \in Commands /\ truth \in Endings(step.cmd)
    /\ stage \in {"RUN", "WIRE", "JUDGED"} /\ (stage = "RUN" => garbled = FALSE)
    /\ stage # "RUN" =>
         /\ lines \in Seq(Told(step.cmd) \cup {LossMark})
         /\ garbled \/ lines = Reply(truth)
    /\ verdict = IF stage = "JUDGED" THEN Classified ELSE "NONE"

LEMMA ReplyStarts ==
    ASSUME ReplyInit PROVE ReplyInv
  <1>1. PICK cmd \in Commands, strict \in BOOLEAN :
          \E expect : /\ step = [cmd |-> cmd, strict |-> strict, expect |-> expect]
                      /\ truth \in Endings(cmd)
    BY Zenon DEF ReplyInit
  <1>2. step.cmd = cmd /\ truth \in Endings(cmd)
    BY <1>1
  <1>3. stage = "RUN" /\ garbled = FALSE /\ verdict = "NONE"
    BY Zenon DEF ReplyInit
  <1> QED
    BY <1>2, <1>3 DEF ReplyInv

LEMMA ReplyPrinted ==
    ASSUME ReplyInv, PrintReply PROVE ReplyInv'
  <1> DEFINE Y == Told(step.cmd) \cup {LossMark}
  <1>1. /\ stage' = "WIRE" /\ lines' = Reply(truth)
        /\ step' = step /\ truth' = truth /\ verdict' = verdict /\ verdict = "NONE"
    BY DEF ReplyInv, PrintReply
  <1>2. Reply(truth) \in Seq(Y)
    <2>1. Reply(truth) \in Seq(Told(step.cmd))
      BY ReplyTold DEF ReplyInv
    <2> QED
      BY <2>1, SeqMonotonic
  <1>3. /\ Told(step.cmd)' = Told(step.cmd) /\ Reply(truth)' = Reply(truth)
        /\ (Endings(step.cmd))' = Endings(step.cmd)
    BY <1>1, SameReply
  <1> HIDE DEF Y
  <1> QED
    BY <1>1, <1>2, <1>3 DEF ReplyInv, Y

LEMMA ReplyGarbled ==
    ASSUME ReplyInv, Garble PROVE ReplyInv'
  <1> DEFINE Y == Told(step.cmd) \cup {LossMark}
  <1>1. /\ stage = "WIRE" /\ stage' = "WIRE" /\ garbled' = TRUE
        /\ step' = step /\ truth' = truth /\ verdict' = verdict /\ verdict = "NONE"
    BY DEF ReplyInv, Garble
  <1>2. lines \in Seq(Y) /\ LossMark \in Y
    BY <1>1 DEF ReplyInv
  <1>3. PICK i \in DOMAIN lines :
          \/ lines' = RemoveAt(lines, i)
          \/ lines' = InsertAt(lines, i, lines[i])
          \/ \E j \in i .. Len(lines) :
               lines' = SubSeq(lines, 1, i - 1) \o <<LossMark>> \o SubSeq(lines, j + 1, Len(lines))
    BY Zenon DEF Garble
  <1> HIDE DEF Y
  <1>4. i \in 1 .. Len(lines) /\ Len(lines) \in Nat /\ lines[i] \in Y
    BY <1>2, ElementsOf
  <1>5. \A m \in 1 .. Len(lines) + 1, n \in 0 .. Len(lines) : SubSeq(lines, m, n) \in Seq(Y)
    BY <1>2
  <1>6. lines' \in Seq(Y)
    <2>1. CASE lines' = RemoveAt(lines, i)
      <3>1. lines' = SubSeq(lines, 1, i - 1) \o SubSeq(lines, i + 1, Len(lines))
        BY <2>1, Zenon DEF RemoveAt
      <3>2. SubSeq(lines, 1, i - 1) \in Seq(Y) /\ SubSeq(lines, i + 1, Len(lines)) \in Seq(Y)
        BY <1>4, <1>5
      <3> QED
        BY <3>1, <3>2, ConcatProperties
    <2>2. CASE lines' = InsertAt(lines, i, lines[i])
      <3>1. lines' = SubSeq(lines, 1, i - 1) \o <<lines[i]>> \o SubSeq(lines, i, Len(lines))
        BY <2>2, Zenon DEF InsertAt
      <3>2. SubSeq(lines, 1, i - 1) \in Seq(Y) /\ SubSeq(lines, i, Len(lines)) \in Seq(Y)
            /\ <<lines[i]>> \in Seq(Y)
        BY <1>4, <1>5, OneOf
      <3> QED
        BY <3>1, <3>2, ConcatProperties
    <2>3. CASE \E j \in i .. Len(lines) :
                 lines' = SubSeq(lines, 1, i - 1) \o <<LossMark>> \o SubSeq(lines, j + 1, Len(lines))
      <3>1. PICK j \in i .. Len(lines) :
              lines' = SubSeq(lines, 1, i - 1) \o <<LossMark>> \o SubSeq(lines, j + 1, Len(lines))
        BY <2>3, Zenon
      <3>2. SubSeq(lines, 1, i - 1) \in Seq(Y) /\ SubSeq(lines, j + 1, Len(lines)) \in Seq(Y)
            /\ <<LossMark>> \in Seq(Y)
        BY <1>2, <1>4, <1>5, OneOf
      <3> QED
        BY <3>1, <3>2, ConcatProperties
    <2> QED
      BY <1>3, <2>1, <2>2, <2>3, Zenon
  <1>7. /\ Told(step.cmd)' = Told(step.cmd)
        /\ (Endings(step.cmd))' = Endings(step.cmd)
    BY <1>1, SameReply
  <1> QED
    BY <1>1, <1>6, <1>7 DEF ReplyInv, Y

LEMMA ReplyKept ==
    ASSUME ReplyInv, [ReplyNext]_(replyVars) PROVE ReplyInv'
  <1>1. CASE PrintReply
    BY <1>1, ReplyPrinted
  <1>2. CASE Garble
    BY <1>2, ReplyGarbled
  <1>3. ASSUME step' = step, truth' = truth, lines' = lines, garbled' = garbled,
               \/ /\ stage # "RUN"
                  /\ stage' = "JUDGED" /\ verdict' = Classified
               \/ stage' = stage /\ verdict' = verdict
        PROVE  ReplyInv'
    <2>1. Classified' = Classified
      BY <1>3, SameVerdict
    <2>2. /\ Told(step.cmd)' = Told(step.cmd) /\ Reply(truth)' = Reply(truth)
          /\ (Endings(step.cmd))' = Endings(step.cmd)
      BY <1>3, SameReply
    <2> QED
      BY <1>3, <2>1, <2>2 DEF ReplyInv
  <1>4. CASE Judge
    <2>1. /\ stage = "WIRE" /\ stage' = "JUDGED" /\ verdict' = Classified
          /\ step' = step /\ truth' = truth /\ lines' = lines /\ garbled' = garbled
      BY <1>4 DEF Judge
    <2>2. stage # "RUN"
      BY <2>1
    <2> QED
      BY <1>3, <2>1, <2>2, Zenon
  <1>5. CASE UNCHANGED replyVars
    BY <1>3, <1>5 DEF replyVars
  <1> QED
    BY <1>1, <1>2, <1>4, <1>5 DEF ReplyNext

-----------------------------------------------------------------------------
(* A PASS is true                                                          *)

\* What a PASS has seen.
LEMMA PassSeen ==
    ASSUME ReplyInv, verdict = "PASS"
    PROVE  /\ Holds /\ \A l \in ToSet(lines) : ~Failing(l)
           /\ lines \in Seq(Told(step.cmd))
  <1> DEFINE Y == Told(step.cmd) \cup {LossMark}
  <1>1. stage = "JUDGED" /\ Classified = "PASS"
    BY DEF ReplyInv
  <1>2. Holds /\ \A l \in ToSet(lines) : ~Failing(l)
    BY <1>1, Zenon DEF Classified
  <1>3. Failing(LossMark)
    BY DEF Failing, LossMark, Line
  <1>4. lines \in Seq(ToSet(lines)) /\ ToSet(lines) \subseteq Y
    <2>1. lines \in Seq(Y)
      BY <1>1 DEF ReplyInv
    <2> HIDE DEF Y
    <2> QED
      BY <2>1, ElementsOf
  <1>5. ToSet(lines) \subseteq Told(step.cmd)
    BY <1>2, <1>3, <1>4
  <1>6. lines \in Seq(Told(step.cmd))
    BY <1>4, <1>5, SeqMonotonic
  <1> QED
    BY <1>2, <1>6, Zenon

\* The one line of a kind is a line of the reply.
LEMMA Said ==
    ASSUME NEW X, lines \in Seq(X), NEW kind, One(kind)
    PROVE  /\ The(kind) \in X /\ The(kind) \in ToSet(lines)
           /\ The(kind).kind = kind
  <1>1. PICK j \in DOMAIN lines : The(kind) = lines[j] /\ lines[j].kind = kind
    BY OneLine
  <1>2. lines[j] \in X /\ lines[j] \in ToSet(lines)
    BY <1>1, ElementsOf DEF ToSet
  <1> QED
    BY <1>1, <1>2

\* The rows of a table that is exact are good: none is odd.
LEMMA GoodRows ==
    ASSUME NEW kind, NEW n \in Nat, NEW last, last.kind # kind,
           lines \in Seq({Row(kind, i) : i \in 1 .. n} \cup {last}),
           ExactRows(kind, n), \A i \in At(kind) : lines[i].as = "GOOD",
           truth.odd \subseteq 1 .. n
    PROVE  truth.odd = {}
  <1> DEFINE X == {Row(kind, i) : i \in 1 .. n} \cup {last}
  <1>1. SUFFICES ASSUME NEW r \in 1 .. n PROVE r \notin truth.odd
    OBVIOUS
  <1>2. lines \in Seq(X)
    OBVIOUS
  <1>3. PICK i \in DOMAIN lines : lines[i].kind = kind /\ lines[i].row = r
    <2> HIDE DEF X
    <2> QED
      BY <1>2, EveryRow
  <1>4. lines[i] \in X
    <2> HIDE DEF X
    <2> QED
      BY <1>2, <1>3, ElementsOf
  <1>5. PICK k \in 1 .. n : lines[i] = Row(kind, k)
    BY <1>3, <1>4
  <1>6. k = r /\ lines[i].as = IF r \in truth.odd THEN "BAD" ELSE "GOOD"
    BY <1>3, <1>5 DEF Row
  <1>7. lines[i].as = "GOOD"
    BY <1>3, Zenon DEF At
  <1> QED
    BY <1>6, <1>7

LEMMA ShortTrue ==
    ASSUME ReplyInv, verdict = "PASS",
           step.cmd \in {"read", "op", "invalidate", "verbose", "console"}
    PROVE  Succeeded /\ (step.cmd = "read" => The("READ").mask = truth.mask)
  <1>1. Holds /\ lines \in Seq(Told(step.cmd)) /\ truth \in Endings(step.cmd)
    <2>1. truth \in Endings(step.cmd)
      BY Zenon DEF ReplyInv
    <2> QED
      BY <2>1, PassSeen, Zenon
  <1>2. CASE step.cmd = "read"
    <2>1. /\ One("READ") /\ The("READ").code = "OK"
          /\ step.expect \in {AnyMask, The("READ").mask}
      BY <1>1, <1>2, Zenon DEF Holds
    <2>2. lines \in Seq({ReadLine})
      BY <1>1, <1>2, Zenon DEF Told
    <2>3. The("READ") = ReadLine
      BY <2>1, <2>2, Said
    <2>4. truth.ok /\ The("READ").mask = truth.mask
      BY <2>1, <2>3 DEF ReadLine, Ok
    <2> QED
      BY <1>2, <2>1, <2>4, Zenon DEF Succeeded
  <1>3. CASE step.cmd = "op"
    <2>1. \E l \in ToSet(lines) : l = Op(TRUE)
      BY <1>1, <1>3, Zenon DEF Holds
    <2>2. lines \in Seq({Op(truth.ok)})
      BY <1>1, <1>3, Zenon DEF Told
    <2>3. Op(TRUE) \in {Op(truth.ok)}
      BY <2>1, <2>2, ElementsOf
    <2>4. truth.ok
      BY <2>3 DEF Op, Ok
    <2> QED
      BY <1>3, <2>4, Zenon DEF Succeeded
  <1>4. CASE step.cmd = "invalidate"
    <2>1. truth \in [ok : {TRUE}]
      BY <1>1, <1>4, Zenon DEF Endings
    <2>2. truth.ok
      BY <2>1
    <2> QED
      BY <1>4, <2>2, Zenon DEF Succeeded
  <1>5. CASE step.cmd = "verbose"
    <2>1. One("VERBOSE") /\ The("VERBOSE").set = step.expect
      BY <1>1, <1>5, Zenon DEF Holds
    <2>2. lines \in Seq({VerboseLine})
      BY <1>1, <1>5, Zenon DEF Told
    <2>3. The("VERBOSE") = VerboseLine
      BY <2>1, <2>2, Said
    <2>4. truth.set = step.expect
      BY <2>1, <2>3 DEF VerboseLine
    <2> QED
      BY <1>5, <2>4, Zenon DEF Succeeded
  <1>6. CASE step.cmd = "console"
    <2>1. /\ One("CONSOLE") /\ The("CONSOLE").connected
          /\ LossHolds(The("CONSOLE").lost)
      BY <1>1, <1>6, Zenon DEF Holds
    <2>2. lines \in Seq({ConsoleLine})
      BY <1>1, <1>6, Zenon DEF Told
    <2>3. The("CONSOLE") = ConsoleLine
      BY <2>1, <2>2, Said
    <2>4. The("CONSOLE").connected = truth.connected /\ The("CONSOLE").lost = truth.lost
      BY <2>3 DEF ConsoleLine
    <2> QED
      BY <1>6, <2>1, <2>4, Zenon DEF Succeeded
  <1> QED
    BY <1>2, <1>3, <1>4, <1>5, <1>6

LEMMA TablesTrue ==
    ASSUME ReplyInv, verdict = "PASS", step.cmd \in {"health", "cfg"}
    PROVE  Succeeded
  <1>1. Holds /\ lines \in Seq(Told(step.cmd)) /\ truth \in Endings(step.cmd)
    <2>1. truth \in Endings(step.cmd)
      BY Zenon DEF ReplyInv
    <2> QED
      BY <2>1, PassSeen, Zenon
  <1>2. CASE step.cmd = "health"
    <2>1. /\ ExactRows("HEALTH", HealthRows - 1)
          /\ \A i \in At("HEALTH") : lines[i].as = "GOOD"
      BY <1>1, <1>2, Zenon DEF Holds, HealthHolds
    <2>2. HealthRows - 1 = 8
      BY DEF HealthRows
    <2>3. lines \in Seq({Row("HEALTH", i) : i \in 1 .. 8} \cup {CacheLine("OBSERVED")})
      BY <1>1, <1>2, Zenon DEF Told, HealthTold
    <2>4. truth.odd \subseteq 1 .. 8
      <3>1. truth \in [odd : {{}} \cup {{i} : i \in 1 .. HealthRows - 1}]
        BY <1>1, <1>2, Zenon DEF Endings
      <3> QED
        BY <2>2, <3>1
    <2>5. CacheLine("OBSERVED").kind # "HEALTH"
      BY DEF CacheLine
    <2>6. ExactRows("HEALTH", 8)
      BY <2>1, <2>2, Zenon
    <2>7. truth.odd = {}
      BY <2>1, <2>3, <2>4, <2>5, <2>6, GoodRows
    <2> QED
      BY <1>2, <2>7, Zenon DEF Succeeded
  <1>3. CASE step.cmd = "cfg"
    <2>1. /\ ExactRows("CFG", 6) /\ \A i \in At("CFG") : lines[i].as = "GOOD"
          /\ One("ADDRESS") /\ The("ADDRESS").address = Configured
      BY <1>1, <1>3, Zenon DEF Holds, CfgHolds
    <2>2. lines \in Seq({Row("CFG", i) : i \in 1 .. 6} \cup {AddressLine})
      BY <1>1, <1>3, Zenon DEF Told, CfgTold
    <2>3. truth.odd \subseteq 1 .. 6
      <3>1. truth \in [odd : {{}} \cup {{i} : i \in 1 .. 6}, target : Candidates]
        BY <1>1, <1>3, Zenon DEF Endings
      <3> QED
        BY <3>1
    <2>4. AddressLine.kind # "CFG"
      BY DEF AddressLine
    <2>5. truth.odd = {}
      BY <2>1, <2>2, <2>3, <2>4, GoodRows
    <2>6. The("ADDRESS") \in {Row("CFG", i) : i \in 1 .. 6} \cup {AddressLine}
          /\ The("ADDRESS").kind = "ADDRESS"
      BY <2>1, <2>2, Said
    <2>7. \A i : Row("CFG", i).kind = "CFG"
      BY DEF Row
    <2>8. The("ADDRESS") = AddressLine
      BY <2>6, <2>7
    <2>9. truth.target = Configured
      BY <2>1, <2>8 DEF AddressLine
    <2> QED
      BY <1>3, <2>5, <2>9, Zenon DEF Succeeded
  <1> QED
    BY <1>2, <1>3

\* The lines at the end of a scan.
ScanDone(all) ==
    [kind |-> IF Cardinality(Reached(truth, all)) = Cardinality(all)
              THEN "COMPLETE" ELSE "ABORTED",
     devices |-> Cardinality(Acked(truth, all)), errors |-> Errors(truth)]
CleanScan == truth.ok /\ Errors(truth) = 0
Detection(all) ==
    LET n == Cardinality(Reached(truth, all))
        acks == Cardinality(Acked(truth, all))
    IN  [kind |-> "DETECTION", tested |-> n, ack |-> acks, absent |-> n - acks - Errors(truth),
         errors |-> Errors(truth), target |-> truth.target, answer |-> Answer(truth, all)]
ScanEnd(all) ==
    End(CleanScan, Cardinality(Reached(truth, all)), Cardinality(all))

LEMMA SummaryIs ==
    ASSUME NEW all
    PROVE  ScanSummary(truth, all) =
             <<ScanDone(all), Op(CleanScan), Detection(all), ScanEnd(all)>>
  BY Zenon DEF ScanSummary, ScanDone, CleanScan, Detection, ScanEnd

\* Of each kind a scan prints lines of one shape.
LEMMA ScanSays ==
    ASSUME NEW all, NEW l \in {TopologyLine} \cup ScanTold(all)
    PROVE  /\ l.kind = "COMPLETE" => l = ScanDone(all)
           /\ l.kind = "TOPOLOGY" => l = TopologyLine
           /\ l.kind = "DETECTION" => l = Detection(all)
           /\ l.kind = "FOUND" => l.address \in Acked(truth, all)
  <1> DEFINE acked == Acked(truth, all)
  <1>1. ToSet(ScanSummary(truth, all)) =
          {ScanDone(all), Op(CleanScan), Detection(all), ScanEnd(all)}
    BY SummaryIs, Four
  <1>2. l \in {Found(a) : a \in acked}
          \cup {TopologyLine, ScanError(truth.errorAt), ScanDone(all),
                Op(CleanScan), Detection(all), ScanEnd(all)}
    BY <1>1 DEF ScanTold
  <1>3. /\ TopologyLine.kind = "TOPOLOGY" /\ ScanError(truth.errorAt).kind = "SCAN_ERROR"
        /\ Op(CleanScan).kind = "OP" /\ ScanEnd(all).kind = "END"
    BY DEF TopologyLine, ScanError, Op, ScanEnd, End
  <1>4. ScanDone(all).kind \in {"COMPLETE", "ABORTED"}
    BY DEF ScanDone
  <1>5. Detection(all).kind = "DETECTION"
    BY DEF Detection
  <1>6. CASE l \in {Found(a) : a \in acked}
    <2>1. l.kind = "FOUND" /\ l.address \in acked
      BY <1>6 DEF Found
    <2> QED
      BY <2>1
  <1>7. CASE l \in {TopologyLine, ScanError(truth.errorAt), ScanDone(all),
                    Op(CleanScan), Detection(all), ScanEnd(all)}
    BY <1>3, <1>4, <1>5, <1>7
  <1> QED
    BY <1>2, <1>6, <1>7

\* A clean scan found as many addresses as answered, so it found them all.
LEMMA AllFound ==
    ASSUME NEW cmd \in {"scan", "discover"}, truth \in Endings(cmd),
           NEW all, all = IF cmd = "scan" THEN Scanned ELSE Candidates,
           lines \in Seq({TopologyLine} \cup ScanTold(all)),
           truth.ok, Errors(truth) = 0,
           CountedFound(Cardinality(Acked(truth, all)))
    PROVE  truth.errorAt = 0 /\ Addresses = truth.present
  <1>1. /\ truth.present \in SUBSET all /\ all \in SUBSET (1 .. LastAddress) /\ IsFiniteSet(all)
        /\ LastAddress \in Nat
    BY ScanEnds, VerdictAssumption
  <1>2. truth.errorAt = 0
    BY DEF Errors, NoError
  <1>3. Acked(truth, all) = truth.present
    BY <1>1, <1>2 DEF Acked, Reached, NoError
  <1>4. Addresses \subseteq truth.present
    <2>1. SUFFICES ASSUME NEW i \in At("FOUND") PROVE lines[i].address \in truth.present
      BY Zenon DEF Addresses
    <2>2. i \in DOMAIN lines /\ lines[i].kind = "FOUND"
      BY Zenon DEF At
    <2>3. lines[i] \in {TopologyLine} \cup ScanTold(all)
      BY <2>2, ElementsOf
    <2> QED
      BY <1>3, <2>2, <2>3, ScanSays
  <1>5. Cardinality(Addresses) = Cardinality(truth.present)
    BY <1>3, Zenon DEF CountedFound
  <1>6. IsFiniteSet(truth.present)
    BY <1>1, FS_Subset
  <1> QED
    BY <1>2, <1>4, <1>5, <1>6, FS_Subset

LEMMA ScansTrue ==
    ASSUME ReplyInv, verdict = "PASS", step.cmd \in {"scan", "discover"}
    PROVE  /\ Succeeded /\ Addresses = truth.present
           /\ step.cmd = "scan" => The("TOPOLOGY").mask = truth.mask
  <1>1. Holds /\ lines \in Seq(Told(step.cmd)) /\ truth \in Endings(step.cmd)
    <2>1. truth \in Endings(step.cmd)
      BY Zenon DEF ReplyInv
    <2> QED
      BY <2>1, PassSeen, Zenon
  <1>2. CASE step.cmd = "scan"
    <2> DEFINE all == Scanned
    <2>1. /\ One("COMPLETE") /\ The("COMPLETE").errors = 0
          /\ CountedFound(The("COMPLETE").devices)
          /\ One("TOPOLOGY") /\ The("TOPOLOGY").code = "OK"
          /\ Configured \in Addresses
      BY <1>1, <1>2, Zenon DEF Holds, ScanHolds
    <2>2. lines \in Seq({TopologyLine} \cup ScanTold(all))
      BY <1>1, <1>2, Zenon DEF Told
    <2>3. The("COMPLETE") = ScanDone(all) /\ The("TOPOLOGY") = TopologyLine
      BY <2>1, <2>2, Said, ScanSays
    <2>4. truth.ok /\ The("TOPOLOGY").mask = truth.mask
      BY <2>1, <2>3 DEF TopologyLine, Ok
    <2>5. /\ The("COMPLETE").errors = Errors(truth)
          /\ The("COMPLETE").devices = Cardinality(Acked(truth, all))
      BY <2>3 DEF ScanDone
    <2>6. /\ Errors(truth) = 0
          /\ CountedFound(Cardinality(Acked(truth, all)))
      BY <2>1, <2>5, Zenon
    <2>7. truth \in Endings("scan")
      BY <1>1, <1>2, Zenon
    <2>8. truth.errorAt = 0 /\ Addresses = truth.present
      BY <2>2, <2>4, <2>6, <2>7, AllFound
    <2>9. truth.target = Configured
      <3>1. truth \in [ok : BOOLEAN, mask : Masks, present : SUBSET Scanned,
                       errorAt : {NoError} \cup Scanned, target : {Configured}]
        BY <2>7, Zenon DEF Endings
      <3> QED
        BY <3>1
    <2>10. truth.errorAt = NoError
      BY <2>8 DEF NoError
    <2>11. Succeeded
      BY <1>2, <2>1, <2>4, <2>8, <2>9, <2>10, Zenon DEF Succeeded
    <2> QED
      BY <2>4, <2>8, <2>11
  <1>3. CASE step.cmd = "discover"
    <2> DEFINE all == Candidates
               d == The("DETECTION")
    <2>1. /\ One("DETECTION") /\ d.errors = 0 /\ CountedFound(d.ack)
          /\ d.answer = (IF d.target \in Addresses THEN "yes" ELSE "no")
          /\ d.target = Configured /\ d.answer = "yes"
      BY <1>1, <1>3, Zenon DEF Holds, DiscoverHolds
    <2>2. lines \in Seq(DiscoverTold)
      BY <1>1, <1>3, Zenon DEF Told
    <2>3. d \in DiscoverTold /\ d.kind = "DETECTION"
      BY <2>1, <2>2, Said
    <2>4. truth.ok /\ DiscoverTold = ScanTold(all)
      <3>1. Op(FALSE).kind # "DETECTION"
        BY DEF Op
      <3>2. truth.ok
        BY <2>3, <3>1, Zenon DEF DiscoverTold
      <3> QED
        BY <3>2, Zenon DEF DiscoverTold
    <2>5. lines \in Seq({TopologyLine} \cup ScanTold(all))
      BY <2>2, <2>4, SeqMonotonic
    <2>6. d = Detection(all)
      BY <2>3, <2>4, ScanSays
    <2>7. /\ d.errors = Errors(truth) /\ d.target = truth.target
          /\ d.ack = Cardinality(Acked(truth, all))
      BY <2>6 DEF Detection
    <2> HIDE DEF d
    <2>8. /\ Errors(truth) = 0
          /\ CountedFound(Cardinality(Acked(truth, all)))
      BY <2>1, <2>7, Zenon
    <2>9. truth \in Endings("discover")
      BY <1>1, <1>3, Zenon
    <2>10. truth.errorAt = 0 /\ Addresses = truth.present
      BY <2>4, <2>5, <2>8, <2>9, AllFound
    <2>11. truth.errorAt = NoError
      BY <2>10 DEF NoError
    <2>12. truth.target = Configured /\ Configured \in truth.present
      BY <2>1, <2>7, <2>10
    <2>13. Succeeded
      BY <1>3, <2>4, <2>11, <2>12, Zenon DEF Succeeded
    <2> QED
      BY <1>3, <2>10, <2>13
  <1> QED
    BY <1>2, <1>3

LEMMA StressTrue ==
    ASSUME ReplyInv, verdict = "PASS", step.cmd \in {"stress", "stress_mix"}
    PROVE  Succeeded
  <1>1. Holds /\ lines \in Seq(Told(step.cmd))
    BY PassSeen, Zenon
  <1>2. /\ One("RESULTS") /\ The("RESULTS").completed = Count
        /\ The("RESULTS").status = "OK"
    BY <1>1, Zenon DEF Holds, StressHolds
  <1>3. lines \in Seq(StressTold)
    BY <1>1, Zenon DEF Told
  <1>4. The("RESULTS") \in StressTold /\ The("RESULTS").kind = "RESULTS"
    BY <1>2, <1>3, Said
  <1>5. /\ Delta.kind = "DELTA" /\ Session.kind = "SESSION" /\ SafeOffFailed.kind = "CHECK"
        /\ StressEnd.kind = "END"
    BY DEF Delta, Session, SafeOffFailed, StressEnd, Check, End
  <1>6. The("RESULTS") = Results
    BY <1>4, <1>5 DEF StressTold
  <1>7. truth.rounds = Count /\ ~truth.spoiled /\ truth.safeOff
    BY <1>2, <1>6 DEF Results, CleanRounds, Ok
  <1> QED
    BY <1>7, Zenon DEF Succeeded

\* A label that passed is not one that failed.
LEMMA PassedLabel ==
    ASSUME lines \in Seq(HilTold), NEW l \in Labels
    PROVE  l \notin truth.failing /\ ("hardReset" \in truth.failing => l \notin Reset)
  <1>1. PICK i \in DOMAIN lines : lines[i].kind = "CHECK" /\ lines[i].as = "PASS" /\ lines[i].label = l
    BY Zenon DEF Labels, At
  <1>2. lines[i] \in HilChecks \cup {Tally}
    BY <1>1, ElementsOf DEF HilTold
  <1>3. Tally.kind = "HIL"
    BY DEF Tally
  <1>4. \A k : Skip(k).as = "SKIP"
    BY DEF Skip
  <1> DEFINE labels == {k \in Static \cup Parser \cup Probe \cup Mask \cup Reset
                                \cup {"hardReset", RestoreCheck} :
                          "hardReset" \in truth.failing => k \notin Reset}
  <1>5. lines[i] \in Checks(labels, truth.failing)
    <2>1. lines[i] \in Checks(labels, truth.failing)
            \cup {Skip(k) : k \in {"probe", "mask I/O", "hardReset"}}
      BY <1>1, <1>2, <1>3 DEF HilChecks
    <2> HIDE DEF labels
    <2> QED
      BY <1>1, <1>4, <2>1
  <1>6. PICK k \in labels : lines[i] = Check(k, k \notin truth.failing)
    <2> HIDE DEF labels
    <2> QED
      BY <1>5 DEF Checks
  <1>7. k = l /\ k \notin truth.failing
    BY <1>1, <1>6 DEF Check
  <1> QED
    BY <1>7

LEMMA HilTrue ==
    ASSUME ReplyInv, verdict = "PASS", step.cmd \in HilCommands
    PROVE  Succeeded
  <1>1. Holds /\ lines \in Seq(Told(step.cmd)) /\ truth \in Endings(step.cmd)
    <2>1. truth \in Endings(step.cmd)
      BY Zenon DEF ReplyInv
    <2> QED
      BY <2>1, PassSeen, Zenon
  <1>2. Required \subseteq Labels
    BY <1>1, Zenon DEF Holds, HilHolds, HilCommands
  <1>3. lines \in Seq(HilTold)
    BY <1>1, Zenon DEF Told, HilCommands
  <1>4. \A l \in Required :
          l \notin truth.failing /\ ("hardReset" \in truth.failing => l \notin Reset)
    BY <1>2, <1>3, PassedLabel
  <1>5. /\ step.cmd = "hil parser" => Parser \subseteq Required
        /\ step.cmd \in {"hil run", "hil run reset"} =>
             Probe \cup Mask \cup {RestoreCheck} \subseteq Required
        /\ step.cmd = "hil run reset" => Reset \subseteq Required
    BY DEF Required, Parser, Probe, Mask, Reset
  <1>6. CASE step.cmd = "hil run"
    <2>1. truth.failing \cap Required = {}
      BY <1>4
    <2> QED
      BY <1>6, <2>1, Zenon DEF Succeeded
  <1>7. CASE step.cmd # "hil run"
    <2>1. truth.failing = {}
      <3>1. CASE step.cmd = "hil dry"
        BY <1>1, <3>1, HilEnds
      <3>2. CASE step.cmd = "hil parser"
        BY <1>1, <1>4, <1>5, <3>2, HilEnds
      <3>3. CASE step.cmd = "hil run reset"
        <4>1. "hardReset" \notin truth.failing
          BY <1>4, <1>5, <3>3, LabelFacts
        <4>2. truth.failing \subseteq {"hardReset", RestoreCheck} \cup Probe \cup Mask \cup Reset
          BY <1>1, <3>3, HilEnds
        <4> QED
          BY <1>4, <1>5, <3>3, <4>1, <4>2
      <3> QED
        BY <1>7, <3>1, <3>2, <3>3 DEF HilCommands
    <2> QED
      BY <1>7, <2>1, Zenon DEF Succeeded, HilCommands
  <1> QED
    BY <1>6, <1>7

\* A PASS means that the operation succeeded, and the mask and the addresses the
\* runner took from the reply are the real ones: whatever a line was lost or doubled.
THEOREM VerdictIsTrueAlways ==
    ReplySpec => []VerdictIsTrue
  <1>1. ReplyInit => ReplyInv
    BY ReplyStarts
  <1>2. ReplyInv /\ [ReplyNext]_(replyVars) => ReplyInv'
    BY ReplyKept
  <1>3. ReplyInv => VerdictIsTrue
    <2>1. SUFFICES ASSUME ReplyInv, verdict = "PASS"
                   PROVE  /\ Succeeded
                          /\ step.cmd = "read" => The("READ").mask = truth.mask
                          /\ step.cmd = "scan" => /\ The("TOPOLOGY").mask = truth.mask
                                                   /\ Addresses = truth.present
                          /\ step.cmd = "discover" => Addresses = truth.present
      BY Zenon DEF VerdictIsTrue
    <2>2. step.cmd \in Commands
      BY <2>1, Zenon DEF ReplyInv
    <2>3. CASE step.cmd \in {"read", "op", "invalidate", "verbose", "console"}
      BY <2>1, <2>3, ShortTrue
    <2>4. CASE step.cmd \in {"health", "cfg"}
      BY <2>1, <2>4, TablesTrue
    <2>5. CASE step.cmd \in {"scan", "discover"}
      BY <2>1, <2>5, ScansTrue
    <2>6. CASE step.cmd \in {"stress", "stress_mix"}
      BY <2>1, <2>6, StressTrue
    <2>7. CASE step.cmd \in HilCommands
      BY <2>1, <2>7, HilTrue DEF HilCommands
    <2> QED
      BY <2>2, <2>3, <2>4, <2>5, <2>6, <2>7 DEF Commands, HilCommands
  <1> QED
    BY <1>1, <1>2, <1>3, PTL DEF ReplySpec

-----------------------------------------------------------------------------
(* A success passes                                                        *)

\* Two replies glued together.
LEMMA Glued ==
    ASSUME NEW X, NEW a \in Seq(X), NEW b \in Seq(X)
    PROVE  /\ a \o b \in Seq(X) /\ Len(a \o b) = Len(a) + Len(b)
           /\ \A i \in 1 .. Len(a) : (a \o b)[i] = a[i]
           /\ \A i \in 1 .. Len(b) : (a \o b)[Len(a) + i] = b[i]
           /\ ToSet(a \o b) = ToSet(a) \cup ToSet(b)
  <1> DEFINE s == a \o b
  <1>1. Len(a) \in Nat /\ Len(b) \in Nat /\ DOMAIN a = 1 .. Len(a) /\ DOMAIN b = 1 .. Len(b)
    BY ElementsOf
  <1>2. s \in Seq(X) /\ Len(s) = Len(a) + Len(b)
    BY ConcatProperties
  <1>3. /\ \A i \in 1 .. Len(a) : s[i] = a[i]
        /\ \A i \in 1 .. Len(b) : s[Len(a) + i] = b[i]
    BY <1>1, <1>2
  <1>4. DOMAIN s = 1 .. Len(a) + Len(b)
    BY <1>2, ElementsOf
  <1> HIDE DEF s
  <1>5. ToSet(a) \cup ToSet(b) \subseteq ToSet(s)
    <2>1. \A i \in 1 .. Len(a) : i \in DOMAIN s
      BY <1>1, <1>4
    <2>2. \A i \in 1 .. Len(b) : Len(a) + i \in DOMAIN s
      BY <1>1, <1>4
    <2>3. ToSet(a) \subseteq ToSet(s)
      BY <1>1, <1>3, <2>1 DEF ToSet
    <2>4. ToSet(b) \subseteq ToSet(s)
      BY <1>1, <1>3, <2>2 DEF ToSet
    <2> QED
      BY <2>3, <2>4
  <1>6. ToSet(s) \subseteq ToSet(a) \cup ToSet(b)
    <2>1. SUFFICES ASSUME NEW i \in DOMAIN s PROVE s[i] \in ToSet(a) \cup ToSet(b)
      BY DEF ToSet
    <2>2. CASE i \in 1 .. Len(a)
      BY <1>1, <1>3, <2>2 DEF ToSet
    <2>3. CASE i \notin 1 .. Len(a)
      <3>1. i - Len(a) \in 1 .. Len(b) /\ i = Len(a) + (i - Len(a))
        BY <1>1, <1>4, <2>3
      <3>2. s[i] = b[i - Len(a)]
        BY <1>3, <3>1
      <3> QED
        BY <1>1, <3>1, <3>2 DEF ToSet
    <2> QED
      BY <2>2, <2>3
  <1> QED
    BY <1>2, <1>3, <1>5, <1>6 DEF s

\* What makes a reply pass.
LEMMA Passes ==
    ASSUME \A l \in ToSet(lines) : ~Failing(l),
           Tokens \subseteq Kinds, Holds
    PROVE  Classified = "PASS"
  BY Zenon DEF Classified

LEMMA OneLineReply ==
    ASSUME NEW l, lines = <<l>>
    PROVE  /\ ToSet(lines) = {l} /\ One(l.kind) /\ The(l.kind) = l
  <1>1. DOMAIN lines = {1} /\ lines[1] = l
    OBVIOUS
  <1>2. ToSet(lines) = {l}
    BY <1>1 DEF ToSet
  <1>3. At(l.kind) = {1}
    BY <1>1 DEF At
  <1> QED
    BY <1>1, <1>2, <1>3, OnlyLine

LEMMA ShortPasses ==
    ASSUME lines = Reply(truth), Succeeded, truth \in Endings(step.cmd),
           step.cmd \in {"read", "op", "invalidate", "verbose", "console"}
    PROVE  Classified = "PASS"
  <1>1. Tokens \subseteq Kinds
    <2>1. Tokens = {}
      BY Zenon DEF Tokens
    <2> QED
      BY <2>1
  <1>2. CASE step.cmd = "read"
    <2>1. lines = <<ReadLine>> /\ truth.ok /\ step.expect \in {AnyMask, truth.mask}
      BY <1>2, Zenon DEF Reply, ReadLine, Succeeded
    <2>2. ReadLine.kind = "READ" /\ ReadLine.code = "OK" /\ ReadLine.mask = truth.mask
      BY <2>1 DEF ReadLine, Ok
    <2>3. ToSet(lines) = {ReadLine} /\ One("READ") /\ The("READ") = ReadLine
      BY <2>1, <2>2, OneLineReply
    <2>4. ~Failing(ReadLine)
      BY <2>2 DEF Failing
    <2>5. Holds
      BY <1>2, <2>1, <2>2, <2>3, Zenon DEF Holds
    <2> QED
      BY <1>1, <2>3, <2>4, <2>5, Passes
  <1>3. CASE step.cmd = "op"
    <2>1. lines = <<Op(truth.ok)>> /\ truth.ok
      BY <1>3, Zenon DEF Reply, Succeeded
    <2>2. Op(truth.ok) = Op(TRUE) /\ ~Failing(Op(TRUE))
      BY <2>1 DEF Op, Ok, Failing
    <2>3. ToSet(lines) = {Op(TRUE)}
      BY <2>1, <2>2, OneLineReply
    <2>4. \E l \in ToSet(lines) : l = Op(TRUE)
      BY <2>3
    <2>5. Holds
      BY <1>3, <2>4, Zenon DEF Holds
    <2> QED
      BY <1>1, <2>2, <2>3, <2>5, Passes
  <1>4. CASE step.cmd = "invalidate"
    <2>1. lines = <<Op(TRUE), CacheLine("UNKNOWN")>>
      BY <1>4, Zenon DEF Reply, CacheLine
    <2>2. /\ Op(TRUE).kind = "OP" /\ Op(TRUE).code = "OK"
          /\ CacheLine("UNKNOWN").kind = "CACHE" /\ CacheLine("UNKNOWN").provenance = "UNKNOWN"
      BY DEF Op, Ok, CacheLine
    <2>3. ~Failing(Op(TRUE)) /\ ~Failing(CacheLine("UNKNOWN"))
      BY <2>2 DEF Failing
    <2>4. ToSet(lines) = {Op(TRUE), CacheLine("UNKNOWN")}
      BY <2>1, Two
    <2>5. DOMAIN lines = {1, 2} /\ lines[1] = Op(TRUE) /\ lines[2] = CacheLine("UNKNOWN")
      BY <2>1
    <2>6. At("CACHE") = {2}
      BY <2>2, <2>5 DEF At
    <2>7. One("CACHE") /\ The("CACHE").provenance = "UNKNOWN"
      BY <2>2, <2>5, <2>6, OnlyLine
    <2>8. \E l \in ToSet(lines) : l = Op(TRUE)
      BY <2>4
    <2>9. Holds
      BY <1>4, <2>7, <2>8, Zenon DEF Holds
    <2> QED
      BY <1>1, <2>3, <2>4, <2>9, Passes
  <1>5. CASE step.cmd = "verbose"
    <2>1. lines = <<VerboseLine>> /\ truth.set = step.expect
      BY <1>5, Zenon DEF Reply, VerboseLine, Succeeded
    <2>2. VerboseLine.kind = "VERBOSE" /\ VerboseLine.set = truth.set
      BY DEF VerboseLine
    <2>3. ToSet(lines) = {VerboseLine} /\ One("VERBOSE") /\ The("VERBOSE") = VerboseLine
      BY <2>1, <2>2, OneLineReply
    <2>4. ~Failing(VerboseLine)
      BY <2>2 DEF Failing
    <2>5. Holds
      BY <1>5, <2>1, <2>2, <2>3, Zenon DEF Holds
    <2> QED
      BY <1>1, <2>3, <2>4, <2>5, Passes
  <1>6. CASE step.cmd = "console"
    <2>1. lines = <<ConsoleLine>> /\ truth.connected /\ LossHolds(truth.lost)
      BY <1>6, Zenon DEF Reply, ConsoleLine, Succeeded
    <2>2. /\ ConsoleLine.kind = "CONSOLE" /\ ConsoleLine.connected = truth.connected
          /\ ConsoleLine.lost = truth.lost
      BY DEF ConsoleLine
    <2>3. ToSet(lines) = {ConsoleLine} /\ One("CONSOLE") /\ The("CONSOLE") = ConsoleLine
      BY <2>1, <2>2, OneLineReply
    <2>4. ~Failing(ConsoleLine)
      BY <2>2 DEF Failing
    <2>5. Holds
      BY <1>6, <2>1, <2>2, <2>3, Zenon DEF Holds
    <2> QED
      BY <1>1, <2>3, <2>4, <2>5, Passes
  <1> QED
    BY <1>2, <1>3, <1>4, <1>5, <1>6

\* A table, with one more line behind it.
Table(kind, n, last) == [i \in 1 .. n |-> Row(kind, i)] \o <<last>>

LEMMA Tabled ==
    ASSUME NEW kind, NEW n \in Nat, NEW last, last.kind # kind, truth.odd = {},
           lines = Table(kind, n, last)
    PROVE  /\ ExactRows(kind, n) /\ \A i \in At(kind) : lines[i].as = "GOOD"
           /\ One(last.kind) /\ The(last.kind) = last
           /\ \A l \in ToSet(lines) : l = last \/ l.kind = kind
  <1> DEFINE rows == [i \in 1 .. n |-> Row(kind, i)]
             X == {Row(kind, i) : i \in 1 .. n} \cup {last}
  <1>1. \A i : /\ Row(kind, i).kind = kind /\ Row(kind, i).row = i
               /\ Row(kind, i).as = "GOOD"
    BY DEF Row
  <1>2. rows \in Seq(X) /\ <<last>> \in Seq(X) /\ Len(rows) = n /\ Len(<<last>>) = 1
    <2>1. (\A i \in 1 .. n : Row(kind, i) \in X) /\ last \in X
      OBVIOUS
    <2> HIDE DEF X
    <2> QED
      BY <2>1
  <1>3. lines = rows \o <<last>> /\ \A i \in 1 .. n : rows[i] = Row(kind, i)
    BY DEF Table
  <1> HIDE DEF rows
  <1>4. lines \in Seq(X) /\ Len(lines) = n + 1
    <2> HIDE DEF X
    <2> QED
      BY <1>2, <1>3, Glued
  <1>5. \A i \in 1 .. n : lines[i] = Row(kind, i)
    <2>1. \A i \in 1 .. n : lines[i] = rows[i]
      <3> HIDE DEF X
      <3> QED
        BY <1>2, <1>3, Glued
    <2> QED
      BY <1>3, <2>1
  <1>6. lines[n + 1] = last
    <2> HIDE DEF X
    <2>1. \A i \in 1 .. 1 : lines[n + i] = <<last>>[i]
      BY <1>2, <1>3, Glued
    <2> QED
      BY <2>1
  <1>7. DOMAIN lines = 1 .. n + 1
    <2> HIDE DEF X
    <2> QED
      BY <1>4, ElementsOf
  <1>8. \A i \in 1 .. n + 1 : i = n + 1 \/ i \in 1 .. n
    OBVIOUS
  <1>9. At(kind) = 1 .. n
    <2>1. \A i \in 1 .. n : i \in 1 .. n + 1
      OBVIOUS
    <2> QED
      BY <1>1, <1>5, <1>6, <1>7, <1>8, <2>1 DEF At
  <1>10. At(last.kind) = {n + 1}
    <2>1. n + 1 \in 1 .. n + 1
      OBVIOUS
    <2> QED
      BY <1>1, <1>5, <1>6, <1>7, <1>8, <2>1 DEF At
  <1>11. ExactRows(kind, n)
    BY <1>1, <1>5, <1>9, RowsInOrder
  <1>12. One(last.kind) /\ The(last.kind) = last
    BY <1>6, <1>10, OnlyLine
  <1>13. \A l \in ToSet(lines) : l = last \/ l.kind = kind
    BY <1>1, <1>5, <1>6, <1>7, <1>8 DEF ToSet
  <1> QED
    BY <1>1, <1>5, <1>9, <1>11, <1>12, <1>13

LEMMA TablesPass ==
    ASSUME lines = Reply(truth), Succeeded, step.cmd \in {"health", "cfg"}
    PROVE  Classified = "PASS"
  <1>1. Tokens \subseteq Kinds
    <2>1. Tokens = {}
      BY Zenon DEF Tokens
    <2> QED
      BY <2>1
  <1>2. CASE step.cmd = "health"
    <2> DEFINE last == CacheLine("OBSERVED")
    <2>1. lines = HealthLines(truth) /\ truth.odd = {}
      BY <1>2, Zenon DEF Reply, Succeeded
    <2>2. HealthRows - 1 = 8
      BY DEF HealthRows
    <2>3. lines = Table("HEALTH", 8, last)
      BY <2>1, <2>2, Zenon DEF HealthLines, Table, Row, CacheLine
    <2>4. last.kind = "CACHE"
      BY DEF CacheLine
    <2> HIDE DEF last
    <2>5. /\ ExactRows("HEALTH", 8) /\ \A i \in At("HEALTH") : lines[i].as = "GOOD"
          /\ One("CACHE") /\ \A l \in ToSet(lines) : l = last \/ l.kind = "HEALTH"
      BY <2>1, <2>3, <2>4, Tabled, SMTT(60)
    <2>6. \A l \in ToSet(lines) : ~Failing(l)
      BY <2>4, <2>5 DEF Failing
    <2>7. Holds
      BY <1>2, <2>2, <2>5, Zenon DEF Holds, HealthHolds
    <2> QED
      BY <1>1, <2>6, <2>7, Passes
  <1>3. CASE step.cmd = "cfg"
    <2>1. lines = CfgLines(truth) /\ truth.odd = {} /\ truth.target = Configured
      BY <1>3, Zenon DEF Reply, Succeeded
    <2>2. lines = Table("CFG", 6, AddressLine)
      BY <2>1, Zenon DEF CfgLines, Table, Row, AddressLine
    <2>3. AddressLine.kind = "ADDRESS" /\ AddressLine.address = Configured
      BY <2>1 DEF AddressLine
    <2>4. /\ ExactRows("CFG", 6) /\ \A i \in At("CFG") : lines[i].as = "GOOD"
          /\ One("ADDRESS") /\ The("ADDRESS") = AddressLine
          /\ \A l \in ToSet(lines) : l = AddressLine \/ l.kind = "CFG"
      <3>1. AddressLine.kind # "CFG"
        BY <2>3
      <3>2. /\ ExactRows("CFG", 6) /\ \A i \in At("CFG") : lines[i].as = "GOOD"
            /\ One(AddressLine.kind) /\ The(AddressLine.kind) = AddressLine
            /\ \A l \in ToSet(lines) : l = AddressLine \/ l.kind = "CFG"
        BY <2>1, <2>2, <3>1, Tabled
      <3> QED
        BY <2>3, <3>2, Zenon
    <2>5. \A l \in ToSet(lines) : ~Failing(l)
      BY <2>3, <2>4 DEF Failing
    <2>6. Holds
      BY <1>3, <2>3, <2>4, Zenon DEF Holds, CfgHolds
    <2> QED
      BY <1>1, <2>5, <2>6, Passes
  <1> QED
    BY <1>2, <1>3

ThreeThen(a, b, c, d) == (<<a, b, c>> \o <<>>) \o <<d>>

LEMMA ThreeThenOne ==
    ASSUME NEW s, NEW a, NEW b, NEW c, NEW d, s = ThreeThen(a, b, c, d)
    PROVE  /\ DOMAIN s = {1, 2, 3, 4} /\ s[1] = a /\ s[2] = b /\ s[3] = c /\ s[4] = d
           /\ ToSet(s) = {a, b, c, d}
  <1> DEFINE first == <<a, b, c>>
             last == <<d>>
             X == {a, b, c, d}
  <1>1. first \o <<>> = first
    BY ThreeOf, ConcatEmptySeq
  <1>2. first \in Seq(X) /\ last \in Seq(X)
    OBVIOUS
  <1>3. /\ Len(first) = 3 /\ Len(last) = 1
        /\ first[1] = a /\ first[2] = b /\ first[3] = c /\ last[1] = d
    OBVIOUS
  <1> HIDE DEF first, last, X
  <1>a. s = first \o last
    BY <1>1, Zenon DEF first, last, ThreeThen
  <1>4. /\ s \in Seq(X) /\ Len(s) = 3 + 1
        /\ \A i \in 1 .. 3 : s[i] = first[i]
        /\ \A i \in 1 .. 1 : s[3 + i] = last[i]
    <2>1. /\ first \o last \in Seq(X)
          /\ Len(first \o last) = Len(first) + Len(last)
          /\ \A i \in 1 .. Len(first) : (first \o last)[i] = first[i]
          /\ \A i \in 1 .. Len(last) : (first \o last)[Len(first) + i] = last[i]
      BY <1>2, Glued
    <2> QED
      BY <1>3, <1>a, <2>1, Zenon
  <1>5. DOMAIN s = {1, 2, 3, 4}
    BY <1>4, ElementsOf
  <1>6. s[1] = a /\ s[2] = b /\ s[3] = c /\ s[4] = d
    BY <1>3, <1>4
  <1>7. ToSet(s) = {a, b, c, d}
    BY <1>5, <1>6 DEF ToSet
  <1> QED
    BY <1>5, <1>6, <1>7

LEMMA StressPasses ==
    ASSUME lines = Reply(truth), Succeeded, truth \in Endings(step.cmd),
           step.cmd \in {"stress", "stress_mix"}
    PROVE  Classified = "PASS"
  <1>1. truth.rounds = Count /\ ~truth.spoiled /\ truth.safeOff
    BY Zenon DEF Succeeded
  <1>2. lines = ThreeThen(Results, Delta, Session, StressEnd)
    BY <1>1, Zenon DEF Reply, StressLines, Results, Delta, Session, StressEnd,
                       CleanRounds, ThreeThen
  <1>3. CleanRounds /\ truth.failures = 0 /\ truth.rest = 2
    <2>1. truth \in StressEndings
      BY Zenon DEF Endings
    <2> QED
      BY <1>1, <2>1 DEF StressEndings, CleanRounds
  <1>4. /\ Results.kind = "RESULTS" /\ Results.completed = Count /\ Results.requested = Count
        /\ Results.status = "OK" /\ Results.safeOff = "OK"
    BY <1>1, <1>3 DEF Results, Ok
  <1>5. Delta.kind = "DELTA" /\ Delta.failures = 0
    BY <1>3 DEF Delta
  <1>6. Session.kind = "SESSION" /\ Session.failures = 0 /\ Session.success = Transfers
    BY <1>1, <1>3 DEF Session, Transfers
  <1>7. StressEnd.kind = "END" /\ StressEnd.outcome = "PASS"
    BY <1>1, <1>3 DEF StressEnd, End
  <1>8. /\ DOMAIN lines = {1, 2, 3, 4} /\ lines[1] = Results /\ lines[2] = Delta
        /\ lines[3] = Session /\ lines[4] = StressEnd
        /\ ToSet(lines) = {Results, Delta, Session, StressEnd}
    BY <1>2, ThreeThenOne
  <1>10. /\ ~Failing(Results) /\ ~Failing(Delta) /\ ~Failing(Session)
         /\ ~Failing(StressEnd)
    <2>1. ~Failing(Results) /\ ~Failing(StressEnd)
      BY <1>4, <1>7 DEF Failing
    <2>2. ~Failing(Delta) /\ ~Failing(Session)
      BY <1>5, <1>6 DEF Failing
    <2> QED
      BY <2>1, <2>2
  <1>11. /\ At("RESULTS") = {1} /\ At("DELTA") = {2} /\ At("SESSION") = {3}
    BY <1>4, <1>5, <1>6, <1>7, <1>8 DEF At
  <1>12. /\ One("RESULTS") /\ The("RESULTS") = Results
         /\ One("DELTA") /\ The("DELTA") = Delta
         /\ One("SESSION") /\ The("SESSION") = Session
    BY <1>8, <1>11, OnlyLine
  <1>13. Holds
    BY <1>4, <1>5, <1>6, <1>12, Zenon DEF Holds, StressHolds
  <1>14. Tokens \subseteq Kinds
    <2>1. Tokens = {"RESULTS", "DELTA"}
      BY Zenon DEF Tokens
    <2>2. "RESULTS" \in Kinds /\ "DELTA" \in Kinds
      BY <1>4, <1>5, <1>8 DEF Kinds
    <2> QED
      BY <2>1, <2>2
  <1> QED
    BY <1>8, <1>10, <1>13, <1>14, Passes

\* OneOf line for each device found, in ascending order.
FoundLines(S) == [i \in 1 .. Cardinality(S) |-> Found(Ascending(S)[i])]

LEMMA FoundEach ==
    ASSUME NEW S \in SUBSET Int, IsFiniteSet(S)
    PROVE  /\ FoundLines(S) \in Seq({Found(a) : a \in S})
           /\ Len(FoundLines(S)) = Cardinality(S) /\ Cardinality(S) \in Nat
           /\ ToSet(FoundLines(S)) = {Found(a) : a \in S}
  <1> DEFINE n == Cardinality(S)
             s == Ascending(S)
             f == FoundLines(S)
             X == {Found(a) : a \in S}
  <1>1. n \in Nat /\ (\A i \in 1 .. n : s[i] \in S) /\ \A a \in S : \E i \in 1 .. n : s[i] = a
    BY InOrder
  <1>2. f = [i \in 1 .. n |-> Found(s[i])]
    BY Zenon DEF FoundLines
  <1> HIDE DEF n, s, f
  <1>3. \A i \in 1 .. n : Found(s[i]) \in X
    BY <1>1
  <1>4. f \in Seq(X) /\ Len(f) = n /\ DOMAIN f = 1 .. n
    <2> HIDE DEF X
    <2> QED
      BY <1>1, <1>2, <1>3
  <1>5. \A i \in 1 .. n : f[i] = Found(s[i])
    BY <1>2
  <1>6. ToSet(f) = X
    <2>1. ToSet(f) \subseteq X
      <3> HIDE DEF X
      <3> QED
        BY <1>3, <1>4, <1>5 DEF ToSet
    <2>2. ASSUME NEW a \in S PROVE Found(a) \in ToSet(f)
      <3>1. PICK i \in 1 .. n : s[i] = a
        BY <1>1
      <3>2. i \in DOMAIN f /\ f[i] = Found(a)
        BY <1>4, <1>5, <3>1
      <3> QED
        BY <3>2 DEF ToSet
    <2>3. X \subseteq ToSet(f)
      BY <2>2
    <2> QED
      BY <2>1, <2>3
  <1> QED
    BY <1>1, <1>4, <1>6 DEF n, f

\* Where the parts of a scan's reply are.
InParts(head, found, a, b, c, d) == head \o ((found \o <<>>) \o <<a, b, c, d>>)

Parted(s, head, found, a, b, c, d) ==
    LET p == Len(head)
        n == Len(found)
    IN  /\ DOMAIN s = 1 .. p + n + 4
        /\ \A i \in 1 .. p : s[i] = head[i]
        /\ \A i \in 1 .. n : s[p + i] = found[i]
        /\ s[p + n + 1] = a /\ s[p + n + 2] = b /\ s[p + n + 3] = c /\ s[p + n + 4] = d
        /\ ToSet(s) = ToSet(head) \cup ToSet(found) \cup {a, b, c, d}

LEMMA ThreeParts ==
    ASSUME NEW X, NEW head \in Seq(X), NEW found \in Seq(X),
           NEW a \in X, NEW b \in X, NEW c \in X, NEW d \in X, NEW s,
           s = InParts(head, found, a, b, c, d)
    PROVE  Parted(s, head, found, a, b, c, d)
  <1>0. \A u, v \in Seq(X) :
          /\ u \o v \in Seq(X) /\ Len(u \o v) = Len(u) + Len(v)
          /\ \A i \in 1 .. Len(u) : (u \o v)[i] = u[i]
          /\ \A i \in 1 .. Len(v) : (u \o v)[Len(u) + i] = v[i]
          /\ ToSet(u \o v) = ToSet(u) \cup ToSet(v)
    BY Glued
  <1> DEFINE p == Len(head)
             n == Len(found)
             summary == <<a, b, c, d>>
             tail == found \o summary
  <1>1. /\ summary \in Seq(X) /\ Len(summary) = 4 /\ summary[1] = a /\ summary[2] = b
        /\ summary[3] = c /\ summary[4] = d
    OBVIOUS
  <1>2. ToSet(summary) = {a, b, c, d}
    BY Four
  <1>3. s = head \o tail
    <2>1. found \o <<>> = found
      BY ConcatEmptySeq
    <2> QED
      BY <2>1, Zenon DEF InParts
  <1>4. p \in Nat /\ n \in Nat
    BY ElementsOf
  <1> HIDE DEF p, n, summary
  <1>5. /\ tail \in Seq(X) /\ Len(tail) = n + 4
        /\ \A i \in 1 .. n : tail[i] = found[i]
        /\ \A i \in 1 .. 4 : tail[n + i] = summary[i]
        /\ ToSet(tail) = ToSet(found) \cup {a, b, c, d}
    <2>1. /\ tail \in Seq(X) /\ Len(tail) = Len(found) + Len(summary)
          /\ \A i \in 1 .. Len(found) : tail[i] = found[i]
          /\ \A i \in 1 .. Len(summary) : tail[Len(found) + i] = summary[i]
          /\ ToSet(tail) = ToSet(found) \cup ToSet(summary)
      BY <1>1, Glued
    <2> HIDE DEF tail
    <2> QED
      BY <1>1, <1>2, <2>1, Zenon DEF n
  <1> HIDE DEF tail
  <1>6. /\ s \in Seq(X) /\ Len(s) = p + (n + 4)
        /\ \A i \in 1 .. p : s[i] = head[i]
        /\ \A i \in 1 .. n + 4 : s[p + i] = tail[i]
        /\ ToSet(s) = ToSet(head) \cup ToSet(tail)
    <2>1. /\ head \o tail \in Seq(X) /\ Len(head \o tail) = Len(head) + Len(tail)
          /\ \A i \in 1 .. Len(head) : (head \o tail)[i] = head[i]
          /\ \A i \in 1 .. Len(tail) : (head \o tail)[Len(head) + i] = tail[i]
          /\ ToSet(head \o tail) = ToSet(head) \cup ToSet(tail)
      BY <1>0, <1>5, Zenon
    <2> QED
      BY <1>3, <1>5, <2>1, Zenon DEF p
  <1>7. DOMAIN s = 1 .. p + n + 4
    <2>1. DOMAIN s = 1 .. Len(s)
      BY <1>6, ElementsOf
    <2> QED
      BY <1>4, <1>6, <2>1
  <1>8. \A i \in 1 .. n : s[p + i] = found[i]
    <2>1. \A i \in 1 .. n : i \in 1 .. n + 4
      BY <1>4
    <2> QED
      BY <1>5, <1>6, <2>1
  <1>9. ASSUME NEW i \in 1 .. 4 PROVE s[p + n + i] = summary[i]
    <2>1. n + i \in 1 .. n + 4 /\ p + (n + i) = p + n + i
      BY <1>4
    <2>2. s[p + (n + i)] = tail[n + i] /\ tail[n + i] = summary[i]
      BY <1>5, <1>6, <2>1
    <2> QED
      BY <2>1, <2>2
  <1>10. s[p + n + 1] = a /\ s[p + n + 2] = b /\ s[p + n + 3] = c /\ s[p + n + 4] = d
    <2>1. 1 \in 1 .. 4 /\ 2 \in 1 .. 4 /\ 3 \in 1 .. 4 /\ 4 \in 1 .. 4
      OBVIOUS
    <2> QED
      BY <1>1, <1>9, <2>1, Zenon
  <1> QED
    BY <1>5, <1>6, <1>7, <1>8, <1>10, Zenon DEF Parted, p, n

ScanKinds(p, n) ==
    /\ DOMAIN lines = 1 .. p + n + 4
    /\ \A i \in 1 .. p : lines[i].kind = "TOPOLOGY"
    /\ \A k \in 1 .. n : lines[p + k].kind = "FOUND"
    /\ lines[p + n + 1].kind = "COMPLETE" /\ lines[p + n + 2].kind = "OP"
    /\ lines[p + n + 3].kind = "DETECTION" /\ lines[p + n + 4].kind = "END"

LEMMA ScanPlaces ==
    ASSUME NEW p \in Nat, NEW n \in Nat, ScanKinds(p, n)
    PROVE  /\ At("COMPLETE") = {p + n + 1} /\ At("DETECTION") = {p + n + 3}
           /\ At("END") = {p + n + 4} /\ At("TOPOLOGY") = 1 .. p
           /\ At("FOUND") = p + 1 .. p + n
  <1>0. /\ DOMAIN lines = 1 .. p + n + 4
        /\ \A i \in 1 .. p : lines[i].kind = "TOPOLOGY"
        /\ \A k \in 1 .. n : lines[p + k].kind = "FOUND"
        /\ lines[p + n + 1].kind = "COMPLETE" /\ lines[p + n + 2].kind = "OP"
        /\ lines[p + n + 3].kind = "DETECTION" /\ lines[p + n + 4].kind = "END"
    BY Zenon DEF ScanKinds
  <1>1. \A i \in p + 1 .. p + n : lines[i].kind = "FOUND"
    <2>1. \A i \in p + 1 .. p + n : i - p \in 1 .. n /\ i = p + (i - p)
      OBVIOUS
    <2>2. ASSUME NEW i \in p + 1 .. p + n PROVE lines[i].kind = "FOUND"
      <3>1. lines[p + (i - p)].kind = "FOUND"
        BY <1>0, <2>1, Zenon
      <3>2. i = p + (i - p)
        BY <2>1
      <3> QED
        BY <3>1, <3>2, Zenon
    <2> QED
      BY <2>2
  <1>2. ASSUME NEW i \in DOMAIN lines
        PROVE  \/ i \in 1 .. p /\ lines[i].kind = "TOPOLOGY"
               \/ i \in p + 1 .. p + n /\ lines[i].kind = "FOUND"
               \/ i = p + n + 1 /\ lines[i].kind = "COMPLETE"
               \/ i = p + n + 2 /\ lines[i].kind = "OP"
               \/ i = p + n + 3 /\ lines[i].kind = "DETECTION"
               \/ i = p + n + 4 /\ lines[i].kind = "END"
    <2>1. i \in 1 .. p \/ i \in p + 1 .. p + n
          \/ i = p + n + 1 \/ i = p + n + 2 \/ i = p + n + 3 \/ i = p + n + 4
      BY <1>0
    <2> QED
      BY <1>0, <1>1, <2>1, Zenon
  <1>3. /\ p + n + 1 \in DOMAIN lines /\ p + n + 3 \in DOMAIN lines
        /\ p + n + 4 \in DOMAIN lines /\ \A i \in 1 .. p : i \in DOMAIN lines
        /\ \A i \in p + 1 .. p + n : i \in DOMAIN lines
    BY <1>0
  <1>4. At("COMPLETE") = {p + n + 1}
    BY <1>0, <1>2, <1>3 DEF At
  <1>5. At("DETECTION") = {p + n + 3}
    BY <1>0, <1>2, <1>3 DEF At
  <1>6. At("END") = {p + n + 4}
    BY <1>0, <1>2, <1>3 DEF At
  <1>7. At("TOPOLOGY") = 1 .. p
    BY <1>0, <1>2, <1>3 DEF At
  <1>8. At("FOUND") = p + 1 .. p + n
    BY <1>0, <1>1, <1>2, <1>3 DEF At
  <1> QED
    BY <1>4, <1>5, <1>6, <1>7, <1>8

\* The whole of a scan without an error, behind p lines that say the topology.
LEMMA ScanShape ==
    ASSUME NEW all, IsFiniteSet(all), all \subseteq Int, 0 \notin all, truth.present \in SUBSET all,
           truth.ok, truth.errorAt = 0, truth.target \in truth.present,
           NEW p \in Nat, NEW head \in Seq({TopologyLine}), Len(head) = p,
           lines = head \o ScanLines(truth, all)
    PROVE  LET n == Cardinality(truth.present)
               total == Cardinality(all)
           IN  /\ CountedFound(n) /\ Addresses = truth.present
               /\ One("COMPLETE")
               /\ The("COMPLETE") = [kind |-> "COMPLETE", devices |-> n, errors |-> 0]
               /\ One("DETECTION")
               /\ The("DETECTION") =
                    [kind |-> "DETECTION", tested |-> total, ack |-> n, absent |-> total - n - 0,
                     errors |-> 0, target |-> truth.target, answer |-> "yes"]
               /\ n \in Nat /\ total \in Nat
               /\ One("END") /\ The("END") = End(TRUE, total, total)
               /\ At("TOPOLOGY") = 1 .. p /\ \A i \in 1 .. p : lines[i] = TopologyLine
               /\ \A l \in ToSet(lines) : l = TopologyLine \/ ~Failing(l)
  <1> DEFINE n == Cardinality(truth.present)
             total == Cardinality(all)
             found == FoundLines(truth.present)
             done == [kind |-> "COMPLETE", devices |-> n, errors |-> 0]
             op == Op(TRUE)
             detection == [kind |-> "DETECTION", tested |-> total, ack |-> n, absent |-> total - n - 0,
                           errors |-> 0, target |-> truth.target, answer |-> "yes"]
             end == End(TRUE, total, total)
             summary == <<done, op, detection, end>>
  <1>1. IsFiniteSet(truth.present) /\ truth.present \subseteq Int
    BY FS_Subset
  <1>2. n = Cardinality(truth.present) /\ total = Cardinality(all) /\ n \in Nat /\ total \in Nat
    BY <1>1, FS_CardinalityType
  <1>3. Errors(truth) = 0 /\ CleanScan = TRUE
    BY DEF Errors, NoError, CleanScan
  <1>4. Reached(truth, all) = all /\ Acked(truth, all) = truth.present
    BY DEF Acked, Reached, NoError
  <1>5. Answer(truth, all) = "yes"
    <2>1. truth.target \in Reached(truth, all) /\ truth.target # truth.errorAt
      BY <1>4
    <2> QED
      BY <2>1, Zenon DEF Answer
  <1>6. ScanLines(truth, all) = (found \o <<>>) \o summary
    <2>1. ScanDone(all) = done
      BY <1>3, <1>4, Zenon DEF ScanDone
    <2>2. Detection(all) = detection
      BY <1>3, <1>4, <1>5, Zenon DEF Detection
    <2>3. ScanEnd(all) = end /\ Op(CleanScan) = op
      BY <1>3, <1>4, Zenon DEF ScanEnd
    <2>4. ScanSummary(truth, all) = summary
      BY <2>1, <2>2, <2>3, SummaryIs, Zenon
    <2>5. (IF Errors(truth) = 1 THEN <<ScanError(truth.errorAt)>> ELSE <<>>) = <<>>
      BY <1>3
    <2> HIDE DEF summary
    <2> QED
      BY <1>4, <2>4, <2>5, Zenon DEF ScanLines, FoundLines
  <1>7. done.kind = "COMPLETE" /\ op.kind = "OP" /\ detection.kind = "DETECTION" /\ end.kind = "END"
    BY DEF Op, End
  <1>8. ~Failing(done) /\ ~Failing(op) /\ ~Failing(detection) /\ ~Failing(end)
    BY DEF Failing, Op, Ok, End
  <1> DEFINE F == {Found(a) : a \in truth.present}
             X == F \cup {TopologyLine, done, op, detection, end}
  <1>9. /\ \A l \in F : l.kind = "FOUND" /\ l.address \in truth.present
        /\ \A a \in truth.present : Found(a) \in F /\ Found(a).address = a
    BY DEF Found
  <1>10. TopologyLine.kind = "TOPOLOGY"
    BY DEF TopologyLine
  <1>11. found \in Seq(F) /\ Len(found) = n /\ ToSet(found) = F
    BY <1>1, <1>2, FoundEach
  <1> HIDE DEF n, total, found, done, op, detection, end
  <1>12. /\ F \subseteq X /\ TopologyLine \in X /\ done \in X /\ op \in X /\ detection \in X
         /\ end \in X
    OBVIOUS
  <1> HIDE DEF F, X
  <1>13. head \in Seq(X) /\ found \in Seq(X)
    BY <1>11, <1>12, SeqMonotonic
  <1>15. /\ DOMAIN lines = 1 .. p + n + 4
         /\ \A i \in 1 .. p : lines[i] = head[i]
         /\ \A i \in 1 .. n : lines[p + i] = found[i]
         /\ lines[p + n + 1] = done /\ lines[p + n + 2] = op /\ lines[p + n + 3] = detection
         /\ lines[p + n + 4] = end
         /\ ToSet(lines) = ToSet(head) \cup ToSet(found) \cup {done, op, detection, end}
    <2>1. lines = InParts(head, found, done, op, detection, end)
      BY <1>6, Zenon DEF InParts
    <2>2. done \in X /\ op \in X /\ detection \in X /\ end \in X /\ head \in Seq(X) /\ found \in Seq(X)
      BY <1>12, <1>13
    <2>3. /\ DOMAIN lines = 1 .. Len(head) + Len(found) + 4
          /\ \A i \in 1 .. Len(head) : lines[i] = head[i]
          /\ \A i \in 1 .. Len(found) : lines[Len(head) + i] = found[i]
          /\ lines[Len(head) + Len(found) + 1] = done /\ lines[Len(head) + Len(found) + 2] = op
          /\ lines[Len(head) + Len(found) + 3] = detection
          /\ lines[Len(head) + Len(found) + 4] = end
          /\ ToSet(lines) = ToSet(head) \cup ToSet(found) \cup {done, op, detection, end}
      <3>1. Parted(lines, head, found, done, op, detection, end)
        BY <2>1, <2>2, ThreeParts
      <3> QED
        BY <3>1, Zenon DEF Parted
    <2> QED
      BY <1>11, <2>3, Zenon
  <1>16. \A i \in 1 .. p : head[i] = TopologyLine
    <2>1. \A i \in 1 .. p : head[i] \in {TopologyLine}
      BY ElementsOf
    <2> QED
      BY <2>1
  <1>17. ToSet(head) \subseteq {TopologyLine}
    BY ElementsOf
  <1>18. \A i \in 1 .. p : lines[i] = TopologyLine
    BY <1>15, <1>16
  <1>19. \A i \in 1 .. n : found[i] \in F
    BY <1>11, ElementsOf
  <1>20. /\ \A i \in 1 .. p : lines[i].kind = "TOPOLOGY"
         /\ \A k \in 1 .. n : lines[p + k].kind = "FOUND"
    <2>1. \A i \in 1 .. p : lines[i].kind = "TOPOLOGY"
      BY <1>10, <1>18, Zenon
    <2>2. \A k \in 1 .. n : lines[p + k].kind = "FOUND"
      BY <1>9, <1>15, <1>19, Zenon
    <2> QED
      BY <2>1, <2>2, Zenon
  <1>21. /\ lines[p + n + 1].kind = "COMPLETE" /\ lines[p + n + 2].kind = "OP"
         /\ lines[p + n + 3].kind = "DETECTION" /\ lines[p + n + 4].kind = "END"
    BY <1>7, <1>15, Zenon
  <1>26. /\ At("COMPLETE") = {p + n + 1} /\ At("DETECTION") = {p + n + 3}
         /\ At("END") = {p + n + 4} /\ At("TOPOLOGY") = 1 .. p
         /\ At("FOUND") = p + 1 .. p + n
    <2>1. n \in Nat
      BY <1>2
    <2> QED
      <3>1. ScanKinds(p, n)
        BY <1>15, <1>20, <1>21, Zenon DEF ScanKinds
      <3> QED
        BY <2>1, <3>1, ScanPlaces
  <1>28. Addresses = truth.present
    <2>1. Addresses \subseteq truth.present
      <3>1. SUFFICES ASSUME NEW i \in p + 1 .. p + n PROVE lines[i].address \in truth.present
        BY <1>26 DEF Addresses
      <3>2. i - p \in 1 .. n /\ i = p + (i - p)
        BY <1>2
      <3>3. lines[i] \in F
        <4>1. lines[p + (i - p)] \in F
          BY <1>15, <1>19, <3>2, Zenon
        <4> QED
          BY <3>2, <4>1, Zenon
      <3> QED
        BY <1>9, <3>3
    <2>2. ASSUME NEW a \in truth.present PROVE a \in Addresses
      <3>1. Found(a) \in ToSet(found)
        BY <1>9, <1>11
      <3>2. PICK k \in 1 .. n : found[k] = Found(a)
        BY <1>11, <3>1, ElementsOf DEF ToSet
      <3>3. p + k \in At("FOUND") /\ lines[p + k].address = a
        <4>1. p + k \in p + 1 .. p + n
          BY <1>2
        <4>2. lines[p + k] = Found(a)
          BY <1>15, <3>2, Zenon
        <4> QED
          BY <1>9, <1>26, <4>1, <4>2
      <3> QED
        BY <3>3 DEF Addresses
    <2> QED
      BY <2>1, <2>2
  <1>29. CountedFound(n)
    <2>2. Cardinality(p + 1 .. p + n) = n
      <3>1. p + 1 \in Int /\ p + n \in Int
        BY <1>2
      <3>2. Cardinality(p + 1 .. p + n) = IF p + 1 > p + n THEN 0 ELSE (p + n) - (p + 1) + 1
        BY <3>1, FS_Interval
      <3> QED
        BY <1>2, <3>2
    <2>3. n = Cardinality(Addresses)
      BY <1>2, <1>28
    <2> QED
      BY <1>26, <2>2, <2>3, Zenon DEF CountedFound
  <1>30. /\ One("COMPLETE") /\ The("COMPLETE") = done
         /\ One("DETECTION") /\ The("DETECTION") = detection
         /\ One("END") /\ The("END") = end
    <2>1. /\ The("COMPLETE") = lines[p + n + 1] /\ One("COMPLETE")
          /\ The("DETECTION") = lines[p + n + 3] /\ One("DETECTION")
          /\ The("END") = lines[p + n + 4] /\ One("END")
      BY <1>26, OnlyLine
    <2> QED
      BY <1>15, <2>1, Zenon
  <1>31. \A l \in ToSet(lines) : l = TopologyLine \/ ~Failing(l)
    <2>1. \A l \in F : ~Failing(l)
      BY <1>9 DEF Failing
    <2> QED
      BY <1>8, <1>11, <1>15, <1>17, <2>1
  <1> QED
    BY <1>2, <1>18, <1>26, <1>28, <1>29, <1>30, <1>31 DEF n, total, done, detection, end

LEMMA OneKind ==
    ASSUME NEW kind, One(kind) PROVE kind \in Kinds
  BY OneLine DEF Kinds

LEMMA ScansPass ==
    ASSUME lines = Reply(truth), Succeeded,
           truth \in Endings(step.cmd), step.cmd \in {"scan", "discover"}
    PROVE  Classified = "PASS"
  <1> DEFINE all == IF step.cmd = "scan" THEN Scanned ELSE Candidates
             n == Cardinality(truth.present)
             total == Cardinality(all)
             c == [kind |-> "COMPLETE", devices |-> n, errors |-> 0]
             d == [kind |-> "DETECTION", tested |-> total, ack |-> n, absent |-> total - n - 0,
                   errors |-> 0, target |-> truth.target, answer |-> "yes"]
  <1>1. /\ truth.ok /\ truth.errorAt = NoError
        /\ truth.target = Configured /\ Configured \in truth.present
    BY Zenon DEF Succeeded
  <1>2. /\ all \in SUBSET (1 .. LastAddress) /\ IsFiniteSet(all)
        /\ truth.present \in SUBSET all /\ LastAddress \in Nat
    BY ScanEnds, VerdictAssumption
  <1> HIDE DEF all
  <1>3. /\ truth.errorAt = 0 /\ truth.target \in truth.present
        /\ all \subseteq Int /\ 0 \notin all
    BY <1>1, <1>2 DEF NoError
  <1>4. TopologyLine.kind = "TOPOLOGY" /\ TopologyLine.code = "OK"
    BY <1>1 DEF TopologyLine, Ok
  <1>5. ~Failing(TopologyLine)
    BY <1>4 DEF Failing
  <1>6. c.devices = n /\ c.errors = 0
    OBVIOUS
  <1>7. /\ d.tested = total /\ d.ack = n /\ d.errors = 0 /\ d.target = Configured /\ d.answer = "yes"
        /\ d.absent = total - n - 0
    BY <1>1
  <1> HIDE DEF c, d, n, total
  <1>8. CASE step.cmd = "scan"
    <2>1. lines = <<TopologyLine>> \o ScanLines(truth, all)
      BY <1>8, Zenon DEF Reply, TopologyLine, all
    <2>2. <<TopologyLine>> \in Seq({TopologyLine}) /\ Len(<<TopologyLine>>) = 1
      OBVIOUS
    <2>3. /\ CountedFound(n) /\ Addresses = truth.present
          /\ One("COMPLETE") /\ The("COMPLETE") = c
          /\ At("TOPOLOGY") = 1 .. 1 /\ \A i \in 1 .. 1 : lines[i] = TopologyLine
          /\ \A l \in ToSet(lines) : l = TopologyLine \/ ~Failing(l)
      BY <1>1, <1>2, <1>3, <2>1, <2>2, ScanShape DEF n, c
    <2>4. One("TOPOLOGY") /\ The("TOPOLOGY") = TopologyLine
      <3>1. 1 .. 1 = {1}
        OBVIOUS
      <3>2. At("TOPOLOGY") = {1} /\ lines[1] = TopologyLine
        BY <2>3, <3>1
      <3> QED
        BY <3>2, OnlyLine
    <2>5. Holds
      BY <1>1, <1>4, <1>6, <1>8, <2>3, <2>4, Zenon DEF Holds, ScanHolds
    <2>6. Tokens \subseteq Kinds
      <3>1. Tokens = {"TOPOLOGY", "COMPLETE"}
        BY <1>8, Zenon DEF Tokens
      <3> QED
        BY <2>3, <2>4, <3>1, OneKind
    <2> QED
      BY <1>5, <2>3, <2>5, <2>6, Passes
  <1>9. CASE step.cmd = "discover"
    <2>1. lines = <<>> \o ScanLines(truth, all)
      <3>1. lines = ScanLines(truth, all)
        BY <1>1, <1>9, Zenon DEF Reply, all
      <3>2. \E X : ScanLines(truth, all) \in Seq(X)
        BY <1>2, <1>3, ScanPrints
      <3> QED
        BY <3>1, <3>2, ConcatEmptySeq
    <2>2. <<>> \in Seq({TopologyLine}) /\ Len(<<>>) = 0
      OBVIOUS
    <2>3. /\ CountedFound(n) /\ Addresses = truth.present
          /\ One("COMPLETE") /\ The("COMPLETE") = c
          /\ One("DETECTION") /\ The("DETECTION") = d
          /\ n \in Nat /\ total \in Nat
          /\ One("END") /\ The("END") = End(TRUE, total, total)
          /\ \A l \in ToSet(lines) : l = TopologyLine \/ ~Failing(l)
      BY <1>1, <1>2, <1>3, <2>1, <2>2, ScanShape DEF n, c, d, total
    <2>4. d.ack + d.absent = total
      BY <1>7, <2>3
    <2>5. all = Candidates
      BY <1>9 DEF all
    <2>6. Addresses \subseteq Candidates
      BY <1>2, <2>3, <2>5
    <2>7. d.answer = (IF d.target \in Addresses THEN "yes" ELSE "no")
      BY <1>1, <1>7, <2>3
    <2>8. DiscoverHolds
      BY <1>6, <1>7, <2>3, <2>4, <2>5, <2>6, <2>7, Zenon DEF DiscoverHolds, total
    <2>9. Holds
      BY <1>9, <2>8, Zenon DEF Holds
    <2>10. Tokens \subseteq Kinds
      <3>1. Tokens = {"DETECTION", "END"}
        BY <1>9, Zenon DEF Tokens
      <3> QED
        BY <2>3, <3>1, OneKind
    <2> QED
      BY <1>5, <2>3, <2>9, <2>10, Passes
  <1> QED
    BY <1>8, <1>9

\* The body of a report: checks that passed, what was skipped, checks that passed.
AllLabels == Static \cup Parser \cup Probe \cup Mask \cup Reset \cup {RestoreCheck}
PassLines == {Check(l, TRUE) : l \in AllLabels}
SkipLines == {Skip(l) : l \in {"probe", "mask I/O", "hardReset"}}
AllPass(labels) == [i \in 1 .. Len(labels) |-> Check(labels[i], TRUE)]

LEMMA AllPassLines ==
    ASSUME NEW Y, NEW labels \in Seq(Y), Y \subseteq AllLabels
    PROVE  /\ AllPass(labels) \in Seq(PassLines)
           /\ \A l \in ToSet(labels) : Check(l, TRUE) \in ToSet(AllPass(labels))
  <1>1. DOMAIN labels = 1 .. Len(labels) /\ Len(labels) \in Nat
    BY ElementsOf
  <1>2. \A i \in 1 .. Len(labels) : labels[i] \in AllLabels
    BY <1>1, ElementsOf
  <1>3. \A i \in 1 .. Len(labels) : Check(labels[i], TRUE) \in PassLines
    BY <1>2, Zenon DEF PassLines
  <1>4. AllPass(labels) \in Seq(PassLines)
    <2> DEFINE check(i) == Check(labels[i], TRUE)
               n == Len(labels)
    <2>1. AllPass(labels) = [i \in 1 .. n |-> check(i)]
      BY Zenon DEF AllPass
    <2>2. n \in Nat /\ \A i \in 1 .. n : check(i) \in PassLines
      BY <1>1, <1>3
    <2> HIDE DEF check, n
    <2> QED
      BY <2>1, <2>2
  <1>5. ASSUME NEW l \in ToSet(labels) PROVE Check(l, TRUE) \in ToSet(AllPass(labels))
    <2>1. PICK i \in 1 .. Len(labels) : labels[i] = l
      BY <1>1 DEF ToSet
    <2>2. i \in DOMAIN AllPass(labels) /\ AllPass(labels)[i] = Check(l, TRUE)
      BY <2>1 DEF AllPass
    <2> QED
      BY <2>2 DEF ToSet
  <1> QED
    BY <1>4, <1>5

Sandwich(s, pre, mid, post) ==
    LET p == Len(pre)
        m == Len(mid)
    IN  /\ \A i \in 1 .. p : s[i] \in ToSet(pre)
        /\ \A i \in p + 1 .. p + m : s[i] \in ToSet(mid)
        /\ \A i \in p + m + 1 .. Len(s) : s[i] \in ToSet(post)
        /\ p \in Nat /\ m \in Nat /\ Len(s) \in Nat /\ p + m <= Len(s) /\ DOMAIN s = 1 .. Len(s)
        /\ ToSet(s) = ToSet(pre) \cup ToSet(mid) \cup ToSet(post)

LEMMA Between ==
    ASSUME NEW X, NEW pre \in Seq(X), NEW mid \in Seq(X), NEW post \in Seq(X), NEW s,
           s = pre \o (mid \o post)
    PROVE  Sandwich(s, pre, mid, post)
  <1> DEFINE p == Len(pre)
             m == Len(mid)
             q == Len(post)
             tail == mid \o post
  <1>1. p \in Nat /\ m \in Nat /\ q \in Nat
    BY ElementsOf
  <1>2. /\ tail \in Seq(X) /\ Len(tail) = m + q
        /\ \A i \in 1 .. m : tail[i] = mid[i]
        /\ \A i \in 1 .. q : tail[m + i] = post[i]
        /\ ToSet(tail) = ToSet(mid) \cup ToSet(post)
    BY Glued
  <1> HIDE DEF tail
  <1>3. /\ s \in Seq(X) /\ Len(s) = p + (m + q)
        /\ \A i \in 1 .. p : s[i] = pre[i]
        /\ \A i \in 1 .. m + q : s[p + i] = tail[i]
        /\ ToSet(s) = ToSet(pre) \cup ToSet(tail)
    <2>1. /\ pre \o tail \in Seq(X) /\ Len(pre \o tail) = Len(pre) + Len(tail)
          /\ \A i \in 1 .. Len(pre) : (pre \o tail)[i] = pre[i]
          /\ \A i \in 1 .. Len(tail) : (pre \o tail)[Len(pre) + i] = tail[i]
          /\ ToSet(pre \o tail) = ToSet(pre) \cup ToSet(tail)
      <3>1. pre \in Seq(X) /\ tail \in Seq(X)
        BY <1>2
      <3> QED
        BY <3>1, Glued
    <2>2. s = pre \o tail
      BY DEF tail
    <2> QED
      BY <1>2, <2>1, <2>2, Zenon
  <1>4. /\ \A i \in 1 .. p : pre[i] \in ToSet(pre)
        /\ \A i \in 1 .. m : mid[i] \in ToSet(mid)
        /\ \A i \in 1 .. q : post[i] \in ToSet(post)
    BY ElementsOf
  <1> HIDE DEF p, m, q
  <1>5. ASSUME NEW i \in p + 1 .. p + m PROVE s[i] \in ToSet(mid)
    <2>1. i - p \in 1 .. m /\ i - p \in 1 .. m + q /\ p + (i - p) = i
      BY <1>1
    <2>2. s[p + (i - p)] = tail[i - p] /\ tail[i - p] = mid[i - p]
      BY <1>2, <1>3, <2>1, Zenon
    <2> QED
      BY <1>4, <2>1, <2>2, Zenon
  <1>6. ASSUME NEW i \in p + m + 1 .. p + (m + q) PROVE s[i] \in ToSet(post)
    <2>1. /\ i - p - m \in 1 .. q /\ m + (i - p - m) \in 1 .. m + q
          /\ p + (m + (i - p - m)) = i
      BY <1>1
    <2>2. /\ s[p + (m + (i - p - m))] = tail[m + (i - p - m)]
          /\ tail[m + (i - p - m)] = post[i - p - m]
      BY <1>2, <1>3, <2>1, Zenon
    <2> QED
      BY <1>4, <2>1, <2>2, Zenon
  <1>7. DOMAIN s = 1 .. Len(s) /\ Len(s) \in Nat /\ p + m <= Len(s)
    BY <1>1, <1>3, ElementsOf
  <1>8. \A i \in 1 .. p : s[i] \in ToSet(pre)
    BY <1>3, <1>4
  <1> QED
    BY <1>1, <1>2, <1>3, <1>5, <1>6, <1>7, <1>8, Zenon DEF Sandwich, p, m

\* The runner's tally of such a report is the firmware's, without a failure.
LEMMA TallyAgrees ==
    ASSUME NEW pre \in Seq(PassLines), NEW mid \in Seq(SkipLines), NEW post \in Seq(PassLines),
           HilBody(truth) = pre \o (mid \o post),
           lines = HilBody(truth) \o <<Tally>>
    PROVE  /\ One("HIL") /\ The("HIL") = Tally
           /\ \A as : Cardinality({i \in At("CHECK") : lines[i].as = as})
                        = Cardinality({i \in DOMAIN HilBody(truth) :
                                                 HilBody(truth)[i].as = as})
           /\ Tally.fail = 0 /\ Tally.skip = Len(mid)
           /\ ToSet(lines) = ToSet(pre) \cup ToSet(mid) \cup ToSet(post) \cup {Tally}
           /\ \A l \in ToSet(lines) : ~Failing(l)
  <1> DEFINE body == HilBody(truth)
             X == PassLines \cup SkipLines \cup {Tally}
             p == Len(pre)
             m == Len(mid)
             b == Len(body)
  <1>1. /\ \A l \in PassLines : l.kind = "CHECK" /\ l.as = "PASS"
        /\ \A l \in SkipLines : l.kind = "CHECK" /\ l.as = "SKIP"
        /\ Tally.kind = "HIL"
    <2>1. \A l \in PassLines : l.kind = "CHECK" /\ l.as = "PASS"
      BY DEF PassLines, Check
    <2>2. \A l \in SkipLines : l.kind = "CHECK" /\ l.as = "SKIP"
      <3>1. \A k : Skip(k).kind = "CHECK" /\ Skip(k).as = "SKIP"
        BY DEF Skip
      <3> QED
        BY <3>1, Zenon DEF SkipLines
    <2>3. Tally.kind = "HIL"
      BY DEF Tally
    <2> QED
      BY <2>1, <2>2, <2>3
  <1>2. pre \in Seq(X) /\ mid \in Seq(X) /\ post \in Seq(X) /\ <<Tally>> \in Seq(X)
    <2>1. PassLines \subseteq X /\ SkipLines \subseteq X /\ Tally \in X
      OBVIOUS
    <2> HIDE DEF X
    <2> QED
      BY <2>1, SeqMonotonic, OneOf
  <1>3. /\ ToSet(pre) \subseteq PassLines /\ ToSet(mid) \subseteq SkipLines
        /\ ToSet(post) \subseteq PassLines
    BY ElementsOf
  <1> HIDE DEF body, X
  <1>4. Sandwich(body, pre, mid, post)
    <2>1. body = pre \o (mid \o post)
      BY DEF body
    <2> QED
      BY <1>2, <2>1, Between
  <1>5. /\ \A i \in 1 .. p : body[i] \in ToSet(pre)
        /\ \A i \in p + 1 .. p + m : body[i] \in ToSet(mid)
        /\ \A i \in p + m + 1 .. b : body[i] \in ToSet(post)
        /\ p \in Nat /\ m \in Nat /\ b \in Nat /\ p + m <= b /\ DOMAIN body = 1 .. b
        /\ ToSet(body) = ToSet(pre) \cup ToSet(mid) \cup ToSet(post)
    BY <1>4, Zenon DEF Sandwich
  <1>6. body \in Seq(X)
    <2>1. mid \o post \in Seq(X)
      BY <1>2, ConcatProperties
    <2>2. pre \o (mid \o post) \in Seq(X)
      BY <1>2, <2>1, ConcatProperties
    <2> QED
      BY <2>2 DEF body
  <1> HIDE DEF p, m, b
  <1>7. \A i \in DOMAIN body :
          /\ body[i].kind = "CHECK"
          /\ body[i].as = IF i \in p + 1 .. p + m THEN "SKIP" ELSE "PASS"
    <2>1. SUFFICES ASSUME NEW i \in 1 .. b
                   PROVE  /\ body[i].kind = "CHECK"
                          /\ body[i].as = IF i \in p + 1 .. p + m THEN "SKIP" ELSE "PASS"
      BY <1>5
    <2>2. CASE i \in p + 1 .. p + m
      <3>1. body[i] \in SkipLines
        BY <1>3, <1>5, <2>2
      <3> QED
        BY <1>1, <2>2, <3>1
    <2>3. CASE i \notin p + 1 .. p + m
      <3>1. i \in 1 .. p \/ i \in p + m + 1 .. b
        BY <1>5, <2>3
      <3>2. body[i] \in PassLines
        BY <1>3, <1>5, <3>1
      <3> QED
        BY <1>1, <2>3, <3>2
    <2> QED
      BY <2>2, <2>3
  <1>8. /\ {i \in DOMAIN body : body[i].as = "FAIL"} = {}
        /\ {i \in DOMAIN body : body[i].as = "SKIP"} = p + 1 .. p + m
    <2>1. p + 1 .. p + m \subseteq DOMAIN body
      BY <1>5
    <2> QED
      BY <1>7, <2>1
  <1>9. Tally.fail = 0 /\ Tally.skip = m
    <2>1. Cardinality({}) = 0
      BY FS_EmptySet
    <2>2. Cardinality(p + 1 .. p + m) = m
      <3>1. p + 1 \in Int /\ p + m \in Int
        BY <1>5
      <3>2. Cardinality(p + 1 .. p + m) = IF p + 1 > p + m THEN 0 ELSE (p + m) - (p + 1) + 1
        BY <3>1, FS_Interval
      <3> QED
        BY <1>5, <3>2
    <2>3. /\ Tally.fail = Cardinality({i \in DOMAIN body : body[i].as = "FAIL"})
          /\ Tally.skip = Cardinality({i \in DOMAIN body : body[i].as = "SKIP"})
      BY DEF Tally, body
    <2> QED
      BY <1>8, <2>1, <2>2, <2>3, Zenon
  <1>10. /\ lines \in Seq(X) /\ Len(lines) = b + 1
         /\ \A i \in 1 .. b : lines[i] = body[i]
         /\ lines[b + 1] = Tally
         /\ ToSet(lines) = ToSet(body) \cup {Tally}
    <2> DEFINE last == <<Tally>>
    <2>1. Len(last) = 1 /\ last[1] = Tally /\ ToSet(last) = {Tally}
      BY DEF ToSet
    <2>2. last \in Seq(X) /\ lines = body \o last
      BY <1>2 DEF body
    <2> HIDE DEF last
    <2>3. /\ body \o last \in Seq(X) /\ Len(body \o last) = Len(body) + Len(last)
          /\ \A i \in 1 .. Len(body) : (body \o last)[i] = body[i]
          /\ \A i \in 1 .. Len(last) : (body \o last)[Len(body) + i] = last[i]
          /\ ToSet(body \o last) = ToSet(body) \cup ToSet(last)
      BY <1>6, <2>2, Glued
    <2>4. 1 \in 1 .. 1
      OBVIOUS
    <2> QED
      BY <2>1, <2>2, <2>3, <2>4, Zenon DEF b
  <1>11. DOMAIN lines = 1 .. b + 1
    BY <1>10, ElementsOf
  <1>12. /\ At("CHECK") = DOMAIN body /\ At("HIL") = {b + 1}
         /\ \A i \in DOMAIN body : lines[i] = body[i]
    <2>1. /\ \A i \in 1 .. b : lines[i].kind = "CHECK"
          /\ lines[b + 1].kind = "HIL"
      BY <1>1, <1>5, <1>7, <1>10
    <2>2. /\ \A i \in 1 .. b + 1 : i \in 1 .. b \/ i = b + 1
          /\ b + 1 \in 1 .. b + 1 /\ 1 .. b \subseteq 1 .. b + 1
      BY <1>5
    <2>3. At("CHECK") = 1 .. b
      BY <1>11, <2>1, <2>2 DEF At
    <2>4. At("HIL") = {b + 1}
      BY <1>11, <2>1, <2>2 DEF At
    <2> QED
      BY <1>5, <1>10, <2>3, <2>4
  <1>13. One("HIL") /\ The("HIL") = Tally
    BY <1>10, <1>12, OnlyLine
  <1>14. ASSUME NEW as
         PROVE  {i \in At("CHECK") : lines[i].as = as} = {i \in DOMAIN body : body[i].as = as}
    BY <1>12
  <1>15. \A l \in ToSet(lines) : ~Failing(l)
    <2>1. \A l \in PassLines \cup SkipLines : ~Failing(l)
      <3>1. \A l \in PassLines \cup SkipLines : l.kind = "CHECK" /\ l.as # "FAIL"
        BY <1>1
      <3> QED
        BY <3>1 DEF Failing
    <2>2. ~Failing(Tally)
      BY <1>1, <1>9 DEF Failing
    <2> QED
      BY <1>3, <1>5, <1>10, <2>1, <2>2
  <1> QED
    BY <1>5, <1>9, <1>10, <1>13, <1>14, <1>15, Zenon DEF body, m

Nested(s, b, m, r, c) == (s \o <<>>) \o (b \o ((m \o r) \o c))
Flat(s, b, m, r, c) == (s \o (b \o m)) \o (r \o c)
LeftFirst(u, v, w) == (u \o v) \o w
RightFirst(u, v, w) == u \o (v \o w)

LEMMA Rebracket == \A X : \A u, v, w \in Seq(X) : LeftFirst(u, v, w) = RightFirst(u, v, w)
  BY ConcatAssociative, Zenon DEF LeftFirst, RightFirst

LEMMA Regroup ==
    ASSUME NEW X, NEW s \in Seq(X), NEW b \in Seq(X), NEW m \in Seq(X), NEW r \in Seq(X),
           NEW c \in Seq(X)
    PROVE  Nested(s, b, m, r, c) = Flat(s, b, m, r, c)
  <1>1. s \o <<>> = s
    BY ConcatEmptySeq
  <1>2. r \o c \in Seq(X) /\ b \o m \in Seq(X)
    BY ConcatProperties
  <1>3. LeftFirst(m, r, c) = RightFirst(m, r, c)
    BY Rebracket, Zenon
  <1>4. LeftFirst(b, m, r \o c) = RightFirst(b, m, r \o c)
    <2>1. \A t \in Seq(X) : LeftFirst(b, m, t) = RightFirst(b, m, t)
      BY Rebracket, Zenon
    <2> QED
      BY <1>2, <2>1, Zenon
  <1>5. LeftFirst(s, b \o m, r \o c) = RightFirst(s, b \o m, r \o c)
    BY <1>2, Rebracket, Zenon
  <1> QED
    BY <1>1, <1>3, <1>4, <1>5, Zenon DEF Nested, Flat, LeftFirst, RightFirst

\* A report of a success: what the command does not do is skipped, the rest passes.
Skips(cmd) ==
    IF cmd = "hil run reset" THEN <<>>
    ELSE IF cmd = "hil run" THEN <<Skip("hardReset")>>
    ELSE <<Skip("probe"), Skip("mask I/O"), Skip("hardReset")>>

LEMMA NoneOf ==
    ASSUME NEW X, NEW labels \in Seq(X), NEW failing, failing \cap X = {}
    PROVE  Printed(labels, failing) = AllPass(labels) /\ AllIn(labels, failing)
  <1>1. AllIn(labels, failing)
    <2>1. \A i \in DOMAIN labels : labels[i] \in X
      BY ElementsOf
    <2> QED
      BY <2>1 DEF AllIn
  <1>2. AllIn(labels, failing) =>
          Printed(labels, failing) = AllPass(labels)
    BY PrintedChecks, Zenon DEF AllPass
  <1> QED
    BY <1>1, <1>2

LEMMA RequiredIs ==
    ASSUME step.cmd \in HilCommands
    PROVE  Required =
             Static \cup (IF step.cmd = "hil parser" THEN Parser ELSE {})
               \cup (IF step.cmd \in {"hil run", "hil run reset"}
                     THEN Probe \cup Mask \cup {RestoreCheck} ELSE {})
               \cup (IF step.cmd = "hil run reset" THEN Reset ELSE {})
  BY Zenon DEF Required, Static, Parser, Probe, Mask, Reset

LEMMA GoodBody ==
    ASSUME step.cmd \in HilCommands, truth \in Endings(step.cmd), Succeeded
    PROVE  \E pre \in Seq(PassLines), post \in Seq(PassLines) :
             /\ HilBody(truth) = pre \o (Skips(step.cmd) \o post)
             /\ \A l \in Required : Check(l, TRUE) \in ToSet(pre) \cup ToSet(post)
  <1> DEFINE f == truth.failing
             static == AllPass(StaticChecks)
             parser == AllPass(ParserChecks)
             probe == AllPass(ProbeChecks)
             mask == AllPass(MaskChecks)
             reset == AllPass(ResetChecks)
             restore == <<Check(RestoreCheck, TRUE)>>
             skips == <<Skip("probe"), Skip("mask I/O"), Skip("hardReset")>>
             skip == <<Skip("hardReset")>>
  <1>1. f \cap Required = {} /\ (step.cmd # "hil run" => f = {})
    <2>1. CASE step.cmd = "hil run"
      BY <2>1, Zenon DEF Succeeded
    <2>2. CASE step.cmd # "hil run"
      BY <2>2, Zenon DEF Succeeded, HilCommands
    <2> QED
      BY <2>1, <2>2
  <1>2. /\ StaticChecks \in Seq(Static) /\ ParserChecks \in Seq(Parser)
        /\ ProbeChecks \in Seq(Probe) /\ MaskChecks \in Seq(Mask)
        /\ ResetChecks \in Seq(Reset)
    BY LabelFacts
  <1>3. /\ static \in Seq(PassLines) /\ parser \in Seq(PassLines) /\ probe \in Seq(PassLines)
        /\ mask \in Seq(PassLines) /\ reset \in Seq(PassLines)
        /\ \A l \in Static : Check(l, TRUE) \in ToSet(static)
        /\ \A l \in Parser : Check(l, TRUE) \in ToSet(parser)
        /\ \A l \in Probe : Check(l, TRUE) \in ToSet(probe)
        /\ \A l \in Mask : Check(l, TRUE) \in ToSet(mask)
        /\ \A l \in Reset : Check(l, TRUE) \in ToSet(reset)
    <2>1. /\ Static \subseteq AllLabels /\ Parser \subseteq AllLabels /\ Probe \subseteq AllLabels
          /\ Mask \subseteq AllLabels /\ Reset \subseteq AllLabels
      BY DEF AllLabels
    <2>2. static \in Seq(PassLines) /\ \A l \in Static : Check(l, TRUE) \in ToSet(static)
      BY <1>2, <2>1, AllPassLines, Zenon DEF Static
    <2>3. parser \in Seq(PassLines) /\ \A l \in Parser : Check(l, TRUE) \in ToSet(parser)
      BY <1>2, <2>1, AllPassLines, Zenon DEF Parser
    <2>4. probe \in Seq(PassLines) /\ \A l \in Probe : Check(l, TRUE) \in ToSet(probe)
      BY <1>2, <2>1, AllPassLines, Zenon DEF Probe
    <2>5. mask \in Seq(PassLines) /\ \A l \in Mask : Check(l, TRUE) \in ToSet(mask)
      BY <1>2, <2>1, AllPassLines, Zenon DEF Mask
    <2>6. reset \in Seq(PassLines) /\ \A l \in Reset : Check(l, TRUE) \in ToSet(reset)
      BY <1>2, <2>1, AllPassLines, Zenon DEF Reset
    <2> QED
      BY <2>2, <2>3, <2>4, <2>5, <2>6, Zenon
  <1>4. /\ restore \in Seq(PassLines)
        /\ Check(RestoreCheck, TRUE) \in ToSet(restore)
    <2>1. Check(RestoreCheck, TRUE) \in PassLines
      BY DEF PassLines, AllLabels
    <2>2. restore \in Seq(PassLines)
      BY <2>1, OneOf
    <2>3. 1 \in DOMAIN restore /\ restore[1] = Check(RestoreCheck, TRUE)
      OBVIOUS
    <2> QED
      BY <2>2, <2>3, Zenon DEF ToSet
  <1>5. Printed(StaticChecks, {}) = static
    BY <1>2, NoneOf
  <1> HIDE DEF f, static, parser, probe, mask, reset, restore, skips, skip
  <1>6. CASE step.cmd \in {"hil dry", "hil parser"}
    <2> DEFINE middle == IF step.cmd = "hil parser" THEN parser ELSE <<>>
               pre == static \o middle
    <2>1. HilBody(truth) = pre \o skips
      <3>1. f = {}
        BY <1>1, <1>6
      <3>2. Printed(ParserChecks, f) = parser
        BY <1>2, <3>1, NoneOf DEF parser
      <3>3. HilBody(truth) =
              (static \o (IF step.cmd = "hil parser" THEN Printed(ParserChecks, f) ELSE <<>>))
                \o skips
        BY <1>5, <1>6, Zenon DEF HilBody, f, skips
      <3> QED
        BY <3>2, <3>3, Zenon
    <2>2. middle \in Seq(PassLines)
      BY <1>3, EmptySeq
    <2> HIDE DEF middle
    <2>3. pre \in Seq(PassLines) /\ ToSet(pre) = ToSet(static) \cup ToSet(middle)
      <3>1. static \in Seq(PassLines)
        BY <1>3
      <3> QED
        BY <2>2, <3>1, Glued
    <2>4. skips = skips \o <<>>
      <3>1. skips \in Seq(SkipLines)
        <4>1. /\ Skip("probe") \in SkipLines /\ Skip("mask I/O") \in SkipLines
              /\ Skip("hardReset") \in SkipLines
          BY DEF SkipLines
        <4>2. \A a, b, c \in SkipLines : <<a, b, c>> \in Seq(SkipLines)
          OBVIOUS
        <4> QED
          BY <4>1, <4>2, Zenon DEF skips
      <3> QED
        BY <3>1, ConcatEmptySeq
    <2>5. Skips(step.cmd) = skips
      BY <1>6 DEF Skips, skips
    <2>6. \A l \in Required : Check(l, TRUE) \in ToSet(pre)
      <3>1. \A l \in Required : l \in Static \/ (step.cmd = "hil parser" /\ l \in Parser)
        BY <1>6, RequiredIs
      <3>2. step.cmd = "hil parser" => middle = parser
        BY DEF middle
      <3> QED
        BY <1>3, <2>3, <3>1, <3>2
    <2> HIDE DEF pre
    <2>7. /\ HilBody(truth) = pre \o (Skips(step.cmd) \o <<>>)
          /\ \A l \in Required : Check(l, TRUE) \in ToSet(pre) \cup ToSet(<<>>)
      BY <2>1, <2>4, <2>5, <2>6, Zenon
    <2>8. <<>> \in Seq(PassLines)
      BY EmptySeq
    <2> QED
      BY <2>3, <2>7, <2>8, Zenon
  <1>7. CASE step.cmd \in {"hil run", "hil run reset"}
    <2> DEFINE r == IF step.cmd = "hil run reset" THEN reset ELSE skip
               pre == static \o (probe \o mask)
    <2>1. Probe \cup Mask \cup {RestoreCheck} \subseteq Required
      BY <1>7, RequiredIs
    <2>2. f \cap Probe = {} /\ f \cap Mask = {} /\ RestoreCheck \notin f /\ "probe" \notin f
      BY <1>1, <2>1, LabelFacts
    <2>3. /\ Printed(ProbeChecks, f) = probe /\ AllIn(ProbeChecks, f)
          /\ Printed(MaskChecks, f) = mask /\ AllIn(MaskChecks, f)
      <3>1. Printed(ProbeChecks, f) = probe /\ AllIn(ProbeChecks, f)
        BY <1>2, <2>2, NoneOf DEF probe
      <3>2. Printed(MaskChecks, f) = mask /\ AllIn(MaskChecks, f)
        BY <1>2, <2>2, NoneOf DEF mask
      <3> QED
        BY <3>1, <3>2
    <2>4. (IF step.cmd # "hil run reset" THEN <<Skip("hardReset")>>
           ELSE IF "hardReset" \in f THEN <<Check("hardReset", FALSE)>>
           ELSE Printed(ResetChecks, f)) = r
      <3>1. CASE step.cmd = "hil run reset"
        <4>1. f = {}
          BY <1>1, <3>1
        <4>2. Printed(ResetChecks, f) = reset
          BY <1>2, <4>1, NoneOf DEF reset
        <4> QED
          BY <3>1, <4>1, <4>2
      <3>2. CASE step.cmd # "hil run reset"
        BY <3>2, Zenon DEF skip
      <3> QED
        BY <3>1, <3>2
    <2>5. <<Check(RestoreCheck, RestoreCheck \notin f)>> = restore
      <3>1. Check(RestoreCheck, RestoreCheck \notin f) =
              Check(RestoreCheck, TRUE)
        BY <2>2 DEF Check
      <3> QED
        BY <3>1, Zenon DEF restore
    <2> HIDE DEF r
    <2>6. HilBody(truth) = (static \o <<>>) \o (probe \o ((mask \o r) \o restore))
      <3>1. step.cmd # "hil parser" /\ step.cmd \notin {"hil dry", "hil parser"}
        BY <1>7
      <3>2. HilBody(truth) =
              (Printed(StaticChecks, {}) \o <<>>)
                \o (Printed(ProbeChecks, f)
                      \o ((Printed(MaskChecks, f)
                             \o (IF step.cmd # "hil run reset" THEN <<Skip("hardReset")>>
                                 ELSE IF "hardReset" \in f THEN <<Check("hardReset", FALSE)>>
                                 ELSE Printed(ResetChecks, f)))
                            \o <<Check(RestoreCheck, RestoreCheck \notin f)>>))
        BY <2>2, <2>3, <3>1, Zenon DEF HilBody, f
      <3> QED
        BY <1>5, <2>3, <2>4, <2>5, <3>2, Zenon
    <2>7. r \in Seq(PassLines \cup SkipLines) /\ (step.cmd = "hil run reset" => r \in Seq(PassLines))
      <3>1. step.cmd = "hil run reset" => r \in Seq(PassLines)
        BY <1>3 DEF r
      <3>2. step.cmd # "hil run reset" => r \in Seq(SkipLines)
        <4>1. Skip("hardReset") \in SkipLines
          BY DEF SkipLines
        <4>2. skip \in Seq(SkipLines)
          BY <4>1, OneOf DEF skip
        <4> QED
          BY <4>2 DEF r
      <3> QED
        BY <3>1, <3>2, SeqMonotonic
    <2>8. HilBody(truth) = pre \o (r \o restore)
      <3> DEFINE X == PassLines \cup SkipLines
      <3>1. /\ static \in Seq(X) /\ probe \in Seq(X) /\ mask \in Seq(X) /\ restore \in Seq(X)
        <4>1. PassLines \subseteq X
          OBVIOUS
        <4> HIDE DEF X
        <4> QED
          BY <1>3, <1>4, <4>1, SeqMonotonic
      <3>2. r \in Seq(X)
        BY <2>7
      <3> HIDE DEF X
      <3>3. (static \o <<>>) \o (probe \o ((mask \o r) \o restore))
              = (static \o (probe \o mask)) \o (r \o restore)
        <4>1. Nested(static, probe, mask, r, restore) = Flat(static, probe, mask, r, restore)
          BY <3>1, <3>2, Regroup
        <4> QED
          BY <4>1, Zenon DEF Nested, Flat
      <3> QED
        BY <2>6, <3>3, Zenon
    <2>9. pre \in Seq(PassLines) /\ ToSet(pre) = ToSet(static) \cup (ToSet(probe) \cup ToSet(mask))
      <3>1. static \in Seq(PassLines) /\ probe \in Seq(PassLines) /\ mask \in Seq(PassLines)
        BY <1>3
      <3> DEFINE pm == probe \o mask
      <3>2. pm \in Seq(PassLines) /\ ToSet(pm) = ToSet(probe) \cup ToSet(mask)
        BY <3>1, Glued
      <3> HIDE DEF pm
      <3>3. static \o pm \in Seq(PassLines) /\ ToSet(static \o pm) = ToSet(static) \cup ToSet(pm)
        BY <3>1, <3>2, Glued
      <3> QED
        BY <3>2, <3>3, Zenon DEF pm
    <2>10. \A l \in Static \cup Probe \cup Mask : Check(l, TRUE) \in ToSet(pre)
      BY <1>3, <2>9
    <2> HIDE DEF pre
    <2>11. CASE step.cmd = "hil run"
      <3>1. r = Skips(step.cmd)
        BY <2>11 DEF r, skip, Skips
      <3>2. Required = Static \cup Probe \cup Mask \cup {RestoreCheck}
        BY <2>11, RequiredIs
      <3>3. \A l \in Required : Check(l, TRUE) \in ToSet(pre) \cup ToSet(restore)
        BY <1>4, <2>10, <3>2
      <3> QED
        BY <1>4, <2>8, <2>9, <3>1, <3>3, Zenon
    <2>12. CASE step.cmd = "hil run reset"
      <3> DEFINE post == r \o restore
      <3>1. r = reset /\ r \in Seq(PassLines)
        BY <1>3, <2>12 DEF r
      <3>2. post \in Seq(PassLines) /\ ToSet(post) = ToSet(reset) \cup ToSet(restore)
        <4>1. r \o restore \in Seq(PassLines) /\ ToSet(r \o restore) = ToSet(r) \cup ToSet(restore)
          BY <1>4, <3>1, Glued
        <4> QED
          BY <3>1, <4>1, Zenon
      <3> HIDE DEF post
      <3>3. Skips(step.cmd) \o post = post
        <4>1. Skips(step.cmd) = <<>>
          BY <2>12 DEF Skips
        <4> QED
          BY <3>2, <4>1, ConcatEmptySeq
      <3>4. HilBody(truth) = pre \o (Skips(step.cmd) \o post)
        BY <2>8, <3>3, Zenon DEF post
      <3>5. Required = Static \cup Probe \cup Mask \cup {RestoreCheck} \cup Reset
        BY <2>12, RequiredIs
      <3>6. \A l \in Required : Check(l, TRUE) \in ToSet(pre) \cup ToSet(post)
        BY <1>3, <1>4, <2>10, <3>2, <3>5
      <3> QED
        BY <2>9, <3>2, <3>4, <3>6, Zenon
    <2> QED
      BY <1>7, <2>11, <2>12
  <1> QED
    BY <1>6, <1>7 DEF HilCommands

LEMMA HilPasses ==
    ASSUME lines = Reply(truth), Succeeded, truth \in Endings(step.cmd),
           step.cmd \in HilCommands
    PROVE  Classified = "PASS"
  <1> DEFINE mid == Skips(step.cmd)
             body == HilBody(truth)
  <1>1. PICK pre \in Seq(PassLines), post \in Seq(PassLines) :
          /\ body = pre \o (mid \o post)
          /\ \A l \in Required : Check(l, TRUE) \in ToSet(pre) \cup ToSet(post)
    BY GoodBody
  <1>2. lines = body \o <<Tally>>
    BY Zenon DEF Reply, HilLines, Tally, HilCommands
  <1>3. mid \in Seq(SkipLines)
    <2>1. /\ Skip("probe") \in SkipLines /\ Skip("mask I/O") \in SkipLines
          /\ Skip("hardReset") \in SkipLines
      BY DEF SkipLines
    <2>2. \A a, b, c \in SkipLines : <<a, b, c>> \in Seq(SkipLines) /\ <<c>> \in Seq(SkipLines)
      OBVIOUS
    <2>3. /\ <<Skip("probe"), Skip("mask I/O"), Skip("hardReset")>> \in Seq(SkipLines)
          /\ <<Skip("hardReset")>> \in Seq(SkipLines) /\ <<>> \in Seq(SkipLines)
      BY <2>1, <2>2, EmptySeq, Zenon
    <2> QED
      BY <2>3 DEF Skips
  <1>4. /\ step.cmd = "hil run reset" => Len(mid) = 0
        /\ step.cmd = "hil run" => Len(mid) = 1 /\ mid[1] = Skip("hardReset") /\ 1 \in DOMAIN mid
        /\ step.cmd \notin {"hil run", "hil run reset"} => Len(mid) = 3
    <2>1. /\ Len(<<>>) = 0
          /\ \A a : Len(<<a>>) = 1 /\ <<a>>[1] = a /\ 1 \in DOMAIN <<a>>
          /\ \A a, b, c : Len(<<a, b, c>>) = 3
      OBVIOUS
    <2>2. CASE step.cmd = "hil run reset"
      <3>1. mid = <<>>
        BY <2>2 DEF Skips
      <3> QED
        BY <2>1, <2>2, <3>1, Zenon
    <2>3. CASE step.cmd = "hil run"
      <3>1. mid = <<Skip("hardReset")>>
        BY <2>3 DEF Skips
      <3> QED
        BY <2>1, <2>3, <3>1, Zenon
    <2>4. CASE step.cmd \notin {"hil run", "hil run reset"}
      <3>1. mid = <<Skip("probe"), Skip("mask I/O"), Skip("hardReset")>>
        BY <2>4 DEF Skips
      <3>2. Len(mid) = 3
        BY <2>1, <3>1, Zenon
      <3> QED
        BY <2>4, <3>2
    <2> QED
      BY <2>2, <2>3, <2>4
  <1> HIDE DEF mid, body
  <1>5. /\ One("HIL") /\ The("HIL") = Tally
        /\ \A as : Cardinality({i \in At("CHECK") : lines[i].as = as})
                     = Cardinality({i \in DOMAIN HilBody(truth) :
                                              HilBody(truth)[i].as = as})
        /\ Tally.fail = 0 /\ Tally.skip = Len(mid)
        /\ ToSet(lines) = ToSet(pre) \cup ToSet(mid) \cup ToSet(post) \cup {Tally}
        /\ \A l \in ToSet(lines) : ~Failing(l)
    BY <1>1, <1>2, <1>3, TallyAgrees, Zenon DEF body
  <1>6. /\ Tally.pass = Cardinality({i \in At("CHECK") : lines[i].as = "PASS"})
        /\ Tally.fail = Cardinality({i \in At("CHECK") : lines[i].as = "FAIL"})
        /\ Tally.skip = Cardinality({i \in At("CHECK") : lines[i].as = "SKIP"})
    <2>1. /\ Tally.pass = Cardinality({i \in DOMAIN HilBody(truth) :
                                                 HilBody(truth)[i].as = "PASS"})
          /\ Tally.fail = Cardinality({i \in DOMAIN HilBody(truth) :
                                                 HilBody(truth)[i].as = "FAIL"})
          /\ Tally.skip = Cardinality({i \in DOMAIN HilBody(truth) :
                                                 HilBody(truth)[i].as = "SKIP"})
      BY DEF Tally
    <2> QED
      BY <1>5, <2>1, Zenon
  <1>7. Tally.skip = (CASE step.cmd = "hil run reset" -> 0 [] step.cmd = "hil run" -> 1 [] OTHER -> 3)
    BY <1>4, <1>5, Zenon
  <1>8. step.cmd = "hil run" => Skip("hardReset") \in ToSet(lines)
    <2>1. step.cmd = "hil run" => Skip("hardReset") \in ToSet(mid)
      BY <1>4, Zenon DEF ToSet
    <2> QED
      BY <1>5, <2>1
  <1>9. Required \subseteq Labels
    <2>1. SUFFICES ASSUME NEW l \in Required PROVE l \in Labels
      OBVIOUS
    <2>2. Check(l, TRUE) \in ToSet(lines)
      BY <1>1, <1>5
    <2>3. PICK i \in DOMAIN lines : lines[i] = Check(l, TRUE)
      BY <2>2 DEF ToSet
    <2>4. lines[i].kind = "CHECK" /\ lines[i].as = "PASS" /\ lines[i].label = l
      BY <2>3 DEF Check
    <2> QED
      BY <2>4 DEF Labels, At
  <1>10. HilHolds
    BY <1>5, <1>6, <1>7, <1>8, <1>9, Zenon DEF HilHolds
  <1>11. Holds
    BY <1>10, Zenon DEF Holds, HilCommands
  <1>12. Tokens = {}
    BY Zenon DEF Tokens, HilCommands
  <1>13. Tokens \subseteq Kinds
    BY <1>12
  <1> QED
    BY <1>5, <1>11, <1>13, Passes

\* What the firmware prints about a success, the runner passes: as long as nothing
\* of the reply is lost or doubled, no success is mistaken for a failure.
THEOREM SuccessPassesAlways ==
    ReplySpec => []SuccessPasses
  <1>1. ReplyInit => ReplyInv
    BY ReplyStarts
  <1>2. ReplyInv /\ [ReplyNext]_(replyVars) => ReplyInv'
    BY ReplyKept
  <1>3. ReplyInv => SuccessPasses
    <2>1. SUFFICES ASSUME ReplyInv, stage = "JUDGED", ~garbled, Succeeded
                   PROVE  verdict = "PASS"
      BY Zenon DEF SuccessPasses
    <2>2. /\ step.cmd \in Commands /\ truth \in Endings(step.cmd)
          /\ verdict = Classified
      BY <2>1, Zenon DEF ReplyInv
    <2>3. lines = Reply(truth)
      BY <2>1 DEF ReplyInv
    <2>4. CASE step.cmd \in {"read", "op", "invalidate", "verbose", "console"}
      BY <2>1, <2>2, <2>3, <2>4, ShortPasses, Zenon
    <2>5. CASE step.cmd \in {"health", "cfg"}
      BY <2>1, <2>2, <2>3, <2>5, TablesPass, Zenon
    <2>6. CASE step.cmd \in {"scan", "discover"}
      BY <2>1, <2>2, <2>3, <2>6, ScansPass, Zenon
    <2>7. CASE step.cmd \in {"stress", "stress_mix"}
      BY <2>1, <2>2, <2>3, <2>7, StressPasses, Zenon
    <2>8. CASE step.cmd \in HilCommands
      BY <2>1, <2>2, <2>3, <2>8, HilPasses, Zenon
    <2> QED
      BY <2>2, <2>4, <2>5, <2>6, <2>7, <2>8 DEF Commands, HilCommands
  <1> QED
    BY <1>1, <1>2, <1>3, PTL DEF ReplySpec
=============================================================================
