------------------------------- MODULE HilRun -------------------------------
(***************************************************************************)
(* One invocation of tools/tca9548a_hil.py: main(), run_live() and the      *)
(* evidence they leave.  Outputs are reserved, the serial session runs the  *)
(* plan step by step, and report, results and manifest are written.  Each   *)
(* file operation, each serial operation and each moment in between may     *)
(* fail or be interrupted, and others create files in the same places.      *)
(*                                                                         *)
(* What a step does on the line is HilExchange's and HilVerdict's; here    *)
(* it ends with a status.                                                   *)
(***************************************************************************)
EXTENDS Integers

CONSTANT N      \* steps of the plan

ASSUME PlanAssumption == N \in Nat \ {0}

Plan == 1 .. N
Statuses == {"PASS", "FAIL", "UNKNOWN", "NOT_RUN"}
Files == {"report", "transcript", "results", "manifest"}

VARIABLES
    phase,      \* where main() and run_live() are
    options,    \* what the command line asked for
    results,    \* the list of results; PENDING where it does not reach yet
    next,       \* the step the session is at
    port,       \* the serial port is open
    file,       \* what is on disk
    open,       \* the artifact handles that are open
    errors,     \* _artifact_errors is not empty
    said,       \* the overall status each document states
    seal,       \* the files as the manifest's hashes saw them
    exit,       \* the exit code
    attempted,  \* history: steps whose first command was sent
    passed,     \* history: steps that really passed
    mishap,     \* history: an interrupt or a failure since the preflight
    stranded    \* history: the manifest of a bundle that failed could not be removed

session == <<results, next, port, attempted, passed>>
evidence == <<file, open, errors, said, seal>>
vars == <<phase, options, session, evidence, exit, mishap, stranded>>

-----------------------------------------------------------------------------
(* Results                                                                 *)

\* status_counts(), result_exit_code(), overall_status()
Some(r, status) == \E k \in Plan : r[k] = status

ResultExitCode(r) ==
    IF Some(r, "FAIL") \/ Some(r, "UNKNOWN")
       \/ (Some(r, "NOT_RUN") /\ ~options.dry /\ ~options.allow) THEN 1 ELSE 0

OverallStatus(r, failed) ==
    IF Some(r, "FAIL") \/ failed THEN "FAIL"
    ELSE IF Some(r, "UNKNOWN") THEN "UNKNOWN"
    ELSE IF Some(r, "NOT_RUN") \/ ~Some(r, "PASS") THEN "NOT_RUN" ELSE "PASS"

\* Fault: the steps behind a failure are forgotten.
LeavesPending(r) == r
\* append_not_run_results()
NotRunFrom(r) == [k \in Plan |-> IF r[k] = "PENDING" THEN "NOT_RUN" ELSE r[k]]

\* The last result that is not NOT_RUN, or the first if none is.
LastExecuted(r, k) ==
    /\ \A j \in Plan : j > k => r[j] = "NOT_RUN"
    /\ r[k] = "NOT_RUN" => k = 1

Degraded(r) ==
    IF Some(r, "FAIL") THEN r
    ELSE [k \in Plan |-> IF LastExecuted(r, k) THEN "UNKNOWN" ELSE r[k]]

\* Fault: an interruption only ends the list.
OnlyEnds(r) == NotRunFrom(r)
\* fail_session()
FailSession(r) == Degraded(NotRunFrom(r))

-----------------------------------------------------------------------------
(* Outputs                                                                 *)

HasDir == options.outputs = Files

\* Transcripts are not written in a dry run, but their paths are checked.
Paths == options.outputs \ (IF options.dry THEN {"transcript"} ELSE {})
Requested == Paths \cup IF HasDir THEN {} ELSE options.outputs

Transcribed == "transcript" \in Paths

Init ==
    /\ phase = "PREFLIGHT"
    /\ options \in [dry : BOOLEAN, allow : BOOLEAN,
                    outputs : (SUBSET {"report", "transcript"}) \cup {Files}]
    /\ results = [k \in Plan |-> "PENDING"]
    /\ next = 1
    /\ port = FALSE
    /\ file \in [Files -> {"ABSENT", "FOREIGN"}]
    /\ open = {}
    /\ errors = FALSE
    /\ said = [f \in Files |-> "NOTHING"]
    /\ seal = [f \in Files |-> "UNSEALED"]
    /\ exit = 2
    /\ attempted = {}
    /\ passed = {}
    /\ mishap = FALSE
    /\ stranded = FALSE

Refuse ==
    /\ phase' = "DONE"
    /\ exit' = 1
    /\ open' = {}
    /\ UNCHANGED <<options, session, errors, said, seal, mishap, stranded>>

\* No destination may exist yet.  Hashing the runner or a directory may fail, too.
Preflight ==
    /\ phase = "PREFLIGHT"
    /\ \/ Refuse /\ UNCHANGED file
       \/ /\ \A f \in Requested : file[f] = "ABSENT"
          /\ phase' = "RESERVE"
          /\ UNCHANGED <<options, session, evidence, exit, mishap, stranded>>

\* Fault: a file that appeared since the check is truncated.
Overwritable(f) == TRUE
Creatable(f) == file[f] = "ABSENT"

\* open(..., "x")
Reserve(f) ==
    /\ phase = "RESERVE" /\ f \in Paths \ open
    /\ \/ Refuse /\ UNCHANGED file
       \/ /\ Creatable(f)
          /\ file' = [file EXCEPT ![f] = "EMPTY"]
          /\ open' = open \cup {f}
          /\ UNCHANGED <<phase, options, session, errors, said, seal, exit, mishap, stranded>>

Reserved ==
    /\ phase = "RESERVE" /\ open = Paths
    /\ phase' = IF options.dry THEN "SUMMARY" ELSE "TRANSCRIPT"
    /\ results' = IF options.dry THEN NotRunFrom(results) ELSE results
    /\ UNCHANGED <<options, next, port, attempted, passed, evidence, exit, mishap, stranded>>

\* Somebody else creates a file.
Others ==
    /\ \E f \in Files :
        /\ file[f] = "ABSENT"
        /\ file' = [file EXCEPT ![f] = "FOREIGN"]
    /\ phase # "DONE"
    /\ UNCHANGED <<phase, options, session, open, errors, said, seal, exit, mishap, stranded>>

-----------------------------------------------------------------------------
(* run_live()                                                              *)

\* A transcript write that fails leaves a damaged file and an artifact error.
TranscriptFails ==
    /\ Transcribed /\ file["transcript"] = "EMPTY"
    /\ file' = [file EXCEPT !["transcript"] = "DAMAGED"]
    /\ errors' = TRUE
    /\ mishap' = TRUE

StartTranscript ==
    /\ phase = "TRANSCRIPT"
    /\ \/ phase' = "OPEN" /\ UNCHANGED <<results, file, open, errors, mishap>>
       \/ /\ TranscriptFails
          /\ open' = open \ {"transcript"}
          /\ results' = NotRunFrom(results)
          /\ phase' = "SUMMARY"
    /\ UNCHANGED <<options, next, port, attempted, passed, said, seal, exit, stranded>>

\* The session ends here, whatever it has done so far.
Interrupted == results' = FailSession(results) /\ mishap' = TRUE

OpenPort ==
    /\ phase = "OPEN"
    /\ \/ phase' = "SYNC" /\ port' = TRUE /\ UNCHANGED <<results, mishap>>
       \/ phase' = "CLOSE_TRANSCRIPT" /\ Interrupted /\ UNCHANGED port
    /\ UNCHANGED <<options, next, attempted, passed, evidence, exit, stranded>>

Synchronize ==
    /\ phase = "SYNC"
    /\ \/ phase' = "STEP" /\ UNCHANGED <<results, file, errors, mishap>>
       \/ phase' = "CLOSE_PORT" /\ Interrupted
          /\ (TranscriptFails \/ UNCHANGED <<file, errors>>)
    /\ UNCHANGED <<options, next, port, attempted, passed, open, said, seal, exit, stranded>>

\* A step ends with a status; one that did not pass is the last.
EndsWith(status) ==
    LET r == [results EXCEPT ![next] = status]
    IN  IF status = "PASS" THEN results' = r /\ phase' = "PAUSE"
        ELSE results' = NotRunFrom(r) /\ phase' = "CLOSE_PORT"

\* A transcript failure spoils the verdict of the step it happens in.  It ends the
\* session where the step is being interrupted at the same time, and so does an
\* interrupt that comes before the result of the step is appended.
RunStep ==
    /\ phase = "STEP"
    /\ attempted' = attempted \cup {next}
    /\ \/ /\ passed' = passed \cup {next}
          /\ \/ EndsWith("PASS") /\ UNCHANGED <<file, errors, mishap>>
             \/ TranscriptFails /\ EndsWith("UNKNOWN")
       \/ /\ \E status \in {"FAIL", "UNKNOWN"} : EndsWith(status)
          /\ (TranscriptFails \/ UNCHANGED <<file, errors, mishap>>)
          /\ UNCHANGED passed
       \/ /\ phase' = "CLOSE_PORT" /\ Interrupted
          /\ (TranscriptFails \/ UNCHANGED <<file, errors>>)
          /\ passed' \in {passed, passed \cup {next}}
    /\ UNCHANGED <<options, next, port, open, said, seal, exit, stranded>>

\* The delay behind each step, and behind the last.
Pause ==
    /\ phase = "PAUSE"
    /\ \/ phase' = "CLOSE_PORT" /\ Interrupted /\ UNCHANGED next
       \/ /\ phase' = IF next = N THEN "CLOSE_PORT" ELSE "STEP"
          /\ next' = IF next = N THEN next ELSE next + 1
          /\ UNCHANGED <<results, mishap>>
    /\ UNCHANGED <<options, port, attempted, passed, evidence, exit, stranded>>

ClosePort ==
    /\ phase = "CLOSE_PORT"
    /\ port' = FALSE
    /\ phase' = "CLOSE_TRANSCRIPT"
    /\ Interrupted \/ UNCHANGED <<results, mishap>>
    /\ UNCHANGED <<options, next, attempted, passed, evidence, exit, stranded>>

CloseTranscript ==
    /\ phase = "CLOSE_TRANSCRIPT"
    /\ phase' = "SUMMARY"
    /\ open' = open \ {"transcript"}
    /\ \/ /\ file' = IF Transcribed /\ file["transcript"] = "EMPTY"
                     THEN [file EXCEPT !["transcript"] = "WHOLE"] ELSE file
          /\ UNCHANGED <<results, errors, mishap>>
       \/ /\ Transcribed
          /\ file' = [file EXCEPT !["transcript"] = "DAMAGED"]
          /\ errors' = TRUE /\ mishap' = TRUE
          /\ results' = Degraded(results)
    /\ UNCHANGED <<options, next, port, attempted, passed, said, seal, exit, stranded>>

-----------------------------------------------------------------------------
(* The evidence                                                            *)

\* write_artifact_text(): the handle is closed either way, and text that could not
\* be flushed or closed may be readable all the same.
WriteArtifact(f, ok) ==
    /\ file' = [file EXCEPT ![f] = IF ok THEN "WHOLE" ELSE "DAMAGED"]
    /\ said' = [said EXCEPT ![f] = OverallStatus(results, errors)]
    /\ open' = open \ {f}

\* The exit code; the runner's source is hashed again.
Summary ==
    /\ phase = "SUMMARY"
    /\ phase' = "REPORT"
    /\ exit' = ResultExitCode(results)
    /\ \/ UNCHANGED <<errors, mishap>>
       \/ errors' = TRUE /\ mishap' = TRUE
    /\ UNCHANGED <<options, session, file, open, said, seal, stranded>>

WriteReport ==
    /\ phase = "REPORT"
    /\ phase' = IF HasDir THEN "RESULTS" ELSE "DONE"
    /\ \/ "report" \notin Paths /\ UNCHANGED <<file, said, open, errors, mishap>>
       \/ /\ "report" \in Paths
          /\ \E ok \in BOOLEAN :
              /\ WriteArtifact("report", ok)
              /\ errors' = (errors \/ ~ok)
              /\ mishap' = (mishap \/ ~ok)
    /\ exit' = IF errors' THEN 1 ELSE exit
    /\ UNCHANGED <<options, session, seal, stranded>>

\* Fault: a manifest that could not be sealed stays.
LeavesManifest(content) == content
Unlinked(content) == "ABSENT"

\* The bundle failed: the manifest, which is this run's, is closed and removed, as
\* far as the file system lets it.
Unseal(content) ==
    /\ phase' = "DONE"
    /\ errors' = TRUE /\ mishap' = TRUE
    /\ exit' = 1
    /\ \E removed \in BOOLEAN :
         /\ file' = IF removed THEN [content EXCEPT !["manifest"] = Unlinked(@)] ELSE content
         /\ stranded' = ~removed
    /\ open' = {}

WriteResults ==
    /\ phase = "RESULTS"
    /\ \/ /\ WriteArtifact("results", TRUE)
          /\ phase' = "MANIFEST"
          /\ UNCHANGED <<errors, exit, mishap, stranded>>
       \/ Unseal([file EXCEPT !["results"] = "DAMAGED"]) /\ UNCHANGED said
    /\ UNCHANGED <<options, session, seal>>

\* The manifest hashes every other artifact.
WriteManifest ==
    /\ phase = "MANIFEST"
    /\ \/ /\ WriteArtifact("manifest", TRUE)
          /\ seal' = [f \in Files |-> IF f \in Paths \ {"manifest"} THEN file[f] ELSE "UNSEALED"]
          /\ phase' = "DONE"
          /\ UNCHANGED <<errors, exit, mishap, stranded>>
       \/ /\ said' = [said EXCEPT !["manifest"] = OverallStatus(results, errors)]
          /\ Unseal([file EXCEPT !["manifest"] = "DAMAGED"])
          /\ UNCHANGED seal
    /\ UNCHANGED <<options, session>>

-----------------------------------------------------------------------------
Next ==
    \/ Preflight \/ (\E f \in Files : Reserve(f)) \/ Reserved \/ Others
    \/ StartTranscript \/ OpenPort \/ Synchronize \/ RunStep \/ Pause
    \/ ClosePort \/ CloseTranscript
    \/ Summary \/ WriteReport \/ WriteResults \/ WriteManifest

Spec == Init /\ [][Next]_vars

-----------------------------------------------------------------------------
(* Properties                                                              *)

Phases == {"PREFLIGHT", "RESERVE", "TRANSCRIPT", "OPEN", "SYNC", "STEP", "PAUSE",
           "CLOSE_PORT", "CLOSE_TRANSCRIPT", "SUMMARY", "REPORT", "RESULTS", "MANIFEST", "DONE"}
Contents == {"ABSENT", "FOREIGN", "EMPTY", "DAMAGED", "WHOLE"}

TypeOK ==
    /\ phase \in Phases
    /\ options \in [dry : BOOLEAN, allow : BOOLEAN, outputs : SUBSET Files]
    /\ results \in [Plan -> Statuses \cup {"PENDING"}]
    /\ next \in Plan
    /\ port \in BOOLEAN /\ errors \in BOOLEAN /\ mishap \in BOOLEAN /\ stranded \in BOOLEAN
    /\ file \in [Files -> Contents]
    /\ open \in SUBSET Files
    /\ said \in [Files -> Statuses \cup {"NOTHING"}]
    /\ seal \in [Files -> Contents \cup {"UNSEALED"}]
    /\ exit \in 0 .. 2
    /\ attempted \in SUBSET Plan /\ passed \in SUBSET Plan

Ended == phase = "DONE" /\ exit # 2

\* From the summary on there is a result for every step of the plan, PASS only
\* where the step really passed, and behind a step that did not pass only steps
\* that were never begun.  A step that was begun may be listed NOT_RUN only when
\* an interrupt met it before its result was appended, or met a transcript failure:
\* the result before it, or the first, then says UNKNOWN.
ResultsAreHonest ==
    phase \in {"SUMMARY", "REPORT", "RESULTS", "MANIFEST"} =>
      /\ ~Some(results, "PENDING")
      /\ \A k \in Plan :
          /\ results[k] = "PASS" => k \in passed
          /\ results[k] # "PASS" => \A j \in Plan : j > k => results[j] = "NOT_RUN"
          /\ results[k] = "NOT_RUN" /\ k \in attempted => mishap /\ Some(results, "UNKNOWN")

\* A live run exits 0 only if every step passed, nothing was interrupted or failed
\* at any time, between steps and while closing included, and every requested
\* file is complete, whatever --allow-not-run allows.
ExitZeroIsEarned ==
    Ended /\ exit = 0 /\ ~options.dry =>
      /\ passed = Plan /\ ~mishap
      /\ \A f \in Paths : file[f] = "WHOLE"

\* A manifest that is there was sealed over closed files that have not changed
\* since, and agrees with results.json; one that says PASS comes with exit code 0
\* and a complete report that says PASS.  The one exception is a manifest the run
\* could not remove after its seal had failed: the exit code is 1.
SealIsTrue ==
    Ended /\ HasDir /\ file["manifest"] \in {"EMPTY", "DAMAGED", "WHOLE"} /\ results[1] # "PENDING" =>
      /\ open = {}
      /\ stranded => exit = 1
      /\ ~stranded =>
          /\ \A f \in Paths \ {"manifest"} : seal[f] = file[f] /\ file[f] # "EMPTY"
          /\ said["manifest"] = said["results"]
          /\ said["manifest"] = "PASS" =>
              exit = 0 /\ said["report"] = "PASS" /\ \A f \in Paths : file[f] = "WHOLE"

\* What main() says of a seal that failed: no manifest that can be read and says
\* PASS is left behind.
FailedSealLeavesNoPass ==
    Ended /\ exit = 1 => ~(file["manifest"] \in {"DAMAGED", "WHOLE"} /\ said["manifest"] = "PASS")

\* No step of the run touches a file somebody else created, and nothing is opened
\* on the serial line before all outputs are this run's.
OthersAreSafe ==
    [][/\ \A f \in Files : file[f] = "FOREIGN" => file'[f] = "FOREIGN"
       /\ ~port /\ port' => \A f \in Paths : file[f] \notin {"ABSENT", "FOREIGN"}]_vars
=============================================================================
