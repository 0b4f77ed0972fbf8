# TCA9548A: a verification project

TLA+ models of the TCA9548A I2C multiplexer driver, of the bring-up console
built on it, of the host program that tests both on real hardware, and of the
script that keeps the project's version in step; with TLC runs and TLAPS
proofs. Paths below are relative to the repository root.

## 1. Inventory

| Part | State it keeps | Operations | Interacts with |
|---|---|---|---|
| Driver core, `src/TCA9548A.cpp` | binding, health counters, one observed control byte with its provenance | begin, end, probe, recover, hardReset, selectChannel, writeChannelMask, disableAll, readChannelMask, invalidateChannelMask | calls the application's transport and RESET callbacks; never retries or delays |
| Bus owner (application; two examples) | controller readiness, the receive-fault latch, ESP-IDF device handles | write, read, address probe, prepareAddress, RESET pulse | is called by the driver and the CLI; owns the physical bus |
| Bring-up CLI, `examples/common/Tca9548aCli.cpp` | one background session with its phase, counters and verdicts | command lines, `tick()` | driver and owner; the output queue |
| Console output, `examples/common/ConsoleOutput.h` | byte ring, pending loss, counters | append, drain | the CLI appends; each loop pass drains into the serial backend |
| Console input, `CliLineBuffer.h`, receive loops of both `main` files | partial line, discard mode, bytes to skip | push, reset, overflow flag | serial interrupt or task, CLI |
| HIL runner, `tools/tca9548a_hil.py` | serial boundary, plan and results, soak baselines, artifact files | command exchange, mask checks, soak, classification, reservation and sealing of evidence | the CLI over a serial line; the file system |
| Version generation, `scripts/generate_version.py` | `library.json`, `Version.h`, `Doxyfile`, `idf_component.yml`, the identity header | sync, check, bump, set, identity-header | files, Git |
| Checks and tests, `tools/check_*.py`, `tools/test_*.py`, `test/` | none at run time | read files or code, report | files only |

What makes these hard:

* **Ambiguous effects.** A failed I2C write or RESET may have changed the mux, a
  command that was not answered may have run.
  What is said afterwards must be right in both worlds.
* **The outside world.** Power-on reset, an external RESET, another master: the
  route changes between any two steps, inside a call or a check too. Other processes
  create files where the runner is about to.
* **Cooperative concurrency.** A session is spread over many passes of the main
  loop; commands, `stop` and serial traffic come between its primitives.
* **An unreliable line.** Serial output is late, lost or left over; input is lost;
  the board restarts; every host deadline can expire at any point.
* **Partial failure of multi-step work.** Rounds, selftest, cleanup, restore,
  evidence writing and version updates are sequences, each step of which can fail,
  be interrupted or be killed on its own.
* **Finite resources and time.** Saturating counters, a full or wrapping ring,
  short writes, a wrapping millisecond clock, stalls, a batch cap next to a deadline.

What correct means, part by part: the driver's evidence about the route is true
and its failures leave none; its health is the documented function of the
outcomes; the console's stream is whole records with every gap marked; a CLI
verdict (PASS, `Cleanup: verified`, restored) is true of the mux, and every
session ends; the runner credits every answer to its command, its PASS is
true of the fixture, it restores what it disturbed or says so, exit 0 and the
sealed manifest are earned; a version command that succeeds leaves all files in step.
`PROJECT.json` lists each hazard at its line with the properties that cover it.

## 2. Modules

| Module | Models | Proofs |
|---|---|---|
| `TCA9548A` | the driver core, its callbacks and the mux | `TCA9548A_proofs` |
| `DriverHealth` | abstract: what `DriverState` promises | (refinement proved there) |
| `ConsoleOutput` | the ring of `ConsoleOutput.h` | `ConsoleOutput_proofs` |
| `ConsoleStream` | abstract: a lossy first-in first-out stream that marks its gaps | (refinement proved there) |
| `CliSession` | sessions and commands of the bring-up CLI | `CliSession_proofs` |
| `HilExchange` | `SerialRunner`: marker framing against the console's input and output | `HilExchange_proofs` |
| `CommandChannel` | abstract: the command line the rest of the runner relies on | (refinement proved there) |
| `HilMaskChecks` | `run_mask_checks()`: routing, sweep, controls, restore | `HilMaskChecks_proofs` |
| `HilSoak` | `run_soak()`: baselines, paced batches, cleanup, final counters | `HilSoak_proofs` |
| `HilVerdict` | what the firmware prints and what `classify()` and the parsers conclude | `HilRun_proofs`, second part |
| `HilRun` | `main()` and `run_live()`: plan, results, exit code, evidence files | `HilRun_proofs` |
| `VersionSync` | the commands of `generate_version.py` on the files | `VersionSync_proofs` |
| `MC...` | the instance of each of these for TLC | |

How they fit: `CliSession` takes a driver call as one step, which is what
`SuccessCorrect` of `TCA9548A_proofs` allows. `HilExchange` takes the console's
output as records that are lost only with a mark, which is `LossIsMarked` of
`ConsoleOutput`. `HilMaskChecks`, `HilSoak` and `HilRun` take an exchange
as one step with an outcome (answered, refused, boundary lost, not recorded,
interrupted); that at most one command is under way, that an answer is the answer
to it, and that nothing is sent once the boundary is lost is `CommandChannel`, which
`HilExchange` implements. `HilVerdict` says when "answered" means PASS.

### TCA9548A

The variables are the members of the class (`config`, `bound`, `initialized`,
`driverState`, `consecutiveFailures`, `lastError`, `totalFailures`,
`totalSuccess`, `maskObservation`), the call in progress (`call`), the mux's
register (`control`, the set of enabled channels) and one history variable,
`disturbed`: the route changed out of band since the last completed transfer and
the application has not said so with `invalidateChannelMask()`.

An API call is split where the code leaves the driver. `Begin`, `Transfer`,
`SelectChannel` and `HardReset` run up to the callback; `TransferCallback` and
`ResetCallback` are the callback as `Config.h` specifies it; `ResetReturn`,
`WriteReturn` and `ReadReturn` are the rest of the handlers. `OutOfBand` may
happen between any two of these. A refused call returns at once. The driver is
documented as not reentrant, so no call starts before the last one returned.

The callback contract is where the model gets its failures: OK means the
transaction ended with STOP; an address NACK transferred nothing; after any
other failed write the register holds the old byte or the new one. A RESET pulse
may or may not clear the register, whatever the callback returns, and its code may be
outside the contract.

Left out: the timestamps `lastOkMs` and `lastErrorMs` and the `nowMs` hook, which
nothing reads back; `detail` and message texts; `getSettings()` and the other
accessors; `tick()`, which is empty.

`DriverHealth` sees only bindings and outcomes. `TCA9548A!Health` reads the
driver's variables as its own; the streak is cut at the threshold.

### ConsoleOutput

`data`, `head`, `used`, `lossPending`, `stats` are the members; `AppendRecord` is
`append()`, `Drain(accepts)` one `drain()` with the backend's answer, from zero to
more than it was offered. A byte is a cell: which record it belongs to and how
many bytes of that record follow. The model keeps what was offered and delivered
as history; `StatsAreExact` compares the counters with the records and bytes that are in neither
the ring nor the stream. `Queue` reads the ring as the queue of `ConsoleStream`. Empty strings,
which `append()` ignores, are left out, and so are `backend` and `connected`, and
`rxOverflows`, which the input path counts.

### CliSession

`session` is `_session` without its printed copies. A driver call is one step
here: `DeviceRead` and `DeviceWrite` say what an OK and a failure mean for the mux
and carry the owner's latch, `retired`: after a failed receive both examples refuse
the bus until reboot. `Tick` is one pass of the loop with at most one primitive;
`Stop`, `Start` and the other commands run between ticks. A synchronous command of
several primitives is the `script` of those still to run, in the code's order, so
that the outside world can act between them: selftest, begin's safe-off, enable and
disable, hardreset. `AfterFailure` is the code's early return: it drops the remaining
checks and keeps the restoring steps, which are the end of the script.

Simplifications: commands that are one driver call are grouped by what they do to
the mux; the reason of a transfer failure is one code, `I2C`; settings staged
between bindings do not change what a session does and are left out; the extra
address probe before `begin` either stops the command, which changes nothing, or
lets it go on. `hil dry` and `hil parser` touch no state. The clock moves only
while a session runs, starting on either side of the wrap.

### HilExchange and CommandChannel

The host side is `SerialRunner`: `ReadUntilIdle`, `Synchronize` (the discard command that
must be acknowledged first), `Command`, and `Read`, which reads any part of what
has arrived and lets `Judge` decide as the code does after each read: no verdict
yet, the reply's only prompt (then a fresh marker is written), the marker's echo right
behind the prompt (then the answer is accepted), or a response that cannot be
attributed (then the boundary is lost for good). `GiveUp` is a deadline, a serial
error or an interrupt at any of these points. The firmware side runs one line at a
time (`TakeLine`), loses input (`LoseLine`: the receive loop sees the overflow and
skips to the next line end), loses output with a mark (`PrintRecord`, `MarkLoss`)
and restarts with a banner. A session begins with anything an earlier one left in the
input, the running command, the output and the line.

Text is records: payload of a command, echo of a marker, prompt, acknowledgement of
the discard, loss mark, boot banner. Receive losses that the backend cannot
see (`docs/CLI.md`: native S2 and both S3 adapters) are outside this model: there two
lines can merge into one, and the promise of the line buffer does not cover it.

### HilMaskChecks, HilSoak, HilVerdict

`HilMaskChecks` steps through the command scripts of the three checks, one exchange per
step, against a `wiring` of addresses to branches that may differ from what
`--route` declares, one channel that may be stuck off and another master that may write at any
time. A scan takes many ticks of the firmware: `ScanHeader` reads and prints the mask in one,
`ScanProbe` probes the next address in each later one, and the other master may write between
any two. The host sees the end of the scan only, in `Exchange`. `SweepOrder` is the order in which the sweep writes the masks; all that
is assumed of it is that it lists each mask. `RESTORE` is the `finally` block. `HilSoak` has the setup,
the loop with its clock, the batch, the two sleeps of a pause, the cleanup that
tries every command although one failed, and the final counters; the firmware's counters
saturate at `CounterMax` and move at any time. The clock stands still in setup and cleanup,
whose time no decision reads.

`HilVerdict` is functional: the truth of how an operation ended (`Endings`), the lines the
firmware prints about it (`Reply`, from the printing code of `Tca9548aCli.cpp`), one line
lost, doubled or replaced by the loss mark, and the verdict (`Classified`, from the
failure patterns, the expected tokens and the parsers). The fields of a line are those
the runner looks at. What a parser collects is the set of positions of a kind of line (`At`); order
is a position's `Rank` among them.

### HilRun

`phase` is the place in `main()` and `run_live()`; each action is the code up to the
next operation that can fail: preflight, reserving each output with `open(..., "x")`,
starting the transcript, opening the port, synchronizing, each step, each pause,
closing, and writing report, results and manifest. `file` is what is on disk,
`FOREIGN` what other processes put there. A step ends with a status, and may do so while
its transcript fails. `NotRunFrom`, `Degraded` and `FailSession` are the code's list
operations on results.

### VersionSync

A command is the list of its steps (`todo`): a file is truncated by `Open...` and whole only
after `Write...`, so a kill or an I/O error in between leaves it torn. Versions are
triples; a file that holds fields is the number of matching fields, their version and
whether its end is cut off: only the fields are replaced, so a cut stays. `Beginnings` is what
an interrupted write may leave of such a file. `Kill` ends a command without an exit code,
`IoError` is an `OSError` nobody catches: exit 1, at any step.
`Edit` is a person between commands, `Commit` changes what Git says of the tree. Exit code
`NONE` means that no command has ended since the last kill or edit.

## 3. Runs

| Run | Instance | States | What it shows |
|---|---|---|---|
| `driver` | 2 channels and an invalid one, a failure that sent nothing and an ambiguous one, thresholds 0..3, a 2-bit failure counter, totals that saturate at 2, every check of begin() failing alone | 488 k | `HealthIsClassified`, `ObservationTruth`, `FailureLeavesNoEvidence`, `ProbeIsPassive`, `TotalsOutliveBindings`, `ImplementsDriverHealth`, `SuccessIsTrue`, `RefusalIsTransactional` |
| `console_output` | 5 bytes, chunks of 2, marker of 2, records of 1, 2, 5 and 6 bytes, 4 records | 17 k | `RecordsAreWhole`, `LossIsMarked`, `StatsAreExact`, `ImplementsConsoleStream`, `EventuallyDrained` |
| `cli_masks` | 2 channels, runs of 1 and 3 rounds, the selftest with and without RESET, `stop` any number of times | 648 k | `OneUserOfTheBus`, `CleanupIsVerified`, `PassMeansDone`, `SelfTestOwesRestore`, `SelfTestRestores`, `SessionsEnd` |
| `cli_samples` | clock of 32 ms, seconds of 4 ms, stalls of up to 9 ms, intervals 3 and 4, 3 addresses | 519 k | `PassMeansDone`, `SoakVerdict`, `WatchSpacing`, `SessionsEnd` |
| `hil_exchange` | 3 commands, the discard included, 2 boots, answers of up to 6 records | 1.2 M | `AnswerIsWhole`, `BoundaryIsClean`, `ImplementsCommandChannel` |
| `hil_masks` | 2 channels, 2 devices, every wiring, up to 2 declared routes | 15.2 M | `PassIsTrue`, `EntryMaskRestored` |
| `hil_soak` | seconds of 2 ticks, soaks of 1 and 4 ticks, delays 0 and 3, cap 3, counters that saturate at 2 | 1.1 M | `SoakPassIsEvidence`, `CleanupIsOwed`, `CapNeverBinds` |
| `hil_run` | a plan of 3 steps, all combinations of outputs and options | 16 k | `ResultsAreHonest`, `ExitZeroIsEarned`, `SealIsTrue`, `OthersAreSafe` |
| `hil_seal` | the same | (finding) | `FailedSealLeavesNoPass` is violated |
| `hil_verdict` | 4 addresses, 2 of them candidates, 2 rounds, every ending of 15 kinds of command | 125 k | `VerdictIsTrue`, `SuccessPasses` |
| `version_sync` | 2 settable versions, parts of up to 1, 2 commits | 4.5 M | `SuccessMeansSynced`, `FailureIsContained` |
| `version_order` | versions 1.0.99 and 1.0.100 | (finding) | `CodeOrdersVersions` is violated |

Why these bounds are enough to be interesting:

* *driver.* Two channels give masks that differ, overlap and are empty. The two
  errors are the effects of a failure (nothing sent, ambiguous). Thresholds lie below,
  at and above 1 and at the counter's limit; a counter reaches its limit with the state
  already OFFLINE.
* *console_output.* A record that fills the ring, one that never fits, and short ones
  put the wrap at every offset; the counters saturate at 7 of up to 24 bytes.
  `MaxRecords` bounds the history.
* *cli_masks.* `37 n + 0xA5` taken modulo 4 visits all masks as modulo 256; three rounds
  exceed the number of channels, so a round's channel comes back to CH0. Small, so that the
  fault it must exclude, a cleanup restarted by every stop, has a reachable cycle: transfer
  counters wrap at `CountSize` (24 here, 2^32 in the code, above any run's transfers in both).
  Clock and loop time play no part in these sessions.
* *cli_samples.* A stall is longer than two intervals and longer than the shortest
  soak, so a deadline passes before the first sample too; sessions start at
  every clock value, the last before the wrap included. `ClockSize` is more than
  twice every duration, as 2^32 ms is of 86,400 s.
* *hil_exchange.* Three commands are the discard, one that may be misread, and one whose
  answer would be credited wrongly; an answer of one payload record, its prompt, the echo
  and its prompt has four records, so six leave room for what does not belong there.
* *hil_masks.* With two devices on two channels every confusion of wiring exists: an
  address on both branches, upstream too, nowhere, or on the other's branch. `MaxRoutes` is
  2: both devices on one branch, each on its own, or one on both. A scan probes three
  addresses, so the other master can come before, between and behind them.
* *hil_soak.* A soak shorter than a batch interval, and one of two intervals; a delay longer
  than the interval; the cap is one batch above the longest soak, as 86,401 is above 86,400 s.
* *hil_run.* Three steps are a first, a middle and a last one; a failure can
  have steps before and behind it.
* *hil_verdict.* An address that is not a candidate, the configured one and another; counts
  small enough that a doubled and a lost line could make up for each other.
* *version_sync.* Bumping each part from 0 and to its bound; a set version lower and higher
  than the present one. The two commits are symmetric (`Symmetry`; no property names one,
  and no liveness is checked there).

Where the code's own numbers are constants of the model (8 channels, 256 masks, 64-byte
chunks, 112 addresses), the instance is smaller and the actions are those of the code.
Deadlock is checked for the driver, the console, the CLI and the version commands, which never
stop. The other runs say `CHECK_DEADLOCK FALSE`: a host session is over after `MaxCalls` commands
or when the line is lost, and a check, a soak, an invocation and a verdict come to their end.

### Fairness

* `TCA9548A` states none: its handlers have no loop, and that a callback returns is the
  application's duty.
* `ConsoleOutput`: `WF(Drain(0))`, as every pass of `loop()` and `app_main()` drains;
  `HostReads`, that an offered byte is accepted sooner or later, is an assumption
  about the host and is used only for `EventuallyDrained`.
* `CliSession`: `WF(Tick)`, as every loop pass ticks, and `WF(ScriptStep)`, as a
  synchronous command runs to its end. In `cli_samples` each pass takes at least
  1 ms (`delay(1)` at the loop's end). No fairness is asked of commands, of
  success or of the outside world.
* The host's modules state none: each of its procedures is a bounded script of exchanges with
  deadlines, and the only loop, the soak's, is bounded by `CapNeverBinds` and the clock.

### The properties worth a remark

* `ObservationTruth` exempts the moment between the end of a transfer and the
  handler's return: the register already changed and the driver's cache not yet. No
  caller can look then.
* `CleanupIsVerified` is about the report of `printRunStats()`, whose default is OK: it is
  true only because every path of a session that wrote the mux leads through the cleanup's
  readback. `PassMeansDone` also counts transfers: 2n+2 for stress, 7n+2 for
  stress_mix, twice the masks plus 3 for sweep. `SessionsEnd` fails if a second `stop`
  restarts the cleanup.
* `AnswerIsWhole` allows a `LOST` mark inside an answer: the runner fails such an answer
  by its text (`HilVerdict`), the framing only has to keep it attributed.
* `PassIsTrue` of `HilMaskChecks` is about the fixture, not about any moment: each look at
  the bus happens at another time and another master may write in between. Before and behind a
  scan the mask in the scan's own header shows it. Inside a scan nothing does: the mask is
  printed in one tick and the addresses are probed in later ones
  (`Tca9548aCli.cpp:685-711`), so a scan he wrote in the middle of may show any branch, and
  the host accepts it. `crossed` collects these scans, and the property says nothing of what they
  alone show; all other scans count in full.
* `EntryMaskRestored` and `CleanupIsOwed` exempt `touched`: what another master writes after
  the last readback nobody has seen.
* `ResultsAreHonest` says exactly how far the runner goes when an interrupt comes before a
  step's result is appended, or meets a transcript failure: that step is listed NOT_RUN although
  it was begun, and the result before it, or the first, says UNKNOWN.
* `SealIsTrue` holds of a failed run too: a manifest may be left behind only if it is whole, and
  the two documents next to it say the same of the run. The exception, `stranded`, is a manifest
  whose seal failed and which could not be removed either: the code suppresses both errors, and only
  exit code 1 is left to tell (see the findings). Only a run refused while it reserves its
  outputs leaves empty ones behind, and no session.
* `SuccessMeansSynced` holds after any history of kills: a torn `library.json` is refused,
  torn outputs are repaired or refused before any file is written. A file that was cut off
  behind its field has the version it should have and passes as up to date: the right text is
  made from the text on disk (`Rewritten`). One that lost its field makes every later command
  exit 1 until somebody repairs it by hand.
* `FailureIsContained`: a command that refuses its inputs, or a check that fails, exits 1 with
  every output as it was. An I/O error exits 1 as well, with outputs already changed: those before
  the one being written are right, those behind it untouched, and `library.json` has the new version.

Each property has a mutant in `PROJECT.json`: a plausible fault, defined in the module beside
the code it would break and marked `Fault`, with which TLC finds the property violated.

### Findings

`version_order`: `version_code()` packs a version as `MAJOR*10000 + MINOR*100 + PATCH`, and the
header it generates offers this number "for numeric comparison" (`scripts/generate_version.py:194`).
Neither the version syntax nor `bump` keeps a part below 100: 1.0.100, a bump away from 1.0.99,
and the later 1.1.0 have the same code, 10100. TLC finds it with `CodeOrdersVersions`.

`hil_seal`: the comment in `main()` (`tools/tca9548a_hil.py:1855-1856`) says that a failed seal "must not
leave a parseable PASS manifest, even when the bytes reached the file". The code below it removes the
manifest, but suppresses an `OSError` of doing so: where the text reached the file, the flush
or the close failed and the file cannot be unlinked, a PASS manifest stays. `FailedSealLeavesNoPass`
states the comment; what does hold, exit code 1, is part of `SealIsTrue`.

## 4. Proofs

All theorems hold for every value of the constants that the named assumptions of the modules
allow, and rest on nothing else.

**`TCA9548A_proofs`**, for every set of channels, of Configs and of transport errors and for
every counter width (`ConstantsAssumption`):

* `TypeCorrect`: the type invariant. By itself `TypeOK` is not inductive. `TypeInv` adds
  `CallShape` (a call in progress is a bus operation of a bound driver, and RESET runs with
  the evidence already withdrawn) and `BindingIsValid` (the bound Config passed begin()'s
  checks).
* `ObservationIsTrue`, `FailureIsUnknown`: the route. `RouteInv` adds
  `TransferTruth`: between a completed transfer and the return, the byte about to be
  published is the byte in the mux. The proof goes action by action in `RouteStep`; the
  RESET steps need `CallShape`, which is the reason the code invalidates before
  the pulse.
* `SuccessCorrect`, `ProbePassive`, `TotalsSurvive`, `RefusalTransactional`: action
  properties, from the same invariants.
* `HealthClassified` and `DriverImplementsHealth`: the health. `HealthMoves` reduces
  all actions to four (nothing, bind, unbind, one tracked outcome), so the
  classification and the simulation each look at four cases. The refinement needs
  that an unbound driver is fresh, and that the threshold fits the counter.

**`ConsoleOutput_proofs`**, for a ring of any capacity, any chunk, marker and record lengths
(`QueueAssumption`):

* `RingImplementsStream`: every step of the ring is a step of `ConsoleStream`. The lemmas under
  "Positions in the ring" say what head and length do to an index modulo the capacity; `Queue`, the
  ring read from its head, then grows at its end by the record, or by the marker and the record, and
  shrinks at its front by what the backend accepted.
* `WholeRecords` and `MarkedLosses`: what a step does to the whole stream (delivered, then queued)
  is nothing, one whole record, or the marker and one whole record. Both properties are
  inductive under that.
* `ExactStats`: the counters. The lost records and bytes are sets, a dropped record adds itself
  to them, and a saturated counter stays equal to the smaller of its limit and their number.

**`CliSession_proofs`**, for every number of channels, request, address range, clock size and
loop time (`ConsoleAssumption`; `RawAssumption`: each mask has a byte):

* A session is a record of 21 fields; lemmas say for each helper which it leaves alone (`Only`).
* `OneUserOfTheBusAlways` and `CleanupIsVerifiedAlways`, from `BusInv`. The cleanup's report is true
  because a session with something to clean up never ends in a round or by `stop`, only in the
  readback.
* `SelfTestOwesRestoreAlways` and `SelfTestRestoresAlways`, from `ScriptOK`: as long as a restore is
  owed, the script in progress ends in the restoring steps, whatever it still has before them,
  and a failure keeps them.
* `PassMeansDoneAlways` and `SoakVerdictAlways`, from `SessionOK`: the books of a session that may
  still pass. In each phase and round its transfers are the number `Account` says; no counter can
  have wrapped, because the longest run's transfers stay below the counters' size. A scan, a
  watch and a soak end with their first failure (`FailsAtOnce`).
* `WatchSpacingAlways`, and the duration in `SoakVerdictAlways`, from `TimeOK`: what the wrapping
  clock says of the last sample or the start is true as long as it is less than a clock's size
  ago, and later than that the interval is over anyway: every interval, duration and loop time is
  assumed to be less than half of the clock's size.

**`HilExchange_proofs`**, for any number of commands and restarts and any limit on an answer:
`WholeAnswers`, `CleanBoundary` and `ImplementsChannel`. All are read off one sequence, the `View`:
what the host has read, what is on the line, the loss still to be marked and what the firmware
has still to print. Reading and printing move its cuts and leave it alone, so the invariant
speaks of it once: which lines are still in the input (`RxOK`), what is left to print belongs to
the line being run (`OutOK`), a clean line shows the command's record, or a loss in its place, and then
its prompt (`FormOK`), the marker's echo is the last thing a boot says and the command was taken in
that boot (`MarkOK`), and after an exchange nothing is left of it (`BoundaryOK`). What stands behind a restart's banner never
counts. `CommandChannel` follows from these: an accepted answer is to the command sent last, and a
runner that lost its boundary sends no more.

**`HilMaskChecks_proofs`**, for every fixture, wiring and order of the sweep:

* `EntryMaskRestoredAlways`. The property is itself inductive.
* `PassIsTrueAlways`: as long as a check has no error, each command behind the current step has
  shown what it was sent for (`ProgressOK`), and the fixture does not change what was shown. A scan
  nobody has crossed was taken under one mask, the one in its header (`ScanOK`), whichever tick it
  is at. At the end of the script every declared address was seen on its branch and every mask was read
  back; the sweep needs `SweepAssumption` here, that no mask is missing from its order.

**`HilSoak_proofs`**, for every duration, delay, cap that fits them and counter width:

* `CapNeverBindsAlways`, by `Paced`: batches begin a second apart, and `WakeBounds` shows that no
  pause ends before the next batch is due although one sleep is at most a second.
* `SoakPassIsEvidenceAlways`, by `Moves` (a counter that moved since its baseline is above it,
  also at its limit, because no baseline is taken at the limit) and `SoFar` (what a soak without
  errors has behind it in each phase).
* `CleanupIsOwedAlways`, by `Owed` (how far mux and verbosity are from where they were
  found, phase by phase).

**`HilRun_proofs`**, for a plan of any length: `OthersAreSafeAlways`, `ResultsAreHonestAlways`,
`ExitZeroIsEarnedAlways`, `SealIsTrueAlways`. The inductive invariant is the conjunction of
`TypeOK`, `FilesInv` (from the end of the reservation on every output is this run's), `ResultsInv`
(behind the current step all passed, from there on nothing is claimed; honest once the session
is over), `TranscriptInv` (the transcript is open, complete, or known to be damaged),
`VerdictInv` (whatever went wrong left a FAIL, an UNKNOWN or an artifact error) and `WritingInv`
(what report, results and exit code say agrees with the results). Each is shown inductive with the
help of those before it, one step per action.

The module's second part is about `HilVerdict`, for every range of addresses, candidates and
configured address and every number of rounds (`VerdictAssumption`); its specification is called
`ReplySpec` so that one module can extend both. The invariant, `ReplyInv`, says that the reply is
`Reply(truth)` until it is garbled, that afterwards every line of it is still one the firmware prints
about this truth, or the loss mark (`Told`, which `ReplyTold` establishes command by command), and
that the verdict is the classification.

* `VerdictIsTrueAlways`. A lost or doubled line takes nothing untrue into the reply, so whatever a
  parser reads from one line is true of the operation. What it concludes from several lines needs counting: a
  scan passes only with as many different addresses as its summary counts, and a set of real devices of the right
  size is all of them (`AllFound`, by cardinality); a `hil` run passes only if every required label
  is there as a PASS, and a line with a PASS is printed only of a check that did not fail (`PassedLabel`).
* `SuccessPassesAlways`. Here the whole reply matters: `ScanShape`, `Tabled` and `TallyAgrees` say of the
  printed sequences where each kind of line stands, that rows and addresses come in order and once
  (`Ranks`, `InOrder`), and that the totals printed at the end are the numbers of the lines before them.

**`VersionSync_proofs`**, for every set of versions and identities: `SuccessMeansSyncedAlways` and
`FailureIsContainedAlways`. `Shape` (a command is at some point of its plan) comes first;
`Untouched` (nothing is written before all files were examined), `Chosen` (the version to be
written is the one asked for) and `Brought` (behind an output's turn the output is right, before it
what it was) rest on it, and an I/O error meets the outputs as these leave them (`ErrorContained`);
`Reported` adds that exit 0 comes at the end of the list. `CodeOrdersBelowHundred` is the other side
of the finding: while no minor or patch part reaches 100, the code orders versions exactly as they are.

Only model-checked, and why: liveness (`EventuallyDrained`, `SessionsEnd`), which
needs fairness and ENABLED, and these the prover does not reason about. Every invariant and every
action property that a passing run checks is a theorem. `CodeOrdersVersions` and
`FailedSealLeavesNoPass`, the findings, do not hold.

## 5. Not modelled

* **Console input** (`CliLineBuffer.h`, `CliArguments.h`, the receive loops). One bounded sequential
  buffer and a few flags, covered by `test_cli_commands`. `HilExchange` takes its promise: a line
  that lost bytes is refused as a whole.
* **The owners' own paths.** The Wire adapter and `prepareAddress` of both examples branch on
  the results of calls into the Arduino core and the ESP-IDF master driver, which are not in the
  repository; what a failing one leaves behind is theirs to say. Of the Arduino owner
  `CliSession` has the receive-fault latch.
* **In the CLI:** staged settings, `color`, `verbose`, `help` and printing; in the driver the
  fields nothing reads back (section 2).
* **In the runner:** argument parsing, the formatting of report and transcript, parsers of
  diagnostics that only check their presence, and an interrupt outside `run_live()`.
* **Python checks** (`tools/check_*.py`) and both test suites: each reads the repository once and
  reports; no state of the system. Tests were read as evidence of what is intended.
* The formatting of `Version.h` and of the identity header, CI, build files and board constants.

Five of the hazards in `PROJECT.json` carry a note instead of a property: four are in parts listed
here. The fifth, that another master writes between the read and the write of `enable`, is one
against which the code promises nothing.
