----------------------------- MODULE CliSession -----------------------------
(***************************************************************************)
(* The bring-up console of examples/common/Tca9548aCli.cpp on top of the    *)
(* driver and of an example's bus owner: background sessions that the main  *)
(* loop advances one I2C primitive per tick, and the synchronous commands   *)
(* that run between ticks.                                                  *)
(*                                                                         *)
(* A driver call is one step here: its OK is right about the mux (theorem   *)
(* SuccessCorrect of TCA9548A_proofs).  The owner below it retires the      *)
(* controller after a failed receive and refuses all work from then on.     *)
(* A synchronous command of several primitives is the script of those still *)
(* to run; only the outside world acts between them.                        *)
(***************************************************************************)
EXTENDS Integers, Sequences

CONSTANTS
    NumChannels,    \* 8 in the code; a control byte is a set of channels
    Offered,        \* what a user may start: the session kinds and SELFTEST
    Counts,         \* the counts a user asks for: rounds, samples, soak seconds
    Intervals,      \* of watch, in ms
    Second,         \* ms per second, 1000 in the code
    LoopTimes,      \* ms one pass of the main loop can take
    ClockSize,      \* the ms clock wraps here, 2^32 in the code
    CountSize,      \* the counters of transfers wrap here, 2^32 in the code
    FirstScan, FirstCandidate, LastAddress, \* 0x08, 0x70 and 0x77 in the code
    OutOfBand       \* whether the mux also changes behind the console

Channels == 0 .. NumChannels - 1
NumMasks == 2 ^ NumChannels
Masks == SUBSET Channels
NoMask == {}

\* ChannelMask::fromRaw and ChannelMask::one
FromRaw(n) == {c \in Channels : ((n % NumMasks) \div 2 ^ c) % 2 = 1}
One(n) == {n % NumChannels}

Kinds == {"STRESS", "MIX", "SWEEP", "WATCH", "SOAK", "SCAN", "DISCOVER"}

ASSUME ConsoleAssumption ==
    /\ NumChannels \in Nat \ {0} /\ Counts \subseteq Nat \ {0} /\ Second \in Nat \ {0}
    /\ Offered \subseteq Kinds \cup {"SELFTEST"} /\ OutOfBand \in BOOLEAN
    /\ Intervals \subseteq Nat \ {0} /\ LoopTimes \subseteq Nat
    \* the longest run's transfers stay below the counters' size
    /\ CountSize \in Nat /\ 2 * NumMasks + 3 < CountSize
    /\ \A n \in Counts : 7 * n + 2 < CountSize
    /\ FirstScan \in Nat /\ FirstCandidate \in Nat /\ LastAddress \in Nat
    /\ FirstScan <= FirstCandidate /\ FirstCandidate <= LastAddress
    /\ ClockSize \in Nat \ {0}
    \* every interval, duration and loop time stays below half the clock
    /\ \A t \in Intervals \cup LoopTimes \cup {Second * n : n \in Counts} : 2 * t < ClockSize

\* Binary numerals: every mask has a raw value.
ASSUME RawAssumption ==
    /\ NumMasks \in Nat \ {0}
    /\ \A mask \in Masks : \E n \in 0 .. NumMasks - 1 : FromRaw(n) = mask

VARIABLES
    control,    \* the mux's control byte
    bound,      \* the driver is bound
    retired,    \* the owner refuses the bus: not ready, or receiveFaulted
    session,    \* _session
    script,     \* the primitives a synchronous command has still to run
    restored,   \* selftest: every restoring primitive so far succeeded
    now,        \* the platform's millisecond clock
    age,        \* history: true ms since the session started
    gap,        \* history: true ms since its last sample
    visited,    \* history: the masks verified (addresses probed) by the session
    owed        \* history: the entry mask a selftest has captured and not yet
                \*   reported on, as a set of at most one mask

bus == <<control, retired>>
timing == <<now, age, gap>>
selftest == <<script, restored, owed>>
vars == <<bus, bound, session, selftest, timing, visited>>

NoSession ==
    [kind |-> "NONE", running |-> FALSE, cancelled |-> FALSE, restoring |-> FALSE,
     captured |-> FALSE, phase |-> 0, target |-> 0, completed |-> 0, interval |-> 0,
     next |-> 0, started |-> 0, duration |-> 0, original |-> NoMask, expected |-> NoMask,
     primary |-> "OK", cleanup |-> "OK", successes |-> 0, failures |-> 0,
     address |-> 0, found |-> 0, scanErrors |-> 0]

Init ==
    /\ control \in Masks
    /\ bound = FALSE
    /\ retired \in BOOLEAN
    /\ session = NoSession
    /\ script = <<>>
    /\ restored = TRUE
    /\ now \in {0, ClockSize - 1}
    /\ age = 0
    /\ gap = 0
    /\ visited = {}
    /\ owed = {}

-----------------------------------------------------------------------------
(* The driver call and the owner under it                                  *)

\* readChannelMask() or probe(): a failed receive retires the controller.
DeviceRead(ok) ==
    /\ ok => ~retired
    /\ retired' = (retired \/ ~ok)
    /\ UNCHANGED control

\* writeChannelMask() and its aliases: refused when retired, and ambiguous when
\* the transfer failed.
DeviceWrite(mask, ok) ==
    /\ ok => ~retired
    /\ control' \in IF retired THEN {control} ELSE IF ok THEN {mask} ELSE {control, mask}
    /\ UNCHANGED retired

Matches(expected) == control = expected

-----------------------------------------------------------------------------
(* The session's bookkeeping                                               *)

\* recordTransfer()
Counted(s, ok) ==
    IF ok THEN [s EXCEPT !.successes = (@ + 1) % CountSize]
    ELSE [s EXCEPT !.failures = (@ + 1) % CountSize]

RouteKinds == {"STRESS", "MIX", "SWEEP"}

\* Fault: a stress_mix run is not cleaned up.
CleansUpStressOnly(s) == s.kind = "STRESS" \/ (s.kind = "SWEEP" /\ s.captured)
NeedsCleanup(s) == s.kind \in {"STRESS", "MIX"} \/ (s.kind = "SWEEP" /\ s.captured)

Finished(s) == [s EXCEPT !.running = FALSE]

Restoring(s) == [s EXCEPT !.restoring = TRUE, !.phase = 0]

KeepsFirst(s, code) == IF s.primary = "OK" THEN [s EXCEPT !.primary = code] ELSE s

\* fail()
Failed(s, code) ==
    LET t == KeepsFirst(s, code)
    IN  IF NeedsCleanup(t) THEN Restoring(t) ELSE Finished(t)

Succeeds(s) == s.primary = "OK" /\ s.cleanup = "OK" /\ ~s.cancelled

-----------------------------------------------------------------------------
(* Commands                                                                *)

\* Fault: a command is taken while a session is active.
NeverBusy == script = <<>>

\* processCommand() answers BUSY while a session is active, and a synchronous
\* command occupies the loop until its script is done.
Ready == script = <<>> /\ ~session.running

Startable(kind) == (kind = "DISCOVER" \/ bound) /\ ~retired

\* start() and the command lines that reach it.
Start(kind) ==
    /\ Ready /\ Startable(kind)
    /\ \E count \in CASE kind = "SWEEP" -> {NumMasks}
                      [] kind = "SCAN" -> {LastAddress - FirstScan + 1}
                      [] kind = "DISCOVER" -> {LastAddress - FirstCandidate + 1}
                      [] OTHER -> Counts,
          interval \in CASE kind = "WATCH" -> Intervals
                         [] kind = "SOAK" -> {Second}
                         [] OTHER -> {0} :
         session' = [NoSession EXCEPT
            !.kind = kind, !.running = TRUE, !.target = count, !.interval = interval,
            !.started = now, !.next = now,
            !.duration = IF kind = "SOAK" THEN count * Second ELSE 0,
            !.address = IF kind = "SCAN" THEN FirstScan ELSE FirstCandidate]
    /\ age' = 0
    /\ gap' = 0
    /\ visited' = {}
    /\ UNCHANGED <<bus, bound, selftest, now>>

\* stop(): cancels a session once; an active cleanup is left to finish.
Stop ==
    /\ script = <<>> /\ session.running /\ ~session.restoring
    /\ session' = Failed([session EXCEPT !.cancelled = TRUE], "BUSY")
    /\ UNCHANGED <<bus, bound, selftest, timing, visited>>

StatsReset ==
    /\ Ready
    /\ session' = NoSession
    /\ UNCHANGED <<bus, bound, selftest, timing, visited>>

End ==
    /\ Ready
    /\ bound' = FALSE
    /\ UNCHANGED <<bus, session, selftest, timing, visited>>

\* The commands that are one driver call: read, dump, probe and verify; off,
\* recover, select and mask.
ReadCommand ==
    /\ Ready /\ bound
    /\ \E ok \in BOOLEAN : DeviceRead(ok)
    /\ UNCHANGED <<bound, session, selftest, timing, visited>>

WriteCommand ==
    /\ Ready /\ bound
    /\ \E mask \in Masks, ok \in BOOLEAN : DeviceWrite(mask, ok)
    /\ UNCHANGED <<bound, session, selftest, timing, visited>>

\* A step of a script.  The restoring steps, at its end, run whatever failed before.
Write(mask) == [op |-> "write", mask |-> mask, restores |-> FALSE]
Verify(mask) == [op |-> "verify", mask |-> mask, restores |-> FALSE]
Reset == [op |-> "reset", mask |-> NoMask, restores |-> FALSE]
Restore(mask) == <<[Write(mask) EXCEPT !.restores = TRUE],
                   [Verify(mask) EXCEPT !.restores = TRUE]>>

\* beginDriver(): the owner is asked for the bus and the address is probed; then
\* the driver's own presence read binds it, and a bound driver is driven to
\* all-off and verified whether or not that read succeeded.
BeginDriver ==
    /\ Ready /\ ~bound /\ ~retired
    /\ bound' = TRUE
    /\ \E ok \in BOOLEAN : DeviceRead(ok)
    /\ script' = <<Write(NoMask), Verify(NoMask)>>
    /\ UNCHANGED <<session, restored, owed, timing, visited>>

\* enable and disable: a fresh read, then the write; no write after a failed read.
ChangeOneBit ==
    /\ Ready /\ bound
    /\ \E ok \in BOOLEAN, channel \in Channels :
         /\ DeviceRead(ok)
         /\ script' \in IF ok THEN {<<Write(control \cup {channel})>>,
                                    <<Write(control \ {channel})>>}
                        ELSE {<<>>}
    /\ UNCHANGED <<bound, session, restored, owed, timing, visited>>

HardReset ==
    /\ Ready /\ bound
    /\ script' = <<Reset>>
    /\ UNCHANGED <<bus, bound, session, restored, owed, timing, visited>>

\* runHilMaskChecks(): each step runs only if the ones before it succeeded.
OneHotChecks == [i \in 1 .. 2 * NumChannels |->
    IF i % 2 = 1 THEN Write(One((i - 1) \div 2)) ELSE Verify(One((i - 1) \div 2))]
MaskChecks(reset) ==
    <<Write(NoMask), Verify(NoMask)>> \o OneHotChecks
        \o <<Write(FromRaw(165)), Verify(FromRaw(165)), Write(NoMask), Verify(NoMask)>>
        \o IF reset THEN <<Write(One(0)), Verify(One(0)), Reset>> ELSE <<>>

\* runHil(): probe, capture the entry mask, check, and restore whatever happened.
SelfTest ==
    /\ "SELFTEST" \in Offered /\ Ready /\ bound
    /\ \E probed, ok, reset \in BOOLEAN :
         /\ DeviceRead(probed /\ ok)
         /\ script' = IF probed /\ ok THEN MaskChecks(reset) \o Restore(control) ELSE <<>>
         /\ owed' = IF probed /\ ok THEN {control} ELSE {}
    /\ restored' = TRUE
    /\ UNCHANGED <<bound, session, timing, visited>>

\* Fault: a failed check ends the command on the spot.
AfterFailureNothing(steps) == <<>>
AfterFailure(steps) ==
    IF \E i \in 1 .. Len(steps) : steps[i].restores
    THEN SubSeq(steps, CHOOSE i \in 1 .. Len(steps) :
                          steps[i].restores /\ \A j \in 1 .. i - 1 : ~steps[j].restores,
                Len(steps))
    ELSE <<>>

\* Fault: the restore is judged by its write alone.
WriteDecides(step, ok) == IF step.restores /\ step.op = "write" THEN ok ELSE restored
StillRestored(step, ok) == IF step.restores THEN restored /\ ok ELSE restored

\* The next primitive of a synchronous command.
ScriptStep ==
    /\ script # <<>>
    /\ LET step == Head(script)
       IN \E ok \in BOOLEAN :
            /\ \/ step.op = "write" /\ DeviceWrite(step.mask, ok)
               \/ /\ step.op = "verify"
                  /\ \E read \in BOOLEAN :
                       DeviceRead(read) /\ ok = (read /\ Matches(step.mask))
               \/ /\ step.op = "reset"
                  /\ control' \in {control, NoMask}
                  /\ \E pulsed, read \in BOOLEAN :
                       /\ read => ~retired
                       /\ ok = (pulsed /\ read /\ control' = NoMask)
                       /\ retired' = (retired \/ (pulsed /\ ~read))
            /\ script' = IF ok THEN Tail(script) ELSE AfterFailure(Tail(script))
            /\ restored' = StillRestored(step, ok)
            /\ owed' = IF step.restores /\ step.op = "verify" THEN {} ELSE owed
    /\ UNCHANGED <<bound, session, timing, visited>>

-----------------------------------------------------------------------------
(* tick()                                                                  *)

\* verifyMask(): one read; the code of its failure.
VerifyRead(ok) == DeviceRead(ok)
VerifyCode(ok, expected) ==
    IF ~ok THEN "I2C" ELSE IF Matches(expected) THEN "OK" ELSE "MISMATCH"

CleanupMask(s) == IF s.kind = "SWEEP" THEN s.original ELSE NoMask

\* Fault: a cleanup waits until the device can be used again.
CleansUpWhenUsable == session.restoring /\ ~retired
CleansUp == session.restoring

\* tickCleanup(): one write, then one readback, then the session is over.
TickCleanup ==
    /\ CleansUp
    /\ \E ok \in BOOLEAN :
         LET mask == CleanupMask(session)
             s == Counted(session, ok)
             code == VerifyCode(ok, mask)
         IN  \/ /\ session.phase = 0
                /\ DeviceWrite(mask, ok)
                /\ session' = [s EXCEPT !.cleanup = IF ok THEN "OK" ELSE "I2C", !.phase = 1]
             \/ /\ session.phase # 0
                /\ VerifyRead(ok)
                /\ session' = Finished([s EXCEPT !.cleanup = IF @ = "OK" THEN code ELSE @])
    /\ UNCHANGED visited

\* The primitive that a round's phase calls for, and the mask it is about.
RoundOp(s) ==
    CASE s.kind = "MIX" /\ s.phase = 4 -> "probe"
      [] s.kind = "MIX" /\ s.phase \in {0, 2, 5} -> "write"
      [] s.kind # "MIX" /\ s.phase = 0 -> "write"
      [] OTHER -> "verify"
RoundMask(s) ==
    CASE s.kind = "SWEEP" -> FromRaw(s.completed)
      [] s.kind = "MIX" /\ s.phase = 2 -> FromRaw(s.completed * 37 + 165)
      [] s.kind = "MIX" /\ s.phase = 5 -> NoMask
      [] OTHER -> One(s.completed)

\* Fault: the last readback of a round is skipped.
LastPhaseEarly(s) == IF s.kind = "MIX" THEN 5 ELSE 0
LastPhase(s) == IF s.kind = "MIX" THEN 6 ELSE 1

\* A round is complete after its last readback; the last round leads to cleanup.
Advanced(s) ==
    IF s.phase < LastPhase(s) THEN [s EXCEPT !.phase = @ + 1]
    ELSE LET t == [s EXCEPT !.completed = @ + 1, !.phase = 0]
         IN  IF t.completed = t.target THEN Restoring(t) ELSE t

\* tickMasks(): sweep first captures the entry mask.
TickMasks ==
    /\ session.kind \in RouteKinds /\ ~session.restoring
    /\ \E ok \in BOOLEAN :
         LET s == Counted(session, ok)
             written == [s EXCEPT !.expected = RoundMask(s)]
             code == VerifyCode(ok, session.expected)
         IN  \/ /\ session.kind = "SWEEP" /\ ~session.captured
                /\ DeviceRead(ok)
                /\ session' = IF ok THEN [s EXCEPT !.original = control, !.captured = TRUE]
                              ELSE Failed(s, "I2C")
                /\ UNCHANGED visited
             \/ /\ session.kind = "SWEEP" => session.captured
                /\ \/ /\ RoundOp(session) = "write"
                      /\ DeviceWrite(written.expected, ok)
                      /\ session' = IF ok THEN Advanced(written) ELSE Failed(written, "I2C")
                      /\ UNCHANGED visited
                   \/ /\ RoundOp(session) = "probe"
                      /\ DeviceRead(ok)
                      /\ session' = IF ok THEN Advanced(s) ELSE Failed(s, "I2C")
                      /\ UNCHANGED visited
                   \/ /\ RoundOp(session) = "verify"
                      /\ VerifyRead(ok)
                      /\ session' = IF code = "OK" THEN Advanced(s) ELSE Failed(s, code)
                      /\ visited' = IF ok THEN visited \cup {control} ELSE visited

\* Fault: the last address is left out.
ScanDoneEarly(s) == s.address >= LastAddress
ScanDone(s) == s.address > LastAddress

\* tickScan(): scan reads the topology first; then one address probe per tick.
\* Only an address NACK means absence: any other failure ends the scan.
TickScan ==
    /\ session.kind \in {"SCAN", "DISCOVER"}
    /\ \/ /\ session.kind = "SCAN" /\ session.phase = 0
          /\ \E ok \in BOOLEAN :
               /\ DeviceRead(ok)
               /\ session' = IF ok THEN [Counted(session, ok) EXCEPT !.phase = 1]
                             ELSE Failed(Counted(session, ok), "I2C")
          /\ UNCHANGED visited
       \/ /\ session.kind = "SCAN" => session.phase = 1
          /\ \E answer \in IF retired THEN {"ERROR"} ELSE {"ACK", "NACK", "ERROR"} :
               LET s == [session EXCEPT
                     !.completed = @ + 1,
                     !.found = IF answer = "ACK" THEN @ + 1 ELSE @,
                     !.scanErrors = IF answer = "ERROR" THEN @ + 1 ELSE @,
                     !.address = IF answer = "ERROR" THEN @ ELSE @ + 1]
               IN  session' = IF answer = "ERROR" THEN Finished(KeepsFirst(s, "I2C"))
                              ELSE IF ScanDone(s) THEN Finished(s) ELSE s
          /\ visited' = visited \cup {session.address}
          /\ UNCHANGED bus

\* Fault: the clock is compared with the due time as a plain number.
DueAbsolute(s, current) == current >= s.next
Due(s, current) == (current - s.next) % ClockSize < ClockSize \div 2

\* Fault: the next sample is due an interval after the last due time, so a
\* stall is followed by a burst.
DueAgainFromSchedule(s, current) == (s.next + s.interval) % ClockSize
DueAgain(s, current) == (current + s.interval) % ClockSize

\* Fault: a soak that has run its time ends without a last look.
SampleWhenDue(ending, due) == ~ending /\ due
SampleNow(ending, due) == ending \/ due

\* tick() for watch and soak, with the clock's unsigned arithmetic: the soak's
\* age is a difference, and "due" is the sign of a difference.
TickTimed(current) ==
    LET ending == session.kind = "SOAK"
                    /\ (current - session.started) % ClockSize >= session.duration
        due == Due(session, current)
        Drifted == session.kind = "SOAK" /\ session.completed > 0 /\ ~Matches(session.expected)
    IN  /\ session.kind \in {"WATCH", "SOAK"}
        /\ \/ /\ ending /\ session.completed = 0
              /\ session' = Finished([session EXCEPT !.primary = "TIMEOUT"])
              /\ UNCHANGED <<bus, visited>>
           \/ /\ ~(ending /\ session.completed = 0)
              /\ ~SampleNow(ending, due)
              /\ session' = IF ending THEN Finished(session) ELSE session
              /\ UNCHANGED <<bus, visited>>
           \/ /\ ~(ending /\ session.completed = 0)
              /\ SampleNow(ending, due)
              /\ \E ok \in BOOLEAN :
                   LET s == Counted(session, ok)
                       sampled == [s EXCEPT
                          !.completed = @ + 1,
                          !.expected = IF s.kind = "SOAK" /\ s.completed = 0 THEN control ELSE @,
                          !.next = DueAgain(s, current)]
                   IN  /\ DeviceRead(ok)
                       /\ session' =
                            IF ~ok THEN Failed(s, "I2C")
                            ELSE IF Drifted THEN Failed(s, "MISMATCH")
                            ELSE IF ending THEN Finished(sampled)
                            ELSE IF sampled.kind = "WATCH" /\ sampled.completed = sampled.target
                                 THEN Finished(sampled) ELSE sampled
                       /\ visited' = IF ok THEN visited \cup {control} ELSE visited

\* True time, as far as a property looks at it.
Elapsed(time, passed) == IF time + passed < ClockSize THEN time + passed ELSE ClockSize

\* One pass of the main loop: time goes by, and an active session advances.
Tick ==
    /\ script = <<>> /\ session.running
    /\ \E passed \in LoopTimes :
         /\ now' = (now + passed) % ClockSize
         /\ \/ TickCleanup
            \/ ~session.restoring /\ (TickScan \/ TickMasks \/ TickTimed(now'))
         /\ age' = Elapsed(age, passed)
         /\ gap' = IF session'.completed # session.completed THEN 0 ELSE Elapsed(gap, passed)
    /\ UNCHANGED <<bound, selftest>>

\* The route changes behind the console: another master, POR or RESET.
Disturb ==
    /\ OutOfBand
    /\ control' \in Masks \ {control}
    /\ UNCHANGED <<retired, bound, session, selftest, timing, visited>>

Command ==
    \/ \E kind \in Offered \cap Kinds : Start(kind)
    \/ Stop \/ StatsReset \/ BeginDriver \/ End
    \/ ReadCommand \/ WriteCommand \/ ChangeOneBit \/ HardReset \/ SelfTest

Next == Command \/ ScriptStep \/ Tick \/ Disturb

\* The main loop ticks forever, and a synchronous command runs to its end.
Spec == Init /\ [][Next]_vars /\ WF_vars(Tick) /\ WF_vars(ScriptStep)

-----------------------------------------------------------------------------
(* Properties                                                              *)

\* The loop has one user of the bus at a time: while a session runs no
\* synchronous command is under way, and no command has unbound the driver
\* that every session but discover uses.
OneUserOfTheBus ==
    session.running => script = <<>> /\ (session.kind # "DISCOVER" => bound)

Ends == session.running /\ ~session'.running
Passes == Ends /\ Succeeds(session')

\* printRunStats() says "Cleanup: verified" only of a mux that holds the
\* cleanup mask: all-off after stress and stress_mix, the entry mask after a
\* sweep; whichever way the session ended, stop included.
CleanupIsVerified == [][
    Ends /\ session'.cleanup = "OK"
         /\ \/ session.kind \in {"STRESS", "MIX"}
            \/ session.kind = "SWEEP" /\ session'.captured
      => control' = CleanupMask(session')]_vars

\* PASS is only said of a session that did all it was asked: every round was
\* written and read back, every call counted, every address answered for.
PassMeansDone == [][
    Passes =>
        LET n == session.target
            OneHots == {One(i) : i \in 0 .. n - 1}
        IN  /\ session'.failures = 0
            /\ session.kind # "SOAK" => session'.completed = n
            /\ session.kind = "STRESS" => /\ session'.successes = 2 * n + 2
                                          /\ visited' = OneHots
            /\ session.kind = "MIX" => /\ session'.successes = 7 * n + 2
                                       /\ OneHots \cup {NoMask} \subseteq visited'
            /\ session.kind = "SWEEP" => /\ session'.successes = 2 * NumMasks + 3
                                         /\ visited' = Masks
            /\ session.kind = "WATCH" => session'.successes = n
            /\ session.kind = "SCAN" => visited' = FirstScan .. LastAddress
            /\ session.kind = "DISCOVER" => visited' = FirstCandidate .. LastAddress
            /\ session.kind \in {"SCAN", "DISCOVER"} =>
                 session'.scanErrors = 0 /\ session'.found <= n]_vars

\* A soak that passes has run its time, every sample showed the first one's
\* mask, and the mux still holds that mask at the moment of the verdict.
SoakVerdict == [][
    Passes /\ session.kind = "SOAK" =>
        /\ age' >= session.duration
        /\ session'.completed >= 2
        /\ visited' = {control'}]_vars

\* A watch never samples more often than its interval, whatever the loop's
\* stalls and wherever the clock wraps.
WatchSpacing == [][
    session.kind = "WATCH" /\ session.completed > 0
        /\ session'.completed = session.completed + 1
      => gap + ((now' - now) % ClockSize) >= session.interval]_vars

\* A selftest that captured the entry mask always comes to its restoring write
\* and readback: the debt is settled before the command is over.
SelfTestOwesRestore == owed # {} => script # <<>>

\* "final verified mask restore" passes only if the mux holds the entry mask.
SelfTestRestores == [][
    owed # {} /\ owed' = {} /\ restored' => owed = {control'}]_vars

\* Every session ends, by itself or by stop, and a user who keeps asking to
\* stop cannot keep its cleanup from finishing.
SessionsEnd == session.running ~> ~session.running
=============================================================================
