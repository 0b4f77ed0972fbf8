----------------------------- MODULE HilVerdict -----------------------------
(***************************************************************************)
(* What the firmware prints about one operation and what classify() of      *)
(* tools/tca9548a_hil.py makes of it.  A reply is a sequence of lines, each  *)
(* a record of the fields the runner looks at.  On the way a line may be     *)
(* garbled away or doubled, and the console may drop lines and say so.       *)
(* The operation really ended in some way, the truth; a PASS, and every      *)
(* fact the runner takes from the reply, must agree with it.                 *)
(***************************************************************************)
EXTENDS Integers, FiniteSets, SequencesExt

CONSTANTS
    LastAddress,    \* a scan probes 1 .. LastAddress
    FirstCandidate, \* and discover the last ones of them
    Configured,     \* --address
    Count           \* rounds of stress

ASSUME VerdictAssumption ==
    /\ LastAddress \in Nat /\ Count \in Nat \ {0}
    /\ FirstCandidate \in 1 .. LastAddress
    /\ Configured \in FirstCandidate .. LastAddress

Masks == 0 .. 1
AnyMask == -1
Scanned == 1 .. LastAddress
Candidates == FirstCandidate .. LastAddress
NoError == 0
Saturated == 2

VARIABLES
    step,       \* the command, what it expects, and whether status names fail it
    truth,      \* how the operation really ended
    lines,      \* the reply
    garbled,    \* the reply is not what the firmware printed
    stage,
    verdict

replyVars == <<step, truth, lines, garbled, stage, verdict>>

-----------------------------------------------------------------------------
(* The firmware: how operations may end, and what is printed about them    *)

StaticChecks == <<"typed ChannelMask is one byte", "address helper", "version">>
ParserChecks == <<"numeric parser rejects invalid input", "line parser rejects controls and overflow">>
ProbeChecks == <<"probe", "probe no-health-side-effects", "capture original mask readback">>
MaskChecks ==
    <<"disableAll write", "disableAll readback", "all eight one-hot channels",
      "write mask 0xA5", "read mask 0xA5", "recover safe-off write", "recover readback 0x00">>
ResetChecks ==
    <<"hardReset seed write", "hardReset seed readback",
      "hardReset exact-zero verification", "hardReset leaves verified all-off">>
RestoreCheck == "final verified mask restore"

\* Labels whose failure does not end the checks around it.
Continues == {"hardReset exact-zero verification", "probe"}

Ok(b) == IF b THEN "OK" ELSE "I2C"
Line(kind) == [kind |-> kind]
Op(ok) == [kind |-> "OP", code |-> Ok(ok)]
Check(label, ok) == [kind |-> "CHECK", label |-> label, as |-> IF ok THEN "PASS" ELSE "FAIL"]
Skip(label) == [kind |-> "CHECK", label |-> label, as |-> "SKIP"]
Found(a) == [kind |-> "FOUND", address |-> a]
ScanError(a) == [kind |-> "SCAN_ERROR", address |-> a, code |-> "I2C"]
End(success, n, total) ==
    [kind |-> "END", outcome |-> IF success THEN "PASS" ELSE "FAIL", completed |-> n, requested |-> total]
LossMark == Line("ERROR")                    \* [E] CONSOLE_OUTPUT_LOST

\* Checks up to the first that fails and ends the list.
Printed(labels, failing) ==
    LET reached == {i \in DOMAIN labels : \A j \in 1 .. i - 1 : labels[j] \notin failing \ Continues}
    IN  [i \in 1 .. Cardinality(reached) |-> Check(labels[i], labels[i] \notin failing)]

AllIn(labels, failing) == \A i \in DOMAIN labels : labels[i] \notin failing

\* runHil(), runHilMaskChecks(); a run may be without its RESET callback.
HilBody(t) ==
    LET reset == IF step.cmd # "hil run reset" THEN <<Skip("hardReset")>>
                 ELSE IF "hardReset" \in t.failing THEN <<Check("hardReset", FALSE)>>
                 ELSE Printed(ResetChecks, t.failing)
        masks == Printed(MaskChecks, t.failing)
                 \o (IF AllIn(MaskChecks, t.failing) THEN reset ELSE <<>>)
                 \o <<Check(RestoreCheck, RestoreCheck \notin t.failing)>>
        probes == IF "probe" \in t.failing
                  THEN Printed(<<"probe", "probe no-health-side-effects">>, t.failing)
                  ELSE Printed(ProbeChecks, t.failing)
    IN  Printed(StaticChecks, {})
        \o (IF step.cmd = "hil parser" THEN Printed(ParserChecks, t.failing) ELSE <<>>)
        \o (IF step.cmd \in {"hil dry", "hil parser"}
            THEN <<Skip("probe"), Skip("mask I/O"), Skip("hardReset")>>
            ELSE probes \o (IF AllIn(ProbeChecks, t.failing) THEN masks ELSE <<>>))
HilLines(t) ==
    LET body == HilBody(t)
        Number(as) == Cardinality({i \in DOMAIN body : body[i].as = as})
    IN  body \o <<[kind |-> "HIL", pass |-> Number("PASS"), fail |-> Number("FAIL"), skip |-> Number("SKIP")]>>

\* How many elements of S a is behind, itself included.
Rank(S, a) == Cardinality({b \in S : b <= a})
Ascending(S) == [i \in 1 .. Cardinality(S) |-> CHOOSE a \in S : Rank(S, a) = i]

\* tickScan(), finish(), printRunStats(): probing stops at an error.
Reached(t, all) == {a \in all : t.ok /\ (t.errorAt = NoError \/ a <= t.errorAt)}
Acked(t, all) == (Reached(t, all) \cap t.present) \ {t.errorAt}
Errors(t) == IF t.ok /\ t.errorAt # NoError THEN 1 ELSE 0
Answer(t, all) ==
    CASE t.target \notin Reached(t, all) -> "not-tested"
      [] t.target = t.errorAt -> "error"
      [] OTHER -> IF t.target \in t.present THEN "yes" ELSE "no"
ScanSummary(t, all) ==
    LET n == Cardinality(Reached(t, all))
        acks == Cardinality(Acked(t, all))
        clean == t.ok /\ Errors(t) = 0
    IN  <<[kind |-> IF n = Cardinality(all) THEN "COMPLETE" ELSE "ABORTED",
           devices |-> acks, errors |-> Errors(t)],
          Op(clean),
          [kind |-> "DETECTION", tested |-> n, ack |-> acks, absent |-> n - acks - Errors(t),
           errors |-> Errors(t), target |-> t.target, answer |-> Answer(t, all)],
          End(clean, n, Cardinality(all))>>
ScanLines(t, all) ==
    [i \in 1 .. Cardinality(Acked(t, all)) |-> Found(Ascending(Acked(t, all))[i])]
    \o (IF Errors(t) = 1 THEN <<ScanError(t.errorAt)>> ELSE <<>>)
    \o ScanSummary(t, all)

\* finish() of stress and stress_mix.
PerRound == IF step.cmd = "stress_mix" THEN 7 ELSE 2
StressLines(t) ==
    LET clean == t.rounds = Count /\ ~t.spoiled
    IN  <<[kind |-> "RESULTS", completed |-> t.rounds, requested |-> Count,
           status |-> Ok(clean /\ t.safeOff), safeOff |-> Ok(t.safeOff)],
          [kind |-> "DELTA", failures |-> t.failures],
          [kind |-> "SESSION", success |-> PerRound * t.rounds + t.rest, failures |-> t.failures]>>
        \o (IF t.safeOff THEN <<>> ELSE <<Check("final safe-off", FALSE)>>)
        \o <<End(clean /\ t.safeOff, t.rounds, Count)>>

\* printHealth() and printObservation()
HealthRows == 9
HealthLines(t) ==
    [i \in 1 .. HealthRows - 1 |-> [kind |-> "HEALTH", row |-> i, as |-> IF i \in t.odd THEN "BAD" ELSE "GOOD"]]
    \o <<[kind |-> "CACHE", provenance |-> "OBSERVED"]>>

CfgLines(t) ==
    [i \in 1 .. 6 |-> [kind |-> "CFG", row |-> i, as |-> IF i \in t.odd THEN "BAD" ELSE "GOOD"]]
    \o <<[kind |-> "ADDRESS", address |-> t.target]>>

Commands == {"read", "op", "invalidate", "verbose", "console", "health", "cfg", "scan", "discover",
             "stress", "stress_mix", "hil dry", "hil parser", "hil run", "hil run reset"}

\* Labels that fail together: one check, and the restore behind it.
ParserFailures == {{}} \cup {{l} : l \in ToSet(ParserChecks)}
RunFailures ==
    {s \cup r : s \in {{}, {"hardReset"}} \cup
                   {{l} : l \in ToSet(ProbeChecks) \cup ToSet(MaskChecks) \cup ToSet(ResetChecks)},
               r \in {{}, {RestoreCheck}}}

\* A round, or the cleanup, is spoiled by a transfer that fails, by a byte read back
\* that is another one, or by stop: only the first counts as a failure.  The rest are
\* the transfers that succeeded in an unfinished round and in the cleanup.
StressEndings ==
    {t \in [rounds : 0 .. Count, spoiled : BOOLEAN, safeOff : BOOLEAN, failures : 0 .. 2, rest : 0 .. 8] :
        /\ t.failures <= (IF t.spoiled THEN 1 ELSE 0) + (IF t.safeOff THEN 0 ELSE 1)
        /\ t.rounds = Count /\ ~t.spoiled /\ t.safeOff => t.rest = 2}

\* How each command may end.
Endings(cmd) ==
    CASE cmd = "read" -> [ok : BOOLEAN, mask : Masks]
      [] cmd = "op" -> [ok : BOOLEAN]
      [] cmd = "invalidate" -> [ok : {TRUE}]
      [] cmd = "verbose" -> [set : {"on", "off"}]
      [] cmd = "console" -> [connected : BOOLEAN, lost : {0, 1, Saturated}]
      [] cmd = "health" -> [odd : {{}} \cup {{i} : i \in 1 .. HealthRows - 1}]
      [] cmd = "cfg" -> [odd : {{}} \cup {{i} : i \in 1 .. 6}, target : Candidates]
      [] cmd = "scan" -> [ok : BOOLEAN, mask : Masks, present : SUBSET Scanned,
                          errorAt : {NoError} \cup Scanned, target : {Configured}]
      [] cmd = "discover" -> [ok : BOOLEAN, present : SUBSET Candidates,
                              errorAt : {NoError} \cup Candidates, target : Candidates]
      [] cmd \in {"stress", "stress_mix"} -> StressEndings
      [] cmd = "hil dry" -> [failing : {{}}]
      [] cmd = "hil parser" -> [failing : ParserFailures]
      [] cmd \in {"hil run", "hil run reset"} -> [failing : RunFailures]

Reply(t) ==
    CASE step.cmd = "read" -> <<[kind |-> "READ", code |-> Ok(t.ok), mask |-> t.mask]>>
      [] step.cmd = "op" -> <<Op(t.ok)>>
      [] step.cmd = "invalidate" -> <<Op(TRUE), [kind |-> "CACHE", provenance |-> "UNKNOWN"]>>
      [] step.cmd = "verbose" -> <<[kind |-> "VERBOSE", set |-> t.set]>>
      [] step.cmd = "console" -> <<[kind |-> "CONSOLE", connected |-> t.connected, lost |-> t.lost]>>
      [] step.cmd = "health" -> HealthLines(t)
      [] step.cmd = "cfg" -> CfgLines(t)
      [] step.cmd = "scan" ->
            <<[kind |-> "TOPOLOGY", code |-> Ok(t.ok), mask |-> t.mask]>> \o ScanLines(t, Scanned)
      [] step.cmd = "discover" -> IF t.ok THEN ScanLines(t, Candidates) ELSE <<Op(FALSE)>>
      [] step.cmd \in {"stress", "stress_mix"} -> StressLines(t)
      [] OTHER -> HilLines(t)

-----------------------------------------------------------------------------
(* The runner                                                              *)

At(kind) == {i \in DOMAIN lines : lines[i].kind = kind}
One(kind) == Cardinality(At(kind)) = 1
The(kind) == lines[CHOOSE i \in At(kind) : TRUE]
Kinds == {lines[i].kind : i \in DOMAIN lines}
Addresses == {lines[i].address : i \in At("FOUND")}

\* COMMON_FAILURE_PATTERNS, and STATUS_FAILURE_PATTERNS where a step has them.
Failing(l) ==
    \/ l.kind = "ERROR"
    \/ l.kind = "CHECK" /\ l.as = "FAIL"
    \/ l.kind = "END" /\ l.outcome = "FAIL"
    \/ l.kind \in {"COMPLETE", "ABORTED", "DETECTION"} /\ l.errors > 0
    \/ l.kind \in {"DELTA", "SESSION"} /\ l.failures > 0
    \/ l.kind = "HIL" /\ l.fail > 0
    \/ l.kind = "RESULTS" /\ (l.safeOff # "OK" \/ (step.strict /\ l.status # "OK"))
    \/ step.strict /\ l.kind \in {"OP", "READ", "TOPOLOGY", "SCAN_ERROR"} /\ l.code # "OK"

\* expected_tokens; a stress or scan that never came to its end lacks them.
Tokens ==
    CASE step.cmd \in {"stress", "stress_mix"} -> {"RESULTS", "DELTA"}
      [] step.cmd = "scan" -> {"TOPOLOGY", "COMPLETE"}
      [] step.cmd = "discover" -> {"DETECTION", "END"}
      [] OTHER -> {}

ExactRows(kind, n) ==
    Cardinality(At(kind)) = n /\ \A i \in At(kind) : lines[i].row = Rank(At(kind), i)

\* Fault: found lines are collected, not counted.
AnyFound(devices) == TRUE
CountedFound(devices) ==
    devices = Cardinality(At("FOUND")) /\ devices = Cardinality(Addresses)

HealthHolds ==
    /\ ExactRows("HEALTH", HealthRows - 1) /\ One("CACHE")
    /\ \A i \in At("HEALTH") : lines[i].as = "GOOD"

\* parse_console(), compare_console() with the first snapshot, if there is one.
LossHolds(lost) == lost # Saturated /\ step.expect \in {AnyMask, lost}

CfgHolds ==
    /\ ExactRows("CFG", 6)
    /\ \A i \in At("CFG") : lines[i].as = "GOOD"
    /\ One("ADDRESS") /\ The("ADDRESS").address = Configured

ScanHolds ==
    /\ One("COMPLETE") /\ The("COMPLETE").errors = 0
    /\ CountedFound(The("COMPLETE").devices)
    /\ One("TOPOLOGY") /\ The("TOPOLOGY").code = "OK"
    /\ Configured \in Addresses

DiscoverHolds ==
    LET d == The("DETECTION")
        all == Cardinality(Candidates)
    IN  /\ One("DETECTION") /\ One("END") /\ One("COMPLETE")
        /\ The("END") = End(TRUE, all, all)
        /\ d.tested = all /\ d.errors = 0 /\ d.ack + d.absent = all
        /\ CountedFound(d.ack) /\ Addresses \subseteq Candidates
        /\ d.answer = IF d.target \in Addresses THEN "yes" ELSE "no"
        /\ The("COMPLETE").devices = d.ack
        /\ d.target = Configured /\ d.answer = "yes"

\* Fault: the cleanup's write and readback are left out of the evidence.
WithoutCleanup == PerRound * Count
Transfers == PerRound * Count + 2

StressHolds ==
    /\ One("RESULTS") /\ One("DELTA") /\ One("SESSION")
    /\ The("RESULTS").completed = Count /\ The("RESULTS").requested = Count
    /\ The("RESULTS").status = "OK" /\ The("RESULTS").safeOff = "OK"
    /\ The("DELTA").failures = 0
    /\ The("SESSION").success = Transfers /\ The("SESSION").failures = 0

Labels == {lines[i].label : i \in {j \in At("CHECK") : lines[j].as = "PASS"}}
Required ==
    ToSet(StaticChecks)
    \cup (IF step.cmd = "hil parser" THEN ToSet(ParserChecks) ELSE {})
    \cup (IF step.cmd \in {"hil run", "hil run reset"}
          THEN ToSet(ProbeChecks) \cup ToSet(MaskChecks) \cup {RestoreCheck} ELSE {})
    \cup (IF step.cmd = "hil run reset" THEN ToSet(ResetChecks) ELSE {})

HilHolds ==
    LET Number(as) == Cardinality({i \in At("CHECK") : lines[i].as = as})
        h == The("HIL")
    IN  /\ One("HIL")
        /\ h.pass = Number("PASS") /\ h.fail = Number("FAIL") /\ h.skip = Number("SKIP")
        /\ h.skip = (CASE step.cmd = "hil run reset" -> 0 [] step.cmd = "hil run" -> 1 [] OTHER -> 3)
        /\ step.cmd = "hil run" => Skip("hardReset") \in ToSet(lines)
        /\ h.fail = 0 /\ Required \subseteq Labels

Holds ==
    CASE step.cmd = "read" -> /\ One("READ") /\ The("READ").code = "OK"
                              /\ step.expect \in {AnyMask, The("READ").mask}
      [] step.cmd = "op" -> \E l \in ToSet(lines) : l = Op(TRUE)
      [] step.cmd = "invalidate" -> /\ \E l \in ToSet(lines) : l = Op(TRUE)
                                    /\ One("CACHE") /\ The("CACHE").provenance = "UNKNOWN"
      [] step.cmd = "verbose" -> One("VERBOSE") /\ The("VERBOSE").set = step.expect
      [] step.cmd = "console" -> /\ One("CONSOLE") /\ The("CONSOLE").connected
                                 /\ LossHolds(The("CONSOLE").lost)
      [] step.cmd = "health" -> HealthHolds
      [] step.cmd = "cfg" -> CfgHolds
      [] step.cmd = "scan" -> ScanHolds
      [] step.cmd = "discover" -> DiscoverHolds
      [] step.cmd \in {"stress", "stress_mix"} -> StressHolds
      [] OTHER -> HilHolds

\* classify() of a complete command, with run_live()'s own demands; FAIL and
\* UNKNOWN are one.
Classified ==
    IF /\ \A l \in ToSet(lines) : ~Failing(l)
       /\ Tokens \subseteq Kinds
       /\ Holds
    THEN "PASS" ELSE "OTHER"

-----------------------------------------------------------------------------
ReplyInit ==
    /\ \E cmd \in Commands, strict \in BOOLEAN :
        \E expect \in CASE cmd \in {"read", "console"} -> Masks \cup {AnyMask}
                        [] cmd = "verbose" -> {"on", "off"}
                        [] OTHER -> {AnyMask} :
            /\ step = [cmd |-> cmd, strict |-> strict, expect |-> expect]
            /\ truth \in Endings(cmd)
    /\ lines = <<>>
    /\ garbled = FALSE
    /\ stage = "RUN"
    /\ verdict = "NONE"

PrintReply ==
    /\ stage = "RUN"
    /\ stage' = "WIRE"
    /\ lines' = Reply(truth)
    /\ UNCHANGED <<step, truth, garbled, verdict>>

\* One line is lost or doubled silently, or some are dropped and the loss is marked.
Garble ==
    /\ stage = "WIRE" /\ ~garbled
    /\ garbled' = TRUE
    /\ \E i \in DOMAIN lines :
        \/ lines' = RemoveAt(lines, i)
        \/ lines' = InsertAt(lines, i, lines[i])
        \/ \E j \in i .. Len(lines) :
             lines' = SubSeq(lines, 1, i - 1) \o <<LossMark>> \o SubSeq(lines, j + 1, Len(lines))
    /\ UNCHANGED <<step, truth, stage, verdict>>

Judge ==
    /\ stage = "WIRE"
    /\ stage' = "JUDGED"
    /\ verdict' = Classified
    /\ UNCHANGED <<step, truth, lines, garbled>>

ReplyNext == PrintReply \/ Garble \/ Judge

ReplySpec == ReplyInit /\ [][ReplyNext]_replyVars

-----------------------------------------------------------------------------
(* Properties                                                              *)

\* The operation did what the step asks for.
Succeeded ==
    CASE step.cmd = "read" -> truth.ok /\ step.expect \in {AnyMask, truth.mask}
      [] step.cmd \in {"op", "invalidate"} -> truth.ok
      [] step.cmd = "verbose" -> truth.set = step.expect
      [] step.cmd = "console" -> truth.connected /\ LossHolds(truth.lost)
      [] step.cmd = "health" -> truth.odd = {}
      [] step.cmd = "cfg" -> truth.odd = {} /\ truth.target = Configured
      [] step.cmd \in {"scan", "discover"} ->
            /\ truth.ok /\ truth.errorAt = NoError
            /\ truth.target = Configured /\ Configured \in truth.present
      [] step.cmd \in {"stress", "stress_mix"} -> truth.rounds = Count /\ ~truth.spoiled /\ truth.safeOff
      [] step.cmd = "hil run" -> truth.failing \cap Required = {}
      [] OTHER -> truth.failing = {}

\* A PASS means that the operation succeeded, and the mask and the addresses read
\* from the reply are the real ones, whatever happened to the reply on the way.
VerdictIsTrue ==
    verdict = "PASS" =>
      /\ Succeeded
      /\ step.cmd = "read" => The("READ").mask = truth.mask
      /\ step.cmd = "scan" => /\ The("TOPOLOGY").mask = truth.mask
                              /\ Addresses = truth.present
      /\ step.cmd = "discover" => Addresses = truth.present

\* What the firmware prints about a success is what the runner wants to see.
SuccessPasses ==
    stage = "JUDGED" /\ ~garbled /\ Succeeded => verdict = "PASS"
=============================================================================
