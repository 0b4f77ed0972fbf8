--------------------------- MODULE HilMaskChecks ---------------------------
(***************************************************************************)
(* run_mask_checks() of tools/tca9548a_hil.py: the routing, sweep and       *)
(* control checks the host drives command by command, each with a readback, *)
(* and the restore of the mask it found.  Every command goes through        *)
(* SerialRunner.command(), which HilExchange models: here an exchange is    *)
(* one step that is answered, refused by the firmware, loses the command    *)
(* boundary, cannot be recorded, or is interrupted.  A scan takes as many   *)
(* ticks of the firmware as it probes addresses, and one for its header.    *)
(*                                                                         *)
(* The fixture is real: each address answers in some places, channels may   *)
(* be stuck off, and another master may write the mux at any time, between  *)
(* the ticks of a scan, too.                                                *)
(* A mask is the set of its channels.                                       *)
(***************************************************************************)
EXTENDS Integers, FiniteSets, SequencesExt

CONSTANTS
    NumChannels,
    SweepOrder,     \* the masks in the order a sweep writes them
    Devices,        \* downstream addresses, as numbers: a scan goes up
    Mux,            \* --address
    MaxRoutes       \* bound: declarations of a fixture

ASSUME FixtureAssumption ==
    /\ NumChannels \in Nat \ {0, 1}
    /\ IsFiniteSet(Devices) /\ Devices \subseteq Nat
    /\ Mux \in Nat \ Devices

Channels == 0 .. NumChannels - 1
Masks == SUBSET Channels
Upstream == NumChannels
Addresses == Devices \cup {Mux}
Unread == {Upstream}        \* no mask

\* A sweep writes every mask.
ASSUME SweepAssumption == SweepOrder \in Seq(Masks) /\ ToSet(SweepOrder) = Masks

VARIABLES
    mode,           \* what is checked
    route,          \* --route: declared <<channel, address>> pairs
    wiring,         \* where each address really answers
    stuck,          \* channels the device cannot enable
    control,        \* the device's control byte
    scan,           \* the firmware's scan under way
    synchronized,   \* the runner owns the command boundary
    recording,      \* the transcript has not failed
    phase, step,
    original,       \* the entry mask, once read
    baseline,       \* addresses of the first scan
    errors,         \* kinds of error in the summary
    raised,         \* where an exception left the procedure
    seen,           \* history: masks read back as expected
    touched,        \* history: another master wrote since the last readback
    crossed         \* history: scans believed, another master's write in their middle

fixture == <<mode, route, wiring, stuck>>
device == <<control, scan, touched, crossed>>
session == <<synchronized, recording>>
progress == <<phase, step, original, baseline, errors, raised, seen>>
vars == <<fixture, device, session, progress>>

-----------------------------------------------------------------------------
(* Commands and scripts                                                    *)

Cmd(op, mask) == [op |-> op, mask |-> mask]
Capture == Cmd("CAPTURE", {})
Write(mask) == Cmd("MASK", mask)
Read(mask) == Cmd("READ", mask)
Off == Cmd("OFF", {})
Scan(mask) == Cmd("SCAN", mask)
Baseline == Cmd("BASELINE", {})

Branch(c) == <<Cmd("SELECT", {c}), Read({c}), Scan({c})>>
RoutingScript ==
    <<Off, Read({}), Baseline>>
    \o [i \in 1 .. 3 * NumChannels |-> Branch((i - 1) \div 3)[((i - 1) % 3) + 1]]
    \o <<Off, Read({}), Scan({})>>

SweepScript ==
    [i \in 1 .. 2 * Len(SweepOrder) |->
        LET mask == SweepOrder[(i + 1) \div 2] IN IF i % 2 = 1 THEN Write(mask) ELSE Read(mask)]

Low == 0
High == NumChannels - 1
Control(op, arg, mask) == <<Cmd(op, arg), Read(mask), Cmd("VERIFY", mask)>>
ControlsScript ==
    Control("OFF", {}, {}) \o Control("ENABLE", {Low}, {Low})
    \o Control("ENABLE", {High}, {Low, High}) \o Control("INVALIDATE", {}, {Low, High})
    \o Control("DISABLE", {Low}, {High}) \o Control("DISABLE", {High}, {})

Script ==
    <<Capture>> \o CASE mode = "ROUTING" -> RoutingScript
                     [] mode = "SWEEP" -> SweepScript
                     [] mode = "CONTROLS" -> ControlsScript

RestoreScript == <<Write(original), Read(original)>>

\* The control byte once the command has run.
After(cmd) ==
    CASE cmd.op \in {"MASK", "SELECT", "OFF"} -> cmd.mask \ stuck
      [] cmd.op = "ENABLE" -> (control \cup cmd.mask) \ stuck
      [] cmd.op = "DISABLE" -> control \ cmd.mask
      [] OTHER -> control

\* The address acknowledges with the mask as it is.
Answers(a) == wiring[a] \cap (control \cup {Upstream}) # {}

Declared == {r[2] : r \in route}
Expected(mask) == {r[2] : r \in {x \in route : x[1] \in mask}}

\* Fault: a declared address that answers on another branch as well is overlooked.
VisibleIsEnough(mask) ==
    /\ Expected(mask) \subseteq scan.found \cap Declared
    /\ baseline \subseteq scan.found
\* Exactly the declared addresses of the selected branch, and all upstream ones.
Isolated(mask) ==
    /\ scan.found \cap Declared = Expected(mask)
    /\ baseline \subseteq scan.found

\* What the host demands of an answer; the firmware's verify does its own part.
Accepted(cmd) ==
    CASE cmd.op \in {"READ", "VERIFY"} -> control = cmd.mask
      [] cmd.op = "BASELINE" -> scan.header = {} /\ scan.found \cap Declared = {} /\ Mux \in scan.found
      [] cmd.op = "SCAN" -> scan.header = cmd.mask /\ Isolated(cmd.mask)
      [] OTHER -> TRUE

Scans == {"SCAN", "BASELINE"}
\* The scan's mask, the addresses to probe, those found; history: another master wrote.
NoScan == [header |-> Unread, left |-> {}, found |-> {}, crossed |-> FALSE]
Probing == scan.left # {}
ScanComplete == scan # NoScan /\ ~Probing

-----------------------------------------------------------------------------
Init ==
    /\ mode \in {"ROUTING", "SWEEP", "CONTROLS"}
    /\ IF mode = "ROUTING"
       THEN /\ route \in SUBSET (Channels \X Devices) \ {{}} /\ Cardinality(route) <= MaxRoutes
            /\ wiring \in [Addresses -> SUBSET (Channels \cup {Upstream})]
            /\ wiring[Mux] \subseteq {Upstream}
       ELSE route = {} /\ wiring = [a \in Addresses |-> {}]
    /\ stuck \in {s \in Masks : Cardinality(s) < 2}
    /\ control \in SUBSET (Channels \ stuck)
    /\ synchronized = TRUE
    /\ recording \in BOOLEAN
    /\ phase = "CHECK" /\ step = 1
    /\ original = Unread
    /\ baseline = {}
    /\ errors = {}
    /\ raised = "NO"
    /\ seen = {}
    /\ touched = FALSE
    /\ scan = NoScan /\ crossed = {}

Outcomes == {"ANSWERED", "REFUSED", "LOST", "UNRECORDED", "INTERRUPTED"}

\* The first tick of a scan reads the mask and prints it.
ScanHeader ==
    /\ phase = "CHECK" /\ Script[step].op \in Scans
    /\ scan = NoScan
    /\ scan' = [header |-> control, left |-> Addresses, found |-> {}, crossed |-> FALSE]
    /\ UNCHANGED <<fixture, session, progress, control, touched, crossed>>

\* Each later tick probes the next address.
ScanProbe ==
    /\ \E a \in scan.left :
         /\ \A b \in scan.left : a <= b
         /\ scan' = [scan EXCEPT !.left = @ \ {a}, !.found = @ \cup {x \in {a} : Answers(x)}]
    /\ UNCHANGED <<fixture, session, progress, control, touched, crossed>>

\* One exchange.  A command that was not answered may have run or not, and a scan
\* may be anywhere: what is left of it changes nothing.
Exchange(cmd, outcome) ==
    /\ outcome = "ANSWERED" /\ cmd.op \in Scans => ScanComplete
    /\ scan' = NoScan
    /\ outcome = "UNRECORDED" => recording
    /\ recording' = (recording /\ outcome # "UNRECORDED")
    /\ synchronized' = (outcome # "LOST")
    /\ control' \in {After(cmd)} \cup IF outcome \in {"ANSWERED", "UNRECORDED"} THEN {} ELSE {control}
    /\ touched' = (touched /\ ~(cmd.op = "READ" /\ outcome = "ANSWERED"))
    /\ crossed' = IF outcome = "ANSWERED" /\ scan.crossed THEN crossed \cup {cmd} ELSE crossed

Holds(cmd, outcome) == outcome = "ANSWERED" /\ Accepted(cmd)

\* One command of the check.  Whatever goes wrong, the restore is next.
Check ==
    /\ phase = "CHECK"
    /\ LET cmd == Script[step]
       IN  \E outcome \in Outcomes :
             /\ Exchange(cmd, outcome)
             /\ IF Holds(cmd, outcome)
                THEN /\ original' = IF cmd.op = "CAPTURE" THEN control ELSE original
                     /\ baseline' = IF cmd.op = "BASELINE" THEN scan.found ELSE baseline
                     /\ seen' = IF cmd.op = "READ" THEN seen \cup {control} ELSE seen
                     /\ phase' = IF step = Len(Script) THEN "RESTORE" ELSE "CHECK"
                     /\ step' = IF step = Len(Script) THEN 1 ELSE step + 1
                     /\ UNCHANGED <<errors, raised>>
                ELSE /\ phase' = "RESTORE" /\ step' = 1
                     /\ IF outcome = "INTERRUPTED"
                        THEN raised' = "CHECK" /\ UNCHANGED errors
                        ELSE errors' = errors \cup {"CHECK"} /\ UNCHANGED raised
                     /\ UNCHANGED <<original, baseline, seen>>
    /\ UNCHANGED fixture

\* Fault: a restore that failed is only noted in the transcript.
Forgiven == errors
RestoreFailed == errors \cup {"RESTORE"}

\* The error is recorded, which may fail once, too, and ends the procedure.
Report ==
    /\ phase' = "DONE"
    /\ errors' = RestoreFailed

\* No mask was read, or nothing may be sent any more.
NothingToRestore ==
    /\ phase = "RESTORE" /\ step = 1
    /\ original = Unread \/ ~synchronized
    /\ \/ original = Unread /\ phase' = "DONE" /\ UNCHANGED <<errors, recording, raised>>
       \/ original # Unread /\ Report /\ UNCHANGED <<recording, raised>>
       \/ original # Unread /\ Report /\ recording /\ recording' = FALSE /\ raised' = "RESTORE"
    /\ UNCHANGED <<fixture, device, synchronized, step, original, baseline, seen>>

\* The entry mask is written and read back.
Restore ==
    /\ phase = "RESTORE"
    /\ original # Unread /\ synchronized
    /\ LET cmd == RestoreScript[step]
       IN  \E outcome \in Outcomes :
             /\ Exchange(cmd, outcome)
             /\ IF Holds(cmd, outcome)
                THEN /\ phase' = IF step = 2 THEN "DONE" ELSE phase
                     /\ step' = 2
                     /\ UNCHANGED <<errors, raised>>
                ELSE /\ IF outcome = "INTERRUPTED"
                        THEN phase' = "DONE" /\ raised' = "RESTORE" /\ UNCHANGED errors
                        ELSE Report /\ raised' \in {raised} \cup IF recording' THEN {"RESTORE"} ELSE {}
                     /\ UNCHANGED step
    /\ UNCHANGED <<fixture, original, baseline, seen>>

\* Another master writes the mux.
Disturb ==
    /\ phase # "DONE"
    /\ control' \in SUBSET (Channels \ stuck)
    /\ control' # control
    /\ touched' = TRUE
    /\ scan' = [scan EXCEPT !.crossed = @ \/ Probing]
    /\ UNCHANGED <<fixture, session, progress, crossed>>

Next == ScanHeader \/ ScanProbe \/ Check \/ NothingToRestore \/ Restore \/ Disturb

Spec == Init /\ [][Next]_vars

-----------------------------------------------------------------------------
(* Properties                                                              *)

Ended == phase = "DONE"
Passed == Ended /\ errors = {} /\ raised = "NO"

\* What a scan has seen in one piece is true for good: nothing the other master
\* writes before or after it takes it back.  Only a scan it wrote in the middle of
\* shows nothing, and the host cannot tell.
RoutesTrue ==
    /\ \A c \in Channels, d \in Declared :
         Scan({c}) \notin crossed => (<<c, d>> \in route <=> wiring[d] \cap {c, Upstream} # {})
    /\ {Baseline, Scan({})} \subseteq crossed \/ \A d \in Declared : Upstream \notin wiring[d]
    /\ wiring[Mux] = {Upstream}

\* A check that passes is true of the fixture, up to the scans another master wrote
\* in the middle of: the mux answers, and every declared address answers on exactly
\* its declared branches and nowhere upstream; a sweep has seen every mask read back
\* and no channel is stuck; the controls have moved the first and the last channel.
PassIsTrue ==
    Passed =>
      CASE mode = "ROUTING" -> RoutesTrue
        [] mode = "SWEEP" -> seen = Masks /\ stuck = {}
        [] mode = "CONTROLS" -> {Low, High} \cap stuck = {}

\* Once a mask was found, the procedure never leaves another one behind without an
\* error of the restore, an exception out of the restore, or another master's write
\* since the last readback.
EntryMaskRestored ==
    Ended /\ original \notin {Unread, control} =>
      touched \/ "RESTORE" \in errors \/ raised = "RESTORE"
=============================================================================
