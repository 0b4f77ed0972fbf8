------------------------- MODULE HilMaskChecks_proofs -------------------------
(***************************************************************************)
(* Proofs about HilMaskChecks for any number of channels, any fixture and    *)
(* any other master.                                                         *)
(***************************************************************************)
EXTENDS HilMaskChecks, TLAPS

\* The restore reads back what it has written: once its second command is its
\* turn, only a readback of the entry mask ends it without a word.
THEOREM EntryMaskRestoredAlways == Spec => []EntryMaskRestored
  <1>1. Init => EntryMaskRestored
    BY DEF Init, EntryMaskRestored, Ended
  <1>2. EntryMaskRestored /\ [Next]_vars => EntryMaskRestored'
    <2> SUFFICES ASSUME EntryMaskRestored, [Next]_vars PROVE EntryMaskRestored'
      OBVIOUS
    <2> USE DEF EntryMaskRestored, Ended
    <2>1. CASE Check
      BY <2>1 DEF Check
    <2>2. CASE NothingToRestore
      BY <2>2 DEF NothingToRestore, Report, RestoreFailed
    <2>3. CASE Restore
      <3>1. PICK outcome \in Outcomes :
              /\ Exchange(RestoreScript[step], outcome)
              /\ IF Holds(RestoreScript[step], outcome)
                 THEN phase' = IF step = 2 THEN "DONE" ELSE phase
                 ELSE raised' = "RESTORE" \/ errors' = RestoreFailed
        BY <2>3 DEF Restore, Report
      <3>2. phase = "RESTORE" /\ original' = original
        BY <2>3 DEF Restore
      <3>3. CASE Holds(RestoreScript[step], outcome) /\ step = 2
        <4>1. RestoreScript[step] = Read(original)
          BY <3>3 DEF RestoreScript
        <4>2. outcome = "ANSWERED" /\ control = original
          BY <3>3, <4>1 DEF Holds, Accepted, Read, Cmd
        <4>3. control' = control
          BY <3>1, <4>1, <4>2 DEF Exchange, After, Read, Cmd
        <4> QED
          BY <3>2, <4>2, <4>3
      <3>4. CASE ~(Holds(RestoreScript[step], outcome) /\ step = 2)
        BY <3>1, <3>2, <3>4 DEF RestoreFailed
      <3> QED
        BY <3>3, <3>4
    <2>4. CASE Disturb
      BY <2>4 DEF Disturb, progress
    <2>5. CASE ScanHeader \/ ScanProbe
      BY <2>5 DEF ScanHeader, ScanProbe, progress
    <2>6. CASE UNCHANGED vars
      BY <2>6 DEF vars, progress, device
    <2> QED
      BY <2>1, <2>2, <2>3, <2>4, <2>5, <2>6 DEF Next
  <1> QED
    BY <1>1, <1>2, PTL DEF Spec

-----------------------------------------------------------------------------
(* A check that passes is true                                             *)

\* The addresses that answer while the mux holds a mask.
AnswersAt(mask) == {a \in Addresses : wiring[a] \cap (mask \cup {Upstream}) # {}}

\* What an accepted command has shown of the fixture, for good: nothing that
\* another master writes later takes it back.
Shown(cmd) ==
    /\ cmd.op = "READ" => cmd.mask \in seen
    /\ cmd.op = "BASELINE" => Mux \in AnswersAt({})
    /\ cmd.op = "BASELINE" /\ cmd \notin crossed => AnswersAt({}) \cap Declared = {}
    /\ cmd.op = "SCAN" /\ cmd \notin crossed => AnswersAt(cmd.mask) \cap Declared = Expected(cmd.mask)

Clean == errors = {} /\ raised = "NO"

FixtureOK ==
    /\ mode \in {"ROUTING", "SWEEP", "CONTROLS"}
    /\ route \subseteq Channels \X Devices
    /\ wiring \in [Addresses -> SUBSET (Channels \cup {Upstream})]
    /\ wiring[Mux] \subseteq {Upstream}
    /\ stuck \subseteq Channels

MasksOK ==
    /\ control \subseteq Channels \ stuck
    /\ seen \subseteq SUBSET (Channels \ stuck)
    /\ original = Unread \/ original \subseteq Channels

\* The check has shown all that its commands so far can show.
ProgressOK ==
    /\ phase = "CHECK" => /\ step \in 1 .. Len(Script)
                          /\ \A i \in 1 .. step - 1 : Shown(Script[i])
    /\ phase = "RESTORE" => step \in {1, 2}
    /\ phase # "CHECK" /\ Clean => \A i \in 1 .. Len(Script) : Shown(Script[i])

\* A scan another master has not crossed has found, of the addresses it probed, the
\* ones that answer with the mask of its header; a crossed one only real addresses.
ScanOK ==
    /\ scan \in [header : SUBSET (Channels \cup {Upstream}), left : SUBSET Addresses,
                 found : SUBSET Addresses, crossed : BOOLEAN]
    /\ \A a \in scan.found : wiring[a] # {}
    /\ scan # NoScan /\ ~scan.crossed =>
         /\ scan.found = AnswersAt(scan.header) \ scan.left
         /\ Probing => control = scan.header

CheckInv == FixtureOK /\ MasksOK /\ ScanOK /\ ProgressOK

Ops == {"CAPTURE", "MASK", "READ", "OFF", "SCAN", "BASELINE", "SELECT", "VERIFY",
        "ENABLE", "DISABLE", "INVALIDATE"}
Commands == [op : Ops, mask : Masks]

\* Every command carries a mask of the device's channels.
LEMMA CommandFacts ==
    /\ \A mask \in Masks : Write(mask) \in Commands /\ Read(mask) \in Commands /\ Scan(mask) \in Commands
    /\ \A op \in Ops, mask \in Masks : Cmd(op, mask) \in Commands
    /\ Capture \in Commands /\ Off \in Commands /\ Baseline \in Commands
    /\ {} \in Masks /\ {Low} \in Masks /\ {High} \in Masks /\ {Low, High} \in Masks
    /\ \A c \in Channels : {c} \in Masks
  <1>1. Low \in Channels /\ High \in Channels
    BY FixtureAssumption DEF Channels, Low, High
  <1>2. {} \in Masks /\ {Low} \in Masks /\ {High} \in Masks /\ {Low, High} \in Masks
        /\ \A c \in Channels : {c} \in Masks
    BY <1>1 DEF Masks
  <1>3. \A op \in Ops, mask \in Masks : Cmd(op, mask) \in Commands
    BY DEF Commands, Cmd
  <1>4. \A mask \in Masks : Write(mask) \in Commands /\ Read(mask) \in Commands /\ Scan(mask) \in Commands
    BY <1>3 DEF Write, Read, Scan, Ops
  <1>5. Capture \in Commands /\ Off \in Commands /\ Baseline \in Commands
    BY <1>2, <1>3 DEF Capture, Off, Baseline, Ops
  <1> QED
    BY <1>2, <1>3, <1>4, <1>5

\* Scripts one after the other.
LEMMA Joined ==
    ASSUME NEW a \in Seq(Commands), NEW b \in Seq(Commands)
    PROVE  /\ a \o b \in Seq(Commands) /\ Len(a \o b) = Len(a) + Len(b)
           /\ Len(a) \in Nat /\ Len(b) \in Nat
           /\ \A i \in 1 .. Len(a) : (a \o b)[i] = a[i]
           /\ \A i \in 1 .. Len(b) : (a \o b)[Len(a) + i] = b[i]
  OBVIOUS

LEMMA Three ==
    ASSUME NEW x \in Commands, NEW y \in Commands, NEW z \in Commands
    PROVE  /\ <<x, y, z>> \in Seq(Commands) /\ Len(<<x, y, z>>) = 3
           /\ <<x, y, z>>[1] = x /\ <<x, y, z>>[2] = y /\ <<x, y, z>>[3] = z
  OBVIOUS

LEMMA BranchFacts ==
    ASSUME NEW c \in Channels
    PROVE  Branch(c) \in Seq(Commands) /\ Len(Branch(c)) = 3 /\ Branch(c)[3] = Scan({c})
           /\ \A k \in 1 .. 3 : Branch(c)[k] \in Commands
  <1>1. Cmd("SELECT", {c}) \in Commands /\ Read({c}) \in Commands /\ Scan({c}) \in Commands
    BY CommandFacts DEF Ops
  <1>2. /\ Branch(c) \in Seq(Commands) /\ Len(Branch(c)) = 3 /\ Branch(c)[3] = Scan({c})
        /\ Branch(c)[1] \in Commands /\ Branch(c)[2] \in Commands
    BY <1>1, Three DEF Branch
  <1>3. 1 .. 3 = {1, 2, 3}
    OBVIOUS
  <1> QED
    BY <1>1, <1>2, <1>3

\* The third command of a branch's turn is its scan; the baseline is the third of all.
LEMMA RoutingFacts ==
    /\ RoutingScript \in Seq(Commands)
    /\ 3 \in 1 .. Len(RoutingScript) /\ RoutingScript[3] = Baseline
    /\ \A c \in Channels : \E i \in 1 .. Len(RoutingScript) : RoutingScript[i] = Scan({c})
    /\ \E i \in 1 .. Len(RoutingScript) : RoutingScript[i] = Scan({})
  <1> DEFINE head == <<Off, Read({}), Baseline>>
             turns == [i \in 1 .. 3 * NumChannels |-> Branch((i - 1) \div 3)[((i - 1) % 3) + 1]]
             tail == <<Off, Read({}), Scan({})>>
  <1>1. Off \in Commands /\ Read({}) \in Commands /\ Baseline \in Commands /\ Scan({}) \in Commands
    BY CommandFacts
  <1>2. head \in Seq(Commands) /\ Len(head) = 3 /\ head[3] = Baseline
        /\ tail \in Seq(Commands) /\ Len(tail) = 3 /\ tail[3] = Scan({})
    BY <1>1, Three
  <1>3. ASSUME NEW i \in 1 .. 3 * NumChannels
        PROVE  (i - 1) \div 3 \in Channels /\ ((i - 1) % 3) + 1 \in 1 .. 3
    BY FixtureAssumption DEF Channels
  <1>4. ASSUME NEW i \in 1 .. 3 * NumChannels PROVE Branch((i - 1) \div 3)[((i - 1) % 3) + 1] \in Commands
    BY <1>3, BranchFacts
  <1>5. 3 * NumChannels \in Nat
    BY FixtureAssumption
  <1>6. turns \in Seq(Commands) /\ Len(turns) = 3 * NumChannels
    BY <1>4, <1>5
  <1>7. ASSUME NEW c \in Channels
        PROVE  3 * c + 3 \in 1 .. Len(turns) /\ turns[3 * c + 3] = Scan({c})
    <2>1. c \in Nat /\ 3 * c + 3 \in 1 .. 3 * NumChannels
      BY FixtureAssumption DEF Channels
    <2>2. (3 * c + 3 - 1) \div 3 = c /\ ((3 * c + 3 - 1) % 3) + 1 = 3
      BY <2>1
    <2>3. turns[3 * c + 3] = Branch(c)[3]
      BY <2>1, <2>2
    <2> QED
      BY <1>6, <2>1, <2>3, BranchFacts
  <1>8. RoutingScript = head \o turns \o tail
    BY DEF RoutingScript
  <1> HIDE DEF head, turns, tail
  <1>9. /\ head \o turns \in Seq(Commands) /\ Len(head \o turns) = 3 + Len(turns) /\ Len(turns) \in Nat
        /\ (head \o turns)[3] = Baseline
        /\ \A i \in 1 .. Len(turns) : (head \o turns)[3 + i] = turns[i]
    <2>1. /\ head \o turns \in Seq(Commands) /\ Len(head \o turns) = Len(head) + Len(turns)
          /\ Len(turns) \in Nat
          /\ \A i \in 1 .. Len(head) : (head \o turns)[i] = head[i]
          /\ \A i \in 1 .. Len(turns) : (head \o turns)[Len(head) + i] = turns[i]
      BY <1>2, <1>6, Joined
    <2>2. 3 \in 1 .. Len(head)
      BY <1>2
    <2> QED
      BY <1>2, <2>1, <2>2
  <1> DEFINE most == head \o turns
  <1>10. /\ most \in Seq(Commands) /\ Len(most) = 3 + Len(turns) /\ most[3] = Baseline
         /\ \A i \in 1 .. Len(turns) : most[3 + i] = turns[i]
    BY <1>9
  <1>11. RoutingScript = most \o tail
    BY <1>8
  <1> HIDE DEF most
  <1>12. /\ RoutingScript \in Seq(Commands) /\ Len(RoutingScript) = Len(most) + Len(tail)
         /\ Len(tail) \in Nat /\ Len(most) \in Nat
         /\ \A i \in 1 .. Len(most) : RoutingScript[i] = most[i]
         /\ \A i \in 1 .. Len(tail) : RoutingScript[Len(most) + i] = tail[i]
    BY <1>2, <1>10, <1>11, Joined
  <1>13. 3 \in 1 .. Len(RoutingScript) /\ RoutingScript[3] = Baseline
    BY <1>9, <1>10, <1>12
  <1>14. ASSUME NEW c \in Channels
         PROVE  \E i \in 1 .. Len(RoutingScript) : RoutingScript[i] = Scan({c})
    <2>1. PICK k \in 1 .. Len(turns) : turns[k] = Scan({c})
      BY <1>7
    <2>2. 3 + k \in 1 .. Len(most) /\ 3 + k \in 1 .. Len(RoutingScript)
      BY <1>9, <1>10, <1>12, <2>1
    <2>3. RoutingScript[3 + k] = Scan({c})
      BY <1>10, <1>12, <2>1, <2>2
    <2> QED
      BY <2>2, <2>3
  <1>15. \E i \in 1 .. Len(RoutingScript) : RoutingScript[i] = Scan({})
    <2>1. 3 \in 1 .. Len(tail) /\ Len(most) + 3 \in 1 .. Len(RoutingScript)
      BY <1>2, <1>12
    <2>2. RoutingScript[Len(most) + 3] = Scan({})
      BY <1>2, <1>12, <2>1
    <2> QED
      BY <2>1, <2>2
  <1> QED
    BY <1>12, <1>13, <1>14, <1>15

\* A sweep reads every mask back.
LEMMA SweepFacts ==
    /\ SweepScript \in Seq(Commands)
    /\ \A mask \in Masks : \E i \in 1 .. Len(SweepScript) : SweepScript[i] = Read(mask)
  <1>1. SweepOrder \in Seq(Masks) /\ Len(SweepOrder) \in Nat
        /\ \A k \in 1 .. Len(SweepOrder) : SweepOrder[k] \in Masks
    BY SweepAssumption
  <1>2. ASSUME NEW i \in 1 .. 2 * Len(SweepOrder) PROVE (i + 1) \div 2 \in 1 .. Len(SweepOrder)
    BY <1>1
  <1>3. ASSUME NEW i \in 1 .. 2 * Len(SweepOrder)
        PROVE  Write(SweepOrder[(i + 1) \div 2]) \in Commands /\ Read(SweepOrder[(i + 1) \div 2]) \in Commands
    BY <1>1, <1>2, CommandFacts
  <1>4. 2 * Len(SweepOrder) \in Nat
    BY <1>1
  <1>5. SweepScript \in Seq(Commands) /\ Len(SweepScript) = 2 * Len(SweepOrder)
    BY <1>3, <1>4 DEF SweepScript
  <1>6. ASSUME NEW mask \in Masks
        PROVE  \E i \in 1 .. Len(SweepScript) : SweepScript[i] = Read(mask)
    <2>1. PICK k \in 1 .. Len(SweepOrder) : SweepOrder[k] = mask
      BY SweepAssumption, <1>1 DEF ToSet
    <2>2. 2 * k \in 1 .. 2 * Len(SweepOrder) /\ (2 * k + 1) \div 2 = k /\ (2 * k) % 2 # 1
      BY <1>1, <2>1
    <2>3. SweepScript[2 * k] = Read(mask)
      BY <2>1, <2>2 DEF SweepScript
    <2> QED
      BY <1>5, <2>2, <2>3
  <1> QED
    BY <1>5, <1>6

\* The controls read the first channel alone back, and it with the last one.
LEMMA ControlFacts ==
    /\ ControlsScript \in Seq(Commands)
    /\ \E i \in 1 .. Len(ControlsScript) : ControlsScript[i] = Read({Low, High})
  <1>1. ASSUME NEW op \in Ops, NEW arg \in Masks, NEW mask \in Masks
        PROVE  /\ Control(op, arg, mask) \in Seq(Commands) /\ Len(Control(op, arg, mask)) = 3
               /\ Control(op, arg, mask)[2] = Read(mask)
    <2>1. Cmd(op, arg) \in Commands /\ Read(mask) \in Commands /\ Cmd("VERIFY", mask) \in Commands
      BY CommandFacts DEF Ops
    <2> QED
      BY <2>1, Three DEF Control
  <1> DEFINE a == Control("OFF", {}, {})
             b == Control("ENABLE", {Low}, {Low})
             c == Control("ENABLE", {High}, {Low, High})
             d == Control("INVALIDATE", {}, {Low, High})
             e == Control("DISABLE", {Low}, {High})
             f == Control("DISABLE", {High}, {})
  <1>2. /\ a \in Seq(Commands) /\ b \in Seq(Commands) /\ c \in Seq(Commands)
        /\ d \in Seq(Commands) /\ e \in Seq(Commands) /\ f \in Seq(Commands)
        /\ Len(a) = 3 /\ Len(b) = 3 /\ Len(c) = 3 /\ c[2] = Read({Low, High})
    <2>1. {} \in Masks /\ {Low} \in Masks /\ {High} \in Masks /\ {Low, High} \in Masks
      BY CommandFacts
    <2>2. "OFF" \in Ops /\ "ENABLE" \in Ops /\ "INVALIDATE" \in Ops /\ "DISABLE" \in Ops
      BY DEF Ops
    <2> QED
      BY <1>1, <2>1, <2>2, Zenon
  <1>3. ControlsScript = a \o b \o c \o d \o e \o f
    BY DEF ControlsScript
  <1> HIDE DEF a, b, c, d, e, f
  <1> DEFINE s == a \o b \o c
  <1>4. s \in Seq(Commands) /\ Len(s) = 9 /\ s[8] = Read({Low, High})
    <2> DEFINE t == a \o b
    <2>1. t \in Seq(Commands) /\ Len(t) = 6
      <3>1. a \o b \in Seq(Commands) /\ Len(a \o b) = Len(a) + Len(b)
        BY <1>2, Joined, Zenon
      <3> QED
        BY <1>2, <3>1
    <2> HIDE DEF t
    <2>2. t \o c \in Seq(Commands) /\ Len(t \o c) = 9 /\ (t \o c)[8] = c[2]
      <3>1. /\ t \o c \in Seq(Commands) /\ Len(t \o c) = Len(t) + Len(c)
            /\ \A i \in 1 .. Len(c) : (t \o c)[Len(t) + i] = c[i]
        BY <1>2, <2>1, Joined
      <3>2. 2 \in 1 .. Len(c) /\ Len(t) + 2 = 8
        BY <1>2, <2>1
      <3> QED
        BY <1>2, <2>1, <3>1, <3>2
    <2> QED
      BY <1>2, <2>2 DEF t
  <1> HIDE DEF s
  <1>5. ASSUME NEW x \in Seq(Commands), NEW y \in Seq(Commands), 8 \in 1 .. Len(x),
               x[8] = Read({Low, High})
        PROVE  x \o y \in Seq(Commands) /\ 8 \in 1 .. Len(x \o y) /\ (x \o y)[8] = Read({Low, High})
    BY <1>5, Joined
  <1>6. 8 \in 1 .. Len(s)
    BY <1>4
  <1>7. s \o d \in Seq(Commands) /\ 8 \in 1 .. Len(s \o d) /\ (s \o d)[8] = Read({Low, High})
    BY <1>2, <1>4, <1>5, <1>6, Zenon
  <1>8. /\ (s \o d) \o e \in Seq(Commands) /\ 8 \in 1 .. Len((s \o d) \o e)
        /\ ((s \o d) \o e)[8] = Read({Low, High})
    BY <1>2, <1>5, <1>7, Zenon
  <1>9. /\ ((s \o d) \o e) \o f \in Seq(Commands) /\ 8 \in 1 .. Len(((s \o d) \o e) \o f)
        /\ (((s \o d) \o e) \o f)[8] = Read({Low, High})
    BY <1>2, <1>5, <1>8, Zenon
  <1>10. ControlsScript = ((s \o d) \o e) \o f
    BY <1>3 DEF s
  <1> QED
    BY <1>9, <1>10

LEMMA ScriptFacts ==
    ASSUME FixtureOK
    PROVE  /\ Script \in Seq(Commands) /\ Len(Script) \in Nat \ {0}
           /\ \A i \in 1 .. Len(Script) : Script[i] \in Commands
           /\ mode = "ROUTING" =>
                /\ \E i \in 1 .. Len(Script) : Script[i] = Baseline
                /\ \A c \in Channels : \E i \in 1 .. Len(Script) : Script[i] = Scan({c})
                /\ \E i \in 1 .. Len(Script) : Script[i] = Scan({})
           /\ mode = "SWEEP" => \A mask \in Masks : \E i \in 1 .. Len(Script) : Script[i] = Read(mask)
           /\ mode = "CONTROLS" => \E i \in 1 .. Len(Script) : Script[i] = Read({Low, High})
  <1> DEFINE body == CASE mode = "ROUTING" -> RoutingScript
                       [] mode = "SWEEP" -> SweepScript
                       [] mode = "CONTROLS" -> ControlsScript
  <1>1. /\ mode = "ROUTING" => body = RoutingScript
        /\ mode = "SWEEP" => body = SweepScript
        /\ mode = "CONTROLS" => body = ControlsScript
    OBVIOUS
  <1>2. body \in Seq(Commands)
    BY <1>1, RoutingFacts, SweepFacts, ControlFacts DEF FixtureOK
  <1>3. Script = <<Capture>> \o body
    BY DEF Script
  <1> HIDE DEF body
  <1>4. /\ Script \in Seq(Commands) /\ Len(Script) = 1 + Len(body) /\ Len(body) \in Nat
        /\ \A i \in 1 .. Len(body) : Script[1 + i] = body[i]
    <2> DEFINE first == <<Capture>>
    <2>1. first \in Seq(Commands) /\ Len(first) = 1
      BY CommandFacts
    <2> HIDE DEF first
    <2>2. /\ first \o body \in Seq(Commands) /\ Len(first \o body) = Len(first) + Len(body)
          /\ Len(body) \in Nat
          /\ \A i \in 1 .. Len(body) : (first \o body)[Len(first) + i] = body[i]
      BY <1>2, <2>1, Joined
    <2>3. Script = first \o body
      BY <1>3 DEF first
    <2> QED
      BY <2>1, <2>2, <2>3
  <1>5. ASSUME NEW cmd, \E i \in 1 .. Len(body) : body[i] = cmd
        PROVE  \E i \in 1 .. Len(Script) : Script[i] = cmd
    <2>1. PICK i \in 1 .. Len(body) : body[i] = cmd
      BY <1>5
    <2>2. 1 + i \in 1 .. Len(Script) /\ Script[1 + i] = cmd
      BY <1>4, <2>1
    <2> QED
      BY <2>2
  <1>6. mode = "ROUTING" =>
          /\ \E i \in 1 .. Len(Script) : Script[i] = Baseline
          /\ \A c \in Channels : \E i \in 1 .. Len(Script) : Script[i] = Scan({c})
          /\ \E i \in 1 .. Len(Script) : Script[i] = Scan({})
    <2> SUFFICES ASSUME mode = "ROUTING"
                 PROVE  /\ \E i \in 1 .. Len(Script) : Script[i] = Baseline
                        /\ \A c \in Channels : \E i \in 1 .. Len(Script) : Script[i] = Scan({c})
                        /\ \E i \in 1 .. Len(Script) : Script[i] = Scan({})
      OBVIOUS
    <2>1. body = RoutingScript
      BY <1>1
    <2>2. \E i \in 1 .. Len(body) : body[i] = Baseline
      BY <2>1, RoutingFacts
    <2>3. ASSUME NEW c \in Channels PROVE \E i \in 1 .. Len(body) : body[i] = Scan({c})
      BY <2>1, RoutingFacts
    <2>4. \E i \in 1 .. Len(Script) : Script[i] = Baseline
      BY <1>5, <2>2, Zenon
    <2>5. \E i \in 1 .. Len(body) : body[i] = Scan({})
      BY <2>1, RoutingFacts
    <2>6. \E i \in 1 .. Len(Script) : Script[i] = Scan({})
      BY <1>5, <2>5, Zenon
    <2>7. \A c \in Channels : \E i \in 1 .. Len(Script) : Script[i] = Scan({c})
      BY <1>5, <2>3, Zenon
    <2> QED
      BY <2>4, <2>6, <2>7
  <1>7. mode = "SWEEP" => \A mask \in Masks : \E i \in 1 .. Len(Script) : Script[i] = Read(mask)
    <2> SUFFICES ASSUME mode = "SWEEP", NEW mask \in Masks
                 PROVE  \E i \in 1 .. Len(Script) : Script[i] = Read(mask)
      OBVIOUS
    <2>1. body = SweepScript
      BY <1>1
    <2>2. \E i \in 1 .. Len(body) : body[i] = Read(mask)
      BY <2>1, SweepFacts
    <2> QED
      BY <1>5, <2>2, Zenon
  <1>8. mode = "CONTROLS" => \E i \in 1 .. Len(Script) : Script[i] = Read({Low, High})
    <2> SUFFICES ASSUME mode = "CONTROLS"
                 PROVE  \E i \in 1 .. Len(Script) : Script[i] = Read({Low, High})
      OBVIOUS
    <2>1. body = ControlsScript
      BY <1>1
    <2>2. \E i \in 1 .. Len(body) : body[i] = Read({Low, High})
      BY <2>1, ControlFacts
    <2> QED
      BY <1>5, <2>2, Zenon
  <1>9. \A i \in 1 .. Len(Script) : Script[i] \in Commands
    BY <1>4
  <1>10. Len(Script) \in Nat \ {0}
    BY <1>4
  <1> QED
    BY <1>4, <1>6, <1>7, <1>8, <1>9, <1>10, Zenon

LEMMA ScriptKept ==
    ASSUME mode' = mode
    PROVE  Script' = Script
  BY DEF Script, RoutingScript, SweepScript, ControlsScript, Control, Branch, Capture, Write, Read,
         Scan, Off, Baseline, Cmd, Low, High

\* What was shown stays shown: the fixture does not change, masks are only added,
\* and so are crossed scans.
LEMMA ShownStays ==
    ASSUME UNCHANGED fixture, seen \subseteq seen', crossed \subseteq crossed', NEW cmd, Shown(cmd)
    PROVE  Shown(cmd)'
  <1>1. cmd.op = "READ" => cmd.mask \in seen'
    BY DEF Shown
  <1>2. wiring' = wiring /\ route' = route
    BY DEF fixture
  <1>3. \A mask : AnswersAt(mask)' = AnswersAt(mask) /\ Expected(mask)' = Expected(mask)
    BY <1>2 DEF AnswersAt, Expected, Addresses, Upstream
  <1>4. Declared' = Declared
    BY <1>2 DEF Declared
  <1>5. cmd \notin crossed' => cmd \notin crossed
    OBVIOUS
  <1> QED
    BY <1>1, <1>3, <1>4, <1>5 DEF Shown

\* What a complete scan has found, if nobody wrote in its middle.
LEMMA ScanFound ==
    ASSUME ScanOK, ScanComplete, ~scan.crossed
    PROVE  scan.found = AnswersAt(scan.header)
  BY DEF ScanOK, ScanComplete, Probing

\* An accepted answer shows what its command is for.
LEMMA AcceptedShows ==
    ASSUME FixtureOK, ScanOK, NEW cmd, Accepted(cmd), cmd.op \in Scans => ScanComplete,
           seen' = IF cmd.op = "READ" THEN seen \cup {control} ELSE seen,
           crossed' = IF scan.crossed THEN crossed \cup {cmd} ELSE crossed,
           UNCHANGED fixture
    PROVE  Shown(cmd)'
  <1>1. wiring' = wiring /\ route' = route
    BY DEF fixture
  <1>2. \A mask : AnswersAt(mask)' = AnswersAt(mask) /\ Expected(mask)' = Expected(mask)
    BY <1>1 DEF AnswersAt, Expected, Addresses, Upstream
  <1>3. Declared' = Declared
    BY <1>1 DEF Declared
  <1>4. cmd \notin crossed' => ~scan.crossed
    OBVIOUS
  <1>5. CASE cmd.op = "READ"
    <2>1. control = cmd.mask
      BY <1>5 DEF Accepted
    <2> QED
      BY <1>5, <2>1 DEF Shown
  <1>6. CASE cmd.op = "BASELINE"
    <2>1. scan.header = {} /\ scan.found \cap Declared = {} /\ Mux \in scan.found /\ ScanComplete
      BY <1>6 DEF Accepted, Scans
    <2>2. wiring[Mux] # {} /\ Mux \in Addresses
      BY <2>1 DEF ScanOK, Addresses
    <2>3. Mux \in AnswersAt({})
      BY <2>2 DEF FixtureOK, AnswersAt
    <2>4. ~scan.crossed => AnswersAt({}) \cap Declared = {}
      BY <2>1, ScanFound
    <2> QED
      BY <1>2, <1>3, <1>4, <1>6, <2>3, <2>4 DEF Shown
  <1>7. CASE cmd.op = "SCAN"
    <2>1. scan.header = cmd.mask /\ scan.found \cap Declared = Expected(cmd.mask) /\ ScanComplete
      BY <1>7 DEF Accepted, Isolated, Scans
    <2>2. ~scan.crossed => AnswersAt(cmd.mask) \cap Declared = Expected(cmd.mask)
      BY <2>1, ScanFound
    <2> QED
      BY <1>2, <1>3, <1>4, <1>7, <2>2 DEF Shown
  <1>8. CASE cmd.op \notin {"READ", "BASELINE", "SCAN"}
    BY <1>8 DEF Shown
  <1> QED
    BY <1>5, <1>6, <1>7, <1>8

\* No command enables a stuck channel.
LEMMA ControlStaysReal ==
    ASSUME FixtureOK, MasksOK, NEW cmd, cmd.mask \subseteq Channels, NEW outcome, Exchange(cmd, outcome)
    PROVE  control' \subseteq Channels \ stuck
  <1>1. After(cmd) \subseteq Channels \ stuck
    BY DEF After, MasksOK
  <1>2. control' = After(cmd) \/ control' = control
    BY DEF Exchange
  <1> QED
    BY <1>1, <1>2 DEF MasksOK

LEMMA FixtureStays ==
    ASSUME FixtureOK, UNCHANGED fixture
    PROVE  FixtureOK'
  BY DEF FixtureOK, fixture, Channels, Addresses, Upstream

LEMMA NoScanOK ==
    /\ scan = NoScan => ScanOK
    /\ scan' = NoScan => ScanOK'
  <1>1. /\ NoScan \in [header : SUBSET (Channels \cup {Upstream}), left : SUBSET Addresses,
                      found : SUBSET Addresses, crossed : BOOLEAN]
        /\ NoScan.found = {}
    BY DEF NoScan, Unread
  <1>2. ASSUME scan = NoScan PROVE ScanOK
    BY <1>1, <1>2 DEF ScanOK
  <1>3. ASSUME scan' = NoScan PROVE ScanOK'
    BY <1>1, <1>3 DEF ScanOK
  <1> QED
    BY <1>2, <1>3

LEMMA CheckInvInit == Init => CheckInv
  <1> SUFFICES ASSUME Init PROVE CheckInv
    OBVIOUS
  <1>1. FixtureOK
    <2>1. Mux \in Addresses
      BY DEF Addresses
    <2> QED
      BY <2>1 DEF Init, FixtureOK, Masks
  <1>2. MasksOK
    BY DEF Init, MasksOK
  <1>3. ProgressOK
    <2>1. phase = "CHECK" /\ step = 1
      BY DEF Init
    <2>2. 1 \in 1 .. Len(Script) /\ 1 .. step - 1 = {}
      BY <1>1, <2>1, ScriptFacts
    <2> QED
      BY <2>1, <2>2 DEF ProgressOK
  <1>4. ScanOK
    BY NoScanOK DEF Init
  <1> QED
    BY <1>1, <1>2, <1>3, <1>4 DEF CheckInv

LEMMA CheckKeeps ==
    ASSUME CheckInv, Check
    PROVE  CheckInv'
  <1>a. PICK cmd : cmd = Script[step]
    OBVIOUS
  <1>1. PICK outcome \in Outcomes :
          /\ Exchange(cmd, outcome)
          /\ IF Holds(cmd, outcome)
             THEN /\ original' = IF cmd.op = "CAPTURE" THEN control ELSE original
                  /\ seen' = IF cmd.op = "READ" THEN seen \cup {control} ELSE seen
                  /\ phase' = IF step = Len(Script) THEN "RESTORE" ELSE "CHECK"
                  /\ step' = IF step = Len(Script) THEN 1 ELSE step + 1
                  /\ UNCHANGED <<errors, raised>>
             ELSE /\ phase' = "RESTORE" /\ step' = 1
                  /\ raised' = "CHECK" \/ errors' = errors \cup {"CHECK"}
                  /\ UNCHANGED <<original, seen>>
    BY <1>a DEF Check
  <1>2. UNCHANGED fixture /\ phase = "CHECK" /\ FixtureOK /\ MasksOK /\ ScanOK /\ ProgressOK
    BY DEF Check, CheckInv
  <1>b. /\ crossed \subseteq crossed' /\ scan' = NoScan
        /\ Holds(cmd, outcome) =>
             /\ cmd.op \in Scans => ScanComplete
             /\ crossed' = IF scan.crossed THEN crossed \cup {cmd} ELSE crossed
    BY <1>1 DEF Exchange, Holds
  <1>c. ScanOK'
    BY <1>b, NoScanOK
  <1>3. step \in 1 .. Len(Script) /\ Len(Script) \in Nat \ {0} /\ cmd \in Commands
    BY <1>a, <1>2, ScriptFacts DEF ProgressOK
  <1>4. cmd.mask \subseteq Channels
    BY <1>3 DEF Commands, Masks
  <1>5. FixtureOK'
    BY <1>2, FixtureStays
  <1>6. control' \subseteq Channels \ stuck
    BY <1>1, <1>2, <1>4, ControlStaysReal
  <1>7. seen \subseteq seen' /\ seen' \subseteq seen \cup {control}
    BY <1>1
  <1>8. original' = original \/ original' = control
    BY <1>1
  <1>9. MasksOK'
    <2>1. stuck' = stuck
      BY <1>2 DEF fixture
    <2> QED
      BY <1>2, <1>6, <1>7, <1>8, <2>1 DEF MasksOK, Channels, Unread, Upstream
  <1>10. Script' = Script
    BY <1>2, ScriptKept DEF fixture
  <1>11. \A i \in 1 .. step - 1 : \A c : c = Script[i] => Shown(c)'
    <2>1. \A c : Shown(c) => Shown(c)'
      BY <1>2, <1>7, <1>b, ShownStays
    <2> QED
      BY <1>2, <2>1 DEF ProgressOK
  <1>12. ProgressOK'
    <2>1. CASE Holds(cmd, outcome)
      <3>1. Shown(cmd)'
        <4>1. Accepted(cmd) /\ seen' = IF cmd.op = "READ" THEN seen \cup {control} ELSE seen
          BY <1>1, <2>1 DEF Holds
        <4> QED
          BY <1>2, <1>b, <2>1, <4>1, AcceptedShows
      <3>2. \A i \in 1 .. step : \A c : c = Script[i] => Shown(c)'
        <4>1. \A i \in 1 .. step : i \in 1 .. step - 1 \/ i = step
          BY <1>3
        <4> QED
          BY <1>a, <1>10, <1>11, <3>1, <4>1
      <3>3. CASE step = Len(Script)
        <4>1. phase' = "RESTORE" /\ step' = 1
          BY <1>1, <2>1, <3>3
        <4> QED
          BY <1>10, <3>2, <3>3, <4>1 DEF ProgressOK
      <3>4. CASE step # Len(Script)
        <4>1. phase' = "CHECK" /\ step' = step + 1
          BY <1>1, <2>1, <3>4
        <4>2. step' \in 1 .. Len(Script) /\ step' - 1 = step
          BY <1>3, <3>4, <4>1
        <4> QED
          BY <1>10, <3>2, <4>1, <4>2 DEF ProgressOK
      <3> QED
        BY <3>3, <3>4
    <2>2. CASE ~Holds(cmd, outcome)
      BY <1>1, <2>2 DEF ProgressOK, Clean
    <2> QED
      BY <2>1, <2>2
  <1> QED
    BY <1>5, <1>9, <1>c, <1>12 DEF CheckInv

\* After the check, nothing that was shown is lost and no error is taken back.
LEMMA LaterKeeps ==
    ASSUME CheckInv, UNCHANGED fixture, UNCHANGED <<seen, original>>,
           control' \subseteq Channels \ stuck, crossed \subseteq crossed', ScanOK',
           \/ /\ phase # "CHECK" /\ phase' # "CHECK" /\ (Clean' => Clean)
              /\ phase' = "RESTORE" => step' \in {1, 2}
           \/ UNCHANGED <<phase, step, errors, raised>>
    PROVE  CheckInv'
  <1>1. FixtureOK'
    BY FixtureStays DEF CheckInv
  <1>2. stuck' = stuck /\ mode' = mode
    BY DEF fixture
  <1>3. MasksOK'
    BY <1>2 DEF CheckInv, MasksOK, Channels, Unread, Upstream
  <1>4. Script' = Script
    BY <1>2, ScriptKept
  <1>5. \A c : Shown(c) => Shown(c)'
    BY ShownStays
  <1>6. ProgressOK'
    BY <1>4, <1>5 DEF CheckInv, ProgressOK, Clean
  <1> QED
    BY <1>1, <1>3, <1>6 DEF CheckInv

\* A step that changes neither the scan nor the mask.
LEMMA ScanStays ==
    ASSUME ScanOK, UNCHANGED fixture, UNCHANGED <<scan, control>>
    PROVE  ScanOK'
  <1>1. wiring' = wiring
    BY DEF fixture
  <1>2. \A mask : AnswersAt(mask)' = AnswersAt(mask)
    BY <1>1 DEF AnswersAt, Addresses, Upstream
  <1> QED
    BY <1>1, <1>2 DEF ScanOK, Probing, NoScan, Unread, Upstream, Channels, Addresses

LEMMA HeaderKeepsScan ==
    ASSUME FixtureOK, MasksOK, ScanHeader
    PROVE  ScanOK'
  <1>1. /\ scan' = [header |-> control, left |-> Addresses, found |-> {}, crossed |-> FALSE]
        /\ control' = control
    BY DEF ScanHeader
  <1>2. scan'.header = control /\ scan'.left = Addresses /\ scan'.found = {}
    BY <1>1
  <1>3. scan' \in [header : SUBSET (Channels \cup {Upstream}), left : SUBSET Addresses,
                   found : SUBSET Addresses, crossed : BOOLEAN]
    BY <1>1 DEF MasksOK
  <1>4. AnswersAt(scan.header)' \subseteq Addresses
    BY DEF AnswersAt, Addresses
  <1> QED
    BY <1>1, <1>2, <1>3, <1>4 DEF ScanOK, Channels, Upstream, Addresses

LEMMA ProbeKeepsScan ==
    ASSUME FixtureOK, ScanOK, ScanProbe
    PROVE  ScanOK'
  <1>1. PICK a \in scan.left :
          scan' = [scan EXCEPT !.left = @ \ {a}, !.found = @ \cup {x \in {a} : Answers(x)}]
    BY DEF ScanProbe
  <1>2. wiring' = wiring /\ control' = control
    BY DEF ScanProbe, fixture
  <1>3. a \in Addresses
    BY <1>1 DEF ScanOK
  <1>4. /\ scan'.header = scan.header /\ scan'.left = scan.left \ {a}
        /\ scan'.found = scan.found \cup {x \in {a} : Answers(x)}
        /\ scan'.crossed = scan.crossed
        /\ scan' \in [header : SUBSET (Channels \cup {Upstream}), left : SUBSET Addresses,
                      found : SUBSET Addresses, crossed : BOOLEAN]
    BY <1>1, <1>3 DEF ScanOK
  <1>5. \A x \in scan'.found : wiring[x] # {}
    BY <1>4 DEF ScanOK, Answers
  <1>6. Probing /\ scan # NoScan
    BY <1>1 DEF Probing, NoScan
  <1>7. ~scan.crossed => scan'.found = AnswersAt(scan.header) \ scan'.left /\ control = scan.header
    <2> SUFFICES ASSUME ~scan.crossed
                 PROVE  scan'.found = AnswersAt(scan.header) \ scan'.left /\ control = scan.header
      OBVIOUS
    <2>1. scan.found = AnswersAt(scan.header) \ scan.left /\ control = scan.header
      BY <1>6 DEF ScanOK
    <2>2. a \in AnswersAt(scan.header) <=> Answers(a)
      BY <1>3, <2>1 DEF AnswersAt, Answers
    <2>3. {x \in {a} : Answers(x)} = {a} \cap AnswersAt(scan.header)
      BY <2>2
    <2> QED
      BY <1>1, <1>4, <2>1, <2>3
  <1>8. AnswersAt(scan.header)' = AnswersAt(scan.header)
    BY <1>2, <1>4 DEF AnswersAt, Addresses, Upstream
  <1> QED
    BY <1>2, <1>4, <1>5, <1>7, <1>8 DEF ScanOK, Probing, Channels, Upstream, Addresses

LEMMA DisturbKeepsScan ==
    ASSUME ScanOK, Disturb
    PROVE  ScanOK'
  <1>1. scan' = [scan EXCEPT !.crossed = @ \/ Probing] /\ wiring' = wiring
    BY DEF Disturb, fixture
  <1>2. /\ scan'.header = scan.header /\ scan'.left = scan.left /\ scan'.found = scan.found
        /\ scan'.crossed = (scan.crossed \/ Probing)
        /\ scan' \in [header : SUBSET (Channels \cup {Upstream}), left : SUBSET Addresses,
                      found : SUBSET Addresses, crossed : BOOLEAN]
    BY <1>1 DEF ScanOK, Probing
  <1>3. ~scan'.crossed => ~Probing /\ ~Probing' /\ scan' = scan
    BY <1>1, <1>2 DEF Probing, ScanOK
  <1>4. AnswersAt(scan.header)' = AnswersAt(scan.header)
    BY <1>1, <1>2 DEF AnswersAt, Addresses, Upstream
  <1> QED
    BY <1>1, <1>2, <1>3, <1>4 DEF ScanOK, Channels, Upstream, Addresses, NoScan, Unread

LEMMA CheckInvStep == CheckInv /\ [Next]_vars => CheckInv'
  <1> SUFFICES ASSUME CheckInv, [Next]_vars PROVE CheckInv'
    OBVIOUS
  <1>1. CASE Check
    BY <1>1, CheckKeeps
  <1>2. CASE NothingToRestore
    <2>1. UNCHANGED fixture /\ UNCHANGED <<seen, original, control, scan, crossed>>
          /\ phase = "RESTORE" /\ phase' = "DONE"
      BY <1>2 DEF NothingToRestore, device, Report
    <2>a. ScanOK'
      BY <2>1, ScanStays DEF CheckInv
    <2>2. errors \subseteq errors' /\ (raised' = raised \/ raised' = "RESTORE")
      BY <1>2 DEF NothingToRestore, Report, RestoreFailed
    <2>3. control' \subseteq Channels \ stuck
      BY <2>1 DEF CheckInv, MasksOK
    <2> QED
      BY <2>1, <2>2, <2>a, <2>3, LaterKeeps DEF Clean
  <1>3. CASE Restore
    <2>1. PICK outcome \in Outcomes :
            /\ Exchange(RestoreScript[step], outcome)
            /\ IF Holds(RestoreScript[step], outcome)
               THEN phase' = (IF step = 2 THEN "DONE" ELSE phase) /\ step' = 2 /\ UNCHANGED <<errors, raised>>
               ELSE raised' = "RESTORE" \/ errors' = RestoreFailed
      BY <1>3 DEF Restore, Report
    <2>2. UNCHANGED fixture /\ UNCHANGED <<seen, original>> /\ phase = "RESTORE" /\ original # Unread
      BY <1>3 DEF Restore
    <2>3. phase' # "CHECK"
      BY <1>3 DEF Restore, Report
    <2>a. phase' = "RESTORE" => step' \in {1, 2}
      BY <1>3, <2>2 DEF Restore, Report, CheckInv, ProgressOK
    <2>4. control' \subseteq Channels \ stuck
      <3>1. After(RestoreScript[step]) \subseteq Channels \ stuck
        <4>1. step \in {1, 2} /\ original \subseteq Channels
          BY <2>2 DEF CheckInv, ProgressOK, MasksOK
        <4>2. RestoreScript[step] = Write(original) \/ RestoreScript[step] = Read(original)
          BY <4>1 DEF RestoreScript
        <4>3. RestoreScript[step].mask \subseteq Channels
          BY <4>1, <4>2 DEF Write, Read, Cmd
        <4> QED
          BY <4>3 DEF After, CheckInv, MasksOK
      <3> QED
        BY <2>1, <3>1 DEF Exchange, CheckInv, MasksOK
    <2>5. Clean' => Clean
      BY <2>1 DEF Clean, RestoreFailed
    <2>6. scan' = NoScan /\ crossed \subseteq crossed'
      BY <2>1 DEF Exchange
    <2>7. ScanOK'
      BY <2>6, NoScanOK
    <2> QED
      BY <2>2, <2>3, <2>a, <2>4, <2>5, <2>6, <2>7, LaterKeeps
  <1>4. CASE Disturb
    <2>1. UNCHANGED <<phase, step, errors, raised, seen, original>> /\ UNCHANGED fixture
          /\ control' \subseteq Channels \ stuck /\ crossed' = crossed
      BY <1>4 DEF Disturb, progress
    <2>2. ScanOK'
      BY <1>4, DisturbKeepsScan DEF CheckInv
    <2> QED
      BY <2>1, <2>2, LaterKeeps
  <1>6. CASE ScanHeader \/ ScanProbe
    <2>1. UNCHANGED <<phase, step, errors, raised, seen, original, control, crossed>> /\ UNCHANGED fixture
      BY <1>6 DEF ScanHeader, ScanProbe, progress
    <2>2. control' \subseteq Channels \ stuck
      BY <2>1 DEF CheckInv, MasksOK
    <2>3. ScanOK'
      BY <1>6, HeaderKeepsScan, ProbeKeepsScan DEF CheckInv
    <2> QED
      BY <2>1, <2>2, <2>3, LaterKeeps
  <1>5. CASE UNCHANGED vars
    <2>1. /\ UNCHANGED <<phase, step, errors, raised, seen, original, control, scan, crossed>>
          /\ UNCHANGED fixture
      BY <1>5 DEF vars, progress, device
    <2>3. ScanOK'
      BY <2>1, ScanStays DEF CheckInv
    <2>2. control' \subseteq Channels \ stuck
      BY <2>1 DEF CheckInv, MasksOK
    <2> QED
      BY <2>1, <2>2, <2>3, LaterKeeps
  <1> QED
    BY <1>1, <1>2, <1>3, <1>4, <1>5, <1>6 DEF Next

\* What the shown facts add up to when the whole script has been accepted: the
\* baseline has no declared address and the branches differ exactly as declared;
\* a sweep's readbacks are all the masks, and a stuck channel is in one of them.
THEOREM PassIsTrueAlways == Spec => []PassIsTrue
  <1>1. CheckInv => PassIsTrue
    <2> SUFFICES ASSUME CheckInv, Passed PROVE PassIsTrue
      BY DEF PassIsTrue
    <2>1. FixtureOK /\ MasksOK /\ \A i \in 1 .. Len(Script) : Shown(Script[i])
      BY DEF CheckInv, ProgressOK, Passed, Ended, Clean
    <2>2. CASE mode = "ROUTING"
      <3>1. Mux \in AnswersAt({}) /\ (Baseline \notin crossed => AnswersAt({}) \cap Declared = {})
        <4>1. PICK i \in 1 .. Len(Script) : Script[i] = Baseline
          BY <2>1, <2>2, ScriptFacts
        <4>2. Shown(Baseline) /\ Baseline.op = "BASELINE"
          BY <2>1, <4>1 DEF Baseline, Cmd
        <4> QED
          BY <4>2 DEF Shown
      <3>2. ASSUME NEW mask, \E i \in 1 .. Len(Script) : Script[i] = Scan(mask), Scan(mask) \notin crossed
            PROVE  AnswersAt(mask) \cap Declared = Expected(mask)
        <4>1. PICK i \in 1 .. Len(Script) : Script[i] = Scan(mask)
          BY <3>2
        <4>2. Shown(Scan(mask)) /\ Scan(mask).op = "SCAN" /\ Scan(mask).mask = mask
          BY <2>1, <4>1 DEF Scan, Cmd
        <4> QED
          BY <3>2, <4>2 DEF Shown
      <3>3. route \subseteq Channels \X Devices
            /\ wiring \in [Addresses -> SUBSET (Channels \cup {Upstream})] /\ wiring[Mux] \subseteq {Upstream}
        BY <2>1 DEF FixtureOK
      <3>4. wiring[Mux] = {Upstream}
        BY <3>1, <3>3 DEF AnswersAt
      <3>a. \A d \in Declared : d \in Addresses
        BY <3>3 DEF Declared, Addresses
      <3>5. ASSUME NEW c \in Channels, NEW d \in Declared, Scan({c}) \notin crossed
            PROVE  <<c, d>> \in route <=> wiring[d] \cap {c, Upstream} # {}
        <4>1. AnswersAt({c}) \cap Declared = Expected({c})
          BY <2>1, <2>2, <3>2, <3>5, ScriptFacts
        <4>2. d \in AnswersAt({c}) <=> wiring[d] \cap {c, Upstream} # {}
          BY <3>a DEF AnswersAt
        <4>3. d \in Expected({c}) <=> <<c, d>> \in route
          BY <3>3 DEF Expected
        <4> QED
          BY <4>1, <4>2, <4>3
      <3>6. ASSUME ~({Baseline, Scan({})} \subseteq crossed), NEW d \in Declared
            PROVE  Upstream \notin wiring[d]
        <4>1. AnswersAt({}) \cap Declared = {}
          <5>1. CASE Baseline \notin crossed
            BY <3>1, <5>1
          <5>2. CASE Scan({}) \notin crossed
            <6>1. AnswersAt({}) \cap Declared = Expected({})
              BY <2>1, <2>2, <3>2, <5>2, ScriptFacts
            <6>2. Expected({}) = {}
              BY DEF Expected
            <6> QED
              BY <6>1, <6>2
          <5> QED
            BY <3>6, <5>1, <5>2
        <4> QED
          BY <3>a, <4>1 DEF AnswersAt
      <3>7. RoutesTrue
        BY <3>4, <3>5, <3>6 DEF RoutesTrue
      <3> QED
        BY <2>2, <3>7 DEF PassIsTrue
    <2>3. CASE mode = "SWEEP"
      <3>1. ASSUME NEW mask \in Masks PROVE mask \in seen
        <4>1. PICK i \in 1 .. Len(Script) : Script[i] = Read(mask)
          BY <2>1, <2>3, ScriptFacts
        <4>2. Shown(Read(mask)) /\ Read(mask).op = "READ" /\ Read(mask).mask = mask
          BY <2>1, <4>1 DEF Read, Cmd
        <4> QED
          BY <4>2 DEF Shown
      <3>2. seen \subseteq SUBSET (Channels \ stuck) /\ stuck \subseteq Channels
        BY <2>1 DEF MasksOK, FixtureOK
      <3>3. seen = Masks
        BY <3>1, <3>2 DEF Masks
      <3>4. Channels \in seen
        BY <3>1 DEF Masks
      <3>5. stuck = {}
        BY <3>2, <3>4
      <3> QED
        BY <2>3, <3>3, <3>5 DEF PassIsTrue
    <2>4. CASE mode = "CONTROLS"
      <3>1. PICK i \in 1 .. Len(Script) : Script[i] = Read({Low, High})
        BY <2>1, <2>4, ScriptFacts
      <3>2. Shown(Read({Low, High})) /\ Read({Low, High}).op = "READ"
            /\ Read({Low, High}).mask = {Low, High}
        BY <2>1, <3>1 DEF Read, Cmd
      <3>3. {Low, High} \in seen /\ seen \subseteq SUBSET (Channels \ stuck)
        BY <2>1, <3>2 DEF Shown, MasksOK
      <3> QED
        BY <2>4, <3>3 DEF PassIsTrue
    <2> QED
      BY <2>1, <2>2, <2>3, <2>4 DEF FixtureOK
  <1> QED
    BY <1>1, CheckInvInit, CheckInvStep, PTL DEF Spec
=============================================================================
