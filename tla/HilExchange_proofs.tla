------------------------- MODULE HilExchange_proofs -------------------------
(***************************************************************************)
(* Proofs about the serial exchange for any number of commands and          *)
(* restarts and any limit on an answer: an accepted answer is whole, the    *)
(* boundary behind it is clean, and the framing implements CommandChannel.  *)
(*                                                                         *)
(* All of it is read off one sequence, the View of the exchange: what the   *)
(* host has read, what is in the line, the loss that is still to be marked, *)
(* and what the firmware has still to print.  Printing and reading do not    *)
(* change it.  What stands behind a restart's banner never counts.          *)
(***************************************************************************)
EXTENDS HilExchange, SequenceTheorems, TLAPS

Record ==
    [kind : {"DATA", "MARK"}, of : Nat]
      \cup [kind : {"PROMPT", "ACK", "LOST", "BANNER"}, of : {0}]
Live == phase \in {"REPLY", "MARKER"}

TypeOK ==
    /\ phase \in {"BOOT", "IDLE", "REPLY", "MARKER"}
    /\ synchronized \in BOOLEAN /\ attempted \in BOOLEAN
    /\ calls \in Nat
    /\ received \in Seq(Record)
    /\ answer \in [of : Nat, text : Seq(Record)]
    /\ rx \in Seq(Lines)
    /\ skipping \in BOOLEAN
    /\ out \in Seq(Record)
    /\ lossPending \in BOOLEAN
    /\ tx \in Seq(Record)
    /\ boot \in Nat \ {0}
    /\ taken \in [of : Nat, boot : Nat]
    /\ home \in Nat

-----------------------------------------------------------------------------
(* The view of an exchange                                                 *)

Pending == IF lossPending THEN <<Lost>> ELSE <<>>
View == received \o ((tx \o Pending) \o out)

\* The command of the exchange, and its marker.
Request == Line(IF calls = 1 THEN "DISCARD" ELSE "COMMAND", calls)
Marker == Line("HILMARK", calls)
Ours(line) == line.kind # "HILMARK" /\ line.of # 0

\* No banner among the first i records of v.
Front(v, i) == \A j \in 1 .. i : v[j].kind # "BANNER"
Unbroken == Front(View, Len(View))

-----------------------------------------------------------------------------
(* The inductive invariant                                                 *)

\* The runner's own account of the exchange.
HostOK ==
    /\ Live => attempted /\ ~synchronized /\ calls # 0 /\ answer.of = calls - 1
               /\ Front(View, Len(received))
    /\ ~Live => received = <<>>
    /\ ~attempted => ~synchronized /\ calls = 0 /\ answer.of = 0 /\ taken.of = 0
    /\ phase = "BOOT" => ~attempted
    /\ taken.of <= calls /\ answer.of <= calls /\ home <= boot

\* Every number in the line and in the firmware is one of this session's calls, only
\* the newest command is not taken yet, and its marker is not written too early.
NumbersOK ==
    /\ \A i \in 1 .. Len(View) : View[i].kind = "MARK" => View[i].of <= calls
    /\ \A j \in 1 .. Len(rx) :
         /\ rx[j].of <= calls
         /\ Ours(rx[j]) => /\ rx[j] = Request /\ taken.of < calls
                           /\ \A k \in 1 .. Len(rx) : Ours(rx[k]) => k = j
    /\ phase = "REPLY" => /\ \A i \in 1 .. Len(View) : View[i] # Mark(calls)
                          /\ \A j \in 1 .. Len(rx) : rx[j] # Marker
    /\ phase = "MARKER" => \A j \in 1 .. Len(rx) : rx[j] = Marker => j = Len(rx)

\* What is left of a reply.
OutOK ==
    \/ out = <<>> \/ out = <<Prompt>>
    \/ Len(out) = 2 /\ out[2] = Prompt /\ out[1].kind \notin {"PROMPT", "LOST"}

\* Without a restart the command and its marker are where they were sent, in order; the
\* marker is only obeyed behind a command that was taken in this boot.
RxOK ==
    Live /\ Unbroken =>
      LET last == Len(rx)
          served == skipping \/ (taken = [of |-> calls, boot |-> boot] /\ home = boot)
      IN  /\ phase = "REPLY" => IF last = 0 THEN served ELSE rx[last] = Request
          /\ phase = "MARKER" /\ last # 0 =>
               /\ rx[last] = Marker
               /\ IF last = 1 THEN served ELSE rx[last - 1] = Request
          /\ calls > 1 => /\ boot = home
                          /\ phase = "REPLY" /\ last # 0 => last = 1 /\ Len(View) = 0
                          /\ phase = "MARKER" /\ last # 0 => last = 1 /\ Len(View) = 2

\* What an exchange on a clean line shows of the command's answer.
Shown == {Data(calls), Ack, Lost}
FormOK ==
    Live /\ calls > 1 =>
      /\ phase = "REPLY" =>
           \A i \in 1 .. Len(View) : Front(View, i) =>
             /\ i <= 2
             /\ i = 1 => View[i] \in Shown
             /\ i = 2 => View[i] \in {Prompt, Lost}
      /\ phase = "MARKER" =>
           Len(received) >= 2 /\ received[1] \in Shown /\ received[2] = Prompt

\* The echo of the marker is the last thing but its prompt that this boot says, and
\* then the command was taken in the boot that took the session's first.
MarkOK ==
    \A i \in 1 .. Len(View) :
      Live /\ Front(View, i) /\ View[i] = Mark(calls) =>
        /\ taken = [of |-> calls, boot |-> home] /\ rx = <<>>
        /\ calls > 1 => i = 3
        /\ i + 1 \in 1 .. Len(View) /\ View[i + 1] \in {Prompt, Lost, Banner}
        /\ View[i + 1] = Prompt =>
             \/ Len(View) = i + 1 /\ boot = home
             \/ i + 2 \in 1 .. Len(View) /\ View[i + 2] = Banner /\ boot # home

\* At a boundary nothing is under way, or a restart's banner comes first.
BoundaryOK ==
    synchronized =>
      /\ phase = "IDLE" /\ calls # 0 /\ answer.of = calls
      /\ taken = [of |-> calls, boot |-> home] /\ rx = <<>>
      /\ boot = home => Len(View) = 0
      /\ boot # home => Len(View) # 0 /\ View[1] = Banner

Inv ==
    /\ TypeOK /\ HostOK /\ NumbersOK /\ OutOK /\ RxOK /\ FormOK /\ MarkOK /\ BoundaryOK
    /\ AnswerIsWhole

-----------------------------------------------------------------------------
(* Records and lines                                                       *)

LEMMA RecordFacts ==
    /\ Banner.kind = "BANNER" /\ Lost.kind = "LOST" /\ Prompt.kind = "PROMPT"
    /\ Ack.kind = "ACK"
    /\ \A n : Data(n).kind = "DATA" /\ Mark(n).kind = "MARK"
             /\ Data(n).of = n /\ Mark(n).of = n
    /\ Banner \in Record /\ Lost \in Record /\ Prompt \in Record /\ Ack \in Record
    /\ \A n \in Nat : Data(n) \in Record /\ Mark(n) \in Record
    /\ \A r \in Record : r.kind = "BANNER" => r = Banner
    /\ \A r \in Record : r.kind = "MARK" => r.of \in Nat /\ r = Mark(r.of)
  BY DEF Banner, Lost, Prompt, Ack, Data, Mark, Record

LEMMA LineFacts ==
    /\ \A k, n : Line(k, n).kind = k /\ Line(k, n).of = n
    /\ \A n \in Nat : /\ Line("COMMAND", n) \in Lines /\ Line("DISCARD", n) \in Lines
                      /\ Line("HILMARK", n) \in Lines
    /\ \A line \in Lines : /\ line.of \in Nat
                           /\ line.kind \in {"COMMAND", "DISCARD", "HILMARK"}
                           /\ line = Line(line.kind, line.of)
  BY DEF Line, Lines

-----------------------------------------------------------------------------
(* Sequences of records                                                    *)

LEMMA Glue ==
    ASSUME NEW a \in Seq(Record), NEW b \in Seq(Record)
    PROVE  /\ a \o b \in Seq(Record)
           /\ Len(a \o b) = Len(a) + Len(b)
           /\ Len(a) \in Nat /\ Len(b) \in Nat
           /\ \A i \in 1 .. Len(a) : (a \o b)[i] = a[i]
           /\ \A i \in 1 .. Len(b) : (a \o b)[Len(a) + i] = b[i]
           /\ \A i \in Len(a) + 1 .. Len(a) + Len(b) : (a \o b)[i] = b[i - Len(a)]
  OBVIOUS

LEMMA Single ==
    ASSUME NEW r \in Record
    PROVE  <<r>> \in Seq(Record) /\ Len(<<r>>) = 1 /\ <<r>>[1] = r
  OBVIOUS

LEMMA Pair ==
    ASSUME NEW r \in Record, NEW q \in Record
    PROVE  /\ <<r, q>> \in Seq(Record) /\ Len(<<r, q>>) = 2
           /\ <<r, q>>[1] = r /\ <<r, q>>[2] = q /\ <<r, q>> # <<>>
  OBVIOUS

LEMMA Regroup ==
    ASSUME NEW a \in Seq(Record), NEW b \in Seq(Record), NEW c \in Seq(Record)
    PROVE  (a \o b) \o c = a \o (b \o c)
  BY ConcatAssociative

LEMMA NothingMore ==
    ASSUME NEW a \in Seq(Record)
    PROVE  a \o <<>> = a /\ <<>> \o a = a
  BY ConcatEmptySeq

-----------------------------------------------------------------------------
(* Type correctness                                                        *)

LEMMA TypeInit == Init => TypeOK
  <1> SUFFICES ASSUME Init PROVE TypeOK
    OBVIOUS
  <1>1. /\ Prompt \in Record /\ Data(0) \in Record /\ Banner \in Record
        /\ Line("COMMAND", 0) \in Lines /\ Line("HILMARK", 0) \in Lines
    BY RecordFacts, LineFacts
  <1>2. <<>> \in Seq(Record) /\ <<>> \in Seq(Lines)
    OBVIOUS
  <1>3. rx \in Seq(Lines)
    <2>1. \A line \in Lines : <<line>> \in Seq(Lines)
      OBVIOUS
    <2>2. <<Line("COMMAND", 0)>> \in Seq(Lines) /\ <<Line("HILMARK", 0)>> \in Seq(Lines)
      BY <1>1, <2>1
    <2>3. rx = <<>> \/ rx = <<Line("COMMAND", 0)>> \/ rx = <<Line("HILMARK", 0)>>
      BY DEF Init
    <2> QED
      BY <1>2, <2>2, <2>3
  <1>4. out \in Seq(Record) /\ tx \in Seq(Record)
    <2>1. \A r \in Record : <<r>> \in Seq(Record)
      OBVIOUS
    <2>2. \A r, q \in Record : <<r, q>> \in Seq(Record)
      OBVIOUS
    <2>3. /\ <<Prompt>> \in Seq(Record) /\ <<Data(0)>> \in Seq(Record)
          /\ <<Data(0), Prompt>> \in Seq(Record) /\ <<Banner, Prompt>> \in Seq(Record)
      BY <1>1, <2>1, <2>2
    <2>4. /\ out = <<>> \/ out = <<Prompt>> \/ out = <<Data(0), Prompt>>
             \/ out = <<Banner, Prompt>>
          /\ tx = <<>> \/ tx = <<Prompt>> \/ tx = <<Data(0)>>
      BY DEF Init
    <2> QED
      BY <1>2, <2>3, <2>4
  <1>5. received \in Seq(Record) /\ answer \in [of : Nat, text : Seq(Record)]
    BY <1>2 DEF Init
  <1>6. /\ phase \in {"BOOT", "IDLE", "REPLY", "MARKER"}
        /\ synchronized \in BOOLEAN /\ attempted \in BOOLEAN
        /\ skipping \in BOOLEAN /\ lossPending \in BOOLEAN
    BY Zenon DEF Init
  <1>8. calls \in Nat /\ boot \in Nat \ {0} /\ home \in Nat
    BY DEF Init
  <1>7. taken \in [of : Nat, boot : Nat]
    <2>1. taken = [of |-> 0, boot |-> 0]
      BY DEF Init
    <2> QED
      BY <2>1
  <1> QED
    BY <1>3, <1>4, <1>5, <1>6, <1>7, <1>8, Zenon DEF TypeOK

\* A line is taken from the front and added at the end.
LEMMA RxTail ==
    ASSUME TypeOK, rx # <<>>
    PROVE  /\ Len(rx) \in Nat \ {0} /\ Head(rx) = rx[1] /\ Head(rx) \in Lines
           /\ Tail(rx) \in Seq(Lines) /\ Len(Tail(rx)) = Len(rx) - 1
           /\ \A j \in 1 .. Len(rx) - 1 : Tail(rx)[j] = rx[j + 1]
  <1>1. rx \in Seq(Lines)
    BY DEF TypeOK
  <1> QED
    BY <1>1, HeadTailProperties

LEMMA TypeFacts ==
    ASSUME TypeOK
    PROVE  /\ rx \in Seq(Lines) /\ Len(rx) \in Nat /\ \A j \in 1 .. Len(rx) : rx[j] \in Lines
           /\ taken.of \in Nat
  <1>1. rx \in Seq(Lines)
    BY DEF TypeOK
  <1>2. taken.of \in Nat
    BY DEF TypeOK
  <1> QED
    BY <1>1, <1>2

LEMMA RxAppend ==
    ASSUME TypeOK, NEW line \in Lines
    PROVE  /\ Append(rx, line) \in Seq(Lines) /\ Len(Append(rx, line)) = Len(rx) + 1
           /\ Len(rx) \in Nat
           /\ \A j \in 1 .. Len(rx) : Append(rx, line)[j] = rx[j]
           /\ Append(rx, line)[Len(rx) + 1] = line
  <1>1. rx \in Seq(Lines)
    BY DEF TypeOK
  <1> QED
    BY <1>1, AppendProperties

\* What a line is answered with.
LEMMA ReplyFacts ==
    ASSUME NEW line \in Lines, NEW reply, reply \in {Refusal, Reply(line)}
    PROVE  /\ reply \in Seq(Record) /\ Len(reply) = 2 /\ reply[2] = Prompt
           /\ \/ reply[1] = Ack
              \/ reply[1] = Data(line.of) /\ line.kind = "COMMAND"
              \/ /\ reply[1] = Mark(line.of) /\ line.kind = "HILMARK"
                 /\ reply # Refusal
  <1>1. line.of \in Nat /\ line.kind \in {"COMMAND", "DISCARD", "HILMARK"}
    BY LineFacts
  <1>2. /\ Refusal \in Seq(Record) /\ Len(Refusal) = 2 /\ Refusal[2] = Prompt
        /\ Refusal[1] = Ack
    BY RecordFacts, Pair DEF Refusal
  <1>3. CASE reply = Refusal
    BY <1>2, <1>3
  <1>4. CASE reply = Reply(line) /\ line.kind = "COMMAND"
    <2>1. reply = <<Data(line.of), Prompt>>
      BY <1>4 DEF Reply
    <2> QED
      BY <1>1, <1>4, <2>1, RecordFacts, Pair
  <1>5. CASE reply = Reply(line) /\ line.kind = "HILMARK"
    <2>1. reply = <<Mark(line.of), Prompt>>
      BY <1>5 DEF Reply
    <2>2. reply \in Seq(Record) /\ Len(reply) = 2 /\ reply[2] = Prompt /\ reply[1] = Mark(line.of)
      BY <1>1, <2>1, RecordFacts, Pair
    <2>3. Mark(line.of) # Ack
      BY RecordFacts
    <2>4. reply # Refusal
      BY <1>2, <2>2, <2>3
    <2> QED
      BY <1>5, <2>2, <2>4
  <1>6. CASE reply = Reply(line) /\ line.kind = "DISCARD"
    <2>1. reply = Refusal
      BY <1>6 DEF Reply
    <2> QED
      BY <1>2, <2>1
  <1> QED
    BY <1>1, <1>3, <1>4, <1>5, <1>6

\* The part of the line a read takes, and the part it leaves.
LEMMA SplitLine ==
    ASSUME TypeOK, NEW k \in 0 .. Len(tx)
    PROVE  /\ Taken(k) \in Seq(Record) /\ Len(Taken(k)) = k
           /\ \A i \in 1 .. k : Taken(k)[i] = tx[i]
           /\ Rest(k) \in Seq(Record) /\ Len(Rest(k)) = Len(tx) - k
           /\ \A i \in 1 .. Len(tx) - k : Rest(k)[i] = tx[i + k]
  <1>1. tx \in Seq(Record) /\ Len(tx) \in Nat
    BY DEF TypeOK
  <1>2. \A i \in 1 .. k : tx[i] \in Record
    BY <1>1
  <1>3. \A i \in k + 1 .. Len(tx) : tx[i] \in Record
    BY <1>1
  <1>4. /\ SubSeq(tx, 1, k) \in Seq(Record) /\ Len(SubSeq(tx, 1, k)) = k
        /\ \A i \in 1 .. k : SubSeq(tx, 1, k)[i] = tx[i]
    BY <1>1, <1>2, SubSeqProperties
  <1>5. /\ SubSeq(tx, k + 1, Len(tx)) \in Seq(Record)
        /\ Len(SubSeq(tx, k + 1, Len(tx))) = Len(tx) - k
        /\ \A i \in 1 .. Len(tx) - k : SubSeq(tx, k + 1, Len(tx))[i] = tx[i + k]
    BY <1>1, <1>3, SubSeqProperties
  <1> QED
    BY <1>4, <1>5 DEF Taken, Rest

-----------------------------------------------------------------------------
(* Shapes of change                                                        *)

\* One record of v has become a loss.
Replaced(w, v, e) ==
    /\ Len(w) = Len(v) /\ w[e] = Lost
    /\ \A i \in 1 .. Len(v) : i # e => w[i] = v[i]

\* One record of v is gone, right behind a loss.
Closed(w, v, e) ==
    /\ Len(w) = Len(v) - 1 /\ e > 1 /\ v[e - 1] = Lost
    /\ \A i \in 1 .. Len(w) : i < e => w[i] = v[i]
    /\ \A i \in 1 .. Len(w) : i >= e => w[i] = v[i + 1]

\* v without its first m records.
Behind(w, v, m) ==
    /\ m \in 0 .. Len(v) /\ Len(w) = Len(v) - m
    /\ \A i \in 1 .. Len(w) : w[i] = v[i + m]

\* v and a reply.
Longer(w, v, r) ==
    /\ Len(w) = Len(v) + Len(r)
    /\ \A i \in 1 .. Len(v) : w[i] = v[i]
    /\ \A i \in 1 .. Len(r) : w[Len(v) + i] = r[i]

\* The first m records of v and a restart.
Reset(w, v, m) ==
    /\ m \in 0 .. Len(v) /\ Len(w) = m + 2
    /\ \A i \in 1 .. m : w[i] = v[i]
    /\ w[m + 1] = Banner /\ w[m + 2] = Prompt

LEMMA GluedShapes ==
    ASSUME NEW v \in Seq(Record), NEW r \in Seq(Record)
    PROVE  Longer(v \o r, v, r) /\ Behind(r, v \o r, Len(v))
  <1>1. Longer(v \o r, v, r)
    BY Glue DEF Longer
  <1>2. ASSUME NEW i \in 1 .. Len(r) PROVE r[i] = (v \o r)[i + Len(v)]
    <2>1. i + Len(v) = Len(v) + i
      BY Glue
    <2> QED
      BY <2>1, Glue
  <1>3. Len(v) \in 0 .. Len(v \o r) /\ Len(r) = Len(v \o r) - Len(v)
    BY Glue
  <1> QED
    BY <1>1, <1>2, <1>3 DEF Behind

LEMMA ReplacedShape ==
    ASSUME NEW f \in Seq(Record), NEW h \in Record, NEW t \in Seq(Record)
    PROVE  Replaced((f \o <<Lost>>) \o t, (f \o <<h>>) \o t, Len(f) + 1)
  <1> DEFINE v == (f \o <<h>>) \o t
             w == (f \o <<Lost>>) \o t
  <1>1. \A q \in Record :
          /\ Len(f) \in Nat /\ Len(t) \in Nat
          /\ Len((f \o <<q>>) \o t) = Len(f) + 1 + Len(t)
          /\ \A i \in 1 .. Len(f) : ((f \o <<q>>) \o t)[i] = f[i]
          /\ ((f \o <<q>>) \o t)[Len(f) + 1] = q
          /\ \A i \in Len(f) + 2 .. Len(f) + 1 + Len(t) :
               ((f \o <<q>>) \o t)[i] = t[i - (Len(f) + 1)]
    <2> TAKE q \in Record
    <2> DEFINE g == f \o <<q>>
    <2>1. /\ g \in Seq(Record) /\ Len(g) = Len(f) + 1 /\ Len(f) \in Nat
          /\ \A i \in 1 .. Len(f) : g[i] = f[i]
          /\ g[Len(f) + 1] = q
      <3>1. <<q>> \in Seq(Record) /\ Len(<<q>>) = 1 /\ <<q>>[1] = q
        BY Single
      <3>2. 1 \in 1 .. Len(<<q>>)
        BY <3>1
      <3> QED
        BY <3>1, <3>2, Glue
    <2> HIDE DEF g
    <2>2. /\ Len(g \o t) = Len(f) + 1 + Len(t) /\ Len(t) \in Nat
          /\ \A i \in 1 .. Len(g) : (g \o t)[i] = g[i]
          /\ \A i \in Len(f) + 2 .. Len(f) + 1 + Len(t) : (g \o t)[i] = t[i - (Len(f) + 1)]
      <3>1. /\ Len(g \o t) = Len(g) + Len(t) /\ Len(t) \in Nat
            /\ \A i \in 1 .. Len(g) : (g \o t)[i] = g[i]
            /\ \A i \in Len(g) + 1 .. Len(g) + Len(t) : (g \o t)[i] = t[i - Len(g)]
        BY <2>1, Glue
      <3>2. Len(g) + 1 = Len(f) + 2
        BY <2>1
      <3> QED
        BY <3>1, <3>2, <2>1
    <2>3. (g \o t)[Len(f) + 1] = q /\ \A i \in 1 .. Len(f) : (g \o t)[i] = f[i]
      BY <2>1, <2>2
    <2> QED
      BY <2>1, <2>2, <2>3 DEF g
  <1>2. /\ Len(v) = Len(f) + 1 + Len(t) /\ Len(f) \in Nat /\ Len(t) \in Nat
        /\ \A i \in 1 .. Len(f) : v[i] = f[i]
        /\ \A i \in Len(f) + 2 .. Len(f) + 1 + Len(t) : v[i] = t[i - (Len(f) + 1)]
    BY <1>1
  <1>3. /\ Len(w) = Len(f) + 1 + Len(t) /\ w[Len(f) + 1] = Lost
        /\ \A i \in 1 .. Len(f) : w[i] = f[i]
        /\ \A i \in Len(f) + 2 .. Len(f) + 1 + Len(t) : w[i] = t[i - (Len(f) + 1)]
    BY <1>1, RecordFacts
  <1> HIDE DEF v, w
  <1>4. ASSUME NEW i \in 1 .. Len(v), i # Len(f) + 1 PROVE w[i] = v[i]
    BY <1>2, <1>3, <1>4
  <1>5. Replaced(w, v, Len(f) + 1)
    BY <1>2, <1>3, <1>4 DEF Replaced
  <1> QED
    BY <1>5 DEF v, w

LEMMA ClosedShape ==
    ASSUME NEW f \in Seq(Record), NEW h \in Record, NEW t \in Seq(Record),
           Len(f) > 0, f[Len(f)] = Lost
    PROVE  Closed(f \o t, (f \o <<h>>) \o t, Len(f) + 1)
  <1> DEFINE v == (f \o <<h>>) \o t
             w == f \o t
             g == f \o <<h>>
  <1>1. /\ g \in Seq(Record) /\ Len(g) = Len(f) + 1 /\ Len(f) \in Nat
        /\ \A i \in 1 .. Len(f) : g[i] = f[i]
    BY Single, Glue
  <1>2. /\ Len(v) = Len(f) + 1 + Len(t) /\ Len(t) \in Nat
        /\ \A i \in 1 .. Len(f) : v[i] = f[i]
        /\ \A i \in 1 .. Len(t) : v[Len(f) + 1 + i] = t[i]
    <2>1. v = g \o t
      OBVIOUS
    <2>a. g \in Seq(Record) /\ t \in Seq(Record)
      BY <1>1
    <2> HIDE DEF v, g
    <2>b. /\ Len(g \o t) = Len(g) + Len(t) /\ Len(t) \in Nat
          /\ \A i \in 1 .. Len(g) : (g \o t)[i] = g[i]
          /\ \A i \in 1 .. Len(t) : (g \o t)[Len(g) + i] = t[i]
      BY <2>a, Glue, Zenon
    <2>2. /\ Len(v) = Len(g) + Len(t) /\ Len(t) \in Nat
          /\ \A i \in 1 .. Len(g) : v[i] = g[i]
          /\ \A i \in 1 .. Len(t) : v[Len(g) + i] = t[i]
      BY <2>1, <2>b, Zenon
    <2> QED
      BY <1>1, <2>2
  <1>3. /\ Len(w) = Len(f) + Len(t)
        /\ \A i \in 1 .. Len(f) : w[i] = f[i]
        /\ \A i \in Len(f) + 1 .. Len(f) + Len(t) : w[i] = t[i - Len(f)]
    BY Glue
  <1> HIDE DEF v, w, g
  <1>4. ASSUME NEW i \in 1 .. Len(w), i < Len(f) + 1 PROVE w[i] = v[i]
    BY <1>1, <1>2, <1>3, <1>4
  <1>5. ASSUME NEW i \in 1 .. Len(w), i >= Len(f) + 1 PROVE w[i] = v[i + 1]
    <2>1. i - Len(f) \in 1 .. Len(t) /\ i \in Len(f) + 1 .. Len(f) + Len(t)
          /\ Len(f) + 1 + (i - Len(f)) = i + 1
      BY <1>1, <1>2, <1>3, <1>5
    <2>2. w[i] = t[i - Len(f)]
      BY <2>1, <1>3
    <2>3. v[Len(f) + 1 + (i - Len(f))] = t[i - Len(f)]
      BY <2>1, <1>2
    <2> QED
      BY <2>1, <2>2, <2>3
  <1>6. v[Len(f) + 1 - 1] = Lost /\ Len(f) + 1 > 1
    BY <1>1, <1>2
  <1>7. Closed(w, v, Len(f) + 1)
    BY <1>1, <1>2, <1>3, <1>4, <1>5, <1>6 DEF Closed
  <1> QED
    BY <1>7 DEF v, w

-----------------------------------------------------------------------------
(* What the steps do to the view                                           *)

LEMMA Parts ==
    ASSUME TypeOK
    PROVE  /\ received \in Seq(Record) /\ tx \in Seq(Record) /\ out \in Seq(Record)
           /\ Pending \in Seq(Record) /\ lossPending \in BOOLEAN
           /\ lossPending => Pending = <<Lost>>
           /\ ~lossPending => Pending = <<>>
  <1>1. <<>> \in Seq(Record) /\ <<Lost>> \in Seq(Record)
    BY RecordFacts, Single
  <1> QED
    BY <1>1 DEF TypeOK, Pending

\* What was read is in front of the view; the reply's records end it.
LEMMA ViewParts ==
    ASSUME TypeOK
    PROVE  /\ View \in Seq(Record) /\ Len(View) \in Nat /\ Len(received) \in Nat
           /\ received \o (tx \o Pending) \in Seq(Record)
           /\ View = (received \o (tx \o Pending)) \o out
           /\ Len(received) <= Len(View)
           /\ \A i \in 1 .. Len(received) : View[i] = received[i]
  <1>1. tx \o Pending \in Seq(Record) /\ (tx \o Pending) \o out \in Seq(Record)
    BY Parts, Glue
  <1>a. received \in Seq(Record) /\ out \in Seq(Record)
    BY Parts
  <1>2. View = (received \o (tx \o Pending)) \o out
    BY <1>1, <1>a, Regroup, Zenon DEF View
  <1> DEFINE w == (tx \o Pending) \o out
  <1>3. View = received \o w /\ w \in Seq(Record)
    BY <1>1 DEF View
  <1> HIDE DEF w
  <1>4. /\ View \in Seq(Record) /\ Len(View) = Len(received) + Len(w)
        /\ Len(received) \in Nat /\ Len(w) \in Nat
        /\ \A i \in 1 .. Len(received) : View[i] = received[i]
    BY <1>3, Parts, Glue
  <1>5. received \o (tx \o Pending) \in Seq(Record)
    BY <1>1, Parts, Glue
  <1> QED
    BY <1>2, <1>4, <1>5

\* The next record of the reply, and the rest.
LEMMA OutFacts ==
    ASSUME TypeOK, out # <<>>
    PROVE  /\ Len(out) \in Nat \ {0} /\ Head(out) = out[1] /\ Head(out) \in Record
           /\ Tail(out) \in Seq(Record) /\ Len(Tail(out)) = Len(out) - 1
           /\ \A i \in 1 .. Len(out) - 1 : Tail(out)[i] = out[i + 1]
           /\ out = <<Head(out)>> \o Tail(out)
  <1>1. out \in Seq(Record)
    BY DEF TypeOK
  <1>2. /\ Len(out) \in Nat \ {0} /\ Head(out) = out[1] /\ Head(out) \in Record
        /\ Tail(out) \in Seq(Record) /\ Len(Tail(out)) = Len(out) - 1
        /\ \A i \in 1 .. Len(out) - 1 : Tail(out)[i] = out[i + 1]
    BY <1>1, HeadTailProperties
  <1>3. out = <<Head(out)>> \o Tail(out)
    <2> DEFINE w == <<Head(out)>> \o Tail(out)
    <2>1. /\ w \in Seq(Record) /\ Len(w) = Len(out) /\ w[1] = out[1]
          /\ \A i \in 2 .. Len(out) : w[i] = Tail(out)[i - 1]
      BY <1>2, Single, Glue
    <2> HIDE DEF w
    <2>2. ASSUME NEW i \in 1 .. Len(out) PROVE w[i] = out[i]
      BY <1>2, <2>1
    <2>3. w = out
      BY <1>1, <2>1, <2>2, SeqEqual
    <2> QED
      BY <2>3 DEF w
  <1> QED
    BY <1>2, <1>3

\* A record that finds room changes nothing.
LEMMA KeptView ==
    ASSUME TypeOK, out # <<>>, ~lossPending, out' = Tail(out),
           tx' = Append(tx, Head(out)), UNCHANGED <<received, lossPending>>
    PROVE  View' = View
  <1> DEFINE h == Head(out)
             t == Tail(out)
  <1>1. h \in Record /\ t \in Seq(Record) /\ out = <<h>> \o t /\ <<h>> \in Seq(Record)
    BY OutFacts, Single
  <1>2. tx' = tx \o <<h>>
    BY <1>1, Parts, AppendIsConcat
  <1>3. Pending = <<>> /\ Pending' = <<>>
    BY DEF Pending
  <1>4. View' = received \o (((tx \o <<h>>) \o <<>>) \o t)
    BY <1>2, <1>3 DEF View
  <1>5. View = received \o ((tx \o <<>>) \o (<<h>> \o t))
    BY <1>1, <1>3 DEF View
  <1> HIDE DEF h, t
  <1>6. tx \o <<h>> \in Seq(Record) /\ tx \in Seq(Record)
    BY <1>1, Parts, Glue
  <1>7. (tx \o <<h>>) \o <<>> = tx \o <<h>> /\ tx \o <<>> = tx
    BY <1>6, NothingMore
  <1>8. (tx \o <<h>>) \o t = tx \o (<<h>> \o t)
    BY <1>1, <1>6, Regroup
  <1> QED
    BY <1>4, <1>5, <1>7, <1>8, Zenon

\* Neither does the mark of a loss.
LEMMA MarkedView ==
    ASSUME TypeOK, lossPending, ~lossPending', tx' = Append(tx, Lost),
           UNCHANGED <<received, out>>
    PROVE  View' = View
  <1>1. tx \in Seq(Record) /\ Lost \in Record
    BY Parts, RecordFacts
  <1>2. tx' = tx \o <<Lost>> /\ tx \o <<Lost>> \in Seq(Record)
    BY <1>1, AppendIsConcat, Single, Glue
  <1>3. Pending = <<Lost>> /\ Pending' = <<>>
    BY DEF Pending
  <1>4. (tx \o <<Lost>>) \o <<>> = tx \o <<Lost>>
    BY <1>2, NothingMore
  <1>5. View' = received \o (((tx \o <<Lost>>) \o <<>>) \o out)
    BY <1>2, <1>3 DEF View
  <1>6. View = received \o ((tx \o <<Lost>>) \o out)
    BY <1>3 DEF View
  <1> QED
    BY <1>4, <1>5, <1>6, Zenon

\* A record that finds no room becomes a loss, or is lost behind one.
LEMMA LostView ==
    ASSUME TypeOK, out # <<>>, out' = Tail(out), lossPending', UNCHANGED <<received, tx>>
    PROVE  \E e \in Len(received) + 1 .. Len(View) :
             /\ View[e] = Head(out)
             /\ Replaced(View', View, e) \/ Closed(View', View, e)
  <1> DEFINE h == Head(out)
             t == Tail(out)
             f == received \o tx
             g == f \o <<Lost>>
  <1>1. h \in Record /\ t \in Seq(Record) /\ out = <<h>> \o t /\ <<h>> \in Seq(Record)
    BY OutFacts, Single
  <1>2. received \in Seq(Record) /\ tx \in Seq(Record) /\ <<Lost>> \in Seq(Record)
    BY Parts, RecordFacts, Single
  <1>3. f \in Seq(Record) /\ g \in Seq(Record)
    BY <1>2, Glue
  <1>4. Len(received) <= Len(f) /\ Len(f) \in Nat /\ Len(received) \in Nat
        /\ Len(g) = Len(f) + 1
    BY <1>2, <1>3, RecordFacts, Single, Glue
  <1>5. Pending' = <<Lost>>
    BY DEF Pending
  <1>6. View' = g \o t
    <2>1. View' = received \o ((tx \o <<Lost>>) \o t)
      BY <1>5 DEF View
    <2>2. tx \o <<Lost>> \in Seq(Record)
      BY <1>2, Glue
    <2>3. received \o ((tx \o <<Lost>>) \o t) = (received \o (tx \o <<Lost>>)) \o t
      <3> DEFINE u == tx \o <<Lost>>
      <3>1. received \in Seq(Record) /\ u \in Seq(Record) /\ t \in Seq(Record)
        BY <1>1, <1>2, <2>2
      <3> HIDE DEF u
      <3>2. (received \o u) \o t = received \o (u \o t)
        BY <3>1, Regroup
      <3> QED
        BY <3>2 DEF u
    <2>4. received \o (tx \o <<Lost>>) = g
      BY <1>2, Regroup
    <2> QED
      BY <2>1, <2>3, <2>4
  <1>7. View = ((received \o (tx \o Pending)) \o <<h>>) \o t
    <2>1. received \o (tx \o Pending) \in Seq(Record)
      BY ViewParts
    <2>2. View = (received \o (tx \o Pending)) \o (<<h>> \o t)
      BY <1>1, ViewParts
    <2> QED
      BY <1>1, <2>1, <2>2, Regroup
  <1>8. ASSUME NEW b \in Seq(Record), Len(b) >= Len(received), View = (b \o <<h>>) \o t
        PROVE  Len(b) + 1 \in Len(received) + 1 .. Len(View) /\ View[Len(b) + 1] = h
    <2>1. /\ b \o <<h>> \in Seq(Record) /\ Len(b \o <<h>>) = Len(b) + 1 /\ Len(b) \in Nat
          /\ (b \o <<h>>)[Len(b) + 1] = h
      <3>1. <<h>> \in Seq(Record) /\ Len(<<h>>) = 1 /\ <<h>>[1] = h
        BY <1>1, Single
      <3>2. 1 \in 1 .. Len(<<h>>)
        BY <3>1
      <3> QED
        BY <3>1, <3>2, Glue
    <2> DEFINE c == b \o <<h>>
    <2> HIDE DEF c
    <2>2. c \in Seq(Record) /\ Len(c) = Len(b) + 1 /\ c[Len(b) + 1] = h /\ View = c \o t
      BY <1>8, <2>1 DEF c
    <2>3. Len(View) = Len(c) + Len(t) /\ Len(t) \in Nat /\ \A i \in 1 .. Len(c) : View[i] = c[i]
      BY <1>1, <2>2, Glue
    <2> QED
      BY <1>4, <1>8, <2>1, <2>2, <2>3
  <1> HIDE DEF h, t
  <1>9. CASE ~lossPending
    <2>1. received \o (tx \o Pending) = f
      <3>1. Pending = <<>>
        BY <1>9 DEF Pending
      <3>2. tx \o <<>> = tx
        BY <1>2, NothingMore
      <3> QED
        BY <3>1, <3>2
    <2>2. View = (f \o <<h>>) \o t
      BY <1>7, <2>1
    <2> HIDE DEF f
    <2>3. Replaced(View', View, Len(f) + 1)
      BY <1>1, <1>3, <1>6, <2>2, ReplacedShape DEF g
    <2>4. Len(f) + 1 \in Len(received) + 1 .. Len(View) /\ View[Len(f) + 1] = h
      BY <1>3, <1>4, <1>8, <2>2
    <2> QED
      BY <2>3, <2>4 DEF h
  <1>10. CASE lossPending
    <2>1. received \o (tx \o Pending) = g
      <3>1. Pending = <<Lost>>
        BY <1>10 DEF Pending
      <3>2. received \o (tx \o <<Lost>>) = g
        BY <1>2, Regroup
      <3> QED
        BY <3>1, <3>2
    <2>2. View = (g \o <<h>>) \o t
      BY <1>7, <2>1
    <2>3. g[Len(g)] = Lost
      <3>1. <<Lost>> \in Seq(Record) /\ Len(<<Lost>>) = 1 /\ <<Lost>>[1] = Lost
        BY RecordFacts, Single
      <3>2. 1 \in 1 .. Len(<<Lost>>)
        BY <3>1
      <3> QED
        BY <1>3, <1>4, <3>1, <3>2, Glue
    <2>4. Len(g) > 0
      BY <1>4
    <2> HIDE DEF f, g
    <2>5. Closed(View', View, Len(g) + 1)
      BY <1>1, <1>3, <1>6, <2>2, <2>3, <2>4, ClosedShape
    <2>6. Len(g) + 1 \in Len(received) + 1 .. Len(View) /\ View[Len(g) + 1] = h
      <3>1. Len(g) >= Len(received)
        BY <1>4
      <3> QED
        BY <1>3, <1>8, <2>2, <3>1
    <2> QED
      BY <2>5, <2>6 DEF h
  <1> QED
    BY <1>9, <1>10

\* A reply goes behind everything.
LEMMA ReplyView ==
    ASSUME TypeOK, out = <<>>, NEW reply \in Seq(Record), out' = reply,
           UNCHANGED <<received, tx, lossPending>>
    PROVE  Longer(View', View, reply)
  <1> DEFINE b == received \o (tx \o Pending)
  <1>1. b \in Seq(Record) /\ View = b \o <<>>
    BY ViewParts
  <1>2. View' = received \o ((tx \o Pending) \o reply)
    BY DEF View, Pending
  <1>3. View' = b \o reply
    <2>1. received \in Seq(Record) /\ tx \o Pending \in Seq(Record)
      BY Parts, Glue
    <2> QED
      BY <1>2, <2>1, Regroup
  <1> HIDE DEF b
  <1>4. View = b
    BY <1>1, NothingMore
  <1> QED
    BY <1>1, <1>3, <1>4, GluedShapes

\* What has been read after the first k records of the line, and what is left.
LEMMA ReadParts ==
    ASSUME TypeOK, NEW k \in 0 .. Len(tx), NEW records, records = received \o Taken(k)
    PROVE  /\ records \in Seq(Record) /\ Len(records) = Len(received) + k
           /\ Len(received) \in Nat
           /\ \A i \in 1 .. Len(received) : records[i] = received[i]
           /\ (Rest(k) \o Pending) \o out \in Seq(Record)
           /\ View = records \o ((Rest(k) \o Pending) \o out)
  <1> DEFINE a == Taken(k)
             b == Rest(k)
  <1>1. a \in Seq(Record) /\ b \in Seq(Record) /\ Len(a) = k
    BY SplitLine
  <1>2. tx = a \o b
    <2>1. tx \in Seq(Record) /\ Len(tx) \in Nat
      BY Parts
    <2>2. 1 \in 1 .. Len(tx) + 1 /\ k \in 1 - 1 .. Len(tx) /\ Len(tx) \in k .. Len(tx)
      BY <2>1
    <2>3. SubSeq(tx, 1, k) \o SubSeq(tx, k + 1, Len(tx)) = SubSeq(tx, 1, Len(tx))
      BY <2>1, <2>2, ConcatAdjacentSubSeq
    <2>4. SubSeq(tx, 1, Len(tx)) = tx
      BY <2>1, SubSeqFull
    <2> QED
      BY <2>3, <2>4 DEF Taken, Rest
  <1> HIDE DEF a, b
  <1>3. received \in Seq(Record) /\ Pending \in Seq(Record) /\ out \in Seq(Record)
    BY Parts
  <1>4. b \o Pending \in Seq(Record) /\ (b \o Pending) \o out \in Seq(Record)
    BY <1>1, <1>3, Glue
  <1>5. (a \o b) \o Pending = a \o (b \o Pending)
    BY <1>1, <1>3, Regroup, Zenon
  <1>6. (a \o (b \o Pending)) \o out = a \o ((b \o Pending) \o out)
    <2> DEFINE u == b \o Pending
    <2>1. a \in Seq(Record) /\ u \in Seq(Record) /\ out \in Seq(Record)
      BY <1>1, <1>3, <1>4
    <2> HIDE DEF u
    <2>2. (a \o u) \o out = a \o (u \o out)
      BY <2>1, Regroup
    <2> QED
      BY <2>2 DEF u
  <1>7. View = received \o (a \o ((b \o Pending) \o out))
    BY <1>2, <1>5, <1>6 DEF View
  <1>8. View = (received \o a) \o ((b \o Pending) \o out)
    <2> DEFINE c == (b \o Pending) \o out
    <2>1. c \in Seq(Record)
      BY <1>4
    <2>2. View = received \o (a \o c)
      BY <1>7
    <2> HIDE DEF c
    <2>3. View = (received \o a) \o c
      <3>1. received \in Seq(Record) /\ a \in Seq(Record)
        BY <1>1, <1>3
      <3>2. (received \o a) \o c = received \o (a \o c)
        BY <2>1, <3>1, Regroup
      <3> QED
        BY <2>2, <3>2, Zenon
    <2> QED
      BY <2>3 DEF c
  <1>9. records = received \o a
    BY DEF a
  <1>10. /\ records \in Seq(Record) /\ Len(records) = Len(received) + k
         /\ Len(received) \in Nat
         /\ \A i \in 1 .. Len(received) : records[i] = received[i]
    <2>1. /\ received \o a \in Seq(Record) /\ Len(received \o a) = Len(received) + Len(a)
          /\ Len(received) \in Nat
          /\ \A i \in 1 .. Len(received) : (received \o a)[i] = received[i]
      BY <1>1, <1>3, Glue
    <2> QED
      BY <1>1, <1>9, <2>1
  <1> QED
    BY <1>4, <1>8, <1>9, <1>10 DEF b

\* Reading changes nothing; ending an exchange drops what was read.
LEMMA ReadView ==
    ASSUME TypeOK, NEW k \in 0 .. Len(tx), NEW records, records = received \o Taken(k),
           tx' = Rest(k), UNCHANGED <<lossPending, out>>
    PROVE  /\ Len(records) <= Len(View)
           /\ \A i \in 1 .. Len(records) : View[i] = records[i]
           /\ received' = records => View' = View
           /\ received' = <<>> => Behind(View', View, Len(records))
  <1> DEFINE z == (Rest(k) \o Pending) \o out
  <1>1. records \in Seq(Record) /\ z \in Seq(Record) /\ View = records \o z
    BY ReadParts
  <1>2. View' = received' \o z
    BY DEF View, Pending
  <1> HIDE DEF z
  <1>3. Len(records) <= Len(View) /\ \A i \in 1 .. Len(records) : View[i] = records[i]
    BY <1>1, Glue
  <1>4. Behind(z, View, Len(records))
    BY <1>1, GluedShapes
  <1>5. received' = <<>> => View' = z
    BY <1>1, <1>2, NothingMore
  <1> QED
    BY <1>1, <1>2, <1>3, <1>4, <1>5

\* A restart cuts the view somewhere behind what was read.
LEMMA RestartView ==
    ASSUME TypeOK, NEW k \in 0 .. Len(tx), tx' = Taken(k), ~lossPending',
           out' = <<Banner, Prompt>>, UNCHANGED received
    PROVE  \E m \in Len(received) .. Len(View) : Reset(View', View, m)
  <1> DEFINE records == received \o Taken(k)
             z == (Rest(k) \o Pending) \o out
             new == <<Banner, Prompt>>
  <1>1. /\ records \in Seq(Record) /\ z \in Seq(Record) /\ View = records \o z
        /\ Len(records) = Len(received) + k /\ Len(received) \in Nat
    BY ReadParts
  <1>2. new \in Seq(Record) /\ Len(new) = 2 /\ new[1] = Banner /\ new[2] = Prompt
    BY RecordFacts, Pair
  <1>3. View' = records \o new
    <2>1. Taken(k) \in Seq(Record) /\ received \in Seq(Record)
      BY SplitLine, Parts
    <2>2. View' = received \o ((Taken(k) \o <<>>) \o new)
      BY DEF View, Pending
    <2>3. Taken(k) \o <<>> = Taken(k)
      BY <2>1, NothingMore
    <2>4. (received \o Taken(k)) \o new = received \o (Taken(k) \o new)
      <3>1. new \in Seq(Record)
        BY <1>2
      <3> HIDE DEF new
      <3> QED
        BY <2>1, <3>1, Regroup
    <2> QED
      BY <2>2, <2>3, <2>4, Zenon
  <1> HIDE DEF records, z, new
  <1>4. /\ Len(View) = Len(records) + Len(z) /\ Len(z) \in Nat /\ Len(records) \in Nat
        /\ \A i \in 1 .. Len(records) : View[i] = records[i]
    BY <1>1, Glue
  <1>5. /\ Len(View') = Len(records) + 2
        /\ \A i \in 1 .. Len(records) : View'[i] = records[i]
        /\ \A i \in 1 .. 2 : View'[Len(records) + i] = new[i]
    <2>1. /\ Len(records \o new) = Len(records) + Len(new)
          /\ \A i \in 1 .. Len(records) : (records \o new)[i] = records[i]
          /\ \A i \in 1 .. Len(new) : (records \o new)[Len(records) + i] = new[i]
      BY <1>1, <1>2, Glue
    <2> QED
      BY <1>2, <1>3, <2>1
  <1>6. View'[Len(records) + 1] = Banner /\ View'[Len(records) + 2] = Prompt
    BY <1>2, <1>5
  <1>7. Reset(View', View, Len(records))
    BY <1>4, <1>5, <1>6 DEF Reset
  <1>8. Len(records) \in Len(received) .. Len(View)
    BY <1>1, <1>4, SplitLine
  <1> QED
    BY <1>7, <1>8

-----------------------------------------------------------------------------
(* What a step does                                                        *)

\* The line that is taken, and the reply.
LEMMA TakeLineFacts ==
    ASSUME TypeOK, TakeLine
    PROVE  \E line \in Lines, reply \in Seq(Record) :
             /\ rx # <<>> /\ out = <<>> /\ line = rx[1] /\ rx' = Tail(rx) /\ out' = reply
             /\ reply \in {Refusal, Reply(line)} /\ (skipping => reply = Refusal)
             /\ Ours(line) => /\ taken' = [of |-> line.of, boot |-> boot]
                              /\ (line.kind = "DISCARD" => home' = boot)
                              /\ (line.kind # "DISCARD" => home' = home)
             /\ ~Ours(line) => taken' = taken /\ home' = home
             /\ skipping' = FALSE
             /\ UNCHANGED <<phase, synchronized, attempted, calls, received, answer,
                            lossPending, tx, boot>>
  <1> DEFINE line == Head(rx)
  <1>1. rx # <<>> /\ out = <<>>
    BY DEF TakeLine
  <1>2. line \in Lines /\ line = rx[1]
    BY <1>1, RxTail
  <1>3. /\ rx' = Tail(rx)
        /\ out' \in {Refusal} \cup (IF skipping THEN {} ELSE {Reply(line)})
        /\ taken' = IF Ours(line) THEN [of |-> line.of, boot |-> boot] ELSE taken
        /\ home' = IF Ours(line) /\ line.kind = "DISCARD" THEN boot ELSE home
        /\ skipping' = FALSE
        /\ UNCHANGED <<host, lossPending, tx, boot>>
    BY Zenon DEF TakeLine, Ours
  <1> HIDE DEF line
  <1>4. out' \in {Refusal, Reply(line)} /\ (skipping => out' = Refusal)
    BY <1>3, Zenon
  <1>5. out' \in Seq(Record)
    BY <1>2, <1>4, ReplyFacts
  <1>6. UNCHANGED <<phase, synchronized, attempted, calls, received, answer,
                    lossPending, tx, boot>>
    BY <1>3 DEF host
  <1>7. /\ Ours(line) => /\ taken' = [of |-> line.of, boot |-> boot]
                         /\ (line.kind = "DISCARD" => home' = boot)
                         /\ (line.kind # "DISCARD" => home' = home)
        /\ ~Ours(line) => taken' = taken /\ home' = home
    BY <1>3, Zenon
  <1> QED
    BY <1>1, <1>2, <1>3, <1>4, <1>5, <1>6, <1>7, Zenon

\* How a read ends: with a loss, a longer wait, a marker or an answer.
LEMMA ReadFacts ==
    ASSUME TypeOK, Read
    PROVE  \E k \in 1 .. Len(tx), records \in Seq(Record) :
             /\ phase \in {"REPLY", "MARKER"}
             /\ records = received \o Taken(k) /\ tx' = Rest(k)
             /\ UNCHANGED <<skipping, out, lossPending, boot, taken, home>>
             /\ \/ Lose /\ UNCHANGED <<calls, rx>>
                \/ ~Broken(records) /\ Wait(records)
                \/ /\ ~Broken(records) /\ records[Len(records)] = Prompt
                   /\ phase = "REPLY" /\ WriteMarker(records)
                \/ /\ ~Broken(records) /\ records[Len(records)] = Prompt
                   /\ phase = "MARKER" /\ Echoes(records, calls) /\ Framed(records)
                   /\ Accept(records)
  <1>1. PICK k \in 1 .. Len(tx) : tx' = Rest(k) /\ Judge(received \o Taken(k))
    BY DEF Read
  <1>2. phase \in {"REPLY", "MARKER"} /\ UNCHANGED <<skipping, out, lossPending, boot, taken, home>>
    BY DEF Read
  <1> DEFINE records == received \o Taken(k)
  <1>3. records \in Seq(Record)
    <2>1. k \in 0 .. Len(tx)
      BY <1>1, Parts
    <2> QED
      BY <2>1, ReadParts
  <1> HIDE DEF records
  <1>4. Judge(records)
    BY <1>1 DEF records
  <1>5. \/ Lose /\ UNCHANGED <<calls, rx>>
        \/ ~Broken(records) /\ Wait(records)
        \/ /\ ~Broken(records) /\ records[Len(records)] = Prompt
           /\ phase = "REPLY" /\ WriteMarker(records)
        \/ /\ ~Broken(records) /\ records[Len(records)] = Prompt
           /\ phase = "MARKER" /\ Echoes(records, calls) /\ Framed(records)
           /\ Accept(records)
    BY <1>2, <1>4, Zenon DEF Judge
  <1> QED
    BY <1>1, <1>2, <1>3, <1>5, Zenon DEF records

\* A send drops the start of the line and may hand over a command.
LEMMA SendFacts ==
    ASSUME NEW kind, Send(kind)
    PROVE  \E k \in 0 .. Len(tx) :
             /\ phase = "IDLE" /\ synchronized' = FALSE /\ received' = <<>> /\ tx' = Rest(k)
             /\ UNCHANGED <<answer, skipping, out, lossPending, boot, taken, home>>
             /\ \/ /\ OnlyPrompts(Taken(k)) /\ calls' = calls + 1
                   /\ rx' = Append(rx, Line(kind, calls + 1)) /\ phase' \in {"REPLY", "IDLE"}
                \/ UNCHANGED <<phase, calls, rx>>
  BY Zenon DEF Send

-----------------------------------------------------------------------------
(* Type correctness of the steps                                           *)

\* The parts of the type that most steps leave alone.
FirmwareOK ==
    /\ rx \in Seq(Lines) /\ skipping \in BOOLEAN /\ out \in Seq(Record)
    /\ lossPending \in BOOLEAN /\ boot \in Nat \ {0}
    /\ taken \in [of : Nat, boot : Nat] /\ home \in Nat
HostTypeOK ==
    /\ phase \in {"BOOT", "IDLE", "REPLY", "MARKER"}
    /\ synchronized \in BOOLEAN /\ attempted \in BOOLEAN /\ calls \in Nat
    /\ received \in Seq(Record) /\ answer \in [of : Nat, text : Seq(Record)]

LEMMA TypeParts == TypeOK <=> HostTypeOK /\ FirmwareOK /\ tx \in Seq(Record)
  BY DEF TypeOK, HostTypeOK, FirmwareOK

LEMMA HostTypeKept ==
    ASSUME TypeOK, UNCHANGED host
    PROVE  HostTypeOK'
  BY DEF TypeOK, HostTypeOK, host

LEMMA FirmwareTypeStep ==
    ASSUME TypeOK, TakeLine \/ LoseLine \/ PrintRecord \/ MarkLoss \/ Restart
    PROVE  TypeOK'
  <1>0. /\ rx \in Seq(Lines) /\ skipping \in BOOLEAN /\ out \in Seq(Record)
        /\ lossPending \in BOOLEAN /\ boot \in Nat \ {0} /\ tx \in Seq(Record)
        /\ taken \in [of : Nat, boot : Nat] /\ home \in Nat
    BY DEF TypeOK
  <1>1. HostTypeOK'
    <2>1. UNCHANGED host
      BY DEF TakeLine, LoseLine, PrintRecord, MarkLoss, Restart
    <2> QED
      BY <2>1, HostTypeKept
  <1>2. CASE TakeLine
    <2>1. PICK line \in Lines, reply \in Seq(Record) :
             /\ rx # <<>> /\ out = <<>> /\ line = rx[1] /\ rx' = Tail(rx) /\ out' = reply
             /\ reply \in {Refusal, Reply(line)} /\ (skipping => reply = Refusal)
             /\ Ours(line) => /\ taken' = [of |-> line.of, boot |-> boot]
                              /\ (line.kind = "DISCARD" => home' = boot)
                              /\ (line.kind # "DISCARD" => home' = home)
             /\ ~Ours(line) => taken' = taken /\ home' = home
             /\ skipping' = FALSE
             /\ UNCHANGED <<phase, synchronized, attempted, calls, received, answer,
                            lossPending, tx, boot>>
      BY <1>2, TakeLineFacts
    <2>2. rx' \in Seq(Lines)
      BY <2>1, RxTail
    <2>3. taken' \in [of : Nat, boot : Nat] /\ home' \in Nat
      <3>1. line.of \in Nat
        BY LineFacts
      <3>2. CASE Ours(line)
        BY <1>0, <2>1, <3>1, <3>2
      <3>3. CASE ~Ours(line)
        BY <1>0, <2>1, <3>3
      <3> QED
        BY <3>2, <3>3
    <2> QED
      BY <1>0, <1>1, <2>1, <2>2, <2>3, Zenon DEF TypeOK, HostTypeOK
  <1>3. CASE LoseLine
    <2>1. /\ rx # <<>> /\ rx' = Tail(rx) /\ skipping' = TRUE
          /\ UNCHANGED <<out, lossPending, boot, taken, home, tx>>
      BY <1>3 DEF LoseLine
    <2>2. rx' \in Seq(Lines)
      BY <2>1, RxTail
    <2> QED
      BY <1>0, <1>1, <2>1, <2>2, Zenon DEF TypeOK, HostTypeOK
  <1>4. CASE PrintRecord
    <2>1. out # <<>> /\ out' = Tail(out) /\ UNCHANGED <<rx, skipping, boot, taken, home>>
      BY <1>4 DEF PrintRecord
    <2>2. out' \in Seq(Record) /\ Head(out) \in Record
      BY <2>1, OutFacts
    <2>3. lossPending' \in BOOLEAN
      BY <1>0, <1>4, Zenon DEF PrintRecord
    <2>4. tx' \in Seq(Record)
      <3>1. tx' = tx \/ tx' = Append(tx, Head(out))
        BY <1>4, Zenon DEF PrintRecord
      <3>2. Append(tx, Head(out)) \in Seq(Record)
        BY <1>0, <2>2, AppendProperties
      <3> QED
        BY <1>0, <3>1, <3>2
    <2> QED
      BY <1>0, <1>1, <2>1, <2>2, <2>3, <2>4, Zenon DEF TypeOK, HostTypeOK
  <1>5. CASE MarkLoss
    <2>1. /\ lossPending' = FALSE /\ tx' = Append(tx, Lost)
          /\ UNCHANGED <<rx, skipping, out, boot, taken, home>>
      BY <1>5 DEF MarkLoss
    <2>2. tx' \in Seq(Record)
      BY <1>0, <2>1, RecordFacts, AppendProperties
    <2> QED
      BY <1>0, <1>1, <2>1, <2>2, Zenon DEF TypeOK, HostTypeOK
  <1>6. CASE Restart
    <2>1. /\ boot' = boot + 1 /\ rx' = <<>> /\ skipping' = FALSE
          /\ out' = <<Banner, Prompt>> /\ lossPending' = FALSE /\ UNCHANGED <<taken, home>>
      BY <1>6 DEF Restart
    <2>2. PICK k \in 0 .. Len(tx) : tx' = Taken(k)
      BY <1>6 DEF Restart
    <2>3. tx' \in Seq(Record)
      BY <2>2, SplitLine
    <2>4. out' \in Seq(Record)
      BY <2>1, RecordFacts, Pair
    <2>5. rx' \in Seq(Lines) /\ boot' \in Nat \ {0}
      BY <1>0, <2>1
    <2> QED
      BY <1>0, <1>1, <2>1, <2>3, <2>4, <2>5, Zenon DEF TypeOK, HostTypeOK
  <1> QED
    BY <1>2, <1>3, <1>4, <1>5, <1>6

LEMMA RunnerTypeStep ==
    ASSUME TypeOK, ReadUntilIdle \/ Synchronize \/ Command \/ Read \/ GiveUp
    PROVE  TypeOK'
  <1>0. /\ rx \in Seq(Lines) /\ skipping \in BOOLEAN /\ out \in Seq(Record)
        /\ lossPending \in BOOLEAN /\ boot \in Nat \ {0} /\ tx \in Seq(Record)
        /\ taken \in [of : Nat, boot : Nat] /\ home \in Nat
        /\ phase \in {"BOOT", "IDLE", "REPLY", "MARKER"}
        /\ synchronized \in BOOLEAN /\ attempted \in BOOLEAN /\ calls \in Nat
        /\ received \in Seq(Record) /\ answer \in [of : Nat, text : Seq(Record)]
        /\ <<>> \in Seq(Record)
    BY DEF TypeOK
  <1>1. CASE ReadUntilIdle
    <2>1. PICK k \in 0 .. Len(tx) : tx' = Rest(k)
      BY <1>1 DEF ReadUntilIdle
    <2>2. tx' \in Seq(Record)
      BY <2>1, SplitLine
    <2>3. /\ phase' = "IDLE"
          /\ UNCHANGED <<synchronized, attempted, calls, received, answer, rx, skipping, out,
                         lossPending, boot, taken, home>>
      BY <1>1 DEF ReadUntilIdle, firmware
    <2> QED
      BY <1>0, <2>2, <2>3, Zenon DEF TypeOK
  <1>2. ASSUME NEW kind \in {"COMMAND", "DISCARD"}, Send(kind), attempted' \in BOOLEAN
        PROVE  TypeOK'
    <2>1. PICK k \in 0 .. Len(tx) :
             /\ phase = "IDLE" /\ synchronized' = FALSE /\ received' = <<>> /\ tx' = Rest(k)
             /\ UNCHANGED <<answer, skipping, out, lossPending, boot, taken, home>>
             /\ \/ /\ OnlyPrompts(Taken(k)) /\ calls' = calls + 1
                   /\ rx' = Append(rx, Line(kind, calls + 1)) /\ phase' \in {"REPLY", "IDLE"}
                \/ UNCHANGED <<phase, calls, rx>>
      BY <1>2, SendFacts
    <2>2. tx' \in Seq(Record)
      BY <2>1, SplitLine
    <2>3. Append(rx, Line(kind, calls + 1)) \in Seq(Lines) /\ calls + 1 \in Nat
      BY <1>0, LineFacts, RxAppend
    <2>4. rx' \in Seq(Lines) /\ calls' \in Nat
      BY <1>0, <2>1, <2>3, Zenon
    <2>5. phase' \in {"BOOT", "IDLE", "REPLY", "MARKER"}
      BY <1>0, <2>1
    <2> QED
      BY <1>0, <1>2, <2>1, <2>2, <2>4, <2>5, Zenon DEF TypeOK
  <1>3. CASE Synchronize
    BY <1>2, <1>3, Zenon DEF Synchronize
  <1>4. CASE Command
    <2>1. Send("COMMAND") /\ attempted' = attempted
      BY <1>4 DEF Command
    <2> QED
      BY <1>0, <1>2, <2>1, Zenon
  <1>5. ASSUME NEW k \in 0 .. Len(tx), tx' = Rest(k), Lose, UNCHANGED <<calls, firmware>>
        PROVE  TypeOK'
    <2>1. tx' \in Seq(Record)
      BY <1>5, SplitLine
    <2>2. /\ phase' = "IDLE" /\ received' = <<>>
          /\ UNCHANGED <<synchronized, attempted, answer, calls, rx, skipping, out,
                         lossPending, boot, taken, home>>
      BY <1>5 DEF Lose, firmware
    <2> QED
      BY <1>0, <2>1, <2>2, Zenon DEF TypeOK
  <1>6. CASE GiveUp
    BY <1>5, <1>6 DEF GiveUp
  <1>7. CASE Read
    <2>1. PICK k \in 1 .. Len(tx), records \in Seq(Record) :
             /\ phase \in {"REPLY", "MARKER"}
             /\ records = received \o Taken(k) /\ tx' = Rest(k)
             /\ UNCHANGED <<skipping, out, lossPending, boot, taken, home>>
             /\ \/ Lose /\ UNCHANGED <<calls, rx>>
                \/ ~Broken(records) /\ Wait(records)
                \/ /\ ~Broken(records) /\ records[Len(records)] = Prompt
                   /\ phase = "REPLY" /\ WriteMarker(records)
                \/ /\ ~Broken(records) /\ records[Len(records)] = Prompt
                   /\ phase = "MARKER" /\ Echoes(records, calls) /\ Framed(records)
                   /\ Accept(records)
      BY <1>7, ReadFacts
    <2>2. k \in 0 .. Len(tx)
      BY <1>0
    <2>3. tx' \in Seq(Record)
      BY <2>1, <2>2, SplitLine
    <2>4. CASE Lose /\ UNCHANGED <<calls, rx>>
      BY <1>5, <2>1, <2>2, <2>4 DEF firmware
    <2>5. CASE Wait(records)
      BY <1>0, <2>1, <2>3, <2>5, Zenon DEF Wait, TypeOK
    <2>6. CASE WriteMarker(records)
      <3>1. Append(rx, Line("HILMARK", calls)) \in Seq(Lines)
        BY <1>0, LineFacts, RxAppend
      <3>2. phase' \in {"MARKER", "IDLE"} /\ (received' = <<>> \/ received' = records)
        BY <2>6, Zenon DEF WriteMarker
      <3>3. phase' \in {"BOOT", "IDLE", "REPLY", "MARKER"} /\ received' \in Seq(Record)
        BY <1>0, <3>2
      <3> QED
        BY <1>0, <2>1, <2>3, <2>6, <3>1, <3>3, Zenon DEF WriteMarker, TypeOK
    <2>7. CASE Accept(records)
      <3>1. /\ phase' = "IDLE" /\ received' = <<>> /\ UNCHANGED <<attempted, calls, rx>>
            /\ \/ synchronized' = TRUE /\ answer' = [of |-> calls, text |-> Text(records)]
               \/ UNCHANGED <<synchronized, answer>>
        BY <2>7, Zenon DEF Accept
      <3>2. Text(records) \in Seq(Record)
        <4>1. \A i \in 1 .. Len(records) - 2 : records[i] \in Record
          OBVIOUS
        <4> QED
          BY <4>1, SubSeqProperties DEF Text
      <3>3. [of |-> calls, text |-> Text(records)] \in [of : Nat, text : Seq(Record)]
        BY <1>0, <3>2
      <3>4. synchronized' \in BOOLEAN /\ answer' \in [of : Nat, text : Seq(Record)]
        BY <1>0, <3>1, <3>3, Zenon
      <3> QED
        BY <1>0, <2>1, <2>3, <3>1, <3>4, Zenon DEF TypeOK
    <2> QED
      BY <2>1, <2>4, <2>5, <2>6, <2>7
  <1> QED
    BY <1>1, <1>3, <1>4, <1>6, <1>7

LEMMA TypeStep ==
    ASSUME TypeOK, [Next]_vars
    PROVE  TypeOK'
  <1>1. CASE UNCHANGED vars
    BY <1>1 DEF TypeOK, vars, host, firmware
  <1> QED
    BY <1>1, FirmwareTypeStep, RunnerTypeStep DEF Next

-----------------------------------------------------------------------------
(* The invariant: printing and marking                                     *)

LEMMA InvInit == Init => Inv
  <1> SUFFICES ASSUME Init PROVE Inv
    OBVIOUS
  <1>1. TypeOK
    BY TypeInit
  <1>2. /\ phase = "BOOT" /\ synchronized = FALSE /\ attempted = FALSE /\ calls = 0
        /\ received = <<>> /\ answer.of = 0 /\ taken.of = 0 /\ home = 0 /\ boot = 1
        /\ ~Live
    BY DEF Init, Live
  <1>3. HostOK
    BY <1>2 DEF HostOK
  <1>4. out = <<>> \/ out = <<Prompt>> \/ out = <<Data(0), Prompt>> \/ out = <<Banner, Prompt>>
    BY DEF Init
  <1>5. OutOK
    <2>1. /\ Len(<<Data(0), Prompt>>) = 2 /\ Len(<<Banner, Prompt>>) = 2
          /\ <<Data(0), Prompt>>[1] = Data(0) /\ <<Data(0), Prompt>>[2] = Prompt
          /\ <<Banner, Prompt>>[1] = Banner /\ <<Banner, Prompt>>[2] = Prompt
      BY RecordFacts, Pair
    <2>2. Data(0).kind = "DATA" /\ Banner.kind = "BANNER"
      BY RecordFacts
    <2> QED
      BY <1>4, <2>1, <2>2 DEF OutOK
  <1>6. ASSUME NEW i \in 1 .. Len(View), View[i].kind = "MARK" PROVE FALSE
    <2>1. \A r \in {Lost, Prompt, Data(0), Banner} : r.kind # "MARK"
      BY RecordFacts
    <2>2. \A s \in Seq({Lost, Prompt, Data(0), Banner}) :
            \A j \in 1 .. Len(s) : s[j].kind # "MARK"
      BY <2>1
    <2> DEFINE R == {Lost, Prompt, Data(0), Banner}
    <2>3. out \in Seq(R) /\ tx \in Seq(R) /\ Pending \in Seq(R) /\ received \in Seq(R)
      <3>1. \A r \in R : <<r>> \in Seq(R)
        OBVIOUS
      <3>2. \A r, q \in R : <<r, q>> \in Seq(R)
        OBVIOUS
      <3>3. <<>> \in Seq(R)
        OBVIOUS
      <3>4. Lost \in R /\ Prompt \in R /\ Data(0) \in R /\ Banner \in R
        OBVIOUS
      <3> HIDE DEF R
      <3>5. tx = <<>> \/ tx = <<Prompt>> \/ tx = <<Data(0)>>
        BY DEF Init
      <3>6. Pending = <<>> \/ Pending = <<Lost>>
        BY DEF Pending
      <3> QED
        BY <1>2, <1>4, <3>1, <3>2, <3>3, <3>4, <3>5, <3>6, Zenon
    <2> HIDE DEF R
    <2>4. View \in Seq(R)
      <3>1. tx \o Pending \in Seq(R)
        BY <2>3, ConcatProperties
      <3>2. (tx \o Pending) \o out \in Seq(R)
        BY <2>3, <3>1, ConcatProperties
      <3> QED
        BY <2>3, <3>2, ConcatProperties DEF View
    <2> QED
      BY <1>6, <2>2, <2>4 DEF R
  <1>7. NumbersOK
    <2>1. \A j \in 1 .. Len(rx) : rx[j].of = 0
      <3>1. rx = <<>> \/ rx = <<Line("COMMAND", 0)>> \/ rx = <<Line("HILMARK", 0)>>
        BY DEF Init
      <3>2. Line("COMMAND", 0).of = 0 /\ Line("HILMARK", 0).of = 0
        BY LineFacts
      <3> QED
        BY <3>1, <3>2
    <2> QED
      BY <1>2, <1>6, <2>1 DEF NumbersOK, Ours
  <1>8. RxOK /\ FormOK /\ MarkOK
    BY <1>2 DEF RxOK, FormOK, MarkOK
  <1>9. BoundaryOK
    BY <1>2 DEF BoundaryOK
  <1>10. AnswerIsWhole
    BY DEF Init, AnswerIsWhole
  <1> QED
    BY <1>1, <1>3, <1>5, <1>7, <1>8, <1>9, <1>10 DEF Inv

\* A reply of which one record is printed is still the end of a reply.
LEMMA OutTail ==
    ASSUME TypeOK, OutOK, out # <<>>, out' = Tail(out)
    PROVE  OutOK'
  <1>1. Len(out) = 1 \/ (Len(out) = 2 /\ out[2] = Prompt)
    BY DEF OutOK
  <1>2. out' \in Seq(Record) /\ Len(out') = Len(out) - 1
        /\ \A i \in 1 .. Len(out) - 1 : out'[i] = out[i + 1]
    BY OutFacts
  <1>3. CASE Len(out) = 1
    <2>1. out' = <<>>
      BY <1>2, <1>3
    <2> QED
      BY <2>1 DEF OutOK
  <1>4. CASE Len(out) = 2 /\ out[2] = Prompt
    <2>1. Len(out') = 1 /\ out'[1] = Prompt
      BY <1>2, <1>4
    <2>2. out' = <<Prompt>>
      <3>1. <<Prompt>> \in Seq(Record) /\ Len(<<Prompt>>) = 1 /\ <<Prompt>>[1] = Prompt
        BY RecordFacts, Single
      <3>2. ASSUME NEW i \in 1 .. Len(out') PROVE out'[i] = <<Prompt>>[i]
        <4>1. i = 1
          BY <2>1
        <4>2. out'[1] = <<Prompt>>[1]
          BY <2>1, <3>1, Zenon
        <4> QED
          BY <4>1, <4>2, Zenon
      <3> QED
        BY <1>2, <2>1, <3>1, <3>2, SeqEqual
    <2> QED
      BY <2>2 DEF OutOK
  <1> QED
    BY <1>1, <1>3, <1>4

\* A step that leaves the view, the host and the firmware's input alone.
LEMMA SameView ==
    ASSUME Inv, TypeOK', OutOK', View' = View,
           UNCHANGED <<host, rx, skipping, boot, taken, home>>
    PROVE  Inv'
  <1>1. UNCHANGED <<phase, synchronized, attempted, calls, received, answer>>
    BY DEF host
  <1>2. HostOK' /\ NumbersOK' /\ RxOK'
    BY <1>1 DEF Inv, HostOK, NumbersOK, RxOK, Live, Front, Unbroken, Request, Marker
  <1>3. FormOK' /\ MarkOK' /\ BoundaryOK'
    BY <1>1 DEF Inv, FormOK, MarkOK, BoundaryOK, Live, Front, Shown
  <1>4. AnswerIsWhole'
    BY <1>1 DEF Inv, AnswerIsWhole
  <1> QED
    BY <1>2, <1>3, <1>4 DEF Inv

\* One record of the view becomes a loss.
LEMMA ReplacedStep ==
    ASSUME Inv, TypeOK', OutOK', UNCHANGED <<host, rx, skipping, boot, taken, home>>,
           NEW e \in Len(received) + 1 .. Len(View), View[e].kind # "BANNER",
           Replaced(View', View, e)
    PROVE  Inv'
  <1>0. UNCHANGED <<phase, synchronized, attempted, calls, received, answer>>
    BY DEF host
  <1>1. /\ Len(View') = Len(View) /\ View'[e] = Lost
        /\ \A i \in 1 .. Len(View) : i # e => View'[i] = View[i]
    BY DEF Replaced
  <1>2. Len(View) \in Nat /\ Len(received) \in Nat /\ Len(received) <= Len(View)
    BY ViewParts DEF Inv
  <1>3. Lost.kind = "LOST" /\ Prompt.kind = "PROMPT" /\ Banner.kind = "BANNER"
        /\ Mark(calls).kind = "MARK"
    BY RecordFacts
  <1>4. \A i \in 1 .. Len(View) : Front(View', i) <=> Front(View, i)
    BY <1>1, <1>2, <1>3 DEF Front
  <1>5. \A i \in 1 .. Len(View) : View'[i].kind = "MARK" => View'[i] = View[i]
    BY <1>1, <1>3
  <1>6. HostOK'
    <2>1. Front(View, Len(received)) => Front(View', Len(received))
      BY <1>1, <1>2, <1>3 DEF Front
    <2> QED
      BY <1>0, <2>1 DEF Inv, HostOK, Live
  <1>7. NumbersOK'
    <2>1. \A i \in 1 .. Len(View') : View'[i].kind = "MARK" => View'[i].of <= calls'
      BY <1>0, <1>1, <1>5 DEF Inv, NumbersOK
    <2>2. phase = "REPLY" => \A i \in 1 .. Len(View') : View'[i] # Mark(calls)
      BY <1>1, <1>3, <1>5 DEF Inv, NumbersOK
    <2> QED
      BY <1>0, <2>1, <2>2 DEF Inv, NumbersOK, Ours, Request, Marker
  <1>8. RxOK'
    <2>1. Unbroken' => Unbroken
      BY <1>1, <1>2, <1>4 DEF Unbroken, Front
    <2> QED
      BY <1>0, <1>1, <2>1 DEF Inv, RxOK, Live, Request, Marker
  <1>9. FormOK'
    BY <1>0, <1>1, <1>4 DEF Inv, FormOK, Live, Shown
  <1>10. MarkOK'
    <2> SUFFICES ASSUME NEW i \in 1 .. Len(View), Live, Front(View', i), View'[i] = Mark(calls)
                 PROVE  /\ taken = [of |-> calls, boot |-> home] /\ rx = <<>>
                        /\ calls > 1 => i = 3
                        /\ i + 1 \in 1 .. Len(View) /\ View'[i + 1] \in {Prompt, Lost, Banner}
                        /\ View'[i + 1] = Prompt =>
                             \/ Len(View) = i + 1 /\ boot = home
                             \/ i + 2 \in 1 .. Len(View) /\ View'[i + 2] = Banner /\ boot # home
      BY <1>0, <1>1 DEF MarkOK, Live
    <2>1. View[i] = Mark(calls) /\ Front(View, i)
      BY <1>3, <1>4, <1>5
    <2>2. /\ taken = [of |-> calls, boot |-> home] /\ rx = <<>>
          /\ calls > 1 => i = 3
          /\ i + 1 \in 1 .. Len(View) /\ View[i + 1] \in {Prompt, Lost, Banner}
          /\ View[i + 1] = Prompt =>
               \/ Len(View) = i + 1 /\ boot = home
               \/ i + 2 \in 1 .. Len(View) /\ View[i + 2] = Banner /\ boot # home
      BY <2>1 DEF Inv, MarkOK
    <2> QED
      BY <1>1, <1>3, <2>2
  <1>11. BoundaryOK'
    BY <1>0, <1>1, <1>3 DEF Inv, BoundaryOK
  <1>12. AnswerIsWhole'
    BY <1>0 DEF Inv, AnswerIsWhole
  <1> QED
    BY <1>6, <1>7, <1>8, <1>9, <1>10, <1>11, <1>12 DEF Inv

\* One record of the view is gone, behind a loss.
LEMMA ClosedStep ==
    ASSUME Inv, TypeOK', OutOK', UNCHANGED <<host, rx, skipping, boot, taken, home>>,
           NEW e \in Len(received) + 1 .. Len(View), View[e].kind # "BANNER",
           Closed(View', View, e)
    PROVE  Inv'
  <1>0. UNCHANGED <<phase, synchronized, attempted, calls, received, answer>>
    BY DEF host
  <1>1. /\ Len(View') = Len(View) - 1 /\ e > 1 /\ View[e - 1] = Lost
        /\ \A i \in 1 .. Len(View') : i < e => View'[i] = View[i]
        /\ \A i \in 1 .. Len(View') : i >= e => View'[i] = View[i + 1]
    BY DEF Closed
  <1>2. Len(View) \in Nat /\ Len(received) \in Nat /\ Len(received) <= Len(View)
        /\ Len(View') \in Nat
    BY <1>1, ViewParts DEF Inv
  <1>3. Lost.kind = "LOST" /\ Prompt.kind = "PROMPT" /\ Banner.kind = "BANNER"
        /\ Mark(calls).kind = "MARK"
    BY RecordFacts
  <1>4. \A i \in 1 .. Len(View') : i < e /\ Front(View', i) => Front(View, i)
    BY <1>1, <1>2 DEF Front
  <1>5. ASSUME NEW i \in 1 .. Len(View'), i >= e, Front(View', i)
        PROVE  Front(View, i + 1)
    <2> SUFFICES ASSUME NEW j \in 1 .. i + 1 PROVE View[j].kind # "BANNER"
      BY DEF Front
    <2>1. CASE j < e
      BY <1>1, <1>2, <1>5, <2>1 DEF Front
    <2>2. CASE j = e
      BY <2>2
    <2>3. CASE j > e
      <3>1. j - 1 \in 1 .. i /\ j - 1 \in 1 .. Len(View') /\ j - 1 >= e /\ (j - 1) + 1 = j
        BY <1>2, <1>5, <2>3
      <3>2. View'[j - 1] = View[(j - 1) + 1]
        BY <1>1, <3>1
      <3> QED
        BY <1>5, <3>1, <3>2 DEF Front
    <2> QED
      BY <2>1, <2>2, <2>3
  <1>6. HostOK'
    <2>1. Front(View, Len(received)) => Front(View', Len(received))
      BY <1>1, <1>2 DEF Front
    <2> QED
      BY <1>0, <2>1 DEF Inv, HostOK, Live
  <1>7. NumbersOK'
    <2>1. \A i \in 1 .. Len(View') : \E j \in 1 .. Len(View) : View'[i] = View[j]
      <3> TAKE i \in 1 .. Len(View')
      <3>1. CASE i < e
        BY <1>1, <1>2, <3>1
      <3>2. CASE i >= e
        <4>1. i + 1 \in 1 .. Len(View)
          BY <1>1, <1>2
        <4> QED
          BY <1>1, <3>2, <4>1
      <3> QED
        BY <1>2, <3>1, <3>2
    <2>2. \A i \in 1 .. Len(View') : View'[i].kind = "MARK" => View'[i].of <= calls
      BY <2>1 DEF Inv, NumbersOK
    <2>3. phase = "REPLY" => \A i \in 1 .. Len(View') : View'[i] # Mark(calls)
      BY <2>1 DEF Inv, NumbersOK
    <2> QED
      BY <1>0, <2>2, <2>3 DEF Inv, NumbersOK, Ours, Request, Marker
  <1>8. FormOK'
    <2>1. ASSUME Live, calls > 1, phase = "REPLY", NEW i \in 1 .. Len(View'), Front(View', i)
          PROVE  /\ i <= 2
                 /\ i = 1 => View'[i] \in Shown
                 /\ i = 2 => View'[i] \in {Prompt, Lost}
      <3>1. ~(i >= e)
        <4> SUFFICES ASSUME i >= e PROVE FALSE
          OBVIOUS
        <4>1. i + 1 \in 1 .. Len(View) /\ Front(View, i + 1)
          BY <1>1, <1>2, <1>5, <2>1
        <4>2. i + 1 <= 2
          BY <2>1, <4>1 DEF Inv, FormOK
        <4> QED
          BY <1>1, <1>2, <4>2
      <3>2. i < e /\ i \in 1 .. Len(View) /\ View'[i] = View[i] /\ Front(View, i)
        BY <1>1, <1>2, <1>4, <2>1, <3>1
      <3> QED
        BY <2>1, <3>2 DEF Inv, FormOK
    <2> QED
      BY <1>0, <2>1 DEF Inv, FormOK, Live, Shown
  <1>9. RxOK'
    <2>1. ASSUME Unbroken' PROVE Unbroken
      <3>1. CASE e = Len(View)
        <4> SUFFICES ASSUME NEW j \in 1 .. Len(View) PROVE View[j].kind # "BANNER"
          BY DEF Unbroken, Front
        <4>1. CASE j = e
          BY <4>1
        <4>2. CASE j # e
          BY <1>1, <1>2, <2>1, <3>1, <4>2 DEF Unbroken, Front
        <4> QED
          BY <4>1, <4>2
      <3>2. CASE e < Len(View)
        <4>1. Len(View') \in 1 .. Len(View') /\ Len(View') >= e /\ Len(View') + 1 = Len(View)
          BY <1>1, <1>2, <3>2
        <4>2. Front(View, Len(View') + 1)
          BY <1>5, <2>1, <4>1 DEF Unbroken
        <4> QED
          BY <4>1, <4>2 DEF Unbroken
      <3> QED
        BY <1>2, <3>1, <3>2
    <2>2. Live /\ calls > 1 /\ phase = "MARKER" => Len(View) # 2
      BY <1>2 DEF Inv, FormOK
    <2>3. Len(View) # 0
      BY <1>2
    <2>4. Live /\ Unbroken' /\ calls > 1 =>
            (phase = "REPLY" => Len(rx) = 0) /\ (phase = "MARKER" => Len(rx) = 0)
      BY <2>1, <2>2, <2>3 DEF Inv, RxOK
    <2> QED
      BY <1>0, <2>1, <2>4 DEF Inv, RxOK, Live, Request, Marker
  <1>10. MarkOK'
    <2> SUFFICES ASSUME NEW i \in 1 .. Len(View'), Live, Front(View', i), View'[i] = Mark(calls)
                 PROVE  /\ taken = [of |-> calls, boot |-> home] /\ rx = <<>>
                        /\ calls > 1 => i = 3
                        /\ i + 1 \in 1 .. Len(View') /\ View'[i + 1] \in {Prompt, Lost, Banner}
                        /\ View'[i + 1] = Prompt =>
                             \/ Len(View') = i + 1 /\ boot = home
                             \/ i + 2 \in 1 .. Len(View') /\ View'[i + 2] = Banner /\ boot # home
      BY <1>0 DEF MarkOK, Live
    <2>0. ASSUME NEW j \in 1 .. Len(View), View[j] = Mark(calls), Front(View, j)
          PROVE  /\ taken = [of |-> calls, boot |-> home] /\ rx = <<>>
                 /\ calls > 1 => j = 3
                 /\ j + 1 \in 1 .. Len(View) /\ View[j + 1] \in {Prompt, Lost, Banner}
                 /\ View[j + 1] = Prompt =>
                      \/ Len(View) = j + 1 /\ boot = home
                      \/ j + 2 \in 1 .. Len(View) /\ View[j + 2] = Banner /\ boot # home
      BY <2>0 DEF Inv, MarkOK
    <2>1. CASE i < e
      <3>1. i \in 1 .. Len(View) /\ View[i] = Mark(calls) /\ Front(View, i)
        BY <1>1, <1>2, <1>4, <2>1
      <3>2. i # e - 1
        BY <1>1, <1>3, <3>1
      <3>3. i + 1 \in 1 .. Len(View') /\ i + 1 < e /\ View'[i + 1] = View[i + 1]
        BY <1>1, <1>2, <2>1, <3>2
      <3>4. ASSUME View[i + 1] = Prompt
            PROVE  i + 2 \in 1 .. Len(View') /\ View'[i + 2] = Banner /\ boot # home
        <4>1. i + 2 \in 1 .. Len(View) /\ View[i + 2] = Banner /\ boot # home
          BY <1>1, <1>2, <2>0, <3>1, <3>3, <3>4
        <4>2. i + 2 # e
          BY <1>3, <4>1
        <4> QED
          BY <1>1, <1>2, <3>3, <4>1, <4>2
      <3> QED
        BY <2>0, <3>1, <3>3, <3>4
    <2>2. CASE i >= e
      <3>1. i + 1 \in 1 .. Len(View) /\ View[i + 1] = Mark(calls) /\ Front(View, i + 1)
        BY <1>1, <1>2, <1>5, <2>2
      <3>2. /\ taken = [of |-> calls, boot |-> home] /\ rx = <<>>
            /\ calls > 1 => i + 1 = 3
            /\ (i + 1) + 1 \in 1 .. Len(View) /\ View[(i + 1) + 1] \in {Prompt, Lost, Banner}
            /\ View[(i + 1) + 1] = Prompt =>
                 \/ Len(View) = (i + 1) + 1 /\ boot = home
                 \/ (i + 1) + 2 \in 1 .. Len(View) /\ View[(i + 1) + 2] = Banner /\ boot # home
        BY <2>0, <3>1
      <3>3. i + 1 \in 1 .. Len(View') /\ View'[i + 1] = View[(i + 1) + 1]
        BY <1>1, <1>2, <2>2, <3>2
      <3>4. (i + 1) + 2 \in 1 .. Len(View) =>
              i + 2 \in 1 .. Len(View') /\ View'[i + 2] = View[(i + 1) + 2]
        BY <1>1, <1>2, <2>2
      <3>5. calls > 1 => FALSE
        <4>1. calls > 1 => i = 2 /\ e = 2
          BY <1>1, <1>2, <2>2, <3>2
        <4>2. phase # "REPLY"
          BY <3>1 DEF Inv, NumbersOK
        <4>3. phase = "MARKER"
          BY <4>2 DEF Live
        <4>4. calls > 1 => Len(received) >= 2
          BY <4>3 DEF Inv, FormOK, Live
        <4> QED
          BY <1>2, <4>1, <4>4
      <3> QED
        BY <1>1, <1>2, <3>2, <3>3, <3>4, <3>5
    <2> QED
      BY <1>2, <2>1, <2>2
  <1>11. BoundaryOK'
    <2>1. ASSUME synchronized PROVE boot # home /\ Len(View') # 0 /\ View'[1] = Banner
      <3>1. boot # home /\ View[1] = Banner
        BY <1>2, <2>1 DEF Inv, BoundaryOK
      <3>2. Len(View') # 0 /\ 1 < e
        BY <1>1, <1>2
      <3> QED
        BY <1>1, <1>2, <3>1, <3>2
    <2> QED
      BY <1>0, <2>1 DEF Inv, BoundaryOK
  <1>12. AnswerIsWhole'
    BY <1>0 DEF Inv, AnswerIsWhole
  <1> QED
    BY <1>6, <1>7, <1>8, <1>9, <1>10, <1>11, <1>12 DEF Inv

LEMMA PrintRecordStep ==
    ASSUME Inv, PrintRecord, TypeOK'
    PROVE  Inv'
  <1>1. /\ out # <<>> /\ out' = Tail(out) /\ UNCHANGED <<host, rx, skipping, boot, taken, home>>
        /\ \/ ~lossPending /\ tx' = Append(tx, Head(out)) /\ UNCHANGED lossPending
           \/ Head(out) # Banner /\ lossPending' = TRUE /\ UNCHANGED tx
    BY DEF PrintRecord
  <1>2. TypeOK /\ OutOK /\ received' = received
    BY <1>1 DEF Inv, host
  <1>3. OutOK'
    BY <1>1, <1>2, OutTail
  <1>4. CASE ~lossPending /\ tx' = Append(tx, Head(out)) /\ UNCHANGED lossPending
    <2>1. View' = View
      BY <1>1, <1>2, <1>4, KeptView
    <2> QED
      BY <1>1, <1>3, <2>1, SameView
  <1>5. CASE Head(out) # Banner /\ lossPending' = TRUE /\ UNCHANGED tx
    <2>1. PICK e \in Len(received) + 1 .. Len(View) :
             /\ View[e] = Head(out)
             /\ Replaced(View', View, e) \/ Closed(View', View, e)
      BY <1>1, <1>2, <1>5, LostView
    <2>2. View[e].kind # "BANNER"
      BY <1>1, <1>2, <1>5, <2>1, OutFacts, RecordFacts
    <2>3. CASE Replaced(View', View, e)
      BY <1>1, <1>3, <2>2, <2>3, ReplacedStep
    <2>4. CASE Closed(View', View, e)
      BY <1>1, <1>3, <2>2, <2>4, ClosedStep
    <2> QED
      BY <2>1, <2>3, <2>4
  <1> QED
    BY <1>1, <1>4, <1>5

LEMMA MarkLossStep ==
    ASSUME Inv, MarkLoss, TypeOK'
    PROVE  Inv'
  <1>1. /\ lossPending /\ ~lossPending' /\ tx' = Append(tx, Lost)
        /\ UNCHANGED <<host, rx, skipping, out, boot, taken, home>>
    BY DEF MarkLoss
  <1>2. TypeOK /\ OutOK' /\ received' = received
    BY <1>1 DEF Inv, OutOK, host
  <1>3. View' = View
    BY <1>1, <1>2, MarkedView
  <1> QED
    BY <1>1, <1>2, <1>3, SameView

-----------------------------------------------------------------------------
(* The invariant: input, and restarts                                      *)

\* What a shorter input leaves of the numbers.
LEMMA NumbersTail ==
    ASSUME TypeOK, NumbersOK, rx # <<>>, rx' = Tail(rx), UNCHANGED <<phase, calls>>,
           taken.of < calls => (taken'.of < calls \/ Ours(rx[1])),
           \A i \in 1 .. Len(View') : View'[i].kind = "MARK" => View'[i].of <= calls,
           phase = "REPLY" => \A i \in 1 .. Len(View') : View'[i] # Mark(calls)
    PROVE  NumbersOK'
  <1>1. /\ Len(rx) \in Nat \ {0} /\ Len(rx') = Len(rx) - 1
        /\ \A j \in 1 .. Len(rx') : rx'[j] = rx[j + 1] /\ j + 1 \in 1 .. Len(rx)
    BY RxTail
  <1>2. Request' = Request /\ Marker' = Marker
    BY DEF Request, Marker
  <1>3. ASSUME NEW j \in 1 .. Len(rx')
        PROVE  /\ rx'[j].of <= calls
               /\ Ours(rx'[j]) => /\ rx'[j] = Request /\ taken'.of < calls
                                  /\ \A k \in 1 .. Len(rx') : Ours(rx'[k]) => k = j
    <2>1. rx'[j] = rx[j + 1] /\ j + 1 \in 1 .. Len(rx) /\ 1 \in 1 .. Len(rx) /\ j + 1 # 1
      BY <1>1
    <2>2. rx'[j].of <= calls
      BY <2>1 DEF NumbersOK
    <2>3. ASSUME Ours(rx'[j])
          PROVE  /\ rx'[j] = Request /\ taken'.of < calls
                 /\ \A k \in 1 .. Len(rx') : Ours(rx'[k]) => k = j
      <3>1. rx[j + 1] = Request /\ taken.of < calls
        BY <2>1, <2>3 DEF NumbersOK
      <3>2. \A k \in 1 .. Len(rx) : Ours(rx[k]) => k = j + 1
        BY <2>1, <2>3 DEF NumbersOK
      <3>3. ~Ours(rx[1])
        BY <2>1, <3>2
      <3>4. \A k \in 1 .. Len(rx') : Ours(rx'[k]) => k + 1 = j + 1
        BY <1>1, <3>2
      <3> QED
        BY <2>1, <3>1, <3>3, <3>4
    <2> QED
      BY <2>2, <2>3
  <1>4. phase = "REPLY" => \A j \in 1 .. Len(rx') : rx'[j] # Marker
    BY <1>1 DEF NumbersOK
  <1>5. phase = "MARKER" => \A j \in 1 .. Len(rx') : rx'[j] = Marker => j = Len(rx')
    <2>1. ASSUME phase = "MARKER", NEW j \in 1 .. Len(rx'), rx'[j] = Marker PROVE j = Len(rx')
      <3>1. rx[j + 1] = Marker /\ j + 1 \in 1 .. Len(rx)
        BY <1>1, <2>1
      <3>2. j + 1 = Len(rx)
        BY <2>1, <3>1 DEF NumbersOK
      <3>3. Len(rx) \in Nat /\ Len(rx') = Len(rx) - 1 /\ j \in Int
        BY <1>1
      <3> QED
        BY <3>2, <3>3
    <2> QED
      BY <2>1
  <1> QED
    BY <1>2, <1>3, <1>4, <1>5 DEF NumbersOK, Ours

LEMMA LoseLineStep ==
    ASSUME Inv, LoseLine, TypeOK'
    PROVE  Inv'
  <1>1. /\ rx # <<>> /\ rx' = Tail(rx) /\ skipping' = TRUE
        /\ UNCHANGED <<phase, synchronized, attempted, calls, received, answer,
                       out, lossPending, boot, taken, home, tx>>
    BY DEF LoseLine, host
  <1>2. View' = View
    BY <1>1 DEF View, Pending
  <1>3. /\ Len(rx) \in Nat \ {0} /\ Len(rx') = Len(rx) - 1
        /\ \A j \in 1 .. Len(rx) - 1 : rx'[j] = rx[j + 1]
    BY <1>1, RxTail DEF Inv
  <1>4. HostOK' /\ OutOK'
    BY <1>1, <1>2 DEF Inv, HostOK, OutOK, Live, Front
  <1>5. NumbersOK'
    <2>1. TypeOK /\ NumbersOK
      BY DEF Inv
    <2>2. taken.of < calls => (taken'.of < calls \/ Ours(rx[1]))
      BY <1>1
    <2>3. \A i \in 1 .. Len(View') : View'[i].kind = "MARK" => View'[i].of <= calls
      BY <1>2, <2>1 DEF NumbersOK
    <2>4. phase = "REPLY" => \A i \in 1 .. Len(View') : View'[i] # Mark(calls)
      BY <1>2, <2>1 DEF NumbersOK
    <2> QED
      BY <1>1, <2>1, <2>2, <2>3, <2>4, NumbersTail
  <1>6. RxOK'
    <2>1. ASSUME Live, Unbroken, phase = "REPLY" PROVE Len(rx) - 1 # 0 => rx'[Len(rx) - 1] = Request
      BY <1>3, <2>1 DEF Inv, RxOK
    <2>2. ASSUME Live, Unbroken, phase = "MARKER", Len(rx) - 1 # 0
          PROVE  /\ rx'[Len(rx) - 1] = Marker
                 /\ Len(rx) - 1 # 1 => rx'[(Len(rx) - 1) - 1] = Request
      <3>1. rx[Len(rx)] = Marker /\ (Len(rx) # 1 => rx[Len(rx) - 1] = Request)
        BY <1>3, <2>2 DEF Inv, RxOK
      <3> QED
        BY <1>3, <2>2, <3>1
    <2>3. ASSUME Live, Unbroken, calls > 1 PROVE boot = home /\ Len(rx) - 1 = 0
      <3>1. boot = home /\ Len(rx) = 1
        BY <1>3, <2>3 DEF Inv, RxOK, Live
      <3> QED
        BY <3>1
    <2> QED
      BY <1>1, <1>2, <1>3, <2>1, <2>2, <2>3 DEF RxOK, Live, Unbroken, Front, Request, Marker
  <1>7. FormOK' /\ BoundaryOK'
    <2>1. rx # <<>> /\ ~synchronized
      BY <1>1 DEF Inv, BoundaryOK
    <2> QED
      BY <1>1, <1>2, <2>1 DEF Inv, FormOK, BoundaryOK, Live, Front, Shown
  <1>8. MarkOK'
    <2>1. ASSUME NEW i \in 1 .. Len(View), Live, Front(View, i), View[i] = Mark(calls)
          PROVE  FALSE
      BY <1>1, <2>1 DEF Inv, MarkOK
    <2> QED
      BY <1>1, <1>2, <2>1 DEF MarkOK, Live, Front
  <1>9. AnswerIsWhole'
    BY <1>1 DEF Inv, AnswerIsWhole
  <1> QED
    BY <1>4, <1>5, <1>6, <1>7, <1>8, <1>9 DEF Inv

LEMMA RestartStep ==
    ASSUME Inv, Restart, TypeOK'
    PROVE  Inv'
  <1>1. /\ boot' = boot + 1 /\ rx' = <<>> /\ skipping' = FALSE
        /\ out' = <<Banner, Prompt>> /\ lossPending' = FALSE
        /\ UNCHANGED <<phase, synchronized, attempted, calls, received, answer, taken, home>>
    BY DEF Restart, host
  <1>2. PICK k \in 0 .. Len(tx) : tx' = Taken(k)
    BY DEF Restart
  <1>3. PICK m \in Len(received) .. Len(View) : Reset(View', View, m)
    BY <1>1, <1>2, RestartView DEF Inv
  <1>4. /\ m \in Nat /\ m <= Len(View) /\ Len(received) <= m /\ Len(View') = m + 2
        /\ Len(View) \in Nat /\ Len(received) \in Nat
        /\ \A i \in 1 .. m : View'[i] = View[i]
        /\ View'[m + 1] = Banner /\ View'[m + 2] = Prompt
    BY <1>3, ViewParts DEF Inv, Reset
  <1>5. /\ Prompt.kind = "PROMPT" /\ Banner.kind = "BANNER" /\ Mark(calls).kind = "MARK"
        /\ Prompt # Banner
    BY RecordFacts
  <1>6. home <= boot /\ home \in Nat /\ boot \in Nat /\ boot' # home /\ home <= boot'
    BY <1>1 DEF Inv, HostOK, TypeOK
  <1>7. ASSUME NEW i \in 1 .. Len(View'), Front(View', i)
        PROVE  i <= m /\ i \in 1 .. Len(View) /\ View'[i] = View[i] /\ Front(View, i)
    <2>1. i <= m
      <3>1. ~(m + 1 \in 1 .. i)
        BY <1>4, <1>5, <1>7 DEF Front
      <3> QED
        BY <1>4, <3>1
    <2> QED
      BY <1>4, <1>7, <2>1 DEF Front
  <1>8. HostOK'
    <2>1. Front(View, Len(received)) => Front(View', Len(received))
      BY <1>4 DEF Front
    <2> QED
      BY <1>1, <1>6, <2>1 DEF Inv, HostOK, Live
  <1>9. NumbersOK'
    <2>1. ASSUME NEW i \in 1 .. Len(View'), View'[i].kind = "MARK"
          PROVE  i \in 1 .. Len(View) /\ View'[i] = View[i]
      BY <1>4, <1>5, <2>1
    <2>2. \A i \in 1 .. Len(View') : View'[i].kind = "MARK" => View'[i].of <= calls
      BY <2>1 DEF Inv, NumbersOK
    <2>3. phase = "REPLY" => \A i \in 1 .. Len(View') : View'[i] # Mark(calls)
      BY <1>5, <2>1 DEF Inv, NumbersOK
    <2>4. Len(rx') = 0
      BY <1>1
    <2> QED
      BY <1>1, <2>2, <2>3, <2>4 DEF NumbersOK
  <1>10. OutOK'
    <2>1. Len(out') = 2 /\ out'[1] = Banner /\ out'[2] = Prompt
      BY <1>1, RecordFacts, Pair
    <2> QED
      BY <1>5, <2>1 DEF OutOK
  <1>11. RxOK'
    <2>1. ~Unbroken'
      BY <1>4, <1>5 DEF Unbroken, Front
    <2> QED
      BY <2>1 DEF RxOK
  <1>12. FormOK'
    BY <1>1, <1>7 DEF Inv, FormOK, Live, Shown
  <1>13. MarkOK'
    <2> SUFFICES ASSUME NEW i \in 1 .. Len(View'), Live, Front(View', i), View'[i] = Mark(calls)
                 PROVE  /\ taken = [of |-> calls, boot |-> home]
                        /\ calls > 1 => i = 3
                        /\ i + 1 \in 1 .. Len(View') /\ View'[i + 1] \in {Prompt, Lost, Banner}
                        /\ View'[i + 1] = Prompt =>
                             i + 2 \in 1 .. Len(View') /\ View'[i + 2] = Banner
      BY <1>1, <1>6 DEF MarkOK, Live
    <2>1. i <= m /\ i \in 1 .. Len(View) /\ View[i] = Mark(calls) /\ Front(View, i)
      BY <1>7
    <2>2. /\ taken = [of |-> calls, boot |-> home]
          /\ calls > 1 => i = 3
          /\ i + 1 \in 1 .. Len(View) /\ View[i + 1] \in {Prompt, Lost, Banner}
          /\ View[i + 1] = Prompt =>
               \/ Len(View) = i + 1 /\ boot = home
               \/ i + 2 \in 1 .. Len(View) /\ View[i + 2] = Banner /\ boot # home
      BY <2>1 DEF Inv, MarkOK
    <2>3. CASE i = m
      BY <1>4, <1>5, <2>2, <2>3
    <2>4. CASE i < m
      <3>1. i + 1 \in 1 .. Len(View') /\ View'[i + 1] = View[i + 1]
        BY <1>4, <2>4
      <3>2. i + 1 = m \/ i + 2 <= m
        BY <1>4, <2>4
      <3>3. i + 1 = m => i + 2 \in 1 .. Len(View') /\ View'[i + 2] = Banner
        <4>1. i + 1 = m => i + 2 = m + 1
          OBVIOUS
        <4> QED
          BY <1>4, <4>1
      <3>4. i + 2 <= m => i + 2 \in 1 .. Len(View') /\ View'[i + 2] = View[i + 2]
                          /\ Len(View) # i + 1
        BY <1>4, <2>4
      <3> QED
        BY <2>2, <3>1, <3>2, <3>3, <3>4
    <2> QED
      BY <1>4, <2>1, <2>3, <2>4
  <1>14. BoundaryOK'
    <2>1. ASSUME synchronized PROVE Len(View') # 0 /\ View'[1] = Banner
      <3>1. Len(View) = 0 \/ View[1] = Banner
        BY <2>1 DEF Inv, BoundaryOK
      <3>2. m = 0 => m + 1 = 1
        OBVIOUS
      <3>3. m = 0 => View'[1] = Banner
        BY <1>4, <3>2
      <3>4. m # 0 => View'[1] = View[1] /\ Len(View) # 0
        BY <1>4
      <3> QED
        BY <1>4, <3>1, <3>3, <3>4
    <2> QED
      BY <1>1, <1>6, <2>1 DEF Inv, BoundaryOK
  <1>15. AnswerIsWhole'
    BY <1>1 DEF Inv, AnswerIsWhole
  <1> QED
    BY <1>8, <1>9, <1>10, <1>11, <1>12, <1>13, <1>14, <1>15 DEF Inv

-----------------------------------------------------------------------------
(* The invariant: a line is taken                                          *)

LEMMA TakeLineStep ==
    ASSUME Inv, TakeLine, TypeOK'
    PROVE  Inv'
  <1>1. PICK line \in Lines, reply \in Seq(Record) :
             /\ rx # <<>> /\ out = <<>> /\ line = rx[1] /\ rx' = Tail(rx) /\ out' = reply
             /\ reply \in {Refusal, Reply(line)} /\ (skipping => reply = Refusal)
             /\ Ours(line) => /\ taken' = [of |-> line.of, boot |-> boot]
                              /\ (line.kind = "DISCARD" => home' = boot)
                              /\ (line.kind # "DISCARD" => home' = home)
             /\ ~Ours(line) => taken' = taken /\ home' = home
             /\ skipping' = FALSE
             /\ UNCHANGED <<phase, synchronized, attempted, calls, received, answer,
                            lossPending, tx, boot>>
    BY TakeLineFacts DEF Inv
  <1>2. TypeOK /\ HostOK /\ NumbersOK /\ RxOK /\ FormOK /\ MarkOK /\ BoundaryOK
    BY DEF Inv
  <1>3. /\ Len(rx) \in Nat \ {0} /\ Len(rx') = Len(rx) - 1
        /\ \A j \in 1 .. Len(rx) - 1 : rx'[j] = rx[j + 1]
    BY <1>1, <1>2, RxTail
  <1>4. /\ Len(reply) = 2 /\ reply[2] = Prompt
        /\ \/ reply[1] = Ack
           \/ reply[1] = Data(line.of) /\ line.kind = "COMMAND"
           \/ /\ reply[1] = Mark(line.of) /\ line.kind = "HILMARK" /\ reply # Refusal
    BY <1>1, ReplyFacts
  <1>5. /\ Len(View') = Len(View) + 2 /\ Len(View) \in Nat
        /\ \A i \in 1 .. Len(View) : View'[i] = View[i]
        /\ View'[Len(View) + 1] = reply[1] /\ View'[Len(View) + 2] = Prompt
    <2>1. Longer(View', View, reply) /\ Len(View) \in Nat
      BY <1>1, <1>2, ReplyView, ViewParts
    <2>2. 1 \in 1 .. Len(reply) /\ 2 \in 1 .. Len(reply)
      BY <1>4
    <2> QED
      BY <1>4, <2>1, <2>2 DEF Longer
  <1>6. /\ Prompt.kind = "PROMPT" /\ Ack.kind = "ACK" /\ Mark(calls).kind = "MARK"
        /\ Data(line.of).kind = "DATA" /\ Mark(line.of).kind = "MARK"
        /\ Mark(line.of).of = line.of /\ Mark(calls).of = calls
    BY RecordFacts
  <1>7. /\ line.of \in Nat /\ line.of <= calls
        /\ Ours(line) => line = Request /\ taken.of < calls
        /\ calls \in Nat /\ 1 \in 1 .. Len(rx)
    <2>1. 1 \in 1 .. Len(rx) /\ line = rx[1]
      BY <1>1, <1>3
    <2>2. line.of \in Nat /\ calls \in Nat
      BY <1>2, LineFacts DEF TypeOK
    <2>3. line.of <= calls /\ (Ours(line) => line = Request /\ taken.of < calls)
      BY <1>2, <2>1 DEF NumbersOK
    <2> QED
      BY <2>1, <2>2, <2>3
  <1>8. /\ Request.of = calls
        /\ Request.kind = IF calls = 1 THEN "DISCARD" ELSE "COMMAND"
        /\ Marker.of = calls /\ Marker.kind = "HILMARK"
    BY LineFacts DEF Request, Marker
  <1>9. Ours(line) => /\ taken' = [of |-> calls, boot |-> boot] /\ taken'.of = calls
                     /\ (calls = 1 => home' = boot) /\ (calls # 1 => home' = home)
    BY <1>1, <1>7, <1>8
  <1>10. Len(received) <= Len(View) /\ Len(received) \in Nat
    BY <1>2, ViewParts
  <1>11. \A i \in 1 .. Len(View) : Front(View', i) <=> Front(View, i)
    BY <1>5 DEF Front
  <1>12. \A i \in Len(View) + 1 .. Len(View) + 2 : Front(View', i) => Unbroken
    BY <1>5 DEF Front, Unbroken
  <1>13. HostOK'
    <2>1. Front(View, Len(received)) => Front(View', Len(received))
      BY <1>5, <1>10 DEF Front
    <2>2. ~attempted => ~Ours(line)
      BY <1>2, <1>7, <1>8 DEF HostOK, Ours
    <2>3. taken'.of <= calls /\ home' <= boot
      <3>1. taken.of <= calls /\ home <= boot /\ boot \in Nat
        BY <1>2 DEF HostOK, TypeOK
      <3>2. CASE Ours(line)
        BY <1>7, <1>9, <3>1, <3>2
      <3>3. CASE ~Ours(line)
        BY <1>1, <3>1, <3>3
      <3> QED
        BY <3>2, <3>3
    <2> QED
      BY <1>1, <1>2, <2>1, <2>2, <2>3 DEF HostOK, Live
  <1>14. NumbersOK'
    <2>1. ASSUME NEW i \in 1 .. Len(View'), View'[i].kind = "MARK"
          PROVE  \/ i \in 1 .. Len(View) /\ View'[i] = View[i]
                 \/ View'[i] = Mark(line.of) /\ line.kind = "HILMARK"
      <3>1. i \in 1 .. Len(View) \/ i = Len(View) + 1 \/ i = Len(View) + 2
        BY <1>5
      <3> QED
        BY <1>4, <1>5, <1>6, <2>1, <3>1
    <2>2. \A i \in 1 .. Len(View') : View'[i].kind = "MARK" => View'[i].of <= calls
      BY <1>2, <1>6, <1>7, <2>1 DEF NumbersOK
    <2>3. phase = "REPLY" => \A i \in 1 .. Len(View') : View'[i] # Mark(calls)
      <3> SUFFICES ASSUME phase = "REPLY", NEW i \in 1 .. Len(View'), View'[i] = Mark(calls)
                   PROVE  FALSE
        OBVIOUS
      <3>1. View'[i] = Mark(line.of) /\ line.kind = "HILMARK"
        BY <1>2, <1>6, <2>1 DEF NumbersOK
      <3>2. line = Marker
        BY <1>6, <3>1, LineFacts DEF Marker
      <3> QED
        BY <1>1, <1>2, <1>7, <3>2 DEF NumbersOK
    <2>4. taken.of < calls => (taken'.of < calls \/ Ours(rx[1]))
      BY <1>1
    <2> QED
      BY <1>1, <1>2, <2>2, <2>3, <2>4, NumbersTail
  <1>15. OutOK'
    <2>1. reply[1].kind \notin {"PROMPT", "LOST"}
      BY <1>4, <1>6
    <2> QED
      BY <1>1, <1>4, <2>1 DEF OutOK
  <1>16. ASSUME Live, Unbroken, line = Request
         PROVE  taken' = [of |-> calls, boot |-> boot] /\ home' = boot
    <2>1. calls # 0
      BY <1>2, <1>16 DEF HostOK
    <2>2. Ours(line)
      BY <1>8, <1>16, <2>1 DEF Ours
    <2>3. calls > 1 => boot = home
      BY <1>2, <1>16 DEF RxOK
    <2> QED
      BY <1>7, <1>9, <2>1, <2>2, <2>3
  <1>17. ASSUME Live, Unbroken, phase = "REPLY"
         PROVE  /\ Len(rx) = 1 => line = Request
                /\ Len(rx) # 1 => rx'[Len(rx) - 1] = Request
    BY <1>1, <1>2, <1>3, <1>17 DEF RxOK
  <1>18. ASSUME Live, Unbroken, phase = "MARKER"
         PROVE  /\ rx[Len(rx)] = Marker
                /\ Len(rx) # 1 => rx'[Len(rx) - 1] = Marker
                /\ Len(rx) = 2 => line = Request
                /\ Len(rx) > 2 => rx'[(Len(rx) - 1) - 1] = Request
    <2>1. rx[Len(rx)] = Marker /\ (Len(rx) # 1 => rx[Len(rx) - 1] = Request)
      BY <1>2, <1>3, <1>18 DEF RxOK
    <2> QED
      BY <1>1, <1>3, <2>1
  <1>19. RxOK'
    <2> SUFFICES ASSUME Live, Unbroken'
                 PROVE  /\ phase = "REPLY" =>
                             IF Len(rx') = 0
                             THEN taken' = [of |-> calls, boot |-> boot] /\ home' = boot
                             ELSE rx'[Len(rx')] = Request
                        /\ phase = "MARKER" /\ Len(rx') # 0 =>
                             /\ rx'[Len(rx')] = Marker
                             /\ IF Len(rx') = 1
                                THEN taken' = [of |-> calls, boot |-> boot] /\ home' = boot
                                ELSE rx'[Len(rx') - 1] = Request
                        /\ calls > 1 => boot = home' /\ Len(rx') = 0
      BY <1>1 DEF RxOK, Live, Request, Marker
    <2>1. Unbroken
      BY <1>5, <1>12 DEF Unbroken
    <2>2. phase = "REPLY" =>
             IF Len(rx') = 0
             THEN taken' = [of |-> calls, boot |-> boot] /\ home' = boot
             ELSE rx'[Len(rx')] = Request
      BY <1>3, <1>16, <1>17, <2>1
    <2>3. phase = "MARKER" /\ Len(rx') # 0 =>
             /\ rx'[Len(rx')] = Marker
             /\ IF Len(rx') = 1
                THEN taken' = [of |-> calls, boot |-> boot] /\ home' = boot
                ELSE rx'[Len(rx') - 1] = Request
      BY <1>3, <1>16, <1>18, <2>1
    <2>4. ASSUME calls > 1 PROVE boot = home' /\ Len(rx') = 0
      <3>1. boot = home /\ Len(rx) = 1
        BY <1>2, <1>3, <2>1, <2>4 DEF RxOK, Live
      <3>2. CASE phase = "REPLY"
        BY <1>3, <1>16, <1>17, <2>1, <3>1, <3>2
      <3>3. CASE phase = "MARKER"
        <4>1. line = Marker
          BY <1>1, <1>18, <2>1, <3>1, <3>3
        <4>2. ~Ours(line)
          BY <1>8, <4>1 DEF Ours
        <4> QED
          BY <1>1, <1>3, <3>1, <4>2
      <3> QED
        BY <3>2, <3>3 DEF Live
    <2> QED
      BY <2>2, <2>3, <2>4
  <1>20. FormOK'
    <2>1. ASSUME Live, calls > 1, phase = "REPLY", NEW i \in 1 .. Len(View'), Front(View', i)
          PROVE  /\ i <= 2
                 /\ i = 1 => View'[i] \in Shown
                 /\ i = 2 => View'[i] \in {Prompt, Lost}
      <3>1. CASE i <= Len(View)
        <4>1. i \in 1 .. Len(View) /\ View'[i] = View[i] /\ Front(View, i)
          BY <1>5, <1>11, <2>1, <3>1
        <4> QED
          BY <1>2, <2>1, <4>1 DEF FormOK
      <3>2. CASE i > Len(View)
        <4>1. Unbroken /\ i \in Len(View) + 1 .. Len(View) + 2
          BY <1>5, <1>12, <2>1, <3>2
        <4>2. Len(View) = 0 /\ Len(rx) = 1
          BY <1>2, <1>3, <2>1, <4>1 DEF RxOK
        <4>3. line = Request
          BY <1>17, <2>1, <4>1, <4>2
        <4>4. line.kind = "COMMAND" /\ line.of = calls
          BY <1>8, <2>1, <4>3
        <4>5. reply[1] \in {Data(calls), Ack}
          BY <1>4, <4>4
        <4>6. View'[1] = reply[1] /\ View'[2] = Prompt
          <5>1. Len(View) + 1 = 1 /\ Len(View) + 2 = 2
            BY <4>2
          <5> QED
            BY <1>5, <5>1
        <4>7. i = 1 \/ i = 2
          BY <4>1, <4>2
        <4> QED
          BY <4>5, <4>6, <4>7 DEF Shown
      <3> QED
        BY <1>5, <3>1, <3>2
    <2> QED
      BY <1>1, <1>2, <2>1 DEF FormOK, Live, Shown
  <1>21. MarkOK'
    <2> SUFFICES ASSUME NEW i \in 1 .. Len(View'), Live, Front(View', i), View'[i] = Mark(calls)
                 PROVE  /\ taken' = [of |-> calls, boot |-> home'] /\ rx' = <<>>
                        /\ calls > 1 => i = 3
                        /\ i + 1 = Len(View') /\ View'[i + 1] = Prompt /\ boot = home'
      BY <1>1, <1>5 DEF MarkOK, Live
    <2>1. i \notin 1 .. Len(View)
      <3> SUFFICES ASSUME i \in 1 .. Len(View) PROVE FALSE
        OBVIOUS
      <3>1. View[i] = Mark(calls) /\ Front(View, i)
        BY <1>5, <1>11
      <3> QED
        BY <1>1, <1>2, <3>1 DEF MarkOK
    <2>2. i = Len(View) + 1 \/ i = Len(View) + 2
      BY <1>5, <2>1
    <2>3. i = Len(View) + 1 /\ reply[1] = Mark(calls)
      BY <1>5, <1>6, <2>2
    <2>4. line.kind = "HILMARK" /\ line.of = calls /\ reply # Refusal
      BY <1>4, <1>6, <2>3
    <2>5. line = Marker
      BY <2>4, LineFacts DEF Marker
    <2>6. phase = "MARKER"
      BY <1>1, <1>2, <1>7, <2>5 DEF NumbersOK, Live
    <2>7. Unbroken
      BY <1>12, <2>2
    <2>8. Len(rx) = 1
      BY <1>1, <1>2, <1>7, <2>5, <2>6 DEF NumbersOK
    <2>9. taken = [of |-> calls, boot |-> boot] /\ home = boot
      BY <1>1, <1>2, <2>4, <2>6, <2>7, <2>8 DEF RxOK
    <2>10. ~Ours(line)
      BY <2>4 DEF Ours
    <2>11. calls > 1 => Len(View) = 2
      BY <1>2, <2>6, <2>7, <2>8 DEF RxOK
    <2>12. rx' = <<>>
      <3>1. Len(rx') = 0 /\ rx' \in Seq(Lines)
        BY <1>3, <2>8 DEF TypeOK
      <3> QED
        BY <3>1
    <2>13. taken' = [of |-> calls, boot |-> home'] /\ boot = home'
      BY <1>1, <2>9, <2>10
    <2>14. (calls > 1 => i = 3) /\ i + 1 = Len(View') /\ View'[i + 1] = Prompt
      <3>1. i + 1 = Len(View) + 2
        BY <1>5, <2>3
      <3>2. View'[i + 1] = View'[Len(View) + 2]
        BY <3>1, Zenon
      <3>3. View'[i + 1] = Prompt
        BY <1>5, <3>2, Zenon
      <3>4. ASSUME calls > 1 PROVE i = 3
        <4>1. Len(View) = 2 /\ i = Len(View) + 1
          BY <2>3, <2>11, <3>4
        <4> QED
          BY <4>1
      <3>5. i + 1 = Len(View')
        BY <1>5, <3>1
      <3> QED
        BY <3>3, <3>4, <3>5
    <2> QED
      BY <2>12, <2>13, <2>14
  <1>22. BoundaryOK' /\ AnswerIsWhole'
    BY <1>1, <1>2 DEF Inv, BoundaryOK, AnswerIsWhole
  <1> QED
    BY <1>13, <1>14, <1>15, <1>19, <1>20, <1>21, <1>22 DEF Inv

-----------------------------------------------------------------------------
(* The invariant: the runner between exchanges                             *)

\* Outside an exchange, and without a boundary, only the numbers matter.
LEMMA QuietStep ==
    ASSUME Inv, TypeOK', OutOK', NEW m, Behind(View', View, m),
           phase' = "IDLE", ~synchronized', attempted', received' = <<>>,
           UNCHANGED <<answer, boot, taken, home>>,
           calls' \in Nat, calls <= calls', taken.of <= calls',
           \A j \in 1 .. Len(rx') :
             /\ rx'[j].of <= calls'
             /\ Ours(rx'[j]) => /\ rx'[j] = Request' /\ taken.of < calls'
                                /\ \A k \in 1 .. Len(rx') : Ours(rx'[k]) => k = j
    PROVE  Inv'
  <1>1. ~Live' /\ phase' # "REPLY" /\ phase' # "MARKER" /\ phase' # "BOOT"
    BY DEF Live
  <1>2. HostOK'
    BY <1>1 DEF Inv, HostOK, TypeOK
  <1>3. NumbersOK'
    <2>1. ASSUME NEW i \in 1 .. Len(View'), View'[i].kind = "MARK"
          PROVE  View'[i].of <= calls'
      <3>1. i + m \in 1 .. Len(View) /\ View'[i] = View[i + m]
        BY ViewParts DEF Behind, Inv
      <3>2. View[i + m].kind = "MARK" /\ View[i + m].of <= calls /\ View[i + m] \in Record
        BY <2>1, <3>1, ViewParts DEF Inv, NumbersOK
      <3>3. View[i + m].of \in Nat /\ calls \in Nat
        BY <3>2, RecordFacts DEF Inv, TypeOK
      <3> QED
        BY <3>1, <3>2, <3>3
    <2> QED
      BY <1>1, <2>1 DEF NumbersOK
  <1>4. RxOK' /\ FormOK' /\ MarkOK' /\ BoundaryOK'
    BY <1>1 DEF RxOK, FormOK, MarkOK, BoundaryOK
  <1>5. AnswerIsWhole'
    BY DEF Inv, AnswerIsWhole
  <1> QED
    BY <1>2, <1>3, <1>4, <1>5 DEF Inv

\* Losing the exchange while it runs.
LEMMA LoseStep ==
    ASSUME Inv, TypeOK', phase \in {"REPLY", "MARKER"}, Lose, UNCHANGED <<calls, rx>>,
           UNCHANGED <<skipping, out, lossPending, boot, taken, home>>,
           NEW k \in 0 .. Len(tx), tx' = Rest(k)
    PROVE  Inv'
  <1> DEFINE records == received \o Taken(k)
  <1>1. /\ phase' = "IDLE" /\ received' = <<>> /\ UNCHANGED <<synchronized, attempted, answer>>
    BY DEF Lose
  <1>2. Behind(View', View, Len(records))
    BY <1>1, ReadView DEF Inv
  <1>3. attempted /\ ~synchronized
    BY DEF Inv, HostOK, Live
  <1>4. OutOK'
    BY DEF Inv, OutOK
  <1>5. calls \in Nat /\ taken.of <= calls
    BY DEF Inv, TypeOK, HostOK
  <1>6. \A j \in 1 .. Len(rx') :
          /\ rx'[j].of <= calls'
          /\ Ours(rx'[j]) => /\ rx'[j] = Request' /\ taken.of < calls'
                             /\ \A i \in 1 .. Len(rx') : Ours(rx'[i]) => i = j
    BY DEF Inv, NumbersOK, Request, Ours
  <1> HIDE DEF records
  <1> QED
    BY <1>1, <1>2, <1>3, <1>4, <1>5, <1>6, QuietStep

LEMMA GiveUpStep ==
    ASSUME Inv, GiveUp, TypeOK'
    PROVE  Inv'
  <1>1. PICK k \in 0 .. Len(tx) : tx' = Rest(k)
    BY DEF GiveUp
  <1>2. /\ phase \in {"REPLY", "MARKER"} /\ Lose /\ UNCHANGED <<calls, rx>>
        /\ UNCHANGED <<skipping, out, lossPending, boot, taken, home>>
    BY DEF GiveUp, firmware
  <1> QED
    BY <1>1, <1>2, LoseStep

LEMMA ReadUntilIdleStep ==
    ASSUME Inv, ReadUntilIdle, TypeOK'
    PROVE  Inv'
  <1>1. PICK k \in 0 .. Len(tx) : tx' = Rest(k)
    BY DEF ReadUntilIdle
  <1>2. /\ phase = "BOOT" /\ phase' = "IDLE"
        /\ UNCHANGED <<synchronized, attempted, calls, received, answer, rx, skipping, out,
                       lossPending, boot, taken, home>>
    BY DEF ReadUntilIdle, firmware
  <1>3. received = <<>> /\ ~attempted /\ ~synchronized /\ ~Live /\ ~Live'
    BY <1>2 DEF Inv, HostOK, Live
  <1>4. Behind(View', View, Len(received \o Taken(k)))
    BY <1>1, <1>2, <1>3, ReadView DEF Inv
  <1> DEFINE m == Len(received \o Taken(k))
  <1>5. Behind(View', View, m)
    BY <1>4
  <1> HIDE DEF m
  <1>6. HostOK' /\ OutOK'
    BY <1>2, <1>3 DEF Inv, HostOK, OutOK
  <1>7. NumbersOK'
    <2>1. ASSUME NEW i \in 1 .. Len(View'), View'[i].kind = "MARK"
          PROVE  View'[i].of <= calls
      <3>1. i + m \in 1 .. Len(View) /\ View'[i] = View[i + m]
        BY <1>5, ViewParts DEF Behind, Inv
      <3> QED
        BY <2>1, <3>1 DEF Inv, NumbersOK
    <2> QED
      BY <1>2, <2>1 DEF Inv, NumbersOK, Request, Ours
  <1>8. RxOK' /\ FormOK' /\ MarkOK' /\ BoundaryOK'
    BY <1>2, <1>3 DEF RxOK, FormOK, MarkOK, BoundaryOK
  <1>9. AnswerIsWhole'
    BY <1>2 DEF Inv, AnswerIsWhole
  <1> QED
    BY <1>6, <1>7, <1>8, <1>9 DEF Inv

-----------------------------------------------------------------------------
(* The invariant: a command is sent                                        *)

LEMMA SendStep ==
    ASSUME Inv, TypeOK', NEW kind, Send(kind), attempted' = TRUE,
           \/ kind = "DISCARD" /\ ~attempted
           \/ kind = "COMMAND" /\ synchronized
    PROVE  Inv'
  <1>1. PICK k \in 0 .. Len(tx) :
             /\ phase = "IDLE" /\ synchronized' = FALSE /\ received' = <<>> /\ tx' = Rest(k)
             /\ UNCHANGED <<answer, skipping, out, lossPending, boot, taken, home>>
             /\ \/ /\ OnlyPrompts(Taken(k)) /\ calls' = calls + 1
                   /\ rx' = Append(rx, Line(kind, calls + 1)) /\ phase' \in {"REPLY", "IDLE"}
                \/ UNCHANGED <<phase, calls, rx>>
    BY SendFacts
  <1>2. /\ TypeOK /\ HostOK /\ NumbersOK /\ OutOK /\ BoundaryOK /\ AnswerIsWhole
        /\ calls \in Nat /\ tx \in Seq(Record) /\ Len(tx) \in Nat
    BY DEF Inv, TypeOK
  <1>3. received = <<>> /\ ~Live /\ taken.of <= calls /\ answer.of <= calls /\ home <= boot
    BY <1>1, <1>2 DEF HostOK, Live
  <1>4. Behind(View', View, k)
    <2>1. Behind(View', View, Len(received \o Taken(k)))
      BY <1>1, <1>2, ReadView
    <2>2. Len(received \o Taken(k)) = Len(received) + k /\ Len(received) = 0
      BY <1>2, <1>3, ReadParts
    <2>3. Len(received \o Taken(k)) = k
      BY <2>2
    <2> QED
      BY <2>1, <2>3, Zenon
  <1>5. OutOK'
    BY <1>1, <1>2 DEF OutOK
  <1>6. ASSUME kind = "DISCARD" PROVE ~attempted /\ calls = 0 /\ answer.of = 0
    BY <1>2, <1>6 DEF HostOK
  <1>7. ASSUME kind = "COMMAND"
        PROVE  /\ synchronized /\ calls # 0 /\ answer.of = calls /\ rx = <<>>
               /\ boot = home => Len(View) = 0
               /\ boot # home => Len(View) # 0 /\ View[1] = Banner
    BY <1>2, <1>7 DEF BoundaryOK
  <1>8. CASE UNCHANGED <<phase, calls, rx>>
    <2>1. \A j \in 1 .. Len(rx') :
             /\ rx'[j].of <= calls'
             /\ Ours(rx'[j]) => /\ rx'[j] = Request' /\ taken.of < calls'
                                /\ \A i \in 1 .. Len(rx') : Ours(rx'[i]) => i = j
      BY <1>2, <1>8 DEF NumbersOK, Request, Ours
    <2>2. phase' = "IDLE" /\ calls' \in Nat /\ calls <= calls' /\ taken.of <= calls'
      BY <1>1, <1>2, <1>3, <1>8
    <2>3. UNCHANGED <<answer, boot, taken, home>> /\ ~synchronized' /\ attempted' /\ received' = <<>>
      BY <1>1
    <2> QED
      BY <1>4, <1>5, <2>1, <2>2, <2>3, QuietStep
  <1>9. CASE /\ OnlyPrompts(Taken(k)) /\ calls' = calls + 1
             /\ rx' = Append(rx, Line(kind, calls + 1)) /\ phase' \in {"REPLY", "IDLE"}
    <2>1. /\ Request' = Line(kind, calls + 1) /\ Marker' = Line("HILMARK", calls + 1)
          /\ Line(kind, calls + 1) \in Lines
          /\ Line(kind, calls + 1).of = calls + 1 /\ Line(kind, calls + 1).kind = kind
          /\ Line(kind, calls + 1) # Marker'
      <3>1. Request' = Line(kind, calls + 1)
        <4>1. calls + 1 = 1 <=> kind = "DISCARD"
          BY <1>2, <1>6, <1>7
        <4>2. Request' = Line(IF calls + 1 = 1 THEN "DISCARD" ELSE "COMMAND", calls + 1)
          BY <1>9 DEF Request
        <4>3. kind = "DISCARD" \/ kind = "COMMAND"
          OBVIOUS
        <4> QED
          BY <4>1, <4>2, <4>3, Zenon
      <3>2. Marker' = Line("HILMARK", calls + 1)
        BY <1>9 DEF Marker
      <3>3. Line(kind, calls + 1).kind = kind /\ Line(kind, calls + 1).of = calls + 1
            /\ Line("HILMARK", calls + 1).kind = "HILMARK"
        BY LineFacts
      <3>4. calls + 1 \in Nat
        BY <1>2
      <3>5. Line("COMMAND", calls + 1) \in Lines /\ Line("DISCARD", calls + 1) \in Lines
        BY <3>4, LineFacts
      <3>6. Line(kind, calls + 1) # Line("HILMARK", calls + 1)
        BY <3>3
      <3> QED
        BY <3>1, <3>2, <3>3, <3>5, <3>6, Zenon
    <2>2. /\ Len(rx') = Len(rx) + 1 /\ Len(rx) \in Nat /\ rx'[Len(rx) + 1] = Request'
          /\ \A j \in 1 .. Len(rx) : rx'[j] = rx[j]
      BY <1>2, <1>9, <2>1, RxAppend
    <2>3. ASSUME NEW j \in 1 .. Len(rx) PROVE rx[j].of <= calls /\ rx[j].of \in Nat /\ ~Ours(rx[j])
      <3>1. rx[j] \in Lines
        BY <1>2, <2>3, TypeFacts
      <3>2. rx[j].of <= calls /\ rx[j].of \in Nat
        BY <1>2, <3>1, LineFacts DEF NumbersOK
      <3>3. CASE kind = "DISCARD"
        BY <1>6, <3>2, <3>3 DEF Ours
      <3>4. CASE kind = "COMMAND"
        BY <1>7, <3>4
      <3> QED
        BY <3>2, <3>3, <3>4
    <2>4. Request'.of = calls + 1 /\ Request'.kind # "HILMARK"
      BY <2>1
    <2>5. \A j \in 1 .. Len(rx') : j \in 1 .. Len(rx) \/ j = Len(rx) + 1
      BY <2>2
    <2>6. taken.of < calls' /\ calls' \in Nat /\ calls <= calls' /\ taken.of <= calls'
      <3>1. taken.of \in Nat /\ calls' = calls + 1
        BY <1>2, <1>9, TypeFacts
      <3> QED
        BY <1>2, <1>3, <3>1
    <2>7. ASSUME NEW j \in 1 .. Len(rx')
          PROVE  /\ rx'[j].of <= calls'
                 /\ Ours(rx'[j]) => /\ rx'[j] = Request' /\ taken.of < calls'
                                    /\ \A i \in 1 .. Len(rx') : Ours(rx'[i]) => i = j
      <3>1. rx'[j].of <= calls'
        <4>1. CASE j \in 1 .. Len(rx)
          BY <1>2, <1>9, <2>2, <2>3, <4>1
        <4>2. CASE j = Len(rx) + 1
          BY <1>2, <1>9, <2>2, <2>4, <4>2
        <4> QED
          BY <2>5, <4>1, <4>2
      <3>2. \A i \in 1 .. Len(rx') : Ours(rx'[i]) => i = Len(rx) + 1
        BY <2>2, <2>3, <2>5
      <3> QED
        BY <2>2, <2>6, <3>1, <3>2
    <2>8. UNCHANGED <<answer, boot, taken, home>> /\ ~synchronized' /\ attempted' /\ received' = <<>>
      BY <1>1
    <2>9. CASE phase' = "IDLE"
      BY <1>4, <1>5, <2>6, <2>7, <2>8, <2>9, QuietStep
    <2>10. CASE phase' = "REPLY"
      <3>1. Live'
        BY <2>10 DEF Live
      <3>2. /\ k \in 0 .. Len(View) /\ Len(View') = Len(View) - k
            /\ \A i \in 1 .. Len(View') : View'[i] = View[i + k] /\ i + k \in 1 .. Len(View)
            /\ Len(View) \in Nat
        BY <1>2, <1>4, ViewParts DEF Behind
      <3>3. HostOK'
        <4>1. answer.of = calls' - 1 /\ calls' # 0
          BY <1>2, <1>6, <1>7, <1>9
        <4>2. Front(View', Len(received'))
          BY <1>1 DEF Front
        <4>3. answer'.of <= calls' /\ taken'.of <= calls' /\ home' <= boot'
          BY <1>1, <1>2, <1>3, <1>9, <2>6 DEF TypeOK
        <4> QED
          BY <1>1, <2>8, <2>10, <3>1, <4>1, <4>2, <4>3 DEF HostOK
      <3>4. \A i \in 1 .. Len(View') : View'[i].kind = "MARK" => View'[i].of <= calls
        BY <1>2, <3>2 DEF NumbersOK
      <3>5. NumbersOK'
        <4>1. \A i \in 1 .. Len(View') : View'[i].kind = "MARK" => View'[i].of <= calls'
          <5> TAKE i \in 1 .. Len(View')
          <5>1. View'[i] \in Record
            <6>1. View \in Seq(Record)
              BY <1>2, ViewParts
            <6>2. i + k \in 1 .. Len(View) /\ View'[i] = View[i + k]
              BY <3>2
            <6>3. View[i + k] \in Record
              BY <6>1, <6>2
            <6> QED
              BY <6>2, <6>3
          <5>2. View'[i].kind = "MARK" => View'[i].of \in Nat
            BY <5>1, RecordFacts
          <5> QED
            BY <1>2, <1>9, <3>4, <5>2
        <4>2. \A i \in 1 .. Len(View') : View'[i] # Mark(calls')
          <5>1. Mark(calls').kind = "MARK" /\ Mark(calls').of = calls + 1
            BY <1>9, RecordFacts
          <5> QED
            BY <1>2, <3>4, <5>1
        <4>3. \A j \in 1 .. Len(rx') : rx'[j] # Marker'
          <5>1. Marker'.of = calls + 1
            BY <2>1, LineFacts
          <5> QED
            BY <1>2, <2>1, <2>2, <2>3, <2>5, <5>1
        <4> QED
          BY <1>1, <2>7, <2>10, <4>1, <4>2, <4>3 DEF NumbersOK
      <3>6. ASSUME calls' > 1 PROVE kind = "COMMAND" /\ Len(rx) = 0
        BY <1>2, <1>6, <1>7, <1>9, <3>6
      <3>7. ASSUME calls' > 1, Len(View') # 0, View'[1].kind # "BANNER" PROVE FALSE
        <4>1. Len(View) # 0 /\ View[1] = Banner
          BY <1>7, <3>2, <3>6, <3>7
        <4>2. k = 0
          <5> SUFFICES ASSUME k # 0 PROVE FALSE
            OBVIOUS
          <5>1. 1 \in 1 .. k /\ 1 \in 1 .. Len(tx)
            BY <1>2
          <5>2. Taken(k)[1] = tx[1] /\ Len(Taken(k)) = k /\ Taken(k) \in Seq(Record)
            BY <1>2, <5>1, SplitLine
          <5>3. tx[1] = Prompt
            BY <1>9, <5>1, <5>2 DEF OnlyPrompts
          <5>4. View[1] = tx[1]
            <6>1. /\ received \o Taken(k) \in Seq(Record) /\ Len(received \o Taken(k)) = k
                  /\ received \o Taken(k) = Taken(k)
              BY <1>2, <1>3, <5>2, NothingMore
            <6>2. \A i \in 1 .. Len(received \o Taken(k)) : View[i] = (received \o Taken(k))[i]
              BY <1>1, <1>2, ReadView
            <6>3. \A i \in 1 .. k : View[i] = Taken(k)[i]
              BY <6>1, <6>2, Zenon
            <6> QED
              BY <5>1, <5>2, <6>3
          <5> QED
            BY <4>1, <5>3, <5>4, RecordFacts
        <4>3. View'[1] = View[1]
          <5>1. 1 \in 1 .. Len(View') /\ 1 + k = 1
            BY <3>2, <3>7, <4>2
          <5> QED
            BY <3>2, <5>1
        <4> QED
          BY <3>7, <4>1, <4>3, RecordFacts
      <3>8. RxOK'
        <4>1. rx'[Len(rx')] = Request' /\ Len(rx') # 0
          BY <2>2
        <4>2. ASSUME calls' > 1, Unbroken' PROVE boot = home /\ Len(rx') = 1 /\ Len(View') = 0
          <5>1. Len(View') = 0
            BY <3>2, <3>7, <4>2 DEF Unbroken, Front
          <5>2. kind = "COMMAND" /\ Len(rx') = 1
            BY <2>2, <3>6, <4>2
          <5>3. boot # home => FALSE
            <6> SUFFICES ASSUME boot # home PROVE FALSE
              OBVIOUS
            <6>1. Len(View) # 0 /\ View[1] = Banner
              BY <1>7, <5>2
            <6>2. k = Len(View)
              BY <3>2, <5>1
            <6>3. k # 0 /\ 1 \in 1 .. k
              BY <3>2, <6>1, <6>2
            <6>4. Taken(k)[1] = Prompt
              BY <1>2, <1>9, <6>3, SplitLine DEF OnlyPrompts
            <6>5. received \o Taken(k) = Taken(k) /\ Len(Taken(k)) = k
              BY <1>2, <1>3, SplitLine, NothingMore
            <6>6. \A i \in 1 .. Len(received \o Taken(k)) : View[i] = (received \o Taken(k))[i]
              BY <1>1, <1>2, ReadView
            <6>7. View[1] = Taken(k)[1]
              BY <6>3, <6>5, <6>6
            <6> QED
              BY <6>1, <6>4, <6>7, RecordFacts
          <5> QED
            BY <5>1, <5>2, <5>3
        <4> QED
          BY <1>1, <2>10, <4>1, <4>2 DEF RxOK
      <3>9. FormOK'
        <4>1. ASSUME calls' > 1, NEW i \in 1 .. Len(View'), Front(View', i) PROVE FALSE
          <5>1. Len(View') # 0 /\ 1 \in 1 .. i
            BY <3>2, <4>1
          <5> QED
            BY <3>7, <4>1, <5>1 DEF Front
        <4> QED
          BY <2>10, <4>1 DEF FormOK
      <3>10. MarkOK'
        BY <2>10, <3>5 DEF MarkOK, NumbersOK
      <3>11. BoundaryOK' /\ AnswerIsWhole'
        BY <1>1, <1>2 DEF BoundaryOK, AnswerIsWhole
      <3> QED
        BY <1>5, <3>3, <3>5, <3>8, <3>9, <3>10, <3>11 DEF Inv
    <2> QED
      BY <1>9, <2>9, <2>10
  <1> QED
    BY <1>1, <1>8, <1>9

LEMMA SynchronizeStep ==
    ASSUME Inv, Synchronize, TypeOK'
    PROVE  Inv'
  <1>1. Send("DISCARD") /\ ~attempted /\ attempted' = TRUE
    BY DEF Synchronize
  <1> QED
    BY <1>1, SendStep

LEMMA CommandStep ==
    ASSUME Inv, Command, TypeOK'
    PROVE  Inv'
  <1>1. Send("COMMAND") /\ synchronized /\ attempted' = attempted
    BY DEF Command
  <1>2. attempted /\ attempted \in BOOLEAN
    BY <1>1 DEF Inv, HostOK, TypeOK
  <1>3. attempted' = TRUE
    BY <1>1, <1>2
  <1> QED
    BY <1>1, <1>3, SendStep

-----------------------------------------------------------------------------
(* The invariant: what was read                                            *)

\* Where a marker that was accepted as an echo stands.
LEMMA EchoStands ==
    ASSUME NEW records \in Seq(Record), NEW n, Echoes(records, n), Framed(records),
           records[Len(records)] = Prompt
    PROVE  /\ Len(records) > 2 /\ Len(records) \in Nat
           /\ records[Len(records) - 1] = Mark(n) /\ records[Len(records) - 2] = Prompt
  <1> DEFINE end == Len(records)
  <1>1. end \in Nat /\ end > 2 /\ records[end - 1].kind = "MARK" /\ records[end - 2] = Prompt
    BY DEF Framed
  <1>2. DOMAIN records = 1 .. end /\ end - 1 \in 1 .. end
    BY <1>1
  <1>3. PICK i \in DOMAIN records :
           records[i] = Mark(n) /\ \A j \in DOMAIN records : records[j].kind = "MARK" => j = i
    BY DEF Echoes
  <1>4. end - 1 = i
    BY <1>1, <1>2, <1>3
  <1> QED
    BY <1>1, <1>3, <1>4

\* What the runner goes on with holds no banner, and the view starts with it.
LEMMA ReadFront ==
    ASSUME TypeOK, NEW k \in 0 .. Len(tx), NEW records, records = received \o Taken(k),
           ~Broken(records)
    PROVE  /\ records \in Seq(Record) /\ Len(records) \in Nat /\ Len(records) <= Len(View)
           /\ \A i \in 1 .. Len(records) : View[i] = records[i]
           /\ \A i \in 1 .. Len(records) : Front(View, i)
           /\ Front(View, Len(records))
  <1> DEFINE z == (Rest(k) \o Pending) \o out
  <1>1. records \in Seq(Record) /\ z \in Seq(Record) /\ View = records \o z
    BY ReadParts
  <1> HIDE DEF z
  <1>2. Len(records) \in Nat /\ Len(records) <= Len(View)
        /\ \A i \in 1 .. Len(records) : View[i] = records[i]
    BY <1>1, Glue
  <1>3. DOMAIN records = 1 .. Len(records)
    BY <1>1
  <1>4. \A i \in 1 .. Len(records) : records[i].kind # "BANNER"
    BY <1>3 DEF Broken, Has
  <1>5. \A i \in 1 .. Len(records) : View[i].kind # "BANNER"
    BY <1>2, <1>4
  <1>6. Front(View, Len(records)) /\ \A i \in 1 .. Len(records) : Front(View, i)
    BY <1>2, <1>5 DEF Front
  <1> QED
    BY <1>1, <1>2, <1>6

\* A read that goes on.
LEMMA WaitStep ==
    ASSUME Inv, TypeOK', phase \in {"REPLY", "MARKER"}, NEW k \in 0 .. Len(tx), NEW records,
           records = received \o Taken(k), ~Broken(records), Wait(records), tx' = Rest(k),
           UNCHANGED <<skipping, out, lossPending, boot, taken, home>>
    PROVE  Inv'
  <1>1. /\ received' = records /\ UNCHANGED <<phase, synchronized, attempted, calls, answer, rx>>
    BY DEF Wait
  <1>2. TypeOK /\ Live
    BY DEF Inv, Live
  <1>3. View' = View
    BY <1>1, <1>2, ReadView
  <1>4. /\ records \in Seq(Record) /\ Len(records) = Len(received) + k /\ Len(received) \in Nat
        /\ \A i \in 1 .. Len(received) : records[i] = received[i]
    BY <1>2, ReadParts
  <1>5. Len(records) <= Len(View) /\ \A i \in 1 .. Len(records) : View[i] = records[i]
    BY <1>2, ReadView
  <1>6. Front(View, Len(records))
    BY <1>2, ReadFront
  <1>7. HostOK'
    BY <1>1, <1>2, <1>3, <1>6 DEF Inv, HostOK, Live
  <1>8. NumbersOK' /\ OutOK' /\ RxOK'
    BY <1>1, <1>3 DEF Inv, NumbersOK, OutOK, RxOK, Live, Front, Unbroken, Request, Marker
  <1>9. FormOK'
    <2>1. ASSUME calls > 1, phase = "MARKER"
          PROVE  Len(records) >= 2 /\ records[1] \in Shown /\ records[2] = Prompt
      <3>1. Len(received) >= 2 /\ received[1] \in Shown /\ received[2] = Prompt
        BY <1>2, <2>1 DEF Inv, FormOK
      <3>2. 1 \in 1 .. Len(received) /\ 2 \in 1 .. Len(received)
        BY <1>4, <3>1
      <3> QED
        BY <1>4, <3>1, <3>2
    <2> QED
      BY <1>1, <1>2, <1>3, <2>1 DEF Inv, FormOK, Live, Front, Shown
  <1>10. MarkOK' /\ BoundaryOK'
    BY <1>1, <1>3 DEF Inv, MarkOK, BoundaryOK, Live, Front
  <1>11. AnswerIsWhole'
    BY <1>1 DEF Inv, AnswerIsWhole
  <1> QED
    BY <1>7, <1>8, <1>9, <1>10, <1>11 DEF Inv

\* A read that ends in the prompt and is answered with the marker.
LEMMA WriteMarkerStep ==
    ASSUME Inv, TypeOK', phase = "REPLY", NEW k \in 0 .. Len(tx), NEW records,
           records = received \o Taken(k), ~Broken(records), records[Len(records)] = Prompt,
           k > 0, WriteMarker(records), tx' = Rest(k),
           UNCHANGED <<skipping, out, lossPending, boot, taken, home>>
    PROVE  Inv'
  <1>1. /\ phase' \in {"MARKER", "IDLE"} /\ rx' = Append(rx, Marker)
        /\ (phase' = "IDLE" => received' = <<>>) /\ (phase' # "IDLE" => received' = records)
        /\ UNCHANGED <<synchronized, attempted, calls, answer>>
    BY DEF WriteMarker, Marker
  <1>2. TypeOK /\ Live /\ HostOK /\ NumbersOK /\ OutOK /\ RxOK /\ FormOK /\ calls \in Nat
        /\ attempted /\ ~synchronized /\ calls # 0 /\ taken.of <= calls
    BY DEF Inv, Live, HostOK, TypeOK
  <1>3. /\ Marker.of = calls /\ Marker.kind = "HILMARK" /\ Marker \in Lines
        /\ Marker' = Marker /\ Request' = Request /\ ~Ours(Marker)
    BY <1>1, <1>2, LineFacts DEF Marker, Request, Ours
  <1>4. /\ Len(rx') = Len(rx) + 1 /\ Len(rx) \in Nat /\ rx'[Len(rx) + 1] = Marker
        /\ \A j \in 1 .. Len(rx) : rx'[j] = rx[j]
    BY <1>1, <1>2, <1>3, RxAppend
  <1>5. \A j \in 1 .. Len(rx') : j \in 1 .. Len(rx) \/ j = Len(rx) + 1
    BY <1>4
  <1>6. \A j \in 1 .. Len(rx') :
          /\ rx'[j].of <= calls
          /\ Ours(rx'[j]) => /\ rx'[j] = Request /\ taken.of < calls
                             /\ \A i \in 1 .. Len(rx') : Ours(rx'[i]) => i = j
    <2>1. \A j \in 1 .. Len(rx') : rx'[j].of <= calls
      BY <1>2, <1>3, <1>4, <1>5 DEF NumbersOK
    <2>2. \A j \in 1 .. Len(rx') : Ours(rx'[j]) => j \in 1 .. Len(rx) /\ Ours(rx[j])
      BY <1>3, <1>4, <1>5
    <2> QED
      BY <1>2, <1>4, <2>1, <2>2 DEF NumbersOK
  <1>7. OutOK'
    BY <1>2 DEF OutOK
  <1>8. CASE phase' = "IDLE"
    <2> DEFINE m == Len(records)
    <2>1. Behind(View', View, m)
      BY <1>1, <1>2, <1>8, ReadView
    <2> HIDE DEF m
    <2>2. \A j \in 1 .. Len(rx') :
            /\ rx'[j].of <= calls'
            /\ Ours(rx'[j]) => /\ rx'[j] = Request' /\ taken.of < calls'
                               /\ \A i \in 1 .. Len(rx') : Ours(rx'[i]) => i = j
      BY <1>1, <1>3, <1>6
    <2>3. calls' \in Nat /\ calls <= calls' /\ taken.of <= calls'
      BY <1>1, <1>2
    <2>4. /\ UNCHANGED <<answer, boot, taken, home>> /\ ~synchronized' /\ attempted'
          /\ received' = <<>>
      BY <1>1, <1>2, <1>8
    <2> QED
      BY <1>7, <1>8, <2>1, <2>2, <2>3, <2>4, QuietStep
  <1>9. CASE phase' = "MARKER"
    <2>1. received' = records /\ View' = View /\ Live'
      BY <1>1, <1>2, <1>9, ReadView DEF Live
    <2>2. /\ records \in Seq(Record) /\ Len(records) \in Nat /\ Len(records) <= Len(View)
          /\ \A i \in 1 .. Len(records) : View[i] = records[i]
          /\ \A i \in 1 .. Len(records) : Front(View, i)
          /\ Front(View, Len(records)) /\ Len(View) \in Nat
      BY <1>2, ReadFront, ViewParts
    <2>3. Len(records) > 0
      <3>1. Len(records) = Len(received) + k /\ Len(received) \in Nat
        BY <1>2, ReadParts
      <3> QED
        BY <3>1
    <2>4. ASSUME calls > 1
          PROVE  Len(records) = 2 /\ records[1] \in Shown /\ records[2] = Prompt
      <3>1. Len(records) \in 1 .. Len(records) /\ Len(records) \in 1 .. Len(View)
            /\ 1 \in 1 .. Len(records) /\ 1 \in 1 .. Len(View)
        BY <2>2, <2>3
      <3>2. Len(records) <= 2 /\ View[1] \in Shown
        BY <1>2, <2>2, <2>4, <3>1 DEF FormOK
      <3>3. records[1] \in Shown
        BY <2>2, <3>1, <3>2
      <3>4. Prompt \notin Shown
        BY RecordFacts DEF Shown
      <3>5. Len(records) # 1
        BY <3>3, <3>4
      <3>6. Len(records) = 2
        BY <2>2, <2>3, <3>2, <3>5
      <3> QED
        BY <3>3, <3>6
    <2>5. HostOK'
      BY <1>1, <1>2, <1>9, <2>1, <2>2 DEF HostOK, Live
    <2>6. NumbersOK'
      <3>1. \A j \in 1 .. Len(rx') : rx'[j] = Marker => j = Len(rx')
        BY <1>2, <1>4, <1>5 DEF NumbersOK
      <3> QED
        BY <1>1, <1>2, <1>3, <1>6, <1>9, <2>1, <3>1 DEF NumbersOK
    <2>7. RxOK'
      <3> DEFINE served == skipping \/ (taken = [of |-> calls, boot |-> boot] /\ home = boot)
      <3>1. ASSUME Unbroken
            PROVE  /\ rx'[Len(rx')] = Marker
                   /\ IF Len(rx') = 1 THEN served ELSE rx'[Len(rx') - 1] = Request
                   /\ calls > 1 => boot = home /\ Len(rx') = 1 /\ Len(View) = 2
        <4>1. IF Len(rx) = 0 THEN served ELSE rx[Len(rx)] = Request
          BY <1>2, <3>1 DEF RxOK
        <4>2. IF Len(rx') = 1 THEN served ELSE rx'[Len(rx') - 1] = Request
          <5>1. Len(rx) = 0 => served
            BY <4>1, Zenon
          <5>2. Len(rx) # 0 => rx'[Len(rx)] = Request
            BY <1>4, <4>1
          <5>3. Len(rx') = 1 <=> Len(rx) = 0
            BY <1>4
          <5>4. Len(rx') - 1 = Len(rx)
            BY <1>4
          <5> QED
            BY <5>1, <5>2, <5>3, <5>4, Zenon
        <4>3. ASSUME calls > 1 PROVE boot = home /\ Len(rx') = 1 /\ Len(View) = 2
          <5>1. Len(View) # 0
            BY <2>2, <2>3
          <5>2. boot = home /\ Len(rx) = 0
            BY <1>2, <3>1, <4>3, <5>1 DEF RxOK
          <5>3. Len(View) \in 1 .. Len(View) /\ Front(View, Len(View))
            BY <2>2, <3>1, <5>1 DEF Unbroken
          <5>4. Len(View) <= 2
            BY <1>2, <4>3, <5>3 DEF FormOK
          <5>5. Len(records) = 2
            BY <2>4, <4>3
          <5>6. Len(View) = 2
            <6>1. Len(records) <= Len(View) /\ Len(View) \in Nat
              BY <2>2
            <6>2. 2 <= Len(View)
              BY <5>5, <6>1, Zenon
            <6>3. \A n \in Nat : n <= 2 /\ 2 <= n => n = 2
              OBVIOUS
            <6> QED
              BY <5>4, <6>1, <6>2, <6>3, Zenon
          <5>7. Len(rx') = 1
            BY <1>4, <5>2
          <5> QED
            BY <5>2, <5>6, <5>7
        <4> QED
          BY <1>4, <4>2, <4>3
      <3> HIDE DEF served
      <3>2. Unbroken' <=> Unbroken
        BY <2>1 DEF Unbroken, Front
      <3>3. phase' # "REPLY" /\ served = (skipping \/ (taken = [of |-> calls, boot |-> boot] /\ home = boot))
        BY <1>9 DEF served
      <3> QED
        BY <1>1, <1>3, <2>1, <3>1, <3>2, <3>3 DEF RxOK
    <2>8. FormOK'
      BY <1>1, <1>9, <2>1, <2>4 DEF FormOK, Shown
    <2>9. MarkOK'
      <3>1. \A i \in 1 .. Len(View) : View[i] # Mark(calls)
        BY <1>2 DEF NumbersOK
      <3> QED
        BY <1>1, <2>1, <3>1 DEF MarkOK
    <2>10. BoundaryOK' /\ AnswerIsWhole'
      BY <1>1, <1>2 DEF Inv, BoundaryOK, AnswerIsWhole
    <2> QED
      BY <1>7, <2>5, <2>6, <2>7, <2>8, <2>9, <2>10 DEF Inv
  <1> QED
    BY <1>1, <1>8, <1>9

\* What an accepted answer says about the firmware.
LEMMA AcceptFacts ==
    ASSUME Inv, phase = "MARKER", NEW k \in 0 .. Len(tx), NEW records,
           records = received \o Taken(k), ~Broken(records), records[Len(records)] = Prompt,
           Echoes(records, calls), Framed(records)
    PROVE  /\ records \in Seq(Record)
           /\ calls # 0 /\ taken = [of |-> calls, boot |-> home] /\ rx = <<>>
           /\ calls > 1 => Len(records) = 4
           /\ boot = home => Len(View) = Len(records)
           /\ boot # home => /\ Len(records) + 1 \in 1 .. Len(View)
                            /\ View[Len(records) + 1] = Banner
  <1>1. TypeOK /\ Live
    BY DEF Inv, Live
  <1>2. /\ records \in Seq(Record) /\ Len(records) \in Nat /\ Len(records) <= Len(View)
        /\ \A i \in 1 .. Len(records) : View[i] = records[i]
        /\ \A i \in 1 .. Len(records) : Front(View, i)
        /\ Len(View) \in Nat
    BY <1>1, ReadFront, ViewParts
  <1>3. Len(records) > 2 /\ records[Len(records) - 1] = Mark(calls)
    BY <1>2, EchoStands
  <1> DEFINE i == Len(records) - 1
  <1>4. /\ i \in 1 .. Len(View) /\ View[i] = Mark(calls) /\ Front(View, i)
        /\ i + 1 = Len(records) /\ i + 2 = Len(records) + 1 /\ View[Len(records)] = Prompt
    <2>1. i \in 1 .. Len(records) /\ i \in 1 .. Len(View) /\ Len(records) \in 1 .. Len(records)
          /\ i + 1 = Len(records) /\ i + 2 = Len(records) + 1
      BY <1>2, <1>3
    <2>2. View[i] = records[i] /\ View[Len(records)] = records[Len(records)] /\ Front(View, i)
      BY <1>2, <2>1
    <2> QED
      BY <1>3, <2>1, <2>2
  <1> HIDE DEF i
  <1>5. View[i + 1] = Prompt
    BY <1>4, Zenon
  <1>6. /\ taken = [of |-> calls, boot |-> home] /\ rx = <<>>
        /\ calls > 1 => i = 3
        /\ \/ Len(View) = i + 1 /\ boot = home
           \/ i + 2 \in 1 .. Len(View) /\ View[i + 2] = Banner /\ boot # home
    BY <1>1, <1>4, <1>5 DEF Inv, MarkOK
  <1>7. calls > 1 => Len(records) = 4
    BY <1>4, <1>6
  <1>8. calls # 0
    BY <1>1 DEF Inv, HostOK
  <1>9. /\ boot = home => Len(View) = Len(records)
        /\ boot # home => /\ Len(records) + 1 \in 1 .. Len(View)
                         /\ View[Len(records) + 1] = Banner
    <2>1. CASE Len(View) = i + 1 /\ boot = home
      BY <1>4, <2>1
    <2>2. CASE i + 2 \in 1 .. Len(View) /\ View[i + 2] = Banner /\ boot # home
      BY <1>4, <2>2, Zenon
    <2> QED
      BY <1>6, <2>1, <2>2
  <1> QED
    BY <1>2, <1>6, <1>7, <1>8, <1>9

\* The text of an answer behind the first.
LEMMA AnswerText ==
    ASSUME Inv, phase = "MARKER", NEW k \in 0 .. Len(tx), NEW records,
           records = received \o Taken(k), ~Broken(records), records[Len(records)] = Prompt,
           Echoes(records, calls), Framed(records), calls > 1,
           answer' = [of |-> calls, text |-> Text(records)]
    PROVE  AnswerIsWhole'
  <1>1. records \in Seq(Record) /\ Len(records) = 4 /\ TypeOK /\ Live
    BY AcceptFacts DEF Inv, Live
  <1>2. Len(received) >= 2 /\ received[1] \in Shown /\ received[2] = Prompt
    BY <1>1 DEF Inv, FormOK
  <1>3. records[1] \in Shown /\ records[2] = Prompt
    <2>1. Len(received) \in Nat /\ \A i \in 1 .. Len(received) : records[i] = received[i]
      BY <1>1, ReadParts
    <2>2. 1 \in 1 .. Len(received) /\ 2 \in 1 .. Len(received)
      BY <1>2, <2>1
    <2> QED
      BY <1>2, <2>1, <2>2
  <1> DEFINE text == Text(records)
  <1>4. text \in Seq(Record) /\ Len(text) = 2 /\ text[1] = records[1] /\ text[2] = Prompt
    <2>1. text = SubSeq(records, 1, 2)
      BY <1>1 DEF Text
    <2>2. \A i \in 1 .. 2 : records[i] \in Record
      BY <1>1
    <2>3. /\ SubSeq(records, 1, 2) \in Seq(Record) /\ Len(SubSeq(records, 1, 2)) = 2
          /\ SubSeq(records, 1, 2)[1] = records[1] /\ SubSeq(records, 1, 2)[2] = records[2]
      <3>1. records \in Seq(Record) /\ Len(records) \in Nat /\ 2 \in 0 .. Len(records)
        BY <1>1
      <3>2. /\ SubSeq(records, 1, 2) \in Seq(Record) /\ Len(SubSeq(records, 1, 2)) = 2
            /\ \A i \in 1 .. 2 : SubSeq(records, 1, 2)[i] = records[i]
        BY <2>2, <3>1
      <3>3. 1 \in 1 .. 2 /\ 2 \in 1 .. 2
        OBVIOUS
      <3> QED
        BY <3>2, <3>3, Zenon
    <2> QED
      BY <1>3, <2>1, <2>3
  <1>5. answer'.of = calls /\ answer'.text = text
    OBVIOUS
  <1> HIDE DEF text
  <1>6. \A r \in Record : text[1] = r => text = <<r, Prompt>>
    <2> SUFFICES ASSUME NEW r \in Record, text[1] = r PROVE text = <<r, Prompt>>
      OBVIOUS
    <2>1. /\ <<r, Prompt>> \in Seq(Record) /\ Len(<<r, Prompt>>) = 2
          /\ <<r, Prompt>>[1] = r /\ <<r, Prompt>>[2] = Prompt
      BY RecordFacts, Pair
    <2> DEFINE w == <<r, Prompt>>
    <2>2. w \in Seq(Record) /\ Len(w) = 2 /\ w[1] = text[1] /\ w[2] = text[2]
      BY <1>4, <2>1
    <2> HIDE DEF w
    <2>3. \A i \in 1 .. 2 : text[i] = w[i]
      BY <2>2
    <2>4. text = w
      BY <1>4, <2>2, <2>3, SeqEqual
    <2> QED
      BY <2>4 DEF w
  <1>7. text[1] \in {Data(calls), Ack, Lost}
    BY <1>3, <1>4 DEF Shown
  <1>8. CASE text[1] = Data(calls)
    <2>1. text = <<Data(calls), Prompt>>
      BY <1>1, <1>6, <1>8, RecordFacts DEF TypeOK
    <2> QED
      BY <1>5, <2>1, Zenon DEF AnswerIsWhole
  <1>9. CASE text[1] = Ack
    <2>1. text = Refusal
      BY <1>6, <1>9, RecordFacts DEF Refusal
    <2> QED
      BY <1>5, <2>1, Zenon DEF AnswerIsWhole
  <1>10. CASE text[1] = Lost
    <2>1. DOMAIN text = 1 .. 2
      BY <1>4
    <2>2. text[1].kind = "LOST" /\ text[2].kind = "PROMPT"
      BY <1>4, <1>10, RecordFacts
    <2>3. /\ Has(text, "LOST") /\ ~Has(text, "BANNER") /\ ~Has(text, "MARK")
          /\ \A i \in DOMAIN text : text[i].kind = "DATA" => text[i] = Data(calls)
      <3>1. 1 \in DOMAIN text /\ \A i \in DOMAIN text : i = 1 \/ i = 2
        BY <2>1
      <3> QED
        BY <2>2, <3>1, Zenon DEF Has
    <2> QED
      BY <1>5, <2>3, Zenon DEF AnswerIsWhole
  <1> QED
    BY <1>7, <1>8, <1>9, <1>10

\* A read that ends the exchange with an answer.
LEMMA AcceptStep ==
    ASSUME Inv, TypeOK', phase = "MARKER", NEW k \in 0 .. Len(tx), NEW records,
           records = received \o Taken(k), ~Broken(records), records[Len(records)] = Prompt,
           Echoes(records, calls), Framed(records), Accept(records), tx' = Rest(k),
           UNCHANGED <<skipping, out, lossPending, boot, taken, home>>
    PROVE  Inv'
  <1>1. /\ phase' = "IDLE" /\ received' = <<>> /\ UNCHANGED <<attempted, calls, rx>>
        /\ \/ synchronized' = TRUE /\ answer' = [of |-> calls, text |-> Text(records)]
           \/ UNCHANGED <<synchronized, answer>>
    BY Zenon DEF Accept
  <1>2. /\ records \in Seq(Record)
        /\ calls # 0 /\ taken = [of |-> calls, boot |-> home] /\ rx = <<>>
        /\ calls > 1 => Len(records) = 4
        /\ boot = home => Len(View) = Len(records)
        /\ boot # home => /\ Len(records) + 1 \in 1 .. Len(View)
                         /\ View[Len(records) + 1] = Banner
    BY AcceptFacts
  <1>3. TypeOK /\ Live /\ HostOK /\ attempted /\ ~synchronized /\ calls \in Nat /\ taken.of = calls
    BY <1>2 DEF Inv, Live, HostOK, TypeOK
  <1> DEFINE m == Len(records)
  <1>4. Behind(View', View, m)
    BY <1>1, <1>3, ReadView
  <1> HIDE DEF m
  <1>5. OutOK'
    BY DEF Inv, OutOK
  <1>6. CASE UNCHANGED <<synchronized, answer>>
    <2>1. Len(rx') = 0
      BY <1>1, <1>2
    <2>2. \A j \in 1 .. Len(rx') :
            /\ rx'[j].of <= calls'
            /\ Ours(rx'[j]) => /\ rx'[j] = Request' /\ taken.of < calls'
                               /\ \A i \in 1 .. Len(rx') : Ours(rx'[i]) => i = j
      BY <2>1
    <2>3. calls' \in Nat /\ calls <= calls' /\ taken.of <= calls'
      BY <1>1, <1>3
    <2>4. UNCHANGED <<answer, boot, taken, home>> /\ ~synchronized' /\ attempted'
      BY <1>1, <1>3, <1>6
    <2> QED
      BY <1>1, <1>4, <1>5, <2>2, <2>3, <2>4, QuietStep
  <1>7. CASE synchronized' = TRUE /\ answer' = [of |-> calls, text |-> Text(records)]
    <2>1. answer'.of = calls
      BY <1>7
    <2>2. /\ m \in 0 .. Len(View) /\ Len(View') = Len(View) - m /\ Len(View) \in Nat
          /\ \A i \in 1 .. Len(View') : View'[i] = View[i + m]
      BY <1>3, <1>4, ViewParts DEF Behind
    <2>3. boot = home => Len(View') = 0
      BY <1>2, <2>2 DEF m
    <2>4. ASSUME boot # home PROVE Len(View') # 0 /\ View'[1] = Banner
      <3>1. m + 1 \in 1 .. Len(View) /\ View[m + 1] = Banner
        BY <1>2, <2>4 DEF m
      <3>2. 1 \in 1 .. Len(View') /\ 1 + m = m + 1
        BY <2>2, <3>1
      <3> QED
        BY <2>2, <3>1, <3>2
    <2>5. BoundaryOK'
      BY <1>1, <1>2, <2>1, <2>3, <2>4 DEF BoundaryOK
    <2>6. ~Live'
      BY <1>1 DEF Live
    <2>7. HostOK'
      <3>1. answer'.of <= calls' /\ taken'.of <= calls' /\ home' <= boot'
        BY <1>1, <1>3, <2>1 DEF HostOK
      <3> QED
        BY <1>1, <1>3, <2>6, <3>1 DEF HostOK
    <2>8. NumbersOK'
      <3>1. \A i \in 1 .. Len(View') : View'[i].kind = "MARK" => View'[i].of <= calls
        <4> TAKE i \in 1 .. Len(View')
        <4>1. i + m \in 1 .. Len(View) /\ View'[i] = View[i + m]
          BY <2>2
        <4> QED
          BY <4>1 DEF Inv, NumbersOK
      <3>2. Len(rx') = 0
        BY <1>1, <1>2
      <3> QED
        BY <1>1, <3>1, <3>2 DEF NumbersOK
    <2>9. RxOK' /\ FormOK' /\ MarkOK'
      BY <2>6 DEF RxOK, FormOK, MarkOK
    <2>10. AnswerIsWhole'
      <3>1. CASE calls > 1
        BY <1>7, <3>1, AnswerText
      <3>2. CASE ~(calls > 1)
        BY <2>1, <3>2 DEF AnswerIsWhole
      <3> QED
        BY <3>1, <3>2
    <2> QED
      BY <1>5, <2>5, <2>7, <2>8, <2>9, <2>10 DEF Inv
  <1> QED
    BY <1>1, <1>6, <1>7

LEMMA ReadStep ==
    ASSUME Inv, Read, TypeOK'
    PROVE  Inv'
  <1>1. PICK k \in 1 .. Len(tx), records \in Seq(Record) :
             /\ phase \in {"REPLY", "MARKER"}
             /\ records = received \o Taken(k) /\ tx' = Rest(k)
             /\ UNCHANGED <<skipping, out, lossPending, boot, taken, home>>
             /\ \/ Lose /\ UNCHANGED <<calls, rx>>
                \/ ~Broken(records) /\ Wait(records)
                \/ /\ ~Broken(records) /\ records[Len(records)] = Prompt
                   /\ phase = "REPLY" /\ WriteMarker(records)
                \/ /\ ~Broken(records) /\ records[Len(records)] = Prompt
                   /\ phase = "MARKER" /\ Echoes(records, calls) /\ Framed(records)
                   /\ Accept(records)
    BY ReadFacts DEF Inv
  <1>2. k \in 0 .. Len(tx) /\ k > 0
    BY Parts DEF Inv
  <1>3. CASE Lose /\ UNCHANGED <<calls, rx>>
    BY <1>1, <1>2, <1>3, LoseStep
  <1>4. CASE ~Broken(records) /\ Wait(records)
    BY <1>1, <1>2, <1>4, WaitStep
  <1>5. CASE /\ ~Broken(records) /\ records[Len(records)] = Prompt
             /\ phase = "REPLY" /\ WriteMarker(records)
    BY <1>1, <1>2, <1>5, WriteMarkerStep
  <1>6. CASE /\ ~Broken(records) /\ records[Len(records)] = Prompt
             /\ phase = "MARKER" /\ Echoes(records, calls) /\ Framed(records)
             /\ Accept(records)
    BY <1>1, <1>2, <1>6, AcceptStep
  <1> QED
    BY <1>1, <1>3, <1>4, <1>5, <1>6

-----------------------------------------------------------------------------
(* The theorems                                                            *)

LEMMA InvStep ==
    ASSUME Inv, [Next]_vars
    PROVE  Inv'
  <1>1. TypeOK'
    BY TypeStep DEF Inv
  <1>2. CASE UNCHANGED vars
    <2>1. UNCHANGED <<host, rx, skipping, boot, taken, home>> /\ View' = View /\ OutOK'
      BY <1>2 DEF vars, host, firmware, View, Pending, Inv, OutOK
    <2> QED
      BY <1>1, <2>1, SameView
  <1>3. CASE Next
    BY <1>1, <1>3, TakeLineStep, LoseLineStep, PrintRecordStep, MarkLossStep, RestartStep,
       ReadUntilIdleStep, SynchronizeStep, CommandStep, ReadStep, GiveUpStep, Zenon DEF Next
  <1> QED
    BY <1>2, <1>3

\* The invariant holds in every run of the exchange.
THEOREM InvHolds == Spec => []Inv
  <1>1. Init => Inv
    BY InvInit
  <1>2. Inv /\ [Next]_vars => Inv'
    BY InvStep
  <1> QED
    BY <1>1, <1>2, PTL DEF Spec

\* An answer the runner accepts is all its command printed, a refusal, or it shows its
\* loss, for any number of commands and restarts.
THEOREM WholeAnswers == Spec => []AnswerIsWhole
  <1>1. Inv => AnswerIsWhole
    BY DEF Inv
  <1> QED
    BY <1>1, InvHolds, PTL

\* While the runner holds the boundary, nothing of an earlier command is under way, or
\* a restart's banner is in its way.
THEOREM CleanBoundary == Spec => []BoundaryIsClean
  <1>1. ASSUME Inv, synchronized
        PROVE  /\ taken = [of |-> calls, boot |-> home] /\ answer.of = calls /\ rx = <<>>
               /\ boot = home => out = <<>> /\ tx = <<>>
               /\ boot # home => Has(tx \o out, "BANNER")
    <2>1. /\ TypeOK /\ received = <<>>
          /\ taken = [of |-> calls, boot |-> home] /\ answer.of = calls /\ rx = <<>>
          /\ boot = home => Len(View) = 0
          /\ boot # home => Len(View) # 0 /\ View[1] = Banner
      BY <1>1 DEF Inv, BoundaryOK, HostOK, Live
    <2> DEFINE a == tx \o Pending
               b == a \o out
    <2>2. /\ tx \in Seq(Record) /\ out \in Seq(Record) /\ Pending \in Seq(Record)
          /\ a \in Seq(Record) /\ b \in Seq(Record) /\ View = b
      <3>1. /\ tx \in Seq(Record) /\ out \in Seq(Record) /\ Pending \in Seq(Record)
            /\ a \in Seq(Record) /\ b \in Seq(Record)
        BY <2>1, Parts, Glue
      <3>2. View = b
        BY <2>1, <3>1, NothingMore DEF View
      <3> QED
        BY <3>1, <3>2
    <2>3. /\ Len(a) = Len(tx) + Len(Pending) /\ Len(tx) \in Nat /\ Len(Pending) \in Nat
          /\ \A i \in 1 .. Len(tx) : a[i] = tx[i]
      BY <2>2, Glue
    <2> HIDE DEF a
    <2>4. /\ Len(b) = Len(a) + Len(out) /\ Len(out) \in Nat
          /\ \A i \in 1 .. Len(a) : b[i] = a[i]
          /\ \A i \in 1 .. Len(out) : b[Len(a) + i] = out[i]
      BY <2>2, Glue
    <2> HIDE DEF b
    <2>5. ASSUME boot = home PROVE out = <<>> /\ tx = <<>>
      <3>1. Len(out) = 0 /\ Len(tx) = 0
        BY <2>1, <2>2, <2>3, <2>4, <2>5
      <3> QED
        BY <2>2, <3>1
    <2>6. ASSUME boot # home PROVE Has(tx \o out, "BANNER")
      <3>1. Len(b) # 0 /\ b[1] = Banner /\ Banner.kind = "BANNER"
        BY <2>1, <2>2, <2>6, RecordFacts
      <3>2. /\ DOMAIN (tx \o out) = 1 .. Len(tx) + Len(out)
            /\ \A i \in 1 .. Len(tx) : (tx \o out)[i] = tx[i]
            /\ \A i \in 1 .. Len(out) : (tx \o out)[Len(tx) + i] = out[i]
        BY <2>2
      <3>3. CASE Len(tx) # 0
        <4>1. 1 \in 1 .. Len(tx) /\ 1 \in 1 .. Len(a) /\ 1 \in 1 .. Len(tx) + Len(out)
          BY <2>3, <2>4, <3>3
        <4>2. (tx \o out)[1] = Banner
          BY <2>3, <2>4, <3>1, <3>2, <4>1
        <4> QED
          BY <3>1, <3>2, <4>1, <4>2 DEF Has
      <3>4. CASE Len(tx) = 0
        <4>1. Len(Pending) = 0
          <5> SUFFICES ASSUME Len(Pending) # 0 PROVE FALSE
            OBVIOUS
          <5>1. Pending = <<Lost>>
            BY DEF Pending
          <5>2. tx = <<>>
            BY <2>2, <3>4
          <5>3. a = <<Lost>>
            BY <2>2, <5>1, <5>2, NothingMore DEF a
          <5>4. Len(a) = 1 /\ a[1] = Lost
            BY <5>3, RecordFacts, Single
          <5>5. b[1] = Lost
            BY <2>4, <5>4
          <5> QED
            BY <3>1, <5>5, RecordFacts
        <4>2. Len(a) = 0 /\ 1 \in 1 .. Len(out) /\ 1 \in 1 .. Len(tx) + Len(out)
          BY <2>3, <2>4, <3>1, <3>4, <4>1
        <4>3. Len(a) + 1 = 1 /\ Len(tx) + 1 = 1
          BY <3>4, <4>2
        <4>4. (tx \o out)[Len(tx) + 1] = out[1] /\ b[Len(a) + 1] = out[1]
          BY <2>4, <3>2, <4>2
        <4>5. (tx \o out)[1] = Banner
          BY <3>1, <4>3, <4>4, Zenon
        <4> QED
          BY <3>1, <3>2, <4>2, <4>5 DEF Has
      <3> QED
        BY <3>3, <3>4
    <2> QED
      BY <2>1, <2>5, <2>6
  <1>2. Inv => BoundaryIsClean
    BY <1>1 DEF BoundaryIsClean
  <1> QED
    BY <1>2, InvHolds, PTL

-----------------------------------------------------------------------------
(* The framing implements CommandChannel                                   *)

Alive == ~attempted \/ synchronized \/ phase \in {"REPLY", "MARKER"}

\* The line is given up.
LEMMA LosesLine ==
    ASSUME ~Alive', UNCHANGED <<calls, taken, answer>>
    PROVE  Channel!Lose
  <1>1. Alive' = FALSE
    OBVIOUS
  <1> QED
    BY <1>1 DEF Channel!Lose, Alive

\* A step the channel does not see.
LEMMA Unseen ==
    ASSUME Alive' = Alive, calls' = calls, taken'.of = taken.of, answer'.of = answer.of
    PROVE  UNCHANGED Channel!vars
  BY DEF Channel!vars, Alive

LEMMA FirmwareChannelStep ==
    ASSUME Inv, TakeLine \/ LoseLine \/ PrintRecord \/ MarkLoss \/ Restart
    PROVE  [Channel!Next]_Channel!vars
  <1>1. UNCHANGED <<phase, synchronized, attempted, calls, received, answer>>
    BY DEF TakeLine, LoseLine, PrintRecord, MarkLoss, Restart, host
  <1>2. Alive' = Alive
    BY <1>1, Zenon DEF Alive
  <1>3. CASE taken'.of = taken.of
    BY <1>1, <1>2, <1>3, Unseen
  <1>4. CASE TakeLine /\ taken'.of # taken.of
    <2>1. PICK line \in Lines, reply \in Seq(Record) :
             /\ rx # <<>> /\ out = <<>> /\ line = rx[1] /\ rx' = Tail(rx) /\ out' = reply
             /\ reply \in {Refusal, Reply(line)} /\ (skipping => reply = Refusal)
             /\ Ours(line) => /\ taken' = [of |-> line.of, boot |-> boot]
                              /\ (line.kind = "DISCARD" => home' = boot)
                              /\ (line.kind # "DISCARD" => home' = home)
             /\ ~Ours(line) => taken' = taken /\ home' = home
             /\ skipping' = FALSE
             /\ UNCHANGED <<phase, synchronized, attempted, calls, received, answer,
                            lossPending, tx, boot>>
      BY <1>4, TakeLineFacts DEF Inv
    <2>2. Ours(line)
      BY <1>4, <2>1
    <2>3. 1 \in 1 .. Len(rx)
      BY <2>1, RxTail DEF Inv
    <2>4. line = Request /\ taken.of < calls
      BY <2>1, <2>2, <2>3 DEF Inv, NumbersOK
    <2>5. line.of = calls
      BY <2>4, LineFacts DEF Request
    <2>6. taken'.of = calls
      BY <2>1, <2>2, <2>5
    <2>7. Channel!Take
      BY <1>1, <1>2, <2>4, <2>6, Zenon DEF Channel!Take, Alive
    <2> QED
      BY <2>7 DEF Channel!Next
  <1>5. CASE LoseLine \/ PrintRecord \/ MarkLoss \/ Restart
    <2>1. taken' = taken
      BY <1>5 DEF LoseLine, PrintRecord, MarkLoss, Restart
    <2> QED
      BY <1>3, <2>1
  <1> QED
    BY <1>3, <1>4, <1>5

LEMMA RunnerChannelStep ==
    ASSUME Inv, ReadUntilIdle \/ Synchronize \/ Command \/ Read \/ GiveUp
    PROVE  [Channel!Next]_Channel!vars
  <1>1. CASE ReadUntilIdle
    <2>1. /\ phase = "BOOT" /\ phase' = "IDLE"
          /\ UNCHANGED <<synchronized, attempted, calls, answer, taken>>
      BY <1>1 DEF ReadUntilIdle, firmware
    <2>2. phase \notin {"REPLY", "MARKER"} /\ phase' \notin {"REPLY", "MARKER"}
      BY <2>1
    <2>3. Alive' = Alive
      BY <2>1, <2>2, Zenon DEF Alive
    <2> QED
      BY <2>1, <2>3, Unseen
  <1>2. ASSUME NEW kind, Send(kind), attempted' = TRUE, Alive, answer.of = calls
        PROVE  [Channel!Next]_Channel!vars
    <2>1. PICK k \in 0 .. Len(tx) :
             /\ phase = "IDLE" /\ synchronized' = FALSE /\ received' = <<>> /\ tx' = Rest(k)
             /\ UNCHANGED <<answer, skipping, out, lossPending, boot, taken, home>>
             /\ \/ /\ OnlyPrompts(Taken(k)) /\ calls' = calls + 1
                   /\ rx' = Append(rx, Line(kind, calls + 1)) /\ phase' \in {"REPLY", "IDLE"}
                \/ UNCHANGED <<phase, calls, rx>>
      BY <1>2, SendFacts
    <2>2. CASE UNCHANGED <<phase, calls, rx>>
      <3>1. ~Alive'
        BY <1>2, <2>1, <2>2 DEF Alive
      <3> QED
        BY <2>1, <2>2, <3>1, LosesLine DEF Channel!Next
    <2>3. CASE calls' = calls + 1
      <3>1. Alive' \in BOOLEAN
        BY Zenon DEF Alive
      <3>2. Channel!Call
        BY <1>2, <2>1, <2>3, <3>1, Zenon DEF Channel!Call, Alive
      <3> QED
        BY <3>2 DEF Channel!Next
    <2> QED
      BY <2>1, <2>2, <2>3
  <1>3. CASE Synchronize
    <2>1. Send("DISCARD") /\ ~attempted /\ attempted' = TRUE
      BY <1>3 DEF Synchronize
    <2>2. Alive /\ answer.of = calls
      BY <2>1 DEF Inv, HostOK, Alive
    <2> QED
      BY <1>2, <2>1, <2>2
  <1>4. CASE Command
    <2>1. Send("COMMAND") /\ synchronized /\ attempted' = attempted
      BY <1>4 DEF Command
    <2>2. attempted \in BOOLEAN /\ attempted
      BY <2>1 DEF Inv, HostOK, TypeOK
    <2>3. attempted' = TRUE
      BY <2>1, <2>2
    <2>4. Alive /\ answer.of = calls
      BY <2>1 DEF Inv, BoundaryOK, Alive
    <2> QED
      BY <1>2, <2>1, <2>3, <2>4
  <1>5. ASSUME phase \in {"REPLY", "MARKER"}
        PROVE  attempted /\ ~synchronized /\ Alive /\ Live
    BY <1>5 DEF Inv, HostOK, Alive, Live
  <1>6. ASSUME phase \in {"REPLY", "MARKER"}, phase' = "IDLE",
               UNCHANGED <<synchronized, attempted, calls, taken, answer>>
        PROVE  [Channel!Next]_Channel!vars
    <2>1. ~Alive'
      BY <1>5, <1>6 DEF Alive
    <2> QED
      BY <1>6, <2>1, LosesLine DEF Channel!Next
  <1>7. CASE GiveUp
    BY <1>6, <1>7 DEF GiveUp, Lose, firmware
  <1>8. CASE Read
    <2>1. PICK k \in 1 .. Len(tx), records \in Seq(Record) :
             /\ phase \in {"REPLY", "MARKER"}
             /\ records = received \o Taken(k) /\ tx' = Rest(k)
             /\ UNCHANGED <<skipping, out, lossPending, boot, taken, home>>
             /\ \/ Lose /\ UNCHANGED <<calls, rx>>
                \/ ~Broken(records) /\ Wait(records)
                \/ /\ ~Broken(records) /\ records[Len(records)] = Prompt
                   /\ phase = "REPLY" /\ WriteMarker(records)
                \/ /\ ~Broken(records) /\ records[Len(records)] = Prompt
                   /\ phase = "MARKER" /\ Echoes(records, calls) /\ Framed(records)
                   /\ Accept(records)
      BY <1>8, ReadFacts DEF Inv
    <2>2. CASE Lose /\ UNCHANGED <<calls, rx>>
      BY <1>6, <2>1, <2>2 DEF Lose
    <2>3. CASE Wait(records)
      <3>1. UNCHANGED <<phase, synchronized, attempted, calls, answer, taken>>
        BY <2>1, <2>3 DEF Wait
      <3>2. Alive' = Alive
        BY <3>1, Zenon DEF Alive
      <3> QED
        BY <3>1, <3>2, Unseen
    <2>4. CASE WriteMarker(records)
      <3>1. phase' \in {"MARKER", "IDLE"} /\ UNCHANGED <<synchronized, attempted, calls, answer, taken>>
        BY <2>1, <2>4 DEF WriteMarker
      <3>2. CASE phase' = "IDLE"
        BY <1>6, <2>1, <3>1, <3>2
      <3>3. CASE phase' = "MARKER"
        <4>1. Alive /\ Alive'
          BY <1>5, <2>1, <3>3 DEF Alive
        <4>2. Alive' = Alive
          BY <4>1, Zenon DEF Alive
        <4> QED
          BY <3>1, <4>2, Unseen
      <3> QED
        BY <3>1, <3>2, <3>3
    <2>5. CASE /\ ~Broken(records) /\ records[Len(records)] = Prompt
               /\ phase = "MARKER" /\ Echoes(records, calls) /\ Framed(records)
               /\ Accept(records)
      <3>1. /\ phase' = "IDLE" /\ UNCHANGED <<attempted, calls, taken>>
            /\ \/ synchronized' = TRUE /\ answer' = [of |-> calls, text |-> Text(records)]
               \/ UNCHANGED <<synchronized, answer>>
        BY <2>1, <2>5, Zenon DEF Accept
      <3>2. CASE UNCHANGED <<synchronized, answer>>
        BY <1>6, <2>1, <3>1, <3>2
      <3>3. CASE synchronized' = TRUE /\ answer' = [of |-> calls, text |-> Text(records)]
        <4>1. k \in 0 .. Len(tx)
          BY Parts DEF Inv
        <4>2. taken = [of |-> calls, boot |-> home]
          BY <2>1, <2>5, <4>1, AcceptFacts
        <4>3. taken.of = calls /\ answer'.of = calls /\ taken'.of = taken.of
          BY <3>1, <3>3, <4>2
        <4>4. answer.of < calls
          <5>1. answer.of = calls - 1 /\ calls \in Nat
            BY <1>5, <2>1 DEF Inv, HostOK, TypeOK
          <5> QED
            BY <5>1
        <4>5. Alive /\ Alive'
          BY <1>5, <2>1, <3>3 DEF Alive
        <4>6. Alive' = Alive
          BY <4>5, Zenon DEF Alive
        <4>7. Channel!Answer
          BY <3>1, <4>3, <4>4, <4>5, <4>6, Zenon DEF Channel!Answer, Alive
        <4> QED
          BY <4>7 DEF Channel!Next
      <3> QED
        BY <3>1, <3>2, <3>3
    <2> QED
      BY <2>1, <2>2, <2>3, <2>4, <2>5
  <1> QED
    BY <1>1, <1>3, <1>4, <1>7, <1>8

\* Every run of the exchange is a run of the channel: one command at a time, taken at
\* most once, answered only when it was taken, and none once the line was lost.
THEOREM ImplementsChannel == Spec => ImplementsCommandChannel
  <1>1. Init => Channel!Init
    <2> SUFFICES ASSUME Init PROVE Channel!Init
      OBVIOUS
    <2>1. attempted = FALSE /\ calls = 0 /\ taken.of = 0 /\ answer.of = 0
      BY DEF Init
    <2>2. Alive = TRUE
      BY <2>1, Zenon DEF Alive
    <2> QED
      BY <2>1, <2>2, Zenon DEF Channel!Init, Alive
  <1>2. Inv /\ [Next]_vars => [Channel!Next]_Channel!vars
    <2> SUFFICES ASSUME Inv, [Next]_vars PROVE [Channel!Next]_Channel!vars
      OBVIOUS
    <2>1. CASE UNCHANGED vars
      <3>1. UNCHANGED <<phase, synchronized, attempted, calls, answer, taken>>
        BY <2>1 DEF vars, host, firmware
      <3>2. Alive' = Alive
        BY <3>1, Zenon DEF Alive
      <3> QED
        BY <3>1, <3>2, Unseen
    <2>2. CASE Next
      BY <2>2, FirmwareChannelStep, RunnerChannelStep, Zenon DEF Next
    <2> QED
      BY <2>1, <2>2
  <1> QED
    BY <1>1, <1>2, InvHolds, PTL DEF Spec, ImplementsCommandChannel, Channel!Spec
=============================================================================
