---------------------------- MODULE HilExchange ----------------------------
(***************************************************************************)
(* SerialRunner of tools/tca9548a_hil.py against the console it talks to.   *)
(*                                                                         *)
(* Everything the firmware prints is a stream of records.  An exchange      *)
(* writes a command, waits for a prompt, writes a fresh marker and accepts  *)
(* the answer only with the marker's echo right behind that prompt.  The    *)
(* line delays, the console may lose records (and says so, see              *)
(* ConsoleStream), the firmware may lose input (and says so when it gets to  *)
(* the end of the line) or restart, and each read, write and deadline of    *)
(* the host may fail.  What an earlier session left in the line *)
(* and in the firmware is there at the start.                               *)
(***************************************************************************)
EXTENDS Integers, Sequences, FiniteSets

CONSTANTS
    MaxCalls,       \* bounds the commands of a session, the first is the discard
    MaxBoots,       \* bounds the firmware's restarts
    MaxResponse     \* MAX_RESPONSE_BYTES, in records

ASSUME ExchangeAssumption ==
    /\ MaxCalls \in Nat \ {0} /\ MaxBoots \in Nat \ {0}
    /\ MaxResponse \in Nat \ {0}

VARIABLES
    phase,          \* where the runner is in an exchange
    synchronized,   \* the runner owns a clean command boundary
    attempted,      \* _synchronization_attempted
    calls,          \* commands written; the marker of call n is n
    received,       \* the records read in this exchange
    answer,         \* history: the last accepted answer, and its call
    rx,             \* lines the firmware has not run yet
    skipping,       \* input was lost: the line buffer skips to the next line end
    out,            \* records the running command has still to print
    lossPending,    \* the console lost records and has not said so yet
    tx,             \* records printed and not yet read by the host
    boot,           \* which boot of the firmware this is
    taken,          \* history: the last command it ran or refused, and in which boot
    home            \* history: the boot that took the session's first command

host == <<phase, synchronized, attempted, calls, received, answer>>
firmware == <<rx, skipping, out, lossPending, boot, taken, home>>
vars == <<host, firmware, tx>>

-----------------------------------------------------------------------------
(* Records and lines.  Number 0 belongs to an earlier session.             *)

Data(n) == [kind |-> "DATA", of |-> n]
Mark(n) == [kind |-> "MARK", of |-> n]
Prompt == [kind |-> "PROMPT", of |-> 0]
Ack == [kind |-> "ACK", of |-> 0]           \* [E] Command discarded
Lost == [kind |-> "LOST", of |-> 0]         \* [E] CONSOLE_OUTPUT_LOST
Banner == [kind |-> "BANNER", of |-> 0]

Lines == [kind : {"COMMAND", "DISCARD", "HILMARK"}, of : Nat]
Line(kind, n) == [kind |-> kind, of |-> n]

Refusal == <<Ack, Prompt>>
Reply(line) ==
    CASE line.kind = "COMMAND" -> <<Data(line.of), Prompt>>
      [] line.kind = "HILMARK" -> <<Mark(line.of), Prompt>>
      [] line.kind = "DISCARD" -> Refusal

Has(records, kind) == \E i \in DOMAIN records : records[i].kind = kind
Count(records, kind) == Cardinality({i \in DOMAIN records : records[i].kind = kind})

\* The first k records of the line, and what is left of it without them.
Taken(k) == SubSeq(tx, 1, k)
Rest(k) == SubSeq(tx, k + 1, Len(tx))

Init ==
    /\ phase = "BOOT"
    /\ synchronized = FALSE
    /\ attempted = FALSE
    /\ calls = 0
    /\ received = <<>>
    /\ answer = [of |-> 0, text |-> <<>>]
    /\ rx \in {<<>>, <<Line("COMMAND", 0)>>, <<Line("HILMARK", 0)>>}
    /\ out \in {<<>>, <<Prompt>>, <<Data(0), Prompt>>, <<Banner, Prompt>>}
    /\ tx \in {<<>>, <<Prompt>>, <<Data(0)>>}
    /\ lossPending \in BOOLEAN
    /\ skipping \in BOOLEAN
    /\ boot = 1
    /\ taken = [of |-> 0, boot |-> 0]
    /\ home = 0

-----------------------------------------------------------------------------
(* The firmware                                                            *)

\* One line is taken when the last one has printed everything.  It runs, or bytes
\* of it were lost and what is left of it is refused.
TakeLine ==
    /\ rx # <<>> /\ out = <<>>
    /\ LET line == Head(rx)
           ours == line.kind # "HILMARK" /\ line.of # 0
       IN  /\ rx' = Tail(rx)
           /\ out' \in {Refusal} \cup (IF skipping THEN {} ELSE {Reply(line)})
           /\ taken' = IF ours THEN [of |-> line.of, boot |-> boot] ELSE taken
           /\ home' = IF ours /\ line.kind = "DISCARD" THEN boot ELSE home
    /\ skipping' = FALSE
    /\ UNCHANGED <<host, lossPending, tx, boot>>

\* A line is lost with its end: the receive loop sees the overflow and skips the next.
LoseLine ==
    /\ rx # <<>>
    /\ rx' = Tail(rx)
    /\ skipping' = TRUE
    /\ UNCHANGED <<host, out, lossPending, boot, taken, home, tx>>

\* A record finds room in the console's queue, or it is lost with all behind it
\* until the loss is marked.  The banner is the first record of a new queue.
PrintRecord ==
    /\ out # <<>>
    /\ out' = Tail(out)
    /\ \/ ~lossPending /\ tx' = Append(tx, Head(out)) /\ UNCHANGED lossPending
       \/ Head(out) # Banner /\ lossPending' = TRUE /\ UNCHANGED tx
    /\ UNCHANGED <<host, rx, skipping, boot, taken, home>>

MarkLoss ==
    /\ lossPending
    /\ lossPending' = FALSE
    /\ tx' = Append(tx, Lost)
    /\ UNCHANGED <<host, rx, skipping, out, boot, taken, home>>

\* A restart drops all input, and output that has not left the chip.
Restart ==
    /\ boot < MaxBoots
    /\ boot' = boot + 1
    /\ rx' = <<>>
    /\ skipping' = FALSE
    /\ out' = <<Banner, Prompt>>
    /\ lossPending' = FALSE
    /\ \E k \in 0 .. Len(tx) : tx' = Taken(k)
    /\ UNCHANGED <<host, taken, home>>

-----------------------------------------------------------------------------
(* The runner                                                              *)

\* The exchange returns without a prompt: a deadline, a short write, a serial
\* error, an interrupt, or a response it cannot attribute.
Lose ==
    /\ phase' = "IDLE"
    /\ received' = <<>>
    /\ UNCHANGED <<synchronized, attempted, answer>>

\* read_until_idle(): startup chatter is read for a while and dropped.
ReadUntilIdle ==
    /\ phase = "BOOT"
    /\ phase' = "IDLE"
    /\ \E k \in 0 .. Len(tx) : tx' = Rest(k)
    /\ UNCHANGED <<synchronized, attempted, calls, received, answer, firmware>>

\* Fault: pending output is dropped, whatever it is.
DrainsAnything(pending) == TRUE
OnlyPrompts(pending) == \A i \in DOMAIN pending : pending[i] = Prompt

\* Drain what has arrived, then write the line.
Send(kind) ==
    /\ phase = "IDLE" /\ calls < MaxCalls
    /\ synchronized' = FALSE
    /\ received' = <<>>
    /\ \E k \in 0 .. Len(tx) :
        /\ tx' = Rest(k)
        /\ \/ /\ OnlyPrompts(Taken(k))
              /\ calls' = calls + 1
              /\ rx' = Append(rx, Line(kind, calls + 1))
              /\ phase' \in {"REPLY", "IDLE"}      \* IDLE: the write overran its deadline
           \/ UNCHANGED <<phase, calls, rx>>    \* payload, a deadline, no complete write
    /\ UNCHANGED <<answer, skipping, out, lossPending, boot, taken, home>>

Synchronize == ~attempted /\ Send("DISCARD") /\ attempted' = TRUE

\* Fault: commands go on after a lost boundary.
CommandAnyway == attempted /\ Send("COMMAND") /\ UNCHANGED attempted
Command == synchronized /\ Send("COMMAND") /\ UNCHANGED attempted

Echoes(records, n) ==
    \E i \in DOMAIN records :
      /\ records[i] = Mark(n)
      /\ \A j \in DOMAIN records : records[j].kind = "MARK" => j = i

PromptsAre(records, n) == Count(records, "PROMPT") = n

\* The marker's echo stands between the answer's prompt and its own.
Framed(records) ==
    LET end == Len(records)
    IN  /\ end > 2 /\ records[end - 1].kind = "MARK"
        /\ records[end - 2] = Prompt

\* The text in front of the marker.
Text(records) == SubSeq(records, 1, Len(records) - 2)

DiscardProven(text) == text = Refusal

\* An answer is complete.  The first one must be the discard's acknowledgement.
Accept(records) ==
    /\ phase' = "IDLE"
    /\ received' = <<>>
    /\ IF calls = 1 => DiscardProven(Text(records))
       THEN /\ synchronized' = TRUE
            /\ answer' = [of |-> calls, text |-> Text(records)]
       ELSE UNCHANGED <<synchronized, answer>>
    /\ UNCHANGED <<attempted, calls, rx>>

\* Fault: the first prompt completes an answer, without a marker.
AcceptsFirstPrompt(records) ==
    /\ phase' = "IDLE"
    /\ received' = <<>>
    /\ synchronized' = TRUE
    /\ answer' = [of |-> calls, text |-> records]
    /\ UNCHANGED <<attempted, calls, rx>>

WriteMarker(records) ==
    /\ phase' \in {"MARKER", "IDLE"}           \* IDLE: the write failed late
    /\ received' = IF phase' = "IDLE" THEN <<>> ELSE records
    /\ rx' = Append(rx, Line("HILMARK", calls))
    /\ UNCHANGED <<synchronized, attempted, calls, answer>>

Wait(records) ==
    /\ received' = records
    /\ UNCHANGED <<phase, synchronized, attempted, calls, answer, rx>>

Broken(records) == Len(records) >= MaxResponse \/ Has(records, "BANNER")

\* What the records read so far mean; ends without a verdict while no prompt ends them.
Judge(records) ==
    LET prompted == records[Len(records)] = Prompt
        attributed == IF phase = "REPLY"
                      THEN PromptsAre(records, 1) /\ ~Has(records, "MARK")
                      ELSE Echoes(records, calls) /\ PromptsAre(records, 2) /\ Framed(records)
    IN  IF Broken(records) \/ (prompted /\ ~attributed) THEN Lose /\ UNCHANGED <<calls, rx>>
        ELSE IF ~prompted THEN Wait(records)
        ELSE IF phase = "REPLY" THEN WriteMarker(records)
        ELSE Accept(records)

Read ==
    /\ phase \in {"REPLY", "MARKER"}
    /\ \E k \in 1 .. Len(tx) :
        /\ tx' = Rest(k)
        /\ Judge(received \o Taken(k))
    /\ UNCHANGED <<skipping, out, lossPending, boot, taken, home>>

\* A deadline, a serial error or an interrupt; what was read last is dropped.
GiveUp ==
    /\ phase \in {"REPLY", "MARKER"}
    /\ \E k \in 0 .. Len(tx) : tx' = Rest(k)
    /\ Lose
    /\ UNCHANGED <<calls, firmware>>

-----------------------------------------------------------------------------
Next ==
    \/ TakeLine \/ LoseLine \/ PrintRecord \/ MarkLoss \/ Restart
    \/ ReadUntilIdle \/ Synchronize \/ Command \/ Read \/ GiveUp

Spec == Init /\ [][Next]_vars

-----------------------------------------------------------------------------
(* Properties                                                              *)

\* An accepted answer is all its command printed and nothing else, or it says that
\* the command was refused or that output was lost: no record of another command, of
\* an earlier session or of a restart, and no silent gap.
AnswerIsWhole ==
    LET text == answer.text
    IN  answer.of > 1 =>
          \/ text \in {<<Data(answer.of), Prompt>>, Refusal}
          \/ /\ Has(text, "LOST") /\ ~Has(text, "BANNER") /\ ~Has(text, "MARK")
             /\ \A i \in DOMAIN text : text[i].kind = "DATA" => text[i] = Data(answer.of)

\* While the runner holds the boundary, the firmware has taken exactly the commands
\* of this session, the last one in the boot that took the first, and owes no
\* answer.  A restart since then has left its banner where the next exchange
\* meets it.
BoundaryIsClean ==
    synchronized =>
      /\ taken = [of |-> calls, boot |-> home] /\ answer.of = calls
      /\ rx = <<>>
      /\ boot = home => out = <<>> /\ tx = <<>>
      /\ boot # home => Has(tx \o out, "BANNER")

Channel == INSTANCE CommandChannel WITH
    alive <- ~attempted \/ synchronized \/ phase \in {"REPLY", "MARKER"},
    called <- calls,
    taken <- taken.of,
    answered <- answer.of

\* The framing gives the runner the line it needs: one command at a time, taken at
\* most once, answered after it was taken, and nothing sent once the line was lost.
ImplementsCommandChannel == Channel!Spec
=============================================================================
