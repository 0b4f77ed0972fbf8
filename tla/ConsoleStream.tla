---------------------------- MODULE ConsoleStream ----------------------------
(***************************************************************************)
(* What the bring-up console promises its host, whatever holds the bytes:   *)
(* records come out whole and in order, and wherever records are missing    *)
(* the stream says so, exactly once, before anything later comes out.       *)
(*                                                                         *)
(* A cell stands for one byte: the number of the record it belongs to and   *)
(* how many bytes of that record follow it.  The loss marker is record 0.   *)
(***************************************************************************)
EXTENDS Integers, Sequences, FiniteSets

CONSTANTS
    Lengths,        \* the lengths of the records on offer, at least 1
    MarkerLength    \* bytes of the loss marker, at least 1

VARIABLES
    offered,    \* the length of every record offered so far, in order
    delivered,  \* cells the host side has accepted
    queue,      \* cells still held
    lossPending \* records were lost and the stream does not say so yet

vars == <<offered, delivered, queue, lossPending>>

Cells(number, length) == [k \in 1 .. length |-> [record |-> number, left |-> length - k]]
Marker == Cells(0, MarkerLength)

Init ==
    /\ offered = <<>>
    /\ delivered = <<>>
    /\ queue = <<>>
    /\ lossPending = FALSE

Keep(length) ==
    /\ ~lossPending
    /\ offered' = Append(offered, length)
    /\ queue' = queue \o Cells(Len(offered) + 1, length)
    /\ UNCHANGED <<delivered, lossPending>>

Lose(length) ==
    /\ offered' = Append(offered, length)
    /\ lossPending' = TRUE
    /\ UNCHANGED <<delivered, queue>>

\* A backend takes some of the oldest cells, after a pending loss is marked
\* if there is room for the marker.
Deliver ==
    \E held \in IF lossPending THEN {queue, queue \o Marker} ELSE {queue} :
      \E n \in 0 .. Len(held) :
        /\ delivered' = delivered \o SubSeq(held, 1, n)
        /\ queue' = SubSeq(held, n + 1, Len(held))
        /\ lossPending' = (lossPending /\ held = queue)
        /\ UNCHANGED offered

Next == (\E length \in Lengths : Keep(length) \/ Lose(length)) \/ Deliver

Spec == Init /\ [][Next]_vars

-----------------------------------------------------------------------------
Stream == delivered \o queue

Starts(i) == i = 1 \/ Stream[i - 1].left = 0
LengthOf(record) == IF record = 0 THEN MarkerLength ELSE offered[record]

\* The stream is a concatenation of whole records: no record is cut, spliced
\* or repeated, by a full queue, a partial write or a broken backend.
RecordsAreWhole ==
    /\ \A i \in DOMAIN Stream :
         IF Starts(i) THEN Stream[i].left = LengthOf(Stream[i].record) - 1
         ELSE Stream[i] = [Stream[i - 1] EXCEPT !.left = @ - 1]
    /\ Stream # <<>> => Stream[Len(Stream)].left = 0

\* Where kept records and loss markers begin; the next record begins at Here.
Kept == {i \in DOMAIN Stream : Starts(i) /\ Stream[i].record # 0}
Markers == {i \in DOMAIN Stream : Starts(i) /\ Stream[i].record = 0}
Here == Len(Stream) + 1

RecordAt(i) == IF i = 0 THEN 0 ELSE IF i = Here THEN Len(offered) + 1 ELSE Stream[i].record

\* p is the kept record before the one at i, or 0 if there is none.
Precedes(p, i) == p < i /\ \A j \in Kept : j <= p \/ j >= i

\* A loss that is still pending counts as its marker: nothing is kept before that is.
MarksBetween(p, i) ==
    Cardinality({j \in Markers : p < j /\ j < i}) + (IF i = Here /\ lossPending THEN 1 ELSE 0)
LostBetween(p, i) == RecordAt(i) - 1 - RecordAt(p)

\* The host can tell where output is missing: there is a marker between two
\* kept records, or after the last one, if and only if records were lost there,
\* and never more markers than lost records.
LossIsMarked ==
    \A i \in Kept \cup {Here}, p \in Kept \cup {0} :
      Precedes(p, i) => /\ LostBetween(p, i) > 0 <=> MarksBetween(p, i) > 0
                        /\ MarksBetween(p, i) <= LostBetween(p, i)
=============================================================================
