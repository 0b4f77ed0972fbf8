---------------------------- MODULE ConsoleOutput ----------------------------
(***************************************************************************)
(* The output queue of examples/common/ConsoleOutput.h: a ring of Capacity  *)
(* bytes that the CLI appends records to and that each pass of the main     *)
(* loop offers to the console backend, one bounded write at a time.         *)
(***************************************************************************)
EXTENDS Integers, Sequences, FiniteSets

CONSTANTS
    Capacity,       \* bytes of the ring
    Chunk,          \* the most bytes of one backend write, 64 in the code
    MarkerLength,   \* sizeof(LOSS) - 1
    Lengths,        \* the lengths of the records the CLI appends
    CountMax,       \* where the uint32_t counters saturate
    MaxRecords      \* bound of the model: records appended

ASSUME QueueAssumption ==
    /\ Capacity \in Nat \ {0} /\ Chunk \in Nat \ {0} /\ MarkerLength \in 1 .. Capacity
    /\ Lengths \subseteq Nat \ {0}
    /\ CountMax \in Nat /\ MaxRecords \in Nat

VARIABLES
    data, head, used,   \* _data, _head, _used
    lossPending,        \* _lossPending
    stats,              \* _stats: acceptedBytes, droppedBytes, droppedMessages
    offered,            \* history: the length of every record appended
    delivered           \* history: the cells the backend accepted

ring == <<data, head, used>>
vars == <<ring, lossPending, stats, offered, delivered>>

Empty == [record |-> 0, left |-> 0]

Init ==
    /\ data = [i \in 0 .. Capacity - 1 |-> Empty]
    /\ head = 0
    /\ used = 0
    /\ lossPending = FALSE
    /\ stats = [acceptedBytes |-> 0, droppedBytes |-> 0, droppedMessages |-> 0]
    /\ offered = <<>>
    /\ delivered = <<>>

\* Fault: plain addition of the counters.
PlainAdd(value, count) == value + count
consoleSaturatingAdd(value, count) ==
    IF count > CountMax - value THEN CountMax ELSE value + count

Cells(number, length) == [k \in 1 .. length |-> [record |-> number, left |-> length - k]]

\* Fault: the second memcpy of a record that wraps is left out.
DataWithoutWrap(cells) ==
    [i \in 0 .. Capacity - 1 |->
        LET k == i - ((head + used) % Capacity)
        IN  IF k \in 0 .. Len(cells) - 1 THEN cells[k + 1] ELSE data[i]]

\* enqueue(): the bytes go behind the used ones, around the end of the ring.
DataWith(cells) ==
    [i \in 0 .. Capacity - 1 |->
        LET k == (i - head - used) % Capacity
        IN  IF k < Len(cells) THEN cells[k + 1] ELSE data[i]]

\* Fault: a record that fits is kept although an earlier loss is not marked yet.
RefusedOnlyWhenFull(length) == length > Capacity - used
Refused(length) == lossPending \/ length > Capacity - used

AppendRecord(length) ==
    /\ Len(offered) < MaxRecords
    /\ offered' = Append(offered, length)
    /\ \/ /\ Refused(length)
          /\ stats' = [stats EXCEPT
               !.droppedBytes = consoleSaturatingAdd(@, length),
               !.droppedMessages = consoleSaturatingAdd(@, 1)]
          /\ lossPending' = TRUE
          /\ UNCHANGED ring
       \/ /\ ~Refused(length)
          /\ data' = DataWith(Cells(Len(offered) + 1, length))
          /\ used' = used + length
          /\ UNCHANGED <<head, stats, lossPending>>
    /\ UNCHANGED delivered

Least(a, b) == IF a < b THEN a ELSE b

\* Fault: an empty queue ends drain() before the loss is looked at.
MarksBehindOutput == lossPending /\ used # 0 /\ Capacity - used >= MarkerLength
Marks == lossPending /\ Capacity - used >= MarkerLength
StillPending == lossPending /\ ~Marks

\* One drain(): mark a pending loss if the marker fits, then offer the bytes up
\* to the end of the ring.  The backend accepts any number of them; a broken
\* one that claims more than it was offered is ignored.
Drain(accepts) ==
    LET held == used + (IF Marks THEN MarkerLength ELSE 0)
        cells == IF Marks THEN DataWith(Cells(0, MarkerLength)) ELSE data
        amount == Least(Chunk, Least(held, Capacity - head))
    IN  /\ data' = cells
        /\ lossPending' = StillPending
        /\ \/ /\ held = 0 \/ accepts > amount
              /\ used' = held
              /\ UNCHANGED <<head, stats, delivered>>
           \/ /\ held # 0 /\ accepts <= amount
              /\ head' = (head + accepts) % Capacity
              /\ used' = held - accepts
              /\ stats' = [stats EXCEPT !.acceptedBytes = consoleSaturatingAdd(@, accepts)]
              /\ delivered' = delivered \o [k \in 1 .. accepts |-> cells[head + k - 1]]
        /\ UNCHANGED offered

Next ==
    \/ \E length \in Lengths : AppendRecord(length)
    \/ \E accepts \in 0 .. Capacity + 1 : Drain(accepts)

\* The main loop drains once per pass.  That the host reads is the
\* environment's doing, so it is assumed apart: HostReads.
HostReads == WF_vars(\E accepts \in 1 .. Chunk : Drain(accepts) /\ delivered' # delivered)
LoopDrains == WF_vars(Drain(0))

Spec == Init /\ [][Next]_vars /\ LoopDrains /\ HostReads

-----------------------------------------------------------------------------
(* Properties                                                              *)

Queue == [k \in 1 .. used |-> data[(head + k - 1) % Capacity]]
Stream == INSTANCE ConsoleStream WITH queue <- Queue

\* What the host receives, followed by what is queued, is made of whole
\* records: the ring never cuts, splices or repeats one, wherever it wraps.
RecordsAreWhole == Stream!RecordsAreWhole

\* "Records following a loss stay suppressed until its marker is queued, so a
\* later prompt cannot make an incomplete response look valid."
LossIsMarked == Stream!LossIsMarked

\* The ring is a first-in first-out queue that marks its losses.
ImplementsConsoleStream == Stream!Spec

Lost == (1 .. Len(offered)) \ {Stream!Stream[i].record : i \in DOMAIN Stream!Stream}
LostBytes == UNION {{n} \X (1 .. offered[n]) : n \in Lost}

\* console counters: each byte and record is counted where it went, exactly up
\* to the counters' limit and pinned to it beyond.
StatsAreExact ==
    stats = [acceptedBytes |-> Least(CountMax, Len(delivered)),
             droppedBytes |-> Least(CountMax, Cardinality(LostBytes)),
             droppedMessages |-> Least(CountMax, Cardinality(Lost))]

\* While the host reads, everything kept comes out and every loss is marked.
EventuallyDrained == <>[](used = 0 /\ ~lossPending)
=============================================================================
