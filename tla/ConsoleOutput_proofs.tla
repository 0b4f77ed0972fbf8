------------------------ MODULE ConsoleOutput_proofs ------------------------
(***************************************************************************)
(* Proofs about the console's output queue for a ring of any capacity, any  *)
(* chunk and records of any lengths: the ring is a first-in first-out queue *)
(* that marks its losses (the steps of ConsoleStream), hence every record   *)
(* in the stream is whole, every gap in it is marked, and the counters tell *)
(* exactly what was lost.                                                   *)
(***************************************************************************)
EXTENDS ConsoleOutput, FiniteSetTheorems, SequenceTheorems, TLAPS

Cell == [record : Nat, left : Nat]

RingType ==
    /\ data \in [0 .. Capacity - 1 -> Cell]
    /\ head \in 0 .. Capacity - 1
    /\ used \in 0 .. Capacity

TypeOK ==
    /\ RingType
    /\ lossPending \in BOOLEAN
    /\ offered \in Seq(Lengths)
    /\ delivered \in Seq(Cell)

-----------------------------------------------------------------------------
(* Positions in the ring                                                   *)

\* The k-th byte behind the head, and where the code finds it.
At(h, k) == (h + k - 1) % Capacity

\* A position within one turn of the ring is its own remainder, and going around
\* the end of the ring costs one subtraction.
LEMMA Inside ==
    ASSUME NEW x \in Int, 0 <= x, x < Capacity
    PROVE  x % Capacity = x
  BY QueueAssumption

LEMMA Around ==
    ASSUME NEW x \in Int, Capacity <= x, x < 2 * Capacity
    PROVE  x % Capacity = x - Capacity
  BY QueueAssumption

\* Every position behind the head is in the ring.
LEMMA AtInRing ==
    ASSUME NEW h \in 0 .. Capacity - 1, NEW k \in 1 .. Capacity
    PROVE  /\ At(h, k) \in 0 .. Capacity - 1
           /\ At(h, k) = h + k - 1 \/ At(h, k) = h + k - 1 - Capacity
  <1>1. CASE h + k - 1 < Capacity
    BY <1>1, Inside, QueueAssumption DEF At
  <1>2. CASE h + k - 1 >= Capacity
    BY <1>2, Around, QueueAssumption DEF At
  <1> QED
    BY <1>1, <1>2, QueueAssumption

\* How far a position is behind the end of the used bytes.
LEMMA Behind ==
    ASSUME NEW h \in 0 .. Capacity - 1, NEW u \in 0 .. Capacity,
           NEW k \in 1 .. Capacity
    PROVE  (At(h, k) - h - u) % Capacity =
             IF k - 1 >= u THEN k - 1 - u ELSE k - 1 - u + Capacity
  <1>1. At(h, k) = h + k - 1 \/ At(h, k) = h + k - 1 - Capacity
    BY AtInRing
  <1>2. At(h, k) \in Int
    BY <1>1, QueueAssumption
  <1>3. CASE k - 1 >= u
    <2>1. k - 1 - u \in 0 .. Capacity - 1
      BY <1>3, QueueAssumption
    <2>2. (k - 1 - u) % Capacity = k - 1 - u
      BY <2>1, QueueAssumption
    <2>3. (k - 1 - u - Capacity) % Capacity = k - 1 - u
      BY <2>1, QueueAssumption
    <2> QED
      BY <1>1, <1>3, <2>2, <2>3, QueueAssumption
  <1>4. CASE k - 1 < u
    <2>1. k - 1 - u \in -Capacity .. -1
      BY <1>4, QueueAssumption
    <2>2. (k - 1 - u) % Capacity = k - 1 - u + Capacity
      BY <2>1, QueueAssumption
    <2>3. (k - 1 - u - Capacity) % Capacity = k - 1 - u + Capacity
      BY <2>1, QueueAssumption
    <2> QED
      BY <1>1, <1>4, <2>2, <2>3, QueueAssumption
  <1> QED
    BY <1>3, <1>4, QueueAssumption

-----------------------------------------------------------------------------
(* The queue the ring holds                                                *)

\* The first n bytes behind the head h of a ring holding d.
QueueOf(d, h, n) == [k \in 1 .. n |-> d[At(h, k)]]

\* The queue is a sequence of cells.
LEMMA QueueIsSequence ==
    ASSUME NEW d \in [0 .. Capacity - 1 -> Cell], NEW h \in 0 .. Capacity - 1,
           NEW n \in 0 .. Capacity
    PROVE  /\ QueueOf(d, h, n) \in Seq(Cell)
           /\ Len(QueueOf(d, h, n)) = n
           /\ \A k \in 1 .. n : At(h, k) \in 0 .. Capacity - 1 /\ QueueOf(d, h, n)[k] = d[At(h, k)]
  <1>1. ASSUME NEW k \in 1 .. n PROVE At(h, k) \in 0 .. Capacity - 1
    BY AtInRing, QueueAssumption
  <1>2. n \in Nat
    BY QueueAssumption
  <1> QED
    BY <1>1, <1>2 DEF QueueOf

\* What enqueue() puts behind the used bytes ends the queue.
LEMMA EnqueueAppends ==
    ASSUME RingType, NEW cells \in Seq(Cell), used + Len(cells) <= Capacity
    PROVE  /\ DataWith(cells) \in [0 .. Capacity - 1 -> Cell]
           /\ QueueOf(DataWith(cells), head, used + Len(cells))
                = QueueOf(data, head, used) \o cells
  <1>0. Len(cells) \in Nat /\ DOMAIN cells = 1 .. Len(cells)
        /\ \A j \in 1 .. Len(cells) : cells[j] \in Cell
    OBVIOUS
  <1>1. ASSUME NEW i \in 0 .. Capacity - 1 PROVE DataWith(cells)[i] \in Cell
    <2>1. DataWith(cells)[i] = LET k == (i - head - used) % Capacity
                               IN  IF k < Len(cells) THEN cells[k + 1] ELSE data[i]
      BY DEF DataWith
    <2>2. (i - head - used) % Capacity \in 0 .. Capacity - 1
      BY QueueAssumption DEF RingType
    <2> QED
      BY <2>1, <2>2, <1>0, QueueAssumption DEF RingType
  <1>2. DataWith(cells) \in [0 .. Capacity - 1 -> Cell]
    BY <1>1 DEF DataWith
  <1>3. ASSUME NEW k \in 1 .. used + Len(cells)
        PROVE  DataWith(cells)[At(head, k)] =
                 IF k <= used THEN data[At(head, k)] ELSE cells[k - used]
    <2>1. k \in 1 .. Capacity /\ used \in 0 .. Capacity /\ head \in 0 .. Capacity - 1
      BY QueueAssumption, <1>0 DEF RingType
    <2>2. At(head, k) \in 0 .. Capacity - 1
      BY <2>1, AtInRing
    <2>3. DataWith(cells)[At(head, k)] =
            IF (At(head, k) - head - used) % Capacity < Len(cells)
            THEN cells[((At(head, k) - head - used) % Capacity) + 1] ELSE data[At(head, k)]
      BY <2>2 DEF DataWith
    <2>4. (At(head, k) - head - used) % Capacity =
             IF k - 1 >= used THEN k - 1 - used ELSE k - 1 - used + Capacity
      BY <2>1, Behind
    <2>5. CASE k <= used
      <3>1. ~((At(head, k) - head - used) % Capacity < Len(cells))
        BY <2>5, <2>4, <2>1, <1>0, QueueAssumption
      <3> QED
        BY <3>1, <2>3, <2>5
    <2>6. CASE k > used
      <3>1. (At(head, k) - head - used) % Capacity = k - 1 - used
        BY <2>6, <2>4, <2>1
      <3>2. k - 1 - used < Len(cells) /\ k - 1 - used + 1 = k - used
        BY <2>6, <2>1, <1>0
      <3> QED
        BY <3>1, <3>2, <2>3, <2>6, <2>1
    <2> QED
      BY <2>5, <2>6, <2>1
  <1> DEFINE old == QueueOf(data, head, used)
             new == QueueOf(DataWith(cells), head, used + Len(cells))
  <1>4. /\ old \in Seq(Cell) /\ Len(old) = used
        /\ \A k \in 1 .. used : old[k] = data[At(head, k)]
    BY QueueIsSequence DEF RingType
  <1>5. /\ new \in Seq(Cell) /\ Len(new) = used + Len(cells)
        /\ \A k \in 1 .. used + Len(cells) : new[k] = DataWith(cells)[At(head, k)]
    <2>1. used + Len(cells) \in 0 .. Capacity /\ head \in 0 .. Capacity - 1
      BY <1>0, QueueAssumption DEF RingType
    <2> QED
      BY <2>1, <1>2, QueueIsSequence, Zenon
  <1>6. /\ old \o cells \in Seq(Cell) /\ Len(old \o cells) = used + Len(cells)
        /\ \A k \in 1 .. used + Len(cells) :
             (old \o cells)[k] = IF k <= used THEN old[k] ELSE cells[k - used]
    <2> HIDE DEF old
    <2> QED
      BY <1>4, ConcatProperties
  <1>7. \A k \in 1 .. used + Len(cells) : new[k] = (old \o cells)[k]
    <2> SUFFICES ASSUME NEW k \in 1 .. used + Len(cells) PROVE new[k] = (old \o cells)[k]
      OBVIOUS
    <2>1. k <= used => k \in 1 .. used
      BY QueueAssumption DEF RingType
    <2> QED
      BY <2>1, <1>3, <1>4, <1>5, <1>6
  <1>8. new = old \o cells
    <2> HIDE DEF old, new
    <2> QED
      BY <1>5, <1>6, <1>7, SeqEqual
  <1> QED
    BY <1>2, <1>8

\* Taking the first n bytes, up to the end of the ring, leaves the rest of the queue.
LEMMA TakeSplits ==
    ASSUME NEW d \in [0 .. Capacity - 1 -> Cell], NEW h \in 0 .. Capacity - 1,
           NEW u \in 0 .. Capacity, NEW n \in Nat, n <= u, n <= Capacity - h
    PROVE  /\ (h + n) % Capacity \in 0 .. Capacity - 1
           /\ [k \in 1 .. n |-> d[h + k - 1]] = SubSeq(QueueOf(d, h, u), 1, n)
           /\ QueueOf(d, (h + n) % Capacity, u - n) = SubSeq(QueueOf(d, h, u), n + 1, u)
  <1> DEFINE g == (h + n) % Capacity
             q == QueueOf(d, h, u)
             taken == [k \in 1 .. n |-> d[h + k - 1]]
             rest == QueueOf(d, g, u - n)
  <1>1. g \in 0 .. Capacity - 1 /\ (g = h + n \/ g = h + n - Capacity)
    BY Inside, Around, QueueAssumption
  <1>2. /\ q \in Seq(Cell) /\ Len(q) = u
        /\ \A k \in 1 .. u : At(h, k) \in 0 .. Capacity - 1 /\ q[k] = d[At(h, k)]
    BY QueueIsSequence
  <1>3. taken = SubSeq(q, 1, n)
    <2>1. ASSUME NEW k \in 1 .. n
          PROVE  h + k - 1 \in 0 .. Capacity - 1 /\ At(h, k) = h + k - 1
      BY Inside, QueueAssumption DEF At
    <2>2. taken \in Seq(Cell) /\ Len(taken) = n /\ \A k \in 1 .. n : taken[k] = d[h + k - 1]
      <3>1. \A k \in 1 .. n : d[h + k - 1] \in Cell
        BY <2>1
      <3> QED
        BY <3>1
    <2>3. /\ SubSeq(q, 1, n) \in Seq(Cell) /\ Len(SubSeq(q, 1, n)) = n
          /\ \A k \in 1 .. n : SubSeq(q, 1, n)[k] = q[k]
      BY <1>2, SubSeqProperties, QueueAssumption
    <2>4. \A k \in 1 .. n : taken[k] = SubSeq(q, 1, n)[k]
      BY <2>1, <2>2, <2>3, <1>2, QueueAssumption
    <2> HIDE DEF taken, q
    <2> QED
      BY <2>2, <2>3, <2>4, SeqEqual
  <1>4. rest = SubSeq(q, n + 1, u)
    <2>1. u - n \in 0 .. Capacity
      BY QueueAssumption
    <2>2. /\ rest \in Seq(Cell) /\ Len(rest) = u - n
          /\ \A k \in 1 .. u - n : rest[k] = d[At(g, k)]
      BY <1>1, <2>1, QueueIsSequence
    <2>3. /\ SubSeq(q, n + 1, u) \in Seq(Cell) /\ Len(SubSeq(q, n + 1, u)) = u - n
          /\ \A k \in 1 .. u - n : SubSeq(q, n + 1, u)[k] = q[n + k]
      <3>1. \A i \in n + 1 .. u : q[i] \in Cell
        BY <1>2
      <3>2. n + 1 \in Int /\ u \in Int /\ u - (n + 1) + 1 = u - n
            /\ \A k \in 1 .. u - n : n + 1 + k - 1 = n + k
        BY QueueAssumption
      <3> HIDE DEF q
      <3> QED
        BY <3>1, <3>2, SubSeqProperties
    <2>4. ASSUME NEW k \in 1 .. u - n
          PROVE  At(g, k) = At(h, n + k) /\ n + k \in 1 .. u
      <3>1. n + k \in 1 .. u /\ h + (n + k) - 1 = h + n + k - 1
        BY QueueAssumption
      <3>2. CASE h + n < Capacity
        BY <3>1, <3>2, Inside, QueueAssumption DEF At
      <3>3. CASE h + n = Capacity
        <4>1. g = 0 /\ (k - 1) % Capacity = k - 1
          BY <3>3, Inside, Around, QueueAssumption
        <4>2. (h + n + k - 1) % Capacity = h + n + k - 1 - Capacity
          BY <3>3, Around, QueueAssumption
        <4> QED
          BY <3>1, <3>3, <4>1, <4>2, QueueAssumption DEF At
      <3> QED
        BY <3>2, <3>3, QueueAssumption
    <2>5. \A k \in 1 .. u - n : rest[k] = SubSeq(q, n + 1, u)[k]
      BY <2>2, <2>3, <2>4, <1>2
    <2> HIDE DEF rest, q
    <2> QED
      BY <2>2, <2>3, <2>5, SeqEqual
  <1> QED
    BY <1>1, <1>3, <1>4

-----------------------------------------------------------------------------
(* Every step is a step of the abstract queue                              *)

\* The cells of a record are a sequence of its length.
LEMMA CellsAreSequence ==
    ASSUME NEW number \in Nat, NEW length \in Nat
    PROVE  /\ Cells(number, length) \in Seq(Cell)
           /\ Len(Cells(number, length)) = length
           /\ \A k \in 1 .. length :
                Cells(number, length)[k] = [record |-> number, left |-> length - k]
           /\ Stream!Cells(number, length) = Cells(number, length)
  <1> DEFINE cell(k) == [record |-> number, left |-> length - k]
  <1>1. \A k \in 1 .. length : cell(k) \in Cell
    BY DEF Cell
  <1>2. Stream!Cells(number, length) = Cells(number, length)
    BY Zenon DEF Cells, Stream!Cells
  <1>3. Cells(number, length) = [k \in 1 .. length |-> cell(k)]
    BY Zenon DEF Cells
  <1>4. /\ Cells(number, length) \in Seq(Cell)
        /\ Len(Cells(number, length)) = length
        /\ \A k \in 1 .. length : Cells(number, length)[k] = cell(k)
    <2> HIDE DEF cell
    <2> QED
      BY <1>1, <1>3
  <1> QED
    BY <1>2, <1>4

\* The marker is a sequence of at least one cell.
LEMMA MarkerIsSequence ==
    /\ MarkerLength \in Nat \ {0}
    /\ Stream!Marker \in Seq(Cell) /\ Len(Stream!Marker) = MarkerLength
    /\ \A k \in 1 .. MarkerLength : Stream!Marker[k] = [record |-> 0, left |-> MarkerLength - k]
  <1>1. MarkerLength \in Nat \ {0} /\ 0 \in Nat
    BY QueueAssumption
  <1>2. Stream!Marker = Cells(0, MarkerLength)
    BY <1>1, CellsAreSequence, Zenon DEF Stream!Marker
  <1> QED
    BY <1>1, <1>2, CellsAreSequence

\* The queue of the abstract specification is the one the ring holds.
LEMMA QueueFact ==
    ASSUME RingType
    PROVE  /\ Queue = QueueOf(data, head, used)
           /\ Queue \in Seq(Cell) /\ Len(Queue) = used
  <1>1. Queue = QueueOf(data, head, used)
    BY Zenon DEF Queue, QueueOf, At
  <1> QED
    BY <1>1, QueueIsSequence, Zenon DEF RingType

\* What a drain offers its backend: the queue, behind it the marker if one is put there.
LEMMA DrainHolds ==
    ASSUME TypeOK, NEW held, NEW cells,
           held = used + (IF Marks THEN MarkerLength ELSE 0),
           cells = IF Marks THEN DataWith(Cells(0, MarkerLength)) ELSE data
    PROVE  /\ held \in 0 .. Capacity
           /\ cells \in [0 .. Capacity - 1 -> Cell]
           /\ QueueOf(cells, head, held) = IF Marks THEN Queue \o Stream!Marker ELSE Queue
  <1>1. RingType /\ MarkerLength \in Nat
    BY QueueAssumption DEF TypeOK
  <1>2. CASE Marks
    <2> DEFINE marker == Cells(0, MarkerLength)
    <2>1. marker \in Seq(Cell) /\ Len(marker) = MarkerLength /\ Stream!Marker = marker
      BY <1>1, CellsAreSequence DEF Stream!Marker
    <2>2. used + Len(marker) <= Capacity
      BY <1>1, <1>2, <2>1, QueueAssumption DEF Marks, RingType
    <2>3. /\ DataWith(marker) \in [0 .. Capacity - 1 -> Cell]
          /\ QueueOf(DataWith(marker), head, used + MarkerLength)
               = QueueOf(data, head, used) \o marker
      BY <1>1, <2>1, <2>2, EnqueueAppends
    <2>4. held = used + MarkerLength /\ held \in 0 .. Capacity
      BY <1>1, <1>2, <2>1, <2>2, QueueAssumption DEF RingType
    <2>5. cells = DataWith(marker)
      BY <1>2
    <2> HIDE DEF marker
    <2> QED
      BY <1>1, <1>2, <2>1, <2>3, <2>4, <2>5, QueueFact
  <1>3. CASE ~Marks
    BY <1>1, <1>3, QueueFact, QueueAssumption DEF RingType
  <1> QED
    BY <1>2, <1>3

\* A drain hands over cells[1 .. n] of what it holds, keeps the rest, and puts a
\* pending loss to rest exactly if it queued the marker.
LEMMA DrainDelivers ==
    ASSUME TypeOK, NEW accepts \in 0 .. Capacity + 1, Drain(accepts)
    PROVE  /\ TypeOK'
           /\ \E n \in Nat, held \in Seq(Cell) :
                /\ held = IF Marks THEN Queue \o Stream!Marker ELSE Queue
                /\ n <= Len(held)
                /\ delivered' = delivered \o SubSeq(held, 1, n)
                /\ Queue' = SubSeq(held, n + 1, Len(held))
                /\ lossPending' = (lossPending /\ ~Marks)
                /\ offered' = offered
  <1>1. PICK held, cells, amount :
          /\ held = used + (IF Marks THEN MarkerLength ELSE 0)
          /\ cells = IF Marks THEN DataWith(Cells(0, MarkerLength)) ELSE data
          /\ amount = Least(Chunk, Least(held, Capacity - head))
          /\ data' = cells
          /\ lossPending' = StillPending
          /\ \/ /\ held = 0 \/ accepts > amount
                /\ used' = held
                /\ UNCHANGED <<head, stats, delivered>>
             \/ /\ held # 0 /\ accepts <= amount
                /\ head' = (head + accepts) % Capacity
                /\ used' = held - accepts
                /\ stats' = [stats EXCEPT !.acceptedBytes = consoleSaturatingAdd(@, accepts)]
                /\ delivered' = delivered \o [k \in 1 .. accepts |-> cells[head + k - 1]]
          /\ UNCHANGED offered
    BY Zenon DEF Drain
  <1> DEFINE q == QueueOf(cells, head, held)
  <1>2. /\ held \in 0 .. Capacity /\ cells \in [0 .. Capacity - 1 -> Cell]
        /\ q = IF Marks THEN Queue \o Stream!Marker ELSE Queue
    BY <1>1, DrainHolds
  <1>3. q \in Seq(Cell) /\ Len(q) = held
    BY <1>2, QueueIsSequence DEF TypeOK, RingType
  <1>4. /\ lossPending' = (lossPending /\ ~Marks) /\ lossPending' \in BOOLEAN
        /\ offered' = offered /\ offered \in Seq(Lengths) /\ delivered \in Seq(Cell)
        /\ head \in 0 .. Capacity - 1
    BY <1>1, Zenon DEF StillPending, TypeOK, RingType
  <1>5. CASE /\ held = 0 \/ accepts > amount
             /\ used' = held
             /\ UNCHANGED <<head, stats, delivered>>
    <2>1. RingType' /\ delivered' = delivered
      BY <1>1, <1>2, <1>5 DEF TypeOK, RingType
    <2>2. Queue' = q
      BY <1>1, <1>5, Zenon DEF Queue, QueueOf, At
    <2>3. SubSeq(q, 1, 0) = <<>> /\ SubSeq(q, 1, held) = q
      BY <1>2, <1>3, SubSeqFull, SubSeqEmpty, QueueAssumption
    <2>4. delivered' = delivered \o SubSeq(q, 1, 0)
      BY <1>4, <2>1, <2>3, ConcatEmptySeq
    <2>5. 0 \in Nat /\ 0 <= Len(q) /\ 0 + 1 = 1
      BY <1>2, <1>3, QueueAssumption
    <2> HIDE DEF q
    <2>6. TypeOK'
      BY <2>1, <1>4 DEF TypeOK
    <2> QED
      BY <1>2, <1>3, <1>4, <2>2, <2>3, <2>4, <2>5, <2>6
  <1>6. CASE /\ held # 0 /\ accepts <= amount
             /\ head' = (head + accepts) % Capacity
             /\ used' = held - accepts
             /\ delivered' = delivered \o [k \in 1 .. accepts |-> cells[head + k - 1]]
    <2>1. accepts \in Nat /\ accepts <= held /\ accepts <= Capacity - head
      <3>1. amount = Least(Chunk, Least(held, Capacity - head)) /\ accepts <= amount
        BY <1>1, <1>6
      <3> QED
        BY <3>1, <1>2, <1>4, QueueAssumption DEF Least
    <2>2. /\ head' \in 0 .. Capacity - 1
          /\ delivered' = delivered \o SubSeq(q, 1, accepts)
          /\ QueueOf(cells, head', used') = SubSeq(q, accepts + 1, held)
      BY <1>2, <1>4, <1>6, <2>1, TakeSplits
    <2>3. Queue' = SubSeq(q, accepts + 1, Len(q))
      <3>1. Queue' = QueueOf(cells, head', used')
        BY <1>1, Zenon DEF Queue, QueueOf, At
      <3> QED
        BY <3>1, <2>2, <1>3
    <2> HIDE DEF q
    <2>4. SubSeq(q, 1, accepts) \in Seq(Cell)
      BY <1>3, <2>1, SubSeqProperties
    <2>5. delivered' \in Seq(Cell)
      BY <2>2, <2>4, <1>4, ConcatProperties
    <2>6. used' \in 0 .. Capacity
      BY <1>2, <1>6, <2>1, QueueAssumption
    <2>7. TypeOK'
      BY <1>1, <1>2, <1>4, <2>2, <2>5, <2>6 DEF TypeOK, RingType
    <2>8. accepts <= Len(q)
      BY <1>3, <2>1
    <2> QED
      BY <1>2, <1>3, <1>4, <2>1, <2>2, <2>3, <2>7, <2>8
  <1> QED
    BY <1>1, <1>5, <1>6, Zenon

\* An append keeps the whole record at the end of the queue, or none of it.
LEMMA AppendKeepsOrLoses ==
    ASSUME TypeOK, NEW length \in Lengths, AppendRecord(length)
    PROVE  /\ TypeOK'
           /\ delivered' = delivered /\ offered' = Append(offered, length)
           /\ \/ /\ Queue' = Queue /\ lossPending' = TRUE
              \/ /\ Queue' = Queue \o Cells(Len(offered) + 1, length)
                 /\ ~lossPending /\ lossPending' = lossPending
  <1> DEFINE record == Cells(Len(offered) + 1, length)
  <1>1. delivered' = delivered /\ offered' = Append(offered, length)
    BY DEF AppendRecord
  <1>2. offered \in Seq(Lengths) /\ offered' \in Seq(Lengths) /\ Len(offered) + 1 \in Nat
        /\ length \in Nat /\ RingType
    BY <1>1, QueueAssumption DEF TypeOK
  <1>3. CASE Refused(length) /\ lossPending' = TRUE /\ UNCHANGED ring
    <2>1. Queue' = Queue
      BY <1>3, Zenon DEF ring, Queue
    <2>2. TypeOK'
      BY <1>1, <1>2, <1>3 DEF TypeOK, RingType, ring
    <2> QED
      BY <1>1, <1>3, <2>1, <2>2
  <1>4. CASE /\ ~Refused(length) /\ data' = DataWith(record) /\ used' = used + length
             /\ UNCHANGED <<head, stats, lossPending>>
    <2>1. record \in Seq(Cell) /\ Len(record) = length
      BY <1>2, CellsAreSequence
    <2>2. ~lossPending /\ used + length <= Capacity /\ used + length \in 0 .. Capacity
      BY <1>2, <1>4, QueueAssumption DEF Refused, TypeOK, RingType
    <2> HIDE DEF record
    <2>3. /\ data' \in [0 .. Capacity - 1 -> Cell]
          /\ QueueOf(data', head, used + length) = QueueOf(data, head, used) \o record
      BY <1>2, <1>4, <2>1, <2>2, EnqueueAppends
    <2>4. Queue' = Queue \o record
      <3>1. Queue' = QueueOf(data', head, used + length)
        BY <1>4, Zenon DEF Queue, QueueOf, At
      <3> QED
        BY <3>1, <2>3, <1>2, QueueFact
    <2>5. TypeOK'
      BY <1>1, <1>2, <1>4, <2>2, <2>3 DEF TypeOK, RingType
    <2> QED
      BY <1>1, <1>4, <2>2, <2>4, <2>5 DEF record
  <1> QED
    BY <1>3, <1>4, Zenon DEF AppendRecord

\* The types hold at the start, and the queue is the empty one.
LEMMA InitFacts == Init => TypeOK /\ Stream!Init
  <1> SUFFICES ASSUME Init PROVE TypeOK /\ Stream!Init
    OBVIOUS
  <1>1. Empty \in Cell
    BY DEF Empty, Cell
  <1>2. TypeOK
    BY <1>1, QueueAssumption DEF Init, TypeOK, RingType
  <1>3. Queue = <<>>
    BY DEF Init, Queue
  <1> QED
    BY <1>2, <1>3 DEF Init, Stream!Init

\* A step keeps the types and is a step of the abstract queue, or a stutter.
LEMMA StepFacts == TypeOK /\ [Next]_vars => TypeOK' /\ [Stream!Next]_(Stream!vars)
  <1> SUFFICES ASSUME TypeOK, [Next]_vars PROVE TypeOK' /\ [Stream!Next]_(Stream!vars)
    OBVIOUS
  <1>1. ASSUME NEW length \in Lengths, AppendRecord(length)
        PROVE  TypeOK' /\ Stream!Next
    <2>1. length \in Nat /\ Len(offered) + 1 \in Nat
      BY QueueAssumption DEF TypeOK
    <2>2. Stream!Cells(Len(offered) + 1, length) = Cells(Len(offered) + 1, length)
      BY <2>1, CellsAreSequence
    <2>3. Stream!Keep(length) \/ Stream!Lose(length)
      BY <1>1, <2>2, AppendKeepsOrLoses, Zenon DEF Stream!Keep, Stream!Lose
    <2> QED
      BY <1>1, <2>3, AppendKeepsOrLoses, Zenon DEF Stream!Next
  <1>2. ASSUME NEW accepts \in 0 .. Capacity + 1, Drain(accepts)
        PROVE  TypeOK' /\ Stream!Next
    <2>1. PICK n \in Nat, held \in Seq(Cell) :
            /\ held = IF Marks THEN Queue \o Stream!Marker ELSE Queue
            /\ n <= Len(held)
            /\ delivered' = delivered \o SubSeq(held, 1, n)
            /\ Queue' = SubSeq(held, n + 1, Len(held))
            /\ lossPending' = (lossPending /\ ~Marks)
            /\ offered' = offered
      BY <1>2, DrainDelivers, Zenon
    <2>2. n \in 0 .. Len(held)
      BY <2>1
    <2>3. Marks => lossPending
      BY DEF Marks
    <2>4. Marks => held # Queue
      <3>1. ASSUME Marks PROVE Len(held) # Len(Queue)
        <4>1. /\ Queue \in Seq(Cell) /\ Stream!Marker \in Seq(Cell)
              /\ Len(Stream!Marker) = MarkerLength /\ MarkerLength \in Nat \ {0}
          BY MarkerIsSequence, QueueFact DEF TypeOK
        <4>2. Len(Queue \o Stream!Marker) = Len(Queue) + MarkerLength
          BY <4>1, ConcatProperties
        <4> QED
          BY <2>1, <3>1, <4>1, <4>2
      <3> QED
        BY <3>1
    <2>5. /\ held \in (IF lossPending THEN {Queue, Queue \o Stream!Marker} ELSE {Queue})
          /\ lossPending' = (lossPending /\ held = Queue)
      BY <2>1, <2>3, <2>4, Zenon
    <2>6. Stream!Deliver
      BY <2>1, <2>2, <2>5, Zenon DEF Stream!Deliver
    <2> QED
      BY <1>2, <2>6, DrainDelivers, Zenon DEF Stream!Next
  <1>3. CASE UNCHANGED vars
    <2>1. Queue' = Queue
      BY <1>3, Zenon DEF vars, ring, Queue
    <2>2. TypeOK'
      BY <1>3 DEF vars, ring, TypeOK, RingType
    <2> QED
      BY <1>3, <2>1, <2>2 DEF vars, Stream!vars
  <1> QED
    BY <1>1, <1>2, <1>3, Zenon DEF Next

\* The ring of any capacity is the abstract queue: it hands its bytes over in order,
\* each once, keeps or refuses records whole, and refuses all of them from a loss on
\* until the marker that says so is queued.
THEOREM RingImplementsStream == Spec => ImplementsConsoleStream
  BY InitFacts, StepFacts, PTL DEF Spec, ImplementsConsoleStream, Stream!Spec

-----------------------------------------------------------------------------
(* What a step does to the stream: what is delivered and what is queued     *)

\* A step adds a whole record, loses one, adds the marker of the pending loss, or
\* leaves the stream as it is.
LEMMA StreamGrows ==
    ASSUME TypeOK, [Next]_vars
    PROVE  \/ \E length \in Lengths :
                /\ offered' = Append(offered, length)
                /\ \/ /\ Stream!Stream' = Stream!Stream \o Cells(Len(offered) + 1, length)
                      /\ ~lossPending /\ ~lossPending'
                   \/ Stream!Stream' = Stream!Stream /\ lossPending' = TRUE
           \/ /\ Stream!Stream' = Stream!Stream \o Stream!Marker
              /\ lossPending /\ ~lossPending' /\ offered' = offered
           \/ /\ Stream!Stream' = Stream!Stream
              /\ lossPending' = lossPending /\ offered' = offered
  <1> USE DEF Stream!Stream
  <1>0. delivered \in Seq(Cell) /\ Queue \in Seq(Cell) /\ RingType
    BY QueueFact DEF TypeOK
  <1>1. ASSUME NEW length \in Lengths, AppendRecord(length)
        PROVE  /\ offered' = Append(offered, length)
               /\ \/ /\ Stream!Stream' = Stream!Stream \o Cells(Len(offered) + 1, length)
                     /\ ~lossPending /\ ~lossPending'
                  \/ Stream!Stream' = Stream!Stream /\ lossPending' = TRUE
    <2> DEFINE record == Cells(Len(offered) + 1, length)
    <2>1. length \in Nat /\ Len(offered) + 1 \in Nat
      BY QueueAssumption DEF TypeOK
    <2>2. record \in Seq(Cell)
      BY <2>1, CellsAreSequence
    <2> HIDE DEF record
    <2>3. delivered \o (Queue \o record) = (delivered \o Queue) \o record
      BY <1>0, <2>2, ConcatAssociative
    <2> QED
      BY <1>1, <2>3, AppendKeepsOrLoses, Zenon DEF record
  <1>2. ASSUME NEW accepts \in 0 .. Capacity + 1, Drain(accepts)
        PROVE  /\ offered' = offered
               /\ \/ /\ Stream!Stream' = Stream!Stream \o Stream!Marker
                     /\ lossPending /\ ~lossPending'
                  \/ Stream!Stream' = Stream!Stream /\ lossPending' = lossPending
    <2>1. PICK n \in Nat, held \in Seq(Cell) :
            /\ held = IF Marks THEN Queue \o Stream!Marker ELSE Queue
            /\ n <= Len(held)
            /\ delivered' = delivered \o SubSeq(held, 1, n)
            /\ Queue' = SubSeq(held, n + 1, Len(held))
            /\ lossPending' = (lossPending /\ ~Marks)
            /\ offered' = offered
      BY <1>2, DrainDelivers, Zenon
    <2>2. /\ SubSeq(held, 1, n) \in Seq(Cell) /\ SubSeq(held, n + 1, Len(held)) \in Seq(Cell)
          /\ SubSeq(held, 1, n) \o SubSeq(held, n + 1, Len(held)) = held
      <3>1. SubSeq(held, 1, n) \o SubSeq(held, n + 1, Len(held)) = SubSeq(held, 1, Len(held))
        <4>1. /\ 1 \in 1 .. Len(held) + 1 /\ n \in 1 - 1 .. Len(held)
              /\ Len(held) \in n .. Len(held)
          BY <2>1
        <4> QED
          BY <4>1, ConcatAdjacentSubSeq
      <3>2. SubSeq(held, 1, Len(held)) = held
        BY SubSeqFull
      <3>3. SubSeq(held, 1, n) \in Seq(Cell)
        BY <2>1, SubSeqProperties
      <3>4. SubSeq(held, n + 1, Len(held)) \in Seq(Cell)
        BY <2>1, SubSeqProperties
      <3> QED
        BY <3>1, <3>2, <3>3, <3>4
    <2>3. Stream!Stream' = delivered \o held
      <3> DEFINE out == SubSeq(held, 1, n)
                 rest == SubSeq(held, n + 1, Len(held))
      <3>1. out \in Seq(Cell) /\ rest \in Seq(Cell) /\ out \o rest = held
            /\ Stream!Stream' = (delivered \o out) \o rest
        BY <2>1, <2>2, Zenon
      <3> HIDE DEF out, rest
      <3>2. (delivered \o out) \o rest = delivered \o (out \o rest)
        <4>1. delivered \in Seq(Cell) /\ out \in Seq(Cell) /\ rest \in Seq(Cell)
          BY <1>0, <3>1
        <4> QED
          BY <4>1, ConcatAssociative
      <3> QED
        BY <3>1, <3>2, Zenon
    <2>4. delivered \o (Queue \o Stream!Marker) = (delivered \o Queue) \o Stream!Marker
      <3>1. Stream!Marker \in Seq(Cell)
        BY MarkerIsSequence, Zenon
      <3>2. delivered \in Seq(Cell) /\ Queue \in Seq(Cell)
        BY <1>0
      <3> QED
        BY <3>1, <3>2, ConcatAssociative
    <2>5. CASE Marks
      BY <2>1, <2>3, <2>4, <2>5, Zenon DEF Marks
    <2>6. CASE ~Marks
      BY <2>1, <2>3, <2>6, Zenon DEF TypeOK
    <2> QED
      BY <2>5, <2>6
  <1>3. CASE UNCHANGED vars
    BY <1>3, Zenon DEF vars, ring, Queue
  <1> QED
    BY <1>1, <1>2, <1>3, Zenon DEF Next

-----------------------------------------------------------------------------
(* Whole records                                                           *)

\* The notions of ConsoleStream, of any stream s of records of the lengths o.
StartsIn(s, i) == i = 1 \/ s[i - 1].left = 0
LengthIn(o, record) == IF record = 0 THEN MarkerLength ELSE o[record]

WholeIn(s, o) ==
    /\ \A i \in DOMAIN s :
         IF StartsIn(s, i) THEN s[i].left = LengthIn(o, s[i].record) - 1
         ELSE s[i] = [s[i - 1] EXCEPT !.left = @ - 1]
    /\ s # <<>> => s[Len(s)].left = 0

\* A stream of cells of records that were offered.
StreamOf(s, o) ==
    /\ s \in Seq(Cell) /\ o \in Seq(Lengths)
    /\ \A i \in 1 .. Len(s) : s[i].record \in 0 .. Len(o)

\* Offering a record changes no length of an earlier one.
LEMMA OfferKeeps ==
    ASSUME NEW s, NEW o, StreamOf(s, o), WholeIn(s, o), NEW length \in Lengths
    PROVE  StreamOf(s, Append(o, length)) /\ WholeIn(s, Append(o, length))
  <1>1. /\ Append(o, length) \in Seq(Lengths) /\ Len(Append(o, length)) = Len(o) + 1
        /\ Len(o) \in Nat
        /\ \A k \in 1 .. Len(o) : Append(o, length)[k] = o[k]
    BY AppendProperties DEF StreamOf
  <1>2. DOMAIN s = 1 .. Len(s)
    BY DEF StreamOf
  <1>3. \A i \in 1 .. Len(s) : LengthIn(Append(o, length), s[i].record) = LengthIn(o, s[i].record)
    BY <1>1 DEF StreamOf, LengthIn
  <1> QED
    BY <1>1, <1>2, <1>3 DEF StreamOf, WholeIn

\* The cells of a record, put behind a stream of whole records, keep it one.
LEMMA WholeGrows ==
    ASSUME NEW s, NEW o, StreamOf(s, o), WholeIn(s, o),
           NEW number \in 0 .. Len(o), NEW length \in Nat \ {0}, length = LengthIn(o, number),
           NEW cells, cells = Cells(number, length)
    PROVE  /\ StreamOf(s \o cells, o) /\ WholeIn(s \o cells, o)
           /\ \A i \in 1 .. Len(s) : StartsIn(s \o cells, i) = StartsIn(s, i)
           /\ \A i \in Len(s) + 1 .. Len(s) + length :
                StartsIn(s \o cells, i) <=> i = Len(s) + 1
  <1> DEFINE t == s \o cells
  <1>1. /\ s \in Seq(Cell) /\ Len(s) \in Nat /\ DOMAIN s = 1 .. Len(s)
        /\ \A i \in 1 .. Len(s) : s[i] \in Cell
    BY DEF StreamOf
  <1>0. number \in Nat /\ length \in Nat
    BY DEF StreamOf
  <1>2. /\ cells \in Seq(Cell) /\ Len(cells) = length
        /\ \A k \in 1 .. length : cells[k] = [record |-> number, left |-> length - k]
    BY <1>0, CellsAreSequence
  <1>3. /\ t \in Seq(Cell) /\ Len(t) = Len(s) + length /\ DOMAIN t = 1 .. Len(s) + length
        /\ \A i \in 1 .. Len(s) : t[i] = s[i]
        /\ \A i \in Len(s) + 1 .. Len(s) + length :
             t[i] \in Cell /\ t[i].record = number /\ t[i].left = length - (i - Len(s))
    <2>1. /\ t \in Seq(Cell) /\ Len(t) = Len(s) + Len(cells)
          /\ \A i \in 1 .. Len(s) + Len(cells) :
               t[i] = IF i <= Len(s) THEN s[i] ELSE cells[i - Len(s)]
      BY <1>1, <1>2, ConcatProperties
    <2> HIDE DEF t
    <2>2. DOMAIN t = 1 .. Len(s) + length
      BY <2>1, <1>2
    <2>3. \A i \in 1 .. Len(s) : t[i] = s[i]
      BY <2>1, <1>1, <1>2, <1>0
    <2>4. ASSUME NEW i \in Len(s) + 1 .. Len(s) + length
          PROVE  t[i] \in Cell /\ t[i].record = number /\ t[i].left = length - (i - Len(s))
      <3>1. i - Len(s) \in 1 .. length /\ ~(i <= Len(s)) /\ i \in 1 .. Len(s) + Len(cells)
        BY <1>0, <1>1, <1>2
      <3>2. t[i] = cells[i - Len(s)]
        BY <2>1, <3>1
      <3>3. cells[i - Len(s)] = [record |-> number, left |-> length - (i - Len(s))]
        BY <1>2, <3>1
      <3>4. length - (i - Len(s)) \in Nat
        BY <3>1, <1>0
      <3> QED
        BY <3>2, <3>3, <3>4, <1>0 DEF Cell
    <2> QED
      BY <2>1, <2>2, <2>3, <2>4, <1>2
  <1> HIDE DEF t
  <1>4. ASSUME NEW i \in 1 .. Len(s) PROVE StartsIn(t, i) = StartsIn(s, i)
    <2>1. i = 1 \/ i - 1 \in 1 .. Len(s)
      BY <1>1
    <2> QED
      BY <2>1, <1>3 DEF StartsIn
  <1>5. ASSUME NEW i \in Len(s) + 1 .. Len(s) + length
        PROVE  StartsIn(t, i) <=> i = Len(s) + 1
    <2>1. CASE i = Len(s) + 1
      <3>1. CASE Len(s) = 0
        BY <2>1, <3>1 DEF StartsIn
      <3>2. CASE Len(s) # 0
        <4>1. Len(s) \in 1 .. Len(s) /\ i - 1 = Len(s) /\ s # <<>>
          BY <3>2, <2>1, <1>1
        <4> QED
          BY <4>1, <2>1, <1>3 DEF StartsIn, WholeIn
      <3> QED
        BY <3>1, <3>2
    <2>2. CASE i > Len(s) + 1
      <3>1. i - 1 \in Len(s) + 1 .. Len(s) + length /\ length - (i - 1 - Len(s)) # 0 /\ i # 1
        BY <2>2, <1>0, <1>1
      <3> QED
        <4>1. t[i - 1].left = length - (i - 1 - Len(s))
          BY <3>1, <1>3
        <4> QED
          BY <2>2, <3>1, <4>1, <1>1 DEF StartsIn
    <2> QED
      BY <2>1, <2>2, <1>0, <1>1
  <1>6. StreamOf(t, o)
    <2>1. ASSUME NEW i \in 1 .. Len(t) PROVE t[i].record \in 0 .. Len(o)
      <3>1. i \in 1 .. Len(s) \/ i \in Len(s) + 1 .. Len(s) + length
        BY <1>0, <1>1, <1>3
      <3> QED
        BY <3>1, <1>3 DEF StreamOf
    <2> QED
      BY <2>1, <1>3 DEF StreamOf
  <1>7. ASSUME NEW i \in 1 .. Len(s) + length
        PROVE  IF StartsIn(t, i) THEN t[i].left = LengthIn(o, t[i].record) - 1
               ELSE t[i] = [t[i - 1] EXCEPT !.left = @ - 1]
    <2>1. CASE i \in 1 .. Len(s)
      <3>1. i = 1 \/ i - 1 \in 1 .. Len(s)
        BY <2>1, <1>1
      <3>2. IF StartsIn(s, i) THEN s[i].left = LengthIn(o, s[i].record) - 1
            ELSE s[i] = [s[i - 1] EXCEPT !.left = @ - 1]
        BY <2>1, <1>1, Zenon DEF WholeIn
      <3>3. i = 1 => StartsIn(s, i)
        BY DEF StartsIn
      <3> QED
        BY <2>1, <3>1, <3>2, <3>3, <1>3, <1>4, Zenon
    <2>2. CASE i = Len(s) + 1
      <3>1. i \in Len(s) + 1 .. Len(s) + length /\ length - (i - Len(s)) = length - 1
        BY <2>2, <1>0, <1>1
      <3> QED
        BY <2>2, <3>1, <1>3, <1>5
    <2>3. CASE i \in Len(s) + 2 .. Len(s) + length
      <3>1. /\ i \in Len(s) + 1 .. Len(s) + length /\ i # Len(s) + 1
            /\ i - 1 \in Len(s) + 1 .. Len(s) + length
            /\ length - (i - Len(s)) = (length - (i - 1 - Len(s))) - 1
        BY <2>3, <1>0, <1>1
      <3>2. /\ t[i] \in Cell /\ t[i - 1] \in Cell
            /\ t[i].record = t[i - 1].record /\ t[i].left = t[i - 1].left - 1
        BY <3>1, <1>3
      <3>3. t[i] = [t[i - 1] EXCEPT !.left = @ - 1]
        BY <3>2 DEF Cell
      <3> QED
        BY <3>1, <3>3, <1>5
    <2> QED
      BY <2>1, <2>2, <2>3, <1>0, <1>1
  <1>8. t[Len(t)].left = 0
    <2>1. Len(t) \in Len(s) + 1 .. Len(s) + length /\ length - (Len(t) - Len(s)) = 0
      BY <1>0, <1>1, <1>3
    <2> QED
      BY <2>1, <1>3
  <1> QED
    <2>1. WholeIn(t, o)
      BY <1>3, <1>7, <1>8, Zenon DEF WholeIn
    <2> QED
      BY <1>4, <1>5, <1>6, <2>1, Zenon DEF t

-----------------------------------------------------------------------------
(* Marked losses                                                           *)

KeptIn(s) == {i \in DOMAIN s : StartsIn(s, i) /\ s[i].record # 0}
MarkersIn(s) == {i \in DOMAIN s : StartsIn(s, i) /\ s[i].record = 0}
RecordAtIn(s, o, i) ==
    IF i = 0 THEN 0 ELSE IF i = Len(s) + 1 THEN Len(o) + 1 ELSE s[i].record
PrecedesIn(s, p, i) == p < i /\ \A j \in KeptIn(s) : j <= p \/ j >= i
MarkersOf(s, p, i) == {j \in MarkersIn(s) : p < j /\ j < i}

GapIsMarked(s, o, pending, p, i) ==
    LET lost == RecordAtIn(s, o, i) - 1 - RecordAtIn(s, o, p)
        marks == Cardinality(MarkersOf(s, p, i)) + (IF i = Len(s) + 1 /\ pending THEN 1 ELSE 0)
    IN  (lost > 0 <=> marks > 0) /\ marks <= lost

MarkedIn(s, o, pending) ==
    \A i \in KeptIn(s) \cup {Len(s) + 1}, p \in KeptIn(s) \cup {0} :
      PrecedesIn(s, p, i) => GapIsMarked(s, o, pending, p, i)

\* The numbers the statement counts with.
LEMMA GapTypes ==
    ASSUME NEW s, NEW o, StreamOf(s, o), NEW p \in KeptIn(s) \cup {0},
           NEW i \in KeptIn(s) \cup {Len(s) + 1}
    PROVE  /\ KeptIn(s) \subseteq 1 .. Len(s) /\ MarkersIn(s) \subseteq 1 .. Len(s)
           /\ Len(s) \in Nat /\ Len(o) \in Nat
           /\ p \in 0 .. Len(s) /\ i \in 1 .. Len(s) + 1
           /\ RecordAtIn(s, o, p) \in Nat /\ RecordAtIn(s, o, i) \in Nat
           /\ IsFiniteSet(MarkersOf(s, p, i)) /\ Cardinality(MarkersOf(s, p, i)) \in Nat
  <1>1. /\ Len(s) \in Nat /\ DOMAIN s = 1 .. Len(s) /\ Len(o) \in Nat
        /\ \A k \in 1 .. Len(s) : s[k].record \in Nat
    BY DEF StreamOf
  <1>2. KeptIn(s) \subseteq 1 .. Len(s) /\ MarkersIn(s) \subseteq 1 .. Len(s)
    BY <1>1 DEF KeptIn, MarkersIn
  <1>3. IsFiniteSet(1 .. Len(s))
    BY <1>1, FS_Interval
  <1>4. IsFiniteSet(MarkersOf(s, p, i))
    BY <1>2, <1>3, FS_Subset DEF MarkersOf
  <1>5. Cardinality(MarkersOf(s, p, i)) \in Nat
    BY <1>4, FS_CardinalityType
  <1>6. p \in 0 .. Len(s) /\ i \in 1 .. Len(s) + 1
    BY <1>1, <1>2
  <1> QED
    BY <1>1, <1>2, <1>4, <1>5, <1>6 DEF RecordAtIn

\* t is s with the cells of one more record, 0 for the marker, behind it.
Grown(s, t, number, length) ==
    /\ Len(t) = Len(s) + length
    /\ t[Len(s) + 1].record = number
    /\ number # 0 => KeptIn(t) = KeptIn(s) \cup {Len(s) + 1} /\ MarkersIn(t) = MarkersIn(s)
    /\ number = 0 => KeptIn(t) = KeptIn(s) /\ MarkersIn(t) = MarkersIn(s) \cup {Len(s) + 1}
    /\ \A i \in 1 .. Len(s) : t[i] = s[i]

\* Growing by one record adds its first cell to the kept ones or to the markers, and
\* changes no gap before it.
LEMMA GapsGrow ==
    ASSUME NEW s, NEW o, StreamOf(s, o), WholeIn(s, o),
           NEW number \in 0 .. Len(o), NEW length \in Nat \ {0}, length = LengthIn(o, number),
           NEW t, t = s \o Cells(number, length)
    PROVE  Grown(s, t, number, length)
  <1> DEFINE cells == Cells(number, length)
  <1>1. /\ s \in Seq(Cell) /\ Len(s) \in Nat /\ DOMAIN s = 1 .. Len(s)
        /\ number \in Nat /\ length \in Nat
    BY DEF StreamOf
  <1>2. /\ cells \in Seq(Cell) /\ Len(cells) = length
        /\ \A k \in 1 .. length : cells[k] = [record |-> number, left |-> length - k]
    BY <1>1, CellsAreSequence
  <1>3. /\ \A i \in 1 .. Len(s) : StartsIn(t, i) = StartsIn(s, i)
        /\ \A i \in Len(s) + 1 .. Len(s) + length : StartsIn(t, i) <=> i = Len(s) + 1
    <2>1. /\ \A i \in 1 .. Len(s) : StartsIn(s \o cells, i) = StartsIn(s, i)
          /\ \A i \in Len(s) + 1 .. Len(s) + length :
               StartsIn(s \o cells, i) <=> i = Len(s) + 1
      BY WholeGrows
    <2> QED
      BY <2>1
  <1> HIDE DEF cells
  <1>4. /\ t \in Seq(Cell) /\ Len(t) = Len(s) + Len(cells)
        /\ \A i \in 1 .. Len(s) + Len(cells) :
             t[i] = IF i <= Len(s) THEN s[i] ELSE cells[i - Len(s)]
    BY <1>1, <1>2, ConcatProperties DEF cells
  <1>5. Len(t) = Len(s) + length /\ DOMAIN t = 1 .. Len(s) + length
    BY <1>2, <1>4
  <1>6. \A i \in 1 .. Len(s) : t[i] = s[i]
    BY <1>1, <1>2, <1>4
  <1>7. t[Len(s) + 1].record = number
    <2>1. Len(s) + 1 \in 1 .. Len(s) + Len(cells) /\ ~(Len(s) + 1 <= Len(s))
          /\ Len(s) + 1 - Len(s) = 1 /\ 1 \in 1 .. length
      BY <1>1, <1>2
    <2>2. t[Len(s) + 1] = cells[1]
      BY <2>1, <1>4
    <2> QED
      BY <2>1, <2>2, <1>2
  <1>8. ASSUME NEW i \in 1 .. Len(s) + length
        PROVE  /\ i \in KeptIn(t) <=> i \in KeptIn(s) \/ (i = Len(s) + 1 /\ number # 0)
               /\ i \in MarkersIn(t) <=> i \in MarkersIn(s) \/ (i = Len(s) + 1 /\ number = 0)
    <2>1. CASE i \in 1 .. Len(s)
      <3>1. i # Len(s) + 1 /\ i \in DOMAIN s /\ i \in DOMAIN t
        BY <2>1, <1>1, <1>5
      <3> QED
        BY <2>1, <3>1, <1>3, <1>6, Zenon DEF KeptIn, MarkersIn
    <2>2. CASE i \in Len(s) + 1 .. Len(s) + length
      <3>1. i \notin DOMAIN s /\ i \in DOMAIN t
        BY <2>2, <1>1, <1>5
      <3> QED
        BY <2>2, <3>1, <1>3, <1>7, Zenon DEF KeptIn, MarkersIn
    <2> QED
      BY <2>1, <2>2, <1>1
  <1>9. /\ KeptIn(s) \subseteq 1 .. Len(s) + length /\ MarkersIn(s) \subseteq 1 .. Len(s) + length
        /\ KeptIn(t) \subseteq 1 .. Len(s) + length /\ MarkersIn(t) \subseteq 1 .. Len(s) + length
        /\ Len(s) + 1 \in 1 .. Len(s) + length
    BY <1>1, <1>5 DEF KeptIn, MarkersIn
  <1> QED
    BY <1>5, <1>6, <1>7, <1>8, <1>9 DEF Grown

\* Losing a record widens the last gap by one and leaves a mark pending in it.
LEMMA LosingMarks ==
    ASSUME NEW s, NEW o, StreamOf(s, o), NEW pending \in BOOLEAN, MarkedIn(s, o, pending),
           NEW length \in Lengths
    PROVE  MarkedIn(s, Append(o, length), TRUE)
  <1> DEFINE q == Append(o, length)
  <1>1. Len(q) = Len(o) + 1 /\ Len(o) \in Nat
    BY AppendProperties DEF StreamOf
  <1> HIDE DEF q
  <1> SUFFICES ASSUME NEW i \in KeptIn(s) \cup {Len(s) + 1}, NEW p \in KeptIn(s) \cup {0},
                      PrecedesIn(s, p, i)
               PROVE  GapIsMarked(s, q, TRUE, p, i)
    BY DEF MarkedIn, q
  <1>2. GapIsMarked(s, o, pending, p, i)
    BY DEF MarkedIn
  <1>3. /\ KeptIn(s) \subseteq 1 .. Len(s) /\ Len(s) \in Nat
        /\ p \in 0 .. Len(s) /\ i \in 1 .. Len(s) + 1
        /\ RecordAtIn(s, o, p) \in Nat /\ RecordAtIn(s, o, i) \in Nat
        /\ Cardinality(MarkersOf(s, p, i)) \in Nat
    BY GapTypes
  <1>4. RecordAtIn(s, q, p) = RecordAtIn(s, o, p)
    BY <1>3 DEF RecordAtIn
  <1>5. CASE i = Len(s) + 1
    <2>1. RecordAtIn(s, o, i) = Len(o) + 1 /\ RecordAtIn(s, q, i) = Len(o) + 2
      BY <1>1, <1>3, <1>5 DEF RecordAtIn
    <2> QED
      BY <1>2, <1>3, <1>4, <1>5, <2>1 DEF GapIsMarked
  <1>6. CASE i # Len(s) + 1
    <2>1. RecordAtIn(s, q, i) = RecordAtIn(s, o, i)
      BY <1>3, <1>6 DEF RecordAtIn
    <2> QED
      BY <1>2, <1>4, <1>6, <2>1 DEF GapIsMarked
  <1> QED
    BY <1>5, <1>6

\* Keeping a record while no loss is pending closes the last gap as it is, and opens
\* an empty one.
LEMMA KeepingMarks ==
    ASSUME NEW s, NEW o, StreamOf(s, o), WholeIn(s, o), MarkedIn(s, o, FALSE),
           NEW length \in Lengths,
           NEW q, q = Append(o, length),
           NEW t, t = s \o Cells(Len(o) + 1, length)
    PROVE  MarkedIn(t, q, FALSE)
  <1>1. /\ StreamOf(s, q) /\ WholeIn(s, q) /\ Len(q) = Len(o) + 1 /\ Len(o) \in Nat
        /\ q[Len(o) + 1] = length /\ length \in Nat \ {0} /\ Len(s) \in Nat
    <2>1. StreamOf(s, q) /\ WholeIn(s, q)
      BY OfferKeeps, Zenon
    <2> QED
      BY <2>1, QueueAssumption, AppendProperties DEF StreamOf
  <1> DEFINE number == Len(o) + 1
             here == Len(s) + 1
  <1>2. number \in 0 .. Len(q) /\ number # 0 /\ length = LengthIn(q, number)
    BY <1>1 DEF LengthIn
  <1>3. /\ Len(t) = Len(s) + length
        /\ t[here].record = number
        /\ KeptIn(t) = KeptIn(s) \cup {here} /\ MarkersIn(t) = MarkersIn(s)
        /\ \A i \in 1 .. Len(s) : t[i] = s[i]
    <2>1. t = s \o Cells(number, length)
      OBVIOUS
    <2> HIDE DEF number
    <2>2. Grown(s, t, number, length)
      BY <1>1, <1>2, <2>1, GapsGrow, Zenon
    <2> QED
      BY <1>2, <2>2, Zenon DEF Grown
  <1>4. KeptIn(s) \subseteq 1 .. Len(s) /\ MarkersIn(s) \subseteq 1 .. Len(s)
    BY <1>1, GapTypes
  <1> SUFFICES ASSUME NEW i \in KeptIn(t) \cup {Len(t) + 1}, NEW p \in KeptIn(t) \cup {0},
                      PrecedesIn(t, p, i)
               PROVE  GapIsMarked(t, q, FALSE, p, i)
    BY DEF MarkedIn
  <1>5. CASE i \in KeptIn(s) \cup {here}
    <2>1. p \in KeptIn(s) \cup {0} /\ p \in 0 .. Len(s) /\ i \in 1 .. here
      BY <1>1, <1>3, <1>4, <1>5 DEF PrecedesIn
    <2>2. PrecedesIn(s, p, i)
      BY <1>3 DEF PrecedesIn
    <2>3. GapIsMarked(s, o, FALSE, p, i)
      BY <1>5, <2>1, <2>2 DEF MarkedIn
    <2>4. MarkersOf(t, p, i) = MarkersOf(s, p, i)
      BY <1>3 DEF MarkersOf
    <2>5. RecordAtIn(t, q, p) = RecordAtIn(s, o, p)
      BY <1>1, <1>3, <2>1 DEF RecordAtIn
    <2>6. RecordAtIn(t, q, i) = RecordAtIn(s, o, i)
      <3>1. CASE i = here
        BY <1>1, <1>3, <3>1 DEF RecordAtIn
      <3>2. CASE i \in 1 .. Len(s)
        BY <1>1, <1>3, <3>2 DEF RecordAtIn
      <3> QED
        BY <1>1, <2>1, <3>1, <3>2
    <2>7. i # Len(t) + 1
      BY <1>1, <1>3, <2>1
    <2> QED
      BY <2>3, <2>4, <2>5, <2>6, <2>7 DEF GapIsMarked
  <1>6. CASE i = Len(t) + 1
    <2>1. p = here
      <3>1. here \in KeptIn(t) /\ here < i
        BY <1>1, <1>3, <1>6
      <3>2. here <= p
        <4>1. here <= p \/ here >= i
          BY <3>1, Zenon DEF PrecedesIn
        <4> QED
          BY <4>1, <3>1, <1>1, <1>3, <1>6
      <3> QED
        BY <1>1, <1>3, <1>4, <3>2
    <2>2. RecordAtIn(t, q, p) = number /\ RecordAtIn(t, q, i) = number + 1
      <3>1. p # 0 /\ p # Len(t) + 1 /\ i # 0
        BY <1>1, <1>3, <1>6, <2>1
      <3> QED
        BY <1>1, <1>3, <1>6, <2>1, <3>1 DEF RecordAtIn
    <2>3. MarkersOf(t, p, i) = {}
      BY <1>1, <1>3, <1>4, <2>1 DEF MarkersOf
    <2>4. Cardinality(MarkersOf(t, p, i)) = 0
      BY <2>3, FS_EmptySet
    <2> QED
      BY <1>1, <2>2, <2>4 DEF GapIsMarked
  <1> QED
    BY <1>3, <1>5, <1>6

\* Queueing the marker turns the pending mark of the last gap into one of the stream.
LEMMA MarkingMarks ==
    ASSUME NEW s, NEW o, StreamOf(s, o), WholeIn(s, o), MarkedIn(s, o, TRUE),
           NEW t, t = s \o Cells(0, MarkerLength)
    PROVE  MarkedIn(t, o, FALSE)
  <1> DEFINE here == Len(s) + 1
  <1>1. /\ Len(o) \in Nat /\ Len(s) \in Nat /\ MarkerLength \in Nat \ {0}
        /\ 0 \in 0 .. Len(o) /\ MarkerLength = LengthIn(o, 0)
    BY QueueAssumption DEF LengthIn, StreamOf
  <1>2. /\ Len(t) = Len(s) + MarkerLength
        /\ KeptIn(t) = KeptIn(s) /\ MarkersIn(t) = MarkersIn(s) \cup {here}
        /\ \A i \in 1 .. Len(s) : t[i] = s[i]
    <2>1. Grown(s, t, 0, MarkerLength)
      BY <1>1, GapsGrow, Zenon
    <2> QED
      BY <2>1, Zenon DEF Grown
  <1>3. KeptIn(s) \subseteq 1 .. Len(s) /\ MarkersIn(s) \subseteq 1 .. Len(s)
    BY GapTypes
  <1> SUFFICES ASSUME NEW i \in KeptIn(t) \cup {Len(t) + 1}, NEW p \in KeptIn(t) \cup {0},
                      PrecedesIn(t, p, i)
               PROVE  GapIsMarked(t, o, FALSE, p, i)
    BY DEF MarkedIn
  <1>4. p \in KeptIn(s) \cup {0} /\ p \in 0 .. Len(s)
    BY <1>1, <1>2, <1>3
  <1>5. RecordAtIn(t, o, p) = RecordAtIn(s, o, p)
    BY <1>1, <1>2, <1>4 DEF RecordAtIn
  <1>6. CASE i \in KeptIn(s)
    <2>1. i \in 1 .. Len(s) /\ i # here /\ i # Len(t) + 1 /\ ~(here < i)
      BY <1>1, <1>2, <1>3, <1>6
    <2>2. PrecedesIn(s, p, i)
      BY <1>2 DEF PrecedesIn
    <2>3. GapIsMarked(s, o, TRUE, p, i)
      BY <1>4, <1>6, <2>2 DEF MarkedIn
    <2>4. MarkersOf(t, p, i) = MarkersOf(s, p, i)
      BY <1>2, <2>1 DEF MarkersOf
    <2>5. RecordAtIn(t, o, i) = RecordAtIn(s, o, i)
      BY <1>1, <1>2, <2>1 DEF RecordAtIn
    <2> QED
      BY <1>5, <2>1, <2>3, <2>4, <2>5 DEF GapIsMarked
  <1>7. CASE i = Len(t) + 1
    <2>1. PrecedesIn(s, p, here)
      BY <1>1, <1>2, <1>3, <1>4, <1>7 DEF PrecedesIn
    <2>2. GapIsMarked(s, o, TRUE, p, here)
      BY <1>4, <2>1 DEF MarkedIn
    <2>3. MarkersOf(t, p, i) = MarkersOf(s, p, here) \cup {here} /\ here \notin MarkersOf(s, p, here)
      BY <1>1, <1>2, <1>3, <1>4, <1>7 DEF MarkersOf
    <2>4. /\ IsFiniteSet(MarkersOf(s, p, here)) /\ Cardinality(MarkersOf(s, p, here)) \in Nat
      BY <1>4, GapTypes
    <2>5. Cardinality(MarkersOf(t, p, i)) = Cardinality(MarkersOf(s, p, here)) + 1
      BY <2>3, <2>4, FS_AddElement
    <2>6. RecordAtIn(t, o, i) = Len(o) + 1 /\ RecordAtIn(s, o, here) = Len(o) + 1
      BY <1>1, <1>2, <1>7 DEF RecordAtIn
    <2> QED
      BY <1>5, <2>2, <2>4, <2>5, <2>6 DEF GapIsMarked
  <1> QED
    BY <1>2, <1>6, <1>7

-----------------------------------------------------------------------------
(* The invariants                                                          *)

\* The properties of ConsoleStream are the notions above, of the stream of this queue.
LEMMA Notions ==
    /\ RecordsAreWhole <=> WholeIn(Stream!Stream, offered)
    /\ LossIsMarked <=> MarkedIn(Stream!Stream, offered, lossPending)
  <1>1. RecordsAreWhole <=> WholeIn(Stream!Stream, offered)
    BY Zenon DEF RecordsAreWhole, Stream!RecordsAreWhole, WholeIn, Stream!Starts, StartsIn,
          Stream!LengthOf, LengthIn
  <1>2. Stream!Kept = KeptIn(Stream!Stream) /\ Stream!Markers = MarkersIn(Stream!Stream)
    BY Zenon DEF Stream!Kept, Stream!Markers, KeptIn, MarkersIn, Stream!Starts, StartsIn
  <1>3. LossIsMarked <=> MarkedIn(Stream!Stream, offered, lossPending)
    <2>1. \A i : Stream!RecordAt(i) = RecordAtIn(Stream!Stream, offered, i)
      BY Zenon DEF Stream!RecordAt, Stream!Here, RecordAtIn
    <2>2. \A p, i : Stream!Precedes(p, i) <=> PrecedesIn(Stream!Stream, p, i)
      BY <1>2, Zenon DEF Stream!Precedes, PrecedesIn
    <2>3. \A p, i : /\ Stream!LostBetween(p, i) > 0 <=> Stream!MarksBetween(p, i) > 0
                    /\ Stream!MarksBetween(p, i) <= Stream!LostBetween(p, i)
            <=> GapIsMarked(Stream!Stream, offered, lossPending, p, i)
      <3>1. \A p, i : Stream!LostBetween(p, i)
                 = RecordAtIn(Stream!Stream, offered, i) - 1 - RecordAtIn(Stream!Stream, offered, p)
        BY <2>1, Zenon DEF Stream!LostBetween
      <3>2. \A p, i : Stream!MarksBetween(p, i)
                 = Cardinality(MarkersOf(Stream!Stream, p, i))
                     + (IF i = Len(Stream!Stream) + 1 /\ lossPending THEN 1 ELSE 0)
        <4> SUFFICES ASSUME NEW p, NEW i
                     PROVE  Stream!MarksBetween(p, i)
                              = Cardinality(MarkersOf(Stream!Stream, p, i))
                                  + (IF i = Len(Stream!Stream) + 1 /\ lossPending THEN 1 ELSE 0)
          OBVIOUS
        <4>1. {j \in Stream!Markers : p < j /\ j < i} = MarkersOf(Stream!Stream, p, i)
          BY <1>2 DEF MarkersOf
        <4>2. \A S : Stream!Cardinality(S) = Cardinality(S)
          BY Zenon DEF Cardinality, Stream!Cardinality, IsFiniteSet, Stream!IsFiniteSet
        <4> QED
          BY <4>1, <4>2, Zenon DEF Stream!MarksBetween, Stream!Here
      <3> QED
        BY <3>1, <3>2, Zenon DEF GapIsMarked
    <2>4. Stream!Here = Len(Stream!Stream) + 1
      BY Zenon DEF Stream!Here
    <2> QED
      BY <1>2, <2>2, <2>3, <2>4, Zenon DEF LossIsMarked, Stream!LossIsMarked, MarkedIn
  <1> QED
    BY <1>1, <1>3

StreamInv ==
    /\ TypeOK
    /\ StreamOf(Stream!Stream, offered)
    /\ WholeIn(Stream!Stream, offered)
    /\ MarkedIn(Stream!Stream, offered, lossPending)

\* The empty stream has no cell and no gap.
LEMMA StreamInit == Init => StreamInv
  <1> SUFFICES ASSUME Init PROVE StreamInv
    OBVIOUS
  <1>1. TypeOK /\ Stream!Init
    BY InitFacts
  <1>2. Stream!Stream = <<>> /\ offered = <<>> /\ lossPending = FALSE
    BY <1>1 DEF Stream!Init, Stream!Stream
  <1>3. StreamOf(<<>>, <<>>) /\ WholeIn(<<>>, <<>>)
    BY DEF StreamOf, WholeIn
  <1>4. MarkedIn(<<>>, <<>>, FALSE)
    <2>1. KeptIn(<<>>) = {} /\ MarkersIn(<<>>) = {} /\ Len(<<>>) = 0
      BY DEF KeptIn, MarkersIn
    <2>2. MarkersOf(<<>>, 0, 1) = {}
      BY <2>1 DEF MarkersOf
    <2>3. Cardinality(MarkersOf(<<>>, 0, 1)) = 0
      BY <2>2, FS_EmptySet
    <2>4. GapIsMarked(<<>>, <<>>, FALSE, 0, 1)
      BY <2>1, <2>3 DEF GapIsMarked, RecordAtIn
    <2> QED
      <3>1. KeptIn(<<>>) \cup {Len(<<>>) + 1} = {1} /\ KeptIn(<<>>) \cup {0} = {0}
        BY <2>1
      <3> QED
        BY <3>1, <2>4, Zenon DEF MarkedIn
  <1> QED
    BY <1>1, <1>2, <1>3, <1>4, Zenon DEF StreamInv

\* Every step keeps the stream whole and its losses marked.
LEMMA StreamStep == StreamInv /\ [Next]_vars => StreamInv'
  <1> SUFFICES ASSUME StreamInv, [Next]_vars PROVE StreamInv'
    OBVIOUS
  <1> DEFINE s == Stream!Stream
  <1>1. /\ TypeOK /\ TypeOK'
        /\ StreamOf(s, offered) /\ WholeIn(s, offered) /\ MarkedIn(s, offered, lossPending)
    BY StepFacts DEF StreamInv
  <1> SUFFICES /\ StreamOf(s', offered') /\ WholeIn(s', offered')
               /\ MarkedIn(s', offered', lossPending')
    BY <1>1 DEF StreamInv
  <1>2. lossPending \in BOOLEAN /\ lossPending' \in BOOLEAN /\ offered \in Seq(Lengths)
    BY <1>1, Zenon DEF TypeOK
  <1>3. ASSUME NEW length \in Lengths, offered' = Append(offered, length),
               s' = s \o Cells(Len(offered) + 1, length), ~lossPending, ~lossPending'
        PROVE  /\ StreamOf(s', offered') /\ WholeIn(s', offered')
               /\ MarkedIn(s', offered', lossPending')
    <2>1. lossPending = FALSE /\ lossPending' = FALSE
      BY <1>2, <1>3
    <2>2. StreamOf(s, offered') /\ WholeIn(s, offered')
      BY <1>1, <1>3, OfferKeeps, Zenon
    <2>3. /\ Len(offered') = Len(offered) + 1 /\ Len(offered) \in Nat
          /\ offered'[Len(offered) + 1] = length /\ length \in Nat \ {0}
      BY <1>2, <1>3, QueueAssumption, AppendProperties
    <2>4. Len(offered) + 1 \in 0 .. Len(offered') /\ length = LengthIn(offered', Len(offered) + 1)
      BY <2>3 DEF LengthIn
    <2> DEFINE number == Len(offered) + 1
    <2>7. number \in 0 .. Len(offered') /\ length = LengthIn(offered', number)
          /\ s' = s \o Cells(number, length)
      BY <1>3, <2>4
    <2> HIDE DEF s, number
    <2>5. StreamOf(s', offered') /\ WholeIn(s', offered')
      BY <2>2, <2>3, <2>7, WholeGrows, Zenon
    <2>6. MarkedIn(s', offered', FALSE)
      BY <1>1, <1>3, <2>1, KeepingMarks, Zenon
    <2> QED
      BY <2>1, <2>5, <2>6
  <1>4. ASSUME NEW length \in Lengths, offered' = Append(offered, length), s' = s,
               lossPending' = TRUE
        PROVE  /\ StreamOf(s', offered') /\ WholeIn(s', offered')
               /\ MarkedIn(s', offered', lossPending')
    BY <1>1, <1>2, <1>4, OfferKeeps, LosingMarks, Zenon
  <1>5. CASE s' = s \o Stream!Marker /\ lossPending /\ ~lossPending' /\ offered' = offered
    <2>1. lossPending = TRUE /\ lossPending' = FALSE
      BY <1>2, <1>5
    <2>2. /\ MarkerLength \in Nat \ {0} /\ 0 \in 0 .. Len(offered)
          /\ MarkerLength = LengthIn(offered, 0)
      BY <1>2, QueueAssumption DEF LengthIn
    <2>3. Stream!Marker = Cells(0, MarkerLength)
      BY <2>2, CellsAreSequence DEF Stream!Marker
    <2> HIDE DEF s
    <2>4. StreamOf(s', offered) /\ WholeIn(s', offered)
      BY <1>1, <1>5, <2>2, <2>3, WholeGrows
    <2>5. MarkedIn(s', offered, FALSE)
      BY <1>1, <1>5, <2>1, <2>3, MarkingMarks, Zenon
    <2> QED
      BY <1>5, <2>1, <2>4, <2>5
  <1>6. CASE s' = s /\ lossPending' = lossPending /\ offered' = offered
    BY <1>1, <1>6, Zenon
  <1> QED
    BY <1>1, <1>3, <1>4, <1>5, <1>6, StreamGrows, Zenon

\* What the host receives, followed by what is queued, is made of whole records, for
\* any capacity, chunk and record lengths: no wrap, partial write or refusal cuts,
\* splices or repeats one.
THEOREM WholeRecords == Spec => []RecordsAreWhole
  <1>1. StreamInv => RecordsAreWhole
    BY Notions DEF StreamInv
  <1> QED
    BY <1>1, StreamInit, StreamStep, PTL DEF Spec

\* Wherever records are missing from the stream there is a marker, and nowhere else.
THEOREM MarkedLosses == Spec => []LossIsMarked
  <1>1. StreamInv => LossIsMarked
    BY Notions DEF StreamInv
  <1> QED
    BY <1>1, StreamInit, StreamStep, PTL DEF Spec

-----------------------------------------------------------------------------
(* The counters                                                            *)

\* A counter that saturates holds the least of its limit and the true count.
LEMMA SaturatingAdd ==
    ASSUME NEW a \in Nat, NEW b \in Nat
    PROVE  consoleSaturatingAdd(Least(CountMax, a), b) = Least(CountMax, a + b)
  BY QueueAssumption DEF consoleSaturatingAdd, Least

RecordsIn(s) == {s[i].record : i \in DOMAIN s}
LostIn(s, o) == (1 .. Len(o)) \ RecordsIn(s)
BytesIn(o, lost) == UNION {{n} \X (1 .. o[n]) : n \in lost}

LEMMA RecordsGrow ==
    ASSUME NEW s \in Seq(Cell), NEW number \in Nat, NEW length \in Nat \ {0}
    PROVE  RecordsIn(s \o Cells(number, length)) = RecordsIn(s) \cup {number}
  <1> DEFINE cells == Cells(number, length)
             t == s \o cells
  <1>1. /\ cells \in Seq(Cell) /\ Len(cells) = length
        /\ \A k \in 1 .. length : cells[k].record = number
    <2>1. length \in Nat
      OBVIOUS
    <2>2. /\ cells \in Seq(Cell) /\ Len(cells) = length
          /\ \A k \in 1 .. length : cells[k] = [record |-> number, left |-> length - k]
      BY <2>1, CellsAreSequence, Zenon
    <2> HIDE DEF cells
    <2> QED
      BY <2>2
  <1> HIDE DEF cells
  <1>2. /\ t \in Seq(Cell) /\ Len(t) = Len(s) + length
        /\ \A i \in 1 .. Len(s) + length : t[i] = IF i <= Len(s) THEN s[i] ELSE cells[i - Len(s)]
    BY <1>1, ConcatProperties
  <1> HIDE DEF t
  <1>3. Len(s) \in Nat /\ DOMAIN s = 1 .. Len(s) /\ DOMAIN t = 1 .. Len(s) + length
    BY <1>2
  <1>4. \A i \in 1 .. Len(s) : t[i].record = s[i].record
    BY <1>2, <1>3
  <1>5. \A i \in Len(s) + 1 .. Len(s) + length : t[i].record = number
    BY <1>1, <1>2, <1>3
  <1>6. /\ Len(s) + 1 \in Len(s) + 1 .. Len(s) + length
        /\ 1 .. Len(s) + length = (1 .. Len(s)) \cup (Len(s) + 1 .. Len(s) + length)
    BY <1>3
  <1>7. RecordsIn(t) = RecordsIn(s) \cup {number}
    BY <1>3, <1>4, <1>5, <1>6 DEF RecordsIn
  <1> QED
    BY <1>7 DEF t, cells

\* One more lost record adds its bytes to the lost ones; one more kept record none.
LEMMA BytesGrow ==
    ASSUME NEW o \in Seq(Lengths), NEW length \in Lengths, NEW lost \in SUBSET (1 .. Len(o)),
           IsFiniteSet(BytesIn(o, lost)),
           NEW u, u = Append(o, length)
    PROVE  /\ BytesIn(u, lost) = BytesIn(o, lost)
           /\ IsFiniteSet(BytesIn(u, lost \cup {Len(o) + 1}))
           /\ Cardinality(BytesIn(u, lost \cup {Len(o) + 1})) = Cardinality(BytesIn(o, lost)) + length
  <1> DEFINE m == Len(o) + 1
             old == BytesIn(o, lost)
             more == {m} \X (1 .. length)
  <1>1. /\ Len(o) \in Nat /\ length \in Nat /\ u[m] = length
        /\ \A n \in lost : u[n] = o[n] /\ n # m
    BY QueueAssumption, AppendProperties
  <1>2. BytesIn(u, lost) = old
    BY <1>1 DEF BytesIn
  <1>3. BytesIn(u, lost \cup {m}) = BytesIn(u, lost) \cup more
    BY <1>1, Zenon DEF BytesIn
  <1>4. old \cap more = {}
    <2> SUFFICES ASSUME NEW b \in old, b \in more PROVE FALSE
      OBVIOUS
    <2>1. PICK n \in lost : b \in {n} \X (1 .. o[n])
      BY Zenon DEF BytesIn
    <2>2. b[1] = n /\ b[1] = m
      BY <2>1
    <2> QED
      BY <1>1, <2>2
  <1>5. IsFiniteSet(more) /\ Cardinality(more) = length
    <2>1. IsFiniteSet({m}) /\ Cardinality({m}) = 1
      BY FS_Singleton
    <2>2. IsFiniteSet(1 .. length) /\ Cardinality(1 .. length) = length
      BY <1>1, FS_Interval
    <2>3. IsFiniteSet(more) /\ Cardinality(more) = Cardinality({m}) * Cardinality(1 .. length)
      BY <2>1, <2>2, FS_Product, Zenon
    <2> QED
      BY <1>1, <2>1, <2>2, <2>3
  <1>6. IsFiniteSet(old) /\ Cardinality(old) \in Nat
    BY FS_CardinalityType
  <1> HIDE DEF old, more
  <1>7. IsFiniteSet(old \cup more) /\ Cardinality(old \cup more) = Cardinality(old) + Cardinality(more) - 0
    BY <1>4, <1>5, <1>6, FS_Union, FS_EmptySet
  <1>8. Cardinality(old \cup more) = Cardinality(old) + length
    BY <1>1, <1>5, <1>6, <1>7
  <1>9. BytesIn(u, lost \cup {m}) = old \cup more
    BY <1>2, <1>3, Zenon
  <1> QED
    BY <1>2, <1>7, <1>8, <1>9, Zenon DEF old

\* The properties' notions are those above.
LEMMA LostFacts ==
    ASSUME StreamInv
    PROVE  /\ Lost = LostIn(Stream!Stream, offered) /\ LostBytes = BytesIn(offered, Lost)
           /\ Lost \in SUBSET (1 .. Len(offered)) /\ RecordsIn(Stream!Stream) \subseteq 0 .. Len(offered)
           /\ IsFiniteSet(Lost) /\ Cardinality(Lost) \in Nat
  <1>1. Lost = LostIn(Stream!Stream, offered) /\ LostBytes = BytesIn(offered, Lost)
    BY Zenon DEF Lost, LostBytes, LostIn, BytesIn, RecordsIn
  <1>2. Lost \in SUBSET (1 .. Len(offered))
    BY DEF Lost
  <1>3. RecordsIn(Stream!Stream) \subseteq 0 .. Len(offered)
    <2>1. Stream!Stream \in Seq(Cell) /\ \A i \in 1 .. Len(Stream!Stream) :
            Stream!Stream[i].record \in 0 .. Len(offered)
      BY Zenon DEF StreamInv, StreamOf
    <2> QED
      BY <2>1 DEF RecordsIn
  <1>4. IsFiniteSet(1 .. Len(offered))
    BY FS_Interval DEF StreamInv, TypeOK
  <1>5. IsFiniteSet(Lost) /\ Cardinality(Lost) \in Nat
    BY <1>2, <1>4, FS_Subset, FS_CardinalityType
  <1> QED
    BY <1>1, <1>2, <1>3, <1>5

StatsInv == StreamInv /\ StatsAreExact /\ IsFiniteSet(LostBytes)

LEMMA StatsInit == Init => StatsInv
  <1> SUFFICES ASSUME Init PROVE StatsInv
    OBVIOUS
  <1>1. StreamInv /\ offered = <<>> /\ delivered = <<>>
    BY StreamInit DEF Init
  <1>2. Lost = {} /\ LostBytes = {}
    BY <1>1 DEF Lost, LostBytes
  <1>3. IsFiniteSet({}) /\ Cardinality({}) = 0
    BY FS_EmptySet
  <1>4. Least(CountMax, 0) = 0 /\ Len(<<>>) = 0
    BY QueueAssumption DEF Least
  <1> QED
    BY <1>1, <1>2, <1>3, <1>4 DEF StatsInv, StatsAreExact, Init

\* Each step counts what it hands over or refuses, once.
LEMMA StatsStep == StatsInv /\ [Next]_vars => StatsInv'
  <1> SUFFICES ASSUME StatsInv, [Next]_vars PROVE StatsInv'
    OBVIOUS
  <1> DEFINE s == Stream!Stream
             N == Len(offered)
             bytes == Cardinality(LostBytes)
             count == Cardinality(Lost)
  <1>1. /\ StreamInv /\ StreamInv' /\ TypeOK /\ offered \in Seq(Lengths) /\ delivered \in Seq(Cell)
        /\ s \in Seq(Cell) /\ N \in Nat /\ Len(delivered) \in Nat
    <2>1. StreamInv /\ StreamInv'
      BY StreamStep DEF StatsInv
    <2> QED
      BY <2>1 DEF StreamInv, TypeOK, StreamOf
  <1>2. /\ Lost = LostIn(s, offered) /\ LostBytes = BytesIn(offered, Lost)
        /\ Lost \in SUBSET (1 .. N) /\ RecordsIn(s) \subseteq 0 .. N
        /\ IsFiniteSet(Lost) /\ count \in Nat
    BY <1>1, LostFacts
  <1>3. /\ Lost' = LostIn(s', offered') /\ LostBytes' = BytesIn(offered', Lost')
    BY Zenon DEF Lost, LostBytes, LostIn, BytesIn, RecordsIn
  <1>4. /\ stats = [acceptedBytes |-> Least(CountMax, Len(delivered)),
                    droppedBytes |-> Least(CountMax, bytes),
                    droppedMessages |-> Least(CountMax, count)]
        /\ IsFiniteSet(LostBytes) /\ bytes \in Nat
    BY FS_CardinalityType DEF StatsInv, StatsAreExact
  <1>5. ASSUME Lost' = Lost, LostBytes' = LostBytes,
               stats' = [stats EXCEPT !.acceptedBytes = Least(CountMax, Len(delivered'))]
        PROVE  StatsInv'
    <2>1. stats' = [acceptedBytes |-> Least(CountMax, Len(delivered')),
                    droppedBytes |-> Least(CountMax, bytes),
                    droppedMessages |-> Least(CountMax, count)]
      BY <1>4, <1>5
    <2> QED
      BY <1>1, <1>4, <1>5, <2>1 DEF StatsInv, StatsAreExact
  <1>6. ASSUME NEW length \in Lengths, AppendRecord(length) PROVE StatsInv'
    <2>1. /\ offered' = Append(offered, length) /\ delivered' = delivered
          /\ length \in Nat \ {0} /\ Len(offered') = N + 1
      BY <1>1, <1>6, QueueAssumption, AppendProperties DEF AppendRecord
    <2>2. BytesIn(offered', Lost) = BytesIn(offered, Lost)
          /\ IsFiniteSet(BytesIn(offered', Lost \cup {N + 1}))
          /\ Cardinality(BytesIn(offered', Lost \cup {N + 1})) = bytes + length
      BY <1>1, <1>2, <1>4, <2>1, BytesGrow
    <2>3. CASE /\ Refused(length)
               /\ stats' = [stats EXCEPT
                    !.droppedBytes = consoleSaturatingAdd(@, length),
                    !.droppedMessages = consoleSaturatingAdd(@, 1)]
               /\ UNCHANGED ring
      <3>1. s' = s
        BY <2>1, <2>3, Zenon DEF ring, Queue, Stream!Stream
      <3>2. Lost' = Lost \cup {N + 1}
        <4>1. LostIn(s', offered') = (1 .. N + 1) \ RecordsIn(s)
          BY <2>1, <3>1 DEF LostIn
        <4> QED
          BY <1>1, <1>2, <1>3, <4>1 DEF LostIn
      <3>3. N + 1 \notin Lost
        BY <1>1, <1>2
      <3>4. Cardinality(Lost') = count + 1
        BY <1>2, <3>2, <3>3, FS_AddElement
      <3>5. IsFiniteSet(LostBytes') /\ Cardinality(LostBytes') = bytes + length
        BY <1>3, <2>2, <3>2
      <3>6. /\ consoleSaturatingAdd(Least(CountMax, bytes), length) = Least(CountMax, bytes + length)
            /\ consoleSaturatingAdd(Least(CountMax, count), 1) = Least(CountMax, count + 1)
        BY <1>2, <1>4, <2>1, SaturatingAdd
      <3>7. stats' = [acceptedBytes |-> Least(CountMax, Len(delivered)),
                      droppedBytes |-> Least(CountMax, bytes + length),
                      droppedMessages |-> Least(CountMax, count + 1)]
        BY <1>4, <2>3, <3>6
      <3> QED
        BY <1>1, <2>1, <3>4, <3>5, <3>7 DEF StatsInv, StatsAreExact
    <2>4. CASE ~Refused(length) /\ UNCHANGED <<stats, lossPending>>
      <3>1. lossPending = FALSE
        BY <1>1, <2>4 DEF Refused, TypeOK
      <3>2. Queue' = Queue \o Cells(N + 1, length)
        <4>1. lossPending' # TRUE
          BY <2>4, <3>1
        <4> QED
          BY <1>1, <1>6, <4>1, AppendKeepsOrLoses
      <3>3. s' = s \o Cells(N + 1, length)
        <4> DEFINE record == Cells(N + 1, length)
        <4>1. delivered \in Seq(Cell) /\ Queue \in Seq(Cell) /\ record \in Seq(Cell)
          BY <1>1, <2>1, QueueFact, CellsAreSequence DEF TypeOK
        <4>2. Queue' = Queue \o record
          BY <3>2
        <4> HIDE DEF record
        <4>3. delivered \o (Queue \o record) = (delivered \o Queue) \o record
          BY <4>1, ConcatAssociative
        <4> QED
          BY <2>1, <4>2, <4>3, Zenon DEF Stream!Stream, record
      <3>4. RecordsIn(s') = RecordsIn(s) \cup {N + 1}
        BY <1>1, <2>1, <3>3, RecordsGrow
      <3>5. Lost' = Lost
        <4>1. LostIn(s', offered') = (1 .. N + 1) \ (RecordsIn(s) \cup {N + 1})
          BY <2>1, <3>4 DEF LostIn
        <4>2. (1 .. N + 1) \ (RecordsIn(s) \cup {N + 1}) = (1 .. N) \ RecordsIn(s)
          BY <1>1
        <4> QED
          BY <1>2, <1>3, <4>1, <4>2, Zenon DEF LostIn
      <3>6. LostBytes' = LostBytes
        BY <1>2, <1>3, <2>2, <3>5
      <3>7. stats' = [stats EXCEPT !.acceptedBytes = Least(CountMax, Len(delivered'))]
        BY <1>4, <2>1, <2>4
      <3> QED
        BY <1>5, <3>5, <3>6, <3>7
    <2> QED
      BY <1>6, <2>3, <2>4, Zenon DEF AppendRecord
  <1>7. ASSUME NEW accepts \in 0 .. Capacity + 1, Drain(accepts) PROVE StatsInv'
    <2>1. offered' = offered /\ (s' = s \o Stream!Marker \/ s' = s)
      <3>1. [Next]_vars /\ offered' = offered
        BY <1>7, Zenon DEF Drain, Next
      <3>2. \A length \in Lengths : Append(offered, length) # offered
        BY <1>1, AppendProperties
      <3> QED
        BY <1>1, <3>1, <3>2, StreamGrows, Zenon
    <2>2. RecordsIn(s') \ {0} = RecordsIn(s) \ {0}
      <3>1. CASE s' = s \o Stream!Marker
        <4>1. Stream!Marker = Cells(0, MarkerLength) /\ MarkerLength \in Nat \ {0} /\ 0 \in Nat
          BY QueueAssumption, CellsAreSequence DEF Stream!Marker
        <4>2. RecordsIn(s') = RecordsIn(s) \cup {0}
          BY <1>1, <3>1, <4>1, RecordsGrow
        <4> QED
          BY <4>2
      <3> QED
        BY <2>1, <3>1
    <2>3. Lost' = Lost
      <3>1. (1 .. N) \ RecordsIn(s') = (1 .. N) \ RecordsIn(s)
        BY <1>1, <2>2
      <3> QED
        BY <1>2, <1>3, <2>1, <3>1 DEF LostIn
    <2>4. LostBytes' = LostBytes
      BY <1>2, <1>3, <2>1, <2>3
    <2>5. stats' = [stats EXCEPT !.acceptedBytes = Least(CountMax, Len(delivered'))]
      <3>1. CASE UNCHANGED <<stats, delivered>>
        BY <1>4, <3>1
      <3>2. ASSUME NEW cells, stats' = [stats EXCEPT !.acceptedBytes = consoleSaturatingAdd(@, accepts)],
                   delivered' = delivered \o [k \in 1 .. accepts |-> cells[head + k - 1]]
            PROVE  stats' = [stats EXCEPT !.acceptedBytes = Least(CountMax, Len(delivered'))]
        <4>1. accepts \in Nat
          BY QueueAssumption
        <4>2. Len(delivered') = Len(delivered) + accepts
          BY <1>1, <3>2, <4>1
        <4>3. consoleSaturatingAdd(Least(CountMax, Len(delivered)), accepts)
                = Least(CountMax, Len(delivered) + accepts)
          BY <1>1, <4>1, SaturatingAdd
        <4> QED
          BY <1>4, <3>2, <4>2, <4>3
      <3> QED
        BY <1>7, <3>1, <3>2, Zenon DEF Drain
    <2> QED
      BY <1>5, <2>3, <2>4, <2>5
  <1>8. CASE UNCHANGED vars
    <2>1. s' = s /\ offered' = offered /\ delivered' = delivered /\ stats' = stats
      BY <1>8, Zenon DEF vars, ring, Queue, Stream!Stream
    <2>2. Lost' = Lost /\ LostBytes' = LostBytes
      BY <1>2, <1>3, <2>1, Zenon
    <2> QED
      BY <1>4, <1>5, <2>1, <2>2
  <1> QED
    BY <1>6, <1>7, <1>8, Zenon DEF Next

\* The console's counters say how many bytes were handed over and how many bytes and
\* records were lost, exactly up to their limit and pinned to it beyond, for any limit.
THEOREM ExactStats == Spec => []StatsAreExact
  <1>1. StatsInv => StatsAreExact
    BY DEF StatsInv
  <1> QED
    BY <1>1, StatsInit, StatsStep, PTL DEF Spec
=============================================================================
