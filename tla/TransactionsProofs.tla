------------------------- MODULE TransactionsProofs -------------------------
(***************************************************************************)
(* What holds of the event queue, for every number of slots and buffers,   *)
(* and of the transactions, for every number of buffers, events and        *)
(* transactions, every handler, every result of the provider and every     *)
(* fate of a post, as long as there are two event slots more than buffers  *)
(* and the handler does not fail after a transaction was posted.           *)
(***************************************************************************)
EXTENDS Transactions, SequenceTheorems, FiniteSetTheorems, TLAPS

-----------------------------------------------------------------------------
(* The event queue: the remainders of the model, without remainders.       *)

(* The next slot is the first one after the last one. *)
LEMMA IncrementIsCyclic ==
  ASSUME NEW i \in Slots
  PROVE  /\ increment_event_index(i) \in Slots
         /\ increment_event_index(i) = IF i + 1 = EventsCount THEN 0 ELSE i + 1
  BY EventsCountAssumption DEF increment_event_index, Slots

(* The masked difference is the distance from the read to the write index, *)
(* whichever of them is larger.                                            *)
SizeIsDistance ==
  /\ event_queue_size \in 0..(EventsCount - 1)
  /\ event_queue_size = IF rd_index <= wr_index THEN wr_index - rd_index
                                                ELSE wr_index - rd_index + EventsCount

LEMMA Sizes == QueueTypeOK => SizeIsDistance
  BY EventsCountAssumption DEF SizeIsDistance, QueueTypeOK, event_queue_size, Slots

-----------------------------------------------------------------------------
(* Indices stay slots and slots keep holding events, whatever is scheduled *)
(* and whatever the handler writes into the queue's own entry.             *)
THEOREM QueueTypeCorrect == QueueSpec => []QueueTypeOK
<1>1. QueueInit => QueueTypeOK
  BY EventsCountAssumption, BufidAssumption DEF QueueInit, QueueTypeOK, Slots, Event, EvtType
<1>2. QueueTypeOK /\ [QueueNext]_queueVars => QueueTypeOK'
  <2> SUFFICES ASSUME QueueTypeOK, [QueueNext]_queueVars
               PROVE  QueueTypeOK'
    OBVIOUS
  <2>1. ASSUME NEW e \in Event, Schedule(e)
        PROVE  QueueTypeOK'
    BY <2>1, IncrementIsCyclic DEF Schedule, ScheduleEvent, WithEvent, QueueTypeOK
  <2>2. CASE Processed
    BY <2>2, IncrementIsCyclic DEF Processed, DropHead, QueueTypeOK
  <2>3. ASSUME NEW t \in EvtType, HandlerRewrites(t)
        PROVE  QueueTypeOK'
    BY <2>3 DEF HandlerRewrites, QueueTypeOK, Event
  <2>4. CASE UNCHANGED queueVars
    BY <2>4 DEF queueVars, QueueTypeOK
  <2> QED
    BY <2>1, <2>2, <2>3, <2>4 DEF QueueNext
<1> QED
  BY <1>1, <1>2, PTL DEF QueueSpec

LEMMA FullMeansCapacity == QueueTypeOK => NoMemExactlyAtCapacity
<1> SUFFICES ASSUME QueueTypeOK
             PROVE  NoMemExactlyAtCapacity
  OBVIOUS
<1>1. increment_event_index(wr_index) = IF wr_index + 1 = EventsCount THEN 0 ELSE wr_index + 1
  BY IncrementIsCyclic DEF QueueTypeOK
<1>2. SizeIsDistance
  BY Sizes
<1> QED
  BY <1>1, <1>2, EventsCountAssumption
     DEF SizeIsDistance, QueueTypeOK, NoMemExactlyAtCapacity, QueueFull, Slots

(* The full test of vertices_event_schedule and the size computed by       *)
(* vertices_event_process agree for every number of slots: an event is     *)
(* refused exactly when all slots but one are taken.                       *)
THEOREM FullExactlyAtCapacity == QueueSpec => []NoMemExactlyAtCapacity
  BY FullMeansCapacity, QueueTypeCorrect, PTL

-----------------------------------------------------------------------------
(* The slots that hold events, as a set.                                   *)

LEMMA WindowFacts ==
  ASSUME QueueTypeOK
  PROVE  /\ Window \subseteq Slots
         /\ wr_index \notin Window
         /\ event_queue_size # 0 <=> rd_index \in Window
         /\ IsFiniteSet(Window)
         /\ Cardinality(Window) = event_queue_size
<1>1. rd_index \in 0..(EventsCount - 1) /\ wr_index \in 0..(EventsCount - 1) /\ EventsCount \in Nat
  BY EventsCountAssumption DEF QueueTypeOK, Slots
<1>2. SizeIsDistance
  BY Sizes
<1>3. CASE rd_index <= wr_index
  <2>1. Window = rd_index..(wr_index - 1)
    BY <1>1, <1>3 DEF Window, Slots
  <2>2. IsFiniteSet(Window) /\ Cardinality(Window) = wr_index - rd_index
    <3>1. rd_index \in Int /\ wr_index - 1 \in Int
      BY <1>1
    <3>2. /\ IsFiniteSet(rd_index..(wr_index - 1))
          /\ Cardinality(rd_index..(wr_index - 1)) =
               IF rd_index > wr_index - 1 THEN 0 ELSE (wr_index - 1) - rd_index + 1
      BY <3>1, FS_Interval
    <3> QED
      BY <1>1, <1>3, <2>1, <3>2
  <2> QED
    BY <1>1, <1>2, <1>3, <2>1, <2>2 DEF SizeIsDistance, Slots
<1>4. CASE ~(rd_index <= wr_index)
  <2> DEFINE high == rd_index..(EventsCount - 1)
             low  == 0..(wr_index - 1)
  <2>1. Window = high \cup low /\ high \cap low = {}
    BY <1>1, <1>4 DEF Window, Slots
  <2>2. IsFiniteSet(high) /\ Cardinality(high) = EventsCount - rd_index
    BY <1>1, FS_Interval
  <2>3. IsFiniteSet(low) /\ Cardinality(low) = wr_index
    BY <1>1, FS_Interval
  <2>4. IsFiniteSet(high \cup low)
        /\ Cardinality(high \cup low) = Cardinality(high) + Cardinality(low) - Cardinality(high \cap low)
    BY <2>2, <2>3, FS_Union
  <2>5. IsFiniteSet(Window) /\ Cardinality(Window) = EventsCount - rd_index + wr_index
    <3>1. Cardinality(high \cap low) = 0
      BY <2>1, FS_EmptySet
    <3> HIDE DEF high, low
    <3> QED
      BY <1>1, <2>1, <2>2, <2>3, <2>4, <3>1
  <2> QED
    BY <1>1, <1>2, <1>4, <2>1, <2>5 DEF SizeIsDistance, Slots
<1> QED
  BY <1>3, <1>4

(* Scheduling an event adds the write slot to the window. *)
LEMMA WindowGrows ==
  ASSUME QueueTypeOK, ~QueueFull,
         wr_index' = increment_event_index(wr_index), rd_index' = rd_index
  PROVE  Window' = Window \cup {wr_index} /\ event_queue_size' # 0
<1>1. wr_index' = IF wr_index + 1 = EventsCount THEN 0 ELSE wr_index + 1
  BY IncrementIsCyclic DEF QueueTypeOK
<1>2. event_queue_size' = (wr_index' - rd_index') % EventsCount
  BY DEF event_queue_size
<1> QED
  BY <1>1, <1>2, EventsCountAssumption DEF QueueTypeOK, QueueFull, Window, Slots

(* Dropping the oldest event takes its slot out of it. *)
LEMMA WindowShrinks ==
  ASSUME QueueTypeOK, DropHead, wr_index' = wr_index
  PROVE  Window' = Window \ {rd_index}
<1>1. rd_index' = IF rd_index + 1 = EventsCount THEN 0 ELSE rd_index + 1
  BY IncrementIsCyclic DEF QueueTypeOK, DropHead
<1>2. rd_index # wr_index
  BY Sizes DEF DropHead, SizeIsDistance, QueueTypeOK, Slots
<1> QED
  BY <1>1, <1>2, EventsCountAssumption DEF QueueTypeOK, Window, Slots

-----------------------------------------------------------------------------
(* The ring implements the bounded FIFO.                                   *)

(* The queued events and the write slot are in different slots. *)
PositionsDiffer ==
  \A k \in 1..(event_queue_size + 1) :
    /\ Position(k) \in Slots
    /\ Position(k) = wr_index <=> k = event_queue_size + 1
    /\ Position(k) = rd_index <=> k = 1
    /\ Position(k) = IF rd_index + k - 1 < EventsCount THEN rd_index + k - 1
                                                       ELSE rd_index + k - 1 - EventsCount

LEMMA Positions == QueueTypeOK => PositionsDiffer
<1> SUFFICES ASSUME QueueTypeOK, NEW k \in 1..(event_queue_size + 1)
             PROVE  /\ Position(k) \in Slots
                    /\ Position(k) = wr_index <=> k = event_queue_size + 1
                    /\ Position(k) = rd_index <=> k = 1
                    /\ Position(k) = IF rd_index + k - 1 < EventsCount
                                       THEN rd_index + k - 1
                                       ELSE rd_index + k - 1 - EventsCount
  BY DEF PositionsDiffer
<1>1. SizeIsDistance
  BY Sizes
<1>2. rd_index \in 0..(EventsCount - 1) /\ wr_index \in 0..(EventsCount - 1) /\ EventsCount \in Nat
  BY EventsCountAssumption DEF QueueTypeOK, Slots
<1>3. Position(k) = IF rd_index + k - 1 < EventsCount THEN rd_index + k - 1
                                                      ELSE rd_index + k - 1 - EventsCount
  BY <1>1, <1>2 DEF Position, SizeIsDistance
<1> QED
  BY <1>1, <1>2, <1>3 DEF Slots, SizeIsDistance

ContentsAreEvents ==
  /\ Contents \in Seq(Event)
  /\ Len(Contents) = event_queue_size
  /\ \A k \in 1..event_queue_size : Contents[k] = evt[Position(k)]

LEMMA ContentsElements == QueueTypeOK => ContentsAreEvents
<1> SUFFICES ASSUME QueueTypeOK
             PROVE  ContentsAreEvents
  OBVIOUS
<1>1. event_queue_size \in Nat
  BY Sizes DEF SizeIsDistance
<1>2. \A k \in 1..event_queue_size : evt[Position(k)] \in Event
  BY <1>1, Positions DEF QueueTypeOK, PositionsDiffer
<1> QED
  BY <1>1, <1>2 DEF Contents, ContentsAreEvents

LEMMA ScheduleEnqueues ==
  ASSUME QueueTypeOK, QueueTypeOK', NEW e \in Event, Schedule(e)
  PROVE  Fifo!Enqueue(e)
<1>1. SizeIsDistance /\ PositionsDiffer /\ ContentsAreEvents
  BY Sizes, Positions, ContentsElements
<1>2. SizeIsDistance' /\ ContentsAreEvents'
  BY Sizes, ContentsElements, PTL
<1>3. event_queue_size < EventsCount - 1 /\ event_queue_size' = event_queue_size + 1
  <2>1. increment_event_index(wr_index) = IF wr_index + 1 = EventsCount THEN 0 ELSE wr_index + 1
    BY IncrementIsCyclic DEF QueueTypeOK
  <2> QED
    BY <1>1, <1>2, <2>1, EventsCountAssumption
       DEF SizeIsDistance, QueueTypeOK, Schedule, ScheduleEvent, QueueFull, Slots
<1>4. \A k \in 1..(event_queue_size + 1) :
        evt'[Position(k)'] = IF k = event_queue_size + 1 THEN e ELSE evt[Position(k)]
  <2> TAKE k \in 1..(event_queue_size + 1)
  <2>1. Position(k)' = Position(k)
    BY DEF Position, Schedule
  <2>2. Position(k) \in Slots /\ (Position(k) = wr_index <=> k = event_queue_size + 1)
    BY <1>1 DEF PositionsDiffer
  <2> QED
    BY <2>1, <2>2 DEF Schedule, ScheduleEvent, WithEvent, QueueTypeOK
<1>5. Contents' = Append(Contents, e)
  <2>1. /\ Append(Contents, e) \in Seq(Event)
        /\ Len(Append(Contents, e)) = event_queue_size + 1
        /\ \A k \in 1..(event_queue_size + 1) :
             Append(Contents, e)[k] = IF k = event_queue_size + 1 THEN e ELSE Contents[k]
    BY <1>1, AppendProperties DEF ContentsAreEvents
  <2>2. \A k \in 1..(event_queue_size + 1) : Contents'[k] = Append(Contents, e)[k]
    BY <1>1, <1>2, <1>3, <1>4, <2>1 DEF ContentsAreEvents, SizeIsDistance
  <2> QED
    BY <1>2, <1>3, <2>1, <2>2, SeqEqual DEF ContentsAreEvents
<1> QED
  BY <1>1, <1>3, <1>5 DEF Fifo!Enqueue, ContentsAreEvents

LEMMA ProcessedDequeues ==
  ASSUME QueueTypeOK, QueueTypeOK', Processed
  PROVE  Fifo!Dequeue
<1>1. SizeIsDistance /\ PositionsDiffer /\ ContentsAreEvents
  BY Sizes, Positions, ContentsElements
<1>2. SizeIsDistance' /\ PositionsDiffer' /\ ContentsAreEvents'
  BY Sizes, Positions, ContentsElements, PTL
<1>3. rd_index' = IF rd_index + 1 = EventsCount THEN 0 ELSE rd_index + 1
  BY IncrementIsCyclic DEF QueueTypeOK, Processed, DropHead
<1>4. event_queue_size \in Nat \ {0} /\ event_queue_size' = event_queue_size - 1
  BY <1>1, <1>2, <1>3, EventsCountAssumption
     DEF SizeIsDistance, QueueTypeOK, Processed, DropHead, Slots
<1>5. \A k \in 1..(event_queue_size - 1) : Position(k)' = Position(k + 1)
  <2> TAKE k \in 1..(event_queue_size - 1)
  <2>1. Position(k)' = IF rd_index' + k - 1 < EventsCount THEN rd_index' + k - 1
                                                          ELSE rd_index' + k - 1 - EventsCount
    BY <1>2, <1>4 DEF PositionsDiffer
  <2>2. Position(k + 1) = IF rd_index + k < EventsCount THEN rd_index + k
                                                        ELSE rd_index + k - EventsCount
    <3>1. k + 1 \in 1..(event_queue_size + 1)
      BY <1>4
    <3>2. Position(k + 1) = IF rd_index + (k + 1) - 1 < EventsCount
                              THEN rd_index + (k + 1) - 1
                              ELSE rd_index + (k + 1) - 1 - EventsCount
      BY <1>1, <3>1 DEF PositionsDiffer
    <3> QED
      BY <1>4, <3>2, EventsCountAssumption DEF QueueTypeOK, Slots
  <2> QED
    BY <1>1, <1>3, <1>4, <2>1, <2>2, EventsCountAssumption DEF SizeIsDistance, QueueTypeOK, Slots
<1>6. Contents # << >>
  BY <1>1, <1>4 DEF ContentsAreEvents
<1>7. Contents' = Tail(Contents)
  <2>1. /\ Tail(Contents) \in Seq(Event)
        /\ Len(Tail(Contents)) = event_queue_size - 1
        /\ \A k \in 1..(event_queue_size - 1) : Tail(Contents)[k] = Contents[k + 1]
    BY <1>1, <1>6, HeadTailProperties DEF ContentsAreEvents
  <2>2. \A k \in 1..(event_queue_size - 1) : Contents'[k] = Tail(Contents)[k]
    <3> TAKE k \in 1..(event_queue_size - 1)
    <3>1. Contents'[k] = evt'[Position(k)']
      BY <1>2, <1>4 DEF ContentsAreEvents
    <3>2. Contents[k + 1] = evt[Position(k + 1)]
      BY <1>1, <1>4 DEF ContentsAreEvents
    <3> QED
      BY <1>5, <2>1, <3>1, <3>2 DEF Processed
  <2> QED
    BY <1>2, <1>4, <2>1, <2>2, SeqEqual DEF ContentsAreEvents
<1> QED
  BY <1>6, <1>7 DEF Fifo!Dequeue

LEMMA RewriteRewritesHead ==
  ASSUME QueueTypeOK, NEW t \in EvtType, HandlerRewrites(t)
  PROVE  \E e \in Event : Fifo!RewriteHead(e)
<1> DEFINE e == [evt[rd_index] EXCEPT !.type = t]
<1>1. e \in Event /\ evt' = [evt EXCEPT ![rd_index] = e]
  BY DEF QueueTypeOK, Event, HandlerRewrites
<1> HIDE DEF e
<1>2. SizeIsDistance /\ PositionsDiffer /\ ContentsAreEvents
  BY Sizes, Positions, ContentsElements
<1>3. event_queue_size \in Nat \ {0} /\ event_queue_size' = event_queue_size
  BY <1>2, EventsCountAssumption DEF HandlerRewrites, event_queue_size, SizeIsDistance
<1>4. \A k \in 1..event_queue_size :
        evt'[Position(k)'] = IF k = 1 THEN e ELSE evt[Position(k)]
  <2> TAKE k \in 1..event_queue_size
  <2>1. Position(k)' = Position(k)
    BY DEF Position, HandlerRewrites
  <2>2. Position(k) \in Slots /\ (Position(k) = rd_index <=> k = 1)
    BY <1>2, <1>3 DEF PositionsDiffer
  <2> QED
    BY <1>1, <2>1, <2>2 DEF QueueTypeOK
<1>5. Contents' = [Contents EXCEPT ![1] = e]
  <2>1. Contents' = [k \in 1..event_queue_size |-> IF k = 1 THEN e ELSE evt[Position(k)]]
    BY <1>3, <1>4 DEF Contents
  <2> QED
    BY <1>3, <2>1 DEF Contents
<1>6. Contents # << >>
  BY <1>2, <1>3 DEF ContentsAreEvents
<1> QED
  BY <1>1, <1>5, <1>6 DEF Fifo!RewriteHead

(* No waiting event is lost, doubled, overwritten or overtaken, for every  *)
(* number of slots: each step of the ring is a step of the bounded FIFO.   *)
THEOREM QueueImplementsFifo == QueueSpec => ImplementsFifo
<1>1. QueueInit => Fifo!Init
  <2> SUFFICES ASSUME QueueInit
               PROVE  Contents = << >>
    BY DEF Fifo!Init
  <2>1. event_queue_size = 0
    BY EventsCountAssumption DEF QueueInit, event_queue_size
  <2> QED
    BY <2>1 DEF Contents
<1>2. QueueTypeOK /\ QueueTypeOK' /\ [QueueNext]_queueVars => [Fifo!Next]_Contents
  <2> SUFFICES ASSUME QueueTypeOK, QueueTypeOK', [QueueNext]_queueVars
               PROVE  [Fifo!Next]_Contents
    OBVIOUS
  <2>1. ASSUME NEW e \in Event, Schedule(e)
        PROVE  Fifo!Next
    BY <2>1, ScheduleEnqueues DEF Fifo!Next
  <2>2. CASE Processed
    BY <2>2, ProcessedDequeues DEF Fifo!Next
  <2>3. ASSUME NEW t \in EvtType, HandlerRewrites(t)
        PROVE  Fifo!Next
    BY <2>3, RewriteRewritesHead DEF Fifo!Next
  <2>4. CASE UNCHANGED queueVars
    BY <2>4 DEF queueVars, Contents, Position, event_queue_size
  <2> QED
    BY <2>1, <2>2, <2>3, <2>4 DEF QueueNext
<1>3. QueueTypeOK /\ QueueTypeOK' => Corresponds
  BY ScheduleEnqueues, ProcessedDequeues DEF Corresponds
<1> QED
  BY <1>1, <1>2, <1>3, QueueTypeCorrect, PTL DEF QueueSpec, ImplementsFifo, Fifo!Spec

-----------------------------------------------------------------------------
(* Transactions: the inductive invariant.                                  *)

Encoded(b) == pending[b].body = "encoded"

(* What the buffers hold: each encoded transaction has a buffer of its     *)
(* own, the other buffers hold none.                                       *)
BufferInv ==
  /\ \A b \in Bufid : Encoded(b) => pending[b].tx \in 1..created
  /\ \A b \in Bufid : ~Encoded(b) => pending[b].tx = 0
  /\ \A b, c \in Bufid : Encoded(b) /\ Encoded(c) /\ pending[b].tx = pending[c].tx => b = c

(* An event is being processed until the end of the event loop. *)
PhaseInv == pc # "app" => event_queue_size # 0

(* Only transactions that exist were posted or acknowledged. *)
NetworkInv ==
  /\ acked \subseteq 1..created
  /\ \A p \in posted : p.tx \in 1..created

IInv ==
  /\ TxTypeOK
  /\ BufferInv
  /\ PhaseInv
  /\ NetworkInv
  /\ OneEventPerTx
  /\ EventTellsProgress
  /\ PostedIsSigned
  /\ PostedIsTracked

(* The configurations the theorems are about: no event is refused, and no  *)
(* handler fails after the transaction of its event was posted.            *)
Roomy ==
  /\ EventsCount >= PendingTxCount + 2
  /\ ~(Handler = "unix" /\ IoFailures)

-----------------------------------------------------------------------------
(* There is room for every event.                                          *)

(* Events in flight are about different buffers, so there are no more of   *)
(* them than buffers, and none of them is about a free buffer.             *)
LEMMA LiveEventsBound ==
  ASSUME IInv
  PROVE  /\ IsFiniteSet(LiveSlots)
         /\ Cardinality(LiveSlots) \in Nat
         /\ Cardinality(LiveSlots) <= PendingTxCount
         /\ \A b \in Bufid : ~Encoded(b) => Cardinality(LiveSlots) <= PendingTxCount - 1
<1> DEFINE f == [i \in LiveSlots |-> evt[i].bufid]
<1>1. LiveSlots \subseteq Slots
  BY WindowFacts DEF IInv, TxTypeOK, LiveSlots
<1>2. IsFiniteSet(Bufid) /\ Cardinality(Bufid) = PendingTxCount /\ PendingTxCount \in Nat
  <2>1. PendingTxCount \in Nat \ {0} /\ Bufid = 0..(PendingTxCount - 1)
    BY TransactionsAssumption
  <2> QED
    BY <2>1, FS_Interval
<1>3. f \in Injection(LiveSlots, Bufid)
  <2>1. \A i \in LiveSlots : evt[i].bufid \in Bufid
    BY <1>1 DEF IInv, TxTypeOK, QueueTypeOK, Event
  <2>2. \A i, j \in LiveSlots : evt[i].bufid = evt[j].bufid => i = j
    BY DEF IInv, OneEventPerTx
  <2>3. f \in [LiveSlots -> Bufid]
    BY <2>1
  <2>4. \A i, j \in LiveSlots : f[i] = f[j] => i = j
    BY <2>2
  <2> HIDE DEF f
  <2> QED
    BY <2>3, <2>4 DEF Injection, IsInjective
<1>4. IsFiniteSet(LiveSlots) /\ Cardinality(LiveSlots) <= PendingTxCount
  BY <1>2, <1>3, FS_Injection
<1>5. Cardinality(LiveSlots) \in Nat
  BY <1>4, FS_CardinalityType
<1>6. ASSUME NEW b \in Bufid, ~Encoded(b)
      PROVE  Cardinality(LiveSlots) <= PendingTxCount - 1
  <2>1. IsFiniteSet(Bufid \ {b}) /\ Cardinality(Bufid \ {b}) = PendingTxCount - 1
    BY <1>2, FS_RemoveElement
  <2>2. \A i \in LiveSlots : evt[i].bufid # b
    BY <1>1, <1>6 DEF IInv, OneEventPerTx, Encoded
  <2>3. f \in Injection(LiveSlots, Bufid \ {b})
    BY <1>3, <2>2 DEF Injection, IsInjective
  <2> QED
    BY <2>1, <2>3, FS_Injection
<1> QED
  BY <1>4, <1>5, <1>6

(* At most one event waits beside the events in flight: the one that is    *)
(* being processed and has queued its successor.                           *)
LEMMA SizeBound ==
  ASSUME IInv
  PROVE  /\ event_queue_size \in Nat
         /\ event_queue_size <= Cardinality(LiveSlots) + 1
         /\ ~Superseded => event_queue_size = Cardinality(LiveSlots)
<1>1. QueueTypeOK
  BY DEF IInv, TxTypeOK
<1>2. IsFiniteSet(Window) /\ Cardinality(Window) = event_queue_size
  BY <1>1, WindowFacts
<1>3. event_queue_size \in Nat
  BY <1>1, Sizes, EventsCountAssumption DEF SizeIsDistance
<1>4. CASE Superseded
  <2>1. Cardinality(Window \ {rd_index}) >= Cardinality(Window) - 1
    BY <1>2, <1>3, FS_RemoveElement
  <2> QED
    BY <1>2, <1>3, <1>4, <2>1, LiveEventsBound DEF LiveSlots
<1>5. CASE ~Superseded
  BY <1>2, <1>3, <1>5 DEF LiveSlots
<1> QED
  BY <1>3, <1>4, <1>5

LEMMA RoomForNext ==
  ASSUME IInv, Roomy,
         ~Superseded \/ \E b \in Bufid : ~Encoded(b)
  PROVE  ~QueueFull
<1>1. event_queue_size <= PendingTxCount /\ event_queue_size \in Nat
  BY LiveEventsBound, SizeBound, TransactionsAssumption
<1>2. NoMemExactlyAtCapacity
  <2>1. QueueTypeOK
    BY DEF IInv, TxTypeOK
  <2> QED
    BY <2>1, FullMeansCapacity
<1> QED
  BY <1>1, <1>2, EventsCountAssumption, TransactionsAssumption DEF Roomy, NoMemExactlyAtCapacity

-----------------------------------------------------------------------------
(* Steps that leave the events, and what their buffers hold, alone.        *)

LEMMA InvFacts ==
  ASSUME IInv
  PROVE  /\ QueueTypeOK
         /\ LiveSlots \subseteq Window
         /\ Window \subseteq Slots
         /\ wr_index \in Slots \ Window
         /\ rd_index \in Slots
         /\ event_queue_size # 0 <=> rd_index \in Window
         /\ event_queue_size # 0 /\ ~Superseded => rd_index \in LiveSlots
         /\ \A i \in Slots : evt[i] \in Event
         /\ \A i \in LiveSlots : evt[i].bufid \in Bufid /\ Encoded(evt[i].bufid)
<1>1. QueueTypeOK
  BY DEF IInv, TxTypeOK
<1>2. \A i \in Slots : evt[i] \in Event
  BY <1>1 DEF QueueTypeOK
<1>3. LiveSlots \subseteq Window /\ Window \subseteq Slots
  BY <1>1, WindowFacts DEF LiveSlots
<1>4. \A i \in LiveSlots : evt[i].bufid \in Bufid /\ Encoded(evt[i].bufid)
  BY <1>2, <1>3 DEF IInv, OneEventPerTx, Encoded, Event
<1> QED
  BY <1>1, <1>2, <1>3, <1>4, WindowFacts DEF QueueTypeOK, LiveSlots

(* Errors, early returns and the handler's own phases. *)
LEMMA QuietStep ==
  ASSUME IInv,
         UNCHANGED <<queueVars, m_tx_buffer_idx, created, posted, acked>>,
         pending' = pending \/ (IsFree(m_tx_buffer_idx) /\ pending' = Reserved),
         pc' \in {"app", "user", "post"}, stopped' \in BOOLEAN, ret' \in Ret,
         pc' # "app" => event_queue_size # 0,
         Superseded' <=> Superseded
  PROVE  IInv'
<1>1. \A b \in Bufid : /\ pending'[b].tx = pending[b].tx
                       /\ pending'[b].sig = pending[b].sig
                       /\ Encoded(b)' <=> Encoded(b)
  BY DEF Reserved, IsFree, Encoded, IInv, TxTypeOK, SignedTx
<1>2. UNCHANGED <<wr_index, rd_index, evt, event_queue_size, Window>>
  BY DEF queueVars, event_queue_size, Window
<1>3. LiveSlots' = LiveSlots
  BY <1>2 DEF LiveSlots
<1>4. TxTypeOK'
  <2>1. pending' \in [Bufid -> SignedTx]
    BY DEF IInv, TxTypeOK, Reserved, SignedTx
  <2> QED
    BY <1>2, <2>1 DEF IInv, TxTypeOK, QueueTypeOK
<1>5. BufferInv'
  BY <1>1 DEF IInv, BufferInv, Encoded
<1>6. PhaseInv' /\ NetworkInv' /\ PostedIsSigned'
  BY <1>2 DEF IInv, PhaseInv, NetworkInv, PostedIsSigned
<1>7. OneEventPerTx'
  BY <1>1, <1>2, <1>3 DEF IInv, OneEventPerTx, Encoded
<1>8. EventTellsProgress'
  BY <1>1, <1>2, <1>3, InvFacts DEF IInv, EventTellsProgress
<1>9. PostedIsTracked'
  BY <1>1 DEF IInv, PostedIsTracked
<1> QED
  BY <1>4, <1>5, <1>6, <1>7, <1>8, <1>9 DEF IInv

-----------------------------------------------------------------------------
(* Steps that queue, replace or drop an event.                             *)

(* What a scheduled event changes in the queue. *)
LEMMA Scheduled ==
  ASSUME QueueTypeOK, ~QueueFull, NEW e \in Event,
         wr_index' = increment_event_index(wr_index), rd_index' = rd_index,
         \A i \in Slots \ {rd_index} : evt'[i] = IF i = wr_index THEN e ELSE evt[i],
         evt' \in [Slots -> Event]
  PROVE  /\ QueueTypeOK'
         /\ Window' = Window \cup {wr_index}
         /\ event_queue_size' # 0
<1>1. wr_index' \in Slots
  BY IncrementIsCyclic DEF QueueTypeOK
<1>2. QueueTypeOK'
  BY <1>1 DEF QueueTypeOK
<1> QED
  BY <1>2, WindowGrows

(* A transaction is encoded into a free buffer and its first event queued. *)
LEMMA EncodeFacts ==
  ASSUME IInv, Roomy, ApiCaller, IsFree(m_tx_buffer_idx), EncodeAndSchedule,
         UNCHANGED <<pc, stopped, posted, acked>>
  PROVE  /\ m_tx_buffer_idx \in Bufid /\ ~Encoded(m_tx_buffer_idx)
         /\ created \in Nat /\ created < MaxTx /\ created' = created + 1 /\ ret' = "SUCCESS"
         /\ \A c \in Bufid \ {m_tx_buffer_idx} : pending'[c] = pending[c]
         /\ pending'[m_tx_buffer_idx].body = "encoded"
         /\ pending'[m_tx_buffer_idx].tx = created + 1
         /\ pending' \in [Bufid -> SignedTx]
         /\ QueueTypeOK' /\ event_queue_size' # 0 /\ rd_index' = rd_index
         /\ LiveSlots' = LiveSlots \cup {wr_index}
         /\ evt'[wr_index] = Ev("TX_READY_TO_SIGN", m_tx_buffer_idx)
         /\ \A i \in LiveSlots :
              evt'[i] = evt[i] /\ evt[i].bufid \in Bufid \ {m_tx_buffer_idx}
<1> DEFINE b == m_tx_buffer_idx
           e == Ev("TX_READY_TO_SIGN", b)
<1>1. b \in Bufid /\ ~Encoded(b) /\ e \in Event
  BY DEF IInv, TxTypeOK, IsFree, Encoded, Ev, Event, EvtType
<1>2. ~QueueFull
  BY <1>1, RoomForNext
<1>3. /\ ret' = "SUCCESS"
      /\ evt' = [evt EXCEPT ![wr_index] = e]
      /\ wr_index' = increment_event_index(wr_index)
      /\ rd_index' = rd_index
  BY <1>2 DEF EncodeAndSchedule, vertices_event_schedule, ScheduleEvent, WithEvent
<1>4. /\ created \in Nat /\ created < MaxTx /\ created' = created + 1
      /\ \A c \in Bufid \ {b} : pending'[c] = pending[c]
      /\ pending'[b].body = "encoded" /\ pending'[b].tx = created + 1
      /\ pending' \in [Bufid -> SignedTx]
  BY <1>1, TransactionsAssumption
     DEF EncodeAndSchedule, encode_tx, IInv, TxTypeOK, SignedTx, TxId
<1>5. \A c \in Bufid : Encoded(c)' <=> Encoded(c) \/ c = b
  BY <1>1, <1>4 DEF Encoded
<1> HIDE DEF b, e
<1>6. /\ QueueTypeOK' /\ Window' = Window \cup {wr_index} /\ event_queue_size' # 0
      /\ \A i \in Slots \ {wr_index} : evt'[i] = evt[i]
      /\ evt'[wr_index] = e
  <2>1. evt' \in [Slots -> Event]
    BY <1>1, <1>3, InvFacts DEF QueueTypeOK
  <2> QED
    BY <1>1, <1>2, <1>3, <2>1, InvFacts, Scheduled DEF QueueTypeOK
<1>7. LiveSlots' = LiveSlots \cup {wr_index}
  <2>1. Superseded' <=> Superseded
    <3>1. pc # "app" => evt'[rd_index] = evt[rd_index] /\ event_queue_size # 0
      BY <1>6, InvFacts DEF IInv, PhaseInv
    <3> QED
      BY <1>3, <1>6, <3>1 DEF Superseded, EventIs, HeadEvent
  <2>2. Superseded => rd_index \in Window
    BY InvFacts DEF Superseded, EventIs
  <2> QED
    BY <1>3, <1>6, <2>1, <2>2, InvFacts DEF LiveSlots
<1>8. \A i \in LiveSlots : evt'[i] = evt[i] /\ evt[i].bufid \in Bufid \ {b}
  BY <1>1, <1>6, InvFacts
<1> QED
  BY <1>1, <1>3, <1>4, <1>6, <1>7, <1>8 DEF b, e

LEMMA EncodeStep ==
  ASSUME IInv, Roomy, ApiCaller, IsFree(m_tx_buffer_idx), EncodeAndSchedule,
         UNCHANGED <<pc, stopped, posted, acked>>
  PROVE  IInv'
<1> DEFINE b == m_tx_buffer_idx
           e == Ev("TX_READY_TO_SIGN", b)
<1>1. b \in Bufid /\ ~Encoded(b)
  BY EncodeFacts
<1>3. ret' = "SUCCESS" /\ rd_index' = rd_index
  BY EncodeFacts
<1>4. /\ created \in Nat /\ created < MaxTx /\ created' = created + 1
      /\ \A c \in Bufid \ {b} : pending'[c] = pending[c]
      /\ pending'[b].body = "encoded" /\ pending'[b].tx = created + 1
      /\ pending' \in [Bufid -> SignedTx]
  BY EncodeFacts
<1>5. \A c \in Bufid : Encoded(c)' <=> Encoded(c) \/ c = b
  BY <1>1, <1>4 DEF Encoded
<1>6. QueueTypeOK' /\ event_queue_size' # 0 /\ evt'[wr_index] = e
  BY EncodeFacts
<1>7. LiveSlots' = LiveSlots \cup {wr_index}
  BY EncodeFacts
<1>8. e.bufid = b /\ e.type = "TX_READY_TO_SIGN"
  BY DEF Ev
<1>9. \A i \in LiveSlots : evt'[i] = evt[i] /\ evt[i].bufid \in Bufid \ {b}
  BY EncodeFacts
<1> HIDE DEF b, e
<1>10. TxTypeOK'
  <2>1. m_tx_buffer_idx' \in Bufid
    BY TransactionsAssumption DEF EncodeAndSchedule, next_buffer, IInv, TxTypeOK
  <2>2. created' \in 0..MaxTx
    BY <1>4, TransactionsAssumption
  <2> QED
    BY <1>3, <1>4, <1>6, <2>1, <2>2 DEF IInv, TxTypeOK, Ret
<1>11. BufferInv'
  <2>1. \A c \in Bufid : Encoded(c)' => pending'[c].tx \in 1..created'
    BY <1>4, <1>5 DEF IInv, BufferInv
  <2>2. \A c \in Bufid : ~Encoded(c)' => pending'[c].tx = 0
    BY <1>4, <1>5 DEF IInv, BufferInv
  <2>3. \A c, d \in Bufid : Encoded(c)' /\ Encoded(d)' /\ pending'[c].tx = pending'[d].tx => c = d
    BY <1>4, <1>5 DEF IInv, BufferInv
  <2> QED
    BY <2>1, <2>2, <2>3 DEF BufferInv
<1>12. PhaseInv' /\ NetworkInv' /\ PostedIsSigned'
  BY <1>4, <1>6 DEF IInv, PhaseInv, NetworkInv, PostedIsSigned
<1>13. OneEventPerTx'
  <2>1. \A i, j \in LiveSlots' : evt'[i].bufid = evt'[j].bufid => i = j
    BY <1>6, <1>7, <1>8, <1>9 DEF IInv, OneEventPerTx
  <2>2. \A c \in Bufid : Encoded(c)' <=> \E i \in LiveSlots' : evt'[i].bufid = c
    BY <1>5, <1>6, <1>7, <1>8, <1>9 DEF IInv, OneEventPerTx, Encoded
  <2> QED
    BY <2>1, <2>2 DEF OneEventPerTx, Encoded
<1>14. EventTellsProgress'
  <2> SUFFICES ASSUME NEW i \in LiveSlots'
               PROVE  /\ pending'[evt'[i].bufid].tx \in 1..created'
                      /\ evt'[i].type # "TX_READY_TO_SIGN" =>
                           pending'[evt'[i].bufid].sig = pending'[evt'[i].bufid].tx
                      /\ evt'[i].type = "TX_SUCCESS" <=> pending'[evt'[i].bufid].tx \in acked'
    BY DEF EventTellsProgress
  <2>1. CASE i = wr_index
    BY <1>4, <1>6, <1>8, <2>1 DEF IInv, NetworkInv
  <2>2. CASE i \in LiveSlots
    BY <1>4, <1>9, <2>2 DEF IInv, EventTellsProgress
  <2> QED
    BY <1>7, <2>1, <2>2
<1>15. PostedIsTracked'
  <2>1. \A p \in posted : p.tx # pending[b].tx
    BY <1>1 DEF IInv, BufferInv, NetworkInv
  <2> QED
    BY <1>4, <2>1 DEF IInv, PostedIsTracked
<1> QED
  BY <1>10, <1>11, <1>12, <1>13, <1>14, <1>15 DEF IInv

(* The transaction of the oldest event goes on: its successor e is queued  *)
(* and the oldest event, which may have been rewritten, is superseded.     *)
LEMMA Succession ==
  ASSUME IInv, Roomy, ~Superseded, event_queue_size # 0,
         NEW e \in Event, e.bufid = HeadBuf,
         wr_index' = increment_event_index(wr_index), rd_index' = rd_index,
         \A i \in Slots \ {rd_index} : evt'[i] = IF i = wr_index THEN e ELSE evt[i],
         evt' \in [Slots -> Event],
         Superseded',
         \A b \in Bufid : Encoded(b)' <=> Encoded(b)
  PROVE  /\ QueueTypeOK'
         /\ event_queue_size' # 0
         /\ rd_index \in LiveSlots
         /\ LiveSlots' = (LiveSlots \ {rd_index}) \cup {wr_index}
         /\ \A i \in LiveSlots \ {rd_index} :
              /\ evt'[i] = evt[i]
              /\ evt[i].bufid \in Bufid \ {HeadBuf}
              /\ Encoded(evt[i].bufid)
         /\ evt'[wr_index] = e
         /\ HeadBuf \in Bufid /\ Encoded(HeadBuf)
         /\ OneEventPerTx'
<1>1. ~QueueFull
  BY RoomForNext
<1>2. QueueTypeOK' /\ Window' = Window \cup {wr_index} /\ event_queue_size' # 0
  BY <1>1, InvFacts, Scheduled
<1>3. rd_index \in LiveSlots /\ LiveSlots = Window
  BY InvFacts DEF LiveSlots
<1>4. LiveSlots' = (LiveSlots \ {rd_index}) \cup {wr_index}
  BY <1>2, <1>3, InvFacts DEF LiveSlots
<1>5. evt'[wr_index] = e
  BY <1>3, InvFacts
<1>6. \A i \in LiveSlots \ {rd_index} :
        evt'[i] = evt[i] /\ evt[i].bufid \in Bufid \ {HeadBuf} /\ Encoded(evt[i].bufid)
  BY <1>3, InvFacts DEF IInv, OneEventPerTx, HeadBuf, HeadEvent
<1>7. HeadBuf \in Bufid /\ Encoded(HeadBuf)
  BY <1>3, InvFacts DEF HeadBuf, HeadEvent
<1>8. OneEventPerTx'
  <2>1. \A i, j \in LiveSlots' : evt'[i].bufid = evt'[j].bufid => i = j
    BY <1>4, <1>5, <1>6 DEF IInv, OneEventPerTx
  <2>2. \A b \in Bufid : Encoded(b)' <=> \E i \in LiveSlots' : evt'[i].bufid = b
    <3> TAKE b \in Bufid
    <3>1. CASE b = HeadBuf
      BY <1>4, <1>5, <1>7, <3>1
    <3>2. CASE b # HeadBuf
      BY <1>4, <1>5, <1>6, <3>2 DEF IInv, OneEventPerTx, Encoded, HeadBuf, HeadEvent
    <3> QED
      BY <3>1, <3>2
  <2> QED
    BY <2>1, <2>2 DEF OneEventPerTx, Encoded
<1> QED
  BY <1>2, <1>3, <1>4, <1>5, <1>6, <1>7, <1>8

(* The handler signs a transaction and queues TX_SENDING. *)
LEMMA SignFacts ==
  ASSUME IInv, Roomy, HandleReadyToSign, ~IsFree(HeadBuf)
  PROVE  /\ evt[rd_index].type = "TX_READY_TO_SIGN" /\ rd_index \in LiveSlots
         /\ HeadBuf \in Bufid /\ Encoded(HeadBuf)
         /\ UNCHANGED <<rd_index, m_tx_buffer_idx, stopped, created, posted, acked>>
         /\ ret' = "SUCCESS" /\ pc' = "post"
         /\ pending' \in [Bufid -> SignedTx]
         /\ \A c \in Bufid : /\ pending'[c].tx = pending[c].tx
                             /\ c # HeadBuf => pending'[c].sig = pending[c].sig
                             /\ pending'[c].body = pending[c].body
         /\ pending'[HeadBuf].sig = pending[HeadBuf].tx
         /\ QueueTypeOK' /\ event_queue_size' # 0 /\ OneEventPerTx'
         /\ LiveSlots' = (LiveSlots \ {rd_index}) \cup {wr_index}
         /\ \A i \in LiveSlots \ {rd_index} :
              evt'[i] = evt[i] /\ evt[i].bufid \in Bufid \ {HeadBuf}
         /\ evt'[wr_index] = Ev("TX_SENDING", HeadBuf)
<1> DEFINE b == HeadBuf
           e == Ev("TX_SENDING", b)
<1>1. /\ pc = "user" /\ event_queue_size # 0 /\ evt[rd_index].type = "TX_READY_TO_SIGN"
      /\ ~Superseded
  BY DEF HandleReadyToSign, EventIs, HeadEvent, Superseded
<1>2. rd_index \in LiveSlots /\ b \in Bufid /\ e \in Event /\ Encoded(b)
  BY <1>1, InvFacts DEF HeadBuf, HeadEvent, Ev, Event, EvtType
<1>3. ~QueueFull
  BY <1>1, RoomForNext
<1>4. /\ pending' = [pending EXCEPT ![b].sig = pending[b].tx]
      /\ UNCHANGED <<rd_index, m_tx_buffer_idx, stopped, created, posted, acked>>
      /\ ret' = "SUCCESS" /\ pc' = "post"
      /\ wr_index' = increment_event_index(wr_index)
      /\ evt' = [evt EXCEPT ![wr_index] = e]
         \/ evt' = [[evt EXCEPT ![rd_index] = e] EXCEPT ![wr_index] = e]
  <2>1. QueueSending /\ HandlerReturns /\ pending' = Sign(b)
        /\ UNCHANGED <<rd_index, m_tx_buffer_idx, stopped, created, posted, acked>>
    BY DEF HandleReadyToSign, ProcessReturns
  <2>2. ret' = "SUCCESS" /\ wr_index' = increment_event_index(wr_index)
        /\ (evt' = [evt EXCEPT ![wr_index] = e]
             \/ evt' = [[evt EXCEPT ![rd_index] = e] EXCEPT ![wr_index] = e])
    BY <1>3, <2>1 DEF QueueSending, vertices_event_schedule, ScheduleEvent, WithEvent
  <2> QED
    BY <2>1, <2>2 DEF HandlerReturns, Sign
<1>5. /\ pending' \in [Bufid -> SignedTx]
      /\ \A c \in Bufid : /\ pending'[c].tx = pending[c].tx
                          /\ c # b => pending'[c].sig = pending[c].sig
                          /\ pending'[c].body = pending[c].body
                          /\ Encoded(c)' <=> Encoded(c)
      /\ pending'[b].sig = pending[b].tx
  BY <1>2, <1>4 DEF IInv, TxTypeOK, SignedTx, Encoded
<1>6. /\ e.bufid = HeadBuf
      /\ e.type = "TX_SENDING"
  BY DEF Ev
<1> HIDE DEF e
<1>7. /\ evt' \in [Slots -> Event]
      /\ \A i \in Slots \ {rd_index} : evt'[i] = IF i = wr_index THEN e ELSE evt[i]
      /\ evt'[rd_index].type \in {"TX_READY_TO_SIGN", "TX_SENDING"}
  BY <1>1, <1>2, <1>4, <1>6, InvFacts DEF QueueTypeOK
<1>8. Superseded'
  <2>1. event_queue_size' # 0
    BY <1>2, <1>3, <1>4, <1>7, InvFacts, Scheduled
  <2> QED
    BY <1>4, <1>7, <2>1 DEF Superseded, EventIs, HeadEvent
<1>9. /\ QueueTypeOK' /\ event_queue_size' # 0 /\ OneEventPerTx'
      /\ LiveSlots' = (LiveSlots \ {rd_index}) \cup {wr_index}
      /\ \A i \in LiveSlots \ {rd_index} : evt'[i] = evt[i] /\ evt[i].bufid \in Bufid \ {b}
      /\ evt'[wr_index] = e
  BY <1>1, <1>2, <1>4, <1>5, <1>6, <1>7, <1>8, Succession
<1> QED
  BY <1>1, <1>2, <1>4, <1>5, <1>9 DEF e

LEMMA SignStep ==
  ASSUME IInv, Roomy, HandleReadyToSign, ~IsFree(HeadBuf)
  PROVE  IInv'
<1> DEFINE b == HeadBuf
           e == Ev("TX_SENDING", b)
<1>1. evt[rd_index].type = "TX_READY_TO_SIGN"
  BY SignFacts
<1>2. rd_index \in LiveSlots /\ b \in Bufid /\ Encoded(b)
  BY SignFacts
<1>4. /\ UNCHANGED <<rd_index, m_tx_buffer_idx, stopped, created, posted, acked>>
      /\ ret' = "SUCCESS" /\ pc' = "post"
  BY SignFacts
<1>5. /\ pending' \in [Bufid -> SignedTx]
      /\ \A c \in Bufid : /\ pending'[c].tx = pending[c].tx
                          /\ c # b => pending'[c].sig = pending[c].sig
                          /\ Encoded(c)' <=> Encoded(c)
      /\ pending'[b].sig = pending[b].tx
  BY SignFacts DEF Encoded
<1>6. e.bufid = HeadBuf /\ e.type = "TX_SENDING"
  BY DEF Ev
<1>9. /\ QueueTypeOK' /\ event_queue_size' # 0 /\ OneEventPerTx'
      /\ LiveSlots' = (LiveSlots \ {rd_index}) \cup {wr_index}
      /\ \A i \in LiveSlots \ {rd_index} : evt'[i] = evt[i] /\ evt[i].bufid \in Bufid \ {b}
      /\ evt'[wr_index] = e
  BY SignFacts
<1> HIDE DEF e
<1>10. TxTypeOK'
  BY <1>4, <1>5, <1>9 DEF IInv, TxTypeOK, Ret
<1>11. BufferInv'
  BY <1>4, <1>5 DEF IInv, BufferInv, Encoded
<1>12. PhaseInv' /\ NetworkInv' /\ PostedIsSigned' /\ PostedIsTracked'
  BY <1>4, <1>5, <1>9 DEF IInv, PhaseInv, NetworkInv, PostedIsSigned, PostedIsTracked
<1>13. EventTellsProgress'
  <2> SUFFICES ASSUME NEW i \in LiveSlots'
               PROVE  /\ pending'[evt'[i].bufid].tx \in 1..created'
                      /\ evt'[i].type # "TX_READY_TO_SIGN" =>
                           pending'[evt'[i].bufid].sig = pending'[evt'[i].bufid].tx
                      /\ evt'[i].type = "TX_SUCCESS" <=> pending'[evt'[i].bufid].tx \in acked'
    BY DEF EventTellsProgress
  <2>1. CASE i = wr_index
    BY <1>1, <1>2, <1>4, <1>5, <1>6, <1>9, <2>1 DEF IInv, EventTellsProgress, HeadBuf, HeadEvent
  <2>2. CASE i \in LiveSlots \ {rd_index}
    BY <1>4, <1>5, <1>9, <2>2 DEF IInv, EventTellsProgress
  <2> QED
    BY <1>9, <2>1, <2>2
<1> QED
  BY <1>9, <1>10, <1>11, <1>12, <1>13 DEF IInv

(* The signature is put into the payload of the oldest event's transaction.*)
LEMMA SignatureReplaced ==
  ASSUME IInv, pc = "app", EventIs("TX_SENDING"),
         pending' = encode_tx_replace_signature(HeadBuf)
  PROVE  /\ pending' \in [Bufid -> SignedTx]
         /\ \A c \in Bufid : /\ pending'[c].tx = pending[c].tx
                             /\ pending'[c].sig = pending[c].sig
                             /\ Encoded(c)' <=> Encoded(c)
         /\ HeadBuf \in Bufid
         /\ Encoded(HeadBuf)
         /\ Payload(HeadBuf) = [tx |-> pending[HeadBuf].tx, sig |-> pending[HeadBuf].tx]
         /\ pending[HeadBuf].tx \in 1..created
         /\ pending[HeadBuf].tx \notin acked
<1> DEFINE b == HeadBuf
<1>1. rd_index \in LiveSlots /\ b \in Bufid /\ Encoded(b)
  BY InvFacts DEF Superseded, EventIs, HeadBuf, HeadEvent
<1>2. /\ pending[b].sig = pending[b].tx
      /\ pending[b].tx \in 1..created
      /\ pending[b].tx \notin acked
  BY <1>1 DEF IInv, EventTellsProgress, EventIs, HeadBuf, HeadEvent
<1>3. pending \in [Bufid -> SignedTx]
  BY DEF IInv, TxTypeOK
<1> HIDE DEF b
<1>4. /\ pending' \in [Bufid -> SignedTx]
      /\ \A c \in Bufid : /\ pending'[c].tx = pending[c].tx
                          /\ pending'[c].sig = pending[c].sig
                          /\ pending'[c].body = pending[c].body
      /\ pending'[b].payload_sig = pending[b].sig
  BY <1>1, <1>3 DEF encode_tx_replace_signature, SignedTx, b
<1>5. Payload(b) = [tx |-> pending[b].tx, sig |-> pending[b].tx]
  <2>1. Payload(b) = [tx |-> pending'[b].tx, sig |-> pending'[b].payload_sig]
    BY DEF Payload, b
  <2>2. pending'[b].tx = pending[b].tx /\ pending'[b].payload_sig = pending[b].tx
    BY <1>1, <1>2, <1>4 DEF b
  <2> QED
    BY <2>1, <2>2
<1> QED
  BY <1>1, <1>2, <1>4, <1>5 DEF Encoded, b

(* A post succeeds and TX_SUCCESS is queued. *)
LEMMA PostedFacts ==
  ASSUME IInv, Roomy, pc = "app", EventIs("TX_SENDING"),
         pending' = encode_tx_replace_signature(HeadBuf),
         PostSucceeds(HeadBuf),
         UNCHANGED <<rd_index, m_tx_buffer_idx, stopped, created>>
  PROVE  /\ evt[rd_index].type = "TX_SENDING" /\ rd_index \in LiveSlots
         /\ posted' = posted \cup {Payload(HeadBuf)}
         /\ acked' = acked \cup {pending[HeadBuf].tx}
         /\ pc' = "user" /\ ret' = "SUCCESS"
         /\ QueueTypeOK' /\ event_queue_size' # 0 /\ OneEventPerTx'
         /\ LiveSlots' = (LiveSlots \ {rd_index}) \cup {wr_index}
         /\ \A i \in LiveSlots \ {rd_index} : /\ evt'[i] = evt[i]
                                             /\ evt[i].bufid \in Bufid \ {HeadBuf}
                                             /\ Encoded(evt[i].bufid)
         /\ evt'[wr_index] = Ev("TX_SUCCESS", HeadBuf)
<1> DEFINE b == HeadBuf
           e == Ev("TX_SUCCESS", b)
<1>1. event_queue_size # 0 /\ evt[rd_index].type = "TX_SENDING" /\ ~Superseded
  BY DEF EventIs, HeadEvent, Superseded
<1>2. /\ pending' \in [Bufid -> SignedTx]
      /\ \A c \in Bufid : /\ pending'[c].tx = pending[c].tx
                          /\ pending'[c].sig = pending[c].sig
                          /\ Encoded(c)' <=> Encoded(c)
      /\ b \in Bufid /\ Encoded(b)
      /\ Payload(b) = [tx |-> pending[b].tx, sig |-> pending[b].tx]
      /\ pending[b].tx \in 1..created
  BY SignatureReplaced
<1>3. e \in Event /\ e.bufid = b /\ e.type = "TX_SUCCESS"
  BY <1>2 DEF Ev, Event, EvtType
<1>4. ~QueueFull
  BY <1>1, RoomForNext
<1>5. /\ posted' = posted \cup {Payload(b)} /\ acked' = acked \cup {pending[b].tx}
      /\ pc' = "user" /\ ret' = "SUCCESS"
      /\ wr_index' = increment_event_index(wr_index)
      /\ evt' = [evt EXCEPT ![wr_index] = e]
  BY <1>4 DEF PostSucceeds, ScheduleEvent, WithEvent
<1> HIDE DEF e
<1>6. /\ evt' \in [Slots -> Event]
      /\ \A i \in Slots : evt'[i] = IF i = wr_index THEN e ELSE evt[i]
      /\ evt'[rd_index] = evt[rd_index]
  BY <1>1, <1>3, <1>5, InvFacts DEF QueueTypeOK
<1>7. Superseded'
  <2>1. event_queue_size' # 0
    BY <1>3, <1>4, <1>5, <1>6, InvFacts, Scheduled
  <2> QED
    BY <1>1, <1>5, <1>6, <2>1 DEF Superseded, EventIs, HeadEvent
<1>8. /\ QueueTypeOK' /\ event_queue_size' # 0 /\ OneEventPerTx'
      /\ LiveSlots' = (LiveSlots \ {rd_index}) \cup {wr_index}
      /\ \A i \in LiveSlots \ {rd_index} : /\ evt'[i] = evt[i]
                                          /\ evt[i].bufid \in Bufid \ {b}
                                          /\ Encoded(evt[i].bufid)
      /\ evt'[wr_index] = e
      /\ rd_index \in LiveSlots
  BY <1>1, <1>2, <1>3, <1>5, <1>6, <1>7, Succession
<1> QED
  BY <1>1, <1>5, <1>8 DEF e

LEMMA PostedStep ==
  ASSUME IInv, Roomy, pc = "app", EventIs("TX_SENDING"),
         pending' = encode_tx_replace_signature(HeadBuf),
         PostSucceeds(HeadBuf),
         UNCHANGED <<rd_index, m_tx_buffer_idx, stopped, created>>
  PROVE  IInv'
<1> DEFINE b == HeadBuf
           e == Ev("TX_SUCCESS", b)
<1>1. evt[rd_index].type = "TX_SENDING"
  BY PostedFacts
<1>2. /\ pending' \in [Bufid -> SignedTx]
      /\ \A c \in Bufid : /\ pending'[c].tx = pending[c].tx
                          /\ pending'[c].sig = pending[c].sig
                          /\ Encoded(c)' <=> Encoded(c)
      /\ b \in Bufid /\ Encoded(b)
      /\ Payload(b) = [tx |-> pending[b].tx, sig |-> pending[b].tx]
      /\ pending[b].tx \in 1..created
  BY SignatureReplaced
<1>3. e.bufid = b /\ e.type = "TX_SUCCESS"
  BY DEF Ev
<1>5. /\ posted' = posted \cup {Payload(b)} /\ acked' = acked \cup {pending[b].tx}
      /\ pc' = "user" /\ ret' = "SUCCESS"
  BY PostedFacts
<1>8. /\ QueueTypeOK' /\ event_queue_size' # 0 /\ OneEventPerTx'
      /\ LiveSlots' = (LiveSlots \ {rd_index}) \cup {wr_index}
      /\ \A i \in LiveSlots \ {rd_index} : /\ evt'[i] = evt[i]
                                          /\ evt[i].bufid \in Bufid \ {b}
                                          /\ Encoded(evt[i].bufid)
      /\ evt'[wr_index] = e
      /\ rd_index \in LiveSlots
  BY PostedFacts
<1> HIDE DEF e
<1>9. pending[b].sig = pending[b].tx
  BY <1>1, <1>8 DEF IInv, EventTellsProgress, HeadBuf, HeadEvent
<1> HIDE DEF b
<1>10. TxTypeOK'
  <2>1. pending[b].tx \in TxId
    BY <1>2 DEF IInv, TxTypeOK, SignedTx
  <2>2. posted' \subseteq [tx : TxId, sig : TxId] /\ acked' \subseteq TxId
    BY <1>2, <1>5, <2>1 DEF IInv, TxTypeOK
  <2> QED
    BY <1>2, <1>5, <1>8, <2>2 DEF IInv, TxTypeOK, Ret
<1>11. BufferInv'
  BY <1>2 DEF IInv, BufferInv, Encoded
<1>12. PhaseInv' /\ NetworkInv' /\ PostedIsSigned' /\ PostedIsTracked'
  <2>1. PhaseInv' /\ acked' \subseteq 1..created'
    BY <1>2, <1>5, <1>8 DEF IInv, PhaseInv, NetworkInv
  <2>2. \A p \in posted' :
          /\ p.tx \in 1..created' /\ p.sig = p.tx
          /\ p.tx \in acked' \/ \E c \in Bufid : pending'[c].tx = p.tx
    <3> TAKE p \in posted'
    <3>1. CASE p \in posted
      BY <1>2, <1>5, <3>1 DEF IInv, NetworkInv, PostedIsSigned, PostedIsTracked
    <3>2. CASE p = Payload(b)
      BY <1>2, <1>5, <3>2
    <3> QED
      BY <1>5, <3>1, <3>2
  <2> QED
    BY <2>1, <2>2 DEF NetworkInv, PostedIsSigned, PostedIsTracked
<1>13. EventTellsProgress'
  <2> SUFFICES ASSUME NEW i \in LiveSlots'
               PROVE  /\ pending'[evt'[i].bufid].tx \in 1..created'
                      /\ evt'[i].type # "TX_READY_TO_SIGN" =>
                           pending'[evt'[i].bufid].sig = pending'[evt'[i].bufid].tx
                      /\ evt'[i].type = "TX_SUCCESS" <=> pending'[evt'[i].bufid].tx \in acked'
    BY DEF EventTellsProgress
  <2>1. CASE i = wr_index
    BY <1>2, <1>3, <1>5, <1>8, <1>9, <2>1
  <2>2. CASE i \in LiveSlots \ {rd_index}
    <3>1. pending[evt[i].bufid].tx # pending[b].tx
      BY <1>2, <1>8, <2>2 DEF IInv, BufferInv
    <3> QED
      BY <1>2, <1>5, <1>8, <2>2, <3>1 DEF IInv, EventTellsProgress
  <2> QED
    BY <1>8, <2>1, <2>2
<1> QED
  BY <1>8, <1>10, <1>11, <1>12, <1>13 DEF IInv

(* A post fails, or succeeds and its answer is lost. *)
LEMMA NotPostedStep ==
  ASSUME IInv, pc = "app", EventIs("TX_SENDING"),
         pending' = encode_tx_replace_signature(HeadBuf),
         PostFails(HeadBuf),
         UNCHANGED <<rd_index, m_tx_buffer_idx, stopped, created>>
  PROVE  IInv'
<1> DEFINE b == HeadBuf
<1>1. /\ pending' \in [Bufid -> SignedTx]
      /\ \A c \in Bufid : /\ pending'[c].tx = pending[c].tx
                          /\ pending'[c].sig = pending[c].sig
                          /\ Encoded(c)' <=> Encoded(c)
      /\ b \in Bufid
      /\ Payload(b) = [tx |-> pending[b].tx, sig |-> pending[b].tx]
      /\ pending[b].tx \in 1..created
  BY SignatureReplaced
<1>2. /\ posted' \subseteq posted \cup {Payload(b)}
      /\ ret' = "ERROR"
      /\ UNCHANGED <<wr_index, evt, acked, pc>>
  BY DEF PostFails
<1> HIDE DEF b
<1>3. UNCHANGED <<event_queue_size, Window, Superseded, LiveSlots>>
  BY <1>2 DEF event_queue_size, Window, Superseded, LiveSlots, EventIs, HeadEvent
<1>4. TxTypeOK'
  <2>1. pending[b].tx \in TxId
    BY <1>1 DEF IInv, TxTypeOK, SignedTx
  <2>2. posted' \subseteq [tx : TxId, sig : TxId]
    BY <1>1, <1>2, <2>1 DEF IInv, TxTypeOK
  <2> QED
    BY <1>1, <1>2, <2>2 DEF IInv, TxTypeOK, QueueTypeOK, Ret
<1>5. BufferInv'
  BY <1>1 DEF IInv, BufferInv, Encoded
<1>6. PhaseInv' /\ NetworkInv' /\ PostedIsSigned' /\ PostedIsTracked'
  BY <1>1, <1>2, <1>3 DEF IInv, PhaseInv, NetworkInv, PostedIsSigned, PostedIsTracked
<1>7. OneEventPerTx'
  BY <1>1, <1>2, <1>3 DEF IInv, OneEventPerTx, Encoded
<1>8. EventTellsProgress'
  BY <1>1, <1>2, <1>3, InvFacts DEF IInv, EventTellsProgress
<1> QED
  BY <1>4, <1>5, <1>6, <1>7, <1>8 DEF IInv

(* An executed transaction gives its buffer back. *)
LEMMA FreeFacts ==
  ASSUME IInv, PostProcess, EventIs("TX_SUCCESS"), ~IsFree(HeadBuf)
  PROVE  /\ DropHead /\ pc' = "app" /\ ret' = "SUCCESS"
         /\ UNCHANGED <<wr_index, evt, m_tx_buffer_idx, stopped, created, posted, acked>>
         /\ rd_index \in LiveSlots
         /\ HeadBuf \in Bufid /\ Encoded(HeadBuf) /\ HeadBuf = evt[rd_index].bufid
         /\ \A i \in LiveSlots \ {rd_index} : evt[i].bufid \in Bufid \ {HeadBuf}
         /\ pending[HeadBuf].tx \in acked
         /\ LiveSlots' = LiveSlots \ {rd_index}
         /\ pending' = [pending EXCEPT ![HeadBuf] = Zeroed]
         /\ pending' \in [Bufid -> SignedTx]
         /\ \A c \in Bufid \ {HeadBuf} : pending'[c] = pending[c]
         /\ pending'[HeadBuf].tx = 0 /\ pending'[HeadBuf].body = "none"
<1> DEFINE b == HeadBuf
<1>1. /\ pc = "post" /\ event_queue_size # 0 /\ ~Superseded
      /\ pending' = [pending EXCEPT ![b] = Zeroed]
      /\ DropHead /\ pc' = "app" /\ ret' = "SUCCESS"
      /\ UNCHANGED <<wr_index, evt, m_tx_buffer_idx, stopped, created, posted, acked>>
  BY DEF PostProcess, transaction_free, EventIs, Superseded
<1>2. /\ rd_index \in LiveSlots /\ LiveSlots = Window
      /\ b \in Bufid /\ Encoded(b) /\ b = evt[rd_index].bufid
      /\ \A i \in LiveSlots \ {rd_index} : evt[i].bufid \in Bufid \ {b}
  BY <1>1, InvFacts DEF HeadBuf, HeadEvent, LiveSlots, IInv, OneEventPerTx
<1>3. pending[b].tx \in acked
  BY <1>2 DEF IInv, EventTellsProgress, EventIs, HeadEvent
<1> HIDE DEF b
<1>4. LiveSlots' = LiveSlots \ {rd_index}
  <2>1. ~Superseded'
    BY <1>1 DEF Superseded
  <2> QED
    BY <1>1, <1>2, <2>1, InvFacts, WindowShrinks DEF LiveSlots
<1>5. /\ pending' \in [Bufid -> SignedTx]
      /\ \A c \in Bufid \ {b} : pending'[c] = pending[c]
      /\ pending'[b].tx = 0 /\ pending'[b].body = "none"
      /\ \A c \in Bufid \ {b} : Encoded(c)' <=> Encoded(c)
  BY <1>1, <1>2, TransactionsAssumption DEF IInv, TxTypeOK, SignedTx, Zeroed, Encoded, TxId
<1> QED
  BY <1>1, <1>2, <1>3, <1>4, <1>5 DEF b

LEMMA FreeStep ==
  ASSUME IInv, PostProcess, EventIs("TX_SUCCESS"), ~IsFree(HeadBuf)
  PROVE  IInv'
<1> DEFINE b == HeadBuf
<1>1. /\ DropHead /\ pc' = "app" /\ ret' = "SUCCESS"
      /\ UNCHANGED <<wr_index, evt, m_tx_buffer_idx, stopped, created, posted, acked>>
  BY FreeFacts
<1>2. /\ b \in Bufid /\ Encoded(b) /\ b = evt[rd_index].bufid /\ rd_index \in LiveSlots
      /\ \A i \in LiveSlots \ {rd_index} : evt[i].bufid \in Bufid \ {b}
  BY FreeFacts
<1>3. pending[b].tx \in acked
  BY FreeFacts
<1>4. LiveSlots' = LiveSlots \ {rd_index}
  BY FreeFacts
<1>5. /\ pending' \in [Bufid -> SignedTx]
      /\ \A c \in Bufid \ {b} : pending'[c] = pending[c] /\ (Encoded(c)' <=> Encoded(c))
      /\ pending'[b].tx = 0 /\ pending'[b].body = "none"
  BY FreeFacts DEF Encoded
<1> HIDE DEF b
<1>6. TxTypeOK'
  <2>1. rd_index' \in Slots
    BY <1>1, IncrementIsCyclic DEF DropHead, IInv, TxTypeOK, QueueTypeOK
  <2> QED
    BY <1>1, <1>5, <2>1 DEF IInv, TxTypeOK, QueueTypeOK, Ret
<1>7. BufferInv'
  <2>1. \A c \in Bufid : Encoded(c)' => pending'[c].tx \in 1..created'
    BY <1>1, <1>5 DEF IInv, BufferInv, Encoded
  <2>2. \A c \in Bufid : ~Encoded(c)' => pending'[c].tx = 0
    BY <1>5 DEF IInv, BufferInv, Encoded
  <2>3. \A c, d \in Bufid : Encoded(c)' /\ Encoded(d)' /\ pending'[c].tx = pending'[d].tx => c = d
    BY <1>5 DEF IInv, BufferInv, Encoded
  <2> QED
    BY <2>1, <2>2, <2>3 DEF BufferInv
<1>8. PhaseInv' /\ NetworkInv' /\ PostedIsSigned'
  BY <1>1 DEF IInv, PhaseInv, NetworkInv, PostedIsSigned
<1>9. PostedIsTracked'
  BY <1>1, <1>3, <1>5 DEF IInv, PostedIsTracked
<1>10. OneEventPerTx'
  <2>1. \A i, j \in LiveSlots' : evt'[i].bufid = evt'[j].bufid => i = j
    BY <1>1, <1>4 DEF IInv, OneEventPerTx
  <2>2. \A c \in Bufid : Encoded(c)' <=> \E i \in LiveSlots' : evt'[i].bufid = c
    BY <1>1, <1>2, <1>4, <1>5 DEF IInv, OneEventPerTx, Encoded
  <2> QED
    BY <2>1, <2>2 DEF OneEventPerTx, Encoded
<1>11. EventTellsProgress'
  BY <1>1, <1>2, <1>4, <1>5 DEF IInv, EventTellsProgress
<1> QED
  BY <1>6, <1>7, <1>8, <1>9, <1>10, <1>11 DEF IInv

(* A superseded event is dropped. *)
LEMMA DropStep ==
  ASSUME IInv, PostProcess, ~EventIs("TX_SUCCESS")
  PROVE  IInv'
<1>1. /\ pc = "post" /\ event_queue_size # 0 /\ Superseded
      /\ DropHead /\ pc' = "app" /\ ret' = "SUCCESS"
      /\ UNCHANGED <<pending, wr_index, evt, m_tx_buffer_idx, stopped, created, posted, acked>>
  BY DEF PostProcess, Superseded
<1>2. LiveSlots' = LiveSlots
  <2>1. ~Superseded'
    BY <1>1 DEF Superseded
  <2> QED
    BY <1>1, <2>1, InvFacts, WindowShrinks DEF LiveSlots
<1>3. TxTypeOK'
  <2>1. rd_index' \in Slots
    BY <1>1, IncrementIsCyclic DEF DropHead, IInv, TxTypeOK, QueueTypeOK
  <2> QED
    BY <1>1, <2>1 DEF IInv, TxTypeOK, QueueTypeOK, Ret
<1>4. BufferInv' /\ PhaseInv' /\ NetworkInv' /\ PostedIsSigned' /\ PostedIsTracked'
  BY <1>1 DEF IInv, BufferInv, Encoded, PhaseInv, NetworkInv, PostedIsSigned, PostedIsTracked
<1>5. OneEventPerTx' /\ EventTellsProgress'
  BY <1>1, <1>2 DEF IInv, OneEventPerTx, EventTellsProgress
<1> QED
  BY <1>3, <1>4, <1>5 DEF IInv

-----------------------------------------------------------------------------
(* The steps put together.                                                 *)

LEMMA InitInv == Init => IInv
<1> SUFFICES ASSUME Init
             PROVE  IInv
  OBVIOUS
<1>1. event_queue_size = 0 /\ LiveSlots = {}
  BY EventsCountAssumption
     DEF Init, QueueInit, event_queue_size, LiveSlots, Superseded, EventIs, Window, Slots
<1>2. TxTypeOK
  <2>1. QueueTypeOK
    BY EventsCountAssumption, BufidAssumption
       DEF Init, QueueInit, QueueTypeOK, Slots, Event, EvtType
  <2>2. Zeroed \in SignedTx
    BY TransactionsAssumption DEF Zeroed, SignedTx, TxId
  <2>3. pending \in [Bufid -> SignedTx]
    BY <2>2 DEF Init
  <2>4. /\ m_tx_buffer_idx \in Bufid /\ created \in 0..MaxTx
        /\ pc \in {"app", "user", "post"} /\ ret \in Ret
    BY BufidAssumption, TransactionsAssumption DEF Init, Ret
  <2>5. posted \subseteq [tx : TxId, sig : TxId] /\ acked \subseteq TxId /\ stopped \in BOOLEAN
    BY Zenon DEF Init
  <2> QED
    BY <2>1, <2>3, <2>4, <2>5 DEF TxTypeOK
<1>3. \A b \in Bufid : pending[b].body = "none" /\ pending[b].tx = 0
  BY DEF Init, Zeroed
<1> QED
  BY <1>1, <1>2, <1>3
     DEF Init, IInv, BufferInv, Encoded, PhaseInv, NetworkInv, OneEventPerTx, EventTellsProgress,
         PostedIsSigned, PostedIsTracked

LEMMA SubmitStep ==
  ASSUME IInv, Roomy, Submit
  PROVE  IInv'
<1>1. UNCHANGED <<pc, posted, acked>> /\ ApiCaller
  BY DEF Submit, transaction_pay, transaction_appl
<1>2. CASE IsFree(m_tx_buffer_idx) /\ EncodeAndSchedule /\ UNCHANGED stopped
  BY <1>1, <1>2, EncodeStep
<1>3. CASE ~(IsFree(m_tx_buffer_idx) /\ EncodeAndSchedule /\ UNCHANGED stopped)
  <2>1. /\ UNCHANGED <<queueVars, m_tx_buffer_idx, created>>
        /\ pending' = pending \/ (IsFree(m_tx_buffer_idx) /\ pending' = Reserved)
        /\ stopped' \in BOOLEAN /\ ret' \in Ret
    BY <1>3
       DEF Submit, transaction_pay, transaction_appl, Refused, ParamsNotLoaded, NullParamsFault,
           Ret, IInv, TxTypeOK
  <2>2. Superseded' <=> Superseded
    BY <1>1, <2>1 DEF Superseded, EventIs, HeadEvent, event_queue_size, queueVars
  <2>3. pc' \in {"app", "user", "post"} /\ (pc' # "app" => event_queue_size # 0)
    BY <1>1 DEF IInv, TxTypeOK, PhaseInv
  <2> QED
    BY <1>1, <2>1, <2>2, <2>3, QuietStep
<1> QED
  BY <1>2, <1>3

LEMMA PreProcessStep ==
  ASSUME IInv, Roomy, PreProcess
  PROVE  IInv'
<1>1. pc = "app"
  BY DEF PreProcess
<1>2. CASE /\ EventIs("TX_SENDING")
           /\ pending' = encode_tx_replace_signature(HeadBuf)
           /\ PostSucceeds(HeadBuf) \/ PostFails(HeadBuf)
           /\ UNCHANGED <<rd_index, m_tx_buffer_idx, stopped, created>>
  BY <1>1, <1>2, PostedStep, NotPostedStep
<1>3. CASE /\ UNCHANGED <<queueVars, pending, m_tx_buffer_idx, created, posted, acked>>
           /\ stopped' \in BOOLEAN /\ ret' \in Ret
           /\ pc' = "app" \/ (pc' = "user" /\ ~EventIs("TX_SENDING") /\ event_queue_size # 0)
  <2>1. Superseded' <=> Superseded
    BY <1>1, <1>3 DEF Superseded, EventIs, HeadEvent, event_queue_size, queueVars
  <2> QED
    BY <1>3, <2>1, QuietStep
<1>4. IInv => stopped \in BOOLEAN /\ ret \in Ret
  BY DEF IInv, TxTypeOK
<1> QED
  BY <1>1, <1>2, <1>3, <1>4
     DEF PreProcess, transaction_pending_send, NoSignatureInPayload, ProcessReturns, EventIs, Ret

LEMMA HandleStep ==
  ASSUME IInv, Roomy, Handle
  PROVE  IInv'
<1>1. CASE HandleReadyToSign /\ ~IsFree(HeadBuf)
  BY <1>1, SignStep
<1>2. CASE ~(HandleReadyToSign /\ ~IsFree(HeadBuf))
  <2>1. /\ UNCHANGED <<queueVars, pending, m_tx_buffer_idx, stopped, created, posted, acked>>
        /\ ret' \in Ret /\ pc = "user" /\ event_queue_size # 0
        /\ \/ pc' = "post" /\ (EventIs("TX_SENDING") \/ EventIs("TX_SUCCESS"))
           \/ pc' = "app" /\ EventIs("TX_READY_TO_SIGN")
    BY <1>2
       DEF Handle, HandleReadyToSign, HandleSending, HandleSuccess, HandlerIgnores,
           ProcessReturns, Roomy, EventIs, Ret, IInv, TxTypeOK
  <2>2. Superseded' <=> Superseded
    BY <2>1 DEF Superseded, EventIs, HeadEvent, event_queue_size, queueVars
  <2>3. stopped' \in BOOLEAN
    BY <2>1 DEF IInv, TxTypeOK
  <2> QED
    BY <2>1, <2>2, <2>3, QuietStep
<1> QED
  BY <1>1, <1>2

LEMMA PostProcessStep ==
  ASSUME IInv, PostProcess
  PROVE  IInv'
<1>1. CASE EventIs("TX_SUCCESS") /\ IsFree(HeadBuf)
  <2>1. /\ UNCHANGED <<queueVars, pending, m_tx_buffer_idx, stopped, created, posted, acked>>
        /\ ret' \in Ret /\ pc' = "app"
    BY <1>1 DEF PostProcess, ProcessReturns, Ret
  <2>2. ~Superseded /\ ~Superseded'
    BY <1>1, <2>1 DEF Superseded, EventIs
  <2>3. stopped' \in BOOLEAN
    BY <2>1 DEF IInv, TxTypeOK
  <2> QED
    BY <2>1, <2>2, <2>3, QuietStep
<1>2. CASE EventIs("TX_SUCCESS") /\ ~IsFree(HeadBuf)
  BY <1>2, FreeStep
<1>3. CASE ~EventIs("TX_SUCCESS")
  BY <1>3, DropStep
<1> QED
  BY <1>1, <1>2, <1>3

LEMMA InvHolds ==
  ASSUME Roomy
  PROVE  Spec => []IInv
<1>1. IInv /\ [Next]_vars => IInv'
  <2> SUFFICES ASSUME IInv, [Next]_vars
               PROVE  IInv'
    OBVIOUS
  <2>1. CASE Submit
    BY <2>1, SubmitStep
  <2>2. CASE PreProcess
    BY <2>2, PreProcessStep
  <2>3. CASE Handle
    BY <2>3, HandleStep
  <2>4. CASE PostProcess
    BY <2>4, PostProcessStep
  <2>5. CASE UNCHANGED vars
    <3>1. /\ UNCHANGED <<queueVars, pending, m_tx_buffer_idx, created, posted, acked>>
          /\ UNCHANGED <<pc, stopped, ret>>
      BY <2>5 DEF vars, txVars
    <3>2. Superseded' <=> Superseded
      BY <3>1 DEF Superseded, EventIs, HeadEvent, event_queue_size, queueVars
    <3>3. pc \in {"app", "user", "post"} /\ stopped \in BOOLEAN /\ ret \in Ret
          /\ (pc # "app" => event_queue_size # 0)
      BY DEF IInv, TxTypeOK, PhaseInv
    <3> QED
      BY <3>1, <3>2, <3>3, QuietStep
  <2> QED
    BY <2>1, <2>2, <2>3, <2>4, <2>5 DEF Next, vertices_event_process
<1> QED
  BY <1>1, InitInv, PTL DEF Spec

-----------------------------------------------------------------------------
(* The types, for every size of the queue and every failure.               *)

LEMMA TypeStep ==
  ASSUME TxTypeOK, Next
  PROVE  TxTypeOK'
<1>1. /\ QueueTypeOK /\ pending \in [Bufid -> SignedTx] /\ m_tx_buffer_idx \in Bufid
      /\ pc \in {"app", "user", "post"} /\ stopped \in BOOLEAN /\ ret \in Ret
      /\ created \in 0..MaxTx /\ posted \subseteq [tx : TxId, sig : TxId] /\ acked \subseteq TxId
  BY DEF TxTypeOK
<1>2. HeadBuf \in Bufid
  BY <1>1 DEF HeadBuf, HeadEvent, QueueTypeOK, Event
<1>3. \A t \in EvtType, b \in Bufid : Ev(t, b) \in Event
  BY DEF Ev, Event
<1>4. UNCHANGED queueVars => QueueTypeOK'
  BY <1>1 DEF queueVars, QueueTypeOK
<1>5. wr_index' \in {wr_index, increment_event_index(wr_index)} => wr_index' \in Slots
  BY <1>1, IncrementIsCyclic DEF QueueTypeOK
<1>6. \A e \in Event, i, j \in Slots :
        /\ [evt EXCEPT ![i] = e] \in [Slots -> Event]
        /\ [[evt EXCEPT ![i] = e] EXCEPT ![j] = e] \in [Slots -> Event]
  BY <1>1 DEF QueueTypeOK
<1>7. \A e \in Event :
        rd_index' = rd_index /\ (ScheduleEvent(e) \/ UNCHANGED <<wr_index, evt>>) => QueueTypeOK'
  BY <1>1, <1>5, <1>6 DEF ScheduleEvent, WithEvent, QueueTypeOK
<1>8. pending' = Reserved => pending' \in [Bufid -> SignedTx]
  BY <1>1 DEF Reserved, SignedTx
<1>9. CASE Submit
  <2>1. UNCHANGED <<pc, posted, acked>>
    BY <1>9 DEF Submit, transaction_pay, transaction_appl
  <2>2. CASE EncodeAndSchedule /\ UNCHANGED stopped
    <3>1. created' \in 0..MaxTx /\ created + 1 \in TxId /\ 0 \in TxId
      BY <1>1, <2>2, TransactionsAssumption DEF EncodeAndSchedule, encode_tx, TxId
    <3>2. pending' \in [Bufid -> SignedTx]
      BY <1>1, <2>2, <3>1 DEF EncodeAndSchedule, encode_tx, SignedTx
    <3>3. m_tx_buffer_idx' \in Bufid
      BY <1>1, <2>2, TransactionsAssumption DEF EncodeAndSchedule, next_buffer
    <3>4. QueueTypeOK' /\ ret' \in Ret
      <4>1. Ev("TX_READY_TO_SIGN", m_tx_buffer_idx) \in Event
        BY <1>1, <1>3 DEF EvtType
      <4> QED
        BY <1>7, <2>2, <4>1 DEF EncodeAndSchedule, vertices_event_schedule, Ret
    <3> QED
      BY <1>1, <2>1, <2>2, <3>1, <3>2, <3>3, <3>4 DEF TxTypeOK
  <2>3. CASE ~(EncodeAndSchedule /\ UNCHANGED stopped)
    <3>1. /\ UNCHANGED <<queueVars, m_tx_buffer_idx, created>>
          /\ pending' = pending \/ pending' = Reserved
          /\ ret' \in Ret
      BY <1>1, <1>9, <2>3
         DEF Submit, transaction_pay, transaction_appl, Refused, ParamsNotLoaded,
             NullParamsFault, Ret
    <3>2. stopped' \in BOOLEAN
      <4>1. UNCHANGED stopped \/ stopped' = TRUE
        BY <1>9 DEF Submit, transaction_pay, transaction_appl, NullParamsFault
      <4> QED
        BY <1>1, <4>1
    <3> QED
      BY <1>1, <1>4, <1>8, <2>1, <3>1, <3>2 DEF TxTypeOK
  <2> QED
    BY <2>2, <2>3
<1>10. CASE /\ EventIs("TX_SENDING")
            /\ pending' = encode_tx_replace_signature(HeadBuf)
            /\ PostSucceeds(HeadBuf) \/ PostFails(HeadBuf)
            /\ UNCHANGED <<rd_index, m_tx_buffer_idx, stopped, created>>
  <2>1. pending' \in [Bufid -> SignedTx] /\ Payload(HeadBuf) \in [tx : TxId, sig : TxId]
    <3> DEFINE b == HeadBuf
    <3>1. pending' \in [Bufid -> SignedTx]
      <4>1. pending[b].sig \in TxId
        BY <1>1, <1>2 DEF SignedTx
      <4> QED
        BY <1>1, <1>2, <1>10, <4>1 DEF encode_tx_replace_signature, SignedTx
    <3>2. Payload(b) = [tx |-> pending'[b].tx, sig |-> pending'[b].payload_sig]
      BY <1>10 DEF Payload
    <3> QED
      BY <1>2, <3>1, <3>2 DEF SignedTx
  <2>2. pending[HeadBuf].tx \in TxId
    BY <1>1, <1>2 DEF SignedTx
  <2>3. posted' \subseteq [tx : TxId, sig : TxId] /\ acked' \subseteq TxId
    BY <1>1, <1>10, <2>1, <2>2 DEF PostSucceeds, PostFails
  <2>4. QueueTypeOK'
    BY <1>2, <1>3, <1>7, <1>10 DEF PostSucceeds, PostFails, EvtType
  <2>5. pc' \in {"app", "user", "post"} /\ ret' \in Ret
    BY <1>1, <1>10 DEF PostSucceeds, PostFails, Ret
  <2> QED
    BY <1>1, <1>10, <2>1, <2>3, <2>4, <2>5 DEF TxTypeOK
<1>11. CASE HandleReadyToSign /\ ~IsFree(HeadBuf)
  <2>1. /\ pending' = Sign(HeadBuf) /\ QueueSending /\ HandlerReturns
        /\ UNCHANGED <<rd_index, m_tx_buffer_idx, stopped, created, posted, acked>>
    BY <1>11 DEF HandleReadyToSign
  <2>2. pending' \in [Bufid -> SignedTx]
    BY <1>1, <1>2, <2>1 DEF Sign, SignedTx
  <2>3. QueueTypeOK' /\ ret' \in Ret
    <3>1. Ev("TX_SENDING", HeadBuf) \in Event
      BY <1>2, <1>3 DEF EvtType
    <3>2. CASE Handler = "unix"
      BY <1>7, <2>1, <3>1, <3>2 DEF QueueSending, vertices_event_schedule, Ret
    <3>3. CASE Handler # "unix"
      BY <1>1, <1>5, <1>6, <2>1, <3>1, <3>3 DEF QueueSending, QueueTypeOK, Ret
    <3> QED
      BY <3>2, <3>3
  <2>4. pc' \in {"app", "user", "post"}
    BY <2>1 DEF HandlerReturns
  <2> QED
    BY <1>1, <2>1, <2>2, <2>3, <2>4 DEF TxTypeOK
<1>12. CASE PostProcess /\ ~(EventIs("TX_SUCCESS") /\ IsFree(HeadBuf))
  <2>1. /\ pending' = [pending EXCEPT ![HeadBuf] = Zeroed] \/ pending' = pending
        /\ DropHead /\ pc' = "app" /\ ret' = "SUCCESS"
        /\ UNCHANGED <<wr_index, evt, m_tx_buffer_idx, stopped, created, posted, acked>>
    BY <1>12 DEF PostProcess, transaction_free
  <2>2. pending' \in [Bufid -> SignedTx]
    <3>1. Zeroed \in SignedTx
      BY TransactionsAssumption DEF Zeroed, SignedTx, TxId
    <3> QED
      BY <1>1, <1>2, <2>1, <3>1
  <2>3. QueueTypeOK'
    BY <1>1, <2>1, IncrementIsCyclic DEF DropHead, QueueTypeOK
  <2> QED
    BY <1>1, <2>1, <2>2, <2>3 DEF TxTypeOK, Ret
<1>13. CASE /\ UNCHANGED <<queueVars, pending, m_tx_buffer_idx, created, posted, acked>>
            /\ stopped' \in BOOLEAN /\ ret' \in Ret /\ pc' \in {"app", "user", "post"}
  BY <1>1, <1>4, <1>13 DEF TxTypeOK
<1>14. CASE PreProcess
  BY <1>1, <1>10, <1>13, <1>14
     DEF PreProcess, transaction_pending_send, NoSignatureInPayload, ProcessReturns, Ret
<1>15. CASE Handle
  BY <1>1, <1>11, <1>13, <1>15
     DEF Handle, HandleReadyToSign, HandleSending, HandleSuccess, HandlerIgnores,
         ProcessReturns, Ret
<1>16. CASE PostProcess
  BY <1>1, <1>12, <1>13, <1>16 DEF PostProcess, ProcessReturns, Ret
<1> QED
  BY <1>9, <1>14, <1>15, <1>16 DEF Next, vertices_event_process

-----------------------------------------------------------------------------
(* The theorems.                                                           *)

(* Buffer ids, indices and counters stay in range for every number of      *)
(* event slots and buffers, also when events are refused or repeated.      *)
THEOREM TypesCorrect == Spec => []TxTypeOK
<1>1. Init => TxTypeOK
  BY InitInv DEF IInv
<1>2. TxTypeOK /\ UNCHANGED vars => TxTypeOK'
  BY DEF TxTypeOK, QueueTypeOK, vars, txVars, queueVars
<1> QED
  BY <1>1, <1>2, TypeStep, PTL DEF Spec

(* Every encoded transaction has exactly one event in flight, and every    *)
(* event its transaction, however the application, the handler, the        *)
(* provider and the network behave: no error path of submission, signing   *)
(* or posting loses or doubles an event.                                   *)
THEOREM OneEventPerTransaction ==
  ASSUME Roomy
  PROVE  Spec => []OneEventPerTx
  BY InvHolds, PTL DEF IInv

(* A transaction is signed before it is sent and freed only after its post *)
(* was acknowledged; one that was acknowledged is never posted again.      *)
THEOREM EventsTellProgress ==
  ASSUME Roomy
  PROVE  Spec => []EventTellsProgress
  BY InvHolds, PTL DEF IInv

(* Whatever is posted carries the signature of that very transaction,      *)
(* although buffers and the signatures in them are used again.             *)
THEOREM PostedTransactionsAreSigned ==
  ASSUME Roomy
  PROVE  Spec => []PostedIsSigned
  BY InvHolds, PTL DEF IInv

(* A transaction the network took is kept until its post is acknowledged.  *)
THEOREM PostedTransactionsAreTracked ==
  ASSUME Roomy
  PROVE  Spec => []PostedIsTracked
  BY InvHolds, PTL DEF IInv

(* Two event slots more than buffers are enough: no event is ever refused. *)
THEOREM EventsAlwaysFit ==
  ASSUME Roomy
  PROVE  Spec => []EventsFit
<1>1. IInv => EventsFit
  <2> SUFFICES ASSUME IInv
               PROVE  EventsFit
    OBVIOUS
  <2> QED
    BY LiveEventsBound, SizeBound, TransactionsAssumption DEF EventsFit
<1> QED
  BY <1>1, InvHolds, PTL

-----------------------------------------------------------------------------
(***************************************************************************)
(* For every number of buffers, events and transactions: the transactions  *)
(* are an outbox (TxOutbox), and NO_MEM means that all buffers are taken.  *)
(*                                                                         *)
(* Events are served round robin: an event is dropped at the head of the   *)
(* queue and its successor queued at the end.  So transactions, which      *)
(* start in the order of their numbers, never overtake one another.        *)
(***************************************************************************)

(* The order of the events in flight.                                      *)

(* Slot i is served before slot j. *)
Before(i, j) == IF (rd_index <= i) <=> (rd_index <= j) THEN i < j ELSE rd_index <= i

TxOf(i) == pending[evt[i].bufid].tx

Stage(type) == IF type = "TX_READY_TO_SIGN" THEN 0 ELSE IF type = "TX_SENDING" THEN 1 ELSE 2

(* Of two transactions the earlier one is ahead: at a later stage, or at   *)
(* the same one and served first.                                          *)
Ahead(i, j) ==
  \/ Stage(evt[i].type) > Stage(evt[j].type)
  \/ Stage(evt[i].type) = Stage(evt[j].type) /\ Before(i, j)

OrderInv == \A i, j \in LiveSlots : TxOf(i) < TxOf(j) => Ahead(i, j)

LEMMA Stages == \A t \in EvtType : Stage(t) \in 0..2
  BY DEF EvtType, Stage

(* The write slot is served last and the read slot first. *)
LEMMA BeforeFacts ==
  ASSUME QueueTypeOK, NEW i \in Window
  PROVE  /\ Before(i, wr_index)
         /\ ~Before(i, rd_index)
         /\ i # rd_index => Before(rd_index, i)
  BY EventsCountAssumption DEF QueueTypeOK, Slots, Window, Before

(* Dropping the oldest event leaves the order of the others. *)
LEMMA DropKeepsOrder ==
  ASSUME QueueTypeOK, DropHead, NEW i \in Slots \ {rd_index}, NEW j \in Slots \ {rd_index}
  PROVE  Before(i, j)' <=> Before(i, j)
<1>1. rd_index' = IF rd_index + 1 = EventsCount THEN 0 ELSE rd_index + 1
  BY IncrementIsCyclic DEF QueueTypeOK, DropHead
<1> QED
  BY <1>1, EventsCountAssumption DEF QueueTypeOK, Slots, Before

(* Numbers and stages of the events in flight. *)
LEMMA LiveFacts ==
  ASSUME IInv
  PROVE  \A i \in LiveSlots :
           /\ i \in Window /\ i \in Slots
           /\ TxOf(i) \in 1..created
           /\ Stage(evt[i].type) \in 0..2
           /\ Stage(evt[i].type) = 2 <=> evt[i].type = "TX_SUCCESS"
           /\ evt[i].type = "TX_SUCCESS" <=> TxOf(i) \in acked
<1>1. \A i \in LiveSlots : i \in Window /\ i \in Slots /\ evt[i].type \in EvtType
  BY InvFacts DEF Event
<1> QED
  BY <1>1 DEF IInv, EventTellsProgress, TxOf, Stage, EvtType

-----------------------------------------------------------------------------
(* The order is kept.                                                      *)

(* A new transaction is the last one of all. *)
LEMMA EncodeOrdered ==
  ASSUME IInv, Roomy, OrderInv, ApiCaller, IsFree(m_tx_buffer_idx), EncodeAndSchedule,
         UNCHANGED <<pc, stopped, posted, acked>>
  PROVE  OrderInv'
<1>1. /\ LiveSlots' = LiveSlots \cup {wr_index} /\ rd_index' = rd_index
      /\ \A i \in LiveSlots : evt'[i] = evt[i] /\ TxOf(i)' = TxOf(i)
      /\ evt'[wr_index].type = "TX_READY_TO_SIGN"
      /\ pending'[evt'[wr_index].bufid].tx = created + 1
  <2>1. \A i \in LiveSlots : evt'[i] = evt[i] /\ TxOf(i)' = TxOf(i)
    BY EncodeFacts DEF TxOf
  <2> QED
    BY <2>1, EncodeFacts DEF Ev
<1>2. \A i \in LiveSlots :
        TxOf(i) \in 1..created /\ Stage(evt[i].type) \in 0..2 /\ Before(i, wr_index)
  <2>1. created \in Nat /\ QueueTypeOK
    BY EncodeFacts DEF IInv, TxTypeOK
  <2> QED
    BY <2>1, LiveFacts, BeforeFacts
<1>3. created \in Nat
  BY EncodeFacts
<1> SUFFICES ASSUME NEW i \in LiveSlots', NEW j \in LiveSlots', TxOf(i)' < TxOf(j)'
             PROVE  Ahead(i, j)'
  BY DEF OrderInv
<1>4. i \in LiveSlots
  BY <1>1, <1>2, <1>3 DEF TxOf
<1>5. CASE j \in LiveSlots
  BY <1>1, <1>4, <1>5 DEF OrderInv, Ahead, Before
<1>6. CASE j = wr_index
  <2>1. Before(i, j)' /\ Stage(evt'[j].type) = 0 /\ Stage(evt'[i].type) \in 0..2
    BY <1>1, <1>2, <1>4, <1>6 DEF Before, Stage
  <2> QED
    BY <2>1 DEF Ahead
<1> QED
  BY <1>1, <1>5, <1>6

(* A transaction that goes on to the next stage goes to the end of it. *)
LEMMA AdvanceOrdered ==
  ASSUME IInv, OrderInv,
         rd_index \in LiveSlots, rd_index' = rd_index,
         LiveSlots' = (LiveSlots \ {rd_index}) \cup {wr_index},
         \A i \in LiveSlots \ {rd_index} : evt'[i] = evt[i] /\ TxOf(i)' = TxOf(i),
         pending'[evt'[wr_index].bufid].tx = TxOf(rd_index),
         Stage(evt'[wr_index].type) = Stage(evt[rd_index].type) + 1
  PROVE  OrderInv'
<1>1. \A i \in LiveSlots : /\ TxOf(i) \in Nat /\ Stage(evt[i].type) \in 0..2
                           /\ Before(i, wr_index) /\ ~Before(i, rd_index)
  <2>1. created \in Nat /\ QueueTypeOK
    BY TransactionsAssumption DEF IInv, TxTypeOK
  <2> QED
    BY <2>1, LiveFacts, BeforeFacts
<1> SUFFICES ASSUME NEW i \in LiveSlots', NEW j \in LiveSlots', TxOf(i)' < TxOf(j)'
             PROVE  Ahead(i, j)'
  BY DEF OrderInv
<1>2. CASE i \in LiveSlots \ {rd_index} /\ j \in LiveSlots \ {rd_index}
  BY <1>2 DEF OrderInv, Ahead, Before
<1>3. CASE i \in LiveSlots \ {rd_index} /\ j = wr_index
  <2>1. TxOf(i) < TxOf(rd_index)
    BY <1>3 DEF TxOf
  <2>2. Stage(evt[i].type) > Stage(evt[rd_index].type)
    BY <1>1, <1>3, <2>1 DEF OrderInv, Ahead
  <2>3. Before(i, j)'
    BY <1>1, <1>3 DEF Before
  <2>4. Stage(evt'[i].type) = Stage(evt[i].type)
        /\ Stage(evt'[j].type) = Stage(evt[rd_index].type) + 1
    BY <1>3
  <2> QED
    BY <1>1, <1>3, <2>2, <2>3, <2>4 DEF Ahead
<1>4. CASE i = wr_index /\ j \in LiveSlots \ {rd_index}
  <2>1. TxOf(rd_index) < TxOf(j)
    BY <1>4 DEF TxOf
  <2>2. Stage(evt[rd_index].type) >= Stage(evt[j].type)
    BY <1>1, <1>4, <2>1 DEF OrderInv, Ahead
  <2>3. Stage(evt'[j].type) = Stage(evt[j].type)
        /\ Stage(evt'[i].type) = Stage(evt[rd_index].type) + 1
    BY <1>4
  <2> QED
    BY <1>1, <1>4, <2>2, <2>3 DEF Ahead
<1>5. CASE i = wr_index /\ j = wr_index
  BY <1>1, <1>5 DEF TxOf
<1> QED
  BY <1>2, <1>3, <1>4, <1>5

(* The oldest event leaves the queue. *)
LEMMA DropOrdered ==
  ASSUME IInv, OrderInv, DropHead, evt' = evt,
         LiveSlots' = LiveSlots \ {rd_index},
         \A i \in LiveSlots \ {rd_index} : TxOf(i)' = TxOf(i)
  PROVE  OrderInv'
<1>1. \A i, j \in LiveSlots \ {rd_index} : Before(i, j)' <=> Before(i, j)
  BY LiveFacts, DropKeepsOrder DEF IInv, TxTypeOK
<1> QED
  BY <1>1 DEF OrderInv, Ahead

LEMMA QuietOrdered ==
  ASSUME OrderInv, UNCHANGED <<queueVars, LiveSlots>>,
         \A i \in LiveSlots : TxOf(i)' = TxOf(i)
  PROVE  OrderInv'
  BY DEF queueVars, OrderInv, Ahead, Before

-----------------------------------------------------------------------------
(* The transactions in buffers.                                            *)

(* They are those with an event in flight. *)
LEMMA PendingIsLive ==
  ASSUME IInv
  PROVE  PendingTx = {TxOf(i) : i \in LiveSlots}
<1>1. \A i \in LiveSlots : evt[i].bufid \in Bufid /\ Encoded(evt[i].bufid)
  BY InvFacts
<1>2. \A b \in Bufid : Encoded(b) => \E i \in LiveSlots : evt[i].bufid = b
  BY DEF IInv, OneEventPerTx, Encoded
<1> QED
  BY <1>1, <1>2 DEF PendingTx, TxOf, Encoded

(* While a buffer is free there are fewer of them than buffers. *)
LEMMA PendingBound ==
  ASSUME IInv, NEW b \in Bufid, ~Encoded(b)
  PROVE  Cardinality(PendingTx) < PendingTxCount
<1> DEFINE S == {c \in Bufid : pending[c].body = "encoded"}
           f == [c \in S |-> pending[c].tx]
<1>1. PendingTxCount \in Nat \ {0}
  BY TransactionsAssumption
<1>2. IsFiniteSet(Bufid) /\ Cardinality(Bufid) = PendingTxCount
  <2>1. Bufid = 0..(PendingTxCount - 1)
    BY TransactionsAssumption
  <2> QED
    BY <1>1, <2>1, FS_Interval
<1>3. IsFiniteSet(Bufid \ {b}) /\ Cardinality(Bufid \ {b}) = PendingTxCount - 1
  BY <1>2, FS_RemoveElement
<1>4. S \subseteq Bufid \ {b}
  BY DEF Encoded
<1>5. IsFiniteSet(S) /\ Cardinality(S) <= PendingTxCount - 1
  BY <1>3, <1>4, FS_Subset
<1>6. f \in Surjection(S, PendingTx)
  BY DEF Surjection, PendingTx
<1>7. IsFiniteSet(PendingTx) /\ Cardinality(PendingTx) <= Cardinality(S)
  BY <1>5, <1>6, FS_Surjection
<1>8. Cardinality(PendingTx) \in Nat /\ Cardinality(S) \in Nat
  BY <1>5, <1>7, FS_CardinalityType
<1> QED
  BY <1>1, <1>5, <1>7, <1>8

(* Nothing is ahead of the oldest event. *)
LEMMA OldestFirst ==
  ASSUME IInv, OrderInv, rd_index \in LiveSlots
  PROVE  \A i \in LiveSlots :
           TxOf(i) < TxOf(rd_index) => Stage(evt[i].type) > Stage(evt[rd_index].type)
<1>1. \A i \in LiveSlots : ~Before(i, rd_index)
  BY LiveFacts, BeforeFacts DEF IInv, TxTypeOK
<1> QED
  BY <1>1 DEF OrderInv, Ahead

-----------------------------------------------------------------------------
(* What a step can be.                                                     *)

Encodes ==
  /\ ApiCaller
  /\ IsFree(m_tx_buffer_idx)
  /\ EncodeAndSchedule
  /\ UNCHANGED <<pc, stopped, posted, acked>>

Signs == HandleReadyToSign /\ ~IsFree(HeadBuf)

Sends ==
  /\ pc = "app"
  /\ EventIs("TX_SENDING")
  /\ pending' = encode_tx_replace_signature(HeadBuf)
  /\ UNCHANGED <<rd_index, m_tx_buffer_idx, stopped, created>>

Frees == PostProcess /\ EventIs("TX_SUCCESS") /\ ~IsFree(HeadBuf)

Drops == PostProcess /\ ~EventIs("TX_SUCCESS")

Reserves ==
  /\ "ERROR" \in ParamsResults \/ "null" \in ApplParams
  /\ IsFree(m_tx_buffer_idx)
  /\ pending' = Reserved

(* Errors, early returns, phases of the event loop. *)
Goes ==
  /\ UNCHANGED <<queueVars, m_tx_buffer_idx, created, acked>>
  /\ pending' = pending \/ Reserves
  /\ Superseded' <=> Superseded

LEMMA Steps ==
  ASSUME IInv, Roomy, [Next]_vars
  PROVE  \/ Encodes
         \/ Signs
         \/ Sends /\ PostSucceeds(HeadBuf)
         \/ Sends /\ PostFails(HeadBuf)
         \/ Frees
         \/ Drops
         \/ Goes
<1>1. CASE Submit
  <2>1. UNCHANGED <<pc, posted, acked>> /\ ApiCaller
    BY <1>1 DEF Submit, transaction_pay, transaction_appl
  <2>2. CASE IsFree(m_tx_buffer_idx) /\ EncodeAndSchedule /\ UNCHANGED stopped
    BY <2>1, <2>2 DEF Encodes
  <2>3. CASE ~(IsFree(m_tx_buffer_idx) /\ EncodeAndSchedule /\ UNCHANGED stopped)
    <3>1. UNCHANGED <<queueVars, m_tx_buffer_idx, created>> /\ (pending' = pending \/ Reserves)
      BY <1>1, <2>3
         DEF Submit, transaction_pay, transaction_appl, Refused, ParamsNotLoaded, NullParamsFault,
             Reserves
    <3> QED
      BY <2>1, <3>1 DEF Goes, Superseded, EventIs, HeadEvent, event_queue_size, queueVars
  <2> QED
    BY <2>2, <2>3
<1>2. CASE PreProcess
  <2>1. pc = "app"
    BY <1>2 DEF PreProcess
  <2>2. CASE UNCHANGED <<queueVars, pending, m_tx_buffer_idx, created, acked>>
             /\ (pc' = "app" \/ (pc' = "user" /\ ~EventIs("TX_SENDING")))
    BY <2>1, <2>2 DEF Goes, Superseded, EventIs, HeadEvent, event_queue_size, queueVars
  <2> QED
    BY <1>2, <2>1, <2>2
       DEF PreProcess, transaction_pending_send, NoSignatureInPayload, ProcessReturns, EventIs, Sends
<1>3. CASE Handle
  <2>1. CASE Signs
    BY <2>1
  <2>2. CASE ~Signs
    <3>1. /\ UNCHANGED <<queueVars, pending, m_tx_buffer_idx, created, acked>>
          /\ pc = "user" /\ event_queue_size # 0
          /\ \/ pc' = "post" /\ (EventIs("TX_SENDING") \/ EventIs("TX_SUCCESS"))
             \/ pc' = "app" /\ EventIs("TX_READY_TO_SIGN")
      BY <1>3, <2>2
         DEF Handle, HandleReadyToSign, HandleSending, HandleSuccess, HandlerIgnores,
             ProcessReturns, Roomy, EventIs, Signs
    <3> QED
      BY <3>1 DEF Goes, Superseded, EventIs, HeadEvent, event_queue_size, queueVars
  <2> QED
    BY <2>1, <2>2
<1>4. CASE PostProcess
  <2>1. CASE EventIs("TX_SUCCESS") /\ IsFree(HeadBuf)
    <3>1. UNCHANGED <<queueVars, pending, m_tx_buffer_idx, created, acked>> /\ pc' = "app"
      BY <1>4, <2>1 DEF PostProcess, ProcessReturns
    <3> QED
      BY <2>1, <3>1 DEF Goes, Superseded, EventIs
  <2> QED
    BY <1>4, <2>1 DEF Frees, Drops
<1>5. CASE UNCHANGED vars
  BY <1>5
     DEF vars, txVars, queueVars, Goes, Superseded, EventIs, HeadEvent, event_queue_size
<1> QED
  BY <1>1, <1>2, <1>3, <1>4, <1>5 DEF Next, vertices_event_process

(* What the steps do to the events in flight and the pending transactions. *)

LEMMA EncodesOne ==
  ASSUME IInv, Roomy, OrderInv, Encodes
  PROVE  /\ OrderInv'
         /\ created \in Nat /\ created' = created + 1 /\ acked' = acked
         /\ PendingTx' = PendingTx \cup {created + 1}
         /\ Cardinality(PendingTx) < PendingTxCount
<1>1. OrderInv'
  BY EncodeOrdered DEF Encodes
<1>2. /\ m_tx_buffer_idx \in Bufid /\ ~Encoded(m_tx_buffer_idx)
      /\ created \in Nat /\ created' = created + 1
      /\ \A c \in Bufid \ {m_tx_buffer_idx} : pending'[c] = pending[c]
      /\ pending'[m_tx_buffer_idx].body = "encoded"
      /\ pending'[m_tx_buffer_idx].tx = created + 1
  BY EncodeFacts DEF Encodes
<1>3. PendingTx' = PendingTx \cup {created + 1}
  BY <1>2 DEF PendingTx, Encoded
<1> QED
  BY <1>1, <1>2, <1>3, PendingBound DEF Encodes

(* Everything else but the end of a transaction. *)
LEMMA SamePending ==
  ASSUME \A b \in Bufid : /\ pending'[b].tx = pending[b].tx
                          /\ Encoded(b)' <=> Encoded(b)
  PROVE  PendingTx' = PendingTx
  BY DEF PendingTx, Encoded

LEMMA SignsOldest ==
  ASSUME IInv, Roomy, OrderInv, Signs
  PROVE  OrderInv' /\ UNCHANGED <<PendingTx, acked, created>>
<1>1. /\ evt[rd_index].type = "TX_READY_TO_SIGN" /\ rd_index \in LiveSlots
      /\ UNCHANGED <<rd_index, created, acked>>
      /\ \A c \in Bufid : pending'[c].tx = pending[c].tx /\ (Encoded(c)' <=> Encoded(c))
      /\ LiveSlots' = (LiveSlots \ {rd_index}) \cup {wr_index}
      /\ \A i \in LiveSlots \ {rd_index} : evt'[i] = evt[i] /\ evt[i].bufid \in Bufid
      /\ evt'[wr_index].bufid = HeadBuf /\ evt'[wr_index].type = "TX_SENDING"
      /\ HeadBuf \in Bufid
  BY SignFacts DEF Signs, Encoded, Ev
<1>2. pending'[evt'[wr_index].bufid].tx = TxOf(rd_index)
      /\ \A i \in LiveSlots \ {rd_index} : TxOf(i)' = TxOf(i)
  BY <1>1 DEF TxOf, HeadBuf, HeadEvent
<1>3. Stage(evt'[wr_index].type) = Stage(evt[rd_index].type) + 1
  BY <1>1 DEF Stage
<1>4. OrderInv'
  BY <1>1, <1>2, <1>3, AdvanceOrdered
<1> QED
  BY <1>1, <1>4, SamePending

LEMMA PostsOldest ==
  ASSUME IInv, Roomy, OrderInv, Sends, PostSucceeds(HeadBuf)
  PROVE  /\ OrderInv' /\ UNCHANGED <<PendingTx, created>>
         /\ \E t \in PendingTx \ acked : /\ acked' = acked \cup {t}
                                       /\ \A u \in PendingTx \ acked : t <= u
<1>1. /\ evt[rd_index].type = "TX_SENDING" /\ rd_index \in LiveSlots
      /\ acked' = acked \cup {pending[HeadBuf].tx}
      /\ LiveSlots' = (LiveSlots \ {rd_index}) \cup {wr_index}
      /\ \A i \in LiveSlots \ {rd_index} : evt'[i] = evt[i] /\ evt[i].bufid \in Bufid
      /\ evt'[wr_index].bufid = HeadBuf /\ evt'[wr_index].type = "TX_SUCCESS"
  BY PostedFacts DEF Sends, Ev
<1>2. /\ \A c \in Bufid : pending'[c].tx = pending[c].tx /\ (Encoded(c)' <=> Encoded(c))
      /\ HeadBuf \in Bufid /\ UNCHANGED <<rd_index, created>>
  BY SignatureReplaced DEF Sends
<1>3. pending'[evt'[wr_index].bufid].tx = TxOf(rd_index)
      /\ \A i \in LiveSlots \ {rd_index} : TxOf(i)' = TxOf(i)
  BY <1>1, <1>2 DEF TxOf, HeadBuf, HeadEvent
<1>4. Stage(evt'[wr_index].type) = Stage(evt[rd_index].type) + 1
  BY <1>1 DEF Stage
<1>5. OrderInv'
  BY <1>1, <1>2, <1>3, <1>4, AdvanceOrdered
<1>6. TxOf(rd_index) = pending[HeadBuf].tx
  BY DEF TxOf, HeadBuf, HeadEvent
<1>7. TxOf(rd_index) \in PendingTx \ acked
  BY <1>1, PendingIsLive, LiveFacts
<1>8. \A u \in PendingTx \ acked : TxOf(rd_index) <= u
  <2> TAKE u \in PendingTx \ acked
  <2>1. PICK i \in LiveSlots : u = TxOf(i)
    BY PendingIsLive
  <2>2. /\ Stage(evt[i].type) \in 0..2 /\ Stage(evt[i].type) # 2
        /\ TxOf(i) \in Nat /\ TxOf(rd_index) \in Nat
    BY <1>1, <2>1, LiveFacts, TransactionsAssumption DEF IInv, TxTypeOK
  <2>3. Stage(evt[rd_index].type) = 1
    BY <1>1 DEF Stage
  <2> QED
    BY <1>1, <2>1, <2>2, <2>3, OldestFirst
<1> QED
  BY <1>1, <1>2, <1>5, <1>6, <1>7, <1>8, SamePending

LEMMA NotPostsSame ==
  ASSUME IInv, OrderInv, Sends, PostFails(HeadBuf)
  PROVE  OrderInv' /\ UNCHANGED <<PendingTx, acked, created>>
<1>1. /\ \A c \in Bufid : pending'[c].tx = pending[c].tx /\ (Encoded(c)' <=> Encoded(c))
      /\ UNCHANGED <<queueVars, pc, created, acked>>
  BY SignatureReplaced DEF Sends, PostFails, queueVars
<1>2. UNCHANGED LiveSlots
  BY <1>1
     DEF queueVars, event_queue_size, Window, Superseded, LiveSlots, EventIs, HeadEvent
<1>3. \A i \in LiveSlots : TxOf(i)' = TxOf(i)
  BY <1>1, InvFacts DEF TxOf, queueVars
<1> QED
  BY <1>1, <1>2, <1>3, QuietOrdered, SamePending

LEMMA FreesOldest ==
  ASSUME IInv, OrderInv, Frees
  PROVE  /\ OrderInv' /\ UNCHANGED <<acked, created, m_tx_buffer_idx>>
         /\ \E t \in PendingTx \cap acked : /\ PendingTx' = PendingTx \ {t}
                                          /\ \A u \in PendingTx : t <= u
<1>1. /\ rd_index \in LiveSlots /\ DropHead
      /\ UNCHANGED <<evt, created, acked, m_tx_buffer_idx>>
      /\ HeadBuf \in Bufid /\ Encoded(HeadBuf) /\ HeadBuf = evt[rd_index].bufid
      /\ \A i \in LiveSlots \ {rd_index} : evt[i].bufid \in Bufid \ {HeadBuf}
      /\ pending[HeadBuf].tx \in acked
      /\ LiveSlots' = LiveSlots \ {rd_index}
      /\ \A c \in Bufid \ {HeadBuf} : pending'[c] = pending[c]
      /\ pending'[HeadBuf].body = "none"
  BY FreeFacts DEF Frees
<1>2. \A i \in LiveSlots \ {rd_index} : TxOf(i)' = TxOf(i)
  BY <1>1 DEF TxOf
<1>3. OrderInv'
  BY <1>1, <1>2, DropOrdered
<1>4. TxOf(rd_index) = pending[HeadBuf].tx
  BY <1>1 DEF TxOf
<1>5. PendingTx' = PendingTx \ {TxOf(rd_index)}
  <2>1. \A c \in Bufid \ {HeadBuf} : Encoded(c) => pending[c].tx # pending[HeadBuf].tx
    BY <1>1 DEF IInv, BufferInv
  <2> QED
    BY <1>1, <1>4, <2>1 DEF PendingTx, Encoded
<1>6. \A u \in PendingTx : TxOf(rd_index) <= u
  <2> TAKE u \in PendingTx
  <2>1. PICK i \in LiveSlots : u = TxOf(i)
    BY PendingIsLive
  <2>2. Stage(evt[i].type) \in 0..2 /\ TxOf(i) \in Nat /\ TxOf(rd_index) \in Nat
    BY <1>1, <2>1, LiveFacts, TransactionsAssumption DEF IInv, TxTypeOK
  <2>3. Stage(evt[rd_index].type) = 2
    BY <1>1, <1>4, LiveFacts
  <2> QED
    BY <1>1, <2>1, <2>2, <2>3, OldestFirst
<1>7. TxOf(rd_index) \in PendingTx \cap acked
  BY <1>1, <1>4, PendingIsLive
<1> QED
  BY <1>1, <1>3, <1>5, <1>6, <1>7

LEMMA DropsSame ==
  ASSUME IInv, OrderInv, Drops
  PROVE  OrderInv' /\ UNCHANGED <<pending, PendingTx, acked, created, m_tx_buffer_idx>>
<1>1. /\ pc = "post" /\ event_queue_size # 0 /\ Superseded
      /\ DropHead /\ pc' = "app"
      /\ UNCHANGED <<pending, wr_index, evt, created, acked, m_tx_buffer_idx>>
  BY DEF Drops, PostProcess, Superseded
<1>2. LiveSlots' = LiveSlots \ {rd_index}
  <2>1. ~Superseded' /\ rd_index \notin LiveSlots
    BY <1>1 DEF Superseded, LiveSlots
  <2> QED
    BY <1>1, <2>1, InvFacts, WindowShrinks DEF LiveSlots
<1>3. \A i \in LiveSlots : TxOf(i)' = TxOf(i)
  BY <1>1 DEF TxOf
<1> QED
  BY <1>1, <1>2, <1>3, DropOrdered DEF PendingTx

LEMMA GoesSame ==
  ASSUME IInv, OrderInv, Goes
  PROVE  OrderInv' /\ UNCHANGED <<PendingTx, acked, created, m_tx_buffer_idx>>
<1>1. \A b \in Bufid : pending'[b].tx = pending[b].tx /\ (Encoded(b)' <=> Encoded(b))
  BY DEF Goes, Reserves, Reserved, IsFree, Encoded, IInv, TxTypeOK, SignedTx
<1>2. UNCHANGED <<queueVars, LiveSlots, created, acked, m_tx_buffer_idx>>
  BY DEF Goes, queueVars, Window, LiveSlots
<1>3. \A i \in LiveSlots : TxOf(i)' = TxOf(i)
  BY <1>1, <1>2, InvFacts DEF TxOf, queueVars
<1> QED
  BY <1>1, <1>2, <1>3, QuietOrdered, SamePending

-----------------------------------------------------------------------------
(* The invariants and the theorems.                                        *)

LEMMA InitOrdered == Init => OrderInv /\ PendingTx = {}
<1> SUFFICES ASSUME Init
             PROVE  OrderInv /\ PendingTx = {}
  OBVIOUS
<1>1. LiveSlots = {}
  BY EventsCountAssumption
     DEF Init, QueueInit, LiveSlots, Superseded, EventIs, Window, Slots
<1>2. \A b \in Bufid : pending[b].body = "none"
  BY DEF Init, Zeroed
<1> QED
  BY <1>1, <1>2 DEF OrderInv, PendingTx

LEMMA OrderHolds ==
  ASSUME Roomy
  PROVE  Spec => []OrderInv
<1>1. IInv /\ OrderInv /\ [Next]_vars => OrderInv'
  BY Steps, EncodesOne, SignsOldest, PostsOldest, NotPostsSame, FreesOldest, DropsSame, GoesSame
<1>2. Init => OrderInv
  BY InitOrdered
<1> QED
  BY <1>1, <1>2, InvHolds, PTL DEF Spec

(* Whatever the network answers and the handler does, transactions are     *)
(* executed in the order in which they were submitted, at most             *)
(* PENDING_TX_COUNT of them are pending, and a buffer is given back only   *)
(* for a transaction that was executed, the oldest one first.              *)
THEOREM TransactionsAreAnOutbox ==
  ASSUME Roomy
  PROVE  Spec => ImplementsOutbox
<1> DEFINE Waiting == PendingTx \ acked
           Executed == PendingTx \cap acked
<1>1. Init => Outbox!Init
  BY InitOrdered DEF Init, Outbox!Init
<1>2. IInv /\ OrderInv /\ [Next]_vars => [Outbox!Next]_<<created, Waiting, Executed>>
  <2> SUFFICES ASSUME IInv, OrderInv, [Next]_vars
               PROVE  Outbox!Next \/ UNCHANGED <<created, Waiting, Executed>>
    OBVIOUS
  <2>1. CASE Encodes
    <3>1. created + 1 \notin acked
      BY <2>1, EncodesOne DEF IInv, NetworkInv
    <3>2. Waiting \cup Executed = PendingTx
      OBVIOUS
    <3>3. /\ created' = created + 1 /\ Cardinality(Waiting \cup Executed) < PendingTxCount
          /\ Waiting' = Waiting \cup {created + 1} /\ Executed' = Executed
      BY <2>1, <3>1, <3>2, EncodesOne
    <3>4. Outbox!Cardinality(Waiting \cup Executed) = Cardinality(Waiting \cup Executed)
      BY DEF Cardinality, Outbox!Cardinality
    <3> QED
      BY <3>3, <3>4 DEF Outbox!Next, Outbox!Accept
  <2>2. CASE Sends /\ PostSucceeds(HeadBuf)
    <3>1. PICK t \in Waiting : acked' = acked \cup {t} /\ \A u \in Waiting : t <= u
      BY <2>2, PostsOldest
    <3>2. created' = created /\ Waiting' = Waiting \ {t} /\ Executed' = Executed \cup {t}
      BY <2>2, <3>1, PostsOldest
    <3> QED
      BY <3>1, <3>2 DEF Outbox!Next, Outbox!Execute, Outbox!Oldest
  <2>3. CASE Frees
    <3>1. PICK t \in Executed : PendingTx' = PendingTx \ {t} /\ \A u \in PendingTx : t <= u
      BY <2>3, FreesOldest
    <3>2. created' = created /\ Waiting' = Waiting /\ Executed' = Executed \ {t}
      BY <2>3, <3>1, FreesOldest
    <3> QED
      BY <3>1, <3>2 DEF Outbox!Next, Outbox!Release, Outbox!Oldest
  <2>4. CASE Signs \/ (Sends /\ PostFails(HeadBuf)) \/ Drops \/ Goes
    BY <2>4, SignsOldest, NotPostsSame, DropsSame, GoesSame
  <2> QED
    BY <2>1, <2>2, <2>3, <2>4, Steps
<1> QED
  BY <1>1, <1>2, InvHolds, OrderHolds, PTL DEF Spec, ImplementsOutbox, Outbox!Spec, Outbox!outboxVars

-----------------------------------------------------------------------------
(* Remainders.                                                             *)

(* Division with remainder, and that there is only one. *)
LEMMA Division ==
  ASSUME NEW k \in Nat \ {0}, NEW n \in Nat
  PROVE  /\ n = k * (n \div k) + (n % k)
         /\ n \div k \in Nat
         /\ n % k \in 0..(k - 1)
  OBVIOUS

LEMMA Multiples ==
  ASSUME NEW k \in Nat \ {0}, NEW p \in Nat, NEW q \in Nat, p < q
  PROVE  k * p + k <= k * q /\ k * p \in Nat /\ k * q \in Nat
<1>1. PICK d \in Nat : q = p + 1 + d
  <2>1. q - p - 1 \in Nat
    OBVIOUS
  <2> QED
    BY <2>1
<1>2. k * q = k * p + k + k * d
  BY <1>1
<1>3. k * d \in Nat /\ k * p \in Nat
  OBVIOUS
<1> QED
  BY <1>2, <1>3

LEMMA Remainder ==
  ASSUME NEW k \in Nat \ {0}, NEW q \in Nat, NEW r \in 0..(k - 1)
  PROVE  (k * q + r) % k = r
<1> DEFINE n == k * q + r
<1>1. n \in Nat
  OBVIOUS
<1>2. n = k * (n \div k) + (n % k) /\ n \div k \in Nat /\ n % k \in 0..(k - 1)
  BY <1>1, Division
<1> DEFINE p == n \div k
           s == n % k
<1>3. k * p + s = k * q + r /\ p \in Nat /\ s \in 0..(k - 1)
  BY <1>2
<1> HIDE DEF p, s
<1>4. ~(p < q)
  <2> SUFFICES ASSUME p < q
               PROVE  FALSE
    OBVIOUS
  <2>1. k * p + k <= k * q /\ k * p \in Nat /\ k * q \in Nat
    BY <1>3, Multiples
  <2> QED
    BY <1>3, <2>1
<1>5. ~(q < p)
  <2> SUFFICES ASSUME q < p
               PROVE  FALSE
    OBVIOUS
  <2>1. k * q + k <= k * p /\ k * p \in Nat /\ k * q \in Nat
    BY <1>3, Multiples
  <2> QED
    BY <1>3, <2>1
<1>6. p = q
  BY <1>3, <1>4, <1>5
<1>7. s = r
  BY <1>3, <1>6
<1> QED
  BY <1>7 DEF s

(* The next buffer is that of the next transaction. *)
LEMMA NextInCycle ==
  ASSUME NEW n \in Nat, NEW k \in Nat \ {0}
  PROVE  ((n % k) + 1) % k = (n + 1) % k
<1> DEFINE q == n \div k
           r == n % k
<1>1. n = k * q + r /\ q \in Nat /\ r \in 0..(k - 1)
  BY Division
<1> HIDE DEF q, r
<1>2. CASE r + 1 < k
  <2>1. r + 1 \in 0..(k - 1) /\ n + 1 = k * q + (r + 1) /\ r + 1 = k * 0 + (r + 1)
    BY <1>1, <1>2
  <2>2. (k * q + (r + 1)) % k = r + 1 /\ (k * 0 + (r + 1)) % k = r + 1
    BY <1>1, <2>1, Remainder
  <2> QED
    BY <2>1, <2>2 DEF r
<1>3. CASE r + 1 = k
  <2>1. n + 1 = k * (q + 1) + 0 /\ r + 1 = k * 1 + 0
    BY <1>1, <1>3
  <2>2. (k * (q + 1) + 0) % k = 0 /\ (k * 1 + 0) % k = 0
    <3>1. q + 1 \in Nat /\ 1 \in Nat /\ 0 \in 0..(k - 1)
      BY <1>1
    <3> QED
      BY <3>1, Remainder
  <2> QED
    BY <2>1, <2>2 DEF r
<1> QED
  BY <1>1, <1>2, <1>3

(* Two numbers with the same remainder are a full cycle apart. *)
LEMMA CycleApart ==
  ASSUME NEW k \in Nat \ {0}, NEW m \in Nat, NEW n \in Nat, m < n, m % k = n % k
  PROVE  m + k <= n
<1> DEFINE p == m \div k
           q == n \div k
           r == n % k
<1>1. m = k * p + r /\ n = k * q + r /\ p \in Nat /\ q \in Nat /\ r \in 0..(k - 1)
  BY Division
<1> HIDE DEF p, q, r
<1>2. p < q
  <2> SUFFICES ASSUME q <= p
               PROVE  FALSE
    BY <1>1
  <2>1. k * q <= k * p
    <3>1. CASE q = p
      BY <1>1, <3>1
    <3>2. CASE q < p
      BY <1>1, <3>2, Multiples
    <3> QED
      BY <1>1, <3>1, <3>2
  <2> QED
    BY <1>1, <2>1
<1> QED
  BY <1>1, <1>2, Multiples

(* A full cycle meets every buffer. *)
LEMMA CycleComplete ==
  ASSUME NEW k \in Nat \ {0}, NEW n \in Nat, n >= k, NEW b \in 0..(k - 1)
  PROVE  \E u \in (n - k)..(n - 1) : u % k = b
<1> DEFINE q == n \div k
           r == n % k
<1>1. n = k * q + r /\ q \in Nat /\ r \in 0..(k - 1)
  BY Division
<1> HIDE DEF q, r
<1>2. q # 0
  BY <1>1
<1> DEFINE p == q - 1
<1>3. p \in Nat /\ q = p + 1
  BY <1>1, <1>2
<1> HIDE DEF p
<1>4. k * q = k * p + k /\ k * p \in Nat
  BY <1>3
<1>5. CASE b < r
  <2>1. k * q + b \in (n - k)..(n - 1)
    BY <1>1, <1>4, <1>5
  <2> QED
    BY <1>1, <2>1, Remainder
<1>6. CASE b >= r
  <2>1. k * p + b \in (n - k)..(n - 1)
    BY <1>1, <1>4, <1>6
  <2> QED
    BY <1>3, <2>1, Remainder
<1> QED
  BY <1>1, <1>5, <1>6

-----------------------------------------------------------------------------
(* NO_MEM.                                                                 *)

(* No buffer is marked as taken without getting a transaction: parameters  *)
(* are loaded at every attempt, and application calls have some.           *)
NeverReserves == "ERROR" \notin ParamsResults /\ "null" \notin ApplParams

(* Buffers are handed out in a cycle, and what is pending is an unbroken   *)
(* range up to the last transaction.                                       *)
CycleInv ==
  /\ m_tx_buffer_idx = created % PendingTxCount
  /\ \A b \in Bufid : Encoded(b) => b = (pending[b].tx - 1) % PendingTxCount
  /\ \A b \in Bufid : ~Encoded(b) => IsFree(b)
  /\ \A t \in PendingTx : t..created \subseteq PendingTx

LEMMA SameCycle ==
  ASSUME CycleInv, UNCHANGED <<m_tx_buffer_idx, created, PendingTx>>,
         \A b \in Bufid : /\ pending'[b].tx = pending[b].tx
                         /\ pending'[b].body = pending[b].body
  PROVE  CycleInv'
  BY DEF CycleInv, Encoded, IsFree

LEMMA EncodeCycle ==
  ASSUME IInv, Roomy, OrderInv, CycleInv, Encodes
  PROVE  CycleInv'
<1>1. /\ m_tx_buffer_idx \in Bufid
      /\ \A c \in Bufid \ {m_tx_buffer_idx} : pending'[c] = pending[c]
      /\ pending'[m_tx_buffer_idx].body = "encoded"
      /\ pending'[m_tx_buffer_idx].tx = created + 1
      /\ m_tx_buffer_idx' = (m_tx_buffer_idx + 1) % PendingTxCount
  BY EncodeFacts DEF Encodes, EncodeAndSchedule, next_buffer
<1>2. /\ created \in Nat /\ created' = created + 1
      /\ PendingTx' = PendingTx \cup {created + 1}
  BY EncodesOne
<1>3. m_tx_buffer_idx' = created' % PendingTxCount
  BY <1>1, <1>2, NextInCycle, TransactionsAssumption DEF CycleInv
<1>4. (created + 1) - 1 = created
  BY <1>2
<1>5. \A b \in Bufid : Encoded(b)' => b = (pending'[b].tx - 1) % PendingTxCount
  BY <1>1, <1>4 DEF CycleInv, Encoded
<1>6. \A b \in Bufid : ~Encoded(b)' => IsFree(b)'
  BY <1>1 DEF CycleInv, Encoded, IsFree
<1>7. \A t \in PendingTx' : t..created' \subseteq PendingTx'
  <2>1. \A t \in PendingTx : t \in Nat
    BY PendingIsLive, LiveFacts, <1>2
  <2> QED
    BY <1>2, <2>1 DEF CycleInv
<1> QED
  BY <1>3, <1>5, <1>6, <1>7 DEF CycleInv

LEMMA FreeCycle ==
  ASSUME IInv, OrderInv, CycleInv, Frees
  PROVE  CycleInv'
<1>1. /\ HeadBuf \in Bufid
      /\ \A c \in Bufid \ {HeadBuf} : pending'[c] = pending[c]
      /\ pending'[HeadBuf].body = "none"
      /\ UNCHANGED <<created, m_tx_buffer_idx>>
  BY FreeFacts DEF Frees
<1>2. PICK t \in PendingTx : PendingTx' = PendingTx \ {t} /\ \A u \in PendingTx : t <= u
  BY FreesOldest
<1>3. \A u \in PendingTx : u \in Nat /\ created \in Nat
  BY PendingIsLive, LiveFacts, TransactionsAssumption DEF IInv, TxTypeOK
<1>4. \A u \in PendingTx' : u..created' \subseteq PendingTx'
  BY <1>1, <1>2, <1>3 DEF CycleInv
<1> QED
  BY <1>1, <1>4 DEF CycleInv, Encoded, IsFree

LEMMA CycleHolds ==
  ASSUME Roomy, NeverReserves
  PROVE  Spec => []CycleInv
<1>1. IInv /\ OrderInv /\ CycleInv /\ [Next]_vars => CycleInv'
  <2> SUFFICES ASSUME IInv, OrderInv, CycleInv, [Next]_vars
               PROVE  CycleInv'
    OBVIOUS
  <2>1. CASE Encodes
    BY <2>1, EncodeCycle
  <2>2. CASE Signs
    <3>1. UNCHANGED <<m_tx_buffer_idx, created>>
          /\ \A c \in Bufid : pending'[c].tx = pending[c].tx /\ pending'[c].body = pending[c].body
      BY <2>2, SignFacts DEF Signs
    <3> QED
      BY <2>2, <3>1, SignsOldest, SameCycle
  <2>3. CASE Sends /\ (PostSucceeds(HeadBuf) \/ PostFails(HeadBuf))
    <3>1. UNCHANGED <<m_tx_buffer_idx, created>>
          /\ \A c \in Bufid : pending'[c].tx = pending[c].tx /\ pending'[c].body = pending[c].body
      BY <2>3, SignatureReplaced DEF Sends, encode_tx_replace_signature, IInv, TxTypeOK, SignedTx
    <3> QED
      BY <2>3, <3>1, PostsOldest, NotPostsSame, SameCycle
  <2>4. CASE Frees
    BY <2>4, FreeCycle
  <2>5. CASE Drops
    BY <2>5, DropsSame, SameCycle
  <2>6. CASE Goes
    <3>1. pending' = pending
      BY <2>6 DEF Goes, Reserves, NeverReserves
    <3> QED
      BY <2>6, <3>1, GoesSame, SameCycle
  <2> QED
    BY <2>1, <2>2, <2>3, <2>4, <2>5, <2>6, Steps
<1>2. Init => CycleInv
  <2> SUFFICES ASSUME Init
               PROVE  CycleInv
    OBVIOUS
  <2>1. m_tx_buffer_idx = created % PendingTxCount
    BY TransactionsAssumption DEF Init
  <2>2. \A b \in Bufid : pending[b].body = "none"
    BY DEF Init, Zeroed
  <2> QED
    BY <2>1, <2>2, InitOrdered DEF CycleInv, Encoded, IsFree
<1> QED
  BY <1>1, <1>2, InvHolds, OrderHolds, PTL DEF Spec

(* A submission that is told NO_MEM found every buffer taken, not only the *)
(* next one, as long as no submission failed half way before it.           *)
THEOREM RefusedOnlyWhenFull ==
  ASSUME Roomy, NeverReserves
  PROVE  Spec => []NoMemMeansFull
<1>1. IInv /\ CycleInv => NoMemMeansFull
  <2> SUFFICES ASSUME IInv, CycleInv, ~IsFree(m_tx_buffer_idx), NEW b \in Bufid
               PROVE  Encoded(b)
    BY DEF NoMemMeansFull, IsFree, Encoded
  <2> DEFINE k == PendingTxCount
             t == pending[m_tx_buffer_idx].tx
  <2>1. m_tx_buffer_idx \in Bufid /\ created \in Nat /\ k \in Nat \ {0} /\ b \in 0..(k - 1)
    BY TransactionsAssumption DEF IInv, TxTypeOK
  <2>2. Encoded(m_tx_buffer_idx) /\ t \in 1..created /\ t \in PendingTx
    BY <2>1 DEF CycleInv, IInv, BufferInv, PendingTx, Encoded
  <2>3. (t - 1) % k = created % k
    BY <2>1, <2>2 DEF CycleInv
  <2>4. t - 1 + k <= created
    BY <2>1, <2>2, <2>3, CycleApart
  <2>5. PICK u \in (created - k)..(created - 1) : u % k = b
    <3>1. created >= k
      BY <2>1, <2>2, <2>4
    <3> HIDE DEF k
    <3> QED
      BY <2>1, <3>1, CycleComplete
  <2>6. u + 1 \in PendingTx
    BY <2>1, <2>2, <2>4 DEF CycleInv
  <2>7. PICK c \in Bufid : Encoded(c) /\ pending[c].tx = u + 1
    BY <2>6 DEF PendingTx, Encoded
  <2>8. c = b
    BY <2>1, <2>5, <2>7 DEF CycleInv
  <2> QED
    BY <2>7, <2>8
<1> QED
  BY <1>1, InvHolds, CycleHolds, PTL

(* A submission that returns an error has queued nothing and taken no      *)
(* buffer: with room for every event the only errors are the refusals      *)
(* before anything is changed.                                             *)
THEOREM RefusedLeavesNothing ==
  ASSUME Roomy, NeverReserves
  PROVE  Spec => ErrorLeavesNoTx
<1>1. IInv /\ Submit => (ret' # "SUCCESS" => UNCHANGED <<pending, evt, wr_index>>)
  <2> SUFFICES ASSUME IInv, Submit, ret' # "SUCCESS"
               PROVE  UNCHANGED <<pending, evt, wr_index>>
    OBVIOUS
  <2>1. UNCHANGED <<pc, posted, acked>> /\ ApiCaller
    BY DEF Submit, transaction_pay, transaction_appl
  <2>2. ~(IsFree(m_tx_buffer_idx) /\ EncodeAndSchedule /\ UNCHANGED stopped)
    BY <2>1, EncodeFacts
  <2>3. \A params \in ApplParams : params # "null"
    BY DEF NeverReserves
  <2> QED
    BY <2>2, <2>3
       DEF Submit, transaction_pay, transaction_appl, Refused, ParamsNotLoaded, NeverReserves,
           queueVars
<1>2. UNCHANGED vars => UNCHANGED <<pending, evt, wr_index>>
  BY DEF vars, txVars, queueVars
<1> QED
  BY <1>1, <1>2, InvHolds, PTL DEF ErrorLeavesNoTx

=============================================================================
