----------------------------- MODULE EventQueue ------------------------------
(***************************************************************************)
(* The event queue of src/vertices.c: a ring of VTC_EVENTS_COUNT slots     *)
(* with a write and a read index.  One slot always stays free, so that     *)
(* equal indices mean "empty".                                             *)
(*                                                                         *)
(* The queue is a file-static object that every part of the SDK and the    *)
(* application's handler reach: vertices_event_schedule pushes an event,   *)
(* vertices_event_process hands a pointer to the oldest one to the handler *)
(* and drops it once its processing succeeded.                             *)
(*                                                                         *)
(* Definitions named Bug_... are seeded errors: each replaces the           *)
(* definition that follows it when the properties are tried out.           *)
(*                                                                         *)
(* The queue can be specified on its own (QueueSpec, shown to implement    *)
(* EventFifo) and its operators are what module Transactions is built on.  *)
(***************************************************************************)
EXTENDS Integers, Sequences

CONSTANTS
  EventsCount,   \* VTC_EVENTS_COUNT, the number of slots
  Bufid          \* the buffer ids that events carry

(* vertices_config.h asks for a power of two: it makes the masks in the    *)
(* code equal to a remainder.  The proofs need at least two slots.         *)
ASSUME EventsCountAssumption ==
  /\ EventsCount \in Nat
  /\ EventsCount >= 2
  /\ \E k \in 1..EventsCount : EventsCount = 2^k

ASSUME BufidAssumption == 0 \in Bufid

VARIABLES wr_index, rd_index, evt

queueVars == <<wr_index, rd_index, evt>>

-----------------------------------------------------------------------------
Slots == 0..(EventsCount - 1)

EvtType == {"TX_READY_TO_SIGN", "TX_SENDING", "TX_SUCCESS"}

Event == [type : EvtType, bufid : Bufid]

(* (i + 1) & (VTC_EVENTS_COUNT - 1) *)
increment_event_index(i) == (i + 1) % EventsCount

(* (wr - rd) & (VTC_EVENTS_COUNT - 1): size_t wraps around, and the mask   *)
(* of the wrapped difference is the non-negative remainder.                *)
event_queue_size == (wr_index - rd_index) % EventsCount

Bug_full_when_equal == wr_index = rd_index

QueueFull == increment_event_index(wr_index) = rd_index

HeadEvent == evt[rd_index]

(* The slots that hold an event. *)
Window ==
  IF rd_index <= wr_index
    THEN {i \in Slots : rd_index <= i /\ i < wr_index}
    ELSE {i \in Slots : rd_index <= i \/ i < wr_index}

-----------------------------------------------------------------------------
(* The array after the event e has been stored in the write slot.          *)
Bug_event_in_next_slot(e) == [evt EXCEPT ![increment_event_index(wr_index)] = e]

WithEvent(e) == [evt EXCEPT ![wr_index] = e]

(* vertices_event_schedule, when there is room; otherwise it returns       *)
(* VTC_ERROR_NO_MEM and changes nothing.                                   *)
ScheduleEvent(e) ==
  /\ ~QueueFull
  /\ evt' = WithEvent(e)
  /\ wr_index' = increment_event_index(wr_index)

(* The end of vertices_event_process for an event whose processing         *)
(* succeeded: "we can increment the read index".                           *)
Bug_head_not_dropped == event_queue_size # 0 /\ UNCHANGED rd_index

DropHead ==
  /\ event_queue_size # 0
  /\ rd_index' = increment_event_index(rd_index)

-----------------------------------------------------------------------------
(* The queue on its own.                                                   *)
QueueInit ==
  /\ wr_index = 0
  /\ rd_index = 0
  /\ evt = [i \in Slots |-> [type |-> "TX_READY_TO_SIGN", bufid |-> 0]]

Schedule(e) == ScheduleEvent(e) /\ UNCHANGED rd_index

Processed == DropHead /\ UNCHANGED <<wr_index, evt>>

(* The handler gets the address of the queue's own entry and may write it. *)
HandlerRewrites(t) ==
  /\ event_queue_size # 0
  /\ evt' = [evt EXCEPT ![rd_index].type = t]
  /\ UNCHANGED <<wr_index, rd_index>>

QueueNext ==
  \/ \E e \in Event : Schedule(e)
  \/ Processed
  \/ \E t \in EvtType : HandlerRewrites(t)

QueueSpec == QueueInit /\ [][QueueNext]_queueVars

-----------------------------------------------------------------------------
(* Indices are slots and every slot holds an event.                        *)
QueueTypeOK ==
  /\ wr_index \in Slots
  /\ rd_index \in Slots
  /\ evt \in [Slots -> Event]

(* vertices_event_schedule refuses an event exactly when VTC_EVENTS_COUNT-1*)
(* events are queued: its own full test, the masks in the increments and   *)
(* the size the application is told by vertices_event_process agree.       *)
NoMemExactlyAtCapacity == QueueFull <=> event_queue_size = EventsCount - 1

(* The slot of the k-th oldest event. *)
Position(k) == (rd_index + k - 1) % EventsCount

(* The queued events, oldest first. *)
Contents == [k \in 1..event_queue_size |-> evt[Position(k)]]

Fifo == INSTANCE EventFifo
          WITH Item <- Event, Capacity <- EventsCount - 1, queue <- Contents

Corresponds ==
  /\ \A e \in Event : Schedule(e) => Fifo!Enqueue(e)
  /\ Processed => Fifo!Dequeue

(* No event is lost, duplicated, overwritten or reordered while it waits:  *)
(* the ring implements the bounded FIFO, operation by operation.           *)
ImplementsFifo == Fifo!Spec /\ [][Corresponds]_queueVars

=============================================================================
