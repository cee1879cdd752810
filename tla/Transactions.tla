---------------------------- MODULE Transactions ----------------------------
(***************************************************************************)
(* The life of a transaction: src/algorand/algorand_transaction.c, the     *)
(* event loop of src/vertices.c and the event handler of the application.  *)
(*                                                                         *)
(* transaction_pay and transaction_appl encode a transaction into one of   *)
(* PENDING_TX_COUNT static buffers and queue TX_READY_TO_SIGN.  The        *)
(* handler signs it and queues TX_SENDING; processing that event posts the *)
(* transaction and queues TX_SUCCESS; processing that one frees the        *)
(* buffer.  Everything runs in the thread that calls the API; a call of    *)
(* vertices_event_process is split in its three phases (before, in and     *)
(* after the handler) because the handler may itself call the API.         *)
(*                                                                         *)
(* Definitions named Bug_... are seeded errors: each replaces the           *)
(* definition that follows it when the properties are tried out.           *)
(*                                                                         *)
(* Transactions are numbered in the order in which they are encoded; the   *)
(* signature of a transaction is represented by its number, 0 is the       *)
(* empty signature of the code.                                            *)
(***************************************************************************)
EXTENDS EventQueue, FiniteSets

CONSTANTS
  PendingTxCount,  \* PENDING_TX_COUNT, the number of transaction buffers
  MaxTx,           \* bound: how many transactions are encoded in a behaviour
  Handler,         \* "unix" or "esp32": the handlers of src/examples
  HandlerSubmits,  \* whether the handler may submit transactions too
  IoFailures,      \* whether the files that the unix handler writes may fail to open
  ParamsResults,   \* what provider_tx_params_load may return
  PostResults,     \* how a post may end, see transaction_pending_send
  ApplParams       \* "kv" and "null": the params given to an app call

ASSUME TransactionsAssumption ==
  /\ PendingTxCount \in Nat \ {0}
  /\ Bufid = 0..(PendingTxCount - 1)
  /\ MaxTx \in Nat
  /\ Handler \in {"unix", "esp32"}
  /\ HandlerSubmits \in BOOLEAN
  /\ IoFailures \in BOOLEAN
  /\ ParamsResults \subseteq {"SUCCESS", "OFFLINE", "ERROR"}
  /\ PostResults \subseteq {"OK", "LOST", "FAIL"}
  /\ ApplParams \subseteq {"kv", "null"}

VARIABLES
  pending,          \* m_pending_tx_buffer
  m_tx_buffer_idx,  \* the buffer the next transaction goes to
  pc,               \* who runs: the application, its handler, the end of the event loop
  stopped,          \* whether an assertion or a fault has stopped the program
  ret,              \* what the last call of the API returned
  created,          \* how many transactions have been encoded
  posted,           \* what reached the network
  acked             \* the transactions whose post returned VTC_SUCCESS

txVars == <<pending, m_tx_buffer_idx, pc, stopped, ret, created, posted, acked>>
vars == <<queueVars, txVars>>

-----------------------------------------------------------------------------
TxId == 0..MaxTx

(* signed_transaction_t.  body tells what payload_body_length says: 0, the *)
(* size of the whole payload (set before there is one) or its length.  tx  *)
(* and payload_sig are the content of payload, sig is signature.           *)
SignedTx == [body : {"none", "reserved", "encoded"}, tx : TxId, sig : TxId, payload_sig : TxId]

Zeroed == [body |-> "none", tx |-> 0, sig |-> 0, payload_sig |-> 0]

Ret == {"SUCCESS", "NO_MEM", "INVALID_PARAM", "NOT_FOUND", "ERROR"}

IsFree(b) == pending[b].body = "none"

Ev(t, b) == [type |-> t, bufid |-> b]

Init ==
  /\ QueueInit
  /\ pending = [b \in Bufid |-> Zeroed]
  /\ m_tx_buffer_idx = 0
  /\ pc = "app"
  /\ stopped = FALSE
  /\ ret = "SUCCESS"
  /\ created = 0
  /\ posted = {}
  /\ acked = {}

-----------------------------------------------------------------------------
(* Submitting a transaction.                                               *)

(* vertices_event_schedule: the event is stored, or NO_MEM is returned.    *)
vertices_event_schedule(e) ==
  /\ ret' = IF QueueFull THEN "NO_MEM" ELSE "SUCCESS"
  /\ ScheduleEvent(e) \/ (QueueFull /\ UNCHANGED <<wr_index, evt>>)

(* The application, or its handler while it handles an event. *)
ApiCaller == ~stopped /\ (pc = "app" \/ (pc = "user" /\ HandlerSubmits))

Refused(code) == ret' = code /\ UNCHANGED <<queueVars, pending, m_tx_buffer_idx, created>>

(* The buffer has been marked as taken (its body length is the size of the *)
(* payload) and nothing has been put in it.                                *)
Reserved == [pending EXCEPT ![m_tx_buffer_idx].body = "reserved"]

ParamsNotLoaded ==
  /\ "ERROR" \in ParamsResults
  /\ pending' = Reserved
  /\ ret' = "ERROR"
  /\ UNCHANGED <<queueVars, m_tx_buffer_idx, created>>

ParamsLoaded == ParamsResults \cap {"SUCCESS", "OFFLINE"} # {}

(* encode_tx: the transaction, with an empty signature in its payload.     *)
encode_tx ==
  /\ created' = created + 1
  /\ pending' = [pending EXCEPT ![m_tx_buffer_idx] =
                   [body |-> "encoded", tx |-> created + 1, sig |-> @.sig, payload_sig |-> 0]]

Bug_next_buffer_unbounded == m_tx_buffer_idx + 1

Bug_next_buffer_stays == m_tx_buffer_idx

next_buffer == (m_tx_buffer_idx + 1) % PendingTxCount

EncodeAndSchedule ==
  /\ ParamsLoaded
  /\ created < MaxTx
  /\ encode_tx
  /\ m_tx_buffer_idx' = next_buffer
  /\ vertices_event_schedule(Ev("TX_READY_TO_SIGN", m_tx_buffer_idx))
  /\ UNCHANGED rd_index

Bug_pay_reserves_first(note) ==
  /\ ApiCaller
  /\ \/ ~IsFree(m_tx_buffer_idx) /\ Refused("NO_MEM")
     \/ /\ IsFree(m_tx_buffer_idx) /\ note = "too_long"
        /\ pending' = Reserved /\ ret' = "INVALID_PARAM"
        /\ UNCHANGED <<queueVars, m_tx_buffer_idx, created>>
     \/ IsFree(m_tx_buffer_idx) /\ note = "fits" /\ (ParamsNotLoaded \/ EncodeAndSchedule)
  /\ UNCHANGED <<pc, stopped, posted, acked>>

transaction_pay(note) ==
  /\ ApiCaller
  /\ \/ ~IsFree(m_tx_buffer_idx) /\ Refused("NO_MEM")
     \/ IsFree(m_tx_buffer_idx) /\ note = "too_long" /\ Refused("INVALID_PARAM")
     \/ IsFree(m_tx_buffer_idx) /\ note = "fits" /\ (ParamsNotLoaded \/ EncodeAndSchedule)
  /\ UNCHANGED <<pc, stopped, posted, acked>>

(* encode_tx reads params->count to size its map, and faults on NULL. *)
NullParamsFault ==
  /\ ParamsLoaded
  /\ pending' = Reserved
  /\ stopped' = TRUE
  /\ UNCHANGED <<queueVars, m_tx_buffer_idx, ret, created>>

transaction_appl(params) ==
  /\ ApiCaller
  /\ \/ ~IsFree(m_tx_buffer_idx) /\ Refused("NO_MEM") /\ UNCHANGED stopped
     \/ IsFree(m_tx_buffer_idx) /\ ParamsNotLoaded /\ UNCHANGED stopped
     \/ IsFree(m_tx_buffer_idx) /\ params = "kv" /\ EncodeAndSchedule /\ UNCHANGED stopped
     \/ IsFree(m_tx_buffer_idx) /\ params = "null" /\ NullParamsFault
  /\ UNCHANGED <<pc, posted, acked>>

-----------------------------------------------------------------------------
(* vertices_event_process, before the handler.                             *)

EventIs(t) == event_queue_size # 0 /\ HeadEvent.type = t

HeadBuf == HeadEvent.bufid

ProcessReturns(code) ==
  /\ pc' = "app"
  /\ ret' = code
  /\ UNCHANGED <<queueVars, pending, m_tx_buffer_idx, stopped, created, posted, acked>>

(* The buffers once the signature has been put into payload b. *)
Bug_signature_not_replaced(b) == pending

encode_tx_replace_signature(b) == [pending EXCEPT ![b].payload_sig = pending[b].sig]

Payload(b) == LET p == encode_tx_replace_signature(b)[b] IN [tx |-> p.tx, sig |-> p.payload_sig]

(* provider_tx_post.  OK: the network took the transaction and said so;    *)
(* LOST: it took it and the answer is an error; FAIL: it did not take it.  *)
PostSucceeds(b) ==
  /\ "OK" \in PostResults
  /\ posted' = posted \cup {Payload(b)}
  /\ acked' = acked \cup {pending[b].tx}
  /\ pc' = "user"
  /\ ret' = "SUCCESS"
  \* the result of scheduling the event is ignored
  /\ ScheduleEvent(Ev("TX_SUCCESS", b)) \/ (QueueFull /\ UNCHANGED <<wr_index, evt>>)

Bug_frees_after_failed_post(b) ==
  /\ \/ "LOST" \in PostResults /\ posted' = posted \cup {Payload(b)}
     \/ "FAIL" \in PostResults /\ UNCHANGED posted
  /\ pc' = "user"
  /\ ScheduleEvent(Ev("TX_SUCCESS", b)) \/ (QueueFull /\ UNCHANGED <<wr_index, evt>>)
  /\ UNCHANGED <<acked, ret>>

PostFails(b) ==
  /\ \/ "LOST" \in PostResults /\ posted' = posted \cup {Payload(b)}
     \/ "FAIL" \in PostResults /\ UNCHANGED posted
  /\ ret' = "ERROR"
  /\ UNCHANGED <<wr_index, evt, acked, pc>>

(* A payload that was never encoded has no signature to replace: the       *)
(* VTC_ASSERT of transaction_pending_send stops the program.               *)
NoSignatureInPayload(b) ==
  /\ pending[b].body = "reserved"
  /\ stopped' = TRUE
  /\ UNCHANGED <<queueVars, pending, m_tx_buffer_idx, pc, ret, created, posted, acked>>

transaction_pending_send(b) ==
  \/ IsFree(b) /\ ProcessReturns("INVALID_PARAM")
  \/ NoSignatureInPayload(b)
  \/ /\ pending[b].body = "encoded"
     /\ pending' = encode_tx_replace_signature(b)
     /\ PostSucceeds(b) \/ PostFails(b)
     /\ UNCHANGED <<rd_index, m_tx_buffer_idx, stopped, created>>

PreProcess ==
  /\ ~stopped
  /\ pc = "app"
  /\ \/ event_queue_size = 0 /\ ProcessReturns("SUCCESS")
     \/ EventIs("TX_SENDING") /\ transaction_pending_send(HeadBuf)
     \/ /\ EventIs("TX_READY_TO_SIGN") \/ EventIs("TX_SUCCESS")
        /\ pc' = "user"
        /\ UNCHANGED <<queueVars, pending, m_tx_buffer_idx, stopped, ret, created, posted, acked>>

-----------------------------------------------------------------------------
(* The handler of the application.                                         *)

Sign(b) == [pending EXCEPT ![b].sig = pending[b].tx]

(* A handler that returns an error ends the call: the event stays. *)
HandlerReturns == pc' = IF ret' = "SUCCESS" THEN "post" ELSE "app"

(* The unix example queues a new event, the esp32 example turns the event  *)
(* it got a pointer to (the queue's own entry) into the next one first.    *)
Bug_only_rewrites_the_event ==
  /\ evt' = [evt EXCEPT ![rd_index].type = "TX_SENDING"]
  /\ ret' = "SUCCESS"
  /\ UNCHANGED wr_index

QueueSending ==
  \/ Handler = "unix" /\ vertices_event_schedule(Ev("TX_SENDING", HeadBuf))
  \/ /\ Handler = "esp32"
     /\ LET e == Ev("TX_SENDING", HeadBuf)
            rewritten == [evt EXCEPT ![rd_index] = e]
        IN IF QueueFull
             THEN ret' = "NO_MEM" /\ evt' = rewritten /\ UNCHANGED wr_index
             ELSE /\ ret' = "SUCCESS"
                  /\ evt' = [rewritten EXCEPT ![wr_index] = e]
                  /\ wr_index' = increment_event_index(wr_index)

HandleReadyToSign ==
  /\ ~stopped
  /\ pc = "user"
  /\ EventIs("TX_READY_TO_SIGN")
  /\ \/ IsFree(HeadBuf) /\ ProcessReturns("INVALID_PARAM")
     \/ /\ ~IsFree(HeadBuf)
        /\ pending' = Sign(HeadBuf)
        /\ QueueSending
        /\ HandlerReturns
        /\ UNCHANGED <<rd_index, m_tx_buffer_idx, stopped, created, posted, acked>>

HandlerIgnores ==
  /\ pc' = "post"
  /\ UNCHANGED <<queueVars, pending, m_tx_buffer_idx, stopped, ret, created, posted, acked>>

(* The unix handler writes the transaction to two files. *)
HandleSending ==
  /\ ~stopped
  /\ pc = "user"
  /\ EventIs("TX_SENDING")
  /\ \/ HandlerIgnores
     \/ Handler = "unix" /\ IoFailures /\ ProcessReturns("NOT_FOUND")

HandleSuccess == ~stopped /\ pc = "user" /\ EventIs("TX_SUCCESS") /\ HandlerIgnores

-----------------------------------------------------------------------------
(* vertices_event_process, after the handler.                              *)

Bug_free_keeps_length(b) ==
  pending' = [pending EXCEPT ![b].sig = 0, ![b].payload_sig = 0]

transaction_free(b) == pending' = [pending EXCEPT ![b] = Zeroed]

PostProcess ==
  /\ ~stopped
  /\ pc = "post"
  /\ \/ EventIs("TX_SUCCESS") /\ IsFree(HeadBuf) /\ ProcessReturns("INVALID_PARAM")
     \/ /\ \/ EventIs("TX_SUCCESS") /\ ~IsFree(HeadBuf) /\ transaction_free(HeadBuf)
           \/ event_queue_size # 0 /\ ~EventIs("TX_SUCCESS") /\ UNCHANGED pending
        /\ DropHead
        /\ pc' = "app"
        /\ ret' = "SUCCESS"
        /\ UNCHANGED <<wr_index, evt, m_tx_buffer_idx, stopped, created, posted, acked>>

-----------------------------------------------------------------------------
Submit ==
  \/ \E note \in {"fits", "too_long"} : transaction_pay(note)
  \/ \E params \in ApplParams : transaction_appl(params)

Handle == HandleReadyToSign \/ HandleSending \/ HandleSuccess

vertices_event_process == PreProcess \/ Handle \/ PostProcess

Next == Submit \/ vertices_event_process

Spec == Init /\ [][Next]_vars

(* The documented use of vertices_event_process, "from an infinite loop",  *)
(* with a network that takes a transaction that is posted again and again  *)
(* and a file system that does not fail for ever.                          *)
NetworkTakesTx == PreProcess /\ EventIs("TX_SENDING") /\ pc' = "user"

FilesWritten == HandleSending /\ pc' = "post"

Fairness ==
  /\ WF_vars(vertices_event_process)
  /\ SF_vars(NetworkTakesTx)
  /\ SF_vars(FilesWritten)

FairSpec == Spec /\ Fairness

-----------------------------------------------------------------------------
(* The types of the state. *)
TxTypeOK ==
  /\ QueueTypeOK
  /\ pending \in [Bufid -> SignedTx]
  /\ m_tx_buffer_idx \in Bufid
  /\ pc \in {"app", "user", "post"}
  /\ stopped \in BOOLEAN
  /\ ret \in Ret
  /\ created \in 0..MaxTx
  /\ posted \subseteq [tx : TxId, sig : TxId]
  /\ acked \subseteq TxId

(* The oldest event is superseded when its processing has queued the next  *)
(* event of the same transaction; it is about to be dropped.               *)
Superseded ==
  \/ pc = "user" /\ EventIs("TX_SENDING")
  \/ pc = "post" /\ event_queue_size # 0 /\ ~EventIs("TX_SUCCESS")

LiveSlots == IF Superseded THEN Window \ {rd_index} ELSE Window

(* Every encoded transaction has exactly one event in flight and every     *)
(* event in flight has its transaction: no step of the sign, send, free    *)
(* sequence loses or doubles the event that drives the next one.           *)
OneEventPerTx ==
  /\ \A i, j \in LiveSlots : evt[i].bufid = evt[j].bufid => i = j
  /\ \A b \in Bufid :
       pending[b].body = "encoded" <=> \E i \in LiveSlots : evt[i].bufid = b

(* The event in flight says how far its transaction is: signed before it   *)
(* is sent, acknowledged by the network exactly when it is about to be     *)
(* freed (so that no processing ever posts an acknowledged one again).     *)
EventTellsProgress ==
  \A i \in LiveSlots :
    LET p == pending[evt[i].bufid] IN
      /\ p.tx \in 1..created
      /\ evt[i].type # "TX_READY_TO_SIGN" => p.sig = p.tx
      /\ evt[i].type = "TX_SUCCESS" <=> p.tx \in acked

(* With two event slots more than buffers no event is ever refused: the    *)
(* ignored result of vertices_event_schedule in transaction_pending_send   *)
(* hides nothing.                                                          *)
EventsFit == event_queue_size <= PendingTxCount + 1

(* Whatever reached the network carries the signature that the handler     *)
(* made for that very transaction, although buffers, and the signatures in *)
(* them, are used again and the signature is patched in just before.       *)
PostedIsSigned == \A p \in posted : p.sig = p.tx

(* A transaction that reached the network is not forgotten, even if the    *)
(* answer was lost: until its post is acknowledged it stays in its buffer. *)
PostedIsTracked ==
  \A p \in posted : p.tx \in acked \/ \E b \in Bufid : pending[b].tx = p.tx

(* NO_MEM from transaction_pay means what it says: buffers are taken and   *)
(* freed in the same cyclic order, so if the next one is taken all are.    *)
NoMemMeansFull == ~IsFree(m_tx_buffer_idx) => \A b \in Bufid : ~IsFree(b)

(* "if not 0, indicates that TX is pending" (payload_body_length in        *)
(* vertices_types.h): a transaction has been put in the buffer.            *)
BodyLengthMeansPending == \A b \in Bufid : ~IsFree(b) => pending[b].tx # 0

(* A submission that returns an error leaves no transaction behind.        *)
ErrorLeavesNoTx ==
  [][Submit => (ret' # "SUCCESS" => UNCHANGED <<pending, evt, wr_index>>)]_vars

PendingTx == {pending[b].tx : b \in {c \in Bufid : pending[c].body = "encoded"}}

(* What the SDK promises: see TxOutbox. *)
Outbox == INSTANCE TxOutbox
            WITH Capacity <- PendingTxCount, last <- created,
                 waiting <- PendingTx \ acked, executed <- PendingTx \cap acked

ImplementsOutbox == Outbox!Spec

(* "make sure all the events are processed" (vertices_event_process in     *)
(* vertices.h): the oldest event does not stay the oldest for ever.        *)
EveryEventProcessed ==
  \A i \in Slots : (rd_index = i /\ event_queue_size # 0) ~> rd_index # i

(* Every transaction that was encoded is executed and its buffer freed.    *)
EveryTxRetired ==
  \A t \in 1..MaxTx : created >= t ~> (t \in acked /\ t \notin PendingTx)

=============================================================================
