------------------------------ MODULE TxEncoding ------------------------------
(***************************************************************************)
(* The MessagePack encoding of a transaction by encode_tx of               *)
(* src/algorand/algorand_transaction.c: which fields, in which order, how  *)
(* many of them the map announces and how long the payload gets.           *)
(*                                                                         *)
(* A field is its key and the bytes its value takes.  Of a number only     *)
(* these bytes are kept: 1, 2, 3, 5 or 9.  A transaction has a type, "pay" *)
(* or "appl", a note (its length, or NoNote), amount, app_id, fee,         *)
(* first_valid, last_valid (numbers), whether it opts in, and the values   *)
(* passed to the application, each an "integer", a "byteslice" or "none";  *)
(* it has room for APPS_KV_MAX_COUNT of them, and cannot have a note.      *)
(***************************************************************************)
EXTENDS Integers, SequencesExt, AppValues

TX_PAYLOAD_MAX_LENGTH == 512 + 128
OPTIONAL_TX_FIELDS_MAX_SIZE_BYTES == 128
ARGUMENT_SIZE == APPS_KV_SLICE_MAX_SIZE
SIGNATURE_LENGTH == 64
ADDRESS_LENGTH == 32

NoNote == -1

NumberSizes == {1, 2, 3, 5, 9}

IsPay(tx) == tx.type = "pay"

IsAppl(tx) == tx.type = "appl"

IsTransaction(tx) ==
  /\ tx.type \in {"pay", "appl"}
  /\ tx.note \in Nat \cup {NoNote}
  /\ {tx.amount, tx.app_id, tx.fee, tx.first_valid, tx.last_valid} \subseteq NumberSizes
  /\ tx.opt_in \in BOOLEAN
  /\ tx.values \in Seq({"integer", "byteslice", "none"}) /\ Len(tx.values) <= APPS_KV_MAX_COUNT
  /\ IsAppl(tx) => tx.note = NoNote

(* What mpack writes: a string of n bytes, binary data of n bytes, the     *)
(* start of an array or map of n elements.                                 *)
StrSize(n) == IF n < 32 THEN 1 + n ELSE 2 + n
BinSize(n) == IF n < 256 THEN 2 + n ELSE 3 + n
StartSize(n) == IF n < 16 THEN 1 ELSE 3

Field(key, size) == [key |-> key, size |-> size]

When(condition, field) == IF condition THEN <<field>> ELSE <<>>

(* How many characters the keys and types have.                            *)
TextLength ==
  [amt |-> 3, apaa |-> 4, apan |-> 4, apid |-> 4, fee |-> 3, fv |-> 2, gen |-> 3, gh |-> 2, lv |-> 2,
   note |-> 4, rcv |-> 3, snd |-> 3, type |-> 4, pay |-> 3, appl |-> 4]

AddField(n, f) == n + StrSize(TextLength[f.key]) + f.size

FieldsSize(fields) == FoldLeft(AddField, 0, fields)

-----------------------------------------------------------------------------
(* params of transaction_pay: a longer text is refused. *)
Bug_notes_not_limited(note) == TRUE

params_fit(note) == note = NoNote \/ note <= OPTIONAL_TX_FIELDS_MAX_SIZE_BYTES

(* How many fields the map announces, computed before any is written.      *)
Bug_opt_in_not_counted(tx) ==
  7 + (IF IsPay(tx) THEN 2 ELSE 1 + (IF tx.values # <<>> THEN 1 ELSE 0))
    + (IF tx.note # NoNote THEN 1 ELSE 0)

txn_map_element_count(tx) ==
  7 + (IF IsPay(tx) THEN 2
       ELSE 1 + (IF tx.opt_in THEN 1 ELSE 0) + (IF tx.values # <<>> THEN 1 ELSE 0))
    + (IF tx.note # NoNote THEN 1 ELSE 0)

(* The arguments that are written, as the value each is taken from: a byte *)
(* slice is always that of the first value, an unknown type writes nothing.*)
Argument(values, i) ==
  CASE values[i] = "integer" -> <<i>>
    [] values[i] = "byteslice" -> <<1>>
    [] OTHER -> <<>>

app_args(values) == FlattenSeq([i \in 1..Len(values) |-> Argument(values, i)])

app_args_announced(values) == Len(values)

app_args_size(values) ==
  StartSize(app_args_announced(values)) + Len(app_args(values)) * BinSize(ARGUMENT_SIZE)

Bug_arguments_after_opt_in(tx) ==
  When(tx.opt_in, Field("apan", 1)) \o When(tx.values # <<>>, Field("apaa", app_args_size(tx.values)))

app_call_options(tx) ==
  When(tx.values # <<>>, Field("apaa", app_args_size(tx.values))) \o When(tx.opt_in, Field("apan", 1))

(* The fields of the "txn" map, in the order in which they are written.    *)
txn_fields(tx) ==
  When(IsPay(tx), Field("amt", tx.amount))
  \o (IF IsAppl(tx) THEN app_call_options(tx) ELSE <<>>)
  \o When(IsAppl(tx), Field("apid", tx.app_id))
  \o <<Field("fee", tx.fee), Field("fv", tx.first_valid), Field("gen", StrSize(12)),
       Field("gh", BinSize(32)), Field("lv", tx.last_valid)>>
  \o When(tx.note # NoNote, Field("note", BinSize(tx.note)))
  \o When(IsPay(tx), Field("rcv", BinSize(ADDRESS_LENGTH)))
  \o <<Field("snd", BinSize(ADDRESS_LENGTH)), Field("type", StrSize(TextLength[tx.type]))>>

(* The root map, its signature and the key of the map that gets signed.    *)
payload_header_length == StartSize(2) + StrSize(3) + BinSize(SIGNATURE_LENGTH) + StrSize(3)

payload_body_length(tx) == StartSize(txn_map_element_count(tx)) + FieldsSize(txn_fields(tx))

(* mpack refuses to write more than its buffer has. *)
encode_tx(tx) ==
  [ret |-> IF payload_header_length + payload_body_length(tx) <= TX_PAYLOAD_MAX_LENGTH
             THEN "SUCCESS" ELSE "INTERNAL",
   announced |-> txn_map_element_count(tx),
   fields |-> txn_fields(tx),
   body |-> payload_body_length(tx)]

(* encode_tx_replace_signature: the reader is given as many bytes as the   *)
(* body has, from the start of the header; the signature must be in them.  *)
signature_end == StartSize(2) + StrSize(3) + BinSize(SIGNATURE_LENGTH)

signature_found(body) == body >= signature_end

=============================================================================
