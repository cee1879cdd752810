--------------------------- MODULE ApplicationState ---------------------------
(***************************************************************************)
(* The global state of an application, as parser_application_json of       *)
(* src/algorand/algorand_parser.c reads it from the answer of a node.      *)
(*                                                                         *)
(* An answer has a kind: "no_json", "no_params", "no_globals" or "globals",*)
(* the last with the elements of "global-state".  An element has a key, a  *)
(* text in Base64 or Absent, and a value, Absent or its type with what     *)
(* belongs to it, which may be Absent too: the number of an "integer", the *)
(* length of a "byteslice"; "other" is any other type or none.             *)
(***************************************************************************)
EXTENDS Integers, Base64, AppValues

CONSTANTS
  IntMax,  \* the greatest number that cJSON's valueint holds
  Absent   \* what an answer does not have, or not with the expected type

KEY_STR_SIZE == 16

Zeros(n) == [i \in 1..n |-> 0]

(* What key_str holds: the result of the decoder is ignored. *)
key_str(text) ==
  SubSeq(b64_decode(text, KEY_STR_SIZE).data \o Zeros(KEY_STR_SIZE), 1, KEY_STR_SIZE)

name_of(text) == SubSeq(key_str(text), 1, APPS_KV_NAME_MAX_LENGTH)

valueint(n) == IF n > IntMax THEN IntMax ELSE n

(* The type and the value that an entry gets; a byte slice is the text as  *)
(* it is, cut, under the type of an integer.  Another type stores nothing. *)
stored_value(value) ==
  CASE value.type = "integer" -> [type |-> "integer", value_uint |-> valueint(value.content)]
    [] value.type = "byteslice" ->
         [type |-> "integer", slice |-> IF value.content > APPS_KV_SLICE_MAX_SIZE
                                          THEN APPS_KV_SLICE_MAX_SIZE ELSE value.content]
    [] OTHER -> [type |-> "none"]

Incomplete(value) ==
  IF value = Absent THEN TRUE ELSE value.type # "other" /\ value.content = Absent

Entry(element) == [name |-> name_of(element.key), is |-> stored_value(element.value)]

(* One element: without a key it is skipped, an incomplete value ends the  *)
(* parsing.  The count is that of the caller's structure, which is not     *)
(* reset.  The name is written before the value is looked at and no place  *)
(* is checked: with all of them taken the writes go past the structure,    *)
(* and nothing is said of what happens from there on.                      *)
Full(s) == Len(s.values) >= APPS_KV_MAX_COUNT

Bug_counts_what_it_drops(s, element) ==
  IF s.ret # "SUCCESS" \/ element.key = Absent THEN s
  ELSE IF Full(s) THEN [s EXCEPT !.ret = "UNDEFINED"]
  ELSE IF Incomplete(element.value)
    THEN [s EXCEPT !.ret = "NOT_FOUND",
                   !.values = Append(@, [name |-> name_of(element.key), is |-> [type |-> "none"]])]
    ELSE [s EXCEPT !.values = Append(@, Entry(element))]

parse_global(s, element) ==
  IF s.ret # "SUCCESS" \/ element.key = Absent THEN s
  ELSE IF Full(s) THEN [s EXCEPT !.ret = "UNDEFINED"]
  ELSE IF Incomplete(element.value) THEN [s EXCEPT !.ret = "NOT_FOUND"]
  ELSE [s EXCEPT !.values = Append(@, Entry(element))]

(* values[0 .. count - 1] of global_states, before and after. *)
parser_application_json(answer, values) ==
  LET start == [ret |-> "SUCCESS", values |-> values]
  IN  CASE answer.kind = "no_json" -> [start EXCEPT !.ret = "INTERNAL"]
        [] answer.kind = "no_params" -> [start EXCEPT !.ret = "NOT_FOUND"]
        [] answer.kind = "no_globals" -> start
        [] answer.kind = "globals" -> FoldLeft(parse_global, start, answer.globals)

=============================================================================
