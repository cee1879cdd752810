------------------------------ MODULE MCFormats ------------------------------
(***************************************************************************)
(* The codecs for TLC: every residue of a length, every sign of a field,   *)
(* lengths on both sides of each limit.                                    *)
(***************************************************************************)
EXTENDS Formats

Bytes(n, first, step) == [i \in 1..n |-> (first + step * i) % 256]

(* Any function to 32 bytes will do. *)
SomeHash(k) == [i \in 1..32 |-> (k[i] * 7 + k[1 + (i % 32)] + 13 * i) % 256]

SomeKeys == {Bytes(32, 0, 0), Bytes(32, 255, 0), Bytes(32, 3, 7), Bytes(32, 200, 91)}

SomeDatas == {Bytes(n, f, s) : n \in 0..20, f \in {0, 255}, s \in {0, 85}}

SomeNames == {Bytes(n, 64, 1) : n \in 1..18} \cup {Bytes(n, 255, 0) : n \in 13..17}

(* An address in lower case, with digits for letters, or in groups. *)
SomeTypos == {"none", "lower", "digits", "groups"}

Replaced(c, from, to) == IF c \in ToSet(from) THEN to[SelectInSeq(from, LAMBDA d : d = c)] ELSE c

TypeText(typo, i, c) ==
  CASE typo = "lower" -> <<Replaced(c, SubSeq(B32Digits, 1, 26), LowerCase)>>
    [] typo = "digits" -> <<Replaced(c, <<"O", "L", "B">>, <<"0", "1", "8">>)>>
    [] typo = "groups" /\ i = ADDRESS_TEXT_SIZE -> <<c, "\r", "\n">>
    [] typo = "groups" /\ i # ADDRESS_TEXT_SIZE ->
         IF i % 4 = 0 THEN <<c, "-">> ELSE IF i % 7 = 0 THEN <<" ", "\t", c>> ELSE <<c>>
    [] OTHER -> <<c>>

Tx(type, note, n, opt_in, values) ==
  [type |-> type, note |-> note, amount |-> n, app_id |-> n, fee |-> 3, first_valid |-> n,
   last_valid |-> 5, opt_in |-> opt_in, values |-> values]

SomeTransactions ==
  {Tx("pay", note, n, FALSE, <<>>) : note \in {NoNote, 0, 1, 24, 127, 128, 129, 600}, n \in {1, 2, 3, 5, 9}}
  \cup {Tx("appl", NoNote, n, o, v) :
          n \in {1, 9}, o \in BOOLEAN,
          v \in SeqOf({"integer", "byteslice", "none"}, 2)
                \cup {[i \in 1..APPS_KV_MAX_COUNT |-> "integer"]}}

Line(c, n) == <<c, ":">> \o [i \in 1..n |-> c]

SomeHeaders == {<<>>, <<Line("x", 1)>>, <<Line("x", 0), Line("y", 2)>>,
                <<Line("x", 1), Line("y", 1), Line("z", 1)>>}
  \cup {<<Line("x", n)>> : n \in {89, 90, 217, 218}}          \* texts of 91, 92, 219 and 220
  \cup {<<Line("x", 40), Line("y", n)>> : n \in {45, 46}}     \* of 91 and 92, in two lines

Values ==
  {Absent, [type |-> "other"], [type |-> "integer", content |-> 7], [type |-> "integer", content |-> 20],
   [type |-> "integer", content |-> Absent], [type |-> "byteslice", content |-> 3],
   [type |-> "byteslice", content |-> 12]}

Elements == {[key |-> k, value |-> v] : k \in {Absent, Bytes(3, 64, 1), Bytes(8, 64, 2), Bytes(17, 64, 1)},
                                        v \in Values}

Number == [key |-> Bytes(3, 64, 1), value |-> [type |-> "integer", content |-> 7]]

SomeAnswers ==
  {[kind |-> "no_json", globals |-> <<>>], [kind |-> "no_params", globals |-> <<>>],
   [kind |-> "no_globals", globals |-> <<>>], [kind |-> "globals", globals |-> <<>>]}
  \cup {[kind |-> "globals", globals |-> <<e>>] : e \in Elements}
  \cup {[kind |-> "globals", globals |-> <<e, f>>] : e \in Elements, f \in Elements}
  \cup {[kind |-> "globals", globals |-> [i \in 1..n |-> IF i = j THEN f ELSE Number]] :
          n \in 7..9, j \in {7, 8, 9}, f \in {Number, [Number EXCEPT !.value = Absent]}}

=============================================================================
