-------------------------------- MODULE Base64 --------------------------------
(***************************************************************************)
(* src/base64.c: genesis hashes and names of application variables.  Bytes *)
(* are numbers below 256, characters strings of one character.             *)
(***************************************************************************)
EXTENDS Integers, SequencesExt

Byte == 0..255

B64Digits ==
  <<"A", "B", "C", "D", "E", "F", "G", "H", "I", "J", "K", "L", "M",
    "N", "O", "P", "Q", "R", "S", "T", "U", "V", "W", "X", "Y", "Z",
    "a", "b", "c", "d", "e", "f", "g", "h", "i", "j", "k", "l", "m",
    "n", "o", "p", "q", "r", "s", "t", "u", "v", "w", "x", "y", "z",
    "0", "1", "2", "3", "4", "5", "6", "7", "8", "9", "+", "/">>

NO_MEM == [ret |-> "NO_MEM", data |-> <<>>]

prv_get_char_from_word(word, offset) == B64Digits[1 + ((word \div 64^offset) % 64)]

(* Three bytes, or the one or two that are left, as four characters. *)
B64Group(input, first) ==
  LET byte(i) == IF first + i <= Len(input) THEN input[first + i] ELSE 0
      triple == byte(0) * 2^16 + byte(1) * 2^8 + byte(2)
      char(offset, i) ==
        IF first + i <= Len(input) THEN prv_get_char_from_word(triple, offset) ELSE "="
  IN  <<char(3, 0), char(2, 0), char(1, 1), char(0, 2)>>

b64_encode(input, output_size) ==
  LET groups == (Len(input) + 2) \div 3
  IN  IF output_size < 4 * groups THEN NO_MEM
      ELSE [ret |-> "SUCCESS",
            data |-> FlattenSeq([g \in 1..groups |-> B64Group(input, 3 * g - 2)])]

(* pr2six: 64 for what is no digit. *)
pr2six(c) == IF Contains(B64Digits, c) THEN SelectInSeq(B64Digits, LAMBDA d : d = c) - 1 ELSE 64

(* A string is read up to the first character that is no digit, its        *)
(* terminator at the latest: the callers pass its length.                  *)
nprbytes(text) ==
  LET other == SelectInSeq(text, LAMBDA c : pr2six(c) = 64)
  IN  IF other = 0 THEN Len(text) ELSE other - 1

(* The byte j = 0, 1, 2 of four digits from first. *)
B64Byte(text, first, j) ==
  LET d(i) == pr2six(text[first + i])
  IN  CASE j = 0 -> d(0) * 4 + d(1) \div 16
        [] j = 1 -> (d(1) * 16 + d(2) \div 4) % 256
        [] j = 2 -> (d(2) * 64 + d(3)) % 256

(* A single digit at the end is ignored. *)
Bug_full_groups_only(n) == (n \div 4) * 3

b64_decoded_length(n) == (n \div 4) * 3 + (IF n % 4 > 1 THEN (n % 4) - 1 ELSE 0)

(* In size_t: a text of one to three characters asks for a buffer of the   *)
(* size of the address space.                                              *)
Bug_asks_for_two_less(length, output_size) == length >= 4 /\ output_size >= (length \div 4) * 3 - 2

b64_has_room(length, output_size) == length >= 4 /\ output_size >= (length \div 4) * 3 - 1

b64_decode(text, output_size) ==
  IF text = <<>> THEN [ret |-> "SUCCESS", data |-> <<>>]
  ELSE IF ~b64_has_room(Len(text), output_size) THEN NO_MEM
  ELSE [ret |-> "SUCCESS",
        data |-> [k \in 1..b64_decoded_length(nprbytes(text)) |->
                    B64Byte(text, 4 * ((k - 1) \div 3) + 1, (k - 1) % 3)]]

BASE64_ENCODE_LEN(n) == 4 * ((n + 2) \div 3)

BASE64_DECODE_MIN_LEN(n) == IF n > 3 THEN (n \div 4) * 3 ELSE 0

=============================================================================
