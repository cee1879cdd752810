-------------------------------- MODULE Base32 --------------------------------
(***************************************************************************)
(* src/base32.c: addresses as text.  Bytes are numbers below 256,          *)
(* characters strings of one character.  Both functions get the room that  *)
(* there is for their result and return how much they used.                *)
(***************************************************************************)
EXTENDS Integers, SequencesExt

B32Digits ==
  <<"A", "B", "C", "D", "E", "F", "G", "H", "I", "J", "K", "L", "M", "N", "O", "P",
    "Q", "R", "S", "T", "U", "V", "W", "X", "Y", "Z", "2", "3", "4", "5", "6", "7">>

LowerCase ==
  <<"a", "b", "c", "d", "e", "f", "g", "h", "i", "j", "k", "l", "m",
    "n", "o", "p", "q", "r", "s", "t", "u", "v", "w", "x", "y", "z">>

(* The accumulator is an int of 32 bits that overflows; no bit above the   *)
(* twelfth is ever read again, sixteen are kept here.                      *)
Bug_keeps_a_byte(x) == x % 2^8

b32_buffer(x) == x % 2^16

(* The loop of b32_encode takes in a byte, or padding bits after the last  *)
(* one, when less than five bits are left, and puts out a digit.           *)
B32Filled(s) ==
  CASE s.bitsLeft >= 5 -> s
    [] s.bitsLeft < 5 /\ s.next <= Len(s.data) ->
         [s EXCEPT !.buffer = b32_buffer(@ * 2^8 + s.data[s.next]), !.next = @ + 1, !.bitsLeft = @ + 8]
    [] OTHER ->
         [s EXCEPT !.buffer = b32_buffer(@ * 2^(5 - s.bitsLeft)), !.bitsLeft = 5]

B32Digit(s) == B32Digits[((s.buffer \div 2^(s.bitsLeft - 5)) % 32) + 1]

B32PutOut(s) == [s EXCEPT !.bitsLeft = @ - 5, !.encoded = Append(@, B32Digit(s))]

(* One round, of as many as the buffer has room for. *)
B32EncodeStep(s, i) ==
  IF s.bitsLeft > 0 \/ s.next <= Len(s.data) THEN B32PutOut(B32Filled(s)) ELSE s

(* How many '=' follow count digits in a buffer of output_size.            *)
b32_padding(count, output_size) ==
  IF count % 8 = 0 \/ count >= output_size THEN 0
  ELSE IF 8 - (count % 8) < output_size - count THEN 8 - (count % 8) ELSE output_size - count

(* The loop ends when the buffer is full: the rest of the data is dropped. *)
b32_encode(data, output_size) ==
  LET start == [data |-> data, buffer |-> data[1], next |-> 2, bitsLeft |-> 8, encoded |-> <<>>]
      digits == FoldLeft(B32EncodeStep, start, [i \in 1..output_size |-> i]).encoded
  IN  IF data = <<>> THEN <<>>
      ELSE digits \o [i \in 1..b32_padding(Len(digits), output_size) |-> "="]

DigitIndex(digits, c) == SelectInSeq(digits, LAMBDA d : d = c) - 1

(* Digits are read in either case, and three that look like others as them.*)
B32Value ==
  [c \in ToSet(B32Digits) \cup ToSet(LowerCase) \cup {"0", "1", "8"} |->
     CASE c \in ToSet(B32Digits) -> DigitIndex(B32Digits, c)
       [] c \in ToSet(LowerCase) -> DigitIndex(LowerCase, c)
       [] c = "0" -> 14
       [] c = "1" -> 11
       [] c = "8" -> 1]

Bug_separators_are_digits == {}

Separators == {" ", "\t", "\r", "\n", "-"}

(* One character of b32_decode: once the buffer is full, a '=' was read or *)
(* the result is an error, nothing more is read.                           *)
B32DecodeStep(s, c) ==
  IF s.end \/ Len(s.decoded) = s.output_size \/ c \in Separators THEN s
  ELSE IF c = "=" THEN [s EXCEPT !.end = TRUE]
  ELSE IF c \notin DOMAIN B32Value THEN [s EXCEPT !.end = TRUE, !.ret = "INVALID_PARAM"]
  ELSE LET buffer == b32_buffer(s.buffer * 2^5 + B32Value[c])
           bits == s.bitsLeft + 5
       IN  IF bits < 8 THEN [s EXCEPT !.buffer = buffer, !.bitsLeft = bits]
           ELSE [s EXCEPT !.buffer = buffer, !.bitsLeft = bits - 8,
                          !.decoded = Append(@, (buffer \div 2^(bits - 8)) % 2^8)]

(* The size of the result is updated on success only. *)
b32_decode(encoded, output_size) ==
  LET start == [output_size |-> output_size, buffer |-> 0, bitsLeft |-> 0, decoded |-> <<>>,
                end |-> FALSE, ret |-> "SUCCESS"]
      s == FoldLeft(B32DecodeStep, start, encoded)
  IN  [ret |-> s.ret, data |-> s.decoded,
       size |-> IF s.ret = "SUCCESS" THEN Len(s.decoded) ELSE output_size]

(* The sizes that base32.h tells a caller to use. *)
BASE32_ENCODE_LEN(n) ==
  LET digits == (n * 8 + 4) \div 5
  IN  IF digits % 8 = 0 THEN digits ELSE digits + 8 - (digits % 8)

BASE32_DECODE_MIN_LEN(n) == IF n > 0 THEN (n * 5) \div 8 + 1 ELSE 0

=============================================================================
