----------------------------- MODULE HttpHeaders -----------------------------
(***************************************************************************)
(* The header lines of a request: provider_tx_post puts them together, the *)
(* ports of the examples take them apart.  A text is a sequence of         *)
(* strings of one character; the words in it are short ones.               *)
(***************************************************************************)
EXTENDS Naturals, SequencesExt

CRLF == <<"\r", "\n">>

(* "Content-Type: application/x-binary": a name, a colon, a blank and the  *)
(* type, of which only the length is kept.                                 *)
ContentType == [i \in 1..34 |-> CASE i = 13 -> ":" [] i = 14 -> " " [] OTHER -> "t"]

HEADER_SIZE == 256   \* of the buffer on the stack, with the end of the string
HEADER_LIMIT == 128  \* in the assertion about what sprintf has written

(* The header of a post; NULL and the empty text are the same here.  The   *)
(* assertion comes after the text is written, and traps; a text that does  *)
(* not fit the buffer has overwritten the stack before.                    *)
post_header(header) ==
  LET text == IF header = <<>> THEN ContentType ELSE header \o CRLF \o ContentType
  IN  [ret |-> CASE Len(text) < HEADER_LIMIT -> "SUCCESS"
                 [] Len(text) \in HEADER_LIMIT..(HEADER_SIZE - 1) -> "ASSERT_FAILS"
                 [] OTHER -> "UNDEFINED",
       text |-> text]

(* http_post of http_curl.c: the text is cut at each line end. *)
Bug_keeps_the_newline(i) == i + 1

next_line(i) == i + 2

ends_at(text, i) == i < Len(text) /\ text[i] = "\r" /\ text[i + 1] = "\n"

CutAt(s, i) ==
  IF ends_at(s.text, i)
    THEN [s EXCEPT !.lines = Append(@, SubSeq(s.text, s.first, i - 1)), !.first = next_line(i)]
    ELSE s

curl_post_lines(text) ==
  LET s == FoldLeft(CutAt, [text |-> text, lines |-> <<>>, first |-> 1], [i \in 1..Len(text) |-> i])
  IN  Append(s.lines, SubSeq(text, s.first, Len(text)))

(* http_get of http_curl.c: the text is one line. *)
curl_get_lines(text) == <<text>>

(* set_headers of http_esp.c, for both methods.  A text without a colon is *)
(* read beyond its end.  The first colon is overwritten with the end of    *)
(* the string that the value is then looked for in: the value is empty and *)
(* nothing follows.                                                        *)
esp32_headers(text) ==
  LET colon == SelectInSeq(text, LAMBDA c : c = ":")
  IN  CASE text = <<>> -> [ret |-> "SUCCESS", headers |-> <<>>]
        [] text # <<>> /\ colon = 0 -> [ret |-> "FAULT", headers |-> <<>>]
        [] OTHER -> [ret |-> "SUCCESS",
                     headers |-> <<[key |-> SubSeq(text, 1, colon - 1), value |-> <<>>]>>]

=============================================================================
