------------------------------- MODULE Formats -------------------------------
(***************************************************************************)
(* The codecs at work: what the SDK turns into text or bytes on the way to *)
(* the node, and what it makes of the text that comes back.  Each action   *)
(* is one call of the code, from inputs that the API or the node gives it, *)
(* with all the encoding and decoding that it does; call is the last one,  *)
(* with its result.  There is no other state: the codecs keep none.        *)
(***************************************************************************)
EXTENDS ApplicationState, TxEncoding, HttpHeaders, Base32, TLC

CONSTANTS
  Hash(_),       \* sha512_256, of mbedtls: 32 bytes
  PublicKeys,    \* public keys: 32 bytes
  Typos,         \* how a person may write an address ...
  AsTyped(_, _, _),  \* ... and what that makes of its i-th digit
  Datas,         \* bytes to encode
  Names,         \* names of application variables, as bytes
  StateAnswers,  \* what a node may answer about an application, with names for keys
  Transactions,  \* see TxEncoding
  Headers        \* sets of header lines that a provider may ask for

ADDRESS_TEXT_SIZE == 58

(* What may be written for a digit: itself, in either case, or a digit that*)
(* is mistyped for it, anywhere among spaces, line ends and hyphens.       *)
Mistyped == {<<"0", "O">>, <<"1", "L">>, <<"8", "B">>}

Alike(digit) ==
  {digit} \cup {LowerCase[i] : i \in {j \in 1..26 : B32Digits[j] = digit}}
          \cup {pair[1] : pair \in {p \in Mistyped : p[2] = digit}}

Around == {" ", "\t", "\r", "\n", "-"}

IsTyped(piece, digit) ==
  \E n \in 1..Len(piece) :
    /\ piece[n] \in Alike(digit)
    /\ \A i \in 1..Len(piece) : i # n => piece[i] \in Around

(* What a node may answer, see ApplicationState. *)
AnswerKinds == {"no_json", "no_params", "no_globals", "globals"}

GlobalValues ==
  {Absent} \cup [type : {"other"}]
           \cup [type : {"integer", "byteslice"}, content : {Absent} \cup Nat]

GlobalElements == [key : {Absent} \cup Seq(Byte), value : GlobalValues]

(* A header line is not empty and has no line end. *)
IsLine(line) == line # <<>> /\ \A i \in 1..Len(line) : ~ends_at(line, i)

ASSUME FormatsAssumption ==
  /\ \A k \in PublicKeys :
       /\ k \in Seq(Byte) /\ Len(k) = ADDRESS_LENGTH
       /\ Hash(k) \in Seq(Byte) /\ Len(Hash(k)) = 32
  /\ \A t \in Typos, i \in 1..ADDRESS_TEXT_SIZE, d \in ToSet(B32Digits) :
       AsTyped(t, i, d) \in Seq(STRING) /\ IsTyped(AsTyped(t, i, d), d)
  /\ Datas \subseteq Seq(Byte)
  /\ Names \subseteq Seq(Byte)
  /\ StateAnswers \subseteq [kind : AnswerKinds, globals : Seq(GlobalElements)]
  /\ Absent \notin Seq(ToSet(B64Digits) \cup {"="}) /\ Absent \notin Nat
  /\ IntMax \in Nat
  /\ \A tx \in Transactions : IsTransaction(tx)
  /\ \A h \in Headers : h \in Seq(Seq(STRING)) /\ \A i \in 1..Len(h) : IsLine(h[i])

VARIABLE call

Idle == [fn |-> "none"]

Init == call = Idle

Call(fn, in, out) == call = Idle /\ call' = [fn |-> fn, in |-> in, out |-> out]

-----------------------------------------------------------------------------
(* Addresses.                                                              *)

PUBLIC_KEY_CHECKSUM_SIZE == 36

(* from_b32_init: the result of the decoder and the checksum are ignored.  *)
from_b32_init(public_b32) ==
  SubSeq(b32_decode(public_b32, PUBLIC_KEY_CHECKSUM_SIZE).data \o Zeros(ADDRESS_LENGTH),
         1, ADDRESS_LENGTH)

address_of(public_key) ==
  b32_encode(public_key \o SubSeq(Hash(public_key), 29, 32), ADDRESS_TEXT_SIZE)

(* vertices_account_new_from_bin, and the account_new that it ends with.   *)
account_new_from_bin(public_key) ==
  LET public_b32 == address_of(public_key)
  IN  Call("account_new_from_bin", public_key,
           [public_b32 |-> public_b32, public_key |-> from_b32_init(public_b32)])

(* vertices_account_new_from_b32, of an address that somebody typed.       *)
Typed(typo, address) == FlattenSeq([i \in 1..Len(address) |-> AsTyped(typo, i, address[i])])

account_new_from_b32(public_key, typo) ==
  Call("account_new_from_b32", public_key,
       [public_key |-> from_b32_init(Typed(typo, address_of(public_key)))])

(* Encode and decode, with the sizes that the headers give for it.         *)
base32_and_back(data) ==
  LET text == b32_encode(data, BASE32_ENCODE_LEN(Len(data)))
  IN  Call("base32_and_back", data,
           [text |-> text, data |-> b32_decode(text, BASE32_DECODE_MIN_LEN(Len(text))).data])

base64_and_back(data) ==
  LET text == b64_encode(data, BASE64_ENCODE_LEN(Len(data))).data
  IN  Call("base64_and_back", data,
           [text |-> text, data |-> b64_decode(text, BASE64_DECODE_MIN_LEN(Len(text))).data])

(* What a node sends as text is padded, so that the room it asks for is    *)
(* that of b64_encode.                                                     *)
NodeText(data) == b64_encode(data, BASE64_ENCODE_LEN(Len(data))).data

decoded_into(size, text) ==
  LET result == b64_decode(text, size)
  IN  [ret |-> result.ret, data |-> result.data, size |-> size]

(* provider_tx_params_load: the genesis hash, in genesis_hash_b64.         *)
genesis_hash(hash) == Call("genesis_hash", hash, decoded_into(32, NodeText(hash)))

(* A key of parser_application_json. *)
application_key(name) == Call("application_key", name, decoded_into(KEY_STR_SIZE, NodeText(name)))

-----------------------------------------------------------------------------
(* vertices_application_get, with a structure that has values already.     *)
WithText(element) ==
  IF element.key = Absent THEN element ELSE [element EXCEPT !.key = NodeText(element.key)]

EarlierEntry == [name |-> Zeros(APPS_KV_NAME_MAX_LENGTH), is |-> [type |-> "none"]]

Earlier(n) == [i \in 1..n |-> EarlierEntry]

application_get(answer, values) ==
  LET texts == [answer EXCEPT !.globals = [i \in DOMAIN @ |-> WithText(@[i])]]
  IN  Call("application_get", [answer |-> answer, values |-> values],
           parser_application_json(texts, values))

(* transaction_pay and transaction_appl, up to the encoded payload. *)
transaction_new(tx) ==
  IF IsPay(tx) /\ ~params_fit(tx.note)
    THEN Call("transaction_new", tx, [ret |-> "INVALID_PARAM"])
    ELSE Call("transaction_new", tx, encode_tx(tx))

(* provider_tx_post, and the requests that read, with each of the ports.   *)
AddLine(text, line) == IF text = <<>> THEN line ELSE text \o CRLF \o line

Joined(lines) == FoldLeft(AddLine, <<>>, lines)

tx_post(lines) ==
  LET header == post_header(Joined(lines))
  IN  Call("tx_post", lines,
           IF header.ret # "SUCCESS" THEN [ret |-> header.ret]
           ELSE [ret |-> "SUCCESS", unix |-> curl_post_lines(header.text),
                 esp32 |-> esp32_headers(header.text)])

info_get(lines) ==
  Call("info_get", lines,
       [unix |-> curl_get_lines(Joined(lines)), esp32 |-> esp32_headers(Joined(lines))])

(* The next call; after a trap, it is that of a program started again. *)
Return == call # Idle /\ call' = Idle

Next ==
  \/ \E k \in PublicKeys : account_new_from_bin(k)
  \/ \E k \in PublicKeys, t \in Typos : account_new_from_b32(k, t)
  \/ \E d \in Datas : base32_and_back(d)
  \/ \E d \in Datas : base64_and_back(d)
  \/ \E k \in PublicKeys : genesis_hash(k)
  \/ \E n \in Names : application_key(n)
  \/ \E a \in StateAnswers, n \in 0..APPS_KV_MAX_COUNT : application_get(a, Earlier(n))
  \/ \E tx \in Transactions : transaction_new(tx)
  \/ \E h \in Headers : tx_post(h) \/ info_get(h)
  \/ Return

Spec == Init /\ [][Next]_call

-----------------------------------------------------------------------------
(* An account made from a public key has this key again after the detour   *)
(* through its address, which has 58 digits and no padding: the checksum   *)
(* takes part in the encoding, is not verified and must not get into the   *)
(* key (vertices_account_new_from_bin, from_b32_init).                     *)
AddressSurvives ==
  call.fn = "account_new_from_bin" =>
    /\ call.out.public_key = call.in
    /\ Len(call.out.public_b32) = ADDRESS_TEXT_SIZE
    /\ "=" \notin ToSet(call.out.public_b32)

(* An address is understood in either case, with separators, and with the  *)
(* digits that people mistake for letters: "Deal with commonly mistyped    *)
(* characters", b32_decode.                                                *)
AddressIsUnderstood ==
  call.fn = "account_new_from_b32" => call.out.public_key = call.in

(* The sizes in base32.h and base64.h suffice, for every length modulo the *)
(* size of a group, to get back exactly what was encoded.                  *)
SizesSuffice ==
  call.fn \in {"base32_and_back", "base64_and_back"} =>
    /\ call.out.data = call.in
    /\ Len(call.out.text) % (IF call.fn = "base32_and_back" THEN 8 ELSE 4) = 0

(* A text that a node pads is decoded completely or refused, and never     *)
(* written past the end of its buffer, although b64_decode asks for one    *)
(* byte less than the text can hold.                                       *)
DecodedFits ==
  call.fn \in {"genesis_hash", "application_key"} =>
    \/ call.out.ret = "NO_MEM" /\ Len(call.in) >= call.out.size
    \/ call.out.data = call.in /\ Len(call.in) <= call.out.size

(* The maps and arrays of a payload have as many elements as they announce *)
(* (the count is computed in one place of encode_tx and the fields are     *)
(* written in another), for all types of values that the API has.          *)
MapsAreComplete ==
  call.fn = "transaction_new" /\ call.out.ret = "SUCCESS" =>
    /\ call.out.announced = Len(call.out.fields)
    /\ IsInjective([i \in DOMAIN call.out.fields |-> call.out.fields[i].key])
    /\ "none" \notin ToSet(call.in.values) =>
         Len(app_args(call.in.values)) = app_args_announced(call.in.values)

Alphabet ==
  <<"amt", "apaa", "apan", "apid", "fee", "fv", "gen", "gh", "lv", "note", "rcv", "snd", "type">>

(* Where a key is in the alphabetical order of all of them. *)
Rank(key) == SelectInSeq(Alphabet, LAMBDA k : k = key)

(* The keys come in the order of the alphabet, in which the network wants  *)
(* them in what is signed.                                                 *)
FieldsAreSorted ==
  call.fn = "transaction_new" /\ call.out.ret = "SUCCESS" =>
    \A i, j \in DOMAIN call.out.fields :
      i < j => Rank(call.out.fields[i].key) < Rank(call.out.fields[j].key)

(* Every transaction that the API lets through fits in the payload, and    *)
(* its signature is found again: encode_tx_replace_signature looks at only *)
(* as many bytes of the header as the body has.                            *)
PayloadIsUsable ==
  call.fn = "transaction_new" /\ call.out.ret # "INVALID_PARAM" =>
    call.out.ret = "SUCCESS" /\ signature_found(call.out.body)

(* The elements with a key. *)
AddKeyed(keyed, element) == IF element.key = Absent THEN keyed ELSE Append(keyed, element)

Keyed(elements) == FoldLeft(AddKeyed, <<>>, elements)

(* As long as there are places for the elements that get written, with the *)
(* first incomplete one, whose name is: the entries that are counted are   *)
(* complete, in the order of the answer, also when the parsing stops in    *)
(* the middle of it, and names (cut, as long as they fit the decoder's     *)
(* buffer) and numbers (within an int) are right.                          *)
StatesAreRead ==
  call.fn = "application_get" =>
    LET given == Len(call.in.values)
        keyed == Keyed(call.in.answer.globals)
        stop == SelectInSeq(keyed, LAMBDA e : Incomplete(e.value))
        written == IF call.in.answer.kind # "globals" THEN 0 ELSE IF stop = 0 THEN Len(keyed) ELSE stop
        read == IF call.in.answer.kind # "globals" \/ stop = 0 THEN written ELSE stop - 1
    IN  IF given + written > APPS_KV_MAX_COUNT THEN call.out.ret = "UNDEFINED"
        ELSE /\ call.out.ret # "UNDEFINED"
             /\ Len(call.out.values) = given + read
             /\ SubSeq(call.out.values, 1, given) = call.in.values
             /\ \A i \in 1..read :
                  LET entry == call.out.values[given + i]
                      name == keyed[i].key
                      value == keyed[i].value
                  IN  /\ Len(name) < KEY_STR_SIZE => entry.name = SubSeq(name \o Zeros(8), 1, 8)
                      /\ value.type = "integer" /\ value.content <= IntMax =>
                           entry.is = [type |-> "integer", value_uint |-> value.content]

(* With the port of the unix example all header lines of the provider and  *)
(* the type of the content are sent with a transaction, each whole, when   *)
(* the provider's text has at most 91 characters.  With a longer one no    *)
(* transaction is posted: what is asserted is half of the buffer.          *)
HeadersArrive ==
  call.fn = "tx_post" =>
    IF Len(Joined(call.in)) <= 91
      THEN call.out.ret = "SUCCESS" /\ call.out.unix = Append(call.in, ContentType)
      ELSE call.out.ret # "SUCCESS"

=============================================================================
