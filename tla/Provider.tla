------------------------------ MODULE Provider ------------------------------
(***************************************************************************)
(* The provider, src/algorand/algorand_provider.c, on top of the HTTP      *)
(* ports of the two examples: what the SDK knows about the network and how *)
(* long it goes on believing it.                                           *)
(*                                                                         *)
(* Everything it keeps is static: the text of the last answer (rx_buf, one *)
(* buffer for all requests), the node's version with its genesis hash and  *)
(* a counter of updates, and, inside provider_tx_params_load, the last fee *)
(* and first-valid round.  provider_init can be called again, to change    *)
(* the node or the network; it resets some of these.                       *)
(*                                                                         *)
(* A hash or a fee is represented by the network it belongs to, a round by *)
(* its number and its network.  A JSON text is a record of the fields that *)
(* the provider looks for.                                                 *)
(*                                                                         *)
(* Definitions named Bug_... are seeded errors: each replaces the          *)
(* definition that follows it when the properties are tried out.           *)
(***************************************************************************)
EXTENDS Naturals

CONSTANTS
  Nets,        \* the networks the application may choose from
  None,        \* a field that is missing, a value that was never set (zero)
  NoJson,      \* a text that is not JSON: empty, half a text, MessagePack
  Long,        \* a string that is longer than the code has room for
  MaxRound,    \* bound: the rounds that a network reaches
  MaxPosts,    \* bound: how many transactions are posted
  Ports,       \* which HTTP ports: "curl" (unix example), "esp32"
  Chunked      \* whether nodes may answer with a chunked response

ASSUME ProviderAssumption ==
  /\ {None, NoJson, Long} \cap Nets = {}
  /\ None # NoJson /\ None # Long
  /\ None \notin [net : Nets, round : Nat]
  /\ MaxRound \in Nat
  /\ MaxPosts \in Nat
  /\ Ports \subseteq {"curl", "esp32"}
  /\ Chunked \in BOOLEAN

VARIABLES
  port,           \* the HTTP port that the program is linked with
  net,            \* the network of m_provider.provider, None before provider_init
  round,          \* the last round of each network
  rx_buf,         \* the text of the last answer
  version,        \* m_provider.version
  m_min_fee,      \* static in provider_tx_params_load
  m_first_valid,  \* static in provider_tx_params_load
  client,         \* the method that the HTTP handle remembers, "none" without a handle
  request,        \* the last request: the method asked for and the method sent
  last,           \* the last call: its name and its result
  tx,             \* what provider_tx_params_load, if it was the last call, left in the transaction
  posts,          \* how many transactions have been posted
  tx_id,          \* the id that provider_tx_post, if it was the last call, stored
  versioned,      \* history: a version was fetched since provider_init
  loaded,         \* history: transaction parameters were fetched since provider_init
  dropped,        \* history: an answer was dropped by the port
  newest          \* history: the newest first-valid round handed out for each network

httpVars == <<rx_buf, client, request, dropped>>
cacheVars == <<version, m_min_fee, m_first_valid>>
txVars == <<tx, posts, tx_id>>
histVars == <<versioned, loaded, newest>>
vars == <<port, net, round, httpVars, cacheVars, last, txVars, histVars>>

-----------------------------------------------------------------------------
(* The texts.                                                              *)
Rounds == [net : Nets, round : 1..(MaxRound + 1)]

Json ==
  [genesis_id : Nets \cup {None, Long},
   genesis_hash_b64 : Nets \cup {None, Long},
   build : {None, "nonzero", "with_zero"},
   min_fee : Nets \cup {None},
   last_round : Rounds \cup {None},
   txId : (1..MaxPosts) \cup {None, Long}]

(* JSON without any field the code knows: "/health", error messages. *)
OtherJson ==
  [genesis_id |-> None, genesis_hash_b64 |-> None, build |-> None,
   min_fee |-> None, last_round |-> None, txId |-> None]

(* What the node answers.  A version has three numbers: one may be zero.   *)
(* Name or hash may be too long.                                           *)
Version(name, hash, build) ==
  [OtherJson EXCEPT !.genesis_id = name, !.genesis_hash_b64 = hash, !.build = build]

VersionTexts ==
  {Version(net, net, "nonzero"), Version(net, net, "with_zero"),
   Version(Long, net, "nonzero"), Version(net, Long, "nonzero")}

(* last_round stands for the answer's last-round plus one, the first round *)
(* in which a new transaction is valid.                                    *)
ParamsTexts ==
  {[OtherJson EXCEPT !.genesis_hash_b64 = h, !.min_fee = net,
                     !.last_round = [net |-> net, round |-> round[net] + 1]] :
     h \in {net, None, Long}}

IdTexts(t) == {[OtherJson EXCEPT !.txId = i] : i \in {t, Long}}

-----------------------------------------------------------------------------
(* The HTTP ports.                                                         *)

(* The first chunk of an answer is stored at the start of rx_buf, because  *)
(* every request sets response_buffer.size to zero.                        *)
Bug_received_appends(text) == IF rx_buf \in Json THEN rx_buf ELSE text

response_payload_callback(text) == text

(* How a request may end.  The esp32 port drops chunked responses, the     *)
(* request succeeds all the same.  A failed request may have received an   *)
(* error message, a part of the text or nothing.  The esp32 port makes its *)
(* handle for the first request; when it cannot, nothing is sent.          *)
Outcome(err, texts, drops) == [err : {err}, rx : texts, drops : {drops}]

Answered(texts) == Outcome("SUCCESS", {response_payload_callback(t) : t \in texts}, FALSE)

Dropped == IF port = "esp32" /\ Chunked THEN Outcome("SUCCESS", {rx_buf}, TRUE) ELSE {}

Failed == Outcome("HTTP", {rx_buf, NoJson, response_payload_callback(OtherJson)}, FALSE)

NotSent ==
  IF port = "esp32" /\ client = "none" THEN Outcome("OFFLINE", {rx_buf}, FALSE) ELSE {}

Outcomes(texts) == Answered(texts) \cup Dropped \cup Failed \cup NotSent

Sent(asked, sent, o) ==
  /\ rx_buf' = o.rx
  /\ dropped' = (dropped \/ o.drops)
  /\ \/ o.err = "OFFLINE" /\ UNCHANGED <<client, request>>
     \/ /\ o.err # "OFFLINE"
        /\ request' = [asked |-> asked, sent |-> sent]
        /\ client' = sent

(* The curl port sets CURLOPT_POST in http_post and never takes it back;   *)
(* the esp32 port sets the method of every request.                        *)
method_of_get == IF port = "curl" THEN client ELSE "GET"

http_get(o) == Sent("GET", method_of_get, o)

http_post(o) == Sent("POST", "POST", o)

Returns(call, code) == last' = [call |-> call, ret |-> code]

NoTx == [genesis_hash |-> None, fee |-> None, first_valid |-> None]

(* tx and tx_id are outputs of a call. *)
NoOutput == tx' = NoTx /\ tx_id' = None

-----------------------------------------------------------------------------
(* build stands for the three numbers, updated for a counter of updates    *)
(* that is not zero.                                                       *)
ZeroVersion == [network |-> None, genesis_hash |-> None, build |-> None, updated |-> FALSE]

Init ==
  /\ port \in Ports
  /\ net = None
  /\ round = [n \in Nets |-> 0]
  /\ rx_buf = NoJson
  /\ version = ZeroVersion
  /\ m_min_fee = None
  /\ m_first_valid = None
  /\ client = "none"
  /\ request = [asked |-> "GET", sent |-> "GET"]
  /\ last = [call |-> "none", ret |-> "SUCCESS"]
  /\ tx = NoTx
  /\ posts = 0
  /\ tx_id = None
  /\ versioned = FALSE
  /\ loaded = FALSE
  /\ dropped = FALSE
  /\ newest = [n \in Nets |-> 0]

(* The version is forgotten, rx_buf and the statics of                     *)
(* provider_tx_params_load are not; the port makes a new handle.           *)
Bug_init_keeps_version == version

version_after_init == ZeroVersion

provider_init(n) ==
  /\ net' = n
  /\ version' = version_after_init
  /\ client' = IF port = "curl" THEN "GET" ELSE "none"
  /\ versioned' = FALSE
  /\ loaded' = FALSE
  /\ Returns("init", "SUCCESS")
  /\ NoOutput
  /\ UNCHANGED <<round, rx_buf, request, dropped, m_min_fee, m_first_valid, posts, newest>>

(* provider_ping, provider_account_info_get, provider_application_info_get:*)
(* of what is modelled here they change the text of the last answer only.  *)
OtherRequest ==
  /\ net # None
  /\ \E o \in Outcomes({OtherJson, NoJson}) :
       /\ http_get(o)
       /\ Returns("other", o.err)
  /\ NoOutput
  /\ UNCHANGED <<net, round, cacheVars, posts, histVars>>

-----------------------------------------------------------------------------
(* provider_version_get.                                                   *)

Or(field, old) == IF field = None THEN old ELSE field

Bug_copies_without_size_check(text) ==
  [version EXCEPT !.network = Or(text.genesis_id, @), !.genesis_hash = text.genesis_hash_b64]

network_stored(text) == [version EXCEPT !.network = Or(text.genesis_id, @)]

(* The fields are stored one by one; the early returns leave those that    *)
(* were stored and skip the counter.                                       *)
VersionNotParsed(text) ==
  /\ \/ text = NoJson /\ Returns("version", "INTERNAL") /\ UNCHANGED version
     \/ /\ text # NoJson
        /\ text.genesis_id = Long
        /\ Returns("version", "NO_MEM")
        /\ UNCHANGED version
     \/ /\ text # NoJson
        /\ text.genesis_id # Long /\ text.genesis_hash_b64 = Long
        /\ Returns("version", "NO_MEM")
        /\ version' = network_stored(text)
  /\ UNCHANGED versioned

VersionParsed(text) ==
  /\ text # NoJson
  /\ Long \notin {text.genesis_id, text.genesis_hash_b64}
  /\ version' = [network |-> Or(text.genesis_id, version.network),
                 genesis_hash |-> Or(text.genesis_hash_b64, version.genesis_hash),
                 build |-> Or(text.build, version.build),
                 updated |-> TRUE]
  /\ versioned' = TRUE
  /\ Returns("version", "SUCCESS")

(* The counter of updates is incremented after a failed request too.       *)
(* OFFLINE needs a known version none of whose numbers is zero.            *)
Bug_failure_clears_version == [ZeroVersion EXCEPT !.updated = TRUE]

version_after_failure == [version EXCEPT !.updated = TRUE]

VersionNotFetched(err) ==
  /\ version' = version_after_failure
  /\ Returns("version", IF version.build = "nonzero" THEN "OFFLINE" ELSE err)
  /\ UNCHANGED versioned

provider_version_get ==
  /\ net # None
  /\ \E o \in Outcomes(VersionTexts) :
       /\ http_get(o)
       /\ \/ o.err = "SUCCESS" /\ (VersionParsed(o.rx) \/ VersionNotParsed(o.rx))
          \/ o.err # "SUCCESS" /\ VersionNotFetched(o.err)
  /\ NoOutput
  /\ UNCHANGED <<net, round, m_min_fee, m_first_valid, posts, loaded, newest>>

-----------------------------------------------------------------------------
(* provider_tx_params_load.                                                *)

(* The genesis hash: from the version, once the version was updated. *)
HashFrom(text) ==
  IF version.updated THEN version.genesis_hash
  ELSE IF text.genesis_hash_b64 = Long THEN None ELSE text.genesis_hash_b64

Bug_keeps_first_round(text) == IF m_first_valid = None THEN text.last_round ELSE m_first_valid

kept_first_valid(text) == Or(text.last_round, m_first_valid)

HandedOut(first) ==
  newest' = IF first = None \/ first.round <= newest[first.net] THEN newest
            ELSE [newest EXCEPT ![first.net] = first.round]

ParamsParsed(text) ==
  \/ /\ text = NoJson
     /\ tx' = NoTx
     /\ Returns("params", "INTERNAL")
     /\ UNCHANGED <<m_min_fee, m_first_valid, loaded, newest>>
  \/ /\ text # NoJson
     /\ tx' = [genesis_hash |-> HashFrom(text), fee |-> text.min_fee,
               first_valid |-> text.last_round]
     /\ m_min_fee' = Or(text.min_fee, m_min_fee)
     /\ m_first_valid' = kept_first_valid(text)
     /\ Returns("params", IF ~version.updated /\ text.genesis_hash_b64 = Long
                            THEN "NO_MEM" ELSE "SUCCESS")
     /\ loaded' = TRUE
     /\ HandedOut(text.last_round)

HaveParams == m_first_valid # None /\ m_min_fee # None /\ version.updated

ParamsNotFetched(err) ==
  \/ /\ HaveParams
     /\ tx' = [genesis_hash |-> version.genesis_hash, fee |-> m_min_fee,
               first_valid |-> m_first_valid]
     /\ Returns("params", "OFFLINE")
     /\ HandedOut(m_first_valid)
     /\ UNCHANGED loaded
  \/ /\ ~HaveParams
     /\ tx' = NoTx
     /\ Returns("params", err)
     /\ UNCHANGED <<loaded, newest>>

provider_tx_params_load ==
  /\ net # None
  /\ \E o \in Outcomes(ParamsTexts) :
       /\ http_get(o)
       /\ \/ o.err = "SUCCESS" /\ ParamsParsed(o.rx)
          \/ o.err # "SUCCESS" /\ ParamsNotFetched(o.err) /\ UNCHANGED <<m_min_fee, m_first_valid>>
  /\ tx_id' = None
  /\ UNCHANGED <<net, round, version, posts, versioned>>

-----------------------------------------------------------------------------
(* provider_tx_post.                                                       *)
IdParsed(text) ==
  \/ text = NoJson /\ tx_id' = None /\ Returns("post", "INTERNAL")
  \/ /\ text # NoJson
     /\ text.txId = Long
     /\ tx_id' = None
     /\ Returns("post", "NO_MEM")
  \/ /\ text # NoJson
     /\ text.txId # Long
     /\ tx_id' = text.txId
     /\ Returns("post", "SUCCESS")

provider_tx_post ==
  /\ net # None
  /\ posts < MaxPosts
  /\ posts' = posts + 1
  /\ \E o \in Outcomes(IdTexts(posts + 1)) :
       /\ http_post(o)
       /\ \/ o.err = "SUCCESS" /\ IdParsed(o.rx)
          \/ o.err # "SUCCESS" /\ tx_id' = None /\ Returns("post", o.err)
  /\ tx' = NoTx
  /\ UNCHANGED <<net, round, cacheVars, histVars>>

-----------------------------------------------------------------------------
(* The networks go on. *)
NewRound(n) ==
  /\ round[n] < MaxRound
  /\ round' = [round EXCEPT ![n] = @ + 1]
  /\ UNCHANGED <<net, httpVars, cacheVars, last, txVars, histVars>>

Next ==
  /\ \/ \E n \in Nets : provider_init(n) \/ NewRound(n)
     \/ OtherRequest
     \/ provider_version_get
     \/ provider_tx_params_load
     \/ provider_tx_post
  /\ UNCHANGED port

Spec == Init /\ [][Next]_vars

-----------------------------------------------------------------------------
Codes == {"SUCCESS", "OFFLINE", "INTERNAL", "NO_MEM", "HTTP"}

(* The types of the state. *)
ProviderTypeOK ==
  /\ port \in Ports
  /\ net \in Nets \cup {None}
  /\ round \in [Nets -> 0..MaxRound]
  /\ rx_buf \in Json \cup {NoJson}
  /\ version \in [network : Nets \cup {None}, genesis_hash : Nets \cup {None},
                  build : {None, "nonzero", "with_zero"}, updated : BOOLEAN]
  /\ m_min_fee \in Nets \cup {None}
  /\ m_first_valid \in Rounds \cup {None}
  /\ client \in {"none", "GET", "POST"}
  /\ request \in [asked : {"GET", "POST"}, sent : {"GET", "POST"}]
  /\ last \in [call : {"none", "init", "other", "version", "params", "post"}, ret : Codes]
  /\ tx \in [genesis_hash : Nets \cup {None}, fee : Nets \cup {None}, first_valid : Rounds \cup {None}]
  /\ posts \in 0..MaxPosts
  /\ tx_id \in (1..MaxPosts) \cup {None}
  /\ versioned \in BOOLEAN
  /\ loaded \in BOOLEAN
  /\ dropped \in BOOLEAN
  /\ newest \in [Nets -> 0..(MaxRound + 1)]

HandsOut == last.call = "params" /\ last.ret \in {"SUCCESS", "OFFLINE"}

(* As long as no answer was dropped, a transaction never gets the genesis  *)
(* hash of a network that the provider was once, but is no longer,         *)
(* connected to.                                                           *)
HashIsNotAnothers ==
  ~dropped =>
  /\ version.genesis_hash \in {net, None}
  /\ HandsOut => tx.genesis_hash \in {net, None}

(* Once the version has been fetched, whatever fails later, a transaction  *)
(* that is given parameters is given the hash of its network.              *)
HashOnceVersioned == ~dropped /\ versioned /\ HandsOut => tx.genesis_hash = net

(* Parameters that are reused are all of the current network, once some of *)
(* them and the version have been fetched from it.                         *)
ReusedAreOfNet ==
  ~dropped /\ versioned /\ loaded /\ last.call = "params" /\ last.ret = "OFFLINE" =>
    tx.genesis_hash = net /\ tx.fee = net /\ tx.first_valid.net = net

(* Parameters, fetched or reused, are never older than those a transaction *)
(* of the same network got before: its validity window only moves forward. *)
WindowMovesForward ==
  [][provider_tx_params_load =>
       LET first == tx'.first_valid
       IN first # None => first.round >= newest[first.net]]_vars

(* The id stored with a transaction is its own: the text that is parsed is *)
(* the answer to this very post.                                           *)
IdIsOwn == ~dropped /\ last.call = "post" /\ last.ret = "SUCCESS" => tx_id = posts

(* "previously fetched data is being used. Those params can be used"       *)
(* (provider.h): hash, fee and round belong to the network.                *)
OfflineParamsUsable ==
  last.call = "params" /\ last.ret = "OFFLINE" =>
    /\ tx.genesis_hash = net
    /\ tx.fee = net
    /\ tx.first_valid.net = net

(* "HTTP GET request" (http_get in vertices_http.h). *)
GetIsGet == request.sent = request.asked

(* "VTC_SUCCESS version has correctly been fetched from remote"            *)
(* (provider_version_get in provider.h).                                   *)
SuccessMeansFetched ==
  ~dropped /\ last.call = "version" /\ last.ret = "SUCCESS" =>
    version.network = net /\ version.genesis_hash = net

=============================================================================
