--------------------------- MODULE ProviderProofs ---------------------------
(***************************************************************************)
(* What holds of the provider for any number of networks, rounds and       *)
(* posts, with either HTTP port and every way in which a request can end.  *)
(***************************************************************************)
EXTENDS Provider, TLAPS

-----------------------------------------------------------------------------
(* The inductive invariant.                                                *)

(* A version that was fetched is one of this network. *)
VersionedInv == ~dropped /\ versioned => version.genesis_hash = net /\ version.updated

(* So are the parameters that are kept. *)
LoadedInv ==
  ~dropped /\ loaded => m_min_fee = net /\ m_first_valid # None /\ m_first_valid.net = net

(* The newest round handed out is the one that is kept, no network is      *)
(* behind it, and the text in the receive buffer, which may be read again  *)
(* when an answer is dropped, is not behind it either.                     *)
NewestInv ==
  /\ \A n \in Nets : newest[n] <= round[n] + 1
  /\ m_first_valid # None => newest[m_first_valid.net] = m_first_valid.round
  /\ rx_buf # NoJson /\ rx_buf.last_round # None =>
       LET first == rx_buf.last_round
       IN newest[first.net] <= first.round /\ first.round <= round[first.net] + 1

(* curl's handle is made by provider_init, esp32's before a version can be *)
(* fetched.                                                                *)
ClientInv ==
  /\ port = "curl" /\ net # None => client # "none"
  /\ versioned => client # "none"

IInv ==
  /\ ProviderTypeOK
  /\ HashIsNotAnothers
  /\ VersionedInv
  /\ LoadedInv
  /\ HashOnceVersioned
  /\ ReusedAreOfNet
  /\ IdIsOwn
  /\ SuccessMeansFetched
  /\ NewestInv
  /\ ClientInv

Texts == Json \cup {NoJson}

-----------------------------------------------------------------------------
(* Texts and outcomes.                                                     *)

LEMMA OtherJsonFacts == OtherJson \in Json /\ OtherJson.last_round = None
BY DEF OtherJson, Json

LEMMA VersionTextFacts ==
  ASSUME net \in Nets, NEW t \in VersionTexts
  PROVE  /\ t \in Json
         /\ t.genesis_id \in {net, Long} /\ t.genesis_hash_b64 \in {net, Long}
         /\ t.last_round = None
BY DEF VersionTexts, Version, OtherJson, Json

(* A round is not the missing field. *)
LEMMA RoundFacts ==
  ASSUME NEW r \in Rounds
  PROVE  /\ r # None
         /\ r.net \in Nets
         /\ r.round \in Nat /\ r.round \in 0..(MaxRound + 1)
<1>1. r \in [net : Nets, round : Nat]
  BY ProviderAssumption DEF Rounds
<1> QED
  BY <1>1, ProviderAssumption DEF Rounds

LEMMA ParamsTextFacts ==
  ASSUME ProviderTypeOK, net \in Nets, NEW t \in ParamsTexts
  PROVE  /\ t \in Json
         /\ t.genesis_hash_b64 \in {net, None, Long}
         /\ t.min_fee = net
         /\ t.last_round \in Rounds /\ t.last_round # None
         /\ t.last_round.net = net
         /\ t.last_round.round = round[net] + 1
<1>1. [net |-> net, round |-> round[net] + 1] \in Rounds
  BY ProviderAssumption DEF Rounds, ProviderTypeOK
<1>2. /\ t \in Json
      /\ t.genesis_hash_b64 \in {net, None, Long}
      /\ t.min_fee = net
      /\ t.last_round = [net |-> net, round |-> round[net] + 1]
  BY <1>1 DEF ParamsTexts, OtherJson, Json
<1> QED
  BY <1>1, <1>2, RoundFacts

LEMMA IdTextFacts ==
  ASSUME ProviderTypeOK, posts < MaxPosts, NEW t \in IdTexts(posts + 1)
  PROVE  /\ t \in Json
         /\ t.txId \in {posts + 1, Long}
         /\ t.last_round = None
<1>1. posts + 1 \in 1..MaxPosts
  BY ProviderAssumption DEF ProviderTypeOK
<1> QED
  BY <1>1 DEF IdTexts, OtherJson, Json

(* A request that succeeds leaves an answer to it in the buffer, or its    *)
(* answer was dropped; one that fails leaves nothing new.                  *)
LEMMA OutcomeFacts ==
  ASSUME ProviderTypeOK, NEW texts \in SUBSET Texts, NEW o \in Outcomes(texts)
  PROVE  /\ o.err \in {"SUCCESS", "HTTP", "OFFLINE"}
         /\ o.rx \in Texts
         /\ o.drops \in BOOLEAN
         /\ o.err = "SUCCESS" /\ ~o.drops => o.rx \in texts
         /\ o.err = "SUCCESS" /\ o.drops => o.rx = rx_buf
         /\ o.err # "SUCCESS" => o.rx \in {rx_buf, NoJson, OtherJson}
         /\ o.err = "OFFLINE" => client = "none"
<1>0. rx_buf \in Texts
  BY DEF ProviderTypeOK, Texts
<1>1. CASE o \in Answered(texts)
  <2>1. o \in [err : {"SUCCESS"}, rx : texts, drops : {FALSE}]
    BY <1>1 DEF Answered, Outcome, response_payload_callback
  <2> QED BY <2>1
<1>2. CASE o \in Dropped
  <2>1. o \in [err : {"SUCCESS"}, rx : {rx_buf}, drops : {TRUE}]
    BY <1>2 DEF Dropped, Outcome
  <2> QED BY <2>1, <1>0
<1>3. CASE o \in Failed
  <2>1. o \in [err : {"HTTP"}, rx : {rx_buf, NoJson, OtherJson}, drops : {FALSE}]
    BY <1>3 DEF Failed, Outcome, response_payload_callback
  <2> QED BY <2>1, <1>0, OtherJsonFacts DEF Texts
<1>4. CASE o \in NotSent
  <2>1. o \in [err : {"OFFLINE"}, rx : {rx_buf}, drops : {FALSE}]
    BY <1>4 DEF NotSent, Outcome
  <2>2. client = "none"
    BY <1>4 DEF NotSent
  <2> QED BY <2>1, <2>2, <1>0
<1> QED
  BY <1>1, <1>2, <1>3, <1>4 DEF Outcomes

(* What the request of a call leaves behind, whatever becomes of it. *)
LEMMA SentFacts ==
  ASSUME ProviderTypeOK, NEW texts \in SUBSET Texts, NEW o \in Outcomes(texts),
         NEW asked \in {"GET", "POST"}, NEW sent \in {"GET", "POST"}, Sent(asked, sent, o)
  PROVE  /\ rx_buf' \in Json \cup {NoJson}
         /\ client' \in {"GET", "POST", client}
         /\ client' \in {"none", "GET", "POST"}
         /\ o.err # "OFFLINE" => client' # "none"
         /\ request' \in [asked : {"GET", "POST"}, sent : {"GET", "POST"}]
         /\ dropped' \in BOOLEAN
         /\ ~dropped' => ~dropped /\ (o.err = "SUCCESS" => o.rx \in texts)
<1>1. /\ o.rx \in Texts
      /\ o.drops \in BOOLEAN
      /\ o.err = "SUCCESS" /\ ~o.drops => o.rx \in texts
  BY OutcomeFacts
<1>2. rx_buf' = o.rx /\ dropped' = (dropped \/ o.drops)
  BY DEF Sent
<1>3. dropped' \in BOOLEAN /\ (~dropped' => ~dropped /\ ~o.drops)
  BY <1>1, <1>2 DEF ProviderTypeOK
<1>4. /\ client' \in {"GET", "POST", client}
      /\ client' \in {"none", "GET", "POST"}
      /\ o.err # "OFFLINE" => client' # "none"
      /\ request' \in [asked : {"GET", "POST"}, sent : {"GET", "POST"}]
  BY DEF Sent, ProviderTypeOK
<1> QED
  BY <1>1, <1>2, <1>3, <1>4 DEF Texts

(* A GET request has a method: curl's handle was made before. *)
LEMMA MethodFacts ==
  ASSUME ProviderTypeOK, ClientInv, net # None
  PROVE  method_of_get \in {"GET", "POST"}
BY DEF ProviderTypeOK, ClientInv, method_of_get

-----------------------------------------------------------------------------
(* The invariant holds in the beginning and every call keeps it.           *)

LEMMA InitIInv == Init => IInv
<1> SUFFICES ASSUME Init PROVE IInv
  OBVIOUS
<1> USE ProviderAssumption DEF Init
<1>1. ProviderTypeOK
  <2>1. round \in [Nets -> 0..MaxRound] /\ newest \in [Nets -> 0..(MaxRound + 1)] /\ posts \in 0..MaxPosts
    OBVIOUS
  <2>2. version \in [network : Nets \cup {None}, genesis_hash : Nets \cup {None},
                     build : {None, "nonzero", "with_zero"}, updated : BOOLEAN]
    BY DEF ZeroVersion
  <2>3. tx \in [genesis_hash : Nets \cup {None}, fee : Nets \cup {None}, first_valid : Rounds \cup {None}]
    BY DEF NoTx
  <2> QED
    BY <2>1, <2>2, <2>3 DEF ProviderTypeOK, Codes
<1>2. NewestInv /\ ClientInv
  BY DEF NewestInv, ClientInv
<1>3. HashIsNotAnothers /\ HashOnceVersioned /\ ReusedAreOfNet
  BY DEF HashIsNotAnothers, HashOnceVersioned, ReusedAreOfNet, HandsOut, ZeroVersion
<1>4. VersionedInv /\ LoadedInv /\ IdIsOwn /\ SuccessMeansFetched
  BY DEF VersionedInv, LoadedInv, IdIsOwn, SuccessMeansFetched
<1> QED
  BY <1>1, <1>2, <1>3, <1>4 DEF IInv

LEMMA InitKeeps ==
  ASSUME IInv, NEW n \in Nets, provider_init(n), UNCHANGED port
  PROVE  IInv'
<1> USE DEF provider_init, version_after_init, ZeroVersion, Returns, NoOutput, NoTx
<1>1. ProviderTypeOK'
  BY DEF IInv, ProviderTypeOK, Codes
<1>2. NewestInv' /\ ClientInv'
  BY DEF IInv, NewestInv, ClientInv
<1>3. HashIsNotAnothers' /\ HashOnceVersioned' /\ ReusedAreOfNet'
  BY DEF HashIsNotAnothers, HashOnceVersioned, ReusedAreOfNet, HandsOut
<1>4. VersionedInv' /\ LoadedInv' /\ IdIsOwn' /\ SuccessMeansFetched'
  BY DEF VersionedInv, LoadedInv, IdIsOwn, SuccessMeansFetched
<1> QED
  BY <1>1, <1>2, <1>3, <1>4 DEF IInv

LEMMA NewRoundKeeps ==
  ASSUME IInv, NEW n \in Nets, NewRound(n), UNCHANGED port
  PROVE  IInv'
<1> USE DEF NewRound, httpVars, cacheVars, txVars, histVars
<1>1. ProviderTypeOK'
  BY ProviderAssumption DEF IInv, ProviderTypeOK
<1>2. round \in [Nets -> Nat] /\ newest \in [Nets -> Nat]
  BY ProviderAssumption DEF IInv, ProviderTypeOK
<1>3. \A m \in Nets : round'[m] \in Nat /\ round[m] <= round'[m]
  BY <1>2
<1>4. NewestInv'
  <2>1. \A m \in Nets : newest'[m] <= round'[m] + 1
    BY <1>2, <1>3 DEF IInv, NewestInv
  <2>2. ASSUME rx_buf # NoJson, rx_buf.last_round # None
        PROVE  LET first == rx_buf.last_round
               IN newest[first.net] <= first.round /\ first.round <= round'[first.net] + 1
    <3>1. rx_buf.last_round \in Rounds
      BY <2>2 DEF IInv, ProviderTypeOK, Json
    <3>2. rx_buf.last_round.net \in Nets /\ rx_buf.last_round.round \in Nat
      BY <3>1, RoundFacts
    <3> QED
      BY <1>2, <1>3, <2>2, <3>2 DEF IInv, NewestInv
  <2> QED
    BY <2>1, <2>2 DEF IInv, NewestInv
<1>5. HashIsNotAnothers' /\ HashOnceVersioned' /\ ReusedAreOfNet'
  BY DEF IInv, HashIsNotAnothers, HashOnceVersioned, ReusedAreOfNet, HandsOut
<1>6. VersionedInv' /\ LoadedInv' /\ IdIsOwn' /\ SuccessMeansFetched' /\ ClientInv'
  BY DEF IInv, VersionedInv, LoadedInv, IdIsOwn, SuccessMeansFetched, ClientInv
<1> QED
  BY <1>1, <1>4, <1>5, <1>6 DEF IInv

(* A text without a round in the buffer, nothing handed out. *)
LEMMA NewestKept ==
  ASSUME IInv, UNCHANGED <<newest, round, m_first_valid>>,
         rx_buf' = rx_buf \/ rx_buf' = NoJson \/ rx_buf'.last_round = None
  PROVE  NewestInv'
BY DEF IInv, NewestInv

LEMMA OtherKeeps ==
  ASSUME IInv, OtherRequest, UNCHANGED port
  PROVE  IInv'
<1> USE DEF NoOutput, NoTx, Returns, cacheVars, histVars
<1>0. net # None /\ method_of_get \in {"GET", "POST"}
  BY MethodFacts DEF OtherRequest, IInv
<1>1. PICK o \in Outcomes({OtherJson, NoJson}) : http_get(o) /\ Returns("other", o.err)
  BY DEF OtherRequest
<1>2. {OtherJson, NoJson} \in SUBSET Texts
  BY OtherJsonFacts DEF Texts
<1>3. /\ rx_buf' \in Json \cup {NoJson}
      /\ client' \in {"GET", "POST", client}
      /\ client' \in {"none", "GET", "POST"}
      /\ request' \in [asked : {"GET", "POST"}, sent : {"GET", "POST"}]
      /\ dropped' \in BOOLEAN
      /\ ~dropped' => ~dropped
  BY <1>0, <1>1, <1>2, SentFacts DEF http_get, IInv
<1>4. /\ o.err \in {"SUCCESS", "HTTP", "OFFLINE"}
      /\ rx_buf' \in {rx_buf, NoJson, OtherJson}
  BY <1>1, <1>2, OutcomeFacts DEF http_get, Sent, IInv
<1>5. ProviderTypeOK'
  BY <1>1, <1>3, <1>4 DEF OtherRequest, IInv, ProviderTypeOK, Codes
<1>6. NewestInv' /\ ClientInv'
  <2>1. NewestInv'
    BY <1>4, OtherJsonFacts, NewestKept DEF OtherRequest
  <2>2. ClientInv'
    BY <1>3 DEF OtherRequest, IInv, ClientInv
  <2> QED BY <2>1, <2>2
<1>7. HashIsNotAnothers' /\ HashOnceVersioned' /\ ReusedAreOfNet'
  BY <1>1, <1>3 DEF OtherRequest, IInv, HashIsNotAnothers, HashOnceVersioned, ReusedAreOfNet, HandsOut
<1>8. VersionedInv' /\ LoadedInv' /\ IdIsOwn' /\ SuccessMeansFetched'
  BY <1>1, <1>3 DEF OtherRequest, IInv, VersionedInv, LoadedInv, IdIsOwn, SuccessMeansFetched
<1> QED
  BY <1>5, <1>6, <1>7, <1>8 DEF IInv

(* Nothing is handed out and the statics are left alone. *)
LEMMA VersionKeeps ==
  ASSUME IInv, provider_version_get, UNCHANGED port
  PROVE  IInv'
<1> USE DEF NoOutput, NoTx, Returns
<1>0. /\ net \in Nets /\ method_of_get \in {"GET", "POST"}
      /\ UNCHANGED <<net, round, m_min_fee, m_first_valid, posts, loaded, newest>>
  BY MethodFacts DEF provider_version_get, IInv, ProviderTypeOK
<1>1. PICK o \in Outcomes(VersionTexts) :
        /\ http_get(o)
        /\ \/ o.err = "SUCCESS" /\ (VersionParsed(o.rx) \/ VersionNotParsed(o.rx))
           \/ o.err # "SUCCESS" /\ VersionNotFetched(o.err)
  BY DEF provider_version_get
<1>2. VersionTexts \in SUBSET Texts
  BY <1>0, VersionTextFacts DEF Texts
<1>3. /\ rx_buf' \in Json \cup {NoJson}
      /\ client' \in {"GET", "POST", client}
      /\ client' \in {"none", "GET", "POST"}
      /\ request' \in [asked : {"GET", "POST"}, sent : {"GET", "POST"}]
      /\ dropped' \in BOOLEAN
      /\ ~dropped' => ~dropped /\ (o.err = "SUCCESS" => o.rx \in VersionTexts)
  BY <1>0, <1>1, <1>2, SentFacts DEF http_get, IInv
<1>4. /\ o.err \in {"SUCCESS", "HTTP", "OFFLINE"} /\ o.rx \in Texts
      /\ rx_buf' \in {rx_buf, NoJson, OtherJson} \/ rx_buf' \in VersionTexts
  BY <1>1, <1>2, OutcomeFacts DEF http_get, Sent, IInv
<1>c. o.err # "OFFLINE" => client' # "none"
  BY <1>0, <1>1, <1>2, SentFacts DEF http_get, IInv
<1>5. o.rx \in VersionTexts => o.rx.genesis_id \in {net, Long} /\ o.rx.genesis_hash_b64 \in {net, Long}
  BY <1>0, VersionTextFacts
(* What becomes of the version. *)
<1>6. /\ version' \in [network : Nets \cup {None}, genesis_hash : Nets \cup {None},
                       build : {None, "nonzero", "with_zero"}, updated : BOOLEAN]
      /\ last' \in [call : {"version"}, ret : Codes]
      /\ versioned' \in BOOLEAN
  <2>1. CASE VersionParsed(o.rx) /\ o.err = "SUCCESS"
    <3>1. o.rx \in Json
      BY <2>1, <1>4 DEF Texts, VersionParsed
    <3>2. /\ o.rx.genesis_id \in Nets \cup {None} /\ o.rx.genesis_hash_b64 \in Nets \cup {None}
          /\ o.rx.build \in {None, "nonzero", "with_zero"}
      BY <2>1, <3>1 DEF Json, VersionParsed
    <3> QED
      BY <2>1, <3>2 DEF IInv, ProviderTypeOK, VersionParsed, Or, Codes
  <2>2. CASE VersionNotParsed(o.rx) /\ o.err = "SUCCESS"
    <3>1. CASE UNCHANGED version
      BY <2>2, <3>1 DEF IInv, ProviderTypeOK, VersionNotParsed, Codes
    <3>2. CASE o.rx # NoJson /\ o.rx.genesis_id # Long /\ version' = network_stored(o.rx)
      <4>1. o.rx.genesis_id \in Nets \cup {None}
        BY <3>2, <1>4 DEF Texts, Json
      <4> QED
        BY <2>2, <3>2, <4>1 DEF IInv, ProviderTypeOK, VersionNotParsed, network_stored, Or, Codes
    <3> QED
      BY <2>2, <3>1, <3>2 DEF VersionNotParsed
  <2>3. CASE VersionNotFetched(o.err) /\ o.err # "SUCCESS"
    BY <2>3, <1>4 DEF IInv, ProviderTypeOK, VersionNotFetched, version_after_failure, Codes
  <2> QED
    BY <1>1, <2>1, <2>2, <2>3
<1>7. ~dropped' => /\ version'.genesis_hash \in {net, version.genesis_hash}
                   /\ versioned => version'.genesis_hash = net
                   /\ versioned' => version'.genesis_hash = net /\ version'.updated
                   /\ last'.ret = "SUCCESS" => version'.genesis_hash = net /\ version'.network = net
  <2> SUFFICES ASSUME ~dropped'
               PROVE  /\ version'.genesis_hash \in {net, version.genesis_hash}
                      /\ versioned => version'.genesis_hash = net
                      /\ versioned' => version'.genesis_hash = net /\ version'.updated
                      /\ last'.ret = "SUCCESS" => version'.genesis_hash = net /\ version'.network = net
    OBVIOUS
  <2>0. versioned => version.genesis_hash = net /\ version.updated
    BY <1>3 DEF IInv, VersionedInv
  <2>1. CASE VersionParsed(o.rx) /\ o.err = "SUCCESS"
    BY <2>1, <1>3, <1>5, <1>0, ProviderAssumption DEF VersionParsed, Or
  <2>2. CASE VersionNotParsed(o.rx) /\ o.err = "SUCCESS"
    BY <2>2, <2>0 DEF VersionNotParsed, network_stored, IInv, ProviderTypeOK
  <2>3. CASE VersionNotFetched(o.err) /\ o.err # "SUCCESS"
    BY <2>3, <2>0 DEF VersionNotFetched, version_after_failure, IInv, ProviderTypeOK
  <2> QED
    BY <1>1, <2>1, <2>2, <2>3
<1>8. ProviderTypeOK'
  BY <1>0, <1>3, <1>6 DEF provider_version_get, IInv, ProviderTypeOK
<1>9. NewestInv' /\ ClientInv'
  <2>1. rx_buf' = rx_buf \/ rx_buf' = NoJson \/ rx_buf'.last_round = None
    BY <1>0, <1>4, OtherJsonFacts, VersionTextFacts
  <2>2. NewestInv'
    BY <1>0, <2>1, NewestKept
  <2>3. versioned' => client' # "none"
    BY <1>1, <1>3, <1>c DEF VersionParsed, VersionNotParsed, VersionNotFetched, IInv, ClientInv
  <2>4. ClientInv'
    BY <1>0, <1>3, <2>3 DEF IInv, ClientInv
  <2> QED BY <2>2, <2>4
<1>10. HashIsNotAnothers' /\ HashOnceVersioned' /\ ReusedAreOfNet'
  BY <1>0, <1>3, <1>6, <1>7 DEF IInv, HashIsNotAnothers, HashOnceVersioned, ReusedAreOfNet, HandsOut
<1>11. VersionedInv' /\ LoadedInv' /\ IdIsOwn' /\ SuccessMeansFetched'
  BY <1>0, <1>3, <1>6, <1>7 DEF IInv, VersionedInv, LoadedInv, IdIsOwn, SuccessMeansFetched
<1> QED
  BY <1>8, <1>9, <1>10, <1>11 DEF IInv

LEMMA PostKeeps ==
  ASSUME IInv, provider_tx_post, UNCHANGED port
  PROVE  IInv'
<1> USE DEF Returns, NoTx
<1>0. /\ net \in Nets /\ posts < MaxPosts
      /\ posts' = posts + 1 /\ posts + 1 \in 1..MaxPosts
      /\ tx' = NoTx
      /\ UNCHANGED <<net, round, version, m_min_fee, m_first_valid, versioned, loaded, newest>>
  BY ProviderAssumption DEF provider_tx_post, IInv, ProviderTypeOK, cacheVars, histVars
<1>1. PICK o \in Outcomes(IdTexts(posts + 1)) :
        /\ http_post(o)
        /\ \/ o.err = "SUCCESS" /\ IdParsed(o.rx)
           \/ o.err # "SUCCESS" /\ tx_id' = None /\ Returns("post", o.err)
  BY DEF provider_tx_post
<1>2. IdTexts(posts + 1) \in SUBSET Texts
  BY <1>0, IdTextFacts DEF Texts, IInv
<1>3. /\ rx_buf' \in Json \cup {NoJson}
      /\ client' \in {"GET", "POST", client}
      /\ client' \in {"none", "GET", "POST"}
      /\ request' \in [asked : {"GET", "POST"}, sent : {"GET", "POST"}]
      /\ dropped' \in BOOLEAN
      /\ ~dropped' => ~dropped /\ (o.err = "SUCCESS" => o.rx \in IdTexts(posts + 1))
  BY <1>1, <1>2, SentFacts DEF http_post, IInv
<1>4. /\ o.err \in {"SUCCESS", "HTTP", "OFFLINE"} /\ o.rx \in Texts
      /\ rx_buf' \in {rx_buf, NoJson, OtherJson} \/ rx_buf' \in IdTexts(posts + 1)
  BY <1>1, <1>2, OutcomeFacts DEF http_post, Sent, IInv
<1>5. /\ last' \in [call : {"post"}, ret : Codes]
      /\ tx_id' \in (1..MaxPosts) \cup {None}
      /\ last'.ret = "SUCCESS" => o.err = "SUCCESS" /\ tx_id' = o.rx.txId /\ o.rx.txId # Long
  <2>1. CASE o.err = "SUCCESS" /\ IdParsed(o.rx)
    <3>1. o.rx # NoJson => o.rx.txId \in (1..MaxPosts) \cup {None, Long}
      BY <1>4 DEF Texts, Json
    <3> QED
      BY <2>1, <3>1 DEF IdParsed, Codes
  <2>2. CASE o.err # "SUCCESS" /\ tx_id' = None /\ Returns("post", o.err)
    BY <2>2, <1>4 DEF Codes
  <2> QED
    BY <1>1, <2>1, <2>2
<1>6. ProviderTypeOK'
  BY <1>0, <1>3, <1>5 DEF IInv, ProviderTypeOK
<1>7. NewestInv' /\ ClientInv'
  <2>1. rx_buf' = rx_buf \/ rx_buf' = NoJson \/ rx_buf'.last_round = None
    BY <1>0, <1>4, OtherJsonFacts, IdTextFacts DEF IInv
  <2>2. NewestInv'
    BY <1>0, <2>1, NewestKept
  <2>3. ClientInv'
    BY <1>0, <1>3 DEF IInv, ClientInv
  <2> QED BY <2>2, <2>3
<1>8. IdIsOwn'
  BY <1>0, <1>3, <1>5, IdTextFacts DEF IInv, IdIsOwn
<1>9. HashIsNotAnothers' /\ HashOnceVersioned' /\ ReusedAreOfNet'
  BY <1>0, <1>3, <1>5 DEF IInv, HashIsNotAnothers, HashOnceVersioned, ReusedAreOfNet, HandsOut
<1>10. VersionedInv' /\ LoadedInv' /\ SuccessMeansFetched'
  BY <1>0, <1>3, <1>5 DEF IInv, VersionedInv, LoadedInv, SuccessMeansFetched
<1> QED
  BY <1>6, <1>7, <1>8, <1>9, <1>10 DEF IInv

(* Handing out a round that no network is ahead of makes it the newest. *)
LEMMA HandedOutFacts ==
  ASSUME newest \in [Nets -> 0..(MaxRound + 1)], NEW first \in Rounds,
         newest[first.net] <= first.round, HandedOut(first)
  PROVE  /\ newest' \in [Nets -> 0..(MaxRound + 1)]
         /\ newest'[first.net] = first.round
         /\ \A n \in Nets : n # first.net => newest'[n] = newest[n]
<1>1. first # None /\ first.net \in Nets /\ first.round \in Nat /\ first.round \in 0..(MaxRound + 1)
  BY RoundFacts
<1>2. newest[first.net] \in Nat
  BY <1>1, ProviderAssumption
<1>3. CASE first.round <= newest[first.net]
  BY <1>1, <1>2, <1>3 DEF HandedOut
<1>4. CASE ~(first.round <= newest[first.net])
  BY <1>1, <1>2, <1>4 DEF HandedOut
<1> QED
  BY <1>3, <1>4

(* A request for parameters and what it leaves in the buffer. *)
ParamsRequest(o) ==
  /\ net \in Nets
  /\ UNCHANGED <<net, round, version, posts, versioned>>
  /\ tx_id' = None
  /\ o.err \in {"SUCCESS", "HTTP", "OFFLINE"}
  /\ rx_buf' = o.rx
  /\ rx_buf' \in Json \cup {NoJson}
  /\ client' \in {"GET", "POST", client}
  /\ client' \in {"none", "GET", "POST"}
  /\ request' \in [asked : {"GET", "POST"}, sent : {"GET", "POST"}]
  /\ dropped' \in BOOLEAN
  /\ ~dropped' => ~dropped /\ (o.err = "SUCCESS" => o.rx \in ParamsTexts)
  /\ rx_buf' \in {rx_buf, NoJson, OtherJson} \/ rx_buf' \in ParamsTexts

LEMMA ParamsTextsAreTexts ==
  ASSUME ProviderTypeOK, net \in Nets
  PROVE  ParamsTexts \in SUBSET Texts
BY ParamsTextFacts DEF Texts

LEMMA ParamsRequestFacts ==
  ASSUME IInv, provider_tx_params_load
  PROVE  \E o \in Outcomes(ParamsTexts) :
           /\ ParamsRequest(o)
           /\ \/ o.err = "SUCCESS" /\ ParamsParsed(o.rx)
              \/ o.err # "SUCCESS" /\ ParamsNotFetched(o.err) /\ UNCHANGED <<m_min_fee, m_first_valid>>
<1>0. /\ net \in Nets /\ method_of_get \in {"GET", "POST"}
      /\ tx_id' = None /\ UNCHANGED <<net, round, version, posts, versioned>>
  BY MethodFacts DEF provider_tx_params_load, IInv, ProviderTypeOK
<1>1. PICK o \in Outcomes(ParamsTexts) :
        /\ http_get(o)
        /\ \/ o.err = "SUCCESS" /\ ParamsParsed(o.rx)
           \/ o.err # "SUCCESS" /\ ParamsNotFetched(o.err) /\ UNCHANGED <<m_min_fee, m_first_valid>>
  BY DEF provider_tx_params_load
<1>2. ParamsTexts \in SUBSET Texts
  BY <1>0, ParamsTextsAreTexts DEF IInv
<1>3. /\ rx_buf' \in Json \cup {NoJson}
      /\ client' \in {"GET", "POST", client}
      /\ client' \in {"none", "GET", "POST"}
      /\ request' \in [asked : {"GET", "POST"}, sent : {"GET", "POST"}]
      /\ dropped' \in BOOLEAN
      /\ ~dropped' => ~dropped /\ (o.err = "SUCCESS" => o.rx \in ParamsTexts)
  BY <1>0, <1>1, <1>2, SentFacts DEF http_get, IInv
<1>4. /\ o.err \in {"SUCCESS", "HTTP", "OFFLINE"} /\ o.rx \in Texts
      /\ rx_buf' = o.rx
      /\ rx_buf' \in {rx_buf, NoJson, OtherJson} \/ rx_buf' \in ParamsTexts
  BY <1>1, <1>2, OutcomeFacts DEF http_get, Sent, IInv
<1> QED
  BY <1>0, <1>1, <1>3, <1>4 DEF ParamsRequest

(* The text that is read now has a round that is not behind: it is the     *)
(* answer, or one that was in the buffer before.                           *)
LEMMA TextNotBehind ==
  ASSUME IInv, NEW o \in Outcomes(ParamsTexts), ParamsRequest(o),
         o.rx # NoJson, o.rx.last_round # None
  PROVE  /\ o.rx.last_round \in Rounds
         /\ newest[o.rx.last_round.net] <= o.rx.last_round.round
         /\ o.rx.last_round.round <= round[o.rx.last_round.net] + 1
<1>1. o.rx \in Json /\ net \in Nets
  BY DEF ParamsRequest
<1>2. o.rx.last_round \in Rounds
  BY <1>1 DEF Json
<1>3. CASE o.rx \in ParamsTexts
  <2>1. o.rx.last_round.net = net /\ o.rx.last_round.round = round[net] + 1
    BY <1>1, <1>3, ParamsTextFacts DEF IInv
  <2>2. newest[net] <= round[net] + 1 /\ round[net] \in Nat
    BY <1>1, ProviderAssumption DEF IInv, NewestInv, ProviderTypeOK
  <2> QED
    BY <1>2, <2>1, <2>2
<1>4. CASE o.rx = rx_buf
  BY <1>2, <1>4 DEF IInv, NewestInv
<1> QED
  BY <1>3, <1>4, OtherJsonFacts DEF ParamsRequest

LEMMA ParamsParsedKeeps ==
  ASSUME IInv, UNCHANGED port, NEW o \in Outcomes(ParamsTexts), ParamsRequest(o),
         o.err = "SUCCESS", ParamsParsed(o.rx)
  PROVE  IInv' /\ (tx'.first_valid # None =>
                     newest[tx'.first_valid.net] <= tx'.first_valid.round)
<1> USE DEF Returns
<1>t. o.rx # NoJson => o.rx \in Json
  BY DEF ParamsRequest
<1>n. net # None /\ net \in Nets /\ None \notin Rounds
  BY ProviderAssumption, RoundFacts DEF ParamsRequest
(* What is read. *)
<1>1. CASE o.rx = NoJson
  <2>1. ProviderTypeOK'
    BY <1>1 DEF ParamsRequest, ParamsParsed, NoTx, Codes, IInv, ProviderTypeOK
  <2>2. NewestInv' /\ ClientInv'
    BY <1>1 DEF ParamsRequest, ParamsParsed, IInv, NewestInv, ClientInv
  <2>3. HashIsNotAnothers' /\ HashOnceVersioned' /\ ReusedAreOfNet'
    BY <1>1 DEF ParamsRequest, ParamsParsed, IInv, HashIsNotAnothers, HashOnceVersioned, ReusedAreOfNet, HandsOut
  <2>4. VersionedInv' /\ LoadedInv' /\ IdIsOwn' /\ SuccessMeansFetched'
    BY <1>1 DEF ParamsRequest, ParamsParsed, IInv, VersionedInv, LoadedInv, IdIsOwn, SuccessMeansFetched
  <2> QED
    BY <1>1, <2>1, <2>2, <2>3, <2>4 DEF ParamsParsed, NoTx, IInv
<1>2. CASE o.rx # NoJson
  <2> DEFINE text == o.rx
             first == o.rx.last_round
  <2>1. /\ tx' = [genesis_hash |-> HashFrom(text), fee |-> text.min_fee, first_valid |-> first]
        /\ m_min_fee' = Or(text.min_fee, m_min_fee)
        /\ m_first_valid' = Or(first, m_first_valid)
        /\ last' = [call |-> "params", ret |-> IF ~version.updated /\ text.genesis_hash_b64 = Long
                                                  THEN "NO_MEM" ELSE "SUCCESS"]
        /\ loaded' = TRUE
        /\ HandedOut(first)
    BY <1>2 DEF ParamsParsed, kept_first_valid
  <2>2. /\ text.genesis_hash_b64 \in Nets \cup {None, Long}
        /\ text.min_fee \in Nets \cup {None}
        /\ first \in Rounds \cup {None}
    BY <1>t, <1>2 DEF Json
  <2>3. HashFrom(text) \in Nets \cup {None}
    BY <2>2 DEF HashFrom, IInv, ProviderTypeOK
  <2>4. /\ m_min_fee' \in Nets \cup {None}
        /\ m_first_valid' \in Rounds \cup {None}
    BY <2>1, <2>2 DEF Or, IInv, ProviderTypeOK
  <2>5. tx' \in [genesis_hash : Nets \cup {None}, fee : Nets \cup {None}, first_valid : Rounds \cup {None}]
    BY <2>1, <2>2, <2>3
  <2>6. /\ newest' \in [Nets -> 0..(MaxRound + 1)]
        /\ first = None => newest' = newest
        /\ first # None => /\ newest'[first.net] = first.round
                           /\ \A n \in Nets : n # first.net => newest'[n] = newest[n]
    <3>1. newest \in [Nets -> 0..(MaxRound + 1)]
      BY DEF IInv, ProviderTypeOK
    <3>2. CASE first = None
      BY <2>1, <3>1, <3>2 DEF HandedOut
    <3>3. CASE first # None
      <4>1. first \in Rounds /\ newest[first.net] <= first.round
        BY <1>2, <3>3, TextNotBehind
      <4> QED
        BY <2>1, <3>1, <3>3, <4>1, HandedOutFacts
    <3> QED
      BY <3>2, <3>3
  <2>7. ProviderTypeOK'
    <3>1. last' \in [call : {"none", "init", "other", "version", "params", "post"}, ret : Codes]
      BY <2>1 DEF Codes
    <3> QED
      BY <2>1, <2>4, <2>5, <2>6, <3>1 DEF ParamsRequest, IInv, ProviderTypeOK
  <2>8. NewestInv'
    <3>1. CASE first = None
      <4>1. UNCHANGED <<newest, round, m_first_valid>> /\ rx_buf'.last_round = None
        BY <2>1, <2>6, <3>1 DEF Or, ParamsRequest
      <4> QED
        BY <4>1, NewestKept
    <3>2. CASE first # None
      <4>1. /\ first \in Rounds /\ first.net \in Nets /\ first.round \in Nat
            /\ newest[first.net] <= first.round
            /\ first.round <= round[first.net] + 1
        BY <1>2, <3>2, TextNotBehind, RoundFacts
      <4>2. m_first_valid' = first /\ rx_buf'.last_round = first /\ round' = round
        BY <2>1, <3>2 DEF Or, ParamsRequest
      <4>3. \A n \in Nets : newest'[n] <= round[n] + 1
        BY <2>6, <3>2, <4>1 DEF IInv, NewestInv
      <4> QED
        BY <2>6, <3>2, <4>1, <4>2, <4>3 DEF NewestInv
    <3> QED
      BY <3>1, <3>2
  (* Was no answer dropped, then the text is the network's answer. *)
  <2>9. ~dropped' => /\ ~dropped
                     /\ HashFrom(text) \in {net, None}
                     /\ versioned => HashFrom(text) = net
                     /\ m_min_fee' = net
                     /\ m_first_valid' # None /\ m_first_valid'.net = net
    <3> SUFFICES ASSUME ~dropped'
                 PROVE  /\ ~dropped
                        /\ HashFrom(text) \in {net, None}
                        /\ versioned => HashFrom(text) = net
                        /\ m_min_fee' = net
                        /\ m_first_valid' # None /\ m_first_valid'.net = net
      OBVIOUS
    <3>1. ~dropped /\ text \in ParamsTexts
      BY DEF ParamsRequest
    <3>2. /\ text.genesis_hash_b64 \in {net, None, Long}
          /\ text.min_fee = net
          /\ first # None /\ first.net = net
      BY <3>1, <1>n, ParamsTextFacts DEF IInv
    <3>3. m_min_fee' = net /\ m_first_valid' # None /\ m_first_valid'.net = net
      BY <2>1, <3>2, <1>n DEF Or
    <3>4. version.genesis_hash \in {net, None} /\ (versioned => version.genesis_hash = net /\ version.updated)
      BY <3>1 DEF IInv, HashIsNotAnothers, VersionedInv
    <3> QED
      BY <3>1, <3>2, <3>3, <3>4 DEF HashFrom
  <2>a. /\ last'.call = "params" /\ last'.ret # "OFFLINE"
        /\ tx'.genesis_hash = HashFrom(text)
        /\ net' = net /\ version' = version /\ versioned' = versioned
    BY <2>1 DEF ParamsRequest
  <2>10. HashIsNotAnothers' /\ HashOnceVersioned' /\ ReusedAreOfNet'
    <3>1. HashIsNotAnothers'
      BY <2>a, <2>9 DEF IInv, HashIsNotAnothers
    <3>2. HashOnceVersioned'
      BY <2>a, <2>9 DEF HashOnceVersioned
    <3>3. ReusedAreOfNet'
      BY <2>a DEF ReusedAreOfNet
    <3> QED BY <3>1, <3>2, <3>3
  <2>11. VersionedInv' /\ LoadedInv' /\ IdIsOwn' /\ SuccessMeansFetched' /\ ClientInv'
    <3>1. VersionedInv'
      BY <2>a, <2>9 DEF IInv, VersionedInv
    <3>2. LoadedInv'
      BY <2>a, <2>9 DEF LoadedInv
    <3>3. IdIsOwn' /\ SuccessMeansFetched'
      BY <2>a DEF IdIsOwn, SuccessMeansFetched
    <3>4. ClientInv'
      BY DEF ParamsRequest, IInv, ClientInv
    <3> QED BY <3>1, <3>2, <3>3, <3>4
  <2>12. tx'.first_valid # None => newest[tx'.first_valid.net] <= tx'.first_valid.round
    BY <2>1, <1>2, TextNotBehind
  <2> QED
    BY <2>7, <2>8, <2>10, <2>11, <2>12 DEF IInv
<1> QED
  BY <1>1, <1>2

(* Parameters are handed out again, or none are. *)
LEMMA ParamsNotFetchedKeeps ==
  ASSUME IInv, UNCHANGED port, NEW o \in Outcomes(ParamsTexts), ParamsRequest(o),
         o.err # "SUCCESS", ParamsNotFetched(o.err), UNCHANGED <<m_min_fee, m_first_valid>>
  PROVE  IInv' /\ (tx'.first_valid # None =>
                     newest[tx'.first_valid.net] <= tx'.first_valid.round)
<1>1. /\ m_first_valid \in Rounds \cup {None}
      /\ newest \in [Nets -> 0..(MaxRound + 1)]
      /\ m_first_valid # None => /\ m_first_valid \in Rounds
                                /\ newest[m_first_valid.net] = m_first_valid.round
                                /\ newest[m_first_valid.net] <= m_first_valid.round
  <2>1. m_first_valid \in Rounds \cup {None} /\ newest \in [Nets -> 0..(MaxRound + 1)]
    BY DEF IInv, ProviderTypeOK
  <2>2. m_first_valid # None => newest[m_first_valid.net] = m_first_valid.round
    BY DEF IInv, NewestInv
  <2>3. m_first_valid # None => m_first_valid.round \in Nat
    BY <2>1, RoundFacts
  <2> QED
    BY <2>1, <2>2, <2>3
<1>2. newest' = newest /\ last'.call = "params" /\ last'.ret # "SUCCESS" /\ last'.ret \in Codes
      /\ last' = [call |-> "params", ret |-> last'.ret] /\ loaded' = loaded
  <2>1. CASE HaveParams
    <3>1. HandedOut(m_first_valid) /\ last' = [call |-> "params", ret |-> "OFFLINE"] /\ loaded' = loaded
      BY <2>1 DEF ParamsNotFetched, Returns
    <3>2. newest' = newest
      BY <3>1, <2>1, <1>1 DEF HandedOut, HaveParams
    <3> QED
      BY <3>1, <3>2 DEF Codes
  <2>2. CASE ~HaveParams
    <3>1. last' = [call |-> "params", ret |-> o.err] /\ newest' = newest /\ loaded' = loaded
      BY <2>2 DEF ParamsNotFetched, Returns
    <3> QED
      BY <3>1 DEF ParamsRequest, Codes
  <2> QED BY <2>1, <2>2
<1>3. \/ /\ HaveParams
         /\ tx' = [genesis_hash |-> version.genesis_hash, fee |-> m_min_fee,
                   first_valid |-> m_first_valid]
      \/ /\ ~HaveParams
         /\ tx' = NoTx
         /\ last'.ret = o.err
  BY DEF ParamsNotFetched, Returns
<1>4. ProviderTypeOK'
  <2>1. tx' \in [genesis_hash : Nets \cup {None}, fee : Nets \cup {None}, first_valid : Rounds \cup {None}]
    BY <1>3 DEF NoTx, IInv, ProviderTypeOK
  <2>2. last' \in [call : {"none", "init", "other", "version", "params", "post"}, ret : Codes]
    BY <1>2
  <2> QED
    BY <1>2, <2>1, <2>2 DEF ParamsRequest, IInv, ProviderTypeOK
<1>5. NewestInv'
  <2>1. CASE rx_buf' \in {rx_buf, NoJson, OtherJson}
    <3>1. rx_buf' = rx_buf \/ rx_buf' = NoJson \/ rx_buf'.last_round = None
      BY <2>1, OtherJsonFacts
    <3> QED
      BY <3>1, <1>2, NewestKept DEF ParamsRequest
  <2>2. CASE rx_buf' \in ParamsTexts
    <3>1. ASSUME rx_buf' # NoJson, rx_buf'.last_round # None
          PROVE  /\ newest[rx_buf'.last_round.net] <= rx_buf'.last_round.round
                 /\ rx_buf'.last_round.round <= round[rx_buf'.last_round.net] + 1
      BY <3>1, TextNotBehind DEF ParamsRequest
    <3> QED
      BY <3>1, <1>2 DEF ParamsRequest, IInv, NewestInv
  <2> QED
    BY <2>1, <2>2 DEF ParamsRequest
<1>6. /\ net' = net /\ version' = version /\ versioned' = versioned
      /\ ~dropped' => ~dropped
  BY DEF ParamsRequest
(* Without a version there is no reuse: what was fetched is known. *)
<1>7. ~dropped' /\ last'.ret = "OFFLINE" /\ versioned /\ loaded =>
        /\ tx'.genesis_hash = net /\ tx'.fee = net /\ tx'.first_valid.net = net
  <2> SUFFICES ASSUME ~dropped', versioned, loaded
               PROVE  tx'.genesis_hash = net /\ tx'.fee = net /\ tx'.first_valid.net = net
    OBVIOUS
  <2>1. /\ version.genesis_hash = net /\ version.updated
        /\ m_min_fee = net /\ m_first_valid # None /\ m_first_valid.net = net
    BY <1>6 DEF IInv, VersionedInv, LoadedInv
  <2>2. HaveParams
    BY <2>1, ProviderAssumption DEF HaveParams, ParamsRequest
  <2> QED
    BY <2>1, <2>2, <1>3
<1>8. ~dropped' /\ last'.ret = "OFFLINE" => tx'.genesis_hash \in {net, None}
  BY <1>3, <1>6 DEF NoTx, IInv, HashIsNotAnothers
<1>9. ~dropped' /\ last'.ret = "OFFLINE" /\ versioned => tx'.genesis_hash = net
  <2>1. CASE HaveParams
    BY <2>1, <1>3, <1>6 DEF IInv, VersionedInv
  <2>2. CASE ~HaveParams
    <3>1. versioned => o.err # "OFFLINE"
      BY ParamsTextsAreTexts, OutcomeFacts DEF IInv, ClientInv, ParamsRequest
    <3> QED
      BY <2>2, <3>1, <1>3
  <2> QED BY <2>1, <2>2
<1>10. HashIsNotAnothers' /\ HashOnceVersioned' /\ ReusedAreOfNet'
  <2>1. HashIsNotAnothers'
    BY <1>2, <1>6, <1>8 DEF IInv, HashIsNotAnothers, HandsOut
  <2>2. HashOnceVersioned'
    BY <1>2, <1>6, <1>9 DEF HashOnceVersioned, HandsOut
  <2>3. ReusedAreOfNet'
    BY <1>2, <1>6, <1>7 DEF ReusedAreOfNet
  <2> QED BY <2>1, <2>2, <2>3
<1>11. VersionedInv' /\ LoadedInv' /\ IdIsOwn' /\ SuccessMeansFetched' /\ ClientInv'
  <2>1. VersionedInv' /\ LoadedInv'
    BY <1>2, <1>6 DEF IInv, VersionedInv, LoadedInv
  <2>2. IdIsOwn' /\ SuccessMeansFetched'
    BY <1>2 DEF IdIsOwn, SuccessMeansFetched
  <2>3. ClientInv'
    BY DEF ParamsRequest, IInv, ClientInv
  <2> QED BY <2>1, <2>2, <2>3
<1>12. tx'.first_valid # None => newest[tx'.first_valid.net] <= tx'.first_valid.round
  BY <1>1, <1>3 DEF NoTx
<1> QED
  BY <1>4, <1>5, <1>10, <1>11, <1>12 DEF IInv

LEMMA ParamsKeeps ==
  ASSUME IInv, provider_tx_params_load, UNCHANGED port
  PROVE  IInv' /\ (tx'.first_valid # None =>
                     newest[tx'.first_valid.net] <= tx'.first_valid.round)
BY ParamsRequestFacts, ParamsParsedKeeps, ParamsNotFetchedKeeps

LEMMA StutterKeeps ==
  ASSUME IInv, UNCHANGED vars
  PROVE  IInv'
<1> USE DEF vars, httpVars, cacheVars, txVars, histVars
<1>1. ProviderTypeOK'
  BY DEF IInv, ProviderTypeOK
<1>2. HashIsNotAnothers' /\ HashOnceVersioned' /\ ReusedAreOfNet'
  BY DEF IInv, HashIsNotAnothers, HashOnceVersioned, ReusedAreOfNet, HandsOut
<1>3. VersionedInv' /\ LoadedInv' /\ IdIsOwn' /\ SuccessMeansFetched'
  BY DEF IInv, VersionedInv, LoadedInv, IdIsOwn, SuccessMeansFetched
<1>4. NewestInv' /\ ClientInv'
  BY DEF IInv, NewestInv, ClientInv
<1> QED
  BY <1>1, <1>2, <1>3, <1>4 DEF IInv

LEMMA NextKeeps == IInv /\ [Next]_vars => IInv'
<1> SUFFICES ASSUME IInv, [Next]_vars PROVE IInv'
  OBVIOUS
<1>1. ASSUME NEW n \in Nets, provider_init(n), UNCHANGED port PROVE IInv'
  BY <1>1, InitKeeps
<1>2. ASSUME NEW n \in Nets, NewRound(n), UNCHANGED port PROVE IInv'
  BY <1>2, NewRoundKeeps
<1>3. CASE OtherRequest /\ UNCHANGED port
  BY <1>3, OtherKeeps
<1>4. CASE provider_version_get /\ UNCHANGED port
  BY <1>4, VersionKeeps
<1>5. CASE provider_tx_params_load /\ UNCHANGED port
  BY <1>5, ParamsKeeps
<1>6. CASE provider_tx_post /\ UNCHANGED port
  BY <1>6, PostKeeps
<1>7. CASE UNCHANGED vars
  BY <1>7, StutterKeeps
<1> QED
  BY <1>1, <1>2, <1>3, <1>4, <1>5, <1>6, <1>7 DEF Next

LEMMA SpecIInv == Spec => []IInv
BY InitIInv, NextKeeps, PTL DEF Spec

-----------------------------------------------------------------------------
(* The state of the provider is of its types, for every number of          *)
(* networks, rounds and posts.                                             *)
THEOREM TypeCorrect == Spec => []ProviderTypeOK
<1>1. IInv => ProviderTypeOK
  BY DEF IInv
<1> QED BY <1>1, SpecIInv, PTL

(* As long as no answer was dropped, no transaction gets the genesis hash  *)
(* of another network.                                                     *)
THEOREM HashIsOfNetwork == Spec => []HashIsNotAnothers
<1>1. IInv => HashIsNotAnothers
  BY DEF IInv
<1> QED BY <1>1, SpecIInv, PTL

(* Once the version has been fetched every transaction that gets parameters*)
(* gets the network's hash, whatever fails later.                          *)
THEOREM HashIsKnown == Spec => []HashOnceVersioned
<1>1. IInv => HashOnceVersioned
  BY DEF IInv
<1> QED BY <1>1, SpecIInv, PTL

(* Parameters that are handed out again when a request fails are all of    *)
(* the network that the provider is connected to.                          *)
THEOREM ReuseCorrect == Spec => []ReusedAreOfNet
<1>1. IInv => ReusedAreOfNet
  BY DEF IInv
<1> QED BY <1>1, SpecIInv, PTL

(* provider_version_get returns VTC_SUCCESS only when it read the answer   *)
(* of the network that the provider is connected to.                       *)
THEOREM VersionIsFetched == Spec => []SuccessMeansFetched
<1>1. IInv => SuccessMeansFetched
  BY DEF IInv
<1> QED BY <1>1, SpecIInv, PTL

(* The id that provider_tx_post stores is that of the transaction it just  *)
(* posted.                                                                 *)
THEOREM IdBelongsToPost == Spec => []IdIsOwn
<1>1. IInv => IdIsOwn
  BY DEF IInv
<1> QED BY <1>1, SpecIInv, PTL

(* Of each network, no transaction is given an older first-valid round     *)
(* than one before it, with dropped answers and reused parameters too.     *)
THEOREM WindowCorrect == Spec => WindowMovesForward
<1>1. IInv /\ [Next]_vars =>
        [provider_tx_params_load =>
           LET first == tx'.first_valid
           IN first # None => first.round >= newest[first.net]]_vars
  <2> SUFFICES ASSUME IInv, Next, provider_tx_params_load, tx'.first_valid # None
               PROVE  tx'.first_valid.round >= newest[tx'.first_valid.net]
    OBVIOUS
  <2>1. newest[tx'.first_valid.net] <= tx'.first_valid.round
    BY ParamsKeeps DEF Next
  <2> QED BY <2>1
<1> QED BY <1>1, SpecIInv, PTL DEF Spec, WindowMovesForward

=============================================================================
