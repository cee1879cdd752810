--------------------------- MODULE AccountsProofs ---------------------------
(***************************************************************************)
(* Handles, and what the accounts make of the answers of nodes, for any    *)
(* number of slots, addresses, answers, applications and variables.        *)
(***************************************************************************)
EXTENDS Accounts, AccountParserProofs, WellFoundedInduction

-----------------------------------------------------------------------------
(* A free slot is found when there is one: a set of slots has a smallest.  *)
LEMMA LeastSlot ==
  ASSUME NEW S \in SUBSET Slots, S # {}
  PROVE  Min(S) \in S
<1>1. S \subseteq Nat
  BY AccountsAssumption DEF Slots
<1> DEFINE Less == {ss \in Nat \X Nat : ss[1] < ss[2]}
<1>2. IsWellFoundedOn(Less, Nat)
  BY NatLessThanWellFounded DEF OpToRel
<1>3. \E x \in S : \A y \in S : ~ (<<y, x>> \in Less)
  <2> HIDE DEF Less
  <2> QED BY <1>1, <1>2, WFMin
<1>4. PICK x \in S : \A y \in S : ~ (<<y, x>> \in Less)
  BY <1>3
<1>5. ASSUME NEW y \in S PROVE x <= y
  <2>1. x \in Nat /\ y \in Nat /\ <<y, x>> \in Nat \X Nat
    BY <1>1
  <2>2. y < x => <<y, x>> \in Less
    BY <2>1
  <2> QED BY <1>4, <2>1, <2>2
<1> QED
  BY <1>5 DEF Min

-----------------------------------------------------------------------------
(* The inductive invariant: what a slot is made of, and that the handles   *)
(* name slots.  Two handles of the same slot are the same by               *)
(* HandleKeepsAccount, which is why account_free may clear it.             *)
SlotsOK(slots) ==
  slots = [i \in Slots |-> [status |-> slots[i].status,
                            public_b32 |-> slots[i].public_b32,
                            details |-> slots[i].details]]

IInv ==
  /\ SlotsOK(m_accounts)
  /\ held \subseteq [slot : Slots, address : Addresses]
  /\ HandleKeepsAccount

(* A request changes nothing of a slot but its details. *)
LEMMA InfoKeepsSlots ==
  ASSUME NEW slots, SlotsOK(slots), NEW read, NEW i \in Slots,
         provider_account_info_get(slots, read, i)
  PROVE  /\ SlotsOK(m_accounts')
         /\ \A j \in Slots : /\ m_accounts'[j].status = slots[j].status
                             /\ m_accounts'[j].public_b32 = slots[j].public_b32
<1>1. CASE m_accounts' = slots
  BY <1>1
<1>2. ASSUME NEW d, m_accounts' = [slots EXCEPT ![i].details = d]
      PROVE  /\ SlotsOK(m_accounts')
             /\ \A j \in Slots : /\ m_accounts'[j].status = slots[j].status
                                 /\ m_accounts'[j].public_b32 = slots[j].public_b32
  <2>1. m_accounts' = [j \in Slots |-> IF j = i THEN [slots[i] EXCEPT !.details = d] ELSE slots[j]]
    BY <1>2 DEF SlotsOK
  <2>2. [slots[i] EXCEPT !.details = d] =
          [status |-> slots[i].status, public_b32 |-> slots[i].public_b32, details |-> d]
    BY DEF SlotsOK
  <2> QED
    BY <2>1, <2>2 DEF SlotsOK
<1> QED
  BY <1>1, <1>2 DEF provider_account_info_get

(* account_new keeps handles and slots together.                           *)
LEMMA NewKeeps ==
  ASSUME IInv, NEW a \in Addresses, account_new(a)
  PROVE  IInv'
<1>1. CASE UNCHANGED <<m_accounts, held>>
  BY <1>1 DEF IInv, HandleKeepsAccount
<1>2. CASE FreeSlots # {} /\ ~UNCHANGED <<m_accounts, held>>
  <2> DEFINE i == slot_taken
             slots == [m_accounts EXCEPT ![i].status = "added", ![i].public_b32 = a]
  <2>1. i \in Slots /\ m_accounts[i].status = "none"
    <3>1. FreeSlots \in SUBSET Slots
      BY DEF FreeSlots
    <3>2. i \in FreeSlots
      BY <1>2, <3>1, LeastSlot DEF slot_taken
    <3> QED
      BY <3>2 DEF FreeSlots
  <2>2. /\ provider_account_info_get(slots, [answers EXCEPT ![i] = <<>>], i)
        /\ held' = held \cup {[slot |-> i, address |-> a]}
    BY <1>2 DEF account_new
  <2>3. slots = [j \in Slots |->
                   IF j = i THEN [status |-> "added", public_b32 |-> a, details |-> m_accounts[i].details]
                   ELSE m_accounts[j]]
    <3>1. m_accounts = [j \in Slots |-> m_accounts[j]]
      BY DEF IInv, SlotsOK
    <3>2. m_accounts[i] = [status |-> m_accounts[i].status, public_b32 |-> m_accounts[i].public_b32,
                           details |-> m_accounts[i].details]
      BY <2>1 DEF IInv, SlotsOK
    <3> DEFINE once == [m_accounts EXCEPT ![i].status = "added"]
    <3>3. slots = [once EXCEPT ![i].public_b32 = a]
      OBVIOUS
    <3> HIDE DEF i
    <3>4. once = [j \in Slots |->
                   IF j = i THEN [status |-> "added", public_b32 |-> m_accounts[i].public_b32,
                                  details |-> m_accounts[i].details]
                   ELSE m_accounts[j]]
      BY <2>1, <3>1, <3>2
    <3> HIDE DEF once
    <3> QED
      BY <2>1, <3>3, <3>4
  <2>4. SlotsOK(slots)
    <3> HIDE DEF i
    <3> QED BY <2>3 DEF IInv, SlotsOK
  <2>5. /\ SlotsOK(m_accounts')
        /\ \A j \in Slots : /\ m_accounts'[j].status = slots[j].status
                            /\ m_accounts'[j].public_b32 = slots[j].public_b32
    <3> HIDE DEF slots
    <3> QED BY <2>1, <2>2, <2>4, InfoKeepsSlots
  <2>6. held' \subseteq [slot : Slots, address : Addresses]
    BY <2>1, <2>2 DEF IInv
  <2>7. HandleKeepsAccount'
    <3> SUFFICES ASSUME NEW h \in held'
                 PROVE  /\ m_accounts'[h.slot].status = "added"
                        /\ m_accounts'[h.slot].public_b32 = h.address
      BY DEF HandleKeepsAccount
    <3>1. CASE h = [slot |-> i, address |-> a]
      <4>1. slots[i].status = "added" /\ slots[i].public_b32 = a
        <5> HIDE DEF i
        <5> QED BY <2>1, <2>3
      <4> HIDE DEF slots, i
      <4> QED BY <2>1, <2>5, <3>1, <4>1
    <3>2. CASE h \in held
      <4>1. /\ h.slot \in Slots
            /\ m_accounts[h.slot].status = "added" /\ m_accounts[h.slot].public_b32 = h.address
        BY <3>2 DEF IInv, HandleKeepsAccount
      <4>2. h.slot # i
        BY <4>1, <2>1
      <4>3. slots[h.slot] = m_accounts[h.slot]
        <5> HIDE DEF i
        <5> QED BY <4>1, <4>2, <2>3
      <4> HIDE DEF slots, i
      <4> QED
        BY <4>1, <4>3, <2>5
    <3> QED BY <2>2, <3>1, <3>2
  <2> QED BY <2>5, <2>6, <2>7 DEF IInv
<1> QED
  BY <1>1, <1>2 DEF account_new

(* No other handle names the slot that is cleared. *)
LEMMA FreeKeeps ==
  ASSUME IInv, NEW h \in held, account_free(h)
  PROVE  IInv'
<1>1. /\ m_accounts' = [m_accounts EXCEPT ![h.slot] = EmptySlot] /\ held' = held \ {h}
      /\ h.slot \in Slots
  BY DEF account_free, slot_after_free, IInv
<1>2. SlotsOK(m_accounts')
  BY <1>1 DEF IInv, SlotsOK, EmptySlot
<1>3. HandleKeepsAccount'
  <2> SUFFICES ASSUME NEW g \in held, g # h
               PROVE  /\ m_accounts'[g.slot].status = "added"
                      /\ m_accounts'[g.slot].public_b32 = g.address
    BY <1>1 DEF HandleKeepsAccount
  <2>1. g \in [slot : Slots, address : Addresses] /\ h \in [slot : Slots, address : Addresses]
    BY DEF IInv
  <2>2. g.address = m_accounts[g.slot].public_b32 /\ h.address = m_accounts[h.slot].public_b32
    BY DEF IInv, HandleKeepsAccount
  <2>3. g.slot # h.slot
    BY <2>1, <2>2
  <2> QED
    BY <1>1, <2>1, <2>3 DEF IInv, SlotsOK, HandleKeepsAccount
<1> QED
  BY <1>1, <1>2, <1>3 DEF IInv

(* account_update keeps handles and slots together.                        *)
LEMMA UpdateKeeps ==
  ASSUME IInv, NEW i \in Slots, account_update(i)
  PROVE  IInv'
<1>1. /\ SlotsOK(m_accounts')
      /\ \A j \in Slots : /\ m_accounts'[j].status = m_accounts[j].status
                          /\ m_accounts'[j].public_b32 = m_accounts[j].public_b32
  BY InfoKeepsSlots DEF account_update, IInv
<1> QED
  BY <1>1 DEF account_update, IInv, HandleKeepsAccount

-----------------------------------------------------------------------------
(* A handle names the account it was returned for until it is freed, with  *)
(* any number of slots and addresses, whatever the answers do to details.  *)
THEOREM HandlesKeepAccounts == Spec => []HandleKeepsAccount
<1>1. Init => IInv
  BY DEF Init, IInv, SlotsOK, EmptySlot, HandleKeepsAccount
<1>2. IInv /\ [Next]_vars => IInv'
  <2> SUFFICES ASSUME IInv, [Next]_vars PROVE IInv'
    OBVIOUS
  <2>1. ASSUME NEW a \in Addresses, account_new(a) PROVE IInv'
    BY <2>1, NewKeeps
  <2>2. ASSUME NEW h \in held, account_free(h) PROVE IInv'
    BY <2>2, FreeKeeps
  <2>3. ASSUME NEW i \in Slots, account_update(i) PROVE IInv'
    BY <2>3, UpdateKeeps
  <2>4. CASE UNCHANGED <<m_accounts, held>>
    BY <2>4 DEF IInv, HandleKeepsAccount
  <2>5. CASE account_init
    BY <2>5 DEF account_init, IInv, SlotsOK, EmptySlot, HandleKeepsAccount
  <2> QED
    BY <2>1, <2>2, <2>3, <2>4, <2>5 DEF Next, vars, UnknownHandle
<1>3. IInv => HandleKeepsAccount
  BY DEF IInv
<1> QED
  BY <1>1, <1>2, <1>3, PTL DEF Spec

-----------------------------------------------------------------------------
(* The second invariant: what a slot has read is what the parser makes of  *)
(* its answers.  A free slot is empty, which is why the first answer of an *)
(* account is read into an empty one.                                      *)
Listed(s) == UNION {DOMAIN s[n].apps : n \in DOMAIN s}

ReadsOwn(read, s) ==
  Overflowed(read) \/ (\E n \in DOMAIN s : Misleads(s[n])) \/ OwnIds(read, Listed(s))

ReadsFirst(read, s) ==
  /\ s = <<>> => read = EmptyDetails
  /\ Len(s) = 1 => read = parser_account_mpack(Tokens(s[1]), EmptyDetails)

SlotReads(slot, s) ==
  /\ slot.status \in {"none", "added"} /\ slot.public_b32 \in Addresses \cup {NoAddress}
  /\ slot.status = "none" => slot = EmptySlot /\ s = <<>>
  /\ slot.details \in Details /\ s \in Seq(Answers)
  /\ ReadsOwn(slot.details, s) /\ ReadsFirst(slot.details, s)

AllRead(slots, read) ==
  /\ SlotsOK(slots)
  /\ read = [i \in Slots |-> read[i]]
  /\ \A i \in Slots : SlotReads(slots[i], read[i])

ReadInv ==
  /\ IInv
  /\ AllRead(m_accounts, answers)
  /\ ret \in {"SUCCESS", "NO_MEM", "HTTP", "NOT_FOUND", "INVALID_PARAM"}
  /\ fetches \in 0..MaxFetches

(* An empty account has read nothing, which is all its own.                *)
LEMMA EmptyReads ==
  /\ EmptyDetails \in Details
  /\ ReadsOwn(EmptyDetails, <<>>) /\ ReadsFirst(EmptyDetails, <<>>)
  /\ <<>> \in Seq(Answers)
<1>1. EmptyDetails \in Details
  BY AccountParserAssumption DEF EmptyDetails, Details, Amounts, AppIdxs
<1>2. EmptyDetails.app_idx = 0 /\ 0..(0 - 1) = {}
  BY DEF EmptyDetails
<1>3. ReadsOwn(EmptyDetails, <<>>)
  <2> HIDE DEF EmptyDetails
  <2> QED BY <1>2 DEF ReadsOwn, OwnIds
<1>4. ReadsFirst(EmptyDetails, <<>>)
  BY DEF ReadsFirst
<1> QED
  BY <1>1, <1>3, <1>4

(* One more answer of a node.                                              *)
LEMMA AnswerReads ==
  ASSUME NEW a \in Details, NEW s \in Seq(Answers), ReadsOwn(a, s), ReadsFirst(a, s), NEW d \in Answers
  PROVE  LET b == parser_account_mpack(Tokens(d), a) IN
         /\ b \in Details /\ Append(s, d) \in Seq(Answers)
         /\ ReadsOwn(b, Append(s, d)) /\ ReadsFirst(b, Append(s, d))
<1> DEFINE b == parser_account_mpack(Tokens(d), a)
           t == Append(s, d)
           A == Listed(t)
<1>1. IsAnswer(d)
  BY AccountsAssumption
<1>2. b \in Details
  BY <1>1, AnswerGrows
<1>3. /\ t \in Seq(Answers) /\ Len(s) \in Nat /\ Len(t) = Len(s) + 1 /\ t # <<>>
      /\ DOMAIN s = 1..Len(s) /\ DOMAIN t = 1..Len(t)
      /\ t[Len(t)] = d /\ \A n \in 1..Len(s) : t[n] = s[n]
  OBVIOUS
<1>4. ReadsFirst(b, t)
  <2>1. ASSUME Len(t) = 1 PROVE b = parser_account_mpack(Tokens(t[1]), EmptyDetails)
    <3>1. Len(s) = 0
      BY <1>3, <2>1
    <3>2. s = <<>> /\ t[1] = d
      BY <1>3, <2>1, <3>1
    <3>3. a = EmptyDetails
      BY <3>2 DEF ReadsFirst
    <3> HIDE DEF t
    <3> QED BY <3>2, <3>3
  <2> HIDE DEF b, t
  <2> QED BY <1>3, <2>1 DEF ReadsFirst
<1> HIDE DEF b, t
<1>5. DOMAIN d.apps \subseteq A
  BY <1>3 DEF Listed
<1>6. Listed(s) \subseteq A
  <2>1. ASSUME NEW n \in DOMAIN s PROVE DOMAIN s[n].apps \subseteq A
    <3>1. n \in DOMAIN t /\ t[n] = s[n]
      BY <1>3
    <3> QED BY <3>1 DEF Listed
  <2> QED BY <2>1 DEF Listed
<1> HIDE DEF A
<1>7. CASE \E n \in DOMAIN s : Misleads(s[n])
  <2>1. PICK n \in DOMAIN s : Misleads(s[n])
    BY <1>7
  <2>2. n \in DOMAIN t /\ t[n] = s[n]
    BY <1>3
  <2>3. ReadsOwn(b, t)
    BY <2>1, <2>2 DEF ReadsOwn
  <2> QED BY <1>2, <1>3, <1>4, <2>3 DEF b, t
<1>8. CASE Misleads(d)
  <2>1. Len(t) \in DOMAIN t
    BY <1>3
  <2>2. ReadsOwn(b, t)
    BY <1>3, <1>8, <2>1 DEF ReadsOwn
  <2> QED BY <1>2, <1>3, <1>4, <2>2 DEF b, t
<1>9. CASE ~Misleads(d) /\ ~\E n \in DOMAIN s : Misleads(s[n])
  <2>1. Overflowed(a) \/ OwnIds(a, Listed(s))
    BY <1>9 DEF ReadsOwn
  <2>2. Overflowed(a) \/ OwnIds(a, A)
    <3>1. OwnIds(a, Listed(s)) => OwnIds(a, A)
      BY <1>6 DEF OwnIds
    <3> QED BY <2>1, <3>1
  <2>3. Overflowed(b) \/ OwnIds(b, A)
    BY <1>1, <1>5, <1>9, <2>2, AnswerKeepsOwnIds DEF b
  <2>4. ReadsOwn(b, t)
    BY <2>3 DEF ReadsOwn, A
  <2> QED BY <1>2, <1>3, <1>4, <2>4 DEF b, t
<1> QED
  BY <1>7, <1>8, <1>9

(* A request to the node adds its answer to those read from, or fails and  *)
(* changes nothing.                                                        *)
LEMMA InfoReads ==
  ASSUME NEW slots, NEW read, AllRead(slots, read), NEW i \in Slots, fetches \in 0..MaxFetches,
         provider_account_info_get(slots, read, i)
  PROVE  /\ AllRead(m_accounts', answers')
         /\ ret' \in {"SUCCESS", "HTTP"} /\ fetches' \in 0..MaxFetches
<1>1. CASE m_accounts' = slots /\ answers' = read /\ ret' = "HTTP" /\ UNCHANGED fetches
  BY <1>1
<1>2. CASE /\ slots[i].public_b32 # NoAddress /\ fetches < MaxFetches /\ fetches' = fetches + 1
           /\ \E d \in Answers :
                /\ m_accounts' =
                     [slots EXCEPT ![i].details = parser_account_mpack(AnswerTokens[d], slots[i].details)]
                /\ answers' = [read EXCEPT ![i] = Append(@, d)]
           /\ ret' = "SUCCESS"
  <2>1. PICK d \in Answers :
          /\ m_accounts' =
               [slots EXCEPT ![i].details = parser_account_mpack(AnswerTokens[d], slots[i].details)]
          /\ answers' = [read EXCEPT ![i] = Append(@, d)]
    BY <1>2
  <2> DEFINE a == slots[i].details
             b == parser_account_mpack(Tokens(d), a)
             s == read[i]
             t == Append(s, d)
  <2>2. AnswerTokens[d] = Tokens(d)
    BY DEF AnswerTokens
  <2>3. SlotReads(slots[i], s) /\ SlotsOK(slots) /\ read = [j \in Slots |-> read[j]]
    BY DEF AllRead
  <2>4. b \in Details /\ t \in Seq(Answers) /\ ReadsOwn(b, t) /\ ReadsFirst(b, t)
    <3>1. a \in Details /\ s \in Seq(Answers) /\ ReadsOwn(a, s) /\ ReadsFirst(a, s)
      BY <2>3 DEF SlotReads
    <3> HIDE DEF a, s
    <3> QED BY <3>1, AnswerReads
  <2>5. slots[i].status # "none" /\ slots[i].status \in {"none", "added"}
        /\ slots[i].public_b32 \in Addresses \cup {NoAddress}
    BY <1>2, <2>3 DEF SlotReads, EmptySlot
  <2> DEFINE new == [status |-> slots[i].status, public_b32 |-> slots[i].public_b32, details |-> b]
  <2>6. m_accounts' = [j \in Slots |-> IF j = i THEN new ELSE slots[j]]
    <3>1. slots = [j \in Slots |-> slots[j]]
      BY <2>3 DEF SlotsOK
    <3>2. slots[i] = [status |-> slots[i].status, public_b32 |-> slots[i].public_b32, details |-> slots[i].details]
      BY <2>3 DEF SlotsOK
    <3>3. m_accounts' = [slots EXCEPT ![i].details = b]
      BY <2>1, <2>2
    <3> HIDE DEF b
    <3> QED BY <3>1, <3>2, <3>3
  <2>7. answers' = [j \in Slots |-> IF j = i THEN t ELSE read[j]]
    BY <2>1, <2>3
  <2>8. SlotReads(new, t)
    <3> HIDE DEF b, t
    <3> QED BY <2>4, <2>5 DEF SlotReads
  <2> HIDE DEF new, t
  <2>9. \A j \in Slots : SlotReads(m_accounts'[j], answers'[j])
    BY <2>6, <2>7, <2>8 DEF AllRead
  <2>10. SlotsOK(m_accounts')
    BY <2>3, <2>6 DEF SlotsOK, new
  <2>11. answers' = [j \in Slots |-> answers'[j]]
    BY <2>7
  <2>12. fetches' \in 0..MaxFetches
    BY <1>2, AccountsAssumption
  <2> QED BY <1>2, <2>9, <2>10, <2>11, <2>12 DEF AllRead
<1> QED
  BY <1>1, <1>2 DEF provider_account_info_get

(* A new account starts with no answer, then reads the first.              *)
LEMMA NewReads ==
  ASSUME ReadInv, NEW a \in Addresses, account_new(a)
  PROVE  AllRead(m_accounts', answers') /\ ret' \in {"SUCCESS", "NO_MEM", "HTTP"} /\ fetches' \in 0..MaxFetches
<1>1. CASE FreeSlots = {} /\ ret' = "NO_MEM" /\ UNCHANGED <<m_accounts, held, fetches, answers>>
  BY <1>1 DEF ReadInv
<1>2. CASE FreeSlots # {} /\ ~UNCHANGED <<m_accounts, held, fetches, answers>>
  <2> DEFINE i == slot_taken
             slots == [m_accounts EXCEPT ![i].status = "added", ![i].public_b32 = a]
             read == [answers EXCEPT ![i] = <<>>]
             new == [status |-> "added", public_b32 |-> a, details |-> EmptyDetails]
  <2>1. i \in Slots /\ m_accounts[i].status = "none"
    <3>1. FreeSlots \in SUBSET Slots
      BY DEF FreeSlots
    <3>2. i \in FreeSlots
      BY <1>2, <3>1, LeastSlot DEF slot_taken
    <3> QED
      BY <3>2 DEF FreeSlots
  <2>2. provider_account_info_get(slots, read, i)
    BY <1>2 DEF account_new
  <2>3. m_accounts[i] = EmptySlot /\ AllRead(m_accounts, answers)
    BY <2>1 DEF ReadInv, AllRead, SlotReads
  <2>4. m_accounts = [j \in Slots |-> m_accounts[j]] /\ answers = [j \in Slots |-> answers[j]]
    BY <2>3 DEF AllRead, SlotsOK
  <2>5. slots = [j \in Slots |-> IF j = i THEN new ELSE m_accounts[j]]
    <3> DEFINE once == [m_accounts EXCEPT ![i].status = "added"]
    <3>1. slots = [once EXCEPT ![i].public_b32 = a]
      OBVIOUS
    <3> HIDE DEF i
    <3>2. once = [j \in Slots |->
                   IF j = i THEN [status |-> "added", public_b32 |-> NoAddress, details |-> EmptyDetails]
                   ELSE m_accounts[j]]
      <4> HIDE DEF EmptyDetails
      <4> QED BY <2>1, <2>3, <2>4 DEF EmptySlot
    <3> HIDE DEF once
    <3> QED
      BY <2>1, <3>1, <3>2
  <2>6. SlotReads(new, <<>>)
    <3> HIDE DEF EmptyDetails
    <3> QED BY EmptyReads DEF SlotReads
  <2> HIDE DEF i
  <2>7. read = [j \in Slots |-> IF j = i THEN <<>> ELSE answers[j]]
    BY <2>4
  <2>8. SlotsOK(slots)
    <3>1. SlotsOK(m_accounts)
      BY <2>3 DEF AllRead
    <3> HIDE DEF EmptyDetails, slots
    <3> QED BY <2>5, <3>1 DEF SlotsOK
  <2> HIDE DEF slots, read, new
  <2>9. \A j \in Slots : SlotReads(slots[j], read[j])
    BY <2>3, <2>5, <2>6, <2>7 DEF AllRead
  <2>10. read = [j \in Slots |-> read[j]]
    BY <2>7
  <2>11. AllRead(slots, read)
    BY <2>8, <2>9, <2>10 DEF AllRead
  <2>12. fetches \in 0..MaxFetches
    BY DEF ReadInv
  <2> QED BY <2>1, <2>2, <2>11, <2>12, InfoReads
<1>3. CASE FreeSlots # {} /\ UNCHANGED <<m_accounts, held, fetches, answers>>
  <2>1. ret' \in {"SUCCESS", "HTTP"}
    BY <1>3 DEF account_new, provider_account_info_get
  <2> QED BY <1>3, <2>1 DEF ReadInv
<1> QED
  BY <1>1, <1>2, <1>3 DEF account_new

(* A slot that is freed is empty and has read no answer.                   *)
LEMMA FreeReads ==
  ASSUME ReadInv, NEW i \in Slots,
         m_accounts' = [m_accounts EXCEPT ![i] = EmptySlot], answers' = [answers EXCEPT ![i] = <<>>]
  PROVE  AllRead(m_accounts', answers')
<1>1. AllRead(m_accounts, answers)
  BY DEF ReadInv
<1>2. m_accounts' = [j \in Slots |-> IF j = i THEN EmptySlot ELSE m_accounts[j]]
  BY <1>1 DEF AllRead, SlotsOK
<1>3. answers' = [j \in Slots |-> IF j = i THEN <<>> ELSE answers[j]]
  BY <1>1 DEF AllRead
<1>4. SlotReads(EmptySlot, <<>>) /\ EmptySlot = [status |-> EmptySlot.status, public_b32 |-> EmptySlot.public_b32,
                                                 details |-> EmptySlot.details]
  <2> HIDE DEF EmptyDetails
  <2> QED BY EmptyReads DEF SlotReads, EmptySlot
<1> HIDE DEF EmptySlot
<1>5. SlotsOK(m_accounts')
  BY <1>1, <1>2, <1>4 DEF AllRead, SlotsOK
<1>6. \A j \in Slots : SlotReads(m_accounts'[j], answers'[j])
  BY <1>1, <1>2, <1>3, <1>4 DEF AllRead
<1>7. answers' = [j \in Slots |-> answers'[j]]
  BY <1>3
<1> QED
  BY <1>5, <1>6, <1>7 DEF AllRead

(* Slots that were never used are empty.                                   *)
LEMMA AllEmpty ==
  ASSUME NEW slots, slots = [i \in Slots |-> EmptySlot], NEW read, read = [i \in Slots |-> <<>>]
  PROVE  AllRead(slots, read)
<1>1. SlotReads(EmptySlot, <<>>) /\ EmptySlot = [status |-> EmptySlot.status, public_b32 |-> EmptySlot.public_b32,
                                                 details |-> EmptySlot.details]
  <2> HIDE DEF EmptyDetails
  <2> QED BY EmptyReads DEF SlotReads, EmptySlot
<1> HIDE DEF EmptySlot
<1> QED
  BY <1>1 DEF AllRead, SlotsOK

(* What the accounts hold always comes from the answers read for them: a   *)
(* free slot is empty, the stored ids are the account's own unless an      *)
(* answer overflowed the details or misled the parser, and after one       *)
(* answer the details are what the parser makes of it.                     *)
THEOREM ReadInvHolds == Spec => []ReadInv
<1>1. Init => ReadInv
  <2> SUFFICES ASSUME Init PROVE ReadInv
    OBVIOUS
  <2>1. IInv
    BY DEF Init, IInv, SlotsOK, EmptySlot, HandleKeepsAccount
  <2>2. AllRead(m_accounts, answers)
    BY AllEmpty DEF Init
  <2> QED BY <2>1, <2>2, AccountsAssumption DEF ReadInv, Init
<1>2. ReadInv /\ [Next]_vars => ReadInv'
  <2> SUFFICES ASSUME ReadInv, [Next]_vars PROVE ReadInv'
    OBVIOUS
  <2>0. IInv
    BY DEF ReadInv
  <2>1. ASSUME NEW a \in Addresses, account_new(a) PROVE ReadInv'
    BY <2>0, <2>1, NewKeeps, NewReads DEF ReadInv
  <2>2. ASSUME NEW h \in held, account_free(h) PROVE ReadInv'
    <3>1. h.slot \in Slots
      BY <2>0 DEF IInv
    <3>2. m_accounts' = [m_accounts EXCEPT ![h.slot] = EmptySlot] /\ answers' = [answers EXCEPT ![h.slot] = <<>>]
          /\ ret' = "SUCCESS" /\ fetches' = fetches
      BY <2>2 DEF account_free, slot_after_free
    <3>3. AllRead(m_accounts', answers')
      BY <3>1, <3>2, FreeReads
    <3> QED BY <2>0, <2>2, <3>2, <3>3, FreeKeeps DEF ReadInv
  <2>3. ASSUME NEW i \in Slots, account_update(i) PROVE ReadInv'
    <3>1. AllRead(m_accounts, answers) /\ fetches \in 0..MaxFetches
      BY DEF ReadInv
    <3>2. provider_account_info_get(m_accounts, answers, i)
      BY <2>3 DEF account_update
    <3>3. AllRead(m_accounts', answers') /\ ret' \in {"SUCCESS", "HTTP"} /\ fetches' \in 0..MaxFetches
      BY <3>1, <3>2, InfoReads
    <3> QED BY <2>0, <2>3, <3>3, UpdateKeeps DEF ReadInv
  <2>4. CASE UnknownHandle("NOT_FOUND") \/ UnknownHandle("INVALID_PARAM")
    BY <2>4 DEF UnknownHandle, ReadInv, IInv, HandleKeepsAccount
  <2>5. CASE account_init
    <3>1. IInv'
      BY <2>5 DEF account_init, IInv, SlotsOK, EmptySlot, HandleKeepsAccount
    <3>2. AllRead(m_accounts', answers')
      BY <2>5, AllEmpty DEF account_init
    <3> QED BY <2>5, <3>1, <3>2 DEF account_init, ReadInv
  <2>6. CASE UNCHANGED vars
    BY <2>6 DEF vars, ReadInv, IInv, HandleKeepsAccount
  <2> QED
    BY <2>1, <2>2, <2>3, <2>4, <2>5, <2>6 DEF Next
<1> QED
  BY <1>1, <1>2, PTL DEF Spec

(* No amount leaves the 32 bits of an int32_t, and no account has more     *)
(* applications than there is room for, whatever nodes answer.             *)
THEOREM AccountTypesCorrect == Spec => []AccountsTypeOK
<1>1. ReadInv => AccountsTypeOK
  <2> SUFFICES ASSUME ReadInv PROVE AccountsTypeOK
    OBVIOUS
  <2>1. ASSUME NEW i \in Slots
        PROVE  /\ m_accounts[i].status \in {"none", "added"}
               /\ m_accounts[i].public_b32 \in Addresses \cup {NoAddress}
               /\ m_accounts[i].details.app_idx \in 0..AppsMaxCount
               /\ m_accounts[i].details.amount \in (0 - IntRange \div 2)..(IntRange \div 2 - 1)
    <3> DEFINE slot == m_accounts[i]
    <3>1. SlotReads(slot, answers[i])
      BY DEF ReadInv, AllRead
    <3> HIDE DEF slot
    <3>2. slot.status \in {"none", "added"} /\ slot.public_b32 \in Addresses \cup {NoAddress} /\ slot.details \in Details
      BY <3>1 DEF SlotReads
    <3>3. slot.details.app_idx \in 0..AppsMaxCount /\ slot.details.amount \in Amounts
      BY <3>2 DEF Details
    <3> QED BY <3>2, <3>3 DEF slot, Amounts
  <2> QED
    BY <2>1 DEF ReadInv, IInv, AccountsTypeOK
<1> QED
  BY <1>1, ReadInvHolds, PTL

(* The parser takes nothing but applications for applications, as long as  *)
(* no application has more variables than there are places and no name     *)
(* misleads it; and no account has those of another.                       *)
THEOREM AppsAreOwn == Spec => []AppsAreItsOwn
<1>1. ReadInv => AppsAreItsOwn
  <2> SUFFICES ASSUME ReadInv, NEW i \in Slots,
                      ~Overflowed(m_accounts[i].details),
                      ~\E n \in DOMAIN answers[i] : Misleads(answers[i][n]),
                      NEW a \in HasApps(i)
               PROVE  \E n \in DOMAIN answers[i] : a \in DOMAIN answers[i][n].apps
    BY DEF AppsAreItsOwn
  <2> DEFINE read == m_accounts[i].details
  <2>1. ReadsOwn(read, answers[i])
    BY DEF ReadInv, AllRead, SlotReads
  <2>2. OwnIds(read, Listed(answers[i]))
    BY <2>1 DEF ReadsOwn
  <2>3. a \in Listed(answers[i])
    BY <2>2 DEF HasApps, OwnIds
  <2> QED BY <2>3 DEF Listed
<1> QED
  BY <1>1, ReadInvHolds, PTL

(* What fits in the structures of an account is read completely by the     *)
(* first request for it.                                                   *)
THEOREM FirstAnswerRead == Spec => []FirstAnswerIsRead
<1>1. ReadInv => FirstAnswerIsRead
  <2> SUFFICES ASSUME ReadInv, NEW i \in Slots, Len(answers[i]) = 1, Fits(answers[i][1])
               PROVE  LET d == answers[i][1]
                          read == m_accounts[i].details
                      IN /\ d.algo < IntRange \div 2 => read.amount = d.algo
                         /\ HasApps(i) = DOMAIN d.apps
                         /\ read.app_idx = Cardinality(DOMAIN d.apps)
                         /\ \A j \in 0..(read.app_idx - 1) :
                              read.apps[j].kv_count = Len(d.apps[read.apps[j].app_id])
    BY DEF FirstAnswerIsRead
  <2> DEFINE d == answers[i][1]
             read == m_accounts[i].details
             n == AppCount(d)
             ids == IdsOf(d)
  <2>1. d \in Answers /\ IsAnswer(d)
    <3>1. answers[i] \in Seq(Answers)
      BY DEF ReadInv, AllRead, SlotReads
    <3>2. d \in Answers
      BY <3>1
    <3> QED BY <3>2, AccountsAssumption
  <2>2. read = parser_account_mpack(Tokens(d), EmptyDetails)
    BY DEF ReadInv, AllRead, SlotReads, ReadsFirst
  <2> HIDE DEF d, read, n, ids
  <2>3. /\ read.amount = (IF d.algo # 0 THEN AsInt32(d.algo) ELSE 0)
        /\ read \in ReadApps(d, read.amount, n)
    BY <2>1, <2>2, FirstRead DEF d, n
  <2>4. /\ read.app_idx = n
        /\ \A j \in 0..(n - 1) : read.apps[j].app_id = ids[j + 1]
        /\ \A j \in 0..(n - 1) : read.apps[j].kv_count = Len(d.apps[ids[j + 1]])
    BY <2>3 DEF ReadApps, AppIsRead, ids
  <2>5. n \in Nat /\ ids \in [1..n -> DOMAIN d.apps] /\ \A app \in DOMAIN d.apps : \E k \in 1..n : ids[k] = app
    BY <2>1, IdsAreSorted, IdsAreAll DEF n, ids, AppCount, IdsOf
  <2>6. d.algo < IntRange \div 2 => read.amount = d.algo
    <3> DEFINE h == IntRange \div 2
    <3>1. h \in Nat /\ IntRange = 2 * h /\ IntRange \in Nat \ {0} /\ d.algo \in Nat
      BY <2>1, AccountParserAssumption DEF IsAnswer
    <3> HIDE DEF h
    <3>2. ASSUME d.algo < h PROVE AsInt32(d.algo) = d.algo
      <4>1. d.algo + h \in 0..(IntRange - 1)
        BY <3>1, <3>2
      <4>2. (d.algo + h) % IntRange = d.algo + h
        BY <3>1, <4>1
      <4> QED BY <3>1, <4>2 DEF AsInt32, h
    <3> QED BY <2>3, <3>2 DEF h
  <2>7. HasApps(i) = DOMAIN d.apps
    <3>1. HasApps(i) = {read.apps[j].app_id : j \in 0..(n - 1)}
      BY <2>4 DEF HasApps, read
    <3>2. ASSUME NEW j \in 0..(n - 1) PROVE read.apps[j].app_id \in DOMAIN d.apps
      <4>1. j + 1 \in 1..n
        BY <2>5
      <4> QED BY <2>4, <2>5, <4>1
    <3>3. ASSUME NEW app \in DOMAIN d.apps PROVE \E j \in 0..(n - 1) : read.apps[j].app_id = app
      <4>1. PICK k \in 1..n : ids[k] = app
        BY <2>5
      <4>2. k - 1 \in 0..(n - 1) /\ (k - 1) + 1 = k
        BY <2>5
      <4> QED BY <2>4, <4>1, <4>2
    <3> QED BY <3>1, <3>2, <3>3
  <2>8. \A j \in 0..(read.app_idx - 1) : read.apps[j].kv_count = Len(d.apps[read.apps[j].app_id])
    BY <2>4
  <2> QED BY <2>4, <2>6, <2>7, <2>8 DEF d, read, n, AppCount
<1> QED
  BY <1>1, ReadInvHolds, PTL

=============================================================================
