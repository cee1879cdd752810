--------------------------- MODULE ExamplesProofs ---------------------------
(***************************************************************************)
(* What holds of the examples for any number of keys and transactions, and *)
(* any number of runs that end, fail or are killed.                        *)
(***************************************************************************)
EXTENDS Examples, TLAPS

-----------------------------------------------------------------------------
(* The inductive invariant.                                                *)

TypesInv ==
  /\ program \in Programs
  /\ step \in Steps
  /\ args \in Arguments
  /\ files \in [private : Keys \cup {NoKey, Empty}, address : Keys \cup {NoKey, Empty}]
  /\ alice \in [private_key : Keys \cup {NoKey}, account : Keys \cup {NoKey}, amount : {"low", "enough"}]
  /\ wallet \subseteq {"alice", "bob"}
  /\ queue \in Seq(TxRecords)
  /\ posted \in Seq(TxRecords)
  /\ generated \in 0..MaxKeys
  /\ submitted \in 0..MaxTx
  /\ balance \in [Keys -> Amounts]
  /\ mine \subseteq 1..MaxTx
  /\ torn \in BOOLEAN

Submitted == {"submit_call", "process", "free_alice", "free_bob", "done"}

(* What the program has at each of its steps. *)
StepInv ==
  /\ step \in {"off", "connect", "account"} => alice = NoAccount
  /\ step \in {"write_private", "add_alice"} => alice.account = NoKey /\ alice.private_key \in Keys
  /\ step \notin {"off", "connect", "account", "write_private", "add_alice"} => alice.account \in Keys
  /\ step \notin {"submit_call", "process"} => queue = <<>>
  /\ step = "process" => queue # <<>>
  /\ step \notin Submitted \cup {"off"} => mine = {}
  /\ step = "free_bob" => wallet \subseteq {"bob"}
  /\ step = "done" => wallet = {}

(* The files are of one key pair, and while they are written they are of   *)
(* the pair in memory.                                                     *)
FilesInv ==
  /\ ~torn /\ step \notin Creating => files.private = files.address
  /\ ~torn /\ step \in Creating \ {"write_private"} => files.private = alice.private_key
  /\ step \in {"open_address", "write_address"} => alice.private_key = alice.account

(* A transaction has one event; it is on the network exactly when that is  *)
(* TX_SUCCESS.                                                             *)
QueueInv ==
  /\ \A i \in DOMAIN posted : posted[i].id <= submitted
  /\ \A i \in DOMAIN queue : queue[i].id <= submitted
  /\ \A i, j \in DOMAIN queue : queue[i].id = queue[j].id => i = j
  /\ \A i \in DOMAIN queue, j \in DOMAIN posted :
       posted[j].id = queue[i].id => queue[i].event = "TX_SUCCESS"
  /\ \A i \in DOMAIN queue : queue[i].event = "TX_SUCCESS" =>
       \E j \in DOMAIN posted : posted[j].id = queue[i].id

(* Nothing that was submitted is forgotten. *)
MineInv ==
  step \in Submitted =>
    /\ mine # {}
    /\ \A n \in mine : \/ \E j \in DOMAIN posted : posted[j].id = n
                       \/ \E i \in DOMAIN queue : queue[i].id = n

IInv ==
  /\ TypesInv
  /\ StepInv
  /\ FilesInv
  /\ KeysMatch
  /\ QueueInv
  /\ PostedOnce
  /\ MineInv

-----------------------------------------------------------------------------
LEMMA InitIInv == Init => IInv
<1> SUFFICES ASSUME Init PROVE IInv
  OBVIOUS
<1> USE ExamplesAssumption DEF Init
<1>1. TypesInv
  <2>1. files \in [private : Keys \cup {NoKey, Empty}, address : Keys \cup {NoKey, Empty}]
    BY DEF Keys
  <2>2. generated \in 0..MaxKeys /\ submitted \in 0..MaxTx /\ balance \in [Keys -> Amounts]
    BY DEF Amounts
  <2>3. queue \in Seq(TxRecords) /\ posted \in Seq(TxRecords)
    OBVIOUS
  <2>4. args \in Arguments /\ alice \in [private_key : Keys \cup {NoKey}, account : Keys \cup {NoKey}, amount : {"low", "enough"}]
    BY DEF Arguments, NoAccount
  <2> QED
    BY <2>1, <2>2, <2>3, <2>4 DEF TypesInv, Steps
<1>2. StepInv /\ MineInv
  BY DEF StepInv, MineInv, Submitted
<1>3. FilesInv
  BY DEF FilesInv, Creating
<1>4. KeysMatch
  BY DEF KeysMatch, NoAccount
<1>5. QueueInv /\ PostedOnce
  BY DEF QueueInv, PostedOnce
<1> QED
  BY <1>1, <1>2, <1>3, <1>4, <1>5 DEF IInv

(* The program's memory is gone. *)
LEMMA ClearedKeeps ==
  ASSUME IInv, ClearRam, NEW a \in Arguments, args' = a,
         step' \in {"off", "connect"}, step' = "connect" => mine' = {},
         mine' \in {mine, {}}, program' = program,
         files' = files, generated' = generated, submitted' = submitted, balance' = balance,
         posted' = posted, torn' \in BOOLEAN, ~torn' => ~torn /\ step \notin Creating
  PROVE  IInv'
<1> USE DEF ClearRam
<1>1. TypesInv'
  BY DEF IInv, TypesInv, NoAccount, Steps
<1>2. StepInv' /\ MineInv'
  BY DEF StepInv, MineInv, Submitted
<1>3. FilesInv'
  BY DEF IInv, FilesInv, Creating
<1>4. KeysMatch'
  BY DEF KeysMatch, NoAccount
<1>5. QueueInv' /\ PostedOnce'
  BY DEF IInv, QueueInv, PostedOnce
<1> QED
  BY <1>1, <1>2, <1>3, <1>4, <1>5 DEF IInv

(* The transactions are as before. *)
LEMMA SameQueue ==
  ASSUME IInv, UNCHANGED <<queue, posted, submitted, mine>>,
         step' \in Submitted => step \in Submitted
  PROVE  QueueInv' /\ PostedOnce' /\ MineInv'
BY DEF IInv, QueueInv, PostedOnce, MineInv

LEMMA DispenseKeeps ==
  ASSUME IInv, NEW k \in Keys, NEW n \in {"enough", "huge"}, Dispense(k, n)
  PROVE  IInv'
<1> USE DEF Dispense, ram
<1>1. TypesInv'
  BY DEF IInv, TypesInv, Amounts
<1>2. StepInv' /\ FilesInv' /\ KeysMatch'
  BY DEF IInv, StepInv, FilesInv, KeysMatch
<1> QED
  BY <1>1, <1>2, SameQueue DEF IInv

LEMMA StartKeeps ==
  ASSUME IInv, NEW a \in Arguments, Start(a)
  PROVE  IInv'
BY ClearedKeeps DEF Start, Ends, Creating, IInv, TypesInv

LEMMA KilledKeeps ==
  ASSUME IInv, Killed
  PROVE  IInv'
<1>1. torn \in BOOLEAN /\ args \in Arguments
  BY DEF IInv, TypesInv
<1>2. torn' \in BOOLEAN /\ (~torn' => ~torn /\ step \notin Creating)
  BY <1>1 DEF Killed
<1> QED
  BY <1>1, <1>2, ClearedKeeps DEF Killed

(* A failed assertion, outside the creation of an account. *)
LEMMA TrapKeeps ==
  ASSUME IInv, Traps, step \notin Creating \/ torn',
         torn' \in {torn, TRUE}, posted' = posted, UNCHANGED <<program, args, files, submitted, balance, mine, generated>>
  PROVE  IInv'
<1>1. torn \in BOOLEAN /\ args \in Arguments
  BY DEF IInv, TypesInv
<1> QED
  BY <1>1, ClearedKeeps DEF Traps

LEMMA ConnectKeeps ==
  ASSUME IInv, Connect
  PROVE  IInv'
<1>1. CASE Traps
  BY <1>1, TrapKeeps DEF Connect, Creating
<1>2. CASE step' = "account" /\ UNCHANGED ram
  <2> USE <1>2 DEF Connect, ram
  <2>1. TypesInv'
    BY DEF IInv, TypesInv, Steps
  <2>2. StepInv' /\ FilesInv' /\ KeysMatch'
    BY DEF IInv, StepInv, FilesInv, KeysMatch, Creating, Submitted
  <2>3. QueueInv' /\ PostedOnce' /\ MineInv'
    BY SameQueue DEF Submitted
  <2> QED
    BY <2>1, <2>2, <2>3 DEF IInv
<1> QED
  BY <1>1, <1>2 DEF Connect

-----------------------------------------------------------------------------
(* The creation of an account, file by file.                               *)

LEMMA CreateKeysKeeps ==
  ASSUME IInv, CreateKeys
  PROVE  IInv'
<1>1. generated + 1 \in Keys /\ generated' \in 0..MaxKeys /\ generated' = generated + 1
  BY ExamplesAssumption DEF CreateKeys, IInv, TypesInv, Keys
<1>2. CASE Traps /\ UNCHANGED <<files, torn>>
  <2> USE <1>2 DEF CreateKeys, Traps, ClearRam
  <2>1. TypesInv'
    BY <1>1 DEF IInv, TypesInv, Steps, NoAccount
  <2>2. StepInv' /\ FilesInv' /\ KeysMatch' /\ MineInv'
    BY DEF IInv, StepInv, FilesInv, KeysMatch, Creating, Submitted, NoAccount, MineInv
  <2>3. QueueInv' /\ PostedOnce'
    BY DEF IInv, QueueInv, PostedOnce
  <2> QED
    BY <2>1, <2>2, <2>3 DEF IInv
<1>3. CASE /\ alice' = [alice EXCEPT !.private_key = generated + 1]
           /\ files' = [files EXCEPT !.private = Empty]
           /\ torn' = FALSE
           /\ step' = "write_private"
           /\ UNCHANGED <<wallet, queue>>
  <2> USE <1>3 DEF CreateKeys
  <2>1. /\ alice.account = NoKey /\ queue = <<>> /\ mine = {}
        /\ alice'.account = NoKey /\ alice'.private_key = generated + 1
        /\ alice' \in [private_key : Keys \cup {NoKey}, account : Keys \cup {NoKey}, amount : {"low", "enough"}]
    BY <1>1 DEF IInv, StepInv, NoAccount, Submitted, TypesInv
  <2>2. TypesInv'
    BY <1>1, <2>1 DEF IInv, TypesInv, Steps
  <2>3. StepInv' /\ FilesInv' /\ KeysMatch'
    BY <1>1, <2>1 DEF IInv, StepInv, FilesInv, KeysMatch, Creating, Submitted
  <2>4. QueueInv' /\ PostedOnce' /\ MineInv'
    BY SameQueue DEF Submitted
  <2> QED
    BY <2>2, <2>3, <2>4 DEF IInv
<1> QED
  BY <1>2, <1>3 DEF CreateKeys

LEMMA WritePrivateKeeps ==
  ASSUME IInv, WritePrivate
  PROVE  IInv'
<1> USE DEF WritePrivate, ram
<1>1. TypesInv'
  BY DEF IInv, TypesInv, Steps
<1>2. StepInv' /\ FilesInv' /\ KeysMatch'
  BY DEF IInv, StepInv, FilesInv, KeysMatch, Creating, Submitted, TypesInv
<1>3. QueueInv' /\ PostedOnce' /\ MineInv'
  BY SameQueue DEF Submitted
<1> QED
  BY <1>1, <1>2, <1>3 DEF IInv

(* What alice is after the SDK was asked for her account. *)
LEMMA WithAliceFacts ==
  ASSUME TypesInv, NEW key \in Keys, NEW address \in Keys, WithAlice(key, address)
  PROVE  /\ alice'.private_key = key /\ alice'.account = address
         /\ alice' \in [private_key : Keys \cup {NoKey}, account : Keys \cup {NoKey}, amount : {"low", "enough"}]
         /\ wallet' \subseteq {"alice", "bob"}
         /\ queue' = queue
<1>1. PICK n \in AmountsRead(address) : alice' = [private_key |-> key, account |-> address, amount |-> n]
  BY DEF WithAlice
<1>2. n \in {"low", "enough"}
  BY DEF AmountsRead, TypesInv, Amounts
<1> QED
  BY <1>1, <1>2 DEF WithAlice, TypesInv

LEMMA AddAliceKeeps ==
  ASSUME IInv, AddAlice
  PROVE  IInv'
<1>1. CASE Traps /\ torn' = TRUE
  BY <1>1, TrapKeeps DEF AddAlice
<1>2. CASE WithAlice(alice.private_key, alice.private_key) /\ step' = "open_address" /\ UNCHANGED torn
  <2> USE <1>2 DEF AddAlice
  <2>1. alice.private_key \in Keys
    BY DEF IInv, StepInv
  <2>2. /\ alice'.private_key = alice.private_key /\ alice'.account = alice.private_key
        /\ alice' \in [private_key : Keys \cup {NoKey}, account : Keys \cup {NoKey}, amount : {"low", "enough"}]
        /\ wallet' \subseteq {"alice", "bob"}
        /\ queue' = queue
    BY <2>1, WithAliceFacts DEF IInv
  <2>3. TypesInv'
    BY <2>2 DEF IInv, TypesInv, Steps
  <2>4. StepInv' /\ FilesInv' /\ KeysMatch'
    BY <2>1, <2>2 DEF IInv, StepInv, FilesInv, KeysMatch, Creating, Submitted
  <2>5. QueueInv' /\ PostedOnce' /\ MineInv'
    BY <2>2, SameQueue DEF Submitted
  <2> QED
    BY <2>3, <2>4, <2>5 DEF IInv
<1> QED
  BY <1>1, <1>2 DEF AddAlice

LEMMA OpenAddressKeeps ==
  ASSUME IInv, OpenAddress
  PROVE  IInv'
<1> USE DEF OpenAddress, ram
<1>1. TypesInv'
  BY DEF IInv, TypesInv, Steps
<1>2. StepInv' /\ FilesInv' /\ KeysMatch'
  BY DEF IInv, StepInv, FilesInv, KeysMatch, Creating, Submitted, TypesInv
<1>3. QueueInv' /\ PostedOnce' /\ MineInv'
  BY SameQueue DEF Submitted
<1> QED
  BY <1>1, <1>2, <1>3 DEF IInv

LEMMA WriteAddressKeeps ==
  ASSUME IInv, WriteAddress
  PROVE  IInv'
<1> USE DEF WriteAddress, ram, address_written
<1>1. TypesInv'
  BY DEF IInv, TypesInv, Steps
<1>2. StepInv' /\ FilesInv' /\ KeysMatch'
  BY DEF IInv, StepInv, FilesInv, KeysMatch, Creating, Submitted, TypesInv
<1>3. QueueInv' /\ PostedOnce' /\ MineInv'
  BY SameQueue DEF Submitted
<1> QED
  BY <1>1, <1>2, <1>3 DEF IInv

LEMMA LoadAliceKeeps ==
  ASSUME IInv, LoadAlice
  PROVE  IInv'
<1>1. CASE Traps
  BY <1>1, TrapKeeps DEF LoadAlice, Creating
<1>2. CASE /\ key_is_read(files.private) /\ files.address \in Keys
           /\ WithAlice(files.private, files.address)
           /\ step' = IF program = "unix" THEN "bob" ELSE "waiting"
  <2> USE <1>2 DEF LoadAlice
  <2>1. files.private \in Keys /\ files.address \in Keys
    BY DEF key_is_read
  <2>2. /\ alice'.private_key = files.private /\ alice'.account = files.address
        /\ alice' \in [private_key : Keys \cup {NoKey}, account : Keys \cup {NoKey}, amount : {"low", "enough"}]
        /\ wallet' \subseteq {"alice", "bob"}
        /\ queue' = queue
    BY <2>1, WithAliceFacts DEF IInv
  <2>3. TypesInv'
    BY <2>2 DEF IInv, TypesInv, Steps
  <2>4. StepInv' /\ FilesInv' /\ KeysMatch'
    BY <2>1, <2>2 DEF IInv, StepInv, FilesInv, KeysMatch, Creating, Submitted
  <2>5. QueueInv' /\ PostedOnce' /\ MineInv'
    BY <2>2, SameQueue DEF Submitted
  <2> QED
    BY <2>3, <2>4, <2>5 DEF IInv
<1> QED
  BY <1>1, <1>2 DEF LoadAlice

-----------------------------------------------------------------------------
(* The balance and bob.                                                    *)

LEMMA UpdateReadsKeeps ==
  ASSUME IInv, UpdateReads
  PROVE  IInv'
<1> USE DEF UpdateReads
<1>1. PICK n \in AmountsRead(alice.account) : alice' = [alice EXCEPT !.amount = n]
  OBVIOUS
<1>2. n \in {"low", "enough"}
  BY DEF AmountsRead, IInv, StepInv, TypesInv, Amounts
<1>3. /\ alice'.private_key = alice.private_key /\ alice'.account = alice.account
      /\ alice' \in [private_key : Keys \cup {NoKey}, account : Keys \cup {NoKey}, amount : {"low", "enough"}]
  BY <1>1, <1>2 DEF IInv, TypesInv
<1>4. TypesInv'
  BY <1>3 DEF IInv, TypesInv
<1>5. StepInv' /\ FilesInv' /\ KeysMatch'
  BY <1>3 DEF IInv, StepInv, FilesInv, KeysMatch, Creating, Submitted
<1>6. QueueInv' /\ PostedOnce' /\ MineInv'
  BY SameQueue
<1> QED
  BY <1>4, <1>5, <1>6 DEF IInv

LEMMA EndsWaitingKeeps ==
  ASSUME IInv, EndsWaiting
  PROVE  IInv'
<1> USE DEF EndsWaiting, ram
<1>1. TypesInv'
  BY DEF IInv, TypesInv, Steps
<1>2. StepInv' /\ FilesInv' /\ KeysMatch'
  BY DEF IInv, StepInv, FilesInv, KeysMatch, Creating, Submitted
<1>3. QueueInv' /\ PostedOnce' /\ MineInv'
  BY SameQueue DEF Submitted
<1> QED
  BY <1>1, <1>2, <1>3 DEF IInv

LEMMA AddBobKeeps ==
  ASSUME IInv, AddBob
  PROVE  IInv'
<1>1. CASE Traps
  BY <1>1, TrapKeeps DEF AddBob, Creating
<1>2. CASE /\ wallet' = wallet \cup {"bob"}
           /\ step' = IF program = "unix" THEN "check_amount" ELSE "submit"
           /\ UNCHANGED <<alice, queue>>
  <2> USE <1>2 DEF AddBob
  <2>1. TypesInv'
    BY DEF IInv, TypesInv, Steps
  <2>2. StepInv' /\ FilesInv' /\ KeysMatch'
    BY DEF IInv, StepInv, FilesInv, KeysMatch, Creating, Submitted
  <2>3. QueueInv' /\ PostedOnce' /\ MineInv'
    BY SameQueue DEF Submitted
  <2> QED
    BY <2>1, <2>2, <2>3 DEF IInv
<1> QED
  BY <1>1, <1>2 DEF AddBob

LEMMA CheckAmountKeeps ==
  ASSUME IInv, CheckAmount
  PROVE  IInv'
<1> USE DEF CheckAmount, ram
<1>1. TypesInv'
  BY DEF IInv, TypesInv, Steps
<1>2. StepInv' /\ FilesInv' /\ KeysMatch'
  BY DEF IInv, StepInv, FilesInv, KeysMatch, Creating, Submitted
<1>3. QueueInv' /\ PostedOnce' /\ MineInv'
  BY SameQueue DEF Submitted
<1> QED
  BY <1>1, <1>2, <1>3 DEF IInv

LEMMA FreeAccountsKeeps ==
  ASSUME IInv, FreeAccounts
  PROVE  IInv'
<1> USE DEF FreeAccounts, Frees
<1>1. TypesInv'
  BY DEF IInv, TypesInv, Steps
<1>2. StepInv' /\ FilesInv' /\ KeysMatch'
  BY DEF IInv, StepInv, FilesInv, KeysMatch, Creating, Submitted, TypesInv
<1>3. QueueInv' /\ PostedOnce' /\ MineInv'
  BY SameQueue DEF Submitted
<1> QED
  BY <1>1, <1>2, <1>3 DEF IInv

-----------------------------------------------------------------------------
(* Transactions and their events.                                          *)

LEMMA NewTxFacts ==
  ASSUME IInv, NEW kind \in {"pay", "appl"}, submitted < MaxTx, alice.account \in Keys
  PROVE  /\ NewTx(kind) \in TxRecords
         /\ NewTx(kind).id = submitted + 1 /\ NewTx(kind).event = "TX_READY_TO_SIGN"
<1>1. submitted + 1 \in 1..MaxTx
  BY ExamplesAssumption DEF IInv, TypesInv
<1> QED
  BY <1>1 DEF NewTx, TxRecords, receiver_of

LEMMA SubmitKeeps ==
  ASSUME IInv, NEW kind \in {"pay", "appl"}, NEW next \in {"process", "submit_call"},
         step \in {"submit", "submit_call"}, Submit(kind, next),
         UNCHANGED <<program, args, files, generated, balance, posted, torn>>
  PROVE  IInv'
<1> DEFINE tx == NewTx(kind)
<1>1. /\ submitted < MaxTx /\ submitted' = submitted + 1 /\ mine' = mine \cup {submitted + 1}
      /\ queue' = Append(queue, tx) /\ step' = next /\ alice' = alice /\ wallet' = wallet
  BY DEF Submit
<1>2. alice.account \in Keys
  BY DEF IInv, StepInv
<1>3. tx \in TxRecords /\ tx.id = submitted + 1 /\ tx.event = "TX_READY_TO_SIGN"
  BY <1>1, <1>2, NewTxFacts
<1> HIDE DEF tx
<1>4. submitted \in Nat /\ submitted' \in 0..MaxTx /\ submitted + 1 \in 1..MaxTx
      /\ queue \in Seq(TxRecords) /\ posted \in Seq(TxRecords)
  BY <1>1, ExamplesAssumption DEF IInv, TypesInv
<1>5. /\ queue' \in Seq(TxRecords) /\ queue' # <<>>
      /\ DOMAIN queue' = 1..(Len(queue) + 1)
      /\ \A i \in DOMAIN queue : queue'[i] = queue[i]
      /\ queue'[Len(queue) + 1] = tx
      /\ DOMAIN queue = 1..Len(queue) /\ Len(queue) \in Nat
  BY <1>1, <1>3, <1>4
<1>6. TypesInv'
  BY <1>1, <1>4, <1>5 DEF IInv, TypesInv, Steps
<1>7. StepInv' /\ FilesInv' /\ KeysMatch'
  BY <1>1, <1>2, <1>5 DEF IInv, StepInv, FilesInv, KeysMatch, Creating, Submitted
<1>8. \A r \in TxRecords : r.id \in Nat
  BY DEF TxRecords
<1>9. \A i \in DOMAIN queue' : \/ i \in DOMAIN queue /\ queue'[i] = queue[i]
                               \/ i = Len(queue) + 1 /\ queue'[i] = tx
  BY <1>5
<1>10. QueueInv' /\ PostedOnce'
  <2>1. \A i \in DOMAIN posted : posted[i].id \in Nat /\ posted[i].id <= submitted
    BY <1>4, <1>8 DEF IInv, QueueInv
  <2>2. \A i \in DOMAIN queue : queue[i].id \in Nat /\ queue[i].id <= submitted
    BY <1>4, <1>8 DEF IInv, QueueInv
  <2>3. /\ \A i \in DOMAIN posted : posted[i].id <= submitted' /\ posted[i].id # tx.id
        /\ \A i \in DOMAIN queue : queue[i].id <= submitted' /\ queue[i].id # tx.id
        /\ tx.id <= submitted'
    BY <1>1, <1>3, <1>4, <2>1, <2>2
  <2>4. \A i \in DOMAIN queue' : queue'[i].id <= submitted'
    BY <1>9, <2>3
  <2>5. \A i, j \in DOMAIN queue' : queue'[i].id = queue'[j].id => i = j
    BY <1>9, <2>3 DEF IInv, QueueInv
  <2>6. \A i \in DOMAIN queue', j \in DOMAIN posted :
          posted[j].id = queue'[i].id => queue'[i].event = "TX_SUCCESS"
    BY <1>9, <2>3 DEF IInv, QueueInv
  <2>7. \A i \in DOMAIN queue' : queue'[i].event = "TX_SUCCESS" =>
          \E j \in DOMAIN posted : posted[j].id = queue'[i].id
    BY <1>3, <1>9 DEF IInv, QueueInv
  <2> QED
    BY <2>3, <2>4, <2>5, <2>6, <2>7 DEF IInv, QueueInv, PostedOnce
<1>11. MineInv'
  <2>1. \A n \in mine : \/ \E j \in DOMAIN posted : posted[j].id = n
                       \/ \E i \in DOMAIN queue : queue[i].id = n
    BY DEF IInv, MineInv, StepInv, Submitted
  <2>2. \A n \in mine' : \/ \E j \in DOMAIN posted : posted[j].id = n
                        \/ \E i \in DOMAIN queue' : queue'[i].id = n
    BY <1>1, <1>3, <1>5, <2>1
  <2> QED
    BY <1>1, <2>2 DEF MineInv
<1> QED
  BY <1>6, <1>7, <1>10, <1>11 DEF IInv

LEMMA SubmitTxKeeps ==
  ASSUME IInv, SubmitTx \/ SubmitCall
  PROVE  IInv'
<1>1. CASE Traps
  <2>1. step \notin Creating
    BY DEF SubmitTx, SubmitCall, Creating
  <2>2. UNCHANGED <<program, args, files, generated, balance, posted, torn, submitted, mine>>
    BY <1>1 DEF SubmitTx, SubmitCall, Submit, Traps
  <2> QED
    BY <1>1, <2>1, <2>2, TrapKeeps
<1>2. CASE SubmitTx /\ ~Traps
  <2>1. args.run_tx \in {"pay", "appl"}
    BY DEF IInv, TypesInv, Arguments
  <2> QED
    BY <1>2, <2>1, SubmitKeeps DEF SubmitTx
<1>3. CASE SubmitCall /\ ~Traps
  BY <1>3, SubmitKeeps DEF SubmitCall
<1> QED
  BY <1>1, <1>2, <1>3

LEMMA NotTheLast ==
  ASSUME NEW n \in Nat, NEW i \in 1..n, i # n
  PROVE  i + 1 \in 1..n /\ i \in 1..(n - 1)
OBVIOUS

(* The oldest event is taken and another one queued. *)
LEMMA Rotation ==
  ASSUME NEW q \in Seq(TxRecords), q # <<>>, NEW e \in TxRecords
  PROVE  /\ Append(Tail(q), e) \in Seq(TxRecords) /\ Append(Tail(q), e) # <<>>
         /\ Len(q) \in Nat /\ Len(q) >= 1 /\ DOMAIN q = 1..Len(q)
         /\ DOMAIN Append(Tail(q), e) = 1..Len(q)
         /\ \A i \in 1..Len(q) : Append(Tail(q), e)[i] = IF i = Len(q) THEN e ELSE q[i + 1]
         /\ Head(q) = q[1]
<1> DEFINE t == Tail(q)
<1>1. Len(q) \in Nat /\ Len(q) >= 1 /\ DOMAIN q = 1..Len(q) /\ Head(q) = q[1]
  OBVIOUS
<1>2. t \in Seq(TxRecords) /\ Len(t) = Len(q) - 1 /\ \A i \in 1..Len(t) : t[i] = q[i + 1]
  OBVIOUS
<1> HIDE DEF t
<1>n. t \in Seq(TxRecords) /\ Len(t) \in Nat /\ Len(t) + 1 = Len(q)
  BY <1>1, <1>2
<1>a. /\ Append(t, e) \in Seq(TxRecords) /\ Len(Append(t, e)) = Len(t) + 1
      /\ DOMAIN Append(t, e) = 1..(Len(t) + 1)
      /\ \A i \in 1..Len(t) : Append(t, e)[i] = t[i]
      /\ Append(t, e)[Len(t) + 1] = e
  BY <1>n
<1>3. /\ Append(t, e) \in Seq(TxRecords) /\ Append(t, e) # <<>>
      /\ DOMAIN Append(t, e) = 1..Len(q)
  <2>1. Len(t) + 1 # 0
    BY <1>n
  <2>2. Append(t, e) # <<>>
    BY <1>a, <2>1
  <2> QED BY <1>n, <1>a, <2>2
<1>4. \A i \in 1..Len(q) : Append(t, e)[i] = IF i = Len(q) THEN e ELSE q[i + 1]
  <2> SUFFICES ASSUME NEW i \in 1..Len(q)
               PROVE  Append(t, e)[i] = IF i = Len(q) THEN e ELSE q[i + 1]
    OBVIOUS
  <2>1. CASE i = Len(q)
    BY <1>n, <1>a, <2>1
  <2>2. CASE i # Len(q)
    <3>1. i \in 1..(Len(q) - 1)
      BY <1>1, <2>2, NotTheLast
    <3> QED BY <1>2, <1>a, <2>2, <3>1
  <2> QED BY <2>1, <2>2
<1> QED
  BY <1>1, <1>3, <1>4 DEF t

LEMMA HeadFacts ==
  ASSUME IInv, step = "process"
  PROVE  /\ queue \in Seq(TxRecords) /\ queue # <<>>
         /\ Len(queue) \in Nat /\ Len(queue) >= 1 /\ DOMAIN queue = 1..Len(queue)
         /\ 1 \in DOMAIN queue
         /\ Head(queue) = queue[1] /\ Head(queue) \in TxRecords
<1>1. queue \in Seq(TxRecords) /\ queue # <<>>
  BY DEF IInv, TypesInv, StepInv
<1> QED
  BY <1>1

(* What the event of a transaction becomes. *)
LEMMA NextEventFacts ==
  ASSUME IInv, step = "process", NEW event \in {"TX_READY_TO_SIGN", "TX_SENDING", "TX_SUCCESS"},
         NEW key \in Keys \cup {NoKey}, NextEvent(event, key)
  PROVE  /\ queue' \in Seq(TxRecords) /\ queue' # <<>>
         /\ step' = "process" /\ UNCHANGED <<alice, wallet>>
         /\ DOMAIN queue' = DOMAIN queue
         /\ \A i \in DOMAIN queue :
              /\ i = Len(queue) => queue'[i].id = queue[1].id /\ queue'[i].event = event
              /\ i # Len(queue) => i + 1 \in DOMAIN queue /\ queue'[i] = queue[i + 1]
<1> DEFINE e == [Head(queue) EXCEPT !.event = event, !.signed_by = key]
<1>1. queue \in Seq(TxRecords) /\ queue # <<>> /\ Head(queue) = queue[1] /\ Head(queue) \in TxRecords
  BY HeadFacts
<1>2. e \in TxRecords /\ e.id = queue[1].id /\ e.event = event
  BY <1>1 DEF TxRecords
<1>3. queue' = Append(Tail(queue), e) /\ step' = step_after(queue') /\ UNCHANGED <<alice, wallet>>
  BY DEF NextEvent, Becomes
<1> HIDE DEF e
<1>4. /\ queue' \in Seq(TxRecords) /\ queue' # <<>>
      /\ Len(queue) \in Nat /\ Len(queue) >= 1 /\ DOMAIN queue = 1..Len(queue)
      /\ DOMAIN queue' = 1..Len(queue)
      /\ \A i \in 1..Len(queue) : queue'[i] = IF i = Len(queue) THEN e ELSE queue[i + 1]
  BY <1>1, <1>2, <1>3, Rotation
<1>5. step' = "process"
  BY <1>3, <1>4 DEF step_after
<1>6. ASSUME NEW i \in DOMAIN queue, i # Len(queue)
      PROVE  i + 1 \in DOMAIN queue /\ queue'[i] = queue[i + 1]
  <2>1. i \in 1..Len(queue) /\ i + 1 \in 1..Len(queue)
    BY <1>4, <1>6, NotTheLast
  <2> QED BY <1>4, <1>6, <2>1
<1>7. ASSUME NEW i \in DOMAIN queue, i = Len(queue)
      PROVE  queue'[i].id = queue[1].id /\ queue'[i].event = event
  BY <1>2, <1>4, <1>7
<1> QED
  BY <1>3, <1>4, <1>5, <1>6, <1>7

(* Every place of the queue after that has a transaction from one place    *)
(* before it, two places never from the same.                              *)
LEMMA PlacesFacts ==
  ASSUME IInv, step = "process", NEW event \in {"TX_READY_TO_SIGN", "TX_SENDING", "TX_SUCCESS"},
         NEW key \in Keys \cup {NoKey}, NextEvent(event, key)
  PROVE  /\ \A i \in DOMAIN queue' : \E k \in DOMAIN queue : queue'[i].id = queue[k].id
         /\ \A k \in DOMAIN queue : \E i \in DOMAIN queue' : queue'[i].id = queue[k].id
         /\ \A i, j \in DOMAIN queue' : queue'[i].id = queue'[j].id => i = j
<1>1. /\ Len(queue) \in Nat /\ Len(queue) >= 1 /\ DOMAIN queue = 1..Len(queue) /\ 1 \in DOMAIN queue
  BY HeadFacts
<1>2. /\ DOMAIN queue' = DOMAIN queue
      /\ \A i \in DOMAIN queue :
           /\ i = Len(queue) => queue'[i].id = queue[1].id
           /\ i # Len(queue) => i + 1 \in DOMAIN queue /\ queue'[i] = queue[i + 1]
  BY NextEventFacts
<1>3. \A i, j \in DOMAIN queue : queue[i].id = queue[j].id => i = j
  BY DEF IInv, QueueInv
<1>4. \A k \in DOMAIN queue : k # 1 => k - 1 \in DOMAIN queue /\ k - 1 # Len(queue) /\ (k - 1) + 1 = k
  BY <1>1
<1>5. \A k \in DOMAIN queue : \E i \in DOMAIN queue' : queue'[i].id = queue[k].id
  <2> SUFFICES ASSUME NEW k \in DOMAIN queue PROVE \E i \in DOMAIN queue' : queue'[i].id = queue[k].id
    OBVIOUS
  <2>1. CASE k = 1
    BY <1>1, <1>2, <2>1
  <2>2. CASE k # 1
    <3>1. k - 1 \in DOMAIN queue /\ k - 1 # Len(queue) /\ (k - 1) + 1 = k
      BY <1>4, <2>2
    <3>2. queue'[k - 1] = queue[(k - 1) + 1]
      BY <1>2, <3>1
    <3> QED BY <1>2, <3>1, <3>2
  <2> QED BY <2>1, <2>2
<1>6. ASSUME NEW i \in DOMAIN queue', NEW j \in DOMAIN queue', queue'[i].id = queue'[j].id
      PROVE  i = j
  <2>1. i \in DOMAIN queue /\ j \in DOMAIN queue
    BY <1>2
  <2>2. CASE i = Len(queue) /\ j # Len(queue)
    <3>1. j + 1 \in DOMAIN queue /\ queue[1].id = queue[j + 1].id
      BY <1>2, <1>6, <2>1, <2>2
    <3> QED BY <1>1, <1>3, <2>1, <3>1
  <2>3. CASE i # Len(queue) /\ j = Len(queue)
    <3>1. i + 1 \in DOMAIN queue /\ queue[1].id = queue[i + 1].id
      BY <1>2, <1>6, <2>1, <2>3
    <3> QED BY <1>1, <1>3, <2>1, <3>1
  <2>4. CASE i # Len(queue) /\ j # Len(queue)
    <3>1. i + 1 \in DOMAIN queue /\ j + 1 \in DOMAIN queue /\ queue[i + 1].id = queue[j + 1].id
      BY <1>2, <1>6, <2>1, <2>4
    <3>2. i + 1 = j + 1
      BY <1>3, <3>1
    <3> QED BY <1>1, <2>1, <3>2
  <2> QED BY <2>2, <2>3, <2>4
<1> QED
  BY <1>1, <1>2, <1>5, <1>6, ZenonT(60)

(* The queue that Sign and Send leave, whatever they did to posted. *)
LEMMA NextEventKeeps ==
  ASSUME IInv, step = "process", NEW event \in {"TX_SENDING", "TX_SUCCESS"},
         NEW key \in Keys \cup {NoKey}, NextEvent(event, key),
         UNCHANGED <<program, args, files, generated, submitted, balance, mine, torn>>,
         posted' \in Seq(TxRecords),
         \A j \in DOMAIN posted : j \in DOMAIN posted' /\ posted'[j] = posted[j],
         \A j \in DOMAIN posted' : j \in DOMAIN posted \/ posted'[j] = queue[1],
         event = "TX_SENDING" => \A j \in DOMAIN posted' : posted'[j].id # queue[1].id,
         event = "TX_SUCCESS" => \E j \in DOMAIN posted' : posted'[j].id = queue[1].id,
         PostedOnce'
  PROVE  IInv'
<1>1. /\ queue' \in Seq(TxRecords) /\ queue' # <<>>
      /\ step' = "process" /\ UNCHANGED <<alice, wallet>>
      /\ DOMAIN queue' = DOMAIN queue
      /\ \A i \in DOMAIN queue :
           /\ i = Len(queue) => queue'[i].id = queue[1].id /\ queue'[i].event = event
           /\ i # Len(queue) => i + 1 \in DOMAIN queue /\ queue'[i] = queue[i + 1]
  BY NextEventFacts
<1>2. /\ \A i \in DOMAIN queue' : \E k \in DOMAIN queue : queue'[i].id = queue[k].id
      /\ \A k \in DOMAIN queue : \E i \in DOMAIN queue' : queue'[i].id = queue[k].id
      /\ \A i, j \in DOMAIN queue' : queue'[i].id = queue'[j].id => i = j
  BY PlacesFacts
<1>3. 1 \in DOMAIN queue /\ Len(queue) \in DOMAIN queue
  BY HeadFacts
<1>4. TypesInv'
  BY <1>1 DEF IInv, TypesInv, Steps
<1>5. StepInv' /\ FilesInv' /\ KeysMatch'
  BY <1>1 DEF IInv, StepInv, FilesInv, KeysMatch, Creating, Submitted
<1>6. QueueInv'
  <2>1. \A j \in DOMAIN posted' : posted'[j].id <= submitted
    BY <1>3 DEF IInv, QueueInv
  <2>2. \A i \in DOMAIN queue' : queue'[i].id <= submitted
    BY <1>2 DEF IInv, QueueInv
  <2>3. ASSUME NEW i \in DOMAIN queue', NEW j \in DOMAIN posted', posted'[j].id = queue'[i].id
        PROVE  queue'[i].event = "TX_SUCCESS"
    <3>1. CASE i = Len(queue)
      <4>1. queue'[i].id = queue[1].id /\ queue'[i].event = event
        BY <1>1, <3>1
      <4> QED BY <2>3, <4>1
    <3>2. CASE i # Len(queue)
      <4>1. i + 1 \in DOMAIN queue /\ queue'[i] = queue[i + 1]
        BY <1>1, <3>2
      <4>2. posted'[j] # queue[1]
        <5>1. queue'[Len(queue)].id = queue[1].id /\ Len(queue) \in DOMAIN queue'
          BY <1>1, <1>3
        <5>2. queue'[i].id # queue[1].id
          BY <1>2, <3>2, <5>1
        <5> QED BY <2>3, <5>2
      <4>3. j \in DOMAIN posted /\ posted'[j] = posted[j]
        BY <4>2
      <4> QED BY <2>3, <4>1, <4>3 DEF IInv, QueueInv
    <3> QED BY <3>1, <3>2
  <2>4. ASSUME NEW i \in DOMAIN queue', queue'[i].event = "TX_SUCCESS"
        PROVE  \E j \in DOMAIN posted' : posted'[j].id = queue'[i].id
    <3>1. CASE i = Len(queue)
      <4>1. queue'[i].id = queue[1].id /\ event = "TX_SUCCESS"
        BY <1>1, <2>4, <3>1
      <4> QED BY <4>1
    <3>2. CASE i # Len(queue)
      <4>1. i + 1 \in DOMAIN queue /\ queue'[i] = queue[i + 1]
        BY <1>1, <3>2
      <4>2. PICK j \in DOMAIN posted : posted[j].id = queue[i + 1].id
        BY <2>4, <4>1 DEF IInv, QueueInv
      <4> QED BY <4>1, <4>2
    <3> QED BY <3>1, <3>2
  <2> QED
    BY <1>2, <2>1, <2>2, <2>3, <2>4 DEF QueueInv
<1>7. MineInv'
  <2>1. mine # {} /\ \A n \in mine : \/ \E j \in DOMAIN posted : posted[j].id = n
                                    \/ \E i \in DOMAIN queue : queue[i].id = n
    BY DEF IInv, MineInv, Submitted
  <2>2. ASSUME NEW n \in mine
        PROVE  \/ \E j \in DOMAIN posted' : posted'[j].id = n
               \/ \E i \in DOMAIN queue' : queue'[i].id = n
    <3>1. CASE \E j \in DOMAIN posted : posted[j].id = n
      BY <3>1
    <3>2. CASE \E i \in DOMAIN queue : queue[i].id = n
      BY <3>2, <1>2
    <3> QED BY <2>1, <3>1, <3>2
  <2> QED
    BY <2>1, <2>2 DEF MineInv
<1> QED
  BY <1>4, <1>5, <1>6, <1>7 DEF IInv

(* The head of the queue is not on the network before it is sent. *)
LEMMA NotYetPosted ==
  ASSUME IInv, step = "process", queue[1].event # "TX_SUCCESS"
  PROVE  \A j \in DOMAIN posted : posted[j].id # queue[1].id
BY HeadFacts DEF IInv, QueueInv

LEMMA SignKeeps ==
  ASSUME IInv, Sign, UNCHANGED <<program, args, files, generated, submitted, balance, mine, torn>>
  PROVE  IInv'
<1>1. step = "process" /\ queue[1].event = "TX_READY_TO_SIGN" /\ posted' = posted
  BY HeadFacts DEF Sign, EventIs
<1>2. alice.private_key \in Keys \cup {NoKey} /\ posted \in Seq(TxRecords) /\ PostedOnce'
  BY <1>1 DEF IInv, TypesInv, PostedOnce
<1> QED
  BY <1>1, <1>2, NotYetPosted, NextEventKeeps DEF Sign

(* One more on the network. *)
LEMMA ReachesFacts ==
  ASSUME IInv, step = "process", queue[1].event # "TX_SUCCESS", Reaches
  PROVE  /\ posted' \in Seq(TxRecords)
         /\ \A j \in DOMAIN posted : j \in DOMAIN posted' /\ posted'[j] = posted[j]
         /\ \A j \in DOMAIN posted' : j \in DOMAIN posted \/ posted'[j] = queue[1]
         /\ \E j \in DOMAIN posted' : posted'[j].id = queue[1].id
         /\ PostedOnce'
<1>1. Head(queue) = queue[1] /\ queue[1] \in TxRecords /\ posted \in Seq(TxRecords)
  BY HeadFacts DEF IInv, TypesInv
<1>2. posted' = Append(posted, queue[1])
  BY <1>1 DEF Reaches
<1>3. /\ Len(posted) \in Nat /\ DOMAIN posted = 1..Len(posted)
      /\ posted' \in Seq(TxRecords) /\ DOMAIN posted' = 1..(Len(posted) + 1)
      /\ \A j \in 1..Len(posted) : posted'[j] = posted[j]
      /\ posted'[Len(posted) + 1] = queue[1]
  BY <1>1, <1>2
<1>4. /\ \A j \in DOMAIN posted : j \in DOMAIN posted' /\ posted'[j] = posted[j]
      /\ \A j \in DOMAIN posted' : j \in DOMAIN posted \/ (j = Len(posted) + 1 /\ posted'[j] = queue[1])
      /\ Len(posted) + 1 \in DOMAIN posted'
  BY <1>3
<1>5. PostedOnce'
  BY <1>4, NotYetPosted DEF IInv, PostedOnce
<1> QED
  BY <1>3, <1>4, <1>5

LEMMA SendKeeps ==
  ASSUME IInv, Send, UNCHANGED <<program, args, files, generated, submitted, balance, mine, torn>>
  PROVE  IInv'
<1>1. step = "process" /\ queue[1].event = "TX_SENDING" /\ queue[1] \in TxRecords /\ Head(queue) = queue[1]
  BY HeadFacts DEF Send, EventIs
<1>2. CASE Reaches /\ NextEvent("TX_SUCCESS", Head(queue).signed_by)
  <2>1. Head(queue).signed_by \in Keys \cup {NoKey}
    BY <1>1 DEF TxRecords
  <2> QED
    BY <1>1, <1>2, <2>1, ReachesFacts, NextEventKeeps
<1>3. CASE Reaches /\ Traps
  <2>1. /\ posted' \in Seq(TxRecords) /\ PostedOnce'
        /\ \A j \in DOMAIN posted' : j \in DOMAIN posted \/ posted'[j] = queue[1]
        /\ \A j \in DOMAIN posted : posted'[j] = posted[j]
    BY <1>1, <1>3, ReachesFacts
  <2> USE <1>3 DEF Traps, ClearRam
  <2>2. TypesInv'
    BY <2>1 DEF IInv, TypesInv, Steps, NoAccount
  <2>3. StepInv' /\ FilesInv' /\ KeysMatch' /\ MineInv'
    BY <1>1 DEF IInv, StepInv, FilesInv, KeysMatch, Creating, Submitted, NoAccount, MineInv
  <2>4. \A j \in DOMAIN posted' : posted'[j].id <= submitted
    BY <1>1, <2>1, HeadFacts DEF IInv, QueueInv
  <2>5. QueueInv'
    BY <2>4 DEF QueueInv
  <2> QED
    BY <2>1, <2>2, <2>3, <2>5 DEF IInv
<1>4. CASE UNCHANGED posted /\ Traps
  BY <1>1, <1>4, TrapKeeps DEF Creating
<1> QED
  BY <1>2, <1>3, <1>4 DEF Send

(* A transaction whose post was acknowledged leaves the queue. *)
LEMMA SucceedKeeps ==
  ASSUME IInv, Succeed, UNCHANGED <<program, args, files, generated, submitted, balance, mine, torn>>
  PROVE  IInv'
<1>1. step = "process" /\ queue[1].event = "TX_SUCCESS" /\ posted' = posted
  BY HeadFacts DEF Succeed, EventIs
<1>2. /\ queue \in Seq(TxRecords) /\ queue # <<>>
      /\ Len(queue) \in Nat /\ Len(queue) >= 1 /\ DOMAIN queue = 1..Len(queue)
  BY <1>1, HeadFacts
<1>3. queue' = Tail(queue) /\ step' = step_after(queue') /\ UNCHANGED <<alice, wallet>>
  BY DEF Succeed, Retired, Becomes
<1>4. /\ queue' \in Seq(TxRecords) /\ Len(queue') = Len(queue) - 1
      /\ DOMAIN queue' = 1..(Len(queue) - 1)
      /\ \A i \in 1..(Len(queue) - 1) : queue'[i] = queue[i + 1]
  BY <1>2, <1>3
<1>5. \A i \in DOMAIN queue' : i \in Nat /\ i + 1 \in DOMAIN queue /\ queue'[i] = queue[i + 1]
  BY <1>2, <1>4
<1>6. \A k \in DOMAIN queue : k # 1 => k - 1 \in DOMAIN queue' /\ queue'[k - 1] = queue[k]
  <2> SUFFICES ASSUME NEW k \in DOMAIN queue, k # 1
               PROVE  k - 1 \in DOMAIN queue' /\ queue'[k - 1] = queue[k]
    OBVIOUS
  <2>1. k - 1 \in 1..(Len(queue) - 1) /\ (k - 1) + 1 = k
    BY <1>2
  <2>2. queue'[k - 1] = queue[(k - 1) + 1]
    BY <1>4, <2>1
  <2> QED BY <1>4, <2>1, <2>2
<1>7. step' \in {"process", "free_alice"} /\ (step' = "free_alice" <=> queue' = <<>>)
  BY <1>3 DEF step_after
<1>8. TypesInv'
  BY <1>1, <1>3, <1>4, <1>7 DEF IInv, TypesInv, Steps
<1>9. StepInv' /\ FilesInv' /\ KeysMatch'
  BY <1>1, <1>3, <1>7 DEF IInv, StepInv, FilesInv, KeysMatch, Creating, Submitted
<1>10. QueueInv' /\ PostedOnce'
  <2>1. ASSUME NEW i \in DOMAIN queue', NEW j \in DOMAIN queue', queue'[i].id = queue'[j].id
        PROVE  i = j
    <3>1. i + 1 = j + 1
      BY <1>5, <2>1 DEF IInv, QueueInv
    <3> QED BY <1>5, <3>1
  <2>2. PostedOnce'
    BY <1>1 DEF IInv, PostedOnce
  <2> QED
    BY <1>1, <1>5, <2>1, <2>2 DEF IInv, QueueInv
<1>11. MineInv'
  <2>1. mine # {} /\ \A n \in mine : \/ \E j \in DOMAIN posted : posted[j].id = n
                                    \/ \E i \in DOMAIN queue : queue[i].id = n
    BY <1>1 DEF IInv, MineInv, Submitted
  <2>2. ASSUME NEW n \in mine
        PROVE  \/ \E j \in DOMAIN posted' : posted'[j].id = n
               \/ \E i \in DOMAIN queue' : queue'[i].id = n
    <3>1. CASE \E j \in DOMAIN posted : posted[j].id = n
      BY <3>1, <1>1
    <3>2. CASE \E i \in DOMAIN queue : queue[i].id = n
      <4>1. PICK i \in DOMAIN queue : queue[i].id = n
        BY <3>2
      <4>2. CASE i = 1
        BY <1>1, <4>1, <4>2 DEF IInv, QueueInv
      <4>3. CASE i # 1
        BY <1>6, <4>1, <4>3
      <4> QED BY <4>2, <4>3
    <3> QED BY <2>1, <3>1, <3>2
  <2> QED
    BY <2>1, <2>2 DEF MineInv
<1> QED
  BY <1>8, <1>9, <1>10, <1>11 DEF IInv

LEMMA ProcessEventKeeps ==
  ASSUME IInv, ProcessEvent
  PROVE  IInv'
BY SignKeeps, SendKeeps, SucceedKeeps DEF ProcessEvent

-----------------------------------------------------------------------------
LEMMA NextKeeps == IInv /\ [Next]_vars => IInv'
<1> SUFFICES ASSUME IInv, [Next]_vars PROVE IInv'
  OBVIOUS
<1>1. ASSUME NEW a \in Arguments, Start(a) PROVE IInv'
  BY <1>1, StartKeeps
<1>2. CASE Main
  BY <1>2, ConnectKeeps, CreateKeysKeeps, WritePrivateKeeps, AddAliceKeeps, OpenAddressKeeps,
     WriteAddressKeeps, LoadAliceKeeps, UpdateReadsKeeps, EndsWaitingKeeps, AddBobKeeps,
     CheckAmountKeeps, SubmitTxKeeps, ProcessEventKeeps, FreeAccountsKeeps DEF Main
<1>3. CASE Killed
  BY <1>3, KilledKeeps
<1>4. ASSUME NEW k \in Keys, NEW n \in {"enough", "huge"}, Dispense(k, n) PROVE IInv'
  BY <1>4, DispenseKeeps
<1>5. CASE UNCHANGED vars
  <2> USE <1>5 DEF vars, ram
  <2>1. TypesInv'
    BY DEF IInv, TypesInv
  <2>2. StepInv' /\ FilesInv' /\ KeysMatch'
    BY DEF IInv, StepInv, FilesInv, KeysMatch
  <2>3. QueueInv' /\ PostedOnce' /\ MineInv'
    BY SameQueue
  <2> QED
    BY <2>1, <2>2, <2>3 DEF IInv
<1> QED
  BY <1>1, <1>2, <1>3, <1>4, <1>5 DEF Next

LEMMA SpecIInv == Spec => []IInv
BY InitIInv, NextKeeps, PTL DEF Spec

-----------------------------------------------------------------------------
(* The state of the examples is of its types, with any number of keys and  *)
(* transactions.                                                           *)
THEOREM ExamplesTypesCorrect == Spec => []ExamplesTypeOK
<1>1. IInv => ExamplesTypeOK
  <2> SUFFICES ASSUME IInv PROVE ExamplesTypeOK
    OBVIOUS
  <2>1. \A s \in Seq(TxRecords) : ToSet(s) \subseteq TxRecords
    BY DEF ToSet
  <2> QED
    BY <2>1 DEF IInv, TypesInv, ExamplesTypeOK
<1> QED BY <1>1, SpecIInv, PTL

(* The key that signs is the sender's, after any number of runs that ended *)
(* anywhere, unless the last creation of an account lost a file.           *)
THEOREM KeysAlwaysMatch == Spec => []KeysMatch
<1>1. IInv => KeysMatch
  BY DEF IInv
<1> QED BY <1>1, SpecIInv, PTL

(* No program posts a transaction twice, whatever fails and however often  *)
(* it is killed and started again.                                         *)
THEOREM NothingPostedTwice == Spec => []PostedOnce
<1>1. IInv => PostedOnce
  BY DEF IInv
<1> QED BY <1>1, SpecIInv, PTL

(* A program that comes to its end has posted all that it submitted and    *)
(* leaves nothing in the SDK.                                              *)
THEOREM EndIsClean == Spec => []NothingLeftBehind
<1>1. IInv => NothingLeftBehind
  <2> SUFFICES ASSUME IInv, step = "done"
               PROVE  /\ mine # {} /\ mine \subseteq {posted[i].id : i \in DOMAIN posted}
                      /\ queue = <<>> /\ wallet = {}
    BY DEF NothingLeftBehind
  <2>1. queue = <<>> /\ wallet = {}
    BY DEF IInv, StepInv
  <2>2. DOMAIN queue = {}
    BY <2>1
  <2> QED
    BY <2>1, <2>2 DEF IInv, MineInv, Submitted
<1> QED BY <1>1, SpecIInv, PTL

=============================================================================
