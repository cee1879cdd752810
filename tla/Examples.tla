------------------------------- MODULE Examples -------------------------------
(***************************************************************************)
(* The programs of src/examples: how an application uses the SDK from its  *)
(* start to its end, and what it leaves in its files.                      *)
(*                                                                         *)
(* The unix example (main.c) creates an account or loads one from two      *)
(* files, checks its balance, submits one transaction and processes events *)
(* until there are none; the esp32 example (vtc_wallet_task) has its keys  *)
(* in flash, waits for the balance and submits two transactions.  A failed *)
(* VTC_ASSERT traps, and a program can be killed at any moment: in both    *)
(* cases its memory is gone and it may be started again.                   *)
(*                                                                         *)
(* The SDK is what the other modules show it to be: events are processed   *)
(* in order, one per transaction (Transactions); an account takes a slot   *)
(* and a request (Accounts).  A key pair and the address that belongs to   *)
(* it are one number.                                                      *)
(*                                                                         *)
(* Definitions named Bug_... are seeded errors: each replaces the          *)
(* definition that follows it when the properties are tried out.           *)
(***************************************************************************)
EXTENDS Naturals, Sequences, SequencesExt

CONSTANTS
  Programs,  \* "unix" and "esp32"
  NoKey,     \* no file, or nothing in memory
  Empty,     \* a file that was opened for writing and not written
  MaxKeys,   \* bound: how many key pairs are generated
  MaxTx      \* bound: how many transactions are submitted

ASSUME ExamplesAssumption ==
  /\ Programs \subseteq {"unix", "esp32"}
  /\ MaxKeys \in Nat
  /\ MaxTx \in Nat
  /\ NoKey \notin 0..MaxKeys /\ Empty \notin 0..MaxKeys /\ NoKey # Empty

VARIABLES
  program,    \* which of the two examples
  step,       \* where it is
  args,       \* its command line: whether -n is given, and -p or -a
  files,      \* private_key.bin and public_b32.txt, or their copies in flash
  alice,      \* alice_account: private key, the account's address and its amount
  wallet,     \* who has a slot among the SDK's accounts
  queue,      \* the transactions, each with its event, in the order of events
  generated,  \* how many key pairs have been generated
  submitted,  \* how many transactions have been submitted
  balance,    \* what each account has on the ledger
  posted,     \* what reached the network, in order
  mine,       \* history: the transactions submitted since the program was started
  torn        \* history: the last creation of an account did not write both files

ram == <<alice, wallet, queue>>
vars == <<program, step, args, files, ram, generated, submitted, balance, posted, mine, torn>>

-----------------------------------------------------------------------------
Keys == 0..MaxKeys

Amounts == {"low", "enough", "huge"}

NoAccount == [private_key |-> NoKey, account |-> NoKey, amount |-> "low"]

Arguments == [create_new : BOOLEAN, run_tx : {"pay", "appl"}]

Steps ==
  {"off", "connect", "account", "write_private", "add_alice", "open_address", "write_address",
   "waiting", "bob", "check_amount", "submit", "submit_call", "process", "free_alice", "free_bob",
   "done", "poor"}

ClearRam == alice' = NoAccount /\ wallet' = {} /\ queue' = <<>>

(* Files that were made together: by algokey, by an earlier run of the     *)
(* unix example, or none yet.  They are part of the image of the esp32.    *)
Init ==
  /\ program \in Programs
  /\ step = "off"
  /\ args = [create_new |-> FALSE, run_tx |-> "pay"]
  /\ files \in {[private |-> k, address |-> k] : k \in {0} \cup (IF program = "unix" THEN {NoKey} ELSE {})}
  /\ alice = NoAccount
  /\ wallet = {}
  /\ queue = <<>>
  /\ generated = 0
  /\ submitted = 0
  /\ balance = [k \in Keys |-> "low"]
  /\ posted = <<>>
  /\ mine = {}
  /\ torn = FALSE

(* Someone sends Algos to an account: enough, or 2^31 microAlgos and more. *)
Dispense(k, amount) ==
  /\ balance[k] = "low"
  /\ balance' = [balance EXCEPT ![k] = amount]
  /\ UNCHANGED <<program, step, args, files, ram, generated, submitted, posted, mine, torn>>

(* The account's int32_t of an amount beyond it may be any number.         *)
AmountsRead(k) == IF balance[k] = "huge" THEN {"low", "enough"} ELSE {balance[k]}

-----------------------------------------------------------------------------
(* A failed assertion ends the program. *)
Bug_goes_on == UNCHANGED <<step, ram>>

Traps == step' = "off" /\ ClearRam

Ends == {"off", "done", "poor"}

Start(a) ==
  /\ step \in Ends
  /\ program = "esp32" => a = [create_new |-> FALSE, run_tx |-> "pay"]
  /\ step' = "connect"
  /\ args' = a
  /\ ClearRam
  /\ mine' = {}
  /\ UNCHANGED <<program, files, generated, submitted, balance, posted, torn>>

Creating == {"write_private", "add_alice", "open_address", "write_address"}

Killed ==
  /\ step \notin Ends
  /\ step' = "off"
  /\ ClearRam
  /\ torn' = (torn \/ step \in Creating)
  /\ UNCHANGED <<program, args, files, generated, submitted, balance, posted, mine>>

(* vertices_new, vertices_ping and vertices_version, whose OFFLINE is      *)
(* accepted. *)
Connect ==
  /\ step = "connect"
  /\ \/ step' = "account" /\ UNCHANGED ram
     \/ Traps
  /\ UNCHANGED <<program, args, files, generated, submitted, balance, posted, mine, torn>>

-----------------------------------------------------------------------------
(* create_new_account: the private key is in its file before the SDK is    *)
(* asked for the account, the address is written after it answered.        *)
CreateKeys ==
  /\ step = "account" /\ args.create_new
  /\ generated < MaxKeys
  /\ generated' = generated + 1
  /\ \/ Traps /\ UNCHANGED <<files, torn>>
     \/ /\ alice' = [alice EXCEPT !.private_key = generated + 1]
        /\ files' = [files EXCEPT !.private = Empty]
        /\ torn' = FALSE
        /\ step' = "write_private"
        /\ UNCHANGED <<wallet, queue>>
  /\ UNCHANGED <<program, args, submitted, balance, posted, mine>>

(* The result of fwrite is ignored. *)
WritePrivate ==
  /\ step = "write_private"
  /\ \/ files' = [files EXCEPT !.private = alice.private_key] /\ UNCHANGED torn
     \/ torn' = TRUE /\ UNCHANGED files
  /\ step' = "add_alice"
  /\ UNCHANGED <<program, args, ram, generated, submitted, balance, posted, mine>>

WithAlice(key, address) ==
  /\ \E n \in AmountsRead(address) :
       alice' = [private_key |-> key, account |-> address, amount |-> n]
  /\ wallet' = wallet \cup {"alice"}
  /\ UNCHANGED queue

AddAlice ==
  /\ step = "add_alice"
  /\ \/ WithAlice(alice.private_key, alice.private_key) /\ step' = "open_address" /\ UNCHANGED torn
     \/ Traps /\ torn' = TRUE
  /\ UNCHANGED <<program, args, files, generated, submitted, balance, posted, mine>>

(* A file that cannot be opened is ignored. *)
OpenAddress ==
  /\ step = "open_address"
  /\ \/ files' = [files EXCEPT !.address = Empty] /\ step' = "write_address" /\ UNCHANGED torn
     \/ step' = "bob" /\ torn' = TRUE /\ UNCHANGED files
  /\ UNCHANGED <<program, args, ram, generated, submitted, balance, posted, mine>>

Bug_writes_first_account(address) == 0

address_written(address) == address

WriteAddress ==
  /\ step = "write_address"
  /\ \/ files' = [files EXCEPT !.address = address_written(alice.account)] /\ UNCHANGED torn
     \/ torn' = TRUE /\ UNCHANGED files
  /\ step' = "bob"
  /\ UNCHANGED <<program, args, ram, generated, submitted, balance, posted, mine>>

(* load_existing_account.  Only lengths are checked.  An empty address     *)
(* file is read before its start; whatever is there the program ends.      *)
Bug_length_not_checked(file) == file # NoKey

key_is_read(file) == file \in Keys

LoadAlice ==
  /\ step = "account" /\ ~args.create_new
  /\ \/ /\ key_is_read(files.private) /\ files.address \in Keys
        /\ WithAlice(files.private, files.address)
        /\ step' = IF program = "unix" THEN "bob" ELSE "waiting"
     \/ Traps
  /\ UNCHANGED <<program, args, files, generated, submitted, balance, posted, mine, torn>>

-----------------------------------------------------------------------------
TooPoor == alice.amount = "low"

(* The esp32 example updates the account every minute; the result of       *)
(* vertices_account_update is ignored.                                     *)
UpdateReads ==
  /\ step = "waiting" /\ TooPoor
  /\ \E n \in AmountsRead(alice.account) : alice' = [alice EXCEPT !.amount = n]
  /\ UNCHANGED <<program, step, args, files, wallet, queue, generated, submitted, balance, posted, mine, torn>>

Bug_looks_at_the_amount_once == FALSE

FundsArrived == ~TooPoor

EndsWaiting ==
  /\ step = "waiting" /\ FundsArrived
  /\ step' = "bob"
  /\ UNCHANGED <<program, args, files, ram, generated, submitted, balance, posted, mine, torn>>

(* Bob's account, from ACCOUNT_RECEIVER. *)
AddBob ==
  /\ step = "bob"
  /\ \/ /\ wallet' = wallet \cup {"bob"}
        /\ step' = IF program = "unix" THEN "check_amount" ELSE "submit"
        /\ UNCHANGED <<alice, queue>>
     \/ Traps
  /\ UNCHANGED <<program, args, files, generated, submitted, balance, posted, mine, torn>>

CheckAmount ==
  /\ step = "check_amount"
  /\ step' = IF TooPoor THEN "poor" ELSE "submit"
  /\ UNCHANGED <<program, args, files, ram, generated, submitted, balance, posted, mine, torn>>

-----------------------------------------------------------------------------
(* Both examples pass vtc_account->public_b32, of which transaction_pay    *)
(* copies the first 32 bytes.                                              *)
receiver_of(account) == [of |-> account, bytes |-> "public_b32"]

NewTx(kind) ==
  [id |-> submitted + 1, kind |-> kind, sender |-> alice.account,
   receiver |-> IF kind = "pay" THEN receiver_of("bob") ELSE receiver_of("none"),
   signed_by |-> NoKey, event |-> "TX_READY_TO_SIGN"]

Submit(kind, next) ==
  /\ submitted < MaxTx
  /\ submitted' = submitted + 1
  /\ mine' = mine \cup {submitted + 1}
  /\ queue' = Append(queue, NewTx(kind))
  /\ step' = next
  /\ UNCHANGED <<alice, wallet>>

(* A submission fails without parameters; an application call is preceded  *)
(* by vertices_application_get, which may fail too.                        *)
SubmitTx ==
  /\ step = "submit"
  /\ \/ program = "unix" /\ Submit(args.run_tx, "process")
     \/ program = "esp32" /\ Submit("pay", "submit_call")
     \/ Traps /\ UNCHANGED <<submitted, mine>>
  /\ UNCHANGED <<program, args, files, generated, balance, posted, torn>>

SubmitCall ==
  /\ step = "submit_call"
  /\ Submit("appl", "process") \/ (Traps /\ UNCHANGED <<submitted, mine>>)
  /\ UNCHANGED <<program, args, files, generated, balance, posted, torn>>

-----------------------------------------------------------------------------
(* One call of vertices_event_process, for the oldest event.               *)

Bug_stops_one_early(rest) == IF Len(rest) <= 1 THEN "free_alice" ELSE "process"

step_after(rest) == IF rest = <<>> THEN "free_alice" ELSE "process"

Becomes(rest) == queue' = rest /\ step' = step_after(rest) /\ UNCHANGED <<alice, wallet>>

EventIs(type) == step = "process" /\ Head(queue).event = type

NextEvent(event, key) ==
  Becomes(Append(Tail(queue), [Head(queue) EXCEPT !.event = event, !.signed_by = key]))

Sign ==
  /\ EventIs("TX_READY_TO_SIGN")
  /\ NextEvent("TX_SENDING", alice.private_key)
  /\ UNCHANGED posted

(* The post, and the handler, which may fail to write its files. *)
Reaches == posted' = Append(posted, Head(queue))

Send ==
  /\ EventIs("TX_SENDING")
  /\ \/ Reaches /\ NextEvent("TX_SUCCESS", Head(queue).signed_by)
     \/ (Reaches \/ UNCHANGED posted) /\ Traps

Bug_success_again == NextEvent("TX_SUCCESS", Head(queue).signed_by)

Retired == Becomes(Tail(queue))

Succeed == EventIs("TX_SUCCESS") /\ Retired /\ UNCHANGED posted

ProcessEvent ==
  /\ Sign \/ Send \/ Succeed
  /\ UNCHANGED <<program, args, files, generated, submitted, balance, mine, torn>>

Frees(who, here, next) ==
  /\ step = here
  /\ wallet' = wallet \ {who}
  /\ step' = next
  /\ UNCHANGED <<program, args, files, alice, queue, generated, submitted, balance, posted, mine, torn>>

FreeAccounts == Frees("alice", "free_alice", "free_bob") \/ Frees("bob", "free_bob", "done")

-----------------------------------------------------------------------------
Main ==
  \/ Connect
  \/ CreateKeys \/ WritePrivate \/ AddAlice \/ OpenAddress \/ WriteAddress
  \/ LoadAlice
  \/ UpdateReads \/ EndsWaiting \/ AddBob \/ CheckAmount
  \/ SubmitTx \/ SubmitCall
  \/ ProcessEvent
  \/ FreeAccounts

Next ==
  \/ \E a \in Arguments : Start(a)
  \/ Main
  \/ Killed
  \/ \E k \in Keys, n \in {"enough", "huge"} : Dispense(k, n)

(* A program that runs goes on, and a node that is asked again and again   *)
(* for an account answers at last.                                         *)
Fairness ==
  /\ WF_vars(Main)
  /\ WF_vars(UpdateReads)
  /\ WF_vars(EndsWaiting)

Spec == Init /\ [][Next]_vars /\ Fairness

-----------------------------------------------------------------------------
TxRecords ==
  [id : 1..MaxTx, kind : {"pay", "appl"}, sender : Keys,
   receiver : [of : {"bob", "none"}, bytes : {"public_b32", "public_key"}],
   signed_by : Keys \cup {NoKey}, event : {"TX_READY_TO_SIGN", "TX_SENDING", "TX_SUCCESS"}]

(* The types of the state. *)
ExamplesTypeOK ==
  /\ program \in Programs
  /\ step \in Steps
  /\ args \in Arguments
  /\ files \in [private : Keys \cup {NoKey, Empty}, address : Keys \cup {NoKey, Empty}]
  /\ alice \in [private_key : Keys \cup {NoKey}, account : Keys \cup {NoKey}, amount : {"low", "enough"}]
  /\ wallet \subseteq {"alice", "bob"}
  /\ ToSet(queue) \cup ToSet(posted) \subseteq TxRecords
  /\ generated \in 0..MaxKeys
  /\ submitted \in 0..MaxTx
  /\ balance \in [Keys -> Amounts]
  /\ mine \subseteq 1..MaxTx
  /\ torn \in BOOLEAN

(* The private key that signs belongs to the account that sends, in every  *)
(* run after any number of runs that were killed, failed or created other  *)
(* accounts, as long as the last creation wrote both of its files ("Source *)
(* the account using private/public keys from files", main.c).             *)
KeysMatch == ~torn /\ alice.account # NoKey => alice.private_key = alice.account

(* Whatever fails and however often a program is started again, it never   *)
(* posts the same transaction twice: the examples stop at the first error, *)
(* so that they never meet the repeated posts of the event loop.           *)
PostedOnce == \A i, j \in DOMAIN posted : posted[i].id = posted[j].id => i = j

(* A program that comes to its end has sent all that it submitted, and     *)
(* leaves no event, no buffer and no account in the SDK.                   *)
NothingLeftBehind ==
  step = "done" =>
    /\ mine # {} /\ mine \subseteq {posted[i].id : i \in DOMAIN posted}
    /\ queue = <<>>
    /\ wallet = {}

(* "The address of the account that receives the amount" (algorand.h), of  *)
(* the "Receiver account address" that vertices_transaction_pay_new takes. *)
PaysBob ==
  \A i \in DOMAIN posted :
    posted[i].kind = "pay" => posted[i].receiver = [of |-> "bob", bytes |-> "public_key"]

(* The loop over the events ends ("while (queue_size && ...)"), whatever   *)
(* the order in which transactions and their events are queued.            *)
ProcessingEnds == step = "process" ~> step \in {"done", "off"}

(* The esp32 example does not wait for ever once its account has enough,   *)
(* unless it has more than an int32_t can hold.                            *)
FundedIsServed ==
  (step = "waiting" /\ balance[files.address] = "enough") ~> step # "waiting"

=============================================================================
