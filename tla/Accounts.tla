------------------------------- MODULE Accounts -------------------------------
(***************************************************************************)
(* The wallet of the SDK, src/account.c: ACCOUNTS_MAXIMUM_COUNT static     *)
(* slots, each free or added, filled from the answers of the node.         *)
(*                                                                         *)
(* A handle is the address of a slot.  It stays valid as an address after  *)
(* the account was freed and when the slot is used again; held has what    *)
(* the application believes.  The application is assumed to free only      *)
(* what it holds, but may ask for updates of any handle it ever got.       *)
(*                                                                         *)
(* Definitions named Bug_... are seeded errors: each replaces the          *)
(* definition that follows it when the properties are tried out.           *)
(***************************************************************************)
EXTENDS AccountParser

CONSTANTS
  Addresses,      \* the addresses (public_b32) of accounts
  NoAddress,      \* the zeroed public_b32 of a free slot
  AccountsCount,  \* ACCOUNTS_MAXIMUM_COUNT
  Answers,        \* what a node may answer about an account, see Tokens
  MaxFetches      \* bound: how many answers are read

ASSUME AccountsAssumption ==
  /\ NoAddress \notin Addresses
  /\ AccountsCount \in Nat \ {0}
  /\ MaxFetches \in Nat
  /\ \A d \in Answers : IsAnswer(d)

VARIABLES
  m_accounts,  \* the slots
  held,        \* the handles that the application holds: slot and the address it is for
  ret,         \* what the last call returned
  fetches,     \* how many answers have been read
  answers      \* history: the answers read for a slot since it was taken, oldest first

vars == <<m_accounts, held, ret, fetches, answers>>

Slots == 0..(AccountsCount - 1)

EmptySlot == [status |-> "none", public_b32 |-> NoAddress, details |-> EmptyDetails]

Init ==
  /\ m_accounts = [i \in Slots |-> EmptySlot]
  /\ held = {}
  /\ ret = "SUCCESS"
  /\ fetches = 0
  /\ answers = [i \in Slots |-> <<>>]

-----------------------------------------------------------------------------
AnswerTokens == [d \in Answers |-> Tokens(d)]

(* provider_account_info_get for slot i of the given slots: an error of    *)
(* the provider leaves the account, the result of the parser is ignored.   *)
(* There is no account with the zeroed address.                            *)
provider_account_info_get(slots, read, i) ==
  \/ /\ m_accounts' = slots
     /\ answers' = read
     /\ ret' = "HTTP"
     /\ UNCHANGED fetches
  \/ /\ slots[i].public_b32 # NoAddress
     /\ fetches < MaxFetches
     /\ fetches' = fetches + 1
     /\ \E d \in Answers :
          /\ m_accounts' =
               [slots EXCEPT ![i].details = parser_account_mpack(AnswerTokens[d], slots[i].details)]
          /\ answers' = [read EXCEPT ![i] = Append(@, d)]
     /\ ret' = "SUCCESS"

(* Which slot a new account takes. *)
FreeSlots == {i \in Slots : m_accounts[i].status = "none"}

Bug_takes_a_fixed_slot == 0

slot_taken == Min(FreeSlots)

(* The slot stays taken, and the handle is returned, when the provider     *)
(* returns an error.                                                       *)
account_new(a) ==
  \/ FreeSlots = {} /\ ret' = "NO_MEM" /\ UNCHANGED <<m_accounts, held, fetches, answers>>
  \/ /\ FreeSlots # {}
     /\ LET i == slot_taken
        IN /\ provider_account_info_get(
                [m_accounts EXCEPT ![i].status = "added", ![i].public_b32 = a],
                [answers EXCEPT ![i] = <<>>], i)
           /\ held' = held \cup {[slot |-> i, address |-> a]}

Bug_details_not_cleared(i) == [m_accounts[i] EXCEPT !.status = "none"]

slot_after_free(i) == EmptySlot

account_free(h) ==
  LET i == h.slot IN
  /\ m_accounts' = [m_accounts EXCEPT ![i] = slot_after_free(i)]
  /\ held' = held \ {h}
  /\ answers' = [answers EXCEPT ![i] = <<>>]
  /\ ret' = "SUCCESS"
  /\ UNCHANGED fetches

account_update(i) ==
  /\ provider_account_info_get(m_accounts, answers, i)
  /\ UNCHANGED held

(* An address that is not one of a slot is no account. *)
UnknownHandle(code) == ret' = code /\ UNCHANGED <<m_accounts, held, fetches, answers>>

(* vertices_new, called again, forgets all accounts. *)
account_init ==
  /\ m_accounts' = [i \in Slots |-> EmptySlot]
  /\ held' = {}
  /\ answers' = [i \in Slots |-> <<>>]
  /\ ret' = "SUCCESS"
  /\ UNCHANGED fetches

Next ==
  \/ \E a \in Addresses : account_new(a)
  \/ \E h \in held : account_free(h)
  \/ \E i \in Slots : account_update(i)
  \/ UnknownHandle("NOT_FOUND") \/ UnknownHandle("INVALID_PARAM")
  \/ account_init

Spec == Init /\ [][Next]_vars

(* The applications that account_has_app finds, which decides whether      *)
(* transaction_appl opts in: the status of the slot is not looked at.      *)
HasApps(i) ==
  LET read == m_accounts[i].details
  IN  {read.apps[j].app_id : j \in 0..(read.app_idx - 1)}

-----------------------------------------------------------------------------
(* The types of the state; no more applications than there is room for.    *)
AccountsTypeOK ==
  /\ \A i \in Slots :
       /\ m_accounts[i].status \in {"none", "added"}
       /\ m_accounts[i].public_b32 \in Addresses \cup {NoAddress}
       /\ m_accounts[i].details.app_idx \in 0..AppsMaxCount
       /\ m_accounts[i].details.amount \in (0 - IntRange \div 2)..(IntRange \div 2 - 1)
  /\ held \subseteq [slot : Slots, address : Addresses]
  /\ ret \in {"SUCCESS", "NO_MEM", "HTTP", "NOT_FOUND", "INVALID_PARAM"}
  /\ fetches \in 0..MaxFetches

(* A handle names the account it was returned for until it is freed: no    *)
(* slot is given away twice.                                               *)
HandleKeepsAccount ==
  \A h \in held :
    m_accounts[h.slot].status = "added" /\ m_accounts[h.slot].public_b32 = h.address

(* An account has only applications that the node listed for it: although  *)
(* the parser loses track of unknown keys, byte slices and applications    *)
(* that it has no room for, it takes nothing else for an application, and  *)
(* nothing is left from an earlier account in the same slot.  It does take *)
(* the type of a variable for an application once an application has more  *)
(* variables than there are places, or when a name misleads it.            *)
AppsAreItsOwn ==
  \A i \in Slots :
    \/ Overflowed(m_accounts[i].details)
    \/ \E n \in DOMAIN answers[i] : Misleads(answers[i][n])
    \/ \A a \in HasApps(i) : \E n \in DOMAIN answers[i] : a \in DOMAIN answers[i][n].apps

(* The first answer that the parser was written for is read completely:    *)
(* the account has its amount, if an int32_t can hold it, and exactly its  *)
(* applications, each with its variables.                                  *)
FirstAnswerIsRead ==
  \A i \in Slots :
    Len(answers[i]) = 1 /\ Fits(answers[i][1]) =>
      LET d == answers[i][1]
          read == m_accounts[i].details
      IN /\ d.algo < IntRange \div 2 => read.amount = d.algo
         /\ HasApps(i) = DOMAIN d.apps
         /\ read.app_idx = Cardinality(DOMAIN d.apps)
         /\ \A j \in 0..(read.app_idx - 1) :
              read.apps[j].kv_count = Len(d.apps[read.apps[j].app_id])

=============================================================================
