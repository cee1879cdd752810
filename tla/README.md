# A verification project for c-vertices-sdk

The SDK (in `src/`, the repository) lets a small device hold accounts of a
blockchain, build, sign, send and follow transactions, and read account and
application data from a node over HTTP.  This directory models it in TLA+:
modules that TLC model-checks on small instances, and theorems that TLAPS
checks for every value of the constants.

## 1. The system

Everything is C with static storage, no heap of its own, no locks.  All calls
run in the thread of the caller; "asynchronous" means that work is queued as an
event and done when the application calls `vertices_event_process`.

| component | state | operations | talks to |
|---|---|---|---|
| event queue (`src/vertices.c`) | ring of `VTC_EVENTS_COUNT` events, read and write index | `vertices_event_schedule`, drop in `vertices_event_process` | every component and the handler push; the handler gets a pointer into it |
| event loop (`src/vertices.c`) | the handler | `vertices_event_process`, `vertices_new` | transactions before and after, the handler in between |
| transactions (`src/algorand/algorand_transaction.c`) | four `signed_transaction_t` buffers and the index of the next one | `transaction_pay`, `transaction_appl`, `transaction_get`, `transaction_pending_send`, `transaction_free`, `encode_tx`, `encode_tx_replace_signature` | provider (parameters, post), event queue, accounts |
| the applications (`examples/unix/main.c`, `examples/esp32/main/esp32_example.c`) | keys and addresses in files or flash, accounts | create or load an account, submit, process events until none is left, free; their event handlers sign and write files | all of the API |
| provider (`src/algorand/algorand_provider.c`) | receive buffer, version and genesis hash with a counter, last first-valid round and fee | `provider_init`, `provider_ping`, `provider_version_get`, `provider_tx_params_load`, `provider_tx_post`, `provider_account_info_get`, `provider_application_info_get` | HTTP port, JSON and MessagePack parsers |
| accounts (`src/account.c`) | two slots, each free or added | `account_new`, `account_free`, `account_update`, `account_has_app`, `account_balance`, `account_init` | provider, Base32 |
| account parser (`src/algorand/algorand_parser.c`) | the step of a MessagePack walk, the account it fills | `parser_account_mpack` | provider, accounts |
| application state parser (`src/algorand/algorand_parser.c`) | the caller's structure | `parser_application_json` | provider, Base64 |
| transaction encoding (`src/algorand/algorand_transaction.c`) | the payload of a buffer | `encode_tx`, `encode_tx_replace_signature` | transactions |
| codecs (`src/base32.c`, `src/base64.c`) | none | encode, decode | accounts, provider, application state parser |
| hash (`src/sha512_256.c`) | none | `sha512_256` | `vertices_account_new_from_bin` |
| HTTP port (`examples/*/http*.c`, `src/http_weak.c`) | one handle | `http_init`, `http_get`, `http_post`, `http_close` | provider |

A transaction goes through all of it: `transaction_pay` takes the next buffer,
asks the provider for parameters, encodes and queues `TX_READY_TO_SIGN`; the
handler signs and queues `TX_SENDING`; processing that event puts the signature
into the payload, posts it and queues `TX_SUCCESS`; processing that one frees
the buffer.  An error anywhere in the processing of an event leaves the event at
the head of the queue, to be processed again, from its first phase, on the next
call.

What is hard in this code, and what makes it correct:

* *Events drive everything.*  Losing one event loses a buffer for ever, doubling
  one posts twice or frees the buffer of somebody else.  Every encoded
  transaction must have exactly one event in flight, whatever fails in between.
* *Processing is not atomic.*  It has three phases with side effects, only the
  last of which drops the event; it queues the next event before it drops the
  current one, so it needs a free slot, and the handler can call the API, and
  write the event, in the middle of it.
* *Buffers are reused.*  Ids in events outlive what the buffer held; a signature
  is patched into a payload just before it is posted.
* *Answers get lost.*  A post may have been executed although it returned an
  error.
* *Caches go stale.*  The provider falls back on earlier data when it is offline.
* *Handles outlive their slots* in the account table.
* *Sizes and counts are written twice.*  How many fields a map announces, how long
  a text becomes and how much room a decoder asks for are computed apart from what is
  then written; one of the two is easily off by one.
* *Programs end anywhere.*  The examples trap at the first error and keep one key pair in
  two files; the SDK itself keeps nothing over a restart.

## 2. Modules and the code

| module | models | built on |
|---|---|---|
| `EventFifo` | what the event queue promises: a bounded first-in first-out queue | |
| `EventQueue` | the ring buffer of `vertices.c` | refines `EventFifo` |
| `Transactions` | transaction buffers, event loop, the handlers of the two examples | EXTENDS `EventQueue`, refines `TxOutbox` |
| `TxOutbox` | what the SDK promises about transactions: a bounded outbox that executes in order and frees only what was executed | |
| `Provider` | the requests of `algorand_provider.c`, what they keep, and the two HTTP ports | |
| `AccountParser` | the MessagePack walk of `algorand_parser.c`, as operators | |
| `Accounts` | the wallet of `account.c`, filled by the parser | EXTENDS `AccountParser` |
| `Base32`, `Base64` | the codecs, byte by byte, with the sizes of their headers | |
| `AppValues` | the sizes of `app_values_t` | |
| `ApplicationState` | `parser_application_json` | EXTENDS `Base64`, `AppValues` |
| `TxEncoding` | fields, announced counts and lengths of an encoded transaction, the search for its signature | EXTENDS `AppValues` |
| `HttpHeaders` | how header lines are put together, in a buffer of 256 characters, and taken apart again | |
| `Formats` | the calls that turn something into text or bytes, or read it | EXTENDS the codecs and the three before |
| `Examples` | the two example programs from start to end, killed and started again | |
| `TransactionsProofs`, `ProviderProofs`, `AccountParserProofs`, `AccountsProofs`, `CodecProofs`, `FormatsProofs`, `ExamplesProofs` | theorems about these modules, `TransactionsProofs` also about `EventQueue` | `AccountsProofs` EXTENDS `AccountParserProofs`, `FormatsProofs` EXTENDS `CodecProofs` |
| `FoldFacts` | theorems about folds with any operator and flattened sequences | used by INSTANCE, once for each fold |
| `MCTransactions`, `MCProvider`, `MCAccounts`, `MCFormats`, `MCExamples` | values of the constants for TLC | |

Definitions whose name starts with `Bug_` are seeded errors, each written before
the definition it would replace: a dropped guard, a missing reset, an
off-by-one.  Each property is violated by at least one of them.

### EventQueue

`wr_index`, `rd_index` and `evt` are `m_events_queue`.  `ScheduleEvent` is
`vertices_event_schedule`, `DropHead` the last statement of
`vertices_event_process`, `event_queue_size` and `increment_event_index` the
function and the macro of these names; masks are remainders, because the code
demands a power of two.  The third action of the queue on its own lets the handler
rewrite the oldest entry in place, as the esp32 example does through the pointer it is given.

### Transactions

`pending` is `m_pending_tx_buffer`.  Of a buffer the model keeps what
`payload_body_length` says (`body`: free, reserved or encoded), which transaction
is in the payload (`tx`), whose signature is in the `signature` field (`sig`) and
whose in the payload (`payload_sig`).  Transactions are numbered in the order of
encoding and a signature is the number of what it signs, so that "the right
signature" is an equality.  `posted` and `acked` are what the network saw and
what it acknowledged.  `pc` splits a call of `vertices_event_process` in its
phases:

| action | code |
|---|---|
| `transaction_pay`, `transaction_appl` | `algorand_transaction.c:242-306`, `308-377`, with `encode_tx` and the event they queue |
| `PreProcess` | `vertices.c:154-184`, `transaction_pending_send` and the post included |
| `HandleReadyToSign`, `HandleSending`, `HandleSuccess` | the cases of the handler, `examples/unix/main.c` or `examples/esp32/main/esp32_example.c` |
| `PostProcess` | `vertices.c:200-223`, `transaction_free` included |

Between two phases the handler may submit (`HandlerSubmits`).  A failed
assertion, or a read through NULL, sets `stopped`.

### Provider

`version` is `m_provider.version`, with the three numbers as one field (unknown,
none zero, one zero) and the counter as "not zero"; `m_min_fee` and
`m_first_valid` are the statics of `provider_tx_params_load`; `rx_buf` is the text
of the last answer, a record of the fields the code looks for; `client` is the
method that the HTTP handle remembers, and `port`, chosen at the start, which of the two
ports is linked.  A text, a hash, a fee and a round carry
the network they came from: what can go wrong here is that they are mixed.  Strings of an answer
may be `Long`, more than the code has room for.
Every request ends in one of `Outcomes`: answered, refused or interrupted with
part of an answer received, not made at all (esp32, no handle), or successful with the
answer dropped (esp32, chunked).  The outputs of a call, `tx` and `tx_id`, are those of the
last call only.  `versioned`, `loaded`, `dropped` and `newest` are history.

### AccountParser and Accounts

`parser_account_mpack` folds `parse_element` over the tokens of an answer;
`open` stands for the recursion of the C function: how many elements are left in
each map that is being read.  `string_element`, `uint_element` and `finish_map`
are the callbacks.  An answer has the variables of each application with name and type: `VariableNames` are the
names that authors choose, and since the code compares with `strncmp` and the length of the name, a name that is
the beginning of a key stands for that key.  `Accounts` has a slot per `m_accounts` entry, the handles
that the application holds and, as history, the answers read into each slot.
An application frees only handles it holds; it may update any slot.

### Formats

`call` is the last call with its arguments and its result; there is no other
state, because the codecs keep none.  Each action is one function of the API or of the provider
and does all the encoding and decoding on the way: `account_new_from_bin` goes from the key to the address
text and back (`vertices.c:58-88`, then `account.c:28-43`), `application_get` from names in Base64 through the
JSON parser to the caller's structure, `transaction_new` from parameters to the payload
with the place of its signature, `tx_post` and `info_get` from the
header text to the lines that each HTTP port sends.  Two of them may end otherwise.  `tx_post` writes the header
into 256 characters and then asserts that it has less than 128 (`algorand_provider.c:175-186`), so that a text of
more than 91 characters from the application traps (`ASSERT_FAILS`), or has overwritten the stack
before (`UNDEFINED`); `application_get` writes past the eight places of `app_values_t` when an answer, with what the
structure has already, has more elements (`UNDEFINED`).  After either the next call is that of a program
started again.  Base32 and Base64 work on real bytes and characters;
of the fields of a transaction only key, order and length are kept.

### Examples

`step` is where the program is (`main` of the unix example, `vtc_wallet_task` of the esp32 one), `files` what
`private_key.bin` and `public_b32.txt`, or their copies in flash, hold; `alice`, `wallet` and `queue` are
memory and gone when the program ends.

| action | code |
|---|---|
| `Start`, `Connect` | command line, `vertices_new`, ping and version, `main.c:256-324` |
| `CreateKeys`, `WritePrivate`, `AddAlice`, `OpenAddress`, `WriteAddress` | `create_new_account`, `main.c:144-194`, cut between the writes of its files |
| `LoadAlice` | `load_existing_account`, `main.c:196-254` |
| `UpdateReads`, `EndsWaiting` | the loop of the esp32 example, `esp32_example.c:190-212` |
| `AddBob`, `CheckAmount`, `SubmitTx`, `SubmitCall` | `main.c:340-407`, `esp32_example.c:214-257` |
| `ProcessEvent` (`Sign`, `Send`, `Succeed`) | one round of the loop over the events |
| `FreeAccounts` | the end of both |
| `Traps` | `app_error_fault_handler` after a failed `VTC_ASSERT` |
| `Killed`, `Dispense` | the world: the program is killed at any step, somebody sends Algos |

A key pair and the address that belongs to it are one number, so "this key signs for this account" is
an equality.  `torn` says that the last creation of an account did not write both files,
`mine` what was submitted since the program was started.

## 3. What TLC checks

| run | instance | distinct states | shows |
|---|---|---|---|
| `tx_unix` | 16 slots and 4 buffers, the code's values; 8 transactions; posts succeed, fail or lose their answer; the handler submits too | 499,203 | every transaction has one event (`OneEventPerTx`) which says how far it is (`EventTellsProgress`), `NO_MEM` means full, a refused submission leaves no trace (`ErrorLeavesNoTx`; parameters never fail to load here), and all of it is an outbox (`ImplementsOutbox`) |
| `tx_esp32` | 8 slots, 3 buffers, 4 transactions, the handler that rewrites the queue's entry, failing parameter requests | 4,044 | the outbox again, and under fairness every event is processed and every transaction retired |
| `tx_overload` | 4 slots for 4 buffers, files that cannot be written, NULL parameters | 28,742 | the ring is a FIFO that refuses exactly when it is full (`ImplementsFifo`, `NoMemExactlyAtCapacity`), and even with refused and repeated events nothing unsigned is posted (`PostedIsSigned`) and nothing posted forgotten (`PostedIsTracked`) |
| `provider` | two networks, both ports, 1 round, 1 post, strings that are too long, dropped answers | 163,585 | the caches never give a transaction the hash of another network, what is reused offline is of this one, success of a version request means that the version is the network's, an id is the answer to its own post, windows do not move back |
| `accounts` | 2 slots, 2 addresses, 7 kinds of answers, 3 of them read, 2 applications of 2 variables, integers of 4 bits | 41,696 | no slot is given away twice; the first answer that fits is read completely; as long as no application has too many variables and no name misleads it (section 5), the parser takes nothing else for an application, whatever it loses track of |
| `formats` | 4 keys, typed in 4 ways; data of 0 to 20 bytes; names of 1 to 18; 825 answers about an application, of up to 9 states, for structures with 0 to 8 entries; 96 transactions; 10 sets of headers, of up to 220 characters | 7,739 | addresses, data, names and header lines survive; every payload announces what it has, in order, and its signature is found |
| `example` | both programs, 2 generated key pairs, 2 transactions | 366,578 | keys and addresses stay together, nothing is posted twice, a complete run leaves nothing behind; the event loop ends, and an account with enough is served |

The remaining runs check one sentence of the repository each, which the code does
not keep:

| run | the sentence | what happens |
|---|---|---|
| `tx_params_error` | `vertices_types.h:97`, a length that is not 0 means that a transaction is pending | a failed parameter request leaves the length set and the buffer taken for ever |
| `tx_io_failure` | `vertices.h:80-82`, an infinite loop processes all the events | a handler that fails after the post leads to a second post and a success event that can never be processed |
| `provider_offline` | `provider.h:49`, parameters returned with OFFLINE can be used | after a failed version request the genesis hash is empty |
| `provider_get_is_post` | `vertices_http.h:30`, http_get is a GET | after a post the curl handle keeps posting |
| `example_receiver` | `algorand.h:34`, `vertices.h:39`, the address of the account that receives the amount | both examples (`main.c:368`, `esp32_example.c:227`) pass the text of the address; `algorand_transaction.c:281-283` copies its first 32 characters as the key |

*Why the bounds are enough.*  In `Transactions` the index of the buffers goes round twice,
so every buffer holds its second transaction while others are at every stage; `tx_unix`
has the real sizes, and in `tx_overload` the four slots of the queue wrap around.  In `Provider` two networks suffice
to tell "mine" from "another's" and, being names only, are symmetric; the first valid round is one after the last, so
that each network has two first-valid rounds, an older and a newer.  In `Accounts` three
answers fill a slot of two applications and overflow it; answers with byte
slices, with too many applications, with too many variables, with an unknown field and with a misleading name are each
among them.  `AppsMaxCount` and `AppsKvMaxCount` are 2 instead of 3 and 8, the width
of an integer is 4 bits instead of 32.  In `Formats` lengths have every residue of a group and lie on both
sides of each limit, numbers have every length that MessagePack has for them, answers
have two states of every kind, or seven to nine on both sides of the places that there are, and header texts have 91 and 92
characters, on both sides of what is asserted, and 219 and 220, on both sides of what the buffer holds.
In `Examples` a second creation may fail over the files of the first, and two transactions are what the longer program
submits; `Start` is not bounded, so a program is started as often as it ends.

*Fairness.*  `FairSpec` of `Transactions` assumes what `vertices.h:80-82` asks of the application,
that `vertices_event_process` is called for ever (WF), and of the environment
that a transaction posted again and again is taken at last and files are not
unwritable for ever (SF).  Nothing is assumed of the application's submissions.
In `tx_esp32` no answer is lost: a real node would refuse the repeated post for
ever (see below).  `Examples` assumes that a program that runs goes on (`Main`), and of its
waiting loop that a request repeated every minute is answered at last (`UpdateReads`, `EndsWaiting`).  Nothing is
assumed of `Start`, `Killed`, `Dispense` or of which outcome a step has.

`tx_overload` does not check deadlock, because a stopped program stops.

## 4. What is proved

All theorems hold for every value of the constants that the assumptions allow.

`TransactionsProofs`, first of the event queue alone (assuming `EventsCount` is a power of two and at least 2):
`QueueTypeCorrect`, `FullExactlyAtCapacity` and `QueueImplementsFifo`.  The last
maps the window between the indices to a sequence: each step of the ring is a
step of the FIFO, where the only arithmetic is that of remainders.

Then of the transactions:

* `TypesCorrect` holds without further conditions, also when events are refused or repeated.
* `OneEventPerTransaction`, `EventsTellProgress`, `PostedTransactionsAreSigned`,
  `PostedTransactionsAreTracked` and `EventsAlwaysFit` assume `Roomy`: two
  event slots more than buffers, and no handler that fails for lack of a file.  Both
  are needed: without the first an event is refused, without the second one is
  processed twice (`tx_io_failure`).  The code's values, 16 and 4, satisfy the
  first.

None of these properties is inductive.  The invariant `IInv` puts them together
and adds which buffers and phases go together (`BufferInv`, `PhaseInv`) and
which transactions the network knows (`NetworkInv`).  Its key is
`LiveSlots`: while the oldest event is *superseded* (its successor is
queued, it is not dropped yet) two events refer to one buffer, and the
older of them does not count.  With it the argument is:

1. live events map injectively to encoded buffers, so there are at most as many
   as buffers (`LiveEventsBound`), and the queue has at most one event more (`SizeBound`);
2. so an event always fits (`RoomForNext`), also where the code ignores the result;
3. each action then either replaces the event of a transaction by the next one
   (`Succession`, `SignStep`, `PostedStep`, `DropStep`), starts one
   (`EncodeStep`), ends one (`FreeStep`) or changes nothing that counts (`QuietStep`).

And last, on top of it and under `Roomy` too:

* `TransactionsAreAnOutbox`: every step is a step of `TxOutbox` or changes nothing of it, with "waiting" the
  encoded transactions that are not acknowledged and "executed" those that are.  It needs that events do not
  overtake each other (`OrderInv`): of two transactions the earlier one is at a later stage, or at the same one and
  served first.  An event is taken from the head of the queue and its successor put at the end, so the one
  that goes on overtakes nobody and is overtaken by nobody.  Hence the event that is sent is of the oldest waiting
  transaction, and the buffer that is freed the oldest of all.
* `RefusedOnlyWhenFull` and `RefusedLeavesNothing` assume also that no buffer is reserved without a transaction
  (`NeverReserves`; `tx_params_error` shows why).  Then pending transactions are an unbroken range of numbers up to the
  last, each in the buffer that is its number modulo `PENDING_TX_COUNT` (`CycleInv`): if the next buffer is taken,
  a full cycle is pending.

`ProviderProofs`: `TypeCorrect`, `HashIsOfNetwork`, `HashIsKnown`, `ReuseCorrect`, `VersionIsFetched`, `IdBelongsToPost`
and the action property `WindowCorrect`, for any number of networks and rounds and both ports.  The properties say what a call
hands out; the invariant adds what is kept for the next one: a fetched version and fetched parameters are of the
current network (`VersionedInv`, `LoadedInv`), and the newest round handed out is the one that is kept and not ahead of
what the receive buffer may give again (`NewestInv`), which is what makes a dropped answer harmless for the window.

`FoldFacts`: what the parser and the codecs compute is written with the folds and the `FlattenSeq` of the community
modules, which are defined by CHOOSE over recursive functions.  `FoldSteps` proves that a fold does one step for
each element, for any operator (a constant of the module, so that each use is an INSTANCE), and from it come the fold
over a concatenation, over one more element and over a flattened sequence, and the principle that an invariant of the step is one of
the fold (`FoldInvariant`).  The library's induction theorems take an operator as a parameter; here the induction is over
a *set* of numbers (`Induction`), and a property of the fold is a set of states.

`AccountParserProofs`: what the walk makes of a whole answer, of any size.

* Sets of pairs of a step and an account are *closed* if no token leads out of them (`Closed`); `ReadKeeps` and
  `EndKeeps` lift this to whole answers, from any maps that are open.  `Reached` is such a set, so whatever a node
  answers, even with unknown keys and names that mislead, no amount leaves its type and no application its places
  (`AnswerGrows`, `Bounded`).
* After a byte slice, an unknown field or too many applications the parser is in `Lost` or `Full`, which are closed and
  add no application.  Answers that do nothing of the kind are followed token by token: a variable (`VariableRead`), an application
  (`AppRead`), the list (`ListRead`), so that `AnswerKeepsOwnIds` holds.  `Over` is the third closed set and the reason for the exception
  in `AppsAreItsOwn`: nothing is said of an account that has counted too many variables.
* `FirstRead`: an answer that fits, read into an empty account, gives `ReadApps`, which is the account that was meant.

`AccountsProofs`: `HandlesKeepAccounts`, `AccountTypesCorrect`, `AppsAreOwn` and `FirstAnswerRead`, for any number of slots,
applications, variables and answers.  `IInv` is about handles: requests change nothing of a slot but its details, a
taken slot is never the smallest free one, and two handles of one slot have one address, so that a free ends them both or none.
`ReadInv` adds for each slot that it has what the parser makes of the answers it has read (`AllRead`): nothing
if there are none, exactly the parser's result of the first, and only listed applications after more of
them.  That a free slot is empty is needed for the first two.

`CodecProofs` proves of the codecs, for bytes of any number, that decoding gives back what was encoded.  Of Base64 a group is
three bytes and four digits, split and rejoined by division (`Digits`, `GroupRead`); the whole is groups one after the other (`EncodedText`,
`DecodedBack`).  Base32 has no groups: its loops shift a buffer of 16 bits.  The invariant of the encoder, `EncAt`,
says that after k digits these are the k quintets of bits of the input, and that the buffer has, modulo the bits
that are left, the end of the byte read last; that of the decoder, `DecAt`, is its counterpart.  What was shifted out of
the buffer does not matter, which is why only remainders occur in them.

`FormatsProofs`, from `FormatsAssumption` (keys and hashes are 32 bytes, data and names are bytes, transactions are what the API
can build, `IsTransaction`, and the three conditions named below):

* `MapsComplete`, `FieldsSorted` and `PayloadUsable`.  The fields of a transaction are put together from parts with
  conditions.  `Written` says of a part between which two ranks of the alphabet its keys are, in order, how many
  fields it has and between which bounds its bytes; it composes (`WrittenConcat`), so `TransactionWritten` follows
  from the parts, and the three theorems from it.  The sum of the arguments, at most 8, is bounded through the fold.
* `AddressesSurvive`, `SizesAreEnough` and `NodeTextsFit` from `CodecProofs`.  In the first, whatever the checksum is,
  the 36 bytes that are decoded from 58 digits start with the key.
* `AddressesUnderstood`.  What a person types is a parameter, `AsTyped`.  Of it only `IsTyped` is assumed: for each digit there
  is one character that is the digit, the letter in lower case or a digit that looks like it, among any number of
  separators.  The decoder is a fold, so it is enough that such a piece takes it to the state to which the digit
  takes it (`Dec!FoldFlatten`); that the key survives is then `AddressIs`, as above.
* `StatesRead`, for what a node may answer (`GlobalElements`; `Absent` is neither a number nor a text) and a structure that has
  0 to 8 entries.  After each element the entries are those of the complete elements with a key so far (`ParsedTo`), and the
  parsing has stopped exactly if one of these was incomplete or had no place (`StopsAfter`).  In the second case, which is
  that of more than eight elements to write, the theorem says that the structure is exceeded and nothing else.  A name
  shorter than 16 bytes, padded by the node, is decoded and cut right (`NameStored`).
* `HeadersSent`, for lines that are not empty and have no line end in them (`IsLine`).  Their text passes the assertion exactly
  if it has at most 91 characters (`PostPasses`).  `Lines` is the state of `http_post` at
  the end of the k-th line: the first k - 1 are cut off and the k-th begins at `LineFirst`.  A line end is found after each
  line (`EndBetween`) and nowhere else, also not where the last character of one line and the first of the next would make one.
* `CallInv` is the invariant of all of them: the last call returned what it makes of its arguments.

`ExamplesProofs`: `ExamplesTypesCorrect`, `KeysAlwaysMatch`, `NothingPostedTwice` and `EndIsClean`, for any number of key
pairs, transactions and runs.  The invariant adds what a program has at each of its steps (`StepInv`), that the two files are of
one pair except between the writes of a creation (`FilesInv`), that a transaction is on the network exactly when its
event is `TX_SUCCESS` (`QueueInv`), and that what was submitted is queued or posted (`MineInv`).

Only model-checked is liveness (`EveryEventProcessed`, `EveryTxRetired`, `ProcessingEnds`, `FundedIsServed`), which TLAPS does
not do here.  Every invariant and every action property of a passing run is also a theorem.

## 5. Observations without a run

These follow from the models with other constants, or from reading.

* *Small queue.*  With `VTC_EVENTS_COUNT` = 4 and four buffers, three submissions
  fill the queue; signing the first needs a free slot, and the application's
  loop returns `NO_MEM` for ever.  A fourth submission holds its buffer without
  an event (`OneEventPerTx` in `MCTxOverload.cfg`; `EveryEventProcessed` there,
  under `FairSpec`, when no file and no post fails).
* *Lost answer.*  A node that has executed a transaction refuses it when it is
  posted again; the event stays the oldest and blocks the others.
  The code has no way to give up.  The examples never meet it: they trap at the first error.
* *NULL parameters.*  `transaction_appl` with NULL, allowed by `vertices.h:49`, reads
  through it (`algorand_transaction.c:111`).
* *Offline from the start.*  The esp32 port returns OFFLINE when it cannot make its
  handle; a transaction is then encoded with empty parameters (`MCProviderOffline.cfg` with the esp32 port).
* *Chunked answers* reach no parser on the esp32; the answer before is read instead
  (`SuccessMeansFetched` without `~dropped`).
* *After a change of network* fee and round of the old one are reused offline until
  parameters were fetched once (`ReusedAreOfNet` without `loaded`).
* *A version x.y.0* is never reported as OFFLINE.
* *Accounts accumulate.*  `account.md:6` calls an account the information at a round; an update reads into it as it is
  (`account.c:167`), and the applications of all answers add up (`algorand_parser.c:133-147`).
* *Variables taken for applications.*  The parser counts a variable that it has no place for (`algorand_parser.c:511`, after the error of
  292 has ended its map) and, once more than `APPS_KV_MAX_COUNT` are counted, refuses its numbers (167, 183), stays in the
  map around it and may end up where a number is the id of an application; so it may when a byte slice made it take names of variables for keys and one
  of them is "appl", or a beginning of it.  The account then has an application that the node did not list
  (`AppsAreItsOwn` without `Overflowed`, or without `Misleads`).
* *Long headers.*  `provider_tx_post` asserts that what it wrote into 256 characters has less than 128
  (`algorand_provider.c:175-186`): a provider whose header text has more than 91 characters is never posted to, the program ends in
  the assertion, and with 220 or more the stack is overwritten first.  `Provider` is about
  providers with shorter texts.
* *Headers of the esp32.*  The port sends the first key with an empty value and nothing else (`http_esp.c:89`).
  `vertices_http.h:33` describes the separator as "\n\r", the code uses "\r\n"; a NULL header is accepted by a post only.
* *Application calls.*  Every byte-slice argument is taken from the first value (`algorand_transaction.c:155`).  A byte slice of
  an application's state is stored with the type of an integer (`algorand_parser.c:625`), names that do not fit the decoder
  become zeros, and a global state is stored without a look at the room for it (`algorand_parser.c:589`), also when the structure
  is used for a second answer, because its count goes on.
* *Fields.*  "gen" is always that of the test network, whatever the hash, and an amount of 0 is written although
  the network wants it left out.
* *A failed `-n`* of the unix example may leave the key of one account with the address of another, which the
  next start loads (`KeysMatch` without `torn`).  An empty address file is read before its start (`main.c:232`).
* *Amounts* are 32 signed bits of 64: with 2^31 microAlgos the esp32 example may wait for ever.

## 6. Not modelled, and why

* The bytes of the fields of a transaction: only their number, order and length matter to what can go wrong around them.
* The algorithm of SHA-512/256, which is that of mbedtls: `Hash` is any function to 32 bytes.
* URLs of the HTTP ports, and a failure of `curl_easy_init`, after
  which every request ends in an assertion.  `http_weak.c` only returns an error.
* The event queue shared by two threads, which `vertices.h:82` invites: its indices and counters are plain variables, so that
  two unsynchronised calls are undefined in C.  No property could hold of a model with all outcomes.
* An SDK without a handler, and an event scheduled by the application itself rather
  than by its handler.
* Lengths in `rx_buf`, leaks of JSON objects, the 32-bit rounds of cJSON; what a program does after it wrote past the end of an
  array or a buffer (`UNDEFINED`): global states beyond the eighth, a header text of 220 characters or more.
* Of an account: what it has beyond its amount, its applications and the number of their variables.
* An input of 2^28 bytes or more, which `b32_encode` refuses.
* Logging, configuration, compiler macros and build files, which have no behaviour of their own; `mbedtls_config.h`
  configures a library.  mpack, cJSON, mbedtls and libcurl are not in the repository: the modules have what its code makes of them.

## 7. What is left

1. *Composition.*  `Transactions` with `Provider` in place of `ParamsResults` and
   `PostResults`: the events would then carry the window and hash that a transaction was encoded with.
2. *Lengths in `rx_buf`*, with an answer in several chunks.
3. *Proofs* under weaker conditions than `Roomy`, of the refinement of `TxOutbox` first, if there are some
   that a queue of any size satisfies.
