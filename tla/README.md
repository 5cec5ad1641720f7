# The Spacemesh application for Ledger devices: models, checks and proofs

The repository holds a C application that runs inside a hardware wallet.  A host sends it
commands (APDUs); the application derives keys from the device's seed, shows addresses,
transactions and messages to the owner, and gives out a signature or an address when the
owner approves.  Everything hangs on one promise: **what is granted is what was shown, what
was shown is what was uploaded, and it was uploaded for the key it is granted under.**

This directory states that promise and the smaller ones it rests on in TLA+, checks them with
TLC on small instances and proves the most important ones with TLAPS for all values of the
parameters.  Paths below are relative to `src/app/src/`.

## 1. Inventory

| Component | Source | State | Operations | Correct when |
| --- | --- | --- | --- | --- |
| Command handler | `apdu_handler.c`, `common/main.c` | `tx_initialized`, `requireConfirmation`, `G_io_apdu_buffer` | version, address, sign, sign message, three shared-account addresses; chunked upload init/add/last | an upload is complete, in order and under its own path whatever is interleaved |
| Review callbacks | `common/actions.h` | `action_addrResponseLen`, the reply buffer | fill address (4), sign (2), reply, reject | what is answered is what was on screen |
| Upload memory | `common/tx.c` | `ram_buffer`, `N_appdata` (flash), their positions | initialize, reset, append, get | behaves as one bounded sequence |
| Parsed objects | `common/tx.c` | `tx_obj`, `message_tx_obj`, `ctx_parsed_tx` | parse, number of items, get item | a screen never shows an earlier upload |
| Transaction parser | `parser_impl.c`, `parser_impl_common.c`, `scale_helper.c` | cursor, `tx_obj` | read every kind of transaction | accepts the grammar, nothing left over |
| Transaction screens | `parser.c` | none of its own | validate, number of items, items | every field signed is shown, once |
| Message parser | `parser_message.c` | cursor, `message_tx_obj` | read, items | signed bytes are on screen, in order |
| Address requests | `addr.c:27-118` | `addr_request` | clear, read a shared account or a vault | keys hashed are keys shown, no sound request refused |
| Address screens | `addr.c:119-355` | `addr_request`, the mode | number of items and item, for wallet, shared account, vault | an owner who scrolls through sees all that was hashed, once |
| Address encoding | `crypto_helper.c:109-210`, `crypto.c:98-200` | the shared hasher | wallet, account, vesting and vault address | an address hashes its own request; no two accounts share one |
| SCALE encoder | `crypto_helper.c:45-107` | none | encode a number of 64 bits | the application's own decoder reads it back; fits its array |
| Hash wrapper | `zxblake3.c` | one static hasher, `accumInLen` | init, update, finalize | no two hashes mix, no count left over |
| Key derivation and signing | `crypto.c:30-96` | keys on the stack, the caller's array | derive a public key, sign | no secret is left, no part of a result handed out |

Outside the repository's own code: `ledger-zxlib` and the secure SDK (empty submodules: the
loop `app_main`, `io_exchange`, the views, the buffering helper, bech32, page splitting) and
BLAKE3 (vendored).  The first are modelled where `src/` uses them and marked external in
`PROJECT.json`.

**Interaction.**  The device is single-threaded, yet its state is shared: `app_main` calls
`handleApdu` for each command; an instruction that ends in a review returns with
`IO_ASYNCH_REPLY`, and the view later calls back `getItem` (any number of times, any order)
and one of the approve or reject functions.  Between those calls the truth lives in globals
that other instructions write as well: the session flag, `hdPath`, the upload memory,
`ctx_parsed_tx` (a union), `addr_request`, and the reply buffer, which is command, display and
answer in turn.

**What is hard here.**  Not concurrency but *histories*: sequences of legal commands, refused
commands, USB resets, overflows and restarts, after each of which some globals are cleared and
others are not; calls into the SDK that fail half-way; lengths truncated to a byte; memory read
past the end of the present upload; tables kept by hand that must agree.  `hazards` in
`PROJECT.json` lists each at its line, with the properties about it.

## 2. Modules

| Module | Models | Role |
| --- | --- | --- |
| `Signer` | - | the promise, abstractly: open, extend, ask, grant, withdraw |
| `UploadBuffer` | - | the bounded sequence the handlers take the memory for |
| `AnsweredBuffer` | - | the same with its answers: what a call reports is what it did |
| `ApduSession` | `apdu_handler.c`, `actions.h` | the handler; instantiates `UploadBuffer`, implements `Signer` |
| `HostUpload` | - (a host and an owner) | `ApduSession` with a host that retries, for liveness |
| `TxBuffer` | `common/tx.c` | RAM and flash; implements `AnsweredBuffer` |
| `AddressRequest` | `addr.c`, `crypto_helper.c` | shared accounts: check, hash and index the keys |
| `AddressScreens` | `addr.c` | the three tables of screens; composes them with `AddressRequest`, which it implements |
| `AddressEncoding` | `crypto.c`, `crypto_helper.c` | what an address is the hash of; over the next two |
| `Zxblake3` | `zxblake3.c` | the one static hasher |
| `ScaleEncoder` | `crypto_helper.c:45-107` | compact integers, written |
| `Scale` | `parser_impl_common.c:22-103` | compact integers, read |
| `CryptoKeys` | `crypto.c:30-96` | derivation and signing, a chain of calls that may fail |
| `MessageReview` | `parser_message.c`, `tx.c`, `actions.h` | messages: read, show, sign |
| `TxParser` | `parser_impl*.c`, `scale_helper.c`, `parser.c` | transactions: read, validate, show |
| `..._proofs` | | the theorems about `ApduSession`, `TxBuffer`, `AddressRequest`, `AddressScreens`, `AddressEncoding`, `CryptoKeys`, `MessageReview` and `TxParser` |
| `MC...` | | the instances TLC checks |

How state and actions correspond to the code:

- **ApduSession.**  One action per instruction and outcome: `HandleGetAddr`, `InitUpload`,
  `AddChunk`, `ChunkTooLong`, `HandleSign`, `HandleSignMessage`, `HandleMultisig`, the refusals,
  and `AppSign`, `AppMessageSign`, `AppReplyAddress`, `AppReject` for the owner's answer.
  `process_chunk` is inlined in code into each of five instructions; init and add do the same in
  all five, so one action stands for them, and only the last chunk depends on the instruction.
  `io` stands for the address laid out in `G_io_apdu_buffer`; any command that reuses the buffer
  sets it to `NoRequest`, a USB reset leaves it as it is.  `sent` is a history variable: what the host handed over since it last
  sent an init chunk; no guard reads it.  `review` holds the two callbacks `view_review_init` was
  given.  `reply` is the last answer: its status word, the error text that goes before it, and
  what it gives out.  Whether an upload is a valid transaction or message is a parameter; whether
  it is a valid account request, and whether the device can derive its key, is a choice.
- **AddressRequest.**  The request is *memory*: a record with arbitrary content for all ten key
  slots, since the code lays a struct over the upload and may read past its end.  The loops of
  `readAddressRequest` and `crypto_encodeAccountPubkey` take one step per participant.
- **AddressScreens.**  The view (external) asks for one item more or one fewer and stays where
  it is when there is none; `shown` and `reached` are history: the fields the owner has had on
  screen.  A field is a tuple of its label and its value, so that two items with the same value
  under another label differ.  The index is an `int8_t` where the code compares it and a `uint8_t`
  where it looks it up.  `DecideAccount` is `AddressRequest`'s `Decide` followed by opening the
  review, and the vault's numbers come with the request.
- **AddressEncoding.**  One action per call that feeds the hasher, one per decision.  The pieces
  hashed are opaque (a template, a key, an inner address) or bytes, and a hash is the stream it
  absorbed.  The hasher and its count survive every request, also those abandoned after the
  template was absorbed.  A vault runs the encoder of its owner first, through the same hasher.
  What `updateScaleEncodedNumber` reads back from behind `encNum` is any of `StrayByte`.
- **ScaleEncoder.**  A number of 64 bits is its eight bytes; the encodings are shifts over bytes.
- **CryptoKeys.**  One action per call into the SDK.  Each may fail before, or after it has put
  part of its result into its array; `CleanUp` is the label `catch_cx_error`.
- **HostUpload.**  `ApduSession`'s own actions, in the order in which one host sends them, the
  owner's answers, and `Disturbed`: any step of `ApduSession` at all, a bounded number of times.
- **MessageReview.**  Pointers are offsets into one memory that keeps what earlier uploads left;
  `message_tx_obj` survives from message to message as in the code.  The screens (`Shown`,
  `Screens`) are those of the object as it stands, leftovers of earlier messages included.  Such a
  leftover may reach past the modelled memory, and what it finds there is any of `Behinds`.
- **TxBuffer.**  The two memories with their positions and the last call with its answer (what
  `process_chunk` compares with the chunk's length); the helper's copy to flash is external.
- **TxParser.**  The order of fields is data (`todo`), extended by the method, the template and
  the number of keys as each is read.  The overlaid union of `parser_tx_t` is one record with a
  component per field (every parse starts from zeros and writes the fields of one method only).
  `Layout` and `IsTransaction` say without the parser's tables what a transaction is: its type,
  its numbers, and fields of their lengths one after the other from the first byte to the last.
  `Transactions` are those that hosts mean; in the run they are also what the wrong uploads were
  meant to be, so that a transaction is told from what only looks like one.  `ShownScreens` are
  the screens of the review with what they say: a number as its value, an address, a key or a
  template as its bytes, a title as itself.  `ScreensOf` are those of any other upload that is a
  transaction.

## 3. Runs

| Run | Instance | What it shows |
| --- | --- | --- |
| `apdu_session` | 3 paths (one not recognised), a path of wrong length, 2 byte values, chunks of 0 to 2 bytes, capacity 3, payloads that are a transaction only, a message only, both, neither | `UploadIntact`, `ReviewCoherent`, `OnlyAcceptedGranted`, `AddressRequestNeverBusy`, and `ImplementsSigner` (refinement) |
| `host_upload` | hosts that want a transaction in two chunks, a message, a vault's address; four disturbances of any kind | `WantedGranted` (liveness): the upload that is repeated is granted |
| `address_request` | every number of keys from 0 to 9, lengths one byte off, 256 or 512 bytes more, shorter than the header; own index in range, at the end and out of range; keys in order with every gap, and out of order; well-formed requests of 1 to 8 participants; vaults with times on both sides of the sign bit; both modes; every way of scrolling | `ShownKeysAreHashedKeys`, `WellFormedAccepted`, `ReviewedAccountIsSound`, `WholeAccountShown`, `EachItemOnce`, `EveryStepDecides`, `RequestDecided` (liveness) |
| `address_multiple` | the requests alone | finding 1 |
| `address_ten` | the requests alone | finding 2 |
| `address_encoding` | wallets of two keys; accounts of 1 to 3 participants in every order, of 10 and 11, with 0 to one approver too many, and 65, whose hashed byte is that of 1; vaults with numbers on both sides of every change of encoding; one after the other through one hasher | `AddressIsOfItsRequest`, `SoundRequestServed`, `DistinctAccountsDistinctAddresses`, `HashedNumbersReadBack` |
| `vault_u64` | the same | finding 4 |
| `crypto_keys` | two paths, two messages, every call failing in every way | `NoSecretLeft`, `WholeResultOrNone` |
| `message_review` | headers with prefix 0, 1, 256 and message 0, 1, bodies of 0 to 3 bytes, texts that look alike, the word "Empty", in any order through the same memory and object, with other uploads and restarts between | `AcceptsTheFormat`, `SignedIsOnScreen`, `ScreensTellTheMessage` |
| `message_empty` | the same | finding 3 |
| `tx_buffer` | 2 bytes of RAM, 4 of flash, chunks of 0 to 3 and 5 bytes, any initial flash | `ImplementsUploadBuffer` (refinement) |
| `tx_parser` | every kind of transaction, fields of 1 or 2 bytes, 0 to 3 keys, numbers at every boundary between encodings; each cut at every byte, with a byte too many, and with one field wrong; the transaction each of them is meant to be (`Transactions`); both modes; every index of an `int8_t` | `FieldsTileTheUpload`, `ScreensShowTheTransaction`, `NoOtherScreens`, `ReadsTransactionsAsMeant`, `ScreensTellTheTransaction`, `AcceptsTheGrammar` |

Each run also checks its module's type invariant, which says besides types that no cursor, count
or index leaves its array.

**Bounds and why they are enough.**  The session's control depends on whether a path is
recognised, whether a chunk fits, what the payload is and which instruction ends it; each takes
all its values, and two recognised paths and two byte values tell a request from another.
`Disturbances` is 4: enough to open a foreign upload, extend it, and fail its request or overflow
the memory before the host comes back, and to lock or restart the device as well.  Four keys more
or fewer than the limits of `addr.c` (7 by the byte, 10 by the settings) are reached.  `INT_MAX`
is 127 instead of 2^31-1, so that the times of a vault lie on both sides of it; `MAX_INPUT_LEN`
is 400 instead of 4095, the smallest multiple of 100 that leaves room for the longest account
(346 bytes), so that a count left over from one request is noticed in the next.
In the parser the lengths 20, 24 and 32 are scaled to 1, 2 and 1 and the limits 2^62-1 and 2^32-1
to 2^30-1 and 100, because TLC's integers have 32 bits; no control depends on their size.  Every
encoding length of a compact integer is kept.  No state is bounded by a guard, but for
`Disturbances`: uploads are bounded by the capacity, as in the code.
In `message_review` a leftover field reaches past the memory because a length of 256 is stored
before it is refused; what it finds there is all 0 or all 1, which give different screens (the
proofs take any bytes).

**Fairness.**  Two properties need any.

- `RequestDecided`: weak fairness of `DecideAccount`, the union of the steps the handler takes by
  itself.  The code justifies it: `handleMultisig` runs to its end on a single-threaded device
  without waiting for anyone.
- `WantedGranted`: weak fairness of the host's next step, of the owner approving what the host
  wants, rejecting what it does not want, and unlocking the device.  This is not something the
  code guarantees: it is what is assumed of the world, and the property says that the *code* then
  keeps nothing from going on.  Events of the device are not fair: a restart or a failed
  derivation may happen up to the bound and need not.

Safety properties assume nothing.  `CHECK_DEADLOCK` is on in every run.

**Violations (findings).**

1. `addr.c:59` and `:90` keep the size of the keys in a `uint8_t`, so the check "Ensure the buffer
   size is a multiple of pubkey_item_t" (`addr.c:60`) holds modulo 256 only: 3 + 33 + 256 bytes
   pass as one key, the rest being ignored.
2. For the same reason accounts of nine and ten participants are refused, though
   `MAX_MULTISIG_PUB_KEY` is 10 (`crypto_helper.h:31`) and `docs/APDUSPEC.md:313-314` states no
   such limit.  `WellFormedAccepted` holds up to eight.
3. `tests/message_testcases.json` expects "Prefix : Empty" for a prefix of length zero; after an
   earlier message with a prefix the device shows a slice of the new upload instead, since
   `parser_message.c:146` writes nothing and `message_tx_obj` is not cleared.  What is *signed* is
   not affected; what is shown is more than what is signed.  So two messages may look the same:
   `00 00 00 00 01` after `01 00 00 00 01 01` shows "Prefix (hex): 01", PROPOSAL and "Empty", which
   are the screens of the latter.  `SignedIsOnScreen` therefore says that all that is signed is on
   screen and not the converse, and `ScreensTellTheMessage` excepts fields of length zero.
4. `docs/APDUSPEC.md:320-321` gives a vault's amounts 64 bits, and the encoding of a number of
   2^56 or more takes nine bytes where `encNum` (`crypto_helper.c:103`) has eight.
   `AddressIsOfItsRequest` and the properties after it speak of numbers that fit.

Also met, and no disagreement with anything written; the models do as the code does:

- `_getValue` accepts 16383 in four bytes (`< 16383U`) though two suffice (`MinFourByte`), and a
  spawn of zero approvers passes the parser (`Multisigs` in `MCTxParser`);
- a vault's start and end are printed with `%d` (`addr.c:321`, `:326`), as negative numbers from
  2^31 on; no two vaults look the same for it (`WholeAccountShown`);
- a message field that spells "Empty" looks like one that is empty, with nothing left over from
  an earlier message; `ScreensTellTheMessage` names the two as the only such pair;
- the bytes of a message that are signed leave out the two lengths, so one signature is that of
  every division of the same bytes into prefix and message;
- a large compact integer need not be of the least length (`getValue`), so that several uploads
  are the same transaction and look the same; nor do the screens tell the version and, to an owner
  who is no expert, the nonce, the template, the method's number and the genesis, or the public
  key of a new wallet (`NeverShown`, `ExpertOnly`).  `ScreensTellTheTransaction` says that
  everything else is told.

## 4. Proofs

All constants are unbounded: any set of bytes, chunks, paths, payloads and requests.

- **ApduSession.**  `IInv` is `TypeOK /\ UploadIntact /\ ReviewCoherent` with the facts they need
  of each other: a review on screen was entered by its own last chunk or by GET_ADDR, so `sent`
  still equals path and buffer, while an open upload's path is recognised.  Neither `UploadIntact`
  nor `ReviewCoherent` is inductive alone: that the address in `io` is the one on screen needs the
  buffer and the path to be untouched while a review is up, which is because commands arrive only
  when there is none.  `HandlerImplementsSigner` maps `upload` to `sent` when the session is open,
  `asked` to what the callbacks display, `granted` to the last answer; each handler action is one
  abstract step or a stutter.  `FailedRequestsAreForgotten` is an action property.
  `GrantsAreAccepted` carries what the parser decided at the last chunk to the moment of the
  answer: the request on screen is acceptable when the review opens, no command arrives before it
  is answered, and the answer grants the request on screen (`AnswersDisplayed`) or nothing.
  `HostDrivesTheDevice` shows each step of `HostUpload` to be one of `ApduSession` or a stutter, so
  that the theorems about the handler hold in every behaviour of the host too.
- **TxBuffer.**  `MemoriesImplementBuffer`: an append that is reported whole, to RAM, to flash or with
  the move in between, is `StoreAnswered`, by a lemma on what a copy leaves below its position; one
  that is refused did not fit and changed nothing.
- **AddressRequest.**  The inductive invariant says how far the cursor lags behind the participant
  (by one past the own index), and that the keys hashed so far are those the screens would show.
  From it: the cursors stay in the array, the keys on screen are the keys hashed, well-formed
  requests are served, and accounts on screen are sound.  `LoopsEnd` counts down: `StepsLeft` is a
  natural number that every step of the handler makes smaller, because the invariant keeps each
  counter below its bound; 22 steps decide any request.
- **AddressScreens.**  `ReviewsImplementRequests` first: every step of the review is a step of
  `AddressRequest` or leaves it alone, so that its invariant holds here too.  On top of it,
  `shown` is the set of the first `reached` items, and the position is at most one ahead; items
  are pairwise distinct because their labels are, and, under one label, their numbers.  At the
  end, where `reached` is the number of items, that set is `HashedFields`, table by table.  The
  step that no two vaults look alike needs that `AsInt` is injective on `UInt32`, for any `INT_MAX`.
- **AddressEncoding.**  The invariant says what the hasher has absorbed at each stage: the prefix of
  the request's input that ends there, with the count of its bytes, which stays below the limit
  by `InputAssumption`.  That the owner's address is complete before the vault's hash starts, and
  that whatever an abandoned request left is gone after `HashInit`, are the cases that matter.
  `AddressesTellAccountsApart` rests on what is hashed being readable in one way only: the first
  piece tells the type, the first byte of an encoding tells its length, so that the encodings are
  prefix-free (`EncodingsArePrefixFree`) and no two lists of four numbers join to the same bytes.
  It also needs `CheckedInv`, that a request past the check has accepted settings: of the
  approvers only six bits are hashed, and 65 of them would hash like 1.
  `HashedNumbersReadBackAlways` follows the reader from number to number (`NumberStarts`) and
  compares the value it reads with the bytes that went in (`ReadsItself`).  `SevenBytesFit` bounds
  finding 4: numbers below 2^56 never leave `encNum`.
- **CryptoKeys.**  The invariant tells for each stage which of the arrays may hold a secret; from
  `CleanUp` on none does.  `FailedUntilDone`: `error` is an error until the result is whole.
- **MessageReview.**  The cursor is a sum of the lengths read so far, and the object's present
  fields lie where the format puts them, inside the memory (`KeptFields`).
  `SignedMessagesWereShown` joins them to the slice that is signed.  `ScreensTellTheMessageAlways`
  has to show that the form of a field is one-to-one: text and hexadecimal digits are told apart by
  the label, their bytes by their characters and lengths, and only the word for an empty field has
  a second reading (`FieldTold`).  Of a field without a length, whose screen shows whatever the
  object still points at, nothing more is claimed; neither theorem assumes that the object was
  cleared, or anything of `Behinds` but that it is bytes.
- **TxParser.**  Tiling needs that no field is overwritten by a later one.  Every field has a rank
  (`Rank`), the fields still to be read lie in the order of their ranks, above those that were
  read, and a number that brings further fields with it (the method, the gas price of a spawn, the
  number of keys) is the last of those still to be read, so that what it brings follows (`Ahead`).
  `Tiles` then says that the fields read lie without gaps up to the cursor and that the object
  still holds each.  A second invariant (`Complete`) says that the fields read and the fields still to be
  read are, together, the fields of this kind of transaction as far as the numbers read so far tell it
  (`Planned`): it holds because each number that decides on further fields comes once.  On a review
  nothing is left to read, so `ScreensShowEveryField` only has to compare `Planned` with the five
  tables of screens, in either mode; with several keys, `MultisigScreen` finds the screen of an item,
  so that no two are the same.  `NoIndexShowsMore` needs the bound on the number of keys and
  `9 + 2 * MAX_MULTISIG_PUB_KEY <= 127`: with 60 keys, an index of the view would wrap round.
  `TransactionsReadAsMeantAlways` relates the parser to `IsTransaction`, which does not mention
  it.  For a transaction that the upload is, `Follows` says that the parser has read exactly its
  first fields with its numbers, is at the next, and has not refused; that no check refuses it
  is `PartAccepted`, that what a number brings is what the layout has next is `NextPart`.  For
  an upload on screen, `Sequenced` says that the fields read are those of `Layout` in order, and
  `Checked` that the numbers still pass the checks made when they were read, as none is read
  twice.  `LayoutAt` ties the layouts to the parser's tables.
  `ScreensTellTheTransactionAlways` takes a second transaction with the same screens.  The titles
  tell the method and the type of account (`TitlesDiffer`), and where one function prints two
  types its title does (`SameKind`); the screen of the number of keys gives their number, so that
  both have the same layout (`SameFields`), in which every field has one place (`OnePlaceEach`);
  and since by `ReviewMatches` every field that is not hidden has a screen, the two screens at its
  index have the same text, which is the field's (`TextOf`, `SameField`).

Assumptions are the named `ASSUME`s of the modules, evaluated by TLC in the passing runs; they
are about the constants only, and the code has the values 10 (`MAX_MULTISIG_PUB_KEY`), 24, 32
and 4095 that satisfy them.

Only model-checked, and why:

- `RequestDecided` and `WantedGranted`: liveness under fairness, which the prover does not reach.
  Of the first, `LoopsEnd` proves the part that is not about fairness; that the handler has a
  next step until it has decided is about `ENABLED` and checked by TLC, which finds no deadlock;
- `AcceptsTheGrammar`: its reference is an encoder written out in `MCTxParser`, for one instance.
  `ReadsTransactionsAsMeant` is its general form and is proved;
- the value of a compact integer as a sum over its bytes: in the proofs about `TxParser` what
  `getValue` returns is opaque, and the theorems hold for whatever it returns (the bytes that a
  vault hashes are the exception: there, reader and encoder are proved to agree);
- the four violations.

## 5. Not modelled

- BLAKE3 and the secure SDK's cryptography: a hash, a key and a signature are told by what they
  were made from; bech32 likewise is one-to-one.
- Texts: decimal numbers, hexadecimal digits (but for those of a message), wording, the pages of a
  long value.
- `INS_TEST` (test builds only); `app_reply_error`, `readBytes`, `tx_parse_reset` and
  `zxblake3_hash`, which nothing calls; the logging of `crypto.c`.
- The device's runtime, except where the handlers rely on it: commands arrive one at a time and
  none while a review is pending; no button works while the device is locked.  Its sources are
  git submodules that the repository does not hold.
- Tests, fuzzers and build files.

## 6. Composition

The modules meet at four seams.  `ApduSession` is written over `UploadBuffer`, of which
`AnsweredBuffer` gives the answers `process_chunk` looks at, and `TxBuffer` implements the latter.
`ApduSession` takes whether a payload is a transaction or a message from constants that
`TxParser` and `MessageReview` give their meaning; it takes whether a request for an address is
valid as a choice that `AddressRequest` makes.  `AddressScreens` is a composition with
`AddressRequest` proper, and `HostUpload` with `ApduSession`.  What an address is the hash of is
one sequence of keys in `AddressRequest` (`hashed`), and the `keys` of a request in
`AddressEncoding`.

A joint state space of the handler and the two memories is left for later: it would check that no
order of calls other than those of `UploadBuffer` reaches `TxBuffer`, which the handler's text
shows.
