# The Ledger Tezos apps in TLA+

This directory is a verification project for the two Ledger apps built from
this repository: *Tezos Wallet*, and *Tezos Baking* (`BAKING_APP`), which signs
blocks and endorsements without asking. It holds TLA+ modules translated from
the C sources, TLC configurations that check them on small instances, and proofs
that TLAPS checks for every value of the constants. `PROJECT.json` lists, for
every definition that models code, the lines it stands for; it also lists runs,
hazards, findings and theorems.

Paths below are relative to the repository root. Line numbers are those of the
commit this project was written against.

## 1. Inventory

### Components, their state and their operations

**High water marks and the authorised key** (`src/baking_auth.c`,
`src/globals.c`, `src/types.h`, Baking only). State: one record in flash,
`N_data`: the main chain id, a mark (`highest_level`, `had_endorsement`) for the
main chain and one for all other chains, and the authorised derivation type and
path. Operations: `guard_baking_authorized`, `write_high_water_mark`,
`authorize_baking`, and the bodies that set-up, reset and deauthorise give to
`UPDATE_NVRAM`, which copies the record, changes the copy and writes it back.
What makes it correct: no block leaves the device at or below a level already
signed, no endorsement is repeated, only the user lowers a mark, and a power cut
at any moment loses nothing a host may already hold.

**Instruction handlers** (`src/apdu_baking.c`, `src/apdu_setup.c`,
`src/apdu_pubkey.c`, `src/apdu_hmac.c`). Each handler validates its APDU, writes
its own struct into the union `global.apdu.u`, then answers or opens a prompt
whose callbacks later read that struct. What makes them correct: the value the
user confirmed is the value stored; a struct laid over another handler's never
gives an APDU a meaning it should not have.

**Signing** (`src/apdu_sign.c`). State, in the same union: key, packet counter,
parsed baking data or operation, message buffer, hash state, magic byte.
Operations: `P1_FIRST` starts a session; each `P1_NEXT` packet is parsed, the
previous bytes are hashed block by block, the packet is appended; the last
packet closes the hash and leads to a signature (baking) or a prompt. What makes
it correct: what is checked or shown is what is signed, for every way of cutting
the message into packets.

**Operation parser** (`src/operations.c`, `src/michelson.h`). A state machine fed
one byte at a time, with subparsers for integers, fixed-size fields and
Michelson addresses. It accepts reveals and one other operation and fills the
struct that prompts display. What makes it correct: a group it accepts is
displayed as what it is.

**Main loop, boot, errors** (`src/apdu.c`, `src/apdu.h`, `src/main.c`,
`src/boot.c`). One APDU at a time; a handler answers, throws an error (the loop
clears `global.apdu` and answers with its code) or throws `ASYNC_EXCEPTION` (a
prompt is open, the answer comes later from a button callback).
`EXCEPTION_IO_RESET` restarts the loop without clearing anything; any other
exception outside a handler ends the app.

**Prompts and idle screens** (`src/ui_nano_s.c`, `src/ui_nano_x.c`,
`src/ui_common.c`). State: two button callbacks, up to seven value callbacks,
the screen on display, a cycle counter. Operations: `ui_prompt`, button presses,
tickers that show the next screen and time prompts out. What makes it correct: a
press answers the prompt the user sees, every screen of it is shown, and every
prompt ends.

**Strings** (`src/to_string.c`, `src/base58.c`): stateless. What makes them
correct: an amount on display reads as the number that is signed, and fits its
buffer.

**Keys, wire helpers** (`src/keys.c`, `src/protocol.h`, `src/memory.h`):
stateless; derivation and signatures are calls to the SDK. **Build, tests, tools, nix**: no program logic.

### How they interact

Hosts reach the device through `io_exchange`, one outstanding APDU at a time.
`main_loop` calls a handler from the table filled in `app_main`. Handlers share
the union `global.apdu.u` and the flash record. Prompts connect a handler to a
callback that runs inside a later `io_exchange`, outside the loop's `TRY`.
Callbacks write flash, answer, and return to the idle screen, which shows flash.

Callbacks have a second caller. `main.c:35` passes the size of the table in
bytes, 64, where `apdu.c:65` compares with an index, and the table has 16 entries.
The words behind it are `global.ui.ok_callback` and `cxl_callback`
(`globals.h:72-76`), which instructions 0x10 and 0x11 therefore call from the
loop, with its `TRY` around them and no prompt open. What they call:

| | 0x10 | 0x11 |
|---|---|---|
| Nano S, Baking | `do_nothing` (idle) | `exit_app` (idle) |
| Nano S, Wallet | the last prompt's accept callback | `exit_app` |
| Nano X, both | the last prompt's accept callback | the last prompt's reject callback |

While a prompt is open the loop waits in `io_exchange` and takes no APDU.

### What is hard here

* Flash is written, then the signature is computed, then it is sent; power may
  go in between.
* Handlers overlay one another's structs in a union that survives IO resets.
* Several hosts may talk to the device, so any instruction may come between two
  packets of a session.
* Button presses, ticker events, time-outs and resets interleave, and idle
  screens use the same counters and callbacks as prompts.
* Exceptions thrown in callbacks and ticker events are not the loop's.
* A host can run the callbacks of the last prompt, when the union holds whatever
  later handlers left there.
* On the Nano X a reply is sent while the next buttons are already served, and
  nothing of an earlier prompt is cleared.
* The subparsers share one memory and tell calls apart by source line.
* Buffers and counters are exactly large enough.

`PROJECT.json`, *hazards*, places each of these at its line and names the
properties that would catch it going wrong.

## 2. Modules

| Module | Models | Role |
|---|---|---|
| `HighWaterMark` | `baking_auth.c`, `select_hwm_by_chain`, `UPDATE_NVRAM` bodies | operators on the value of `N_data`, used by the next modules |
| `DoubleBakeGuard` | – | abstract specification: a signer with a complete memory |
| `BakingAuth` | every write of `N_data`, signatures in flight, power cuts | state machine; implements `DoubleBakeGuard` |
| `BakingApp` | main loop, all Baking handlers and callbacks, the union, errors, resets | state machine; implements `BakingAuth` |
| `SignBuffer` | message buffer and incremental hash of `apdu_sign.c` | state machine, both builds |
| `WalletApp` | the Wallet's signing instructions, their prompts and answers, public key requests, errors, resets | state machine; extends `SignBuffer` |
| `OperationParser` | `parse_byte` field by field, its verdict, `prompt_transaction` | state machine, both builds |
| `Subparsers` | `parse_z`, `parse_z_michelson`, `parse_next_type`, `michelson_read_...`, byte by byte | state machine |
| `ToString` | numbers and amounts of `to_string.c` | operators, used by `Subparsers` |
| `PromptUi` | `ui_nano_s.c` | state machine with fairness of the ticker |
| `PromptFlow` | `ui_nano_x.c`, `ui_common.c`, the idle screens of `globals.c` and `boot.c` | state machine |
| `MCBakingAuth`, `MCBakingApp`, `MCWalletApp`, `MCOperationParser`, `MCPromptUi`, `MCPromptFlow` | – | instances for TLC |
| `BakingAuthProofs`, `BakingAppProofs`, `SignBufferProofs`, `WalletAppProofs`, `OperationParserProofs`, `SubparsersProofs`, `PromptUiProofs`, `PromptFlowProofs` | – | theorems |

Definitions keep the C names. In every module the operators called
`..._wrongly_...` are slips of the definition that follows them. No
specification uses them: they record which property would notice such a slip
(`PROJECT.json`, *mutants*).

### BakingAuth

`N_data` is the flash record; a key is a derivation type and path, compared and
copied as one; levels are `0 .. MaxLevel`, of which those below `LevelLimit`
pass `is_valid_level`. `baking_sign_complete` is the check and the flash write
of `perform_signature`; `finalize_successful_send` is the signature reaching the
host and `signature_lost` a power cut, IO reset or crypto error in between.
`register_delegate_ok` is a self-delegation the user approved:
`perform_signature` then writes the mark with whatever is in
`parsed_baking_data` (constant `Leftover`). `history` and `floor` are auxiliary:
what has been released, and the level the user chose, since a reset or set-up.

### BakingApp

`u` is the union seen as a signing session: key, `packet_index`, parsed data,
and `held`, whether the buffer or the hash state hold an earlier packet. What
other handlers write over these fields follows the layout of the structs on the
32-bit target: `main_chain_id` of a set-up lies on `packet_index`, its levels on
the parsed chain id and endorsement flag; `reset_level` lies on the length of
the path; the public key and HMAC structs lie on the packet index and beyond.
Values not determined by the source (key bytes, HMAC bytes, path components that
a changed length exposes) are nondeterministic. `staged` is the reset or set-up
struct while the union still holds it as it was written. `prompt` is what the user
is asked; `armed` names the prompt that `ok_callback` and `cxl_callback` belong to;
`reply` is the answer being sent; `running` is false after an uncaught exception.
Status words are not told apart. The parser's verdict on an operation is an input,
`DelegationPacket`.

Each callback is one action for both its callers, a button (`Asked`) and
instruction 0x10 or 0x11 (`RunByHost`), and reads the union as it is when it runs
(`reset_level`, `setup`). Its exceptions end the app in the first case and are
`main_loop`'s in the second (`sign_ok_throws`). The
constant `TargetNanoX` chooses the build: on the Nano S the buttons' callbacks are
those of the idle screen again when a prompt is over (`IdleCallbacks`), on the Nano X
they stay. The instructions from 0x12 to 0x3F find counters, texts, pointers to data
and the screens' value callbacks, which write to the address given by the
instruction; called, all are taken to end the app (`call_behind_handlers`).

`AuthSpec` is `BakingAuth`'s specification under the refinement mapping (its
reply is the baking signature being sent, if any), written with the disjunct
"nothing of `BakingAuth` changes" first because TLC tries disjuncts in order and
most steps are of that kind.

`history` and `floor` record what the user agreed to, so a reset or set-up that a
host runs itself does not start them anew. On the Nano X this makes `AuthSpec`
false, as it is of the code: see finding 4. The run and the theorems of `AuthSpec`
and `FlashFollowsConsent` are about the Nano S.

Assumptions: the transport delivers an APDU only when the last was answered, and
sends an answer without dispatching UI events (`io_exchange` is the SDK's); a
callback that a host runs sends its own reply and `main_loop` another of one byte,
which changes nothing and is left out;
deriving the authorised key for the idle screen does not fail, as it succeeded
when the key was authorised.

### SignBuffer and WalletApp

A byte is its position in the message, so order, loss and duplication are
visible. Lengths are scaled: `BlockBytes` for 128, `MaxApduSize` for 230,
`MaxPackets` for 255. All packets of `INS_SIGN`, `INS_SIGN_WITH_HASH` and, in the
Wallet, `INS_SIGN_UNSAFE` may be mixed. What the crypto library leaves in a hash
state it has finished is nondeterministic.

`WalletApp` is a host at these instructions. It adds the key, the magic byte,
`hash_only`, the parser's progress, the prompt the last packet leads to and what
the answer sends. Every packet the parser is given fails it for good or leaves
it going; which operations pass is `OperationParser`'s matter. A public key
request keeps its key and public key where a session keeps its key,
`packet_index`, `maybe_ops.is_valid` and most of `maybe_ops.v.public_key`: it may
come between any two packets. `is_valid` is written again (`apdu_sign.c:628`)
before it is read. `reveal_key` is the public key that reveals are compared with:
the session's own, or `Mangled` once a request was laid over it. Its length is then
the request's bytes too; a length longer than the parser's field would let the
parser write beyond it (`operations.c:407-411`), and what that destroys is not
modelled. `OneRequest` bounds these requests to one after each `P1_FIRST`: each
sets `packet_index` again, and without the bound a session would have no end.
`ok_callback` is the accept callback of the last prompt; a host runs it, or the
reject callback of the Nano X, with the same actions as the buttons and no prompt
open (`AnswerToSign`, `answer_public_key`). `parsed`, `unparsed` and `checked` are
auxiliary: the bytes the parser was given, the bytes that came with
`INS_SIGN_UNSAFE`, and the byte the magic byte was looked for in.

The docs and the code differ in a word here: `APDUs.md:80-85` says `INS_SIGN_UNSAFE`
shows "Unrecognized: Sign Hash", `apdu_sign.c:468` shows "Pre-hashed", as
`Release-1.3.md:120` says. The prompt is `"prehashed"` in the model.

### OperationParser

The C machine takes a byte at a time; a step here reads one or more whole
fields. That is enough because a message that ends inside a field leaves
`op_step` at a value `parse_operations_final` refuses, as the step names here
do; how a field is read from its bytes is `Subparsers`' matter. `out` is the
struct the prompts read. A parsed contract is kept with its flags, its hash and
the text that `hash_ptr` points to, so that a struct whose flags and contents
disagree shows. Michelson instructions are names; a chain of instructions the
code compares one after another is a sequence in `Chain`, a choice an entry of
`Branch`. `written` and `group` are auxiliary: what the message says of each
operation, to compare with what is shown. The properties spell out the scripts
of manager.tz once more (`Meaning`), in whole instead of step by step.

Not kept: block hash, counter, gas limit and contents of votes, which are copied
or dropped.

### Subparsers and ToString

All subparsers share one union and recognise a new call only by its source line
(`CALL_SUBPARSER`). A field is therefore named by that line, and `Paths` lists
which field may follow which. Byte *i* of a field is `<<line, i>>`. For numbers a
byte is the set of its one bits and a flag for "more to come", and a word the
set of its one bits: `value |= bits << shift` is a union. Words have 8 bits in
groups of 3, for 64 in groups of 7, so that again the last group is cut; the
shift counter wraps at 16, for 256. A shift by the width of a word or more is
undefined in C and may yield any word (`Shifted`). A number that does not fit, and
a negative Michelson number, whose sign the code leaves in the value, write
`NoWord`: nothing is claimed of what is shown for them. `address` adds the
nested state of `michelson_read_address`; `MaxBytes` bounds its bytes, because an
address given in bytes never ends. Its length is one of the two the code accepts
or 0, for all it refuses at the next byte.

`ToString` has `number_to_string` and `microtez_to_string` digit by digit, with 3
digits of which 2 are fraction, enough for every word of 8 bits. The code divides
by ten from digit to digit; `convert_number` divides by a power of ten, `Tens`, at
once (`NextDigit` in `SubparsersProofs` is the fact that makes them one).
`microtez_to_string_indirect` checks for `MAX_INT_DIGITS + 1` bytes although the
point makes it one more; `ShownReadsBack` bounds the text by the right number,
which is what the buffers it is called with have room for.

### PromptUi

The Baking build on the Nano S. Screen *i* of request *r* has the value
`<<r, i>>`; a request stands for the instruction that asks. `ticker` is the ticker
event at the end of a screen's interval; `switch_screen` may throw for values in
`Failing`. Screen 0 of each prompt is a constant string or a number and cannot
throw. `displays` counts how often each screen of the open prompt was shown.

### PromptFlow

The Baking build on the Nano X. `ui_prompt` calls every value callback at once
and copies labels and values into an array filled from its end; the prompt is a
flow over that end, then Reject and Accept. Nothing times out and nothing is
ever cleared, so what earlier prompts, and prompts whose callbacks threw half-way,
left in callbacks and screens is part of the state. The idle flow is back before
a callback runs; the callback writes flash, updates the idle screens and sends
its reply from a nested `io_exchange`, in which buttons and resets are still
served. Power may go after the flash write and before the idle screens; boot
reads flash again. An exception of their key derivation after the flash write ends
the app in a button's callback; in a handler, or in a callback a host runs, the
loop catches it and the strings stay behind flash (`cut_off`). `host_callback` is
instruction 0x10 or 0x11: the callback runs without a prompt, any number of times,
and shows nothing. What the properties say of answers is therefore said of the
buttons. The flow functions are the SDK's: a step is displayed and
left to the right or left. The pages of one screen are left out.

## 3. Runs

| Run | Shows | Bounds |
|---|---|---|
| `BakingAuth` | order of what is released, marks cover it, only the user lowers marks; `BakingAuth` implements `DoubleBakeGuard` | 1 key, chains {any, 1}, 2 valid levels and 1 invalid, 3 events |
| `BakingAuthFinding` | violated: one endorsement per level | 2 keys, 3 valid levels and 1 invalid, 4 events |
| `BakingApp` | Nano S: key used, one packet per session, marks and keys change as shown and accepted; `BakingApp` implements `BakingAuth` | 1 key, 2 valid levels and 1 invalid, resets and set-ups of the lowest and the invalid one, 1 event |
| `BakingAppFinding` | violated: the signature covers only the checked packet | 1 key |
| `BakingAppHostCallbacks` | violated on the Nano X: marks and keys change as shown and accepted | 1 key, 2 levels |
| `WalletApp` | bytes kept, blocks whole; the parser misses only `INS_SIGN_UNSAFE` bytes; hashes signed are of whole messages | 2 keys, block 2, packets of 0 to 3 bytes, 3 packets |
| `WalletAppUnparsed` | violated: the operation shown is the one hashed | the same |
| `OperationParser` | groups are shown as what they are, one operation each, totals of all; what the Baking app registers is one delegation to its key; verdicts stand | 2 implicit accounts, 1 contract, 3 operations, numbers modulo 2 |
| `OperationParserFinding` | violated: the delegating account is the key's own | the same with the Baking tags |
| `Subparsers` | each field is read from its own bytes; amounts read back | 8-bit words, groups of 3 bits, 45 bytes of an address |
| `PromptUi` | buttons, order of screens, time-outs, every prompt ends | prompts of 1, 2, 3 and 5 screens, real `MAX_SCREEN_COUNT` and `PROMPT_CYCLES` |
| `PromptFlow` | screens shown are the request's, the buttons reach Accept after all of them and answer once, idle screens current | prompts of 1, 2 and 5 screens, array of 5 |

Three events are enough for every order of block, endorsement and delegation at
one slot, the longest of interest being endorsement, delegation, endorsement;
two levels for equal, lower and higher; two chain ids for "any", the chosen
chain and another chain. `BakingApp` needs only one event of history because
each step is compared with `BakingAuth`, whose own run is deeper, and one key
because "no key" is another that a session may name. `AskedLevel` bounds what hosts
name in resets and set-ups to the level that lowers every mark and one that
`is_valid_level` refuses; blocks and what is left in the union have every level.
Its run is about the Nano S. The first two of its properties hold on the Nano X
too, where they are proved. Three
operations allow a reveal before and after another operation, and two of the
same kind in any places; numbers modulo 2 make a sum of two overflow; one
account that is not the signer's is enough because accounts are only compared
with it. A block of two bytes with packets of up to three has every remainder
and a packet longer than a block, as 128 and 230 do; three packets reach a first,
a middle and a last one, and the limit of `packet_index`. Numbers in `Subparsers`
are of any length: their state is finite because bits beyond the word are not
told apart. Prompts of 1, 2 and 5 screens in an array of 5 leave the remains of a
longer prompt before a shorter one and fill the array. Deadlock is checked in
every run.

Fairness. `PromptUi!FairSpec` assumes only `WF(ticker)`: the hardware sends
ticker events every 100 ms and `prepro` arms an interval for whatever is on
display. Users, hosts and `main` owe nothing. On the Nano X nothing times out and
a prompt may stay for ever, so there is no liveness to state. All other
specifications are safety only: an app does what its host asks.

### Findings

1. *Code bug.* Approving a self-delegation stores a mark with
   `had_endorsement = false` at the current level, so the endorsement of that
   level can be signed again (`src/apdu_sign.c:655`, `src/baking_auth.c:28`).
   `Release-1.3.md:152-153` promises one endorsement per level.
2. *Code and comment differ.* "Only parse a single packet when baking"
   (`src/apdu_sign.c:566`) tests `packet_index`, which `INS_SETUP` overwrites; the
   hash then covers a packet that was never checked.
3. *Code bug.* A reveal's source overwrites the operation's
   (`src/operations.c:366`; the comment at 396 says it is ignored). A delegation of
   a contract followed by a reveal is therefore offered by the Baking app as the
   "self-delegation" of `src/apdu_sign.c:169`. In the Wallet the prompt for any
   operation followed by a reveal shows the reveal's source, which
   `ShownIsWritten` states as it is.
4. *Code bug.* `main.c:35` bounds instructions by the size of the table in bytes, so
   that 0x10 runs `ok_callback`. On the Nano X nothing clears it: after an IO reset
   took a set-up prompt away the host stores the set-up itself, and after any reset
   or set-up it can lower the marks again (`BakingAppHostCallbacks`).
   `APDUs.md:4-6` has the user accept. The same goes for the Wallet, on the Nano S
   too (`ui_nano_s.c:103` replaces only `cxl_callback`): after an IO reset took a
   sign prompt away the host has the signature made, which `sign_ok` of `WalletApp`
   has with `prompt = "none"`.
5. *Code bug.* In the Wallet a middle packet of `INS_SIGN_UNSAFE` is kept and later
   hashed, but never parsed (`apdu_sign.c:564-607`, `641-645`): the operation shown is
   not the one signed (`WalletAppUnparsed`). `APDUs.md:80-92` promises the "Sign
   Hash" prompt where parsing is skipped.

Two more defects are in the models and have no run, because no statement about
them is left to check beyond the step itself:

* A Michelson address given in bytes never ends (`address_bytes` of `Subparsers`):
  the case that reads its curve falls through to the one that reads its hash
  (`src/operations.c:207`), and each finds the other's line in the shared state and
  starts over, for as long as the message lasts. The comment at 201 counts 21
  bytes. Nothing wrong is signed: the operation is refused.
* A public key request between two packets of a session in the Wallet writes over
  the key that signs and the public key that reveals are compared with (`overlay` of
  `WalletApp`, `globals.h:112-119`, `operations.c:407`), against the comment at
  `operations.c:395`.

## 4. Proofs

All theorems rest on the named assumptions about the constants alone: any keys,
levels, block and packet sizes, addresses, prompts. `PROJECT.json`, *theorems*,
lists them with the properties they state. Each module first proves an inductive
invariant, one lemma per action, then its properties from it.

`BakingAuthProofs`. The invariant says that the mark of each slot is at least
every level released for it and the floor, that a mark which still allows an
endorsement at its level is right or was rewritten by a delegation, and that a
reply in flight is the one its mark describes. It is needed because the order of
releases says nothing of flash. From it follow the order properties, crash
safety, the action property and, step by step, the refinement of
`DoubleBakeGuard`.

`BakingAppProofs`. The invariant adds to the types what an open prompt relies on
(`AskedIsReady`: a key asked about is still the authorised one, a reset level
valid) and that only an overlay can separate `packet_index` from the bytes it
counts (`OwnBytesAreCounted`). The types, `AuthorizedKeySigns` and
`OnePacketSigned` hold on both devices. The rest assumes `~TargetNanoX`, and must:
on the Nano X they are false. `FlashIsConsented` says that marks and keys change as
shown and accepted: while a prompt is open the union holds its request (`staged`),
and with none open the idle callbacks are armed. The refinement shows each action
to be a step of `BakingAuth` or to leave its variables alone. The theorems of
`BakingAuthProofs` are then instantiated under the same mapping, so that their
conclusions hold of the app: `HostsCannotDoubleBake`, `HostsCannotDoubleEndorse`,
`HostsCannotOutrunTheMarks`.

`SignBufferProofs` and `WalletAppProofs`. The buffer's invariant says that hashed
and kept bytes make up the message, hashed lengths are multiples of a block and
at most a block is kept before a hashed packet. Its action lemmas speak of the
buffer's operations, so `WalletAppProofs`, which extends it, uses them for the
Wallet's actions. `WInv` adds, for what is shown, that the parser was given bytes in
order (`InOrder`) and each byte received or an `INS_SIGN_UNSAFE` packet brought it,
never both (`Covered`, `Parsed`); for what is signed, that a closed session's hash
stays what it was (`HashStays`) and that a hash is asked for only after the check of
byte 1 (`Marked`). None of it speaks of who runs a callback, so it holds for the
host's runs too.

`OperationParserProofs`. The struct holds one tag, source and destination for the
whole group, so its meaning depends on the step. `IndInv` says, step by step,
what of the operation being read is in it (`Reading`), that the tag tells whether
the group holds an operation that is not a reveal (`TagTells`), that a delegation
stays on record while reveals follow it (`DelegateKept`), and that every operation
so far is the signer's own or a contract's (`AllOwn`).

`ToldInv` is what `ShownIsWritten` needs on top of it, whose statement compares
whole scripts while the machine sees one code at a time. `Entered` lists what may
have been read of a script when a step is entered. `ScriptRead` says that the
script read so far is one of those and the codes of the step's chain up to the
present one; `ScriptTold` that source, inner destination and amount in the struct
are those of the operation being written, and at the script's end that tag and
flags are right; `SourceTold` and `OperationTold` say the same of the operations
before. `Totalled` says that each total is the sum of the operations read and the
fields read of the next, modulo the width of a word; a group may be of any
length, so that the sum is a recursive function, known by its equations
(`SumThere`, `OneSum`, `TotalMore`).

`SubparsersProofs`. All subparsers share one memory, and a call trusts what it
finds there if the line number left in it is its own. `IndInv` therefore speaks
of that memory as the next call will find it (`State`, `ThisAddress`): of a number
all the bits its bytes had and, while it still fits, the shift that is due
(`NumberRead`); of a field of fixed size its own bytes so far (`SizedRead`); of an
address the bytes its inner call had (`AddressRead`). It holds because no field
comes right after itself in `Paths` (`NoFieldAgain`): with two calls from one line
in a row the second would find the first one's bytes. `ReadBack` needs no
invariant, since what a text shows does not depend on the state. It goes from
digit to digit: those up to a place write the number without the rest, whether
they are read out of the buffer or out of the text shown, so that no digit is
lost where leading zeroes, the point or trailing zeroes are cut.

`PromptUiProofs` and `PromptFlowProofs`. The invariants tie callbacks, layout,
step and displayed value to the open request. On the Nano S the numbers of
displays are tied to step and cycle; on the Nano X a prompt is on display exactly
while its host waits (`Waited`), with its own callbacks (`Armed`) and screens, and
has walked its flow without a gap (`Walked`); the idle screens are current
whenever they could be computed (`Current`). `TicksRunOut` is the part of
`EveryPromptEnds` that needs no fairness: a prompt that stays open has a number of
ticks left, all that happens to it are ticks, and each takes one away.

The assumptions about numbers are the code's: a `uint64_t` has at most
`MAX_INT_DIGITS` digits (`RangeAssumption`), the shift counts beyond a word
(`WordBits <= ShiftSize`: were the counter to wrap within a word, a long number
would be read over its own low bits), and an amount has fewer decimals than digits
(`DigitsAssumption`; with as many, the text of an amount would be one longer than
its buffer).

Induction. The library's induction theorems take an operator as a parameter,
which the provers cannot use. Where a fact of all lengths is needed (totals,
digits, places of a word) it is proved for a *set* of numbers instead: if some
number were not in it, there would be a least one (`WFMin` on the naturals), and
the one before it would bring it in (`NatInd`). A recursive function is a `CHOOSE`
of one that satisfies its equation; that there is one is proved the same way.

Every safety property and action property that a passing run checks is a theorem.
Only model-checked: the liveness property of `PromptUi`, whose last step, from
`TicksRunOut` and `WF(ticker)`, needs `ENABLED`. The violations are TLC's: a
counterexample is a run.

## 5. Not modelled, and the plan

Done first, because a mistake there costs the user most: high water marks, then
the app around them, then prompts, the message buffer and the parser; then the
Wallet around the buffer, the Nano X and the bytes below the parser, and the
proofs about each.

What remains:

1. Reading the proofs once more for steps that can be shorter, and for lemmas that
   `OperationParserProofs` and `SubparsersProofs` could share.
2. The texts of chain ids and Base58 hashes, as operators, if a property of the
   program is found that depends on them.

Not planned:

* Key derivation and signatures (`keys.c`): SDK calls without app state. Their
  failures are in `BakingApp` and `WalletApp`.
* The Wallet's idle screen, which is the SDK's menu, and the SDK's paging.
* What the instructions from 0x12 to 0x3F do before the app ends, and what a reveal
  of a mangled length writes beyond the parser's field.
* Instructions 0x10 and 0x11 in `PromptUi`: on an idle Nano S Baking app they do
  nothing and end the app.
* Byte order helpers, version and build files, test scripts, tools.
