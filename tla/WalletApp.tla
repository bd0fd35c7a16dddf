------------------------------ MODULE WalletApp ------------------------------
(***************************************************************************)
(* A host at the Wallet app's signing and public key instructions          *)
(* (src/apdu_sign.c, src/apdu_pubkey.c).  SignBuffer says what becomes of  *)
(* the bytes; this module adds whose key signs, what the parser was given, *)
(* which prompt the user gets and what the answer sends.                   *)
(*                                                                         *)
(* The parser itself is OperationParser's matter: here every packet it is  *)
(* given either fails it for good or leaves it going, and in the end it    *)
(* accepts or not.  The public key instructions lay their key and their    *)
(* public key over a signing session's key, packet_index, maybe_ops.is_valid *)
(* and most of maybe_ops.v.public_key (the union global.apdu.u); is_valid is *)
(* written again before it is read, the other three stay as laid.          *)
(*                                                                         *)
(* The callbacks of the last prompt stay registered when it is over, and   *)
(* the words behind the table of instructions are these callbacks: a host  *)
(* runs them with instructions of its own, asked or not.  On the Nano S    *)
(* that holds for the callbacks of Accept; the other one is exit_app again *)
(* and ends the app, as restart does.                                      *)
(***************************************************************************)
EXTENDS SignBuffer

CONSTANTS
    Key,          \* BIP32 paths with their curves
    NoKey,        \* a path of no components
    Mangled,      \* a public key partly written over
    CurveIndexes  \* packet_index as the curve of a public key leaves it

ASSUME KeyAssumption ==
    NoKey \notin Key /\ Mangled \notin Key \cup {NoKey}
ASSUME CurveAssumption == CurveIndexes \subseteq 1 .. MaxPackets

VARIABLES
    key,         \* G.key
    magic_byte,  \* "operation" is 0x03, "michelson" 0x05, "none" 0
    parse,       \* the parser: "none", "going" or "failed"
    hash_only,
    reveal_key,  \* maybe_ops.v.public_key: whose, or NoKey before the parser
    prompt,      \* what the user is asked
    ok_callback, \* global.ui.ok_callback, "none" before the first prompt
    reply,       \* what an answer has sent to the host
    parsed,      \* auxiliary: the bytes the parser was given
    unparsed,    \* auxiliary: the bytes of INS_SIGN_UNSAFE packets
    checked      \* auxiliary: the byte checked as the magic byte

session == <<key, reveal_key, magic_byte, parse, hash_only, parsed, unparsed,
             checked>>
wallet_vars == <<vars, session, prompt, ok_callback, reply>>

INS_SIGN == "sign"
INS_SIGN_WITH_HASH == "sign with hash"
INS_SIGN_UNSAFE == "sign unsafe"
Instruction == {INS_SIGN, INS_SIGN_WITH_HASH, INS_SIGN_UNSAFE}

HashPrompts == {"operation", "unrecognized"}
SignPrompts == HashPrompts \cup {"prehashed"}

HashCallbacks == {"sign with hash ok", "sign without hash ok"}
SignCallbacks == HashCallbacks \cup {"sign unsafe ok"}

NoReply == [kind |-> "none", over |-> << >>, key |-> NoKey]

\* Which public key it sends is left out.
PublicKeyReply == [kind |-> "public key", over |-> << >>, key |-> NoKey]

-----------------------------------------------------------------------------

WalletInit ==
    /\ Init
    /\ key = NoKey /\ reveal_key = NoKey
    /\ magic_byte = "none" /\ parse = "none" /\ hash_only = FALSE
    /\ prompt = "none" /\ ok_callback = "none" /\ reply = NoReply
    /\ parsed = << >> /\ unparsed = {} /\ checked = 0

\* clear_data, but for the key, which P1_FIRST sets next.
clear_session(k) ==
    /\ key' = k /\ reveal_key' = NoKey
    /\ magic_byte' = "none" /\ parse' = "none" /\ hash_only' = FALSE
    /\ parsed' = << >> /\ unparsed' = {} /\ checked' = 0

Idle == prompt = "none"

p1_first(k) ==
    /\ Idle
    /\ sign_first
    /\ clear_session(k)
    /\ reply' = NoReply
    /\ UNCHANGED <<prompt, ok_callback>>

\* clear_apdu_globals, after any error.
error ==
    /\ Idle
    /\ throw
    /\ clear_session(NoKey)
    /\ reply' = NoReply
    /\ UNCHANGED <<prompt, ok_callback>>

\* What parsing does but for the sequence of bytes given to the parser.
parse_header ==
    /\ checked' = IF packet_index = 0 THEN received + 1 ELSE checked
    /\ magic_byte' \in IF packet_index = 0 THEN {"operation", "michelson"}
                                           ELSE {magic_byte}
    /\ reveal_key' = IF packet_index = 0 /\ magic_byte' = "operation"
                     THEN key ELSE reveal_key
    /\ UNCHANGED unparsed

skip_packet(n) ==
    /\ unparsed' = unparsed \cup (received + 1 .. received + n)
    /\ UNCHANGED <<magic_byte, reveal_key, parse, parsed, checked>>

parse_wrongly_restarted(n, enable_parsing) ==
    IF ~enable_parsing THEN skip_packet(n)
    ELSE /\ parse_header
         /\ IF magic_byte' = "operation"
            THEN /\ parsed' = Bytes(received + 1, received + n)
                 /\ parse' \in {"going", "failed"}
            ELSE UNCHANGED <<parse, parsed>>

\* With parsing, the first packet brings the magic byte and starts the parser;
\* the packets of an operation are parsed, and a failure stays.  A reveal has
\* the length reveal_key says.  (When that is mangled it can be longer than
\* the parser's field; what the bytes beyond it destroy is not described.)
parse_packet(n, enable_parsing) ==
    IF ~enable_parsing THEN skip_packet(n)
    ELSE /\ parse_header
         /\ IF magic_byte' = "operation"
            THEN /\ parsed' = parsed \o Bytes(received + 1, received + n)
                 /\ parse' \in IF n = 0 \/ parse = "failed" THEN {parse}
                               ELSE {"going", "failed"}
            ELSE UNCHANGED <<parse, parsed>>

\* P1_NEXT; P1_HASH_ONLY_NEXT is one that sets hash_only too.
p1_next(n, instruction, only) ==
    /\ Idle
    /\ sign_next(n, instruction # INS_SIGN_UNSAFE)
    /\ parse_packet(n, instruction # INS_SIGN_UNSAFE)
    /\ hash_only' = (hash_only \/ only)
    /\ reply' = NoReply
    /\ UNCHANGED <<key, prompt, ok_callback>>

\* wallet_sign_complete: an operation the parser accepted and
\* prompt_transaction shows, else the hash.
p1_last_hashed(n, instruction, only) ==
    /\ Idle
    /\ instruction # INS_SIGN_UNSAFE
    /\ sign_last_hashed(n)
    /\ parse_packet(n, TRUE)
    /\ hash_only' = (hash_only \/ only)
    /\ ok_callback' = IF instruction = INS_SIGN_WITH_HASH
                      THEN "sign with hash ok" ELSE "sign without hash ok"
    /\ prompt' \in IF magic_byte' = "operation" /\ parse' = "going"
                   THEN HashPrompts ELSE {"unrecognized"}
    /\ reply' = NoReply
    /\ UNCHANGED key

p1_last_unsafe(n, only) ==
    /\ Idle
    /\ sign_last_unsafe(n)
    /\ parse_packet(n, FALSE)
    /\ hash_only' = (hash_only \/ only)
    /\ prompt' = "prehashed"
    /\ ok_callback' = "sign unsafe ok"
    /\ reply' = NoReply
    /\ UNCHANGED key

-----------------------------------------------------------------------------

signature_wrongly_unhashed(on_hash, send_hash) ==
    IF on_hash /\ hash_only
    THEN [kind |-> "hash", over |-> final_hash, key |-> NoKey]
    ELSE [kind |-> IF send_hash /\ on_hash THEN "hash and signature"
                                           ELSE "signature",
          over |-> IF send_hash THEN final_hash ELSE message_data,
          key  |-> key]

\* The hash that goes with a reply is final_hash.
perform_signature(on_hash, send_hash) ==
    IF on_hash /\ hash_only
    THEN [kind |-> "hash", over |-> final_hash, key |-> NoKey]
    ELSE [kind |-> IF send_hash /\ on_hash THEN "hash and signature"
                                           ELSE "signature",
          over |-> IF on_hash THEN final_hash ELSE message_data,
          key  |-> key]

\* A button of the prompt, or, nothing being asked, a host runs a callback of
\* the last prompt that signs.
AnswerToSign ==
    /\ ok_callback \in SignCallbacks
    /\ prompt \in SignPrompts \cup {"none"}
    /\ clear_data /\ clear_session(NoKey)
    /\ prompt' = "none"
    /\ UNCHANGED ok_callback

\* sign_with_hash_ok, sign_without_hash_ok and sign_unsafe_ok.  Without a key
\* to sign with an exception is thrown: that is error.
sign_ok ==
    /\ AnswerToSign
    /\ reply' = perform_signature(ok_callback # "sign unsafe ok",
                                  ok_callback = "sign with hash ok")
    /\ reply'.kind = "hash" \/ has_key

sign_reject == AnswerToSign /\ reply' = NoReply

-----------------------------------------------------------------------------
(* The public key instructions.                                            *)

\* Model bound: one public key request a session.  Each may set packet_index
\* back, so without it a session would have no end.
OneRequest == reveal_key # Mangled

overlay_wrongly_zero(k) ==
    /\ OneRequest
    /\ key' = k /\ has_key' = TRUE
    /\ packet_index' = 0
    /\ reveal_key' = Mangled
    /\ UNCHANGED <<magic, message_data, hash_state, final_hash, asking, received,
                   hashing, closed, magic_byte, parse, hash_only, parsed,
                   unparsed, checked>>

\* G.key and G.public_key of the union's other member.
overlay(k) ==
    /\ OneRequest
    /\ key' = k /\ has_key' = TRUE
    /\ packet_index' \in CurveIndexes
    /\ reveal_key' = Mangled
    /\ UNCHANGED <<magic, message_data, hash_state, final_hash, asking, received,
                   hashing, closed, magic_byte, parse, hash_only, parsed,
                   unparsed, checked>>

get_public_key(k) ==
    /\ Idle
    /\ overlay(k)
    /\ reply' = PublicKeyReply
    /\ UNCHANGED <<prompt, ok_callback>>

prompt_public_key(k) ==
    /\ Idle
    /\ overlay(k)
    /\ prompt' = "public key"
    /\ ok_callback' = "pubkey ok"
    /\ reply' = NoReply

\* pubkey_ok and delay_reject, for the user or run by a host: neither clears
\* anything.
answer_public_key(accepted) ==
    /\ ok_callback = "pubkey ok"
    /\ prompt \in {"public key", "none"}
    /\ prompt' = "none"
    /\ reply' = IF accepted THEN PublicKeyReply ELSE NoReply
    /\ UNCHANGED <<vars, session, ok_callback>>

\* EXCEPTION_IO_RESET takes any prompt away and keeps global.apdu.
reset ==
    /\ ~Idle
    /\ prompt' = "none"
    /\ IF prompt \in SignPrompts THEN io_reset ELSE UNCHANGED vars
    /\ reply' = NoReply
    /\ UNCHANGED <<session, ok_callback>>

\* The app ends, on Quit or an exception that nothing catches, and is started
\* again.
restart ==
    /\ clear_data
    /\ clear_session(NoKey)
    /\ prompt' = "none" /\ ok_callback' = "none" /\ reply' = NoReply

WalletNext ==
    \/ \E k \in Key : p1_first(k) \/ get_public_key(k) \/ prompt_public_key(k)
    \/ \E n \in 0 .. MaxApduSize, only \in BOOLEAN :
          \/ \E instruction \in Instruction :
                p1_next(n, instruction, only) \/ p1_last_hashed(n, instruction, only)
          \/ p1_last_unsafe(n, only)
    \/ error
    \/ sign_ok \/ sign_reject
    \/ \E accepted \in BOOLEAN : answer_public_key(accepted)
    \/ reset \/ restart

WalletSpec == WalletInit /\ [][WalletNext]_wallet_vars

-----------------------------------------------------------------------------
(* Properties.                                                             *)

\* Every variable keeps its type, and the two modules agree on what they both
\* tell of a session.
WalletTypeOK ==
    /\ TypeOK
    /\ key \in Key \cup {NoKey} /\ reveal_key \in {key, NoKey, Mangled}
    /\ magic_byte \in {"none", "operation", "michelson"}
    /\ parse \in {"none", "going", "failed"}
    /\ hash_only \in BOOLEAN
    /\ prompt \in SignPrompts \cup {"none", "public key"}
    /\ ok_callback \in SignCallbacks \cup {"none", "pubkey ok"}
    /\ reply \in [kind : {"none", "hash", "signature", "hash and signature",
                          "public key"},
                  over : Seq(Nat), key : Key \cup {NoKey}]
    /\ parsed \in Seq(Nat) /\ unparsed \subseteq Nat /\ checked \in Nat
    /\ has_key <=> key # NoKey
    /\ magic <=> magic_byte # "none"
    /\ asking = CASE prompt \in HashPrompts -> "hash"
                  [] prompt = "prehashed" -> "raw"
                  [] OTHER -> "no"

\* When an operation is shown, the parser was given every byte of the message,
\* in order and once, but for those that came in packets of INS_SIGN_UNSAFE,
\* however the message was cut and whatever prompts and resets went before.
OnlyUnsafeBytesGoUnparsed ==
    prompt = "operation" =>
        /\ \A i, j \in DOMAIN parsed : i < j => parsed[i] < parsed[j]
        /\ \A byte \in 1 .. received :
              byte \in unparsed <=> \A i \in DOMAIN parsed : parsed[i] # byte

\* INS_SIGN "is parsed and the results are shown on the Ledger's display"
\* (APDUs.md:91-92), where INS_SIGN_UNSAFE "skips the parsing step"
\* (APDUs.md:81): the operation shown is the one whose hash is signed.
OperationShownIsHashed ==
    prompt = "operation" /\ closed = "once" => parsed = final_hash

\* The user is asked to sign a hash only of a message whose own first byte was
\* found to be a known magic byte: neither a first packet that is not hashed
\* nor a public key request in between moves the check to another byte.
MagicByteIsFirst ==
    asking = "hash" /\ closed = "once" => checked = 1 /\ Head(final_hash) = 1

\* A hash that is signed or sent is that of all bytes of its session's one
\* message, and the first of them was the magic byte checked, whoever runs the
\* callback and whatever was reset or asked since; before the session's last
\* packet there is no hash, and final_hash is empty.  (A session continued
\* after a reset took its finished prompt away is another matter.)
SignedHashesAreOfWholeMessages ==
    [][sign_ok /\ ok_callback \in HashCallbacks =>
        \/ closed = "no" /\ reply'.over = << >>
        \/ closed = "once" /\ reply'.over = Bytes(1, received) /\ checked = 1
        \/ closed = "continued"]_wallet_vars

=============================================================================
