------------------------------ MODULE BakingApp ------------------------------
(***************************************************************************)
(* The Baking app as its hosts and its user meet it: main_loop dispatching *)
(* one APDU at a time, the signing session in the union global.apdu.u that *)
(* every handler overlays, prompts and their callbacks, errors, IO resets  *)
(* and power cuts.  Several hosts may talk to the device, so nothing is    *)
(* assumed about which APDU follows which; the transport delivers the next *)
(* one only when the last has been answered.                               *)
(*                                                                         *)
(* The table of instructions is searched up to its size in bytes, and the  *)
(* words behind its entries are the callbacks of the last prompt: a host   *)
(* runs them with instructions of their own.  What it finds there depends  *)
(* on the device, hence the constant TargetNanoX.                          *)
(*                                                                         *)
(* The message bytes and their hash are abstracted to one question: do     *)
(* message_data and hash_state hold bytes of an earlier packet?            *)
(***************************************************************************)
EXTENDS HighWaterMark, Sequences

CONSTANTS
    TargetNanoX,  \* the build: TRUE for the Nano X, FALSE for the Nano S
    Curveless,    \* a session key with a path but no curve
    Pathless,     \* a session key with a curve but no path
    AskedLevel,   \* bound: the levels hosts name in resets and set-ups
    MaxHistory    \* bound on the history, as in BakingAuth

ASSUME TargetAssumption == TargetNanoX \in BOOLEAN

ASSUME PartialKeyAssumption ==
    /\ Curveless \notin Key \cup {NoKey}
    /\ Pathless \notin Key \cup {NoKey, Curveless}

\* Levels and chain ids are both 32-bit words, and set-up stores one where
\* the signing session has the other.
ASSUME OverlayAssumption == level_t \subseteq ChainId

ASSUME AskedAssumption == AskedLevel \subseteq level_t

ASSUME BoundAssumption == MaxHistory \in Nat

VARIABLES
    N_data,       \* flash
    u,            \* global.apdu.u, seen as the signing session
    staged,       \* the reset or set-up struct, while global.apdu.u holds it
    prompt,       \* what the screens ask the user
    armed,        \* the prompt global.ui.ok_callback and cxl_callback belong to
    reply,        \* the answer being sent
    running,      \* FALSE once an uncaught exception ended the app
    overlaid,     \* auxiliary: another handler wrote u since P1_FIRST
    history,      \* auxiliary, as in BakingAuth
    floor         \* auxiliary, as in BakingAuth

vars == <<N_data, u, staged, prompt, armed, reply, running, overlaid, history,
          floor>>

-----------------------------------------------------------------------------
(* The session and its overlays.                                           *)

SessionKey == Key \cup {NoKey, Curveless, Pathless}
has_path(key) == key \notin {NoKey, Pathless}

\* packet_index after a public key or an HMAC signature was laid over it:
\* any nonzero byte behaves alike, the next packet is refused.
Clobbered == 2

\* held: message_data or hash_state hold bytes of an earlier packet.  They
\* lie beyond the end of every other member of the union.
Session == [key          : SessionKey,
            packet_index : 0 .. Clobbered,
            parsed       : parsed_baking_data_t,
            held         : BOOLEAN]

ZeroSession == [key          |-> NoKey,
                packet_index |-> 0,
                parsed       |-> ZeroBakingData,
                held         |-> FALSE]

\* setup.main_chain_id lies on packet_index, hwm.main on the parsed chain id
\* and hwm.test on is_endorsement; the parsed level is out of its reach.
overlay_setup(key, chain_id, levels) ==
    [u EXCEPT !.key = key,
              !.packet_index = IF chain_id % 256 <= 1 THEN chain_id % 256
                                                      ELSE Clobbered,
              !.parsed = [chain_id       |-> levels["main"],
                          is_endorsement |-> levels["test"] % 256 # 0,
                          level          |-> u.parsed.level]]

\* reset_level lies on key.bip32_path.length and leaves the curve alone.  What
\* path a changed length makes of the components is anyone's guess.
overlay_reset(lvl) ==
    LET curve == u.key \in Key \cup {Pathless}
    IN  {[u EXCEPT !.key = k] :
            k \in IF lvl % 256 = 0 THEN {IF curve THEN Pathless ELSE NoKey}
                  ELSE IF curve THEN Key ELSE {Curveless}}

\* The curve of public_key (never zero) lies on packet_index, and key bytes
\* on the parsed level.
overlay_pubkey(key) ==
    {[u EXCEPT !.key = key,
               !.packet_index = Clobbered,
               !.parsed = [chain_id |-> 0, is_endorsement |-> TRUE,
                           level    |-> lvl]] : lvl \in level_t}

\* signed_hmac_key starts on packet_index; its bytes can be anything.  When
\* the first is not zero only the level can be seen again, as above.
overlay_hmac(key) ==
    overlay_pubkey(key)
    \cup {[u EXCEPT !.key = key, !.packet_index = 0, !.parsed = info] :
              info \in parsed_baking_data_t}

-----------------------------------------------------------------------------
(* What hosts may put in a packet to be signed, prompts and replies.       *)

BakingPacket(info) == [magic |-> "baking", info |-> info]

\* An operation group whose one non-reveal operation delegates delegate to
\* itself; NoKey stands for everything else with that magic byte, parsed or
\* not (an operation that does not parse is refused at the last packet only).
DelegationPacket(delegate) == [magic |-> "operation", delegate |-> delegate]

\* A wrong magic byte, or baking data of the wrong length.
JunkPacket == [magic |-> "junk"]

Packet == {BakingPacket(info) : info \in parsed_baking_data_t}
          \cup {DelegationPacket(k) : k \in Key \cup {NoKey}}
          \cup {JunkPacket}

NoPrompt == [kind |-> "none"]
ResetPrompt(lvl) == [kind |-> "reset", level |-> lvl]
SetupPrompt(key, chain_id, levels) ==
    [kind |-> "setup", key |-> key, chain_id |-> chain_id, levels |-> levels]
NoReply == [what |-> "none"]

\* A status word, with or without data: no property tells them apart.
Status == [what |-> "status"]
DelegationSignature == [what |-> "delegation"]
BakingSignature(info) ==
    [what |-> "baking", info |-> info, key |-> u.key,
     one_packet |-> ~u.held, own_session |-> ~overlaid]

Signing == reply.what = "baking"

-----------------------------------------------------------------------------
(* main_loop.                                                              *)

Waiting == running /\ prompt = NoPrompt /\ reply = NoReply

\* clear_apdu_globals, clear_data.
forget == u' = ZeroSession /\ overlaid' = FALSE /\ staged' = NoPrompt

\* CATCH_OTHER: application state must not persist through errors.
catch ==
    /\ forget
    /\ reply' = Status
    /\ UNCHANGED <<prompt, armed, running, history, floor>>

throw == catch /\ UNCHANGED N_data

\* The callbacks after init_globals and the first ui_idle.
FirstCallbacks == IF TargetNanoX THEN "none" ELSE "idle"

\* What the app has outside flash goes with it when it ends.
lose_ram ==
    /\ forget
    /\ prompt' = NoPrompt
    /\ armed' = FirstCallbacks
    /\ reply' = NoReply
    /\ UNCHANGED <<history, floor>>

end_app == running' = FALSE /\ lose_ram

Keep == UNCHANGED <<N_data, running, history, floor>>

\* A handler that lays its own struct over the union.
Overlay(session, struct) ==
    u' = session /\ overlaid' = TRUE /\ staged' = struct

\* A handler that answers at once, and one that ends in ui_prompt.
ReplyNow(r) == reply' = r /\ UNCHANGED <<prompt, armed>>
ui_prompt(p) == prompt' = p /\ armed' = p.kind /\ UNCHANGED reply

callbacks_wrongly_kept == armed

\* The callbacks once no prompt is on display: ui_idle of the Nano S registers
\* do_nothing and exit_app, that of the Nano X leaves them as they are.
IdleCallbacks == IF TargetNanoX THEN armed ELSE "idle"

\* An APDU refused before or inside its handler: wrong class, length,
\* unassigned instruction, P1, curve or path, or HID required.
handle_apdu_error == Waiting /\ throw

\* Instructions whose word behind the table is no callback of a prompt: on an
\* idle Nano S exit_app (do_nothing, for ok_callback, leaves all as it is);
\* before the first prompt of a Nano X a null pointer; for the instructions
\* after these two, counters, pointers and text.  Called, all end the app.
call_behind_handlers == Waiting /\ end_app /\ UNCHANGED N_data

\* handle_apdu, P1_FIRST.
sign_first(key) ==
    /\ Waiting
    /\ u' = [ZeroSession EXCEPT !.key = key]
    /\ overlaid' = FALSE
    /\ staged' = NoPrompt
    /\ ReplyNow(Status)
    /\ Keep

packet_wrongly_accepted(packet) == has_path(u.key) /\ packet.magic # "junk"

\* A P1_NEXT packet is taken only as the first of a session with a key.
packet_accepted(packet) ==
    has_path(u.key) /\ u.packet_index = 0 /\ packet.magic # "junk"

session_after(packet) ==
    [u EXCEPT !.packet_index = 1,
              !.parsed = IF packet.magic = "baking" THEN packet.info ELSE @,
              !.held = TRUE]

\* The packet's bytes reach into a set-up's struct, but not to a reset's.
struct_after == IF staged.kind = "setup" THEN NoPrompt ELSE staged

\* handle_apdu, P1_NEXT without the last marker.
sign_next(packet) ==
    /\ Waiting
    /\ \/ /\ packet_accepted(packet)
          /\ u' = session_after(packet)
          /\ staged' = struct_after
          /\ ReplyNow(Status)
          /\ Keep /\ UNCHANGED overlaid
       \/ ~packet_accepted(packet) /\ throw

\* handle_apdu, P1_NEXT | P1_LAST_MARKER, with a block or an endorsement:
\* baking_sign_complete, the NVRAM write and the signature.
sign_last_baking(packet) ==
    /\ Waiting
    /\ packet.magic = "baking"
    /\ LET authorized == /\ packet_accepted(packet)
                         /\ guard_baking_authorized(packet.info, u.key, N_data)
       IN  \/ /\ authorized
              /\ Len(history) < MaxHistory
              /\ N_data' = write_high_water_mark(packet.info, N_data)
              /\ ReplyNow(BakingSignature(packet.info))
              /\ forget
              /\ UNCHANGED <<running, history, floor>>
           \/ ~authorized /\ throw

\* The same with an operation: only the self-delegation of the authorised
\* key, and only after the user agrees.
sign_last_operation(packet) ==
    /\ Waiting
    /\ packet.magic # "baking"
    /\ LET registers == /\ packet_accepted(packet)
                        /\ packet.delegate # NoKey
                        /\ u.key = N_data.baking_key
                        /\ packet.delegate = u.key
       IN  \/ /\ registers
              /\ u' = session_after(packet)
              /\ staged' = struct_after
              /\ ui_prompt([kind |-> "delegate"])
              /\ Keep /\ UNCHANGED overlaid
           \/ ~registers /\ throw

reset_wrongly_unchecked(lvl) ==
    /\ Waiting
    /\ \E session \in overlay_reset(lvl) : Overlay(session, ResetPrompt(lvl))
    /\ ui_prompt(ResetPrompt(lvl))
    /\ Keep

handle_apdu_reset(lvl) ==
    /\ Waiting
    /\ \/ /\ is_valid_level(lvl)
          /\ \E session \in overlay_reset(lvl) :
                Overlay(session, ResetPrompt(lvl))
          /\ ui_prompt(ResetPrompt(lvl))
          /\ Keep
       \/ ~is_valid_level(lvl) /\ throw

handle_apdu_setup(key, chain_id, levels) ==
    /\ Waiting
    /\ Overlay(overlay_setup(key, chain_id, levels),
               SetupPrompt(key, chain_id, levels))
    /\ ui_prompt(SetupPrompt(key, chain_id, levels))
    /\ Keep

\* INS_GET_PUBLIC_KEY answers at once, INS_PROMPT_PUBLIC_KEY asks first.
handle_apdu_get_public_key(key) ==
    /\ Waiting
    /\ \E session \in overlay_pubkey(key) : Overlay(session, NoPrompt)
    /\ ReplyNow(Status) \/ ui_prompt([kind |-> "provide"])
    /\ Keep

\* INS_AUTHORIZE_BAKING: without a path it re-authorises the current key,
\* and when there is none generate_public_key has no curve to work with.
handle_apdu_authorize_baking(key) ==
    /\ Waiting
    /\ LET chosen == IF key = NoKey THEN N_data.baking_key ELSE key
       IN  \/ /\ chosen # NoKey
              /\ \E session \in overlay_pubkey(chosen) :
                    Overlay(session, NoPrompt)
              /\ ui_prompt([kind |-> "authorize", key |-> chosen])
              /\ Keep
           \/ chosen = NoKey /\ throw

handle_apdu_hmac(key) ==
    /\ Waiting
    /\ \E session \in overlay_hmac(key) : Overlay(session, NoPrompt)
    /\ ReplyNow(Status)
    /\ Keep

handle_apdu_deauthorize ==
    /\ Waiting
    /\ N_data' = clear_baking_key(N_data)
    /\ ReplyNow(Status)
    /\ UNCHANGED <<u, staged, running, overlaid, history, floor>>

\* Version, commit and the queries of keys and marks: no state changes.
handle_apdu_query ==
    /\ Waiting
    /\ ReplyNow(Status)
    /\ Keep /\ UNCHANGED <<u, staged, overlaid>>

-----------------------------------------------------------------------------
(* The prompt's callbacks.  The user's button runs them inside the          *)
(* io_exchange that waits; a host runs those still armed, as the handlers  *)
(* of two instructions, when nothing is asked.                             *)

Asked(kind) == running /\ prompt.kind = kind
RunByHost(kind) == Waiting /\ armed = kind
Run(kind) == Asked(kind) \/ RunByHost(kind)

Answer(r) == prompt' = NoPrompt /\ reply' = r /\ armed' = IdleCallbacks

\* The levels a user chose, as the auxiliary variables remember them.
Chosen(levels) ==
    IF prompt # NoPrompt THEN history' = << >> /\ floor' = levels
                         ELSE UNCHANGED <<history, floor>>

\* u.baking.reset_level as it is when the callback runs: the request's, or
\* what the length of a session key makes of it.
reset_level ==
    IF staged.kind = "reset" THEN {staged.level}
    ELSE {lvl \in level_t : IF u.key = NoKey THEN lvl = 0 ELSE lvl % 256 # 0}

\* u.setup likewise.  Every command has its key where a set-up has its own.
setup ==
    IF staged.kind = "setup" THEN {staged}
    ELSE IF u.key = NoKey
    THEN {SetupPrompt(NoKey, AnyChain, [s \in Slot |-> 0])}
    ELSE {SetupPrompt(u.key, chain_id, levels) :
             chain_id \in ChainId, levels \in [Slot -> level_t]}

reset_ok ==
    /\ Run("reset")
    /\ \E lvl \in reset_level :
          /\ N_data' = reset_marks(lvl, N_data)
          /\ Chosen([s \in Slot |-> lvl])
    /\ Answer(Status)
    /\ UNCHANGED <<u, staged, running, overlaid>>

setup_ok ==
    /\ Run("setup")
    /\ \E G \in setup :
          /\ N_data' = setup_data(G.key, G.chain_id, G.levels)
          /\ Chosen(G.levels)
    /\ Answer(Status)
    /\ UNCHANGED <<u, staged, running, overlaid>>

baking_ok ==
    /\ Run("authorize")
    /\ N_data' = authorize_baking(u.key, N_data)
    /\ Answer(Status)
    /\ UNCHANGED <<u, staged, running, overlaid, history, floor>>

pubkey_ok ==
    /\ Run("provide")
    /\ Answer(Status)
    /\ Keep /\ UNCHANGED <<u, staged, overlaid>>

\* sign_with_hash_ok and sign_without_hash_ok as far as the answer: the mark
\* is written for whatever parsed_baking_data holds, then a key is needed.
sign_ok ==
    /\ Run("delegate")
    /\ is_valid_level(u.parsed.level)
    /\ u.key # NoKey
    /\ N_data' = write_high_water_mark(u.parsed, N_data)
    /\ IF prompt # NoPrompt
       THEN /\ Len(history) < MaxHistory
            /\ history' = Append(history,
                                 [what |-> "delegation", info |-> u.parsed])
       ELSE UNCHANGED history
    /\ forget
    /\ Answer(DelegationSignature)
    /\ UNCHANGED <<running, floor>>

\* They throw for a level that is not valid, before the mark is written, and
\* for a key that cannot be derived, after.  main_loop catches that if the host
\* ran them; in the callback of a button nothing does, and the app ends.
sign_ok_throws ==
    /\ Run("delegate")
    /\ prompt # NoPrompt => ~is_valid_level(u.parsed.level)
    /\ N_data' = IF is_valid_level(u.parsed.level)
                 THEN write_high_water_mark(u.parsed, N_data) ELSE N_data
    /\ IF prompt = NoPrompt THEN catch ELSE end_app

\* Cancelled by the user, timed out or run by the host: sign_reject also
\* forgets the session.
sign_reject ==
    /\ Run("delegate")
    /\ forget
    /\ Answer(Status)
    /\ Keep

delay_reject ==
    /\ \E kind \in {"reset", "setup", "authorize", "provide"} : Run(kind)
    /\ Answer(Status)
    /\ Keep /\ UNCHANGED <<u, staged, overlaid>>

-----------------------------------------------------------------------------
(* The world.                                                              *)

\* io_exchange hands the answer to the host.
reply_sent ==
    /\ running /\ reply # NoReply
    /\ history' = IF Signing
                  THEN Append(history, [what |-> "baking", info |-> reply.info])
                  ELSE history
    /\ reply' = NoReply
    /\ UNCHANGED <<N_data, u, staged, prompt, armed, running, overlaid, floor>>

\* The crypto library throws after the mark was written: main_loop catches it
\* in a handler, nothing does in a callback.
sign_throws ==
    /\ running
    /\ \/ Signing /\ throw
       \/ reply = DelegationSignature /\ end_app /\ UNCHANGED N_data

\* EXCEPTION_IO_RESET: main starts over without clearing global.
io_reset ==
    /\ running
    /\ Answer(NoReply)
    /\ Keep /\ UNCHANGED <<u, staged, overlaid>>

\* Power cut or end of the app, and a new start: only flash survives.
restart == running' = TRUE /\ lose_ram /\ UNCHANGED N_data

Init ==
    /\ N_data = [main_chain_id |-> AnyChain,
                 hwm           |-> [s \in Slot |-> FreshMark(0)],
                 baking_key    |-> NoKey]
    /\ u = ZeroSession
    /\ staged = NoPrompt
    /\ prompt = NoPrompt
    /\ armed = FirstCallbacks
    /\ reply = NoReply
    /\ running = TRUE
    /\ overlaid = FALSE
    /\ history = << >>
    /\ floor = [s \in Slot |-> 0]

SignNext ==
    \/ \E key \in Key : sign_first(key)
    \/ \E packet \in Packet : \/ sign_next(packet)
                              \/ sign_last_baking(packet)
                              \/ sign_last_operation(packet)

CommandNext ==
    \/ \E lvl \in AskedLevel : handle_apdu_reset(lvl)
    \/ \E key \in Key, chain_id \in ChainId, levels \in [Slot -> AskedLevel] :
          handle_apdu_setup(key, chain_id, levels)
    \/ \E key \in Key : handle_apdu_get_public_key(key) \/ handle_apdu_hmac(key)
    \/ \E key \in Key \cup {NoKey} : handle_apdu_authorize_baking(key)
    \/ handle_apdu_deauthorize
    \/ handle_apdu_query
    \/ handle_apdu_error
    \/ call_behind_handlers

CallbackNext == \/ reset_ok \/ setup_ok \/ baking_ok \/ pubkey_ok
                \/ sign_ok \/ sign_ok_throws
                \/ sign_reject \/ delay_reject

WorldNext == reply_sent \/ sign_throws \/ io_reset \/ restart

Next == SignNext \/ CommandNext \/ CallbackNext \/ WorldNext

Spec == Init /\ [][Next]_vars

-----------------------------------------------------------------------------
(* Properties.                                                             *)

Struct ==
    {NoPrompt} \cup [kind : {"reset"}, level : level_t]
    \cup [kind : {"setup"}, key : Key, chain_id : ChainId,
          levels : [Slot -> level_t]]

Prompt ==
    Struct \cup [kind : {"provide", "delegate"}]
    \cup [kind : {"authorize"}, key : Key]

Reply ==
    {NoReply, Status, DelegationSignature}
    \cup [what : {"baking"}, info : parsed_baking_data_t, key : SessionKey,
          one_packet : BOOLEAN, own_session : BOOLEAN]

\* Every variable keeps its type, and the device never asks while it answers.
TypeOK ==
    /\ N_data \in nvram_data
    /\ u \in Session
    /\ staged \in Struct
    /\ prompt \in Prompt
    /\ armed \in {"idle"} \cup {p.kind : p \in Prompt}
    /\ reply \in Reply
    /\ prompt = NoPrompt \/ reply = NoReply
    /\ running \in BOOLEAN
    /\ overlaid \in BOOLEAN
    /\ history \in Seq([what : {"baking", "delegation"},
                        info : parsed_baking_data_t])
    /\ floor \in [Slot -> level_t]

\* A baking signature is made with the key the user authorised, whichever
\* handler last wrote a key into the session.
SignedWithAuthorizedKey ==
    Signing => reply.key # NoKey /\ reply.key = N_data.baking_key

\* A session no other instruction interfered with signs the one packet whose
\* level was checked and recorded.
OwnSessionsSignOnePacket ==
    Signing /\ reply.own_session => reply.one_packet

\* "Only parse a single packet when baking" (apdu_sign.c:566): the bytes
\* signed are those of the packet that was parsed and checked.
SignsOnlyTheParsedPacket == Signing => reply.one_packet

\* A mark goes down, the main chain changes and a key becomes the baking key
\* only as the screens showed it to the user who accepts it: the callback
\* finds in the union the request that was displayed, and runs for nobody
\* else ("Most APDU messages will be accompanied by an Accept / Deny prompt",
\* APDUs.md:4-5, INS_RESET, INS_SETUP and INS_AUTHORIZE_BAKING among them).
FlashFollowsConsent ==
    [][\/ \E s \in Slot :
             N_data'.hwm[s].highest_level < N_data.hwm[s].highest_level
       \/ N_data'.main_chain_id # N_data.main_chain_id
       \/ N_data'.baking_key \notin {NoKey, N_data.baking_key}
       => \/ /\ prompt.kind = "reset"
             /\ N_data' = reset_marks(prompt.level, N_data)
          \/ /\ prompt.kind = "setup"
             /\ N_data' = setup_data(prompt.key, prompt.chain_id, prompt.levels)
          \/ /\ prompt.kind = "authorize"
             /\ N_data' = authorize_baking(prompt.key, N_data)]_vars

\* Each run of a Nano S is one BakingAuth allows: however APDUs, prompts,
\* errors and restarts interleave, flash is written and signatures leave only
\* as that module says.
Auth == INSTANCE BakingAuth
    WITH Leftover <- parsed_baking_data_t,
         reply <- IF Signing THEN [what |-> "baking", info |-> reply.info]
                             ELSE NoReply

\* This is Auth!Spec, with the steps that leave its variables alone first.
AuthSpec == Auth!Init /\ [][UNCHANGED Auth!vars \/ Auth!Next]_vars

=============================================================================
