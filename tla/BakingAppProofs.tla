-------------------------- MODULE BakingAppProofs --------------------------
(***************************************************************************)
(* Theorems about BakingApp, for any keys, chains and levels.  Of either   *)
(* build: types, the key of a baking signature and the packet it covers.   *)
(* Of the Nano S, where the callbacks are reset before the next APDU is    *)
(* served: nothing reaches flash that the user was not shown, and whatever *)
(* APDUs hosts send, in whatever order, flash is written and signatures    *)
(* leave only as BakingAuth allows.  (On the Nano X hosts run the callbacks*)
(* of the last prompt, and neither holds.)                                 *)
(*                                                                         *)
(* The properties are not inductive.  IndInv adds what a prompt on display *)
(* relies on (AskedIsReady: no handler runs while the user is asked, so    *)
(* what was checked and shown then is still in the union), which keys a    *)
(* callback may find there (ArmedKeys), when the callbacks are those of no *)
(* prompt (NanoSIdles) and that only an overlay can separate packet_index  *)
(* from the bytes it counts (OwnBytesAreCounted).                          *)
(***************************************************************************)
EXTENDS BakingApp, TLAPS

USE KeyAssumption, ChainAssumption, LevelAssumption, TargetAssumption,
    PartialKeyAssumption, OverlayAssumption, BoundAssumption

AskedIsReady ==
    /\ prompt.kind = "delegate" => u.key # NoKey /\ u.key = N_data.baking_key
    /\ prompt.kind = "reset" => is_valid_level(prompt.level)
    /\ prompt.kind \in {"reset", "setup"} => staged = prompt
    /\ prompt.kind = "authorize" => u.key = prompt.key

\* Only a reset's struct leaves half a key in the union, and the callbacks
\* armed then are the reset's.
ArmedKeys ==
    armed \in {"setup", "authorize", "delegate", "provide"} =>
        u.key \in Key \cup {NoKey}

NanoSIdles == ~TargetNanoX /\ running /\ prompt = NoPrompt => armed = "idle"

OwnBytesAreCounted == ~overlaid /\ u.packet_index = 0 => ~u.held

IndInv == /\ TypeOK /\ AskedIsReady /\ ArmedKeys /\ NanoSIdles
          /\ OwnBytesAreCounted
          /\ SignedWithAuthorizedKey /\ OwnSessionsSignOnePacket

Events == Seq([what : {"baking", "delegation"}, info : parsed_baking_data_t])

-----------------------------------------------------------------------------
(* Sessions, replies and records.                                          *)

LEMMA ZeroType ==
    /\ ZeroBakingData \in parsed_baking_data_t
    /\ ZeroSession \in Session
    /\ ~ZeroSession.held /\ ZeroSession.key = NoKey
BY DEF ZeroBakingData, parsed_baking_data_t, level_t, AnyChain, ZeroSession,
       Session, SessionKey, Clobbered

LEMMA FirstType ==
    ASSUME NEW key \in Key
    PROVE  /\ [ZeroSession EXCEPT !.key = key] \in Session
           /\ ~[ZeroSession EXCEPT !.key = key].held
           /\ [ZeroSession EXCEPT !.key = key].key = key
BY ZeroType DEF ZeroSession, Session, SessionKey

LEMMA OverlaidType ==
    ASSUME u \in Session, NEW key \in SessionKey, NEW i \in 0 .. Clobbered,
           NEW p \in parsed_baking_data_t
    PROVE  /\ [u EXCEPT !.key = key, !.packet_index = i, !.parsed = p] \in Session
           /\ [u EXCEPT !.key = key, !.packet_index = i, !.parsed = p].key = key
BY DEF Session

LEMMA AfterType ==
    ASSUME u \in Session, NEW packet \in Packet
    PROVE  /\ session_after(packet) \in Session
           /\ session_after(packet).packet_index = 1
           /\ session_after(packet).key = u.key
<1>1. packet.magic = "baking" => packet.info \in parsed_baking_data_t
  BY DEF Packet, BakingPacket, DelegationPacket, JunkPacket
<1>2. /\ u.key \in SessionKey /\ u.parsed \in parsed_baking_data_t
      /\ DOMAIN u = {"key", "packet_index", "parsed", "held"}
  BY DEF Session
<1> DEFINE p == IF packet.magic = "baking" THEN packet.info ELSE u.parsed
<1>3. p \in parsed_baking_data_t
  BY <1>1, <1>2
<1>4. session_after(packet) = [u EXCEPT !.packet_index = 1, !.parsed = p,
                                        !.held = TRUE]
  BY DEF session_after
<1> HIDE DEF p
<1>5. session_after(packet) = [key |-> u.key, packet_index |-> 1,
                               parsed |-> p, held |-> TRUE]
  BY <1>4 DEF Session
<1>6. 1 \in 0 .. Clobbered
  BY DEF Clobbered
<1> QED BY <1>2, <1>3, <1>5, <1>6 DEF Session

LEMMA OverlayTypes ==
    ASSUME u \in Session, NEW key \in Key
    PROVE  /\ overlay_pubkey(key) \subseteq Session
           /\ overlay_hmac(key) \subseteq Session
           /\ \A s \in overlay_pubkey(key) \cup overlay_hmac(key) : s.key = key
<1>1. AnyChain \in ChainId /\ key \in SessionKey
  BY DEF SessionKey
<1>2. ASSUME NEW lvl \in level_t
      PROVE  /\ [u EXCEPT !.key = key, !.packet_index = Clobbered,
                          !.parsed = [chain_id |-> 0, is_endorsement |-> TRUE,
                                      level |-> lvl]] \in Session
             /\ [u EXCEPT !.key = key, !.packet_index = Clobbered,
                          !.parsed = [chain_id |-> 0, is_endorsement |-> TRUE,
                                      level |-> lvl]].key = key
  <2> DEFINE p == [chain_id |-> 0, is_endorsement |-> TRUE, level |-> lvl]
  <2>1. p \in parsed_baking_data_t
    BY <1>1 DEF parsed_baking_data_t, AnyChain
  <2> HIDE DEF p
  <2>2. Clobbered \in 0 .. Clobbered
    BY DEF Clobbered
  <2>3. /\ [u EXCEPT !.key = key, !.packet_index = Clobbered, !.parsed = p]
            \in Session
        /\ [u EXCEPT !.key = key, !.packet_index = Clobbered, !.parsed = p].key
             = key
    BY <1>1, <2>1, <2>2, OverlaidType, Zenon
  <2> QED BY <2>3 DEF p
<1>3. ASSUME NEW info \in parsed_baking_data_t
      PROVE  /\ [u EXCEPT !.key = key, !.packet_index = 0, !.parsed = info]
                  \in Session
             /\ [u EXCEPT !.key = key, !.packet_index = 0, !.parsed = info].key
                  = key
  <2>1. 0 \in 0 .. Clobbered
    BY DEF Clobbered
  <2> QED BY <1>1, <2>1, OverlaidType, Zenon
<1>4. /\ overlay_pubkey(key) \subseteq Session
      /\ \A s \in overlay_pubkey(key) : s.key = key
  BY <1>2, Zenon DEF overlay_pubkey
<1> QED BY <1>3, <1>4, Zenon DEF overlay_hmac

LEMMA OverlayResetType ==
    ASSUME u \in Session, NEW lvl \in level_t
    PROVE  overlay_reset(lvl) \subseteq Session
<1>1. ASSUME NEW k \in SessionKey PROVE [u EXCEPT !.key = k] \in Session
  BY DEF Session
<1> DEFINE curve == u.key \in Key \cup {Pathless}
<1>2. (IF lvl % 256 = 0 THEN {IF curve THEN Pathless ELSE NoKey}
       ELSE IF curve THEN Key ELSE {Curveless}) \subseteq SessionKey
  BY Zenon DEF SessionKey
<1> QED BY <1>1, <1>2, Zenon DEF overlay_reset

LEMMA OverlaySetupType ==
    ASSUME u \in Session, NEW key \in Key, NEW chain_id \in ChainId,
           NEW levels \in [Slot -> level_t]
    PROVE  /\ overlay_setup(key, chain_id, levels) \in Session
           /\ overlay_setup(key, chain_id, levels).key = key
<1> DEFINE i == IF chain_id % 256 <= 1 THEN chain_id % 256 ELSE Clobbered
           p == [chain_id       |-> levels["main"],
                 is_endorsement |-> levels["test"] % 256 # 0,
                 level          |-> u.parsed.level]
<1>1. i \in 0 .. Clobbered
  <2>1. chain_id % 256 \in Nat
    OBVIOUS
  <2> QED BY <2>1 DEF Clobbered
<1>2. p \in parsed_baking_data_t
  <2>1. levels["main"] \in ChainId
    BY DEF Slot
  <2>2. u.parsed.level \in level_t
    BY DEF Session, parsed_baking_data_t
  <2> QED BY <2>1, <2>2 DEF parsed_baking_data_t
<1>3. key \in SessionKey
  BY DEF SessionKey
<1>4. overlay_setup(key, chain_id, levels)
        = [u EXCEPT !.key = key, !.packet_index = i, !.parsed = p]
  BY DEF overlay_setup
<1> HIDE DEF i, p
<1>5. /\ [u EXCEPT !.key = key, !.packet_index = i, !.parsed = p] \in Session
      /\ [u EXCEPT !.key = key, !.packet_index = i, !.parsed = p].key = key
  BY <1>1, <1>2, <1>3, OverlaidType, Zenon
<1> QED BY <1>4, <1>5

\* The answers that are not baking signatures.
PlainReply == {NoReply, Status, DelegationSignature}

LEMMA PlainReplies ==
    /\ PlainReply \subseteq Reply
    /\ \A r \in PlainReply : r.what # "baking"
    /\ NoPrompt \in Prompt /\ NoPrompt.kind = "none" /\ NoPrompt \in Struct
BY DEF PlainReply, Reply, NoReply, Status, DelegationSignature, Prompt, Struct,
       NoPrompt

LEMMA RecordTypes ==
    ASSUME N_data \in nvram_data
    PROVE  /\ \A info \in parsed_baking_data_t :
                 /\ write_high_water_mark(info, N_data) \in nvram_data
                 /\ write_high_water_mark(info, N_data).baking_key
                       = N_data.baking_key
           /\ \A lvl \in level_t : reset_marks(lvl, N_data) \in nvram_data
           /\ \A key \in Key \cup {NoKey} :
                 authorize_baking(key, N_data) \in nvram_data
           /\ clear_baking_key(N_data) \in nvram_data
           /\ \A key \in Key \cup {NoKey}, chain_id \in ChainId,
                 levels \in [Slot -> level_t] :
                 setup_data(key, chain_id, levels) \in nvram_data
<1>1. ASSUME NEW info \in parsed_baking_data_t
      PROVE  /\ write_high_water_mark(info, N_data) \in nvram_data
             /\ write_high_water_mark(info, N_data).baking_key = N_data.baking_key
  <2> DEFINE s == select_hwm_by_chain(info.chain_id, N_data)
             mark == [highest_level   |-> MaxOf(info.level, N_data.hwm[s].highest_level),
                      had_endorsement |-> info.is_endorsement]
  <2>1. s \in Slot
    BY DEF select_hwm_by_chain, Slot
  <2> HIDE DEF s
  <2>2. mark \in high_watermark_t
    BY <2>1 DEF high_watermark_t, nvram_data, parsed_baking_data_t, level_t, MaxOf
  <2>3. write_high_water_mark(info, N_data)
          = [N_data EXCEPT !.hwm = [N_data.hwm EXCEPT ![s] = mark]]
    BY DEF write_high_water_mark, s
  <2> HIDE DEF mark
  <2>4. [N_data.hwm EXCEPT ![s] = mark] \in [Slot -> high_watermark_t]
    BY <2>2 DEF nvram_data
  <2> QED BY <2>3, <2>4 DEF nvram_data
<1>2. \A lvl \in level_t : FreshMark(lvl) \in high_watermark_t
  BY DEF FreshMark, high_watermark_t
<1>3. \A lvl \in level_t : reset_marks(lvl, N_data) \in nvram_data
  BY <1>2 DEF reset_marks, nvram_data
<1>4. \A key \in Key \cup {NoKey} : authorize_baking(key, N_data) \in nvram_data
  BY DEF authorize_baking, nvram_data
<1>5. clear_baking_key(N_data) \in nvram_data
  BY DEF clear_baking_key, nvram_data
<1>6. ASSUME NEW key \in Key \cup {NoKey}, NEW chain_id \in ChainId,
             NEW levels \in [Slot -> level_t]
      PROVE  setup_data(key, chain_id, levels) \in nvram_data
  BY <1>2 DEF setup_data, nvram_data
<1> QED BY <1>1, <1>3, <1>4, <1>5, <1>6

-----------------------------------------------------------------------------
(* Steps in three kinds: those that answer without a baking signature,     *)
(* those that ask, and the one that signs.                                 *)

\* The callbacks of every prompt, and of none.
Callbacks == {"idle"} \cup {p.kind : p \in Prompt}

\* u' has a key that any callback may find.
KeyStays == u'.key \in Key \cup {NoKey} \/ u'.key = u.key

LEMMA Answers ==
    ASSUME IndInv, prompt' = NoPrompt, reply' \in PlainReply,
           N_data' \in nvram_data, u' \in Session, staged' \in Struct,
           armed' \in Callbacks, ArmedKeys', NanoSIdles',
           running' \in BOOLEAN, overlaid' \in BOOLEAN,
           history' \in Events, floor' \in [Slot -> level_t],
           ~overlaid' /\ u'.packet_index = 0 => ~u'.held
    PROVE  IndInv'
<1>1. reply' \in Reply /\ reply'.what # "baking"
  BY PlainReplies
<1>2. prompt' \in Prompt /\ prompt'.kind = "none"
  BY PlainReplies
<1>3. TypeOK'
  BY <1>1, <1>2, Zenon DEF TypeOK, Events, Callbacks
<1>4. AskedIsReady' /\ OwnBytesAreCounted'
  BY <1>2 DEF AskedIsReady, OwnBytesAreCounted
<1>5. SignedWithAuthorizedKey' /\ OwnSessionsSignOnePacket'
  BY <1>1 DEF Signing, SignedWithAuthorizedKey, OwnSessionsSignOnePacket
<1> QED BY <1>3, <1>4, <1>5 DEF IndInv

\* Callbacks left alone while the device serves APDUs.
LEMMA ArmedStays ==
    ASSUME IndInv, armed' = armed, KeyStays,
           running' => running /\ prompt = NoPrompt
    PROVE  armed' \in Callbacks /\ ArmedKeys' /\ NanoSIdles'
BY DEF IndInv, TypeOK, Callbacks, ArmedKeys, NanoSIdles, KeyStays

\* Callbacks when a prompt is over.
LEMMA ArmedIdles ==
    ASSUME IndInv, armed' = IdleCallbacks, KeyStays
    PROVE  armed' \in Callbacks /\ ArmedKeys' /\ NanoSIdles'
<1>1. CASE TargetNanoX
  BY <1>1 DEF IndInv, TypeOK, Callbacks, ArmedKeys, NanoSIdles, KeyStays,
     IdleCallbacks
<1>2. CASE ~TargetNanoX
  BY <1>2 DEF Callbacks, ArmedKeys, NanoSIdles, IdleCallbacks
<1> QED BY <1>1, <1>2

LEMMA FirstArmed ==
    ASSUME armed' = FirstCallbacks
    PROVE  armed' \in Callbacks /\ ArmedKeys' /\ NanoSIdles'
BY PlainReplies DEF FirstCallbacks, Callbacks, ArmedKeys, NanoSIdles

LEMMA Asks ==
    ASSUME IndInv, Waiting, NEW p \in Prompt, ui_prompt(p), Keep,
           p.kind # "none", u' \in Session, staged' \in Struct,
           overlaid' \in BOOLEAN,
           ~overlaid' /\ u'.packet_index = 0 => ~u'.held,
           p.kind # "reset" => u'.key \in Key,
           p.kind = "delegate" => u'.key # NoKey /\ u'.key = N_data.baking_key,
           p.kind = "reset" => is_valid_level(p.level),
           p.kind \in {"reset", "setup"} => staged' = p,
           p.kind = "authorize" => u'.key = p.key
    PROVE  IndInv'
<1>0. prompt' = p /\ armed' = p.kind /\ reply' = NoReply
  BY DEF ui_prompt, Waiting
<1>1. NoReply \in Reply /\ NoReply.what # "baking"
  BY PlainReplies DEF PlainReply
<1>2. TypeOK'
  BY <1>0, <1>1, Zenon DEF IndInv, TypeOK, Keep
<1>3. AskedIsReady' /\ OwnBytesAreCounted'
  BY <1>0 DEF AskedIsReady, OwnBytesAreCounted, Keep
<1>4. SignedWithAuthorizedKey' /\ OwnSessionsSignOnePacket'
  BY <1>0, <1>1 DEF Signing, SignedWithAuthorizedKey, OwnSessionsSignOnePacket
<1>5. ArmedKeys' /\ NanoSIdles'
  BY <1>0, PlainReplies DEF ArmedKeys, NanoSIdles
<1> QED BY <1>2, <1>3, <1>4, <1>5 DEF IndInv

LEMMA Caught ==
    ASSUME IndInv, prompt = NoPrompt, catch, N_data' \in nvram_data
    PROVE  IndInv'
<1>1. /\ u' \in Session /\ ~u'.held /\ overlaid' \in BOOLEAN
      /\ staged' \in Struct /\ KeyStays
      /\ prompt' = NoPrompt /\ reply' \in PlainReply
      /\ UNCHANGED <<armed, running, history, floor>>
  BY ZeroType, PlainReplies DEF catch, forget, PlainReply, KeyStays
<1>2. armed' \in Callbacks /\ ArmedKeys' /\ NanoSIdles'
  BY <1>1, ArmedStays DEF IndInv, TypeOK, NanoSIdles
<1> QED BY <1>1, <1>2, Answers, Zenon DEF IndInv, TypeOK, Events

LEMMA Throws == IndInv /\ prompt = NoPrompt /\ throw => IndInv'
BY Caught DEF throw, IndInv, TypeOK

LEMMA Ends ==
    ASSUME IndInv, lose_ram, N_data' \in nvram_data, running' \in BOOLEAN
    PROVE  IndInv'
<1>1. /\ u' \in Session /\ ~u'.held /\ overlaid' \in BOOLEAN
      /\ staged' \in Struct /\ armed' = FirstCallbacks
      /\ prompt' = NoPrompt /\ reply' \in PlainReply
      /\ UNCHANGED <<history, floor>>
  BY ZeroType, PlainReplies DEF lose_ram, forget, PlainReply
<1> QED BY <1>1, FirstArmed, Answers DEF IndInv, TypeOK, Events

-----------------------------------------------------------------------------
(* The invariant, handler by handler.                                      *)

LEMMA Starts == Init => IndInv
<1> SUFFICES ASSUME Init PROVE IndInv
  OBVIOUS
<1>1. N_data \in nvram_data
  BY DEF Init, nvram_data, high_watermark_t, FreshMark, level_t
<1>2. /\ u \in Session /\ ~u.held /\ prompt = NoPrompt /\ reply = NoReply
      /\ staged \in Struct /\ armed \in Callbacks
      /\ overlaid \in BOOLEAN /\ running \in BOOLEAN
  BY ZeroType, PlainReplies DEF Init, FirstCallbacks, Callbacks
<1>3. history \in Events /\ floor \in [Slot -> level_t]
  BY DEF Init, Events, level_t
<1>4. TypeOK
  BY <1>1, <1>2, <1>3, PlainReplies, Zenon
  DEF TypeOK, PlainReply, Events, Callbacks
<1>5. AskedIsReady /\ OwnBytesAreCounted
  BY <1>2, PlainReplies DEF AskedIsReady, OwnBytesAreCounted
<1>6. SignedWithAuthorizedKey /\ OwnSessionsSignOnePacket
  BY <1>2 DEF NoReply, Signing, SignedWithAuthorizedKey, OwnSessionsSignOnePacket
<1>7. ArmedKeys /\ NanoSIdles
  BY DEF Init, FirstCallbacks, ArmedKeys, NanoSIdles
<1> QED BY <1>4, <1>5, <1>6, <1>7 DEF IndInv

LEMMA Pieces ==
    ASSUME IndInv
    PROVE  /\ N_data \in nvram_data /\ u \in Session /\ prompt \in Prompt
           /\ staged \in Struct /\ armed \in Callbacks
           /\ running \in BOOLEAN /\ overlaid \in BOOLEAN
           /\ history \in Events /\ floor \in [Slot -> level_t]
           /\ ArmedKeys /\ NanoSIdles
BY DEF IndInv, TypeOK, Events, Callbacks

\* A struct, and a prompt, of each kind.
LEMMA Structs ==
    /\ \A s \in Struct :
          /\ s.kind = "reset" => s.level \in level_t
          /\ s.kind = "setup" => /\ s.key \in Key /\ s.chain_id \in ChainId
                                 /\ s.levels \in [Slot -> level_t]
    /\ \A lvl \in level_t :
          /\ ResetPrompt(lvl) \in Struct /\ ResetPrompt(lvl) \in Prompt
          /\ ResetPrompt(lvl).kind = "reset" /\ ResetPrompt(lvl).level = lvl
    /\ \A key \in Key, chain_id \in ChainId, levels \in [Slot -> level_t] :
          /\ SetupPrompt(key, chain_id, levels) \in Struct
          /\ SetupPrompt(key, chain_id, levels) \in Prompt
          /\ SetupPrompt(key, chain_id, levels).kind = "setup"
<1>1. \A s \in Struct :
          /\ s.kind = "reset" => s.level \in level_t
          /\ s.kind = "setup" => /\ s.key \in Key /\ s.chain_id \in ChainId
                                 /\ s.levels \in [Slot -> level_t]
  BY DEF Struct, NoPrompt
<1>2. \A lvl \in level_t :
          /\ ResetPrompt(lvl) \in Struct /\ ResetPrompt(lvl) \in Prompt
          /\ ResetPrompt(lvl).kind = "reset" /\ ResetPrompt(lvl).level = lvl
  BY DEF Struct, Prompt, ResetPrompt
<1>3. \A key \in Key, chain_id \in ChainId, levels \in [Slot -> level_t] :
          /\ SetupPrompt(key, chain_id, levels) \in Struct
          /\ SetupPrompt(key, chain_id, levels) \in Prompt
          /\ SetupPrompt(key, chain_id, levels).kind = "setup"
  BY DEF Struct, Prompt, SetupPrompt
<1> QED BY <1>1, <1>2, <1>3

\* What a prompt of each kind carries.
LEMMA Prompts ==
    ASSUME IndInv
    PROVE  /\ prompt.kind = "reset" => prompt.level \in level_t
           /\ prompt.kind = "authorize" => prompt.key \in Key
           /\ prompt.kind = "setup" => /\ prompt.key \in Key
                                       /\ prompt.chain_id \in ChainId
                                       /\ prompt.levels \in [Slot -> level_t]
           /\ prompt.kind # "none" => reply = NoReply
BY PlainReplies DEF IndInv, TypeOK, Prompt, Struct, NoPrompt

\* A handler that answers and keeps flash: only the session may change.
LEMMA Handled ==
    ASSUME IndInv, Waiting, NEW r \in PlainReply, ReplyNow(r), Keep,
           u' \in Session, staged' \in Struct, KeyStays, overlaid' \in BOOLEAN,
           ~overlaid' /\ u'.packet_index = 0 => ~u'.held
    PROVE  IndInv'
<1>1. /\ N_data' \in nvram_data /\ running' \in BOOLEAN
      /\ history' \in Events /\ floor' \in [Slot -> level_t]
  BY Pieces DEF Keep
<1>2. prompt' = NoPrompt /\ reply' \in PlainReply /\ armed' = armed
  BY DEF ReplyNow, Waiting
<1>3. armed' \in Callbacks /\ ArmedKeys' /\ NanoSIdles'
  BY <1>2, ArmedStays DEF Waiting
<1> QED BY <1>1, <1>2, <1>3, Answers

LEMMA AfterStruct == IndInv => struct_after \in Struct
BY PlainReplies DEF IndInv, TypeOK, struct_after

\* A signing instruction.
LEMMA SignSteps == IndInv /\ SignNext => IndInv'
<1> SUFFICES ASSUME IndInv, SignNext PROVE IndInv'
  OBVIOUS
<1> USE Pieces
<1>0. Status \in PlainReply /\ NoPrompt \in Struct
  BY PlainReplies DEF PlainReply
<1>1. ASSUME NEW key \in Key, sign_first(key) PROVE IndInv'
  <2>1. /\ Waiting /\ Keep /\ ReplyNow(Status)
        /\ u' \in Session /\ ~u'.held /\ overlaid' \in BOOLEAN
        /\ staged' \in Struct /\ KeyStays
    BY <1>0, <1>1, FirstType DEF sign_first, KeyStays
  <2> QED BY <1>0, <2>1, Handled
<1>2. ASSUME NEW packet \in Packet, sign_next(packet) PROVE IndInv'
  <2>1. Waiting /\ prompt = NoPrompt
    BY <1>2 DEF sign_next, Waiting
  <2>2. CASE throw
    BY <2>1, <2>2, Throws
  <2>3. CASE ~throw
    <3>1. /\ Keep /\ ReplyNow(Status) /\ overlaid' = overlaid
          /\ u' = session_after(packet) /\ staged' = struct_after
      BY <1>2, <2>1, <2>3 DEF sign_next
    <3>2. u' \in Session /\ u'.packet_index = 1 /\ KeyStays /\ staged' \in Struct
      BY <3>1, AfterType, AfterStruct DEF KeyStays
    <3> QED BY <1>0, <2>1, <3>1, <3>2, Handled
  <2> QED BY <2>2, <2>3
<1>3. ASSUME NEW packet \in Packet, sign_last_baking(packet) PROVE IndInv'
  <2>1. prompt = NoPrompt /\ Waiting
    BY <1>3 DEF sign_last_baking, Waiting
  <2>2. CASE throw
    BY <2>1, <2>2, Throws
  <2>3. CASE ~throw
    <3>1. /\ packet_accepted(packet)
          /\ guard_baking_authorized(packet.info, u.key, N_data)
          /\ N_data' = write_high_water_mark(packet.info, N_data)
          /\ reply' = BakingSignature(packet.info)
          /\ u' = ZeroSession /\ overlaid' = FALSE /\ staged' = NoPrompt
          /\ UNCHANGED <<prompt, armed, running, history, floor>>
      BY <1>3, <2>3 DEF sign_last_baking, ReplyNow, forget
    <3>2. packet.info \in parsed_baking_data_t
      BY <1>3 DEF sign_last_baking, Packet, BakingPacket, DelegationPacket,
         JunkPacket
    <3>3. /\ reply' \in Reply /\ reply'.what = "baking" /\ reply'.key = u.key
          /\ reply'.one_packet = ~u.held /\ reply'.own_session = ~overlaid
      <4>1. u.key \in SessionKey /\ u.held \in BOOLEAN
        BY DEF Session
      <4> QED BY <3>1, <3>2, <4>1 DEF BakingSignature, Reply
    <3>4. N_data' \in nvram_data /\ N_data'.baking_key = N_data.baking_key
      BY <3>1, <3>2, RecordTypes
    <3>5. TypeOK'
      BY <1>0, <2>1, <3>1, <3>3, <3>4, ZeroType, PlainReplies, Zenon
      DEF TypeOK, Events, Callbacks
    <3>6. AskedIsReady' /\ OwnBytesAreCounted'
      BY <2>1, <3>1, ZeroType, PlainReplies DEF AskedIsReady, OwnBytesAreCounted
    <3>7. SignedWithAuthorizedKey'
      BY <3>1, <3>3, <3>4
      DEF SignedWithAuthorizedKey, guard_baking_authorized, is_path_authorized
    <3>8. OwnSessionsSignOnePacket'
      BY <3>1, <3>3
      DEF IndInv, OwnBytesAreCounted, OwnSessionsSignOnePacket, packet_accepted
    <3>9. ArmedKeys' /\ NanoSIdles'
      BY <2>1, <3>1, ZeroType, ArmedStays DEF KeyStays
    <3> QED BY <3>5, <3>6, <3>7, <3>8, <3>9 DEF IndInv
  <2> QED BY <2>2, <2>3
<1>4. ASSUME NEW packet \in Packet, sign_last_operation(packet) PROVE IndInv'
  <2>1. Waiting /\ prompt = NoPrompt
    BY <1>4 DEF sign_last_operation, Waiting
  <2>2. CASE throw
    BY <2>1, <2>2, Throws
  <2>3. CASE ~throw
    <3> DEFINE p == [kind |-> "delegate"]
    <3>1. /\ u.key = N_data.baking_key /\ u.key # NoKey
          /\ u' = session_after(packet) /\ staged' = struct_after
          /\ ui_prompt(p) /\ Keep /\ UNCHANGED overlaid
      BY <1>4, <2>3 DEF sign_last_operation, packet_accepted, has_path
    <3>2. /\ u' \in Session /\ u'.packet_index = 1 /\ u'.key = u.key
          /\ u.key \in Key /\ staged' \in Struct
      BY <3>1, AfterType, AfterStruct DEF nvram_data
    <3>3. p \in Prompt /\ p.kind = "delegate"
      BY DEF Prompt
    <3> HIDE DEF p
    <3> QED BY <2>1, <3>1, <3>2, <3>3, Asks
  <2> QED BY <2>2, <2>3
<1> QED BY <1>1, <1>2, <1>3, <1>4 DEF SignNext

\* The other instructions.
LEMMA CommandSteps == IndInv /\ CommandNext => IndInv'
<1> SUFFICES ASSUME IndInv, CommandNext PROVE IndInv'
  OBVIOUS
<1> USE Pieces
<1>0. Status \in PlainReply /\ NoPrompt \in Struct
  BY PlainReplies DEF PlainReply
<1>1. ASSUME NEW lvl \in level_t, handle_apdu_reset(lvl) PROVE IndInv'
  <2>1. Waiting /\ prompt = NoPrompt
    BY <1>1 DEF handle_apdu_reset, Waiting
  <2>2. CASE throw
    BY <2>1, <2>2, Throws
  <2>3. CASE ~throw
    <3>1. /\ is_valid_level(lvl)
          /\ \E session \in overlay_reset(lvl) :
                Overlay(session, ResetPrompt(lvl))
          /\ ui_prompt(ResetPrompt(lvl))
          /\ Keep
      BY <1>1, <2>3 DEF handle_apdu_reset
    <3>2. u' \in Session /\ overlaid' = TRUE /\ staged' = ResetPrompt(lvl)
      BY <3>1, OverlayResetType DEF Overlay
    <3> QED BY <2>1, <3>1, <3>2, Structs, Asks
  <2> QED BY <2>2, <2>3
<1>2. ASSUME NEW key \in Key, NEW chain_id \in ChainId,
             NEW levels \in [Slot -> level_t],
             handle_apdu_setup(key, chain_id, levels)
      PROVE  IndInv'
  <2> DEFINE p == SetupPrompt(key, chain_id, levels)
  <2>1. /\ u' \in Session /\ overlaid' = TRUE /\ Keep /\ Waiting
        /\ u'.key = key /\ staged' = p /\ ui_prompt(p)
    BY <1>2, OverlaySetupType DEF handle_apdu_setup, Overlay
  <2>2. p \in Struct /\ p \in Prompt /\ p.kind = "setup"
    BY Structs
  <2> HIDE DEF p
  <2> QED BY <2>1, <2>2, Asks
<1>3. ASSUME NEW key \in Key, handle_apdu_get_public_key(key) PROVE IndInv'
  <2>1. /\ u' \in Session /\ overlaid' = TRUE /\ Keep /\ Waiting
        /\ u'.key = key /\ staged' = NoPrompt /\ KeyStays
    BY <1>3, OverlayTypes DEF handle_apdu_get_public_key, Overlay, KeyStays
  <2>2. CASE ReplyNow(Status)
    BY <1>0, <2>1, <2>2, Handled
  <2>3. CASE ui_prompt([kind |-> "provide"])
    <3> DEFINE p == [kind |-> "provide"]
    <3>1. p \in Prompt /\ p.kind = "provide" /\ ui_prompt(p)
      BY <2>3 DEF Prompt
    <3> HIDE DEF p
    <3> QED BY <1>0, <2>1, <3>1, Asks
  <2> QED BY <1>3, <2>2, <2>3 DEF handle_apdu_get_public_key
<1>4. ASSUME NEW key \in Key, handle_apdu_hmac(key) PROVE IndInv'
  <2>1. /\ u' \in Session /\ overlaid' = TRUE /\ Keep /\ Waiting /\ ReplyNow(Status)
        /\ KeyStays /\ staged' = NoPrompt
    BY <1>4, OverlayTypes DEF handle_apdu_hmac, Overlay, KeyStays
  <2> QED BY <1>0, <2>1, Handled
<1>5. ASSUME NEW key \in Key \cup {NoKey}, handle_apdu_authorize_baking(key)
      PROVE  IndInv'
  <2>1. Waiting /\ prompt = NoPrompt
    BY <1>5 DEF handle_apdu_authorize_baking, Waiting
  <2>2. CASE throw
    BY <2>1, <2>2, Throws
  <2>3. CASE ~throw
    <3> DEFINE chosen == IF key = NoKey THEN N_data.baking_key ELSE key
               p == [kind |-> "authorize", key |-> chosen]
    <3>1. /\ chosen # NoKey
          /\ \E session \in overlay_pubkey(chosen) : Overlay(session, NoPrompt)
          /\ ui_prompt(p)
          /\ Keep
      BY <1>5, <2>3 DEF handle_apdu_authorize_baking
    <3>2. chosen \in Key
      BY <3>1 DEF nvram_data
    <3>3. p \in Prompt /\ p.kind = "authorize" /\ p.key = chosen
      BY <3>2 DEF Prompt
    <3> HIDE DEF chosen, p
    <3>4. u' \in Session /\ overlaid' = TRUE /\ u'.key = chosen
          /\ staged' = NoPrompt
      BY <3>1, <3>2, OverlayTypes DEF Overlay
    <3> QED BY <1>0, <2>1, <3>1, <3>2, <3>3, <3>4, Asks
  <2> QED BY <2>2, <2>3
<1>6. CASE handle_apdu_deauthorize
  <2>1. /\ Waiting /\ prompt' = NoPrompt /\ reply' \in PlainReply
        /\ N_data' \in nvram_data
        /\ UNCHANGED <<u, staged, armed, running, overlaid, history, floor>>
    BY <1>0, <1>6, RecordTypes DEF handle_apdu_deauthorize, Waiting, ReplyNow
  <2>2. armed' \in Callbacks /\ ArmedKeys' /\ NanoSIdles'
    BY <2>1, ArmedStays DEF KeyStays, Waiting
  <2> QED BY <2>1, <2>2, Answers DEF IndInv, OwnBytesAreCounted
<1>7. CASE handle_apdu_query
  <2>1. /\ Waiting /\ Keep /\ ReplyNow(Status) /\ KeyStays
        /\ UNCHANGED <<u, staged, overlaid>>
    BY <1>7 DEF handle_apdu_query, KeyStays
  <2> QED BY <1>0, <2>1, Handled DEF IndInv, OwnBytesAreCounted
<1>8. CASE handle_apdu_error
  BY <1>8, Throws DEF handle_apdu_error, Waiting
<1>9. CASE call_behind_handlers
  BY <1>9, Ends DEF call_behind_handlers, end_app
<1>10. /\ \A lvl \in AskedLevel : lvl \in level_t
       /\ \A levels \in [Slot -> AskedLevel] : levels \in [Slot -> level_t]
  BY AskedAssumption
<1> QED
  BY <1>1, <1>2, <1>3, <1>4, <1>5, <1>6, <1>7, <1>8, <1>9, <1>10,
     Zenon
  DEF CommandNext

\* What the callbacks of a reset and of a set-up find in the union.
LEMMA Found ==
    ASSUME IndInv
    PROVE  /\ reset_level \subseteq level_t
           /\ (Run("setup") => \A G \in setup :
                  /\ G.key \in Key \cup {NoKey} /\ G.chain_id \in ChainId
                  /\ G.levels \in [Slot -> level_t])
<1> USE Pieces
<1>1. reset_level \subseteq level_t
  BY Structs DEF reset_level
<1>2. ASSUME Run("setup"), NEW G \in setup
      PROVE  /\ G.key \in Key \cup {NoKey} /\ G.chain_id \in ChainId
             /\ G.levels \in [Slot -> level_t]
  <2>1. CASE staged.kind = "setup"
    BY <1>2, <2>1, Structs DEF setup
  <2>2. CASE staged.kind # "setup"
    <3>1. u.key \in Key \cup {NoKey}
      BY <1>2, <2>2
      DEF Run, Asked, RunByHost, IndInv, AskedIsReady, ArmedKeys
    <3>2. CASE u.key = NoKey
      <4>1. G = SetupPrompt(NoKey, AnyChain, [s \in Slot |-> 0])
        BY <1>2, <2>2, <3>2 DEF setup
      <4> QED BY <4>1 DEF SetupPrompt, level_t
    <3>3. CASE u.key # NoKey
      <4>1. PICK chain_id \in ChainId, levels \in [Slot -> level_t] :
               G = SetupPrompt(u.key, chain_id, levels)
        BY <1>2, <2>2, <3>3 DEF setup
      <4> QED BY <3>1, <4>1 DEF SetupPrompt
    <3> QED BY <3>2, <3>3
  <2> QED BY <2>1, <2>2
<1> QED BY <1>1, <1>2

\* The end of a callback that leaves the session alone.
LEMMA Called ==
    ASSUME IndInv, NEW r \in PlainReply, Answer(r), N_data' \in nvram_data,
           history' \in Events, floor' \in [Slot -> level_t],
           UNCHANGED <<u, staged, running, overlaid>>
    PROVE  IndInv'
<1>1. prompt' = NoPrompt /\ reply' \in PlainReply /\ armed' = IdleCallbacks
  BY DEF Answer
<1>2. armed' \in Callbacks /\ ArmedKeys' /\ NanoSIdles'
  BY <1>1, ArmedIdles DEF KeyStays
<1> QED BY <1>1, <1>2, Pieces, Answers DEF IndInv, OwnBytesAreCounted

\* The callbacks.
LEMMA CallbackSteps == IndInv /\ CallbackNext => IndInv'
<1> SUFFICES ASSUME IndInv, CallbackNext PROVE IndInv'
  OBVIOUS
<1> USE Pieces, RecordTypes
<1>0. {Status, DelegationSignature} \subseteq PlainReply
      /\ << >> \in Events /\ NoPrompt \in Struct
  BY PlainReplies DEF PlainReply, Events
<1>1. CASE reset_ok
  <2>1. PICK lvl \in reset_level :
           N_data' = reset_marks(lvl, N_data) /\ Chosen([s \in Slot |-> lvl])
    BY <1>1 DEF reset_ok
  <2>2. lvl \in level_t
    BY <2>1, Found
  <2>3. floor' \in [Slot -> level_t] /\ history' \in Events
    BY <1>0, <2>1, <2>2 DEF Chosen
  <2>4. N_data' \in nvram_data
    BY <2>1, <2>2
  <2> QED BY <1>0, <1>1, <2>3, <2>4, Called DEF reset_ok
<1>2. CASE setup_ok
  <2>1. PICK G \in setup : /\ N_data' = setup_data(G.key, G.chain_id, G.levels)
                           /\ Chosen(G.levels)
    BY <1>2 DEF setup_ok
  <2>2. /\ G.key \in Key \cup {NoKey} /\ G.chain_id \in ChainId
        /\ G.levels \in [Slot -> level_t]
    BY <1>2, <2>1, Found DEF setup_ok
  <2>3. floor' \in [Slot -> level_t] /\ history' \in Events
    BY <1>0, <2>1, <2>2 DEF Chosen
  <2>4. N_data' \in nvram_data
    BY <2>1, <2>2
  <2> QED BY <1>0, <1>2, <2>3, <2>4, Called DEF setup_ok
<1>3. CASE baking_ok
  <2>1. u.key \in Key \cup {NoKey}
    BY <1>3, Prompts
    DEF baking_ok, Run, Asked, RunByHost, IndInv, AskedIsReady, ArmedKeys
  <2>2. N_data' \in nvram_data
    BY <1>3, <2>1 DEF baking_ok
  <2> QED BY <1>0, <1>3, <2>2, Called DEF baking_ok
<1>4. CASE pubkey_ok
  BY <1>0, <1>4, Called DEF pubkey_ok, Keep
<1>5. CASE sign_ok
  <2>1. /\ N_data' = write_high_water_mark(u.parsed, N_data)
        /\ u' = ZeroSession /\ overlaid' = FALSE /\ staged' = NoPrompt
        /\ prompt' = NoPrompt /\ reply' = DelegationSignature
        /\ armed' = IdleCallbacks
        /\ UNCHANGED <<running, floor>>
    BY <1>5 DEF sign_ok, Answer, forget
  <2>2. history' \in Events
    <3>1. u.parsed \in parsed_baking_data_t
      BY DEF Session
    <3>2. CASE prompt # NoPrompt
      <4>1. history' = Append(history,
                              [what |-> "delegation", info |-> u.parsed])
        BY <1>5, <3>2 DEF sign_ok
      <4>2. [what |-> "delegation", info |-> u.parsed] \in
               [what : {"baking", "delegation"}, info : parsed_baking_data_t]
        BY <3>1
      <4> HIDE RecordTypes
      <4> QED BY <4>1, <4>2 DEF Events, IndInv, TypeOK
    <3>3. CASE prompt = NoPrompt
      BY <1>5, <3>3 DEF sign_ok
    <3> QED BY <3>2, <3>3
  <2>3. N_data' \in nvram_data
    BY <2>1 DEF Session
  <2>4. armed' \in Callbacks /\ ArmedKeys' /\ NanoSIdles'
    BY <2>1, ZeroType, ArmedIdles DEF KeyStays
  <2> QED BY <1>0, <2>1, <2>2, <2>3, <2>4, ZeroType, Answers
<1>6. CASE sign_ok_throws
  <2>1. N_data' \in nvram_data
    BY <1>6 DEF sign_ok_throws, Session
  <2>2. CASE prompt = NoPrompt
    BY <1>6, <2>1, <2>2, Caught DEF sign_ok_throws
  <2>3. CASE prompt # NoPrompt
    BY <1>6, <2>1, <2>3, Ends DEF sign_ok_throws, end_app
  <2> QED BY <2>2, <2>3
<1>7. CASE sign_reject
  <2>1. /\ Keep /\ prompt' = NoPrompt /\ reply' \in PlainReply
        /\ u' = ZeroSession /\ overlaid' = FALSE /\ staged' = NoPrompt
        /\ armed' = IdleCallbacks
    BY <1>0, <1>7 DEF sign_reject, Answer, forget
  <2>2. armed' \in Callbacks /\ ArmedKeys' /\ NanoSIdles'
    BY <2>1, ZeroType, ArmedIdles DEF KeyStays
  <2> QED BY <1>0, <2>1, <2>2, ZeroType, Answers DEF Keep
<1>8. CASE delay_reject
  BY <1>0, <1>8, Called DEF delay_reject, Keep
<1> QED
  BY <1>1, <1>2, <1>3, <1>4, <1>5, <1>6, <1>7, <1>8 DEF CallbackNext

\* The transport, exceptions, resets and power.
LEMMA WorldSteps == IndInv /\ WorldNext => IndInv'
<1> SUFFICES ASSUME IndInv, WorldNext PROVE IndInv'
  OBVIOUS
<1> USE Pieces
<1>0. NoReply \in PlainReply /\ (reply # NoReply => prompt = NoPrompt)
  BY DEF PlainReply, IndInv, TypeOK
<1>1. CASE reply_sent
  <2>1. history' \in Events
    <3>1. CASE Signing
      <4>1. reply.info \in parsed_baking_data_t
        BY <3>1 DEF IndInv, TypeOK, Reply, Signing, NoReply, Status,
           DelegationSignature
      <4> QED BY <1>1, <3>1, <4>1 DEF reply_sent, Events
    <3>2. CASE ~Signing
      BY <1>1, <3>2 DEF reply_sent
    <3> QED BY <3>1, <3>2
  <2>2. /\ prompt = NoPrompt /\ prompt' = NoPrompt /\ reply' \in PlainReply
        /\ running
        /\ UNCHANGED <<N_data, u, staged, armed, running, overlaid, floor>>
    BY <1>0, <1>1 DEF reply_sent
  <2>3. armed' \in Callbacks /\ ArmedKeys' /\ NanoSIdles'
    BY <2>2, ArmedStays DEF KeyStays
  <2> QED BY <2>1, <2>2, <2>3, Answers DEF IndInv, OwnBytesAreCounted
<1>2. CASE sign_throws
  <2>1. prompt = NoPrompt
    BY <1>0, <1>2 DEF sign_throws, Signing, NoReply, DelegationSignature
  <2>2. CASE throw
    BY <2>1, <2>2, Throws
  <2>3. CASE ~throw
    BY <1>2, <2>3, Ends DEF sign_throws, end_app
  <2> QED BY <2>2, <2>3
<1>3. CASE io_reset
  BY <1>0, <1>3, Called DEF io_reset, Keep
<1>4. CASE restart
  BY <1>4, Ends DEF restart
<1> QED BY <1>1, <1>2, <1>3, <1>4 DEF WorldNext

LEMMA Steps == IndInv /\ [Next]_vars => IndInv'
<1> SUFFICES ASSUME IndInv, [Next]_vars PROVE IndInv'
  OBVIOUS
<1>1. CASE Next
  BY <1>1, SignSteps, CommandSteps, CallbackSteps, WorldSteps DEF Next
<1>2. CASE UNCHANGED vars
  BY <1>2 DEF vars, IndInv, TypeOK, AskedIsReady, ArmedKeys, NanoSIdles,
     OwnBytesAreCounted, SignedWithAuthorizedKey, OwnSessionsSignOnePacket,
     Signing
<1> QED BY <1>1, <1>2

\* Types, the prompts' preconditions, and whose bytes a session holds.
THEOREM Inductive == Spec => []IndInv
BY Starts, Steps, PTL DEF Spec

-----------------------------------------------------------------------------
(* The properties of both builds.                                          *)

\* Every variable keeps its type, and the device never asks while it answers.
THEOREM Typing == Spec => []TypeOK
<1>1. IndInv => TypeOK
  BY DEF IndInv
<1> QED BY <1>1, Inductive, PTL

\* The key of a baking signature is the one the user authorised.
THEOREM AuthorizedKeySigns == Spec => []SignedWithAuthorizedKey
<1>1. IndInv => SignedWithAuthorizedKey
  BY DEF IndInv
<1> QED BY <1>1, Inductive, PTL

\* A session of its own signs the one packet it checked.
THEOREM OnePacketSigned == Spec => []OwnSessionsSignOnePacket
<1>1. IndInv => OwnSessionsSignOnePacket
  BY DEF IndInv
<1> QED BY <1>1, Inductive, PTL

-----------------------------------------------------------------------------
(* The Nano S: only the user runs callbacks, on what the prompt staged.    *)

LEMMA UserRuns ==
    ASSUME IndInv, ~TargetNanoX, NEW kind, kind # "idle", Run(kind)
    PROVE  Asked(kind) /\ (kind # "none" => prompt # NoPrompt)
BY PlainReplies
DEF Run, RunByHost, Asked, Waiting, IndInv, NanoSIdles

LEMMA UserResets ==
    ASSUME IndInv, ~TargetNanoX, reset_ok
    PROVE  /\ prompt.kind = "reset" /\ prompt.level \in level_t
           /\ is_valid_level(prompt.level)
           /\ N_data' = reset_marks(prompt.level, N_data)
           /\ history' = << >> /\ floor' = [s \in Slot |-> prompt.level]
<1>1. Run("reset")
  BY DEF reset_ok
<1>2. Asked("reset") /\ prompt # NoPrompt
  BY <1>1, UserRuns
<1>3. /\ prompt.kind = "reset" /\ prompt.level \in level_t
      /\ is_valid_level(prompt.level)
      /\ reset_level = {prompt.level}
  BY <1>2, Prompts DEF Asked, IndInv, AskedIsReady, reset_level
<1> QED BY <1>2, <1>3 DEF reset_ok, Chosen

LEMMA UserSetsUp ==
    ASSUME IndInv, ~TargetNanoX, setup_ok
    PROVE  /\ prompt.kind = "setup"
           /\ prompt.key \in Key /\ prompt.chain_id \in ChainId
           /\ prompt.levels \in [Slot -> level_t]
           /\ N_data' = setup_data(prompt.key, prompt.chain_id, prompt.levels)
           /\ history' = << >> /\ floor' = prompt.levels
<1>1. Run("setup")
  BY DEF setup_ok
<1>2. Asked("setup") /\ prompt # NoPrompt
  BY <1>1, UserRuns
<1>3. /\ prompt.kind = "setup"
      /\ prompt.key \in Key /\ prompt.chain_id \in ChainId
      /\ prompt.levels \in [Slot -> level_t]
      /\ setup = {prompt}
  BY <1>2, Prompts DEF Asked, IndInv, AskedIsReady, setup
<1> QED BY <1>2, <1>3 DEF setup_ok, Chosen

LEMMA UserAuthorizes ==
    ASSUME IndInv, ~TargetNanoX, baking_ok
    PROVE  /\ prompt.kind = "authorize" /\ prompt.key \in Key
           /\ N_data' = authorize_baking(prompt.key, N_data)
<1>1. Run("authorize")
  BY DEF baking_ok
<1>2. Asked("authorize")
  BY <1>1, UserRuns
<1> QED BY <1>2, Prompts DEF Asked, IndInv, AskedIsReady, baking_ok

\* Flash that changes no mark downwards, no chain and no key.
LEMMA RecordsKept ==
    ASSUME N_data \in nvram_data
    PROVE  /\ \A info \in parsed_baking_data_t :
                 LET ram == write_high_water_mark(info, N_data)
                 IN  /\ ram.main_chain_id = N_data.main_chain_id
                     /\ ram.baking_key = N_data.baking_key
                     /\ \A s \in Slot : ~(ram.hwm[s].highest_level
                                            < N_data.hwm[s].highest_level)
           /\ LET ram == clear_baking_key(N_data)
              IN  /\ ram.main_chain_id = N_data.main_chain_id
                  /\ ram.baking_key = NoKey /\ ram.hwm = N_data.hwm
           /\ \A s \in Slot : ~(N_data.hwm[s].highest_level
                                  < N_data.hwm[s].highest_level)
<1>0. \A s \in Slot : N_data.hwm[s].highest_level \in Int
  BY DEF nvram_data, high_watermark_t, level_t
<1>1. ASSUME NEW info \in parsed_baking_data_t
      PROVE  LET ram == write_high_water_mark(info, N_data)
             IN  /\ ram.main_chain_id = N_data.main_chain_id
                 /\ ram.baking_key = N_data.baking_key
                 /\ \A s \in Slot : ~(ram.hwm[s].highest_level
                                        < N_data.hwm[s].highest_level)
  <2> DEFINE dest == select_hwm_by_chain(info.chain_id, N_data)
             mark == [highest_level   |-> MaxOf(info.level, N_data.hwm[dest].highest_level),
                      had_endorsement |-> info.is_endorsement]
  <2>1. dest \in Slot /\ info.level \in Int
    BY DEF select_hwm_by_chain, Slot, parsed_baking_data_t, level_t
  <2>2. write_high_water_mark(info, N_data)
          = [N_data EXCEPT !.hwm = [N_data.hwm EXCEPT ![dest] = mark]]
    BY DEF write_high_water_mark
  <2> HIDE DEF dest
  <2>3. mark.highest_level >= N_data.hwm[dest].highest_level
        /\ mark.highest_level \in Int
    BY <1>0, <2>1 DEF MaxOf
  <2> HIDE DEF mark
  <2>4. /\ write_high_water_mark(info, N_data).main_chain_id
             = N_data.main_chain_id
        /\ write_high_water_mark(info, N_data).baking_key = N_data.baking_key
        /\ write_high_water_mark(info, N_data).hwm
             = [N_data.hwm EXCEPT ![dest] = mark]
    BY <2>2 DEF nvram_data
  <2>5. ASSUME NEW s \in Slot
        PROVE  ~([N_data.hwm EXCEPT ![dest] = mark][s].highest_level
                   < N_data.hwm[s].highest_level)
    BY <1>0, <2>1, <2>3 DEF nvram_data
  <2> QED BY <2>4, <2>5
<1>2. /\ clear_baking_key(N_data).main_chain_id = N_data.main_chain_id
      /\ clear_baking_key(N_data).baking_key = NoKey
      /\ clear_baking_key(N_data).hwm = N_data.hwm
  BY DEF clear_baking_key, nvram_data
<1>3. \A s \in Slot : ~(N_data.hwm[s].highest_level
                          < N_data.hwm[s].highest_level)
  BY <1>0
<1> QED BY <1>1, <1>2, <1>3

\* What a step can make of flash, but for the callbacks that set it.
LEMMA FlashSteps ==
    ASSUME IndInv, Next, ~reset_ok, ~setup_ok, ~baking_ok
    PROVE  \/ UNCHANGED N_data
           \/ N_data' = clear_baking_key(N_data)
           \/ \E info \in parsed_baking_data_t :
                 N_data' = write_high_water_mark(info, N_data)
<1>1. CASE SignNext
  <2>1. ASSUME NEW packet \in Packet, sign_last_baking(packet), ~throw
        PROVE  \E info \in parsed_baking_data_t :
                  N_data' = write_high_water_mark(info, N_data)
    BY <2>1 DEF sign_last_baking, Packet, BakingPacket, DelegationPacket,
       JunkPacket
  <2> QED BY <1>1, <2>1 DEF SignNext, sign_first, sign_next,
          sign_last_operation, throw, Keep
<1>2. CASE CommandNext
  BY <1>2 DEF CommandNext, handle_apdu_reset, handle_apdu_setup,
     handle_apdu_get_public_key, handle_apdu_hmac, handle_apdu_authorize_baking,
     handle_apdu_deauthorize, handle_apdu_query, handle_apdu_error,
     call_behind_handlers, throw, Keep
<1>3. CASE CallbackNext
  <2>1. u.parsed \in parsed_baking_data_t
    BY Pieces DEF Session
  <2> QED BY <1>3, <2>1 DEF CallbackNext, pubkey_ok, sign_ok, sign_ok_throws,
          sign_reject, delay_reject, Keep
<1>4. CASE WorldNext
  BY <1>4 DEF WorldNext, reply_sent, sign_throws, throw, io_reset, restart, Keep
<1> QED BY <1>1, <1>2, <1>3, <1>4 DEF Next

\* On the Nano S marks go down and chains and keys are set as the screens
\* showed it to the user who accepts, and in no other way.
THEOREM FlashIsConsented ==
    ASSUME ~TargetNanoX PROVE Spec => FlashFollowsConsent
<1> DEFINE Touched == \/ \E s \in Slot : N_data'.hwm[s].highest_level
                                           < N_data.hwm[s].highest_level
                      \/ N_data'.main_chain_id # N_data.main_chain_id
                      \/ N_data'.baking_key \notin {NoKey, N_data.baking_key}
           Shown == \/ /\ prompt.kind = "reset"
                       /\ N_data' = reset_marks(prompt.level, N_data)
                    \/ /\ prompt.kind = "setup"
                       /\ N_data' = setup_data(prompt.key, prompt.chain_id,
                                               prompt.levels)
                    \/ /\ prompt.kind = "authorize"
                       /\ N_data' = authorize_baking(prompt.key, N_data)
<1>1. ASSUME IndInv, Next PROVE Touched => Shown
  <2>1. CASE reset_ok \/ setup_ok \/ baking_ok
    BY <1>1, <2>1, UserResets, UserSetsUp, UserAuthorizes
  <2>2. CASE ~reset_ok /\ ~setup_ok /\ ~baking_ok
    <3>1. ~Touched
      BY <1>1, <2>2, FlashSteps, RecordsKept, Pieces
    <3> QED BY <3>1
  <2> QED BY <2>1, <2>2
<1>2. IndInv /\ [Next]_vars => [Touched => Shown]_vars
  BY <1>1
<1> QED BY <1>2, Inductive, PTL DEF Spec, FlashFollowsConsent

-----------------------------------------------------------------------------
(* BakingApp implements BakingAuth.                                        *)

\* A step that touches neither flash nor a signature is none of its business.
LEMMA Silent ==
    ASSUME UNCHANGED <<N_data, history, floor>>, ~Signing, ~Signing'
    PROVE  UNCHANGED Auth!vars
BY DEF Auth!vars

\* A signature that does not reach the host.
LEMMA Lost ==
    ASSUME UNCHANGED <<N_data, history, floor>>, Signing, ~Signing'
    PROVE  Auth!Next
<1>1. Auth!signature_lost
  BY DEF Auth!signature_lost, Auth!Idle, Auth!NoReply, NoReply
<1> QED BY <1>1 DEF Auth!Next

LEMMA Unsigned ==
    /\ \A r \in PlainReply : r.what # "baking"
    /\ NoReply \in PlainReply /\ Status \in PlainReply
    /\ DelegationSignature \in PlainReply
BY DEF PlainReply, NoReply, Status, DelegationSignature

LEMMA SignMaps == IndInv /\ SignNext => UNCHANGED Auth!vars \/ Auth!Next
<1> SUFFICES ASSUME IndInv, SignNext PROVE UNCHANGED Auth!vars \/ Auth!Next
  OBVIOUS
<1>0. ~Signing
  BY Unsigned DEF SignNext, sign_first, sign_next, sign_last_baking,
     sign_last_operation, Waiting, Signing
<1>1. CASE throw
  BY <1>0, <1>1, Unsigned, Silent DEF throw, catch, Signing
<1>2. ASSUME NEW key \in Key, sign_first(key) PROVE UNCHANGED Auth!vars
  BY <1>0, <1>2, Unsigned, Silent DEF sign_first, Keep, ReplyNow, Signing
<1>3. ASSUME NEW packet \in Packet, sign_next(packet), ~throw
      PROVE  UNCHANGED Auth!vars
  BY <1>0, <1>3, Unsigned, Silent DEF sign_next, Keep, ReplyNow, Signing
<1>4. ASSUME NEW packet \in Packet, sign_last_baking(packet), ~throw
      PROVE  Auth!Next
  <2>1. /\ guard_baking_authorized(packet.info, u.key, N_data)
        /\ Len(history) < MaxHistory
        /\ N_data' = write_high_water_mark(packet.info, N_data)
        /\ reply' = BakingSignature(packet.info)
        /\ UNCHANGED <<history, floor>>
    BY <1>4 DEF sign_last_baking, ReplyNow
  <2>2. packet.info \in parsed_baking_data_t
    BY <1>4 DEF sign_last_baking, Packet, BakingPacket, DelegationPacket,
       JunkPacket
  <2>3. u.key \in Key
    BY <2>1, Pieces
    DEF guard_baking_authorized, is_path_authorized, nvram_data
  <2>4. Signing' /\ reply'.info = packet.info
    BY <2>1 DEF BakingSignature, Signing
  <2>5. Auth!guard_baking_authorized(packet.info, u.key, N_data)
    BY <2>1 DEF Auth!guard_baking_authorized, guard_baking_authorized,
       Auth!is_path_authorized, is_path_authorized, Auth!is_level_authorized,
       is_level_authorized, Auth!select_hwm_by_chain, select_hwm_by_chain,
       Auth!is_valid_level, is_valid_level, Auth!AnyChain, AnyChain
  <2>6. N_data' = Auth!write_high_water_mark(packet.info, N_data)
    BY <2>1 DEF Auth!write_high_water_mark, write_high_water_mark,
       Auth!select_hwm_by_chain, select_hwm_by_chain, Auth!MaxOf, MaxOf,
       Auth!AnyChain, AnyChain
  <2>7. Auth!baking_sign_complete(u.key, packet.info)
    BY <1>0, <2>1, <2>4, <2>5, <2>6
    DEF Auth!baking_sign_complete, Auth!Idle, Auth!BakingEvent, Auth!NoReply,
        NoReply
  <2>8. packet.info \in Auth!parsed_baking_data_t
    BY <2>2 DEF Auth!parsed_baking_data_t, parsed_baking_data_t, Auth!level_t,
       level_t
  <2> QED BY <2>3, <2>7, <2>8, Zenon DEF Auth!Next
<1>5. ASSUME NEW packet \in Packet, sign_last_operation(packet), ~throw
      PROVE  UNCHANGED Auth!vars
  BY <1>0, <1>5, Silent DEF sign_last_operation, Keep, ui_prompt, Signing
<1> QED BY <1>1, <1>2, <1>3, <1>4, <1>5 DEF SignNext

LEMMA CommandMaps == IndInv /\ CommandNext => UNCHANGED Auth!vars \/ Auth!Next
<1> SUFFICES ASSUME IndInv, CommandNext PROVE UNCHANGED Auth!vars \/ Auth!Next
  OBVIOUS
<1>0. ~Signing
  BY Unsigned DEF CommandNext, handle_apdu_reset, handle_apdu_setup,
     handle_apdu_get_public_key, handle_apdu_hmac, handle_apdu_authorize_baking,
     handle_apdu_deauthorize, handle_apdu_query, handle_apdu_error,
     call_behind_handlers, Waiting, Signing
<1>1. ASSUME ~handle_apdu_deauthorize PROVE UNCHANGED Auth!vars
  <2>1. UNCHANGED <<N_data, history, floor>>
    BY <1>1 DEF CommandNext, handle_apdu_reset, handle_apdu_setup,
       handle_apdu_get_public_key, handle_apdu_hmac,
       handle_apdu_authorize_baking, handle_apdu_query, handle_apdu_error,
       call_behind_handlers, end_app, lose_ram, throw, catch, Keep
  <2>2. reply' \in {reply, NoReply, Status}
    BY <1>1 DEF CommandNext, handle_apdu_reset, handle_apdu_setup,
       handle_apdu_get_public_key, handle_apdu_hmac,
       handle_apdu_authorize_baking, handle_apdu_query, handle_apdu_error,
       call_behind_handlers, end_app, lose_ram, throw, catch, ReplyNow, ui_prompt
  <2> QED BY <1>0, <2>1, <2>2, Unsigned, Silent DEF Signing
<1>2. CASE handle_apdu_deauthorize
  <2>1. ~Signing' /\ UNCHANGED <<history, floor>>
        /\ N_data' = clear_baking_key(N_data)
    BY <1>2, Unsigned DEF handle_apdu_deauthorize, ReplyNow, Signing
  <2>2. Auth!handle_apdu_deauthorize
    BY <1>0, <2>1 DEF Auth!handle_apdu_deauthorize, Auth!Idle, Auth!NoReply,
       NoReply, Auth!clear_baking_key, clear_baking_key
  <2> QED BY <2>2 DEF Auth!Next
<1> QED BY <1>1, <1>2

LEMMA CallbackMaps ==
    IndInv /\ ~TargetNanoX /\ CallbackNext => UNCHANGED Auth!vars \/ Auth!Next
<1> SUFFICES ASSUME IndInv, ~TargetNanoX, CallbackNext
             PROVE  UNCHANGED Auth!vars \/ Auth!Next
  OBVIOUS
<1>0. reply = NoReply /\ ~Signing /\ prompt # NoPrompt
  <2>1. PICK kind \in {"reset", "setup", "authorize", "provide", "delegate"} :
           Run(kind)
    BY DEF CallbackNext, reset_ok, setup_ok, baking_ok, pubkey_ok, sign_ok,
       sign_ok_throws, sign_reject, delay_reject, Run
  <2>2. prompt.kind = kind /\ prompt # NoPrompt
    BY <2>1, UserRuns DEF Asked
  <2> QED BY <2>1, <2>2, Prompts, Unsigned DEF Signing
<1>1. CASE reset_ok
  <2>1. /\ prompt.level \in level_t /\ is_valid_level(prompt.level)
        /\ history' = << >> /\ floor' = [s \in Slot |-> prompt.level]
        /\ N_data' = reset_marks(prompt.level, N_data)
    BY <1>1, UserResets
  <2>2. ~Signing'
    BY <1>1, Unsigned DEF reset_ok, Answer, Signing
  <2>3. Auth!reset_ok(prompt.level)
    BY <1>0, <2>1, <2>2 DEF Auth!reset_ok, Auth!Idle, Auth!NoReply, NoReply,
       Auth!is_valid_level, is_valid_level, Auth!reset_marks, reset_marks,
       Auth!FreshMark, FreshMark, Auth!Slot, Slot
  <2>4. prompt.level \in Auth!level_t
    BY <2>1 DEF Auth!level_t, level_t
  <2> QED BY <2>3, <2>4, Zenon DEF Auth!Next, Auth!UserSetsMarks
<1>2. CASE setup_ok
  <2>1. /\ prompt.key \in Key /\ prompt.chain_id \in ChainId
        /\ prompt.levels \in [Slot -> level_t]
        /\ history' = << >> /\ floor' = prompt.levels
        /\ N_data' = setup_data(prompt.key, prompt.chain_id, prompt.levels)
    BY <1>2, UserSetsUp
  <2>2. ~Signing'
    BY <1>2, Unsigned DEF setup_ok, Answer, Signing
  <2>3. Auth!setup_ok(prompt.key, prompt.chain_id, prompt.levels)
    BY <1>0, <2>1, <2>2 DEF Auth!setup_ok, Auth!Idle, Auth!NoReply, NoReply,
       Auth!setup_data, setup_data, Auth!FreshMark, FreshMark, Auth!Slot, Slot
  <2>4. prompt.levels \in [Auth!Slot -> Auth!level_t]
    BY <2>1 DEF Auth!level_t, level_t, Auth!Slot, Slot
  <2> QED BY <2>1, <2>3, <2>4, Zenon DEF Auth!Next, Auth!UserSetsMarks
<1>3. CASE baking_ok
  <2>1. prompt.key \in Key /\ N_data' = authorize_baking(prompt.key, N_data)
    BY <1>3, UserAuthorizes
  <2>2. ~Signing' /\ UNCHANGED <<history, floor>>
    BY <1>3, Unsigned DEF baking_ok, Answer, Signing
  <2>3. Auth!baking_ok(prompt.key)
    BY <1>0, <2>1, <2>2 DEF Auth!baking_ok, Auth!Idle, Auth!NoReply, NoReply,
       Auth!authorize_baking, authorize_baking
  <2> QED BY <2>1, <2>3, Zenon DEF Auth!Next
<1>4. CASE sign_ok
  <2>1. /\ u.parsed \in parsed_baking_data_t
        /\ u.key # NoKey /\ u.key = N_data.baking_key
    <3>1. Run("delegate")
      BY <1>4 DEF sign_ok
    <3> QED BY <3>1, UserRuns, Pieces DEF Asked, IndInv, AskedIsReady, Session
  <2>2. u.key \in Key
    BY <2>1, Pieces DEF nvram_data
  <2>3. /\ Len(history) < MaxHistory /\ is_valid_level(u.parsed.level)
        /\ N_data' = write_high_water_mark(u.parsed, N_data)
        /\ history' = Append(history, [what |-> "delegation", info |-> u.parsed])
        /\ floor' = floor /\ ~Signing'
    BY <1>0, <1>4, Unsigned DEF sign_ok, Answer, Signing
  <2>4. N_data' = Auth!write_high_water_mark(u.parsed, N_data)
    BY <2>3 DEF Auth!write_high_water_mark, write_high_water_mark,
       Auth!select_hwm_by_chain, select_hwm_by_chain, Auth!MaxOf, MaxOf,
       Auth!AnyChain, AnyChain
  <2>5. Auth!register_delegate_ok(u.key, u.parsed)
    BY <1>0, <2>1, <2>3, <2>4
    DEF Auth!register_delegate_ok, Auth!Idle, Auth!NoReply, NoReply,
        Auth!is_valid_level, is_valid_level, Auth!DelegationEvent
  <2> QED BY <2>1, <2>2, <2>5, Zenon DEF Auth!Next
<1>5. CASE pubkey_ok \/ sign_reject \/ delay_reject
  BY <1>0, <1>5, Unsigned, Silent
  DEF pubkey_ok, sign_reject, delay_reject, Keep, Answer, Signing
<1>6. CASE sign_ok_throws
  <2>1. UNCHANGED <<N_data, history, floor>> /\ reply' = NoReply
    BY <1>0, <1>6 DEF sign_ok_throws, end_app, lose_ram
  <2> QED BY <1>0, <2>1, Unsigned, Silent DEF Signing
<1> QED BY <1>1, <1>2, <1>3, <1>4, <1>5, <1>6 DEF CallbackNext

LEMMA WorldMaps == IndInv /\ WorldNext => UNCHANGED Auth!vars \/ Auth!Next
<1> SUFFICES ASSUME IndInv, WorldNext PROVE UNCHANGED Auth!vars \/ Auth!Next
  OBVIOUS
<1>1. CASE reply_sent /\ Signing
  <2>1. /\ history' = Append(history, [what |-> "baking", info |-> reply.info])
        /\ ~Signing' /\ UNCHANGED <<N_data, floor>>
    BY <1>1, Unsigned DEF reply_sent, Signing
  <2>2. Auth!finalize_successful_send
    BY <1>1, <2>1 DEF Auth!finalize_successful_send, Auth!Idle, Auth!NoReply,
       NoReply
  <2> QED BY <2>2 DEF Auth!Next
<1>2. CASE ~reply_sent \/ ~Signing
  <2>1. ~Signing' /\ UNCHANGED <<N_data, history, floor>>
    BY <1>2, Unsigned DEF WorldNext, reply_sent, sign_throws, throw, catch,
       end_app, lose_ram, io_reset, restart, Answer, Keep, Signing
  <2> QED BY <2>1, Silent, Lost
<1> QED BY <1>1, <1>2

\* On the Nano S, however APDUs, prompts, errors and restarts interleave, every
\* step is one of BakingAuth or none to it.
THEOREM Refinement == ASSUME ~TargetNanoX PROVE Spec => AuthSpec
<1>1. Init => Auth!Init
  <2> SUFFICES ASSUME Init PROVE Auth!Init
    OBVIOUS
  <2>1. ~Signing
    BY Unsigned DEF Init, Signing
  <2> QED BY <2>1 DEF Init, Auth!Init, Auth!NoReply, NoReply, Auth!AnyChain,
     AnyChain, Auth!Slot, Slot, Auth!FreshMark, FreshMark
<1>2. IndInv /\ [Next]_vars =>
         [UNCHANGED Auth!vars \/ Auth!Next]_vars
  BY SignMaps, CommandMaps, CallbackMaps, WorldMaps DEF Next
<1> QED BY <1>1, <1>2, Inductive, PTL DEF Spec, AuthSpec

-----------------------------------------------------------------------------
(* So what BakingAuthProofs shows of BakingAuth holds of the Nano S.       *)

AuthTheorems == INSTANCE BakingAuthProofs
    WITH Leftover <- parsed_baking_data_t,
         reply <- IF Signing THEN [what |-> "baking", info |-> reply.info]
                             ELSE NoReply

\* BakingAuth's assumptions hold of the values it is given here.
LEMMA AuthAssumptions ==
    /\ AuthTheorems!KeyAssumption /\ AuthTheorems!ChainAssumption
    /\ AuthTheorems!LevelAssumption /\ AuthTheorems!LeftoverAssumption
    /\ AuthTheorems!HistoryAssumption
<1>1. AuthTheorems!KeyAssumption
  OBVIOUS
<1>2. AuthTheorems!ChainAssumption
  BY DEF AuthTheorems!AnyChain, AnyChain
<1>3. AuthTheorems!LevelAssumption
  OBVIOUS
<1>4. AuthTheorems!LeftoverAssumption
  BY DEF AuthTheorems!parsed_baking_data_t, parsed_baking_data_t,
     AuthTheorems!level_t, level_t
<1>5. AuthTheorems!HistoryAssumption
  OBVIOUS
<1> QED BY <1>1, <1>2, <1>3, <1>4, <1>5

\* The two instances of BakingAuth are one.
LEMMA SameAuth == Auth!Spec => AuthTheorems!Spec
<1>1. Auth!Init => AuthTheorems!Init
  BY Zenon
  DEF Auth!Init, AuthTheorems!Init, Auth!NoReply, AuthTheorems!NoReply,
      Auth!AnyChain, AuthTheorems!AnyChain, Auth!Slot, AuthTheorems!Slot,
      Auth!FreshMark, AuthTheorems!FreshMark
<1>2. Auth!Next => AuthTheorems!Next
  BY ZenonT(60)
  DEF Auth!Next, AuthTheorems!Next, Auth!baking_sign_complete,
      AuthTheorems!baking_sign_complete, Auth!guard_baking_authorized,
      AuthTheorems!guard_baking_authorized, Auth!is_path_authorized,
      AuthTheorems!is_path_authorized, Auth!is_level_authorized,
      AuthTheorems!is_level_authorized, Auth!select_hwm_by_chain,
      AuthTheorems!select_hwm_by_chain, Auth!is_valid_level,
      AuthTheorems!is_valid_level, Auth!AnyChain, AuthTheorems!AnyChain,
      Auth!write_high_water_mark, AuthTheorems!write_high_water_mark,
      Auth!MaxOf, AuthTheorems!MaxOf, Auth!BakingEvent,
      AuthTheorems!BakingEvent, Auth!DelegationEvent,
      AuthTheorems!DelegationEvent, Auth!finalize_successful_send,
      AuthTheorems!finalize_successful_send, Auth!signature_lost,
      AuthTheorems!signature_lost, Auth!register_delegate_ok,
      AuthTheorems!register_delegate_ok, Auth!UserSetsMarks,
      AuthTheorems!UserSetsMarks, Auth!reset_ok, AuthTheorems!reset_ok,
      Auth!reset_marks, AuthTheorems!reset_marks, Auth!FreshMark,
      AuthTheorems!FreshMark, Auth!setup_ok, AuthTheorems!setup_ok,
      Auth!setup_data, AuthTheorems!setup_data, Auth!baking_ok,
      AuthTheorems!baking_ok, Auth!authorize_baking,
      AuthTheorems!authorize_baking, Auth!handle_apdu_deauthorize,
      AuthTheorems!handle_apdu_deauthorize, Auth!clear_baking_key,
      AuthTheorems!clear_baking_key, Auth!Idle, AuthTheorems!Idle,
      Auth!NoReply, AuthTheorems!NoReply, Auth!level_t, AuthTheorems!level_t,
      Auth!Slot, AuthTheorems!Slot, Auth!parsed_baking_data_t,
      AuthTheorems!parsed_baking_data_t
<1>3. UNCHANGED Auth!vars => UNCHANGED AuthTheorems!vars
  BY DEF Auth!vars, AuthTheorems!vars
<1> QED BY <1>1, <1>2, <1>3, PTL DEF Auth!Spec, AuthTheorems!Spec

LEMMA AuthRuns == ASSUME ~TargetNanoX PROVE Spec => AuthTheorems!Spec
<1>1. UNCHANGED vars => UNCHANGED Auth!vars
  BY DEF vars, Auth!vars, Signing
<1>2. AuthSpec => Auth!Spec
  BY <1>1, PTL DEF AuthSpec, Auth!Spec
<1> QED BY <1>2, Refinement, SameAuth, PTL

\* Whatever hosts send to a Nano S and in whatever order, no block leaves it at
\* or below the level of anything released earlier for its slot.
THEOREM HostsCannotDoubleBake ==
    ASSUME ~TargetNanoX PROVE Spec => []AuthTheorems!BlockOrder
BY AuthRuns, AuthAssumptions, AuthTheorems!NoDoubleBaking, PTL

\* Nor an endorsement, but for delegations the user approved in between.
THEOREM HostsCannotDoubleEndorse ==
    ASSUME ~TargetNanoX PROVE Spec => []AuthTheorems!EndorsementOrder
BY AuthRuns, AuthAssumptions, AuthTheorems!NoDoubleEndorsing, PTL

\* And whenever the power goes, flash covers every signature that has left.
THEOREM HostsCannotOutrunTheMarks ==
    ASSUME ~TargetNanoX PROVE Spec => []AuthTheorems!MarksCoverReleases
BY AuthRuns, AuthAssumptions, AuthTheorems!MarksSurviveCrashes, PTL

=============================================================================
