----------------------------- MODULE BakingAuth -----------------------------
(***************************************************************************)
(* The persistent half of the Baking app: the record N_data and every      *)
(* handler or callback that writes it, interleaved with the signatures     *)
(* that leave the device and with power cuts.  How an APDU and a button    *)
(* press get as far as these writes is BakingApp's subject; here each      *)
(* write is one action, taken when its guard in the code lets it through.  *)
(*                                                                         *)
(* perform_signature stores the mark before it computes the signature and  *)
(* hands it to the transport, so signing takes two actions with room for a *)
(* power cut (or a failing crypto call) between them.                      *)
(***************************************************************************)
EXTENDS HighWaterMark, Sequences

CONSTANTS
    Leftover,     \* what parsed_baking_data may hold when a delegation is
                  \* signed: zeros after clear_data, more after a session
                  \* that another instruction overwrote
    MaxHistory    \* bound on the length of the history below

ASSUME LeftoverAssumption == Leftover \subseteq parsed_baking_data_t
ASSUME HistoryAssumption == MaxHistory \in Nat

VARIABLES
    N_data,       \* the record in flash
    reply,        \* a baking signature on its way to the host, or NoReply
    history,      \* auxiliary: released signatures and approved delegations
                  \* since the user last set the marks
    floor         \* auxiliary: the level the user last set for each slot

vars == <<N_data, reply, history, floor>>

NoReply == [what |-> "none"]
Event == [what : {"baking", "delegation"}, info : parsed_baking_data_t]
BakingEvent(info) == [what |-> "baking", info |-> info]
DelegationEvent(info) == [what |-> "delegation", info |-> info]

slot_of(event) == select_hwm_by_chain(event.info.chain_id, N_data)

-----------------------------------------------------------------------------

Init ==
    /\ N_data = [main_chain_id |-> AnyChain,
                 hwm           |-> [s \in Slot |-> FreshMark(0)],
                 baking_key    |-> NoKey]
    /\ reply = NoReply
    /\ history = << >>
    /\ floor = [s \in Slot |-> 0]

Idle == reply = NoReply

\* baking_sign_complete for a block or an endorsement, then perform_signature
\* as far as the NVRAM write.
baking_sign_complete(key, info) ==
    /\ Idle
    /\ Len(history) < MaxHistory
    /\ guard_baking_authorized(info, key, N_data)
    /\ N_data' = write_high_water_mark(info, N_data)
    /\ reply' = BakingEvent(info)
    /\ UNCHANGED <<history, floor>>

send_wrongly_repeated ==
    /\ Len(history) < MaxHistory
    /\ history' = Append(history, reply)
    /\ reply' = NoReply
    /\ UNCHANGED <<N_data, floor>>

\* The rest of perform_signature: the signature is handed to the host.
finalize_successful_send ==
    /\ ~Idle
    /\ history' = Append(history, reply)
    /\ reply' = NoReply
    /\ UNCHANGED <<N_data, floor>>

\* Power cut, IO reset or a throw from the crypto library after the write:
\* the signature is lost, the record in flash is not.
signature_lost ==
    /\ ~Idle
    /\ reply' = NoReply
    /\ UNCHANGED <<N_data, history, floor>>

\* sign_*_hash_ok for a self-delegation the user accepted: perform_signature
\* writes the mark for whatever parsed_baking_data holds.  A level that is
\* not valid throws before anything is written.
register_delegate_ok(key, info) ==
    /\ Idle
    /\ Len(history) < MaxHistory
    /\ key # NoKey /\ key = N_data.baking_key
    /\ is_valid_level(info.level)
    /\ N_data' = write_high_water_mark(info, N_data)
    /\ history' = Append(history, DelegationEvent(info))
    /\ UNCHANGED <<reply, floor>>

reset_ok(lvl) ==
    /\ Idle
    /\ is_valid_level(lvl)
    /\ N_data' = reset_marks(lvl, N_data)
    /\ floor' = [s \in Slot |-> lvl]
    /\ history' = << >>
    /\ UNCHANGED reply

setup_ok(key, chain_id, levels) ==
    /\ Idle
    /\ N_data' = setup_data(key, chain_id, levels)
    /\ floor' = levels
    /\ history' = << >>
    /\ UNCHANGED reply

baking_ok(key) ==
    /\ Idle
    /\ N_data' = authorize_baking(key, N_data)
    /\ UNCHANGED <<reply, history, floor>>

handle_apdu_deauthorize ==
    /\ Idle
    /\ N_data' = clear_baking_key(N_data)
    /\ UNCHANGED <<reply, history, floor>>

UserSetsMarks ==
    \/ \E lvl \in level_t : reset_ok(lvl)
    \/ \E key \in Key, chain_id \in ChainId, levels \in [Slot -> level_t] :
          setup_ok(key, chain_id, levels)

Next ==
    \/ \E key \in Key, info \in parsed_baking_data_t :
          baking_sign_complete(key, info)
    \/ finalize_successful_send
    \/ signature_lost
    \/ \E key \in Key, info \in Leftover : register_delegate_ok(key, info)
    \/ UserSetsMarks
    \/ \E key \in Key : baking_ok(key)
    \/ handle_apdu_deauthorize

Spec == Init /\ [][Next]_vars

-----------------------------------------------------------------------------
(* Properties.                                                             *)

\* Every variable keeps its type; the history is a sequence of events.
TypeOK ==
    /\ N_data \in nvram_data
    /\ reply \in {NoReply} \cup {BakingEvent(i) : i \in parsed_baking_data_t}
    /\ history \in Seq(Event)
    /\ floor \in [Slot -> level_t]

Signed(i) == history[i].what = "baking"
SameSlot(i, event) == slot_of(history[i]) = slot_of(event)

\* A delegation that rewrote the mark of event's slot, after position i.
DelegationSince(i, event) ==
    \E k \in DOMAIN history :
        k > i /\ history[k].what = "delegation" /\ SameSlot(k, event)

\* No block is ever released at or below the level of anything released
\* earlier for the same slot, a block or an endorsement: no double baking.
BlockOrder ==
    \A i, j \in DOMAIN history :
        /\ i < j /\ Signed(i) /\ Signed(j) /\ SameSlot(i, history[j])
        /\ ~history[j].info.is_endorsement
        => history[i].info.level < history[j].info.level

\* Endorsements never go down, and two at one level are released only when a
\* delegation signed between them cleared had_endorsement of their slot.
EndorsementOrder ==
    \A i, j \in DOMAIN history :
        /\ i < j /\ Signed(i) /\ Signed(j) /\ SameSlot(i, history[j])
        /\ history[j].info.is_endorsement
        => \/ history[i].info.level < history[j].info.level
           \/ /\ history[i].info.level = history[j].info.level
              /\ history[i].info.is_endorsement =>
                    \E k \in i + 1 .. j - 1 :
                        /\ history[k].what = "delegation"
                        /\ SameSlot(k, history[j])

\* The mark in flash covers every signature a host may hold, and the level
\* the user chose, at every instant: whenever the power goes, what was
\* released stays recorded.
MarksCoverReleases ==
    /\ \A s \in Slot : floor[s] <= N_data.hwm[s].highest_level
    /\ \A i \in DOMAIN history :
          Signed(i) =>
             history[i].info.level <= N_data.hwm[slot_of(history[i])].highest_level

\* Nothing is released below the level the user chose for the slot, and no
\* block at it.
ReleasesAboveFloor ==
    \A i \in DOMAIN history :
        Signed(i) =>
           /\ history[i].info.level >= floor[slot_of(history[i])]
           /\ \/ history[i].info.is_endorsement
              \/ history[i].info.level > floor[slot_of(history[i])]

\* A mark that says an endorsement is still allowed at its level is right:
\* none was released there, or a delegation has since rewritten the mark.
MarksRecordEndorsements ==
    \A i \in DOMAIN history :
        LET mark == N_data.hwm[slot_of(history[i])]
        IN  /\ Signed(i)
            /\ history[i].info.is_endorsement
            /\ history[i].info.level = mark.highest_level
            => mark.had_endorsement \/ DelegationSince(i, history[i])

\* A signature in flight is the one its mark in flash describes, and it may
\* follow everything released before it: whether it arrives or is lost with
\* the power makes no difference to what the device will sign next.
ReplyMatchesMark ==
    ~Idle =>
        /\ N_data.hwm[slot_of(reply)] =
              [highest_level   |-> reply.info.level,
               had_endorsement |-> reply.info.is_endorsement]
        /\ reply.info.level >= floor[slot_of(reply)]
        /\ reply.info.is_endorsement \/ reply.info.level > floor[slot_of(reply)]
        /\ \A i \in DOMAIN history :
              Signed(i) /\ SameSlot(i, reply) =>
                 \/ history[i].info.level < reply.info.level
                 \/ /\ reply.info.is_endorsement
                    /\ history[i].info.level = reply.info.level
                    /\ history[i].info.is_endorsement =>
                          DelegationSince(i, reply)

\* "only one block and one endorsement is allowed at each level"
\* (Release-1.3.md:152-153), the endorsement half, for every slot.
OneEndorsementPerLevel ==
    \A i, j \in DOMAIN history :
        /\ i < j /\ Signed(i) /\ Signed(j) /\ SameSlot(i, history[j])
        /\ history[i].info.is_endorsement /\ history[j].info.is_endorsement
        => history[i].info.level # history[j].info.level

\* A mark goes down only in the callbacks of a reset and of a set-up; signing,
\* delegating, (de)authorising and losing a reply never lower it.  (Whether
\* the user accepted is for BakingApp to say.)
MarksLoweredOnlyByUser ==
    [][(\E s \in Slot :
           N_data'.hwm[s].highest_level < N_data.hwm[s].highest_level)
       => UserSetsMarks]_vars

\* The device does what a signer with a complete memory would do.
Guard == INSTANCE DoubleBakeGuard
    WITH Level <- level_t, record <- history,
         floor <- [c \in ChainId |-> floor[select_hwm_by_chain(c, N_data)]]

GuardSpec == Guard!Spec

=============================================================================
