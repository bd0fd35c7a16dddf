-------------------------- MODULE BakingAuthProofs --------------------------
(***************************************************************************)
(* Theorems about BakingAuth, for every set of keys, chains and leftovers  *)
(* and every choice of MaxLevel, LevelLimit and MaxHistory.                *)
(*                                                                         *)
(* BlockOrder and EndorsementOrder are not inductive: they say nothing of  *)
(* the two words in flash that the next decision reads.  IndInv adds what  *)
(* those words must know about the past (MarksCoverReleases and            *)
(* MarksRecordEndorsements) and what the signature in flight must satisfy  *)
(* before it is appended (ReplyMatchesMark).                               *)
(***************************************************************************)
EXTENDS BakingAuth, TLAPS

USE KeyAssumption, ChainAssumption, LevelAssumption, LeftoverAssumption,
    HistoryAssumption

-----------------------------------------------------------------------------
(* The operators on N_data.                                                *)

LEMMA SlotType ==
    ASSUME NEW ram, NEW c
    PROVE  select_hwm_by_chain(c, ram) \in Slot
BY DEF select_hwm_by_chain, Slot

\* write_high_water_mark: the selected mark becomes the larger level with the
\* flag of the data, and nothing else in the record changes.
LEMMA WriteMark ==
    ASSUME NEW ram \in nvram_data, NEW info \in parsed_baking_data_t,
           NEW s \in Slot, s = select_hwm_by_chain(info.chain_id, ram),
           NEW new, new = write_high_water_mark(info, ram)
    PROVE  /\ new \in nvram_data
           /\ new.main_chain_id = ram.main_chain_id
           /\ new.baking_key = ram.baking_key
           /\ new.hwm[s].highest_level
                 = MaxOf(info.level, ram.hwm[s].highest_level)
           /\ new.hwm[s].had_endorsement = info.is_endorsement
           /\ \A t \in Slot : t # s => new.hwm[t] = ram.hwm[t]
<1> DEFINE mark == [highest_level   |-> MaxOf(info.level, ram.hwm[s].highest_level),
                    had_endorsement |-> info.is_endorsement]
<1>1. mark \in high_watermark_t
  BY DEF mark, high_watermark_t, nvram_data, parsed_baking_data_t, level_t, MaxOf
<1>2. new = [ram EXCEPT !.hwm = [ram.hwm EXCEPT ![s] = mark]]
  BY DEF write_high_water_mark
<1> HIDE DEF mark
<1>3. [ram.hwm EXCEPT ![s] = mark] \in [Slot -> high_watermark_t]
  BY <1>1 DEF nvram_data
<1>4. new.hwm = [ram.hwm EXCEPT ![s] = mark]
  BY <1>2 DEF nvram_data
<1>5. /\ new \in nvram_data
      /\ new.main_chain_id = ram.main_chain_id
      /\ new.baking_key = ram.baking_key
  BY <1>2, <1>3 DEF nvram_data
<1>6. new.hwm[s] = mark /\ \A t \in Slot : t # s => new.hwm[t] = ram.hwm[t]
  BY <1>4 DEF nvram_data
<1> QED BY <1>5, <1>6 DEF mark

\* is_level_authorized, read on the mark of the slot it selects.
LEMMA LevelGuard ==
    ASSUME NEW ram \in nvram_data, NEW info \in parsed_baking_data_t,
           NEW s, s = select_hwm_by_chain(info.chain_id, ram),
           is_level_authorized(info, ram)
    PROVE  /\ info.level >= ram.hwm[s].highest_level
           /\ info.level = ram.hwm[s].highest_level
                 => info.is_endorsement /\ ~ram.hwm[s].had_endorsement
<1>1. s \in Slot
  BY SlotType
<1>2. info.level \in Int /\ ram.hwm[s].highest_level \in Int
  BY <1>1 DEF nvram_data, high_watermark_t, parsed_baking_data_t, level_t
<1> QED BY <1>2 DEF is_level_authorized

-----------------------------------------------------------------------------
(* Type correctness.                                                       *)

\* Every reachable state is well typed: in particular the record in flash is
\* always a complete nvram_data value.
THEOREM Typing == Spec => []TypeOK
<1>1. Init => TypeOK
  BY DEF Init, TypeOK, nvram_data, high_watermark_t, FreshMark, Slot, level_t,
         parsed_baking_data_t, BakingEvent
<1>2. TypeOK /\ [Next]_vars => TypeOK'
  <2> SUFFICES ASSUME TypeOK, [Next]_vars PROVE TypeOK'
    OBVIOUS
  <2> USE DEF TypeOK
  <2>1. ASSUME NEW key \in Key, NEW info \in parsed_baking_data_t,
               baking_sign_complete(key, info)
        PROVE  TypeOK'
    BY <2>1, WriteMark, SlotType DEF baking_sign_complete
  <2>2. CASE finalize_successful_send
    <3>1. reply \in Event
      BY <2>2 DEF finalize_successful_send, Idle, BakingEvent, Event
    <3> QED BY <2>2, <3>1 DEF finalize_successful_send
  <2>3. CASE signature_lost
    BY <2>3 DEF signature_lost
  <2>4. ASSUME NEW key \in Key, NEW info \in Leftover,
               register_delegate_ok(key, info)
        PROVE  TypeOK'
    <3>1. info \in parsed_baking_data_t /\ DelegationEvent(info) \in Event
      BY DEF DelegationEvent, Event
    <3> QED BY <2>4, <3>1, WriteMark, SlotType DEF register_delegate_ok
  <2>5. CASE UserSetsMarks
    <3>1. ASSUME NEW lvl \in level_t, reset_ok(lvl) PROVE TypeOK'
      <4>1. FreshMark(lvl) \in high_watermark_t
        BY DEF FreshMark, high_watermark_t
      <4>2. N_data' = reset_marks(lvl, N_data) /\ N_data' \in nvram_data
        BY <3>1, <4>1 DEF reset_ok, reset_marks, nvram_data
      <4> QED BY <3>1, <4>2 DEF reset_ok
    <3>2. ASSUME NEW key \in Key, NEW chain_id \in ChainId,
                 NEW levels \in [Slot -> level_t],
                 setup_ok(key, chain_id, levels)
          PROVE  TypeOK'
      BY <3>2 DEF setup_ok, setup_data, nvram_data, high_watermark_t, FreshMark
    <3> QED BY <2>5, <3>1, <3>2 DEF UserSetsMarks
  <2>6. ASSUME NEW key \in Key, baking_ok(key) PROVE TypeOK'
    BY <2>6 DEF baking_ok, authorize_baking, nvram_data
  <2>7. CASE handle_apdu_deauthorize
    BY <2>7 DEF handle_apdu_deauthorize, clear_baking_key, nvram_data
  <2>8. CASE UNCHANGED vars
    BY <2>8 DEF vars
  <2> QED BY <2>1, <2>2, <2>3, <2>4, <2>5, <2>6, <2>7, <2>8 DEF Next
<1> QED BY <1>1, <1>2, PTL DEF Spec

-----------------------------------------------------------------------------
(* The order of releases.                                                  *)

Ordered ==
    /\ BlockOrder
    /\ EndorsementOrder
    /\ ReleasesAboveFloor

Recorded == MarksCoverReleases /\ MarksRecordEndorsements

IndInv == TypeOK /\ Ordered /\ Recorded /\ ReplyMatchesMark

\* What the type invariant says of the pieces the proofs compare.
LEMMA Pieces ==
    ASSUME TypeOK
    PROVE  /\ \A s \in Slot : /\ N_data.hwm[s].highest_level \in Int
                              /\ N_data.hwm[s].had_endorsement \in BOOLEAN
                              /\ floor[s] \in Int
           /\ \A i \in DOMAIN history : /\ history[i] \in Event
                                        /\ history[i].info \in parsed_baking_data_t
                                        /\ history[i].info.level \in Int
                                        /\ slot_of(history[i]) \in Slot
           /\ DOMAIN history = 1 .. Len(history)
           /\ Len(history) \in Nat
           /\ ~Idle => /\ reply.what = "baking"
                       /\ reply \in Event
                       /\ reply.info \in parsed_baking_data_t
                       /\ reply.info.level \in Int
                       /\ slot_of(reply) \in Slot
<1>1. \A s \in Slot : /\ N_data.hwm[s].highest_level \in Int
                      /\ N_data.hwm[s].had_endorsement \in BOOLEAN
                      /\ floor[s] \in Int
  BY DEF TypeOK, nvram_data, high_watermark_t, level_t
<1>2. \A i \in DOMAIN history : history[i] \in Event
  BY DEF TypeOK
<1>3. \A e \in Event : /\ e.info \in parsed_baking_data_t
                       /\ e.info.level \in Int
                       /\ slot_of(e) \in Slot
  BY SlotType DEF Event, parsed_baking_data_t, level_t, slot_of
<1>4. ~Idle => reply.what = "baking" /\ reply \in Event
  BY DEF TypeOK, Idle, BakingEvent, Event
<1>5. DOMAIN history = 1 .. Len(history) /\ Len(history) \in Nat
  BY DEF TypeOK
<1> QED BY <1>1, <1>2, <1>3, <1>4, <1>5

\* Nothing that was ordered is disturbed by a step that leaves the history,
\* the floor and the main chain alone.
LEMMA OrderFrame ==
    ASSUME Ordered, history' = history, floor' = floor,
           N_data'.main_chain_id = N_data.main_chain_id
    PROVE  Ordered'
BY DEF Ordered, BlockOrder, EndorsementOrder, ReleasesAboveFloor, Signed,
       SameSlot, slot_of, select_hwm_by_chain

\* ... nor is what the marks record, if the marks are left alone as well.
LEMMA RecordFrame ==
    ASSUME Recorded, history' = history, floor' = floor,
           N_data'.main_chain_id = N_data.main_chain_id,
           N_data'.hwm = N_data.hwm
    PROVE  Recorded'
BY DEF Recorded, MarksCoverReleases, MarksRecordEndorsements, Signed,
       DelegationSince, SameSlot, slot_of, select_hwm_by_chain

\* Storing the mark of a block or an endorsement the guard let through: the
\* marks still record the past, and the signature may follow it.
LEMMA SignPreserves ==
    ASSUME IndInv, NEW key \in Key, NEW info \in parsed_baking_data_t,
           baking_sign_complete(key, info)
    PROVE  Ordered' /\ Recorded' /\ ReplyMatchesMark'
<1> DEFINE s == select_hwm_by_chain(info.chain_id, N_data)
           m == N_data.hwm[s]
<1> USE DEF IndInv
<1>1. /\ history' = history /\ floor' = floor
      /\ N_data' = write_high_water_mark(info, N_data)
      /\ reply' = BakingEvent(info)
      /\ is_level_authorized(info, N_data)
  BY DEF baking_sign_complete, guard_baking_authorized
<1>2. s \in Slot /\ N_data \in nvram_data /\ info.level \in Int
  BY SlotType DEF TypeOK, parsed_baking_data_t, level_t
<1>3. /\ N_data'.main_chain_id = N_data.main_chain_id
      /\ N_data'.hwm[s].highest_level = MaxOf(info.level, m.highest_level)
      /\ N_data'.hwm[s].had_endorsement = info.is_endorsement
      /\ \A t \in Slot : t # s => N_data'.hwm[t] = N_data.hwm[t]
      /\ N_data' \in nvram_data
  BY <1>1, <1>2, WriteMark
<1>4. /\ info.level >= m.highest_level
      /\ info.level = m.highest_level => info.is_endorsement /\ ~m.had_endorsement
  BY <1>1, <1>2, LevelGuard
<1>5. m.highest_level \in Int
  BY <1>2 DEF nvram_data, high_watermark_t, level_t
<1>6. N_data'.hwm[s].highest_level = info.level
  BY <1>2, <1>3, <1>4, <1>5 DEF MaxOf
<1>7. \A e : slot_of(e)' = slot_of(e)
  BY <1>3 DEF slot_of, select_hwm_by_chain
<1>8. \A i \in DOMAIN history :
         /\ history[i].info.level \in Int /\ slot_of(history[i]) \in Slot
         /\ Signed(i) => history[i].info.level
                            <= N_data.hwm[slot_of(history[i])].highest_level
  BY Pieces DEF Recorded, MarksCoverReleases
<1>9. Ordered'
  BY <1>1, <1>3, OrderFrame
<1> HIDE DEF s, IndInv
<1>10. MarksCoverReleases'
  <2>1. \A t \in Slot : /\ N_data'.hwm[t].highest_level \in Int
                        /\ N_data.hwm[t].highest_level \in Int
                        /\ floor[t] \in Int
                        /\ N_data'.hwm[t].highest_level >= N_data.hwm[t].highest_level
    BY <1>2, <1>3, <1>4, <1>5, <1>6, Pieces DEF s, IndInv
  <2>2. \A t \in Slot : floor[t] <= N_data.hwm[t].highest_level
    BY DEF IndInv, Recorded, MarksCoverReleases
  <2> QED BY <1>1, <1>7, <1>8, <2>1, <2>2 DEF MarksCoverReleases, Signed
<1>11. MarksRecordEndorsements'
  <2> SUFFICES ASSUME NEW i \in DOMAIN history, Signed(i),
                      history[i].info.is_endorsement,
                      history[i].info.level
                         = N_data'.hwm[slot_of(history[i])].highest_level
               PROVE  \/ N_data'.hwm[slot_of(history[i])].had_endorsement
                      \/ DelegationSince(i, history[i])
    BY <1>1, <1>7 DEF MarksRecordEndorsements, Signed, DelegationSince, SameSlot
  <2>1. CASE slot_of(history[i]) = s
    \* The level is the mark's old one too, so this is the tie the guard let
    \* through: an endorsement, which sets the flag.
    <3>1. info.level = m.highest_level
      BY <1>4, <1>5, <1>6, <1>8, <1>2, <2>1
    <3> QED BY <1>3, <1>4, <2>1, <3>1
  <2>2. CASE slot_of(history[i]) # s
    BY <1>3, <1>8, <2>2 DEF IndInv, Recorded, MarksRecordEndorsements
  <2> QED BY <2>1, <2>2
<1>12. ReplyMatchesMark'
  <2>1. reply'.info = info /\ slot_of(reply)' = s
    BY <1>1, <1>3 DEF BakingEvent, slot_of, s, select_hwm_by_chain
  <2>2. N_data'.hwm[s] = [highest_level   |-> info.level,
                          had_endorsement |-> info.is_endorsement]
    BY <1>2, <1>3, <1>6 DEF nvram_data, high_watermark_t
  <2>3. floor[s] <= m.highest_level /\ floor[s] \in Int
    BY <1>2, Pieces DEF IndInv, Recorded, MarksCoverReleases
  <2>4. /\ info.level >= floor[s]
        /\ info.is_endorsement \/ info.level > floor[s]
    BY <1>2, <1>4, <1>5, <2>3
  <2>5. ASSUME NEW i \in DOMAIN history, Signed(i), slot_of(history[i]) = s
        PROVE  \/ history[i].info.level < info.level
               \/ /\ info.is_endorsement
                  /\ history[i].info.level = info.level
                  /\ history[i].info.is_endorsement =>
                        DelegationSince(i, history[i])
    <3>1. CASE history[i].info.level < m.highest_level
      BY <1>2, <1>4, <1>5, <1>8, <2>5, <3>1
    <3>2. CASE history[i].info.level = m.highest_level
      <4>1. history[i].info.is_endorsement =>
               m.had_endorsement \/ DelegationSince(i, history[i])
        BY <2>5, <3>2 DEF IndInv, Recorded, MarksRecordEndorsements
      <4> QED BY <1>2, <1>4, <1>5, <1>8, <2>5, <3>2, <4>1
    <3> QED BY <1>5, <1>8, <2>5, <3>1, <3>2
  <2>6. \A i \in DOMAIN history :
           slot_of(history[i]) = s =>
              (DelegationSince(i, history[i]) => DelegationSince(i, reply)')
    BY <1>1, <1>7, <2>1 DEF DelegationSince, SameSlot
  <2> QED BY <1>1, <1>7, <2>1, <2>2, <2>4, <2>5, <2>6
          DEF ReplyMatchesMark, Signed, SameSlot
<1> QED BY <1>9, <1>10, <1>11 , <1>12 DEF Recorded

\* Releasing the signature in flight: ReplyMatchesMark is exactly what the
\* history needs in order to stay ordered and recorded.
LEMMA ReleasePreserves ==
    ASSUME IndInv, finalize_successful_send
    PROVE  Ordered' /\ Recorded' /\ ReplyMatchesMark'
<1> DEFINE n == Len(history) + 1
<1>1. /\ ~Idle /\ history' = Append(history, reply) /\ reply' = NoReply
      /\ N_data' = N_data /\ floor' = floor
  BY DEF finalize_successful_send
<1>2. /\ DOMAIN history = 1 .. Len(history) /\ Len(history) \in Nat
      /\ DOMAIN history' = 1 .. n
      /\ \A i \in DOMAIN history : history'[i] = history[i]
      /\ history'[n] = reply
  BY <1>1, Pieces DEF IndInv, TypeOK
<1>3. \A e : slot_of(e)' = slot_of(e)
  BY <1>1 DEF slot_of
<1>4. /\ reply.info.level \in Int /\ slot_of(reply) \in Slot
      /\ \A i \in DOMAIN history : history[i].info.level \in Int
      /\ reply.info.level
            = N_data.hwm[slot_of(reply)].highest_level
      /\ reply.info.is_endorsement
            = N_data.hwm[slot_of(reply)].had_endorsement
  BY <1>1, Pieces DEF IndInv, ReplyMatchesMark
<1>5. \A i \in DOMAIN history :
         Signed(i) /\ SameSlot(i, reply) =>
            \/ history[i].info.level < reply.info.level
            \/ /\ reply.info.is_endorsement
               /\ history[i].info.level = reply.info.level
               /\ history[i].info.is_endorsement => DelegationSince(i, reply)
  BY <1>1 DEF IndInv, ReplyMatchesMark
<1> HIDE DEF n
<1>6. n = Len(history) + 1 /\ n \in Nat
  BY <1>2 DEF n
<1>7. ReplyMatchesMark'
  BY <1>1 DEF ReplyMatchesMark, Idle
<1>8. BlockOrder'
  <2> SUFFICES ASSUME NEW i \in DOMAIN history', NEW j \in DOMAIN history',
                      i < j, Signed(i)', Signed(j)',
                      slot_of(history'[i]) = slot_of(history'[j]),
                      ~history'[j].info.is_endorsement
               PROVE  history'[i].info.level < history'[j].info.level
    BY <1>3 DEF BlockOrder, SameSlot
  <2>1. i \in DOMAIN history
    BY <1>2, <1>6
  <2>2. CASE j = n
    BY <1>2, <1>5, <2>1, <2>2 DEF Signed, SameSlot
  <2>3. CASE j # n
    <3>1. j \in DOMAIN history
      BY <1>2, <1>6, <2>3
    <3> QED BY <1>2, <2>1, <3>1 DEF IndInv, Ordered, BlockOrder, Signed, SameSlot
  <2> QED BY <2>2, <2>3
<1>9. EndorsementOrder'
  <2> SUFFICES ASSUME NEW i \in DOMAIN history', NEW j \in DOMAIN history',
                      i < j, Signed(i)', Signed(j)',
                      slot_of(history'[i]) = slot_of(history'[j]),
                      history'[j].info.is_endorsement
               PROVE  \/ history'[i].info.level < history'[j].info.level
                      \/ /\ history'[i].info.level = history'[j].info.level
                         /\ history'[i].info.is_endorsement =>
                               \E k \in i + 1 .. j - 1 :
                                  /\ history'[k].what = "delegation"
                                  /\ slot_of(history'[k]) = slot_of(history'[j])
    BY <1>3 DEF EndorsementOrder, SameSlot
  <2>1. i \in DOMAIN history
    BY <1>2, <1>6
  <2>2. CASE j = n
    <3>1. DelegationSince(i, reply) =>
             \E k \in i + 1 .. j - 1 :
                /\ history'[k].what = "delegation"
                /\ slot_of(history'[k]) = slot_of(history'[j])
      BY <1>2, <1>6, <2>1, <2>2 DEF DelegationSince, SameSlot
    <3> QED BY <1>2, <1>5, <2>1, <2>2, <3>1 DEF Signed, SameSlot
  <2>3. CASE j # n
    <3>1. j \in DOMAIN history
      BY <1>2, <1>6, <2>3
    <3>2. \A k \in i + 1 .. j - 1 : k \in DOMAIN history
      BY <1>2, <2>1, <3>1
    <3> QED BY <1>2, <2>1, <3>1, <3>2
            DEF IndInv, Ordered, EndorsementOrder, Signed, SameSlot
  <2> QED BY <2>2, <2>3
<1>10. ReleasesAboveFloor'
  <2> SUFFICES ASSUME NEW i \in DOMAIN history', Signed(i)'
               PROVE  /\ history'[i].info.level >= floor[slot_of(history'[i])]
                      /\ \/ history'[i].info.is_endorsement
                         \/ history'[i].info.level > floor[slot_of(history'[i])]
    BY <1>1, <1>3 DEF ReleasesAboveFloor
  <2>1. CASE i = n
    BY <1>1, <1>2, <2>1 DEF IndInv, ReplyMatchesMark
  <2>2. CASE i # n
    BY <1>2, <1>6, <2>2 DEF IndInv, Ordered, ReleasesAboveFloor, Signed
  <2> QED BY <2>1, <2>2
<1>11. MarksCoverReleases'
  <2> SUFFICES ASSUME NEW i \in DOMAIN history', Signed(i)'
               PROVE  history'[i].info.level
                         <= N_data.hwm[slot_of(history'[i])].highest_level
    BY <1>1, <1>3 DEF MarksCoverReleases, IndInv, Recorded
  <2>1. CASE i = n
    BY <1>2, <1>4, <2>1
  <2>2. CASE i # n
    BY <1>2, <1>6, <2>2 DEF IndInv, Recorded, MarksCoverReleases, Signed
  <2> QED BY <2>1, <2>2
<1>12. MarksRecordEndorsements'
  <2> SUFFICES ASSUME NEW i \in DOMAIN history', Signed(i)',
                      history'[i].info.is_endorsement,
                      history'[i].info.level
                         = N_data.hwm[slot_of(history'[i])].highest_level
               PROVE  \/ N_data.hwm[slot_of(history'[i])].had_endorsement
                      \/ \E k \in DOMAIN history' :
                            /\ k > i /\ history'[k].what = "delegation"
                            /\ slot_of(history'[k]) = slot_of(history'[i])
    BY <1>1, <1>3 DEF MarksRecordEndorsements, DelegationSince, SameSlot
  <2>1. CASE i = n
    BY <1>2, <1>4, <2>1
  <2>2. CASE i # n
    BY <1>2, <1>6, <2>2
       DEF IndInv, Recorded, MarksRecordEndorsements, Signed, DelegationSince,
           SameSlot
  <2> QED BY <2>1, <2>2
<1> QED BY <1>7, <1>8, <1>9, <1>10, <1>11, <1>12 DEF Ordered, Recorded

\* Approving a delegation: the mark it rewrites never goes down, and the
\* approval now stands in the history for whatever the mark forgets.
LEMMA DelegatePreserves ==
    ASSUME IndInv, NEW key \in Key, NEW info \in Leftover,
           register_delegate_ok(key, info)
    PROVE  Ordered' /\ Recorded' /\ ReplyMatchesMark'
<1> DEFINE s == select_hwm_by_chain(info.chain_id, N_data)
           m == N_data.hwm[s]
           n == Len(history) + 1
           approval == DelegationEvent(info)
<1>1. /\ Idle /\ reply' = reply /\ floor' = floor
      /\ N_data' = write_high_water_mark(info, N_data)
      /\ history' = Append(history, approval)
  BY DEF register_delegate_ok
<1>2. /\ s \in Slot /\ N_data \in nvram_data
      /\ info \in parsed_baking_data_t /\ info.level \in Int
      /\ m.highest_level \in Int
  BY SlotType
     DEF IndInv, TypeOK, parsed_baking_data_t, nvram_data, high_watermark_t, level_t
<1>3. /\ N_data'.main_chain_id = N_data.main_chain_id
      /\ N_data'.hwm[s].highest_level = MaxOf(info.level, m.highest_level)
      /\ \A t \in Slot : t # s => N_data'.hwm[t] = N_data.hwm[t]
  BY <1>1, <1>2, WriteMark
<1>4. /\ N_data'.hwm[s].highest_level \in Int
      /\ N_data'.hwm[s].highest_level >= m.highest_level
  BY <1>2, <1>3 DEF MaxOf
<1>5. \A e : slot_of(e)' = slot_of(e)
  BY <1>3 DEF slot_of, select_hwm_by_chain
<1>6. /\ DOMAIN history = 1 .. Len(history) /\ Len(history) \in Nat
      /\ DOMAIN history' = 1 .. n
      /\ \A i \in DOMAIN history : history'[i] = history[i]
      /\ history'[n] = approval
  BY <1>1, Pieces DEF IndInv, TypeOK
<1>7. approval.what = "delegation" /\ approval.info = info /\ slot_of(approval) = s
  BY DEF DelegationEvent, slot_of
<1>8. \A t \in Slot : N_data.hwm[t].highest_level \in Int /\ floor[t] \in Int
  BY Pieces DEF IndInv
<1>9. \A i \in DOMAIN history :
         history[i].info.level \in Int /\ slot_of(history[i]) \in Slot
  BY Pieces DEF IndInv
<1> HIDE DEF n, s, m, approval
<1>10. n = Len(history) + 1 /\ n \in Nat
  BY <1>6 DEF n
<1>11. ReplyMatchesMark'
  BY <1>1 DEF ReplyMatchesMark, Idle
<1>12. \A i \in DOMAIN history' : Signed(i)' => i \in DOMAIN history /\ Signed(i)
  BY <1>6, <1>7, <1>10 DEF Signed
<1>13. BlockOrder'
  BY <1>5, <1>6, <1>12 DEF IndInv, Ordered, BlockOrder, SameSlot
<1>14. EndorsementOrder'
  <2> SUFFICES ASSUME NEW i \in DOMAIN history, NEW j \in DOMAIN history,
                      i < j, Signed(i), Signed(j),
                      SameSlot(i, history[j]), history[j].info.is_endorsement
               PROVE  \/ history[i].info.level < history[j].info.level
                      \/ /\ history[i].info.level = history[j].info.level
                         /\ history[i].info.is_endorsement =>
                               \E k \in i + 1 .. j - 1 :
                                  /\ history'[k].what = "delegation"
                                  /\ slot_of(history'[k]) = slot_of(history[j])
    BY <1>5, <1>6, <1>12 DEF EndorsementOrder, SameSlot
  <2>1. \A k \in i + 1 .. j - 1 : k \in DOMAIN history
    BY <1>6
  <2>2. \/ history[i].info.level < history[j].info.level
        \/ /\ history[i].info.level = history[j].info.level
           /\ history[i].info.is_endorsement =>
                 \E k \in i + 1 .. j - 1 :
                    /\ history[k].what = "delegation"
                    /\ SameSlot(k, history[j])
    BY DEF IndInv, Ordered, EndorsementOrder
  <2> QED BY <1>6, <2>1, <2>2 DEF SameSlot
<1>15. ReleasesAboveFloor'
  BY <1>1, <1>5, <1>6, <1>12 DEF IndInv, Ordered, ReleasesAboveFloor
<1>16. MarksCoverReleases'
  <2>1. \A t \in Slot : /\ N_data'.hwm[t].highest_level \in Int
                        /\ N_data'.hwm[t].highest_level >= N_data.hwm[t].highest_level
    BY <1>3, <1>4, <1>8 DEF m
  <2> QED BY <1>1, <1>5, <1>6, <1>8, <1>9, <1>12, <2>1
          DEF IndInv, Recorded, MarksCoverReleases
<1>17. MarksRecordEndorsements'
  <2> SUFFICES ASSUME NEW i \in DOMAIN history, Signed(i),
                      history[i].info.is_endorsement,
                      history[i].info.level
                         = N_data'.hwm[slot_of(history[i])].highest_level
               PROVE  \/ N_data'.hwm[slot_of(history[i])].had_endorsement
                      \/ \E k \in DOMAIN history' :
                            /\ k > i /\ history'[k].what = "delegation"
                            /\ slot_of(history'[k]) = slot_of(history[i])
    BY <1>5, <1>6, <1>12 DEF MarksRecordEndorsements, DelegationSince, SameSlot
  <2>1. CASE slot_of(history[i]) = s
    \* The approval itself is the delegation that follows.
    BY <1>6, <1>7, <1>10, <2>1
  <2>2. CASE slot_of(history[i]) # s
    BY <1>3, <1>6, <1>9, <1>10, <2>2
       DEF IndInv, Recorded, MarksRecordEndorsements, DelegationSince, SameSlot
  <2> QED BY <2>1, <2>2
<1> QED BY <1>11, <1>13, <1>14, <1>15, <1>16, <1>17 DEF Ordered, Recorded

\* A level the user accepts starts an empty history at that level.
LEMMA UserPreserves ==
    ASSUME IndInv, UserSetsMarks
    PROVE  Ordered' /\ Recorded' /\ ReplyMatchesMark'
<1>1. /\ history' = << >> /\ Idle /\ reply' = reply
      /\ \A s \in Slot : N_data'.hwm[s].highest_level = floor'[s]
      /\ \A s \in Slot : floor'[s] \in Int
  <2>1. ASSUME NEW lvl \in level_t, reset_ok(lvl)
        PROVE  <1>1!:
    <3>1. N_data'.hwm = [s \in Slot |-> FreshMark(lvl)]
      BY <2>1 DEF reset_ok, reset_marks, IndInv, TypeOK, nvram_data
    <3> QED BY <2>1, <3>1 DEF reset_ok, FreshMark, level_t
  <2>2. ASSUME NEW key \in Key, NEW chain_id \in ChainId,
               NEW levels \in [Slot -> level_t],
               setup_ok(key, chain_id, levels)
        PROVE  <1>1!:
    <3>1. N_data'.hwm = [s \in Slot |-> FreshMark(levels[s])]
      BY <2>2 DEF setup_ok, setup_data
    <3> QED BY <2>2, <3>1 DEF setup_ok, FreshMark, level_t
  <2> QED BY <2>1, <2>2 DEF UserSetsMarks
<1>2. DOMAIN history' = {}
  BY <1>1
<1>3. Ordered'
  BY <1>2 DEF Ordered, BlockOrder, EndorsementOrder, ReleasesAboveFloor
<1>4. Recorded'
  BY <1>1, <1>2 DEF Recorded, MarksCoverReleases, MarksRecordEndorsements
<1>5. ReplyMatchesMark'
  BY <1>1 DEF ReplyMatchesMark, Idle
<1> QED BY <1>3, <1>4, <1>5

\* Changing the authorised key touches neither the marks nor the history.
LEMMA KeyChangePreserves ==
    ASSUME IndInv, reply' = reply, history' = history, floor' = floor,
           N_data'.main_chain_id = N_data.main_chain_id,
           N_data'.hwm = N_data.hwm
    PROVE  Ordered' /\ Recorded' /\ ReplyMatchesMark'
<1>1. Ordered' /\ Recorded'
  BY OrderFrame, RecordFrame DEF IndInv
<1>2. ReplyMatchesMark'
  BY DEF IndInv, ReplyMatchesMark, Idle, Signed, SameSlot, DelegationSince,
         slot_of, select_hwm_by_chain
<1> QED BY <1>1, <1>2

LEMMA KeyWrites ==
    ASSUME NEW ram \in nvram_data
    PROVE  /\ clear_baking_key(ram).main_chain_id = ram.main_chain_id
           /\ clear_baking_key(ram).hwm = ram.hwm
           /\ \A key : /\ authorize_baking(key, ram).main_chain_id = ram.main_chain_id
                       /\ authorize_baking(key, ram).hwm = ram.hwm
BY DEF clear_baking_key, authorize_baking, nvram_data

\* The whole inductive invariant, in every reachable state.
THEOREM Inductive == Spec => []IndInv
<1>1. Init => Ordered /\ Recorded /\ ReplyMatchesMark
  <2> SUFFICES ASSUME Init PROVE Ordered /\ Recorded /\ ReplyMatchesMark
    OBVIOUS
  <2>1. history = << >> /\ Idle /\ DOMAIN history = {}
    BY DEF Init, Idle
  <2>2. \A s \in Slot : floor[s] <= N_data.hwm[s].highest_level
    BY DEF Init, FreshMark
  <2> QED BY <2>1, <2>2
          DEF Ordered, Recorded, ReplyMatchesMark, BlockOrder, EndorsementOrder,
              ReleasesAboveFloor, MarksCoverReleases, MarksRecordEndorsements
<1>2. IndInv /\ [Next]_vars => (Ordered /\ Recorded /\ ReplyMatchesMark)'
  <2> SUFFICES ASSUME IndInv, [Next]_vars
               PROVE  Ordered' /\ Recorded' /\ ReplyMatchesMark'
    OBVIOUS
  <2>0. N_data \in nvram_data
    BY DEF IndInv, TypeOK
  <2>1. ASSUME NEW key \in Key, NEW info \in parsed_baking_data_t,
               baking_sign_complete(key, info)
        PROVE  Ordered' /\ Recorded' /\ ReplyMatchesMark'
    BY <2>1, SignPreserves
  <2>2. CASE finalize_successful_send
    BY <2>2, ReleasePreserves
  <2>3. CASE signature_lost
    <3>1. Ordered' /\ Recorded'
      BY <2>3, OrderFrame, RecordFrame DEF IndInv, signature_lost
    <3>2. ReplyMatchesMark'
      BY <2>3 DEF signature_lost, ReplyMatchesMark, Idle
    <3> QED BY <3>1, <3>2
  <2>4. ASSUME NEW key \in Key, NEW info \in Leftover,
               register_delegate_ok(key, info)
        PROVE  Ordered' /\ Recorded' /\ ReplyMatchesMark'
    BY <2>4, DelegatePreserves
  <2>5. CASE UserSetsMarks
    BY <2>5, UserPreserves
  <2>6. ASSUME NEW key \in Key, baking_ok(key)
        PROVE  Ordered' /\ Recorded' /\ ReplyMatchesMark'
    BY <2>0, <2>6, KeyWrites, KeyChangePreserves DEF baking_ok
  <2>7. CASE handle_apdu_deauthorize
    BY <2>0, <2>7, KeyWrites, KeyChangePreserves DEF handle_apdu_deauthorize
  <2>8. CASE UNCHANGED vars
    BY <2>8, KeyChangePreserves DEF vars
  <2> QED BY <2>1, <2>2, <2>3, <2>4, <2>5, <2>6, <2>7, <2>8 DEF Next
<1> QED BY <1>1, <1>2, Typing, PTL DEF Spec, IndInv

-----------------------------------------------------------------------------
(* What follows from it.                                                   *)

\* No double baking: whatever is signed, delegated, authorised, lost or cut
\* off in between, a block is released strictly above everything released
\* before it in its slot since the user last chose the levels.
THEOREM NoDoubleBaking == Spec => []BlockOrder
BY Inductive, PTL DEF IndInv, Ordered

\* Endorsements are released in order, and repeated only across a delegation
\* that rewrote the mark of their slot.
THEOREM NoDoubleEndorsing == Spec => []EndorsementOrder
BY Inductive, PTL DEF IndInv, Ordered

\* The marks in flash cover every signature a host may hold at every instant
\* at which the power may go.
THEOREM MarksSurviveCrashes == Spec => []MarksCoverReleases
BY Inductive, PTL DEF IndInv, Recorded

\* The flag of a mark tells of every endorsement released at its level.
THEOREM MarksTellOfEndorsements == Spec => []MarksRecordEndorsements
BY Inductive, PTL DEF IndInv, Recorded

\* Whether a signature in flight arrives or is lost makes no difference.
THEOREM FlightIsRecorded == Spec => []ReplyMatchesMark
BY Inductive, PTL DEF IndInv

\* Nothing is released below the level the user chose.
THEOREM UserLevelRespected == Spec => []ReleasesAboveFloor
BY Inductive, PTL DEF IndInv, Ordered

\* Only the callbacks of a reset or a set-up lower a mark.
THEOREM OnlyUserLowersMarks == Spec => MarksLoweredOnlyByUser
<1> DEFINE Lowered == \E s \in Slot :
                N_data'.hwm[s].highest_level < N_data.hwm[s].highest_level
<1>1. TypeOK /\ [Next]_vars => [Lowered => UserSetsMarks]_vars
  <2> SUFFICES ASSUME TypeOK, [Next]_vars, ~UserSetsMarks
               PROVE  ~Lowered
    OBVIOUS
  <2>1. N_data \in nvram_data
        /\ \A s \in Slot : N_data.hwm[s].highest_level \in Int
    BY Pieces DEF TypeOK
  <2>2. ASSUME NEW info \in parsed_baking_data_t,
               N_data' = write_high_water_mark(info, N_data)
        PROVE  ~Lowered
    <3> DEFINE s == select_hwm_by_chain(info.chain_id, N_data)
    <3>1. s \in Slot /\ info.level \in Int
      BY SlotType DEF parsed_baking_data_t, level_t
    <3> HIDE DEF s
    <3>2. /\ N_data'.hwm[s].highest_level
                = MaxOf(info.level, N_data.hwm[s].highest_level)
          /\ \A t \in Slot : t # s => N_data'.hwm[t] = N_data.hwm[t]
      BY <2>1, <2>2, <3>1, WriteMark DEF s
    <3> QED BY <2>1, <3>1, <3>2 DEF MaxOf
  <2>3. ASSUME N_data'.hwm = N_data.hwm PROVE ~Lowered
    BY <2>1, <2>3
  <2>4. ASSUME NEW key \in Key, NEW info \in parsed_baking_data_t,
               baking_sign_complete(key, info)
        PROVE  ~Lowered
    BY <2>2, <2>4 DEF baking_sign_complete
  <2>5. ASSUME NEW key \in Key, NEW info \in Leftover,
               register_delegate_ok(key, info)
        PROVE  ~Lowered
    BY <2>2, <2>5 DEF register_delegate_ok
  <2>6. ASSUME NEW key \in Key, baking_ok(key) PROVE ~Lowered
    BY <2>1, <2>3, <2>6, KeyWrites DEF baking_ok
  <2>7. CASE handle_apdu_deauthorize
    BY <2>1, <2>3, <2>7, KeyWrites DEF handle_apdu_deauthorize
  <2>8. CASE finalize_successful_send \/ signature_lost \/ UNCHANGED vars
    BY <2>3, <2>8 DEF finalize_successful_send, signature_lost, vars
  <2> QED BY <2>4, <2>5, <2>6, <2>7, <2>8 DEF Next
<1> QED BY <1>1, Typing, PTL DEF Spec, MarksLoweredOnlyByUser

-----------------------------------------------------------------------------
(* Two words per slot do the work of a complete record.                    *)

GuardFloor == [c \in ChainId |-> floor[select_hwm_by_chain(c, N_data)]]

LEMMA GuardFloorFrame ==
    ASSUME floor' = floor, N_data'.main_chain_id = N_data.main_chain_id
    PROVE  GuardFloor' = GuardFloor
BY DEF GuardFloor, select_hwm_by_chain

\* BakingAuth implements DoubleBakeGuard: a step that releases a signature or
\* approves a delegation is one the complete record allows, and every other
\* step leaves the record alone or starts a new one.
THEOREM Refinement == Spec => GuardSpec
<1>1. Init => Guard!Init
  BY SlotType DEF Init, Guard!Init
<1>2. IndInv /\ [Next]_vars => [Guard!Next]_(Guard!vars)
  <2> SUFFICES ASSUME IndInv, [Next]_vars
               PROVE  \/ Guard!Next
                      \/ history' = history /\ GuardFloor' = GuardFloor
    BY DEF Guard!vars, GuardFloor
  <2>1. CASE finalize_successful_send
    <3> DEFINE info == reply.info
    <3>1. /\ ~Idle /\ N_data' = N_data /\ floor' = floor
          /\ history' = Append(history, reply)
      BY <2>1 DEF finalize_successful_send
    <3>2. /\ reply = [what |-> "baking", info |-> info]
          /\ info \in parsed_baking_data_t
          /\ info.chain_id \in ChainId
      BY <3>1 DEF IndInv, TypeOK, Idle, BakingEvent, parsed_baking_data_t
    <3>3. GuardFloor[info.chain_id] = floor[slot_of(reply)]
      BY <3>2 DEF GuardFloor, slot_of
    <3>4. \A i \in DOMAIN history :
             history[i].info.chain_id = info.chain_id => SameSlot(i, reply)
      BY DEF SameSlot, slot_of
    <3>5. \A i : DelegationSince(i, reply) => Guard!ApprovedSince(i)
      BY DEF DelegationSince, Guard!ApprovedSince
    <3>6. Guard!MayRelease(info)
      BY <3>1, <3>3, <3>4, <3>5
         DEF Guard!MayRelease, Guard!Baking, Guard!SameChain, Signed, IndInv,
             ReplyMatchesMark, GuardFloor
    <3>7. GuardFloor' = GuardFloor
      BY <3>1, GuardFloorFrame
    <3>8. info \in Guard!Info
      BY <3>2 DEF Guard!Info, parsed_baking_data_t
    <3>9. Guard!Release(info)
      BY <3>1, <3>2, <3>6, <3>7 DEF Guard!Release, GuardFloor
    <3> QED BY <3>8, <3>9 DEF Guard!Next
  <2>2. ASSUME NEW key \in Key, NEW info \in Leftover,
               register_delegate_ok(key, info)
        PROVE  Guard!Next
    <3>1. info \in Guard!Info /\ info \in parsed_baking_data_t
      BY DEF Guard!Info, parsed_baking_data_t
    <3>2. /\ history' = Append(history, DelegationEvent(info))
          /\ floor' = floor
          /\ N_data'.main_chain_id = N_data.main_chain_id
      BY <2>2, <3>1, SlotType, WriteMark DEF register_delegate_ok, IndInv, TypeOK
    <3>3. GuardFloor' = GuardFloor
      BY <3>2, GuardFloorFrame
    <3>4. Guard!ApproveDelegation(info)
      BY <3>2, <3>3 DEF Guard!ApproveDelegation, DelegationEvent, GuardFloor
    <3> QED BY <3>1, <3>4 DEF Guard!Next
  <2>3. CASE UserSetsMarks
    <3>1. history' = << >> /\ floor' \in [Slot -> level_t]
      BY <2>3 DEF UserSetsMarks, reset_ok, setup_ok
    <3>2. GuardFloor' \in [ChainId -> level_t]
      BY <3>1, SlotType DEF GuardFloor, select_hwm_by_chain, Slot
    <3>3. Guard!ChooseLevels
      BY <3>1, <3>2 DEF Guard!ChooseLevels, GuardFloor
    <3> QED BY <3>3 DEF Guard!Next
  <2>4. ASSUME history' = history, floor' = floor,
               N_data'.main_chain_id = N_data.main_chain_id
        PROVE  history' = history /\ GuardFloor' = GuardFloor
    BY <2>4, GuardFloorFrame
  <2>5. ASSUME NEW key \in Key, NEW info \in parsed_baking_data_t,
               baking_sign_complete(key, info)
        PROVE  history' = history /\ GuardFloor' = GuardFloor
    <3>1. N_data'.main_chain_id = N_data.main_chain_id
      BY <2>5, SlotType, WriteMark DEF baking_sign_complete, IndInv, TypeOK
    <3> QED BY <2>4, <2>5, <3>1 DEF baking_sign_complete
  <2>6. ASSUME NEW key \in Key, baking_ok(key)
        PROVE  history' = history /\ GuardFloor' = GuardFloor
    BY <2>4, <2>6, KeyWrites DEF baking_ok, IndInv, TypeOK
  <2>7. CASE handle_apdu_deauthorize
    BY <2>4, <2>7, KeyWrites DEF handle_apdu_deauthorize, IndInv, TypeOK
  <2>8. CASE signature_lost \/ UNCHANGED vars
    BY <2>4, <2>8 DEF signature_lost, vars
  <2> QED BY <2>1, <2>2, <2>3, <2>5, <2>6, <2>7, <2>8 DEF Next
<1> QED BY <1>1, <1>2, Inductive, PTL DEF Spec, GuardSpec, Guard!Spec

=============================================================================
