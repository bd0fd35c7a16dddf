---------------------------- MODULE HighWaterMark ----------------------------
(***************************************************************************)
(* The baking authorisation rules of the Tezos Baking app, as operators on *)
(* the value of the persistent record N_data (src/types.h, nvram_data).    *)
(*                                                                         *)
(* A level is an unsigned word of the width the app gives it, abstracted   *)
(* to 0 .. MaxLevel; the levels below LevelLimit are those that            *)
(* is_valid_level accepts (2^30 in the code).  A key is a derivation type  *)
(* together with a BIP32 path: the code always compares and copies the two *)
(* together, so one value stands for the pair and NoKey for the zeroed     *)
(* one.  A chain id is a number because 0 has a meaning of its own.        *)
(***************************************************************************)
EXTENDS Integers

CONSTANTS
    Key,          \* the derivation type / BIP32 path pairs hosts may name
    NoKey,        \* the all-zero baking_key: nothing is authorised
    ChainId,      \* the chain ids that occur, AnyChain among them
    MaxLevel,     \* the largest value of a level_t
    LevelLimit    \* the first level is_valid_level refuses

AnyChain == 0

ASSUME KeyAssumption == NoKey \notin Key
ASSUME ChainAssumption == ChainId \subseteq Nat /\ AnyChain \in ChainId
ASSUME LevelAssumption ==
    /\ MaxLevel \in Nat
    /\ LevelLimit \in 1 .. MaxLevel + 1

level_t == 0 .. MaxLevel
Slot == {"main", "test"}

high_watermark_t == [highest_level : level_t, had_endorsement : BOOLEAN]

nvram_data == [main_chain_id : ChainId,
               hwm           : [Slot -> high_watermark_t],
               baking_key    : Key \cup {NoKey}]

parsed_baking_data_t ==
    [chain_id : ChainId, is_endorsement : BOOLEAN, level : level_t]

\* What a memset of the session leaves in parsed_baking_data.
ZeroBakingData == [chain_id |-> 0, is_endorsement |-> FALSE, level |-> 0]

-----------------------------------------------------------------------------
(* Reading the marks.                                                      *)

is_valid_level(lvl) == lvl < LevelLimit

\* Wrong variants (operators named ..._wrongly_... here and in the other
\* modules) are what a slip in the code would be; no specification uses them,
\* they show which property such a slip would break.

\* The chain chosen at set-up uses 'main' and every other chain 'test'; with
\* no chain chosen all of them share 'main'.
select_hwm_by_chain(chain_id, ram) ==
    IF chain_id = ram.main_chain_id \/ ram.main_chain_id = AnyChain
    THEN "main" ELSE "test"

level_wrongly_allowed_again(info, ram) ==
    LET hwm == ram.hwm[select_hwm_by_chain(info.chain_id, ram)]
    IN  is_valid_level(info.level) /\ info.level >= hwm.highest_level

level_wrongly_endorsed_twice(info, ram) ==
    LET hwm == ram.hwm[select_hwm_by_chain(info.chain_id, ram)]
    IN  /\ is_valid_level(info.level)
        /\ \/ info.level > hwm.highest_level
           \/ info.level = hwm.highest_level /\ info.is_endorsement

is_level_authorized(info, ram) ==
    LET hwm == ram.hwm[select_hwm_by_chain(info.chain_id, ram)]
    IN  /\ is_valid_level(info.level)
        /\ \/ info.level > hwm.highest_level
           \/ /\ info.level = hwm.highest_level
              /\ info.is_endorsement
              /\ ~hwm.had_endorsement

path_wrongly_unchecked(key, ram) == key # NoKey

is_path_authorized(key, ram) == key # NoKey /\ key = ram.baking_key

guard_baking_authorized(info, key, ram) ==
    is_path_authorized(key, ram) /\ is_level_authorized(info, ram)

-----------------------------------------------------------------------------
(* The bodies handed to UPDATE_NVRAM: the record each one leaves.          *)

MaxOf(a, b) == IF a > b THEN a ELSE b

mark_wrongly_lowered(info, ram) ==
    LET dest == select_hwm_by_chain(info.chain_id, ram)
    IN  [ram EXCEPT !.hwm[dest] = [highest_level   |-> info.level,
                                   had_endorsement |-> info.is_endorsement]]

mark_wrongly_blank(info, ram) ==
    LET dest == select_hwm_by_chain(info.chain_id, ram)
    IN  [ram EXCEPT !.hwm[dest] =
            [highest_level   |-> MaxOf(info.level, ram.hwm[dest].highest_level),
             had_endorsement |-> FALSE]]

mark_wrongly_in_main(info, ram) ==
    [ram EXCEPT !.hwm["main"] =
        [highest_level   |-> MaxOf(info.level, ram.hwm["main"].highest_level),
         had_endorsement |-> info.is_endorsement]]

write_high_water_mark(info, ram) ==
    LET dest == select_hwm_by_chain(info.chain_id, ram)
    IN  [ram EXCEPT !.hwm[dest] =
            [highest_level   |-> MaxOf(info.level, ram.hwm[dest].highest_level),
             had_endorsement |-> info.is_endorsement]]

authorize_baking(key, ram) ==
    IF key = NoKey THEN ram ELSE [ram EXCEPT !.baking_key = key]

record_wrongly_cleared(ram) ==
    [main_chain_id |-> AnyChain,
     hwm           |-> [s \in Slot |-> [highest_level   |-> 0,
                                        had_endorsement |-> FALSE]],
     baking_key    |-> NoKey]

clear_baking_key(ram) == [ram EXCEPT !.baking_key = NoKey]

FreshMark(lvl) == [highest_level |-> lvl, had_endorsement |-> FALSE]

\* reset_ok: the one level the user confirmed goes to both slots.
reset_marks(lvl, ram) ==
    [ram EXCEPT !.hwm = [s \in Slot |-> FreshMark(lvl)]]

setup_wrongly_swapped(key, chain_id, levels) ==
    [main_chain_id |-> chain_id,
     hwm           |-> [s \in Slot |-> FreshMark(levels[
                           IF s = "main" THEN "test" ELSE "main"])],
     baking_key    |-> key]

\* apdu_setup.c, ok: key, chain and both levels as shown in the prompt.  The
\* levels are taken from the wire as they are, valid or not.
setup_data(key, chain_id, levels) ==
    [main_chain_id |-> chain_id,
     hwm           |-> [s \in Slot |-> FreshMark(levels[s])],
     baking_key    |-> key]

=============================================================================
