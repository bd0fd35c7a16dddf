--------------------------- MODULE DoubleBakeGuard ---------------------------
(***************************************************************************)
(* What the Baking app promises about the signatures that leave it, stated *)
(* without high water marks: a signer that remembers everything it has     *)
(* released since the user last chose a starting level, and decides on the *)
(* whole record.  The device keeps two words per slot instead; BakingAuth  *)
(* shows that those are enough.                                            *)
(***************************************************************************)
EXTENDS Integers, Sequences

CONSTANTS ChainId, Level

VARIABLES
    record,   \* what was released or approved, oldest first
    floor     \* per chain, the level the user last chose

vars == <<record, floor>>

Info == [chain_id : ChainId, is_endorsement : BOOLEAN, level : Level]

\* A self-delegation approved by the user stands in the record as well: it is
\* the only thing after which an endorsement may be repeated.
Event == [what : {"baking", "delegation"}, info : Info]

Baking(i) == record[i].what = "baking"
SameChain(i, info) == record[i].info.chain_id = info.chain_id
ApprovedSince(i) ==
    \E k \in DOMAIN record : k > i /\ record[k].what = "delegation"

\* A block goes above everything released for its chain; an endorsement is at
\* least as high, and ties with an endorsement only across a delegation.
MayRelease(info) ==
    /\ info.level >= floor[info.chain_id]
    /\ ~info.is_endorsement => info.level > floor[info.chain_id]
    /\ \A i \in DOMAIN record :
          Baking(i) /\ SameChain(i, info) =>
             \/ record[i].info.level < info.level
             \/ /\ info.is_endorsement
                /\ record[i].info.level = info.level
                /\ record[i].info.is_endorsement => ApprovedSince(i)

Init == record = << >> /\ floor = [c \in ChainId |-> 0]

Release(info) ==
    /\ MayRelease(info)
    /\ record' = Append(record, [what |-> "baking", info |-> info])
    /\ UNCHANGED floor

ApproveDelegation(info) ==
    /\ record' = Append(record, [what |-> "delegation", info |-> info])
    /\ UNCHANGED floor

ChooseLevels ==
    /\ floor' \in [ChainId -> Level]
    /\ record' = << >>

Next == \/ \E info \in Info : Release(info) \/ ApproveDelegation(info)
        \/ ChooseLevels

Spec == Init /\ [][Next]_vars

=============================================================================
