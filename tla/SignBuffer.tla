----------------------------- MODULE SignBuffer -----------------------------
(***************************************************************************)
(* The message of a signing session of the Wallet app on its way through   *)
(* message_data and the BLAKE2b state (src/apdu_sign.c): packets are       *)
(* appended to a buffer of one hash block plus one packet, whole blocks    *)
(* are hashed before the next packet is taken, and the last packet closes  *)
(* the hash.  Each packet's instruction says whether it is hashed: INS_SIGN *)
(* and INS_SIGN_WITH_HASH do, INS_SIGN_UNSAFE does not, and a host may mix *)
(* them.                                                                   *)
(*                                                                         *)
(* The bytes of a message are their positions in it, so a sequence of      *)
(* positions says which bytes were hashed or kept and in which order.      *)
(***************************************************************************)
EXTENDS Integers, Sequences

CONSTANTS
    BlockBytes,   \* B2B_BLOCKBYTES, 128
    MaxApduSize,  \* MAX_APDU_SIZE, 230
    MaxPackets    \* the last packet_index, 255

ASSUME SizeAssumption ==
    BlockBytes \in Nat \ {0} /\ MaxApduSize \in Nat \ {0}
    /\ MaxPackets \in Nat \ {0}

BufSize == BlockBytes + MaxApduSize

VARIABLES
    packet_index,     \* 0 after P1_FIRST
    has_key,          \* a session is open: P1_FIRST named a key
    magic,            \* the first packet was parsed and had a known magic byte
    message_data,
    hash_state,       \* [initialized, input]: the bytes hashed so far
    final_hash,       \* the bytes the final hash covers
    asking,           \* what the user is asked to sign: "hash", "raw", "no"
    received,         \* auxiliary: bytes of the message so far
    hashing,          \* auxiliary: the values enable_hashing has had
    closed            \* auxiliary: "no", "once" the hash was finished, and
                      \* "continued" with packets after that

vars == <<packet_index, has_key, magic, message_data, hash_state, final_hash,
          asking, received, hashing, closed>>

NoHash == [initialized |-> FALSE, input |-> << >>]

\* The positions from first to last, in order.
Bytes(first, last) == [i \in 1 .. last - first + 1 |-> first + i - 1]

-----------------------------------------------------------------------------

\* Wrong variants (..._wrongly_...) are slips of the definition that follows
\* them; only the mutation of a run uses them.

hashes_wrongly_every_block(len) == BlockBytes * (len \div BlockBytes)

hashes_wrongly_one_block(len) == IF len > BlockBytes THEN BlockBytes ELSE 0

\* The loop of blake2b_incremental_hash takes blocks while more than one
\* block is left: the last one, even if full, stays for the final call.
HashedLength(len) ==
    IF len = 0 THEN 0 ELSE BlockBytes * ((len - 1) \div BlockBytes)

init_wrongly_repeated(state) == [initialized |-> TRUE, input |-> << >>]

conditional_init_hash_state(state) ==
    IF state.initialized THEN state ELSE [initialized |-> TRUE, input |-> << >>]

flush_wrongly_unmoved(data, state) ==
    LET n == HashedLength(Len(data))
    IN  [data  |-> SubSeq(data, 1, Len(data) - n),
         state |-> IF n = 0 THEN state
                   ELSE [initialized |-> TRUE,
                         input |-> conditional_init_hash_state(state).input
                                   \o SubSeq(data, 1, n)]]

blake2b_incremental_hash(data, state) ==
    LET n == HashedLength(Len(data))
    IN  [data  |-> SubSeq(data, n + 1, Len(data)),
         state |-> IF n = 0 THEN state
                   ELSE [initialized |-> TRUE,
                         input |-> conditional_init_hash_state(state).input
                                   \o SubSeq(data, 1, n)]]

-----------------------------------------------------------------------------

Init ==
    /\ packet_index = 0 /\ has_key = FALSE /\ magic = FALSE
    /\ message_data = << >> /\ hash_state = NoHash /\ final_hash = << >>
    /\ asking = "no"
    /\ received = 0 /\ hashing = {} /\ closed = "no"

clear_data ==
    /\ packet_index' = 0 /\ has_key' = FALSE /\ magic' = FALSE
    /\ message_data' = << >> /\ hash_state' = NoHash /\ final_hash' = << >>
    /\ asking' = "no"
    /\ received' = 0 /\ hashing' = {} /\ closed' = "no"

Waiting == asking = "no"

\* P1_FIRST.
sign_first ==
    /\ Waiting
    /\ has_key' = TRUE
    /\ packet_index' = 0 /\ magic' = FALSE
    /\ message_data' = << >> /\ hash_state' = NoHash /\ final_hash' = << >>
    /\ received' = 0 /\ hashing' = {} /\ closed' = "no"
    /\ UNCHANGED asking

\* Any error clears the session: a packet the parser refuses, another P1, a
\* packet too many or without P1_FIRST, the overflow below.
throw == Waiting /\ clear_data

\* What both kinds of P1_NEXT packet do with their n bytes.
Taken(n, enable_hashing) ==
    LET old == IF enable_hashing
               THEN blake2b_incremental_hash(message_data, hash_state)
               ELSE [data |-> message_data, state |-> hash_state]
    IN  [data  |-> old.data \o Bytes(received + 1, received + n),
         state |-> old.state]

overflows(n, enable_hashing) ==
    Len(Taken(n, enable_hashing).data) > BufSize

packet_wrongly_accepted(n, enable_hashing) ==
    /\ Waiting
    /\ has_key
    /\ packet_index < MaxPackets

packet_accepted(n, enable_hashing) ==
    /\ Waiting
    /\ has_key
    /\ packet_index < MaxPackets
    /\ enable_hashing /\ packet_index = 0 => n > 0    \* the magic byte
    /\ ~overflows(n, enable_hashing)

\* closes: this packet is to finish the hash.
TakePacket(n, enable_hashing, closes) ==
    /\ packet_index' = packet_index + 1
    /\ magic' = (magic \/ (enable_hashing /\ packet_index = 0))
    /\ received' = received + n
    /\ hashing' = hashing \cup {enable_hashing}
    /\ closed' = IF closed # "no" THEN "continued"
                 ELSE IF closes THEN "once" ELSE "no"
    /\ UNCHANGED has_key

sign_next(n, enable_hashing) ==
    /\ packet_accepted(n, enable_hashing)
    /\ TakePacket(n, enable_hashing, FALSE)
    /\ message_data' = Taken(n, enable_hashing).data
    /\ hash_state' = Taken(n, enable_hashing).state
    /\ UNCHANGED <<final_hash, asking>>

\* P1_LAST_MARKER: this packet is hashed too and blake2b_finish_hash closes
\* the hash.  What the library leaves in a finished state, the message so far
\* or a new start, is not this code's to say.  Without a magic byte there is
\* nothing to ask, and the handler throws.
sign_last_hashed(n) ==
    /\ packet_accepted(n, TRUE)
    /\ magic \/ packet_index = 0
    /\ TakePacket(n, TRUE, TRUE)
    /\ LET taken == Taken(n, TRUE)
           tail  == blake2b_incremental_hash(taken.data, taken.state)
           all   == conditional_init_hash_state(tail.state).input \o tail.data
       IN  /\ message_data' = tail.data
           /\ final_hash' = all
           /\ \E left \in {all, << >>} :
                 hash_state' = [initialized |-> TRUE, input |-> left]
    /\ asking' = "hash"

\* INS_SIGN_UNSAFE: the user is shown message_data, and that is signed.
sign_last_unsafe(n) ==
    /\ packet_accepted(n, FALSE)
    /\ TakePacket(n, FALSE, FALSE)
    /\ message_data' = Taken(n, FALSE).data
    /\ asking' = "raw"
    /\ UNCHANGED <<hash_state, final_hash>>

\* perform_signature and sign_reject both end with clear_data.
answer == ~Waiting /\ clear_data

\* EXCEPTION_IO_RESET: the prompt is gone, global.apdu stays.
io_reset ==
    /\ ~Waiting
    /\ asking' = "no"
    /\ UNCHANGED <<packet_index, has_key, magic, message_data, hash_state,
                   final_hash, received, hashing, closed>>

Next ==
    \/ sign_first
    \/ \E n \in 0 .. MaxApduSize :
          \/ \E enable_hashing \in BOOLEAN : sign_next(n, enable_hashing)
          \/ sign_last_hashed(n)
          \/ sign_last_unsafe(n)
    \/ throw
    \/ answer
    \/ io_reset

Spec == Init /\ [][Next]_vars

-----------------------------------------------------------------------------
(* Properties.                                                             *)

\* Every variable keeps its type, and the buffer its size.
TypeOK ==
    /\ packet_index \in 0 .. MaxPackets
    /\ has_key \in BOOLEAN /\ magic \in BOOLEAN
    /\ message_data \in Seq(Nat) /\ Len(message_data) <= BufSize
    /\ hash_state \in [initialized : BOOLEAN, input : Seq(Nat)]
    /\ final_hash \in Seq(Nat)
    /\ asking \in {"no", "hash", "raw"}
    /\ received \in Nat
    /\ hashing \subseteq BOOLEAN
    /\ closed \in {"no", "once", "continued"}

\* However packets are cut, and hashed or not, no byte of the message is lost,
\* hashed twice or out of order: what is hashed and what is kept make up the
\* message.
NothingLost ==
    closed = "no" => hash_state.input \o message_data = Bytes(1, received)

\* Only whole blocks are hashed before the end, and never the last byte, which
\* the closing call needs.
WholeBlocks ==
    closed = "no" =>
        /\ Len(hash_state.input) % BlockBytes = 0
        /\ hash_state.input = << >> \/ message_data # << >>

\* A packet that is hashed always fits, whatever came before it: the overflow
\* check only ever refuses packets of INS_SIGN_UNSAFE.
HashedPacketsFit == \A n \in 0 .. MaxApduSize : ~overflows(n, TRUE)

\* The user is asked for all of the message: its hash, or the bytes
\* themselves when none of them has been hashed away.  (A session continued
\* after an IO reset took its finished prompt away is another matter.)
AsksForTheWholeMessage ==
    /\ asking = "hash" /\ closed = "once" => final_hash = Bytes(1, received)
    /\ asking = "raw" /\ hashing = {FALSE} => message_data = Bytes(1, received)

=============================================================================
