-------------------------- MODULE WalletAppProofs --------------------------
(***************************************************************************)
(* For every block and packet size and any keys: a host at the Wallet app  *)
(* cannot lose a byte of a message on its way into the hash, keep one from *)
(* the parser but by INS_SIGN_UNSAFE, or have the hash of part of a        *)
(* message signed, not even by running the callbacks itself.  What         *)
(* WalletApp does to the variables of SignBuffer keeps the invariant of    *)
(* SignBufferProofs; what it adds is related to them by WInv.              *)
(***************************************************************************)
EXTENDS WalletApp, SignBufferProofs

\* Before the first packet nothing has been received or parsed.
Unstarted ==
    packet_index = 0 =>
        /\ received = 0 /\ parsed = << >>
        /\ hashing = {} /\ ~magic

\* Of r bytes, a sequence has some in their order, and all but the skipped.
InOrder(seq, r) ==
    /\ \A i, j \in DOMAIN seq : i < j => seq[i] < seq[j]
    /\ \A i \in DOMAIN seq : seq[i] \in 1 .. r

Covered(seq, skipped, r) ==
    \A byte \in 1 .. r :
        byte \in skipped <=> \A i \in DOMAIN seq : seq[i] # byte

Parsed ==
    /\ unparsed \subseteq 1 .. received
    /\ InOrder(parsed, received)
    /\ magic_byte = "operation" => Covered(parsed, unparsed, received)
    /\ magic_byte # "operation" => parsed = << >>

\* The final hash outlives its prompt.
HashStays ==
    /\ closed = "no" => final_hash = << >>
    /\ closed = "once" => final_hash = Bytes(1, received) /\ magic

\* The magic byte was looked for at the start, and a prompt for a hash needs
\* it.
Marked ==
    /\ magic => checked = 1 /\ received > 0
    /\ asking = "hash" => magic
    /\ prompt = "operation" => magic_byte = "operation"

WInv == WalletTypeOK /\ Inv /\ Unstarted /\ Parsed /\ Marked /\ HashStays

-----------------------------------------------------------------------------
(* The buffer's invariant.                                                 *)

\* A public key request changes nothing the buffer's invariant is about.
LEMMA Overlaid ==
    ASSUME Inv, NEW k, overlay(k)
    PROVE  Inv'
<1>1. packet_index' \in 0 .. MaxPackets
  BY CurveAssumption, SizeAssumption DEF overlay
<1>2. TypeOK'
  BY <1>1 DEF overlay, Inv, TypeOK
<1> QED
  BY <1>2 DEF overlay, Inv, Split, HashedUpTo, Closing, AsksForTheWholeMessage

LEMMA BufferKept == Inv /\ [WalletNext]_wallet_vars => Inv'
<1> SUFFICES ASSUME Inv, [WalletNext]_wallet_vars PROVE Inv'
  OBVIOUS
<1>1. ASSUME [Next]_vars PROVE Inv'
  BY <1>1, Steps
<1>2. ASSUME NEW k \in Key, p1_first(k) PROVE Inv'
  BY <1>1, <1>2, Zenon DEF p1_first, Next
<1>3. ASSUME NEW k \in Key, get_public_key(k) \/ prompt_public_key(k) PROVE Inv'
  BY <1>3, Overlaid, Zenon DEF get_public_key, prompt_public_key
<1>4. ASSUME NEW n \in 0 .. MaxApduSize, NEW only \in BOOLEAN,
             NEW instruction \in Instruction, p1_next(n, instruction, only)
      PROVE  Inv'
  <2>1. (instruction # INS_SIGN_UNSAFE) \in BOOLEAN
    OBVIOUS
  <2> QED BY <1>1, <1>4, <2>1, Zenon DEF p1_next, Next
<1>5. ASSUME NEW n \in 0 .. MaxApduSize, NEW only \in BOOLEAN,
             NEW instruction \in Instruction,
             p1_last_hashed(n, instruction, only)
      PROVE  Inv'
  BY <1>1, <1>5, Zenon DEF p1_last_hashed, Next
<1>6. ASSUME NEW n \in 0 .. MaxApduSize, NEW only \in BOOLEAN,
             p1_last_unsafe(n, only)
      PROVE  Inv'
  BY <1>1, <1>6, Zenon DEF p1_last_unsafe, Next
<1>7. CASE error
  BY <1>1, <1>7, Zenon DEF error, Next
<1>8. CASE sign_ok \/ sign_reject
  BY <1>8, Cleared DEF sign_ok, sign_reject, AnswerToSign
<1>9. ASSUME NEW accepted \in BOOLEAN, answer_public_key(accepted) PROVE Inv'
  BY <1>1, <1>9, Zenon DEF answer_public_key
<1>10. CASE reset
  BY <1>1, <1>10, Zenon DEF reset, Next
<1>11. CASE restart
  BY <1>11, Cleared DEF restart
<1>12. CASE UNCHANGED wallet_vars
  BY <1>1, <1>12 DEF wallet_vars
<1> QED
  BY <1>2, <1>3, <1>4, <1>5, <1>6, <1>7, <1>8, <1>9, <1>10, <1>11, <1>12, Zenon
  DEF WalletNext

-----------------------------------------------------------------------------
(* What the Wallet adds.                                                   *)

Extended == WalletTypeOK /\ Unstarted /\ Parsed /\ Marked /\ HashStays

LEMMA EmptyBytes == << >> \in Seq(Nat)
OBVIOUS

LEMMA NothingInOrder ==
    ASSUME NEW seq \in Seq(Nat), seq = << >> PROVE InOrder(seq, 0)
<1>1. Len(seq) = 0 /\ DOMAIN seq = 1 .. Len(seq)
  OBVIOUS
<1>2. DOMAIN seq = {}
  BY <1>1
<1> QED BY <1>2, Zenon DEF InOrder

\* A cleared session, with a key or without.
LEMMA ClearedSession ==
    ASSUME NEW k \in Key \cup {NoKey}, clear_session(k), TypeOK',
           has_key' <=> k # NoKey, packet_index' = 0, magic' = FALSE,
           received' = 0, hashing' = {}, closed' = "no", asking' = "no",
           final_hash' = << >>,
           prompt' = "none", ok_callback' \in SignCallbacks \cup {"none", "pubkey ok"},
           reply' \in [kind : {"none", "hash", "signature",
                               "hash and signature", "public key"},
                       over : Seq(Nat), key : Key \cup {NoKey}]
    PROVE  Extended'
<1>2. WalletTypeOK'
  BY EmptyBytes DEF clear_session, WalletTypeOK, SignPrompts, HashPrompts
<1>3. Unstarted' /\ Marked' /\ HashStays'
  BY DEF clear_session, Unstarted, Marked, HashStays
<1>4. Parsed'
  <2>1. /\ parsed' = << >> /\ unparsed' = {} /\ received' = 0
        /\ magic_byte' = "none"
    BY DEF clear_session
  <2>2. InOrder(parsed', 0)
    BY <2>1, EmptyBytes, NothingInOrder
  <2> QED BY <2>1, <2>2 DEF Parsed
<1> QED BY <1>2, <1>3, <1>4 DEF Extended

LEMMA NoReplyType ==
    NoReply \in [kind : {"none", "hash", "signature", "hash and signature",
                         "public key"},
                 over : Seq(Nat), key : Key \cup {NoKey}]
BY EmptyBytes DEF NoReply

LEMMA Position ==
    ASSUME NEW a \in Nat, NEW b \in Nat, NEW i \in 1 .. b - a + 1
    PROVE  Bytes(a, b)[i] = a + i - 1
BY DEF Bytes

LEMMA Appending ==
    ASSUME NEW seq \in Seq(Nat), NEW r \in Nat, NEW n \in Nat,
           NEW skipped \in SUBSET (1 .. r), InOrder(seq, r)
    PROVE  /\ InOrder(seq \o Bytes(r + 1, r + n), r + n)
           /\ Covered(seq, skipped, r) =>
                Covered(seq \o Bytes(r + 1, r + n), skipped, r + n)
<1> DEFINE more == Bytes(r + 1, r + n)
           all == seq \o more
           m == Len(seq)
<1>1. more \in Seq(Nat) /\ Len(more) = n
  <2> DEFINE a == r + 1
             b == r + n
  <2>1. a \in Nat \ {0} /\ b \in Nat /\ a <= b + 1 /\ b - a + 1 = n
    OBVIOUS
  <2>2. more = Bytes(a, b)
    OBVIOUS
  <2> HIDE DEF a, b, more
  <2> QED BY <2>1, <2>2, Run
<1>2. \A i \in 1 .. n : more[i] = r + i
  <2> SUFFICES ASSUME NEW i \in 1 .. n PROVE more[i] = r + i
    OBVIOUS
  <2>1. r + 1 \in Nat /\ r + n \in Nat /\ i \in 1 .. (r + n) - (r + 1) + 1
        /\ (r + 1) + i - 1 = r + i
    OBVIOUS
  <2> QED BY <2>1, Position, Zenon
<1>3. m \in Nat /\ DOMAIN seq = 1 .. m
  OBVIOUS
<1> HIDE DEF more
<1>4. /\ all \in Seq(Nat) /\ DOMAIN all = 1 .. m + n
      /\ \A i \in 1 .. m : all[i] = seq[i]
      /\ \A i \in m + 1 .. m + n : all[i] = r + (i - m)
  <2>1. \A i \in m + 1 .. m + n : i - m \in 1 .. n
    BY <1>3
  <2>2. /\ all \in Seq(Nat) /\ Len(all) = m + n
        /\ \A i \in 1 .. m : all[i] = seq[i]
        /\ \A i \in m + 1 .. m + n : all[i] = more[i - m]
    BY <1>1, <1>3
  <2> HIDE DEF all, m
  <2>3. DOMAIN all = 1 .. m + n
    BY <1>1, <1>3, <2>2
  <2>4. \A i \in m + 1 .. m + n : all[i] = r + (i - m)
    BY <1>2, <2>1, <2>2, Zenon
  <2> QED BY <2>2, <2>3, <2>4
<1> HIDE DEF all, m
<1>5. \A i \in 1 .. m : all[i] \in 1 .. r
  BY <1>3, <1>4 DEF InOrder
<1>6. \A i \in DOMAIN all : all[i] \in 1 .. r + n
  <2> SUFFICES ASSUME NEW i \in DOMAIN all PROVE all[i] \in 1 .. r + n
    OBVIOUS
  <2>1. CASE i \in 1 .. m
    BY <1>5, <2>1
  <2>2. CASE i \in m + 1 .. m + n
    BY <1>3, <1>4, <2>2
  <2> QED BY <1>3, <1>4, <2>1, <2>2
<1>7. \A i, j \in DOMAIN all : i < j => all[i] < all[j]
  <2> SUFFICES ASSUME NEW i \in 1 .. m + n, NEW j \in 1 .. m + n, i < j
               PROVE  all[i] < all[j]
    BY <1>4
  <2>1. CASE j \in 1 .. m
    <3>1. i \in 1 .. m
      BY <1>3, <2>1
    <3>2. seq[i] < seq[j]
      BY <1>3, <2>1, <3>1 DEF InOrder
    <3> QED BY <1>4, <2>1, <3>1, <3>2
  <2>2. CASE i \in 1 .. m /\ j \in m + 1 .. m + n
    BY <1>3, <1>4, <1>5, <2>2
  <2>3. CASE i \in m + 1 .. m + n /\ j \in m + 1 .. m + n
    BY <1>3, <1>4, <2>3
  <2> QED BY <1>3, <2>1, <2>2, <2>3
<1>8. ASSUME Covered(seq, skipped, r) PROVE Covered(all, skipped, r + n)
  <2> SUFFICES ASSUME NEW byte \in 1 .. r + n
               PROVE  byte \in skipped <=> \A i \in DOMAIN all : all[i] # byte
    BY DEF Covered
  <2>1. CASE byte \in 1 .. r
    <3>1. byte \in skipped <=> \A i \in 1 .. m : seq[i] # byte
      BY <1>3, <1>8, <2>1 DEF Covered
    <3>2. \A i \in m + 1 .. m + n : all[i] # byte
      BY <1>3, <1>4, <2>1
    <3>3. \A i \in 1 .. m + n : i \in 1 .. m \/ i \in m + 1 .. m + n
      BY <1>3
    <3>4. \A i \in 1 .. m : i \in 1 .. m + n
      BY <1>3
    <3> QED BY <1>4, <3>1, <3>2, <3>3, <3>4
  <2>2. CASE byte \in r + 1 .. r + n
    <3>1. byte \notin skipped
      BY <2>2
    <3>2. m + (byte - r) \in DOMAIN all /\ all[m + (byte - r)] = byte
      BY <1>3, <1>4, <2>2
    <3> QED BY <3>1, <3>2
  <2> QED BY <2>1, <2>2
<1> QED BY <1>6, <1>7, <1>8 DEF InOrder, all, more

LEMMA Skipping ==
    ASSUME NEW seq \in Seq(Nat), NEW r \in Nat, NEW n \in Nat,
           NEW skipped \in SUBSET (1 .. r), InOrder(seq, r)
    PROVE  /\ InOrder(seq, r + n)
           /\ skipped \cup (r + 1 .. r + n) \subseteq 1 .. r + n
           /\ Covered(seq, skipped, r) =>
                Covered(seq, skipped \cup (r + 1 .. r + n), r + n)
<1>1. InOrder(seq, r + n)
  BY DEF InOrder
<1>2. skipped \cup (r + 1 .. r + n) \subseteq 1 .. r + n
  OBVIOUS
<1>3. ASSUME Covered(seq, skipped, r), NEW byte \in 1 .. r + n
      PROVE  byte \in skipped \cup (r + 1 .. r + n)
                <=> \A i \in DOMAIN seq : seq[i] # byte
  <2>1. CASE byte \in 1 .. r
    BY <1>3, <2>1 DEF Covered
  <2>2. CASE byte \in r + 1 .. r + n
    <3>1. \A i \in DOMAIN seq : seq[i] # byte
      BY <2>2 DEF InOrder
    <3> QED BY <2>2, <3>1
  <2> QED BY <2>1, <2>2
<1> QED BY <1>1, <1>2, <1>3 DEF Covered

\* What a packet does to the parser, its magic byte and the bytes it was
\* given.
LEMMA Parsing ==
    ASSUME WInv, NEW n \in 0 .. MaxApduSize, NEW b \in BOOLEAN,
           NEW closes \in BOOLEAN,
           packet_accepted(n, b), TakePacket(n, b, closes), parse_packet(n, b),
           asking' = "hash" => magic',
           prompt' = "operation" => magic_byte' = "operation"
    PROVE  /\ Unstarted' /\ Parsed' /\ Marked'
           /\ magic_byte' \in {"none", "operation", "michelson"}
           /\ parse' \in {"none", "going", "failed"}
           /\ parsed' \in Seq(Nat) /\ checked' \in Nat
           /\ unparsed' \subseteq Nat
           /\ reveal_key' \in {key, NoKey, Mangled}
           /\ magic' <=> magic_byte' # "none"
<1>0. n \in Nat /\ received \in Nat /\ received' = received + n
      /\ packet_index \in Nat /\ packet_index' = packet_index + 1
  BY SizeAssumption DEF WInv, Inv, TypeOK, TakePacket
<1>1. Unstarted'
  BY <1>0 DEF Unstarted
<1>2. parsed \in Seq(Nat) /\ checked \in Nat /\ parse \in {"none", "going", "failed"}
      /\ magic_byte \in {"none", "operation", "michelson"}
      /\ magic \in BOOLEAN /\ (magic <=> magic_byte # "none")
      /\ unparsed \subseteq Nat /\ reveal_key \in {key, NoKey, Mangled}
  BY DEF WInv, WalletTypeOK, TypeOK
<1>3. Bytes(received + 1, received + n) \in Seq(Nat)
  <2>1. received + 1 \in Nat \ {0} /\ received + n \in Nat
        /\ received + 1 <= received + n + 1
    BY <1>0
  <2> QED BY <2>1, Run
<1>a. unparsed \in SUBSET (1 .. received) /\ InOrder(parsed, received)
  BY DEF WInv, Parsed
<1>4. CASE ~b
  <2>1. /\ UNCHANGED <<magic_byte, reveal_key, parse, parsed, checked>>
        /\ unparsed' = unparsed \cup (received + 1 .. received + n)
        /\ magic' = magic
    BY <1>4, <1>2 DEF parse_packet, skip_packet, TakePacket
  <2>2. Parsed'
    BY <1>0, <1>2, <1>a, <2>1, Skipping DEF WInv, Parsed
  <2>3. Marked'
    BY <1>0, <2>1 DEF WInv, Marked
  <2>4. unparsed' \subseteq Nat
    BY <1>0, <1>2, <2>1
  <2> QED BY <1>1, <1>2, <2>1, <2>2, <2>3, <2>4, Zenon
<1>5. CASE b
  <2>1. /\ checked' = IF packet_index = 0 THEN received + 1 ELSE checked
        /\ magic_byte' \in IF packet_index = 0 THEN {"operation", "michelson"}
                                               ELSE {magic_byte}
        /\ magic' = (magic \/ packet_index = 0)
        /\ UNCHANGED unparsed
        /\ reveal_key' \in {key, reveal_key}
    BY <1>5, Zenon DEF parse_packet, parse_header, TakePacket
  <2>2. magic' <=> magic_byte' # "none"
    BY <1>2, <2>1
  <2>3. magic_byte' \in {"none", "operation", "michelson"} /\ checked' \in Nat
    BY <1>0, <1>2, <2>1
  <2>4. parsed' = IF magic_byte' = "operation"
                  THEN parsed \o Bytes(received + 1, received + n) ELSE parsed
    BY <1>5, Zenon DEF parse_packet
  <2>5. parse' \in {"none", "going", "failed"}
    BY <1>2, <1>5 DEF parse_packet
  <2>6. parsed' \in Seq(Nat)
    BY <1>2, <1>3, <2>4
  <2>7. Parsed'
    <3>1. unparsed' \subseteq 1 .. received'
      BY <1>0, <1>a, <2>1
    <3>2. CASE magic_byte' = "operation"
      <4>1. Covered(parsed, unparsed, received)
        <5>1. CASE packet_index = 0
          BY <5>1 DEF WInv, Unstarted, Covered
        <5>2. CASE packet_index # 0
          BY <2>1, <3>2, <5>2 DEF WInv, Parsed
        <5> QED BY <5>1, <5>2
      <4> QED
        BY <1>0, <1>2, <1>a, <2>1, <2>4, <3>1, <3>2, <4>1, Appending DEF Parsed
    <3>3. CASE magic_byte' # "operation"
      <4>1. parsed' = << >>
        <5>1. CASE packet_index = 0
          BY <2>4, <3>3, <5>1 DEF WInv, Unstarted
        <5>2. CASE packet_index # 0
          BY <2>1, <2>4, <3>3, <5>2 DEF WInv, Parsed
        <5> QED BY <5>1, <5>2
      <4> QED BY <3>1, <3>3, <4>1 DEF Parsed, InOrder
    <3> QED BY <3>2, <3>3
  <2>8. Marked'
    <3>1. ASSUME packet_index = 0 PROVE checked' = 1 /\ received' > 0
      <4>1. n > 0
        BY <1>5, <3>1, Zenon DEF packet_accepted
      <4>2. received = 0
        BY <3>1 DEF WInv, Unstarted
      <4> QED BY <1>0, <2>1, <3>1, <4>1, <4>2
    <3>2. ASSUME packet_index # 0, magic PROVE checked' = 1 /\ received' > 0
      BY <1>0, <2>1, <3>2 DEF WInv, Marked
    <3> QED BY <2>1, <3>1, <3>2 DEF Marked
  <2> QED BY <1>1, <1>2, <2>1, <2>2, <2>3, <2>5, <2>6, <2>7, <2>8
<1> QED BY <1>4, <1>5

\* The initial state.
LEMMA WalletStarts == WalletInit => WInv
<1> SUFFICES ASSUME WalletInit PROVE WInv
  OBVIOUS
<1>1. Inv
  BY Starts DEF WalletInit
<1>2. WalletTypeOK
  BY <1>1, EmptyBytes, NoReplyType
  DEF Inv, WalletInit, Init, WalletTypeOK, SignPrompts, HashPrompts,
      SignCallbacks
<1>3. Unstarted /\ Marked /\ HashStays
  BY DEF WalletInit, Init, Unstarted, Marked, HashStays
<1>4. Parsed
  BY DEF WalletInit, Init, Parsed, InOrder, Covered
<1> QED BY <1>1, <1>2, <1>3, <1>4 DEF WInv

LEMMA PositiveIndex == ASSUME NEW i \in 1 .. MaxPackets PROVE i # 0
BY SizeAssumption

\* A public key request keeps the type and what Unstarted and Marked say.
LEMMA OverlaidSession ==
    ASSUME WInv, Inv', NEW k \in Key, overlay(k), prompt = "none",
           prompt' \in {"none", "public key"},
           ok_callback' \in {ok_callback, "pubkey ok"},
           reply' \in [kind : {"none", "hash", "signature",
                               "hash and signature", "public key"},
                       over : Seq(Nat), key : Key \cup {NoKey}]
    PROVE  Extended'
<1>1. asking = "no"
  BY DEF WInv, WalletTypeOK, HashPrompts
<1>2. k # NoKey /\ k \in Key
  BY KeyAssumption
<1>3. WalletTypeOK'
  <2>1. TypeOK'
    BY DEF Inv
  <2>2. /\ key' \in Key \cup {NoKey} /\ reveal_key' = Mangled
        /\ (has_key' <=> key' # NoKey)
    BY <1>2 DEF overlay
  <2>3. /\ UNCHANGED <<magic, asking, magic_byte, parse, hash_only, parsed,
                       unparsed, checked>>
    BY DEF overlay
  <2>4. asking' = CASE prompt' \in HashPrompts -> "hash"
                    [] prompt' = "prehashed" -> "raw"
                    [] OTHER -> "no"
    BY <1>1, <2>3 DEF HashPrompts
  <2>5. prompt' \in SignPrompts \cup {"none", "public key"}
    OBVIOUS
  <2>6. ok_callback' \in SignCallbacks \cup {"none", "pubkey ok"}
    BY DEF WInv, WalletTypeOK
  <2> QED BY <2>1, <2>2, <2>3, <2>4, <2>5, <2>6 DEF WInv, WalletTypeOK
<1>4. Unstarted'
  <2>1. packet_index' \in 1 .. MaxPackets /\ MaxPackets \in Nat
    BY CurveAssumption, SizeAssumption, Zenon DEF overlay
  <2>2. packet_index' # 0
    BY <2>1, PositiveIndex, Zenon
  <2> QED BY <2>2, Zenon DEF Unstarted
<1>5. Parsed' /\ Marked' /\ HashStays'
  BY DEF WInv, overlay, Parsed, Marked, HashStays
<1> QED BY <1>3, <1>4, <1>5 DEF Extended

\* A packet keeps the type, given what became of the prompt.
LEMMA PacketSession ==
    ASSUME WInv, Inv', NEW n \in 0 .. MaxApduSize, NEW b \in BOOLEAN,
           NEW closes \in BOOLEAN, NEW only \in BOOLEAN,
           packet_accepted(n, b), TakePacket(n, b, closes), parse_packet(n, b),
           hash_only' = (hash_only \/ only),
           ok_callback' \in SignCallbacks \cup {"none", "pubkey ok"},
           UNCHANGED key, reply' = NoReply,
           asking' = "hash" => magic',
           IF closes THEN asking' = "hash" ELSE UNCHANGED final_hash,
           prompt' = "operation" => magic_byte' = "operation",
           prompt' \in SignPrompts \cup {"none"},
           asking' = CASE prompt' \in HashPrompts -> "hash"
                       [] prompt' = "prehashed" -> "raw"
                       [] OTHER -> "no"
    PROVE  Extended'
<1>1. /\ Unstarted' /\ Parsed' /\ Marked'
      /\ magic_byte' \in {"none", "operation", "michelson"}
      /\ parse' \in {"none", "going", "failed"}
      /\ parsed' \in Seq(Nat) /\ checked' \in Nat
      /\ unparsed' \subseteq Nat /\ reveal_key' \in {key, NoKey, Mangled}
      /\ (magic' <=> magic_byte' # "none")
  BY Parsing
<1>2. TypeOK'
  BY DEF Inv
<1>3. has_key' = has_key
  BY DEF TakePacket
<1>4. /\ key \in Key \cup {NoKey}
      /\ hash_only \in BOOLEAN /\ (has_key <=> key # NoKey)
  BY DEF WInv, WalletTypeOK
<1>5. WalletTypeOK'
  <2>1. hash_only' \in BOOLEAN
    BY <1>4
  <2>2. prompt' \in SignPrompts \cup {"none", "public key"}
    OBVIOUS
  <2>3. (has_key' <=> key' # NoKey) /\ key' \in Key \cup {NoKey}
        /\ reveal_key' \in {key', NoKey, Mangled}
    BY <1>1, <1>3, <1>4
  <2> QED
    BY <1>1, <1>2, <2>1, <2>2, <2>3, NoReplyType, Zenon DEF WalletTypeOK
<1>6. HashStays'
  <2>1. closed \in {"no", "once", "continued"} /\ HashStays
    BY DEF WInv, Inv, TypeOK
  <2>2. CASE closed' = "no"
    BY <2>1, <2>2 DEF HashStays, TakePacket
  <2>3. CASE closed' = "once"
    <3>1. asking' = "hash" /\ magic'
      BY <2>1, <2>3 DEF TakePacket
    <3> QED BY <2>3, <3>1 DEF HashStays, Inv, AsksForTheWholeMessage
  <2> QED BY <2>2, <2>3 DEF HashStays
<1> QED BY <1>1, <1>5, <1>6 DEF Extended

\* A prompt is over and the session stays.
LEMMA PromptGone ==
    ASSUME WInv, TypeOK', prompt' = "none", asking' = "no",
           UNCHANGED <<packet_index, has_key, magic, message_data, hash_state,
                       final_hash, received, hashing, closed>>,
           UNCHANGED <<session, ok_callback>>,
           reply' \in [kind : {"none", "hash", "signature",
                               "hash and signature", "public key"},
                       over : Seq(Nat), key : Key \cup {NoKey}]
    PROVE  Extended'
<1>1. UNCHANGED <<key, reveal_key, magic_byte, parse, hash_only, parsed,
                  unparsed, checked>>
  BY DEF session
<1>2. WalletTypeOK'
  <2>1. asking' = CASE prompt' \in HashPrompts -> "hash"
                    [] prompt' = "prehashed" -> "raw"
                    [] OTHER -> "no"
    BY DEF HashPrompts
  <2>2. prompt' \in SignPrompts \cup {"none", "public key"}
    OBVIOUS
  <2>3. /\ (has_key' <=> key' # NoKey) /\ (magic' <=> magic_byte' # "none")
        /\ key' \in Key \cup {NoKey} /\ reveal_key' \in {key', NoKey, Mangled}
    BY <1>1 DEF WInv, WalletTypeOK
  <2> QED BY <1>1, <2>1, <2>2, <2>3 DEF WInv, WalletTypeOK
<1>3. Unstarted' /\ Parsed' /\ Marked' /\ HashStays'
  BY <1>1 DEF WInv, Unstarted, Parsed, Marked, HashStays
<1> QED BY <1>2, <1>3 DEF Extended

\* An invariant of what the Wallet adds, with the buffer's.
LEMMA WalletSteps == WInv /\ [WalletNext]_wallet_vars => WInv'
<1> SUFFICES ASSUME WInv, [WalletNext]_wallet_vars PROVE WInv'
  OBVIOUS
<1>0. Inv' /\ TypeOK'
  BY BufferKept DEF WInv, Inv
<1> SUFFICES Extended'
  BY <1>0 DEF WInv, Extended
<1>1. ASSUME NEW k \in Key, p1_first(k) PROVE Extended'
  <2>1. asking' = "no" /\ prompt' = "none" /\ (has_key' <=> k # NoKey)
    BY <1>1, KeyAssumption DEF p1_first, Idle, sign_first, Waiting
  <2> QED
    BY <1>0, <1>1, <2>1, NoReplyType, ClearedSession
    DEF p1_first, sign_first, WInv, WalletTypeOK
<1>2. ASSUME NEW k \in Key, get_public_key(k) PROVE Extended'
  <2>1. reply' \in [kind : {"none", "hash", "signature", "hash and signature",
                            "public key"},
                    over : Seq(Nat), key : Key \cup {NoKey}]
    BY <1>2, EmptyBytes DEF get_public_key, PublicKeyReply
  <2> QED BY <1>0, <1>2, <2>1, OverlaidSession DEF get_public_key, Idle
<1>3. ASSUME NEW k \in Key, prompt_public_key(k) PROVE Extended'
  BY <1>0, <1>3, NoReplyType, OverlaidSession DEF prompt_public_key, Idle
<1>4. ASSUME NEW n \in 0 .. MaxApduSize, NEW only \in BOOLEAN,
             NEW instruction \in Instruction, p1_next(n, instruction, only)
      PROVE  Extended'
  <2> DEFINE b == instruction # INS_SIGN_UNSAFE
  <2>1. /\ b \in BOOLEAN /\ sign_next(n, b) /\ parse_packet(n, b)
        /\ prompt = "none" /\ hash_only' = (hash_only \/ only)
        /\ UNCHANGED <<key, prompt, ok_callback>> /\ reply' = NoReply
    BY <1>4, Zenon DEF p1_next, Idle
  <2> HIDE DEF b
  <2>2. packet_accepted(n, b) /\ TakePacket(n, b, FALSE) /\ asking' = "no"
        /\ UNCHANGED final_hash
    BY <2>1 DEF sign_next, packet_accepted, Waiting
  <2>3. ok_callback' \in SignCallbacks \cup {"none", "pubkey ok"}
    BY <2>1 DEF WInv, WalletTypeOK
  <2>4. asking' = CASE prompt' \in HashPrompts -> "hash"
                    [] prompt' = "prehashed" -> "raw"
                    [] OTHER -> "no"
    BY <2>1, <2>2 DEF HashPrompts
  <2> QED
    BY <1>0, <2>1, <2>2, <2>3, <2>4, PacketSession, Zenon
<1>5. ASSUME NEW n \in 0 .. MaxApduSize, NEW only \in BOOLEAN,
             NEW instruction \in Instruction,
             p1_last_hashed(n, instruction, only)
      PROVE  Extended'
  <2>1. /\ sign_last_hashed(n) /\ parse_packet(n, TRUE)
        /\ hash_only' = (hash_only \/ only)
        /\ ok_callback' \in SignCallbacks \cup {"none", "pubkey ok"}
        /\ UNCHANGED key /\ reply' = NoReply
    BY <1>5 DEF p1_last_hashed, SignCallbacks, HashCallbacks
  <2>2. prompt' \in IF magic_byte' = "operation" /\ parse' = "going"
                    THEN HashPrompts ELSE {"unrecognized"}
    BY <1>5, Zenon DEF p1_last_hashed
  <2>3. packet_accepted(n, TRUE) /\ TakePacket(n, TRUE, TRUE)
        /\ (magic \/ packet_index = 0) /\ asking' = "hash"
    BY <2>1, Zenon DEF sign_last_hashed
  <2>4. magic'
    BY <2>3 DEF TakePacket
  <2>5. prompt' \in HashPrompts
        /\ (prompt' = "operation" => magic_byte' = "operation")
    BY <2>2 DEF HashPrompts
  <2>6. asking' = CASE prompt' \in HashPrompts -> "hash"
                    [] prompt' = "prehashed" -> "raw"
                    [] OTHER -> "no"
    BY <2>3, <2>5 DEF HashPrompts
  <2>7. prompt' \in SignPrompts \cup {"none"}
    BY <2>5 DEF SignPrompts
  <2> QED
    BY <1>0, <2>1, <2>3, <2>4, <2>5, <2>6, <2>7, PacketSession, Zenon
<1>6. ASSUME NEW n \in 0 .. MaxApduSize, NEW only \in BOOLEAN,
             p1_last_unsafe(n, only)
      PROVE  Extended'
  <2>1. /\ sign_last_unsafe(n) /\ parse_packet(n, FALSE)
        /\ hash_only' = (hash_only \/ only)
        /\ prompt' = "prehashed"
        /\ ok_callback' = "sign unsafe ok"
        /\ UNCHANGED key /\ reply' = NoReply
    BY <1>6 DEF p1_last_unsafe
  <2>2. packet_accepted(n, FALSE) /\ TakePacket(n, FALSE, FALSE)
        /\ asking' = "raw" /\ UNCHANGED final_hash
    BY <2>1, Zenon DEF sign_last_unsafe
  <2>3. /\ ok_callback' \in SignCallbacks \cup {"none", "pubkey ok"}
        /\ prompt' \in SignPrompts \cup {"none"}
    BY <2>1 DEF SignPrompts, SignCallbacks
  <2>4. asking' = CASE prompt' \in HashPrompts -> "hash"
                    [] prompt' = "prehashed" -> "raw"
                    [] OTHER -> "no"
    BY <2>1, <2>2 DEF HashPrompts
  <2>5. asking' # "hash" /\ prompt' # "operation"
    BY <2>1, <2>2
  <2> QED
    BY <1>0, <2>1, <2>2, <2>3, <2>4, <2>5, PacketSession, Zenon
<1>7. CASE error
  <2>1. clear_data /\ clear_session(NoKey) /\ prompt' = "none"
        /\ reply' = NoReply /\ UNCHANGED ok_callback
    BY <1>7 DEF error, throw, Idle
  <2> QED
    BY <1>0, <2>1, NoReplyType, ClearedSession DEF clear_data, WInv, WalletTypeOK
<1>8. CASE sign_ok \/ sign_reject
  <2>1. clear_data /\ clear_session(NoKey) /\ prompt' = "none"
        /\ UNCHANGED ok_callback
    BY <1>8 DEF sign_ok, sign_reject, AnswerToSign
  <2>2. reply' \in [kind : {"none", "hash", "signature", "hash and signature",
                            "public key"},
                    over : Seq(Nat), key : Key \cup {NoKey}]
    <3>1. final_hash \in Seq(Nat) /\ message_data \in Seq(Nat)
          /\ key \in Key \cup {NoKey}
      BY DEF WInv, WalletTypeOK, TypeOK
    <3>2. CASE sign_ok
      BY <3>1, <3>2 DEF sign_ok, perform_signature
    <3>3. CASE sign_reject
      BY <3>3, NoReplyType DEF sign_reject
    <3> QED BY <1>8, <3>2, <3>3
  <2> QED
    BY <1>0, <2>1, <2>2, ClearedSession DEF clear_data, WInv, WalletTypeOK
<1>9. ASSUME NEW accepted \in BOOLEAN, answer_public_key(accepted)
      PROVE  Extended'
  <2>1. UNCHANGED vars /\ UNCHANGED <<session, ok_callback>>
        /\ prompt \in {"public key", "none"} /\ prompt' = "none"
    BY <1>9 DEF answer_public_key
  <2>2. reply' \in [kind : {"none", "hash", "signature", "hash and signature",
                            "public key"},
                    over : Seq(Nat), key : Key \cup {NoKey}]
    BY <1>9, EmptyBytes, NoReplyType DEF answer_public_key, PublicKeyReply
  <2>3. asking = "no"
    BY <2>1 DEF WInv, WalletTypeOK, HashPrompts
  <2> QED
    BY <1>0, <2>1, <2>2, <2>3, PromptGone DEF vars
<1>10. CASE reset
  <2>1. /\ UNCHANGED <<packet_index, has_key, magic, message_data, hash_state,
                       final_hash, received, hashing, closed>>
        /\ UNCHANGED <<session, ok_callback>> /\ prompt' = "none"
        /\ reply' = NoReply
    BY <1>10 DEF reset, io_reset, vars
  <2>2. asking' = "no"
    <3>1. CASE prompt \in SignPrompts
      BY <1>10, <3>1 DEF reset, io_reset
    <3>2. CASE prompt \notin SignPrompts
      BY <1>10, <3>2 DEF reset, vars, WInv, WalletTypeOK, SignPrompts, HashPrompts
    <3> QED BY <3>1, <3>2
  <2> QED
    BY <1>0, <2>1, <2>2, NoReplyType, PromptGone
<1>11. CASE restart
  BY <1>0, <1>11, NoReplyType, ClearedSession DEF restart, clear_data
<1>12. CASE UNCHANGED wallet_vars
  <2>1. UNCHANGED vars /\ UNCHANGED session
        /\ UNCHANGED <<prompt, ok_callback, reply>>
    BY <1>12 DEF wallet_vars
  <2>2. /\ UNCHANGED <<packet_index, has_key, magic, asking, received, hashing,
                       closed, final_hash>>
        /\ UNCHANGED <<key, reveal_key, magic_byte, parse, hash_only, parsed,
                       unparsed, checked, prompt, ok_callback, reply>>
    BY <2>1 DEF vars, session
  <2>3. WalletTypeOK'
    <3>2. WalletTypeOK
      BY DEF WInv
    <3>3. asking' = CASE prompt' \in HashPrompts -> "hash"
                      [] prompt' = "prehashed" -> "raw"
                      [] OTHER -> "no"
      BY <2>2, <3>2 DEF WalletTypeOK
    <3>4. /\ (has_key' <=> key' # NoKey) /\ (magic' <=> magic_byte' # "none")
          /\ key' \in Key \cup {NoKey} /\ reveal_key' \in {key', NoKey, Mangled}
      BY <2>2, <3>2 DEF WalletTypeOK
    <3> QED BY <1>0, <2>2, <3>2, <3>3, <3>4 DEF WalletTypeOK
  <2>4. Unstarted' /\ Parsed' /\ Marked' /\ HashStays'
    BY <2>2 DEF WInv, Unstarted, Parsed, Marked, HashStays
  <2> QED BY <2>3, <2>4 DEF Extended
<1> QED
  BY <1>1, <1>2, <1>3, <1>4, <1>5, <1>6, <1>7, <1>8, <1>9, <1>10, <1>11, <1>12,
     Zenon DEF WalletNext

\* The buffer's invariant and what the Wallet relates to it hold in every
\* session.
THEOREM WalletInductive == WalletSpec => []WInv
BY WalletStarts, WalletSteps, PTL DEF WalletSpec

-----------------------------------------------------------------------------
(* The properties.                                                         *)

\* Every variable keeps its type, and both modules tell the same of a session.
THEOREM WalletTyping == WalletSpec => []WalletTypeOK
<1>1. WInv => WalletTypeOK
  BY DEF WInv
<1> QED BY <1>1, WalletInductive, PTL

\* The Wallet's sessions lose no byte either, whatever key requests come in
\* between.
THEOREM WalletKeepsBytes == WalletSpec => []NothingLost
<1>1. WInv => NothingLost
  BY Kept DEF WInv
<1> QED BY <1>1, WalletInductive, PTL

\* They hash whole blocks, and leave the last byte for the closing call.
THEOREM WalletHashesBlocks == WalletSpec => []WholeBlocks
<1>1. WInv => WholeBlocks
  BY InBlocks DEF WInv
<1> QED BY <1>1, WalletInductive, PTL

\* Their packets that are hashed always find room.
THEOREM WalletHasRoom == WalletSpec => []HashedPacketsFit
<1>1. WInv => HashedPacketsFit
  BY HasRoom DEF WInv
<1> QED BY <1>1, WalletInductive, PTL

\* Their users are asked for the whole message.
THEOREM WalletAsksForAll == WalletSpec => []AsksForTheWholeMessage
<1>1. WInv => AsksForTheWholeMessage
  BY DEF WInv, Inv
<1> QED BY <1>1, WalletInductive, PTL

\* Behind an operation on display the parser has had every byte but those of
\* INS_SIGN_UNSAFE, in order and once.
THEOREM BytesAreParsed == WalletSpec => []OnlyUnsafeBytesGoUnparsed
<1>1. WInv => OnlyUnsafeBytesGoUnparsed
  BY DEF WInv, Marked, Parsed, InOrder, Covered, OnlyUnsafeBytesGoUnparsed
<1> QED BY <1>1, WalletInductive, PTL

\* A hash is asked for only where the message's own first byte was the one
\* checked.
THEOREM FirstByteChecked == WalletSpec => []MagicByteIsFirst
<1>1. WInv => MagicByteIsFirst
  <2> SUFFICES ASSUME WInv, asking = "hash", closed = "once"
               PROVE  checked = 1 /\ Head(final_hash) = 1
    BY DEF MagicByteIsFirst
  <2>1. checked = 1 /\ received > 0
    BY DEF WInv, Marked
  <2>2. final_hash = Bytes(1, received) /\ received \in Nat
    BY DEF WInv, Inv, TypeOK, AsksForTheWholeMessage
  <2>3. Head(Bytes(1, received)) = 1
    <3>1. Bytes(1, received) \in Seq(Nat) /\ Len(Bytes(1, received)) > 0
      BY <2>1, <2>2, Run
    <3>2. Head(Bytes(1, received)) = Bytes(1, received)[1]
      BY <3>1
    <3>3. Bytes(1, received)[1] = 1
      BY <2>1, <2>2, SMT DEF Bytes
    <3> QED BY <3>2, <3>3
  <2> QED BY <2>1, <2>2, <2>3
<1> QED BY <1>1, WalletInductive, PTL

\* Whoever runs the callback and whenever, the hash signed is that of a whole
\* message, or no hash at all, unless packets followed a finished one.
THEOREM WholeMessagesSigned == WalletSpec => SignedHashesAreOfWholeMessages
<1>1. WInv /\ [WalletNext]_wallet_vars =>
        [sign_ok /\ ok_callback \in HashCallbacks =>
            \/ closed = "no" /\ reply'.over = << >>
            \/ closed = "once" /\ reply'.over = Bytes(1, received) /\ checked = 1
            \/ closed = "continued"]_wallet_vars
  <2> SUFFICES ASSUME WInv, sign_ok, ok_callback \in HashCallbacks,
                      closed # "continued"
               PROVE  \/ closed = "no" /\ reply'.over = << >>
                      \/ /\ closed = "once"
                         /\ reply'.over = Bytes(1, received) /\ checked = 1
    OBVIOUS
  <2>1. reply' = perform_signature(TRUE, ok_callback = "sign with hash ok")
    BY DEF sign_ok, HashCallbacks
  <2>2. reply'.over = final_hash
    <3>1. CASE hash_only
      BY <2>1, <3>1 DEF perform_signature
    <3>2. CASE ~hash_only
      BY <2>1, <3>2 DEF perform_signature
    <3> QED BY <3>1, <3>2
  <2>3. closed \in {"no", "once"}
    BY DEF WInv, Inv, TypeOK
  <2> QED BY <2>2, <2>3 DEF WInv, HashStays, Marked
<1> QED
  BY <1>1, WalletInductive, PTL DEF WalletSpec, SignedHashesAreOfWholeMessages

=============================================================================
