-------------------------- MODULE SignBufferProofs --------------------------
(***************************************************************************)
(* For every block and packet size: the buffer never overflows with a      *)
(* packet that is hashed, no byte of a message is lost on its way into the *)
(* hash, and the user is asked for the whole message.  The invariant names *)
(* the point the hash has reached; what is hashed lies before it and what  *)
(* is kept after it.                                                       *)
(***************************************************************************)
EXTENDS SignBuffer, TLAPS

\* What is hashed and kept of a message of r bytes when h are hashed.
HashedUpTo(h, r, data, state) ==
    /\ data = Bytes(h + 1, r)
    /\ state.input = Bytes(1, h)
    /\ ~state.initialized => h = 0

Split ==
    closed = "no" => \E h \in 0 .. received, k \in Nat :
        /\ HashedUpTo(h, received, message_data, hash_state)
        /\ h = BlockBytes * k
        /\ h = 0 \/ h < received
        /\ TRUE \notin hashing => h = 0

Closing ==
    /\ closed # "no" => TRUE \in hashing
    /\ asking = "hash" => closed # "no"

Inv == TypeOK /\ Split /\ Closing /\ AsksForTheWholeMessage

-----------------------------------------------------------------------------
(* Arithmetic and sequences.                                               *)

\* The blocks taken are whole, at most one block is left, and something is.
LEMMA Whole ==
    ASSUME NEW len \in Nat
    PROVE  /\ HashedLength(len) \in 0 .. len
           /\ len - HashedLength(len) <= BlockBytes
           /\ len > 0 => HashedLength(len) < len
           /\ \E q \in Nat : HashedLength(len) = BlockBytes * q
<1>0. BlockBytes \in Nat \ {0}
  BY SizeAssumption
<1>1. CASE len = 0
  <2>1. HashedLength(len) = 0 /\ 0 = BlockBytes * 0
    BY <1>0, <1>1, SMT DEF HashedLength
  <2> QED BY <1>0, <1>1, <2>1
<1>2. CASE len > 0
  <2> DEFINE q == (len - 1) \div BlockBytes
             r == (len - 1) % BlockBytes
  <2>1. q \in Nat /\ r \in 0 .. BlockBytes - 1 /\ len - 1 = BlockBytes * q + r
    BY <1>0, <1>2, SMT
  <2>2. BlockBytes * q \in Nat
    BY <1>0, <2>1, SMT
  <2>3. HashedLength(len) = BlockBytes * q
    BY <1>2 DEF HashedLength
  <2>4. \E k \in Nat : HashedLength(len) = BlockBytes * k
    BY <2>1, <2>3, Zenon
  <2>5. HashedLength(len) \in Nat /\ len - 1 = HashedLength(len) + r
    BY <2>1, <2>2, <2>3
  <2> HIDE DEF r
  <2> QED BY <1>0, <2>1, <2>4, <2>5
<1> QED BY <1>1, <1>2

\* Runs of positions are sequences, join and can be cut.
LEMMA Run ==
    ASSUME NEW a \in Nat \ {0}, NEW b \in Nat, a <= b + 1
    PROVE  Bytes(a, b) \in Seq(Nat) /\ Len(Bytes(a, b)) = b - a + 1
BY SMT DEF Bytes

LEMMA Join ==
    ASSUME NEW a \in Int, NEW b \in Int, NEW c \in Int, a <= b + 1, b <= c
    PROVE  Bytes(a, b) \o Bytes(b + 1, c) = Bytes(a, c)
<1>1. Bytes(a, b) \in Seq(Int) /\ Len(Bytes(a, b)) = b - a + 1
  BY SMT DEF Bytes
<1>2. Bytes(b + 1, c) \in Seq(Int) /\ Len(Bytes(b + 1, c)) = c - b
  BY SMT DEF Bytes
<1>3. Bytes(a, c) \in Seq(Int) /\ Len(Bytes(a, c)) = c - a + 1
  BY SMT DEF Bytes
<1> QED BY <1>1, <1>2, <1>3, SMT DEF Bytes

LEMMA Cut ==
    ASSUME NEW h \in Nat, NEW r \in Nat, NEW n \in Nat, h + n <= r
    PROVE  /\ SubSeq(Bytes(h + 1, r), 1, n) = Bytes(h + 1, h + n)
           /\ SubSeq(Bytes(h + 1, r), n + 1, r - h) = Bytes(h + n + 1, r)
<1>1. Bytes(h + 1, r) \in Seq(Nat) /\ Len(Bytes(h + 1, r)) = r - h
  BY SMT DEF Bytes
<1> QED BY <1>1, SMT DEF Bytes

\* blake2b_incremental_hash only moves the point the hash has reached.
LEMMA Flush ==
    ASSUME NEW r \in Nat, NEW h \in 0 .. r, NEW data,
           NEW state \in [initialized : BOOLEAN, input : Seq(Nat)],
           HashedUpTo(h, r, data, state)
    PROVE  LET n == HashedLength(r - h)
               f == blake2b_incremental_hash(data, state)
           IN  /\ HashedUpTo(h + n, r, f.data, f.state)
               /\ f.state \in [initialized : BOOLEAN, input : Seq(Nat)]
<1> DEFINE n == HashedLength(r - h)
           f == blake2b_incremental_hash(data, state)
           Moved == /\ HashedUpTo(h + n, r, f.data, f.state)
                    /\ f.state \in [initialized : BOOLEAN, input : Seq(Nat)]
<1>0. r - h \in Nat
  OBVIOUS
<1>1. n \in 0 .. r - h
  BY <1>0, Whole
<1>a. n \in Nat /\ h \in Nat /\ h + n \in Nat /\ h + n <= r /\ h <= h + n
  <2> HIDE DEF n
  <2> QED BY <1>1
<1>2. Len(data) = r - h
  BY SMT DEF HashedUpTo, Bytes
<1>3. f.data = Bytes(h + n + 1, r)
  <2>1. f.data = SubSeq(Bytes(h + 1, r), n + 1, r - h)
    BY <1>2, Zenon DEF HashedUpTo, blake2b_incremental_hash
  <2> HIDE DEF n, f
  <2> QED BY <1>a, <2>1, Cut
<1>4. ASSUME n = 0 PROVE Moved
  <2>1. f.state = state
    BY <1>2, <1>4, Zenon DEF blake2b_incremental_hash
  <2>2. h + n = h
    BY <1>4
  <2> HIDE DEF n, f
  <2> QED BY <1>3, <2>1, <2>2 DEF HashedUpTo
<1>5. ASSUME n # 0 PROVE Moved
  <2>1. conditional_init_hash_state(state).input = Bytes(1, h)
    BY SMT DEF HashedUpTo, conditional_init_hash_state, Bytes
  <2>2. SubSeq(data, 1, n) = Bytes(h + 1, h + n)
    <3> HIDE DEF n
    <3> QED BY <1>a, Cut DEF HashedUpTo
  <2>3. f.state = [initialized |-> TRUE, input |-> Bytes(1, h) \o Bytes(h + 1, h + n)]
    BY <1>2, <1>5, <2>1, <2>2, Zenon DEF blake2b_incremental_hash
  <2>4. Bytes(1, h) \o Bytes(h + 1, h + n) = Bytes(1, h + n)
    <3> HIDE DEF n
    <3>1. 1 <= h + 1 /\ 1 \in Int /\ h \in Int /\ h + n \in Int
      BY <1>a
    <3> QED BY <1>a, <3>1, Join
  <2>5. Bytes(1, h + n) \in Seq(Nat)
    <3> HIDE DEF n
    <3> QED BY <1>a, Run
  <2>6. f.state = [initialized |-> TRUE, input |-> Bytes(1, h + n)]
    BY <2>3, <2>4
  <2> HIDE DEF n, f
  <2>7. f.state.initialized /\ f.state.input = Bytes(1, h + n)
        /\ f.state \in [initialized : BOOLEAN, input : Seq(Nat)]
    BY <2>5, <2>6
  <2> QED BY <1>3, <2>7 DEF HashedUpTo
<1>6. Moved
  <2> HIDE DEF Moved
  <2> QED BY <1>4, <1>5
<1> QED BY <1>6

-----------------------------------------------------------------------------
(* The invariant.                                                          *)

\* A new session, and a cleared one.
LEMMA Fresh ==
    ASSUME packet_index' = 0, has_key' \in BOOLEAN, magic' = FALSE,
           message_data' = << >>, hash_state' = NoHash, final_hash' = << >>,
           asking' = "no", received' = 0, hashing' = {}, closed' = "no"
    PROVE  Inv'
<1>0. << >> \in Seq(Nat) /\ Len(<< >>) = 0
  OBVIOUS
<1>1. TypeOK'
  <2>1. hash_state' \in [initialized : BOOLEAN, input : Seq(Nat)]
    BY <1>0 DEF NoHash
  <2>2. packet_index' \in 0 .. MaxPackets /\ 0 <= BufSize
    BY SizeAssumption DEF BufSize
  <2>3. magic' \in BOOLEAN /\ hashing' \subseteq BOOLEAN
    OBVIOUS
  <2>4. message_data' \in Seq(Nat) /\ Len(message_data') <= BufSize
        /\ final_hash' \in Seq(Nat)
    BY <1>0, <2>2
  <2> QED BY <2>1, <2>2, <2>3, <2>4 DEF TypeOK
<1>2. Bytes(1, 0) = << >> /\ BlockBytes * 0 = 0
  BY SizeAssumption, SMT DEF Bytes
<1>3. Split'
  <2>1. HashedUpTo(0, received', message_data', hash_state')
    BY <1>2 DEF HashedUpTo, NoHash
  <2>2. 0 \in 0 .. received' /\ 0 \in Nat
    OBVIOUS
  <2> QED BY <1>2, <2>1, <2>2 DEF Split
<1>4. Closing' /\ AsksForTheWholeMessage'
  BY DEF Closing, AsksForTheWholeMessage
<1> QED BY <1>1, <1>3, <1>4 DEF Inv

\* What the flush before a packet leaves of the buffer is one block at most,
\* whatever was in it.
LEMMA FlushedLength ==
    ASSUME NEW data \in Seq(Nat),
           NEW state \in [initialized : BOOLEAN, input : Seq(Nat)]
    PROVE  LET f == blake2b_incremental_hash(data, state)
           IN  /\ f.data \in Seq(Nat) /\ Len(f.data) <= BlockBytes
               /\ f.state \in [initialized : BOOLEAN, input : Seq(Nat)]
<1> DEFINE n == HashedLength(Len(data))
           f == blake2b_incremental_hash(data, state)
<1>1. n \in 0 .. Len(data) /\ Len(data) - n <= BlockBytes /\ Len(data) \in Nat
  BY Whole
<1>2. f.data = SubSeq(data, n + 1, Len(data))
  BY Zenon DEF blake2b_incremental_hash
<1>3. f.state = IF n = 0 THEN state
                ELSE [initialized |-> TRUE,
                      input |-> conditional_init_hash_state(state).input
                                \o SubSeq(data, 1, n)]
  BY Zenon DEF blake2b_incremental_hash
<1>4. SubSeq(data, n + 1, Len(data)) \in Seq(Nat)
      /\ Len(SubSeq(data, n + 1, Len(data))) = Len(data) - n
      /\ SubSeq(data, 1, n) \in Seq(Nat)
  <2> HIDE DEF n
  <2> QED BY <1>1
<1>5. conditional_init_hash_state(state).input \in Seq(Nat)
  BY DEF conditional_init_hash_state
<1> HIDE DEF n
<1>6. f.state \in [initialized : BOOLEAN, input : Seq(Nat)]
  <2> HIDE DEF f
  <2> QED BY <1>3, <1>4, <1>5
<1>7. f.data \in Seq(Nat) /\ Len(f.data) <= BlockBytes
  <2> HIDE DEF f
  <2> QED BY <1>1, <1>2, <1>4
<1> QED BY <1>6, <1>7

\* A packet of n bytes: types, room, and where the hash has got to.
LEMMA Packet ==
    ASSUME Inv, NEW n \in 0 .. MaxApduSize, NEW b \in BOOLEAN
    PROVE  LET t == Taken(n, b)
           IN  /\ t.data \in Seq(Nat)
               /\ b => Len(t.data) <= BufSize
               /\ t.state \in [initialized : BOOLEAN, input : Seq(Nat)]
               /\ closed = "no" => \E h \in 0 .. received + n, k \in Nat :
                     /\ HashedUpTo(h, received + n, t.data, t.state)
                     /\ h = BlockBytes * k
                     /\ h = 0 \/ h < received + n
                     /\ ~b /\ TRUE \notin hashing => h = 0
<1> DEFINE t == Taken(n, b)
           f == blake2b_incremental_hash(message_data, hash_state)
           new == Bytes(received + 1, received + n)
<1>0. n \in Nat /\ n <= MaxApduSize /\ MaxApduSize \in Nat
      /\ BlockBytes \in Nat \ {0} /\ received \in Nat
  BY SizeAssumption DEF Inv, TypeOK
<1>1. new \in Seq(Nat) /\ Len(new) = n
  BY <1>0, SMT DEF Bytes
<1>2. message_data \in Seq(Nat)
      /\ hash_state \in [initialized : BOOLEAN, input : Seq(Nat)]
  BY DEF Inv, TypeOK
<1>3. /\ f.data \in Seq(Nat) /\ Len(f.data) <= BlockBytes
      /\ f.state \in [initialized : BOOLEAN, input : Seq(Nat)]
  BY <1>2, FlushedLength
<1>4. ASSUME b PROVE t.data = f.data \o new /\ t.state = f.state
  BY <1>4, Zenon DEF Taken
<1>5. ASSUME ~b PROVE t.data = message_data \o new /\ t.state = hash_state
  BY <1>5, Zenon DEF Taken
<1>6. t.data \in Seq(Nat) /\ (b => Len(t.data) <= BufSize)
      /\ t.state \in [initialized : BOOLEAN, input : Seq(Nat)]
  <2> HIDE DEF t, f, new
  <2>1. CASE b
    <3>1. t.data = f.data \o new /\ t.state = f.state
      BY <1>4, <2>1
    <3>2. f.data \o new \in Seq(Nat) /\ Len(f.data \o new) <= BufSize
      BY <1>0, <1>1, <1>3 DEF BufSize
    <3>3. t.data \in Seq(Nat) /\ Len(t.data) <= BufSize
      BY <3>1, <3>2, Zenon
    <3>4. t.state \in [initialized : BOOLEAN, input : Seq(Nat)]
      BY <1>3, <3>1, Zenon
    <3> QED BY <3>3, <3>4, Zenon
  <2>2. CASE ~b
    <3>1. t.data = message_data \o new /\ t.state = hash_state
      BY <1>5, <2>2
    <3>2. message_data \o new \in Seq(Nat)
      BY <1>1, <1>2
    <3>3. t.state \in [initialized : BOOLEAN, input : Seq(Nat)]
      BY <1>2, <3>1, Zenon
    <3> QED BY <2>2, <3>1, <3>2, <3>3, Zenon
  <2> QED BY <2>1, <2>2, Zenon
<1>7. ASSUME closed = "no"
      PROVE  \E h \in 0 .. received + n, k \in Nat :
                     /\ HashedUpTo(h, received + n, t.data, t.state)
                     /\ h = BlockBytes * k
                     /\ h = 0 \/ h < received + n
                     /\ ~b /\ TRUE \notin hashing => h = 0
  <2>1. PICK h \in 0 .. received, k \in Nat :
            /\ HashedUpTo(h, received, message_data, hash_state)
            /\ h = BlockBytes * k
            /\ h = 0 \/ h < received
            /\ TRUE \notin hashing => h = 0
    BY <1>7 DEF Inv, Split
  <2>2. CASE ~b
    <3>1. HashedUpTo(h, received + n, t.data, t.state)
      <4>1. Bytes(h + 1, received) \o Bytes(received + 1, received + n)
              = Bytes(h + 1, received + n)
        <5>1. h + 1 \in Int /\ received \in Int /\ received + n \in Int
              /\ h + 1 <= received + 1 /\ received <= received + n
          BY <1>0, <2>1
        <5> QED BY <5>1, Join
      <4> HIDE DEF t
      <4> QED BY <1>5, <2>1, <2>2, <4>1 DEF HashedUpTo
    <3>2. h \in 0 .. received + n /\ (h = 0 \/ h < received + n)
      BY <1>0, <2>1
    <3> HIDE DEF t
    <3> QED BY <2>1, <2>2, <3>1, <3>2
  <2>3. CASE b
    <3> DEFINE m == HashedLength(received - h)
    <3>1. received - h \in Nat
      BY <1>0
    <3>2. PICK q \in Nat : m = BlockBytes * q
      BY <3>1, Whole
    <3>3. m \in 0 .. received - h /\ (received - h > 0 => m < received - h)
      BY <3>1, Whole
    <3>4. HashedUpTo(h + m, received, f.data, f.state)
      BY <1>0, <1>2, <2>1, Flush
    <3>5. h + m = BlockBytes * (k + q) /\ k + q \in Nat
      <4> HIDE DEF m
      <4> QED BY <1>0, <2>1, <3>2, SMT
    <3>6. h + m \in Nat /\ h + m <= received
          /\ (h + m = 0 \/ h + m < received + n)
      <4> HIDE DEF m
      <4> QED BY <1>0, <2>1, <3>3
    <3>7. HashedUpTo(h + m, received + n, t.data, t.state)
      <4> HIDE DEF m, t, f
      <4>1. Bytes(h + m + 1, received) \o Bytes(received + 1, received + n)
              = Bytes(h + m + 1, received + n)
        <5>1. h + m + 1 \in Int /\ received \in Int /\ received + n \in Int
              /\ h + m + 1 <= received + 1 /\ received <= received + n
          BY <1>0, <3>6
        <5> QED BY <5>1, Join
      <4> QED BY <1>4, <2>3, <3>4, <4>1 DEF HashedUpTo
    <3>8. h + m \in 0 .. received + n
      <4> HIDE DEF m
      <4> QED BY <1>0, <3>6
    <3> HIDE DEF m, t
    <3> QED BY <2>3, <3>5, <3>6, <3>7, <3>8, Zenon
  <2> QED BY <2>2, <2>3
<1> QED BY <1>6, <1>7

\* A packet that does not close the hash.
LEMMA KeepsInv ==
    ASSUME Inv, NEW n \in 0 .. MaxApduSize, NEW b \in BOOLEAN,
           packet_accepted(n, b), TakePacket(n, b, FALSE),
           message_data' = Taken(n, b).data, hash_state' = Taken(n, b).state,
           final_hash' = final_hash, asking' \in {"no", "raw"},
           asking' = "raw" => ~b
    PROVE  Inv'
<1> DEFINE t == Taken(n, b)
<1>0. n \in Nat /\ received \in Nat /\ received' = received + n
  BY SizeAssumption DEF Inv, TypeOK, TakePacket
<1>1. /\ t.data \in Seq(Nat) /\ Len(t.data) <= BufSize
      /\ t.state \in [initialized : BOOLEAN, input : Seq(Nat)]
  <2>1. t.data \in Seq(Nat)
        /\ t.state \in [initialized : BOOLEAN, input : Seq(Nat)]
    BY Packet
  <2>2. Len(t.data) <= BufSize
    <3>1. ~(Len(t.data) > BufSize)
      BY DEF packet_accepted, overflows
    <3>2. Len(t.data) \in Nat /\ BufSize \in Nat
      BY <2>1, SizeAssumption DEF BufSize
    <3> HIDE DEF t
    <3> QED BY <3>1, <3>2
  <2> QED BY <2>1, <2>2
<1>2. hashing' = hashing \cup {b}
      /\ closed' = IF closed # "no" THEN "continued" ELSE "no"
  BY DEF TakePacket
<1>3. TypeOK'
  <2>1. packet_index' \in 0 .. MaxPackets
    BY SizeAssumption DEF packet_accepted, TakePacket, Inv, TypeOK
  <2>2. magic' \in BOOLEAN /\ has_key' \in BOOLEAN
    BY DEF TakePacket, Inv, TypeOK
  <2>3. hashing' \subseteq BOOLEAN /\ closed' \in {"no", "once", "continued"}
    BY <1>2, Zenon DEF Inv, TypeOK
  <2>4. message_data' \in Seq(Nat) /\ Len(message_data') <= BufSize
        /\ hash_state' \in [initialized : BOOLEAN, input : Seq(Nat)]
    BY <1>1, Zenon
  <2>5. received' \in Nat /\ final_hash' \in Seq(Nat)
        /\ asking' \in {"no", "hash", "raw"}
    BY <1>0 DEF Inv, TypeOK
  <2> QED BY <2>1, <2>2, <2>3, <2>4, <2>5 DEF TypeOK
<1>4. ASSUME closed = "no"
      PROVE  \E h \in 0 .. received + n, k \in Nat :
                     /\ HashedUpTo(h, received + n, message_data', hash_state')
                     /\ h = BlockBytes * k
                     /\ h = 0 \/ h < received + n
                     /\ ~b /\ TRUE \notin hashing => h = 0
  BY <1>4, Packet, Zenon
<1>5. Split'
  <2> SUFFICES ASSUME closed' = "no"
               PROVE  \E h \in 0 .. received', k \in Nat :
                         /\ HashedUpTo(h, received', message_data', hash_state')
                         /\ h = BlockBytes * k
                         /\ h = 0 \/ h < received'
                         /\ TRUE \notin hashing' => h = 0
    BY DEF Split
  <2>1. closed = "no"
    BY <1>2
  <2>2. TRUE \notin hashing' => ~b /\ TRUE \notin hashing
    BY <1>2, Zenon
  <2> QED BY <1>0, <1>4, <2>1, <2>2, Zenon
<1>6. Closing'
  BY <1>2 DEF Inv, Closing
<1>7. AsksForTheWholeMessage'
  <2> SUFFICES ASSUME asking' = "raw", hashing' = {FALSE}
               PROVE  message_data' = Bytes(1, received')
    BY DEF AsksForTheWholeMessage
  <2>1. TRUE \notin hashing /\ ~b
    BY <1>2, Zenon
  <2>2. closed = "no"
    BY <2>1 DEF Inv, Closing
  <2>3. HashedUpTo(0, received', message_data', hash_state')
    BY <1>0, <1>4, <2>1, <2>2, Zenon
  <2> QED BY <2>3 DEF HashedUpTo
<1> QED BY <1>3, <1>5, <1>6, <1>7 DEF Inv

\* The packet that closes the hash.
LEMMA ClosesInv ==
    ASSUME Inv, NEW n \in 0 .. MaxApduSize, sign_last_hashed(n)
    PROVE  Inv'
<1> DEFINE t    == Taken(n, TRUE)
           tail == blake2b_incremental_hash(t.data, t.state)
           init == conditional_init_hash_state(tail.state).input
           all  == init \o tail.data
<1>a. packet_accepted(n, TRUE) /\ TakePacket(n, TRUE, TRUE)
  BY Zenon DEF sign_last_hashed
<1>0. n \in Nat /\ received \in Nat /\ received' = received + n
  <2> HIDE DEF t, tail, init, all
  <2> QED BY <1>a, SizeAssumption DEF Inv, TypeOK, TakePacket
<1>1. /\ t.data \in Seq(Nat)
      /\ t.state \in [initialized : BOOLEAN, input : Seq(Nat)]
  BY Packet
<1>2. /\ tail.data \in Seq(Nat) /\ Len(tail.data) <= BlockBytes
      /\ tail.state \in [initialized : BOOLEAN, input : Seq(Nat)]
  BY <1>1, FlushedLength
<1>3. all \in Seq(Nat)
  <2>1. init \in Seq(Nat)
    <3>1. tail.state.input \in Seq(Nat)
      <4> HIDE DEF tail
      <4> QED BY <1>2
    <3>2. init = tail.state.input \/ init = << >>
      BY Zenon DEF conditional_init_hash_state
    <3>3. << >> \in Seq(Nat)
      OBVIOUS
    <3> QED BY <3>1, <3>2, <3>3, Zenon
  <2> HIDE DEF init, tail
  <2> QED BY <1>2, <2>1
<1>4. message_data' = tail.data /\ final_hash' = all /\ asking' = "hash"
      /\ \E left \in {all, << >>} :
            hash_state' = [initialized |-> TRUE, input |-> left]
  BY Zenon DEF sign_last_hashed
<1>5. hashing' = hashing \cup {TRUE}
      /\ closed' = IF closed # "no" THEN "continued" ELSE "once"
  BY <1>a, Zenon DEF TakePacket
<1> HIDE DEF all
<1>6. TypeOK'
  <2>1. packet_index' \in 0 .. MaxPackets
    <3> HIDE DEF t, tail, init
    <3> QED BY <1>a, SizeAssumption DEF packet_accepted, TakePacket, Inv, TypeOK
  <2>2. magic' \in BOOLEAN /\ has_key' \in BOOLEAN
    BY <1>a, Zenon DEF TakePacket, Inv, TypeOK
  <2>3. hashing' \subseteq BOOLEAN /\ closed' \in {"no", "once", "continued"}
    BY <1>5, Zenon DEF Inv, TypeOK
  <2>4. Len(message_data') <= BufSize
    <3>1. Len(message_data') \in Nat /\ Len(message_data') <= BlockBytes
      <4> HIDE DEF tail
      <4> QED BY <1>2, <1>4
    <3> QED BY <3>1, SizeAssumption DEF BufSize
  <2>5. hash_state' \in [initialized : BOOLEAN, input : Seq(Nat)]
    <3>1. PICK left \in {all, << >>} :
            hash_state' = [initialized |-> TRUE, input |-> left]
      BY <1>4, Zenon
    <3>2. left \in Seq(Nat)
      <4>1. << >> \in Seq(Nat)
        OBVIOUS
      <4> QED BY <1>3, <3>1, <4>1, Zenon
    <3> QED BY <3>1, <3>2
  <2>6. message_data' \in Seq(Nat) /\ final_hash' \in Seq(Nat)
    BY <1>2, <1>3, <1>4, Zenon
  <2>7. received' \in Nat /\ asking' \in {"no", "hash", "raw"}
    <3> HIDE DEF tail, init
    <3> QED BY <1>0, <1>4
  <2> QED BY <2>1, <2>2, <2>3, <2>4, <2>5, <2>6, <2>7 DEF TypeOK
<1>7. AsksForTheWholeMessage'
  <2> SUFFICES ASSUME closed = "no" PROVE all = Bytes(1, received')
    BY <1>4, <1>5 DEF AsksForTheWholeMessage
  <2>1. PICK h \in 0 .. received' : HashedUpTo(h, received', t.data, t.state)
    BY <1>0, Packet, Zenon
  <2> DEFINE m == HashedLength(received' - h)
  <2>2. HashedUpTo(h + m, received', tail.data, tail.state)
    <3>1. received' \in Nat
      BY <1>0
    <3> HIDE DEF t
    <3> QED BY <3>1, <1>1, <2>1, Flush, Zenon
  <2>3. received' - h \in Nat
    BY <1>0
  <2>4. m \in 0 .. received' - h
    BY <2>3, Whole
  <2>5. h + m \in Nat /\ h + m <= received' /\ received' \in Nat
    <3> HIDE DEF m
    <3> QED BY <1>0, <2>4
  <2>6. init = Bytes(1, h + m)
    <3>1. tail.state.initialized => init = tail.state.input
      BY Zenon DEF conditional_init_hash_state
    <3>2. ~tail.state.initialized => init = << >>
      BY DEF conditional_init_hash_state
    <3>3. Bytes(1, 0) = << >>
      BY SMT DEF Bytes
    <3>4. tail.state.input = Bytes(1, h + m)
          /\ (~tail.state.initialized => h + m = 0)
      BY <2>2 DEF HashedUpTo
    <3> HIDE DEF m, init, tail
    <3> QED BY <3>1, <3>2, <3>3, <3>4, Zenon
  <2>7. tail.data = Bytes(h + m + 1, received')
    BY <2>2, Zenon DEF HashedUpTo
  <2>8. Bytes(1, h + m) \o Bytes(h + m + 1, received') = Bytes(1, received')
    <3> HIDE DEF m
    <3>1. 1 \in Int /\ h + m \in Int /\ received' \in Int /\ 1 <= h + m + 1
      BY <2>5
    <3> QED BY <2>5, <3>1, Join
  <2> HIDE DEF m, init, tail
  <2> QED BY <2>6, <2>7, <2>8 DEF all
<1>8. Split' /\ Closing'
  BY <1>4, <1>5 DEF Split, Closing
<1> QED BY <1>6, <1>7, <1>8 DEF Inv

\* clear_data, wherever it is called from.
LEMMA Cleared == clear_data => Inv'
BY Fresh DEF clear_data

\* The invariant holds at the start.
LEMMA Starts == Init => Inv
<1> SUFFICES ASSUME Init PROVE Inv
  OBVIOUS
<1>0. << >> \in Seq(Nat) /\ Len(<< >>) = 0
  OBVIOUS
<1>1. hash_state \in [initialized : BOOLEAN, input : Seq(Nat)]
  BY <1>0 DEF Init, NoHash
<1>2. TypeOK
  <2>1. 0 <= BufSize /\ 0 \in 0 .. MaxPackets
    BY SizeAssumption DEF BufSize
  <2>2. message_data \in Seq(Nat) /\ Len(message_data) <= BufSize
        /\ final_hash \in Seq(Nat)
    BY <1>0, <2>1 DEF Init
  <2> QED BY <1>1, <2>1, <2>2 DEF Init, TypeOK
<1>3. Bytes(1, 0) = << >> /\ BlockBytes * 0 = 0
  BY SizeAssumption, SMT DEF Bytes
<1>4. HashedUpTo(0, received, message_data, hash_state)
  BY <1>3 DEF Init, HashedUpTo, NoHash
<1>5. Split
  <2>1. 0 \in 0 .. received /\ 0 \in Nat
    BY DEF Init
  <2> QED BY <1>3, <1>4, <2>1 DEF Split
<1> QED BY <1>2, <1>5 DEF Init, Inv, Closing, AsksForTheWholeMessage

\* Each step keeps the invariant.
LEMMA Steps == Inv /\ [Next]_vars => Inv'
<1> SUFFICES ASSUME Inv, [Next]_vars PROVE Inv'
  OBVIOUS
<1>1. ASSUME sign_first PROVE Inv'
  <2>1. asking' = "no" /\ has_key' \in BOOLEAN
    BY <1>1 DEF sign_first, Waiting
  <2> QED BY <1>1, <2>1, Fresh DEF sign_first
<1>2. ASSUME clear_data PROVE Inv'
  BY <1>2, Cleared
<1>3. ASSUME NEW n \in 0 .. MaxApduSize, NEW b \in BOOLEAN, sign_next(n, b)
      PROVE  Inv'
  <2>1. asking' \in {"no", "raw"} /\ asking' # "raw"
    BY <1>3 DEF sign_next, packet_accepted, Waiting
  <2> QED BY <1>3, <2>1, KeepsInv DEF sign_next
<1>4. ASSUME NEW n \in 0 .. MaxApduSize, sign_last_hashed(n) PROVE Inv'
  BY <1>4, ClosesInv
<1>5. ASSUME NEW n \in 0 .. MaxApduSize, sign_last_unsafe(n) PROVE Inv'
  <2>1. hash_state' = Taken(n, FALSE).state
    BY <1>5, Zenon DEF sign_last_unsafe, Taken
  <2> QED BY <1>5, <2>1, KeepsInv DEF sign_last_unsafe
<1>6. ASSUME io_reset PROVE Inv'
  BY <1>6 DEF io_reset, Inv, TypeOK, Split, HashedUpTo, Closing,
     AsksForTheWholeMessage
<1>7. CASE UNCHANGED vars
  BY <1>7 DEF vars, Inv, TypeOK, Split, HashedUpTo, Closing,
     AsksForTheWholeMessage
<1> QED BY <1>1, <1>2, <1>3, <1>4, <1>5, <1>6, <1>7 DEF Next, throw, answer

\* Inv holds of every reachable state.
THEOREM Inductive == Spec => []Inv
BY Starts, Steps, PTL DEF Spec

-----------------------------------------------------------------------------
(* The properties.                                                         *)

\* Every variable keeps its type and message_data never outgrows its array.
THEOREM Typing == Spec => []TypeOK
<1>1. Inv => TypeOK
  BY DEF Inv
<1> QED BY <1>1, Inductive, PTL

\* The point the hash has reached parts the message in two.
LEMMA Kept == Inv => NothingLost
<1> SUFFICES ASSUME Inv, closed = "no"
             PROVE  hash_state.input \o message_data = Bytes(1, received)
  BY DEF NothingLost
<1>1. PICK h \in 0 .. received :
          HashedUpTo(h, received, message_data, hash_state)
  BY DEF Inv, Split
<1>2. received \in Nat
  BY DEF Inv, TypeOK
<1>3. Bytes(1, h) \o Bytes(h + 1, received) = Bytes(1, received)
  BY <1>2, Join
<1> QED BY <1>1, <1>3 DEF HashedUpTo

\* No byte of a message is lost, repeated or moved, however it is cut.
THEOREM BytesAreKept == Spec => []NothingLost
BY Kept, Inductive, PTL

\* That point is a whole number of blocks in.
LEMMA InBlocks == Inv => WholeBlocks
<1> SUFFICES ASSUME Inv, closed = "no"
             PROVE  /\ Len(hash_state.input) % BlockBytes = 0
                    /\ hash_state.input = << >> \/ message_data # << >>
  BY DEF WholeBlocks
<1>1. PICK h \in 0 .. received, k \in Nat :
          /\ HashedUpTo(h, received, message_data, hash_state)
          /\ h = BlockBytes * k
          /\ h = 0 \/ h < received
  BY DEF Inv, Split
<1>2. received \in Nat /\ BlockBytes \in Nat \ {0}
  BY SizeAssumption DEF Inv, TypeOK
<1>3. Len(Bytes(1, h)) = h /\ Len(Bytes(h + 1, received)) = received - h
  BY <1>2, SMT DEF Bytes
<1>4. (BlockBytes * k) % BlockBytes = 0
  BY <1>2, SMT
<1>5. Len(hash_state.input) = h /\ Len(message_data) = received - h
  BY <1>1, <1>3, Zenon DEF HashedUpTo
<1>6. h = 0 => hash_state.input = << >>
  <2>1. Bytes(1, 0) = << >>
    BY SMT DEF Bytes
  <2> QED BY <1>1, <2>1, Zenon DEF HashedUpTo
<1>7. h # 0 => message_data # << >>
  BY <1>1, <1>2, <1>5
<1> QED BY <1>1, <1>4, <1>5, <1>6, <1>7

\* The hash takes whole blocks and leaves the last byte for the closing call.
THEOREM BlocksAreWhole == Spec => []WholeBlocks
BY InBlocks, Inductive, PTL

\* Before a packet that is hashed at most a block is left.
LEMMA HasRoom == Inv => HashedPacketsFit
<1> SUFFICES ASSUME Inv, NEW n \in 0 .. MaxApduSize PROVE ~overflows(n, TRUE)
  BY DEF HashedPacketsFit
<1> DEFINE t == Taken(n, TRUE)
<1>1. t.data \in Seq(Nat) /\ Len(t.data) <= BufSize
  BY Packet
<1>2. Len(t.data) \in Nat /\ BufSize \in Nat
  <2> HIDE DEF t
  <2> QED BY <1>1, SizeAssumption DEF BufSize
<1>3. ~(Len(t.data) > BufSize)
  <2> HIDE DEF t
  <2> QED BY <1>1, <1>2
<1> QED BY <1>3 DEF overflows

\* A packet that is hashed always finds room.
THEOREM HashedPacketsHaveRoom == Spec => []HashedPacketsFit
BY HasRoom, Inductive, PTL

\* The user is asked for the whole message.
THEOREM WholeMessageAsked == Spec => []AsksForTheWholeMessage
<1>1. Inv => AsksForTheWholeMessage
  BY DEF Inv
<1> QED BY <1>1, Inductive, PTL

=============================================================================
