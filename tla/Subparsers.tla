----------------------------- MODULE Subparsers -----------------------------
(***************************************************************************)
(* The subparsers of src/operations.c, byte by byte.  parse_byte keeps one *)
(* union of their states for all of them; a call takes the union over by   *)
(* the source line it is made from: if the line is not the last caller's,  *)
(* the call is a new one.  A packet may end after any byte.                *)
(*                                                                         *)
(* A field is named by that line, and Paths says which field may follow    *)
(* which; what the bytes in between and the values decide is               *)
(* OperationParser's matter.  Byte i of a field is <<line, i>>; of the     *)
(* numbers a byte is the set of its one bits and a flag, "more to come".   *)
(* A word is the set of its one bits, of WordBits instead of 64.           *)
(***************************************************************************)
EXTENDS ToString

CONSTANTS
    WordBits,   \* bits of a uint64_t
    GroupBits,  \* bits of a number in one byte, 7
    ShiftSize,  \* the values of the uint8_t shift, 256
    MaxBytes    \* model bound: bytes given to one field

ASSUME WordAssumption ==
    /\ WordBits \in Nat \ {0} /\ ShiftSize \in Nat /\ WordBits <= ShiftSize
    /\ GroupBits \in Nat /\ GroupBits > 1

\* The greatest word has no more than MAX_INT_DIGITS digits.
ASSUME RangeAssumption ==
    NumberOf(2, [i \in 1 .. WordBits |-> 1]) < Tens[MAX_INT_DIGITS]

Word == SUBSET (0 .. WordBits - 1)
Digit == SUBSET (0 .. GroupBits - 1)

HASH_SIZE == 20
HASH_SIZE_B58 == 36

-----------------------------------------------------------------------------
(* The fields.                                                             *)

Numbers == {382, 384, 386, 388, 517}
MichelsonNumbers == {663, 747}
Addresses == {620, 682}
Lengths == {560, 569, 732, 735, 737, 741}

\* sizeof the types read with NEXT_TYPE, and the length of a public key; all
\* other fields that are neither lengths nor numbers are shorts.
TypeSize(line) ==
    CASE line = 333 -> 33                    \* magic byte and block
      [] line = 354 -> HASH_SIZE + 1         \* implicit source
      [] line \in {365, 520} -> HASH_SIZE + 2
      [] line = 400 -> 1
      [] line = 409 -> 33                    \* public key
      [] line = 449 -> 40                    \* proposal
      [] line = 465 -> 37                    \* ballot
      [] line = 503 -> HASH_SIZE + 1         \* delegate
      [] line \in Lengths -> 4
      [] OTHER -> 2

EndOfMessage == 0
Sources == {354, 365}

Paths ==
    {<<333, s, 382, 384, 386, 388>> : s \in Sources}
    \cup {<<354, 449, EndOfMessage>>, <<354, 465, EndOfMessage>>}
    \cup {<<388, 400, 409, s>> : s \in Sources}          \* reveal
    \cup {<<388, 503, s>> : s \in Sources}               \* delegation
    \cup {<<388, s>> : s \in Sources}                    \* withdrawal
    \cup {<<388, 517, 520, s>> : s \in Sources}          \* transaction
    \cup {\* manager.tz: set delegate, and to an implicit account
          <<520, 560, 569, 585, 586, 587, 590, 605, 620, 624, 639, 781,
            EndOfMessage>>,
          <<624, 651, 652, 663, 667, 671, 781>>,
          \* to a contract
          <<605, 682, 687, 693, 732, 733, 735, 737, 738, 739, 741, 742, 743,
            747, 752, 755, 781>>,
          \* remove delegate
          <<590, 763, 767, 781>>}

Field == (UNION {{p[i] : i \in DOMAIN p} : p \in Paths}) \ {EndOfMessage}

Follows == UNION {{<<p[i], p[i + 1]>> : i \in 1 .. Len(p) - 1} : p \in Paths}

After(line) == {next \in Field \cup {EndOfMessage} : <<line, next>> \in Follows}

VARIABLES
    reading,  \* the field that gets the next byte; EndOfMessage takes none
    sub,      \* union subparser_state
    address,  \* what michelson_read_address adds to it
    got,      \* what the field just ended has yielded
    at,       \* auxiliary: bytes this field has had, of the sized ones
    number,   \* auxiliary: the number its bytes write, while it fits
    bits      \* auxiliary: bits that number has had, up to WordBits

vars == <<reading, sub, address, got, at, number, bits>>

\* value and shift share their memory with body, so a write to one loses the
\* other.
NewCall(line) == [lineno |-> line, value |-> {}, shift |-> 0, body |-> << >>]

NoAddress == [step |-> 0, type |-> "none", length |-> 0, sub |-> NewCall(0)]

\* What bytes write that are no number of a word: too big, or negative.
NoWord == {-1}
Nothing == [line |-> EndOfMessage, value |-> {}, number |-> {}, body |-> << >>]

-----------------------------------------------------------------------------

Init ==
    /\ reading = 333
    /\ sub = NewCall(-1) /\ address = NoAddress
    /\ got = Nothing
    /\ at = 0 /\ number = {} /\ bits = 0

\* A new session, at any time; of the union only lineno is set.
parse_operations_init ==
    /\ reading' = 333
    /\ sub' = [sub EXCEPT !.lineno = -1]
    /\ got' = Nothing
    /\ at' = 0 /\ number' = {} /\ bits' = 0
    /\ UNCHANGED address

\* A value the grammar refuses: the parser takes no more bytes.
parse_error ==
    /\ reading # EndOfMessage
    /\ reading' = EndOfMessage
    /\ got' = Nothing
    /\ at' = 0 /\ number' = {} /\ bits' = 0
    /\ UNCHANGED <<sub, address>>

\* The field has ended, or wants more bytes.
Ends(value, written, body) ==
    /\ reading' \in After(reading)
    /\ got' = [line |-> reading, value |-> value, number |-> written, body |-> body]
    /\ at' = 0 /\ number' = {} /\ bits' = 0

Goes == UNCHANGED reading /\ got' = Nothing

\* Bits moved up by s; beyond the word C says nothing, and the processor may
\* yield zero or use the low bits of s.
Shifted(digit, s) ==
    IF s < WordBits THEN {{b + s : b \in digit} \cap (0 .. WordBits - 1)}
    ELSE {{}, {b + (s % WordBits) : b \in digit} \cap (0 .. WordBits - 1)}

\* The number written, once n more bits have been given to it.
Written(digit, low) ==
    IF number = NoWord \/ (\E b \in digit : b + low >= WordBits) THEN NoWord
    ELSE number \cup {b + low : b \in digit}

Least(m, n) == IF m < n THEN m ELSE n

-----------------------------------------------------------------------------

\* Wrong variants (..._wrongly_...) are slips of the definition that follows
\* them; only the mutation of a run uses them.

call_wrongly_shifted(s, line) ==
    IF s.lineno # line THEN [NewCall(line) EXCEPT !.shift = s.shift] ELSE s

\* New call; initialize.
call(s, line) == IF s.lineno # line THEN NewCall(line) ELSE s

\* parse_next_type: one more byte of a type.
parse_next_type(s, byte, line) ==
    [call(s, line) EXCEPT !.body = Append(@, byte)]

\* One more byte of a number, and what the code makes of it: digit are its
\* bits, step how far they move the next ones, written what all of them write.
NumberByte(state, digit, more, step, written) ==
    \E shifted \in Shifted(digit, state.shift) :
        LET value == state.value \cup shifted
        IN  /\ sub' = [state EXCEPT !.value = value,
                                    !.shift = (@ + step) % ShiftSize]
            /\ address' = NoAddress
            /\ IF more
               THEN /\ Goes
                    /\ number' = written
                    /\ bits' = Least(bits + step, WordBits)
                    /\ UNCHANGED at
               ELSE Ends(value, written, << >>)

\* parse_z: the bytes of a number are GroupBits bits each, the lowest first.
parse_z(digit, more) ==
    /\ reading \in Numbers
    /\ NumberByte(call(sub, reading), digit, more, GroupBits, Written(digit, bits))

\* parse_z_michelson: the top bit of the first byte is the sign.  The code
\* keeps it in the value and moves the second byte over it; what it takes a
\* negative number for is of no meaning.
parse_z_michelson(digit, more) ==
    /\ reading \in MichelsonNumbers
    /\ LET state == call(sub, reading)
           first == bits = 0
       IN  NumberByte(state, digit, more,
                      IF state.shift = 0 THEN GroupBits - 1 ELSE GroupBits,
                      IF first /\ GroupBits - 1 \in digit THEN NoWord
                      ELSE Written(digit, bits))

\* NEXT_TYPE, michelson_read_length, michelson_read_short: the bytes of a
\* type, up to its size.
read_type ==
    /\ reading \in Field \ (Numbers \cup MichelsonNumbers \cup Addresses)
    /\ LET state == parse_next_type(sub, <<reading, at + 1>>, reading)
       IN  /\ sub' = state
           /\ address' = NoAddress
           /\ IF Len(state.body) < TypeSize(reading)
              THEN Goes /\ at' = at + 1 /\ UNCHANGED <<number, bits>>
              ELSE Ends({}, {}, state.body)

-----------------------------------------------------------------------------
(* michelson_read_address, with a subparser state of its own inside.       *)

Inner(line, state) == parse_next_type(state, <<reading, at + 1>>, line)

ReadsOn == Goes /\ at' = at + 1 /\ UNCHANGED <<number, bits>>

\* New call; initialize: memset clears the state inside too.
address_called ==
    /\ sub' = call(sub, reading)
    /\ reading \in Addresses /\ at < MaxBytes

ThisAddress == IF sub.lineno # reading THEN NoAddress ELSE address

address_type(type) ==
    /\ address_called /\ ThisAddress.step = 0
    /\ address' = [ThisAddress EXCEPT !.step = 1, !.type = type]
    /\ ReadsOn

address_length(length) ==
    /\ address_called /\ ThisAddress.step = 1
    /\ LET inner == Inner(191, address.sub)
       IN  address' = IF Len(inner.body) < 4
                      THEN [address EXCEPT !.sub = inner]
                      ELSE [address EXCEPT !.sub = inner, !.step = 2,
                                           !.length = length]
    /\ ReadsOn

\* The text of an address, in base 58.
address_string ==
    /\ address_called /\ ThisAddress.step = 2
    /\ address.type = "string" /\ address.length = HASH_SIZE_B58
    /\ LET inner == Inner(224, address.sub)
       IN  /\ address' = [address EXCEPT !.sub = inner]
           /\ IF Len(inner.body) < HASH_SIZE_B58 THEN ReadsOn
              ELSE Ends({}, {}, inner.body)

\* The curve and the hash: the step stays 2 and the case falls through, so
\* both inner calls get every byte and each finds the other's line.
address_bytes ==
    /\ address_called /\ ThisAddress.step = 2
    /\ address.type = "bytes" /\ address.length = HASH_SIZE + 1
    /\ LET curve == Inner(207, address.sub)
           hash  == Inner(212, curve)
       IN  /\ address' = [address EXCEPT !.sub = hash]
           /\ IF Len(hash.body) < HASH_SIZE THEN ReadsOn
              ELSE Ends({}, {}, hash.body)

\* Any other type or length is refused by the byte after it (parse_error); 0
\* stands for the other lengths.
AddressType == {"bytes", "string", "other"}
AddressLength == {HASH_SIZE + 1, HASH_SIZE_B58, 0}

michelson_read_address ==
    \/ \E type \in AddressType : address_type(type)
    \/ \E length \in AddressLength : address_length(length)
    \/ address_string
    \/ address_bytes

Next ==
    \/ parse_operations_init
    \/ parse_error
    \/ \E digit \in Digit, more \in BOOLEAN :
           parse_z(digit, more) \/ parse_z_michelson(digit, more)
    \/ read_type
    \/ michelson_read_address

Spec == Init /\ [][Next]_vars

-----------------------------------------------------------------------------

\* Every field the parser goes on from has been read from its own bytes and
\* from all of them, in order, although all share one memory, a session may
\* end within a field, and a number may have more bytes than a word has bits:
\* a number that fits a word is the one its bytes write.
FieldsAreRead ==
    LET Bytes(first, last) == [i \in 1 .. last - first + 1 |-> <<got.line, first + i - 1>>]
    IN  got.line # EndOfMessage =>
            CASE got.line \in Numbers \cup MichelsonNumbers ->
                    got.number \in {NoWord, got.value}
              [] got.line \in Addresses -> got.body = Bytes(6, 5 + HASH_SIZE_B58)
              [] OTHER -> got.body = Bytes(1, TypeSize(got.line))

NatOf(word) ==
    NumberOf(2, [i \in 1 .. WordBits |-> IF WordBits - i \in word THEN 1 ELSE 0])

\* The number of mutez a text of tez stands for, if it is a whole number.
ValueOf(text) ==
    LET points == {i \in DOMAIN text : text[i] = Point}
        point  == IF points = {} THEN Len(text) + 1 ELSE CHOOSE i \in points : TRUE
    IN  IF Len(text) - point > DECIMAL_DIGITS THEN -1
        ELSE NumberOf(10, [i \in 1 .. point - 1 + DECIMAL_DIGITS |->
                              IF i < point THEN text[i]
                              ELSE IF i < Len(text) THEN text[i + 1] ELSE 0])

\* The text the screen shows of an amount that was read says that amount and
\* no other, has no digit too many, and with the point, which the check in
\* microtez_to_string_indirect does not count, and the null it is no longer
\* than MAX_INT_DIGITS + 2.
ShownReadsBack ==
    got.line \in Numbers \cup MichelsonNumbers =>
        LET amount == NatOf(got.value)
            text   == microtez_to_string(amount)
            number_text == number_to_string(amount)
        IN  /\ ValueOf(text) = amount
            /\ (Len(text) > 1 /\ text[1] = 0) => text[2] = Point
            /\ (\E i \in DOMAIN text : text[i] = Point) => text[Len(text)] # 0
            /\ Len(text) + 1 <= MAX_INT_DIGITS + 2
            /\ Len(number_text) + 1 <= MAX_INT_DIGITS + 1

=============================================================================
