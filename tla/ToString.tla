------------------------------ MODULE ToString ------------------------------
(***************************************************************************)
(* The texts of numbers and amounts in src/to_string.c.  A text is a       *)
(* sequence of digits 0 .. 9 and Point, without its terminating null.      *)
(***************************************************************************)
EXTENDS Integers, Sequences

CONSTANTS
    MAX_INT_DIGITS,  \* 20, the digits of a uint64_t
    DECIMAL_DIGITS   \* 6, of TEZ_SCALE

ASSUME DigitsAssumption ==
    DECIMAL_DIGITS \in Nat \ {0} /\ MAX_INT_DIGITS \in Nat
    /\ DECIMAL_DIGITS < MAX_INT_DIGITS

\* The powers of ten.
Tens[i \in 0 .. MAX_INT_DIGITS] == IF i = 0 THEN 1 ELSE 10 * Tens[i - 1]

Point == -1  \* "." among the digits
TEZ_SCALE == Tens[DECIMAL_DIGITS]

\* The buffer tmp: MAX_INT_DIGITS digits, the leading zeroes included.
convert_number(number) ==
    [i \in 1 .. MAX_INT_DIGITS |-> (number \div Tens[MAX_INT_DIGITS - i]) % 10]

\* Where a number without leading zeroes begins in it: zero keeps one digit.
first_digit(digits) ==
    CHOOSE i \in 1 .. MAX_INT_DIGITS :
        /\ i = MAX_INT_DIGITS \/ digits[i] # 0
        /\ \A j \in 1 .. i - 1 : digits[j] = 0

number_to_string(number) ==
    LET digits == convert_number(number)
    IN  SubSeq(digits, first_digit(digits), MAX_INT_DIGITS)

\* The digits of the fraction up to the last that is not zero.
fraction_wrongly_unpadded(number) ==
    number_to_string(number % TEZ_SCALE)

fraction(number) ==
    LET digits == convert_number(number)
        start  == MAX_INT_DIGITS - DECIMAL_DIGITS + 1
        end    == CHOOSE i \in start .. MAX_INT_DIGITS :
                     /\ digits[i] # 0
                     /\ \A j \in i + 1 .. MAX_INT_DIGITS : digits[j] = 0
    IN  SubSeq(digits, start, end)

\* Mutez as tez.
microtez_to_string(number) ==
    LET whole == number_to_string(number \div TEZ_SCALE)
    IN  IF number % TEZ_SCALE = 0 THEN whole
        ELSE whole \o <<Point>> \o fraction(number)

\* The number that digits write in a base, the highest first.
NumberOf(base, digits) ==
    LET upto[i \in 0 .. Len(digits)] ==
            IF i = 0 THEN 0 ELSE base * upto[i - 1] + digits[i]
    IN  upto[Len(digits)]

=============================================================================
