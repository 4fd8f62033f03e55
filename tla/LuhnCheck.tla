------------------------------ MODULE LuhnCheck ------------------------------
(***************************************************************************)
(* VerifyLuhn of internal/inbound/dlp.go: the digits of a candidate are    *)
(* collected into a fixed array, then summed from the right.  The bounds   *)
(* on their number are constants.                                          *)
(***************************************************************************)
EXTENDS Naturals, Sequences, Functions, Lists

CONSTANTS Characters,   \* the digits 0 .. 9, separators and others
          Separators,   \* "-" and " "
          Candidates,   \* the strings that are checked
          Capacity,     \* 24, the size of the array
          MinDigits,    \* 13
          MaxDigits     \* 19

Digits == 0 .. 9

ASSUME LuhnAssumption ==
    /\ Candidates \subseteq Seq(Characters)
    /\ Separators \cap Digits = {}
    /\ MinDigits \in Nat /\ MaxDigits \in Nat /\ Capacity \in Nat
    /\ MinDigits <= MaxDigits /\ MaxDigits < Capacity

VARIABLES candidate,
          lpc,         \* "collect", "sum" or "done"
          index,       \* the loop variable
          digits,
          sum,
          alternate,
          valid        \* the result

luhnVars == <<candidate, lpc, index, digits, sum, alternate, valid>>

LuhnStart(number) ==
    /\ candidate = number
    /\ lpc = "collect"
    /\ index = 1
    /\ digits = << >>
    /\ sum = 0
    /\ alternate = FALSE
    /\ valid = FALSE

LuhnInit == \E number \in Candidates : LuhnStart(number)

-----------------------------------------------------------------------------
\* The array is full or the character is neither a digit nor a separator.
Unacceptable(c) ==
    IF c \in Digits THEN Len(digits) >= Capacity ELSE c \notin Separators

Collect ==
    /\ lpc = "collect"
    /\ index <= Len(candidate)
    /\ LET c == candidate[index] IN
       /\ lpc' = IF Unacceptable(c) THEN "done" ELSE lpc
       /\ digits' = IF c \in Digits /\ ~ Unacceptable(c) THEN Append(digits, c)
                                                        ELSE digits
    /\ index' = index + 1
    /\ UNCHANGED <<candidate, sum, alternate, valid>>

\* The second loop begins at the last digit.
Collected ==
    /\ lpc = "collect"
    /\ index > Len(candidate)
    /\ lpc' = IF Len(digits) \in MinDigits .. MaxDigits THEN "sum" ELSE "done"
    /\ index' = Len(digits)
    /\ UNCHANGED <<candidate, digits, sum, alternate, valid>>

\* Mutant of Doubled: 5, whose double is 10, counts 10.
DoubledLate(d) == IF 2 * d > 10 THEN 2 * d - 9 ELSE 2 * d

Doubled(d) == IF 2 * d > 9 THEN 2 * d - 9 ELSE 2 * d

AddDigit ==
    /\ lpc = "sum"
    /\ index > 0
    /\ sum' = sum + (IF alternate THEN Doubled(digits[index]) ELSE digits[index])
    /\ alternate' = ~ alternate
    /\ index' = index - 1
    /\ UNCHANGED <<candidate, lpc, digits, valid>>

LuhnEnds ==
    /\ lpc = "sum"
    /\ index = 0
    /\ lpc' = "done"
    /\ valid' = (sum % 10 = 0)
    /\ UNCHANGED <<candidate, index, digits, sum, alternate>>

LuhnNext == Collect \/ Collected \/ AddDigit \/ LuhnEnds

LuhnSpec == LuhnInit /\ [][LuhnNext]_luhnVars

-----------------------------------------------------------------------------
(***************************************************************************)
(* The checksum as ISO/IEC 7812-1 defines it: every second digit from the  *)
(* right is doubled and the decimal digits of all results are added.       *)
(***************************************************************************)
DigitsOf(number) == Only(number, Digits)

Terms(number) ==
    [i \in DOMAIN number |->
        LET fromRight == Len(number) - i
            d == IF fromRight % 2 = 1 THEN 2 * number[i] ELSE number[i]
        IN (d \div 10) + (d % 10)]

Checksum(number) == SumFunction(Terms(number))

(***************************************************************************)
(* VerifyLuhn accepts exactly the candidates made of digits and separators *)
(* with an admissible number of digits and a checksum divisible by 10.     *)
(***************************************************************************)
LuhnIsRight ==
    lpc = "done" =>
        LET number == DigitsOf(candidate) IN
        valid <=> /\ \A i \in DOMAIN candidate : candidate[i] \in Digits \cup Separators
                  /\ Len(number) \in MinDigits .. MaxDigits
                  /\ Checksum(number) % 10 = 0
==============================================================================
