---------------------------------- MODULE Money ----------------------------------
(****************************************************************************)
(* Amounts as clients see them: what parseMajorAmount() makes of a text,    *)
(* what formatMinorAmount() shows, and a client that types amounts and      *)
(* sends back those it was shown.  A text is a sequence of digits, points   *)
(* and other characters.                                                    *)
(****************************************************************************)
EXTENDS Integers, Sequences, SequencesExt

CONSTANTS
  MaxMajor,    \* digits before the point: 13 in MONEY_PATTERN
  Character,   \* what the client types: some digits, Point and Other
  MaxLength    \* longest text the client types (bound)

VARIABLES
  text,        \* the amount in the request
  amount,      \* the minor units the handler works with, {} if it refused
  shown        \* the amount in the answer

vars == <<text, amount, shown>>

Digit == 0..9
Point == 10
Other == 11    \* a sign, a blank, a comma, an exponent

ASSUME MoneyAssumption ==
  /\ MaxMajor \in Nat \ {0} /\ MaxLength \in Nat
  /\ Character \subseteq Digit \cup {Point, Other}

Symbol == Digit \cup {Point, Other}
Text   == Seq(Symbol)

PowerOfTen[n \in Nat] == IF n = 0 THEN 1 ELSE 10 * PowerOfTen[n - 1]

Limit == PowerOfTen[MaxMajor + 2]    \* amounts are below 10^15 in the code

--------------------------------------------------------------------------------
(* money.ts.                                                                *)

Digits(s) == \A i \in DOMAIN s : s[i] \in Digit

(* BigInt(s) and n.toString(), for digits.                                  *)
Number[s \in Seq(Digit)] == IF s = <<>> THEN 0 ELSE 10 * Number[Front(s)] + Last(s)
Numeral[n \in Nat] == IF n < 10 THEN <<n>> ELSE Append(Numeral[n \div 10], n % 10)

(* Defect: the point asks for exactly two decimals.                         *)
MatchesTwoDecimals(s) ==
  \E k \in 1..MaxMajor :
    /\ k <= Len(s) /\ Digits(SubSeq(s, 1, k))
    /\ k > 1 => s[1] # 0
    /\ \/ Len(s) = k
       \/ Len(s) = k + 3 /\ s[k + 1] = Point /\ Digits(SubSeq(s, k + 2, Len(s)))

(* Defect: as many digits as one likes.                                     *)
MatchesAnyLength(s) ==
  \E k \in 1..Len(s) :
    /\ Digits(SubSeq(s, 1, k))
    /\ k > 1 => s[1] # 0
    /\ \/ Len(s) = k
       \/ Len(s) \in k + 2..k + 3 /\ s[k + 1] = Point /\ Digits(SubSeq(s, k + 2, Len(s)))

(* MONEY_PATTERN.                                                           *)
Matches(s) ==
  \E k \in 1..MaxMajor :
    /\ k <= Len(s) /\ Digits(SubSeq(s, 1, k))
    /\ k > 1 => s[1] # 0
    /\ \/ Len(s) = k
       \/ Len(s) \in k + 2..k + 3 /\ s[k + 1] = Point /\ Digits(SubSeq(s, k + 2, Len(s)))

(* split('.'), and the second group of the pattern: what is before and what *)
(* is behind the first point.                                               *)
PointAt(s) ==
  CHOOSE k \in 1..Len(s) + 1 :
    (k <= Len(s) => s[k] = Point) /\ \A j \in 1..k - 1 : s[j] # Point

Major(s)    == SubSeq(s, 1, PointAt(s) - 1)
Fraction(s) == SubSeq(s, PointAt(s) + 1, Len(s))

(* Defect: one decimal counts as hundredths.                                *)
PadStart(s) == [i \in 1..2 - Len(s) |-> 0] \o s
PadEnd(s)   == s \o [i \in 1..2 - Len(s) |-> 0]

parseMajorAmount(s) ==
  IF Matches(s)
  THEN {Number[Major(s)] * 100 + Number[PadEnd(Fraction(s))]} \ {0}
  ELSE {}

(* Defect: the minor units are shown as they are, five of them as .5.       *)
formatUnpadded(n) == Numeral[n \div 100] \o <<Point>> \o Numeral[n % 100]

formatMinorAmount(n) == Numeral[n \div 100] \o <<Point>> \o PadStart(Numeral[n % 100])

--------------------------------------------------------------------------------
Init == text = <<>> /\ amount = {} /\ shown = <<>>

Type ==
  /\ amount = {} /\ Len(text) < MaxLength
  /\ \E x \in Character : text' = Append(text, x)
  /\ UNCHANGED <<amount, shown>>

(* create() and fund() before their transactions: 400, or an answer that    *)
(* shows the amount.                                                        *)
Refuse ==
  /\ amount = {} /\ parseMajorAmount(text) = {}
  /\ text' = <<>> /\ UNCHANGED <<amount, shown>>

Accept ==
  /\ amount = {} /\ amount' = parseMajorAmount(text)
  /\ \E n \in amount' : shown' = formatMinorAmount(n)
  /\ UNCHANGED text

(* The client sends again what it was shown.                                *)
Repeat == amount # {} /\ text' = shown /\ amount' = {} /\ shown' = <<>>

Next == Type \/ Refuse \/ Accept \/ Repeat
Spec == Init /\ [][Next]_vars

--------------------------------------------------------------------------------
(* Properties.                                                              *)

(* The reference: all digits as one number, times ten for each decimal that *)
(* is missing.                                                              *)
Reading[s \in Text] ==
  IF s = <<>> THEN 0
  ELSE IF Last(s) \in Digit THEN 10 * Reading[Front(s)] + Last(s)
  ELSE Reading[Front(s)]

Worth(s) == Reading[s] * PowerOfTen[2 - Len(Fraction(s))]

(* One of the ways to write n: as it is formatted, or without a last zero,  *)
(* or without decimals when they are zero.                                  *)
Writes(s, n) ==
  LET whole == formatMinorAmount(n)
  IN  \/ s = whole
      \/ n % 10 = 0 /\ s = SubSeq(whole, 1, Len(whole) - 1)
      \/ n % 100 = 0 /\ s = SubSeq(whole, 1, Len(whole) - 3)

(* An amount is within the limit of thirteen digits, far from the range of  *)
(* bigint.                                                                  *)
TypeOK == text \in Text /\ shown \in Text /\ amount \subseteq 1..Limit - 1

(* A handler works with exactly what the text says: the decimals are scaled *)
(* by the right power of ten.                                               *)
AmountsExact == \A n \in amount : Len(Fraction(text)) <= 2 /\ n = Worth(text)

(* Exactly the ways to write a positive amount within the limit are taken,  *)
(* and no other text.                                                       *)
TakesExactly ==
  (parseMajorAmount(text) # {}) <=>
    (/\ Len(Fraction(text)) <= 2 /\ Worth(text) \in 1..Limit - 1
     /\ Writes(text, Worth(text)))

(* What an answer shows is an amount that, sent back, is the same amount.   *)
ShownIsAmount == \A n \in amount : parseMajorAmount(shown) = {n}
================================================================================
