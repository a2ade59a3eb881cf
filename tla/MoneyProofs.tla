------------------------------- MODULE MoneyProofs -------------------------------
(****************************************************************************)
(* Theorems about Money, for any limit and any text.                        *)
(****************************************************************************)
EXTENDS Money, Foundations, SequenceTheorems

--------------------------------------------------------------------------------
(* The recursive functions of the module, unrolled once.                    *)

(* PowerOfTen is what its recursion says, and is positive.                  *)
LEMMA Powers ==
  /\ \A n \in Nat : PowerOfTen[n] \in Nat \ {0} /\ PowerOfTen[n + 1] = 10 * PowerOfTen[n]
  /\ PowerOfTen[0] = 1 /\ PowerOfTen[1] = 10 /\ PowerOfTen[2] = 100
<1> DEFINE V == Nat \ {0}
           Body(k) == [n \in Nat |-> IF n = 0 THEN 1 ELSE 10 * k[n - 1]]
<1>1. PICK R, A, E, F :
        /\ R = [n \in Nat |-> n] /\ A = [n \in Nat |-> 1]
        /\ E = [n \in Nat |-> IF n = 0 THEN 0 ELSE n - 1]
        /\ F = [n \in Nat |-> [v \in V |-> 10 * v]]
  OBVIOUS
<1>2. /\ R \in [Nat -> Nat] /\ A \in [Nat -> V] /\ E \in [Nat -> Nat] /\ F \in [Nat -> [V -> V]]
      /\ Descends(Nat, R, {0}, E)
  BY <1>1 DEF Descends
<1>3. PICK f \in [Nat -> V] : \A n \in Nat : Unrolls(f, n, {0}, A, E, F)
  <2> HIDE DEF V
  <2> QED BY <1>2, RecursionExists
<1>4. f = Body(f)
  BY <1>1, <1>3 DEF Unrolls
<1>5. PowerOfTen = CHOOSE k : k = Body(k)
  BY DEF PowerOfTen
<1>6. PowerOfTen = Body(PowerOfTen)
  BY <1>4, <1>5
<1>7. \A n \in Nat : PowerOfTen[n] = IF n = 0 THEN 1 ELSE 10 * PowerOfTen[n - 1]
  BY <1>6
<1>8. \A n \in Nat : PowerOfTen[n] \in V
  <2> DEFINE P == {n \in Nat : PowerOfTen[n] \in V}
  <2>1. 0 \in P /\ \A n \in P : n + 1 \in P
    BY <1>7
  <2>2. P \in SUBSET Nat
    OBVIOUS
  <2>3. P = Nat
    <3> HIDE DEF P
    <3> QED BY <2>1, <2>2, NatInductionSet
  <2> QED BY <2>3
<1> QED BY <1>7, <1>8

(* Sequences by their last element.                                         *)
LEMMA Ends ==
  ASSUME NEW X, NEW s \in Seq(X), s # <<>>
  PROVE  /\ Front(s) \in Seq(X) /\ Last(s) \in X /\ Len(s) \in Nat \ {0}
         /\ Len(Front(s)) = Len(s) - 1 /\ s = Append(Front(s), Last(s))
         /\ \A i \in 1..Len(s) - 1 : Front(s)[i] = s[i]
<1>1. Len(s) \in Nat \ {0} /\ s \in [1..Len(s) -> X]
  BY EmptySeq, LenProperties
<1>2. /\ Front(s) \in Seq(X) /\ Len(Front(s)) = Len(s) - 1
      /\ \A i \in 1..Len(s) - 1 : Front(s)[i] = s[i]
  <2>1. \A i \in 1..Len(s) - 1 : s[i] \in X
    BY <1>1
  <2> QED BY <1>1, <2>1, SubSeqProperties DEF Front
<1>3. Last(s) \in X
  BY <1>1 DEF Last
<1>4. s = Append(Front(s), Last(s))
  <2>1. PICK t \in Seq(X) : t = Front(s)
    BY <1>2
  <2>2. PICK u \in Seq(X) : /\ u = Append(t, Last(s)) /\ Len(u) = Len(t) + 1
                             /\ \A i \in 1..Len(t) : u[i] = t[i]
                             /\ u[Len(t) + 1] = Last(s)
    BY <1>3, AppendProperties
  <2>3. Len(u) = Len(s) /\ \A i \in 1..Len(s) : s[i] = u[i]
    BY <1>1, <1>2, <2>1, <2>2 DEF Last
  <2>4. s = u
    BY <2>3, SeqEqual
  <2> QED BY <2>1, <2>2, <2>4
<1> QED BY <1>1, <1>2, <1>3, <1>4

(* One element is the empty sequence and that element.                      *)
LEMMA Singleton ==
  ASSUME NEW X, NEW x \in X
  PROVE  <<x>> \in Seq(X) /\ Len(<<x>>) = 1 /\ <<x>>[1] = x /\ <<x>> = Append(<<>>, x)
OBVIOUS

(* What was appended is last, and the rest is in front of it.               *)
LEMMA EndsOfAppend ==
  ASSUME NEW X, NEW s \in Seq(X), NEW x \in X
  PROVE  /\ Append(s, x) \in Seq(X) /\ Append(s, x) # <<>>
         /\ Front(Append(s, x)) = s /\ Last(Append(s, x)) = x
<1> DEFINE t == Append(s, x)
<1>1. /\ t \in Seq(X)
      /\ t # <<>>
      /\ Len(t) = Len(s) + 1
      /\ \A i \in 1..Len(s) : t[i] = s[i]
      /\ t[Len(s) + 1] = x
  BY AppendProperties
<1> HIDE DEF t
<1>2. Len(s) \in Nat /\ t[Len(t)] = x
  BY <1>1
<1>3. Front(t) \in Seq(X) /\ Len(Front(t)) = Len(s) /\ \A i \in 1..Len(s) : Front(t)[i] = s[i]
  <2>1. Front(t) \in Seq(X) /\ Len(Front(t)) = Len(t) - 1 /\ \A i \in 1..Len(t) - 1 : Front(t)[i] = t[i]
    BY <1>1, Ends, Zenon
  <2> QED BY <1>1, <1>2, <2>1
<1>4. Front(t) = s
  BY <1>3, SeqEqual
<1> QED BY <1>1, <1>2, <1>4 DEF Last, t

(* A set of sequences that has <<>> and every extension of what it has.     *)
LEMMA SequenceInduction ==
  ASSUME NEW X, NEW P \in SUBSET Seq(X), <<>> \in P,
         \A s \in P : \A x \in X : Append(s, x) \in P
  PROVE  P = Seq(X)
<1> DEFINE Q == {n \in Nat : \A s \in Seq(X) : Len(s) = n => s \in P}
<1>1. 0 \in Q
  BY EmptySeq
<1>2. ASSUME NEW n \in Q PROVE n + 1 \in Q
  <2>1. ASSUME NEW s \in Seq(X), Len(s) = n + 1 PROVE s \in P
    <3>1. s # <<>>
      BY <2>1, EmptySeq
    <3>2. PICK t \in Seq(X) : /\ t = Front(s) /\ Len(t) = Len(s) - 1
                              /\ Last(s) \in X /\ s = Append(t, Last(s))
      BY <3>1, Ends, Zenon
    <3>3. t \in P
      BY <2>1, <3>2
    <3> QED BY <3>2, <3>3
  <2> QED BY <2>1
<1>3. Q = Nat
  <2>1. Q \in SUBSET Nat
    OBVIOUS
  <2> HIDE DEF Q
  <2> QED BY <1>1, <1>2, <2>1, NatInductionSet
<1> QED BY <1>3, LenProperties

--------------------------------------------------------------------------------
(* The recursions over texts and numbers, unrolled once.                    *)

(* n.toString() is a sequence of digits, built from the last one.           *)
LEMMA Numerals ==
  \A n \in Nat :
    /\ Numeral[n] \in Seq(Digit)
    /\ Numeral[n] = IF n < 10 THEN <<n>> ELSE Append(Numeral[n \div 10], n % 10)
<1> DEFINE V == Seq(Digit)
           B == {n \in Nat : n < 10}
           Body(k) == [n \in Nat |-> IF n < 10 THEN <<n>> ELSE Append(k[n \div 10], n % 10)]
<1>1. PICK R, A, E, F :
        /\ R = [n \in Nat |-> n] /\ A = [n \in Nat |-> IF n < 10 THEN <<n>> ELSE <<>>]
        /\ E = [n \in Nat |-> n \div 10]
        /\ F = [n \in Nat |-> [v \in V |-> Append(v, n % 10)]]
  OBVIOUS
<1>2. R \in [Nat -> Nat] /\ E \in [Nat -> Nat] /\ Descends(Nat, R, B, E)
  BY <1>1 DEF Descends
<1>3. A \in [Nat -> V]
  <2>1. \A n \in B : <<n>> \in V
    BY Singleton DEF Digit
  <2>2. <<>> \in V
    BY EmptySeq
  <2> HIDE DEF V
  <2> QED BY <1>1, <2>1, <2>2
<1>4. F \in [Nat -> [V -> V]]
  <2>1. \A n \in Nat, v \in V : Append(v, n % 10) \in V
    BY AppendProperties DEF Digit
  <2> QED BY <1>1, <2>1
<1>5. PICK f \in [Nat -> V] : \A n \in Nat : Unrolls(f, n, B, A, E, F)
  <2> HIDE DEF V, B
  <2> QED BY <1>2, <1>3, <1>4, RecursionExists
<1>6. f = Body(f)
  <2>1. \A n \in Nat : f[n] = IF n < 10 THEN <<n>> ELSE Append(f[n \div 10], n % 10)
    <3>1. \A n \in Nat : n \div 10 \in Nat
      OBVIOUS
    <3>2. \A n \in Nat : F[n][f[n \div 10]] = Append(f[n \div 10], n % 10)
      <4> HIDE DEF V
      <4> QED BY <1>1, <3>1, Zenon
    <3>3. \A n \in Nat : f[n] = IF n \in B THEN A[n] ELSE F[n][f[E[n]]]
      <4> HIDE DEF V, B
      <4> QED BY <1>5, Zenon DEF Unrolls
    <3>4. \A n \in B : A[n] = <<n>>
      BY <1>1
    <3>5. \A n \in Nat : E[n] = n \div 10
      BY <1>1
    <3>6. \A n \in Nat : n \in B <=> n < 10
      OBVIOUS
    <3> HIDE DEF V, B
    <3> QED BY <3>2, <3>3, <3>4, <3>5, <3>6, Zenon
  <2> QED BY <2>1
<1>7. Numeral = CHOOSE k : k = Body(k)
  BY DEF Numeral
<1>8. Numeral = Body(Numeral)
  BY <1>6, <1>7
<1>9. \A n \in Nat : Numeral[n] = IF n < 10 THEN <<n>> ELSE Append(Numeral[n \div 10], n % 10)
  BY <1>8
<1>10. \A n \in Nat : Numeral[n] \in V
  <2> DEFINE P == {n \in Nat : Numeral[n] \in V}
  <2>1. ASSUME NEW n \in Nat, \A m \in Nat : m < n => m \in P PROVE n \in P
    <3>1. CASE n < 10
      <4>1. n \in Digit
        BY <3>1 DEF Digit
      <4>2. Numeral[n] = <<n>>
        BY <1>9, <3>1
      <4> QED BY <4>1, <4>2, Singleton
    <3>2. CASE ~ (n < 10)
      <4>1. PICK m \in Nat : m = n \div 10 /\ m < n
        BY <3>2
      <4>2. Numeral[m] \in V /\ n % 10 \in Digit
        BY <2>1, <4>1 DEF Digit
      <4>3. Append(Numeral[m], n % 10) \in V
        BY <4>2, AppendProperties, Zenon
      <4>4. Numeral[n] = Append(Numeral[m], n % 10)
        BY <1>9, <3>2, <4>1
      <4> QED BY <4>3, <4>4
    <3> QED BY <3>1, <3>2
  <2>2. P \in SUBSET Nat
    OBVIOUS
  <2>3. P = Nat
    <3> HIDE DEF P
    <3> QED BY <2>1, <2>2, StrongInductionSet
  <2> QED BY <2>3
<1> QED BY <1>9, <1>10
(* BigInt(s) is a natural number, read up to the last digit.                *)
LEMMA Numbers ==
  /\ Number[<<>>] = 0
  /\ \A s \in Seq(Digit) : Number[s] \in Nat
  /\ \A s \in Seq(Digit), d \in Digit : Number[Append(s, d)] = 10 * Number[s] + d
<1> DEFINE D == Seq(Digit)
           Body(k) == [s \in D |-> IF s = <<>> THEN 0 ELSE 10 * k[Front(s)] + Last(s)]
<1>0. /\ <<>> \in D /\ Len(<<>>) = 0 /\ \A s \in D : Len(s) \in Nat
      /\ \A s \in D \ {<<>>} : Front(s) \in D /\ Len(Front(s)) < Len(s) /\ Last(s) \in Nat
  <2>1. ASSUME NEW s \in D, s # <<>>
        PROVE  Front(s) \in D /\ Len(Front(s)) < Len(s) /\ Last(s) \in Nat
    <3>1. /\ Front(s) \in D /\ Last(s) \in Digit /\ Len(s) \in Nat \ {0}
          /\ Len(Front(s)) = Len(s) - 1
      BY <2>1, Ends
    <3> QED BY <3>1 DEF Digit
  <2> QED BY <2>1, EmptySeq, LenProperties
<1> HIDE DEF D
<1>1. PICK R, A, E, F :
        /\ R = [s \in D |-> Len(s)] /\ A = [s \in D |-> 0]
        /\ E = [s \in D |-> IF s = <<>> THEN s ELSE Front(s)]
        /\ F = [s \in D |-> [v \in Nat |-> IF s = <<>> THEN v ELSE 10 * v + Last(s)]]
  OBVIOUS
<1>2. R \in [D -> Nat] /\ A \in [D -> Nat] /\ E \in [D -> D] /\ Descends(D, R, {<<>>}, E)
  BY <1>0, <1>1 DEF Descends
<1>3. F \in [D -> [Nat -> Nat]]
  <2>1. \A s \in D, v \in Nat : (IF s = <<>> THEN v ELSE 10 * v + Last(s)) \in Nat
    BY <1>0
  <2> QED BY <1>1, <2>1
<1>4. PICK f \in [D -> Nat] : \A s \in D : Unrolls(f, s, {<<>>}, A, E, F)
  BY <1>2, <1>3, RecursionExists
<1>5. f = Body(f)
  <2>1. \A s \in D : f[s] = IF s = <<>> THEN 0 ELSE 10 * f[Front(s)] + Last(s)
    BY <1>0, <1>1, <1>4 DEF Unrolls
  <2> QED BY <2>1
<1>6. Number = CHOOSE k : k = Body(k)
  BY DEF Number, D
<1>7. Number = Body(Number)
  BY <1>5, <1>6
<1>8. \A s \in D : Number[s] = IF s = <<>> THEN 0 ELSE 10 * Number[Front(s)] + Last(s)
  BY <1>7
<1>9. ASSUME NEW s \in Seq(Digit), NEW d \in Digit
      PROVE  Number[Append(s, d)] = 10 * Number[s] + d
  <2>1. /\ Append(s, d) \in D /\ Append(s, d) # <<>>
        /\ Front(Append(s, d)) = s /\ Last(Append(s, d)) = d
    BY EndsOfAppend DEF D
  <2>2. PICK t \in D : t = Append(s, d) /\ t # <<>> /\ Front(t) = s /\ Last(t) = d
    BY <2>1
  <2> QED BY <1>8, <2>2
<1>10. D = {s \in Seq(Digit) : Number[s] \in Nat}
  <2> DEFINE P == {s \in Seq(Digit) : Number[s] \in Nat}
  <2>1. <<>> \in P
    BY <1>0, <1>8 DEF D
  <2>2. ASSUME NEW s \in P, NEW d \in Digit PROVE Append(s, d) \in P
    <3>1. Append(s, d) \in Seq(Digit)
      BY AppendProperties
    <3>2. Number[Append(s, d)] \in Nat
      <4>1. PICK u : u = Append(s, d) /\ Number[u] = 10 * Number[s] + d
        BY <1>9
      <4>2. Number[s] \in Nat /\ d \in Nat
        BY DEF Digit
      <4>3. Number[u] \in Nat
        BY <4>1, <4>2
      <4> QED BY <4>1, <4>3
    <3> QED BY <3>1, <3>2
  <2>3. P \in SUBSET Seq(Digit)
    OBVIOUS
  <2>4. P = Seq(Digit)
    <3> HIDE DEF P
    <3> QED BY <2>1, <2>2, <2>3, SequenceInduction
  <2> QED BY <2>4 DEF D
<1> QED BY <1>0, <1>8, <1>9, <1>10 DEF D
(* The reference reads every text, and skips what is not a digit.           *)
LEMMA Readings ==
  /\ Reading[<<>>] = 0
  /\ \A s \in Text : Reading[s] \in Nat
  /\ \A s \in Text, x \in Symbol :
       Reading[Append(s, x)] = IF x \in Digit THEN 10 * Reading[s] + x ELSE Reading[s]
<1> DEFINE D == Text
           Body(k) == [s \in D |-> IF s = <<>> THEN 0
                                   ELSE IF Last(s) \in Digit THEN 10 * k[Front(s)] + Last(s)
                                   ELSE k[Front(s)]]
<1>0. /\ <<>> \in D /\ Len(<<>>) = 0 /\ \A s \in D : Len(s) \in Nat
      /\ \A s \in D \ {<<>>} : Front(s) \in D /\ Len(Front(s)) < Len(s) /\ Last(s) \in Symbol
  <2>1. ASSUME NEW s \in D, s # <<>>
        PROVE  Front(s) \in D /\ Len(Front(s)) < Len(s) /\ Last(s) \in Symbol
    <3>1. /\ Front(s) \in D /\ Last(s) \in Symbol /\ Len(s) \in Nat \ {0}
          /\ Len(Front(s)) = Len(s) - 1
      BY <2>1, Ends DEF Text
    <3> QED BY <3>1
  <2> QED BY <2>1, EmptySeq, LenProperties DEF Text
<1> HIDE DEF D
<1>1. PICK R, A, E, F :
        /\ R = [s \in D |-> Len(s)] /\ A = [s \in D |-> 0]
        /\ E = [s \in D |-> IF s = <<>> THEN s ELSE Front(s)]
        /\ F = [s \in D |-> [v \in Nat |-> IF s # <<>> /\ Last(s) \in Digit
                                     THEN 10 * v + Last(s) ELSE v]]
  OBVIOUS
<1>2. R \in [D -> Nat] /\ A \in [D -> Nat] /\ E \in [D -> D] /\ Descends(D, R, {<<>>}, E)
  BY <1>0, <1>1 DEF Descends
<1>3. F \in [D -> [Nat -> Nat]]
  <2>1. \A s \in D, v \in Nat :
          (IF s # <<>> /\ Last(s) \in Digit THEN 10 * v + Last(s) ELSE v) \in Nat
    BY DEF Digit
  <2> QED BY <1>1, <2>1
<1>4. PICK f \in [D -> Nat] : \A s \in D : Unrolls(f, s, {<<>>}, A, E, F)
  BY <1>2, <1>3, RecursionExists
<1>5. f = Body(f)
  <2>1. \A s \in D : f[s] = IF s = <<>> THEN 0
                           ELSE IF Last(s) \in Digit THEN 10 * f[Front(s)] + Last(s)
                           ELSE f[Front(s)]
    BY <1>0, <1>1, <1>4 DEF Unrolls
  <2> QED BY <2>1
<1>6. Reading = CHOOSE k : k = Body(k)
  BY DEF Reading, D
<1>7. Reading = Body(Reading)
  BY <1>5, <1>6
<1>8. \A s \in D : Reading[s] = IF s = <<>> THEN 0
                               ELSE IF Last(s) \in Digit THEN 10 * Reading[Front(s)] + Last(s)
                               ELSE Reading[Front(s)]
  BY <1>7
<1>9. ASSUME NEW s \in Text, NEW x \in Symbol
      PROVE  Reading[Append(s, x)] = IF x \in Digit THEN 10 * Reading[s] + x ELSE Reading[s]
  <2>1. /\ Append(s, x) \in D /\ Append(s, x) # <<>>
        /\ Front(Append(s, x)) = s /\ Last(Append(s, x)) = x
    BY EndsOfAppend DEF D, Text
  <2>2. PICK t \in D : t = Append(s, x) /\ t # <<>> /\ Front(t) = s /\ Last(t) = x
    BY <2>1
  <2> QED BY <1>8, <2>2
<1>10. D = {s \in Text : Reading[s] \in Nat}
  <2> DEFINE P == {s \in Text : Reading[s] \in Nat}
  <2>1. <<>> \in P
    BY <1>0, <1>8 DEF D
  <2>2. ASSUME NEW s \in P, NEW x \in Symbol PROVE Append(s, x) \in P
    <3>1. Append(s, x) \in Text
      BY AppendProperties DEF Text
    <3>2. Reading[Append(s, x)] \in Nat
      <4>1. PICK u : u = Append(s, x) /\ Reading[u] = IF x \in Digit THEN 10 * Reading[s] + x ELSE Reading[s]
        BY <1>9
      <4>2. Reading[s] \in Nat /\ (x \in Digit => x \in Nat)
        BY DEF Digit
      <4>3. Reading[u] \in Nat
        BY <4>1, <4>2
      <4> QED BY <4>1, <4>3
    <3> QED BY <3>1, <3>2
  <2>3. P \in SUBSET Text
    OBVIOUS
  <2>4. P = Text
    <3> HIDE DEF P
    <3> QED BY <2>1, <2>2, <2>3, SequenceInduction DEF Text
  <2> QED BY <2>4 DEF D
<1> QED BY <1>0, <1>8, <1>9, <1>10 DEF D

--------------------------------------------------------------------------------
(* Numerals.                                                                *)

(* The digits before the point: at least one, and the first is 0 only when  *)
(* it is the only one.                                                      *)
Plain(s) == s \in Seq(Digit) /\ s # <<>> /\ (Len(s) > 1 => s[1] # 0)

(* A sequence that is not empty, and one digit more.                        *)
LEMMA OneMore ==
  ASSUME NEW X, NEW s \in Seq(X), NEW x \in X
  PROVE  /\ Append(s, x) \in Seq(X) /\ Append(s, x) # <<>>
         /\ Len(s) \in Nat /\ Len(Append(s, x)) = Len(s) + 1
         /\ s # <<>> => Append(s, x)[1] = s[1] /\ Len(s) > 0
<1> DEFINE t == Append(s, x)
<1>1. /\ t \in Seq(X)
      /\ t # <<>>
      /\ Len(t) = Len(s) + 1
      /\ \A i \in 1..Len(s) : t[i] = s[i]
      /\ t[Len(s) + 1] = x
  BY AppendProperties
<1> HIDE DEF t
<1>2. Len(s) \in Nat /\ (s # <<>> => Len(s) \in Nat \ {0})
  BY EmptySeq, LenProperties
<1> QED BY <1>1, <1>2 DEF t

(* Formatting and reading back gives the same number ...                    *)
LEMMA NumberOfNumeral ==
  \A n \in Nat : /\ Plain(Numeral[n]) /\ Number[Numeral[n]] = n
                 /\ n > 0 => Numeral[n][1] # 0
<1> DEFINE Good(n, s) == Plain(s) /\ Number[s] = n /\ (n > 0 => s[1] # 0)
           P == {n \in Nat : Good(n, Numeral[n])}
<1>1. ASSUME NEW n \in Nat, \A m \in Nat : m < n => m \in P PROVE n \in P
  <2>1. CASE n < 10
    <3>1. n \in Digit
      BY <2>1 DEF Digit
    <3>2. /\ <<n>> \in Seq(Digit) /\ <<n>> # <<>> /\ Len(<<n>>) = 1 /\ <<n>>[1] = n
          /\ <<n>> = Append(<<>>, n)
      BY <3>1, Singleton
    <3>3. PICK s : s = <<n>> /\ s = Append(<<>>, n) /\ s \in Seq(Digit) /\ s # <<>>
                   /\ Len(s) = 1 /\ s[1] = n
      BY <3>2
    <3>4. Number[Append(<<>>, n)] = 10 * 0 + n
      BY <3>1, Numbers, EmptySeq
    <3>5. Good(n, s)
      BY <3>3, <3>4 DEF Plain
    <3>6. Numeral[n] = s
      BY <2>1, <3>3, Numerals
    <3> QED BY <3>5, <3>6
  <2>2. CASE ~ (n < 10)
    <3>1. PICK m \in Nat, d \in Digit : m = n \div 10 /\ d = n % 10 /\ n = 10 * m + d
                                        /\ m < n /\ m > 0
      BY <2>2 DEF Digit
    <3>2. PICK t : t = Numeral[m] /\ Good(m, t)
      BY <1>1, <3>1
    <3>3. t \in Seq(Digit) /\ t # <<>> /\ t[1] # 0 /\ Number[t] = m
      BY <3>1, <3>2 DEF Plain
    <3>4. PICK s : /\ s = Append(t, d) /\ s \in Seq(Digit) /\ s # <<>> /\ s[1] = t[1]
                   /\ Number[s] = 10 * m + d
      <4>1. /\ Append(t, d) \in Seq(Digit) /\ Append(t, d) # <<>>
            /\ Append(t, d)[1] = t[1]
        BY <3>3, OneMore, Zenon
      <4>2. Number[Append(t, d)] = 10 * m + d
        BY <3>3, Numbers, Zenon
      <4> QED BY <4>1, <4>2, Zenon
    <3>5. Good(n, s)
      BY <3>1, <3>3, <3>4 DEF Plain
    <3>6. Numeral[n] = s
      BY <2>2, <3>1, <3>2, <3>4, Numerals
    <3> QED BY <3>5, <3>6
  <2> QED BY <2>1, <2>2
<1>2. P \in SUBSET Nat
  OBVIOUS
<1>3. P = Nat
  <2> HIDE DEF P
  <2> QED BY <1>1, <1>2, StrongInductionSet
<1> QED BY <1>3

(* Dividing by ten splits off the last digit.                               *)
LEMMA LastDigit ==
  ASSUME NEW n \in Nat, NEW d \in 0..9
  PROVE  (10 * n + d) \div 10 = n /\ (10 * n + d) % 10 = d
OBVIOUS

(* ... and reading and formatting gives the same digits.                    *)
LEMMA NumeralOfNumber ==
  \A s \in Seq(Digit) : Plain(s) => Numeral[Number[s]] = s /\ (s[1] # 0 => Number[s] > 0)
<1> DEFINE Good(s) == Plain(s) => Numeral[Number[s]] = s /\ (s[1] # 0 => Number[s] > 0)
           P == {s \in Seq(Digit) : Good(s)}
<1>1. <<>> \in P
  BY EmptySeq DEF Plain
<1>2. ASSUME NEW s \in P, NEW d \in Digit PROVE Append(s, d) \in P
  <2>1. PICK t : /\ t = Append(s, d) /\ t \in Seq(Digit) /\ Number[t] = 10 * Number[s] + d
                 /\ Len(s) \in Nat /\ Len(t) = Len(s) + 1
                 /\ s # <<>> => t[1] = s[1] /\ Len(s) > 0
    BY OneMore, Numbers
  <2>2. CASE s = <<>>
    <3>1. t = <<d>> /\ t[1] = d /\ Number[t] = d /\ d \in Nat /\ d < 10
      BY <2>1, <2>2, Singleton, Numbers DEF Digit
    <3>2. Numeral[d] = <<d>>
      BY <3>1, Numerals
    <3> QED BY <2>1, <3>1, <3>2
  <2>3. CASE s # <<>> /\ Plain(t)
    <3>1. s[1] # 0 /\ Plain(s)
      BY <2>1, <2>3 DEF Plain
    <3>2. PICK n \in Nat : n = Number[s] /\ n > 0 /\ Numeral[n] = s
      BY <3>1, Numbers
    <3>3. PICK m \in Nat : m = Number[t] /\ m = 10 * n + d /\ d \in 0..9
      BY <2>1, <3>2 DEF Digit
    <3>4. ~ (m < 10) /\ m \div 10 = n /\ m % 10 = d
      <4>1. (10 * n + d) \div 10 = n /\ (10 * n + d) % 10 = d
        BY <3>3, LastDigit
      <4>2. ~ (m < 10)
        BY <3>2, <3>3
      <4> QED BY <3>3, <4>1, <4>2
    <3>5. Numeral[m] = Append(Numeral[n], d)
      BY <3>4, Numerals
    <3>6. Numeral[m] = t
      BY <2>1, <3>2, <3>5
    <3>7. Good(t)
      BY <3>2, <3>3, <3>6
    <3> HIDE DEF Good
    <3> QED BY <2>1, <3>7
  <2>4. CASE ~ Plain(t)
    BY <2>1, <2>4
  <2> QED BY <2>2, <2>3, <2>4
<1>3. P \in SUBSET Seq(Digit)
  OBVIOUS
<1>4. P = Seq(Digit)
  <2> HIDE DEF P
  <2> QED BY <1>1, <1>2, <1>3, SequenceInduction
<1> QED BY <1>4

(* Numbers below a power of ten have at most as many digits.                *)
LEMMA NumeralLength ==
  \A k \in Nat \ {0} : \A n \in Nat :
    Len(Numeral[n]) \in Nat /\ (Len(Numeral[n]) <= k <=> n < PowerOfTen[k])
<1>1. \A n \in Nat : /\ n < 10 => Len(Numeral[n]) = 1
                     /\ Len(Numeral[n]) \in Nat \ {0}
                     /\ ~ (n < 10) => Len(Numeral[n]) = Len(Numeral[n \div 10]) + 1
  <2>1. ASSUME NEW n \in Nat, n < 10 PROVE Len(Numeral[n]) = 1
    <3>0. n \in Digit
      BY <2>1 DEF Digit
    <3>1. Numeral[n] = <<n>>
      BY <2>1, Numerals
    <3>2. Len(<<n>>) = 1
      BY <3>0, Singleton
    <3> QED BY <3>1, <3>2
  <2>2. ASSUME NEW n \in Nat, ~ (n < 10)
        PROVE  Len(Numeral[n]) = Len(Numeral[n \div 10]) + 1
    <3>1. PICK m \in Nat, d \in Digit : m = n \div 10 /\ d = n % 10
      BY DEF Digit
    <3>2. Numeral[n] = Append(Numeral[m], d) /\ Numeral[m] \in Seq(Digit)
      BY <2>2, <3>1, Numerals
    <3>3. Len(Append(Numeral[m], d)) = Len(Numeral[m]) + 1
      BY <3>2, OneMore
    <3> QED BY <3>1, <3>2, <3>3
  <2>3. \A n \in Nat : Len(Numeral[n]) \in Nat \ {0}
    BY NumberOfNumeral, EmptySeq DEF Plain
  <2> QED BY <2>1, <2>2, <2>3
<1>2. PICK L \in [Nat -> Nat \ {0}] :
        /\ \A n \in Nat : L[n] = Len(Numeral[n])
        /\ \A n \in Nat : n < 10 => L[n] = 1
        /\ \A n \in Nat : ~ (n < 10) => L[n] = L[n \div 10] + 1
  <2>1. PICK L : L = [n \in Nat |-> Len(Numeral[n])]
    OBVIOUS
  <2>2. L \in [Nat -> Nat \ {0}] /\ \A n \in Nat : L[n] = Len(Numeral[n])
    BY <1>1, <2>1
  <2>3. \A n \in Nat : n \div 10 \in Nat
    OBVIOUS
  <2> QED BY <1>1, <2>2, <2>3
<1>3. PICK Ten \in [Nat -> Nat \ {0}] :
        /\ \A n \in Nat : Ten[n] = PowerOfTen[n]
        /\ \A n \in Nat : Ten[n + 1] = 10 * Ten[n]
        /\ Ten[1] = 10
  <2>1. PICK Ten : Ten = [n \in Nat |-> PowerOfTen[n]]
    OBVIOUS
  <2>2. \A n \in Nat : Ten[n] = PowerOfTen[n] /\ PowerOfTen[n] \in Nat \ {0}
    BY <2>1, Powers
  <2>3. Ten[1] = 10
    BY <2>2, Powers
  <2>4. ASSUME NEW n \in Nat PROVE Ten[n + 1] = 10 * Ten[n]
    BY <2>2, Powers
  <2> QED BY <2>1, <2>2, <2>3, <2>4
<1> DEFINE Fits(k) == \A n \in Nat : L[n] <= k <=> n < Ten[k]
           P == {k \in Nat : Fits(k + 1)}
<1>4. 0 \in P
  <2>1. ASSUME NEW n \in Nat PROVE L[n] <= 1 <=> n < 10
    <3>1. CASE n < 10
      BY <1>2, <3>1
    <3>2. CASE ~ (n < 10)
      <4>1. PICK m \in Nat : m = n \div 10
        OBVIOUS
      <4>2. L[m] \in Nat \ {0} /\ L[n] = L[m] + 1
        BY <1>2, <3>2, <4>1
      <4> QED BY <3>2, <4>2
    <3> QED BY <3>1, <3>2
  <2>2. Fits(1) /\ 0 + 1 = 1
    BY <1>3, <2>1
  <2> HIDE DEF Fits
  <2> QED BY <2>2
<1>5. ASSUME NEW k \in Nat \ {0}, Fits(k) PROVE Fits(k + 1)
  <2>1. PICK p \in Nat \ {0} : p = Ten[k] /\ Ten[k + 1] = 10 * p
    BY <1>3
  <2>2. ASSUME NEW n \in Nat PROVE L[n] <= k + 1 <=> n < 10 * p
    <3>1. CASE n < 10
      BY <1>2, <3>1
    <3>2. CASE ~ (n < 10)
      <4>1. PICK m \in Nat : m = n \div 10 /\ (m < p <=> n < 10 * p)
        OBVIOUS
      <4>2. L[m] <= k <=> m < p
        BY <1>5, <2>1
      <4>3. L[n] = L[m] + 1 /\ L[m] \in Nat
        BY <1>2, <3>2, <4>1
      <4> QED BY <4>1, <4>2, <4>3
    <3> QED BY <3>1, <3>2
  <2> QED BY <2>1, <2>2
<1>6. \A k \in P : k + 1 \in P
  <2>1. \A k \in Nat : k + 1 \in Nat \ {0}
    OBVIOUS
  <2> HIDE DEF Fits
  <2> QED BY <1>5, <2>1
<1>7. P \in SUBSET Nat
  OBVIOUS
<1>8. P = Nat
  <2> HIDE DEF P
  <2> QED BY <1>4, <1>6, <1>7, NatInductionSet
<1>9. ASSUME NEW k \in Nat \ {0} PROVE Fits(k)
  <2>1. PICK l \in Nat : l + 1 = k
    <3>1. k - 1 \in Nat /\ (k - 1) + 1 = k
      OBVIOUS
    <3> QED BY <3>1
  <2> HIDE DEF Fits
  <2> QED BY <1>8, <2>1
<1>10. ASSUME NEW k \in Nat \ {0}, NEW n \in Nat
       PROVE  Len(Numeral[n]) \in Nat /\ (Len(Numeral[n]) <= k <=> n < PowerOfTen[k])
  <2>1. L[n] <= k <=> n < Ten[k]
    BY <1>9
  <2>2. L[n] = Len(Numeral[n]) /\ Ten[k] = PowerOfTen[k] /\ L[n] \in Nat
    BY <1>2, <1>3
  <2> QED BY <2>1, <2>2
<1> QED BY <1>10

--------------------------------------------------------------------------------
(* The texts of amounts: the digits m before the point, then none, one or   *)
(* two decimals.                                                            *)

OnePlace(m, a)     == Append(Append(m, Point), a)
TwoPlaces(m, a, b) == Append(OnePlace(m, a), b)

Whole(m) == Plain(m) /\ Len(m) <= MaxMajor

(* s says m, a tenths and b hundredths.                                     *)
Says(s, m, a, b) ==
  \/ s = TwoPlaces(m, a, b)
  \/ b = 0 /\ s = OnePlace(m, a)
  \/ a = 0 /\ b = 0 /\ s = m

Places(s, m, a) ==
  /\ s \in Text /\ \A i \in 1..Len(m) : s[i] = m[i]
  /\ s[Len(m) + 1] = Point /\ s[Len(m) + 2] = a

(* Where the digits and the point of such a text are.                       *)
LEMMA Layout ==
  ASSUME NEW m \in Seq(Digit), NEW a \in Digit, NEW b \in Digit
  PROVE  /\ m \in Text /\ Len(m) \in Nat
         /\ Places(OnePlace(m, a), m, a) /\ Len(OnePlace(m, a)) = Len(m) + 2
         /\ Places(TwoPlaces(m, a, b), m, a) /\ Len(TwoPlaces(m, a, b)) = Len(m) + 3
         /\ TwoPlaces(m, a, b)[Len(m) + 3] = b
<1>0. m \in Seq(Symbol) /\ Point \in Symbol /\ a \in Symbol /\ b \in Symbol
  BY SeqMonotonic DEF Symbol
<1>1. Len(m) \in Nat
  OBVIOUS
<1>2. PICK u \in Seq(Symbol) : u = Append(m, Point) /\ Len(u) = Len(m) + 1
        /\ (\A i \in 1..Len(m) : u[i] = m[i]) /\ u[Len(m) + 1] = Point
  <2> DEFINE u == Append(m, Point)
  <2>1. /\ u \in Seq(Symbol) /\ u # <<>> /\ Len(u) = Len(m) + 1
        /\ \A i \in 1..Len(m) : u[i] = m[i]
        /\ u[Len(m) + 1] = Point
    BY <1>0, AppendProperties
  <2> HIDE DEF u
  <2> QED BY <2>1 DEF u
<1>3. PICK v \in Seq(Symbol) : v = Append(u, a) /\ Len(v) = Len(u) + 1
        /\ (\A i \in 1..Len(u) : v[i] = u[i]) /\ v[Len(u) + 1] = a
  <2> DEFINE v == Append(u, a)
  <2>1. /\ v \in Seq(Symbol) /\ v # <<>> /\ Len(v) = Len(u) + 1
        /\ \A i \in 1..Len(u) : v[i] = u[i]
        /\ v[Len(u) + 1] = a
    BY <1>0, AppendProperties
  <2> HIDE DEF v
  <2> QED BY <2>1 DEF v
<1>4. PICK w \in Seq(Symbol) : w = Append(v, b) /\ Len(w) = Len(v) + 1
        /\ (\A i \in 1..Len(v) : w[i] = v[i]) /\ w[Len(v) + 1] = b
  <2> DEFINE w == Append(v, b)
  <2>1. /\ w \in Seq(Symbol) /\ w # <<>> /\ Len(w) = Len(v) + 1
        /\ \A i \in 1..Len(v) : w[i] = v[i]
        /\ w[Len(v) + 1] = b
    BY <1>0, AppendProperties
  <2> HIDE DEF w
  <2> QED BY <2>1 DEF w
<1>5. v = OnePlace(m, a) /\ w = TwoPlaces(m, a, b)
  BY <1>2, <1>3, <1>4 DEF OnePlace, TwoPlaces
<1>6. Places(v, m, a) /\ Len(v) = Len(m) + 2
  BY <1>1, <1>2, <1>3 DEF Places, Text
<1>7. Places(w, m, a) /\ Len(w) = Len(m) + 3 /\ w[Len(m) + 3] = b
  BY <1>1, <1>4, <1>6 DEF Places, Text
<1> QED BY <1>0, <1>1, <1>5, <1>6, <1>7 DEF Text

(* The point is where there is one and none before.                         *)
LEMMA PointFound ==
  ASSUME NEW s \in Text, NEW k \in 1..Len(s) + 1, k <= Len(s) => s[k] = Point,
         \A j \in 1..k - 1 : s[j] # Point
  PROVE  PointAt(s) = k
<1> DEFINE First(j) == (j <= Len(s) => s[j] = Point) /\ \A i \in 1..j - 1 : s[i] # Point
<1>1. Len(s) \in Nat
  BY LenProperties DEF Text
<1>2. ASSUME NEW j \in 1..Len(s) + 1, First(j) PROVE j = k
  BY <1>1, <1>2
<1>3. First(k)
  OBVIOUS
<1>4. PointAt(s) = CHOOSE j \in 1..Len(s) + 1 : First(j)
  BY DEF PointAt
<1> HIDE DEF First
<1> QED BY <1>2, <1>3, <1>4

(* Digits before and behind the point.                                      *)
LEMMA Halves ==
  ASSUME NEW m \in Seq(Digit), NEW s \in Text, Len(s) >= Len(m),
         \A i \in 1..Len(m) : s[i] = m[i], Len(s) > Len(m) => s[Len(m) + 1] = Point
  PROVE  /\ PointAt(s) = Len(m) + 1 /\ Major(s) = m /\ SubSeq(s, 1, Len(m)) = m
         /\ Fraction(s) = SubSeq(s, Len(m) + 2, Len(s))
<1>1. Len(m) \in Nat /\ Len(s) \in Nat /\ \A i \in 1..Len(m) : m[i] \in Digit
  BY LenProperties, ElementOfSeq DEF Text
<1>2. PointAt(s) = Len(m) + 1
  <2>1. \A i \in 1..Len(m) : s[i] # Point
    BY <1>1 DEF Digit, Point
  <2>2. PICK k \in 1..Len(s) + 1 : k = Len(m) + 1
    BY <1>1
  <2>3. (k <= Len(s) => s[k] = Point) /\ \A j \in 1..k - 1 : s[j] # Point
    BY <1>1, <2>1, <2>2
  <2> QED BY <2>2, <2>3, PointFound
<1>3. SubSeq(s, 1, Len(m)) = m
  <2>1. \A i \in 1..Len(m) : s[i] \in Digit
    BY <1>1
  <2> DEFINE u == SubSeq(s, 1, Len(m))
  <2>2. /\ u \in Seq(Digit)
        /\ Len(u) = IF 1 <= Len(m) THEN Len(m) - 1 + 1 ELSE 0
        /\ \A i \in 1..Len(m) - 1 + 1 : u[i] = s[1 + i - 1]
    BY <1>1, <2>1, SubSeqProperties
  <2> HIDE DEF u
  <2>3. Len(u) = Len(m) /\ \A i \in 1..Len(u) : u[i] = m[i]
    BY <1>1, <2>2
  <2>4. u = m
    BY <2>2, <2>3, SeqEqual
  <2> QED BY <2>4 DEF u
<1>4. (Len(m) + 1) - 1 = Len(m) /\ (Len(m) + 1) + 1 = Len(m) + 2
  BY <1>1
<1> QED BY <1>2, <1>3, <1>4 DEF Major, Fraction

(* Decimals: none, one and two.                                             *)
(* Two digits as a sequence and as a number.                                *)
LEMMA Pair ==
  ASSUME NEW a \in Digit, NEW b \in Digit
  PROVE  /\ <<a, b>> \in Seq(Digit) /\ Len(<<a, b>>) = 2 /\ <<a, b>>[1] = a /\ <<a, b>>[2] = b
         /\ <<a, b>> = Append(<<a>>, b) /\ Number[<<a, b>>] = 10 * a + b
<1>1. /\ <<a, b>> \in Seq(Digit) /\ Len(<<a, b>>) = 2 /\ <<a, b>>[1] = a /\ <<a, b>>[2] = b
      /\ <<a, b>> = Append(<<a>>, b)
  OBVIOUS
<1>2. Number[<<a>>] = a
  <2>1. <<a>> = Append(<<>>, a)
    BY Singleton
  <2>2. Number[Append(<<>>, a)] = 10 * Number[<<>>] + a
    BY EmptySeq, Numbers, Zenon
  <2>3. Number[<<>>] = 0 /\ a \in Nat
    BY Numbers DEF Digit
  <2>4. PICK u : u = <<a>> /\ Number[u] = 10 * Number[<<>>] + a
    BY <2>1, <2>2
  <2>5. Number[u] = a
    BY <2>3, <2>4
  <2> QED BY <2>4, <2>5
<1>3. Number[<<a, b>>] = 10 * a + b
  <2>1. <<a>> \in Seq(Digit)
    BY Singleton
  <2>2. Number[Append(<<a>>, b)] = 10 * Number[<<a>>] + b
    BY <2>1, Numbers, Zenon
  <2> QED BY <1>1, <1>2, <2>2
<1> QED BY <1>1, <1>3

(* padEnd() makes two decimals of none, one and two.                        *)
LEMMA Padded ==
  ASSUME NEW a \in Digit, NEW b \in Digit
  PROVE  PadEnd(<<>>) = <<0, 0>> /\ PadEnd(<<a>>) = <<a, 0>> /\ PadEnd(<<a, b>>) = <<a, b>>
<1>1. PadEnd(<<>>) = <<0, 0>>
  <2>1. [i \in 1..2 - Len(<<>>) |-> 0] = <<0, 0>>
    OBVIOUS
  <2>2. <<>> \o <<0, 0>> = <<0, 0>>
    OBVIOUS
  <2> QED BY <2>1, <2>2 DEF PadEnd
<1>2. PadEnd(<<a>>) = <<a, 0>>
  <2>1. [i \in 1..2 - Len(<<a>>) |-> 0] = <<0>>
    OBVIOUS
  <2>2. <<a>> \in Seq(Digit) /\ 0 \in Digit
    BY Singleton DEF Digit
  <2>3. Append(<<a>>, 0) = <<a>> \o <<0>>
    BY <2>2, AppendIsConcat, Zenon
  <2>4. Append(<<a>>, 0) = <<a, 0>>
    BY <2>2, Pair, Zenon
  <2> QED BY <2>1, <2>3, <2>4, Zenon DEF PadEnd
<1>3. PadEnd(<<a, b>>) = <<a, b>>
  <2>1. [i \in 1..2 - Len(<<a, b>>) |-> 0] = <<>>
    OBVIOUS
  <2>2. <<a, b>> \o <<>> = <<a, b>>
    OBVIOUS
  <2> QED BY <2>1, <2>2 DEF PadEnd
<1> QED BY <1>1, <1>2, <1>3

(* What a text has behind its point, by its length.                         *)
LEMMA Behind ==
  ASSUME NEW s \in Text, NEW k \in Nat, NEW a \in Digit, NEW b \in Digit
  PROVE  /\ Len(s) = k => SubSeq(s, k + 2, Len(s)) = <<>>
         /\ Len(s) = k + 2 /\ s[k + 2] = a => SubSeq(s, k + 2, Len(s)) = <<a>>
         /\ Len(s) = k + 3 /\ s[k + 2] = a /\ s[k + 3] = b =>
              SubSeq(s, k + 2, Len(s)) = <<a, b>>
<1> DEFINE t == SubSeq(s, k + 2, Len(s))
<1>1. /\ Len(s) \in Nat
      /\ t \in Seq(Symbol)
      /\ Len(t) = IF k + 2 <= Len(s) THEN Len(s) - (k + 2) + 1 ELSE 0
      /\ \A i \in 1..Len(s) - (k + 2) + 1 : t[i] = s[k + 2 + i - 1]
  <2>1. Len(s) \in Nat /\ k + 2 \in Int /\ Len(s) \in Int
    BY LenProperties DEF Text
  <2>2. \A i \in k + 2..Len(s) : s[i] \in Symbol
    BY <2>1, ElementOfSeq DEF Text
  <2> HIDE DEF t
  <2>3. /\ t \in Seq(Symbol)
        /\ Len(t) = IF k + 2 <= Len(s) THEN Len(s) - (k + 2) + 1 ELSE 0
        /\ \A i \in 1..Len(s) - (k + 2) + 1 : t[i] = s[k + 2 + i - 1]
    BY <2>1, <2>2, SubSeqProperties DEF t
  <2> QED BY <2>1, <2>3
<1> HIDE DEF t
<1>2. a \in Symbol /\ b \in Symbol
  BY DEF Symbol
<1>3. CASE Len(s) = k
  <2>1. t = <<>>
    BY <1>1, <1>3, EmptySeq
  <2> QED BY <1>3, <2>1 DEF t
<1>4. CASE Len(s) = k + 2 /\ s[k + 2] = a
  <2>1. Len(t) = 1 /\ t[1] = a
    BY <1>1, <1>4
  <2>2. PICK u \in Seq(Symbol) : u = <<a>> /\ Len(u) = 1 /\ u[1] = a
    BY <1>2, Singleton
  <2>3. t = u
    <3>1. Len(t) = Len(u) /\ \A i \in 1..Len(t) : t[i] = u[i]
      BY <2>1, <2>2
    <3> QED BY <1>1, <3>1, SeqEqual
  <2> QED BY <1>4, <2>2, <2>3 DEF t
<1>5. CASE Len(s) = k + 3 /\ s[k + 2] = a /\ s[k + 3] = b
  <2>1. Len(t) = 2 /\ t[1] = a /\ t[2] = b
    BY <1>1, <1>5
  <2>2. /\ <<a, b>> \in Seq(Symbol) /\ Len(<<a, b>>) = 2
        /\ <<a, b>>[1] = a /\ <<a, b>>[2] = b
    BY <1>2
  <2>3. PICK u : u = <<a, b>>
    OBVIOUS
  <2>4. u \in Seq(Symbol) /\ Len(u) = 2 /\ u[1] = a /\ u[2] = b
    BY <2>2, <2>3
  <2>5. t = u
    <3>1. Len(t) = Len(u) /\ \A i \in 1..Len(t) : t[i] = u[i]
      BY <2>1, <2>4
    <3> QED BY <1>1, <2>4, <3>1, SeqEqual
  <2> QED BY <1>5, <2>3, <2>5 DEF t
<1> QED BY <1>3, <1>4, <1>5 DEF t

(* Digits read alike as a number and as a text.                             *)
LEMMA ReadingOfDigits == \A s \in Seq(Digit) : s \in Text /\ Reading[s] = Number[s]
<1> DEFINE P == {s \in Seq(Digit) : Reading[s] = Number[s]}
<1>0. \A s \in Seq(Digit) : s \in Text
  BY SeqMonotonic DEF Symbol, Text
<1>1. <<>> \in P
  BY Numbers, Readings, EmptySeq
<1>2. ASSUME NEW s \in P, NEW d \in Digit PROVE Append(s, d) \in P
  <2>1. Append(s, d) \in Seq(Digit)
    BY AppendProperties
  <2>2. Number[Append(s, d)] = 10 * Number[s] + d
    BY Numbers
  <2>3. Reading[Append(s, d)] = 10 * Reading[s] + d
    BY <1>0, Readings DEF Symbol
  <2> QED BY <2>1, <2>2, <2>3
<1>3. P \in SUBSET Seq(Digit)
  OBVIOUS
<1>4. P = Seq(Digit)
  <2> HIDE DEF P
  <2> QED BY <1>1, <1>2, <1>3, SequenceInduction
<1> QED BY <1>0, <1>4

--------------------------------------------------------------------------------
(* What a text that says something is read as.                              *)

Value(m, a, b) == 100 * Number[m] + 10 * a + b

(* A text that says something has a value.                                  *)
LEMMA ValueType ==
  ASSUME NEW m \in Seq(Digit), NEW a \in Digit, NEW b \in Digit
  PROVE  Number[m] \in Nat /\ Value(m, a, b) \in Nat
<1>1. Number[m] \in Nat /\ a \in Nat /\ b \in Nat
  BY Numbers DEF Digit
<1> QED BY <1>1 DEF Value

(* A text without decimals is read as hundreds.                             *)
LEMMA NoPlaces ==
  ASSUME NEW m \in Seq(Digit)
  PROVE  /\ Major(m) = m /\ Fraction(m) = <<>> /\ SubSeq(m, 1, Len(m)) = m
         /\ Number[PadEnd(<<>>)] = 0 /\ Reading[m] * 100 = Value(m, 0, 0)
<1>1. m \in Text /\ Reading[m] = Number[m] /\ Len(m) \in Nat /\ 0 \in Digit
  BY ReadingOfDigits DEF Digit
<1>2. /\ Major(m) = m /\ SubSeq(m, 1, Len(m)) = m
      /\ Fraction(m) = SubSeq(m, Len(m) + 2, Len(m))
  BY <1>1, Halves
<1>3. Fraction(m) = <<>>
  BY <1>1, <1>2, Behind
<1>4. Number[PadEnd(<<>>)] = 0
  <2>1. PadEnd(<<>>) = <<0, 0>> /\ Number[<<0, 0>>] = 10 * 0 + 0
    BY <1>1, Padded, Pair, Zenon
  <2> QED BY <2>1
<1>5. Reading[m] * 100 = Value(m, 0, 0)
  <2>1. Number[m] \in Nat
    BY Numbers
  <2> QED BY <1>1, <2>1 DEF Value
<1> QED BY <1>2, <1>3, <1>4, <1>5

(* A text with one decimal is read with that as its tens.                   *)
LEMMA OnePlaceRead ==
  ASSUME NEW m \in Seq(Digit), NEW a \in Digit, NEW s, s = OnePlace(m, a)
  PROVE  /\ Major(s) = m /\ Fraction(s) = <<a>> /\ SubSeq(s, 1, Len(m)) = m
         /\ SubSeq(s, Len(m) + 2, Len(s)) = <<a>>
         /\ Number[PadEnd(<<a>>)] = 10 * a /\ Reading[s] * 10 = Value(m, a, 0)
<1>0. m \in Text /\ Reading[m] = Number[m] /\ Len(m) \in Nat /\ 0 \in Digit /\ a \in Nat
  BY ReadingOfDigits DEF Digit
<1>1. Places(s, m, a) /\ Len(s) = Len(m) + 2
  BY <1>0, Layout
<1>2. /\ s \in Text /\ (\A i \in 1..Len(m) : s[i] = m[i]) /\ s[Len(m) + 2] = a
      /\ Len(s) >= Len(m) /\ (Len(s) > Len(m) => s[Len(m) + 1] = Point)
  BY <1>0, <1>1 DEF Places
<1>3. /\ Major(s) = m /\ SubSeq(s, 1, Len(m)) = m
      /\ Fraction(s) = SubSeq(s, Len(m) + 2, Len(s))
  BY <1>0, <1>2, Halves
<1>4. Fraction(s) = <<a>>
  BY <1>0, <1>1, <1>2, <1>3, Behind
<1>5. Number[PadEnd(<<a>>)] = 10 * a
  <2>1. PadEnd(<<a>>) = <<a, 0>> /\ Number[<<a, 0>>] = 10 * a + 0
    BY <1>0, Padded, Pair, Zenon
  <2> QED BY <1>0, <2>1
<1>6. Reading[s] = 10 * Number[m] + a
  <2>1. Append(m, Point) \in Text /\ Point \in Symbol \ Digit /\ a \in Symbol
    <3>1. Point \in Symbol \ Digit /\ a \in Symbol
      BY DEF Symbol, Point, Digit
    <3> QED BY <1>0, <3>1, AppendProperties DEF Text
  <2>2. Reading[Append(m, Point)] = Number[m]
    BY <1>0, <2>1, Readings
  <2>3. Reading[Append(Append(m, Point), a)] = 10 * Reading[Append(m, Point)] + a
    BY <2>1, Readings, Zenon
  <2> QED BY <2>2, <2>3 DEF OnePlace
<1>7. Reading[s] * 10 = Value(m, a, 0)
  <2>1. Number[m] \in Nat
    BY Numbers
  <2> QED BY <1>0, <1>6, <2>1 DEF Value
<1> QED BY <1>3, <1>4, <1>5, <1>7

(* A text with two decimals is read digit by digit.                         *)
LEMMA TwoPlacesRead ==
  ASSUME NEW m \in Seq(Digit), NEW a \in Digit, NEW b \in Digit, NEW s, s = TwoPlaces(m, a, b)
  PROVE  /\ Major(s) = m /\ Fraction(s) = <<a, b>> /\ SubSeq(s, 1, Len(m)) = m
         /\ SubSeq(s, Len(m) + 2, Len(s)) = <<a, b>>
         /\ Number[PadEnd(<<a, b>>)] = 10 * a + b /\ Reading[s] = Value(m, a, b)
<1>0. Len(m) \in Nat /\ a \in Nat /\ b \in Nat
  BY DEF Digit
<1>1. Places(s, m, a) /\ Len(s) = Len(m) + 3 /\ s[Len(m) + 3] = b
  BY Layout
<1>2. /\ s \in Text /\ (\A i \in 1..Len(m) : s[i] = m[i]) /\ s[Len(m) + 2] = a
      /\ Len(s) >= Len(m) /\ (Len(s) > Len(m) => s[Len(m) + 1] = Point)
  BY <1>0, <1>1 DEF Places
<1>3. /\ Major(s) = m /\ SubSeq(s, 1, Len(m)) = m
      /\ Fraction(s) = SubSeq(s, Len(m) + 2, Len(s))
  BY <1>0, <1>2, Halves
<1>4. Fraction(s) = <<a, b>>
  BY <1>0, <1>1, <1>2, <1>3, Behind
<1>5. Number[PadEnd(<<a, b>>)] = 10 * a + b
  <2>1. PadEnd(<<a, b>>) = <<a, b>> /\ Number[<<a, b>>] = 10 * a + b
    BY Padded, Pair, Zenon
  <2> QED BY <2>1, Zenon
<1>6. Reading[s] = Value(m, a, b)
  <2>1. PICK u : u = OnePlace(m, a)
    OBVIOUS
  <2>2. u \in Text /\ Reading[u] * 10 = Value(m, a, 0)
    BY <2>1, OnePlaceRead, Layout DEF Places
  <2>3. b \in Symbol
    BY DEF Symbol
  <2>4. Reading[Append(u, b)] = 10 * Reading[u] + b
    BY <2>2, <2>3, Readings, Zenon
  <2>5. Reading[u] \in Nat /\ Number[m] \in Nat
    BY <2>2, Readings, Numbers
  <2>6. s = Append(u, b)
    BY <2>1 DEF TwoPlaces
  <2>7. 10 * Reading[u] + b = Value(m, a, b)
    BY <1>0, <2>2, <2>5 DEF Value
  <2> QED BY <2>4, <2>6, <2>7
<1> QED BY <1>3, <1>4, <1>5, <1>6

(* Sequences of digits pass the check of the pattern.                       *)
LEMMA DigitsOf == \A s \in Seq(Digit) : Digits(s)
BY LenProperties, ElementOfSeq DEF Digits

(* A text that says something within the limit is taken for just that.      *)
Taken(s, v) ==
  /\ s \in Text /\ Matches(s) /\ Len(Fraction(s)) <= 2 /\ Worth(s) = v
  /\ parseMajorAmount(s) = {v} \ {0}

(* The pattern matches it, the conversion yields its value and the          *)
(* reference agrees.                                                        *)
LEMMA SaysTaken ==
  ASSUME NEW m, Whole(m), NEW a \in Digit, NEW b \in Digit, NEW s, Says(s, m, a, b)
  PROVE  Taken(s, Value(m, a, b))
<1>0. /\ m \in Seq(Digit) /\ m \in Text /\ Len(m) \in 1..MaxMajor /\ (Len(m) > 1 => m[1] # 0)
      /\ Digits(m) /\ Number[m] \in Nat
  <2>1. m \in Seq(Digit) /\ m # <<>> /\ (Len(m) > 1 => m[1] # 0) /\ Len(m) <= MaxMajor
    BY DEF Whole, Plain
  <2>2. Len(m) \in Nat \ {0}
    BY <2>1, EmptySeq
  <2> QED BY <2>1, <2>2, DigitsOf, ReadingOfDigits, Numbers, MoneyAssumption
<1>1. CASE a = 0 /\ b = 0 /\ s = m
  <2>1. /\ Major(s) = m /\ Fraction(s) = <<>> /\ SubSeq(s, 1, Len(m)) = m
        /\ Number[PadEnd(<<>>)] = 0 /\ Reading[s] * 100 = Value(m, a, b)
    BY <1>0, <1>1, NoPlaces
  <2>2. Matches(s)
    <3>1. PICK k \in 1..MaxMajor : k = Len(m)
      BY <1>0
    <3>2. k <= Len(s) /\ (k > 1 => s[1] # 0)
      BY <1>0, <1>1, <3>1
    <3>3. Digits(SubSeq(s, 1, k))
      BY <1>0, <2>1, <3>1, Zenon
    <3>4. Len(s) = k
      BY <1>1, <3>1
    <3> QED BY <3>2, <3>3, <3>4, Zenon DEF Matches
  <2>3. Len(Fraction(s)) = 0 /\ PowerOfTen[2 - 0] = 100
    BY <2>1, Powers
  <2>4. Worth(s) = Value(m, a, b)
    BY <2>1, <2>3 DEF Worth
  <2>5. Number[Major(s)] * 100 + Number[PadEnd(Fraction(s))] = Value(m, a, b)
    BY <1>0, <1>1, <2>1 DEF Value
  <2> QED BY <1>0, <1>1, <2>2, <2>3, <2>4, <2>5 DEF parseMajorAmount, Taken
<1>2. CASE b = 0 /\ s = OnePlace(m, a)
  <2>1. /\ Major(s) = m /\ Fraction(s) = <<a>> /\ SubSeq(s, 1, Len(m)) = m
        /\ SubSeq(s, Len(m) + 2, Len(s)) = <<a>>
        /\ Number[PadEnd(<<a>>)] = 10 * a /\ Reading[s] * 10 = Value(m, a, b)
    BY <1>0, <1>2, OnePlaceRead
  <2>2. Places(s, m, a) /\ Len(s) = Len(m) + 2
    BY <1>0, <1>2, Layout
  <2>3. s \in Text /\ s[1] = m[1] /\ s[Len(m) + 1] = Point
    BY <1>0, <2>2 DEF Places
  <2>4. Digits(<<a>>) /\ Len(<<a>>) = 1
    BY Singleton, DigitsOf
  <2>5. Matches(s)
    <3>1. PICK k \in 1..MaxMajor : k = Len(m)
      BY <1>0
    <3>2. k <= Len(s) /\ (k > 1 => s[1] # 0)
      BY <1>0, <2>2, <2>3, <3>1
    <3>3. Digits(SubSeq(s, 1, k))
      BY <1>0, <2>1, <3>1, Zenon
    <3>4. Len(s) \in k + 2..k + 3 /\ s[k + 1] = Point
      BY <2>2, <2>3, <3>1
    <3>5. Digits(SubSeq(s, k + 2, Len(s)))
      BY <2>1, <2>4, <3>1, Zenon
    <3> QED BY <3>2, <3>3, <3>4, <3>5, Zenon DEF Matches
  <2>6. Len(Fraction(s)) = 1 /\ PowerOfTen[2 - 1] = 10
    BY <2>1, <2>4, Powers
  <2>7. Worth(s) = Value(m, a, b)
    BY <2>1, <2>6 DEF Worth
  <2>8. Number[Major(s)] * 100 + Number[PadEnd(Fraction(s))] = Value(m, a, b)
    BY <1>0, <1>2, <2>1 DEF Value, Digit
  <2> QED BY <2>3, <2>5, <2>6, <2>7, <2>8 DEF parseMajorAmount, Taken
<1>3. CASE s = TwoPlaces(m, a, b)
  <2>1. /\ Major(s) = m /\ Fraction(s) = <<a, b>> /\ SubSeq(s, 1, Len(m)) = m
        /\ SubSeq(s, Len(m) + 2, Len(s)) = <<a, b>>
        /\ Number[PadEnd(<<a, b>>)] = 10 * a + b /\ Reading[s] = Value(m, a, b)
    BY <1>0, <1>3, TwoPlacesRead
  <2>2. Places(s, m, a) /\ Len(s) = Len(m) + 3
    BY <1>0, <1>3, Layout
  <2>3. s \in Text /\ s[1] = m[1] /\ s[Len(m) + 1] = Point
    BY <1>0, <2>2 DEF Places
  <2>4. Digits(<<a, b>>) /\ Len(<<a, b>>) = 2
    BY Pair, DigitsOf
  <2>5. Matches(s)
    <3>1. PICK k \in 1..MaxMajor : k = Len(m)
      BY <1>0
    <3>2. k <= Len(s) /\ (k > 1 => s[1] # 0)
      BY <1>0, <2>2, <2>3, <3>1
    <3>3. Digits(SubSeq(s, 1, k))
      BY <1>0, <2>1, <3>1, Zenon
    <3>4. Len(s) \in k + 2..k + 3 /\ s[k + 1] = Point
      BY <2>2, <2>3, <3>1
    <3>5. Digits(SubSeq(s, k + 2, Len(s)))
      BY <2>1, <2>4, <3>1, Zenon
    <3> QED BY <3>2, <3>3, <3>4, <3>5, Zenon DEF Matches
  <2>6. Len(Fraction(s)) = 2 /\ PowerOfTen[2 - 2] = 1
    BY <2>1, <2>4, Powers
  <2>7. Worth(s) = Value(m, a, b)
    <3>1. Value(m, a, b) \in Nat
      BY <1>0, ValueType
    <3> QED BY <2>1, <2>6, <3>1 DEF Worth
  <2>8. Number[Major(s)] * 100 + Number[PadEnd(Fraction(s))] = Value(m, a, b)
    BY <1>0, <2>1 DEF Value, Digit
  <2> QED BY <2>3, <2>5, <2>6, <2>7, <2>8 DEF parseMajorAmount, Taken
<1> QED BY <1>1, <1>2, <1>3 DEF Says

(* The pattern matches nothing but texts that say something.                *)
LEMMA DigitsInside ==
  ASSUME NEW s \in Text, NEW j \in Nat \ {0}, NEW k \in Nat, k <= Len(s), Digits(SubSeq(s, j, k))
  PROVE  \A i \in j..k : s[i] \in Digit
<1>1. Len(s) \in Nat
  BY LenProperties DEF Text
<1>2. \A i \in j..k : s[i] \in Symbol
  BY <1>1, ElementOfSeq DEF Text
<1> DEFINE t == SubSeq(s, j, k)
<1>3. /\ t \in Seq(Symbol)
      /\ Len(t) = IF j <= k THEN k - j + 1 ELSE 0
      /\ \A i \in 1..k - j + 1 : t[i] = s[j + i - 1]
  BY <1>2, SubSeqProperties
<1>4. Digits(t)
  OBVIOUS
<1> HIDE DEF t
<1>5. \A i \in 1..k - j + 1 : t[i] \in Digit
  BY <1>1, <1>3, <1>4, LenProperties DEF Digits
<1>6. ASSUME NEW i \in j..k PROVE s[i] \in Digit
  <2>1. i - j + 1 \in 1..k - j + 1 /\ j + (i - j + 1) - 1 = i
    OBVIOUS
  <2> QED BY <1>3, <1>5, <2>1
<1> QED BY <1>6

(* The decimals of a match are those behind its point.                      *)
LEMMA MatchesSays ==
  ASSUME NEW s \in Text, Matches(s)
  PROVE  \E m : Whole(m) /\ \E a, b \in Digit : Says(s, m, a, b)
<1>0. Len(s) \in Nat /\ MaxMajor \in Nat
  BY LenProperties, MoneyAssumption DEF Text
<1>1. PICK k \in 1..MaxMajor :
        /\ k <= Len(s) /\ Digits(SubSeq(s, 1, k)) /\ (k > 1 => s[1] # 0)
        /\ \/ Len(s) = k
           \/ Len(s) \in k + 2..k + 3 /\ s[k + 1] = Point /\ Digits(SubSeq(s, k + 2, Len(s)))
  BY Zenon DEF Matches
<1>2. k \in Nat \ {0} /\ \A i \in 1..k : s[i] \in Digit
  BY <1>0, <1>1, DigitsInside
<1>3. PICK m \in Seq(Digit) : Len(m) = k /\ \A i \in 1..k : m[i] = s[i]
  <2> DEFINE m == SubSeq(s, 1, k)
  <2>1. /\ m \in Seq(Digit)
        /\ Len(m) = IF 1 <= k THEN k - 1 + 1 ELSE 0
        /\ \A i \in 1..k - 1 + 1 : m[i] = s[1 + i - 1]
    BY <1>2, SubSeqProperties
  <2> HIDE DEF m
  <2>2. Len(m) = k /\ \A i \in 1..k : m[i] = s[i]
    BY <1>2, <2>1
  <2> QED BY <2>1, <2>2
<1>4. Whole(m)
  <2>1. m # <<>>
    BY <1>2, <1>3, EmptySeq
  <2> QED BY <1>1, <1>3, <2>1 DEF Whole, Plain
<1>5. m \in Text /\ 0 \in Digit
  BY ReadingOfDigits DEF Digit
<1>6. CASE Len(s) = k
  <2>1. s = m
    BY <1>3, <1>5, <1>6, SeqEqual DEF Text
  <2> QED BY <1>4, <1>5, <2>1 DEF Says
<1>7. CASE Len(s) \in k + 2..k + 3 /\ s[k + 1] = Point /\ Digits(SubSeq(s, k + 2, Len(s)))
  <2>1. \A i \in k + 2..Len(s) : s[i] \in Digit
    BY <1>0, <1>2, <1>7, DigitsInside
  <2>2. CASE Len(s) = k + 2
    <3>1. PICK a \in Digit : a = s[k + 2]
      BY <1>2, <2>1, <2>2
    <3>2. PICK u : u = OnePlace(m, a)
      OBVIOUS
    <3>3. /\ u \in Text /\ (\A i \in 1..k : u[i] = m[i]) /\ u[k + 1] = Point /\ u[k + 2] = a
          /\ Len(u) = k + 2
      BY <1>3, <3>2, Layout DEF Places
    <3>4. \A i \in 1..Len(s) : s[i] = u[i]
      BY <1>2, <1>3, <1>7, <2>2, <3>1, <3>3
    <3>5. s = u
      BY <2>2, <3>3, <3>4, SeqEqual DEF Text
    <3> QED BY <1>4, <1>5, <3>2, <3>5 DEF Says
  <2>3. CASE Len(s) = k + 3
    <3>1. PICK a \in Digit, b \in Digit : a = s[k + 2] /\ b = s[k + 3]
      BY <1>2, <2>1, <2>3
    <3>2. PICK u : u = TwoPlaces(m, a, b)
      OBVIOUS
    <3>3. /\ u \in Text /\ (\A i \in 1..k : u[i] = m[i]) /\ u[k + 1] = Point /\ u[k + 2] = a
          /\ Len(u) = k + 3 /\ u[k + 3] = b
      BY <1>3, <3>2, Layout DEF Places
    <3>4. \A i \in 1..Len(s) : s[i] = u[i]
      BY <1>2, <1>3, <1>7, <2>3, <3>1, <3>3
    <3>5. s = u
      BY <2>3, <3>3, <3>4, SeqEqual DEF Text
    <3> QED BY <1>4, <3>2, <3>5 DEF Says
  <2> QED BY <1>0, <1>2, <1>7, <2>2, <2>3
<1> QED BY <1>1, <1>6, <1>7

--------------------------------------------------------------------------------
(* Formatting.                                                              *)

(* An amount has a whole part, tenths and hundredths.                       *)
LEMMA Split ==
  ASSUME NEW n \in Nat
  PROVE  \E v \in Nat, a \in Digit, b \in Digit :
           /\ n = 100 * v + 10 * a + b /\ n \div 100 = v /\ n % 100 = 10 * a + b
           /\ n % 10 = b
<1>1. n \div 100 \in Nat /\ (n % 100) \div 10 \in Digit /\ (n % 100) % 10 \in Digit
  BY DEF Digit
<1>2. PICK v \in Nat, a \in Digit, b \in Digit :
        v = n \div 100 /\ a = (n % 100) \div 10 /\ b = (n % 100) % 10
  BY <1>1
<1>3. /\ n = 100 * v + 10 * a + b /\ n \div 100 = v /\ n % 100 = 10 * a + b
      /\ n % 10 = b
  BY <1>2
<1> QED BY <1>3

(* padStart() shows hundredths as two digits.                               *)
LEMMA PadStartTwo ==
  ASSUME NEW a \in Digit, NEW b \in Digit
  PROVE  PadStart(Numeral[10 * a + b]) = <<a, b>>
<1>0. a \in 0..9 /\ b \in 0..9
  BY DEF Digit
<1>1. CASE a = 0
  <2>1. Numeral[10 * a + b] = <<b>>
    <3>1. PICK x \in Nat : x = 10 * a + b /\ x = b /\ x < 10
      BY <1>0, <1>1
    <3>2. Numeral[x] = <<x>>
      BY <3>1, Numerals
    <3> QED BY <3>1, <3>2, Zenon
  <2>2. [i \in 1..2 - Len(<<b>>) |-> 0] = <<0>>
    OBVIOUS
  <2>3. <<0>> \o <<b>> = Append(<<0>>, b)
    <3>1. <<0>> \in Seq(Digit)
      BY Singleton DEF Digit
    <3> QED BY <3>1, AppendIsConcat, Zenon
  <2>4. Append(<<0>>, b) = <<0, b>>
    <3>1. 0 \in Digit
      BY DEF Digit
    <3> QED BY <3>1, Pair, Zenon
  <2>5. PadStart(<<b>>) = <<a, b>>
    BY <1>1, <2>2, <2>3, <2>4, Zenon DEF PadStart
  <2> QED BY <2>1, <2>5, Zenon
<1>2. CASE a # 0
  <2>1. Numeral[10 * a + b] = <<a, b>>
    <3>1. PICK x \in Nat : x = 10 * a + b
      BY <1>0
    <3>2. ~ (x < 10) /\ x \div 10 = a /\ x % 10 = b
      <4>1. a \in Nat /\ ~ (x < 10)
        BY <1>0, <1>2, <3>1
      <4>2. (10 * a + b) \div 10 = a /\ (10 * a + b) % 10 = b
        BY <1>0, <4>1, LastDigit
      <4> QED BY <3>1, <4>1, <4>2
    <3>3. Numeral[x] = Append(Numeral[a], b)
      BY <3>2, Numerals
    <3>4. a \in Nat /\ a < 10
      BY <1>0
    <3>5. Numeral[a] = <<a>>
      BY <3>4, Numerals
    <3>6. <<a, b>> = Append(<<a>>, b)
      BY Pair, Zenon
    <3> QED BY <3>1, <3>3, <3>5, <3>6, Zenon
  <2>2. [i \in 1..2 - Len(<<a, b>>) |-> 0] = <<>>
    OBVIOUS
  <2>3. <<>> \o <<a, b>> = <<a, b>>
    OBVIOUS
  <2>4. PadStart(<<a, b>>) = <<a, b>>
    BY <2>2, <2>3, Zenon DEF PadStart
  <2> QED BY <2>1, <2>4, Zenon
<1> QED BY <1>1, <1>2

(* The whole part, the point and two digits joined are a text with two      *)
(* decimals.                                                                *)
LEMMA PlacesJoined ==
  ASSUME NEW m \in Seq(Digit), NEW a \in Digit, NEW b \in Digit
  PROVE  m \o <<Point>> \o <<a, b>> = TwoPlaces(m, a, b)
<1>1. m \in Seq(Symbol) /\ Point \in Symbol /\ a \in Symbol /\ b \in Symbol
  BY SeqMonotonic DEF Symbol
<1>2. <<a>> \in Seq(Symbol) /\ <<b>> \in Seq(Symbol)
  BY <1>1, Singleton
<1>3. <<a>> \o <<b>> = <<a, b>>
  <2>1. Append(<<a>>, b) = <<a>> \o <<b>>
    BY <1>1, <1>2, AppendIsConcat, Zenon
  <2>2. <<a, b>> = Append(<<a>>, b)
    BY Pair, Zenon
  <2> QED BY <2>1, <2>2, Zenon
<1>4. PICK u \in Seq(Symbol) : u = Append(m, Point) /\ u = m \o <<Point>>
  <2>1. Append(m, Point) \in Seq(Symbol) /\ Append(m, Point) = m \o <<Point>>
    BY <1>1, AppendProperties, AppendIsConcat, Zenon
  <2> QED BY <2>1, Zenon
<1>5. PICK w \in Seq(Symbol) : w = Append(u, a) /\ w = u \o <<a>>
  <2>1. Append(u, a) \in Seq(Symbol) /\ Append(u, a) = u \o <<a>>
    BY <1>1, AppendProperties, AppendIsConcat, Zenon
  <2> QED BY <2>1, Zenon
<1>6. Append(w, b) = w \o <<b>>
  BY <1>1, AppendIsConcat, Zenon
<1>7. (u \o <<a>>) \o <<b>> = u \o (<<a>> \o <<b>>)
  BY <1>2, <1>4, ConcatAssociative
<1> QED BY <1>3, <1>4, <1>5, <1>6, <1>7, Zenon DEF TwoPlaces, OnePlace

(* The ways to write a number are the texts that say its decimals.          *)
LEMMA WritesSays ==
  ASSUME NEW v \in Nat, NEW a \in Digit, NEW b \in Digit, NEW n, n = 100 * v + 10 * a + b
  PROVE  /\ formatMinorAmount(n) = TwoPlaces(Numeral[v], a, b)
         /\ \A s : Writes(s, n) <=> Says(s, Numeral[v], a, b)
<1>0. /\ a \in 0..9 /\ b \in 0..9 /\ n \in Nat
      /\ n \div 100 = v /\ n % 100 = 10 * a + b
      /\ (n % 10 = 0 <=> b = 0) /\ (n % 100 = 0 <=> a = 0 /\ b = 0)
  BY DEF Digit
<1>1. PICK m \in Seq(Digit) : m = Numeral[v]
  BY Numerals
<1>2. PICK w : w = TwoPlaces(m, a, b)
  OBVIOUS
<1>3. formatMinorAmount(n) = w
  <2>1. PadStart(Numeral[n % 100]) = <<a, b>>
    BY <1>0, PadStartTwo
  <2>2. m \o <<Point>> \o <<a, b>> = w
    BY <1>2, PlacesJoined, Zenon
  <2> QED BY <1>0, <1>1, <2>1, <2>2, Zenon DEF formatMinorAmount
<1>4. Len(w) - 3 = Len(m) /\ SubSeq(w, 1, Len(m)) = m
  <2>1. Len(m) \in Nat /\ Len(w) = Len(m) + 3
    BY <1>2, Layout
  <2>2. SubSeq(w, 1, Len(m)) = m
    <3>1. /\ Major(w) = m /\ Fraction(w) = <<a, b>> /\ SubSeq(w, 1, Len(m)) = m
          /\ SubSeq(w, Len(m) + 2, Len(w)) = <<a, b>>
          /\ Number[PadEnd(<<a, b>>)] = 10 * a + b /\ Reading[w] = Value(m, a, b)
      BY <1>2, TwoPlacesRead
    <3> QED BY <3>1, Zenon
  <2> QED BY <2>1, <2>2
<1>5. SubSeq(w, 1, Len(w) - 1) = OnePlace(m, a)
  <2>1. OnePlace(m, a) \in Seq(Symbol) /\ b \in Symbol
    BY Layout DEF Places, Text, Symbol
  <2>2. Front(Append(OnePlace(m, a), b)) = OnePlace(m, a)
    BY <2>1, EndsOfAppend, Zenon
  <2> QED BY <1>2, <2>2, Zenon DEF Front, TwoPlaces
<1>6. ASSUME NEW s PROVE Writes(s, n) <=> Says(s, m, a, b)
  <2>1. Writes(s, n) <=>
          \/ s = w
          \/ n % 10 = 0 /\ s = SubSeq(w, 1, Len(w) - 1)
          \/ n % 100 = 0 /\ s = SubSeq(w, 1, Len(w) - 3)
    BY <1>3, Zenon DEF Writes
  <2> QED BY <1>0, <1>2, <1>4, <1>5, <2>1, Zenon DEF Says
<1> QED BY <1>1, <1>2, <1>3, <1>6

(* Whole numbers of the pattern are those below its power of ten.           *)
LEMMA WithinLimit ==
  /\ Limit = 100 * PowerOfTen[MaxMajor] /\ PowerOfTen[MaxMajor] \in Nat \ {0}
  /\ \A m : Whole(m) => /\ m \in Seq(Digit) /\ Number[m] \in Nat /\ Numeral[Number[m]] = m
                        /\ Number[m] < PowerOfTen[MaxMajor]
  /\ \A v \in Nat : v < PowerOfTen[MaxMajor] =>
        Whole(Numeral[v]) /\ Number[Numeral[v]] = v
<1>1. Limit = 100 * PowerOfTen[MaxMajor] /\ PowerOfTen[MaxMajor] \in Nat \ {0}
  <2>1. PICK k \in Nat, l \in Nat : k = MaxMajor + 1 /\ l = k + 1 /\ l = MaxMajor + 2
    BY MoneyAssumption
  <2>2. PowerOfTen[l] = 10 * PowerOfTen[k] /\ PowerOfTen[k] = 10 * PowerOfTen[MaxMajor]
        /\ PowerOfTen[MaxMajor] \in Nat \ {0}
    BY <2>1, Powers, MoneyAssumption
  <2> QED BY <2>1, <2>2 DEF Limit
<1>2. ASSUME NEW m, Whole(m)
      PROVE  /\ m \in Seq(Digit) /\ Number[m] \in Nat /\ Numeral[Number[m]] = m
             /\ Number[m] < PowerOfTen[MaxMajor]
  <2>1. m \in Seq(Digit) /\ Plain(m) /\ Len(m) <= MaxMajor
    BY <1>2 DEF Whole, Plain
  <2>2. Number[m] \in Nat /\ Numeral[Number[m]] = m
    BY <2>1, Numbers, NumeralOfNumber
  <2> QED BY <2>1, <2>2, NumeralLength, MoneyAssumption
<1>3. ASSUME NEW v \in Nat, v < PowerOfTen[MaxMajor]
      PROVE  Whole(Numeral[v]) /\ Number[Numeral[v]] = v
  BY <1>3, NumberOfNumeral, NumeralLength, MoneyAssumption DEF Whole
<1> QED BY <1>1, <1>2, <1>3

--------------------------------------------------------------------------------
(* The conversions.                                                         *)

(* A text that is taken says its value, which is within the limit and of    *)
(* which the text is one of the ways to write it.                           *)
LEMMA TakenIsWritten ==
  ASSUME NEW s \in Text, Matches(s)
  PROVE  \E n \in 0..Limit - 1 : Taken(s, n) /\ Writes(s, n)
<1>0. PICK m : Whole(m) /\ \E a, b \in Digit : Says(s, m, a, b)
  BY MatchesSays
<1>1. PICK a \in Digit, b \in Digit : Whole(m) /\ Says(s, m, a, b)
  BY <1>0
<1>2. PICK v \in Nat : v = Number[m] /\ m = Numeral[v] /\ m \in Seq(Digit)
                      /\ v < PowerOfTen[MaxMajor]
  BY <1>1, WithinLimit
<1>3. PICK n : n = 100 * v + 10 * a + b
  OBVIOUS
<1>4. n = Value(m, a, b)
  BY <1>2, <1>3 DEF Value
<1>5. Taken(s, n)
  BY <1>1, <1>4, SaysTaken
<1>6. Writes(s, n)
  <2>1. Writes(s, n) <=> Says(s, Numeral[v], a, b)
    BY <1>3, WritesSays
  <2> QED BY <1>1, <1>2, <2>1
<1>7. n \in 0..Limit - 1
  <2>1. PICK p \in Nat : p = PowerOfTen[MaxMajor] /\ Limit = 100 * p
    BY WithinLimit
  <2>2. a \in 0..9 /\ b \in 0..9 /\ v < p
    BY <1>2, <2>1 DEF Digit
  <2> QED BY <1>3, <2>1, <2>2
<1> QED BY <1>5, <1>6, <1>7

(* Every way to write a number within the limit is taken for it.            *)
LEMMA WrittenIsTaken ==
  ASSUME NEW n \in Nat, n < Limit, NEW s, Writes(s, n)
  PROVE  Taken(s, n)
<1>1. PICK v \in Nat, a \in Digit, b \in Digit : n = 100 * v + 10 * a + b
  BY Split
<1>2. Says(s, Numeral[v], a, b)
  BY <1>1, WritesSays
<1>3. v < PowerOfTen[MaxMajor]
  <2>1. PICK p \in Nat : p = PowerOfTen[MaxMajor] /\ Limit = 100 * p
    BY WithinLimit
  <2>2. a \in Nat /\ b \in Nat
    BY DEF Digit
  <2> QED BY <1>1, <2>1, <2>2
<1>4. PICK m : m = Numeral[v]
  OBVIOUS
<1>5. Whole(m) /\ Number[m] = v
  BY <1>3, <1>4, WithinLimit
<1>6. Value(m, a, b) = n
  BY <1>1, <1>5 DEF Value
<1>7. Taken(s, Value(m, a, b))
  BY <1>2, <1>4, <1>5, SaysTaken
<1> QED BY <1>6, <1>7

(* What is shown of an amount is one of the ways to write it.               *)
LEMMA FormatWrites == \A n : Writes(formatMinorAmount(n), n)
BY Zenon DEF Writes

(* What is shown consists of digits and a point.                            *)
LEMMA FormatIsText == \A n \in Nat : formatMinorAmount(n) \in Text
<1>1. ASSUME NEW n \in Nat PROVE formatMinorAmount(n) \in Text
  <2>1. PICK v \in Nat, a \in Digit, b \in Digit : n = 100 * v + 10 * a + b
    BY Split
  <2>2. PICK m \in Seq(Digit) : m = Numeral[v]
    BY Numerals
  <2>3. formatMinorAmount(n) = TwoPlaces(m, a, b)
    BY <2>1, <2>2, WritesSays
  <2>4. Places(TwoPlaces(m, a, b), m, a)
    BY Layout
  <2> QED BY <2>3, <2>4 DEF Places
<1> QED BY <1>1

(* What parseMajorAmount() makes of a text.                                 *)
LEMMA Parses ==
  ASSUME NEW s \in Text
  PROVE  /\ parseMajorAmount(s) \subseteq 1..Limit - 1
         /\ \A n \in parseMajorAmount(s) : /\ parseMajorAmount(s) = {n} /\ Writes(s, n)
                                          /\ Len(Fraction(s)) <= 2 /\ n = Worth(s)
<1>1. CASE ~ Matches(s)
  BY <1>1 DEF parseMajorAmount
<1>2. CASE Matches(s)
  <2>1. PICK n \in 0..Limit - 1 : Taken(s, n) /\ Writes(s, n)
    BY <1>2, TakenIsWritten
  <2>2. parseMajorAmount(s) = {n} \ {0} /\ Len(Fraction(s)) <= 2 /\ n = Worth(s)
    BY <2>1 DEF Taken
  <2>3. Limit \in Int
    BY WithinLimit
  <2> QED BY <2>1, <2>2, <2>3
<1> QED BY <1>1, <1>2

--------------------------------------------------------------------------------
(* The theorems.  The amount a handler works with is that of the text it    *)
(* was sent, and the text it shows is that of the amount.                   *)
Inv ==
  /\ text \in Text /\ shown \in Text
  /\ amount = {} \/ amount = parseMajorAmount(text)
  /\ \A n \in amount : shown = formatMinorAmount(n)

(* Typing, refusing, accepting and repeating keep it.                       *)
LEMMA InvInductive == Inv /\ [Next]_vars => Inv'
<1> SUFFICES ASSUME Inv, [Next]_vars PROVE Inv'
  OBVIOUS
<1>0. <<>> \in Text
  BY EmptySeq DEF Text
<1>1. CASE Type
  <2>1. PICK x \in Character : text' = Append(text, x)
    BY <1>1 DEF Type
  <2>2. x \in Symbol
    BY MoneyAssumption DEF Symbol
  <2>3. text' \in Text
    BY <2>1, <2>2, AppendProperties DEF Inv, Text
  <2> QED BY <1>1, <2>3 DEF Inv, Type
<1>2. CASE Refuse
  BY <1>0, <1>2 DEF Inv, Refuse
<1>3. CASE Accept
  <2>1. PICK n \in amount' : shown' = formatMinorAmount(n)
    BY <1>3 DEF Accept
  <2>2. text' = text /\ amount' = parseMajorAmount(text) /\ text \in Text
    BY <1>3 DEF Accept, Inv
  <2>3. amount' = {n} /\ n \in Nat
    <3>1. Limit \in Int
      BY WithinLimit
    <3> QED BY <2>2, <3>1, Parses
  <2>4. shown' \in Text
    BY <2>1, <2>3, FormatIsText
  <2> QED BY <2>1, <2>2, <2>3, <2>4 DEF Inv
<1>4. CASE Repeat
  BY <1>0, <1>4 DEF Inv, Repeat
<1>5. CASE UNCHANGED vars
  BY <1>5 DEF vars, Inv
<1> QED BY <1>1, <1>2, <1>3, <1>4, <1>5 DEF Next

(* It holds whatever a client types or repeats.                             *)
LEMMA InvHolds == Spec => []Inv
<1>1. Init => Inv
  BY EmptySeq DEF Init, Inv, Text
<1> QED BY <1>1, InvInductive, PTL DEF Spec

(* Amounts are positive and below the limit, whatever a client sends.       *)
THEOREM MoneyTypes == Spec => []TypeOK
<1>1. Inv => TypeOK
  BY Parses DEF Inv, TypeOK
<1> QED BY <1>1, InvHolds, PTL

(* A handler works with exactly what the text says.                         *)
THEOREM ParsedExactly == Spec => []AmountsExact
<1>1. Inv => AmountsExact
  BY Parses DEF Inv, AmountsExact
<1> QED BY <1>1, InvHolds, PTL

(* Exactly the ways to write a positive amount within the limit are taken.  *)
THEOREM TakesNothingElse == Spec => []TakesExactly
<1>1. ASSUME NEW s \in Text
      PROVE  (parseMajorAmount(s) # {}) <=>
               (/\ Len(Fraction(s)) <= 2 /\ Worth(s) \in 1..Limit - 1
                /\ Writes(s, Worth(s)))
  <2>1. Limit \in Int
    BY WithinLimit
  <2>2. ASSUME parseMajorAmount(s) # {}
        PROVE  /\ Len(Fraction(s)) <= 2 /\ Worth(s) \in 1..Limit - 1
               /\ Writes(s, Worth(s))
    BY <2>2, Parses
  <2>3. ASSUME Worth(s) \in 1..Limit - 1, Writes(s, Worth(s))
        PROVE  parseMajorAmount(s) # {}
    <3>1. PICK n \in 1..Limit - 1 : n = Worth(s)
      BY <2>3
    <3>2. Taken(s, n)
      BY <2>1, <2>3, <3>1, WrittenIsTaken
    <3> QED BY <2>1, <3>2 DEF Taken
  <2> QED BY <2>2, <2>3
<1>2. Inv => TakesExactly
  BY <1>1 DEF Inv, TakesExactly
<1> QED BY <1>2, InvHolds, PTL

(* What an answer shows is an amount that, sent back, is the same amount.   *)
THEOREM ShownAmountsReturn == Spec => []ShownIsAmount
<1>1. ASSUME Inv, NEW n \in amount PROVE parseMajorAmount(shown) = {n}
  <2>1. n \in 1..Limit - 1 /\ Limit \in Int
    BY <1>1, Parses, WithinLimit DEF Inv
  <2>2. shown = formatMinorAmount(n)
    BY <1>1 DEF Inv
  <2>3. Taken(shown, n)
    BY <2>1, <2>2, FormatWrites, WrittenIsTaken
  <2> QED BY <2>1, <2>3 DEF Taken
<1>2. Inv => ShownIsAmount
  BY <1>1 DEF ShownIsAmount
<1> QED BY <1>2, InvHolds, PTL
================================================================================
