-------------------------- MODULE ConnectionsProofs -------------------------
(***************************************************************************)
(* Proofs about the start of the program, for any number of replicas, any  *)
(* commands and servers: an argument is understood as it was written, what *)
(* is known of a server when its worker starts is true, no connection is   *)
(* replaced while it is used, and the program ends for a reason.  Then     *)
(* those about the proxy's connection to a client, for any client, network *)
(* and results: ProxyInv says at which byte of which message it is.        *)
(***************************************************************************)
EXTENDS Startup, Proxy, TotalsProofs, SequenceTheorems

-----------------------------------------------------------------------------
(* Characters that stand for a digit are told apart, and are no dashes.    *)
Digits == {Numeral(d) : d \in 0..9}

LEMMA NumeralsDiffer ==
    \A d \in 0..9 : Numeral(d) # "-" /\ \A e \in 0..9 : Numeral(d) = Numeral(e) => d = e
<1> SUFFICES ASSUME NEW d \in 0..9, NEW e \in 0..9
             PROVE  Numeral(d) # "-" /\ (Numeral(d) = Numeral(e) => d = e)
  OBVIOUS
<1>1. d \in {0, 1, 2, 3, 4, 5, 6, 7, 8, 9} /\ e \in {0, 1, 2, 3, 4, 5, 6, 7, 8, 9}
  OBVIOUS
<1> QED BY <1>1 DEF Numeral

LEMMA DigitOfNumeral == \A d \in 0..9 : Digit(Numeral(d)) = d
  BY NumeralsDiffer DEF Digit

(* w is what reading the digits of s gives, after each of them.            *)
Reading(w, s) ==
    /\ w \in [0..Len(s) -> Nat] /\ w[0] = 0
    /\ \A i \in 1..Len(s) : w[i] = 10 * w[i - 1] + Digit(s[i])

Denotes(s, n) == s \in Seq(Digits) /\ \E w : Reading(w, s) /\ w[Len(s)] = n

LEMMA NoDigits == Denotes(<<>>, 0)
<1> DEFINE w == [i \in 0..0 |-> 0]
<1>1. Reading(w, <<>>) /\ w[0] = 0
  BY DEF Reading
<1> QED BY <1>1 DEF Denotes

LEMMA OneMoreDigit ==
    ASSUME NEW n \in Nat, NEW s, Denotes(s, n), NEW d \in 0..9
    PROVE  Denotes(Append(s, Numeral(d)), 10 * n + d)
<1>1. PICK w : Reading(w, s) /\ w[Len(s)] = n
  BY DEF Denotes
<1> DEFINE c == Numeral(d)
           t == Append(s, c)
           v == [i \in 0..Len(t) |-> IF i = Len(t) THEN 10 * n + d ELSE w[i]]
<1>2. s \in Seq(Digits) /\ c \in Digits /\ Digit(c) = d
  BY DigitOfNumeral DEF Denotes, Digits
<1> HIDE DEF c
<1>3. t \in Seq(Digits) /\ Len(t) = Len(s) + 1 /\ Len(s) \in Nat /\ t[Len(t)] = c
      /\ \A i \in 1..Len(s) : t[i] = s[i]
  BY <1>2
<1> HIDE DEF t
<1>4. v \in [0..Len(t) -> Nat] /\ v[0] = 0
  BY <1>1, <1>3 DEF Reading
<1>5. ASSUME NEW i \in 1..Len(t) PROVE v[i] = 10 * v[i - 1] + Digit(t[i])
  <2>1. CASE i = Len(t)
    <3>1. v[i] = 10 * n + d /\ v[i - 1] = w[Len(s)]
      BY <1>3, <2>1
    <3> QED BY <1>1, <1>2, <1>3, <2>1, <3>1
  <2>2. CASE i # Len(t)
    <3>1. i \in 1..Len(s) /\ t[i] = s[i] /\ v[i] = w[i] /\ v[i - 1] = w[i - 1]
      BY <1>3, <2>2
    <3> QED BY <1>1, <3>1 DEF Reading
  <2> QED BY <2>1, <2>2
<1>6. Reading(v, t) /\ v[Len(t)] = 10 * n + d
  <2>1. v[Len(t)] = 10 * n + d
    BY <1>3
  <2> HIDE DEF v
  <2> QED BY <1>4, <1>5, <2>1 DEF Reading
<1>7. Denotes(t, 10 * n + d)
  <2> HIDE DEF v
  <2> QED BY <1>3, <1>6 DEF Denotes
<1> QED BY <1>7 DEF t, c

(* The digits of a number are those of a tenth of it, and one more.        *)
DigitsOf(g, n) ==
    g = [m \in 0..n |-> IF m < 10 THEN <<Numeral(m)>> ELSE Append(g[m \div 10], Numeral(m % 10))]

LEMMA DigitsExist ==
    ASSUME NEW n \in Nat
    PROVE  \E g : DigitsOf(g, n)
<1> DEFINE S == {m \in Nat : \E g : DigitsOf(g, m)}
<1>1. 0 \in S
  <2>1. DigitsOf([m \in 0..0 |-> <<Numeral(m)>>], 0)
    BY DEF DigitsOf
  <2> QED BY <2>1
<1>2. ASSUME NEW m \in Nat, m \in S PROVE m + 1 \in S
  <2>1. PICK g : DigitsOf(g, m)
    BY <1>2
  <2> DEFINE last == IF m + 1 < 10 THEN <<Numeral(m + 1)>>
                     ELSE Append(g[(m + 1) \div 10], Numeral((m + 1) % 10))
             h == [i \in 0..(m + 1) |-> IF i = m + 1 THEN last ELSE g[i]]
  <2>2. ASSUME NEW i \in 0..(m + 1)
        PROVE  h[i] = IF i < 10 THEN <<Numeral(i)>> ELSE Append(h[i \div 10], Numeral(i % 10))
    <3>1. i >= 10 => i \div 10 \in 0..m
      OBVIOUS
    <3>2. CASE i = m + 1
      BY <3>1, <3>2
    <3>3. CASE i # m + 1
      <4>1. i \in 0..m /\ h[i] = g[i]
        BY <3>3
      <4>2. ~(i < 10) => h[i \div 10] = g[i \div 10]
        BY <3>1
      <4>3. g[i] = IF i < 10 THEN <<Numeral(i)>> ELSE Append(g[i \div 10], Numeral(i % 10))
        BY <2>1, <4>1 DEF DigitsOf
      <4> HIDE DEF h
      <4> QED BY <4>1, <4>2, <4>3
    <3> QED BY <3>2, <3>3
  <2>3. DigitsOf(h, m + 1)
    BY <2>2 DEF DigitsOf
  <2> QED BY <2>3
<1>3. n \in S
  <2> HIDE DEF S
  <2> QED BY <1>1, <1>2, SetInduction
<1> QED BY <1>3

(* A number is written as digits that are read as that number.             *)
LEMMA DecimalDenotes ==
    ASSUME NEW n \in Nat
    PROVE  Denotes(Decimal(n), n)
<1>1. PICK g : DigitsOf(g, n)
  BY DigitsExist
<1> DEFINE f == CHOOSE h : DigitsOf(h, n)
           S == {m \in Nat : \A i \in 0..m : i <= n => Denotes(f[i], i)}
<1>2. DigitsOf(f, n)
  BY <1>1
<1>3. Decimal(n) = f[n]
  BY DEF Decimal, DigitsOf
<1> HIDE DEF f
<1>4. ASSUME NEW m \in 0..n, m < 10 PROVE Denotes(f[m], m)
  <2>1. f[m] = <<Numeral(m)>> /\ m \in 0..9
    BY <1>2, <1>4 DEF DigitsOf
  <2>2. <<Numeral(m)>> = Append(<<>>, Numeral(m)) /\ 10 * 0 + m = m
    OBVIOUS
  <2>3. Denotes(Append(<<>>, Numeral(m)), 10 * 0 + m)
    BY <2>1, NoDigits, OneMoreDigit
  <2> QED BY <2>1, <2>2, <2>3
<1>5. 0 \in S
  BY <1>4
<1>6. ASSUME NEW m \in Nat, m \in S PROVE m + 1 \in S
  <2> SUFFICES ASSUME m + 1 <= n PROVE Denotes(f[m + 1], m + 1)
    <3>1. \A i \in 0..(m + 1) : i \in 0..m \/ i = m + 1
      OBVIOUS
    <3> QED BY <1>6, <3>1
  <2>1. CASE m + 1 < 10
    BY <1>4, <2>1
  <2>2. CASE ~(m + 1 < 10)
    <3> DEFINE q == (m + 1) \div 10
               e == (m + 1) % 10
    <3>1. q \in 0..m /\ e \in 0..9 /\ 10 * q + e = m + 1 /\ q \in Nat
      BY <2>2
    <3>2. f[m + 1] = Append(f[q], Numeral(e))
      <4>1. m + 1 \in 0..n
        OBVIOUS
      <4>2. f[m + 1] = IF m + 1 < 10 THEN <<Numeral(m + 1)>>
                       ELSE Append(f[(m + 1) \div 10], Numeral((m + 1) % 10))
        BY <1>2, <4>1 DEF DigitsOf
      <4> QED BY <2>2, <4>2
    <3> HIDE DEF q, e
    <3>3. Denotes(f[q], q)
      BY <1>6, <3>1
    <3>4. Denotes(Append(f[q], Numeral(e)), 10 * q + e)
      BY <3>1, <3>3, OneMoreDigit
    <3> QED BY <3>1, <3>2, <3>4
  <2> QED BY <2>1, <2>2
<1>7. n \in S
  <2> HIDE DEF S
  <2> QED BY <1>5, <1>6, SetInduction
<1> QED BY <1>3, <1>7
-----------------------------------------------------------------------------
(* What is read from pos on, after each character.                         *)
ReadFrom(v, arg, pos, end) ==
    v = [p \in 0..end |-> IF p < pos THEN 0 ELSE 10 * v[p - 1] + Digit(arg[p])]

LEMMA NumberIsRead ==
    ASSUME NEW arg, NEW pos \in Nat \ {0}, NEW end \in Nat, PartEnd(arg, pos) - 1 = end,
           NEW v, ReadFrom(v, arg, pos, end)
    PROVE  Number(arg, pos) = v[end]
<1> DEFINE g == CHOOSE h : ReadFrom(h, arg, pos, end)
           S == {p \in Nat : p <= end => g[p] = v[p]}
<1>1. Number(arg, pos) = g[end]
  BY DEF Number, ReadFrom
<1>2. ReadFrom(g, arg, pos, end)
  OBVIOUS
<1> HIDE DEF g
<1>3. 0 \in S
  BY <1>2 DEF ReadFrom
<1>4. ASSUME NEW p \in Nat, p \in S PROVE p + 1 \in S
  <2> SUFFICES ASSUME p + 1 <= end PROVE g[p + 1] = v[p + 1]
    OBVIOUS
  <2>1. g[p] = v[p] /\ p + 1 \in 0..end /\ (p + 1) - 1 = p
    BY <1>4
  <2>2. g[p + 1] = IF p + 1 < pos THEN 0 ELSE 10 * g[p] + Digit(arg[p + 1])
    BY <1>2, <2>1 DEF ReadFrom
  <2>3. v[p + 1] = IF p + 1 < pos THEN 0 ELSE 10 * v[p] + Digit(arg[p + 1])
    BY <2>1 DEF ReadFrom
  <2> QED BY <2>1, <2>2, <2>3
<1>5. end \in S
  <2> HIDE DEF S
  <2> QED BY <1>3, <1>4, SetInduction
<1> QED BY <1>1, <1>5

LEMMA LeastIsMin ==
    ASSUME NEW T, T \subseteq Int, NEW x \in T, \A y \in T : x <= y
    PROVE  Min(T) = x
<1>1. \A y \in T : (\A z \in T : y <= z) => y = x
  OBVIOUS
<1> QED BY <1>1 DEF Min

(* The digits between two dashes, or after the last, are read as what they *)
(* denote.                                                                 *)
LEMMA NumberThere ==
    ASSUME NEW arg, Len(arg) \in Nat, NEW pos \in Nat \ {0}, NEW s, NEW n \in Nat, Denotes(s, n),
           pos + Len(s) <= Len(arg) + 1,
           \A i \in 1..Len(s) : arg[pos + i - 1] = s[i],
           pos + Len(s) = Len(arg) + 1 \/ arg[pos + Len(s)] = "-"
    PROVE  PartEnd(arg, pos) = pos + Len(s) /\ Number(arg, pos) = n
<1> DEFINE end == pos + Len(s) - 1
           T == {p \in pos..Len(arg) : arg[p] = "-"} \cup {Len(arg) + 1}
<1>1. PICK w : Reading(w, s) /\ w[Len(s)] = n
  BY DEF Denotes
<1>2. s \in Seq(Digits) /\ Len(s) \in Nat /\ end \in Nat
  BY DEF Denotes
<1>3. PartEnd(arg, pos) = pos + Len(s)
  <2>1. T \subseteq Int /\ pos + Len(s) \in T
    BY <1>2
  <2>2. ASSUME NEW p \in T, p < pos + Len(s) PROVE FALSE
    <3>1. p \in pos..Len(arg) /\ arg[p] = "-"
      BY <1>2, <2>2
    <3>2. p - pos + 1 \in 1..Len(s) /\ pos + (p - pos + 1) - 1 = p
      BY <1>2, <2>2, <3>1
    <3>3. arg[p] = s[p - pos + 1] /\ s[p - pos + 1] \in Digits
      BY <1>2, <3>2
    <3> QED BY <3>1, <3>3, NumeralsDiffer DEF Digits
  <2>3. \A p \in T : pos + Len(s) <= p
    BY <1>2, <2>1, <2>2
  <2>4. Min(T) = pos + Len(s)
    <3> HIDE DEF T
    <3> QED BY <2>1, <2>3, LeastIsMin
  <2> QED BY <2>4 DEF PartEnd
<1> DEFINE v == [p \in 0..end |-> IF p < pos THEN 0 ELSE w[p - pos + 1]]
<1>4. ASSUME NEW p \in 0..end
      PROVE  v[p] = IF p < pos THEN 0 ELSE 10 * v[p - 1] + Digit(arg[p])
  <2>1. CASE p < pos
    BY <2>1
  <2>2. CASE ~(p < pos)
    <3> DEFINE i == p - pos + 1
    <3>1. i \in 1..Len(s) /\ arg[p] = s[i]
      BY <1>2, <2>2
    <3>2. v[p - 1] = w[i - 1]
      <4>1. p - 1 \in 0..end
        BY <1>2, <2>2
      <4>2. CASE p - 1 < pos
        BY <1>1, <1>2, <2>2, <4>1, <4>2 DEF Reading
      <4>3. CASE ~(p - 1 < pos)
        BY <1>2, <4>1, <4>3
      <4> QED BY <4>2, <4>3
    <3>3. v[p] = w[i]
      BY <2>2
    <3>4. w[i] = 10 * w[i - 1] + Digit(s[i])
      BY <1>1, <3>1 DEF Reading
    <3> HIDE DEF v, i
    <3> QED BY <2>2, <3>1, <3>2, <3>3, <3>4
  <2> QED BY <2>1, <2>2
<1>5. v[end] = n
  <2>1. CASE Len(s) = 0
    BY <1>1, <1>2, <2>1 DEF Reading
  <2>2. CASE Len(s) # 0
    <3>1. end \in 0..end /\ ~(end < pos) /\ end - pos + 1 = Len(s)
      BY <1>2, <2>2
    <3> QED BY <1>1, <3>1
  <2> QED BY <2>1, <2>2
<1>6. ReadFrom(v, arg, pos, end)
  BY <1>4 DEF ReadFrom
<1>7. PartEnd(arg, pos) - 1 = end
  BY <1>2, <1>3
<1>8. Number(arg, pos) = n
  <2> HIDE DEF v, end
  <2> QED BY <1>2, <1>5, <1>6, <1>7, NumberIsRead
<1> QED BY <1>3, <1>8

(* Past the last of the numbers there is none: 0 is read.                  *)
LEMMA NumberMissing ==
    ASSUME NEW arg, Len(arg) \in Nat
    PROVE  PartEnd(arg, Len(arg) + 2) = Len(arg) + 1 /\ Number(arg, Len(arg) + 2) = 0
<1> DEFINE end == Len(arg)
           pos == Len(arg) + 2
           v == [p \in 0..end |-> 0]
<1>1. {p \in pos..Len(arg) : arg[p] = "-"} \cup {Len(arg) + 1} = {Len(arg) + 1}
  OBVIOUS
<1>2. PartEnd(arg, pos) = Len(arg) + 1
  <2>1. Min({Len(arg) + 1}) = Len(arg) + 1
    BY LeastIsMin
  <2> QED BY <1>1, <2>1 DEF PartEnd
<1>3. ReadFrom(v, arg, pos, end) /\ v[end] = 0
  BY DEF ReadFrom
<1>4. pos \in Nat \ {0} /\ end \in Nat /\ PartEnd(arg, pos) - 1 = end
  BY <1>2
<1>5. Number(arg, pos) = 0
  <2> HIDE DEF v, end, pos
  <2> QED BY <1>3, <1>4, NumberIsRead
<1> QED BY <1>2, <1>5

(* An argument is written number after number.                             *)
WrittenBy(g, letter, numbers) ==
    g = [j \in 0..Len(numbers) |->
            IF j = 0 THEN <<letter>> ELSE Append(g[j - 1], "-") \o Decimal(numbers[j])]

Chars(letter) == {letter, "-"} \cup Digits

LEMMA DecimalIsDigits ==
    ASSUME NEW n \in Nat, NEW letter
    PROVE  Decimal(n) \in Seq(Chars(letter))
<1>1. Decimal(n) \in Seq(Digits)
  BY DecimalDenotes DEF Denotes
<1>2. Digits \subseteq Chars(letter)
  BY DEF Chars
<1> HIDE DEF Chars, Digits
<1> QED BY <1>1, <1>2

LEMMA ArgumentIsWritten ==
    ASSUME NEW letter, NEW numbers \in Seq(Nat)
    PROVE  \E g \in [0..Len(numbers) -> Seq(Chars(letter))] :
               WrittenBy(g, letter, numbers) /\ Argument(letter, numbers) = g[Len(numbers)]
<1> DEFINE n == Len(numbers)
           X == Seq(Chars(letter))
           F == [j \in 1..n |-> [a \in X |-> Append(a, "-") \o Decimal(numbers[j])]]
<1>1. <<letter>> \in X /\ n \in Nat
  BY DEF Chars
<1>2. F \in StepsOn(n, X)
  <2> SUFFICES ASSUME NEW j \in 1..n, NEW a \in X PROVE Append(a, "-") \o Decimal(numbers[j]) \in X
    BY DEF StepsOn
  <2>1. numbers[j] \in Nat
    OBVIOUS
  <2>2. Decimal(numbers[j]) \in X
    BY <2>1, DecimalIsDigits
  <2>3. Append(a, "-") \in X
    BY DEF Chars
  <2> HIDE DEF Chars
  <2> QED BY <2>2, <2>3
<1>3. PICK g \in [0..n -> X] : Iterates(g, n, <<letter>>, F)
  <2> DEFINE x == <<letter>>
  <2>1. x \in X
    BY <1>1
  <2> HIDE DEF n, X, F, x
  <2>2. \E g \in [0..n -> X] : Iterates(g, n, x, F)
    BY <1>1, <1>2, <2>1, IterationExists
  <2> QED BY <2>2 DEF x
<1>4. ASSUME NEW j \in 0..n
      PROVE  g[j] = IF j = 0 THEN <<letter>> ELSE Append(g[j - 1], "-") \o Decimal(numbers[j])
  <2>1. CASE j = 0
    BY <1>3, <2>1 DEF Iterates
  <2>2. CASE j # 0
    <3>1. j \in 1..n /\ j - 1 \in 0..n
      BY <1>1, <2>2
    <3> DEFINE a == g[j - 1]
    <3>2. a \in X /\ g[j] = F[j][a]
      BY <1>3, <3>1 DEF Iterates
    <3> HIDE DEF a, X
    <3>3. F[j][a] = Append(a, "-") \o Decimal(numbers[j])
      BY <3>1, <3>2
    <3> QED BY <2>2, <3>2, <3>3 DEF a
  <2> QED BY <2>1, <2>2
<1>5. WrittenBy(g, letter, numbers)
  BY <1>3, <1>4 DEF WrittenBy
<1> DEFINE c == CHOOSE h : WrittenBy(h, letter, numbers)
<1>6. WrittenBy(c, letter, numbers)
  BY <1>5
<1>7. Argument(letter, numbers) = c[n]
  BY DEF Argument, WrittenBy
<1> HIDE DEF c
<1>8. ASSUME NEW j \in Nat
      PROVE  j <= n => c[j] = g[j]
  <2> DEFINE S == {m \in Nat : m <= n => c[m] = g[m]}
  <2>1. 0 \in S
    BY <1>5, <1>6 DEF WrittenBy
  <2>2. ASSUME NEW m \in Nat, m \in S PROVE m + 1 \in S
    <3> SUFFICES ASSUME m + 1 <= n PROVE c[m + 1] = g[m + 1]
      OBVIOUS
    <3>1. c[m] = g[m] /\ m + 1 \in 0..n /\ m + 1 # 0 /\ (m + 1) - 1 = m
      BY <2>2
    <3>2. c[m + 1] = Append(c[m], "-") \o Decimal(numbers[m + 1])
      BY <1>6, <3>1 DEF WrittenBy
    <3>3. g[m + 1] = Append(g[m], "-") \o Decimal(numbers[m + 1])
      BY <1>5, <3>1 DEF WrittenBy
    <3> QED BY <3>1, <3>2, <3>3
  <2>3. \A m \in Nat : m \in S
    <3> HIDE DEF S
    <3> QED BY <2>1, <2>2, SetInduction
  <2> QED BY <2>3
<1>9. c[n] = g[n]
  BY <1>1, <1>8
<1> QED BY <1>5, <1>7, <1>9

(* t begins with s.                                                        *)
Begins(s, t) == Len(s) <= Len(t) /\ \A i \in 1..Len(s) : t[i] = s[i]

(* A dash and s are written after old.                                     *)
Appended(old, s, new) ==
    /\ Begins(old, new)
    /\ Len(new) = Len(old) + 1 + Len(s)
    /\ new[Len(old) + 1] = "-"
    /\ \A i \in 1..Len(s) : new[Len(old) + 1 + i] = s[i]

(* Each number follows a dash, and what is written stays.                  *)
LEMMA NumberIsAppended ==
    ASSUME NEW letter, NEW numbers \in Seq(Nat), NEW g \in [0..Len(numbers) -> Seq(Chars(letter))],
           WrittenBy(g, letter, numbers), NEW j \in 1..Len(numbers)
    PROVE  Appended(g[j - 1], Decimal(numbers[j]), g[j])
<1> DEFINE old == g[j - 1]
           new == g[j]
           s == Decimal(numbers[j])
           X == Chars(letter)
           dashed == Append(old, "-")
<1>1. old \in Seq(X) /\ j \in 0..Len(numbers) /\ j # 0
  <2>1. Len(numbers) \in Nat
    OBVIOUS
  <2>2. j \in 0..Len(numbers) /\ j # 0 /\ j - 1 \in 0..Len(numbers)
    BY <2>1
  <2> QED BY <2>2
<1>2. s \in Seq(X)
  BY DecimalIsDigits
<1>3. new = dashed \o s
  BY <1>1 DEF WrittenBy
<1>4. "-" \in X
  BY DEF Chars
<1> HIDE DEF old, new, s, X
<1>5. dashed \in Seq(X) /\ Len(dashed) = Len(old) + 1 /\ Len(old) \in Nat /\ Len(s) \in Nat
      /\ dashed[Len(old) + 1] = "-" /\ \A i \in 1..Len(old) : dashed[i] = old[i]
  BY <1>1, <1>2, <1>4
<1> HIDE DEF dashed
<1>6. /\ Len(new) = Len(dashed) + Len(s)
      /\ \A i \in 1..Len(dashed) : new[i] = dashed[i]
      /\ \A i \in 1..Len(s) : new[Len(dashed) + i] = s[i]
  <2>1. Len(new) = Len(dashed) + Len(s)
    BY <1>2, <1>3, <1>5, ConcatProperties
  <2>2. ASSUME NEW i \in 1..(Len(dashed) + Len(s))
        PROVE  new[i] = IF i <= Len(dashed) THEN dashed[i] ELSE s[i - Len(dashed)]
    BY <1>2, <1>3, <1>5, ConcatProperties
  <2>3. ASSUME NEW i \in 1..Len(s)
        PROVE  new[Len(dashed) + i] = s[i]
    <3>1. Len(dashed) + i \in 1..(Len(dashed) + Len(s)) /\ ~(Len(dashed) + i <= Len(dashed))
          /\ (Len(dashed) + i) - Len(dashed) = i
      BY <1>5
    <3> QED BY <2>2, <3>1
  <2>4. ASSUME NEW i \in 1..Len(dashed)
        PROVE  new[i] = dashed[i]
    <3>1. i \in 1..(Len(dashed) + Len(s)) /\ i <= Len(dashed)
      BY <1>5
    <3> QED BY <2>2, <3>1
  <2> QED BY <2>1, <2>3, <2>4
<1>7. Appended(old, s, new)
  BY <1>5, <1>6 DEF Begins, Appended
<1> QED BY <1>7 DEF old, new, s

LEMMA WrittenStays ==
    ASSUME NEW letter, NEW numbers \in Seq(Nat), NEW g \in [0..Len(numbers) -> Seq(Chars(letter))],
           WrittenBy(g, letter, numbers), NEW j \in 0..Len(numbers)
    PROVE  \A m \in j..Len(numbers) : Begins(g[j], g[m])
<1> DEFINE n == Len(numbers)
           S == {m \in Nat : j <= m /\ m <= n => Begins(g[j], g[m])}
<1>1. 0 \in S
  BY DEF Begins
<1>2. ASSUME NEW m \in Nat, m \in S PROVE m + 1 \in S
  <2> SUFFICES ASSUME j <= m + 1, m + 1 <= n PROVE Begins(g[j], g[m + 1])
    OBVIOUS
  <2>1. CASE j = m + 1
    BY <2>1 DEF Begins
  <2>2. CASE j # m + 1
    <3>1. Begins(g[j], g[m]) /\ m + 1 \in 1..n /\ (m + 1) - 1 = m /\ m \in 0..n
      BY <1>2, <2>2
    <3> DEFINE l == m + 1
    <3> HIDE DEF l
    <3>2. Appended(g[l - 1], Decimal(numbers[l]), g[l])
      BY <3>1, NumberIsAppended DEF l
    <3>3. Begins(g[m], g[m + 1])
      BY <3>1, <3>2 DEF Appended, l
    <3>4. Len(g[j]) \in Nat /\ Len(g[m]) \in Nat /\ Len(g[m + 1]) \in Nat
      BY <3>1
    <3> QED BY <3>1, <3>3, <3>4 DEF Begins
  <2> QED BY <2>1, <2>2
<1>3. \A m \in Nat : m \in S
  <2> HIDE DEF S
  <2> QED BY <1>1, <1>2, SetInduction
<1> QED BY <1>3

(* What main reads of an argument is what was written there: the strategy, *)
(* and each of three numbers, or 0 for those that were not given           *)
(* (main.cpp 35-59).                                                       *)
THEOREM ArgumentUnderstood ==
    ASSUME NEW letter, NEW numbers \in Seq(Nat)
    PROVE  Parameters(Argument(letter, numbers)) =
               [strategy |-> letter, speed |-> Asked(numbers, 1),
                ratio |-> Asked(numbers, 2), numTask |-> Asked(numbers, 3)]
<1> DEFINE n == Len(numbers)
           A == Argument(letter, numbers)
<1>1. PICK g \in [0..n -> Seq(Chars(letter))] : WrittenBy(g, letter, numbers) /\ A = g[n]
  BY ArgumentIsWritten
<1> DEFINE Pos(j) == IF j <= n + 1 THEN Len(g[j - 1]) + 2 ELSE Len(A) + 2
<1> HIDE DEF A
<1>2. n \in Nat /\ \A j \in 0..n : g[j] \in Seq(Chars(letter)) /\ Len(g[j]) \in Nat
  BY <1>1
<1>3. A[1] = letter /\ Pos(1) = 3 /\ Len(A) \in Nat
  <2>1. g[0] = <<letter>> /\ Len(g[0]) = 1 /\ g[0][1] = letter
    BY <1>1, <1>2 DEF WrittenBy
  <2>2. 0 \in 0..n /\ n \in 0..n
    BY <1>2
  <2>3. Begins(g[0], g[n])
    BY <1>1, <2>2, WrittenStays
  <2>4. A[1] = letter
    BY <1>1, <2>1, <2>3 DEF Begins
  <2>5. Len(A) \in Nat
    BY <1>1, <1>2, <2>2
  <2>6. Pos(1) = 3
    <3>1. 1 <= n + 1 /\ 1 - 1 = 0
      BY <1>2
    <3>2. Pos(1) = Len(g[0]) + 2
      BY <3>1
    <3> QED BY <2>1, <3>2
  <2> QED BY <2>4, <2>5, <2>6
<1>4. ASSUME NEW j \in 1..n
      PROVE  Number(A, Pos(j)) = numbers[j] /\ PastDash(A, Pos(j)) = Pos(j + 1)
  <2> DEFINE s == Decimal(numbers[j])
             old == g[j - 1]
             new == g[j]
             pos == Len(old) + 2
  <2>0. numbers[j] \in Nat /\ j \in 0..n /\ n \in j..n
    BY <1>2
  <2>1. numbers[j] \in Nat /\ Denotes(s, numbers[j]) /\ Len(s) \in Nat
    <3>1. Denotes(s, numbers[j])
      BY <2>0, DecimalDenotes
    <3> QED BY <2>0, <3>1 DEF Denotes
  <2>2. Appended(old, s, new)
    BY <1>1, NumberIsAppended
  <2>3. Begins(new, A)
    BY <1>1, <2>0, WrittenStays
  <2>4. Len(old) \in Nat /\ Len(new) \in Nat
    BY <1>2
  <2>5. j # n => A[Len(new) + 1] = "-"
    <3> SUFFICES ASSUME j # n PROVE A[Len(new) + 1] = "-"
      OBVIOUS
    <3>1. j + 1 \in 1..n /\ j + 1 \in 0..n /\ (j + 1) - 1 = j /\ n \in (j + 1)..n
      BY <1>2
    <3> DEFINE next == g[j + 1]
    <3>2. Begins(next, A) /\ Len(next) \in Nat
      <4>1. Begins(g[j + 1], g[n])
        BY <1>1, <3>1, WrittenStays
      <4> QED BY <1>1, <1>2, <3>1, <4>1
    <3>3. next[Len(new) + 1] = "-" /\ Len(next) = Len(new) + 1 + Len(Decimal(numbers[j + 1]))
      <4> DEFINE m == j + 1
      <4>1. m \in 1..n /\ m - 1 = j
        BY <3>1
      <4> HIDE DEF m
      <4>2. Appended(g[m - 1], Decimal(numbers[m]), g[m])
        BY <1>1, <4>1, NumberIsAppended
      <4> QED BY <4>1, <4>2 DEF m, Appended
    <3>4. Len(Decimal(numbers[j + 1])) \in Nat
      <4>1. numbers[j + 1] \in Nat
        BY <3>1
      <4> QED BY <4>1, DecimalDenotes DEF Denotes
    <3> HIDE DEF next, new
    <3> QED BY <2>4, <3>2, <3>3, <3>4 DEF Begins
  <2>6. j = n => Len(new) = Len(A)
    BY <1>1
  <2> HIDE DEF s, old, new
  <2>7. pos \in Nat \ {0} /\ pos + Len(s) = Len(new) + 1 /\ pos + Len(s) <= Len(A) + 1
    BY <1>3, <2>1, <2>2, <2>3, <2>4 DEF Begins, Appended
  <2>8. \A i \in 1..Len(s) : A[pos + i - 1] = s[i]
    <3> SUFFICES ASSUME NEW i \in 1..Len(s) PROVE A[pos + i - 1] = s[i]
      OBVIOUS
    <3>1. pos + i - 1 = Len(old) + 1 + i /\ pos + i - 1 \in 1..Len(new)
      BY <2>1, <2>2, <2>4 DEF Appended
    <3> QED BY <2>2, <2>3, <3>1 DEF Begins, Appended
  <2>9. pos + Len(s) = Len(A) + 1 \/ A[pos + Len(s)] = "-"
    BY <2>5, <2>6, <2>7
  <2> HIDE DEF pos
  <2>10. PartEnd(A, pos) = pos + Len(s) /\ Number(A, pos) = numbers[j]
    BY <1>3, <2>1, <2>7, <2>8, <2>9, NumberThere
  <2>11. Pos(j) = pos /\ Pos(j + 1) = Len(new) + 2
    <3>1. j <= n + 1 /\ j + 1 <= n + 1 /\ (j + 1) - 1 = j
      BY <1>2
    <3> QED BY <3>1 DEF pos, old, new
  <2>12. PastDash(A, pos) = Len(new) + 2
    BY <2>4, <2>7, <2>10 DEF PastDash
  <2> QED BY <2>10, <2>11, <2>12
<1>5. ASSUME NEW j \in Nat, j > n
      PROVE  Number(A, Pos(j)) = 0 /\ PastDash(A, Pos(j)) = Pos(j + 1)
  <2>1. Pos(j) = Len(A) + 2 /\ Pos(j + 1) = Len(A) + 2
    <3>1. j = n + 1 => Len(g[j - 1]) = Len(A)
      BY <1>1, <1>2
    <3>2. j <= n + 1 => j = n + 1
      BY <1>2, <1>5
    <3>3. Pos(j) = Len(A) + 2
      BY <1>2, <1>5, <3>1, <3>2
    <3>4. ~(j + 1 <= n + 1)
      BY <1>2, <1>5
    <3> QED BY <3>3, <3>4
  <2> QED BY <1>3, <2>1, NumberMissing DEF PastDash
<1>6. ASSUME NEW j \in Nat \ {0}
      PROVE  Number(A, Pos(j)) = Asked(numbers, j) /\ PastDash(A, Pos(j)) = Pos(j + 1)
  BY <1>4, <1>5, <1>6 DEF Asked
<1> HIDE DEF Pos
<1>7. /\ Number(A, Pos(1)) = Asked(numbers, 1) /\ PastDash(A, Pos(1)) = Pos(2)
      /\ Number(A, Pos(2)) = Asked(numbers, 2) /\ PastDash(A, Pos(2)) = Pos(3)
      /\ Number(A, Pos(3)) = Asked(numbers, 3)
  <2>1. 1 + 1 = 2 /\ 2 + 1 = 3
    OBVIOUS
  <2> QED BY <1>6, <2>1
<1> QED BY <1>3, <1>7 DEF Parameters, A
-----------------------------------------------------------------------------
(* What setUp makes of the log level is a number again, whatever the other *)
(* options are.                                                            *)
LEMMA RefusedIsFirst ==
    ASSUME NEW options, Len(options) \in Nat, DOMAIN options = 1..Len(options)
    PROVE  /\ Refused(options) \in 1..(Len(options) + 1)
           /\ \A i \in 1..(Refused(options) - 1) :
                  i \in DOMAIN options /\ options[i].opt \in DOMAIN FieldOf
<1> DEFINE T == {i \in DOMAIN options : options[i].opt \notin DOMAIN FieldOf} \cup {Len(options) + 1}
<1>1. T \subseteq 1..(Len(options) + 1) /\ Len(options) + 1 \in T
  OBVIOUS
<1>2. \E x \in T : \A y \in T : x <= y
  <2> HIDE DEF T
  <2>1. T \subseteq Nat /\ T # {}
    BY <1>1
  <2> QED BY <2>1, LeastExists
<1>3. PICK x \in T : \A y \in T : x <= y
  BY <1>2
<1>4. Refused(options) = x
  <2>1. Min(T) = x
    <3> HIDE DEF T
    <3>1. T \subseteq Int
      BY <1>1
    <3> QED BY <1>3, <3>1, LeastIsMin
  <2> QED BY <2>1 DEF Refused
<1>5. x \in 1..(Len(options) + 1)
  BY <1>1
<1>6. ASSUME NEW i \in 1..(x - 1)
      PROVE  i \in DOMAIN options /\ options[i].opt \in DOMAIN FieldOf
  <2>1. i \in DOMAIN options /\ i < x
    BY <1>5
  <2>2. i \notin T
    <3> HIDE DEF T
    <3> QED BY <1>1, <1>3, <1>5, <2>1
  <2> QED BY <2>1, <2>2
<1> QED BY <1>4, <1>5, <1>6

LEMMA LogLevelIsNumber ==
    ASSUME NEW c \in Commands
    PROVE  SetUp(c.options).log_level \in Int
<1> DEFINE options == c.options
           n == Refused(options) - 1
           V == {Defaults[f] : f \in DOMAIN Defaults} \cup {options[i].value : i \in DOMAIN options}
           X == {p \in [DOMAIN Defaults -> V] : p.log_level \in Int}
           F == [i \in 1..n |-> [p \in X |-> [p EXCEPT ![FieldOf[options[i].opt]] = options[i].value]]]
           SetBy(g) == g = [i \in 0..n |->
                              IF i = 0 THEN Defaults
                              ELSE [g[i - 1] EXCEPT ![FieldOf[options[i].opt]] = options[i].value]]
<1>1. Len(options) \in Nat /\ DOMAIN options = 1..Len(options)
      /\ \A i \in DOMAIN options : options[i].opt = "l" => options[i].value \in Int
  BY StartupAssumption DEF IsCommand
<1>2. n \in Nat /\ \A i \in 1..n : i \in DOMAIN options /\ options[i].opt \in DOMAIN FieldOf
  BY <1>1, RefusedIsFirst
<1>3. Defaults \in X
  BY DEF Defaults
<1>4. F \in StepsOn(n, X)
  <2> SUFFICES ASSUME NEW i \in 1..n, NEW p \in X
               PROVE  [p EXCEPT ![FieldOf[options[i].opt]] = options[i].value] \in X
    BY DEF StepsOn
  <2> DEFINE o == options[i].opt
             v == options[i].value
  <2>1. o \in {"c", "l", "p"} /\ v \in V /\ (o = "l" => v \in Int)
    BY <1>1, <1>2 DEF FieldOf
  <2>2. DOMAIN Defaults = {"config_file_path", "log_level", "port"}
    BY DEF Defaults
  <2>3. p \in [DOMAIN Defaults -> V] /\ p["log_level"] \in Int
    OBVIOUS
  <2>4. FieldOf[o] \in DOMAIN Defaults /\ (FieldOf[o] = "log_level" => o = "l")
    BY <2>1, <2>2 DEF FieldOf
  <2> HIDE DEF o, v, V
  <2>5. [p EXCEPT ![FieldOf[o]] = v] \in [DOMAIN Defaults -> V]
    BY <2>1, <2>3, <2>4
  <2>6. [p EXCEPT ![FieldOf[o]] = v]["log_level"] \in Int
    BY <2>1, <2>2, <2>3, <2>4
  <2> QED BY <2>5, <2>6 DEF o, v
<1>5. PICK g \in [0..n -> X] : Iterates(g, n, Defaults, F)
  <2> HIDE DEF n, X, F
  <2> QED BY <1>2, <1>3, <1>4, IterationExists
<1>6. SetBy(g)
  <2> SUFFICES ASSUME NEW i \in 0..n
               PROVE  g[i] = IF i = 0 THEN Defaults
                             ELSE [g[i - 1] EXCEPT ![FieldOf[options[i].opt]] = options[i].value]
    OBVIOUS
  <2>1. CASE i = 0
    BY <1>5, <2>1 DEF Iterates
  <2>2. CASE i # 0
    <3>1. i \in 1..n /\ i - 1 \in 0..n
      BY <1>2, <2>2
    <3> DEFINE p == g[i - 1]
    <3>2. p \in X /\ g[i] = F[i][p]
      BY <1>5, <3>1 DEF Iterates
    <3> HIDE DEF p, X
    <3>3. F[i][p] = [p EXCEPT ![FieldOf[options[i].opt]] = options[i].value]
      BY <3>1, <3>2
    <3> QED BY <2>2, <3>2, <3>3 DEF p
  <2> QED BY <2>1, <2>2
<1> DEFINE s == CHOOSE h : SetBy(h)
<1>7. SetBy(s)
  BY <1>6
<1>8. SetUp(options) = s[n]
  BY DEF SetUp
<1> HIDE DEF s
<1>9. s[n] = g[n]
  <2> DEFINE S == {m \in Nat : m <= n => s[m] = g[m]}
  <2>1. 0 \in S
    BY <1>6, <1>7
  <2>2. ASSUME NEW m \in Nat, m \in S PROVE m + 1 \in S
    <3> SUFFICES ASSUME m + 1 <= n PROVE s[m + 1] = g[m + 1]
      OBVIOUS
    <3>1. s[m] = g[m] /\ m + 1 \in 0..n /\ m + 1 # 0 /\ (m + 1) - 1 = m
      <4> HIDE DEF n
      <4> QED BY <1>2, <2>2
    <3>2. s[m + 1] = [s[m] EXCEPT ![FieldOf[options[m + 1].opt]] = options[m + 1].value]
      BY <1>7, <3>1
    <3>3. g[m + 1] = [g[m] EXCEPT ![FieldOf[options[m + 1].opt]] = options[m + 1].value]
      BY <1>6, <3>1
    <3> QED BY <3>1, <3>2, <3>3
  <2>3. n \in S
    <3> HIDE DEF S
    <3> QED BY <1>2, <2>1, <2>2, SetInduction
  <2> QED BY <2>3
<1>10. g[n] \in X
  BY <1>2
<1> QED BY <1>8, <1>9, <1>10
-----------------------------------------------------------------------------
(* Where main is, that it is at a replica of the pool while it makes one,  *)
(* and that what a worker executes stays in its queue.                     *)
Making == {"connect", "calibrate", "set", "show", "spawn", "reconnect"}

StartupTypes ==
    /\ command \in Commands /\ size \in 0..MaxReplicas /\ k \in Replicas
    /\ pc \in Making \cup {"start", "empty", "test", "dispatch", "ended", "crashed"}
    /\ pc = "start" => k = 0
    /\ pc \in Making => k < size
    /\ C \in [Replicas -> {"none", "bad", "ok"}]
    /\ setting \in [Replicas -> Settings]
    /\ cache_size \in [Replicas -> Int]
    /\ worker \in [Replicas -> {"none", "idle", "executing"}]
    /\ queued \in [Replicas -> Nat]
    /\ wasted \in [Replicas -> Nat]
    /\ dispatched \in Nat
    /\ \A r \in Replicas : worker[r] = "executing" => queued[r] > 0

(* Until there is a strategy nothing is dispatched.                        *)
NothingToDoYet ==
    pc \notin {"dispatch", "ended", "crashed"} =>
        dispatched = 0 /\ \A r \in Replicas : queued[r] = 0

(* From the moment shared_buffers is known its value stays.                *)
SizesKnown ==
    \A r \in Replicas : worker[r] # "none" \/ (pc = "spawn" /\ r = k)
                        => cache_size[r] = Parse(setting[r])

(* The server's constants, as far as they are found.                       *)
Sofar(found) == [c \in DOMAIN Server |-> IF c \in found THEN Server[c] ELSE 0]

(* What a calibration has found when it is at a place.                     *)
FoundAt ==
    LET operators == {"tuple", "operator"}
        pages     == operators \cup {"seq_page"}
        entries   == pages \cup {"index_tuple"}
    IN CASE cpc \in {"sizes", "tuple"}          -> {}
         [] cpc = "page"                        -> operators
         [] cpc \in {"count", "index"}          -> pages
         [] cpc \in {"sizes of rows", "random"} -> entries
         [] cpc = "done"                        -> entries \cup {"random_page"}

(* Over a connection that lasts, these are what they are in the server,    *)
(* and the session scans as it did except where an index is timed.         *)
RightSoFar ==
    /\ cpc \in {"sizes", "tuple", "page", "count", "index", "sizes of rows", "random", "done"}
    /\ constants = Sofar(FoundAt)
    /\ seqscan = (cpc \notin {"index", "random"})

CalibratesWell == pc = "calibrate" /\ C[k] = "ok" => RightSoFar

(* No more is dispatched than was asked for, and who ends has a reason.    *)
Reasons ==
    /\ dispatched <= Asked(command.numbers, 3)
    /\ EndsForAReason

LEMMA TypesInvariant == Spec => []StartupTypes
<1> USE DEF fixedVars, knownVars, queryVars
<1>1. Init => StartupTypes
  BY StartupAssumption DEF Init, StartupTypes, Replicas, Making
<1>2. StartupTypes /\ [Next]_vars => StartupTypes'
  <2> SUFFICES ASSUME StartupTypes, [Next]_vars PROVE StartupTypes'
    OBVIOUS
  <2> USE DEF StartupTypes, Making
  <2>1. CASE FirstConnect
    BY <2>1 DEF FirstConnect, Connect
  <2>2. CASE Calibrate
    BY <2>2 DEF Calibrate
  <2>3. CASE Calibrated
    BY <2>3 DEF Calibrated
  <2>4. CASE SetGather
    BY <2>4 DEF SetGather
  <2>5. CASE Show
    <3>1. Parse(setting[k]) \in Int
      <4>1. \A x \in Int : Wrap(x) \in Int
        BY StartupAssumption DEF Wrap, Giga, Mega
      <4>2. setting[k].n \in Nat
        BY StartupAssumption
      <4> QED BY <4>1, <4>2, StartupAssumption DEF Parse, Giga, Mega
    <3> QED BY <2>5, <3>1 DEF Show
  <2>6. CASE ShowFails
    BY <2>6 DEF ShowFails
  <2>7. CASE Spawn
    <3>1. worker' \in [Replicas -> {"none", "idle", "executing"}]
          /\ \A r \in Replicas : worker'[r] = "executing" => queued[r] > 0
      BY <2>7 DEF Spawn
    <3>2. k' \in Replicas /\ pc' \in {"connect", "reconnect"} /\ k' < size
      <4>1. k < size /\ size \in 0..MaxReplicas /\ k \in 0..(MaxReplicas - 1) /\ MaxReplicas \in Nat
        BY <2>7, StartupAssumption DEF Spawn, Replicas
      <4>2. CASE HasNext
        <5>1. k' = k + 1 /\ k + 1 < size /\ pc' \in {"connect"}
          BY <2>7, <4>2 DEF Spawn, HasNext
        <5> QED BY <4>1, <5>1 DEF Replicas
      <4>3. CASE ~HasNext
        <5>1. k' = 0 /\ pc' \in {"reconnect"}
          BY <2>7, <4>3 DEF Spawn
        <5> QED BY <4>1, <5>1 DEF Replicas
      <4> QED BY <4>2, <4>3
    <3> QED BY <2>7, <3>1, <3>2 DEF Spawn
  <2>8. CASE Start
    <3>1. pc' \in {"crashed", "empty", "connect"} /\ (pc' = "connect" => size # 0)
      BY <2>8 DEF Start
    <3>2. k = 0 /\ (size # 0 => k < size)
      BY <2>8 DEF Start
    <3> QED BY <2>8, <3>1, <3>2 DEF Start
  <2>9. CASE NoReplicas
    BY <2>9 DEF NoReplicas
  <2>10. CASE Reconnect
    <3>1. C' \in [Replicas -> {"none", "bad", "ok"}]
      BY <2>10 DEF Reconnect, Connect
    <3>2. k' \in Replicas /\ pc' \in {"reconnect", "test"} /\ k' < size
      <4>1. k < size /\ size \in 0..MaxReplicas /\ k \in 0..(MaxReplicas - 1) /\ MaxReplicas \in Nat
        BY <2>10, StartupAssumption DEF Reconnect, Replicas
      <4>2. CASE HasNext
        <5>1. k' = k + 1 /\ k + 1 < size /\ pc' \in {"reconnect"}
          BY <2>10, <4>2 DEF Reconnect, HasNext
        <5> QED BY <4>1, <5>1 DEF Replicas
      <4>3. CASE ~HasNext
        <5>1. k' = 0 /\ pc' \in {"test"}
          BY <2>10, <4>3 DEF Reconnect
        <5> QED BY <4>1, <5>1 DEF Replicas
      <4> QED BY <4>2, <4>3
    <3> QED BY <2>10, <3>1, <3>2 DEF Reconnect
  <2>11. CASE NoneAlive \/ ChooseStrategy
    BY <2>11 DEF NoneAlive, ChooseStrategy
  <2>12. CASE \E r \in Pool : Dispatch(r)
    <3> SUFFICES ASSUME NEW r \in Pool, Dispatch(r) PROVE StartupTypes'
      BY <2>12
    <3>1. r \in Replicas
      BY StartupAssumption DEF Pool, Replicas
    <3>2. queued' \in [Replicas -> Nat] /\ \A q \in Replicas : queued'[q] >= queued[q]
      BY <3>1 DEF Dispatch
    <3>3. \A q \in Replicas : worker[q] = "executing" => queued'[q] > 0
      BY <3>2
    <3> QED BY <3>2, <3>3 DEF Dispatch
  <2>13. CASE DispatchInsert \/ Finish
    BY <2>13 DEF DispatchInsert, Finish
  <2>14. ASSUME NEW r \in Pool, Execute(r) \/ Executed(r) \/ LoseConnection(r)
         PROVE  StartupTypes'
    <3>1. r \in Replicas
      BY StartupAssumption DEF Pool, Replicas
    <3>2. CASE Execute(r)
      <4>1. worker' \in [Replicas -> {"none", "idle", "executing"}]
            /\ \A q \in Replicas : worker'[q] = "executing" => queued[q] > 0
        BY <3>1, <3>2 DEF Execute
      <4> QED BY <3>2, <4>1 DEF Execute
    <3>3. CASE Executed(r)
      <4>1. queued[r] > 0
        BY <3>1, <3>3 DEF Executed
      <4>2. queued' \in [Replicas -> Nat]
        BY <3>1, <3>3, <4>1 DEF Executed
      <4>3. worker' \in [Replicas -> {"none", "idle", "executing"}]
            /\ \A q \in Replicas : worker'[q] = "executing" => queued'[q] > 0
        BY <3>1, <3>3 DEF Executed
      <4>4. wasted' \in [Replicas -> Nat]
        BY <3>1, <3>3 DEF Executed
      <4> QED BY <3>3, <4>2, <4>3, <4>4 DEF Executed
    <3>4. CASE LoseConnection(r)
      BY <3>4 DEF LoseConnection
    <3> QED BY <2>14, <3>2, <3>3, <3>4
  <2>15. CASE UNCHANGED vars
    BY <2>15 DEF vars
  <2> QED BY <2>1, <2>2, <2>3, <2>4, <2>5, <2>6, <2>7, <2>8, <2>9, <2>10, <2>11, <2>12, <2>13,
             <2>14, <2>15 DEF Next, Main, Build
<1> QED BY <1>1, <1>2, PTL DEF Spec

LEMMA NothingToDoYetInvariant == Spec => []NothingToDoYet
<1> USE DEF fixedVars, knownVars, queryVars
<1>1. Init => NothingToDoYet
  BY DEF Init, NothingToDoYet, Replicas
<1>2. StartupTypes /\ NothingToDoYet /\ [Next]_vars => NothingToDoYet'
  <2> SUFFICES ASSUME StartupTypes, NothingToDoYet, [Next]_vars PROVE NothingToDoYet'
    OBVIOUS
  <2> USE DEF NothingToDoYet
  <2>1. CASE Build
    <3>1. pc \in Making /\ UNCHANGED queryVars
      BY <2>1 DEF Making, Build, FirstConnect, Calibrate, Calibrated, SetGather, Show, ShowFails, Spawn
    <3> QED BY <3>1 DEF Making
  <2>2. CASE Start \/ NoReplicas \/ Reconnect \/ NoneAlive \/ ChooseStrategy
    <3>1. pc \in {"start", "empty", "reconnect", "test"} /\ UNCHANGED queryVars
      BY <2>2 DEF Start, NoReplicas, Reconnect, NoneAlive, ChooseStrategy
    <3> QED BY <3>1
  <2>3. CASE (\E r \in Pool : Dispatch(r)) \/ DispatchInsert \/ Finish
    <3>1. pc' \in {"dispatch", "ended", "crashed"}
      BY <2>3 DEF Dispatch, DispatchInsert, Finish, Dispatching
    <3> QED BY <3>1
  <2>4. ASSUME NEW r \in Pool, Execute(r) \/ Executed(r) \/ LoseConnection(r)
        PROVE  NothingToDoYet'
    <3>1. r \in Replicas
      BY StartupAssumption DEF Pool, Replicas, StartupTypes
    <3>2. CASE Executed(r)
      <4>1. queued[r] > 0 /\ pc' = pc
        BY <3>1, <3>2 DEF Executed, StartupTypes
      <4> QED BY <3>1, <4>1
    <3>3. CASE Execute(r) \/ LoseConnection(r)
      BY <3>3 DEF Execute, LoseConnection
    <3> QED BY <2>4, <3>2, <3>3
  <2>5. CASE UNCHANGED vars
    BY <2>5 DEF vars
  <2> QED BY <2>1, <2>2, <2>3, <2>4, <2>5 DEF Next, Main
<1> QED BY <1>1, <1>2, TypesInvariant, PTL DEF Spec

(* A connection that connect replaces without a lock is used by nobody:    *)
(* the connection a query runs on changes only by being lost               *)
(* (config.cpp 36-45, database.cpp 146).                                   *)
THEOREM ConnectionsStay == Spec => NotReplacedInUse
<1> DEFINE Kept == \A r \in Pool : worker[r] = "executing" /\ C'[r] # C[r] => C'[r] = "bad"
<1>1. StartupTypes /\ NothingToDoYet /\ [Next]_vars => [Kept]_vars
  <2> SUFFICES ASSUME StartupTypes, NothingToDoYet, Next,
                      NEW r \in Pool, worker[r] = "executing", C'[r] # C[r]
               PROVE  C'[r] = "bad"
    OBVIOUS
  <2>1. r \in Replicas
    BY StartupAssumption DEF Pool, Replicas, StartupTypes
  <2>2. queued[r] > 0
    BY <2>1 DEF StartupTypes
  <2>3. pc \in {"dispatch", "ended", "crashed"}
    BY <2>1, <2>2 DEF NothingToDoYet
  <2>4. ~Build
    BY <2>3 DEF Build, FirstConnect, Calibrate, Calibrated, SetGather, Show, ShowFails, Spawn
  <2>5. ~(Start \/ NoReplicas \/ Reconnect \/ NoneAlive \/ ChooseStrategy)
    BY <2>3 DEF Start, NoReplicas, Reconnect, NoneAlive, ChooseStrategy
  <2>6. ~((\E q \in Pool : Dispatch(q)) \/ DispatchInsert \/ Finish)
    BY DEF Dispatch, DispatchInsert, Finish
  <2>7. \A q \in Pool : ~(Execute(q) \/ Executed(q))
    BY DEF Execute, Executed
  <2>8. ~ UNCHANGED vars
    BY DEF vars
  <2>9. PICK q \in Pool : LoseConnection(q)
    BY <2>4, <2>5, <2>6, <2>7, <2>8 DEF Next, Main
  <2> QED BY <2>1, <2>9 DEF LoseConnection, StartupTypes
<1> QED BY <1>1, TypesInvariant, NothingToDoYetInvariant, PTL DEF Spec, NotReplacedInUse

(* What fits an int is not changed by being one.                           *)
LEMMA SmallIsKept ==
    ASSUME NEW x \in Nat, x < 2 * Giga
    PROVE  Wrap(x) = x
<1>1. Giga \in Nat
  BY StartupAssumption DEF Giga, Mega
<1> DEFINE range == 4 * Giga
<1>2. x % range = x /\ range \div 2 = 2 * Giga
  BY <1>1
<1> QED BY <1>2 DEF Wrap

LEMMA SizesKnownInvariant == Spec => []SizesKnown
<1> USE DEF fixedVars, knownVars, queryVars
<1>1. Init => SizesKnown
  BY DEF Init, SizesKnown, Replicas
<1>2. StartupTypes /\ SizesKnown /\ [Next]_vars => SizesKnown'
  <2> SUFFICES ASSUME StartupTypes, SizesKnown, [Next]_vars PROVE SizesKnown'
    OBVIOUS
  <2> USE DEF SizesKnown
  <2>1. CASE Show
    <3> HIDE DEF SizesKnown
    <3> SUFFICES ASSUME NEW r \in Replicas, worker[r] # "none" \/ r = k
                 PROVE  cache_size'[r] = Parse(setting[r])
      BY <2>1 DEF Show, SizesKnown
    <3>1. cache_size' = [cache_size EXCEPT ![k] = Parse(setting[k])]
      BY <2>1 DEF Show
    <3> QED BY <3>1 DEF SizesKnown, StartupTypes
  <2>2. CASE Spawn
    <3> SUFFICES ASSUME NEW r \in Replicas, worker'[r] # "none"
                 PROVE  cache_size[r] = Parse(setting[r])
      BY <2>2 DEF Spawn
    <3>1. worker[r] # "none" \/ (pc = "spawn" /\ r = k)
      BY <2>2 DEF Spawn, StartupTypes
    <3> QED BY <3>1
  <2>3. CASE FirstConnect \/ Calibrate \/ Calibrated \/ SetGather \/ ShowFails
    <3>1. pc' # "spawn" /\ UNCHANGED <<cache_size, setting, worker>>
      BY <2>3 DEF FirstConnect, Calibrate, Calibrated, SetGather, ShowFails
    <3> QED BY <3>1
  <2>4. CASE Start \/ NoReplicas \/ Reconnect \/ NoneAlive \/ ChooseStrategy
    <3>1. pc' # "spawn" /\ UNCHANGED <<cache_size, setting, worker>>
      BY <2>4 DEF Start, NoReplicas, Reconnect, NoneAlive, ChooseStrategy
    <3> QED BY <3>1
  <2>5. CASE (\E r \in Pool : Dispatch(r)) \/ DispatchInsert \/ Finish
    <3>1. pc' # "spawn" /\ UNCHANGED <<cache_size, setting, worker>>
      BY <2>5 DEF Dispatch, DispatchInsert, Finish, Dispatching
    <3> QED BY <3>1
  <2>6. ASSUME NEW r \in Pool, Execute(r) \/ Executed(r) \/ LoseConnection(r)
        PROVE  SizesKnown'
    <3>1. UNCHANGED <<pc, k, cache_size, setting>>
      BY <2>6 DEF Execute, Executed, LoseConnection
    <3>2. \A q \in Replicas : worker'[q] # "none" => worker[q] # "none"
      BY <2>6 DEF Execute, Executed, LoseConnection, StartupTypes
    <3> QED BY <3>1, <3>2
  <2>7. CASE UNCHANGED vars
    BY <2>7 DEF vars
  <2> QED BY <2>1, <2>2, <2>3, <2>4, <2>5, <2>6, <2>7 DEF Next, Main, Build
<1> QED BY <1>1, <1>2, TypesInvariant, PTL DEF Spec

(* A replica that has a worker knows the shared_buffers of its server, if  *)
(* they are a number of megabytes or gigabytes that fits an int            *)
(* (database.cpp 73-83).                                                   *)
THEOREM CacheSizesRight == Spec => []CacheSizeRight
<1>1. StartupTypes /\ SizesKnown => CacheSizeRight
  <2> SUFFICES ASSUME StartupTypes, SizesKnown, NEW r \in Pool, worker[r] # "none",
                      setting[r].unit \in {"MB", "GB"}, Bytes(setting[r]) < 2 * Giga
               PROVE  cache_size[r] = Bytes(setting[r])
    BY DEF CacheSizeRight
  <2> DEFINE s == setting[r]
  <2>1. r \in Replicas
    BY StartupAssumption DEF Pool, Replicas, StartupTypes
  <2>2. s.n \in Nat
    BY <2>1, StartupAssumption DEF StartupTypes
  <2>3. Bytes(s) \in Nat
    BY <2>2, StartupAssumption DEF Bytes, Giga, Mega
  <2>4. Parse(s) = Wrap(Bytes(s))
    BY DEF Parse, Bytes
  <2>5. Wrap(Bytes(s)) = Bytes(s)
    BY <2>3, SmallIsKept
  <2> QED BY <2>1, <2>4, <2>5 DEF SizesKnown
<1> QED BY <1>1, TypesInvariant, SizesKnownInvariant, PTL

(* The equations of the calibration have the server's constants as their   *)
(* solutions, without a remainder.                                         *)
LEMMA ExactDivision ==
    ASSUME NEW a \in Nat \ {0}, NEW b \in Int
    PROVE  (a * b) \div a = b
  OBVIOUS

Equations(n, t, o, t1, t2) == t1 = n * (t + o) /\ t2 = n * (t + 3 * o)

Solution(n, t, o, t1, t2) ==
    /\ (n * t2 - n * t1) \div (n * (n + n + n) - n * n) = o
    /\ (t1 - n * o) \div n = t

LEMMA EquationsSolved ==
    ASSUME NEW n \in Nat \ {0}, NEW t \in Int, NEW o \in Int, NEW t1, NEW t2,
           Equations(n, t, o, t1, t2)
    PROVE  Solution(n, t, o, t1, t2)
<1> USE DEF Equations, Solution
<1> DEFINE d == n * (n + n + n) - n * n
<1>1. d = 2 * (n * n) /\ d \in Nat \ {0}
  <2>1. n * n \in Nat \ {0} /\ n * (n + n + n) = 3 * (n * n)
    OBVIOUS
  <2> QED BY <2>1
<1>2. n * t2 - n * t1 = d * o
  <2>1. n * t1 = (n * n) * t + (n * n) * o
    OBVIOUS
  <2>2. n * t2 = (n * n) * t + 3 * ((n * n) * o)
    OBVIOUS
  <2>3. d * o = 2 * ((n * n) * o)
    BY <1>1
  <2>4. (n * n) * t \in Int /\ (n * n) * o \in Int
    OBVIOUS
  <2> QED BY <2>1, <2>2, <2>3, <2>4
<1>3. (n * t2 - n * t1) \div d = o
  <2> HIDE DEF d
  <2> QED BY <1>1, <1>2, ExactDivision
<1>4. t1 - n * o = n * t
  OBVIOUS
<1>5. (t1 - n * o) \div n = t
  BY <1>4, ExactDivision
<1> QED BY <1>3, <1>5

LEMMA ConstantsFound ==
    ASSUME RightSoFar, InitConstants(TRUE)
    PROVE  RightSoFar'
<1> DEFINE names == {"tuple", "operator", "seq_page", "index_tuple", "random_page"}
<1>1. DOMAIN Server = names /\ \A c \in names : Server[c] \in Nat
  BY CalibrationAssumption
<1>2. /\ nt \in Nat \ {0} /\ blocks \in Nat \ {0} /\ ni \in Nat \ {0}
      /\ random.rows \in Nat /\ random.blocks \in Nat \ {0}
  BY CalibrationAssumption
<1>0. /\ Server.tuple \in Nat /\ Server.operator \in Nat /\ Server.seq_page \in Nat
      /\ Server.index_tuple \in Nat /\ Server.random_page \in Nat
  BY <1>1
<1>3. \A query : Mean(query, TRUE) = {TimeOf(query)}
  BY DEF Mean
<1>4. CASE ShowSizes(TRUE) \/ CountIndexed(TRUE) \/ CountRandom(TRUE)
  BY <1>4 DEF RightSoFar, FoundAt, ShowSizes, CountIndexed, CountRandom, Answered, Enable
<1>5. CASE InitCpuTupleCost(TRUE)
  <2> DEFINE t1 == TimeOf("sum")
             t2 == TimeOf("group by")
             operator == (nt * t2 - nt * t1) \div (nt * (nt + nt + nt) - nt * nt)
  <2>1. constants' = Solve(t1, t2) /\ cpc' = "page" /\ seqscan' = seqscan /\ cpc = "tuple"
    BY <1>3, <1>5 DEF InitCpuTupleCost, Found
  <2>2. t1 = nt * (Server.tuple + Server.operator)
        /\ t2 = nt * (Server.tuple + 3 * Server.operator)
    BY DEF TimeOf
  <2>3. operator = Server.operator /\ (t1 - nt * operator) \div nt = Server.tuple
    <3>1. Server.tuple \in Int /\ Server.operator \in Int
      BY <1>0
    <3> HIDE DEF t1, t2
    <3>2. Equations(nt, Server.tuple, Server.operator, t1, t2)
      BY <2>2 DEF Equations
    <3>3. Solution(nt, Server.tuple, Server.operator, t1, t2)
      BY <1>2, <3>1, <3>2, EquationsSolved
    <3> QED BY <3>3 DEF Solution
  <2> HIDE DEF t1, t2
  <2>4. Solve(t1, t2) = [constants EXCEPT !.operator = Server.operator,
                                          !.tuple = Server.tuple]
    BY <2>3 DEF Solve
  <2>5. constants = Sofar({})
    BY <2>1 DEF RightSoFar, FoundAt
  <2>6. constants' = Sofar({"tuple", "operator"})
    BY <1>1, <2>1, <2>4, <2>5 DEF Sofar
  <2> QED BY <2>1, <2>6 DEF RightSoFar, FoundAt
<1>6. CASE InitSeqPageCost(TRUE)
  <2> DEFINE t == TimeOf("all")
  <2>1. cpc = "page" /\ cpc' = "count" /\ seqscan' = seqscan
        /\ constants' = [constants EXCEPT !.seq_page = (t - nt * constants.tuple) \div blocks]
    BY <1>3, <1>6 DEF InitSeqPageCost, Found
  <2>2. constants.tuple = Server.tuple
    BY <1>1, <2>1 DEF Sofar, RightSoFar, FoundAt
  <2>3. t - nt * Server.tuple = blocks * Server.seq_page
    BY <1>0, <1>2 DEF TimeOf
  <2>4. (t - nt * constants.tuple) \div blocks = Server.seq_page
    <3> HIDE DEF t
    <3> QED BY <1>0, <1>2, <2>2, <2>3, ExactDivision
  <2>5. constants' = Sofar({"tuple", "operator", "seq_page"})
    BY <1>1, <2>1, <2>4 DEF Sofar, RightSoFar, FoundAt
  <2> QED BY <2>1, <2>5 DEF RightSoFar, FoundAt
<1>7. CASE InitCpuIndexTupleCost(TRUE)
  <2> DEFINE t == TimeOf("index")
             left == t - constants.tuple * ni - constants.operator * ni * 3
  <2>1. cpc = "index" /\ cpc' = "sizes of rows" /\ seqscan' = TRUE
        /\ constants' = [constants EXCEPT !.index_tuple = left \div ni]
    BY <1>3, <1>7 DEF InitCpuIndexTupleCost, Found, Enable
  <2>2. constants.tuple = Server.tuple /\ constants.operator = Server.operator
    BY <1>1, <2>1 DEF Sofar, RightSoFar, FoundAt
  <2>3. left = ni * Server.index_tuple
    <3>1. t = ni * (Server.tuple + Server.index_tuple + 3 * Server.operator)
      BY DEF TimeOf
    <3> HIDE DEF t
    <3> QED BY <1>0, <1>2, <2>2, <3>1
  <2>4. left \div ni = Server.index_tuple
    <3> HIDE DEF left
    <3> QED BY <1>0, <1>2, <2>3, ExactDivision
  <2> HIDE DEF left
  <2>5. constants' = Sofar({"tuple", "operator", "seq_page", "index_tuple"})
    BY <1>1, <2>1, <2>4 DEF Sofar, RightSoFar, FoundAt
  <2> QED BY <2>1, <2>5 DEF RightSoFar, FoundAt
<1>8. CASE InitRandomPageCost(TRUE)
  <2> DEFINE t == TimeOf("random")
             left == t - random.rows * (constants.tuple + constants.index_tuple
                                        + 3 * constants.operator)
  <2>1. cpc = "random" /\ cpc' = "done" /\ seqscan' = TRUE
        /\ constants' = [constants EXCEPT !.random_page = left \div random.blocks]
    BY <1>3, <1>8 DEF InitRandomPageCost, Found, Enable
  <2>2. constants.tuple = Server.tuple /\ constants.operator = Server.operator
        /\ constants.index_tuple = Server.index_tuple
    BY <1>1, <2>1 DEF Sofar, RightSoFar, FoundAt
  <2>3. left = random.blocks * Server.random_page
    <3>1. t = random.rows * (Server.tuple + Server.index_tuple + 3 * Server.operator)
              + random.blocks * Server.random_page
      BY DEF TimeOf
    <3> HIDE DEF t
    <3> QED BY <1>0, <1>2, <2>2, <3>1
  <2>4. left \div random.blocks = Server.random_page
    <3> HIDE DEF left
    <3> QED BY <1>0, <1>2, <2>3, ExactDivision
  <2> HIDE DEF left
  <2>5. constants' = Sofar({"tuple", "operator", "seq_page", "index_tuple", "random_page"})
    BY <1>1, <2>1, <2>4 DEF Sofar, RightSoFar, FoundAt
  <2> QED BY <2>1, <2>5 DEF RightSoFar, FoundAt
<1> QED BY <1>4, <1>5, <1>6, <1>7, <1>8 DEF InitConstants

LEMMA CalibratesWellInvariant == Spec => []CalibratesWell
<1> USE DEF fixedVars, knownVars, queryVars
<1>1. Init => CalibratesWell
  BY DEF Init, CalibratesWell
<1>2. StartupTypes /\ CalibratesWell /\ [Next]_vars => CalibratesWell'
  <2> SUFFICES ASSUME StartupTypes, CalibratesWell, [Next]_vars PROVE CalibratesWell'
    OBVIOUS
  <2> USE DEF CalibratesWell
  <2>1. CASE FirstConnect
    <3> SUFFICES ASSUME pc' = "calibrate" PROVE RightSoFar'
      OBVIOUS
    <3>1. cpc' = "sizes" /\ constants' = Unknown /\ seqscan' = TRUE
      BY <2>1 DEF FirstConnect, Begin
    <3>2. Unknown = Sofar({})
      BY DEF Unknown, Sofar
    <3> QED BY <3>1, <3>2 DEF RightSoFar, FoundAt
  <2>2. CASE Calibrate
    <3> SUFFICES ASSUME C[k] = "ok" PROVE RightSoFar'
      BY <2>2 DEF Calibrate
    <3>1. InitConstants(TRUE) /\ pc = "calibrate"
      <4>1. InitConstants(C[k] = "ok") /\ pc = "calibrate"
        BY <2>2 DEF Calibrate
      <4>2. (C[k] = "ok") = TRUE
        OBVIOUS
      <4> QED BY <4>1, <4>2
    <3> QED BY <3>1, ConstantsFound
  <2>3. CASE Calibrated \/ SetGather \/ Show \/ ShowFails \/ Spawn
    <3>1. pc' # "calibrate"
      BY <2>3 DEF Calibrated, SetGather, Show, ShowFails, Spawn
    <3> QED BY <3>1
  <2>4. CASE Start \/ NoReplicas \/ Reconnect \/ NoneAlive \/ ChooseStrategy
    <3>1. pc' # "calibrate"
      BY <2>4 DEF Start, NoReplicas, Reconnect, NoneAlive, ChooseStrategy
    <3> QED BY <3>1
  <2>5. CASE (\E r \in Pool : Dispatch(r)) \/ DispatchInsert \/ Finish
    <3>1. pc' # "calibrate"
      BY <2>5 DEF Dispatch, DispatchInsert, Finish, Dispatching
    <3> QED BY <3>1
  <2>6. ASSUME NEW r \in Pool, Execute(r) \/ Executed(r) \/ LoseConnection(r)
        PROVE  CalibratesWell'
    <3>1. UNCHANGED <<pc, k, calibrationVars>>
      BY <2>6 DEF Execute, Executed, LoseConnection
    <3>2. C'[k] = "ok" => C[k] = "ok"
      BY <2>6 DEF Execute, Executed, LoseConnection, StartupTypes
    <3> QED BY <3>1, <3>2 DEF calibrationVars, RightSoFar, FoundAt
  <2>7. CASE UNCHANGED vars
    BY <2>7 DEF vars, calibrationVars, RightSoFar, FoundAt
  <2> QED BY <2>1, <2>2, <2>3, <2>4, <2>5, <2>6, <2>7 DEF Next, Main, Build
<1> QED BY <1>1, <1>2, TypesInvariant, PTL DEF Spec

(* Whatever a server's constants and the sizes of the tables, a calibration *)
(* over a connection that lasts ends with exactly these constants, and with *)
(* sequential scans allowed again (database.cpp 334-445).                  *)
THEOREM CalibrationFindsConstants == Spec => []CalibrationRight
<1>1. CalibratesWell => CalibrationRight
  <2> SUFFICES ASSUME RightSoFar, cpc = "done" PROVE constants = Server /\ seqscan
    BY DEF CalibratesWell, CalibrationRight
  <2>1. constants = Sofar({"tuple", "operator", "seq_page", "index_tuple", "random_page"})
    BY DEF RightSoFar, FoundAt
  <2>2. Server = Sofar({"tuple", "operator", "seq_page", "index_tuple", "random_page"})
    BY CalibrationAssumption DEF Sofar
  <2> QED BY <2>1, <2>2 DEF RightSoFar
<1> QED BY <1>1, CalibratesWellInvariant, PTL
-----------------------------------------------------------------------------
(* main takes from a command what it says.                                 *)
LEMMA CommandUnderstood ==
    ASSUME command \in Commands
    PROVE  /\ parameters.strategy = command.letter
           /\ parameters.numTask = Asked(command.numbers, 3)
           /\ Asked(command.numbers, 3) \in Nat
           /\ program.log_level \in Int
<1>1. command.numbers \in Seq(Nat)
  <2>1. command.numbers \in Seq(0 .. 2 * Giga - 1)
    BY StartupAssumption DEF IsCommand
  <2>2. 0 .. 2 * Giga - 1 \subseteq Nat
    OBVIOUS
  <2> QED BY <2>1, <2>2, SeqMonotonic
<1>2. parameters.strategy = command.letter /\ parameters.numTask = Asked(command.numbers, 3)
  BY <1>1, ArgumentUnderstood DEF parameters
<1>3. Asked(command.numbers, 3) \in Nat
  BY <1>1 DEF Asked
<1>4. program.log_level \in Int
  BY LogLevelIsNumber DEF program
<1> QED BY <1>2, <1>3, <1>4

LEMMA ReasonsInvariant == Spec => []Reasons
<1> USE DEF fixedVars, knownVars, queryVars
<1>1. Init => Reasons
  <2> SUFFICES ASSUME Init PROVE Reasons
    OBVIOUS
  <2>1. dispatched = 0 /\ pc = "start" /\ command \in Commands
    BY DEF Init
  <2> QED BY <2>1, CommandUnderstood DEF Reasons, EndsForAReason
<1>2. StartupTypes /\ StartupTypes' /\ Reasons /\ [Next]_vars => Reasons'
  <2> SUFFICES ASSUME StartupTypes, StartupTypes', Reasons, [Next]_vars PROVE Reasons'
    OBVIOUS
  <2>1. command' = command
    BY DEF Next, Main, Build, vars, FirstConnect, Calibrate, Calibrated, SetGather, Show, ShowFails,
           Spawn, Start, NoReplicas, Reconnect, NoneAlive, ChooseStrategy, Dispatch, DispatchInsert,
           Finish, Execute, Executed, LoseConnection
  <2>2. program' = program /\ size' = size
    BY <2>1 DEF program, Next, Main, Build, vars, FirstConnect, Calibrate, Calibrated, SetGather, Show,
           ShowFails, Spawn, Start, NoReplicas, Reconnect, NoneAlive, ChooseStrategy, Dispatch,
           DispatchInsert, Finish, Execute, Executed, LoseConnection
  <2>3. /\ parameters.strategy = command.letter
        /\ parameters.numTask = Asked(command.numbers, 3)
        /\ Asked(command.numbers, 3) \in Nat
        /\ program.log_level \in Int
    BY CommandUnderstood DEF StartupTypes
  <2>4. dispatched' <= Asked(command.numbers, 3) /\ pc' # "ended" => Reasons'
    BY <2>1 DEF Reasons, EndsForAReason
  <2> HIDE DEF program, parameters
  <2>5. dispatched \in Nat /\ dispatched <= Asked(command.numbers, 3)
    BY DEF StartupTypes, Reasons
  <2>6. CASE Build
    <3>1. dispatched' = dispatched /\ pc' # "ended"
      BY <2>6 DEF Build, FirstConnect, Calibrate, Calibrated, SetGather, Show, ShowFails, Spawn
    <3> QED BY <2>4, <2>5, <3>1
  <2>7. CASE Start \/ Reconnect
    <3>1. dispatched' = dispatched /\ pc' # "ended"
      BY <2>7 DEF Start, Reconnect
    <3> QED BY <2>4, <2>5, <3>1
  <2>8. CASE NoReplicas \/ NoneAlive
    <3>1. logged' \cap {"zero", "none alive"} # {} \/ ~(program.log_level >= LOG_WARNING)
      BY <2>8 DEF NoReplicas, NoneAlive, Log, Logs
    <3>2. logged' \cap {"zero", "none alive"} # {} \/ program.log_level < LOG_WARNING
      <4>1. \A l \in Int : ~(l >= LOG_WARNING) => l < LOG_WARNING
        BY DEF LOG_WARNING
      <4> QED BY <2>3, <3>1, <4>1
    <3>3. dispatched' = dispatched
      BY <2>8 DEF NoReplicas, NoneAlive
    <3> QED BY <2>1, <2>2, <2>5, <3>2, <3>3 DEF Reasons, EndsForAReason
  <2>9. CASE ChooseStrategy
    <3>1. dispatched' = dispatched
      BY <2>9 DEF ChooseStrategy
    <3>2. pc' = "ended" => command.letter \notin Strategies
      BY <2>3, <2>9 DEF ChooseStrategy
    <3> QED BY <2>1, <2>5, <3>1, <3>2 DEF Reasons, EndsForAReason
  <2>10. CASE \E r \in Pool : Dispatch(r)
    <3>1. pc' # "ended" /\ dispatched' = dispatched + 1 /\ dispatched < Asked(command.numbers, 3)
      BY <2>3, <2>10 DEF Dispatch, Dispatching, MoreTasks
    <3> QED BY <2>3, <2>4, <2>5, <3>1
  <2>11. CASE DispatchInsert
    <3>1. dispatched' = dispatched /\ pc' # "ended"
      BY <2>11 DEF DispatchInsert
    <3> QED BY <2>4, <2>5, <3>1
  <2>12. CASE Finish
    <3>1. dispatched' = dispatched /\ dispatched = Asked(command.numbers, 3)
      BY <2>3, <2>5, <2>12 DEF Finish, MoreTasks
    <3>2. queued' = queued /\ \A r \in Pool : queued[r] = 0
      BY <2>12 DEF Finish
    <3> QED BY <2>1, <2>2, <2>5, <3>1, <3>2 DEF Reasons, EndsForAReason, Pool
  <2>13. ASSUME NEW r \in Pool, Execute(r) \/ Executed(r)
         PROVE  Reasons'
    <3>1. dispatched' = dispatched /\ pc' # "ended"
      BY <2>13 DEF Execute, Executed
    <3> QED BY <2>4, <2>5, <3>1
  <2>14. CASE (\E r \in Pool : LoseConnection(r)) \/ UNCHANGED vars
    <3>1. UNCHANGED <<command, pc, logged, size, queued, dispatched>>
      BY <2>14 DEF LoseConnection, vars
    <3> QED BY <2>2, <3>1 DEF Reasons, EndsForAReason, Pool
  <2> QED BY <2>6, <2>7, <2>8, <2>9, <2>10, <2>11, <2>12, <2>13, <2>14 DEF Next, Main
<1> QED BY <1>1, <1>2, TypesInvariant, PTL DEF Spec

(* Whatever the command, with as many numbers and options as it likes, and  *)
(* whatever happens to the servers: a program that has ended has executed   *)
(* what was asked for, or has logged why not, or was told not to log, or    *)
(* does not know the strategy (main.cpp 35-91, 192).                        *)
THEOREM EndsWithAReason == Spec => []EndsForAReason
<1>1. Reasons => EndsForAReason
  BY DEF Reasons
<1> QED BY <1>1, ReasonsInvariant, PTL
-----------------------------------------------------------------------------
(* The proxy: what the lengths and sizes it counts add up to.              *)

(* What two sequences add up to, one behind the other.                     *)
LEMMA TotalOfJoin ==
    ASSUME NEW b \in Seq(Int)
    PROVE  \A a \in Seq(Int) : TotalOf(a \o b) = TotalOf(a) + TotalOf(b)
<1> DEFINE S == {n \in Nat : \A a \in Seq(Int) :
                                Len(a) = n => TotalOf(a \o b) = TotalOf(a) + TotalOf(b)}
<1>1. 0 \in S
  <2>1. <<>> \o b = b
    OBVIOUS
  <2>2. TotalOf(b) \in Int /\ TotalOf(<<>>) = 0
    BY TotalType, TotalOfNone
  <2>3. TotalOf(<<>> \o b) = TotalOf(<<>>) + TotalOf(b)
    BY <2>1, <2>2
  <2>4. ASSUME NEW a \in Seq(Int), Len(a) = 0
        PROVE  TotalOf(a \o b) = TotalOf(a) + TotalOf(b)
    <3>1. a = <<>>
      BY <2>4
    <3> QED BY <2>3, <3>1
  <2> QED BY <2>4
<1>2. ASSUME NEW n \in Nat, n \in S PROVE n + 1 \in S
  <2> SUFFICES ASSUME NEW a \in Seq(Int), Len(a) = n + 1
               PROVE  TotalOf(a \o b) = TotalOf(a) + TotalOf(b)
    OBVIOUS
  <2>1. a # <<>> /\ Tail(a) \in Seq(Int) /\ Len(Tail(a)) = n /\ Head(a) \in Int
    OBVIOUS
  <2>2. a \o b \in Seq(Int) /\ a \o b # <<>> /\ Head(a \o b) = Head(a)
    BY <2>1
  <2>3. Tail(a \o b) = Tail(a) \o b
    <3>1. Tail(a \o b) \in Seq(Int) /\ Tail(a) \o b \in Seq(Int)
      BY <2>1, <2>2
    <3>2. Len(Tail(a \o b)) = n + Len(b) /\ Len(Tail(a) \o b) = n + Len(b)
      BY <2>1, <2>2
    <3>3. \A i \in 1..(n + Len(b)) : Tail(a \o b)[i] = (Tail(a) \o b)[i]
      BY <2>1, <2>2
    <3> QED BY <3>1, <3>2, <3>3, SeqEqual
  <2>4. TotalOf(Tail(a) \o b) = TotalOf(Tail(a)) + TotalOf(b)
    BY <2>1, <1>2
  <2>5. TotalOf(a) = Head(a) + TotalOf(Tail(a))
        /\ TotalOf(a \o b) = Head(a) + TotalOf(Tail(a \o b))
    BY <2>1, <2>2, TotalOfTail
  <2>6. TotalOf(Tail(a)) \in Int /\ TotalOf(b) \in Int /\ Head(a) \in Int
    BY <2>1, TotalType
  <2>7. TotalOf(a \o b) = Head(a) + (TotalOf(Tail(a)) + TotalOf(b))
    BY <2>3, <2>4, <2>5
  <2> QED BY <2>5, <2>6, <2>7
<1>3. \A n \in Nat : n \in S
  <2> HIDE DEF S
  <2> QED BY <1>1, <1>2, SetInduction
<1> QED BY <1>3

(* What FlattenSeq does, piece by piece.                                   *)
Flattens(g, ss) == g = [i \in 1..Len(ss) |-> IF i = 1 THEN ss[i] ELSE g[i - 1] \o ss[i]]

LEMMA FlattensExist ==
    ASSUME NEW ss \in Seq(Seq(Int))
    PROVE  \E g : Flattens(g, ss)
<1> DEFINE Step(g, n) == [i \in 1..n |-> IF i = 1 THEN ss[i] ELSE g[i - 1] \o ss[i]]
           S == {n \in Nat : \E g : g = Step(g, n)}
<1>1. 0 \in S
  <2> DEFINE e == [i \in 1..0 |-> <<>>]
  <2>1. e = Step(e, 0)
    OBVIOUS
  <2> HIDE DEF e
  <2> QED BY <2>1
<1>2. ASSUME NEW n \in Nat, n \in S PROVE n + 1 \in S
  <2>1. PICK g : g = Step(g, n)
    BY <1>2
  <2> DEFINE h == [i \in 1..(n + 1) |-> IF i = 1 THEN ss[i] ELSE g[i - 1] \o ss[i]]
  <2>2. \A i \in 1..n : h[i] = g[i]
    <3>1. \A i \in 1..n : g[i] = IF i = 1 THEN ss[i] ELSE g[i - 1] \o ss[i]
      BY <2>1
    <3> QED BY <3>1
  <2>3. \A i \in 1..(n + 1) : i # 1 => i - 1 \in 1..n
    OBVIOUS
  <2>4. h = Step(h, n + 1)
    BY <2>2, <2>3
  <2>5. n + 1 \in Nat
    OBVIOUS
  <2> HIDE DEF h, Step
  <2> QED BY <2>4, <2>5
<1>3. Len(ss) \in S
  <2>1. \A n \in Nat : n \in S
    <3> HIDE DEF S
    <3> QED BY <1>1, <1>2, SetInduction
  <2>2. Len(ss) \in Nat
    OBVIOUS
  <2> QED BY <2>1, <2>2
<1>4. \E g : g = Step(g, Len(ss))
  <2> HIDE DEF Step
  <2> QED BY <1>3
<1> QED BY <1>4 DEF Flattens

(* Sequences joined add up to what the sequences add up to.                *)
LEMMA TotalOfFlat ==
    ASSUME NEW ss \in Seq(Seq(Int)), NEW t \in Seq(Int), Len(t) = Len(ss),
           \A i \in 1..Len(ss) : t[i] = TotalOf(ss[i])
    PROVE  FlattenSeq(ss) \in Seq(Int) /\ TotalOf(FlattenSeq(ss)) = TotalOf(t)
<1> DEFINE g == CHOOSE f : Flattens(f, ss)
           r == RunningTotal(t)
           S == {n \in Nat : n \in 1..Len(ss) => g[n] \in Seq(Int) /\ TotalOf(g[n]) = r[n]}
<1>1. CASE ss = <<>>
  <2>1. t = <<>>
    BY <1>1
  <2> QED BY <1>1, <2>1 DEF FlattenSeq
<1>2. CASE ss # <<>>
  <2>1. Flattens(g, ss)
    BY FlattensExist
  <2>2. AddsUp(r, t)
    BY RunningTotalAddsUp
  <2>3. FlattenSeq(ss) = g[Len(ss)] /\ TotalOf(t) = r[Len(ss)]
    BY <1>2 DEF FlattenSeq, Flattens, TotalOf
  <2> HIDE DEF g, r
  <2>4. \A i \in 1..Len(ss) : g[i] = IF i = 1 THEN ss[i] ELSE g[i - 1] \o ss[i]
    BY <2>1 DEF Flattens
  <2>5. r[0] = 0 /\ \A i \in 1..Len(ss) : r[i] = r[i - 1] + t[i]
    <3>1. PICK l \in Nat : l = Len(ss) /\ l = Len(t)
      OBVIOUS
    <3>2. r = [y \in 0..l |-> IF y = 0 THEN 0 ELSE r[y - 1] + t[y]]
      BY <2>2, <3>1 DEF AddsUp
    <3>3. 0 \in 0..l /\ \A i \in 1..l : i \in 0..l /\ i # 0
      OBVIOUS
    <3> QED BY <3>1, <3>2, <3>3
  <2>6. \A i \in 1..Len(ss) : ss[i] \in Seq(Int) /\ t[i] \in Int
    OBVIOUS
  <2>7. 0 \in S
    OBVIOUS
  <2>8. ASSUME NEW n \in Nat, n \in S PROVE n + 1 \in S
    <3> SUFFICES ASSUME n + 1 \in 1..Len(ss)
                 PROVE  g[n + 1] \in Seq(Int) /\ TotalOf(g[n + 1]) = r[n + 1]
      OBVIOUS
    <3>1. CASE n = 0
      <4>1. n + 1 = 1 /\ 1 - 1 = 0 /\ 1 \in 1..Len(ss)
        BY <3>1
      <4>2. g[1] = ss[1] /\ r[1] = 0 + t[1]
        BY <2>4, <2>5, <4>1
      <4> QED BY <2>6, <4>1, <4>2
    <3>2. CASE n # 0
      <4>1. g[n] \in Seq(Int) /\ TotalOf(g[n]) = r[n]
        BY <2>8, <3>2
      <4>2. g[n + 1] = g[n] \o ss[n + 1] /\ r[n + 1] = r[n] + t[n + 1]
        <5>1. (n + 1) - 1 = n /\ n + 1 # 1
          BY <3>2
        <5> QED BY <2>4, <2>5, <5>1
      <4>3. TotalOf(g[n] \o ss[n + 1]) = TotalOf(g[n]) + TotalOf(ss[n + 1])
        BY <2>6, <4>1, TotalOfJoin
      <4>4. g[n] \o ss[n + 1] \in Seq(Int)
        BY <2>6, <4>1
      <4> QED BY <4>1, <4>2, <4>3, <4>4
    <3> QED BY <3>1, <3>2
  <2>9. \A n \in Nat : n \in S
    <3> HIDE DEF S
    <3> QED BY <2>7, <2>8, SetInduction
  <2>10. Len(ss) \in Nat /\ Len(ss) \in 1..Len(ss)
    BY <1>2
  <2> QED BY <2>3, <2>9, <2>10
<1> QED BY <1>1, <1>2
-----------------------------------------------------------------------------
(* The client's stream.                                                    *)

Messages == [kind : {"ssl", "startup", "password", "query", "terminate"},
             typed : BOOLEAN, rest : Nat]

(* Where the y-th message of s begins.                                     *)
BeginOf(s, y) == TotalOf([j \in 1..(y - 1) |-> Size(s[j])])

LEMMA SizeIs ==
    ASSUME NEW m \in Messages
    PROVE  /\ Size(m) \in Nat /\ Size(m) >= 4
           /\ Size(m) = IF m.typed THEN m.rest + 5 ELSE m.rest + 4
  BY DEF Messages, Size

(* Each message begins where the one before it ends.                       *)
LEMMA BeginOfNext ==
    ASSUME NEW s \in Seq(Messages)
    PROVE  /\ BeginOf(s, 1) = 0
           /\ \A y \in 1..(Len(s) + 1) : BeginOf(s, y) \in Int
           /\ \A y \in 1..Len(s) : BeginOf(s, y + 1) = BeginOf(s, y) + Size(s[y])
<1> DEFINE b(n) == [j \in 1..n |-> Size(s[j])]
<1>1. \A j \in 1..Len(s) : Size(s[j]) \in Int
  BY SizeIs
<1>2. ASSUME NEW n \in Nat, n <= Len(s) PROVE b(n) \in Seq(Int) /\ Len(b(n)) = n
  <2>1. b(n) \in [1..n -> Int]
    BY <1>1, <1>2
  <2> QED BY <2>1
<1>3. b(0) = <<>>
  BY <1>2
<1>4. ASSUME NEW n \in Nat, n + 1 <= Len(s) PROVE b(n + 1) = Append(b(n), Size(s[n + 1]))
  <2>1. b(n) \in Seq(Int) /\ Len(b(n)) = n /\ b(n + 1) \in Seq(Int) /\ Len(b(n + 1)) = n + 1
    BY <1>2, <1>4
  <2>2. Size(s[n + 1]) \in Int
    BY <1>1, <1>4
  <2>3. \A j \in 1..n : b(n)[j] = b(n + 1)[j]
    OBVIOUS
  <2>4. b(n + 1)[n + 1] = Size(s[n + 1])
    OBVIOUS
  <2> HIDE DEF b
  <2>5. Append(b(n), Size(s[n + 1])) \in Seq(Int) /\ Len(Append(b(n), Size(s[n + 1]))) = n + 1
        /\ \A j \in 1..(n + 1) : Append(b(n), Size(s[n + 1]))[j] = b(n + 1)[j]
    BY <2>1, <2>2, <2>3, <2>4
  <2> QED BY <2>1, <2>5, SeqEqual
<1>5. \A y \in 1..(Len(s) + 1) : BeginOf(s, y) = TotalOf(b(y - 1)) /\ y - 1 \in Nat
                                 /\ y - 1 <= Len(s)
  BY DEF BeginOf
<1> HIDE DEF b
<1>6. 1 \in 1..(Len(s) + 1) /\ 1 - 1 = 0
  OBVIOUS
<1>7. BeginOf(s, 1) = 0
  BY <1>3, <1>5, <1>6, TotalOfNone
<1>8. \A y \in 1..(Len(s) + 1) : BeginOf(s, y) \in Int
  BY <1>2, <1>5, TotalType
<1>9. ASSUME NEW y \in 1..Len(s) PROVE BeginOf(s, y + 1) = BeginOf(s, y) + Size(s[y])
  <2>1. y \in 1..(Len(s) + 1) /\ y + 1 \in 1..(Len(s) + 1) /\ (y + 1) - 1 = y
        /\ (y - 1) + 1 = y /\ y - 1 \in Nat /\ y <= Len(s)
    OBVIOUS
  <2>2. b(y) = Append(b(y - 1), Size(s[y]))
    BY <1>4, <2>1
  <2>3. TotalOf(b(y)) = TotalOf(b(y - 1)) + Size(s[y])
    BY <1>1, <1>2, <2>1, <2>2, TotalOfAppend
  <2> QED BY <1>5, <2>1, <2>3
<1> QED BY <1>7, <1>8, <1>9

(* A later message begins at least four bytes later.                       *)
LEMMA BeginsGrow ==
    ASSUME NEW s \in Seq(Messages)
    PROVE  \A j, y \in 1..(Len(s) + 1) : j < y => BeginOf(s, j) + 4 <= BeginOf(s, y)
<1> DEFINE T == {n \in Nat : \A j \in 1..(Len(s) + 1) : j < n /\ n <= Len(s) + 1 =>
                                BeginOf(s, j) + 4 <= BeginOf(s, n)}
<1>1. 0 \in T
  OBVIOUS
<1>2. ASSUME NEW n \in Nat, n \in T PROVE n + 1 \in T
  <2> SUFFICES ASSUME NEW j \in 1..(Len(s) + 1), j < n + 1, n + 1 <= Len(s) + 1
               PROVE  BeginOf(s, j) + 4 <= BeginOf(s, n + 1)
    OBVIOUS
  <2>1. n \in 1..Len(s) /\ n \in 1..(Len(s) + 1) /\ n <= Len(s) + 1
    OBVIOUS
  <2>2. BeginOf(s, n + 1) = BeginOf(s, n) + Size(s[n]) /\ Size(s[n]) \in Nat /\ Size(s[n]) >= 4
    BY <2>1, BeginOfNext, SizeIs
  <2>3. BeginOf(s, j) \in Int /\ BeginOf(s, n) \in Int
    BY <2>1, BeginOfNext
  <2>4. CASE j = n
    BY <2>2, <2>3, <2>4
  <2>5. CASE j # n
    <3>1. j < n
      BY <2>5
    <3>2. BeginOf(s, j) + 4 <= BeginOf(s, n)
      BY <1>2, <2>1, <3>1
    <3> QED BY <2>2, <2>3, <3>2
  <2> QED BY <2>4, <2>5
<1>3. \A n \in Nat : n \in T
  <2> HIDE DEF T
  <2> QED BY <1>1, <1>2, SetInduction
<1> QED BY <1>3

(* What is sent later does not move what was sent before.                  *)
LEMMA BeginStays ==
    ASSUME NEW s \in Seq(Messages), NEW m \in Messages
    PROVE  /\ Append(s, m) \in Seq(Messages) /\ Len(Append(s, m)) = Len(s) + 1
           /\ \A y \in 1..Len(s) : Append(s, m)[y] = s[y]
           /\ Append(s, m)[Len(s) + 1] = m
           /\ \A y \in 1..(Len(s) + 1) : BeginOf(Append(s, m), y) = BeginOf(s, y)
<1>1. /\ Append(s, m) \in Seq(Messages) /\ Len(Append(s, m)) = Len(s) + 1
      /\ \A y \in 1..Len(s) : Append(s, m)[y] = s[y]
      /\ Append(s, m)[Len(s) + 1] = m
  OBVIOUS
<1>2. ASSUME NEW y \in 1..(Len(s) + 1) PROVE BeginOf(Append(s, m), y) = BeginOf(s, y)
  <2>1. \A j \in 1..(y - 1) : Append(s, m)[j] = s[j]
    BY <1>1
  <2>2. [j \in 1..(y - 1) |-> Size(Append(s, m)[j])] = [j \in 1..(y - 1) |-> Size(s[j])]
    BY <2>1
  <2> QED BY <2>2 DEF BeginOf
<1> QED BY <1>1, <1>2
-----------------------------------------------------------------------------
(* What the proxy states of its messages.                                  *)

Right == {m \in [type : {"N", "R", "T", "D", "C", "Z"}, length : Int, pieces : Seq(Int)] :
             m.length = TotalOf(m.pieces)}

LEMMA TotalOfTwo ==
    ASSUME NEW x \in Int, NEW z \in Int
    PROVE  <<x, z>> \in Seq(Int) /\ TotalOf(<<x, z>>) = x + z
<1> DEFINE none == <<>>
           one == <<x>>
           two == <<x, z>>
<1>1. none \in Seq(Int) /\ one \in Seq(Int) /\ two \in Seq(Int)
  OBVIOUS
<1>2. one = Append(none, x) /\ two = Append(one, z)
  OBVIOUS
<1>3. TotalOf(none) = 0
  BY TotalOfNone
<1> HIDE DEF none, one, two
<1>4. TotalOf(one) = 0 + x
  BY <1>1, <1>2, <1>3, TotalOfAppend
<1>5. TotalOf(two) = TotalOf(one) + z
  BY <1>1, <1>2, TotalOfAppend
<1>6. TotalOf(two) = x + z
  BY <1>4, <1>5
<1> QED BY <1>1, <1>6 DEF two

LEMMA DescriptorRight ==
    ASSUME NEW columns \in Seq(Nat)
    PROVE  RowDescriptor(columns) \in Right
<1> DEFINE part(x) == <<x, 1, 4, 2, 4, 2, 4, 2>>
           parts == [c \in DOMAIN columns |-> part(columns[c])]
           sums == [c \in DOMAIN columns |-> columns[c] + 1 + 4 + 2 + 4 + 2 + 4 + 2]
<1>1. ASSUME NEW x \in Nat
      PROVE  part(x) \in Seq(Int) /\ TotalOf(part(x)) = x + 1 + 4 + 2 + 4 + 2 + 4 + 2
  <2> DEFINE p == <<x, 1>>
             q == <<4, 2>>
  <2>1. p \in Seq(Int) /\ q \in Seq(Int) /\ TotalOf(p) = x + 1 /\ TotalOf(q) = 6
    BY TotalOfTwo
  <2>2. part(x) = ((p \o q) \o q) \o q
    OBVIOUS
  <2> HIDE DEF p, q, part
  <2>3. \A a \in Seq(Int) : a \o q \in Seq(Int) /\ TotalOf(a \o q) = TotalOf(a) + 6
    BY <2>1, TotalOfJoin
  <2>4. p \o q \in Seq(Int) /\ TotalOf(p \o q) = TotalOf(p) + 6
    BY <2>1, <2>3
  <2> DEFINE u == p \o q
  <2>5. u \in Seq(Int) /\ TotalOf(u) = x + 7
    BY <2>1, <2>4
  <2> HIDE DEF u
  <2>6. u \o q \in Seq(Int) /\ TotalOf(u \o q) = TotalOf(u) + 6
    BY <2>3, <2>5
  <2> DEFINE v == u \o q
  <2>7. v \in Seq(Int) /\ TotalOf(v) = x + 13
    BY <2>5, <2>6
  <2> HIDE DEF v
  <2>8. v \o q \in Seq(Int) /\ TotalOf(v \o q) = TotalOf(v) + 6
    BY <2>3, <2>7
  <2>9. TotalOf(v \o q) = x + 19
    BY <2>7, <2>8
  <2> QED BY <2>2, <2>8, <2>9 DEF u, v
<1>2. DOMAIN columns = 1..Len(columns) /\ Len(columns) \in Nat
      /\ \A c \in 1..Len(columns) : columns[c] \in Nat
  OBVIOUS
<1>3. parts \in Seq(Seq(Int)) /\ Len(parts) = Len(columns)
      /\ \A c \in 1..Len(columns) : parts[c] = part(columns[c])
  <2> HIDE DEF part
  <2>1. parts \in [1..Len(columns) -> Seq(Int)]
    BY <1>1, <1>2
  <2> QED BY <1>2, <2>1
<1>4. sums \in Seq(Int) /\ Len(sums) = Len(columns)
  <2>1. sums \in [1..Len(columns) -> Int]
    BY <1>2
  <2> QED BY <1>2, <2>1
<1>5. \A c \in 1..Len(parts) : sums[c] = TotalOf(parts[c])
  <2> HIDE DEF part
  <2> QED BY <1>1, <1>2, <1>3
<1>6. RowDescriptor(columns) = [type |-> "T", length |-> TotalOf(sums) + 6,
                                pieces |-> <<4, 2>> \o FlattenSeq(parts)]
  BY DEF RowDescriptor, Message
<1> HIDE DEF parts, sums
<1>7. FlattenSeq(parts) \in Seq(Int) /\ TotalOf(FlattenSeq(parts)) = TotalOf(sums)
  BY <1>3, <1>4, <1>5, TotalOfFlat
<1>8. <<4, 2>> \in Seq(Int) /\ TotalOf(<<4, 2>>) = 6
  BY TotalOfTwo
<1>9. TotalOf(<<4, 2>> \o FlattenSeq(parts)) = 6 + TotalOf(sums)
  BY <1>7, <1>8, TotalOfJoin
<1>10. <<4, 2>> \o FlattenSeq(parts) \in Seq(Int) /\ TotalOf(sums) \in Int
  BY <1>4, <1>7, <1>8, TotalType
<1> DEFINE pieces == <<4, 2>> \o FlattenSeq(parts)
           length == TotalOf(sums) + 6
<1>11. pieces \in Seq(Int) /\ length \in Int /\ length = TotalOf(pieces)
  BY <1>9, <1>10
<1>12. RowDescriptor(columns) = [type |-> "T", length |-> length, pieces |-> pieces]
  BY <1>6
<1> HIDE DEF pieces, length
<1> QED BY <1>11, <1>12 DEF Right

LEMMA DataRight ==
    ASSUME NEW row \in Seq(Nat)
    PROVE  RowData(row) \in Right
<1> DEFINE part(x) == <<4, x>>
           parts == [c \in DOMAIN row |-> part(row[c])]
           sums == [c \in DOMAIN row |-> 4 + row[c]]
<1>1. ASSUME NEW x \in Nat
      PROVE  part(x) \in Seq(Int) /\ TotalOf(part(x)) = 4 + x
  BY TotalOfTwo
<1>2. DOMAIN row = 1..Len(row) /\ Len(row) \in Nat
      /\ \A c \in 1..Len(row) : row[c] \in Nat
  OBVIOUS
<1>3. parts \in Seq(Seq(Int)) /\ Len(parts) = Len(row)
      /\ \A c \in 1..Len(row) : parts[c] = part(row[c])
  <2> HIDE DEF part
  <2>1. parts \in [1..Len(row) -> Seq(Int)]
    BY <1>1, <1>2
  <2> QED BY <1>2, <2>1
<1>4. sums \in Seq(Int) /\ Len(sums) = Len(row)
  <2>1. sums \in [1..Len(row) -> Int]
    BY <1>2
  <2> QED BY <1>2, <2>1
<1>5. \A c \in 1..Len(parts) : sums[c] = TotalOf(parts[c])
  <2> HIDE DEF part
  <2> QED BY <1>1, <1>2, <1>3
<1>6. RowData(row) = [type |-> "D", length |-> 6 + TotalOf(sums),
                      pieces |-> <<4, 2>> \o FlattenSeq(parts)]
  BY DEF RowData, Message
<1> HIDE DEF parts, sums
<1>7. FlattenSeq(parts) \in Seq(Int) /\ TotalOf(FlattenSeq(parts)) = TotalOf(sums)
  BY <1>3, <1>4, <1>5, TotalOfFlat
<1>8. <<4, 2>> \in Seq(Int) /\ TotalOf(<<4, 2>>) = 6
  BY TotalOfTwo
<1>9. TotalOf(<<4, 2>> \o FlattenSeq(parts)) = 6 + TotalOf(sums)
  BY <1>7, <1>8, TotalOfJoin
<1>10. <<4, 2>> \o FlattenSeq(parts) \in Seq(Int) /\ TotalOf(sums) \in Int
  BY <1>4, <1>7, <1>8, TotalType
<1> DEFINE pieces == <<4, 2>> \o FlattenSeq(parts)
           length == 6 + TotalOf(sums)
<1>11. pieces \in Seq(Int) /\ length \in Int /\ length = TotalOf(pieces)
  BY <1>9, <1>10
<1>12. RowData(row) = [type |-> "D", length |-> length, pieces |-> pieces]
  BY <1>6
<1> HIDE DEF pieces, length
<1> QED BY <1>11, <1>12 DEF Right
-----------------------------------------------------------------------------
(* The proxy's reads, one after the other.                                 *)

LEMMA JoinedIs ==
    ASSUME NEW S, NEW a \in Seq(S), NEW b \in Seq(S)
    PROVE  /\ a \o b \in Seq(S) /\ Len(a \o b) = Len(a) + Len(b)
           /\ \A i \in 1..Len(a) : (a \o b)[i] = a[i]
           /\ \A i \in 1..Len(b) : (a \o b)[Len(a) + i] = b[i]
  OBVIOUS

Places == {"ssl length", "ssl code", "startup length", "startup version", "startup rest",
           "auth type", "auth length", "password", "code", "length", "sql"}

LEMMA ReadsAre ==
    /\ Reads \in Seq(Places) /\ Len(Reads) = 11
    /\ Reads[1] = "ssl length" /\ Reads[2] = "ssl code"
    /\ Reads[3] = "startup length" /\ Reads[4] = "startup version" /\ Reads[5] = "startup rest"
    /\ Reads[6] = "auth type" /\ Reads[7] = "auth length" /\ Reads[8] = "password"
    /\ Reads[9] = "code" /\ Reads[10] = "length" /\ Reads[11] = "sql"
<1> DEFINE A == ReadSSL
           B == ReadStartupMessage
           E == ReadAuth
           D == ReadQuery
<1>1. A \in Seq(Places) /\ B \in Seq(Places) /\ E \in Seq(Places) /\ D \in Seq(Places)
  BY DEF ReadSSL, ReadStartupMessage, ReadAuth, ReadQuery, Places
<1>2. Len(A) = 2 /\ Len(B) = 3 /\ Len(E) = 3 /\ Len(D) = 3
  BY DEF ReadSSL, ReadStartupMessage, ReadAuth, ReadQuery
<1>3. /\ A[1] = "ssl length" /\ A[2] = "ssl code"
      /\ B[1] = "startup length" /\ B[2] = "startup version" /\ B[3] = "startup rest"
  BY DEF ReadSSL, ReadStartupMessage
<1>4. /\ E[1] = "auth type" /\ E[2] = "auth length" /\ E[3] = "password"
      /\ D[1] = "code" /\ D[2] = "length" /\ D[3] = "sql"
  BY DEF ReadAuth, ReadQuery
<1>5. Reads = ((A \o B) \o E) \o D
  BY DEF Reads
<1> HIDE DEF A, B, E, D
<1> DEFINE AB == A \o B
<1>6. AB \in Seq(Places)
  BY <1>1, JoinedIs
<1>7. /\ Len(AB) = Len(A) + Len(B)
      /\ \A i \in 1..Len(A) : AB[i] = A[i]
      /\ \A i \in 1..Len(B) : AB[Len(A) + i] = B[i]
  BY <1>1, JoinedIs
<1> HIDE DEF AB
<1> DEFINE ABC == AB \o E
<1>8. ABC \in Seq(Places)
  BY <1>1, <1>6, JoinedIs
<1>9. /\ Len(ABC) = Len(AB) + Len(E)
      /\ \A i \in 1..Len(AB) : ABC[i] = AB[i]
      /\ \A i \in 1..Len(E) : ABC[Len(AB) + i] = E[i]
  BY <1>1, <1>6, JoinedIs
<1> HIDE DEF ABC
<1> DEFINE all == ABC \o D
<1>10. all \in Seq(Places)
  BY <1>1, <1>8, JoinedIs
<1>11. /\ Len(all) = Len(ABC) + Len(D)
       /\ \A i \in 1..Len(ABC) : all[i] = ABC[i]
       /\ \A i \in 1..Len(D) : all[Len(ABC) + i] = D[i]
  BY <1>1, <1>8, JoinedIs
<1> HIDE DEF all
<1>12. Len(AB) = 5 /\ AB[1] = A[1] /\ AB[2] = A[2] /\ AB[3] = B[1] /\ AB[4] = B[2] /\ AB[5] = B[3]
  BY <1>2, <1>7
<1>13. /\ Len(ABC) = 8 /\ ABC[6] = E[1] /\ ABC[7] = E[2] /\ ABC[8] = E[3]
       /\ ABC[1] = AB[1] /\ ABC[2] = AB[2] /\ ABC[3] = AB[3] /\ ABC[4] = AB[4] /\ ABC[5] = AB[5]
  BY <1>2, <1>9, <1>12
<1>14. /\ Len(all) = 11 /\ all[9] = D[1] /\ all[10] = D[2] /\ all[11] = D[3]
       /\ all[1] = ABC[1] /\ all[2] = ABC[2] /\ all[3] = ABC[3] /\ all[4] = ABC[4]
       /\ all[5] = ABC[5] /\ all[6] = ABC[6] /\ all[7] = ABC[7] /\ all[8] = ABC[8]
  BY <1>2, <1>11, <1>13
<1>15. Reads = all
  BY <1>5 DEF AB, ABC, all
<1>16. Reads \in Seq(Places) /\ Len(Reads) = 11
  BY <1>10, <1>14, <1>15
<1>17. /\ Reads[1] = A[1] /\ Reads[2] = A[2]
       /\ Reads[3] = B[1] /\ Reads[4] = B[2] /\ Reads[5] = B[3]
  BY <1>12, <1>13, <1>14, <1>15
<1>18. /\ Reads[6] = E[1] /\ Reads[7] = E[2] /\ Reads[8] = E[3]
       /\ Reads[9] = D[1] /\ Reads[10] = D[2] /\ Reads[11] = D[3]
  BY <1>13, <1>14, <1>15
<1>19. /\ Reads[1] = "ssl length" /\ Reads[2] = "ssl code"
       /\ Reads[3] = "startup length" /\ Reads[4] = "startup version" /\ Reads[5] = "startup rest"
  BY <1>3, <1>17, Zenon
<1>20. /\ Reads[6] = "auth type" /\ Reads[7] = "auth length" /\ Reads[8] = "password"
       /\ Reads[9] = "code" /\ Reads[10] = "length" /\ Reads[11] = "sql"
  BY <1>4, <1>18, Zenon
<1> QED BY <1>16, <1>19, <1>20, Zenon

LEMMA ReadsCount == Reads \in Seq(Places) /\ Len(Reads) = 11 /\ DOMAIN Reads = 1..11
<1>1. Reads \in Seq(Places) /\ Len(Reads) = 11
  BY ReadsAre
<1> QED BY <1>1

LEMMA ReadsDiffer == \A m, n \in 1..11 : Reads[m] = Reads[n] => m = n
<1> DEFINE Once(m) == \A n \in 1..11 : Reads[m] = Reads[n] => m = n
<1>1. \A m \in 1..11 : \/ m = 1 \/ m = 2 \/ m = 3 \/ m = 4 \/ m = 5 \/ m = 6 \/ m = 7
                       \/ m = 8 \/ m = 9 \/ m = 10 \/ m = 11
  OBVIOUS
<1>2. Once(1)
  BY <1>1, ReadsAre, Zenon
<1>3. Once(2)
  BY <1>1, ReadsAre, Zenon
<1>4. Once(3)
  BY <1>1, ReadsAre, Zenon
<1>5. Once(4)
  BY <1>1, ReadsAre, Zenon
<1>6. Once(5)
  BY <1>1, ReadsAre, Zenon
<1>7. Once(6)
  BY <1>1, ReadsAre, Zenon
<1>8. Once(7)
  BY <1>1, ReadsAre, Zenon
<1>9. Once(8)
  BY <1>1, ReadsAre, Zenon
<1>10. Once(9)
  BY <1>1, ReadsAre, Zenon
<1>11. Once(10)
  BY <1>1, ReadsAre, Zenon
<1>12. Once(11)
  BY <1>1, ReadsAre, Zenon
<1> HIDE DEF Once
<1>13. \A m \in 1..11 : Once(m)
  BY <1>1, <1>2, <1>3, <1>4, <1>5, <1>6, <1>7, <1>8, <1>9, <1>10, <1>11, <1>12
<1> QED BY <1>13 DEF Once

LEMMA NextReadIs ==
    /\ DOMAIN NextRead = Places
    /\ \A m \in 1..10 : NextRead[Reads[m]] = Reads[m + 1]
    /\ NextRead["sql"] = "execute"
<1>1. ASSUME NEW m \in 1..11
      PROVE  NextRead[Reads[m]] = Append(Reads, "execute")[m + 1]
  <2>1. {i \in 1..Len(Reads) : Reads[i] = Reads[m]} = {m}
    BY ReadsCount, ReadsDiffer
  <2>2. Min({m}) = m
    BY DEF Min
  <2>3. Reads[m] \in ToSet(Reads)
    BY ReadsCount DEF ToSet
  <2> QED BY <2>1, <2>2, <2>3 DEF NextRead, SelectInSeq
<1> DEFINE all == Append(Reads, "execute")
<1>2. (\A i \in 1..Len(Reads) : all[i] = Reads[i]) /\ all[Len(Reads) + 1] = "execute"
  <2>1. Reads \in Seq(Places)
    BY ReadsAre
  <2> QED BY <2>1
<1> HIDE DEF all
<1>3. (\A m \in 1..10 : all[m + 1] = Reads[m + 1]) /\ all[12] = "execute"
  BY <1>2, ReadsCount
<1>4. ToSet(Reads) = Places
  <2>1. ToSet(Reads) \subseteq Places
    <3>1. Reads \in Seq(Places)
      BY ReadsAre
    <3>2. \A m \in DOMAIN Reads : Reads[m] \in Places
      BY <3>1
    <3> QED BY <3>2 DEF ToSet
  <2>2. \A m \in 1..11 : Reads[m] \in ToSet(Reads)
    BY ReadsCount DEF ToSet
  <2>3. /\ {1, 2, 3, 4, 5, 6, 7, 8, 9, 10, 11} \subseteq 1..11
    OBVIOUS
  <2>4. \A p \in Places : \E m \in {1, 2, 3, 4, 5, 6, 7, 8, 9, 10, 11} : p = Reads[m]
    BY ReadsAre DEF Places
  <2> QED BY <2>1, <2>2, <2>3, <2>4
<1>5. DOMAIN NextRead = Places
  BY <1>4 DEF NextRead
<1>6. NextRead["sql"] = "execute"
  <2>1. 11 \in 1..11 /\ 11 + 1 = 12
    OBVIOUS
  <2>2. Reads[11] = "sql"
    BY ReadsAre
  <2> QED BY <1>1, <1>3, <2>1, <2>2 DEF all
<1>7. \A m \in 1..10 : NextRead[Reads[m]] = Reads[m + 1]
  <2>1. \A m \in 1..10 : m \in 1..11
    OBVIOUS
  <2> QED BY <1>1, <1>3, <2>1 DEF all
<1> QED BY <1>5, <1>6, <1>7
-----------------------------------------------------------------------------
(* The proxy's place in the client's stream.                               *)

(* The client's first two messages have no type, all others one; how many  *)
(* it has sent follows from what it waits for.                             *)
ClientInv ==
    /\ sent \in Seq(Messages)
    /\ \A y \in 1..Len(sent) :
          sent[y].typed = (y >= 3) /\ (y = 1 => sent[y].rest = 4) /\ (y = 2 => sent[y].rest >= 4)
    /\ \/ awaits = "connected" /\ Len(sent) = 0
       \/ awaits = "N" /\ Len(sent) = 1
       \/ awaits = "R" /\ Len(sent) = 2
       \/ awaits \in {"ok", "T", "D", "Z", "gone"} /\ Len(sent) >= 3

(* Nothing is read that has not arrived, nothing arrives that was not      *)
(* sent, and all the proxy writes is as long as it says.                   *)
StreamInv ==
    /\ arrived \in Int /\ consumed \in Int /\ msglen \in Int
    /\ consumed <= arrived /\ arrived <= BeginOf(sent, Len(sent) + 1)
    /\ short \in BOOLEAN
    /\ reading \in Places \cup {"execute", "astray"}
    /\ executed \in Seq(Nat)
    /\ written \in Seq(Right)

(* Where the proxy is as long as no read was short.                        *)
Handshake == {"ssl length", "ssl code", "startup length", "startup version", "startup rest",
              "auth type", "auth length", "password"}

PlaceInv ==
    ~ short =>
       /\ reading \in Handshake => executed = <<>>
       /\ executed = [j \in DOMAIN executed |-> j + 3]
       /\ reading # "astray" => Expected <= Len(sent) + 1
       /\ reading \in Places => consumed = BeginOf(sent, Expected) + Offset
       /\ reading = "execute" => consumed = BeginOf(sent, Expected)
       /\ reading \in {"startup version", "startup rest", "password", "sql"} =>
             msglen = sent[Expected].rest + 4

LEMMA LengthsApart ==
    ASSUME ClientInv
    PROVE  \A j, y \in 1..Len(sent) : LengthAt(j) = LengthAt(y) => j = y
<1> SUFFICES ASSUME NEW j \in 1..Len(sent), NEW y \in 1..Len(sent), j < y
             PROVE  LengthAt(j) < LengthAt(y)
  <2>1. ASSUME NEW j \in 1..Len(sent) PROVE LengthAt(j) \in Int
    <3>1. BeginOf(sent, j) \in Int
      BY BeginOfNext DEF ClientInv
    <3> QED BY <3>1 DEF LengthAt, StartOf, BeginOf
  <2> QED BY <2>1
<1>1. BeginOf(sent, j) + 4 <= BeginOf(sent, y)
  BY BeginsGrow DEF ClientInv
<1>2. BeginOf(sent, j) \in Int /\ BeginOf(sent, y) \in Int
  BY BeginOfNext DEF ClientInv
<1> QED BY <1>1, <1>2 DEF LengthAt, StartOf, BeginOf

(* What is read where.                                                     *)
LEMMA ReadsTell ==
    /\ reading = "ssl length" =>
          Expected = 1 /\ Offset = 0 /\ Requested = 4
    /\ reading = "ssl code" =>
          Expected = 1 /\ Offset = 4 /\ Requested = 4
    /\ reading = "startup length" =>
          Expected = 2 /\ Offset = 0 /\ Requested = 4
    /\ reading = "startup version" =>
          Expected = 2 /\ Offset = 4 /\ Requested = 4
    /\ reading = "startup rest" =>
          Expected = 2 /\ Offset = 8 /\ Requested = msglen - 8
    /\ reading = "auth type" =>
          Expected = 3 /\ Offset = 0 /\ Requested = 1
    /\ reading = "auth length" =>
          Expected = 3 /\ Offset = 1 /\ Requested = 4
    /\ reading = "password" =>
          Expected = 3 /\ Offset = 5 /\ Requested = msglen - 4
    /\ reading = "code" =>
          Expected = Len(executed) + 4 /\ Offset = 0 /\ Requested = 1
    /\ reading = "length" =>
          Expected = Len(executed) + 4 /\ Offset = 1 /\ Requested = 4
    /\ reading = "sql" =>
          Expected = Len(executed) + 4 /\ Offset = 5 /\ Requested = msglen - 4
<1>1. CASE reading = "ssl length"
  BY <1>1 DEF Expected, Offset, Requested
<1>2. CASE reading = "ssl code"
  BY <1>2 DEF Expected, Offset, Requested
<1>3. CASE reading = "startup length"
  BY <1>3 DEF Expected, Offset, Requested
<1>4. CASE reading = "startup version"
  BY <1>4 DEF Expected, Offset, Requested
<1>5. CASE reading = "startup rest"
  BY <1>5 DEF Expected, Offset, Requested
<1>6. CASE reading = "auth type"
  BY <1>6 DEF Expected, Offset, Requested
<1>7. CASE reading = "auth length"
  BY <1>7 DEF Expected, Offset, Requested
<1>8. CASE reading = "password"
  BY <1>8 DEF Expected, Offset, Requested
<1>9. CASE reading = "code"
  BY <1>9 DEF Expected, Offset, Requested
<1>10. CASE reading = "length"
  BY <1>10 DEF Expected, Offset, Requested
<1>11. CASE reading = "sql"
  BY <1>11 DEF Expected, Offset, Requested
<1> QED BY <1>1, <1>2, <1>3, <1>4, <1>5, <1>6, <1>7, <1>8, <1>9, <1>10, <1>11

LEMMA ReadsRange ==
    reading \in Places => Offset \in Nat /\ (Requested > 0 \/ Offset > 0)
<1>1. Offset \in {0, 1, 4, 5, 8}
  BY DEF Offset
<1>2. Offset \in Nat
  BY <1>1
<1>3. CASE reading \in {"auth type", "code", "ssl length", "startup length"}
  <2>1. Requested \in {1, 4}
    BY <1>3 DEF Requested
  <2> QED BY <1>2, <2>1
<1>4. CASE reading \in {"ssl code", "startup version", "startup rest", "auth length", "password",
                        "length", "sql"}
  <2>1. Offset \in {1, 4, 5, 8}
    BY <1>4 DEF Offset
  <2> QED BY <1>2, <2>1
<1>5. reading \in Places =>
         \/ reading \in {"auth type", "code", "ssl length", "startup length"}
         \/ reading \in {"ssl code", "startup version", "startup rest", "auth length", "password",
                        "length", "sql"}
  BY DEF Places
<1> QED BY <1>3, <1>4, <1>5

LEMMA ExpectedRange ==
    Len(executed) \in Nat => Expected \in Nat \ {0}
<1> DEFINE n == Len(executed)
<1>1. Expected \in {1, 2, 3, n + 4}
  BY DEF Expected
<1> HIDE DEF n
<1>2. n \in Nat => Expected \in Nat \ {0}
  BY <1>1
<1> QED BY <1>2 DEF n

(* A read that goes on, or is not the first of its message, finds the      *)
(* message it is meant for already sent.                                   *)
LEMMA AtMessage ==
    ASSUME ClientInv, StreamInv, PlaceInv, ~ short, reading \in Places,
           (Requested > 0 => consumed < arrived) \/ Offset > 0
    PROVE  /\ Expected \in 1..Len(sent) /\ BeginOf(sent, Expected) \in Int
           /\ BeginOf(sent, Expected + 1) = BeginOf(sent, Expected) + Size(sent[Expected])
<1> DEFINE e == Expected
           n == Len(sent)
<1>0. Len(executed) \in Nat
  BY DEF StreamInv
<1>1. e \in Nat \ {0} /\ e <= n + 1 /\ n \in Nat
  <2>1. Len(executed) \in Nat /\ Len(sent) \in Nat
    BY DEF StreamInv, ClientInv
  <2>2. Expected \in Nat \ {0}
    BY <2>1, ExpectedRange
  <2>3. reading # "astray"
    BY DEF Places
  <2> QED BY <2>1, <2>2, <2>3 DEF PlaceInv
<1>2. consumed = BeginOf(sent, e) + Offset /\ consumed <= BeginOf(sent, n + 1)
      /\ (Offset > 0 \/ consumed < BeginOf(sent, n + 1))
  <2>1. Requested > 0 \/ Offset > 0
    BY ReadsRange
  <2>2. consumed = BeginOf(sent, e) + Offset
    BY DEF PlaceInv
  <2>3. consumed <= BeginOf(sent, n + 1)
        /\ ((Requested > 0 => consumed < BeginOf(sent, n + 1)) \/ Offset > 0)
    <3>1. n + 1 \in 1..(n + 1)
      BY <1>1
    <3>2. BeginOf(sent, n + 1) \in Int
      BY <3>1, BeginOfNext DEF ClientInv
    <3> QED BY <3>2 DEF StreamInv
  <2> QED BY <2>1, <2>2, <2>3
<1>3. Offset \in Nat
  BY ReadsRange
<1> HIDE DEF e, n
<1>4. BeginOf(sent, e) \in Int /\ BeginOf(sent, n + 1) \in Int
  BY <1>1, BeginOfNext DEF ClientInv, n
<1>5. e # n + 1
  BY <1>2, <1>3, <1>4
<1>6. e \in 1..n
  BY <1>1, <1>5
<1> QED BY <1>4, <1>6, BeginOfNext DEF ClientInv, e, n

LEMMA NextReadTable ==
    /\ NextRead["ssl length"] = "ssl code" /\ NextRead["ssl code"] = "startup length"
    /\ NextRead["startup length"] = "startup version"
    /\ NextRead["startup version"] = "startup rest"
    /\ NextRead["startup rest"] = "auth type" /\ NextRead["auth type"] = "auth length"
    /\ NextRead["auth length"] = "password" /\ NextRead["password"] = "code"
    /\ NextRead["code"] = "length" /\ NextRead["length"] = "sql" /\ NextRead["sql"] = "execute"
<1>1. \A m \in {1, 2, 3, 4, 5, 6, 7, 8, 9, 10} : NextRead[Reads[m]] = Reads[m + 1]
  BY NextReadIs
<1>2. /\ NextRead[Reads[1]] = Reads[2] /\ NextRead[Reads[2]] = Reads[3]
      /\ NextRead[Reads[3]] = Reads[4] /\ NextRead[Reads[4]] = Reads[5]
      /\ NextRead[Reads[5]] = Reads[6] /\ NextRead[Reads[6]] = Reads[7]
      /\ NextRead[Reads[7]] = Reads[8] /\ NextRead[Reads[8]] = Reads[9]
      /\ NextRead[Reads[9]] = Reads[10] /\ NextRead[Reads[10]] = Reads[11]
  BY <1>1
<1> QED BY <1>2, ReadsAre, NextReadIs

(* A read within a message ends where the next one begins.                 *)
LEMMA WithinMessage ==
    /\ reading \in {"ssl length", "startup length", "startup version", "auth type",
                    "auth length", "code", "length"}
    /\ reading' = NextRead[reading] /\ executed' = executed
    => reading' \in Places /\ Expected' = Expected /\ Offset' = Offset + Requested
<1>1. ASSUME reading = "ssl length", reading' = NextRead[reading]
      PROVE  reading' \in Places /\ Expected' = Expected /\ Offset' = Offset + Requested
  <2>1. reading' = "ssl code"
    BY <1>1, NextReadTable
  <2>2. reading' \in Places
    BY <2>1 DEF Places
  <2>3. Expected' = 1 /\ Offset' = 4
    BY <2>1 DEF Expected, Offset
  <2>4. Expected = 1 /\ Offset = 0 /\ Requested = 4
    BY <1>1, ReadsTell
  <2>5. Offset + Requested = 4
    BY <2>4
  <2> QED BY <2>2, <2>3, <2>4, <2>5
<1>2. ASSUME reading = "startup length", reading' = NextRead[reading]
      PROVE  reading' \in Places /\ Expected' = Expected /\ Offset' = Offset + Requested
  <2>1. reading' = "startup version"
    BY <1>2, NextReadTable
  <2>2. reading' \in Places
    BY <2>1 DEF Places
  <2>3. Expected' = 2 /\ Offset' = 4
    BY <2>1 DEF Expected, Offset
  <2>4. Expected = 2 /\ Offset = 0 /\ Requested = 4
    BY <1>2, ReadsTell
  <2>5. Offset + Requested = 4
    BY <2>4
  <2> QED BY <2>2, <2>3, <2>4, <2>5
<1>3. ASSUME reading = "startup version", reading' = NextRead[reading]
      PROVE  reading' \in Places /\ Expected' = Expected /\ Offset' = Offset + Requested
  <2>1. reading' = "startup rest"
    BY <1>3, NextReadTable
  <2>2. reading' \in Places
    BY <2>1 DEF Places
  <2>3. Expected' = 2 /\ Offset' = 8
    BY <2>1 DEF Expected, Offset
  <2>4. Expected = 2 /\ Offset = 4 /\ Requested = 4
    BY <1>3, ReadsTell
  <2>5. Offset + Requested = 8
    BY <2>4
  <2> QED BY <2>2, <2>3, <2>4, <2>5
<1>4. ASSUME reading = "auth type", reading' = NextRead[reading]
      PROVE  reading' \in Places /\ Expected' = Expected /\ Offset' = Offset + Requested
  <2>1. reading' = "auth length"
    BY <1>4, NextReadTable
  <2>2. reading' \in Places
    BY <2>1 DEF Places
  <2>3. Expected' = 3 /\ Offset' = 1
    BY <2>1 DEF Expected, Offset
  <2>4. Expected = 3 /\ Offset = 0 /\ Requested = 1
    BY <1>4, ReadsTell
  <2>5. Offset + Requested = 1
    BY <2>4
  <2> QED BY <2>2, <2>3, <2>4, <2>5
<1>5. ASSUME reading = "auth length", reading' = NextRead[reading]
      PROVE  reading' \in Places /\ Expected' = Expected /\ Offset' = Offset + Requested
  <2>1. reading' = "password"
    BY <1>5, NextReadTable
  <2>2. reading' \in Places
    BY <2>1 DEF Places
  <2>3. Expected' = 3 /\ Offset' = 5
    BY <2>1 DEF Expected, Offset
  <2>4. Expected = 3 /\ Offset = 1 /\ Requested = 4
    BY <1>5, ReadsTell
  <2>5. Offset + Requested = 5
    BY <2>4
  <2> QED BY <2>2, <2>3, <2>4, <2>5
<1>6. ASSUME reading = "code", reading' = NextRead[reading], executed' = executed
      PROVE  reading' \in Places /\ Expected' = Expected /\ Offset' = Offset + Requested
  <2>1. reading' = "length"
    BY <1>6, NextReadTable
  <2>2. reading' \in Places
    BY <2>1 DEF Places
  <2>3. Expected' = Len(executed) + 4 /\ Offset' = 1
    BY <2>1, <1>6 DEF Expected, Offset
  <2>4. Expected = Len(executed) + 4 /\ Offset = 0 /\ Requested = 1
    BY <1>6, ReadsTell
  <2>5. Offset + Requested = 1
    BY <2>4
  <2> QED BY <2>2, <2>3, <2>4, <2>5
<1>7. ASSUME reading = "length", reading' = NextRead[reading], executed' = executed
      PROVE  reading' \in Places /\ Expected' = Expected /\ Offset' = Offset + Requested
  <2>1. reading' = "sql"
    BY <1>7, NextReadTable
  <2>2. reading' \in Places
    BY <2>1 DEF Places
  <2>3. Expected' = Len(executed) + 4 /\ Offset' = 5
    BY <2>1, <1>7 DEF Expected, Offset
  <2>4. Expected = Len(executed) + 4 /\ Offset = 1 /\ Requested = 4
    BY <1>7, ReadsTell
  <2>5. Offset + Requested = 5
    BY <2>4
  <2> QED BY <2>2, <2>3, <2>4, <2>5
<1> QED BY <1>1, <1>2, <1>3, <1>4, <1>5, <1>6, <1>7

(* The last read of a message of the handshake leads to the next message.  *)
LEMMA EndOfMessage ==
    /\ reading \in {"ssl code", "startup rest", "password"}
    /\ reading' = NextRead[reading] /\ executed' = executed /\ executed = <<>>
    => reading' \in Places /\ Expected' = Expected + 1 /\ Offset' = 0
<1>1. ASSUME reading = "ssl code", reading' = NextRead[reading]
      PROVE  reading' \in Places /\ Expected' = Expected + 1 /\ Offset' = 0
  <2>1. reading' = "startup length"
    BY <1>1, NextReadTable
  <2>2. reading' \in Places
    BY <2>1 DEF Places
  <2>3. Expected' = 2 /\ Offset' = 0
    BY <2>1 DEF Expected, Offset
  <2>4. Expected = 1
    BY <1>1 DEF Expected
  <2> QED BY <2>2, <2>3, <2>4
<1>2. ASSUME reading = "startup rest", reading' = NextRead[reading]
      PROVE  reading' \in Places /\ Expected' = Expected + 1 /\ Offset' = 0
  <2>1. reading' = "auth type"
    BY <1>2, NextReadTable
  <2>2. reading' \in Places
    BY <2>1 DEF Places
  <2>3. Expected' = 3 /\ Offset' = 0
    BY <2>1 DEF Expected, Offset
  <2>4. Expected = 2
    BY <1>2 DEF Expected
  <2> QED BY <2>2, <2>3, <2>4
<1>3. ASSUME reading = "password", reading' = NextRead[reading], executed' = executed, executed = <<>>
      PROVE  reading' \in Places /\ Expected' = Expected + 1 /\ Offset' = 0
  <2>1. reading' = "code"
    BY <1>3, NextReadTable
  <2>2. reading' \in Places
    BY <2>1 DEF Places
  <2>3. Expected' = Len(executed) + 4 /\ Offset' = 0
    BY <2>1, <1>3 DEF Expected, Offset
  <2>4. Expected = 3
    BY <1>3 DEF Expected
  <2>5. Expected' = 4
    <3>1. Len(executed) = 0
      BY <1>3
    <3> QED BY <2>3, <3>1
  <2> QED BY <2>2, <2>3, <2>4, <2>5
<1> QED BY <1>1, <1>2, <1>3

-----------------------------------------------------------------------------
(* What the steps do.                                                      *)

LEMMA SmallMessages ==
    /\ Message("R", 8, <<4, 4>>) \in Right
    /\ Message("Z", 5, <<4, 1>>) \in Right
    /\ Message("C", 6 + 4 + 1, <<4, 7>>) \in Right
    /\ Notice \in Right
<1>1. <<4, 4>> \in Seq(Int) /\ TotalOf(<<4, 4>>) = 8
  BY TotalOfTwo
<1>2. <<4, 1>> \in Seq(Int) /\ TotalOf(<<4, 1>>) = 5
  BY TotalOfTwo
<1>3. <<4, 7>> \in Seq(Int) /\ TotalOf(<<4, 7>>) = 11
  BY TotalOfTwo
<1>4. <<>> \in Seq(Int) /\ TotalOf(<<>>) = 0
  BY TotalOfNone
<1> QED BY <1>1, <1>2, <1>3, <1>4 DEF Message, Notice, Right

LEMMA WrittenRight == Written \in Seq(Right)
<1> DEFINE ok == Message("R", 8, <<4, 4>>)
           ready == Message("Z", 5, <<4, 1>>)
           notice == Notice
<1>1. ok \in Right /\ ready \in Right /\ notice \in Right
  BY SmallMessages
<1>2. Written = CASE reading = "ssl code"     -> <<notice>>
                  [] reading = "startup rest" -> <<ok>>
                  [] reading = "password"     -> <<ok>> \o <<ready>>
                  [] OTHER                    -> <<>>
  BY DEF Written, AuthRequest, AuthOk, ReadyForQuery
<1> HIDE DEF ok, ready, notice
<1>3. <<notice>> \in Seq(Right) /\ <<ok>> \in Seq(Right) /\ <<ready>> \in Seq(Right)
      /\ <<>> \in Seq(Right)
  BY <1>1
<1>4. <<ok>> \o <<ready>> \in Seq(Right)
  BY <1>3
<1> QED BY <1>2, <1>3, <1>4

LEMMA AnswerRight ==
    ASSUME NEW res \in Results
    PROVE  Answer(res) \in Seq(Right) /\ ReadyForQuery \in Seq(Right)
<1> DEFINE descriptor == RowDescriptor(res.columns)
           data == [r \in DOMAIN res.rows |-> RowData(res.rows[r])]
           complete == Complete
           ready == Message("Z", 5, <<4, 1>>)
<1>1. res.columns \in Seq(Nat) /\ res.rows \in Seq(Seq(Nat))
  BY ProxyAssumption
<1>2. descriptor \in Right
  BY <1>1, DescriptorRight
<1>3. data \in Seq(Right)
  <2> DEFINE rows == res.rows
  <2>1. \A r \in 1..Len(rows) : rows[r] \in Seq(Nat)
    BY <1>1
  <2>2. data \in [1..Len(rows) -> Right] /\ Len(rows) \in Nat
    BY <1>1, <2>1, DataRight
  <2> QED BY <2>2
<1>4. complete \in Right /\ ready \in Right
  BY SmallMessages DEF Complete
<1>5. Answer(res) = (<<descriptor>> \o data) \o <<complete>> /\ ReadyForQuery = <<ready>>
  BY DEF Answer, ReadyForQuery
<1> HIDE DEF descriptor, data, complete, ready
<1>6. <<descriptor>> \in Seq(Right) /\ <<complete>> \in Seq(Right) /\ <<ready>> \in Seq(Right)
  BY <1>2, <1>4
<1> QED BY <1>3, <1>5, <1>6

(* The proxy's inductive invariant.                                        *)
ProxyInv == ClientInv /\ StreamInv /\ PlaceInv

LEMMA NextReadRange == \A p \in Places : NextRead[p] \in Places \cup {"execute"}
  BY NextReadTable DEF Places

LEMMA WithoutShort ==
    ASSUME NEW asked \in Int, NEW there \in Int,
           ~ ((IF asked <= there THEN asked ELSE there) < asked)
    PROVE  (IF asked <= there THEN asked ELSE there) = asked
  OBVIOUS

(* What a read does, without the CASE.                                     *)
GotBy(asked, there) == IF asked <= there THEN asked ELSE there
Got == GotBy(Requested, arrived - consumed)
Here == {y \in DOMAIN sent : LengthAt(y) = consumed /\ Got = 4}
Queries == {y \in QueryRead(Got) : sent[y].kind = "query"}

LEMMA ReadDoes ==
    ASSUME Read
    PROVE  /\ reading \in Places /\ (Requested > 0 => consumed < arrived)
           /\ consumed' = consumed + Got
           /\ short' = (short \/ Got < Requested)
           /\ msglen' = IF reading \in Lengths /\ Here # {}
                        THEN sent[CHOOSE y \in Here : TRUE].rest + 4 ELSE msglen
           /\ written' = written \o Written
           /\ sent' = sent /\ awaits' = awaits /\ arrived' = arrived
<1>1. reading \in Places
  BY NextReadIs DEF Read
<1>2. (Requested > 0 => consumed < arrived) /\ written' = written \o Written
      /\ sent' = sent /\ awaits' = awaits /\ arrived' = arrived
  BY DEF Read, clientVars
<1>3. /\ consumed' = consumed + Got
      /\ short' = (short \/ Got < Requested)
  BY DEF Read, Got, GotBy
<1>4. msglen' = IF reading \in Lengths /\ Here # {}
                THEN sent[CHOOSE y \in Here : TRUE].rest + 4 ELSE msglen
  BY DEF Read, Got, GotBy, Here
<1> QED BY <1>1, <1>2, <1>3, <1>4

LEMMA ReadLeads ==
    ASSUME Read
    PROVE  \/ reading' = "astray" /\ executed' = executed
           \/ reading = "sql" /\ reading' = "execute" /\ Queries # {}
              /\ executed' = Append(executed, CHOOSE y \in Queries : TRUE)
           \/ reading # "sql" /\ (reading \in Lengths => Here # {})
              /\ reading' = NextRead[reading] /\ executed' = executed
<1>1. CASE reading \in Lengths /\ Here = {}
  <2>0. reading # "sql"
    BY <1>1 DEF Lengths
  <2>1. reading' = "astray" /\ executed' = executed
    BY <1>1, <2>0 DEF Read, Got, GotBy, Here
  <2> QED BY <2>1
<1>2. CASE reading = "sql" /\ ~ (reading \in Lengths /\ Here = {})
  <2>0. reading \notin Lengths
    BY <1>2 DEF Lengths
  <2>1. IF Queries = {} THEN reading' = "astray" /\ UNCHANGED executed
        ELSE /\ reading' = "execute"
             /\ executed' = Append(executed, CHOOSE y \in Queries : TRUE)
    BY <1>2, <2>0 DEF Read, Got, GotBy, Queries
  <2> QED BY <1>2, <2>1
<1>3. CASE reading # "sql" /\ ~ (reading \in Lengths /\ Here = {})
  <2>1. reading' = NextRead[reading] /\ executed' = executed
    BY <1>3 DEF Read, Got, GotBy, Here
  <2> QED BY <1>3, <2>1
<1> QED BY <1>1, <1>2, <1>3

LEMMA GotRange ==
    ASSUME StreamInv, reading \in Places, (Requested > 0 => consumed < arrived)
    PROVE  Got \in Int /\ consumed + Got <= arrived /\ consumed + Got \in Int
           /\ (~ (Got < Requested) => Got = Requested)
<1>1. Requested \in Int
  <2>1. msglen \in Int
    BY DEF StreamInv
  <2>2. Requested \in {msglen - 8, msglen - 4, 1, 4}
    BY DEF Requested
  <2> QED BY <2>1, <2>2
<1>2. arrived \in Int /\ consumed \in Int
  BY DEF StreamInv
<1> QED BY <1>1, <1>2 DEF Got, GotBy

LEMMA ReadKeepsStream ==
    ASSUME ClientInv, StreamInv, Read
    PROVE  StreamInv'
<1>1. /\ reading \in Places /\ (Requested > 0 => consumed < arrived)
      /\ consumed' = consumed + Got
      /\ sent' = sent /\ arrived' = arrived
  BY ReadDoes
<1>2. Got \in Int /\ consumed + Got <= arrived /\ consumed + Got \in Int
  BY <1>1, GotRange
<1>3. arrived' \in Int /\ consumed' \in Int /\ consumed' <= arrived'
  BY <1>1, <1>2 DEF StreamInv
<1>4. arrived' <= BeginOf(sent', Len(sent') + 1)
  BY <1>1 DEF StreamInv
<1>5. msglen' \in Int
  <2>1. CASE Here # {}
    <3>1. (CHOOSE y \in Here : TRUE) \in DOMAIN sent
      BY <2>1 DEF Here
    <3>2. sent[CHOOSE y \in Here : TRUE] \in Messages
      BY <3>1 DEF ClientInv
    <3>3. sent[CHOOSE y \in Here : TRUE].rest + 4 \in Int
      BY <3>2 DEF Messages
    <3>4. msglen \in Int
      BY DEF StreamInv
    <3>5. msglen' = sent[CHOOSE y \in Here : TRUE].rest + 4 \/ msglen' = msglen
      BY ReadDoes
    <3> QED BY <3>3, <3>4, <3>5
  <2>2. CASE Here = {}
    <3>1. msglen \in Int
      BY DEF StreamInv
    <3>2. msglen' = msglen
      BY <2>2, ReadDoes
    <3> QED BY <3>1, <3>2
  <2> QED BY <2>1, <2>2
<1>6. short' \in BOOLEAN
  BY ReadDoes DEF StreamInv
<1>7. reading' \in Places \cup {"execute", "astray"} /\ executed' \in Seq(Nat)
  <2>1. executed \in Seq(Nat)
    BY DEF StreamInv
  <2>2. CASE reading' = "astray" /\ executed' = executed
    BY <2>1, <2>2
  <2>3. CASE reading' = NextRead[reading] /\ executed' = executed
    <3>1. NextRead[reading] \in Places \cup {"execute"}
      BY <1>1, NextReadRange
    <3> QED BY <2>1, <2>3, <3>1
  <2>4. CASE reading' = "execute" /\ Queries # {}
             /\ executed' = Append(executed, CHOOSE y \in Queries : TRUE)
    <3>1. (CHOOSE y \in Queries : TRUE) \in DOMAIN sent
      BY <2>4 DEF Queries, QueryRead
    <3>2. (CHOOSE y \in Queries : TRUE) \in Nat
      BY <3>1 DEF ClientInv
    <3>3. executed' \in Seq(Nat)
      BY <2>1, <2>4, <3>2
    <3> QED BY <2>4, <3>3
  <2> QED BY <2>2, <2>3, <2>4, ReadLeads
<1>8. written' \in Seq(Right)
  <2>1. written \in Seq(Right) /\ Written \in Seq(Right) /\ written' = written \o Written
    BY ReadDoes, WrittenRight DEF StreamInv
  <2> QED BY <2>1
<1> QED BY <1>3, <1>4, <1>5, <1>6, <1>7, <1>8 DEF StreamInv

(* A length is found where the message that is expected has its own.       *)
LEMMA LengthFound ==
    ASSUME ClientInv, StreamInv, PlaceInv, ~ short, reading \in Lengths,
           Requested > 0 => consumed < arrived, Got = Requested
    PROVE  Here = {Expected}
<1>0. reading \in Places
  BY DEF Places, Lengths
<1>1. Expected \in 1..Len(sent) /\ BeginOf(sent, Expected) \in Int
  BY <1>0, AtMessage
<1>2. consumed = BeginOf(sent, Expected) + Offset
  BY <1>0 DEF PlaceInv
<1>3. Requested = 4 /\ Offset = IF sent[Expected].typed THEN 1 ELSE 0
  <2>1. sent[Expected].typed = (Expected >= 3)
    BY <1>1 DEF ClientInv
  <2>2. CASE reading = "ssl length"
    <3>1. Expected = 1 /\ Offset = 0 /\ Requested = 4
      BY <2>2, ReadsTell
    <3>2. ~ (Expected >= 3)
      BY <3>1
    <3>3. ~ sent[Expected].typed
      BY <2>1, <3>2, Zenon
    <3> QED BY <3>1, <3>3
  <2>3. CASE reading = "startup length"
    <3>1. Expected = 2 /\ Offset = 0 /\ Requested = 4
      BY <2>3, ReadsTell
    <3>2. ~ (Expected >= 3)
      BY <3>1
    <3>3. ~ sent[Expected].typed
      BY <2>1, <3>2, Zenon
    <3> QED BY <3>1, <3>3
  <2>4. CASE reading = "auth length"
    <3>1. Expected = 3 /\ Offset = 1 /\ Requested = 4
      BY <2>4, ReadsTell
    <3>2. Expected >= 3
      BY <3>1
    <3>3. sent[Expected].typed
      BY <2>1, <3>2, Zenon
    <3> QED BY <3>1, <3>3
  <2>5. CASE reading = "length"
    <3>1. Expected = Len(executed) + 4 /\ Offset = 1 /\ Requested = 4
      BY <2>5, ReadsTell
    <3>2. Len(executed) \in Nat
      BY DEF StreamInv
    <3>3. Expected >= 3
      BY <3>1, <3>2
    <3> QED BY <2>1, <3>1, <3>3
  <2> QED BY <2>2, <2>3, <2>4, <2>5 DEF Lengths
<1>4. LengthAt(Expected) = consumed
  <2>1. LengthAt(Expected) = BeginOf(sent, Expected) + (IF sent[Expected].typed THEN 1 ELSE 0)
    BY DEF LengthAt, StartOf, BeginOf
  <2> QED BY <1>2, <1>3, <2>1
<1>5. DOMAIN sent = 1..Len(sent)
  BY DEF ClientInv
<1>6. Got = 4
  BY <1>3
<1> QED BY <1>1, <1>4, <1>5, <1>6, LengthsApart DEF Here

LEMMA HandshakeFirst == \A p \in Places : NextRead[p] \in Handshake => p \in Handshake
  BY NextReadTable DEF Places, Handshake

(* With the last read of a message the proxy is where the next one begins. *)
LEMMA LastReadIs ==
    ASSUME ClientInv, StreamInv, PlaceInv, ~ short, Expected \in 1..Len(sent)
    PROVE  reading \in {"ssl code", "startup rest", "password", "sql"} =>
              Offset + Requested = Size(sent[Expected])
<1> DEFINE m == sent[Expected]
<1>1. m \in Messages /\ Size(m) = IF m.typed THEN m.rest + 5 ELSE m.rest + 4
  <2>1. m \in Messages
    BY DEF ClientInv
  <2> QED BY <2>1, SizeIs
<1>2. m.typed = (Expected >= 3) /\ (Expected = 1 => m.rest = 4) /\ m.rest \in Nat
  <2>1. m.typed = (Expected >= 3) /\ (Expected = 1 => m.rest = 4)
    BY DEF ClientInv
  <2> QED BY <1>1, <2>1 DEF Messages
<1>3. reading \in {"startup rest", "password", "sql"} => msglen = m.rest + 4
  BY DEF PlaceInv
<1> HIDE DEF m
<1>4. CASE reading = "ssl code"
  <2>1. Expected = 1 /\ Offset = 4 /\ Requested = 4
    BY <1>4, ReadsTell
  <2>2. ~ (Expected >= 3)
    BY <2>1
  <2>3. ~ m.typed
    BY <1>2, <2>2, Zenon
  <2>4. m.rest = 4
    BY <1>2, <2>1
  <2>5. Offset + Requested = 8
    BY <2>1
  <2>6. Size(m) = m.rest + 4
    BY <1>1, <2>3
  <2>7. Size(m) = 8
    BY <2>4, <2>6
  <2> QED BY <2>5, <2>7 DEF m
<1>5. CASE reading = "startup rest"
  <2>1. Expected = 2 /\ Offset = 8 /\ Requested = msglen - 8
    BY <1>5, ReadsTell
  <2>2. ~ (Expected >= 3)
    BY <2>1
  <2>3. ~ m.typed
    BY <1>2, <2>2, Zenon
  <2>4. Size(m) = m.rest + 4 /\ msglen = m.rest + 4
    BY <1>1, <1>3, <1>5, <2>3
  <2>5. Offset + Requested = Size(m)
    BY <1>2, <2>1, <2>4
  <2> QED BY <2>5 DEF m
<1>6. CASE reading \in {"password", "sql"}
  <2>1. Expected >= 3 /\ Offset = 5 /\ Requested = msglen - 4
    <3>1. CASE reading = "password"
      <4>1. Expected = 3 /\ Offset = 5 /\ Requested = msglen - 4
        BY <3>1, ReadsTell
      <4> QED BY <4>1
    <3>2. CASE reading = "sql"
      <4>1. Expected = Len(executed) + 4 /\ Offset = 5 /\ Requested = msglen - 4
        BY <3>2, ReadsTell
      <4>2. Len(executed) \in Nat
        BY DEF StreamInv
      <4> QED BY <4>1, <4>2
    <3> QED BY <1>6, <3>1, <3>2
  <2>2. m.typed
    BY <1>2, <2>1, Zenon
  <2>3. Size(m) = m.rest + 5 /\ msglen = m.rest + 4
    BY <1>1, <1>3, <1>6, <2>2
  <2>4. Offset + Requested = Size(m)
    BY <1>2, <2>1, <2>3
  <2> QED BY <2>4 DEF m
<1> QED BY <1>4, <1>5, <1>6

(* A length is remembered until the message has been read.                 *)
LEMMA LengthKept ==
    ASSUME ClientInv, StreamInv, PlaceInv, Read, ~ short', reading' = NextRead[reading],
           Expected' = Expected, reading' \in {"startup version", "startup rest", "password", "sql"}
    PROVE  msglen' = sent[Expected].rest + 4
<1>1. ~ short /\ ~ (Got < Requested) /\ reading \in Places /\ (Requested > 0 => consumed < arrived)
  BY ReadDoes DEF StreamInv
<1>2. Got = Requested
  BY <1>1, GotRange
<1>3. reading \in {"startup length", "startup version", "auth length", "length"}
  BY <1>1, NextReadTable DEF Places
<1>4. CASE reading = "startup version"
  <2>1. msglen' = msglen
    BY <1>4, ReadDoes DEF Lengths
  <2> QED BY <1>1, <1>4, <2>1 DEF PlaceInv
<1>5. CASE reading \in Lengths
  <2>1. Here = {Expected}
    BY <1>1, <1>2, <1>5, LengthFound
  <2>2. (CHOOSE y \in Here : TRUE) = Expected
    BY <2>1
  <2> QED BY <1>5, <2>1, <2>2, ReadDoes
<1> QED BY <1>3, <1>4, <1>5 DEF Lengths

LEMMA ReadKeepsPlace ==
    ASSUME ClientInv, StreamInv, PlaceInv, Read
    PROVE  PlaceInv'
<1> SUFFICES ASSUME ~ short'
             PROVE  /\ reading' \in Handshake => executed' = <<>>
                    /\ executed' = [j \in DOMAIN executed' |-> j + 3]
                    /\ reading' # "astray" => Expected' <= Len(sent') + 1
                    /\ reading' \in Places => consumed' = BeginOf(sent', Expected') + Offset'
                    /\ reading' = "execute" => consumed' = BeginOf(sent', Expected')
                    /\ reading' \in {"startup version", "startup rest", "password", "sql"} =>
                          msglen' = sent'[Expected'].rest + 4
  BY DEF PlaceInv
<1>1. ~ short /\ ~ (Got < Requested) /\ reading \in Places /\ (Requested > 0 => consumed < arrived)
      /\ sent' = sent /\ consumed' = consumed + Got
  BY ReadDoes DEF StreamInv
<1>2. Got = Requested /\ Got \in Int
  BY <1>1, GotRange
<1>3. Expected \in 1..Len(sent) /\ BeginOf(sent, Expected) \in Int
      /\ BeginOf(sent, Expected + 1) = BeginOf(sent, Expected) + Size(sent[Expected])
  BY <1>1, AtMessage
<1>4. consumed = BeginOf(sent, Expected) + Offset /\ Offset \in Nat
  BY <1>1, ReadsRange DEF PlaceInv
<1>5. executed = [j \in DOMAIN executed |-> j + 3] /\ executed \in Seq(Nat)
      /\ (reading \in Handshake => executed = <<>>)
  BY <1>1 DEF PlaceInv, StreamInv
<1>6. sent[Expected] \in Messages
  BY <1>3 DEF ClientInv
<1>7. /\ sent[Expected].typed = (Expected >= 3)
      /\ (Expected = 1 => sent[Expected].rest = 4)
  BY <1>3 DEF ClientInv
<1>8. CASE reading' = "astray" /\ executed' = executed
  BY <1>5, <1>8 DEF Places, Handshake
<1>9. CASE reading = "sql" /\ reading' = "execute" /\ Queries # {}
           /\ executed' = Append(executed, CHOOSE y \in Queries : TRUE)
  <2>1. Expected = Len(executed) + 4 /\ Offset = 5
    BY <1>9, ReadsTell
  <2>2. LengthAt(Expected) + 4 = consumed
    <3>1. Len(executed) \in Nat
      BY <1>5
    <3>2. Expected >= 3
      BY <2>1, <3>1
    <3>3. sent[Expected].typed
      BY <1>7, <3>2, Zenon
    <3>4. LengthAt(Expected) = BeginOf(sent, Expected) + 1
      BY <3>3 DEF LengthAt, StartOf, BeginOf
    <3> QED BY <1>3, <1>4, <2>1, <3>4
  <2>3. \A y \in Queries : y \in 1..Len(sent) /\ LengthAt(y) = LengthAt(Expected)
    <3>1. \A y \in 1..Len(sent) : LengthAt(y) \in Int
      <4>1. ASSUME NEW y \in 1..Len(sent) PROVE LengthAt(y) \in Int
        <5>1. BeginOf(sent, y) \in Int
          BY BeginOfNext DEF ClientInv
        <5> QED BY <5>1 DEF LengthAt, StartOf, BeginOf
      <4> QED BY <4>1
    <3>2. \A y \in Queries : y \in 1..Len(sent) /\ LengthAt(y) + 4 = consumed
      BY DEF Queries, QueryRead, ClientInv
    <3> QED BY <1>3, <2>2, <3>1, <3>2
  <2>4. \A y \in Queries : y = Expected
    BY <1>3, <2>3, LengthsApart
  <2>5. executed' = Append(executed, Expected)
    <3>1. (CHOOSE y \in Queries : TRUE) \in Queries
      BY <1>9
    <3> QED BY <1>9, <2>4, <3>1
  <2> DEFINE n == Len(executed)
  <2>6. n \in Nat /\ Len(executed') = n + 1 /\ DOMAIN executed' = 1..(n + 1)
        /\ (\A j \in 1..n : executed'[j] = executed[j]) /\ executed'[n + 1] = n + 4
        /\ executed' \in Seq(Int)
    BY <1>3, <1>5, <2>1, <2>5
  <2>7. \A j \in 1..n : executed[j] = j + 3
    BY <1>5
  <2>8. executed' = [j \in DOMAIN executed' |-> j + 3]
    <3> HIDE DEF n
    <3>1. \A j \in 1..(n + 1) : executed'[j] = j + 3
      BY <2>6, <2>7
    <3> QED BY <2>6, <3>1
  <2>9. Expected' = Expected + 1
    <3>1. Expected' = Len(executed') + 4
      BY <1>9 DEF Expected
    <3> QED BY <2>1, <2>6, <3>1
  <2>10. consumed' = BeginOf(sent', Expected')
    <3>1. Offset + Requested = Size(sent[Expected])
      BY <1>1, <1>3, <1>9, LastReadIs
    <3>2. consumed' = BeginOf(sent, Expected) + (Offset + Requested)
      BY <1>1, <1>2, <1>3, <1>4
    <3> QED BY <1>1, <1>3, <2>9, <3>1, <3>2
  <2>11. Expected' <= Len(sent') + 1
    BY <1>1, <1>3, <2>9
  <2> QED BY <1>9, <2>8, <2>10, <2>11 DEF Places, Handshake
<1>10. CASE reading # "sql" /\ reading' = NextRead[reading] /\ executed' = executed
  <2>1. reading' \in Handshake => executed' = <<>>
    BY <1>1, <1>5, <1>10, HandshakeFirst
  <2>2. reading \in {"ssl length", "startup length", "startup version", "auth type",
                    "auth length", "code", "length"}
        \/ reading \in {"ssl code", "startup rest", "password"}
    BY <1>1, <1>10 DEF Places
  <2>3. CASE reading \in {"ssl length", "startup length", "startup version", "auth type",
                         "auth length", "code", "length"}
    <3>1. reading' \in Places /\ Expected' = Expected /\ Offset' = Offset + Requested
      BY <1>10, <2>3, WithinMessage
    <3>2. consumed' = BeginOf(sent', Expected') + Offset'
      BY <1>1, <1>2, <1>3, <1>4, <3>1
    <3>3. Expected' <= Len(sent') + 1
      BY <1>1, <1>3, <3>1
    <3>4. reading' \in {"startup version", "startup rest", "password", "sql"} =>
             msglen' = sent'[Expected'].rest + 4
      BY <1>1, <1>10, <3>1, LengthKept
    <3>5. reading' # "execute"
      BY <3>1 DEF Places
    <3> QED BY <1>5, <1>10, <2>1, <3>2, <3>3, <3>4, <3>5
  <2>4. CASE reading \in {"ssl code", "startup rest", "password"}
    <3>1. executed = <<>>
      BY <1>5, <2>4 DEF Handshake
    <3>2. reading' \in Places /\ Expected' = Expected + 1 /\ Offset' = 0
      BY <1>10, <2>4, <3>1, EndOfMessage
    <3>3. Offset + Requested = Size(sent[Expected])
      BY <1>1, <1>3, <2>4, LastReadIs
    <3>4. consumed' = BeginOf(sent, Expected) + (Offset + Requested)
      BY <1>1, <1>2, <1>3, <1>4
    <3>5. consumed' = BeginOf(sent', Expected') + Offset'
      <4>1. Size(sent[Expected]) \in Int
        BY <1>6, SizeIs
      <4> QED BY <1>1, <1>3, <3>2, <3>3, <3>4, <4>1
    <3>6. Expected' <= Len(sent') + 1
      BY <1>1, <1>3, <3>2
    <3>7. reading' \in {"startup length", "auth type", "code"}
      BY <1>10, <2>4, NextReadTable
    <3> QED BY <1>5, <1>10, <2>1, <3>5, <3>6, <3>7
  <2> QED BY <2>2, <2>3, <2>4
<1> QED BY <1>8, <1>9, <1>10, ReadLeads
-----------------------------------------------------------------------------
(* The client, the network and the answers.                                *)

LEMMA SamePlace ==
    reading' = reading /\ executed' = executed => Expected' = Expected /\ Offset' = Offset
  BY DEF Expected, Offset

(* What is sent later changes nothing for what was read.                   *)
LEMMA SendKeeps ==
    ASSUME ClientInv, StreamInv, PlaceInv, NEW m \in Messages, sent' = Append(sent, m),
           UNCHANGED <<arrived, consumed, short, reading, msglen, executed, written>>
    PROVE  StreamInv' /\ PlaceInv'
<1>1. /\ sent' \in Seq(Messages) /\ Len(sent') = Len(sent) + 1 /\ Len(sent) \in Nat
      /\ \A y \in 1..Len(sent) : sent'[y] = sent[y]
      /\ \A y \in 1..(Len(sent) + 1) : BeginOf(sent', y) = BeginOf(sent, y)
  BY BeginStays DEF ClientInv
<1>2. StreamInv'
  <2>1. Len(sent) + 1 \in 1..(Len(sent') + 1) /\ Len(sent') + 1 \in 1..(Len(sent') + 1)
        /\ Len(sent) + 1 < Len(sent') + 1
    BY <1>1
  <2>2. BeginOf(sent', Len(sent) + 1) + 4 <= BeginOf(sent', Len(sent') + 1)
    BY <1>1, <2>1, BeginsGrow
  <2>3. BeginOf(sent', Len(sent) + 1) = BeginOf(sent, Len(sent) + 1)
    BY <1>1
  <2>4. BeginOf(sent', Len(sent) + 1) \in Int /\ BeginOf(sent', Len(sent') + 1) \in Int
    BY <1>1, <2>1, BeginOfNext
  <2>5. arrived' <= BeginOf(sent', Len(sent') + 1)
    BY <2>2, <2>3, <2>4 DEF StreamInv
  <2> QED BY <2>5 DEF StreamInv
<1>3. PlaceInv'
  <2> SUFFICES ASSUME ~ short'
               PROVE  /\ reading' \in Handshake => executed' = <<>>
                      /\ executed' = [j \in DOMAIN executed' |-> j + 3]
                      /\ reading' # "astray" => Expected' <= Len(sent') + 1
                      /\ reading' \in Places => consumed' = BeginOf(sent', Expected') + Offset'
                      /\ reading' = "execute" => consumed' = BeginOf(sent', Expected')
                      /\ reading' \in {"startup version", "startup rest", "password", "sql"} =>
                            msglen' = sent'[Expected'].rest + 4
    BY DEF PlaceInv
  <2>1. Expected' = Expected /\ Offset' = Offset
    BY SamePlace
  <2>2. Expected \in Nat \ {0}
    BY ExpectedRange DEF StreamInv
  <2>3. /\ reading \in Handshake => executed = <<>>
        /\ executed = [j \in DOMAIN executed |-> j + 3]
        /\ reading # "astray" => Expected <= Len(sent) + 1
    BY DEF PlaceInv
  <2>4. reading # "astray" => BeginOf(sent', Expected) = BeginOf(sent, Expected)
    BY <1>1, <2>2, <2>3
  <2>5. reading \in Places => consumed = BeginOf(sent, Expected) + Offset /\ reading # "astray"
    BY DEF PlaceInv, Places
  <2>6. reading = "execute" => consumed = BeginOf(sent, Expected)
    BY DEF PlaceInv
  <2>7. reading # "astray" => Expected <= Len(sent') + 1
    BY <1>1, <2>2, <2>3
  <2>8. ASSUME reading \in {"startup version", "startup rest", "password", "sql"}
        PROVE  msglen = sent'[Expected].rest + 4
    <3>1. Offset \in {4, 5, 8} /\ reading \in Places
      BY <2>8 DEF Offset, Places
    <3>2. Offset > 0
      BY <3>1
    <3>3. Expected \in 1..Len(sent)
      BY <3>1, <3>2, AtMessage
    <3>4. msglen = sent[Expected].rest + 4
      BY <2>8 DEF PlaceInv
    <3> QED BY <1>1, <3>3, <3>4
  <2> QED BY <2>1, <2>3, <2>4, <2>5, <2>6, <2>7, <2>8
<1> QED BY <1>2, <1>3

LEMMA ClientKeeps ==
    ASSUME ClientInv, StreamInv, PlaceInv, Client
    PROVE  ClientInv' /\ StreamInv' /\ PlaceInv'
<1>0. UNCHANGED <<arrived, consumed, short, reading, msglen, executed, written>>
  BY DEF Client
<1> DEFINE order(s) == \A y \in 1..Len(s) :
          s[y].typed = (y >= 3) /\ (y = 1 => s[y].rest = 4) /\ (y = 2 => s[y].rest >= 4)
<1>1. ASSUME NEW m \in Messages, sent' = Append(sent, m), m.typed <=> Len(sent) >= 2,
             Len(sent) = 0 => m.rest = 4, Len(sent) = 1 => m.rest >= 4
      PROVE  sent' \in Seq(Messages) /\ Len(sent') = Len(sent) + 1 /\ order(sent')
  <2>1. /\ sent' \in Seq(Messages) /\ Len(sent') = Len(sent) + 1 /\ Len(sent) \in Nat
        /\ \A y \in 1..Len(sent) : sent'[y] = sent[y]
        /\ sent'[Len(sent) + 1] = m
    BY <1>1, BeginStays DEF ClientInv
  <2>2. order(sent)
    BY DEF ClientInv
  <2>3. ASSUME NEW y \in 1..Len(sent')
        PROVE  sent'[y].typed = (y >= 3) /\ (y = 1 => sent'[y].rest = 4)
               /\ (y = 2 => sent'[y].rest >= 4)
    <3>1. CASE y \in 1..Len(sent)
      BY <2>1, <2>2, <3>1
    <3>2. CASE y = Len(sent) + 1
      <4>1. sent'[y] = m
        BY <2>1, <3>2
      <4>0. Len(sent) \in Nat
        BY <2>1
      <4>2. (y >= 3 <=> Len(sent) >= 2) /\ (y = 1 => Len(sent) = 0) /\ (y = 2 => Len(sent) = 1)
        <5> DEFINE n == Len(sent)
        <5>1. y = n + 1 /\ n \in Nat
          BY <3>2, <4>0
        <5> HIDE DEF n
        <5>2. (y >= 3 <=> n >= 2) /\ (y = 1 => n = 0) /\ (y = 2 => n = 1)
          BY <5>1
        <5> QED BY <5>2 DEF n
      <4>3. (m.typed <=> Len(sent) >= 2) /\ m.typed \in BOOLEAN
        BY <1>1 DEF Messages
      <4>4. m.typed = (y >= 3)
        BY <4>2, <4>3
      <4> QED BY <1>1, <4>1, <4>2, <4>4, Zenon
    <3> QED BY <2>1, <3>1, <3>2
  <2> QED BY <2>1, <2>3
<1>2. CASE awaits = "connected" /\ Send(Untyped("ssl", 4), "N")
  <2> DEFINE m == Untyped("ssl", 4)
  <2>1. m \in Messages /\ m.typed = FALSE /\ m.rest = 4
    BY DEF Untyped, Messages
  <2>2. sent' = Append(sent, m) /\ awaits' = "N"
    BY <1>2 DEF Send
  <2> HIDE DEF m
  <2>3. Len(sent) = 0
    BY <1>2 DEF ClientInv
  <2>4. sent' \in Seq(Messages) /\ Len(sent') = 1 /\ order(sent')
    <3>1. ~ (Len(sent) >= 2) /\ Len(sent) # 1 /\ Len(sent) + 1 = 1
      BY <2>3
    <3>2. m.typed <=> Len(sent) >= 2
      BY <2>1, <3>1
    <3> QED BY <1>1, <2>1, <2>2, <3>1, <3>2
  <2>5. ClientInv'
    BY <2>2, <2>4 DEF ClientInv
  <2> QED BY <1>0, <2>1, <2>2, <2>5, SendKeeps
<1>3. CASE awaits = "N" /\ \E n \in Rests : Send(Untyped("startup", n), "R")
  <2>1. PICK n \in Rests : Send(Untyped("startup", n), "R")
    BY <1>3
  <2> DEFINE m == Untyped("startup", n)
  <2>2. m \in Messages /\ m.typed = FALSE /\ m.rest >= 4
    BY ProxyAssumption DEF Untyped, Messages
  <2>3. sent' = Append(sent, m) /\ awaits' = "R"
    BY <2>1 DEF Send
  <2> HIDE DEF m
  <2>4. Len(sent) = 1
    BY <1>3 DEF ClientInv
  <2>5. sent' \in Seq(Messages) /\ Len(sent') = 2 /\ order(sent')
    <3>1. ~ (Len(sent) >= 2) /\ Len(sent) # 0 /\ Len(sent) + 1 = 2
      BY <2>4
    <3>2. m.typed <=> Len(sent) >= 2
      BY <2>2, <3>1
    <3> QED BY <1>1, <2>2, <2>3, <3>1, <3>2
  <2>6. ClientInv'
    BY <2>3, <2>5 DEF ClientInv
  <2> QED BY <1>0, <2>2, <2>3, <2>6, SendKeeps
<1>4. ASSUME NEW m \in Messages, m.typed, sent' = Append(sent, m), Len(sent) >= 2,
             awaits' \in {"ok", "T", "gone"}
      PROVE  ClientInv' /\ StreamInv' /\ PlaceInv'
  <2>1. Len(sent) \in Nat
    BY DEF ClientInv
  <2>2. m.typed <=> Len(sent) >= 2
    BY <1>4 DEF Messages
  <2>3. sent' \in Seq(Messages) /\ Len(sent') = Len(sent) + 1 /\ order(sent')
    <3>1. Len(sent) # 0 /\ Len(sent) # 1
      BY <1>4
    <3> QED BY <1>1, <1>4, <2>2, <3>1
  <2>4. Len(sent') >= 3
    BY <1>4, <2>1, <2>3
  <2>5. ClientInv'
    BY <1>4, <2>3, <2>4 DEF ClientInv
  <2> QED BY <1>0, <1>4, <2>5, SendKeeps
<1>5. \A n \in Rests : Typed("password", n) \in Messages /\ Typed("password", n).typed
                       /\ Typed("query", n) \in Messages /\ Typed("query", n).typed
  BY ProxyAssumption DEF Typed, Messages
<1>6. Typed("terminate", 0) \in Messages /\ Typed("terminate", 0).typed
  BY DEF Typed, Messages
<1>7. CASE awaits = "R" /\ \E n \in Rests : Send(Typed("password", n), "ok")
  <2>1. PICK n \in Rests : Send(Typed("password", n), "ok")
    BY <1>7
  <2>2. Len(sent) = 2
    BY <1>7 DEF ClientInv
  <2>3. Len(sent) >= 2
    BY <2>2
  <2>4. sent' = Append(sent, Typed("password", n)) /\ awaits' = "ok"
    BY <2>1 DEF Send
  <2> QED BY <1>4, <1>5, <2>3, <2>4
<1>8. CASE awaits = "Z" /\ Ask
  <2>1. Len(sent) >= 2
    <3>1. Len(sent) >= 3 /\ Len(sent) \in Nat
      BY <1>8 DEF ClientInv
    <3> QED BY <3>1
  <2>2. CASE \E n \in Rests : Send(Typed("query", n), "T")
    <3>1. PICK n \in Rests : Send(Typed("query", n), "T")
      BY <2>2
    <3>2. sent' = Append(sent, Typed("query", n)) /\ awaits' = "T"
      BY <3>1 DEF Send
    <3> QED BY <1>4, <1>5, <2>1, <3>2
  <2>3. CASE Send(Typed("terminate", 0), "gone")
    <3>1. sent' = Append(sent, Typed("terminate", 0)) /\ awaits' = "gone"
      BY <2>3 DEF Send
    <3> QED BY <1>4, <1>6, <2>1, <3>1
  <2> QED BY <1>8, <2>2, <2>3 DEF Ask
<1>9. CASE awaits \in {"ok", "T", "D"} /\ awaits' \in {"D", "Z"} /\ sent' = sent
  <2>1. ClientInv'
    BY <1>9 DEF ClientInv
  <2>2. StreamInv'
    BY <1>0, <1>9 DEF StreamInv
  <2>3. Expected' = Expected /\ Offset' = Offset
    BY <1>0, SamePlace
  <2>4. PlaceInv'
    BY <1>0, <1>9, <2>3 DEF PlaceInv
  <2> QED BY <2>1, <2>2, <2>4
<1>10. \/ awaits = "connected" /\ Send(Untyped("ssl", 4), "N")
       \/ awaits = "N" /\ \E n \in Rests : Send(Untyped("startup", n), "R")
       \/ awaits = "R" /\ \E n \in Rests : Send(Typed("password", n), "ok")
       \/ awaits = "Z" /\ Ask
       \/ awaits \in {"ok", "T", "D"} /\ awaits' \in {"D", "Z"} /\ sent' = sent
  BY DEF Client
<1> QED BY <1>2, <1>3, <1>7, <1>8, <1>9, <1>10

LEMMA DeliverKeeps ==
    ASSUME ClientInv, StreamInv, PlaceInv, Deliver
    PROVE  ClientInv' /\ StreamInv' /\ PlaceInv'
<1>1. UNCHANGED <<sent, awaits, consumed, short, reading, msglen, executed, written>>
  BY DEF Deliver, clientVars
<1>2. ClientInv'
  BY <1>1 DEF ClientInv
<1>3. Expected' = Expected /\ Offset' = Offset
  BY <1>1, SamePlace
<1>4. PlaceInv'
  BY <1>1, <1>3 DEF PlaceInv
<1>5. StreamInv'
  <2>1. Total = BeginOf(sent, Len(sent) + 1)
    <3>1. DOMAIN sent = 1..((Len(sent) + 1) - 1)
      BY DEF ClientInv
    <3> QED BY <3>1 DEF Total, BeginOf
  <2>2. Total \in Int
    <3>1. Len(sent) + 1 \in 1..(Len(sent) + 1)
      BY DEF ClientInv
    <3> QED BY <2>1, <3>1, BeginOfNext DEF ClientInv
  <2>3. arrived' \in (arrived + 1)..Total
    BY DEF Deliver
  <2>4. arrived \in Int /\ consumed \in Int /\ consumed <= arrived
    BY DEF StreamInv
  <2>5. arrived' \in Int /\ consumed' <= arrived' /\ arrived' <= Total
    BY <1>1, <2>2, <2>3, <2>4
  <2> QED BY <1>1, <2>1, <2>5 DEF StreamInv
<1> QED BY <1>2, <1>4, <1>5

LEMMA ProcessKeeps ==
    ASSUME ClientInv, StreamInv, PlaceInv, ProcessQuery
    PROVE  ClientInv' /\ StreamInv' /\ PlaceInv'
<1>1. /\ UNCHANGED <<sent, awaits, arrived, consumed, short, msglen, executed>>
      /\ reading = "execute" /\ reading' = "code"
  BY DEF ProcessQuery, clientVars
<1>2. ClientInv'
  BY <1>1 DEF ClientInv
<1>3. StreamInv'
  <2>1. PICK res \in Results : written' = written \o Answer(res) \o ReadyForQuery
    BY DEF ProcessQuery
  <2>2. written \in Seq(Right)
    BY DEF StreamInv
  <2>3. Answer(res) \in Seq(Right) /\ ReadyForQuery \in Seq(Right)
    BY AnswerRight
  <2>4. written' \in Seq(Right)
    BY <2>1, <2>2, <2>3
  <2>5. reading' \in Places
    BY <1>1 DEF Places
  <2> QED BY <1>1, <2>4, <2>5 DEF StreamInv
<1>4. PlaceInv'
  <2> SUFFICES ASSUME ~ short'
               PROVE  /\ reading' \in Handshake => executed' = <<>>
                      /\ executed' = [j \in DOMAIN executed' |-> j + 3]
                      /\ reading' # "astray" => Expected' <= Len(sent') + 1
                      /\ reading' \in Places => consumed' = BeginOf(sent', Expected') + Offset'
                      /\ reading' = "execute" => consumed' = BeginOf(sent', Expected')
                      /\ reading' \in {"startup version", "startup rest", "password", "sql"} =>
                            msglen' = sent'[Expected'].rest + 4
    BY DEF PlaceInv
  <2>1. Expected = Len(executed) + 4
    BY <1>1 DEF Expected
  <2>2. Expected' = Len(executed) + 4 /\ Offset' = 0
    BY <1>1 DEF Expected, Offset
  <2>3. Expected' = Expected
    BY <2>1, <2>2
  <2>4. Expected <= Len(sent) + 1 /\ consumed = BeginOf(sent, Expected)
        /\ executed = [j \in DOMAIN executed |-> j + 3]
    BY <1>1 DEF PlaceInv
  <2>5. BeginOf(sent, Expected) \in Int
    <3>1. Expected \in Nat \ {0}
      BY ExpectedRange DEF StreamInv
    <3>2. Expected \in 1..(Len(sent) + 1)
      BY <2>4, <3>1 DEF ClientInv
    <3> QED BY <3>2, BeginOfNext DEF ClientInv
  <2>6. consumed' = BeginOf(sent', Expected') + Offset'
    BY <1>1, <2>2, <2>3, <2>4, <2>5
  <2>7. reading' \notin Handshake /\ reading' # "execute"
        /\ reading' \notin {"startup version", "startup rest", "password", "sql"}
    BY <1>1 DEF Handshake
  <2> QED BY <1>1, <2>3, <2>4, <2>6, <2>7
<1> QED BY <1>2, <1>3, <1>4

LEMMA ProxyInitInv == ProxyInit => ProxyInv
<1> SUFFICES ASSUME ProxyInit PROVE ProxyInv
  OBVIOUS
<1>1. ClientInv
  <2>1. sent = <<>> /\ awaits = "connected"
    BY DEF ProxyInit
  <2>2. sent \in Seq(Messages) /\ Len(sent) = 0
    BY <2>1
  <2>3. 1..Len(sent) = {}
    BY <2>2
  <2> QED BY <2>1, <2>2, <2>3, Zenon DEF ClientInv
<1>2. BeginOf(sent, 1) = 0 /\ Len(sent) = 0
  BY <1>1, BeginOfNext DEF ClientInv, ProxyInit
<1>3. StreamInv
  <2>1. Len(sent) + 1 = 1
    BY <1>2
  <2>2. arrived = 0 /\ consumed = 0 /\ msglen = 0 /\ short = FALSE
        /\ executed = <<>> /\ written = <<>>
    BY DEF ProxyInit
  <2>3. arrived <= BeginOf(sent, Len(sent) + 1) /\ consumed <= arrived
    BY <1>2, <2>1, <2>2
  <2>4. reading \in Places
    BY DEF ProxyInit, Places
  <2>5. executed \in Seq(Nat) /\ written \in Seq(Right)
    <3>1. <<>> \in Seq(Nat)
      OBVIOUS
    <3>2. <<>> \in Seq(Right)
      OBVIOUS
    <3> QED BY <2>2, <3>1, <3>2, Zenon
  <2>6. arrived \in Int /\ consumed \in Int /\ msglen \in Int
    <3>1. arrived = 0 /\ consumed = 0 /\ msglen = 0
      BY DEF ProxyInit
    <3> QED BY <3>1
  <2>7. short \in BOOLEAN
    BY DEF ProxyInit
  <2> QED BY <2>3, <2>4, <2>5, <2>6, <2>7 DEF StreamInv
<1>4. PlaceInv
  <2>1. reading = "ssl length" /\ executed = <<>> /\ consumed = 0
    BY DEF ProxyInit
  <2>2. Expected = 1 /\ Offset = 0
    BY <2>1 DEF Expected, Offset
  <2>3. Expected <= Len(sent) + 1
    <3>1. 1 <= Len(sent) + 1
      BY <1>2
    <3> QED BY <2>2, <3>1
  <2>4. consumed = BeginOf(sent, Expected) + Offset
    <3>1. BeginOf(sent, Expected) = 0
      BY <1>2, <2>2
    <3>2. BeginOf(sent, Expected) + Offset = 0
      BY <2>2, <3>1
    <3> QED BY <2>1, <3>2
  <2>5. executed = [j \in DOMAIN executed |-> j + 3]
    <3>1. <<>> = [j \in DOMAIN <<>> |-> j + 3]
      OBVIOUS
    <3> QED BY <2>1, <3>1, Zenon
  <2>6. reading \notin {"startup version", "startup rest", "password", "sql"} /\ reading # "execute"
    BY <2>1
  <2> QED BY <2>1, <2>3, <2>4, <2>5, <2>6 DEF PlaceInv
<1> QED BY <1>1, <1>3, <1>4 DEF ProxyInv

LEMMA ProxyNextInv == ProxyInv /\ [ProxyNext]_proxyVars => ProxyInv'
<1> SUFFICES ASSUME ClientInv, StreamInv, PlaceInv, [ProxyNext]_proxyVars
             PROVE  ClientInv' /\ StreamInv' /\ PlaceInv'
  BY DEF ProxyInv
<1>1. CASE Client
  BY <1>1, ClientKeeps
<1>2. CASE Deliver
  BY <1>2, DeliverKeeps
<1>3. CASE Read
  <2>1. sent' = sent /\ awaits' = awaits
    BY <1>3, ReadDoes
  <2>2. ClientInv'
    BY <2>1 DEF ClientInv
  <2> QED BY <1>3, <2>2, ReadKeepsStream, ReadKeepsPlace
<1>4. CASE ProcessQuery
  BY <1>4, ProcessKeeps
<1>5. CASE UNCHANGED proxyVars
  <2>1. UNCHANGED <<sent, awaits, arrived, consumed, short, reading, msglen, executed, written>>
    BY <1>5 DEF proxyVars
  <2>2. Expected' = Expected /\ Offset' = Offset
    BY <2>1, SamePlace
  <2>3. ClientInv'
    BY <2>1 DEF ClientInv
  <2>4. StreamInv'
    BY <2>1 DEF StreamInv
  <2>5. PlaceInv'
    BY <2>1, <2>2 DEF PlaceInv
  <2> QED BY <2>3, <2>4, <2>5
<1> QED BY <1>1, <1>2, <1>3, <1>4, <1>5 DEF ProxyNext

(* As long as no read comes back short, the proxy reads each message of    *)
(* the client from its first byte to its last, executes each query once    *)
(* and in order, and states the length of what it writes, whatever the     *)
(* client sends, however the network cuts it, and whatever queries return. *)
THEOREM ProxyInStep == ProxySpec => []InStep
<1>1. ProxyInv => InStep
  <2> SUFFICES ASSUME ClientInv, StreamInv, PlaceInv, ~ short
               PROVE  /\ reading \in DOMAIN NextRead =>
                            Expected <= Len(sent) + 1 /\ consumed = StartOf(Expected) + Offset
                      /\ executed = [j \in DOMAIN executed |-> j + 3]
                      /\ \A j \in DOMAIN written : written[j].length = TotalOf(written[j].pieces)
    BY DEF ProxyInv, InStep
  <2>1. reading \in DOMAIN NextRead =>
           Expected <= Len(sent) + 1 /\ consumed = BeginOf(sent, Expected) + Offset
    <3>1. "astray" \notin Places
      BY DEF Places
    <3> QED BY <3>1, NextReadIs DEF PlaceInv
  <2>2. BeginOf(sent, Expected) = StartOf(Expected)
    BY DEF BeginOf, StartOf
  <2>3. \A j \in DOMAIN written : written[j] \in Right
    BY DEF StreamInv
  <2>4. \A j \in DOMAIN written : written[j].length = TotalOf(written[j].pieces)
    BY <2>3 DEF Right
  <2> QED BY <2>1, <2>2, <2>4 DEF PlaceInv
<1> QED BY <1>1, ProxyInitInv, ProxyNextInv, PTL DEF ProxySpec
=============================================================================
