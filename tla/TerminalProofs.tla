--------------------------- MODULE TerminalProofs ---------------------------
(***************************************************************************)
(* The terminal for every size of screen, scanline and character, every    *)
(* string and every number: what is drawn stays, nothing is drawn outside  *)
(* the frame buffer before the text runs past the last line, and strings   *)
(* and numbers can be read back from the screen.                           *)
(***************************************************************************)
EXTENDS Terminal, FiniteSetTheorems, WellFoundedInduction, TLAPS

-----------------------------------------------------------------------------
(* What callers print *)

\* A set of natural numbers has a least element.
LEMMA LeastNatural ==
  ASSUME NEW T \in SUBSET Nat, T # {}
  PROVE  \E n \in T : \A m \in T : n <= m
<1> DEFINE R == OpToRel(<, Nat)
<1>1. IsWellFoundedOn(R, Nat)
  BY NatLessThanWellFounded
<1>2. \E n \in T : \A m \in T : ~(<<m, n>> \in R)
  <2> HIDE DEF R
  <2> QED BY <1>1, WFMin
<1>3. \A m, n \in Nat : m < n => <<m, n>> \in R
  BY DEF OpToRel
<1> HIDE DEF R
<1>4. PICK n \in T : \A m \in T : ~(<<m, n>> \in R)
  BY <1>2
<1>5. \A m \in T : ~(m < n)
  BY <1>3, <1>4
<1>6. \A m \in T : m \in Nat /\ n \in Nat
  OBVIOUS
<1>7. \A m \in T : n <= m
  BY <1>5, <1>6
<1> QED BY <1>7

\* strlen finds a terminator.
LEMMA StringCodes ==
  ASSUME NEW s \in Strings
  PROVE  /\ SubSeq(s, 1, strlen(s)) \in Seq(Int)
         /\ s \in Seq(Int) /\ strlen(s) \in 0 .. Len(s)
<1> DEFINE T == {n \in 1 .. Len(s) : s[n] = 0}
<1>1. s \in Seq(Int) /\ T # {} /\ T \subseteq Nat
  BY TextAssumption
<1>2. \E n \in T : \A m \in T : n <= m
  <2> HIDE DEF T
  <2> QED BY <1>1, LeastNatural
<1>3. Min(T) \in T
  <2> HIDE DEF T
  <2> QED BY <1>2 DEF Min
<1>4. strlen(s) \in 0 .. Len(s)
  <2>1. strlen(s) = Min(T) - 1
    BY DEF strlen
  <2>2. Min(T) \in 1 .. Len(s) /\ Len(s) \in Nat
    BY <1>1, <1>3
  <2> HIDE DEF T
  <2> QED BY <2>1, <2>2
<1> QED BY <1>1, <1>4

\* Dividing a number by the base again and again, until nothing is left, gives
\* the numbers m[0], m[1] and so on, whose last digits are the codes s.
Divides(base, s, number, m) ==
  /\ m \in [0 .. Len(s) -> Nat]
  /\ m[0] = number /\ m[Len(s)] = 0
  /\ \A j \in 0 .. (Len(s) - 1) :
       /\ m[j] > 0 /\ m[j + 1] = m[j] \div base
       /\ s[j + 1] = DigitCode(m[j] % base)

\* A further division in front of the others.
LEMMA DivideOnce ==
  ASSUME NEW base \in {10, 16}, NEW t \in Seq(Int), NEW n \in Nat \ {0},
         NEW m, Divides(base, t, n \div base, m)
  PROVE  /\ <<DigitCode(n % base)>> \o t \in Seq(Int)
         /\ \E k : Divides(base, <<DigitCode(n % base)>> \o t, n, k)
<1> DEFINE c == DigitCode(n % base)
           s == <<c>> \o t
           L == Len(t)
           k == [j \in 0 .. (L + 1) |-> IF j = 0 THEN n ELSE m[j - 1]]
<1>1. c \in Int /\ L \in Nat
  BY DEF DigitCode
<1> HIDE DEF c
<1>2. s \in Seq(Int) /\ Len(s) = L + 1 /\ s[1] = c /\ \A j \in 1 .. L : s[j + 1] = t[j]
  BY <1>1
<1> HIDE DEF s
<1>3. /\ m \in [0 .. L -> Nat] /\ m[0] = n \div base /\ m[L] = 0
      /\ \A j \in 0 .. (L - 1) :
           /\ m[j] > 0 /\ m[j + 1] = m[j] \div base
           /\ t[j + 1] = DigitCode(m[j] % base)
  BY DEF Divides
<1> HIDE DEF L
<1>4. k \in [0 .. (L + 1) -> Nat] /\ k[0] = n /\ k[L + 1] = 0
  BY <1>1, <1>3
<1>5. ASSUME NEW j \in 0 .. L
      PROVE  k[j] > 0 /\ k[j + 1] = k[j] \div base /\ s[j + 1] = DigitCode(k[j] % base)
  <2>1. k[j + 1] = m[j] /\ j \in Nat
    BY <1>1
  <2>2. CASE j = 0
    <3>1. k[j] = n /\ s[j + 1] = c /\ m[j] = n \div base
      BY <1>2, <1>3, <1>4, <2>2
    <3> QED BY <2>1, <3>1 DEF c
  <2>3. CASE j # 0
    <3>1. j - 1 \in 0 .. (L - 1) /\ j \in 1 .. L /\ (j - 1) + 1 = j
      BY <1>1, <2>1, <2>3
    <3>2. k[j] = m[j - 1]
      BY <1>1, <2>3
    <3>3. m[j - 1] > 0 /\ m[j] = m[j - 1] \div base /\ t[j] = DigitCode(m[j - 1] % base)
      BY <1>3, <3>1
    <3>4. s[j + 1] = t[j]
      BY <1>2, <3>1
    <3> QED BY <2>1, <3>2, <3>3, <3>4
  <2> QED BY <2>2, <2>3
<1>6. Divides(base, s, n, k)
  <2>1. Len(s) = L + 1 /\ (L + 1) - 1 = L
    BY <1>1, <1>2
  <2> HIDE DEF k
  <2> QED BY <1>4, <1>5, <2>1 DEF Divides
<1>7. s = <<DigitCode(n % base)>> \o t
  BY DEF s, c
<1> QED BY <1>2, <1>6, <1>7

\* The loop of PrintNum and PrintHex divides until nothing is left: at each
\* number the recursion looks at a smaller one, so that it has a solution, and
\* the solution consists of the codes of the digits.
LEMMA DigitCodes ==
  ASSUME NEW base \in {10, 16}, NEW number \in Nat
  PROVE  /\ numstring(base, number) \in Seq(Int)
         /\ \E m : Divides(base, numstring(base, number), number, m)
<1> DEFINE Digits(fill, n) ==
             IF n = 0 THEN <<>> ELSE <<DigitCode(n % base)>> \o fill[n \div base]
           Solves(f, k) == f = [n \in 0 .. k |-> Digits(f, n)]
           fill == CHOOSE f : f = [n \in 0 .. number |-> Digits(f, n)]
<1>1. numstring(base, number) = fill[number]
  BY DEF numstring
<1>2. \A n \in Nat \ {0} : n \div base \in 0 .. (n - 1) /\ n % base \in Nat
  OBVIOUS
<1>3. \A k \in Nat : \E f : Solves(f, k)
  <2> DEFINE T == {k \in Nat : ~\E f : Solves(f, k)}
  <2> SUFFICES ASSUME T # {} PROVE FALSE
    OBVIOUS
  <2>1. PICK k \in T : \A m \in T : k <= m
    <3>1. T \in SUBSET Nat
      OBVIOUS
    <3> HIDE DEF T
    <3> QED BY <3>1, LeastNatural
  <2>2. CASE k = 0
    <3> DEFINE f == [n \in 0 .. 0 |-> <<>>]
    <3>1. Solves(f, 0)
      OBVIOUS
    <3> HIDE DEF f, Solves
    <3> QED BY <2>1, <2>2, <3>1
  <2>3. CASE k # 0
    <3>1. PICK g : Solves(g, k - 1)
      <4>1. k - 1 \in Nat /\ ~(k <= k - 1)
        BY <2>1, <2>3
      <4> HIDE DEF Solves
      <4> QED BY <2>1, <4>1
    <3> DEFINE f == [n \in 0 .. k |-> IF n = k THEN Digits(g, k) ELSE g[n]]
    <3>2. \A n \in 0 .. (k - 1) : g[n] = Digits(g, n)
      <4> HIDE DEF Digits
      <4> QED BY <3>1
    <3>3. \A n \in 0 .. k : Digits(f, n) = Digits(g, n)
      <4> SUFFICES ASSUME NEW n \in 0 .. k, n # 0 PROVE f[n \div base] = g[n \div base]
        OBVIOUS
      <4>1. n \div base \in 0 .. (n - 1) /\ n \in Nat /\ k \in Nat
        <5>1. k \in Nat
          BY <2>1
        <5>2. n \in Nat \ {0}
          BY <5>1
        <5> QED BY <1>2, <5>1, <5>2
      <4>2. n \div base \in 0 .. k /\ n \div base # k
        BY <4>1
      <4> HIDE DEF Digits
      <4> QED BY <4>2
    <3>4. \A n \in 0 .. k : f[n] = Digits(g, n)
      <4>1. k \in Nat /\ \A n \in 0 .. k : n # k => n \in 0 .. (k - 1)
        BY <2>1
      <4> HIDE DEF Digits
      <4> QED BY <3>2, <4>1
    <3>5. Solves(f, k)
      <4>1. f = [n \in 0 .. k |-> f[n]]
        <5> HIDE DEF Digits
        <5> QED OBVIOUS
      <4>2. \A n \in 0 .. k : f[n] = Digits(f, n)
        BY <3>3, <3>4, Zenon
      <4> HIDE DEF f, Digits
      <4> QED BY <4>1, <4>2
    <3> HIDE DEF f, Solves
    <3> QED BY <2>1, <3>5
  <2> QED BY <2>2, <2>3
<1>4. Solves(fill, number)
  <2>1. \E f : f = [n \in 0 .. number |-> Digits(f, n)]
    BY <1>3
  <2> HIDE DEF Digits
  <2> QED BY <2>1
<1> HIDE DEF fill
<1>5. \A n \in 0 .. number : fill[n] = Digits(fill, n)
  <2> HIDE DEF Digits
  <2> QED BY <1>4
<1> DEFINE Good(n) == fill[n] \in Seq(Int) /\ \E m : Divides(base, fill[n], n, m)
<1>6. \A n \in 0 .. number : Good(n)
  <2> DEFINE T == {n \in 0 .. number : ~Good(n)}
  <2> SUFFICES ASSUME T # {} PROVE FALSE
    OBVIOUS
  <2>1. PICK k \in T : \A m \in T : k <= m
    <3>1. T \in SUBSET Nat
      OBVIOUS
    <3> HIDE DEF T
    <3> QED BY <3>1, LeastNatural
  <2>2. k # 0
    <3>1. fill[0] = <<>>
      <4>1. 0 \in 0 .. number
        OBVIOUS
      <4>2. fill[0] = Digits(fill, 0)
        <5> HIDE DEF Digits
        <5> QED BY <1>5, <4>1
      <4>3. Digits(fill, 0) = <<>>
        BY Zenon
      <4> QED BY <4>2, <4>3, Zenon
    <3>2. Divides(base, <<>>, 0, [j \in 0 .. 0 |-> 0])
      <4>1. Len(<<>>) = 0 /\ [j \in 0 .. 0 |-> 0] \in [0 .. 0 -> Nat]
        OBVIOUS
      <4> QED BY <4>1 DEF Divides
    <3>3. <<>> \in Seq(Int)
      OBVIOUS
    <3>4. Good(0)
      BY <3>1, <3>2, <3>3
    <3> HIDE DEF Good
    <3> QED BY <2>1, <3>4
  <2>3. k \div base \in 0 .. (k - 1) /\ k \in 0 .. number /\ k \in Nat \ {0}
    BY <1>2, <2>1, <2>2
  <2>4. Good(k \div base)
    <3>1. k \div base \in 0 .. number /\ ~(k <= k \div base)
      BY <2>3
    <3> HIDE DEF Good
    <3> QED BY <2>1, <3>1
  <2>5. fill[k] = <<DigitCode(k % base)>> \o fill[k \div base]
    BY <1>5, <2>3
  <2>6. Good(k)
    BY <2>3, <2>4, <2>5, DivideOnce
  <2> HIDE DEF Good
  <2> QED BY <2>1, <2>6
<1> QED BY <1>1, <1>6

\* The digits are reversed before they are printed.
LEMMA CodesOfNumber ==
  ASSUME NEW base \in {10, 16}, NEW number \in Nat
  PROVE  NumberCodes(base, number) \in Seq(Int)
<1> DEFINE s == numstring(base, number)
<1>1. s \in Seq(Int)
  BY DigitCodes
<1> HIDE DEF s
<1>2. Reverse(s) \in Seq(Int)
  <2>1. Len(s) \in Nat /\ \A n \in 1 .. Len(s) : s[n] \in Int
    BY <1>1
  <2>2. \A n \in 1 .. Len(s) : (Len(s) - n) + 1 \in 1 .. Len(s)
    BY <2>1
  <2> QED BY <2>1, <2>2 DEF Reverse
<1> QED BY <1>2 DEF NumberCodes, s

-----------------------------------------------------------------------------
(* What a number is read as *)

\* The recursion of Value has one solution: whatever obeys it, is it.
LEMMA ValueIs ==
  ASSUME NEW base \in Nat, NEW g \in Seq(Nat), NEW h \in [0 .. Len(g) -> Nat], h[0] = 0,
         \A n \in 1 .. Len(g) : h[n] = h[n - 1] * base + g[n]
  PROVE  Value(base, g) = h[Len(g)]
<1> DEFINE L == Len(g)
           Reads(f, n) == IF n = 0 THEN 0 ELSE f[n - 1] * base + g[n]
           v == CHOOSE f : f = [n \in 0 .. L |-> Reads(f, n)]
<1>1. Value(base, g) = v[L]
  BY DEF Value
<1>2. L \in Nat /\ h \in [0 .. L -> Nat]
  OBVIOUS
<1>3. h = [n \in 0 .. L |-> Reads(h, n)]
  <2>1. \A n \in 0 .. L : h[n] = Reads(h, n)
    <3> SUFFICES ASSUME NEW n \in 0 .. L PROVE h[n] = Reads(h, n)
      OBVIOUS
    <3>1. CASE n = 0
      BY <3>1
    <3>2. CASE n # 0
      <4>1. n \in 1 .. Len(g)
        BY <1>2, <3>2
      <4> QED BY <3>2, <4>1
    <3> QED BY <3>1, <3>2
  <2>2. h = [n \in 0 .. L |-> h[n]]
    BY <1>2
  <2> HIDE DEF Reads, L
  <2> QED BY <2>1, <2>2
<1>4. v = [n \in 0 .. L |-> Reads(v, n)]
  <2>1. \E f : f = [n \in 0 .. L |-> Reads(f, n)]
    <3> HIDE DEF Reads, L
    <3> QED BY <1>3
  <2> HIDE DEF Reads, L
  <2> QED BY <2>1
<1> HIDE DEF v, L
<1>5. \A n \in 0 .. L : v[n] = Reads(v, n) /\ h[n] = Reads(h, n)
  <2> HIDE DEF Reads
  <2> QED BY <1>3, <1>4
<1>6. \A n \in 0 .. L : v[n] = h[n]
  <2> DEFINE T == {n \in 0 .. L : v[n] # h[n]}
  <2> SUFFICES ASSUME T # {} PROVE FALSE
    OBVIOUS
  <2>1. PICK k \in T : \A m \in T : k <= m
    <3>1. T \in SUBSET Nat
      BY <1>2
    <3> HIDE DEF T
    <3> QED BY <3>1, LeastNatural
  <2>2. CASE k = 0
    <3>1. 0 \in 0 .. L
      BY <1>2
    <3>2. v[0] = 0 /\ h[0] = 0
      BY <1>5, <3>1
    <3> QED BY <2>1, <2>2, <3>2
  <2>3. CASE k # 0
    <3>1. k - 1 \in 0 .. L /\ ~(k <= k - 1)
      BY <1>2, <2>1, <2>3
    <3>2. v[k - 1] = h[k - 1]
      BY <2>1, <3>1
    <3>3. Reads(v, k) = Reads(h, k)
      BY <3>2
    <3> HIDE DEF Reads
    <3> QED BY <1>5, <2>1, <3>3
  <2> QED BY <2>2, <2>3
<1> QED BY <1>1, <1>2, <1>6 DEF L

\* A digit's code has a glyph of its own, and is neither a blank nor a newline.
LEMMA DigitGlyph ==
  ASSUME NEW d \in 0 .. 15
  PROVE  Glyphs(DigitCode(d)) = {d} /\ DigitCode(d) \notin {10, 32}
BY DEF Glyphs, DigitCode, IsCapital

\* d are the digits of the number, without a leading zero, and cs their codes.
ReadsAs(base, number, cs, d) ==
  /\ d \in Seq(0 .. 15) /\ Len(cs) = Len(d)
  /\ \A k \in 1 .. Len(d) : cs[k] = DigitCode(d[k])
  /\ Value(base, d) = number
  /\ Len(d) > 1 => d[1] # 0

\* Reading the digits forwards undoes the divisions one by one.
LEMMA DigitsOfNumber ==
  ASSUME NEW base \in {10, 16}, NEW number \in Nat \ {0}
  PROVE  \E d : ReadsAs(base, number, NumberCodes(base, number), d)
<1> DEFINE s == numstring(base, number)
           cs == NumberCodes(base, number)
           L == Len(s)
<1>1. s \in Seq(Int) /\ \E m : Divides(base, s, number, m)
  BY DigitCodes
<1>2. PICK m : Divides(base, s, number, m)
  BY <1>1
<1>3. cs = Reverse(s)
  BY DEF NumberCodes
<1> HIDE DEF s
<1>4. /\ L \in Nat /\ m \in [0 .. L -> Nat] /\ m[0] = number /\ m[L] = 0
      /\ \A j \in 0 .. (L - 1) :
           /\ m[j] > 0 /\ m[j + 1] = m[j] \div base
           /\ s[j + 1] = DigitCode(m[j] % base)
  BY <1>1, <1>2 DEF Divides
<1>5. Len(cs) = L /\ \A k \in 1 .. L : cs[k] = s[(L - k) + 1]
  <2> HIDE DEF cs
  <2> QED BY <1>1, <1>3 DEF Reverse
<1> HIDE DEF cs, L
<1> DEFINE d == [k \in 1 .. L |-> m[L - k] % base]
           h == [k \in 0 .. L |-> m[L - k]]
<1>6. \A a \in Nat : a % base \in 0 .. 15 /\ a = (a \div base) * base + (a % base)
                     /\ (a \div base = 0 /\ a > 0 => a % base # 0)
  OBVIOUS
<1>7. \A k \in 1 .. L : /\ L - k \in 0 .. (L - 1) /\ L - k \in 0 .. L
                        /\ (L - k) + 1 = L - (k - 1) /\ k - 1 \in 0 .. L /\ m[L - k] \in Nat
  BY <1>4
<1>8. d \in Seq(0 .. 15) /\ d \in Seq(Nat) /\ Len(d) = L
  <2>1. ASSUME NEW k \in 1 .. L PROVE d[k] \in 0 .. 15
    <3> DEFINE a == m[L - k]
    <3>1. a \in Nat /\ d[k] = a % base
      BY <1>7
    <3> HIDE DEF a, d
    <3> QED BY <1>6, <3>1
  <2>2. d = [k \in 1 .. L |-> d[k]] /\ \A c \in 0 .. 15 : c \in Nat
    OBVIOUS
  <2> HIDE DEF d
  <2>3. d \in [1 .. L -> 0 .. 15] /\ d \in [1 .. L -> Nat]
    BY <2>1, <2>2
  <2> QED BY <1>4, <2>3
<1>9. ASSUME NEW k \in 1 .. L PROVE cs[k] = DigitCode(d[k])
  <2>1. L - k \in 0 .. (L - 1) /\ d[k] = m[L - k] % base
    BY <1>7
  <2> HIDE DEF d
  <2>2. s[(L - k) + 1] = DigitCode(m[L - k] % base)
    BY <1>4, <2>1
  <2> QED BY <1>5, <2>1, <2>2
<1>10. h \in [0 .. L -> Nat] /\ h[0] = 0 /\ h[L] = number
  BY <1>4
<1>11. \A k \in 1 .. L : h[k] = h[k - 1] * base + d[k]
  <2> SUFFICES ASSUME NEW k \in 1 .. L PROVE h[k] = h[k - 1] * base + d[k]
    OBVIOUS
  <2>1. m[L - k] \in Nat /\ m[L - (k - 1)] = m[L - k] \div base
    BY <1>4, <1>7
  <2>2. h[k] = m[L - k] /\ h[k - 1] = m[L - (k - 1)] /\ d[k] = m[L - k] % base
    BY <1>4, <1>7
  <2> HIDE DEF h, d
  <2> DEFINE a == m[L - k]
  <2>3. a \in Nat /\ h[k] = a /\ h[k - 1] = a \div base /\ d[k] = a % base
    BY <2>1, <2>2
  <2> HIDE DEF a
  <2> QED BY <1>6, <2>3
<1>12. Value(base, d) = number
  <2> HIDE DEF d, h
  <2>1. base \in Nat /\ h \in [0 .. Len(d) -> Nat]
    BY <1>8, <1>10
  <2>2. \A k \in 1 .. Len(d) : h[k] = h[k - 1] * base + d[k]
    BY <1>8, <1>11
  <2>3. Value(base, d) = h[Len(d)]
    BY <1>8, <1>10, <2>1, <2>2, ValueIs
  <2> QED BY <1>8, <1>10, <2>3
<1>13. L > 0 => d[1] # 0
  <2> SUFFICES ASSUME L > 0 PROVE d[1] # 0
    OBVIOUS
  <2>1. 1 \in 1 .. L /\ L - 1 \in 0 .. (L - 1) /\ (L - 1) + 1 = L
    BY <1>4
  <2>2. m[L - 1] > 0 /\ m[L - 1] \div base = 0 /\ m[L - 1] \in Nat
    BY <1>4, <1>7, <2>1
  <2>3. d[1] = m[L - 1] % base
    BY <2>1
  <2> HIDE DEF d
  <2> QED BY <1>6, <2>2, <2>3
<1>14. ReadsAs(base, number, cs, d)
  <2> HIDE DEF d
  <2> QED BY <1>4, <1>5, <1>8, <1>9, <1>12, <1>13 DEF ReadsAs
<1> QED BY <1>14 DEF cs

\* What PrintNum and PrintHex print for 0 is no exception.
LEMMA CodesAreDigits ==
  ASSUME NEW base \in {10, 16}, NEW number \in Nat
  PROVE  \E d : ReadsAs(base, number, NumberCodes(base, number), d)
<1>1. CASE number = 0
  <2> DEFINE d == <<0>>
             h == [k \in 0 .. 1 |-> 0]
  <2>1. NumberCodes(base, number) = <<48>> /\ DigitCode(0) = 48
    BY <1>1 DEF NumberCodes, DigitCode
  <2>2. d \in Seq(0 .. 15) /\ d \in Seq(Nat) /\ Len(d) = 1 /\ d[1] = 0
    OBVIOUS
  <2>3. h \in [0 .. 1 -> Nat] /\ h[0] = 0 /\ h[1] = 0
    OBVIOUS
  <2>4. \A k \in 1 .. 1 : h[k] = h[k - 1] * base + d[k]
    <3>1. 0 * base + 0 = 0
      OBVIOUS
    <3> SUFFICES ASSUME NEW k \in 1 .. 1 PROVE h[k] = h[k - 1] * base + d[k]
      OBVIOUS
    <3>2. k = 1 /\ k - 1 = 0
      OBVIOUS
    <3> HIDE DEF h, d
    <3> QED BY <2>2, <2>3, <3>1, <3>2
  <2>5. Value(base, d) = 0
    <3> HIDE DEF d, h
    <3>1. base \in Nat /\ h \in [0 .. Len(d) -> Nat]
      BY <2>2, <2>3
    <3>2. \A k \in 1 .. Len(d) : h[k] = h[k - 1] * base + d[k]
      BY <2>2, <2>4
    <3>3. Value(base, d) = h[Len(d)]
      BY <2>2, <2>3, <3>1, <3>2, ValueIs
    <3> QED BY <2>2, <2>3, <3>3
  <2>6. ReadsAs(base, number, <<48>>, d)
    <3>1. Len(<<48>>) = 1 /\ <<48>>[1] = 48
      OBVIOUS
    <3> HIDE DEF d
    <3> QED BY <1>1, <2>1, <2>2, <2>5, <3>1 DEF ReadsAs
  <2> QED BY <2>1, <2>6
<1>2. CASE number # 0
  BY <1>2, DigitsOfNumber
<1> QED BY <1>1, <1>2

-----------------------------------------------------------------------------
(* Counting the chars that are drawn *)

LEMMA RankType ==
  ASSUME NEW cs, NEW n \in Nat
  PROVE  IsFiniteSet(Visible(cs, n)) /\ Rank(cs, n) \in Nat
<1>1. IsFiniteSet(1 .. n) /\ Visible(cs, n) \in SUBSET (1 .. n)
  BY FS_Interval DEF Visible
<1>2. IsFiniteSet(Visible(cs, n))
  BY <1>1, FS_Subset
<1> QED BY <1>2, FS_CardinalityType DEF Rank

LEMMA RankZero ==
  ASSUME NEW cs
  PROVE  Rank(cs, 0) = 0 /\ Visible(cs, 0) = {}
<1>1. Visible(cs, 0) = {}
  BY DEF Visible
<1> QED BY <1>1, FS_EmptySet DEF Rank

\* The next char counts unless it is a blank or a newline.
LEMMA RankNext ==
  ASSUME NEW cs, NEW n \in Nat
  PROVE  /\ cs[n + 1] \in {10, 32} =>
              Rank(cs, n + 1) = Rank(cs, n) /\ Visible(cs, n + 1) = Visible(cs, n)
         /\ cs[n + 1] \notin {10, 32} =>
              /\ Rank(cs, n + 1) = Rank(cs, n) + 1
              /\ Visible(cs, n + 1) = Visible(cs, n) \cup {n + 1}
<1>1. \A m : m \in 1 .. (n + 1) <=> m \in 1 .. n \/ m = n + 1
  OBVIOUS
<1>2. n + 1 \notin Visible(cs, n)
  BY DEF Visible
<1>3. CASE cs[n + 1] \in {10, 32}
  <2>1. Visible(cs, n + 1) = Visible(cs, n)
    BY <1>1, <1>3 DEF Visible
  <2> QED BY <1>3, <2>1 DEF Rank
<1>4. CASE cs[n + 1] \notin {10, 32}
  <2>1. Visible(cs, n + 1) = Visible(cs, n) \cup {n + 1}
    BY <1>1, <1>4 DEF Visible
  <2>2. Cardinality(Visible(cs, n) \cup {n + 1}) = Cardinality(Visible(cs, n)) + 1
    BY <1>2, RankType, FS_AddElement
  <2> QED BY <1>4, <2>1, <2>2 DEF Rank
<1> QED BY <1>3, <1>4

\* A visible char counts itself, and counts do not decrease.
LEMMA RankWithin ==
  ASSUME NEW cs, NEW n \in Nat, NEW m \in Visible(cs, n)
  PROVE  Rank(cs, m) \in 1 .. Rank(cs, n) /\ m \in 1 .. n
<1>1. m \in 1 .. n /\ m \in Nat
  BY DEF Visible
<1>2. Visible(cs, m) \in SUBSET Visible(cs, n) /\ m \in Visible(cs, m)
  BY <1>1 DEF Visible
<1>3. Rank(cs, m) <= Rank(cs, n)
  BY <1>2, RankType, FS_Subset DEF Rank
<1>4. Rank(cs, m) # 0
  BY <1>1, <1>2, RankType, FS_EmptySet DEF Rank
<1> QED BY <1>1, <1>3, <1>4, RankType

\* If every char counts, a char's rank is its place.
LEMMA RankOfAll ==
  ASSUME NEW cs, NEW n \in Nat, \A m \in 1 .. n : cs[m] \notin {10, 32}
  PROVE  Rank(cs, n) = n /\ Visible(cs, n) = 1 .. n
<1>1. Visible(cs, n) = 1 .. n
  BY DEF Visible
<1>2. Cardinality(1 .. n) = n
  <2>1. Cardinality(1 .. n) = IF 1 > n THEN 0 ELSE n - 1 + 1
    BY FS_Interval
  <2> QED BY <2>1
<1> QED BY <1>1, <1>2 DEF Rank

-----------------------------------------------------------------------------
(* The cells of the screen *)

Lines == VerticalResolution \div FontHeight

\* Quotient and rest of a division.
LEMMA Division ==
  ASSUME NEW a \in Nat, NEW b \in Nat \ {0}
  PROVE  /\ a \div b \in Nat
         /\ a % b \in 0 .. (b - 1)
         /\ a = b * (a \div b) + (a % b)
  OBVIOUS

\* There is only one way to divide.
LEMMA DivisionUnique ==
  ASSUME NEW b \in Nat \ {0}, NEW q \in Nat, NEW r \in 0 .. (b - 1),
         NEW p \in Nat, NEW s \in 0 .. (b - 1),
         r + q * b = s + p * b
  PROVE  q = p /\ r = s
<1>1. ASSUME q < p PROVE FALSE
  <2>1. (p - q) * b >= b
    BY <1>1
  <2> QED BY <2>1
<1>2. ASSUME p < q PROVE FALSE
  <2>1. (q - p) * b >= b
    BY <1>2
  <2> QED BY <2>1
<1> QED BY <1>1, <1>2

\* Cells that fit in a width or a height of n units.
LEMMA CellsFit ==
  ASSUME NEW n \in Nat, NEW c \in Nat, c < n \div FontWidth,
         NEW o \in 0 .. (FontWidth - 1)
  PROVE  o + c * FontWidth \in 0 .. (n - 1)
<1> DEFINE w == FontWidth
           q == n \div w
           r == n % w
<1>1. w \in Nat \ {0}
  BY ScreenAssumption
<1>2. q \in Nat /\ r \in 0 .. (w - 1) /\ n = w * q + r
  BY <1>1, Division, Zenon
<1>3. c < q /\ o \in 0 .. (w - 1)
  OBVIOUS
<1> HIDE DEF w, q, r
<1>4. (c + 1) * w <= w * q /\ (c + 1) * w = c * w + w /\ c * w \in Nat /\ w * q \in Nat
  <2>1. (q - (c + 1)) * w >= 0
    BY <1>1, <1>2, <1>3
  <2> QED BY <1>1, <1>2, <1>3, <2>1
<1>5. o + c * w \in 0 .. (n - 1)
  BY <1>1, <1>2, <1>3, <1>4
<1> QED BY <1>5 DEF w

\* A line of the screen holds at least one character.
LEMMA ScreenSizes ==
  /\ Columns \in Nat /\ Columns > 0 /\ Lines \in Nat
  /\ FontWidth \in Nat \ {0} /\ FontHeight = FontWidth
  /\ PixelsPerScanline \in Nat \ {0} /\ HorizontalResolution \in Nat
  /\ VerticalResolution \in Nat /\ FrameBufferPixels \in Nat
<1> DEFINE w == FontWidth
           h == HorizontalResolution
           q == h \div w
           r == h % w
<1>1. /\ w \in Nat \ {0} /\ h \in Nat /\ w <= h /\ FontHeight = FontWidth
      /\ VerticalResolution \in Nat /\ FrameBufferPixels \in Nat
      /\ PixelsPerScanline \in Nat /\ h <= PixelsPerScanline
  BY ScreenAssumption
<1>2. q \in Nat /\ r \in 0 .. (w - 1) /\ h = w * q + r
  BY <1>1, Division, Zenon
<1>3. Columns = q /\ Lines = VerticalResolution \div w
  BY <1>1 DEF Columns, Lines
<1>4. VerticalResolution \div w \in Nat
  BY <1>1, Division, Zenon
<1> HIDE DEF q, r
<1>5. q > 0
  <2>1. ASSUME q = 0 PROVE FALSE
    <3>1. w * q = 0
      BY <1>1, <2>1
    <3> QED BY <1>1, <1>2, <3>1
  <2> QED BY <1>2, <2>1
<1> QED BY <1>1, <1>2, <1>3, <1>4, <1>5

\* A pixel of a cell on the screen's columns.
LEMMA PixelOfCell ==
  ASSUME NEW cx \in 0 .. (Columns - 1), NEW cy \in Nat, NEW p \in Cell(cx, cy)
  PROVE  \E i, j \in 0 .. (FontWidth - 1) :
           /\ i + cx * FontWidth \in 0 .. (PixelsPerScanline - 1)
           /\ j + cy * FontWidth \in Nat
           /\ p = (i + cx * FontWidth) + (j + cy * FontWidth) * PixelsPerScanline
<1>1. PICK i \in 0 .. (FontHeight - 1), j \in 0 .. (FontWidth - 1) :
        p = PixelIndex(i + cx * FontWidth, j + cy * FontHeight)
  BY DEF Cell
<1>2. i \in 0 .. (FontWidth - 1) /\ FontHeight = FontWidth
  BY ScreenSizes
<1>3. p = (i + cx * FontWidth) + (j + cy * FontWidth) * PixelsPerScanline
  BY <1>1, <1>2, Zenon DEF PixelIndex
<1>4. i + cx * FontWidth \in 0 .. (HorizontalResolution - 1)
  <2>1. cx \in Nat /\ cx < HorizontalResolution \div FontWidth /\ HorizontalResolution \in Nat
    <3>1. Columns \in Nat /\ HorizontalResolution \in Nat
      BY ScreenSizes
    <3>2. Columns = HorizontalResolution \div FontWidth
      BY DEF Columns
    <3>3. cx \in Nat /\ cx < Columns
      BY <3>1
    <3> QED BY <3>1, <3>2, <3>3
  <2> QED BY <1>2, <2>1, CellsFit
<1>5. i + cx * FontWidth \in 0 .. (PixelsPerScanline - 1)
  <2> DEFINE px == i + cx * FontWidth
  <2>1. HorizontalResolution <= PixelsPerScanline /\ PixelsPerScanline \in Nat
        /\ HorizontalResolution \in Nat
    BY ScreenAssumption
  <2>2. px \in 0 .. (HorizontalResolution - 1)
    BY <1>4
  <2> HIDE DEF px
  <2>3. px \in 0 .. (PixelsPerScanline - 1)
    BY <2>1, <2>2
  <2> QED BY <2>3 DEF px
<1>6. j + cy * FontWidth \in Nat
  <2>1. FontWidth \in Nat /\ j \in Nat
    BY ScreenSizes
  <2> QED BY <2>1
<1> QED BY <1>2, <1>3, <1>5, <1>6

\* Different cells have no pixel in common.
LEMMA CellsApart ==
  ASSUME NEW cx \in 0 .. (Columns - 1), NEW cy \in Nat,
         NEW ax \in 0 .. (Columns - 1), NEW ay \in Nat,
         NEW p \in Cell(cx, cy), p \in Cell(ax, ay)
  PROVE  cx = ax /\ cy = ay
<1> DEFINE w == FontWidth
           b == PixelsPerScanline
<1>1. PICK i, j \in 0 .. (w - 1) :
        /\ i + cx * w \in 0 .. (b - 1) /\ j + cy * w \in Nat
        /\ p = (i + cx * w) + (j + cy * w) * b
  BY PixelOfCell
<1>2. PICK k, l \in 0 .. (w - 1) :
        /\ k + ax * w \in 0 .. (b - 1) /\ l + ay * w \in Nat
        /\ p = (k + ax * w) + (l + ay * w) * b
  BY PixelOfCell
<1>3. w \in Nat \ {0} /\ b \in Nat \ {0} /\ cx \in Nat /\ ax \in Nat
  BY ScreenSizes
<1> HIDE DEF w, b
<1> DEFINE q == j + cy * w
           r == i + cx * w
           t == l + ay * w
           s == k + ax * w
<1>4. q = t /\ r = s
  <2>1. /\ q \in Nat /\ t \in Nat /\ r \in 0 .. (b - 1) /\ s \in 0 .. (b - 1)
        /\ r + q * b = s + t * b
    BY <1>1, <1>2
  <2> HIDE DEF q, r, t, s
  <2> QED BY <1>3, <2>1, DivisionUnique
<1>5. j + cy * w = l + ay * w /\ i + cx * w = k + ax * w
  BY <1>4
<1>6. cy = ay
  BY <1>3, <1>5, DivisionUnique
<1>7. cx = ax
  BY <1>3, <1>5, DivisionUnique
<1> QED BY <1>6, <1>7

\* A cell on the screen's lines lies within the frame buffer.
LEMMA CellOnScreen ==
  ASSUME NEW cx \in 0 .. (Columns - 1), NEW cy \in Nat, NEW p \in Cell(cx, cy)
  PROVE  p \in Nat /\ (cy < Lines => p \in Pixels)
<1> DEFINE w == FontWidth
           b == PixelsPerScanline
           v == VerticalResolution
<1>1. PICK i, j \in 0 .. (w - 1) :
        /\ i + cx * w \in 0 .. (b - 1) /\ j + cy * w \in Nat
        /\ p = (i + cx * w) + (j + cy * w) * b
  BY PixelOfCell
<1>2. b \in Nat \ {0} /\ v \in Nat /\ v * b <= FrameBufferPixels /\ FrameBufferPixels \in Nat
  BY ScreenSizes, ScreenAssumption
<1>3. cy < Lines => j + cy * w \in 0 .. (v - 1)
  <2>1. Lines = v \div FontWidth
    BY ScreenSizes DEF Lines
  <2> QED BY <1>1, <1>2, <2>1, CellsFit
<1> DEFINE q == j + cy * w
           r == i + cx * w
<1>4. q \in Nat /\ r \in 0 .. (b - 1) /\ p = r + q * b /\ (cy < Lines => q \in 0 .. (v - 1))
  BY <1>1, <1>3
<1> HIDE DEF q, r, b, v, w
<1>5. q * b \in Nat /\ p \in Nat
  BY <1>2, <1>4
<1>6. ASSUME cy < Lines PROVE p \in Pixels
  <2>1. (v - (q + 1)) * b >= 0
    BY <1>2, <1>4, <1>6
  <2>2. (v - (q + 1)) * b = v * b - q * b - b /\ v * b \in Nat
    BY <1>2, <1>4
  <2>3. p < FrameBufferPixels
    BY <1>2, <1>4, <1>5, <2>1, <2>2
  <2> QED BY <1>2, <1>5, <2>3 DEF Pixels
<1> QED BY <1>5, <1>6

-----------------------------------------------------------------------------
(* The invariant *)

Shown == 0 .. 61 \cup {Unknown}

Drawing == [x : 0 .. (Columns - 1), y : Nat, glyph : Shown]

TypeInv ==
  /\ stage \in {"fill", "vga", "run"}
  /\ x \in 0 .. (Columns - 1) /\ y \in Nat
  /\ stage = "run" => max_horizontal = Columns /\ max_vertical = Lines
  /\ stage # "run" => x = 0 /\ drawn = <<>> /\ todo = <<>> /\ stray = {}
  /\ todo \in Seq(Int)
  /\ drawn \in Seq(Drawing)
  /\ screen \in [Pixels -> -1 .. Len(drawn)]
  /\ stray \subseteq Nat

\* The cursor is behind or below every character drawn so far.
CursorAhead ==
  \A n \in 1 .. Len(drawn) :
    drawn[n].y < y \/ (drawn[n].y = y /\ drawn[n].x < x)

IInv == TypeInv /\ CursorAhead /\ CharactersStay /\ StrayOnlyBelowLastLine

\* What drawn holds.
LEMMA DrawnTypes ==
  ASSUME TypeInv
  PROVE  /\ Len(drawn) \in Nat /\ DOMAIN drawn = 1 .. Len(drawn)
         /\ \A n \in 1 .. Len(drawn) :
              /\ drawn[n] \in Drawing
              /\ drawn[n].x \in 0 .. (Columns - 1) /\ drawn[n].y \in Nat
              /\ drawn[n].glyph \in Shown
<1>1. drawn \in Seq(Drawing)
  BY DEF TypeInv
<1>2. Len(drawn) \in Nat /\ DOMAIN drawn = 1 .. Len(drawn)
      /\ \A n \in 1 .. Len(drawn) : drawn[n] \in Drawing
  BY <1>1
<1>3. \A d \in Drawing : d.x \in 0 .. (Columns - 1) /\ d.y \in Nat /\ d.glyph \in Shown
  BY DEF Drawing
<1> QED BY <1>2, <1>3

\* Every code has a glyph of the font, or shows what lies behind it.
LEMMA GlyphsAreShown ==
  ASSUME NEW c \in Int
  PROVE  Glyphs(c) \subseteq Shown
BY TextAssumption DEF Glyphs, IsCapital, Shown

\* PrintChar leaves the cursor on the screen's columns, behind where it was.
LEMMA WrapAdvances ==
  ASSUME TypeInv, stage = "run", NEW nx \in 0 .. Columns, NEW ny \in Nat, Wrap(nx, ny)
  PROVE  /\ x' \in 0 .. (Columns - 1) /\ y' \in Nat
         /\ y' > ny \/ (y' = ny /\ x' = nx)
BY ScreenSizes DEF Wrap, TypeInv

LEMMA InitIInv == Init => IInv
<1> SUFFICES ASSUME Init PROVE IInv
  OBVIOUS
<1>1. Len(drawn) = 0 /\ drawn = <<>> /\ DOMAIN drawn = {}
  BY DEF Init
<1>2. screen \in [Pixels -> -1 .. 0]
  BY DEF Init
<1>3. drawn \in Seq(Drawing) /\ todo \in Seq(Int)
  BY DEF Init
<1>4. TypeInv
  BY <1>1, <1>2, <1>3, ScreenSizes DEF Init, TypeInv
<1>5. CursorAhead /\ CharactersStay /\ StrayOnlyBelowLastLine
  BY <1>1 DEF Init, CursorAhead, CharactersStay, StrayOnlyBelowLastLine
<1> QED BY <1>4, <1>5 DEF IInv

\* A glyph is drawn in a cell that no earlier character has.
LEMMA GlyphStep == IInv /\ PrintGlyph => IInv'
<1> SUFFICES ASSUME IInv, PrintGlyph PROVE IInv'
  OBVIOUS
<1>1. /\ TypeInv /\ CursorAhead /\ CharactersStay /\ StrayOnlyBelowLastLine
      /\ todo # <<>> /\ todo \in Seq(Int) /\ stage = "run"
  BY DEF IInv, TypeInv, PrintGlyph
<1>2. Head(todo) \in Int /\ Tail(todo) \in Seq(Int)
  BY <1>1
<1>3. PICK g \in Glyphs(Head(todo)) : drawn' = Append(drawn, [x |-> x, y |-> y, glyph |-> g])
  BY DEF PrintGlyph
<1> DEFINE d == [x |-> x, y |-> y, glyph |-> g]
           N == Len(drawn)
<1>4. d \in Drawing /\ drawn \in Seq(Drawing)
  BY <1>1, <1>2, <1>3, GlyphsAreShown DEF TypeInv, Drawing
<1>5. /\ N \in Nat /\ drawn' \in Seq(Drawing) /\ Len(drawn') = N + 1
      /\ DOMAIN drawn' = 1 .. (N + 1) /\ drawn'[N + 1] = d
      /\ \A n \in 1 .. N : drawn'[n] = drawn[n]
  <2> HIDE DEF d
  <2>1. drawn' = Append(drawn, d)
    BY <1>3 DEF d
  <2> QED BY <1>4, <2>1
<1>6. x \in 0 .. (Columns - 1) /\ y \in Nat /\ x + 1 \in 0 .. Columns
  BY <1>1, ScreenSizes DEF TypeInv
<1>7. /\ x' \in 0 .. (Columns - 1) /\ y' \in Nat
      /\ y' > y \/ (y' = y /\ x' = x + 1)
  BY <1>1, <1>6, WrapAdvances DEF PrintGlyph, NextColumn
<1>8. /\ screen' = [p \in Pixels |-> IF p \in Cell(x, y) THEN N + 1 ELSE screen[p]]
      /\ stray' = stray \cup (Cell(x, y) \ Pixels)
      /\ todo' = Tail(todo) /\ UNCHANGED <<stage, max_vertical, max_horizontal>>
  BY <1>5 DEF PrintGlyph
<1>9. screen \in [Pixels -> -1 .. N]
  BY <1>1 DEF TypeInv
<1>10. screen' \in [Pixels -> -1 .. (N + 1)]
  BY <1>5, <1>8, <1>9
<1>11. stray' \subseteq Nat
  BY <1>1, <1>6, <1>8, CellOnScreen DEF TypeInv
<1>12. TypeInv'
  BY <1>1, <1>2, <1>5, <1>7, <1>8, <1>10, <1>11 DEF TypeInv
<1>13. \A n \in 1 .. N : /\ drawn[n].x \in 0 .. (Columns - 1) /\ drawn[n].y \in Nat
                         /\ drawn[n].y < y \/ (drawn[n].y = y /\ drawn[n].x < x)
  BY <1>1, DrawnTypes DEF CursorAhead
<1>14. CursorAhead'
  <2> SUFFICES ASSUME NEW n \in 1 .. (N + 1)
               PROVE  drawn'[n].y < y' \/ (drawn'[n].y = y' /\ drawn'[n].x < x')
    BY <1>5 DEF CursorAhead
  <2>1. CASE n = N + 1
    <3>1. drawn'[n].x = x /\ drawn'[n].y = y
      BY <1>5, <2>1
    <3> QED BY <1>6, <1>7, <3>1
  <2>2. CASE n # N + 1
    <3>1. n \in 1 .. N /\ drawn'[n] = drawn[n]
      BY <1>5, <2>2
    <3> QED BY <1>6, <1>7, <1>13, <3>1
  <2> QED BY <2>1, <2>2
<1>15. CharactersStay'
  <2> SUFFICES ASSUME NEW n \in 1 .. (N + 1),
                      NEW p \in Cell(drawn'[n].x, drawn'[n].y) \cap Pixels
               PROVE  screen'[p] = n
    BY <1>5 DEF CharactersStay, Cell, PixelIndex
  <2>1. CASE n = N + 1
    <3>1. p \in Cell(x, y)
      BY <1>5, <2>1
    <3> QED BY <1>8, <2>1, <3>1
  <2>2. CASE n # N + 1
    <3>1. n \in 1 .. N /\ drawn'[n] = drawn[n]
      BY <1>5, <2>2
    <3>2. p \in Cell(drawn[n].x, drawn[n].y) /\ p \in Pixels
      BY <3>1
    <3>3. screen[p] = n
      BY <1>1, <3>1, <3>2, DrawnTypes DEF CharactersStay
    <3>4. p \notin Cell(x, y)
      <4> SUFFICES ASSUME p \in Cell(x, y) PROVE FALSE
        OBVIOUS
      <4>1. drawn[n].x = x /\ drawn[n].y = y
        BY <1>6, <1>13, <3>1, <3>2, CellsApart
      <4> QED BY <1>6, <1>13, <3>1, <4>1
    <3> QED BY <1>8, <3>2, <3>3, <3>4
  <2> QED BY <2>1, <2>2
<1>16. StrayOnlyBelowLastLine'
  <2> SUFFICES ASSUME stray' # {} PROVE y' >= max_vertical'
    BY DEF StrayOnlyBelowLastLine
  <2>1. max_vertical' = Lines /\ max_vertical = Lines /\ Lines \in Nat
    BY <1>1, <1>8, ScreenSizes DEF TypeInv
  <2>2. CASE stray # {}
    BY <1>1, <1>6, <1>7, <2>1, <2>2 DEF StrayOnlyBelowLastLine
  <2>3. CASE stray = {}
    <3>1. PICK p \in Cell(x, y) : p \notin Pixels
      BY <1>8, <2>3
    <3>2. ~(y < Lines)
      BY <1>6, <3>1, CellOnScreen
    <3> QED BY <1>6, <1>7, <2>1, <3>2
  <2> QED BY <2>2, <2>3
<1> QED BY <1>12, <1>14, <1>15, <1>16 DEF IInv

\* A blank or a newline only moves the cursor on.
LEMMA BlankStep == IInv /\ (PrintSpace \/ PrintNewline) => IInv'
<1> SUFFICES ASSUME IInv, PrintSpace \/ PrintNewline PROVE IInv'
  OBVIOUS
<1>1. /\ TypeInv /\ CursorAhead /\ CharactersStay /\ StrayOnlyBelowLastLine
      /\ todo # <<>> /\ todo \in Seq(Int) /\ stage = "run"
  BY DEF IInv, TypeInv, PrintSpace, PrintNewline
<1>2. todo' = Tail(todo) /\ Tail(todo) \in Seq(Int)
      /\ UNCHANGED <<stage, max_vertical, max_horizontal, screen, stray, drawn>>
  BY <1>1 DEF PrintSpace, PrintNewline
<1>3. x \in 0 .. (Columns - 1) /\ y \in Nat /\ x + 1 \in 0 .. Columns /\ 0 \in 0 .. Columns
      /\ y + 1 \in Nat
  BY <1>1, ScreenSizes DEF TypeInv
<1>4. /\ x' \in 0 .. (Columns - 1) /\ y' \in Nat
      /\ y' > y \/ (y' = y /\ x' = x + 1)
  <2>1. CASE PrintSpace
    BY <1>1, <1>3, <2>1, WrapAdvances DEF PrintSpace, NextColumn
  <2>2. CASE PrintNewline
    <3>1. x' \in 0 .. (Columns - 1) /\ y' \in Nat /\ (y' > y + 1 \/ y' = y + 1)
      BY <1>1, <1>3, <2>2, WrapAdvances DEF PrintNewline
    <3> QED BY <1>3, <3>1
  <2> QED BY <2>1, <2>2
<1>5. TypeInv'
  BY <1>1, <1>2, <1>4 DEF TypeInv
<1>6. CursorAhead'
  <2> SUFFICES ASSUME NEW n \in 1 .. Len(drawn)
               PROVE  drawn[n].y < y' \/ (drawn[n].y = y' /\ drawn[n].x < x')
    BY <1>2 DEF CursorAhead
  <2>1. drawn[n].x \in Nat /\ drawn[n].y \in Nat /\ x \in Nat
    <3>1. drawn[n].x \in 0 .. (Columns - 1) /\ drawn[n].y \in Nat
      BY <1>1, DrawnTypes
    <3> QED BY <1>3, <3>1
  <2>2. drawn[n].y < y \/ (drawn[n].y = y /\ drawn[n].x < x)
    BY <1>1 DEF CursorAhead
  <2> QED BY <1>3, <1>4, <2>1, <2>2
<1>7. CharactersStay'
  BY <1>1, <1>2 DEF CharactersStay, Cell, PixelIndex
<1>8. StrayOnlyBelowLastLine'
  <2>1. max_vertical = Lines /\ Lines \in Nat
    BY <1>1, ScreenSizes DEF TypeInv
  <2> QED BY <1>1, <1>2, <1>3, <1>4, <2>1 DEF StrayOnlyBelowLastLine
<1> QED BY <1>5, <1>6, <1>7, <1>8 DEF IInv

\* One step per operation.
LEMMA NextIInv == IInv /\ [Next]_vars => IInv'
<1> SUFFICES ASSUME IInv, [Next]_vars PROVE IInv'
  OBVIOUS
<1>1. CASE InitVga
  <2>1. stage = "fill" /\ stage' = "vga" /\ screen' = [p \in Pixels |-> 0]
        /\ UNCHANGED <<x, y, stray, drawn, todo>> /\ drawn = <<>> /\ stray = {}
    BY <1>1 DEF InitVga, IInv, TypeInv, cursor
  <2>2. screen' \in [Pixels -> -1 .. Len(drawn')] /\ DOMAIN drawn' = {} /\ Len(drawn') = 0
    BY <2>1
  <2>3. TypeInv'
    BY <2>1, <2>2 DEF IInv, TypeInv
  <2>4. CursorAhead' /\ CharactersStay' /\ StrayOnlyBelowLastLine'
    BY <2>1, <2>2 DEF CursorAhead, CharactersStay, StrayOnlyBelowLastLine
  <2> QED BY <2>3, <2>4 DEF IInv
<1>2. CASE InitTerminal
  <2>1. /\ stage = "vga" /\ stage' = "run" /\ x' = 0 /\ y' = 0
        /\ max_horizontal' = Columns /\ max_vertical' = Lines
        /\ UNCHANGED <<screen, stray, drawn, todo>> /\ drawn = <<>> /\ stray = {}
    BY <1>2 DEF InitTerminal, IInv, TypeInv, Lines
  <2>2. DOMAIN drawn' = {} /\ Len(drawn') = 0 /\ 0 \in 0 .. (Columns - 1)
    BY <2>1, ScreenSizes
  <2>3. TypeInv'
    BY <2>1, <2>2 DEF IInv, TypeInv
  <2>4. CursorAhead' /\ CharactersStay' /\ StrayOnlyBelowLastLine'
    BY <2>1, <2>2 DEF CursorAhead, CharactersStay, StrayOnlyBelowLastLine
  <2> QED BY <2>3, <2>4 DEF IInv
<1>3. ASSUME UNCHANGED <<stage, cursor, screen, stray, drawn>>,
             todo' \in Seq(Int), stage = "run" \/ todo' = todo
      PROVE  IInv'
  BY <1>3 DEF IInv, TypeInv, CursorAhead, CharactersStay, StrayOnlyBelowLastLine,
     cursor, Cell, PixelIndex
<1>4. CASE \E s \in Strings : PrintString(s)
  BY <1>3, <1>4, StringCodes DEF PrintString, Start
<1>5. CASE \E n \in Numbers : PrintNum(n) \/ PrintHex(n)
  <2>1. PICK n \in Numbers : PrintNum(n) \/ PrintHex(n)
    BY <1>5
  <2>2. NumberCodes(10, n) \in Seq(Int) /\ NumberCodes(16, n) \in Seq(Int)
    BY CodesOfNumber, TextAssumption
  <2> QED BY <1>3, <2>1, <2>2 DEF PrintNum, PrintHex, Start
<1>6. CASE PrintChar
  BY <1>6, GlyphStep, BlankStep DEF PrintChar
<1>7. CASE UNCHANGED vars
  BY <1>3, <1>7 DEF vars, cursor, IInv, TypeInv
<1> QED BY <1>1, <1>2, <1>4, <1>5, <1>6, <1>7 DEF Next

LEMMA Invariant == Spec => []IInv
BY InitIInv, NextIInv, PTL DEF Spec

\* The cursor stays on the columns of the screen, and every char of every string
\* and number is drawn as a glyph of the font or as what lies behind it.
THEOREM TypeCorrect == Spec => []TypeOK
<1>1. IInv => TypeOK
  <2> SUFFICES ASSUME TypeInv PROVE TypeOK
    BY DEF IInv
  <2>1. x \in 0 .. (IF stage = "run" THEN max_horizontal - 1 ELSE 0)
    BY DEF TypeInv
  <2>2. \A n \in DOMAIN drawn : drawn[n].glyph \in 0 .. 61 \cup {Unknown}
    BY DrawnTypes DEF Shown
  <2> QED BY <2>1, <2>2 DEF TypeInv, TypeOK
<1> QED BY <1>1, Invariant, PTL

\* A character once drawn stays: the cursor only moves on, and no two cells
\* share a pixel, whatever the resolution and the length of a scanline are.
THEOREM StayCorrect == Spec => []CharactersStay
<1>1. IInv => CharactersStay
  BY DEF IInv
<1> QED BY <1>1, Invariant, PTL

\* Nothing is written outside the frame buffer before the text has run past the
\* last line of the screen.
THEOREM StrayCorrect == Spec => []StrayOnlyBelowLastLine
<1>1. IInv => StrayOnlyBelowLastLine
  BY DEF IInv
<1> QED BY <1>1, Invariant, PTL

-----------------------------------------------------------------------------
(* What a call has printed so far *)

\* The codes that the call in progress, or the last one, was to print.
Codes ==
  IF call.kind = "string" THEN SubSeq(call.arg, 1, strlen(call.arg))
  ELSE NumberCodes(IF call.kind = "10" THEN 10 ELSE 16, call.arg)

\* How many of them it has printed.
Position == Len(Codes) - Len(todo)

CallType ==
  /\ call.kind \in {"none", "string", "10", "16"}
  /\ call.kind = "none" => todo = <<>>
  /\ call.kind = "string" => call.arg \in Strings
  /\ call.kind \in {"10", "16"} => call.arg \in Numbers

\* The call has drawn a glyph for each visible code up to its position, and has
\* the others still to print.
CallInv ==
  /\ CallType
  /\ call.kind # "none" =>
       /\ call.from \in Nat /\ Position \in Nat
       /\ \A k \in 1 .. Len(todo) : todo[k] = Codes[Position + k]
       /\ Len(drawn) = call.from + Rank(Codes, Position)
       /\ \A n \in Visible(Codes, Position) :
            drawn[call.from + Rank(Codes, n)].glyph \in Glyphs(Codes[n])

\* Characters are drawn from left to right and downwards.
DrawnInOrder ==
  \A n \in 2 .. Len(drawn) :
    \/ drawn[n].y > drawn[n - 1].y
    \/ drawn[n].y = drawn[n - 1].y /\ drawn[n].x > drawn[n - 1].x

LEMMA CodesType ==
  ASSUME CallType, call.kind # "none"
  PROVE  Codes \in Seq(Int)
<1>1. CASE call.kind = "string"
  BY <1>1, StringCodes DEF CallType, Codes
<1>2. CASE call.kind \in {"10", "16"}
  <2> DEFINE base == IF call.kind = "10" THEN 10 ELSE 16
  <2>1. base \in {10, 16} /\ call.arg \in Nat
    BY <1>2, TextAssumption DEF CallType
  <2>2. Codes = NumberCodes(base, call.arg)
    BY <1>2 DEF Codes
  <2> HIDE DEF base
  <2> QED BY <2>1, <2>2, CodesOfNumber
<1> QED BY <1>1, <1>2 DEF CallType

\* While nothing is printed, nothing changes.
LEMMA CallSteady ==
  ASSUME CallInv, UNCHANGED <<drawn, todo, call>>
  PROVE  CallInv'
<1>1. Codes' = Codes /\ Position' = Position
  BY DEF Codes, Position
<1> QED BY <1>1 DEF CallInv, CallType

\* A call starts with all its codes to print.
LEMMA CallStarts ==
  ASSUME TypeInv, NEW kind, NEW a, NEW cs, Start(kind, a, cs), CallType', Codes' = cs,
         cs \in Seq(Int)
  PROVE  CallInv'
<1>1. /\ todo' = cs /\ drawn' = drawn /\ call'.from = Len(drawn)
      /\ Len(drawn) \in Nat /\ Len(cs) \in Nat
  BY DrawnTypes DEF Start
<1>2. Position' = 0
  BY <1>1 DEF Position
<1>3. Rank(cs, 0) = 0 /\ Visible(cs, 0) = {}
  BY RankZero
<1>4. Codes' = cs /\ Rank(Codes, Position)' = 0 /\ Visible(Codes, Position)' = {}
  BY <1>2, <1>3 DEF Rank, Visible
<1>5. \A k \in 1 .. Len(todo') : todo'[k] = Codes'[Position' + k]
  BY <1>1, <1>2
<1> QED BY <1>1, <1>2, <1>4, <1>5 DEF CallInv

\* PrintChar goes on to the next code.
LEMMA CallAdvances ==
  ASSUME TypeInv, CallInv, todo # <<>>, todo' = Tail(todo), call' = call
  PROVE  /\ CallType' /\ call.kind # "none" /\ Codes' = Codes
         /\ Position \in Nat /\ Position' = Position + 1
         /\ Head(todo) = Codes[Position + 1]
         /\ \A k \in 1 .. Len(todo') : todo'[k] = Codes[Position' + k]
<1>1. CallType /\ call.kind # "none" /\ CallType' /\ Codes' = Codes
  BY DEF CallInv, CallType, Codes
<1>2. Codes \in Seq(Int) /\ todo \in Seq(Int) /\ Position \in Nat
  BY <1>1, CodesType DEF TypeInv, CallInv
<1>3. \A k \in 1 .. Len(todo) : todo[k] = Codes[Position + k]
  BY <1>1 DEF CallInv
<1>4. /\ Len(todo) \in Nat \ {0} /\ Len(Codes) \in Nat /\ Len(todo') = Len(todo) - 1
      /\ Head(todo) = todo[1] /\ \A k \in 1 .. Len(todo') : todo'[k] = todo[k + 1]
  BY <1>2
<1>5. Position' = Position + 1
  BY <1>1, <1>2, <1>4 DEF Position
<1>6. Head(todo) = Codes[Position + 1]
  BY <1>3, <1>4
<1>7. ASSUME NEW k \in 1 .. Len(todo') PROVE todo'[k] = Codes[Position' + k]
  <2>1. k + 1 \in 1 .. Len(todo) /\ Position + (k + 1) = Position' + k
    BY <1>2, <1>4, <1>5
  <2> QED BY <1>3, <1>4, <2>1
<1> QED BY <1>1, <1>2, <1>5, <1>6, <1>7

LEMMA CharStep ==
  ASSUME TypeInv, CallInv, PrintChar
  PROVE  CallInv'
<1> DEFINE p == Position
           from == call.from
<1>1. todo # <<>> /\ todo' = Tail(todo) /\ call' = call
  BY DEF PrintChar, PrintSpace, PrintNewline, PrintGlyph
<1>2. /\ CallType' /\ call.kind # "none" /\ Codes' = Codes
      /\ p \in Nat /\ Position' = p + 1
      /\ Head(todo) = Codes[p + 1]
      /\ \A k \in 1 .. Len(todo') : todo'[k] = Codes[Position' + k]
  BY <1>1, CallAdvances
<1>3. /\ from \in Nat /\ Len(drawn) = from + Rank(Codes, p)
      /\ \A n \in Visible(Codes, p) :
           drawn[from + Rank(Codes, n)].glyph \in Glyphs(Codes[n])
  BY <1>2 DEF CallInv
<1> HIDE DEF p, from
<1>4. /\ Rank(Codes, Position)' = Rank(Codes, p + 1)
      /\ Visible(Codes, Position)' = Visible(Codes, p + 1)
      /\ call'.from = from /\ call'.kind # "none"
  BY <1>1, <1>2 DEF Rank, Visible, from
<1>5. SUFFICES /\ Len(drawn') = from + Rank(Codes, p + 1)
               /\ \A n \in Visible(Codes, p + 1) :
                    drawn'[from + Rank(Codes, n)].glyph \in Glyphs(Codes[n])
  <2>1. ASSUME NEW n PROVE /\ drawn'[from + Rank(Codes, n)].glyph
                                = drawn'[call'.from + Rank(Codes', n)].glyph
                           /\ Glyphs(Codes[n]) = Glyphs(Codes'[n])
    BY <1>2, <1>4
  <2>2. p + 1 \in Nat
    BY <1>2
  <2> QED BY <1>2, <1>3, <1>4, <2>1, <2>2 DEF CallInv
<1>6. CASE PrintSpace \/ PrintNewline
  <2>1. drawn' = drawn /\ Head(todo) \in {10, 32}
    BY <1>6 DEF PrintSpace, PrintNewline
  <2>2. Rank(Codes, p + 1) = Rank(Codes, p) /\ Visible(Codes, p + 1) = Visible(Codes, p)
    BY <1>2, <2>1, RankNext
  <2> QED BY <1>3, <2>1, <2>2
<1>7. CASE PrintGlyph
  <2>1. PICK g \in Glyphs(Head(todo)) :
          drawn' = Append(drawn, [x |-> x, y |-> y, glyph |-> g])
    BY <1>7 DEF PrintGlyph
  <2> DEFINE d == [x |-> x, y |-> y, glyph |-> g]
             N == Len(drawn)
  <2>2. /\ N \in Nat /\ Len(drawn') = N + 1 /\ drawn'[N + 1] = d
        /\ \A n \in 1 .. N : drawn'[n] = drawn[n]
    <3>1. drawn \in Seq(Drawing) /\ drawn' = Append(drawn, d)
      BY <2>1 DEF TypeInv
    <3> HIDE DEF d
    <3> QED BY <3>1
  <2>3. d.glyph = g
    OBVIOUS
  <2> HIDE DEF d, N
  <2>4. Codes[p + 1] \notin {10, 32}
    BY <1>2, <1>7 DEF PrintGlyph
  <2>5. /\ Rank(Codes, p + 1) = Rank(Codes, p) + 1
        /\ Visible(Codes, p + 1) = Visible(Codes, p) \cup {p + 1}
        /\ Rank(Codes, p) \in Nat
    BY <1>2, <2>4, RankNext, RankType
  <2>6. N = from + Rank(Codes, p) /\ from + Rank(Codes, p + 1) = N + 1
    BY <1>3, <2>2, <2>5 DEF N
  <2>7. ASSUME NEW n \in Visible(Codes, p + 1)
        PROVE  drawn'[from + Rank(Codes, n)].glyph \in Glyphs(Codes[n])
    <3>1. CASE n = p + 1
      BY <1>2, <2>1, <2>2, <2>3, <2>6, <3>1
    <3>2. CASE n \in Visible(Codes, p)
      <4>1. Rank(Codes, n) \in 1 .. Rank(Codes, p)
        BY <1>2, <3>2, RankWithin
      <4>2. from + Rank(Codes, n) \in 1 .. N
        BY <1>3, <2>2, <2>5, <2>6, <4>1
      <4> QED BY <1>3, <2>2, <3>2, <4>2
    <3> QED BY <2>5, <3>1, <3>2
  <2> QED BY <2>2, <2>6, <2>7
<1> QED BY <1>6, <1>7 DEF PrintChar

\* The cursor, where the next character is drawn, is ahead of the last one.
LEMMA OrderStep ==
  ASSUME IInv, DrawnInOrder, PrintGlyph
  PROVE  DrawnInOrder'
<1>1. TypeInv /\ CursorAhead
  BY DEF IInv
<1>2. PICK g : drawn' = Append(drawn, [x |-> x, y |-> y, glyph |-> g])
  BY DEF PrintGlyph
<1> DEFINE d == [x |-> x, y |-> y, glyph |-> g]
           N == Len(drawn)
<1>3. /\ N \in Nat /\ Len(drawn') = N + 1 /\ drawn'[N + 1] = d
      /\ \A n \in 1 .. N : drawn'[n] = drawn[n]
  <2>1. drawn \in Seq(Drawing) /\ drawn' = Append(drawn, d)
    BY <1>1, <1>2 DEF TypeInv
  <2> HIDE DEF d
  <2> QED BY <2>1
<1>4. d.x = x /\ d.y = y
  OBVIOUS
<1>5. \A n \in 1 .. N : /\ drawn[n].x \in Nat /\ drawn[n].y \in Nat
                        /\ drawn[n].y < y \/ (drawn[n].y = y /\ drawn[n].x < x)
  BY <1>1, DrawnTypes DEF CursorAhead
<1>6. x \in Nat /\ y \in Nat
  BY <1>1 DEF TypeInv
<1> HIDE DEF d
<1> SUFFICES ASSUME NEW n \in 2 .. (N + 1)
             PROVE  \/ drawn'[n].y > drawn'[n - 1].y
                    \/ drawn'[n].y = drawn'[n - 1].y /\ drawn'[n].x > drawn'[n - 1].x
  BY <1>3 DEF DrawnInOrder
<1>7. n - 1 \in 1 .. N /\ drawn'[n - 1] = drawn[n - 1]
  BY <1>3
<1>8. CASE n = N + 1
  <2>1. drawn'[n].x = x /\ drawn'[n].y = y
    BY <1>3, <1>4, <1>8
  <2> QED BY <1>5, <1>6, <1>7, <2>1
<1>9. CASE n # N + 1
  <2>1. n \in 2 .. N /\ n \in 1 .. N
    BY <1>3, <1>9
  <2> QED BY <1>3, <1>7, <2>1 DEF DrawnInOrder
<1> QED BY <1>8, <1>9

\* The invariant together with what the call has printed.
PrintInv == IInv /\ CallInv /\ DrawnInOrder

LEMMA InitPrintInv == Init => PrintInv
<1> SUFFICES ASSUME Init PROVE PrintInv
  OBVIOUS
<1>1. IInv
  BY InitIInv
<1>2. CallInv
  BY DEF Init, CallInv, CallType
<1>3. Len(drawn) = 0
  BY DEF Init
<1>4. DrawnInOrder
  BY <1>3 DEF DrawnInOrder
<1> QED BY <1>1, <1>2, <1>4 DEF PrintInv

LEMMA NextPrintInv == PrintInv /\ [Next]_vars => PrintInv'
<1> SUFFICES ASSUME PrintInv, [Next]_vars PROVE PrintInv'
  OBVIOUS
<1>1. IInv /\ TypeInv /\ CallInv /\ DrawnInOrder
  BY DEF PrintInv, IInv
<1>2. IInv'
  BY <1>1, NextIInv
<1>3. CallInv'
  <2>1. CASE InitVga \/ InitTerminal \/ UNCHANGED vars
    <3>1. UNCHANGED <<drawn, todo, call>>
      BY <2>1 DEF InitVga, InitTerminal, vars
    <3> QED BY <1>1, <3>1, CallSteady
  <2>2. CASE \E s \in Strings : PrintString(s)
    <3>1. PICK s \in Strings : PrintString(s)
      BY <2>2
    <3> DEFINE cs == SubSeq(s, 1, strlen(s))
    <3>2. Start("string", s, cs) /\ cs \in Seq(Int)
      BY <3>1, StringCodes DEF PrintString
    <3>3. call'.kind = "string" /\ call'.arg = s
      BY <3>2 DEF Start
    <3>4. CallType' /\ Codes' = cs
      BY <3>3 DEF CallType, Codes
    <3> HIDE DEF cs
    <3> QED BY <1>1, <3>2, <3>4, CallStarts
  <2>3. CASE \E n \in Numbers : PrintNum(n) \/ PrintHex(n)
    <3>1. PICK n \in Numbers : PrintNum(n) \/ PrintHex(n)
      BY <2>3
    <3>2. n \in Nat
      BY TextAssumption
    <3>3. CASE PrintNum(n)
      <4>1. Start("10", n, NumberCodes(10, n)) /\ NumberCodes(10, n) \in Seq(Int)
        BY <3>2, <3>3, CodesOfNumber DEF PrintNum
      <4>2. call'.kind = "10" /\ call'.arg = n
        BY <4>1 DEF Start
      <4>3. CallType' /\ Codes' = NumberCodes(10, n)
        BY <4>2 DEF CallType, Codes
      <4> QED BY <1>1, <4>1, <4>3, CallStarts
    <3>4. CASE PrintHex(n)
      <4>1. Start("16", n, NumberCodes(16, n)) /\ NumberCodes(16, n) \in Seq(Int)
        BY <3>2, <3>4, CodesOfNumber DEF PrintHex
      <4>2. call'.kind = "16" /\ call'.arg = n
        BY <4>1 DEF Start
      <4>3. CallType' /\ Codes' = NumberCodes(16, n)
        BY <4>2 DEF CallType, Codes
      <4> QED BY <1>1, <4>1, <4>3, CallStarts
    <3> QED BY <3>1, <3>3, <3>4
  <2>4. CASE PrintChar
    BY <1>1, <2>4, CharStep
  <2> QED BY <2>1, <2>2, <2>3, <2>4 DEF Next
<1>4. DrawnInOrder'
  <2>1. CASE PrintGlyph
    BY <1>1, <2>1, OrderStep
  <2>2. CASE drawn' = drawn
    BY <1>1, <2>2 DEF DrawnInOrder
  <2>3. PrintGlyph \/ drawn' = drawn
    BY DEF Next, vars, InitVga, InitTerminal, PrintString, PrintNum, PrintHex, Start,
       PrintChar, PrintSpace, PrintNewline
  <2> QED BY <2>1, <2>2, <2>3
<1> QED BY <1>2, <1>3, <1>4 DEF PrintInv

LEMMA PrintInvariant == Spec => []PrintInv
BY InitPrintInv, NextPrintInv, PTL DEF Spec

\* What the finished call has drawn.
LEMMA PrintedIs ==
  ASSUME PrintInv, call.kind # "none", todo = <<>>
  PROVE  /\ Codes \in Seq(Int)
         /\ Printed \in Seq(Drawing) /\ Len(Printed) = Rank(Codes, Len(Codes))
         /\ \A n \in 1 .. Len(Printed) : Printed[n] = drawn[call.from + n]
         /\ call.from \in Nat /\ Len(drawn) = call.from + Len(Printed)
         /\ \A n \in Visible(Codes, Len(Codes)) :
              Printed[Rank(Codes, n)].glyph \in Glyphs(Codes[n])
<1> DEFINE from == call.from
           R == Rank(Codes, Len(Codes))
<1>1. Codes \in Seq(Int) /\ Len(Codes) \in Nat /\ drawn \in Seq(Drawing)
  BY CodesType DEF PrintInv, CallInv, IInv, TypeInv
<1>2. Position = Len(Codes)
  BY <1>1 DEF Position
<1>3. /\ from \in Nat /\ Len(drawn) = from + R
      /\ \A n \in Visible(Codes, Len(Codes)) :
           drawn[from + Rank(Codes, n)].glyph \in Glyphs(Codes[n])
  BY <1>2 DEF PrintInv, CallInv
<1>4. R \in Nat
  BY <1>1, RankType
<1>5. Printed = SubSeq(drawn, from + 1, Len(drawn))
  BY DEF Printed
<1> HIDE DEF from, R
<1>6. /\ Printed \in Seq(Drawing) /\ Len(Printed) = R
      /\ \A n \in 1 .. R : Printed[n] = drawn[from + n]
  BY <1>1, <1>3, <1>4, <1>5
<1>7. ASSUME NEW n \in Visible(Codes, Len(Codes))
      PROVE  Printed[Rank(Codes, n)].glyph \in Glyphs(Codes[n])
  <2>1. Rank(Codes, n) \in 1 .. R
    BY <1>1, RankWithin DEF R
  <2> QED BY <1>3, <1>6, <2>1
<1> QED BY <1>1, <1>3, <1>4, <1>6, <1>7 DEF from, R

\* The chars of the font have one glyph each.
LEMMA FontGlyph ==
  ASSUME NEW g \in 0 .. 61
  PROVE  Glyphs(Font[g]) = {g}
<1>1. Font[g] = IF g < 10 THEN 48 + g ELSE IF g < 36 THEN 55 + g ELSE 61 + g
  BY DEF Font
<1>2. CASE g < 10
  BY <1>1, <1>2 DEF Glyphs, IsCapital
<1>3. CASE ~(g < 10) /\ g < 36
  BY <1>1, <1>3 DEF Glyphs, IsCapital
<1>4. CASE ~(g < 36)
  BY <1>1, <1>4 DEF Glyphs, IsCapital
<1> QED BY <1>2, <1>3, <1>4

\* Every string that PrintString has printed can be read from the screen, char by
\* char and in its order, for every string and wherever it was started.
THEOREM TextCorrect == Spec => []TextReadsBack
<1>1. PrintInv => TextReadsBack
  <2> SUFFICES ASSUME PrintInv, todo = <<>>, call.kind = "string" PROVE TextReadsBack
    BY DEF TextReadsBack
  <2> DEFINE s == call.arg
             length == strlen(s)
  <2>1. s \in Seq(Int) /\ length \in 0 .. Len(s) /\ Codes = SubSeq(s, 1, length)
    BY StringCodes DEF PrintInv, CallInv, CallType, Codes
  <2> HIDE DEF s, length
  <2>2. Len(Codes) = length /\ length \in Nat /\ \A n \in 1 .. length : Codes[n] = s[n]
    BY <2>1
  <2>3. \A n \in 0 .. length : Visible(Codes, n) = Visible(s, n) /\ Rank(Codes, n) = Rank(s, n)
    <3>1. \A n \in 0 .. length : Visible(Codes, n) = Visible(s, n)
      BY <2>2 DEF Visible
    <3> QED BY <3>1 DEF Rank
  <2>4. /\ Printed \in Seq(Drawing) /\ Len(Printed) = Rank(Codes, Len(Codes))
        /\ \A n \in 1 .. Len(Printed) : Printed[n] = drawn[call.from + n]
        /\ call.from \in Nat /\ Len(drawn) = call.from + Len(Printed)
        /\ \A n \in Visible(Codes, Len(Codes)) :
             Printed[Rank(Codes, n)].glyph \in Glyphs(Codes[n])
    BY PrintedIs
  <2>5. Len(Printed) = Rank(s, length)
    BY <2>2, <2>3, <2>4
  <2>6. ASSUME NEW n \in Visible(s, length), NEW g \in 0 .. 61, Font[g] = s[n]
        PROVE  Printed[Rank(s, n)].glyph = g
    <3>1. n \in 1 .. length /\ n \in 0 .. length /\ length \in 0 .. length
      BY <2>2 DEF Visible
    <3>2. n \in Visible(Codes, Len(Codes)) /\ Codes[n] = s[n] /\ Rank(Codes, n) = Rank(s, n)
      BY <2>2, <2>3, <3>1
    <3>3. Glyphs(s[n]) = {g}
      BY <2>6, FontGlyph
    <3> QED BY <2>4, <3>2, <3>3
  <2>7. ASSUME NEW n \in 2 .. Len(Printed)
        PROVE  \/ Printed[n].y > Printed[n - 1].y
               \/ Printed[n].y = Printed[n - 1].y /\ Printed[n].x > Printed[n - 1].x
    <3>1. Len(Printed) \in Nat
      BY <2>4
    <3>2. n \in 1 .. Len(Printed) /\ n - 1 \in 1 .. Len(Printed)
      BY <3>1
    <3>3. call.from + n \in 2 .. Len(drawn) /\ call.from + (n - 1) = (call.from + n) - 1
      <4> DEFINE f == call.from
                 P == Len(Printed)
                 D == Len(drawn)
      <4>1. f \in Nat /\ P \in Nat /\ D = f + P /\ n \in 2 .. P
        BY <2>4, <3>1
      <4> HIDE DEF f, P, D
      <4>2. f + n \in 2 .. D /\ f + (n - 1) = (f + n) - 1
        BY <4>1
      <4> QED BY <4>2 DEF f, D
    <3>4. /\ Printed[n] = drawn[call.from + n]
          /\ Printed[n - 1] = drawn[(call.from + n) - 1]
      BY <2>4, <3>2, <3>3
    <3> QED BY <3>3, <3>4 DEF PrintInv, DrawnInOrder
  <2> QED BY <2>5, <2>6, <2>7 DEF TextReadsBack, s, length
<1> QED BY <1>1, PrintInvariant, PTL

\* Every number that PrintNum or PrintHex has printed reads as that number, in
\* its base and without leading zeros.
THEOREM NumberCorrect == Spec => []NumberReadsBack
<1>1. PrintInv => NumberReadsBack
  <2> SUFFICES ASSUME PrintInv, todo = <<>>, call.kind \in {"10", "16"}
               PROVE  NumberReadsBack
    BY DEF NumberReadsBack
  <2> DEFINE base == IF call.kind = "10" THEN 10 ELSE 16
             glyphs == [n \in DOMAIN Printed |-> Printed[n].glyph]
  <2>1. base \in {10, 16} /\ call.arg \in Nat /\ Codes = NumberCodes(base, call.arg)
    BY TextAssumption DEF PrintInv, CallInv, CallType, Codes
  <2>2. PICK d : ReadsAs(base, call.arg, Codes, d)
    <3> HIDE DEF base
    <3> QED BY <2>1, CodesAreDigits
  <2> HIDE DEF base
  <2> DEFINE L == Len(d)
  <2>3. /\ d \in Seq(0 .. 15) /\ Len(Codes) = L /\ L \in Nat
        /\ \A k \in 1 .. L : d[k] \in 0 .. 15 /\ Codes[k] = DigitCode(d[k])
    BY <2>2 DEF ReadsAs
  <2>4. \A k \in 1 .. L : Glyphs(Codes[k]) = {d[k]} /\ Codes[k] \notin {10, 32}
    BY <2>3, DigitGlyph
  <2> HIDE DEF L
  <2>5. \A k \in 0 .. L : Rank(Codes, k) = k /\ Visible(Codes, k) = 1 .. k
    <3> SUFFICES ASSUME NEW k \in 0 .. L
                 PROVE  Rank(Codes, k) = k /\ Visible(Codes, k) = 1 .. k
      OBVIOUS
    <3>1. k \in Nat /\ \A m \in 1 .. k : Codes[m] \notin {10, 32}
      BY <2>3, <2>4
    <3> QED BY <3>1, RankOfAll
  <2>6. /\ Printed \in Seq(Drawing) /\ Len(Printed) = Rank(Codes, Len(Codes))
        /\ \A n \in Visible(Codes, Len(Codes)) :
             Printed[Rank(Codes, n)].glyph \in Glyphs(Codes[n])
    BY PrintedIs
  <2>7. Len(Printed) = L /\ DOMAIN Printed = 1 .. L
    BY <2>3, <2>5, <2>6
  <2>8. \A k \in 1 .. L : Printed[k].glyph = d[k]
    <3> SUFFICES ASSUME NEW k \in 1 .. L PROVE Printed[k].glyph = d[k]
      OBVIOUS
    <3>1. k \in 0 .. L /\ L \in 0 .. L
      BY <2>3
    <3>2. Rank(Codes, k) = k /\ k \in Visible(Codes, Len(Codes))
      BY <2>3, <2>5, <3>1
    <3> QED BY <2>4, <2>6, <3>2
  <2>9. glyphs = d
    <3>1. d = [k \in 1 .. L |-> d[k]]
      BY <2>3 DEF L
    <3> QED BY <2>7, <2>8, <3>1
  <2>10. Value(base, d) = call.arg /\ (Len(d) > 1 => d[1] # 0)
    BY <2>2 DEF ReadsAs
  <2>11. Value(base, glyphs) = call.arg /\ (Len(glyphs) > 1 => glyphs[1] # 0)
    BY <2>9, <2>10
  <2> QED BY <2>11 DEF NumberReadsBack, base
<1> QED BY <1>1, PrintInvariant, PTL

-----------------------------------------------------------------------------
(* The buffers of PrintNum and PrintHex *)

\* The loops of PrintNum and PrintHex do not look at the size of numstring.  A
\* number below w[K], the K-th power of the base, has at most K digits: numstring's
\* ten bytes hold every uint32_t (below 10^10) and PrintHex's sixteen every
\* uint64_t (below 16^16).
THEOREM DigitsFit ==
  ASSUME NEW base \in {10, 16}, NEW number \in Nat, NEW K \in Nat,
         NEW w \in [0 .. K -> Nat], w[0] = 1,
         \A j \in 0 .. (K - 1) : w[j + 1] = w[j] * base,
         number < w[K]
  PROVE  Len(numstring(base, number)) <= K
<1> DEFINE s == numstring(base, number)
<1>1. s \in Seq(Int) /\ \E m : Divides(base, s, number, m)
  BY DigitCodes
<1> HIDE DEF s
<1>2. PICK m : Divides(base, s, number, m)
  BY <1>1
<1>3. SUFFICES ASSUME ~(Len(s) <= K) PROVE FALSE
  BY DEF s
<1>4. Len(s) \in Nat /\ Len(s) > K
  BY <1>1, <1>3
<1>5. /\ m[0] = number /\ m[K] > 0
      /\ \A j \in 0 .. K : m[j] \in Nat /\ m[j + 1] = m[j] \div base
  <2>1. \A j \in 0 .. K : j \in 0 .. Len(s) /\ j \in 0 .. (Len(s) - 1)
    BY <1>4
  <2>2. /\ m \in [0 .. Len(s) -> Nat] /\ m[0] = number
        /\ \A j \in 0 .. (Len(s) - 1) : m[j] > 0 /\ m[j + 1] = m[j] \div base
    BY <1>2 DEF Divides
  <2>3. K \in 0 .. K
    OBVIOUS
  <2> QED BY <2>1, <2>2, <2>3
<1>6. \A j \in 0 .. K : m[j] < w[K - j]
  <2> DEFINE T == {j \in 0 .. K : ~(m[j] < w[K - j])}
  <2> SUFFICES ASSUME T # {} PROVE FALSE
    OBVIOUS
  <2>1. PICK j \in T : \A i \in T : j <= i
    <3>1. T \in SUBSET Nat
      OBVIOUS
    <3> HIDE DEF T
    <3> QED BY <3>1, LeastNatural
  <2>2. j \in 0 .. K /\ ~(m[j] < w[K - j])
    BY <2>1
  <2>3. j # 0
    BY <1>5, <2>2
  <2>4. /\ j - 1 \in 0 .. K /\ ~(j <= j - 1) /\ (j - 1) + 1 = j
        /\ K - j \in 0 .. (K - 1) /\ (K - j) + 1 = K - (j - 1) /\ K - j \in 0 .. K
    BY <2>2, <2>3
  <2>5. m[j - 1] < w[K - (j - 1)]
    BY <2>1, <2>4
  <2> DEFINE a == m[j - 1]
             b == w[K - j]
  <2>6. a \in Nat /\ b \in Nat /\ m[j] = a \div base /\ a < b * base
    BY <1>5, <2>4, <2>5
  <2> HIDE DEF a
  <2>7. m[j] < w[K - j]
    <3>1. ~(a \div base < b) => a >= b * base
      <4> HIDE DEF b
      <4> QED BY <2>6
    <3> QED BY <2>6, <3>1
  <2> QED BY <2>2, <2>7
<1>7. m[K] < w[0] /\ m[K] \in Nat
  BY <1>5, <1>6
<1> QED BY <1>5, <1>7

=============================================================================
