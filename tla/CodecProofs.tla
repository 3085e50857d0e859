----------------------------- MODULE CodecProofs -----------------------------
(***************************************************************************)
(* Proofs about Crc, Subpacket and Header, for every sequence of bytes.        *)
(***************************************************************************)
EXTENDS Header, TLAPS, SequenceTheorems, WellFoundedInduction

(* Induction and recursion.                                                *)

\* Induction on the naturals, for a set: what has the smallest number that is
\* missing from it?
LEMMA SetInduction ==
  ASSUME NEW T, 0 \in T, \A n \in Nat : n \in T => n + 1 \in T
  PROVE  Nat \subseteq T
  <1> DEFINE Rest == Nat \ T
  <1>1. SUFFICES ASSUME Rest # {} PROVE FALSE
    OBVIOUS
  <1>2. PICK x \in Rest : \A y \in Rest : ~(<<y, x>> \in OpToRel(<, Nat))
    <2> HIDE DEF Rest
    <2>1. Rest \subseteq Nat
      BY DEF Rest
    <2> QED
      BY <1>1, <2>1, NatLessThanWellFounded, WFMin
  <1>3. \A y \in Rest : ~(y < x)
    BY <1>2 DEF OpToRel
  <1>4. x \in Nat /\ x # 0 /\ x - 1 \in Nat /\ x - 1 \in T
    BY <1>3
  <1> QED
    BY <1>4

\* The same up to a bound.
LEMMA BoundedInduction ==
  ASSUME NEW n \in Nat, NEW T, 0 \in T, \A i \in 0 .. n - 1 : i \in T => i + 1 \in T
  PROVE  \A i \in 0 .. n : i \in T
  <1> DEFINE U == {i \in Nat : i <= n => i \in T}
  <1>1. 0 \in U
    OBVIOUS
  <1>2. \A i \in Nat : i \in U => i + 1 \in U
    OBVIOUS
  <1> HIDE DEF U
  <1>3. Nat \subseteq U
    BY <1>1, <1>2, SetInduction
  <1> QED
    BY <1>3 DEF U

Moves(S, n) == [1 .. n -> [S -> S]]
Leads(S, n, start, step, g) ==
  g \in [0 .. n -> S] /\ g[0] = start /\ \A i \in 1 .. n : g[i] = step[i][g[i - 1]]

\* A sequence of steps, each a function on S, leads somewhere.
LEMMA Recursion ==
  ASSUME NEW S, NEW n \in Nat, NEW start \in S, NEW step \in Moves(S, n)
  PROVE  \E g : Leads(S, n, start, step, g)
  <1> USE DEF Moves
  <1> DEFINE Goes(g, m) == g[0] = start /\ \A i \in 1 .. m : g[i] = step[i][g[i - 1]]
             T == {m \in 0 .. n : \E g \in [0 .. m -> S] : Goes(g, m)}
  <1>1. 0 \in T
    <2> DEFINE g == [i \in 0 .. 0 |-> start]
    <2>1. g \in [0 .. 0 -> S] /\ g[0] = start
      OBVIOUS
    <2>2. 1 .. 0 = {}
      OBVIOUS
    <2> HIDE DEF g
    <2> QED
      BY <2>1, <2>2
  <1>2. ASSUME NEW m \in 0 .. n - 1, m \in T PROVE m + 1 \in T
    <2>1. PICK g \in [0 .. m -> S] : Goes(g, m)
      BY <1>2
    <2> DEFINE last == step[m + 1][g[m]]
               h == [i \in 0 .. m + 1 |-> IF i = m + 1 THEN last ELSE g[i]]
    <2>2. last \in S
      OBVIOUS
    <2> HIDE DEF last
    <2>3. h \in [0 .. m + 1 -> S] /\ h[0] = start
      BY <2>1, <2>2
    <2>4. ASSUME NEW i \in 1 .. m + 1 PROVE h[i] = step[i][h[i - 1]]
      BY <2>1 DEF last
    <2> HIDE DEF h
    <2>5. Goes(h, m + 1)
      BY <2>3, <2>4
    <2>6. m + 1 \in 0 .. n /\ \E f \in [0 .. m + 1 -> S] : Goes(f, m + 1)
      BY <2>3, <2>5, SMTT(60)
    <2> HIDE DEF Goes
    <2> QED
      BY <2>6
  <1> HIDE DEF T
  <1>3. \A m \in 0 .. n - 1 : m \in T => m + 1 \in T
    BY <1>2
  <1>4. \A m \in 0 .. n : m \in T
    BY <1>1, <1>3, BoundedInduction
  <1> QED
    BY <1>4 DEF T, Leads

\* Two functions that start alike and go on alike are alike.
LEMMA SameChain ==
  ASSUME NEW n \in Nat, NEW f, NEW g, f[0] = g[0],
         \A i \in 0 .. n - 1 : f[i] = g[i] => f[i + 1] = g[i + 1]
  PROVE  \A i \in 0 .. n : f[i] = g[i]
  <1> DEFINE T == {i \in 0 .. n : f[i] = g[i]}
  <1>1. 0 \in T
    OBVIOUS
  <1>2. \A i \in 0 .. n - 1 : i \in T => i + 1 \in T
    OBVIOUS
  <1> HIDE DEF T
  <1>3. \A i \in 0 .. n : i \in T
    BY <1>1, <1>2, BoundedInduction
  <1> QED
    BY <1>3 DEF T

----------------------------------------------------------------------------
(* Exclusive or.                                                           *)

Weights == {1, 2, 4, 8, 16, 32, 64, 128}

LEMMA WeightIs ==
  /\ Weight[1] = 1 /\ Weight[2] = 2 /\ Weight[3] = 4 /\ Weight[4] = 8 /\ Weight[5] = 16
  /\ Weight[6] = 32 /\ Weight[7] = 64 /\ Weight[8] = 128
  /\ \A i \in 1 .. 8 : Weight[i] \in Weights
  <1>1. /\ Weight[1] = 1 /\ Weight[2] = 2 /\ Weight[3] = 4 /\ Weight[4] = 8 /\ Weight[5] = 16
        /\ Weight[6] = 32 /\ Weight[7] = 64 /\ Weight[8] = 128
    BY DEF Weight
  <1>2. \A i \in 1 .. 8 : i = 1 \/ i = 2 \/ i = 3 \/ i = 4 \/ i = 5 \/ i = 6 \/ i = 7 \/ i = 8
    OBVIOUS
  <1> QED
    BY <1>1, <1>2 DEF Weights

\* A byte with given bits.
LEMMA BitsOf ==
  ASSUME NEW b1 \in 0 .. 1, NEW b2 \in 0 .. 1, NEW b3 \in 0 .. 1, NEW b4 \in 0 .. 1,
         NEW b5 \in 0 .. 1, NEW b6 \in 0 .. 1, NEW b7 \in 0 .. 1, NEW b8 \in 0 .. 1
  PROVE  LET n == b1 + 2 * b2 + 4 * b3 + 8 * b4 + 16 * b5 + 32 * b6 + 64 * b7 + 128 * b8
         IN  /\ n \in Byte
             /\ Bit(n, 1) = b1 /\ Bit(n, 2) = b2 /\ Bit(n, 4) = b3 /\ Bit(n, 8) = b4
             /\ Bit(n, 16) = b5 /\ Bit(n, 32) = b6 /\ Bit(n, 64) = b7 /\ Bit(n, 128) = b8
  <1> DEFINE n == b1 + 2 * b2 + 4 * b3 + 8 * b4 + 16 * b5 + 32 * b6 + 64 * b7 + 128 * b8
  <1>1. n \in Byte
    BY DEF Byte
  <1>2. Bit(n, 1) = b1
    BY DEF Bit
  <1>3. Bit(n, 2) = b2
    BY DEF Bit
  <1>4. Bit(n, 4) = b3
    BY DEF Bit
  <1>5. Bit(n, 8) = b4
    BY DEF Bit
  <1>6. Bit(n, 16) = b5
    BY DEF Bit
  <1>7. Bit(n, 32) = b6
    BY DEF Bit
  <1>8. Bit(n, 64) = b7
    BY DEF Bit
  <1>9. Bit(n, 128) = b8
    BY DEF Bit
  <1> QED
    BY <1>1, <1>2, <1>3, <1>4, <1>5, <1>6, <1>7, <1>8, <1>9

\* A byte is the sum of its bits.
LEMMA SumOfBits ==
  ASSUME NEW n \in Byte
  PROVE  /\ \A w \in Weights : Bit(n, w) \in 0 .. 1
         /\ n = 1 * Bit(n, 1) + 2 * Bit(n, 2) + 4 * Bit(n, 4) + 8 * Bit(n, 8) + 16 * Bit(n, 16)
                + 32 * Bit(n, 32) + 64 * Bit(n, 64) + 128 * Bit(n, 128)
  <1>1. \A w \in Weights : Bit(n, w) \in 0 .. 1
    BY DEF Bit, Weights, Byte
  <1>2. n = 1 * Bit(n, 1) + 2 * Bit(n, 2) + 4 * Bit(n, 4) + 8 * Bit(n, 8) + 16 * Bit(n, 16)
                + 32 * Bit(n, 32) + 64 * Bit(n, 64) + 128 * Bit(n, 128)
    BY DEF Bit, Byte
  <1> QED
    BY <1>1, <1>2

LEMMA XorBits ==
  ASSUME NEW a \in Byte, NEW b \in Byte
  PROVE  /\ Xor(a, b) \in Byte
         /\ \A w \in Weights : Bit(Xor(a, b), w) = (Bit(a, w) + Bit(b, w)) % 2
  <1> DEFINE x(w) == (Bit(a, w) + Bit(b, w)) % 2
             n == 1 * x(1) + 2 * x(2) + 4 * x(4) + 8 * x(8) + 16 * x(16) + 32 * x(32)
                  + 64 * x(64) + 128 * x(128)
  <1>1. \A w \in Weights : x(w) \in 0 .. 1
    BY SumOfBits
  <1>2. Xor(a, b) = n
    <2> DEFINE t == [i \in 1 .. 8 |-> Weight[i] * ((Bit(a, Weight[i]) + Bit(b, Weight[i])) % 2)]
    <2>1. /\ t[1] = 1 * x(1) /\ t[2] = 2 * x(2) /\ t[3] = 4 * x(4) /\ t[4] = 8 * x(8)
          /\ t[5] = 16 * x(16) /\ t[6] = 32 * x(32) /\ t[7] = 64 * x(64)
          /\ t[8] = 128 * x(128)
      <3>1. \A i \in 1 .. 8 : t[i] = Weight[i] * x(Weight[i])
        OBVIOUS
      <3> HIDE DEF t, x
      <3> QED
        BY <3>1, WeightIs
    <2>2. Xor(a, b) = Total(t)
      BY DEF Xor, XorTable, Byte
    <2> HIDE DEF t, x
    <2> QED
      BY <2>1, <2>2 DEF Total
  <1> HIDE DEF x
  <1>3. /\ x(1) \in 0 .. 1 /\ x(2) \in 0 .. 1 /\ x(4) \in 0 .. 1 /\ x(8) \in 0 .. 1
        /\ x(16) \in 0 .. 1 /\ x(32) \in 0 .. 1 /\ x(64) \in 0 .. 1 /\ x(128) \in 0 .. 1
    BY <1>1 DEF Weights
  <1> DEFINE m == x(1) + 2 * x(2) + 4 * x(4) + 8 * x(8) + 16 * x(16) + 32 * x(32)
                  + 64 * x(64) + 128 * x(128)
  <1>4. n = m
    BY <1>3
  <1>5. /\ m \in Byte
        /\ Bit(m, 1) = x(1) /\ Bit(m, 2) = x(2) /\ Bit(m, 4) = x(4) /\ Bit(m, 8) = x(8)
        /\ Bit(m, 16) = x(16) /\ Bit(m, 32) = x(32) /\ Bit(m, 64) = x(64)
        /\ Bit(m, 128) = x(128)
    BY <1>3, BitsOf
  <1> HIDE DEF n, m
  <1>6. \A w \in Weights : Bit(m, w) = x(w)
    BY <1>5 DEF Weights
  <1> QED
    BY <1>2, <1>4, <1>5, <1>6 DEF x

\* Two bytes with the same bits are one.
LEMMA SameBits ==
  ASSUME NEW a \in Byte, NEW b \in Byte, \A w \in Weights : Bit(a, w) = Bit(b, w)
  PROVE  a = b
  <1> DEFINE p(w) == Bit(a, w)  q(w) == Bit(b, w)
  <1>1. /\ a = 1 * p(1) + 2 * p(2) + 4 * p(4) + 8 * p(8) + 16 * p(16) + 32 * p(32)
                 + 64 * p(64) + 128 * p(128)
        /\ b = 1 * q(1) + 2 * q(2) + 4 * q(4) + 8 * q(8) + 16 * q(16) + 32 * q(32)
                 + 64 * q(64) + 128 * q(128)
    BY SumOfBits
  <1>2. /\ p(1) = q(1) /\ p(2) = q(2) /\ p(4) = q(4) /\ p(8) = q(8) /\ p(16) = q(16)
        /\ p(32) = q(32) /\ p(64) = q(64) /\ p(128) = q(128)
    BY DEF Weights
  <1> HIDE DEF p, q
  <1> QED
    BY <1>1, <1>2

\* Bytes with exclusive or are a group in which each is its own inverse.
LEMMA XorGroup ==
  ASSUME NEW a \in Byte, NEW b \in Byte, NEW c \in Byte
  PROVE  /\ Xor(a, b) \in Byte /\ Xor(a, b) = Xor(b, a)
         /\ Xor(Xor(a, b), c) = Xor(a, Xor(b, c))
         /\ Xor(a, 0) = a /\ Xor(0, a) = a /\ Xor(a, a) = 0
  <1>1. 0 \in Byte /\ \A w \in Weights : Bit(0, w) = 0
    BY DEF Byte, Bit, Weights
  <1>2. \A w \in Weights : Bit(a, w) \in 0 .. 1 /\ Bit(b, w) \in 0 .. 1 /\ Bit(c, w) \in 0 .. 1
    BY SumOfBits
  <1>3. \A x, y \in Byte :
          /\ Xor(x, y) \in Byte
          /\ \A w \in Weights : Bit(Xor(x, y), w) = (Bit(x, w) + Bit(y, w)) % 2
    BY XorBits
  <1>4. Xor(a, b) = Xor(b, a)
    <2>1. \A w \in Weights : Bit(Xor(a, b), w) = Bit(Xor(b, a), w)
      BY <1>2, <1>3
    <2> QED
      BY <1>3, <2>1, SameBits
  <1>5. Xor(Xor(a, b), c) = Xor(a, Xor(b, c))
    <2> DEFINE l == Xor(Xor(a, b), c)  r == Xor(a, Xor(b, c))
    <2>1. ASSUME NEW w \in Weights PROVE Bit(l, w) = Bit(r, w)
      <3> DEFINE x == Bit(a, w)  y == Bit(b, w)  z == Bit(c, w)
      <3>1. Bit(l, w) = (((x + y) % 2) + z) % 2 /\ Bit(r, w) = (x + ((y + z) % 2)) % 2
        BY <1>3
      <3>2. x \in 0 .. 1 /\ y \in 0 .. 1 /\ z \in 0 .. 1
        BY <1>2
      <3> HIDE DEF x, y, z, l, r
      <3> QED
        BY <3>1, <3>2
    <2>2. l \in Byte /\ r \in Byte
      BY <1>3
    <2> HIDE DEF l, r
    <2>3. l = r
      BY <2>1, <2>2, SameBits
    <2> QED
      BY <2>3 DEF l, r
  <1>6. Xor(a, 0) = a /\ Xor(0, a) = a
    <2>1. \A w \in Weights : Bit(Xor(a, 0), w) = Bit(a, w) /\ Bit(Xor(0, a), w) = Bit(a, w)
      BY <1>1, <1>2, <1>3
    <2> QED
      BY <1>1, <1>3, <2>1, SameBits
  <1>7. Xor(a, a) = 0
    <2>1. \A w \in Weights : Bit(Xor(a, a), w) = Bit(0, w)
      BY <1>1, <1>2, <1>3
    <2> QED
      BY <1>1, <1>3, <2>1, SameBits
  <1> QED
    BY <1>3, <1>4, <1>5, <1>6, <1>7

----------------------------------------------------------------------------
(* CRC32 by eight tables.                                                  *)

Word == [1 .. 4 -> Byte]
ZeroWord == <<0, 0, 0, 0>>

LEMMA WordOf ==
  ASSUME NEW a \in Byte, NEW b \in Byte, NEW c \in Byte, NEW d \in Byte
  PROVE  LET w == <<a, b, c, d>>
         IN  w \in Word /\ w[1] = a /\ w[2] = b /\ w[3] = c /\ w[4] = d
  BY DEF Word

LEMMA SameWord ==
  ASSUME NEW w \in Word, NEW v \in Word, w[1] = v[1], w[2] = v[2], w[3] = v[3], w[4] = v[4]
  PROVE  w = v
  <1>1. \A i \in 1 .. 4 : w[i] = v[i]
    <2>1. \A i \in 1 .. 4 : i = 1 \/ i = 2 \/ i = 3 \/ i = 4
      OBVIOUS
    <2> QED
      BY <2>1
  <1> QED
    BY <1>1 DEF Word

LEMMA WordBytes ==
  ASSUME NEW w \in Word
  PROVE  w[1] \in Byte /\ w[2] \in Byte /\ w[3] \in Byte /\ w[4] \in Byte
  BY DEF Word

\* Words are such a group too.
LEMMA WordGroup ==
  ASSUME NEW w \in Word, NEW v \in Word, NEW u \in Word
  PROVE  /\ XorAll(w, v) \in Word
         /\ \A i \in 1 .. 4 : XorAll(w, v)[i] = Xor(w[i], v[i])
         /\ XorAll(w, v) = XorAll(v, w)
         /\ XorAll(XorAll(w, v), u) = XorAll(w, XorAll(v, u))
         /\ ZeroWord \in Word /\ XorAll(w, ZeroWord) = w /\ XorAll(ZeroWord, w) = w
  <1>1. \A x, y \in Word :
          XorAll(x, y) \in Word /\ \A i \in 1 .. 4 : XorAll(x, y)[i] = Xor(x[i], y[i])
    <2> TAKE x, y \in Word
    <2>1. XorAll(x, y) = [i \in 1 .. 4 |-> Xor(x[i], y[i])]
      BY DEF XorAll, Word
    <2>2. \A i \in 1 .. 4 : Xor(x[i], y[i]) \in Byte
      BY XorGroup DEF Word
    <2> QED
      BY <2>1, <2>2 DEF Word
  <1>2. \A x, y \in Word : (\A i \in 1 .. 4 : x[i] = y[i]) => x = y
    BY DEF Word
  <1>3. \A x \in Word : \A i \in 1 .. 4 : x[i] \in Byte
    BY DEF Word
  <1>4. ZeroWord \in Word /\ \A i \in 1 .. 4 : ZeroWord[i] = 0
    <2>1. 0 \in Byte
      BY DEF Byte
    <2>2. ZeroWord \in Word /\ ZeroWord[1] = 0 /\ ZeroWord[2] = 0 /\ ZeroWord[3] = 0
          /\ ZeroWord[4] = 0
      BY <2>1, WordOf DEF ZeroWord
    <2>3. \A i \in 1 .. 4 : i = 1 \/ i = 2 \/ i = 3 \/ i = 4
      OBVIOUS
    <2> QED
      BY <2>2, <2>3
  <1>5. XorAll(w, v) = XorAll(v, w)
    <2>1. \A i \in 1 .. 4 : Xor(w[i], v[i]) = Xor(v[i], w[i])
      BY <1>3, XorGroup
    <2> QED
      BY <1>1, <1>2, <2>1
  <1>6. XorAll(XorAll(w, v), u) = XorAll(w, XorAll(v, u))
    <2>1. \A i \in 1 .. 4 : Xor(Xor(w[i], v[i]), u[i]) = Xor(w[i], Xor(v[i], u[i]))
      BY <1>3, XorGroup
    <2>2. XorAll(w, v) \in Word /\ XorAll(v, u) \in Word
      BY <1>1
    <2>3. XorAll(XorAll(w, v), u) \in Word /\ XorAll(w, XorAll(v, u)) \in Word
      BY <1>1, <2>2
    <2>4. \A i \in 1 .. 4 : XorAll(XorAll(w, v), u)[i] = XorAll(w, XorAll(v, u))[i]
      BY <1>1, <2>1, <2>2
    <2> QED
      BY <1>2, <2>3, <2>4
  <1>7. XorAll(w, ZeroWord) = w /\ XorAll(ZeroWord, w) = w
    <2>1. \A i \in 1 .. 4 : Xor(w[i], 0) = w[i] /\ Xor(0, w[i]) = w[i]
      BY <1>3, XorGroup
    <2>2. XorAll(w, ZeroWord) \in Word /\ XorAll(ZeroWord, w) \in Word
      BY <1>1, <1>4
    <2>3. \A i \in 1 .. 4 : XorAll(w, ZeroWord)[i] = w[i] /\ XorAll(ZeroWord, w)[i] = w[i]
      BY <1>1, <1>4, <2>1
    <2> QED
      BY <1>2, <2>2, <2>3
  <1> QED
    BY <1>1, <1>4, <1>5, <1>6, <1>7

LEMMA WordSum ==
  ASSUME NEW w \in Word, NEW v \in Word
  PROVE  XorAll(w, v) \in Word /\ \A i \in 1 .. 4 : XorAll(w, v)[i] = Xor(w[i], v[i])
  BY WordGroup

LEMMA Interchange ==
  ASSUME NEW a \in Word, NEW b \in Word, NEW c \in Word, NEW d \in Word
  PROVE  XorAll(XorAll(a, b), XorAll(c, d)) = XorAll(XorAll(a, c), XorAll(b, d))
  <1> DEFINE sum(x, y) == XorAll(x, y)
  <1>1. \A x, y, z \in Word : /\ sum(x, y) \in Word /\ sum(x, y) = sum(y, x)
                             /\ sum(sum(x, y), z) = sum(x, sum(y, z))
    BY WordGroup
  <1> HIDE DEF sum
  <1>2. sum(sum(a, b), sum(c, d)) = sum(a, sum(b, sum(c, d)))
    BY <1>1
  <1>3. sum(b, sum(c, d)) = sum(c, sum(b, d))
    <2>1. sum(b, sum(c, d)) = sum(sum(b, c), d) /\ sum(c, sum(b, d)) = sum(sum(c, b), d)
      BY <1>1
    <2> QED
      BY <1>1, <2>1
  <1>4. sum(a, sum(c, sum(b, d))) = sum(sum(a, c), sum(b, d))
    BY <1>1
  <1>5. sum(sum(a, b), sum(c, d)) = sum(sum(a, c), sum(b, d))
    BY <1>2, <1>3, <1>4
  <1> QED
    BY <1>5 DEF sum

LEMMA ScaledWord ==
  ASSUME NEW p \in Word, NEW x \in 0 .. 1, NEW y \in 0 .. 1
  PROVE  /\ [j \in DOMAIN p |-> x * p[j]] \in Word
         /\ [j \in DOMAIN p |-> ((x + y) % 2) * p[j]] =
              XorAll([j \in DOMAIN p |-> x * p[j]], [j \in DOMAIN p |-> y * p[j]])
  <1> DEFINE s(z) == [j \in DOMAIN p |-> z * p[j]]
  <1>1. DOMAIN p = 1 .. 4 /\ \A j \in 1 .. 4 : p[j] \in Byte
    BY DEF Word
  <1>2. ASSUME NEW z \in 0 .. 1
        PROVE  s(z) \in Word /\ \A j \in 1 .. 4 : s(z)[j] = IF z = 0 THEN 0 ELSE p[j]
    <2>1. \A j \in 1 .. 4 : z * p[j] = IF z = 0 THEN 0 ELSE p[j]
      <3>1. \A m \in Byte : 0 * m = 0 /\ 1 * m = m
        BY DEF Byte
      <3>2. z = 0 \/ z = 1
        OBVIOUS
      <3>3. CASE z = 0
        BY <1>1, <3>1, <3>3
      <3>4. CASE z = 1
        BY <1>1, <3>1, <3>4
      <3> QED
        BY <3>2, <3>3, <3>4
    <2>2. \A j \in 1 .. 4 : z * p[j] \in Byte
      BY <1>1, <2>1 DEF Byte
    <2>3. s(z) = [j \in 1 .. 4 |-> z * p[j]]
      BY <1>1
    <2> QED
      BY <2>1, <2>2, <2>3 DEF Word
  <1>3. (x + y) % 2 \in 0 .. 1
    OBVIOUS
  <1> DEFINE q == (x + y) % 2
  <1>4. q = IF x = y THEN 0 ELSE 1
    OBVIOUS
  <1>5. s(x) \in Word /\ s(y) \in Word /\ s(q) \in Word
    BY <1>2, <1>3
  <1>6. \A j \in 1 .. 4 : s(q)[j] = Xor(s(x)[j], s(y)[j])
    <2> TAKE j \in 1 .. 4
    <2>1. s(q)[j] = (IF q = 0 THEN 0 ELSE p[j]) /\ s(x)[j] = (IF x = 0 THEN 0 ELSE p[j])
          /\ s(y)[j] = (IF y = 0 THEN 0 ELSE p[j])
      BY <1>2, <1>3
    <2>2. p[j] \in Byte /\ 0 \in Byte
      BY <1>1 DEF Byte
    <2>3. Xor(p[j], 0) = p[j] /\ Xor(0, p[j]) = p[j] /\ Xor(p[j], p[j]) = 0 /\ Xor(0, 0) = 0
      BY <2>2, XorGroup
    <2> HIDE DEF s, q
    <2> QED
      BY <1>4, <2>1, <2>3
  <1> HIDE DEF s, q
  <1>7. s(q) = XorAll(s(x), s(y))
    <2> DEFINE f == s(x)  g == s(y)  h == s(q)
    <2>1. f \in Word /\ g \in Word /\ h \in Word /\ \A j \in 1 .. 4 : h[j] = Xor(f[j], g[j])
      BY <1>5, <1>6
    <2> HIDE DEF f, g, h
    <2>2. XorAll(f, g) \in Word /\ \A j \in 1 .. 4 : XorAll(f, g)[j] = Xor(f[j], g[j])
      BY <2>1, WordSum
    <2>3. h = XorAll(f, g)
      BY <2>1, <2>2, SameWord
    <2> QED
      BY <2>3 DEF f, g, h
  <1> QED
    BY <1>5, <1>7 DEF s, q

\* What the bit i of n adds to its entry in a table.
Part(powers, n, i) == [j \in DOMAIN powers[i] |-> Bit(n, Weight[i]) * powers[i][j]]

LEMMA PartLinear ==
  ASSUME NEW powers, NEW i \in 1 .. 8, NEW a \in Byte, NEW b \in Byte,
         \A k \in 1 .. 8 : powers[k] \in Word
  PROVE  /\ Part(powers, a, i) \in Word /\ Part(powers, b, i) \in Word
         /\ Part(powers, Xor(a, b), i) = XorAll(Part(powers, a, i), Part(powers, b, i))
  <1> DEFINE w == Weight[i]  x == Bit(a, w)  y == Bit(b, w)  p == powers[i]
             s == [j \in DOMAIN p |-> x * p[j]]  t == [j \in DOMAIN p |-> y * p[j]]
             u == [j \in DOMAIN p |-> ((x + y) % 2) * p[j]]
  <1>1. w \in Weights
    BY WeightIs
  <1>2. p \in Word /\ x \in 0 .. 1 /\ y \in 0 .. 1 /\ Bit(Xor(a, b), w) = (x + y) % 2
    BY <1>1, SumOfBits, XorBits
  <1>3. /\ Part(powers, a, i) = s /\ Part(powers, b, i) = t
    BY DEF Part
  <1>4. Part(powers, Xor(a, b), i) = u
    BY <1>2 DEF Part
  <1> HIDE DEF x, y, p, w
  <1>5. s \in Word /\ t \in Word /\ u = XorAll(s, t)
    BY <1>2, ScaledWord
  <1> QED
    BY <1>3, <1>4, <1>5

\* A table is what the entries at the powers of two add up to.
LEMMA TableAdds ==
  ASSUME NEW powers, NEW n \in Byte, \A i \in 1 .. 8 : powers[i] \in Word
  PROVE  \E g : /\ g \in [0 .. 8 -> Word] /\ g[0] = ZeroWord
                /\ \A i \in 1 .. 8 : g[i] = XorAll(g[i - 1], Part(powers, n, i))
                /\ Table(powers)[n] = g[8]
  <1> DEFINE zero == [j \in DOMAIN powers[1] |-> 0]
             More(w, i) == XorAll(w, Part(powers, n, i))
             Body(f, i) == IF i = 0 THEN zero ELSE More(f[i - 1], i)
             Chain(f) == f = [i \in 0 .. 8 |-> Body(f, i)]
             upto == CHOOSE f : Chain(f)
             step == [i \in 1 .. 8 |-> [w \in Word |-> More(w, i)]]
  <1>1. ZeroWord \in Word /\ zero = ZeroWord
    <2>1. 0 \in Byte
      BY DEF Byte
    <2>2. ZeroWord \in Word /\ \A i \in 1 .. 4 : ZeroWord[i] = 0
      <3>1. /\ ZeroWord \in Word /\ ZeroWord[1] = 0 /\ ZeroWord[2] = 0 /\ ZeroWord[3] = 0
            /\ ZeroWord[4] = 0
        BY <2>1, WordOf DEF ZeroWord
      <3>2. \A i \in 1 .. 4 : i = 1 \/ i = 2 \/ i = 3 \/ i = 4
        OBVIOUS
      <3> QED
        BY <3>1, <3>2
    <2>3. zero = [j \in 1 .. 4 |-> 0] /\ ZeroWord = [j \in 1 .. 4 |-> ZeroWord[j]]
      <3>1. powers[1] \in Word
        OBVIOUS
      <3> QED
        BY <2>2, <3>1 DEF Word
    <2> HIDE DEF zero
    <2> QED
      BY <2>2, <2>3
  <1>2. \A i \in 1 .. 8, w \in Word : More(w, i) \in Word
    BY PartLinear, WordGroup
  <1>3. Table(powers)[n] = upto[8]
    BY DEF Table, Byte, Part
  <1> HIDE DEF zero, More
  <1>4. step \in Moves(Word, 8)
    BY <1>2 DEF Moves
  <1>5. \A i \in 1 .. 8, w \in Word : step[i][w] = More(w, i)
    OBVIOUS
  <1> HIDE DEF step
  <1>6. PICK g : Leads(Word, 8, ZeroWord, step, g)
    <2>1. 8 \in Nat
      OBVIOUS
    <2> QED
      BY <1>1, <1>4, <2>1, Recursion
  <1>7. g \in [0 .. 8 -> Word] /\ g[0] = ZeroWord
    BY <1>6 DEF Leads
  <1>8. \A i \in 1 .. 8 : g[i] = More(g[i - 1], i)
    <2> TAKE i \in 1 .. 8
    <2>1. g[i - 1] \in Word
      BY <1>7
    <2>2. g[i] = step[i][g[i - 1]]
      BY <1>6 DEF Leads
    <2> QED
      BY <1>5, <2>1, <2>2
  <1>9. g = [i \in 0 .. 8 |-> g[i]]
    BY <1>7
  <1>10. Chain(g)
    BY <1>1, <1>7, <1>8, <1>9
  <1>11. Chain(upto)
    <2> HIDE DEF Chain
    <2> QED
      BY <1>10
  <1> HIDE DEF upto
  <1>12. \A i \in 0 .. 8 : upto[i] = Body(upto, i)
    <2> HIDE DEF Body
    <2> QED
      BY <1>11
  <1>13. \A i \in 0 .. 8 : upto[i] = g[i]
    <2>1. upto[0] = g[0]
      BY <1>1, <1>7, <1>12
    <2>2. \A i \in 0 .. 8 - 1 : upto[i] = g[i] => upto[i + 1] = g[i + 1]
      <3> TAKE i \in 0 .. 8 - 1
      <3>1. i + 1 \in 1 .. 8 /\ i + 1 \in 0 .. 8 /\ (i + 1) - 1 = i /\ i + 1 # 0
        OBVIOUS
      <3> HIDE DEF Chain
      <3> QED
        BY <1>8, <1>12, <3>1
    <2>3. 8 \in Nat
      OBVIOUS
    <2> HIDE DEF Chain
    <2> QED
      BY <2>1, <2>2, <2>3, SameChain
  <1>14. Table(powers)[n] = g[8]
    <2>1. 8 \in 0 .. 8
      OBVIOUS
    <2> QED
      BY <1>3, <1>13, <2>1
  <1> HIDE DEF Chain
  <1> QED
    BY <1>7, <1>8, <1>14 DEF More

\* A table given by its entries at the powers of two is linear.
LEMMA TableLinear ==
  ASSUME NEW powers, \A i \in 1 .. 8 : powers[i] \in Word
  PROVE  /\ Table(powers) \in [Byte -> Word]
         /\ \A a, b \in Byte :
              Table(powers)[Xor(a, b)] = XorAll(Table(powers)[a], Table(powers)[b])
  <1> DEFINE Adds(n, g) == /\ g \in [0 .. 8 -> Word] /\ g[0] = ZeroWord
                           /\ \A i \in 1 .. 8 : g[i] = XorAll(g[i - 1], Part(powers, n, i))
                           /\ Table(powers)[n] = g[8]
  <1>1. \A n \in Byte : \E g : Adds(n, g)
    BY TableAdds
  <1>2. \A n \in Byte : Table(powers)[n] \in Word
    <2> TAKE n \in Byte
    <2>1. PICK g : Adds(n, g)
      BY <1>1
    <2> QED
      BY <2>1
  <1>3. Table(powers) \in [Byte -> Word]
    <2> DEFINE t == Table(powers)
    <2>1. t = [n \in Byte |-> t[n]]
      BY DEF Table, Byte
    <2> HIDE DEF t
    <2> QED
      BY <1>2, <2>1 DEF t
  <1>4. ASSUME NEW a \in Byte, NEW b \in Byte
        PROVE  Table(powers)[Xor(a, b)] = XorAll(Table(powers)[a], Table(powers)[b])
    <2>1. Xor(a, b) \in Byte
      BY XorGroup
    <2> HIDE DEF Adds
    <2>2. PICK f : Adds(a, f)
      BY <1>1
    <2>3. PICK g : Adds(b, g)
      BY <1>1
    <2>4. PICK h : Adds(Xor(a, b), h)
      BY <1>1, <2>1
    <2> DEFINE T == {i \in 0 .. 8 : h[i] = XorAll(f[i], g[i])}
    <2>5. 0 \in T
      <3>1. f[0] = ZeroWord /\ g[0] = ZeroWord /\ h[0] = ZeroWord /\ ZeroWord \in Word
        BY <2>2, <2>3, <2>4 DEF Adds
      <3>2. XorAll(ZeroWord, ZeroWord) = ZeroWord
        BY <3>1, WordGroup
      <3> QED
        BY <3>1, <3>2
    <2>6. ASSUME NEW i \in 0 .. 7, i \in T PROVE i + 1 \in T
      <3> DEFINE x == f[i]  y == g[i]  p == Part(powers, a, i + 1)  q == Part(powers, b, i + 1)
      <3>1. i + 1 \in 1 .. 8 /\ i + 1 \in 0 .. 8 /\ (i + 1) - 1 = i /\ i \in 0 .. 8
        OBVIOUS
      <3>2. /\ x \in Word /\ y \in Word /\ f[i + 1] = XorAll(x, p) /\ g[i + 1] = XorAll(y, q)
            /\ h[i + 1] = XorAll(h[i], Part(powers, Xor(a, b), i + 1))
        BY <2>2, <2>3, <2>4, <3>1 DEF Adds
      <3>3. /\ p \in Word /\ q \in Word /\ Part(powers, Xor(a, b), i + 1) = XorAll(p, q)
        BY <3>1, PartLinear
      <3>4. h[i] = XorAll(x, y)
        BY <2>6
      <3> HIDE DEF x, y, p, q
      <3>5. XorAll(XorAll(x, y), XorAll(p, q)) = XorAll(XorAll(x, p), XorAll(y, q))
        BY <3>2, <3>3, Interchange
      <3>6. h[i + 1] = XorAll(f[i + 1], g[i + 1])
        BY <3>2, <3>3, <3>4, <3>5
      <3> QED
        BY <3>1, <3>6
    <2> HIDE DEF T
    <2>7. 8 \in Nat /\ 8 \in 0 .. 8 /\ \A i \in 0 .. 8 - 1 : i \in T => i + 1 \in T
      BY <2>6
    <2>8. 8 \in T
      <3>1. \A i \in 0 .. 8 : i \in T
        BY <2>5, <2>7, BoundedInduction
      <3> QED
        BY <2>7, <3>1
    <2> QED
      BY <2>2, <2>3, <2>4, <2>8 DEF Adds, T
  <1> QED
    BY <1>3, <1>4

LEMMA BaseTable ==
  /\ crc32tab \in [Byte -> Word]
  /\ \A a, b \in Byte : crc32tab[Xor(a, b)] = XorAll(crc32tab[a], crc32tab[b])
  /\ crc32tab[0] = ZeroWord
  <1> DEFINE p1 == <<150, 48, 7, 119>>  p2 == <<44, 97, 14, 238>>  p3 == <<25, 196, 109, 7>>
             p4 == <<50, 136, 219, 14>>  p5 == <<100, 16, 183, 29>>  p6 == <<200, 32, 110, 59>>
             p7 == <<144, 65, 220, 118>>  p8 == <<32, 131, 184, 237>>
             p == <<p1, p2, p3, p4, p5, p6, p7, p8>>
  <1>1. \A i \in 1 .. 8 : p[i] \in Word
    <2>1. /\ p1 \in Word /\ p2 \in Word /\ p3 \in Word /\ p4 \in Word
          /\ p5 \in Word /\ p6 \in Word /\ p7 \in Word /\ p8 \in Word
      BY SMTT(60) DEF Word, Byte
    <2> HIDE DEF p1, p2, p3, p4, p5, p6, p7, p8
    <2>2. /\ p[1] = p1 /\ p[2] = p2 /\ p[3] = p3 /\ p[4] = p4
          /\ p[5] = p5 /\ p[6] = p6 /\ p[7] = p7 /\ p[8] = p8
      OBVIOUS
    <2>3. \A i \in 1 .. 8 : i = 1 \/ i = 2 \/ i = 3 \/ i = 4 \/ i = 5 \/ i = 6 \/ i = 7 \/ i = 8
      OBVIOUS
    <2> HIDE DEF p
    <2> QED
      BY <2>1, <2>2, <2>3
  <1>2. crc32tab = Table(p)
    BY DEF crc32tab
  <1> HIDE DEF p
  <1>3. /\ crc32tab \in [Byte -> Word]
        /\ \A a, b \in Byte : crc32tab[Xor(a, b)] = XorAll(crc32tab[a], crc32tab[b])
    BY <1>1, <1>2, TableLinear
  <1>4. crc32tab[0] = ZeroWord
    <2> DEFINE z == crc32tab[0]
    <2>1. 0 \in Byte /\ Xor(0, 0) = 0
      <3>1. 0 \in Byte
        BY DEF Byte
      <3> QED
        BY <3>1, XorGroup
    <2>2. z \in Word /\ z = XorAll(z, z)
      <3>1. z \in Word
        BY <1>3, <2>1
      <3> HIDE DEF z
      <3>2. \A a \in Byte : Xor(a, a) = 0 => crc32tab[0] = XorAll(crc32tab[a], crc32tab[a])
        <4> TAKE a \in Byte
        <4>1. crc32tab[Xor(a, a)] = XorAll(crc32tab[a], crc32tab[a])
          BY <1>3
        <4> QED
          BY <4>1
      <3> QED
        BY <2>1, <3>1, <3>2 DEF z
    <2> HIDE DEF z
    <2>3. \A i \in 1 .. 4 : z[i] \in Byte /\ z[i] = Xor(z[i], z[i])
      BY <2>2, WordGroup DEF Word
    <2>4. \A i \in 1 .. 4 : z[i] = 0
      BY <2>3, XorGroup
    <2>5. ZeroWord \in Word /\ ZeroWord[1] = 0 /\ ZeroWord[2] = 0 /\ ZeroWord[3] = 0
          /\ ZeroWord[4] = 0
      BY <2>1, WordOf DEF ZeroWord
    <2>6. z = ZeroWord
      BY <2>2, <2>4, <2>5, SameWord
    <2> QED
      BY <2>6 DEF z
  <1> QED
    BY <1>3, <1>4

Shifted(w) == <<w[2], w[3], w[4], 0>>
ZeroUpdate(w) == crc32_byte_update(w, 0)

LEMMA ByteUpdate ==
  ASSUME NEW w \in Word, NEW d \in Byte
  PROVE  /\ Shifted(w) \in Word /\ crc32tab[Xor(w[1], d)] \in Word
         /\ crc32_byte_update(w, d) \in Word
         /\ crc32_byte_update(w, d) = XorAll(crc32tab[Xor(w[1], d)], Shifted(w))
  <1> DEFINE t == crc32tab[Xor(w[1], d)]  s == Shifted(w)  u == crc32_byte_update(w, d)
  <1>1. w[1] \in Byte /\ w[2] \in Byte /\ w[3] \in Byte /\ w[4] \in Byte /\ 0 \in Byte
    BY WordBytes DEF Byte
  <1>2. Xor(w[1], d) \in Byte
    BY <1>1, XorGroup
  <1>3. t \in Word
    BY <1>2, BaseTable
  <1>4. s \in Word /\ s[1] = w[2] /\ s[2] = w[3] /\ s[3] = w[4] /\ s[4] = 0
    BY <1>1, WordOf DEF Shifted
  <1>5. u = <<Xor(t[1], w[2]), Xor(t[2], w[3]), Xor(t[3], w[4]), t[4]>>
    BY DEF crc32_byte_update
  <1> HIDE DEF t, s, u
  <1>6. t[1] \in Byte /\ t[2] \in Byte /\ t[3] \in Byte /\ t[4] \in Byte
    BY <1>3, WordBytes
  <1>7. /\ Xor(t[1], w[2]) \in Byte /\ Xor(t[2], w[3]) \in Byte /\ Xor(t[3], w[4]) \in Byte
        /\ Xor(t[4], 0) = t[4]
    BY <1>1, <1>6, XorGroup
  <1>8. /\ u \in Word /\ u[1] = Xor(t[1], w[2]) /\ u[2] = Xor(t[2], w[3])
        /\ u[3] = Xor(t[3], w[4]) /\ u[4] = t[4]
    BY <1>5, <1>6, <1>7, WordOf
  <1> DEFINE v == XorAll(t, s)
  <1>9. v \in Word /\ v[1] = Xor(t[1], s[1]) /\ v[2] = Xor(t[2], s[2]) /\ v[3] = Xor(t[3], s[3])
        /\ v[4] = Xor(t[4], s[4])
    BY <1>3, <1>4, WordSum
  <1> HIDE DEF v
  <1>10. u = v
    BY <1>4, <1>7, <1>8, <1>9, SameWord
  <1> QED
    BY <1>3, <1>4, <1>8, <1>10 DEF t, s, u, v

LEMMA ShiftedSum ==
  ASSUME NEW w \in Word, NEW v \in Word
  PROVE  Shifted(XorAll(w, v)) = XorAll(Shifted(w), Shifted(v))
  <1> DEFINE x == XorAll(w, v)  l == Shifted(x)  a == Shifted(w)  b == Shifted(v)
             r == XorAll(a, b)
  <1>1. 0 \in Byte /\ Xor(0, 0) = 0
    <2>1. 0 \in Byte
      BY DEF Byte
    <2> QED
      BY <2>1, XorGroup
  <1>2. x \in Word /\ x[2] = Xor(w[2], v[2]) /\ x[3] = Xor(w[3], v[3]) /\ x[4] = Xor(w[4], v[4])
    BY WordSum
  <1> HIDE DEF x
  <1>3. \A y \in Word : LET s == Shifted(y)
                        IN  s \in Word /\ s[1] = y[2] /\ s[2] = y[3] /\ s[3] = y[4] /\ s[4] = 0
    BY <1>1, WordBytes, WordOf DEF Shifted
  <1>4. /\ l \in Word /\ l[1] = x[2] /\ l[2] = x[3] /\ l[3] = x[4] /\ l[4] = 0
        /\ a \in Word /\ a[1] = w[2] /\ a[2] = w[3] /\ a[3] = w[4] /\ a[4] = 0
        /\ b \in Word /\ b[1] = v[2] /\ b[2] = v[3] /\ b[3] = v[4] /\ b[4] = 0
    BY <1>2, <1>3
  <1> HIDE DEF l, a, b
  <1>5. r \in Word /\ r[1] = Xor(a[1], b[1]) /\ r[2] = Xor(a[2], b[2])
        /\ r[3] = Xor(a[3], b[3]) /\ r[4] = Xor(a[4], b[4])
    BY <1>4, WordSum
  <1> HIDE DEF r
  <1>6. l = r
    BY <1>1, <1>2, <1>4, <1>5, SameWord
  <1> QED
    BY <1>6 DEF l, r, a, b, x

\* What the sum so far and the bytes to come make of one more byte.
LEMMA Carried ==
  ASSUME NEW w \in Word, NEW v \in Word, NEW d \in Byte
  PROVE  /\ ZeroUpdate(w) \in Word /\ crc32tab[Xor(v[1], d)] \in Word /\ Shifted(v) \in Word
         /\ crc32_byte_update(XorAll(w, v), d) =
              XorAll(XorAll(ZeroUpdate(w), crc32tab[Xor(v[1], d)]), Shifted(v))
  <1> DEFINE y == Xor(v[1], d)  x == XorAll(w, v)
             t == crc32tab[w[1]]  u == crc32tab[y]  s == Shifted(w)  r == Shifted(v)
  <1>1. 0 \in Byte /\ w[1] \in Byte /\ v[1] \in Byte
    BY WordBytes DEF Byte
  <1>2. y \in Byte /\ Xor(w[1], 0) = w[1] /\ Xor(Xor(w[1], v[1]), d) = Xor(w[1], y)
    BY <1>1, XorGroup
  <1>3. x \in Word /\ x[1] = Xor(w[1], v[1])
    BY WordSum
  <1>4. ZeroUpdate(w) \in Word /\ ZeroUpdate(w) = XorAll(t, s) /\ s \in Word /\ t \in Word
    BY <1>1, <1>2, ByteUpdate DEF ZeroUpdate
  <1>5. r \in Word /\ u \in Word
    BY <1>2, ByteUpdate, BaseTable
  <1>6. crc32_byte_update(x, d) = XorAll(crc32tab[Xor(x[1], d)], Shifted(x))
    BY <1>3, ByteUpdate
  <1>7. crc32tab[Xor(x[1], d)] = XorAll(t, u)
    <2>1. crc32tab[Xor(w[1], y)] = XorAll(crc32tab[w[1]], crc32tab[y])
      BY <1>1, <1>2, BaseTable
    <2> QED
      BY <1>2, <1>3, <2>1
  <1>8. Shifted(x) = XorAll(s, r)
    BY ShiftedSum
  <1> HIDE DEF t, u, s, r, x
  <1>9. XorAll(XorAll(t, u), XorAll(s, r)) = XorAll(XorAll(t, s), XorAll(u, r))
    BY <1>4, <1>5, Interchange
  <1>10. XorAll(ZeroUpdate(w), XorAll(u, r)) = XorAll(XorAll(ZeroUpdate(w), u), r)
    BY <1>4, <1>5, WordGroup
  <1>11. crc32_byte_update(x, d) = XorAll(XorAll(ZeroUpdate(w), u), r)
    BY <1>4, <1>6, <1>7, <1>8, <1>9, <1>10
  <1> QED
    BY <1>4, <1>5, <1>11 DEF u, r, x, y

LEMMA ZeroUpdateSum ==
  ASSUME NEW w \in Word, NEW v \in Word
  PROVE  /\ ZeroUpdate(w) \in Word /\ ZeroUpdate(v) \in Word /\ ZeroUpdate(ZeroWord) = ZeroWord
         /\ ZeroUpdate(XorAll(w, v)) = XorAll(ZeroUpdate(w), ZeroUpdate(v))
  <1>1. 0 \in Byte /\ \A x \in Byte : Xor(x, 0) = x
    <2>1. 0 \in Byte
      BY DEF Byte
    <2> QED
      BY <2>1, XorGroup
  <1>2. \A x \in Word : /\ ZeroUpdate(x) \in Word /\ crc32tab[x[1]] \in Word /\ Shifted(x) \in Word
                        /\ ZeroUpdate(x) = XorAll(crc32tab[x[1]], Shifted(x))
    <2> TAKE x \in Word
    <2>1. Xor(x[1], 0) = x[1]
      BY <1>1, WordBytes
    <2> QED
      BY <1>1, <2>1, ByteUpdate DEF ZeroUpdate
  <1>3. ZeroUpdate(XorAll(w, v)) = XorAll(XorAll(ZeroUpdate(w), crc32tab[v[1]]), Shifted(v))
    <2>1. Xor(v[1], 0) = v[1]
      BY <1>1, WordBytes
    <2> QED
      BY <1>1, <2>1, Carried DEF ZeroUpdate
  <1>4. XorAll(XorAll(ZeroUpdate(w), crc32tab[v[1]]), Shifted(v)) =
          XorAll(ZeroUpdate(w), XorAll(crc32tab[v[1]], Shifted(v)))
    <2> DEFINE z == ZeroUpdate(w)  t == crc32tab[v[1]]  r == Shifted(v)
    <2>1. z \in Word /\ t \in Word /\ r \in Word
      BY <1>2
    <2> HIDE DEF z, t, r
    <2>2. XorAll(XorAll(z, t), r) = XorAll(z, XorAll(t, r))
      BY <2>1, WordGroup
    <2> QED
      BY <2>2 DEF z, t, r
  <1>5. ZeroUpdate(ZeroWord) = ZeroWord
    <2>1. ZeroWord \in Word /\ ZeroWord[1] = 0 /\ Shifted(ZeroWord) = ZeroWord
      BY <1>1, WordOf DEF ZeroWord, Shifted
    <2>2. XorAll(ZeroWord, ZeroWord) = ZeroWord
      BY <2>1, WordGroup
    <2> QED
      BY <1>2, <2>1, <2>2, BaseTable
  <1> QED
    BY <1>2, <1>3, <1>4, <1>5

----------------------------------------------------------------------------
(* The tables of the slices.                                               *)

Tables == [Byte -> Word]

LEMMA NextTable ==
  ASSUME NEW t \in Tables
  PROVE  NextSlice(t) \in Tables /\ \A n \in Byte : NextSlice(t)[n] = ZeroUpdate(t[n])
  <1>1. NextSlice(t) = [n \in Byte |-> ZeroUpdate(t[n])]
    BY DEF NextSlice, ZeroUpdate, Byte
  <1>2. \A n \in Byte : ZeroUpdate(t[n]) \in Word
    BY ZeroUpdateSum DEF Tables
  <1> QED
    BY <1>1, <1>2 DEF Tables

\* The eight tables, each the one before it carried through a zero.
LEMMA EightTables ==
  \E h \in [0 .. 7 -> Tables] :
    /\ h[0] = crc32tab
    /\ \A i \in 1 .. 7 : h[i] = NextSlice(h[i - 1])
    /\ crc32_tables = [k \in 1 .. 8 |-> h[k - 1]]
  <1> DEFINE step == [i \in 1 .. 7 |-> [t \in Tables |-> NextSlice(t)]]
             seven == <<1, 2, 3, 4, 5, 6, 7>>
             First == <<crc32tab>>
             More(tables, i) == Append(tables, NextSlice(tables[i]))
             Body(f, i) == IF i = 0 THEN First ELSE More(f[i - 1], seven[i])
             Chain(f) == f = [i \in 0 .. 7 |-> Body(f, i)]
             upto == CHOOSE f : Chain(f)
  <1>1. crc32tab \in Tables
    BY BaseTable DEF Tables
  <1>2. step \in [1 .. 7 -> [Tables -> Tables]]
    BY NextTable
  <1>3. PICK h \in [0 .. 7 -> Tables] :
          h[0] = crc32tab /\ \A i \in 1 .. 7 : h[i] = step[i][h[i - 1]]
    <2>1. 7 \in Nat /\ step \in Moves(Tables, 7)
      BY <1>2 DEF Moves
    <2> HIDE DEF step
    <2>2. \E h : Leads(Tables, 7, crc32tab, step, h)
      BY <1>1, <2>1, Recursion
    <2> QED
      BY <2>2 DEF Leads
  <1>4. \A i \in 1 .. 7 : h[i] = NextSlice(h[i - 1])
    <2> TAKE i \in 1 .. 7
    <2>1. h[i - 1] \in Tables
      BY <1>3
    <2> QED
      BY <1>3, <2>1
  <1> HIDE DEF step
  <1> DEFINE Row(i) == [k \in 1 .. i + 1 |-> h[k - 1]]
             g == [i \in 0 .. 7 |-> Row(i)]
  <1>5. Len(seven) = 7 /\ \A i \in 1 .. 7 : seven[i] = i
    <2>1. /\ seven[1] = 1 /\ seven[2] = 2 /\ seven[3] = 3 /\ seven[4] = 4 /\ seven[5] = 5
          /\ seven[6] = 6 /\ seven[7] = 7 /\ Len(seven) = 7
      OBVIOUS
    <2> HIDE DEF seven
    <2>2. \A i \in 1 .. 7 : i = 1 \/ i = 2 \/ i = 3 \/ i = 4 \/ i = 5 \/ i = 6 \/ i = 7
      OBVIOUS
    <2> QED
      BY <2>1, <2>2
  <1>6. \A i \in 1 .. 7 : Row(i) = More(Row(i - 1), i)
    <2> TAKE i \in 1 .. 7
    <2>1. Row(i - 1)[i] = h[i - 1] /\ h[i] = NextSlice(h[i - 1])
      BY <1>4
    <2>2. Row(i - 1) = [k \in 1 .. i |-> h[k - 1]]
      OBVIOUS
    <2>3. Append(Row(i - 1), h[i]) = Row(i)
      BY <2>2
    <2> QED
      BY <2>1, <2>3
  <1>7. Row(0) = First
    BY <1>3
  <1>8. g[0] = First /\ \A i \in 1 .. 7 : g[i] = More(g[i - 1], seven[i])
    <2>1. \A i \in 0 .. 7 : g[i] = Row(i)
      OBVIOUS
    <2> HIDE DEF g, Row, seven, First, More
    <2> QED
      BY <1>5, <1>6, <1>7, <2>1
  <1>9. g = [i \in 0 .. 7 |-> g[i]]
    OBVIOUS
  <1>10. g[7] = [k \in 1 .. 8 |-> h[k - 1]]
    OBVIOUS
  <1> HIDE DEF g, Row, seven, First, More
  <1>11. Chain(g)
    BY <1>8, <1>9
  <1>12. Chain(upto)
    <2> HIDE DEF Chain
    <2> QED
      BY <1>11
  <1>13. crc32_tables = upto[7]
    BY <1>5 DEF crc32_tables, Along, seven, First, More
  <1> HIDE DEF upto
  <1>14. \A i \in 0 .. 7 : upto[i] = g[i]
    <2>1. upto[0] = g[0]
      BY <1>8, <1>12
    <2>2. \A i \in 0 .. 6 : upto[i] = g[i] => upto[i + 1] = g[i + 1]
      <3> TAKE i \in 0 .. 6
      <3>1. upto[i + 1] = More(upto[i], seven[i + 1])
        BY <1>12
      <3>2. g[i + 1] = More(g[i], seven[i + 1])
        BY <1>8
      <3> QED
        BY <3>1, <3>2
    <2>3. 7 \in Nat /\ 7 - 1 = 6
      OBVIOUS
    <2> HIDE DEF Chain
    <2> QED
      BY <2>1, <2>2, <2>3, SameChain
  <1> HIDE DEF Chain
  <1>15. crc32_tables = [k \in 1 .. 8 |-> h[k - 1]]
    BY <1>10, <1>13, <1>14
  <1> QED
    BY <1>3, <1>4, <1>15

----------------------------------------------------------------------------
(* Byte by byte.                                                           *)

\* g is the sum of s from crc on, after each byte.
Bytewise(crc, s, g) ==
  /\ g \in [0 .. Len(s) -> Word]
  /\ g[0] = crc
  /\ \A i \in 1 .. Len(s) : g[i] = crc32_byte_update(g[i - 1], s[i])

LEMMA SomeSums ==
  ASSUME NEW crc \in Word, NEW s \in Seq(Byte)
  PROVE  \E g : Bytewise(crc, s, g)
  <1> DEFINE n == Len(s)
             step == [i \in 1 .. n |-> [w \in Word |-> crc32_byte_update(w, s[i])]]
  <1>1. n \in Nat /\ \A i \in 1 .. n : s[i] \in Byte
    OBVIOUS
  <1> HIDE DEF n
  <1>2. step \in Moves(Word, n)
    BY <1>1, ByteUpdate DEF Moves
  <1>3. \A i \in 1 .. n, w \in Word : step[i][w] = crc32_byte_update(w, s[i])
    OBVIOUS
  <1> HIDE DEF step
  <1>4. PICK g : Leads(Word, n, crc, step, g)
    BY <1>1, <1>2, Recursion
  <1>5. g \in [0 .. n -> Word] /\ g[0] = crc
    BY <1>4 DEF Leads
  <1>6. \A i \in 1 .. n : g[i] = crc32_byte_update(g[i - 1], s[i])
    <2> TAKE i \in 1 .. n
    <2>1. g[i - 1] \in Word
      BY <1>1, <1>5
    <2>2. g[i] = step[i][g[i - 1]]
      BY <1>4 DEF Leads
    <2> QED
      BY <1>3, <2>1, <2>2
  <1>7. Bytewise(crc, s, g)
    BY <1>5, <1>6 DEF Bytewise, n
  <1> QED
    BY <1>7

LEMMA LastSum ==
  ASSUME NEW crc \in Word, NEW s \in Seq(Byte), NEW g, Bytewise(crc, s, g)
  PROVE  Along(crc32_byte_update, crc, s) = g[Len(s)] /\ g[Len(s)] \in Word
  <1> DEFINE n == Len(s)
             After(w, i) == crc32_byte_update(w, s[i])
             Body(f, i) == IF i = 0 THEN crc ELSE After(f[i - 1], i)
             Chain(f) == f = [i \in 0 .. n |-> Body(f, i)]
             upto == CHOOSE f : Chain(f)
  <1>1. n \in Nat
    OBVIOUS
  <1>2. /\ g \in [0 .. n -> Word] /\ g[0] = crc
        /\ \A i \in 1 .. n : g[i] = After(g[i - 1], i)
    BY DEF Bytewise
  <1>3. Along(crc32_byte_update, crc, s) = upto[n]
    BY DEF Along
  <1> HIDE DEF n, After
  <1>4. g = [i \in 0 .. n |-> g[i]]
    BY <1>2
  <1>5. Chain(g)
    BY <1>1, <1>2, <1>4
  <1>6. Chain(upto)
    <2> HIDE DEF Chain
    <2> QED
      BY <1>5
  <1> HIDE DEF upto
  <1>7. \A i \in 0 .. n : upto[i] = Body(upto, i)
    <2> HIDE DEF Body
    <2> QED
      BY <1>6
  <1>8. \A i \in 0 .. n : upto[i] = g[i]
    <2>1. upto[0] = g[0]
      BY <1>1, <1>2, <1>7
    <2>2. \A i \in 0 .. n - 1 : upto[i] = g[i] => upto[i + 1] = g[i + 1]
      <3> TAKE i \in 0 .. n - 1
      <3>1. i + 1 \in 1 .. n /\ (i + 1) - 1 = i /\ i + 1 # 0
        BY <1>1
      <3>2. upto[i + 1] = After(upto[i], i + 1)
        <4>1. i + 1 \in 0 .. n
          BY <3>1
        <4> HIDE DEF Chain
        <4> QED
          BY <1>7, <3>1, <4>1
      <3>3. g[i + 1] = After(g[i], i + 1)
        BY <1>2, <3>1
      <3> QED
        BY <3>2, <3>3
    <2> HIDE DEF Chain
    <2> QED
      BY <1>1, <2>1, <2>2, SameChain
  <1>9. upto[n] = g[n] /\ g[n] \in Word
    BY <1>1, <1>2, <1>8
  <1> QED
    BY <1>3, <1>9 DEF n

----------------------------------------------------------------------------
(* Eight at a time.                                                        *)

\* q[j][k] is what the first j of the bytes x have left in the sum after k of them.
Left(h, x, q) ==
  /\ q \in [0 .. 8 -> [0 .. 8 -> Word]]
  /\ \A k \in 0 .. 8 : q[0][k] = ZeroWord
  /\ \A j \in 1 .. 8, k \in 0 .. 8 : j <= k => q[j][k] = XorAll(q[j - 1][k], h[k - j][x[j]])

LEMMA SomeLeft ==
  ASSUME NEW h \in [0 .. 7 -> Tables], NEW x \in [1 .. 8 -> Byte]
  PROVE  \E q : Left(h, x, q)
  <1> DEFINE S == [0 .. 8 -> Word]
             Term(j, k) == IF j <= k THEN h[k - j][x[j]] ELSE ZeroWord
             start == [k \in 0 .. 8 |-> ZeroWord]
             step == [j \in 1 .. 8 |-> [v \in S |-> [k \in 0 .. 8 |-> XorAll(v[k], Term(j, k))]]]
  <1>0. ZeroWord \in Word
    <2>1. 0 \in Byte
      BY DEF Byte
    <2> QED
      BY <2>1, WordOf DEF ZeroWord
  <1>1. \A j \in 1 .. 8, k \in 0 .. 8 : Term(j, k) \in Word
    <2> TAKE j \in 1 .. 8, k \in 0 .. 8
    <2>1. CASE j <= k
      <3>1. k - j \in 0 .. 7 /\ x[j] \in Byte
        BY <2>1
      <3>2. h[k - j] \in Tables
        BY <3>1
      <3> QED
        BY <2>1, <3>1, <3>2 DEF Tables
    <2>2. CASE ~(j <= k)
      BY <1>0, <2>2
    <2> QED
      BY <2>1, <2>2
  <1>2. \A j \in 1 .. 8, k \in 0 .. 8 : j <= k => Term(j, k) = h[k - j][x[j]]
    OBVIOUS
  <1> HIDE DEF Term
  <1>3. \A j \in 1 .. 8, v \in S, k \in 0 .. 8 : XorAll(v[k], Term(j, k)) \in Word
    <2> TAKE j \in 1 .. 8, v \in S, k \in 0 .. 8
    <2>1. v[k] \in Word /\ Term(j, k) \in Word
      BY <1>1
    <2> QED
      BY <2>1, WordGroup
  <1>4. step \in Moves(S, 8)
    BY <1>3 DEF Moves
  <1>5. start \in S
    BY <1>0
  <1>6. \A j \in 1 .. 8, v \in S, k \in 0 .. 8 : step[j][v][k] = XorAll(v[k], Term(j, k))
    OBVIOUS
  <1>7. \A k \in 0 .. 8 : start[k] = ZeroWord
    OBVIOUS
  <1> HIDE DEF step, start
  <1>8. PICK q : Leads(S, 8, start, step, q)
    <2>1. 8 \in Nat
      OBVIOUS
    <2> HIDE DEF S
    <2> QED
      BY <1>4, <1>5, <2>1, Recursion
  <1>9. q \in [0 .. 8 -> S] /\ q[0] = start
    BY <1>8 DEF Leads
  <1>10. \A j \in 1 .. 8, k \in 0 .. 8 : j <= k => q[j][k] = XorAll(q[j - 1][k], h[k - j][x[j]])
    <2> TAKE j \in 1 .. 8, k \in 0 .. 8
    <2>1. q[j - 1] \in S
      BY <1>9
    <2>2. q[j] = step[j][q[j - 1]]
      BY <1>8 DEF Leads
    <2>3. q[j][k] = XorAll(q[j - 1][k], Term(j, k))
      BY <1>6, <2>1, <2>2
    <2> QED
      BY <1>2, <2>3
  <1>11. Left(h, x, q)
    BY <1>7, <1>9, <1>10 DEF Left
  <1> QED
    BY <1>11

\* h[0] is the first table, and each carries the one before through a zero.
EachCarries(h) ==
  /\ h \in [0 .. 7 -> Tables]
  /\ h[0] = crc32tab
  /\ \A i \in 1 .. 7 : h[i] = NextSlice(h[i - 1])

LEMMA LeftCarried ==
  ASSUME NEW h, NEW x \in [1 .. 8 -> Byte], NEW q, EachCarries(h), Left(h, x, q)
  PROVE  \A j \in 0 .. 7 : \A k \in j .. 7 : ZeroUpdate(q[j][k]) = q[j][k + 1]
  <1> DEFINE T == {j \in 0 .. 7 : \A k \in j .. 7 : ZeroUpdate(q[j][k]) = q[j][k + 1]}
  <1>1. \A j \in 0 .. 8, k \in 0 .. 8 : q[j][k] \in Word
    BY DEF Left
  <1>2. 0 \in T
    <2>1. ZeroWord \in Word /\ ZeroUpdate(ZeroWord) = ZeroWord
      <3>1. ZeroWord \in Word
        BY <1>1 DEF Left
      <3> QED
        BY <3>1, ZeroUpdateSum
    <2>2. \A k \in 0 .. 7 : q[0][k] = ZeroWord /\ q[0][k + 1] = ZeroWord
      BY DEF Left
    <2> QED
      BY <2>1, <2>2
  <1>3. ASSUME NEW j \in 0 .. 6, j \in T PROVE j + 1 \in T
    <2>1. ASSUME NEW k \in j + 1 .. 7 PROVE ZeroUpdate(q[j + 1][k]) = q[j + 1][k + 1]
      <3> DEFINE m == k - (j + 1)  y == x[j + 1]  a == q[j][k]  t == h[m]  b == t[y]
                 c == h[m + 1][y]
      <3>1. m \in 0 .. 6 /\ y \in Byte /\ a \in Word /\ t \in Tables
        BY <1>1 DEF EachCarries
      <3>2. b \in Word
        BY <3>1 DEF Tables
      <3>3. c = ZeroUpdate(b)
        <4>1. h[m + 1] = NextSlice(t)
          <5>1. m + 1 \in 1 .. 7 /\ (m + 1) - 1 = m
            BY <3>1
          <5> HIDE DEF m
          <5> QED
            BY <5>1 DEF EachCarries
        <4> QED
          BY <3>1, <4>1, NextTable
      <3>4. q[j + 1][k] = XorAll(a, b)
        <4>1. j + 1 \in 1 .. 8 /\ k \in 0 .. 8 /\ j + 1 <= k /\ (j + 1) - 1 = j
          OBVIOUS
        <4> QED
          BY <4>1 DEF Left
      <3>5. q[j + 1][k + 1] = XorAll(q[j][k + 1], c)
        <4>1. /\ j + 1 \in 1 .. 8 /\ k + 1 \in 0 .. 8 /\ j + 1 <= k + 1 /\ (j + 1) - 1 = j
              /\ (k + 1) - (j + 1) = m + 1
          OBVIOUS
        <4> HIDE DEF m
        <4> QED
          BY <4>1 DEF Left
      <3>6. ZeroUpdate(a) = q[j][k + 1]
        BY <1>3
      <3> HIDE DEF a, b, c
      <3>7. ZeroUpdate(XorAll(a, b)) = XorAll(ZeroUpdate(a), ZeroUpdate(b))
        BY <3>1, <3>2, ZeroUpdateSum
      <3> QED
        BY <3>3, <3>4, <3>5, <3>6, <3>7
    <2> QED
      BY <2>1
  <1> HIDE DEF T
  <1>4. \A j \in 0 .. 7 - 1 : j \in T => j + 1 \in T
    BY <1>3
  <1>5. \A j \in 0 .. 7 : j \in T
    <2>1. 7 \in Nat
      OBVIOUS
    <2> QED
      BY <1>2, <1>4, <2>1, BoundedInduction
  <1> QED
    BY <1>5 DEF T

\* What the tables are asked for.
Looked(w, d) == [i \in 1 .. 8 |-> IF i <= 4 THEN Xor(w[i], d[i]) ELSE d[i]]

\* What is left of w after k bytes.
Rest(w, k) == [i \in 1 .. 4 |-> IF i + k <= 4 THEN w[i + k] ELSE 0]

LEMMA RestShifts ==
  ASSUME NEW w \in Word
  PROVE  /\ \A k \in 0 .. 8 : Rest(w, k) \in Word
         /\ \A k \in 0 .. 7 : Rest(w, k + 1) = Shifted(Rest(w, k))
         /\ Rest(w, 0) = w /\ Rest(w, 8) = ZeroWord
  <1>1. 0 \in Byte /\ \A i \in 1 .. 4 : w[i] \in Byte
    BY DEF Word, Byte
  <1>2. \A k \in 0 .. 8 : /\ Rest(w, k) \in Word
                          /\ \A i \in 1 .. 4 : Rest(w, k)[i] = IF i + k <= 4 THEN w[i + k] ELSE 0
    BY <1>1 DEF Rest, Word
  <1>3. ASSUME NEW k \in 0 .. 7 PROVE Rest(w, k + 1) = Shifted(Rest(w, k))
    <2> DEFINE a == Rest(w, k)  b == Rest(w, k + 1)  c == Shifted(a)
    <2>1. a \in Word /\ b \in Word
      BY <1>2
    <2>2. a[2] = b[1] /\ a[3] = b[2] /\ a[4] = b[3] /\ b[4] = 0
      <3>1. \A i \in 1 .. 4 : /\ a[i] = IF i + k <= 4 THEN w[i + k] ELSE 0
                              /\ b[i] = IF i + (k + 1) <= 4 THEN w[i + (k + 1)] ELSE 0
        BY <1>2
      <3> HIDE DEF a, b
      <3>2. /\ 1 + (k + 1) = 2 + k /\ 2 + (k + 1) = 3 + k /\ 3 + (k + 1) = 4 + k
            /\ ~(4 + (k + 1) <= 4)
        OBVIOUS
      <3> QED
        BY <3>1, <3>2
    <2> HIDE DEF a, b
    <2>3. c \in Word /\ c[1] = a[2] /\ c[2] = a[3] /\ c[3] = a[4] /\ c[4] = 0
      BY <1>1, <2>1, WordBytes, WordOf DEF Shifted
    <2> HIDE DEF c
    <2>4. b = c
      BY <2>1, <2>2, <2>3, SameWord
    <2> QED
      BY <2>4 DEF a, b, c
  <1>4. Rest(w, 0) = w
    BY <1>1 DEF Rest, Word
  <1>5. Rest(w, 8) = ZeroWord
    <2> DEFINE a == Rest(w, 8)
    <2>1. a \in Word /\ a[1] = 0 /\ a[2] = 0 /\ a[3] = 0 /\ a[4] = 0
      BY <1>2
    <2>2. /\ ZeroWord \in Word /\ ZeroWord[1] = 0 /\ ZeroWord[2] = 0 /\ ZeroWord[3] = 0
          /\ ZeroWord[4] = 0
      BY <1>1, WordOf DEF ZeroWord
    <2> HIDE DEF a
    <2>3. a = ZeroWord
      BY <2>1, <2>2, SameWord
    <2> QED
      BY <2>3 DEF a
  <1> QED
    BY <1>2, <1>3, <1>4, <1>5

\* Eight bytes one at a time come to what the eight tables add up to.
LEMMA EightBytes ==
  ASSUME NEW w \in Word, NEW d \in [1 .. 8 -> Byte], NEW h, NEW q, NEW g \in [0 .. 8 -> Word],
         EachCarries(h), Left(h, Looked(w, d), q),
         g[0] = w, \A i \in 1 .. 8 : g[i] = crc32_byte_update(g[i - 1], d[i])
  PROVE  g[8] = q[8][8]
  <1> DEFINE x == Looked(w, d)
             T == {k \in 0 .. 8 : g[k] = XorAll(q[k][k], Rest(w, k))}
  <1>1. \A i \in 1 .. 8 : Xor(Rest(w, i - 1)[1], d[i]) = x[i]
    <2> TAKE i \in 1 .. 8
    <2>1. x[i] = IF i <= 4 THEN Xor(w[i], d[i]) ELSE d[i]
      BY DEF Looked
    <2>2. Rest(w, i - 1)[1] = IF i <= 4 THEN w[i] ELSE 0
      BY DEF Rest
    <2>3. Xor(0, d[i]) = d[i]
      <3>1. 0 \in Byte /\ d[i] \in Byte
        BY DEF Byte
      <3> QED
        BY <3>1, XorGroup
    <2> QED
      BY <2>1, <2>2, <2>3
  <1>2. \A i \in 1 .. 8 : x[i] \in Byte
    <2> TAKE i \in 1 .. 8
    <2>1. CASE i <= 4
      <3>1. x[i] = Xor(w[i], d[i]) /\ w[i] \in Byte /\ d[i] \in Byte
        BY <2>1 DEF Looked, Word
      <3> QED
        BY <3>1, XorGroup
    <2>2. CASE ~(i <= 4)
      BY <2>2 DEF Looked
    <2> QED
      BY <2>1, <2>2
  <1>3. x \in [1 .. 8 -> Byte] /\ Left(h, x, q)
    <2>1. x = [i \in 1 .. 8 |-> x[i]]
      BY DEF Looked
    <2> HIDE DEF x
    <2>2. x \in [1 .. 8 -> Byte]
      BY <1>2, <2>1
    <2> QED
      BY <2>2 DEF x
  <1> HIDE DEF x
  <1>4. \A j \in 0 .. 8, k \in 0 .. 8 : q[j][k] \in Word
    BY <1>3 DEF Left
  <1>5. 0 \in T
    <2>1. q[0][0] = ZeroWord /\ Rest(w, 0) = w
      BY <1>3, RestShifts DEF Left
    <2>2. XorAll(ZeroWord, w) = w
      BY WordGroup
    <2> QED
      BY <2>1, <2>2
  <1>6. ASSUME NEW k \in 0 .. 7, k \in T PROVE k + 1 \in T
    <2> DEFINE a == q[k][k]  r == Rest(w, k)  e == d[k + 1]
    <2>1. a \in Word /\ r \in Word /\ e \in Byte /\ g[k] = XorAll(a, r)
      BY <1>4, <1>6, RestShifts
    <2>2. g[k + 1] = crc32_byte_update(g[k], e)
      OBVIOUS
    <2>3. Xor(r[1], e) = x[k + 1]
      BY <1>1
    <2>4. Rest(w, k + 1) = Shifted(r)
      BY RestShifts
    <2>5. ZeroUpdate(a) = q[k][k + 1]
      BY <1>3, LeftCarried
    <2>6. q[k + 1][k + 1] = XorAll(q[k][k + 1], crc32tab[x[k + 1]])
      <3>1. /\ k + 1 \in 1 .. 8 /\ k + 1 \in 0 .. 8 /\ k + 1 <= k + 1 /\ (k + 1) - 1 = k
            /\ (k + 1) - (k + 1) = 0
        OBVIOUS
      <3> QED
        BY <1>3, <3>1 DEF Left, EachCarries
    <2> HIDE DEF a, r, e
    <2>7. crc32_byte_update(XorAll(a, r), e) =
            XorAll(XorAll(ZeroUpdate(a), crc32tab[Xor(r[1], e)]), Shifted(r))
      BY <2>1, Carried
    <2>8. g[k + 1] = XorAll(q[k + 1][k + 1], Rest(w, k + 1))
      BY <2>1, <2>2, <2>3, <2>4, <2>5, <2>6, <2>7
    <2> QED
      BY <2>8
  <1> HIDE DEF T
  <1>7. 8 \in Nat /\ \A k \in 0 .. 8 - 1 : k \in T => k + 1 \in T
    BY <1>6
  <1>8. 8 \in T
    <2>1. \A k \in 0 .. 8 : k \in T
      BY <1>5, <1>7, BoundedInduction
    <2> QED
      BY <2>1
  <1>9. g[8] = XorAll(q[8][8], ZeroWord)
    BY <1>8, RestShifts DEF T
  <1>10. q[8][8] \in Word
    BY <1>4
  <1> QED
    BY <1>9, <1>10, WordGroup

LEMMA SlicesSum ==
  ASSUME NEW w \in Word, NEW d \in Seq(Byte), NEW g, Len(d) = 8, Bytewise(w, d, g)
  PROVE  crc32_slices(w, d) = g[8]
  <1> DEFINE eight == <<1, 2, 3, 4, 5, 6, 7, 8>>
             looked(sum, i) ==
               XorAll(sum, crc32_tables[9 - i][IF i <= 4 THEN Xor(w[i], d[i]) ELSE d[i]])
             Body(f, i) == IF i = 0 THEN ZeroWord ELSE looked(f[i - 1], eight[i])
             Chain(f) == f = [i \in 0 .. 8 |-> Body(f, i)]
             upto == CHOOSE f : Chain(f)
             x == Looked(w, d)
  <1>1. d \in [1 .. 8 -> Byte]
    <2>1. d \in [1 .. Len(d) -> Byte]
      BY LenProperties
    <2> QED
      BY <2>1
  <1>2. PICK h : EachCarries(h) /\ crc32_tables = [k \in 1 .. 8 |-> h[k - 1]]
    BY EightTables DEF EachCarries
  <1>3. \A i \in 1 .. 8 : x[i] = IF i <= 4 THEN Xor(w[i], d[i]) ELSE d[i]
    BY DEF Looked
  <1>4. x \in [1 .. 8 -> Byte]
    <2>1. x = [i \in 1 .. 8 |-> x[i]]
      BY DEF Looked
    <2> HIDE DEF x
    <2>2. ASSUME NEW i \in 1 .. 8 PROVE x[i] \in Byte
      <3>1. d[i] \in Byte
        BY <1>1
      <3>2. CASE i <= 4
        <4>1. w[i] \in Byte /\ x[i] = Xor(w[i], d[i])
          BY <1>3, <3>2 DEF Word
        <4> QED
          BY <3>1, <4>1, XorGroup
      <3>3. CASE ~(i <= 4)
        BY <1>3, <3>1, <3>3
      <3> QED
        BY <3>2, <3>3
    <2> QED
      BY <2>1, <2>2
  <1>5. PICK q : Left(h, x, q)
    <2>1. h \in [0 .. 7 -> Tables]
      BY <1>2 DEF EachCarries
    <2> HIDE DEF x
    <2> QED
      BY <1>4, <2>1, SomeLeft
  <1>6. g \in [0 .. 8 -> Word] /\ g[0] = w
        /\ \A i \in 1 .. 8 : g[i] = crc32_byte_update(g[i - 1], d[i])
    BY DEF Bytewise
  <1>7. g[8] = q[8][8]
    BY <1>1, <1>2, <1>5, <1>6, EightBytes, SMTT(60)
  <1>8. Len(eight) = 8 /\ \A i \in 1 .. 8 : eight[i] = i
    <2>1. /\ eight[1] = 1 /\ eight[2] = 2 /\ eight[3] = 3 /\ eight[4] = 4 /\ eight[5] = 5
          /\ eight[6] = 6 /\ eight[7] = 7 /\ eight[8] = 8 /\ Len(eight) = 8
      OBVIOUS
    <2> HIDE DEF eight
    <2>2. \A i \in 1 .. 8 : i = 1 \/ i = 2 \/ i = 3 \/ i = 4 \/ i = 5 \/ i = 6 \/ i = 7 \/ i = 8
      OBVIOUS
    <2> QED
      BY <2>1, <2>2
  <1>9. crc32_slices(w, d) = upto[8]
    BY <1>8 DEF crc32_slices, Along, ZeroWord
  <1>10. ASSUME NEW i \in 1 .. 8 PROVE looked(q[i - 1][8], i) = q[i][8]
    <2>1. 9 - i \in 1 .. 8 /\ (9 - i) - 1 = 8 - i /\ i <= 8 /\ 8 \in 0 .. 8
      OBVIOUS
    <2>2. crc32_tables[9 - i] = h[8 - i]
      BY <1>2, <2>1
    <2>3. looked(q[i - 1][8], i) = XorAll(q[i - 1][8], h[8 - i][x[i]])
      BY <1>3, <2>2
    <2>4. q[i][8] = XorAll(q[i - 1][8], h[8 - i][x[i]])
      BY <1>5, <2>1 DEF Left
    <2> QED
      BY <2>3, <2>4
  <1> DEFINE s == [i \in 0 .. 8 |-> q[i][8]]
  <1>11. s[0] = ZeroWord /\ s[8] = q[8][8] /\ \A i \in 1 .. 8 : s[i] = looked(s[i - 1], eight[i])
    <2>1. q[0][8] = ZeroWord
      BY <1>5 DEF Left
    <2>2. \A i \in 0 .. 8 : s[i] = q[i][8]
      OBVIOUS
    <2> HIDE DEF s, looked, eight
    <2> QED
      BY <1>8, <1>10, <2>1, <2>2
  <1>12. s = [i \in 0 .. 8 |-> s[i]]
    OBVIOUS
  <1> HIDE DEF s, looked, eight
  <1>13. Chain(s)
    BY <1>11, <1>12
  <1>14. Chain(upto)
    <2> HIDE DEF Chain
    <2> QED
      BY <1>13
  <1> HIDE DEF upto
  <1>15. \A i \in 0 .. 8 : upto[i] = Body(upto, i)
    <2> HIDE DEF Body
    <2> QED
      BY <1>14
  <1>16. \A i \in 0 .. 8 : upto[i] = s[i]
    <2>1. upto[0] = s[0]
      BY <1>11, <1>15
    <2>2. \A i \in 0 .. 8 - 1 : upto[i] = s[i] => upto[i + 1] = s[i + 1]
      <3> TAKE i \in 0 .. 8 - 1
      <3>1. i + 1 \in 1 .. 8 /\ i + 1 \in 0 .. 8 /\ (i + 1) - 1 = i /\ i + 1 # 0
        OBVIOUS
      <3> HIDE DEF Chain
      <3> QED
        BY <1>11, <1>15, <3>1
    <2>3. 8 \in Nat
      OBVIOUS
    <2> HIDE DEF Chain
    <2> QED
      BY <2>1, <2>2, <2>3, SameChain
  <1>17. upto[8] = s[8]
    <2>1. 8 \in 0 .. 8
      OBVIOUS
    <2> QED
      BY <1>16, <2>1
  <1> HIDE DEF Chain
  <1> QED
    BY <1>7, <1>9, <1>11, <1>17

\* The sum of a part is the sum of the whole, from where the part begins to where it
\* ends.
LEMMA PartSum ==
  ASSUME NEW crc \in Word, NEW s \in Seq(Byte), NEW g, Bytewise(crc, s, g),
         NEW m \in 0 .. Len(s), NEW n \in m .. Len(s)
  PROVE  LET part == SubSeq(s, m + 1, n)
             f == [i \in 0 .. n - m |-> g[m + i]]
         IN  /\ part \in Seq(Byte) /\ Len(part) = n - m
             /\ g[m] \in Word /\ Bytewise(g[m], part, f)
  <1> DEFINE part == SubSeq(s, m + 1, n)  f == [i \in 0 .. n - m |-> g[m + i]]
  <1>1. Len(s) \in Nat /\ m \in Nat /\ n \in Nat /\ m <= n /\ n <= Len(s)
    OBVIOUS
  <1>2. part \in Seq(Byte) /\ Len(part) = n - m /\ \A i \in 1 .. n - m : part[i] = s[m + i]
    OBVIOUS
  <1> HIDE DEF part
  <1>3. /\ g \in [0 .. Len(s) -> Word]
        /\ \A i \in 1 .. Len(s) : g[i] = crc32_byte_update(g[i - 1], s[i])
    BY DEF Bytewise
  <1>4. f \in [0 .. n - m -> Word] /\ f[0] = g[m] /\ g[m] \in Word
    BY <1>1, <1>3
  <1>5. ASSUME NEW i \in 1 .. n - m PROVE f[i] = crc32_byte_update(f[i - 1], part[i])
    <2>1. m + i \in 1 .. Len(s) /\ (m + i) - 1 = m + (i - 1) /\ i \in 0 .. n - m /\ i - 1 \in 0 .. n - m
      BY <1>1
    <2>2. f[i] = g[m + i] /\ f[i - 1] = g[(m + i) - 1] /\ part[i] = s[m + i]
      BY <1>2, <2>1
    <2> HIDE DEF f
    <2> QED
      BY <1>3, <2>1, <2>2
  <1> HIDE DEF f
  <1>6. Bytewise(g[m], part, f)
    BY <1>2, <1>4, <1>5 DEF Bytewise
  <1> QED
    BY <1>2, <1>4, <1>6 DEF part, f

\* The sum over eight bytes at a time, with the rest one at a time, is the sum over one
\* at a time, whatever the bytes (crc32_update, crctab_slicing.h).
THEOREM SlicingIsRight ==
  \A crc \in Word, data \in Seq(Byte) :
    crc32_update(crc, data) = Along(crc32_byte_update, crc, data)
  <1> TAKE crc \in Word, data \in Seq(Byte)
  <1> DEFINE eights == Len(data) \div 8
             part(k) == SubSeq(data, 8 * k - 7, 8 * k)
             rest == SubSeq(data, 8 * eights + 1, Len(data))
             Body(f, k) == IF k = 0 THEN crc ELSE crc32_slices(f[k - 1], part(k))
             Chain(f) == f = [k \in 0 .. eights |-> Body(f, k)]
             sliced == CHOOSE f : Chain(f)
  <1>1. crc32_update(crc, data) = Along(crc32_byte_update, sliced[eights], rest)
    BY DEF crc32_update
  <1>2. PICK g : Bytewise(crc, data, g)
    BY SomeSums
  <1>3. Along(crc32_byte_update, crc, data) = g[Len(data)]
    BY <1>2, LastSum
  <1>4. eights \in Nat /\ 8 * eights <= Len(data) /\ Len(data) \in Nat
    OBVIOUS
  <1> HIDE DEF eights
  <1>5. ASSUME NEW k \in 1 .. eights PROVE crc32_slices(g[8 * (k - 1)], part(k)) = g[8 * k]
    <2> DEFINE m == 8 * (k - 1)  n == 8 * k  f == [i \in 0 .. n - m |-> g[m + i]]
               p == SubSeq(data, m + 1, n)
    <2>1. m \in 0 .. Len(data) /\ n \in m .. Len(data) /\ n - m = 8 /\ m + 1 = 8 * k - 7
          /\ m + 8 = n
      BY <1>4
    <2>2. p = part(k)
      BY <2>1
    <2> HIDE DEF m, n
    <2>3. p \in Seq(Byte) /\ Len(p) = n - m /\ g[m] \in Word /\ Bytewise(g[m], p, f)
      BY <1>2, <2>1, PartSum
    <2>4. f[8] = g[n]
      BY <2>1
    <2> HIDE DEF p, f, part
    <2>5. crc32_slices(g[m], p) = f[8]
      BY <2>1, <2>3, SlicesSum
    <2> QED
      BY <2>2, <2>4, <2>5 DEF m, n
  <1> DEFINE t == [k \in 0 .. eights |-> g[8 * k]]
  <1>6. t[0] = crc /\ t[eights] = g[8 * eights]
        /\ \A k \in 1 .. eights : t[k] = crc32_slices(t[k - 1], part(k))
    <2>1. \A k \in 0 .. eights : t[k] = g[8 * k]
      OBVIOUS
    <2>2. g[8 * 0] = crc
      BY <1>2 DEF Bytewise
    <2> HIDE DEF t, part
    <2> QED
      BY <1>4, <1>5, <2>1, <2>2
  <1>7. t = [k \in 0 .. eights |-> t[k]]
    OBVIOUS
  <1> HIDE DEF t, part
  <1>8. Chain(t)
    BY <1>4, <1>6, <1>7
  <1>9. Chain(sliced)
    <2> HIDE DEF Chain
    <2> QED
      BY <1>8
  <1> HIDE DEF sliced
  <1>10. \A k \in 0 .. eights : sliced[k] = Body(sliced, k)
    <2> HIDE DEF Body
    <2> QED
      BY <1>9
  <1>11. \A k \in 0 .. eights : sliced[k] = t[k]
    <2>1. sliced[0] = t[0]
      BY <1>4, <1>6, <1>10
    <2>2. \A k \in 0 .. eights - 1 : sliced[k] = t[k] => sliced[k + 1] = t[k + 1]
      <3> TAKE k \in 0 .. eights - 1
      <3>1. k + 1 \in 1 .. eights /\ k + 1 \in 0 .. eights /\ (k + 1) - 1 = k /\ k + 1 # 0
        BY <1>4
      <3> HIDE DEF Chain
      <3> QED
        BY <1>6, <1>10, <3>1
    <2> HIDE DEF Chain
    <2> QED
      BY <1>4, <2>1, <2>2, SameChain
  <1> HIDE DEF Chain
  <1>12. sliced[eights] = g[8 * eights]
    BY <1>4, <1>6, <1>11
  <1>13. Along(crc32_byte_update, g[8 * eights], rest) = g[Len(data)]
    <2> DEFINE m == 8 * eights  n == Len(data)  f == [i \in 0 .. n - m |-> g[m + i]]
               p == SubSeq(data, m + 1, n)
    <2>1. m \in 0 .. Len(data) /\ n \in m .. Len(data) /\ n - m \in 0 .. n - m /\ m + (n - m) = n
      BY <1>4
    <2>2. p = rest
      OBVIOUS
    <2> HIDE DEF m, rest
    <2>3. p \in Seq(Byte) /\ Len(p) = n - m /\ g[m] \in Word /\ Bytewise(g[m], p, f)
      BY <1>2, <2>1, PartSum
    <2>4. f[n - m] = g[n]
      BY <2>1
    <2> HIDE DEF p, f, n
    <2>5. Along(crc32_byte_update, g[m], p) = f[Len(p)]
      BY <2>3, LastSum
    <2> QED
      BY <2>2, <2>3, <2>4, <2>5 DEF m, n
  <1> QED
    BY <1>1, <1>3, <1>12, <1>13

----------------------------------------------------------------------------
(* Folding over sequences of any length.                                   *)

\* What holds at the start and is kept by every step holds all along.
LEMMA ChainStays ==
  ASSUME NEW S, NEW n \in Nat, NEW f, f[0] \in S, \A i \in 1 .. n : f[i - 1] \in S => f[i] \in S
  PROVE  \A i \in 0 .. n : f[i] \in S
  <1> DEFINE T == {i \in 0 .. n : f[i] \in S}
  <1>1. 0 \in T
    OBVIOUS
  <1>2. \A i \in 0 .. n - 1 : i \in T => i + 1 \in T
    <2> TAKE i \in 0 .. n - 1
    <2>1. i + 1 \in 1 .. n /\ (i + 1) - 1 = i
      OBVIOUS
    <2> QED
      BY <2>1
  <1> HIDE DEF T
  <1>3. \A i \in 0 .. n : i \in T
    BY <1>1, <1>2, BoundedInduction
  <1> QED
    BY <1>3 DEF T

LEMMA SeqElements ==
  ASSUME NEW S, NEW s \in Seq(S)
  PROVE  /\ Len(s) \in Nat /\ DOMAIN s = 1 .. Len(s) /\ \A i \in 1 .. Len(s) : s[i] \in S
         /\ s \in [1 .. Len(s) -> S]
  BY LenProperties

LEMMA FunctionIsSeq ==
  ASSUME NEW S, NEW n \in Nat, NEW s \in [1 .. n -> S]
  PROVE  s \in Seq(S) /\ Len(s) = n
  OBVIOUS

LEMMA Joined ==
  ASSUME NEW S, NEW s \in Seq(S), NEW t \in Seq(S)
  PROVE  /\ s \o t \in Seq(S) /\ Len(s \o t) = Len(s) + Len(t)
         /\ \A i \in 1 .. Len(s) + Len(t) :
              (s \o t)[i] = IF i <= Len(s) THEN s[i] ELSE t[i - Len(s)]
  BY ConcatProperties

\* FlattenSeq joins its parts one after another.
LEMMA Flattening ==
  ASSUME NEW S, NEW parts \in Seq(Seq(S))
  PROVE  \E g : /\ g \in [0 .. Len(parts) -> Seq(S)] /\ g[0] = << >>
                /\ \A i \in 1 .. Len(parts) : g[i] = g[i - 1] \o parts[i]
                /\ FlattenSeq(parts) = g[Len(parts)]
  <1> DEFINE n == Len(parts)
             After(x, i) == x \o parts[i]
             step == [i \in 1 .. n |-> [x \in Seq(S) |-> After(x, i)]]
             Body(f, i) == IF i = 1 THEN parts[i] ELSE After(f[i - 1], i)
             Chain(f) == f = [i \in 1 .. n |-> Body(f, i)]
             flat == CHOOSE f : Chain(f)
  <1>1. n \in Nat /\ \A i \in 1 .. n : parts[i] \in Seq(S)
    BY SeqElements
  <1>2. \A i \in 1 .. n, x \in Seq(S) : After(x, i) \in Seq(S)
    BY <1>1
  <1>3. << >> \in Seq(S) /\ \A i \in 1 .. n : << >> \o parts[i] = parts[i]
    BY <1>1
  <1>4. n = 0 => parts = << >> /\ FlattenSeq(parts) = << >>
    BY DEF FlattenSeq
  <1>5. n # 0 => FlattenSeq(parts) = flat[n]
    BY DEF FlattenSeq
  <1>a. \A i \in 1 .. n : After(<< >>, i) = parts[i]
    BY <1>3
  <1> HIDE DEF After
  <1>6. step \in Moves(Seq(S), n) /\ \A i \in 1 .. n, x \in Seq(S) : step[i][x] = After(x, i)
    BY <1>2 DEF Moves
  <1> HIDE DEF step, n
  <1>7. PICK g : Leads(Seq(S), n, << >>, step, g)
    BY <1>1, <1>3, <1>6, Recursion
  <1>8. /\ g \in [0 .. n -> Seq(S)] /\ g[0] = << >>
        /\ \A i \in 1 .. n : g[i] = After(g[i - 1], i)
    <2>1. g \in [0 .. n -> Seq(S)] /\ g[0] = << >> /\ \A i \in 1 .. n : g[i] = step[i][g[i - 1]]
      BY <1>7 DEF Leads
    <2>2. \A i \in 1 .. n : g[i] = After(g[i - 1], i)
      <3> TAKE i \in 1 .. n
      <3>1. i - 1 \in 0 .. n
        BY <1>1
      <3> QED
        BY <1>6, <2>1, <3>1
    <2> QED
      BY <2>1, <2>2
  <1>9. CASE n = 0
    BY <1>4, <1>8, <1>9 DEF After, n
  <1>10. CASE n # 0
    <2> DEFINE h == [i \in 1 .. n |-> g[i]]
    <2>1. Chain(h)
      <3>1. \A i \in 1 .. n : h[i] = Body(h, i)
        <4> TAKE i \in 1 .. n
        <4>1. CASE i = 1
          BY <1>a, <1>8, <4>1
        <4>2. CASE i # 1
          <5>1. i - 1 \in 1 .. n
            BY <1>1, <4>2
          <5> QED
            BY <1>8, <4>2, <5>1
        <4> QED
          BY <4>1, <4>2
      <3>2. h = [i \in 1 .. n |-> h[i]]
        OBVIOUS
      <3> HIDE DEF h, Body
      <3> QED
        BY <3>1, <3>2
    <2>2. h[1] = g[1] /\ 1 \in 1 .. n
      BY <1>1, <1>10
    <2>3. \A i \in 1 .. n : h[i] = g[i]
      OBVIOUS
    <2> HIDE DEF h
    <2>4. Chain(flat)
      <3> HIDE DEF Chain
      <3> QED
        BY <2>1
    <2> HIDE DEF flat
    <2>5. \A i \in 1 .. n : flat[i] = Body(flat, i)
      <3> HIDE DEF Body
      <3> QED
        BY <2>4
    <2> DEFINE p == [i \in 0 .. n |-> IF i = 0 THEN << >> ELSE flat[i]]
    <2>6. p[0] = g[0] /\ \A i \in 0 .. n - 1 : p[i] = g[i] => p[i + 1] = g[i + 1]
      <3>1. p[0] = g[0]
        BY <1>1, <1>8
      <3>2. ASSUME NEW i \in 0 .. n - 1, p[i] = g[i] PROVE p[i + 1] = g[i + 1]
        <4>1. i + 1 \in 1 .. n /\ (i + 1) - 1 = i /\ p[i + 1] = flat[i + 1]
          BY <1>1
        <4>2. g[i + 1] = After(g[i], i + 1)
          BY <1>8, <4>1
        <4>3. flat[i + 1] = Body(flat, i + 1)
          BY <2>5, <4>1
        <4>4. CASE i = 0
          BY <1>a, <1>8, <4>1, <4>2, <4>3, <4>4
        <4>5. CASE i # 0
          <5>1. p[i] = flat[i] /\ i + 1 # 1
            BY <1>1, <4>5
          <5> QED
            BY <3>2, <4>1, <4>2, <4>3, <5>1
        <4> QED
          BY <4>4, <4>5
      <3> QED
        BY <3>1, <3>2
    <2>7. p[n] = flat[n]
      BY <1>1, <1>10
    <2> HIDE DEF p
    <2>8. \A i \in 0 .. n : p[i] = g[i]
      BY <1>1, <2>6, SameChain
    <2>9. n \in 0 .. n
      BY <1>1
    <2>10. FlattenSeq(parts) = g[n]
      BY <1>5, <1>10, <2>7, <2>8, <2>9
    <2> QED
      BY <1>8, <2>10 DEF After, n
  <1> QED
    BY <1>9, <1>10

LEMMA FlattenAll ==
  ASSUME NEW S, NEW parts \in Seq(Seq(S))
  PROVE  FlattenSeq(parts) \in Seq(S)
  <1>1. PICK g : g \in [0 .. Len(parts) -> Seq(S)] /\ FlattenSeq(parts) = g[Len(parts)]
    BY Flattening
  <1>2. Len(parts) \in 0 .. Len(parts)
    BY SeqElements
  <1> QED
    BY <1>1, <1>2

\* Parts of one element each.
LEMMA FlattenOnes ==
  ASSUME NEW S, NEW s \in Seq(S)
  PROVE  FlattenSeq([i \in 1 .. Len(s) |-> <<s[i]>>]) = s
  <1> DEFINE n == Len(s)
             parts == [i \in 1 .. n |-> <<s[i]>>]
  <1>1. n \in Nat /\ \A i \in 1 .. n : s[i] \in S
    BY SeqElements
  <1> HIDE DEF n
  <1>2. parts \in Seq(Seq(S)) /\ Len(parts) = n /\ \A i \in 1 .. n : parts[i] = <<s[i]>>
    BY <1>1
  <1> HIDE DEF parts
  <1>3. PICK g : /\ g \in [0 .. n -> Seq(S)] /\ g[0] = << >>
                 /\ \A i \in 1 .. n : g[i] = g[i - 1] \o parts[i]
                 /\ FlattenSeq(parts) = g[n]
    BY <1>2, Flattening
  <1> DEFINE T == {i \in 0 .. n : Len(g[i]) = i /\ \A j \in 1 .. i : g[i][j] = s[j]}
  <1>4. 0 \in T
    <2>1. Len(g[0]) = 0 /\ \A j \in 1 .. 0 : FALSE
      BY <1>3
    <2>2. 0 \in 0 .. n
      BY <1>1
    <2> QED
      BY <2>1, <2>2
  <1>5. ASSUME NEW i \in 0 .. n - 1, i \in T PROVE i + 1 \in T
    <2>1. i + 1 \in 1 .. n /\ (i + 1) - 1 = i
      BY <1>1
    <2>2. g[i] \in Seq(S) /\ Len(g[i]) = i /\ \A j \in 1 .. i : g[i][j] = s[j]
      BY <1>1, <1>3, <1>5
    <2>3. g[i + 1] = g[i] \o <<s[i + 1]>>
      BY <1>2, <1>3, <2>1
    <2>4. s[i + 1] \in S
      BY <1>1, <2>1
    <2> DEFINE u == g[i]  x == s[i + 1]
    <2>5. u \in Seq(S) /\ Len(u) = i /\ x \in S /\ \A j \in 1 .. i : u[j] = s[j]
      BY <2>2, <2>4
    <2> HIDE DEF u
    <2>6. Len(u \o <<x>>) = i + 1 /\ \A j \in 1 .. i + 1 : (u \o <<x>>)[j] = s[j]
      BY <2>5
    <2>7. g[i + 1] = u \o <<x>> /\ i + 1 \in 0 .. n
      BY <1>1, <2>3 DEF u
    <2> QED
      BY <2>6, <2>7
  <1> HIDE DEF T
  <1>6. \A i \in 0 .. n - 1 : i \in T => i + 1 \in T
    BY <1>5
  <1>7. \A i \in 0 .. n : i \in T
    BY <1>1, <1>4, <1>6, BoundedInduction
  <1>8. n \in 0 .. n
    BY <1>1
  <1>9. Len(g[n]) = n /\ \A j \in 1 .. n : g[n][j] = s[j]
    BY <1>7, <1>8 DEF T
  <1>10. g[n] \in Seq(S)
    BY <1>3, <1>8
  <1> DEFINE u == g[n]
  <1>11. u \in Seq(S) /\ Len(u) = Len(s) /\ \A j \in 1 .. Len(s) : u[j] = s[j]
    BY <1>9, <1>10 DEF n
  <1> HIDE DEF u
  <1>12. u = s
    BY <1>11, SeqEqual
  <1> QED
    BY <1>3, <1>12 DEF n, parts, u

----------------------------------------------------------------------------
(* The checks are bytes.                                                   *)

Entry(k) == [1 .. k -> Byte]

\* The entries of a table are as wide as those it is made of.
LEMMA TableTyped ==
  ASSUME NEW k \in Nat, NEW powers, \A i \in 1 .. 8 : powers[i] \in Entry(k)
  PROVE  Table(powers) \in [Byte -> Entry(k)]
  <1> SUFFICES ASSUME NEW b \in Byte PROVE Table(powers)[b] \in Entry(k)
    BY DEF Table, Byte
  <1> DEFINE zero == [j \in DOMAIN powers[1] |-> 0]
             n == 8
             After(x, i) == XorAll(x, Part(powers, b, i))
             step == [i \in 1 .. n |-> [x \in Entry(k) |-> After(x, i)]]
             Body(f, i) == IF i = 0 THEN zero ELSE After(f[i - 1], i)
             Chain(f) == f = [i \in 0 .. n |-> Body(f, i)]
             upto == CHOOSE f : Chain(f)
  <1>1. n \in Nat
    OBVIOUS
  <1>2. zero \in Entry(k) /\ \A i \in 1 .. n, x \in Entry(k) : After(x, i) \in Entry(k)
    <2>1. 1 \in 1 .. 8 /\ 0 \in Byte
      BY DEF Byte
    <2>2. zero \in Entry(k)
      BY <2>1 DEF Entry
    <2>3. ASSUME NEW i \in 1 .. n, NEW x \in Entry(k) PROVE After(x, i) \in Entry(k)
      <3> DEFINE bit == Bit(b, Weight[i])  p == powers[i]  part == Part(powers, b, i)
      <3>1. bit \in 0 .. 1 /\ p \in Entry(k)
        BY WeightIs, SumOfBits
      <3>2. part = [j \in DOMAIN p |-> bit * p[j]]
        BY DEF Part
      <3> HIDE DEF bit, p, part
      <3>3. part \in Entry(k)
        <4>1. CASE bit = 0
          <5>1. \A y \in Byte : 0 * y = 0
            BY DEF Byte
          <5>2. DOMAIN p = 1 .. k /\ \A j \in 1 .. k : p[j] \in Byte
            BY <3>1 DEF Entry
          <5>3. part = [j \in 1 .. k |-> 0 * p[j]]
            BY <3>2, <4>1, <5>2
          <5>4. part = [j \in 1 .. k |-> 0]
            BY <5>1, <5>2, <5>3
          <5> QED
            BY <2>1, <5>4 DEF Entry
        <4>2. CASE bit = 1
          <5>1. \A y \in Byte : 1 * y = y
            BY DEF Byte
          <5>2. DOMAIN p = 1 .. k /\ \A j \in 1 .. k : p[j] \in Byte
            BY <3>1 DEF Entry
          <5>3. part = [j \in 1 .. k |-> 1 * p[j]]
            BY <3>2, <4>2, <5>2
          <5>4. part = [j \in 1 .. k |-> p[j]]
            BY <5>1, <5>2, <5>3
          <5> QED
            BY <5>2, <5>4 DEF Entry
        <4> QED
          BY <3>1, <4>1, <4>2
      <3>4. \A j \in 1 .. k : Xor(x[j], part[j]) \in Byte
        BY <3>3, XorBits DEF Entry
      <3>5. XorAll(x, part) \in Entry(k)
        BY <3>4 DEF XorAll, Entry
      <3> QED
        BY <3>5 DEF part
    <2> QED
      BY <2>2, <2>3
  <1>3. Table(powers)[b] = upto[n]
    BY DEF Table, Byte, Part
  <1> HIDE DEF n, After, zero
  <1>4. step \in Moves(Entry(k), n) /\ \A i \in 1 .. n, x \in Entry(k) : step[i][x] = After(x, i)
    BY <1>1, <1>2 DEF Moves
  <1> HIDE DEF step
  <1>5. PICK g : Leads(Entry(k), n, zero, step, g)
    BY <1>1, <1>2, <1>4, Recursion
  <1>6. g \in [0 .. n -> Entry(k)] /\ g[0] = zero /\ \A i \in 1 .. n : g[i] = step[i][g[i - 1]]
    BY <1>5 DEF Leads
  <1>7. \A i \in 1 .. n : g[i] = After(g[i - 1], i)
    <2> TAKE i \in 1 .. n
    <2>1. i - 1 \in 0 .. n
      BY <1>1, <1>2
    <2> QED
      BY <1>4, <1>6, <2>1
  <1>8. Chain(g)
    <2>1. g = [i \in 0 .. n |-> g[i]]
      BY <1>6
    <2>2. \A i \in 0 .. n : g[i] = Body(g, i)
      <3> TAKE i \in 0 .. n
      <3>1. CASE i = 0
        BY <1>6, <3>1
      <3>2. CASE i # 0
        <4>1. i \in 1 .. n
          BY <1>1, <1>2, <3>2
        <4> QED
          BY <1>7, <3>2, <4>1
      <3> QED
        BY <3>1, <3>2
    <2> HIDE DEF Body
    <2> QED
      BY <2>1, <2>2
  <1>9. Chain(upto)
    <2> HIDE DEF Chain
    <2> QED
      BY <1>8
  <1> HIDE DEF upto
  <1>10. \A i \in 0 .. n : upto[i] = Body(upto, i)
    <2> HIDE DEF Body
    <2> QED
      BY <1>9
  <1> HIDE DEF Chain
  <1>11. upto[0] \in Entry(k) /\ \A i \in 1 .. n : upto[i - 1] \in Entry(k) => upto[i] \in Entry(k)
    <2>1. upto[0] \in Entry(k)
      BY <1>1, <1>2, <1>10
    <2>2. ASSUME NEW i \in 1 .. n, upto[i - 1] \in Entry(k) PROVE upto[i] \in Entry(k)
      <3>1. i \in 0 .. n /\ i # 0
        BY <1>1, <1>2
      <3>2. upto[i] = After(upto[i - 1], i)
        BY <1>10, <3>1
      <3> QED
        BY <1>1, <1>2, <2>2, <3>2
    <2> QED
      BY <2>1, <2>2
  <1>12. upto[n] \in Entry(k)
    <2>1. n \in 0 .. n
      BY <1>1, <1>2
    <2> QED
      BY <1>1, <1>2, <1>11, <2>1, ChainStays
  <1> QED
    BY <1>3, <1>12

LEMMA Base16 == crc16tab \in [Byte -> Entry(2)]
  <1> DEFINE p1 == <<16, 33>>  p2 == <<32, 66>>  p3 == <<64, 132>>  p4 == <<129, 8>>
             p5 == <<18, 49>>  p6 == <<36, 98>>  p7 == <<72, 196>>  p8 == <<145, 136>>
             p == <<p1, p2, p3, p4, p5, p6, p7, p8>>
  <1>1. /\ p1 \in Entry(2) /\ p2 \in Entry(2) /\ p3 \in Entry(2) /\ p4 \in Entry(2)
        /\ p5 \in Entry(2) /\ p6 \in Entry(2) /\ p7 \in Entry(2) /\ p8 \in Entry(2)
    BY DEF Entry, Byte
  <1>2. crc16tab = Table(p)
    BY DEF crc16tab
  <1> HIDE DEF p1, p2, p3, p4, p5, p6, p7, p8
  <1>3. /\ p[1] \in Entry(2) /\ p[2] \in Entry(2) /\ p[3] \in Entry(2) /\ p[4] \in Entry(2)
        /\ p[5] \in Entry(2) /\ p[6] \in Entry(2) /\ p[7] \in Entry(2) /\ p[8] \in Entry(2)
    BY <1>1
  <1>4. \A i \in 1 .. 8 : i = 1 \/ i = 2 \/ i = 3 \/ i = 4 \/ i = 5 \/ i = 6 \/ i = 7 \/ i = 8
    OBVIOUS
  <1>5. \A i \in 1 .. 8 : p[i] \in Entry(2)
    BY <1>3, <1>4
  <1>6. 2 \in Nat
    OBVIOUS
  <1> HIDE DEF p
  <1> QED
    BY <1>2, <1>5, <1>6, TableTyped

LEMMA Update16 ==
  ASSUME NEW crc \in Entry(2), NEW c \in Byte
  PROVE  crc16_update(crc, c) \in Entry(2)
  <1> DEFINE t == crc16tab[crc[1]]  a == Xor(t[1], crc[2])  b == Xor(t[2], c)
  <1>1. crc[1] \in Byte /\ crc[2] \in Byte
    BY DEF Entry
  <1>2. t \in Entry(2)
    BY <1>1, Base16
  <1>3. crc16_update(crc, c) = <<a, b>>
    BY DEF crc16_update
  <1> HIDE DEF t
  <1>4. t[1] \in Byte /\ t[2] \in Byte
    BY <1>2 DEF Entry
  <1>5. a \in Byte /\ b \in Byte
    BY <1>1, <1>4, XorBits
  <1> HIDE DEF a, b
  <1>6. <<a, b>> \in Entry(2)
    BY <1>5 DEF Entry
  <1> QED
    BY <1>3, <1>6

LEMMA Crc16Bytes ==
  ASSUME NEW data \in Seq(Byte)
  PROVE  Crc16(data) \in Seq(Byte) /\ Len(Crc16(data)) = 2
  <1> DEFINE q == data \o <<0, 0>>
             zero == <<0, 0>>
             n == Len(q)
             After(x, i) == crc16_update(x, q[i])
             step == [i \in 1 .. n |-> [x \in Entry(2) |-> After(x, i)]]
             Body(f, i) == IF i = 0 THEN zero ELSE After(f[i - 1], i)
             Chain(f) == f = [i \in 0 .. n |-> Body(f, i)]
             upto == CHOOSE f : Chain(f)
  <1>0. q \in Seq(Byte)
    <2>1. 0 \in Byte
      BY DEF Byte
    <2> QED
      BY <2>1
  <1>3. Crc16(data) = upto[n]
    BY DEF Crc16, Along
  <1> HIDE DEF q
  <1>1. n \in Nat
    BY <1>0
  <1>2. zero \in Entry(2) /\ \A i \in 1 .. n, x \in Entry(2) : After(x, i) \in Entry(2)
    <2>1. zero \in Entry(2)
      BY DEF Entry, Byte
    <2>2. \A i \in 1 .. n : q[i] \in Byte
      BY <1>0
    <2> QED
      BY <2>1, <2>2, Update16
  <1> HIDE DEF n, After, zero
  <1>4. step \in Moves(Entry(2), n) /\ \A i \in 1 .. n, x \in Entry(2) : step[i][x] = After(x, i)
    BY <1>1, <1>2 DEF Moves
  <1> HIDE DEF step
  <1>5. PICK g : Leads(Entry(2), n, zero, step, g)
    BY <1>1, <1>2, <1>4, Recursion
  <1>6. g \in [0 .. n -> Entry(2)] /\ g[0] = zero /\ \A i \in 1 .. n : g[i] = step[i][g[i - 1]]
    BY <1>5 DEF Leads
  <1>7. \A i \in 1 .. n : g[i] = After(g[i - 1], i)
    <2> TAKE i \in 1 .. n
    <2>1. i - 1 \in 0 .. n
      BY <1>1, <1>2
    <2> QED
      BY <1>4, <1>6, <2>1
  <1>8. Chain(g)
    <2>1. g = [i \in 0 .. n |-> g[i]]
      BY <1>6
    <2>2. \A i \in 0 .. n : g[i] = Body(g, i)
      <3> TAKE i \in 0 .. n
      <3>1. CASE i = 0
        BY <1>6, <3>1
      <3>2. CASE i # 0
        <4>1. i \in 1 .. n
          BY <1>1, <1>2, <3>2
        <4> QED
          BY <1>7, <3>2, <4>1
      <3> QED
        BY <3>1, <3>2
    <2> HIDE DEF Body
    <2> QED
      BY <2>1, <2>2
  <1>9. Chain(upto)
    <2> HIDE DEF Chain
    <2> QED
      BY <1>8
  <1> HIDE DEF upto
  <1>10. \A i \in 0 .. n : upto[i] = Body(upto, i)
    <2> HIDE DEF Body
    <2> QED
      BY <1>9
  <1> HIDE DEF Chain
  <1>11. upto[0] \in Entry(2) /\ \A i \in 1 .. n : upto[i - 1] \in Entry(2) => upto[i] \in Entry(2)
    <2>1. upto[0] \in Entry(2)
      BY <1>1, <1>2, <1>10
    <2>2. ASSUME NEW i \in 1 .. n, upto[i - 1] \in Entry(2) PROVE upto[i] \in Entry(2)
      <3>1. i \in 0 .. n /\ i # 0
        BY <1>1, <1>2
      <3>2. upto[i] = After(upto[i - 1], i)
        BY <1>10, <3>1
      <3> QED
        BY <1>1, <1>2, <2>2, <3>2
    <2> QED
      BY <2>1, <2>2
  <1>12. upto[n] \in Entry(2)
    <2>1. n \in 0 .. n
      BY <1>1, <1>2
    <2> QED
      BY <1>1, <1>2, <1>11, <2>1, ChainStays
  <1>13. 2 \in Nat /\ \A e \in Entry(2) : e \in Seq(Byte) /\ Len(e) = 2
    <2>1. 2 \in Nat
      OBVIOUS
    <2> QED
      BY <2>1, FunctionIsSeq DEF Entry
  <1> QED
    BY <1>3, <1>12, <1>13

LEMMA Crc32Words ==
  ASSUME NEW crc \in Word, NEW data \in Seq(Byte)
  PROVE  crc32_update(crc, data) \in Word
  <1>1. PICK g : Bytewise(crc, data, g)
    BY SomeSums
  <1> QED
    BY <1>1, LastSum, SlicingIsRight

LEMMA WordIsBytes ==
  ASSUME NEW w \in Word
  PROVE  w \in Seq(Byte) /\ Len(w) = 4
  <1>1. 4 \in Nat
    OBVIOUS
  <1> QED
    BY <1>1, FunctionIsSeq DEF Word

LEMMA InvertedWord ==
  ASSUME NEW w \in Word
  PROVE  Inverted(w) \in Word
  BY DEF Inverted, Word, Byte

LEMMA StartWord == Crc32Start \in Word
  <1>1. 255 \in Byte
    BY DEF Byte
  <1> QED
    BY <1>1, WordOf DEF Crc32Start

LEMMA Crc32Bytes ==
  ASSUME NEW p \in Seq(Byte)
  PROVE  Crc32(p) \in Word
  BY StartWord, Crc32Words, InvertedWord DEF Crc32

LEMMA OmenCrcBytes ==
  ASSUME NEW p \in Seq(Byte)
  PROVE  OmenCrc(p) \in Word
  <1>1. omen_header_crc_suffix \in Seq(Byte)
    BY DEF omen_header_crc_suffix, Byte
  <1>2. p \o omen_header_crc_suffix \in Seq(Byte)
    BY <1>1
  <1> QED
    BY <1>2, Crc32Bytes DEF OmenCrc

LEMMA CheckBytes ==
  ASSUME NEW f, NEW data \in Seq(Byte), NEW ending \in Byte
  PROVE  /\ DataCheck(f, data, ending) \in Seq(Byte)
         /\ Len(DataCheck(f, data, ending)) \in {2, 4}
  <1>1. Append(data, ending) \in Seq(Byte)
    OBVIOUS
  <1>2. CASE f.style = "hex"
    BY <1>1, <1>2, Crc16Bytes DEF DataCheck
  <1>3. CASE f.style # "hex"
    <2> DEFINE w == crc32_update(Crc32Start, data)
    <2>1. w \in Word
      BY StartWord, Crc32Words
    <2>2. crc32_byte_update(w, ending) \in Word
      BY <2>1, ByteUpdate
    <2>3. Inverted(crc32_byte_update(w, ending)) \in Word
      BY <2>2, InvertedWord
    <2> QED
      BY <1>3, <2>3, WordIsBytes DEF DataCheck
  <1> QED
    BY <1>2, <1>3

----------------------------------------------------------------------------
(* What goes on the line.                                                  *)

Formats == [style : Styles, ctl : BOOLEAN, iac : BOOLEAN]

\* Whether the byte c may follow last on the line, in the format f.
Fits(f, last, c) ==
  /\ IsFlow(c) => c = XON /\ last = LF
  /\ c # DLE
  /\ f.style \in SevenBit => c < 128
  /\ Low(c) = CR /\ Low(last) = AT => f.style \in SevenBit
  /\ f.iac => c # IAC
  /\ f.ctl /\ IsControl(c) => c \in {ZDLE, SO, CR, LF, XON}

Pairs(f) == {x \in Byte \X Byte : Fits(f, x[1], x[2])}

\* The pairs R of neighbours are all that f lets through; MobyTurbo lets everything.
Covers(f, R) == Pairs(f) \subseteq R /\ (f.style = "moby" => Byte \X Byte \subseteq R)

\* What may follow any byte.
Calm(R) == {c \in Byte : \A last \in Byte : <<last, c>> \in R}

\* What has been sent, when it starts with the byte a and neighbours are in R.
Sendings(R, a) ==
  {s \in [wire : Seq(Byte), previous : -1 .. 127] :
     /\ s.wire # << >> => s.previous = Low(s.wire[Len(s.wire)]) /\ s.wire[1] = a
     /\ \A i \in 2 .. Len(s.wire) : <<s.wire[i - 1], s.wire[i]>> \in R}

Begun(R, a) == {s \in Sendings(R, a) : s.wire # << >>}

LEMMA LowByte ==
  ASSUME NEW c \in Byte
  PROVE  Low(c) \in 0 .. 127 /\ Low(c) \in Byte /\ (c < 128 => Low(c) = c) /\ (c >= 128 => Low(c) = c - 128)
  BY DEF Low, Byte

\* Bytes that may follow what is there already.
LEMMA RawFits ==
  ASSUME NEW R, NEW a, NEW s \in Sendings(R, a), NEW p \in Seq(Byte), p # << >>,
         s.wire = << >> => p[1] = a,
         s.wire # << >> => <<s.wire[Len(s.wire)], p[1]>> \in R,
         \A i \in 2 .. Len(p) : <<p[i - 1], p[i]>> \in R
  PROVE  /\ raw(s, p) \in Begun(R, a)
         /\ raw(s, p).wire[Len(raw(s, p).wire)] = p[Len(p)]
  <1> DEFINE w == s.wire  v == w \o p  last == Low(p[Len(p)])
  <1>1. w \in Seq(Byte) /\ s.previous \in -1 .. 127
    BY DEF Sendings
  <1>2. Len(p) \in Nat /\ Len(p) > 0 /\ Len(w) \in Nat
    BY <1>1
  <1>3. /\ v \in Seq(Byte) /\ Len(v) = Len(w) + Len(p)
        /\ \A i \in 1 .. Len(w) + Len(p) : v[i] = IF i <= Len(w) THEN w[i] ELSE p[i - Len(w)]
    BY <1>1, Joined
  <1>4. raw(s, p) = [wire |-> v, previous |-> last]
    BY DEF raw, Last
  <1>5. \A i \in 2 .. Len(w) : <<w[i - 1], w[i]>> \in R
    BY DEF Sendings
  <1>6. w # << >> => w[1] = a /\ Len(w) > 0
    <2>1. w # << >> => w[1] = a
      BY DEF Sendings
    <2> HIDE DEF w
    <2>2. w # << >> => Len(w) > 0
      BY <1>1, EmptySeq
    <2> QED
      BY <2>1, <2>2
  <1>7. p[Len(p)] \in Byte
    BY <1>2
  <1>8. last \in -1 .. 127
    <2>1. \A c \in Byte : Low(c) \in -1 .. 127
      BY DEF Byte, Low
    <2> QED
      BY <1>7, <2>1
  <1>9. w = << >> => Len(w) = 0
    OBVIOUS
  <1> HIDE DEF w, v
  <1>10. v # << >> /\ v[Len(v)] = p[Len(p)]
    <2>1. Len(v) > 0 /\ Len(v) \in 1 .. Len(w) + Len(p) /\ ~(Len(v) <= Len(w))
          /\ Len(v) - Len(w) = Len(p)
      BY <1>2, <1>3
    <2> QED
      BY <1>3, <2>1
  <1>11. v[1] = a
    <2>1. 1 \in 1 .. Len(w) + Len(p)
      BY <1>2
    <2>2. CASE w = << >>
      <3>1. v[1] = p[1]
        BY <1>2, <1>3, <1>9, <2>1, <2>2
      <3> QED
        BY <2>2, <3>1 DEF w
    <2>3. CASE w # << >>
      <3>1. v[1] = w[1]
        BY <1>3, <1>6, <1>2, <2>1, <2>3
      <3> QED
        BY <1>6, <2>3, <3>1
    <2> QED
      BY <2>2, <2>3
  <1>12. ASSUME NEW i \in 2 .. Len(v) PROVE <<v[i - 1], v[i]>> \in R
    <2>1. i \in 1 .. Len(w) + Len(p) /\ i - 1 \in 1 .. Len(w) + Len(p) /\ i \in Nat
      BY <1>2, <1>3
    <2>2. CASE i <= Len(w)
      <3>1. v[i] = w[i] /\ v[i - 1] = w[i - 1] /\ i \in 2 .. Len(w)
        BY <1>2, <1>3, <2>1, <2>2
      <3> QED
        BY <1>5, <3>1
    <2>3. CASE i = Len(w) + 1
      <3>1. v[i] = p[1] /\ v[i - 1] = w[Len(w)] /\ Len(w) > 0
        BY <1>2, <1>3, <2>1, <2>3
      <3>2. w # << >>
        BY <1>9, <3>1
      <3> QED
        BY <3>1, <3>2 DEF w
    <2>4. CASE i > Len(w) + 1
      <3>1. v[i] = p[i - Len(w)] /\ v[i - 1] = p[(i - Len(w)) - 1] /\ i - Len(w) \in 2 .. Len(p)
        BY <1>2, <1>3, <2>1, <2>4
      <3> QED
        BY <3>1
    <2> QED
      BY <1>2, <2>1, <2>2, <2>3, <2>4
  <1> QED
    <2> DEFINE t == [wire |-> v, previous |-> last]
    <2>1. t \in [wire : Seq(Byte), previous : -1 .. 127] /\ t.wire = v /\ t.previous = last
      BY <1>3, <1>8
    <2>2. t \in Begun(R, a)
      BY <1>10, <1>11, <1>12, <2>1 DEF Begun, Sendings
    <2> QED
      BY <1>4, <1>10, <2>1, <2>2

LEMMA RawOne ==
  ASSUME NEW R, NEW a, NEW s \in Begun(R, a), NEW c \in Byte, <<s.wire[Len(s.wire)], c>> \in R
  PROVE  /\ raw(s, <<c>>) \in Begun(R, a)
         /\ raw(s, <<c>>).wire[Len(raw(s, <<c>>).wire)] = c
  <1> DEFINE p == <<c>>
  <1>1. p \in Seq(Byte) /\ p # << >> /\ Len(p) = 1 /\ p[1] = c /\ \A i \in 2 .. Len(p) : FALSE
    OBVIOUS
  <1>2. s \in Sendings(R, a) /\ s.wire # << >>
    BY DEF Begun
  <1> HIDE DEF p
  <1>3. raw(s, p) \in Begun(R, a) /\ raw(s, p).wire[Len(raw(s, p).wire)] = p[Len(p)]
    BY <1>1, <1>2, RawFits
  <1> QED
    BY <1>1, <1>3 DEF p

\* Bytes that may follow any byte.
LEMMA RawCalm ==
  ASSUME NEW R, NEW a, NEW s \in Sendings(R, a), NEW p \in Seq(Calm(R)), p # << >>,
         s.wire = << >> => p[1] = a
  PROVE  raw(s, p) \in Begun(R, a)
  <1>1. Len(p) \in Nat /\ Len(p) > 0 /\ \A i \in 1 .. Len(p) : p[i] \in Calm(R)
    OBVIOUS
  <1>2. Calm(R) \subseteq Byte /\ \A c \in Calm(R), last \in Byte : <<last, c>> \in R
    BY DEF Calm
  <1>3. p \in Seq(Byte)
    BY <1>2
  <1>4. s.wire # << >> => s.wire[Len(s.wire)] \in Byte
    BY DEF Sendings
  <1>5. \A i \in 2 .. Len(p) : p[i - 1] \in Byte /\ p[i] \in Calm(R)
    BY <1>1, <1>2
  <1>6. \A i \in 2 .. Len(p) : <<p[i - 1], p[i]>> \in R
    BY <1>2, <1>5
  <1>7. s.wire # << >> => <<s.wire[Len(s.wire)], p[1]>> \in R
    BY <1>1, <1>2, <1>4
  <1> QED
    BY <1>3, <1>6, <1>7, RawFits

LEMMA RawTwice ==
  ASSUME NEW s, s.wire \in Seq(Byte), NEW p \in Seq(Byte), NEW q \in Seq(Byte), q # << >>, p # << >>
  PROVE  raw(s, p \o q) = raw(raw(s, p), q)
  <1>1. p \o q # << >> /\ (p \o q)[Len(p \o q)] = q[Len(q)]
    <2>1. Len(p) \in Nat /\ Len(q) \in Nat /\ Len(q) > 0
      OBVIOUS
    <2>2. Len(p \o q) = Len(p) + Len(q)
      OBVIOUS
    <2>3. Len(p \o q) \in 1 .. Len(p) + Len(q) /\ ~(Len(p \o q) <= Len(p)) /\ Len(p \o q) - Len(p) = Len(q)
      BY <2>1, <2>2
    <2> QED
      BY <2>1, <2>2, <2>3, Joined
  <1>2. s.wire \o (p \o q) = (s.wire \o p) \o q
    <2> DEFINE w == s.wire
    <2>1. w \in Seq(Byte)
      OBVIOUS
    <2> HIDE DEF w
    <2>2. w \o (p \o q) = (w \o p) \o q
      BY <2>1, ConcatAssociative
    <2> QED
      BY <2>2 DEF w
  <1>3. raw(s, p).wire = s.wire \o p
    BY DEF raw
  <1> QED
    BY <1>1, <1>2, <1>3 DEF raw, Last

LEMMA ControlBytes ==
  ASSUME NEW c \in Byte
  PROVE  /\ IsControl(c) <=> c < 32 \/ c \in 128 .. 159
         /\ Toggled(c) \in Byte
         /\ IsControl(c) => Toggled(c) = c + 64
  BY DEF Byte, IsControl, Toggled

\* What no rule is about may follow anything.
LEMMA CalmByte ==
  ASSUME NEW f, NEW R, Covers(f, R), NEW c \in Byte,
         ~IsFlow(c) /\ c # DLE /\ c # IAC,
         f.style \in SevenBit => c < 128,
         Low(c) = CR => f.style \in SevenBit,
         f.ctl /\ IsControl(c) => c \in {ZDLE, SO}
  PROVE  c \in Calm(R)
  <1>1. \A last \in Byte : <<last, c>> \in Pairs(f)
    <2> TAKE last \in Byte
    <2> DEFINE x == <<last, c>>
    <2>1. x \in Byte \X Byte /\ x[1] = last /\ x[2] = c
      OBVIOUS
    <2> HIDE DEF x
    <2>2. Fits(f, last, c)
      BY DEF Fits
    <2>3. x \in Pairs(f)
      BY <2>1, <2>2 DEF Pairs
    <2> QED
      BY <2>3 DEF x
  <1> QED
    BY <1>1 DEF Covers, Calm

\* Letters, digits and punctuation.
LEMMA CalmPrintable ==
  ASSUME NEW f, NEW R, Covers(f, R), NEW c \in 32 .. 127
  PROVE  c \in Calm(R)
  <1>1. c \in Byte /\ ~IsFlow(c) /\ c # DLE /\ c # IAC /\ Low(c) # CR /\ c < 128 /\ ~IsControl(c)
    BY DEF Byte, IsFlow, Low, XON, XOFF, DLE, IAC, CR, IsControl
  <1> QED
    BY <1>1, CalmByte

LEMMA CalmQuotes ==
  ASSUME NEW f, NEW R, Covers(f, R)
  PROVE  ZDLE \in Calm(R) /\ SO \in Calm(R)
  <1>1. \A c \in {ZDLE, SO} : c \in Byte /\ ~IsFlow(c) /\ c # DLE /\ c # IAC /\ Low(c) # CR /\ c < 128
    BY DEF Byte, IsFlow, Low, XON, XOFF, DLE, IAC, CR, ZDLE, SO
  <1> QED
    BY <1>1, CalmByte

LEMMA CoversPair ==
  ASSUME NEW f, NEW R, Covers(f, R), NEW last \in Byte, NEW c \in Byte, Fits(f, last, c)
  PROVE  <<last, c>> \in R
  <1> DEFINE x == <<last, c>>
  <1>1. x \in Byte \X Byte /\ x[1] = last /\ x[2] = c
    OBVIOUS
  <1> HIDE DEF x
  <1>2. x \in Pairs(f)
    BY <1>1 DEF Pairs
  <1> QED
    BY <1>2 DEF Covers, x

LEMMA BegunLast ==
  ASSUME NEW R, NEW a, NEW s \in Begun(R, a)
  PROVE  /\ s.wire \in Seq(Byte) /\ s.wire[Len(s.wire)] \in Byte
         /\ s.previous = Low(s.wire[Len(s.wire)]) /\ s.wire[1] = a
         /\ s \in Sendings(R, a) /\ s.wire # << >>
  <1>1. /\ s \in Sendings(R, a) /\ s.wire # << >> /\ s.wire \in Seq(Byte)
        /\ s.previous = Low(s.wire[Len(s.wire)]) /\ s.wire[1] = a
    BY DEF Begun, Sendings
  <1> DEFINE w == s.wire
  <1>2. w # << >> /\ w \in Seq(Byte)
    BY <1>1
  <1> HIDE DEF w
  <1>3. w[Len(w)] \in Byte
    BY <1>2
  <1> QED
    BY <1>1, <1>3 DEF w

\* One byte in a plain encoding, quoted or not.
LEMMA BufferBegun ==
  ASSUME NEW f \in Formats, f.style \notin SevenBit, NEW R, Covers(f, R),
         NEW a, NEW s \in Begun(R, a), NEW c \in Byte
  PROVE  buffer_tx(f, s, c) \in Begun(R, a)
  <1> DEFINE last == s.wire[Len(s.wire)]
             escape == IF f.style = "moby" THEN mobyturbo_byte_needs_escape(f, c, s.previous)
                       ELSE tx_byte_needs_escape(f, c, s.previous)
             x == IF c = IAC THEN ZRUB1 ELSE Toggled(c)
  <1>1. last \in Byte /\ s.previous = Low(last) /\ s \in Sendings(R, a) /\ s.wire # << >>
    BY BegunLast
  <1>2. buffer_tx(f, s, c) = raw(s, IF ~escape THEN <<c>> ELSE <<ZDLE, x>>)
    BY DEF buffer_tx
  <1>3. f.style = "moby" => Calm(R) = Byte
    BY DEF Covers, Calm
  <1>4. CASE ~escape
    <2>1. <<last, c>> \in R
      <3>1. CASE f.style = "moby"
        BY <1>1, <3>1 DEF Covers
      <3>2. CASE f.style # "moby"
        <4>1. /\ c \notin EscapeAlways /\ ~(Low(c) = CR /\ Low(last) = AT)
              /\ ~(f.ctl /\ IsControl(c)) /\ ~(f.iac /\ c = IAC)
          BY <1>1, <1>4, <3>2 DEF tx_byte_needs_escape
        <4>2. ~IsFlow(c) /\ c # DLE
          BY <4>1 DEF EscapeAlways, IsFlow, Low, Byte, XON, XOFF, DLE
        <4>3. Fits(f, last, c)
          BY <4>1, <4>2 DEF Fits
        <4> QED
          BY <1>1, <4>3, CoversPair
      <3> QED
        BY <3>1, <3>2
    <2> QED
      BY <1>2, <1>4, <2>1, RawOne
  <1>5. CASE escape
    <2>1. ZDLE \in Calm(R)
      BY CalmQuotes
    <2>2. x \in Calm(R)
      <3>1. CASE f.style = "moby"
        <4>1. ZRUB1 \in Byte
          BY DEF ZRUB1, Byte
        <4>2. Toggled(c) \in Byte
          BY ControlBytes
        <4>3. x \in Byte
          BY <4>1, <4>2
        <4> HIDE DEF x
        <4> QED
          BY <1>3, <3>1, <4>3
      <3>2. CASE f.style # "moby" /\ c = IAC
        BY <3>2, CalmPrintable DEF ZRUB1
      <3>3. CASE f.style # "moby" /\ c # IAC
        <4>1. c \in EscapeAlways \/ Low(c) = CR \/ IsControl(c)
          BY <1>5, <3>3 DEF tx_byte_needs_escape
        <4>2. c < 32 \/ c \in 128 .. 159
          <5>1. c \in EscapeAlways => c < 32 \/ c \in 128 .. 159
            BY DEF EscapeAlways, ZDLE, DLE, XON, XOFF
          <5>2. Low(c) = CR => c < 32 \/ c \in 128 .. 159
            BY DEF Low, CR, Byte
          <5> QED
            BY <4>1, <5>1, <5>2, ControlBytes
        <4>3. x = c + 64
          BY <3>3, <4>2, ControlBytes
        <4> DEFINE y == c + 64
        <4>4. /\ y \in Byte /\ ~IsFlow(y) /\ y # DLE /\ y # IAC /\ Low(y) # CR /\ ~IsControl(y)
          BY <4>2 DEF Byte, IsFlow, Low, XON, XOFF, DLE, IAC, CR, IsControl
        <4> HIDE DEF y
        <4>5. y \in Calm(R)
          BY <4>4, CalmByte
        <4> QED
          BY <4>3, <4>5 DEF y
      <3> QED
        BY <3>1, <3>2, <3>3
    <2>3. <<ZDLE, x>> \in Seq(Calm(R)) /\ <<ZDLE, x>> # << >>
      BY <2>1, <2>2
    <2> HIDE DEF x
    <2> QED
      BY <1>1, <1>2, <1>5, <2>3, RawCalm
  <1> QED
    BY <1>4, <1>5

LEMMA BufferedBegun ==
  ASSUME NEW f \in Formats, f.style \notin SevenBit, NEW R, Covers(f, R),
         NEW a, NEW s \in Begun(R, a), NEW data \in Seq(Byte)
  PROVE  buffer_all(f, s, data) \in Begun(R, a)
  <1> DEFINE n == Len(data)
             After(x, i) == buffer_tx(f, x, data[i])
             step == [i \in 1 .. n |-> [x \in Begun(R, a) |-> After(x, i)]]
             Body(h, i) == IF i = 0 THEN s ELSE After(h[i - 1], i)
             Chain(h) == h = [i \in 0 .. n |-> Body(h, i)]
             upto == CHOOSE h : Chain(h)
  <1>1. n \in Nat /\ \A i \in 1 .. n : data[i] \in Byte
    BY SeqElements
  <1>2. s \in Begun(R, a) /\ \A i \in 1 .. n, x \in Begun(R, a) : After(x, i) \in Begun(R, a)
    BY <1>1, BufferBegun
  <1>3. buffer_all(f, s, data) = upto[n]
    BY DEF buffer_all, Along
  <1> HIDE DEF n, After
  <1>4. step \in Moves(Begun(R, a), n) /\ \A i \in 1 .. n, x \in Begun(R, a) : step[i][x] = After(x, i)
    BY <1>1, <1>2 DEF Moves
  <1> HIDE DEF step
  <1>5. PICK g : Leads(Begun(R, a), n, s, step, g)
    BY <1>1, <1>2, <1>4, Recursion
  <1>6. g \in [0 .. n -> Begun(R, a)] /\ g[0] = s /\ \A i \in 1 .. n : g[i] = step[i][g[i - 1]]
    BY <1>5 DEF Leads
  <1>7. \A i \in 1 .. n : g[i] = After(g[i - 1], i)
    <2> TAKE i \in 1 .. n
    <2>1. i - 1 \in 0 .. n
      BY <1>1, <1>2
    <2> QED
      BY <1>4, <1>6, <2>1
  <1>8. Chain(g)
    <2>1. g = [i \in 0 .. n |-> g[i]]
      BY <1>6
    <2>2. \A i \in 0 .. n : g[i] = Body(g, i)
      <3> TAKE i \in 0 .. n
      <3>1. CASE i = 0
        BY <1>6, <3>1
      <3>2. CASE i # 0
        <4>1. i \in 1 .. n
          BY <1>1, <1>2, <3>2
        <4> QED
          BY <1>7, <3>2, <4>1
      <3> QED
        BY <3>1, <3>2
    <2> HIDE DEF Body
    <2> QED
      BY <2>1, <2>2
  <1>9. Chain(upto)
    <2> HIDE DEF Chain
    <2> QED
      BY <1>8
  <1> HIDE DEF upto
  <1>10. \A i \in 0 .. n : upto[i] = Body(upto, i)
    <2> HIDE DEF Body
    <2> QED
      BY <1>9
  <1> HIDE DEF Chain
  <1>11. upto[0] \in Begun(R, a) /\ \A i \in 1 .. n : upto[i - 1] \in Begun(R, a) => upto[i] \in Begun(R, a)
    <2>1. upto[0] \in Begun(R, a)
      BY <1>1, <1>2, <1>10
    <2>2. ASSUME NEW i \in 1 .. n, upto[i - 1] \in Begun(R, a) PROVE upto[i] \in Begun(R, a)
      <3>1. i \in 0 .. n /\ i # 0
        BY <1>1, <1>2
      <3>2. upto[i] = After(upto[i - 1], i)
        BY <1>10, <3>1
      <3> QED
        BY <1>1, <1>2, <2>2, <3>2
    <2> QED
      BY <2>1, <2>2
  <1>12. upto[n] \in Begun(R, a)
    <2>1. n \in 0 .. n
      BY <1>1, <1>2
    <2> QED
      BY <1>1, <1>2, <1>11, <2>1, ChainStays
  <1> QED
    BY <1>3, <1>12

LEMMA CalmEnding ==
  ASSUME NEW f, NEW R, Covers(f, R), NEW ending \in ZCRCE .. ZCRCW
  PROVE  <<ZDLE, ending>> \in Seq(Calm(R)) /\ ending \in Byte
  <1>1. ending \in Calm(R) /\ ending \in Byte
    BY CalmPrintable DEF ZCRCE, ZCRCW, Byte
  <1> QED
    BY <1>1, CalmQuotes

LEMMA PlainBegun ==
  ASSUME NEW f \in Formats, f.style \notin SevenBit, NEW R, Covers(f, R),
         NEW a, NEW s \in Begun(R, a), NEW data \in Seq(Byte), NEW ending \in ZCRCE .. ZCRCW
  PROVE  PlainData(f, s, data, ending) \in Begun(R, a)
  <1> DEFINE all == buffer_all(f, s, data)
             ended == raw(all, <<ZDLE, ending>>)
             check == DataCheck(f, data, ending)
  <1>1. all \in Begun(R, a)
    BY BufferedBegun
  <1>2. all \in Sendings(R, a) /\ all.wire # << >>
    BY <1>1 DEF Begun
  <1> HIDE DEF all
  <1>3. <<ZDLE, ending>> \in Seq(Calm(R)) /\ <<ZDLE, ending>> # << >> /\ ending \in Byte
    BY CalmEnding
  <1>4. ended \in Begun(R, a)
    BY <1>2, <1>3, RawCalm
  <1>5. check \in Seq(Byte)
    BY <1>3, CheckBytes
  <1>6. PlainData(f, s, data, ending) = buffer_all(f, ended, check)
    BY DEF PlainData, all
  <1> HIDE DEF ended, check
  <1> QED
    BY <1>4, <1>5, <1>6, BufferedBegun

----------------------------------------------------------------------------
(* Headers on the line.                                                    *)

HexByte == 48 .. 57 \cup 97 .. 102
Parameters == {p \in Seq(Byte) : Len(p) \in 1 .. 17}

LEMMA HexBytes ==
  ASSUME NEW bytes \in Seq(Byte)
  PROVE  tx_hex(bytes) \in Seq(HexByte)
  <1> DEFINE parts == [i \in DOMAIN bytes |->
                         <<tx_nibble(bytes[i] \div 16), tx_nibble(bytes[i] % 16)>>]
  <1>1. \A n \in 0 .. 15 : tx_nibble(n) \in HexByte
    BY DEF tx_nibble, HexByte
  <1>2. \A b \in Byte : b \div 16 \in 0 .. 15 /\ b % 16 \in 0 .. 15
    BY DEF Byte
  <1>3. DOMAIN bytes = 1 .. Len(bytes) /\ Len(bytes) \in Nat /\ \A i \in 1 .. Len(bytes) : bytes[i] \in Byte
    BY SeqElements
  <1>4. ASSUME NEW i \in 1 .. Len(bytes)
        PROVE  <<tx_nibble(bytes[i] \div 16), tx_nibble(bytes[i] % 16)>> \in Seq(HexByte)
    <2> DEFINE x == tx_nibble(bytes[i] \div 16)  y == tx_nibble(bytes[i] % 16)
    <2>1. x \in HexByte /\ y \in HexByte
      BY <1>1, <1>2, <1>3
    <2> HIDE DEF x, y
    <2>2. <<x, y>> \in Seq(HexByte)
      BY <2>1
    <2> QED
      BY <2>2 DEF x, y
  <1>5. parts \in [1 .. Len(bytes) -> Seq(HexByte)]
    BY <1>3, <1>4
  <1> HIDE DEF parts
  <1>6. parts \in Seq(Seq(HexByte))
    BY <1>3, <1>5, FunctionIsSeq
  <1>7. FlattenSeq(parts) \in Seq(HexByte)
    BY <1>6, FlattenAll
  <1> QED
    BY <1>7 DEF tx_hex, parts

LEMMA SeqWider ==
  ASSUME NEW S, NEW T, S \subseteq T, NEW s \in Seq(S)
  PROVE  s \in Seq(T)
  OBVIOUS

LEMMA RawPair ==
  ASSUME NEW R, NEW a, NEW s \in Begun(R, a), NEW c \in Byte, NEW d \in Byte,
         <<s.wire[Len(s.wire)], c>> \in R, <<c, d>> \in R
  PROVE  /\ raw(s, <<c, d>>) \in Begun(R, a)
         /\ raw(s, <<c, d>>).wire[Len(raw(s, <<c, d>>).wire)] = d
  <1> DEFINE p == <<c, d>>
  <1>1. p \in Seq(Byte) /\ p # << >> /\ Len(p) = 2 /\ p[1] = c /\ p[2] = d
    OBVIOUS
  <1>2. s \in Sendings(R, a) /\ s.wire # << >>
    BY DEF Begun
  <1> HIDE DEF p
  <1>3. \A i \in 2 .. Len(p) : <<p[i - 1], p[i]>> \in R
    <2> TAKE i \in 2 .. Len(p)
    <2>1. i = 2 /\ i - 1 = 1
      BY <1>1
    <2> QED
      BY <1>1, <2>1
  <1>4. raw(s, p) \in Begun(R, a) /\ raw(s, p).wire[Len(raw(s, p).wire)] = p[Len(p)]
    BY <1>1, <1>2, <1>3, RawFits, ZenonT(60)
  <1> QED
    BY <1>1, <1>4 DEF p

LEMMA OneMore ==
  ASSUME NEW u \in Int, NEW v \in Int, NEW w \in Int, NEW x \in Int
  PROVE  <<u, v, w>> \o <<x>> = <<u, v, w, x>>
  <1> DEFINE p == <<u, v, w>>  q == <<x>>  r == <<u, v, w, x>>
  <1>1. /\ p \in Seq(Int) /\ q \in Seq(Int) /\ r \in Seq(Int)
        /\ Len(p) = 3 /\ Len(q) = 1 /\ Len(r) = 4
        /\ p[1] = u /\ p[2] = v /\ p[3] = w /\ q[1] = x
        /\ r[1] = u /\ r[2] = v /\ r[3] = w /\ r[4] = x
    OBVIOUS
  <1> HIDE DEF p, q, r
  <1> DEFINE z == p \o q
  <1>2. /\ z \in Seq(Int) /\ Len(z) = 4
        /\ \A i \in 1 .. 4 : z[i] = IF i <= 3 THEN p[i] ELSE q[i - 3]
    <2>1. /\ z \in Seq(Int) /\ Len(z) = Len(p) + Len(q)
          /\ \A i \in 1 .. Len(p) + Len(q) : z[i] = IF i <= Len(p) THEN p[i] ELSE q[i - Len(p)]
      BY <1>1, Joined
    <2>2. Len(p) + Len(q) = 4
      BY <1>1
    <2> HIDE DEF z
    <2> QED
      BY <1>1, <2>1, <2>2
  <1> HIDE DEF z
  <1>3. z[1] = u /\ z[2] = v /\ z[3] = w /\ z[4] = x
    <2>1. \A i \in 1 .. 4 : z[i] = IF i <= 3 THEN p[i] ELSE q[i - 3]
      BY <1>2
    <2>2. z[1] = p[1] /\ z[2] = p[2] /\ z[3] = p[3] /\ z[4] = q[4 - 3]
      BY <2>1
    <2> QED
      BY <1>1, <2>2
  <1>4. \A i \in 1 .. 4 : z[i] = r[i]
    <2>1. \A i \in 1 .. 4 : i = 1 \/ i = 2 \/ i = 3 \/ i = 4
      OBVIOUS
    <2> QED
      BY <1>1, <1>3, <2>1
  <1>5. z = r
    <2>1. DOMAIN z = 1 .. 4 /\ DOMAIN r = 1 .. 4 /\ z = [i \in 1 .. 4 |-> z[i]] /\ r = [i \in 1 .. 4 |-> r[i]]
      BY <1>1, <1>2
    <2> QED
      BY <1>4, <2>1
  <1> QED
    BY <1>5 DEF p, q, r, z

\* The digits t spell the bytes s.
Spells(t, s) ==
  /\ t \in Seq(HexByte) /\ s \in Seq(Byte) /\ Len(t) = 2 * Len(s)
  /\ \A i \in 1 .. Len(s) :
       t[2 * i - 1] = tx_nibble(s[i] \div 16) /\ t[2 * i] = tx_nibble(s[i] % 16)

LEMMA SpellsMore ==
  ASSUME NEW t, NEW s, Spells(t, s), NEW u, NEW v, Spells(u, v)
  PROVE  Spells(t \o u, s \o v)
  <1>1. t \in Seq(HexByte) /\ u \in Seq(HexByte) /\ s \in Seq(Byte) /\ v \in Seq(Byte)
        /\ Len(t) = 2 * Len(s) /\ Len(u) = 2 * Len(v) /\ Len(s) \in Nat /\ Len(v) \in Nat
    BY DEF Spells
  <1> DEFINE T == t \o u  S == s \o v  m == Len(s)  n == Len(v)
  <1>2. T \in Seq(HexByte) /\ Len(T) = 2 * m + 2 * n
        /\ \A i \in 1 .. 2 * m + 2 * n : T[i] = IF i <= 2 * m THEN t[i] ELSE u[i - 2 * m]
    <2>1. T \in Seq(HexByte) /\ Len(T) = Len(t) + Len(u)
          /\ \A i \in 1 .. Len(t) + Len(u) : T[i] = IF i <= Len(t) THEN t[i] ELSE u[i - Len(t)]
      BY <1>1, Joined
    <2> QED
      BY <1>1, <2>1
  <1>3. S \in Seq(Byte) /\ Len(S) = m + n
        /\ \A i \in 1 .. m + n : S[i] = IF i <= m THEN s[i] ELSE v[i - m]
    BY <1>1, Joined
  <1> HIDE DEF T, S, m, n
  <1>4. ASSUME NEW i \in 1 .. m + n
        PROVE  T[2 * i - 1] = tx_nibble(S[i] \div 16) /\ T[2 * i] = tx_nibble(S[i] % 16)
    <2>0. m \in Nat /\ n \in Nat
      BY <1>1 DEF m, n
    <2>1. 2 * i - 1 \in 1 .. 2 * m + 2 * n /\ 2 * i \in 1 .. 2 * m + 2 * n
      BY <2>0
    <2>2. CASE i <= m
      <3>1. T[2 * i - 1] = t[2 * i - 1] /\ T[2 * i] = t[2 * i] /\ S[i] = s[i] /\ i \in 1 .. m
        BY <1>2, <1>3, <2>0, <2>1, <2>2
      <3> QED
        BY <3>1 DEF Spells, m
    <2>3. CASE ~(i <= m)
      <3> DEFINE j == i - m
      <3>1. j \in 1 .. n /\ (2 * i - 1) - 2 * m = 2 * j - 1 /\ 2 * i - 2 * m = 2 * j
            /\ ~(2 * i - 1 <= 2 * m) /\ ~(2 * i <= 2 * m)
        BY <2>0, <2>3
      <3>2. T[2 * i - 1] = u[2 * j - 1] /\ T[2 * i] = u[2 * j] /\ S[i] = v[j]
        BY <1>2, <1>3, <2>1, <2>3, <3>1
      <3> HIDE DEF j
      <3> QED
        BY <3>1, <3>2 DEF Spells, n
    <2> QED
      BY <2>2, <2>3
  <1>5. Spells(T, S)
    BY <1>1, <1>2, <1>3, <1>4 DEF Spells, m, n
  <1> QED
    BY <1>5 DEF T, S

LEMMA SpellsNone == Spells(<< >>, << >>)
  BY DEF Spells

LEMMA SpellsOne ==
  ASSUME NEW b \in Byte, NEW one, one = <<tx_nibble(b \div 16), tx_nibble(b % 16)>>
  PROVE  Spells(one, <<b>>)
  <1> DEFINE x == tx_nibble(b \div 16)  y == tx_nibble(b % 16)  s == <<b>>
  <1>1. \A n \in 0 .. 15 : tx_nibble(n) \in HexByte
    BY DEF tx_nibble, HexByte
  <1>2. b \div 16 \in 0 .. 15 /\ b % 16 \in 0 .. 15
    BY DEF Byte
  <1>3. x \in HexByte /\ y \in HexByte
    BY <1>1, <1>2
  <1>4. s \in Seq(Byte) /\ Len(s) = 1 /\ s[1] = b
    OBVIOUS
  <1>5. one = <<x, y>>
    OBVIOUS
  <1> HIDE DEF x, y, s
  <1>6. one \in Seq(HexByte) /\ Len(one) = 2 /\ one[1] = x /\ one[2] = y
    BY <1>3, <1>5
  <1>7. \A i \in 1 .. Len(s) : one[2 * i - 1] = tx_nibble(s[i] \div 16) /\ one[2 * i] = tx_nibble(s[i] % 16)
    <2> TAKE i \in 1 .. Len(s)
    <2>1. i = 1 /\ 2 * i - 1 = 1 /\ 2 * i = 2
      BY <1>4
    <2> QED
      BY <1>4, <1>6, <2>1 DEF x, y
  <1>8. Spells(one, s)
    BY <1>4, <1>6, <1>7 DEF Spells
  <1> QED
    BY <1>8 DEF s

\* The digits that tx_hex writes spell its bytes.
LEMMA HexSpells ==
  ASSUME NEW bytes \in Seq(Byte)
  PROVE  Spells(tx_hex(bytes), bytes)
  <1> DEFINE n == Len(bytes)
             parts == [i \in DOMAIN bytes |->
                         <<tx_nibble(bytes[i] \div 16), tx_nibble(bytes[i] % 16)>>]
             ones == [i \in 1 .. n |-> <<bytes[i]>>]
  <1>1. DOMAIN bytes = 1 .. n /\ n \in Nat /\ \A i \in 1 .. n : bytes[i] \in Byte
    BY SeqElements
  <1>2. \A i \in 1 .. n : Spells(parts[i], ones[i])
    <2> TAKE i \in 1 .. n
    <2> DEFINE b == bytes[i]  one == <<tx_nibble(b \div 16), tx_nibble(b % 16)>>
    <2>1. b \in Byte /\ parts[i] = one /\ ones[i] = <<b>>
      BY <1>1
    <2> HIDE DEF parts, ones, b
    <2>2. Spells(one, <<b>>)
      BY <2>1, SpellsOne
    <2> HIDE DEF one
    <2> QED
      BY <2>1, <2>2
  <1>3. parts \in [1 .. n -> Seq(HexByte)] /\ ones \in [1 .. n -> Seq(Byte)]
    <2>1. \A i \in 1 .. n : parts[i] \in Seq(HexByte) /\ ones[i] \in Seq(Byte)
      <3> HIDE DEF parts, ones
      <3> QED
        BY <1>2 DEF Spells
    <2>2. DOMAIN parts = 1 .. n /\ DOMAIN ones = 1 .. n
      BY <1>1
    <2>3. parts = [i \in 1 .. n |-> parts[i]] /\ ones = [i \in 1 .. n |-> ones[i]]
      BY <1>1
    <2> HIDE DEF parts, ones
    <2> QED
      BY <2>1, <2>3
  <1>4. FlattenSeq(ones) = bytes
    BY FlattenOnes
  <1>5. tx_hex(bytes) = FlattenSeq(parts)
    BY DEF tx_hex
  <1> HIDE DEF parts, ones, n
  <1>6. parts \in Seq(Seq(HexByte)) /\ Len(parts) = n /\ ones \in Seq(Seq(Byte)) /\ Len(ones) = n
    BY <1>1, <1>3, FunctionIsSeq
  <1>7. PICK g : /\ g \in [0 .. n -> Seq(HexByte)] /\ g[0] = << >>
                 /\ \A i \in 1 .. n : g[i] = g[i - 1] \o parts[i]
                 /\ FlattenSeq(parts) = g[n]
    <2>1. \E g : /\ g \in [0 .. Len(parts) -> Seq(HexByte)] /\ g[0] = << >>
                 /\ \A i \in 1 .. Len(parts) : g[i] = g[i - 1] \o parts[i]
                 /\ FlattenSeq(parts) = g[Len(parts)]
      BY <1>6, Flattening
    <2> QED
      BY <1>6, <2>1
  <1>8. PICK h : /\ h \in [0 .. n -> Seq(Byte)] /\ h[0] = << >>
                 /\ \A i \in 1 .. n : h[i] = h[i - 1] \o ones[i]
                 /\ FlattenSeq(ones) = h[n]
    <2>1. \E h : /\ h \in [0 .. Len(ones) -> Seq(Byte)] /\ h[0] = << >>
                 /\ \A i \in 1 .. Len(ones) : h[i] = h[i - 1] \o ones[i]
                 /\ FlattenSeq(ones) = h[Len(ones)]
      BY <1>6, Flattening
    <2> QED
      BY <1>6, <2>1
  <1> DEFINE T == {i \in 0 .. n : Spells(g[i], h[i])}
  <1>9. 0 \in T
    BY <1>1, <1>7, <1>8, SpellsNone
  <1>10. \A i \in 0 .. n - 1 : i \in T => i + 1 \in T
    <2> TAKE i \in 0 .. n - 1
    <2> HAVE i \in T
    <2>1. i + 1 \in 1 .. n /\ (i + 1) - 1 = i /\ i + 1 \in 0 .. n
      BY <1>1
    <2> DEFINE a == g[i]  b == h[i]  c == parts[i + 1]  d == ones[i + 1]
    <2>2. g[i + 1] = a \o c /\ h[i + 1] = b \o d
      BY <1>7, <1>8, <2>1
    <2>3. Spells(a, b) /\ Spells(c, d)
      BY <1>2, <2>1
    <2> HIDE DEF a, b, c, d
    <2>4. Spells(a \o c, b \o d)
      BY <2>3, SpellsMore
    <2> QED
      BY <2>1, <2>2, <2>4
  <1>11. n \in T
    <2>1. n \in 0 .. n
      BY <1>1
    <2> HIDE DEF T
    <2> QED
      BY <1>1, <1>9, <1>10, <2>1, BoundedInduction
  <1> QED
    BY <1>4, <1>5, <1>7, <1>8, <1>11

\* How a header of p is called, and the bytes that it spells.
Named(p) == IF Len(p) = HDRLEN THEN ZHEX ELSE ZVHEX
Spelt(p) == ((IF Len(p) = HDRLEN THEN << >> ELSE <<Len(p) - 1>>) \o p) \o Crc16(p)

LEMMA HexSpelt ==
  ASSUME NEW p \in Parameters
  PROVE  Spells((IF Len(p) = HDRLEN THEN << >> ELSE tx_hex(<<Len(p) - 1>>)) \o tx_hex(p) \o tx_hex(Crc16(p)),
                Spelt(p))
  <1> DEFINE c == <<Len(p) - 1>>
             h0 == IF Len(p) = HDRLEN THEN << >> ELSE tx_hex(c)
             c0 == IF Len(p) = HDRLEN THEN << >> ELSE c
             h1 == tx_hex(p)  h2 == tx_hex(Crc16(p))  q == Crc16(p)
  <1>1. p \in Seq(Byte) /\ Len(p) \in 1 .. 17 /\ q \in Seq(Byte)
    BY Crc16Bytes DEF Parameters
  <1>2. c \in Seq(Byte)
    <2>1. Len(p) - 1 \in Byte
      BY <1>1 DEF Byte
    <2> QED
      BY <2>1
  <1> HIDE DEF c
  <1>3. Spells(h0, c0)
    BY <1>2, HexSpells, SpellsNone
  <1>4. Spells(h1, p) /\ Spells(h2, q)
    BY <1>1, HexSpells
  <1>5. Spelt(p) = (c0 \o p) \o q
    BY DEF Spelt, c
  <1> DEFINE a == h0 \o h1  b == c0 \o p
  <1> SUFFICES Spells(a \o h2, Spelt(p))
    BY DEF c
  <1> HIDE DEF h0, c0, h1, h2, q
  <1>6. Spells(a, b)
    BY <1>3, <1>4, SpellsMore
  <1> HIDE DEF a, b
  <1>7. Spells(a \o h2, b \o q)
    BY <1>4, <1>6, SpellsMore
  <1> QED
    BY <1>5, <1>7 DEF b


HexStart(x) == <<ZPAD, ZPAD, ZDLE, x>>

\* What a hexadecimal header is on the line.
LEMMA HexLine ==
  ASSUME NEW p \in Parameters, NEW s
  PROVE  \E t \in Seq(HexByte), e \in {<< >>, <<XON>>} :
           /\ Spells(t, Spelt(p))
           /\ tx_hex_header(s, p) = raw(s, ((HexStart(Named(p)) \o t) \o <<CR, LF>>) \o e)
  <1> DEFINE A == <<ZPAD, ZPAD, ZDLE>>
             count == tx_hex(<<Len(p) - 1>>)
             x == IF Len(p) = HDRLEN THEN ZHEX ELSE ZVHEX
             h0 == IF Len(p) = HDRLEN THEN << >> ELSE count
             h1 == tx_hex(p)
             h2 == tx_hex(Crc16(p))
             e == IF p[1] \in {ZACK, ZFIN} THEN << >> ELSE <<XON>>
             B == IF Len(p) = HDRLEN THEN <<ZHEX>> ELSE <<ZVHEX>> \o count
             t == (h0 \o h1) \o h2
  <1>1. tx_hex_header(s, p) = raw(s, ((((A \o B) \o h1) \o h2) \o <<CR, LF>>) \o e)
    BY DEF tx_hex_header
  <1>2. p \in Seq(Byte) /\ Len(p) \in 1 .. 17
    BY DEF Parameters
  <1>3. count \in Seq(HexByte)
    <2>1. Len(p) - 1 \in Byte
      BY <1>2, SMTT(60) DEF Byte
    <2>2. <<Len(p) - 1>> \in Seq(Byte)
      BY <2>1
    <2> QED
      BY <2>2, HexBytes
  <1>4. h1 \in Seq(HexByte)
    BY <1>2, HexBytes
  <1>5. h2 \in Seq(HexByte)
    BY <1>2, Crc16Bytes, HexBytes
  <1>12. Spells(t, Spelt(p))
    BY HexSpelt
  <1> HIDE DEF count, h1, h2
  <1>6. h0 \in Seq(HexByte)
    BY <1>3
  <1>a. B = <<x>> \o h0
    <2>1. <<ZHEX>> \o << >> = <<ZHEX>>
      OBVIOUS
    <2> QED
      BY <2>1
  <1>7. x \in {ZHEX, ZVHEX} /\ e \in {<< >>, <<XON>>} /\ x = Named(p)
    BY DEF Named
  <1> HIDE DEF x, h0, B, e
  <1>8. h0 \in Seq(Byte) /\ h1 \in Seq(Byte) /\ h2 \in Seq(Byte)
    <2>1. HexByte \subseteq Byte
      BY DEF HexByte, Byte
    <2> QED
      BY <1>4, <1>5, <1>6, <2>1, SeqWider
  <1> DEFINE X == <<x>>
  <1>9. A \in Seq(Byte) /\ X \in Seq(Byte) /\ A \o X = HexStart(x)
    <2>1. ZPAD \in Int /\ ZDLE \in Int /\ x \in Int
      BY <1>7 DEF ZPAD, ZDLE, ZHEX, ZVHEX
    <2>4. ZPAD \in Byte /\ ZDLE \in Byte /\ x \in Byte
      BY <1>7 DEF ZPAD, ZDLE, ZHEX, ZVHEX, Byte
    <2>2. A \in Seq(Byte) /\ X \in Seq(Byte)
      BY <2>4
    <2>3. A \o X = HexStart(x)
      BY <2>1, OneMore DEF HexStart
    <2> QED
      BY <2>2, <2>3
  <1> HIDE DEF A, X
  <1>s. ASSUME NEW u \in Seq(Byte), NEW v \in Seq(Byte), NEW w \in Seq(Byte)
        PROVE  (u \o v) \o w = u \o (v \o w) /\ u \o v \in Seq(Byte)
    BY ConcatAssociative
  <1>10. ((A \o B) \o h1) \o h2 = HexStart(x) \o t
    <2> DEFINE b == A \o X  d == h0 \o h1
    <2>7. A \in Seq(Byte) /\ X \in Seq(Byte) /\ h0 \in Seq(Byte)
      BY <1>8, <1>9
    <2>8. (A \o X) \o h0 = A \o (X \o h0)
      BY <1>s, <2>7, ZenonT(60)
    <2>9. A \o X \in Seq(Byte)
      BY <1>s, <2>7, Zenon
    <2>1. b \o h0 = A \o (X \o h0) /\ b \in Seq(Byte)
      BY <2>8, <2>9
    <2>2. d \in Seq(Byte)
      BY <1>8, <1>s, Zenon
    <2> HIDE DEF b
    <2>3. (b \o h0) \o h1 = b \o d
      BY <1>8, <1>s, <2>1, Zenon
    <2> HIDE DEF d
    <2>4. (b \o d) \o h2 = b \o (d \o h2)
      BY <1>8, <1>s, <2>1, <2>2, Zenon
    <2>5. A \o B = b \o h0
      BY <1>a, <2>1, Zenon DEF X
    <2>6. t = d \o h2 /\ b = HexStart(x)
      BY <1>9, Zenon DEF t, d, b
    <2> HIDE DEF t
    <2> QED
      BY <2>3, <2>4, <2>5, <2>6, Zenon
  <1>11. t \in Seq(HexByte)
    BY <1>4, <1>5, <1>6
  <1> HIDE DEF t
  <1> QED
    BY <1>1, <1>7, <1>10, <1>11, <1>12

\* Whether it starts what is sent or goes on, whatever the format of the data.
LEMMA HexBegun ==
  ASSUME NEW f, NEW R, Covers(f, R), NEW a, NEW s \in Sendings(R, a), s.wire = << >> => a = ZPAD,
         NEW p \in Parameters
  PROVE  tx_hex_header(s, p) \in Begun(R, a)
  <1>1. PICK x \in {ZHEX, ZVHEX}, t \in Seq(HexByte), e \in {<< >>, <<XON>>} :
           tx_hex_header(s, p) = raw(s, ((HexStart(x) \o t) \o <<CR, LF>>) \o e)
    <2>1. Named(p) \in {ZHEX, ZVHEX}
      BY DEF Named
    <2> QED
      BY <2>1, HexLine
  <1> DEFINE H == HexByte \cup {ZPAD, ZDLE, ZHEX, ZVHEX}
             front == HexStart(x) \o t
             ends == <<CR, LF>>
  <1>2. H \subseteq Calm(R) /\ H \subseteq Byte /\ \A c \in H : Low(c) # AT
    <2>1. \A c \in H : c \in 32 .. 127 \/ c = ZDLE
      BY DEF HexByte, ZPAD, ZHEX, ZVHEX
    <2>2. \A c \in H : c \in Calm(R)
      BY <2>1, CalmPrintable, CalmQuotes
    <2>3. \A c \in H : c \in Byte
      <3> HIDE DEF H
      <3> QED
        BY <2>1 DEF Byte, ZDLE
    <2>4. \A c \in H : Low(c) # AT
      BY DEF HexByte, ZPAD, ZHEX, ZVHEX, ZDLE, Low, AT
    <2> QED
      BY <2>2, <2>3, <2>4
  <1>3. front \in Seq(H) /\ front # << >> /\ front[1] = ZPAD /\ front[Len(front)] \in H
    <2>1. HexStart(x) \in Seq(H) /\ t \in Seq(H) /\ Len(HexStart(x)) = 4 /\ HexStart(x)[1] = ZPAD
      BY DEF HexStart
    <2> DEFINE b == HexStart(x)
    <2> HIDE DEF b, H
    <2>2. Len(t) \in Nat /\ Len(b) = 4 /\ b \in Seq(H) /\ b[1] = ZPAD /\ t \in Seq(H)
      BY <2>1 DEF b
    <2>3. b \o t \in Seq(H) /\ Len(b \o t) = 4 + Len(t) /\ (b \o t)[1] = b[1]
      <3>1. /\ b \o t \in Seq(H) /\ Len(b \o t) = Len(b) + Len(t)
            /\ \A i \in 1 .. Len(b) + Len(t) : (b \o t)[i] = IF i <= Len(b) THEN b[i] ELSE t[i - Len(b)]
        BY <2>2, Joined
      <3>2. 1 \in 1 .. Len(b) + Len(t) /\ 1 <= Len(b)
        BY <2>2
      <3> QED
        BY <2>2, <3>1, <3>2
    <2>4. b \o t # << >> /\ (b \o t)[Len(b \o t)] \in H
      BY <2>2, <2>3
    <2> QED
      BY <2>2, <2>3, <2>4 DEF b
  <1> HIDE DEF H, front
  <1>4. front \in Seq(Calm(R)) /\ front \in Seq(Byte)
    BY <1>2, <1>3
  <1> DEFINE r == raw(s, front)  last == front[Len(front)]
  <1>5. r \in Begun(R, a)
    BY <1>3, <1>4, RawCalm
  <1>6. r.wire[Len(r.wire)] = last
    <2>1. s.wire = << >> => front[1] = a
      BY <1>3
    <2>2. \A i \in 2 .. Len(front) : <<front[i - 1], front[i]>> \in R
      <3>1. \A i \in 2 .. Len(front) : front[i - 1] \in Byte /\ front[i] \in Calm(R)
        BY <1>4
      <3> QED
        BY <3>1 DEF Calm
    <2>3. s.wire # << >> => <<s.wire[Len(s.wire)], front[1]>> \in R
      <3>1. s.wire # << >> => s.wire[Len(s.wire)] \in Byte
        BY DEF Sendings
      <3>2. front[1] \in Calm(R)
        BY <1>3, <1>4
      <3> QED
        BY <3>1, <3>2 DEF Calm
    <2> QED
      BY <1>3, <1>4, <2>1, <2>2, <2>3, RawFits
  <1>7. last \in Byte /\ Low(last) # AT
    BY <1>2, <1>3
  <1> HIDE DEF last
  <1>8. <<last, CR>> \in R /\ <<CR, LF>> \in R /\ <<LF, XON>> \in R
    <2>1. CR \in Byte /\ LF \in Byte /\ XON \in Byte
      BY DEF CR, LF, XON, Byte
    <2>2. Fits(f, last, CR)
      BY <1>7 DEF Fits, IsFlow, Low, CR, XON, XOFF, DLE, IAC, AT
    <2>3. Fits(f, CR, LF) /\ Fits(f, LF, XON)
      BY DEF Fits, IsFlow, Low, CR, XON, XOFF, DLE, IAC, AT, LF
    <2> QED
      BY <1>7, <2>1, <2>2, <2>3, CoversPair
  <1> DEFINE q == raw(r, ends)
  <1>9. /\ q \in Begun(R, a) /\ q.wire[Len(q.wire)] = LF
        /\ ends \in Seq(Byte) /\ ends # << >>
    <2>1. /\ ends \in Seq(Byte) /\ ends # << >> /\ Len(ends) = 2 /\ ends[1] = CR /\ ends[2] = LF
          /\ \A i \in 2 .. Len(ends) : i = 2
      BY DEF CR, LF, Byte
    <2>2. r \in Sendings(R, a) /\ r.wire # << >> /\ r.wire[Len(r.wire)] = last
      BY <1>5, <1>6 DEF Begun
    <2>3. \A i \in 2 .. Len(ends) : <<ends[i - 1], ends[i]>> \in R
      BY <1>8, <2>1
    <2>4. CR \in Byte /\ LF \in Byte
      BY DEF CR, LF, Byte
    <2>5. q \in Begun(R, a) /\ q.wire[Len(q.wire)] = LF
      <3> HIDE DEF r
      <3>1. <<r.wire[Len(r.wire)], CR>> \in R
        BY <1>8, <2>2
      <3> QED
        BY <1>5, <1>8, <2>4, <3>1, RawPair
    <2> QED
      BY <2>1, <2>5
  <1> DEFINE both == front \o ends
  <1>10. raw(s, both) = q /\ both \in Seq(Byte) /\ both # << >>
    <2>1. s.wire \in Seq(Byte)
      BY DEF Sendings
    <2> HIDE DEF ends
    <2>2. raw(s, front \o ends) = raw(raw(s, front), ends)
      BY <1>3, <1>4, <1>9, <2>1, RawTwice
    <2>3. front \o ends \in Seq(Byte) /\ front \o ends # << >>
      BY <1>3, <1>4, <1>9
    <2> QED
      BY <2>2, <2>3
  <1> HIDE DEF q, both
  <1>11. tx_hex_header(s, p) = raw(s, both \o e)
    BY <1>1 DEF both, front
  <1>12. CASE e = << >>
    <2>1. both \o e = both
      BY <1>10, <1>12
    <2> QED
      BY <1>9, <1>10, <1>11, <2>1
  <1>13. CASE e = <<XON>>
    <2>1. XON \in Byte /\ e \in Seq(Byte) /\ e # << >> /\ s.wire \in Seq(Byte)
      BY <1>13 DEF XON, Byte, Sendings
    <2>2. raw(s, both \o e) = raw(raw(s, both), e)
      BY <1>10, <2>1, RawTwice
    <2>3. raw(q, <<XON>>) \in Begun(R, a)
      BY <1>8, <1>9, <2>1, RawOne
    <2> QED
      BY <1>10, <1>11, <1>13, <2>2, <2>3
  <1> QED
    BY <1>12, <1>13

LEMMA Bin32Begun ==
  ASSUME NEW f \in Formats, f.style \notin SevenBit, NEW R, Covers(f, R),
         NEW a, NEW s \in Sendings(R, a), s.wire = << >> => a = ZPAD, NEW p \in Parameters
  PROVE  tx_bin32_header(f, s, p) \in Begun(R, a)
  <1> DEFINE x == IF Len(p) = HDRLEN THEN ZBIN32 ELSE ZVBIN32
             A == <<ZPAD, ZPAD, ZDLE, x>>
             begun == raw(s, A)
             count == IF Len(p) = HDRLEN THEN << >> ELSE <<Len(p) - 1>>
             check == Crc32(p)
             bytes == (count \o p) \o check
  <1>1. ZPAD \in Calm(R) /\ ZDLE \in Calm(R) /\ x \in Calm(R)
    BY CalmPrintable, CalmQuotes DEF ZPAD, ZBIN32, ZVBIN32
  <1>2. A \in Seq(Calm(R)) /\ A # << >> /\ A[1] = ZPAD
    <2> HIDE DEF x
    <2> QED
      BY <1>1
  <1>3. begun \in Begun(R, a)
    <2> HIDE DEF A
    <2> QED
      BY <1>2, RawCalm
  <1>4. p \in Seq(Byte) /\ Len(p) \in 1 .. 17
    BY DEF Parameters
  <1>5. count \in Seq(Byte)
    <2>1. Len(p) - 1 \in Byte
      BY <1>4 DEF Byte
    <2> QED
      BY <2>1
  <1>6. check \in Seq(Byte)
    BY <1>4, Crc32Bytes, WordIsBytes
  <1>7. tx_bin32_header(f, s, p) = buffer_all(f, begun, bytes)
    BY DEF tx_bin32_header
  <1> HIDE DEF count, check, begun
  <1>8. bytes \in Seq(Byte)
    BY <1>4, <1>5, <1>6
  <1> HIDE DEF bytes
  <1> QED
    BY <1>3, <1>7, <1>8, BufferedBegun

LEMMA MobyBegun ==
  ASSUME NEW f \in Formats, f.style \notin SevenBit, NEW R, Covers(f, R),
         NEW a, NEW s \in Sendings(R, a), s.wire = << >> => a = ZPAD, NEW p \in Parameters
  PROVE  tx_mobyturbo_header(f, s, p) \in Begun(R, a)
  <1> DEFINE A == <<ZPAD, ZDLE, ZBINM32>>
             begun == raw(s, A)
             count == <<Len(p) - 1>>
             check == OmenCrc(p)
             bytes == (count \o p) \o check
  <1>1. ZPAD \in Calm(R) /\ ZDLE \in Calm(R) /\ ZBINM32 \in Calm(R)
    BY CalmPrintable, CalmQuotes DEF ZPAD, ZBINM32
  <1>2. A \in Seq(Calm(R)) /\ A # << >> /\ A[1] = ZPAD
    BY <1>1
  <1>3. begun \in Begun(R, a)
    <2> HIDE DEF A
    <2> QED
      BY <1>2, RawCalm
  <1>4. p \in Seq(Byte) /\ Len(p) \in 1 .. 17
    BY DEF Parameters
  <1>5. count \in Seq(Byte)
    <2>1. Len(p) - 1 \in Byte
      BY <1>4 DEF Byte
    <2> QED
      BY <2>1
  <1>6. check \in Seq(Byte)
    BY <1>4, OmenCrcBytes, WordIsBytes
  <1>7. tx_mobyturbo_header(f, s, p) = buffer_all(f, begun, bytes)
    BY DEF tx_mobyturbo_header
  <1> HIDE DEF count, check, begun
  <1>8. bytes \in Seq(Byte)
    BY <1>4, <1>5, <1>6
  <1> HIDE DEF bytes
  <1> QED
    BY <1>3, <1>7, <1>8, BufferedBegun

\* Seven-bit quoting makes every byte one that may stand anywhere.
LEMMA OmenByteCalm ==
  ASSUME NEW f \in Formats, f.style \in SevenBit, NEW R, Covers(f, R), NEW c \in Byte
  PROVE  omen_encode_byte(f, c) \in Seq(Calm(R))
  <1> DEFINE coded == {x \in OmenCodes : x[1] = c} \cup
                      (IF f.ctl /\ c = 127 THEN {<<127, ZRUB0>>} ELSE {})
             code == (CHOOSE x \in coded : TRUE)[2]
             low == Low(c)
             tail == IF f.ctl /\ low < 32 THEN <<ZDLE, Toggled(low)>> ELSE <<low>>
  <1>1. omen_encode_byte(f, c) = IF coded # {} THEN <<ZDLE, code>>
                                 ELSE IF High(c) THEN <<SO>> \o tail ELSE tail
    BY DEF omen_encode_byte
  <1>2. ZDLE \in Calm(R) /\ SO \in Calm(R)
    BY CalmQuotes
  <1>3. CASE coded # {}
    <2>1. \A x \in coded : x[2] \in 32 .. 127
      BY DEF OmenCodes, ZRUB0, ZRUB1
    <2> HIDE DEF coded
    <2>2. code \in 32 .. 127
      BY <1>3, <2>1
    <2> HIDE DEF code
    <2>3. code \in Calm(R)
      BY <2>2, CalmPrintable
    <2> QED
      BY <1>1, <1>2, <1>3, <2>3
  <1>4. CASE coded = {}
    <2>1. /\ low \in 0 .. 127 /\ low \in Byte /\ (c < 128 => low = c) /\ (c >= 128 => low = c - 128)
      BY LowByte
    <2>2. c \notin {14, 16, 17, 19, 24, 142, 144, 145, 147, 152, 255}
      <3>1. \A b : (\E x \in OmenCodes : x[1] = b) => b # c
        BY <1>4
      <3> HIDE DEF coded
      <3> DEFINE o1 == <<SO, 110>>   o2 == <<DLE, 80>>   o3 == <<XON, 81>>   o4 == <<XOFF, 83>>
                 o5 == <<ZDLE, 88>>  o6 == <<142, 111>>  o7 == <<144, 112>>  o8 == <<145, 113>>
                 o9 == <<147, 114>>  o10 == <<152, 116>> o11 == <<IAC, ZRUB1>>
      <3>2. /\ o1 \in OmenCodes /\ o2 \in OmenCodes /\ o3 \in OmenCodes /\ o4 \in OmenCodes
            /\ o5 \in OmenCodes /\ o6 \in OmenCodes /\ o7 \in OmenCodes /\ o8 \in OmenCodes
            /\ o9 \in OmenCodes /\ o10 \in OmenCodes /\ o11 \in OmenCodes
        BY DEF OmenCodes
      <3>3. /\ o1[1] = 14 /\ o2[1] = 16 /\ o3[1] = 17 /\ o4[1] = 19 /\ o5[1] = 24 /\ o6[1] = 142
            /\ o7[1] = 144 /\ o8[1] = 145 /\ o9[1] = 147 /\ o10[1] = 152 /\ o11[1] = 255
        BY DEF SO, DLE, XON, XOFF, ZDLE, IAC
      <3> HIDE DEF o1, o2, o3, o4, o5, o6, o7, o8, o9, o10, o11
      <3> QED
        BY <3>1, <3>2, <3>3
    <2> HIDE DEF coded
    <2>3. low \notin {14, 16, 17, 19, 24}
      <3> HIDE DEF low
      <3> QED
        BY <2>1, <2>2 DEF Byte
    <2>4. tail \in Seq(Calm(R))
      <3>1. CASE f.ctl /\ low < 32
        <4> DEFINE y == Toggled(low)
        <4>1. y \in 32 .. 127
          <5>1. \A b \in 0 .. 31 : Toggled(b) \in 32 .. 127
            BY DEF Toggled
          <5> QED
            BY <2>1, <3>1, <5>1
        <4> HIDE DEF y
        <4>2. y \in Calm(R)
          BY <4>1, CalmPrintable
        <4>3. <<ZDLE, y>> \in Seq(Calm(R))
          BY <1>2, <4>2
        <4> QED
          BY <3>1, <4>3 DEF y
      <3>2. CASE ~(f.ctl /\ low < 32)
        <4> DEFINE y == low
        <4>1. y \in Byte /\ y \in 0 .. 127 /\ y \notin {14, 16, 17, 19, 24} /\ ~(f.ctl /\ y < 32)
          BY <2>1, <2>3, <3>2
        <4> HIDE DEF y
        <4>2. ~IsFlow(y) /\ y # DLE /\ y # IAC /\ y < 128
          BY <4>1 DEF IsFlow, Low, XON, XOFF, DLE, IAC
        <4>3. f.ctl => ~IsControl(y)
          BY <4>1, ControlBytes
        <4>4. y \in Calm(R)
          BY <4>1, <4>2, <4>3, CalmByte
        <4>5. <<y>> \in Seq(Calm(R))
          BY <4>4
        <4> QED
          BY <3>2, <4>5 DEF y
      <3> QED
        BY <3>1, <3>2
    <2> HIDE DEF tail
    <2>5. <<SO>> \in Seq(Calm(R))
      BY <1>2
    <2>6. <<SO>> \o tail \in Seq(Calm(R))
      <3> DEFINE so == <<SO>>
      <3> HIDE DEF so
      <3> QED
        BY <2>4, <2>5 DEF so
    <2> QED
      BY <1>1, <1>4, <2>4, <2>6
  <1> QED
    BY <1>3, <1>4

LEMMA OmenWireCalm ==
  ASSUME NEW f \in Formats, f.style \in SevenBit, NEW R, Covers(f, R), NEW data \in Seq(Byte)
  PROVE  OmenWire(f, data) \in Seq(Calm(R))
  <1> DEFINE n == Len(data)  parts == [i \in 1 .. n |-> omen_encode_byte(f, data[i])]
  <1>1. n \in Nat /\ \A i \in 1 .. n : data[i] \in Byte
    BY SeqElements
  <1> HIDE DEF n
  <1>2. parts \in [1 .. n -> Seq(Calm(R))]
    BY <1>1, OmenByteCalm
  <1>3. OmenWire(f, data) = FlattenSeq(parts)
    BY DEF OmenWire, n
  <1> HIDE DEF parts
  <1>4. parts \in Seq(Seq(Calm(R)))
    BY <1>1, <1>2, FunctionIsSeq
  <1> QED
    BY <1>3, <1>4, FlattenAll

LEMMA OmenBegun ==
  ASSUME NEW f \in Formats, f.style \in SevenBit, NEW R, Covers(f, R),
         NEW a, NEW s \in Sendings(R, a), s.wire = << >> => a = ZPAD, NEW p \in Parameters
  PROVE  tx_omen_header(f, s, p) \in Begun(R, a)
  <1> DEFINE x == IF f.style = "pack7" THEN ZBINP7 ELSE ZBINR32ESC8
             y == 33 + Len(p)
             A == <<ZPAD, ZDLE, x, y>>
             check == OmenCrc(p)
             rest == OmenWire(f, p \o check)
  <1>1. p \in Seq(Byte) /\ Len(p) \in 1 .. 17
    BY DEF Parameters
  <1>2. ZPAD \in Calm(R) /\ ZDLE \in Calm(R) /\ x \in Calm(R) /\ y \in Calm(R)
    <2>1. Len(p) \in 1 .. 17 /\ \A k \in 1 .. 17 : 33 + k \in 32 .. 127
      BY <1>1
    <2>2. y \in 32 .. 127
      BY <2>1
    <2>3. x \in 32 .. 127 /\ ZPAD \in 32 .. 127
      BY DEF ZPAD, ZBINP7, ZBINR32ESC8
    <2> HIDE DEF x, y
    <2>4. x \in Calm(R) /\ y \in Calm(R) /\ ZPAD \in Calm(R)
      BY <2>2, <2>3, CalmPrintable
    <2> QED
      BY <2>4, CalmQuotes
  <1>3. A \in Seq(Calm(R)) /\ Len(A) = 4 /\ A[1] = ZPAD
    <2> HIDE DEF x, y
    <2> QED
      BY <1>2
  <1>4. check \in Seq(Byte)
    BY <1>1, OmenCrcBytes, WordIsBytes
  <1>5. rest \in Seq(Calm(R))
    <2> HIDE DEF check
    <2>1. p \o check \in Seq(Byte)
      BY <1>1, <1>4
    <2> QED
      BY <2>1, OmenWireCalm
  <1>6. tx_omen_header(f, s, p) = raw(s, A \o rest)
    BY DEF tx_omen_header
  <1> HIDE DEF A, rest
  <1>7. A \o rest \in Seq(Calm(R)) /\ A \o rest # << >> /\ (A \o rest)[1] = ZPAD
    <2>1. Len(rest) \in Nat
      BY <1>5
    <2>2. A \o rest \in Seq(Calm(R)) /\ Len(A \o rest) = Len(A) + Len(rest)
      BY <1>3, <1>5, Joined
    <2>3. (A \o rest)[1] = A[1]
      <3>1. 1 \in 1 .. Len(A) + Len(rest) /\ 1 <= Len(A)
        BY <1>3, <2>1
      <3> QED
        BY <1>3, <1>5, <3>1, Joined
    <2>4. A \o rest # << >>
      BY <1>3, <2>1, <2>2
    <2> QED
      BY <1>3, <2>2, <2>3, <2>4
  <1> DEFINE q == A \o rest
  <1>8. raw(s, q) \in Begun(R, a)
    <2> HIDE DEF q
    <2>1. q \in Seq(Calm(R)) /\ q # << >> /\ q[1] = ZPAD
      BY <1>7 DEF q
    <2> QED
      BY <2>1, RawCalm
  <1> QED
    BY <1>6, <1>8

\* tx_header, in every style.
LEMMA HeaderBegun ==
  ASSUME NEW f \in Formats, NEW R, Covers(f, R),
         NEW a, NEW s \in Sendings(R, a), s.wire = << >> => a = ZPAD, NEW p \in Parameters
  PROVE  tx_header(f, s, p) \in Begun(R, a)
  <1>1. f.style \in {"hex", "bin32", "moby", "rle", "pack7"}
    BY DEF Formats, Styles
  <1>2. CASE f.style = "hex"
    <2>1. tx_header(f, s, p) = tx_hex_header(s, p)
      BY <1>2 DEF tx_header, SevenBit
    <2> QED
      BY <2>1, HexBegun
  <1>3. CASE f.style = "bin32"
    BY <1>3, Bin32Begun DEF tx_header, SevenBit
  <1>4. CASE f.style = "moby"
    BY <1>4, MobyBegun DEF tx_header, SevenBit
  <1>5. CASE f.style \in {"rle", "pack7"}
    <2>1. f.style \in SevenBit /\ f.style # "hex" /\ f.style # "bin32" /\ f.style # "moby"
      BY <1>5 DEF SevenBit
    <2>2. tx_header(f, s, p) = tx_omen_header(f, s, p)
      BY <2>1 DEF tx_header
    <2> QED
      BY <2>1, <2>2, OmenBegun
  <1> QED
    BY <1>1, <1>2, <1>3, <1>4, <1>5

----------------------------------------------------------------------------
(* Run lengths.                                                            *)

LEMMA MaxOf ==
  ASSUME NEW m \in Nat, NEW S \in SUBSET (1 .. m), S # {}
  PROVE  Max(S) \in S
  <1> DEFINE HasMax(U) == \E x \in U : \A y \in U : x >= y
             T == {k \in 0 .. m : \A U \in SUBSET (1 .. k) : U # {} => HasMax(U)}
  <1>1. 0 \in T
    <2>1. 1 .. 0 = {}
      OBVIOUS
    <2>2. 0 \in 0 .. m
      OBVIOUS
    <2> HIDE DEF HasMax
    <2>3. \A U \in SUBSET (1 .. 0) : U # {} => HasMax(U)
      BY <2>1
    <2> QED
      BY <2>2, <2>3
  <1>2. ASSUME NEW k \in 0 .. m - 1, k \in T PROVE k + 1 \in T
    <2>1. ASSUME NEW U \in SUBSET (1 .. k + 1), U # {} PROVE HasMax(U)
      <3>1. CASE k + 1 \in U
        <4>1. \A y \in U : k + 1 >= y
          OBVIOUS
        <4> QED
          BY <3>1, <4>1
      <3>2. CASE k + 1 \notin U
        <4>1. U \subseteq 1 .. k
          BY <3>2
        <4> HIDE DEF HasMax
        <4> QED
          BY <1>2, <2>1, <4>1
      <3> QED
        BY <3>1, <3>2
    <2> HIDE DEF HasMax
    <2>2. k + 1 \in 0 .. m
      OBVIOUS
    <2> QED
      BY <2>1, <2>2
  <1> HIDE DEF T
  <1>3. \A k \in 0 .. m - 1 : k \in T => k + 1 \in T
    BY <1>2
  <1>4. \A k \in 0 .. m : k \in T
    BY <1>1, <1>3, BoundedInduction
  <1>5. m \in T
    BY <1>4
  <1>6. HasMax(S)
    <2> HIDE DEF HasMax
    <2> QED
      BY <1>5 DEF T
  <1> QED
    BY <1>6 DEF Max

LEMMA RunFound ==
  ASSUME NEW data \in Seq(Byte), NEW i \in 1 .. Len(data)
  PROVE  /\ RunAt(data, i) \in 1 .. MaxRun /\ i + RunAt(data, i) \in i + 1 .. Len(data) + 1
         /\ \A j \in i .. i + RunAt(data, i) - 1 : data[j] = data[i]
  <1> DEFINE S == {n \in 1 .. MaxRun : i + n - 1 <= Len(data) /\ \A j \in i .. i + n - 1 : data[j] = data[i]}
  <1>1. Len(data) \in Nat /\ i \in Nat /\ i <= Len(data)
    OBVIOUS
  <1>2. 1 \in S
    <2>1. i + 1 - 1 <= Len(data) /\ \A j \in i .. i + 1 - 1 : j = i
      BY <1>1
    <2>2. 1 \in 1 .. MaxRun
      BY DEF MaxRun
    <2> QED
      BY <2>1, <2>2
  <1>3. S \in SUBSET (1 .. MaxRun) /\ MaxRun \in Nat /\ S # {}
    BY <1>2 DEF MaxRun
  <1>4. Max(S) \in S
    <2> HIDE DEF S
    <2> QED
      BY <1>3, MaxOf
  <1>5. RunAt(data, i) = Max(S)
    BY DEF RunAt
  <1> DEFINE x == Max(S)
  <1>6. /\ x \in 1 .. MaxRun /\ i + x - 1 <= Len(data)
        /\ \A j \in i .. i + x - 1 : data[j] = data[i]
    BY <1>4
  <1> HIDE DEF x
  <1>7. x \in 1 .. MaxRun /\ i + x \in i + 1 .. Len(data) + 1
    BY <1>1, <1>6 DEF MaxRun
  <1> QED
    BY <1>5, <1>6, <1>7 DEF x

LEMMA TokenBytes ==
  ASSUME NEW run \in 1 .. MaxRun, NEW value \in Byte
  PROVE  RunToken(run, value) \in Seq(Byte)
  <1>1. ZRESC \in Byte /\ 64 \in Byte
    BY DEF ZRESC, Byte
  <1>2. run + 64 \in Byte
    BY DEF Byte, MaxRun
  <1>3. omen_rle_uses_space_run(run, value) => run + 29 \in Byte
    BY DEF omen_rle_uses_space_run, Byte
  <1>4. <<ZRESC, 64>> \in Seq(Byte) /\ <<value>> \in Seq(Byte) /\ <<value, value>> \in Seq(Byte)
    BY <1>1
  <1>5. <<ZRESC, run + 64, value>> \in Seq(Byte)
    BY <1>1, <1>2
  <1>6. omen_rle_uses_space_run(run, value) => <<ZRESC, run + 29>> \in Seq(Byte)
    BY <1>1, <1>3
  <1>7. CASE run = 1
    BY <1>4, <1>7 DEF RunToken
  <1>8. CASE run # 1
    <2>1. run > 1
      BY <1>8 DEF MaxRun
    <2>2. CASE ~omen_rle_requires_marker(run, value)
      <3>1. ~(run > 2)
        BY <2>2, <2>1 DEF omen_rle_requires_marker
      <3>2. RunToken(run, value) = <<value, value>>
        BY <1>8, <2>1, <2>2, <3>1 DEF RunToken
      <3> QED
        BY <1>4, <3>2
    <2>3. CASE omen_rle_requires_marker(run, value) /\ run > 2 /\ omen_rle_uses_space_run(run, value)
      <3>1. RunToken(run, value) = <<ZRESC, run + 29>>
        BY <1>8, <2>1, <2>3 DEF RunToken
      <3> QED
        BY <1>6, <2>3, <3>1
    <2>4. CASE omen_rle_requires_marker(run, value) /\ ~(run > 2 /\ omen_rle_uses_space_run(run, value))
      <3>1. RunToken(run, value) = <<ZRESC, run + 64, value>>
        BY <1>8, <2>1, <2>4 DEF RunToken
      <3> QED
        BY <1>5, <3>1
    <2> QED
      BY <2>2, <2>3, <2>4
  <1> QED
    BY <1>7, <1>8

\* The tokens of the rest of the data, from each byte on, exist and are bytes.
Tokened(data, g) ==
  /\ g[1] = RunTokens(data)
  /\ \A i \in 1 .. Len(data) + 1 :
       /\ g[i] \in Seq(Byte)
       /\ g[i] = IF i > Len(data) THEN << >>
                 ELSE RunToken(RunAt(data, i), data[i]) \o g[i + RunAt(data, i)]

LEMMA SomeTokens ==
  ASSUME NEW data \in Seq(Byte)
  PROVE  \E g : Tokened(data, g)
  <1> DEFINE n == Len(data)
             after(i) == i + RunAt(data, i)
             token(i) == RunToken(RunAt(data, i), data[i])
             Body(h, i) == IF i > n THEN << >> ELSE token(i) \o h[after(i)]
             Chain(h) == h = [i \in 1 .. n + 1 |-> Body(h, i)]
             tokens == CHOOSE h : Chain(h)
             Goes(g, k) == \A i \in (n + 1) - k .. n + 1 : g[i] = Body(g, i)
             T == {k \in 0 .. n : \E g \in [(n + 1) - k .. n + 1 -> Seq(Byte)] : Goes(g, k)}
             U == {k \in 0 .. n : \A i \in (n + 1) - k .. n + 1 : tokens[i] \in Seq(Byte)}
  <1>1. n \in Nat /\ \A i \in 1 .. n : data[i] \in Byte
    BY SeqElements
  <1>2. \A i \in 1 .. n : after(i) \in i + 1 .. n + 1 /\ token(i) \in Seq(Byte)
    BY <1>1, RunFound, TokenBytes
  <1>3. RunTokens(data) = tokens[1]
    BY DEF RunTokens
  <1> HIDE DEF n, after, token
  <1>5. 0 \in T
    <2> DEFINE g == [i \in (n + 1) - 0 .. n + 1 |-> << >>]
    <2>1. g \in [(n + 1) - 0 .. n + 1 -> Seq(Byte)]
      OBVIOUS
    <2>2. \A i \in (n + 1) - 0 .. n + 1 : i > n /\ g[i] = << >>
      BY <1>1
    <2> HIDE DEF g
    <2>3. Goes(g, 0)
      BY <2>2
    <2>4. 0 \in 0 .. n
      BY <1>1
    <2> HIDE DEF Goes
    <2> QED
      BY <2>1, <2>3, <2>4
  <1>6. ASSUME NEW k \in 0 .. n - 1, k \in T PROVE k + 1 \in T
    <2> DEFINE m == n - k
    <2>1. PICK g \in [(n + 1) - k .. n + 1 -> Seq(Byte)] : Goes(g, k)
      <3> HIDE DEF Goes
      <3> QED
        BY <1>6
    <2> DEFINE first == token(m) \o g[after(m)]
               h == [i \in (n + 1) - (k + 1) .. n + 1 |-> IF i = m THEN first ELSE g[i]]
    <2>2. /\ m \in 1 .. n /\ k \in Nat /\ (n + 1) - (k + 1) = m
          /\ \A i \in (n + 1) - (k + 1) .. n + 1 : i = m \/ i \in (n + 1) - k .. n + 1
          /\ m \notin (n + 1) - k .. n + 1
      BY <1>1
    <2> HIDE DEF m
    <2>3. after(m) \in (n + 1) - k .. n + 1 /\ token(m) \in Seq(Byte)
      <3>1. after(m) \in m + 1 .. n + 1 /\ token(m) \in Seq(Byte)
        BY <1>2, <2>2
      <3> QED
        BY <1>1, <2>2, <3>1 DEF m
    <2>4. first \in Seq(Byte)
      <3> DEFINE u == token(m)  v == g[after(m)]
      <3>1. u \in Seq(Byte) /\ v \in Seq(Byte)
        BY <2>3
      <3> HIDE DEF u, v
      <3>2. u \o v \in Seq(Byte)
        BY <3>1
      <3> QED
        BY <3>2 DEF u, v
    <2> HIDE DEF first
    <2>5. h \in [(n + 1) - (k + 1) .. n + 1 -> Seq(Byte)]
      BY <2>2, <2>4
    <2>6. /\ h[m] = first
          /\ \A i \in (n + 1) - k .. n + 1 : h[i] = g[i]
      <3>1. m \in (n + 1) - (k + 1) .. n + 1
        BY <1>1, <2>2
      <3>2. \A i \in (n + 1) - k .. n + 1 : i \in (n + 1) - (k + 1) .. n + 1 /\ i # m
        BY <1>1, <2>2
      <3> QED
        BY <3>1, <3>2
    <2> HIDE DEF h
    <2>7. Goes(h, k + 1)
      <3>1. ASSUME NEW i \in (n + 1) - (k + 1) .. n + 1 PROVE h[i] = Body(h, i)
        <4>1. CASE i = m
          <5>1. ~(m > n)
            BY <1>1, <2>2
          <5>2. h[after(m)] = g[after(m)]
            BY <2>3, <2>6
          <5> QED
            BY <2>6, <4>1, <5>1, <5>2 DEF first
        <4>2. CASE i # m
          <5>1. i \in (n + 1) - k .. n + 1
            BY <2>2, <4>2
          <5>2. h[i] = g[i] /\ g[i] = Body(g, i)
            BY <2>1, <2>6, <5>1
          <5>3. CASE i > n
            BY <5>2, <5>3
          <5>4. CASE ~(i > n)
            <6>1. i \in 1 .. n
              BY <1>1, <2>2, <5>1, <5>4
            <6>2. after(i) \in i + 1 .. n + 1
              BY <1>2, <6>1
            <6>3. after(i) \in (n + 1) - k .. n + 1
              BY <1>1, <2>2, <5>1, <6>1, <6>2
            <6>4. h[after(i)] = g[after(i)]
              BY <2>6, <6>3
            <6> QED
              BY <5>2, <5>4, <6>4
          <5> QED
            BY <5>3, <5>4
        <4> QED
          BY <4>1, <4>2
      <3> HIDE DEF Body
      <3> QED
        BY <3>1
    <2>8. k + 1 \in 0 .. n
      BY <1>1
    <2> HIDE DEF Goes
    <2> QED
      BY <2>5, <2>7, <2>8
  <1> HIDE DEF T
  <1>7. \A k \in 0 .. n : k \in T
    <2>1. \A k \in 0 .. n - 1 : k \in T => k + 1 \in T
      BY <1>6
    <2> QED
      BY <1>1, <1>5, <2>1, BoundedInduction
  <1>8. PICK g \in [(n + 1) - n .. n + 1 -> Seq(Byte)] : Goes(g, n)
    <2> HIDE DEF Goes
    <2>1. n \in T
      BY <1>1, <1>7
    <2> QED
      BY <2>1 DEF T
  <1>9. Chain(tokens)
    <2>1. (n + 1) - n = 1
      BY <1>1
    <2>2. g = [i \in 1 .. n + 1 |-> g[i]] /\ \A i \in 1 .. n + 1 : g[i] = Body(g, i)
      BY <1>8, <2>1
    <2>3. Chain(g)
      <3> HIDE DEF Body
      <3> QED
        BY <2>2
    <2> HIDE DEF Chain
    <2> QED
      BY <2>3
  <1> HIDE DEF tokens
  <1>10. \A i \in 1 .. n + 1 : tokens[i] = Body(tokens, i)
    <2> HIDE DEF Body
    <2> QED
      BY <1>9
  <1> HIDE DEF Chain
  <1>11. 0 \in U
    <2>1. \A i \in (n + 1) - 0 .. n + 1 : i > n /\ i \in 1 .. n + 1
      BY <1>1
    <2>2. 0 \in 0 .. n
      BY <1>1
    <2>3. ASSUME NEW i \in (n + 1) - 0 .. n + 1 PROVE tokens[i] \in Seq(Byte)
      <3>1. tokens[i] = << >>
        BY <1>10, <2>1
      <3> QED
        BY <3>1
    <2> HIDE DEF Body
    <2> QED
      BY <2>2, <2>3
  <1>12. ASSUME NEW k \in 0 .. n - 1, k \in U PROVE k + 1 \in U
    <2> DEFINE m == n - k
    <2>1. /\ m \in 1 .. n /\ k \in Nat /\ k + 1 \in 0 .. n
          /\ \A i \in (n + 1) - (k + 1) .. n + 1 : i = m \/ i \in (n + 1) - k .. n + 1
          /\ \A i \in m + 1 .. n + 1 : i \in (n + 1) - k .. n + 1
      BY <1>1
    <2> HIDE DEF m
    <2>2. after(m) \in m + 1 .. n + 1 /\ token(m) \in Seq(Byte)
      BY <1>2, <2>1
    <2>3. tokens[after(m)] \in Seq(Byte)
      BY <1>12, <2>1, <2>2
    <2>4. tokens[m] = token(m) \o tokens[after(m)]
      <3>1. m \in 1 .. n + 1 /\ ~(m > n)
        BY <1>1, <2>1
      <3> QED
        BY <1>10, <3>1
    <2>5. tokens[m] \in Seq(Byte)
      <3> DEFINE u == token(m)  v == tokens[after(m)]
      <3>1. u \in Seq(Byte) /\ v \in Seq(Byte)
        BY <2>2, <2>3
      <3> HIDE DEF u, v
      <3>2. u \o v \in Seq(Byte)
        BY <3>1
      <3> QED
        BY <2>4, <3>2 DEF u, v
    <2> QED
      BY <1>12, <2>1, <2>5
  <1> HIDE DEF U
  <1>13. \A k \in 0 .. n : k \in U
    <2>1. \A k \in 0 .. n - 1 : k \in U => k + 1 \in U
      BY <1>12
    <2> QED
      BY <1>1, <1>11, <2>1, BoundedInduction
  <1>14. n \in U /\ (n + 1) - n = 1
    BY <1>1, <1>13
  <1>15. \A i \in 1 .. n + 1 : tokens[i] \in Seq(Byte)
    BY <1>14 DEF U
  <1>16. Tokened(data, tokens)
    BY <1>3, <1>10, <1>15 DEF Tokened, n, after, token
  <1> QED
    BY <1>16

LEMMA TokensBytes ==
  ASSUME NEW data \in Seq(Byte)
  PROVE  RunTokens(data) \in Seq(Byte)
  <1>1. PICK g : Tokened(data, g)
    BY SomeTokens
  <1>2. 1 \in 1 .. Len(data) + 1
    OBVIOUS
  <1> QED
    BY <1>1, <1>2 DEF Tokened

----------------------------------------------------------------------------
(* Pack-7.                                                                 *)

Divided == [quotient : Seq(Byte), rest : 0 .. 87]

LEMMA DividedBytes ==
  ASSUME NEW number \in Seq(Byte)
  PROVE  DivMod88(number) \in Divided
  <1> DEFINE start == [quotient |-> << >>, rest |-> 0]
             n == Len(number)
             After(x, i) == [quotient |-> Append(x.quotient, (x.rest * 256 + number[i]) \div 88),
                             rest |-> (x.rest * 256 + number[i]) % 88]
             step == [i \in 1 .. n |-> [x \in Divided |-> After(x, i)]]
             Body(f, i) == IF i = 0 THEN start ELSE After(f[i - 1], i)
             Chain(f) == f = [i \in 0 .. n |-> Body(f, i)]
             upto == CHOOSE f : Chain(f)
  <1>1. n \in Nat /\ \A i \in 1 .. n : number[i] \in Byte
    BY SeqElements
  <1>2. start \in Divided /\ \A i \in 1 .. n, x \in Divided : After(x, i) \in Divided
    <2>1. start \in Divided
      BY DEF Divided
    <2>2. \A q \in 0 .. 87, b \in Byte : (q * 256 + b) \div 88 \in Byte /\ (q * 256 + b) % 88 \in 0 .. 87
      BY DEF Byte
    <2>3. ASSUME NEW i \in 1 .. n, NEW x \in Divided PROVE After(x, i) \in Divided
      <3> DEFINE q == (x.rest * 256 + number[i]) \div 88  m == (x.rest * 256 + number[i]) % 88
      <3>1. x.quotient \in Seq(Byte) /\ x.rest \in 0 .. 87
        BY DEF Divided
      <3>2. q \in Byte /\ m \in 0 .. 87
        BY <1>1, <2>2, <3>1
      <3> HIDE DEF q, m
      <3>3. Append(x.quotient, q) \in Seq(Byte)
        BY <3>1, <3>2
      <3>4. [quotient |-> Append(x.quotient, q), rest |-> m] \in Divided
        BY <3>2, <3>3 DEF Divided
      <3> QED
        BY <3>4 DEF q, m
    <2> HIDE DEF start, After
    <2> QED
      BY <2>1, <2>3
  <1>3. DivMod88(number) = upto[n]
    BY DEF DivMod88, Along
  <1> HIDE DEF start
  <1> HIDE DEF n, After
  <1>4. step \in Moves(Divided, n) /\ \A i \in 1 .. n, x \in Divided : step[i][x] = After(x, i)
    BY <1>1, <1>2 DEF Moves
  <1> HIDE DEF step
  <1>5. PICK g : Leads(Divided, n, start, step, g)
    BY <1>1, <1>2, <1>4, Recursion
  <1>6. g \in [0 .. n -> Divided] /\ g[0] = start /\ \A i \in 1 .. n : g[i] = step[i][g[i - 1]]
    BY <1>5 DEF Leads
  <1>7. \A i \in 1 .. n : g[i] = After(g[i - 1], i)
    <2> TAKE i \in 1 .. n
    <2>1. i - 1 \in 0 .. n
      BY <1>1, <1>2
    <2> QED
      BY <1>4, <1>6, <2>1
  <1>8. Chain(g)
    <2>1. g = [i \in 0 .. n |-> g[i]]
      BY <1>6
    <2>2. \A i \in 0 .. n : g[i] = Body(g, i)
      <3> TAKE i \in 0 .. n
      <3>1. CASE i = 0
        BY <1>6, <3>1
      <3>2. CASE i # 0
        <4>1. i \in 1 .. n
          BY <1>1, <1>2, <3>2
        <4> QED
          BY <1>7, <3>2, <4>1
      <3> QED
        BY <3>1, <3>2
    <2> HIDE DEF Body
    <2> QED
      BY <2>1, <2>2
  <1>9. Chain(upto)
    <2> HIDE DEF Chain
    <2> QED
      BY <1>8
  <1> HIDE DEF upto
  <1>10. \A i \in 0 .. n : upto[i] = Body(upto, i)
    <2> HIDE DEF Body
    <2> QED
      BY <1>9
  <1> HIDE DEF Chain
  <1>11. upto[0] \in Divided /\ \A i \in 1 .. n : upto[i - 1] \in Divided => upto[i] \in Divided
    <2>1. upto[0] \in Divided
      BY <1>1, <1>2, <1>10
    <2>2. ASSUME NEW i \in 1 .. n, upto[i - 1] \in Divided PROVE upto[i] \in Divided
      <3>1. i \in 0 .. n /\ i # 0
        BY <1>1, <1>2
      <3>2. upto[i] = After(upto[i - 1], i)
        BY <1>10, <3>1
      <3> QED
        BY <1>1, <1>2, <2>2, <3>2
    <2> QED
      BY <2>1, <2>2
  <1>12. upto[n] \in Divided
    <2>1. n \in 0 .. n
      BY <1>1, <1>2
    <2> QED
      BY <1>1, <1>2, <1>11, <2>1, ChainStays
  <1> QED
    BY <1>3, <1>12

Digit88 == 34 .. 121

LEMMA GroupDigits ==
  ASSUME NEW group \in Seq(Byte)
  PROVE  pack7_encode_group(group) \in Seq(Digit88)
  <1> DEFINE n == Len(group)
             After(x, i) == DivMod88(x).quotient
             step == [i \in 1 .. n |-> [x \in Seq(Byte) |-> After(x, i)]]
             Body(f, i) == IF i = 0 THEN group ELSE After(f[i - 1], i)
             Chain(f) == f = [i \in 0 .. n |-> Body(f, i)]
             upto == CHOOSE f : Chain(f)
  <1>1. n \in Nat
    OBVIOUS
  <1>2. group \in Seq(Byte) /\ \A i \in 1 .. n, x \in Seq(Byte) : After(x, i) \in Seq(Byte)
    BY DividedBytes DEF Divided
  <1>3. pack7_encode_group(group) = [i \in 1 .. n + 1 |-> 34 + DivMod88(upto[n + 1 - i]).rest]
    BY DEF pack7_encode_group
  <1> HIDE DEF n, After
  <1>4. step \in Moves(Seq(Byte), n) /\ \A i \in 1 .. n, x \in Seq(Byte) : step[i][x] = After(x, i)
    BY <1>1, <1>2 DEF Moves
  <1> HIDE DEF step
  <1>5. PICK g : Leads(Seq(Byte), n, group, step, g)
    BY <1>1, <1>2, <1>4, Recursion
  <1>6. g \in [0 .. n -> Seq(Byte)] /\ g[0] = group /\ \A i \in 1 .. n : g[i] = step[i][g[i - 1]]
    BY <1>5 DEF Leads
  <1>7. \A i \in 1 .. n : g[i] = After(g[i - 1], i)
    <2> TAKE i \in 1 .. n
    <2>1. i - 1 \in 0 .. n
      BY <1>1, <1>2
    <2> QED
      BY <1>4, <1>6, <2>1
  <1>8. Chain(g)
    <2>1. g = [i \in 0 .. n |-> g[i]]
      BY <1>6
    <2>2. \A i \in 0 .. n : g[i] = Body(g, i)
      <3> TAKE i \in 0 .. n
      <3>1. CASE i = 0
        BY <1>6, <3>1
      <3>2. CASE i # 0
        <4>1. i \in 1 .. n
          BY <1>1, <1>2, <3>2
        <4> QED
          BY <1>7, <3>2, <4>1
      <3> QED
        BY <3>1, <3>2
    <2> HIDE DEF Body
    <2> QED
      BY <2>1, <2>2
  <1>9. Chain(upto)
    <2> HIDE DEF Chain
    <2> QED
      BY <1>8
  <1> HIDE DEF upto
  <1>10. \A i \in 0 .. n : upto[i] = Body(upto, i)
    <2> HIDE DEF Body
    <2> QED
      BY <1>9
  <1> HIDE DEF Chain
  <1>11. upto[0] \in Seq(Byte) /\ \A i \in 1 .. n : upto[i - 1] \in Seq(Byte) => upto[i] \in Seq(Byte)
    <2>1. upto[0] \in Seq(Byte)
      BY <1>1, <1>2, <1>10
    <2>2. ASSUME NEW i \in 1 .. n, upto[i - 1] \in Seq(Byte) PROVE upto[i] \in Seq(Byte)
      <3>1. i \in 0 .. n /\ i # 0
        BY <1>1, <1>2
      <3>2. upto[i] = After(upto[i - 1], i)
        BY <1>10, <3>1
      <3> QED
        BY <1>1, <1>2, <2>2, <3>2
    <2> QED
      BY <2>1, <2>2
  <1>12. upto[n] \in Seq(Byte)
    <2>1. n \in 0 .. n
      BY <1>1, <1>2
    <2> QED
      BY <1>1, <1>2, <1>11, <2>1, ChainStays
  <1>13. \A k \in 0 .. n : upto[k] \in Seq(Byte)
    BY <1>1, <1>11, ChainStays
  <1>14. ASSUME NEW i \in 1 .. n + 1 PROVE 34 + DivMod88(upto[n + 1 - i]).rest \in Digit88
    <2>1. n + 1 - i \in 0 .. n
      BY <1>1
    <2>2. DivMod88(upto[n + 1 - i]).rest \in 0 .. 87
      BY <1>13, <2>1, DividedBytes DEF Divided
    <2> DEFINE d == DivMod88(upto[n + 1 - i]).rest
    <2> HIDE DEF d
    <2>3. d \in 0 .. 87
      BY <2>2 DEF d
    <2>4. 34 + d \in Digit88
      BY <2>3 DEF Digit88
    <2> QED
      BY <2>4 DEF d
  <1>15. n + 1 \in Nat
    BY <1>1
  <1> DEFINE digits == [i \in 1 .. n + 1 |-> 34 + DivMod88(upto[n + 1 - i]).rest]
  <1>16. digits \in [1 .. n + 1 -> Digit88]
    BY <1>14
  <1> HIDE DEF digits
  <1>17. digits \in Seq(Digit88)
    BY <1>15, <1>16, FunctionIsSeq
  <1> QED
    BY <1>3, <1>17 DEF digits

LEMMA PartBytes ==
  ASSUME NEW s \in Seq(Byte), NEW m \in Nat \ {0}, NEW k \in Int, k <= Len(s)
  PROVE  SubSeq(s, m, k) \in Seq(Byte)
  <1> DEFINE n == IF m <= k THEN k - m + 1 ELSE 0
  <1>1. \A i \in m .. k : i \in 1 .. Len(s)
    OBVIOUS
  <1> QED
    BY <1>1

LEMMA Pack7Digits ==
  ASSUME NEW data \in Seq(Byte)
  PROVE  Pack7Wire(data) \in Seq(Digit88)
  <1> DEFINE n == (Len(data) + 3) \div 4
             groups == [g \in 1 .. n |->
                   SubSeq(data, 4 * g - 3, IF 4 * g < Len(data) THEN 4 * g ELSE Len(data))]
             parts == [g \in DOMAIN groups |-> pack7_encode_group(groups[g])]
  <1>1. n \in Nat /\ Len(data) \in Nat
    OBVIOUS
  <1>2. ASSUME NEW g \in 1 .. n PROVE groups[g] \in Seq(Byte)
    <2> DEFINE k == IF 4 * g < Len(data) THEN 4 * g ELSE Len(data)
    <2>1. 4 * g - 3 \in Nat \ {0} /\ k \in Int /\ k <= Len(data)
      OBVIOUS
    <2> HIDE DEF k
    <2>2. SubSeq(data, 4 * g - 3, k) \in Seq(Byte)
      BY <2>1, PartBytes
    <2> QED
      BY <2>2 DEF k
  <1>3. DOMAIN groups = 1 .. n /\ Pack7Wire(data) = FlattenSeq(parts)
    BY DEF Pack7Wire
  <1> HIDE DEF n, groups
  <1>4. parts \in [1 .. n -> Seq(Digit88)]
    BY <1>2, <1>3, GroupDigits
  <1> HIDE DEF parts
  <1>5. parts \in Seq(Seq(Digit88))
    BY <1>1, <1>4, FunctionIsSeq
  <1> QED
    BY <1>3, <1>5, FlattenAll

----------------------------------------------------------------------------
(* Data on the line.                                                       *)

LEMMA ThreeParts ==
  ASSUME NEW S, NEW u \in Seq(S), NEW v \in Seq(S), NEW w \in Seq(S), v # << >>
  PROVE  (u \o v) \o w \in Seq(S) /\ (u \o v) \o w # << >>
  <1> DEFINE t == u \o v  z == t \o w
  <1>1. Len(v) > 0 /\ Len(u) \in Nat /\ Len(w) \in Nat /\ Len(v) \in Nat
    OBVIOUS
  <1>2. t \in Seq(S) /\ Len(t) = Len(u) + Len(v)
    BY Joined
  <1> HIDE DEF t
  <1>3. z \in Seq(S) /\ Len(z) = Len(t) + Len(w)
    BY <1>2, Joined
  <1> HIDE DEF z
  <1>4. z # << >>
    BY <1>1, <1>2, <1>3
  <1> QED
    BY <1>3, <1>4 DEF z, t

\* What tx_data sends before the XON that follows ZCRCW.
DataEnded(f, sent, data, ending) ==
  LET tokens == RunTokens(data)
      check == DataCheck(f, IF f.style = "rle" THEN tokens ELSE data, ending)
  IN  CASE f.style \notin SevenBit -> PlainData(f, sent, data, ending)
        [] f.style = "rle" ->
             raw(sent, OmenWire(f, tokens) \o <<ZDLE, ending>> \o OmenWire(f, check))
        [] f.style = "pack7" ->
             raw(sent, Pack7Wire(data) \o <<33, ending>> \o pack7_encode_group(check))

LEMMA EndedBegun ==
  ASSUME NEW f \in Formats, NEW R, Covers(f, R), NEW a, NEW s \in Begun(R, a),
         NEW data \in Seq(Byte), NEW ending \in ZCRCE .. ZCRCW
  PROVE  DataEnded(f, s, data, ending) \in Begun(R, a)
  <1> DEFINE tokens == RunTokens(data)
             check == DataCheck(f, IF f.style = "rle" THEN tokens ELSE data, ending)
  <1>1. ending \in Byte
    BY CalmEnding
  <1>2. tokens \in Seq(Byte)
    BY TokensBytes
  <1>3. check \in Seq(Byte)
    <2> HIDE DEF tokens
    <2> QED
      BY <1>1, <1>2, CheckBytes
  <1>4. s \in Sendings(R, a) /\ s.wire # << >>
    BY DEF Begun
  <1>5. CASE f.style \notin SevenBit
    <2>1. DataEnded(f, s, data, ending) = PlainData(f, s, data, ending)
      BY <1>5 DEF DataEnded, SevenBit
    <2> QED
      BY <1>5, <2>1, PlainBegun
  <1>6. CASE f.style = "rle"
    <2> DEFINE u == OmenWire(f, tokens)  v == <<ZDLE, ending>>  w == OmenWire(f, check)
               z == (u \o v) \o w
    <2>1. f.style \in SevenBit
      BY <1>6 DEF SevenBit
    <2>2. DataEnded(f, s, data, ending) = raw(s, z)
      <3>1. ~(f.style \notin SevenBit) /\ f.style # "pack7"
        BY <1>6, <2>1
      <3>2. check = DataCheck(f, tokens, ending)
        BY <1>6
      <3> QED
        BY <1>6, <3>1 DEF DataEnded
    <2>3. u \in Seq(Calm(R)) /\ w \in Seq(Calm(R))
      <3> HIDE DEF tokens, check
      <3> QED
        BY <1>2, <1>3, <2>1, OmenWireCalm
    <2>4. v \in Seq(Calm(R)) /\ v # << >>
      BY CalmEnding
    <2> HIDE DEF u, v, w
    <2>5. z \in Seq(Calm(R)) /\ z # << >>
      BY <2>3, <2>4, ThreeParts
    <2> HIDE DEF z
    <2> QED
      BY <1>4, <2>2, <2>5, RawCalm
  <1>7. CASE f.style = "pack7"
    <2> DEFINE u == Pack7Wire(data)  v == <<33, ending>>  w == pack7_encode_group(check)
               z == (u \o v) \o w
    <2>1. f.style \in SevenBit /\ f.style # "rle"
      BY <1>7 DEF SevenBit
    <2>2. DataEnded(f, s, data, ending) = raw(s, z)
      BY <1>7, <2>1 DEF DataEnded
    <2>3. \A x \in Digit88 : x \in Calm(R)
      <3>1. \A x \in Digit88 : x \in 32 .. 127
        BY DEF Digit88
      <3> QED
        BY <3>1, CalmPrintable
    <2>4. u \in Seq(Digit88) /\ w \in Seq(Digit88)
      <3> HIDE DEF check
      <3> QED
        BY <1>3, Pack7Digits, GroupDigits
    <2>5. v \in Seq(Calm(R)) /\ v # << >>
      <3>2. 33 \in 32 .. 127 /\ ending \in 32 .. 127
        BY DEF ZCRCE, ZCRCW
      <3>1. 33 \in Calm(R) /\ ending \in Calm(R)
        BY <3>2, CalmPrintable
      <3> QED
        BY <3>1
    <2> HIDE DEF u, v, w
    <2>6. u \in Seq(Calm(R)) /\ w \in Seq(Calm(R))
      BY <2>3, <2>4
    <2>7. z \in Seq(Calm(R)) /\ z # << >>
      BY <2>5, <2>6, ThreeParts
    <2> HIDE DEF z
    <2> QED
      BY <1>4, <2>2, <2>7, RawCalm
  <1> QED
    BY <1>5, <1>6, <1>7 DEF SevenBit

LEMMA DataSent ==
  ASSUME NEW f, NEW s, NEW data, NEW ending
  PROVE  tx_data(f, s, data, ending) =
           IF ending = ZCRCW THEN raw(DataEnded(f, s, data, ending), <<XON>>)
           ELSE DataEnded(f, s, data, ending)
  <1>1. tx_data(f, s, data, ending) =
          raw(DataEnded(f, s, data, ending), IF ending = ZCRCW THEN <<XON>> ELSE << >>)
    BY DEF tx_data, DataEnded
  <1>2. raw(DataEnded(f, s, data, ending), << >>) = DataEnded(f, s, data, ending)
    BY DEF raw
  <1> QED
    BY <1>1, <1>2

----------------------------------------------------------------------------
(* The receiver keeps its type.                                            *)

Good == {r \in Receiver : r.sum \in Word /\ r.value \in Word}

LEMMA GoodFields ==
  ASSUME NEW r \in Good
  PROVE  /\ r.cancel \in 0 .. 5 /\ r.moby \in BOOLEAN /\ r.is32 \in BOOLEAN /\ r.ctl \in BOOLEAN
         /\ r.encoded \in {"none", "rle", "pack7"} /\ r.escape8 \in {"none", "legacy", "omen"}
         /\ r.style \in Byte /\ r.want \in 0 .. 17 /\ r.nibble \in -1 .. 15
         /\ r.header \in Seq(Byte) /\ r.crc \in Seq(Byte) /\ r.probe \in 0 .. 4
         /\ r.mode \in {"plain", "escaped", "slow"} /\ r.high \in BOOLEAN
         /\ r.rle \in {"normal", "count", "value"} /\ r.run \in 0 .. MaxRun
         /\ r.value \in Word /\ r.digits \in 0 .. 4 /\ r.sum \in Word /\ r.out \in Seq(Byte)
         /\ r.over \in BOOLEAN /\ r.ending \in Byte
  BY DEF Good, Receiver

\* A field at a time; s has r's other fields.
LEMMA GoodText ==
  ASSUME NEW r \in Good, NEW x \in Seq(Byte)
  PROVE  /\ [r EXCEPT !.header = x] \in Good /\ [r EXCEPT !.crc = x] \in Good
         /\ [r EXCEPT !.out = x] \in Good
  BY DEF Good, Receiver

LEMMA GoodWord ==
  ASSUME NEW r \in Good, NEW x \in Word
  PROVE  [r EXCEPT !.sum = x] \in Good /\ [r EXCEPT !.value = x] \in Good
  <1>1. x \in Seq(Byte)
    BY WordIsBytes
  <1> QED
    BY <1>1 DEF Good, Receiver

LEMMA GoodByte ==
  ASSUME NEW r \in Good, NEW x \in Byte
  PROVE  [r EXCEPT !.style = x] \in Good /\ [r EXCEPT !.ending = x] \in Good
  BY DEF Good, Receiver

LEMMA GoodCount ==
  ASSUME NEW r \in Good
  PROVE  /\ \A x \in 0 .. 5 : [r EXCEPT !.cancel = x] \in Good
         /\ \A x \in 0 .. 17 : [r EXCEPT !.want = x] \in Good
         /\ \A x \in -1 .. 15 : [r EXCEPT !.nibble = x] \in Good
         /\ \A x \in 0 .. 4 : [r EXCEPT !.probe = x] \in Good /\ [r EXCEPT !.digits = x] \in Good
         /\ \A x \in 0 .. MaxRun : [r EXCEPT !.run = x] \in Good
  <1>1. ASSUME NEW x \in 0 .. 5 PROVE [r EXCEPT !.cancel = x] \in Good
    BY DEF Good, Receiver
  <1>2. ASSUME NEW x \in 0 .. 17 PROVE [r EXCEPT !.want = x] \in Good
    BY DEF Good, Receiver
  <1>3. ASSUME NEW x \in -1 .. 15 PROVE [r EXCEPT !.nibble = x] \in Good
    BY DEF Good, Receiver
  <1>4. ASSUME NEW x \in 0 .. 4 PROVE [r EXCEPT !.probe = x] \in Good /\ [r EXCEPT !.digits = x] \in Good
    BY DEF Good, Receiver
  <1>5. ASSUME NEW x \in 0 .. MaxRun PROVE [r EXCEPT !.run = x] \in Good
    BY DEF Good, Receiver
  <1> QED
    BY <1>1, <1>2, <1>3, <1>4, <1>5

\* The type of the receiver with its flags and its events unnamed.
Flag == BOOLEAN
Events == {"none", "header", "data", "invalid", "cancelled"}

Shape ==
  [cancel : 0 .. 5, moby : Flag, is32 : Flag, ctl : Flag,
   encoded : {"none", "rle", "pack7"}, escape8 : {"none", "legacy", "omen"},
   at : {"hunt", "pad", "pads", "style", "count", "header", "cr", "lf",
         "data", "ending", "check"},
   style : Byte, want : 0 .. 17, nibble : -1 .. 15, header : Seq(Byte), crc : Seq(Byte),
   probe : 0 .. 4, passed : Flag,
   mode : {"plain", "escaped", "slow"}, high : Flag,
   rle : {"normal", "count", "value"}, run : 0 .. MaxRun, value : Seq(Byte), digits : 0 .. 4,
   sum : Seq(Byte), out : Seq(Byte), over : Flag, ending : Byte, event : Events]

LEMMA ShapeIs == Receiver = Shape
  BY DEF Receiver, Shape, Flag, Events

LEMMA GoodFlag ==
  ASSUME NEW r \in Good, NEW x \in BOOLEAN
  PROVE  /\ [r EXCEPT !.moby = x] \in Good /\ [r EXCEPT !.is32 = x] \in Good
         /\ [r EXCEPT !.passed = x] \in Good /\ [r EXCEPT !.high = x] \in Good
         /\ [r EXCEPT !.over = x] \in Good
  <1>1. x \in Flag /\ r \in Shape /\ r.sum \in Word /\ r.value \in Word
    BY ShapeIs DEF Flag, Good
  <1>2. /\ [r EXCEPT !.moby = x] \in Shape /\ [r EXCEPT !.is32 = x] \in Shape
        /\ [r EXCEPT !.passed = x] \in Shape /\ [r EXCEPT !.high = x] \in Shape
        /\ [r EXCEPT !.over = x] \in Shape
    BY <1>1, ZenonT(60) DEF Shape
  <1>3. ASSUME NEW s \in Shape, s.sum = r.sum, s.value = r.value PROVE s \in Good
    BY <1>1, <1>3, ShapeIs DEF Good
  <1>4. /\ [r EXCEPT !.moby = x].sum = r.sum /\ [r EXCEPT !.is32 = x].sum = r.sum
        /\ [r EXCEPT !.passed = x].sum = r.sum /\ [r EXCEPT !.high = x].sum = r.sum
        /\ [r EXCEPT !.over = x].sum = r.sum
    BY <1>1 DEF Shape
  <1>5. /\ [r EXCEPT !.moby = x].value = r.value /\ [r EXCEPT !.is32 = x].value = r.value
        /\ [r EXCEPT !.passed = x].value = r.value /\ [r EXCEPT !.high = x].value = r.value
        /\ [r EXCEPT !.over = x].value = r.value
    BY <1>1 DEF Shape
  <1> QED
    BY <1>2, <1>3, <1>4, <1>5

LEMMA GoodEvent ==
  ASSUME NEW r \in Good, NEW x \in Events
  PROVE  [r EXCEPT !.event = x] \in Good
  <1>1. r \in Shape /\ r.sum \in Word /\ r.value \in Word
    BY ShapeIs DEF Good
  <1>2. LET s == [r EXCEPT !.event = x] IN s \in Shape /\ s.sum = r.sum /\ s.value = r.value
    BY <1>1 DEF Shape
  <1> QED
    BY <1>1, <1>2, ShapeIs DEF Good

RxPlaces ==
  {"hunt", "pad", "pads", "style", "count", "header", "cr", "lf", "data", "ending", "check"}

LEMMA GoodName ==
  ASSUME NEW r \in Good
  PROVE  /\ \A x \in RxPlaces : [r EXCEPT !.at = x] \in Good
         /\ \A x \in {"none", "rle", "pack7"} : [r EXCEPT !.encoded = x] \in Good
         /\ \A x \in {"none", "legacy", "omen"} : [r EXCEPT !.escape8 = x] \in Good
         /\ \A x \in {"plain", "escaped", "slow"} : [r EXCEPT !.mode = x] \in Good
         /\ \A x \in {"normal", "count", "value"} : [r EXCEPT !.rle = x] \in Good
  <1>1. ASSUME NEW x \in RxPlaces PROVE [r EXCEPT !.at = x] \in Good
    BY ZenonT(60) DEF Good, Receiver, RxPlaces
  <1>2. ASSUME NEW x \in {"none", "rle", "pack7"} PROVE [r EXCEPT !.encoded = x] \in Good
    BY ZenonT(60) DEF Good, Receiver
  <1>3. ASSUME NEW x \in {"none", "legacy", "omen"} PROVE [r EXCEPT !.escape8 = x] \in Good
    BY ZenonT(60) DEF Good, Receiver
  <1>4. ASSUME NEW x \in {"plain", "escaped", "slow"} PROVE [r EXCEPT !.mode = x] \in Good
    BY ZenonT(60) DEF Good, Receiver
  <1>5. ASSUME NEW x \in {"normal", "count", "value"} PROVE [r EXCEPT !.rle = x] \in Good
    BY ZenonT(60) DEF Good, Receiver
  <1> QED
    BY <1>1, <1>2, <1>3, <1>4, <1>5

=============================================================================
