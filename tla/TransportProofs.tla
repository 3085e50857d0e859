-------------------------- MODULE TransportProofs --------------------------
(***************************************************************************)
(* Proofs about Transport for every plan, every size of the buffer and every   *)
(* grain of the clocks: what is written reaches the line once and in order      *)
(* whatever fails, what a purge leaves came after it, what the deadline         *)
(* arithmetic of posix computes for every time, timeout and unit, and what the  *)
(* counter of ticks of win95 and dos tells although it wraps.                  *)
(***************************************************************************)
EXTENDS Transport, TLAPS, SequenceTheorems

----------------------------------------------------------------------------
(* Arithmetic.                                                             *)

LEMMA Division ==
  ASSUME NEW a \in Nat, NEW b \in Nat \ {0}
  PROVE  /\ a \div b \in Nat /\ a % b \in Nat /\ a % b < b
         /\ (a \div b) * b \in Nat /\ a % b = a - (a \div b) * b
  <1>1. a \div b \in Nat
    OBVIOUS
  <1>2. a % b \in Nat /\ a % b < b /\ a % b = a - (a \div b) * b
    OBVIOUS
  <1>3. (a \div b) * b \in Nat
    BY <1>1
  <1> QED  BY <1>1, <1>2, <1>3

LEMMA Products ==
  ASSUME NEW a \in Int, NEW b \in Int, NEW c \in Int
  PROVE  /\ (a + b) * c = a * c + b * c /\ (a - b) * c = a * c - b * c
         /\ a * c \in Int /\ b * c \in Int
         /\ (a * b) * c = a * (b * c)
         /\ 1 * c = c /\ 0 * c = 0
         /\ a <= b /\ c >= 0 => a * c <= b * c
         /\ a < b /\ c > 0 => a * c < b * c
         /\ a >= 0 /\ b >= 0 => a * b >= 0
  <1>1. (a + b) * c = a * c + b * c /\ (a - b) * c = a * c - b * c
    OBVIOUS
  <1>2. (a * b) * c = a * (b * c)
    OBVIOUS
  <1>3. a <= b /\ c >= 0 => a * c <= b * c
    OBVIOUS
  <1>4. a < b /\ c > 0 => a * c < b * c
    OBVIOUS
  <1>5. a >= 0 /\ b >= 0 => a * b >= 0
    OBVIOUS
  <1>6. 1 * c = c /\ 0 * c = 0 /\ a * c \in Int /\ b * c \in Int
    OBVIOUS
  <1> QED  BY <1>1, <1>2, <1>3, <1>4, <1>5, <1>6

LEMMA RoundedUp ==
  ASSUME NEW a \in Nat, NEW b \in Nat \ {0}
  PROVE  /\ (a + b - 1) \div b \in Nat
         /\ ((a + b - 1) \div b) * b >= a
         /\ ((a + b - 1) \div b) * b < a + b
  OBVIOUS

LEMMA Quotient ==
  ASSUME NEW a \in Int, NEW b \in Nat \ {0}, NEW q \in Int, NEW r \in Int,
         0 <= r, r < b, a = q * b + r
  PROVE  a \div b = q /\ a % b = r
  OBVIOUS

LEMMA IntDivision ==
  ASSUME NEW a \in Int, NEW b \in Nat \ {0}
  PROVE  /\ a \div b \in Int /\ a % b \in Nat /\ a % b < b
         /\ (a \div b) * b \in Int /\ a % b = a - (a \div b) * b
  <1>1. a \div b \in Int
    OBVIOUS
  <1>2. a % b \in Nat /\ a % b < b /\ a % b = a - (a \div b) * b
    OBVIOUS
  <1>3. (a \div b) * b \in Int
    BY <1>1
  <1> QED  BY <1>1, <1>2, <1>3

\* The difference of two readings of a counter of w ticks, taken modulo w.
LEMMA Wrapped ==
  ASSUME NEW x \in Nat, NEW y \in Nat, y <= x, NEW w \in Nat \ {0}
  PROVE  /\ ((x % w) - (y % w)) % w \in Nat
         /\ ((x % w) - (y % w)) % w <= x - y
         /\ x - y < w => ((x % w) - (y % w)) % w = x - y
  <1> DEFINE p == x \div w
             q == y \div w
             a == x % w
             b == y % w
             z == (x - y) % w
             k == (x - y) \div w
  <1>1. /\ p \in Int /\ a \in Nat /\ a < w /\ p * w \in Int /\ a = x - p * w
        /\ q \in Int /\ b \in Nat /\ b < w /\ q * w \in Int /\ b = y - q * w
        /\ k \in Int /\ z \in Nat /\ z < w /\ k * w \in Int /\ z = (x - y) - k * w
    <2>1. p \in Int /\ a \in Nat /\ a < w /\ p * w \in Int /\ a = x - p * w
      BY IntDivision
    <2>2. q \in Int /\ b \in Nat /\ b < w /\ q * w \in Int /\ b = y - q * w
      BY IntDivision
    <2>3. k \in Int /\ z \in Nat /\ z < w /\ k * w \in Int /\ z = (x - y) - k * w
      BY IntDivision
    <2> QED  BY <2>1, <2>2, <2>3
  <1>2. k \in Nat
    BY Division
  <1> HIDE DEF p, q, a, b, z, k
  <1> DEFINE P == p * w
             Q == q * w
             K == k * w
             M == (k + q) * w
             N == (k + q - p) * w
  <1>3. k + q \in Int /\ k + q - p \in Int /\ w \in Int
    BY <1>1
  <1>4. /\ P \in Int /\ Q \in Int /\ K \in Int /\ N \in Int /\ M \in Int
        /\ a = x - P /\ b = y - Q /\ z = (x - y) - K
        /\ N = M - P /\ M = K + Q
    <2>1. N = M - P /\ N \in Int
      BY <1>1, <1>3, Products
    <2>2. M = K + Q /\ M \in Int
      BY <1>1, <1>3, Products
    <2> QED  BY <2>1, <2>2, <1>1
  <1> HIDE DEF P, Q, K, N, M
  <1>5. a - b = N + z
    BY <1>1, <1>4
  <1>6. a - b \in Int /\ a - b = (k + q - p) * w + z
    BY <1>1, <1>5 DEF N
  <1>7. (a - b) % w = z
    <2> DEFINE n == k + q - p
               d == a - b
    <2>1. n \in Int /\ d \in Int /\ d = n * w + z /\ z \in Int /\ 0 <= z /\ z < w
      BY <1>1, <1>3, <1>6
    <2> HIDE DEF n, d
    <2>2. d % w = z
      BY <2>1, Quotient
    <2> QED  BY <2>2 DEF d
  <1>8. K >= 0
    BY <1>2, Products DEF K
  <1>9. z <= x - y
    BY <1>1, <1>4, <1>8
  <1>10. ASSUME x - y < w PROVE z = x - y
    <2>1. k * w < 1 * w /\ 1 * w = w
      BY <1>10, <1>1, <1>4 DEF K
    <2>2. k < 1
      <3>1. ~(1 <= k)
        BY <2>1, <1>1, Products
      <3> QED  BY <3>1, <1>1
    <2>3. k = 0
      BY <2>2, <1>2
    <2>4. K = 0
      BY <2>3 DEF K
    <2> QED  BY <2>4, <1>4, <1>1
  <1> QED  BY <1>1, <1>7, <1>9, <1>10 DEF a, b

----------------------------------------------------------------------------
(* Deadlines.                                                              *)

LEMMA Units ==
  /\ Second \in Nat \ {0} /\ Second = Millis * PerMilli
  /\ Second \div PerMicro \in Nat /\ (Second \div PerMicro) * PerMicro = Second
  <1>1. Second \in Nat \ {0}
    BY TransportAssumption DEF Second
  <1>2. /\ Second \div PerMicro \in Nat
        /\ Second % PerMicro = Second - (Second \div PerMicro) * PerMicro
        /\ (Second \div PerMicro) * PerMicro \in Nat
    BY <1>1, TransportAssumption, Division
  <1>3. Second % PerMicro = 0
    BY TransportAssumption
  <1> QED  BY <1>1, <1>2, <1>3 DEF Second

LEMMA ClockRead ==
  ASSUME NEW t \in Nat
  PROVE  /\ Timespec(t).sec \in Nat /\ Timespec(t).nsec \in Nat
         /\ Timespec(t).nsec < Second /\ Instant(Timespec(t)) = t
         /\ Timespec(t).sec * Second \in Nat
  <1> DEFINE q == t \div Second
             r == t % Second
  <1>1. /\ q \in Nat /\ r \in Nat /\ r < Second /\ q * Second \in Nat /\ r = t - q * Second
    BY Units, Division
  <1>2. Timespec(t) = [sec |-> q, nsec |-> r]
    BY DEF Timespec
  <1> HIDE DEF q, r
  <1>3. Timespec(t).sec = q /\ Timespec(t).nsec = r
    BY <1>2
  <1> DEFINE m == q * Second
  <1>4. m \in Nat /\ r = t - m /\ Instant(Timespec(t)) = m + r
    BY <1>1, <1>3 DEF Instant
  <1> HIDE DEF m
  <1>5. Instant(Timespec(t)) = t
    BY <1>1, <1>4
  <1> QED  BY <1>1, <1>3, <1>5

\* The deadline is as far off as the caller said, and is a time of the clock's form.
LEMMA DeadlineExact ==
  ASSUME NEW t \in Nat, NEW timeout \in Nat
  PROVE  LET d == set_input_deadline(Timespec(t), timeout)
         IN  /\ d.sec \in Nat /\ d.nsec \in Nat /\ d.nsec < Second
             /\ Instant(d) = t + timeout * PerMilli
  <1> DEFINE at == Timespec(t)
             q == timeout \div Millis
             r == timeout % Millis
             sec == at.sec + q
             nsec == at.nsec + r * PerMilli
             d == set_input_deadline(at, timeout)
  <1>1. /\ at.sec \in Nat /\ at.nsec \in Nat /\ at.nsec < Second
        /\ at.sec * Second \in Nat /\ at.sec * Second + at.nsec = t
    BY ClockRead DEF Instant
  <1>2. /\ q \in Nat /\ r \in Nat /\ r < Millis /\ q * Millis \in Nat
        /\ r = timeout - q * Millis
    BY TransportAssumption, Division
  <1>3. d = IF nsec >= Second THEN [sec |-> sec + 1, nsec |-> nsec - Second]
            ELSE [sec |-> sec, nsec |-> nsec]
    BY DEF set_input_deadline
  <1> HIDE DEF at, q, r, d
  <1>4. /\ r * PerMilli \in Nat /\ r * PerMilli < Second
        /\ r * PerMilli = timeout * PerMilli - (q * Millis) * PerMilli
        /\ (q * Millis) * PerMilli = q * Second /\ q * Second \in Nat
        /\ timeout * PerMilli \in Nat
    <2>1. r * PerMilli \in Nat /\ q * Second \in Nat /\ timeout * PerMilli \in Nat
      BY <1>2, Units, TransportAssumption, Products
    <2>2. r * PerMilli < Millis * PerMilli
      BY <1>2, TransportAssumption, Products
    <2>3. r * PerMilli = timeout * PerMilli - (q * Millis) * PerMilli
      BY <1>2, TransportAssumption, Products
    <2>4. (q * Millis) * PerMilli = q * (Millis * PerMilli)
      BY <1>2, TransportAssumption, Products
    <2> QED  BY <2>1, <2>2, <2>3, <2>4, Units
  <1>5. sec * Second = at.sec * Second + q * Second /\ (sec + 1) * Second = sec * Second + Second
    <2>1. at.sec \in Int /\ q \in Int /\ Second \in Int /\ sec \in Int /\ 1 \in Int
      BY <1>1, <1>2, Units
    <2>2. (at.sec + q) * Second = at.sec * Second + q * Second
      BY <2>1, Products
    <2>3. (sec + 1) * Second = sec * Second + 1 * Second /\ 1 * Second = Second
      BY <2>1, Products
    <2> QED  BY <2>2, <2>3
  <1> DEFINE a == at.sec * Second
             b == q * Second
             c == timeout * PerMilli
             e == r * PerMilli
             f == sec * Second
             g == (sec + 1) * Second
  <1>6. /\ a \in Nat /\ b \in Nat /\ c \in Nat /\ e \in Nat /\ e < Second /\ e = c - b
        /\ a + at.nsec = t /\ f = a + b /\ g = f + Second /\ nsec = at.nsec + e
    BY <1>1, <1>4, <1>5
  <1> HIDE DEF a, b, c, e, nsec
  <1>7. CASE nsec >= Second
    <2>1. d.sec = sec + 1 /\ d.nsec = nsec - Second
      BY <1>3, <1>7
    <2>2. Instant(d) = g + (nsec - Second)
      BY <2>1 DEF Instant
    <2> HIDE DEF f, g
    <2>3. f \in Nat /\ g \in Nat /\ nsec \in Nat /\ Second \in Nat
      BY <1>1, <1>6, Units
    <2>4. Instant(d) = f + nsec
      BY <2>2, <2>3, <1>6
    <2>5. Instant(d) = t + c
      BY <2>3, <2>4, <1>6, <1>1, SMTT(60)
    <2> QED  BY <2>1, <2>5, <1>1, <1>2, <1>6, <1>7, Units DEF at, c, d
  <1>8. CASE ~(nsec >= Second)
    <2>1. d.sec = sec /\ d.nsec = nsec
      BY <1>3, <1>8
    <2>2. Instant(d) = f + nsec
      BY <2>1 DEF Instant
    <2> HIDE DEF f, g
    <2>3. f \in Nat /\ nsec \in Nat
      BY <1>1, <1>6
    <2>4. Instant(d) = t + c
      BY <2>2, <2>3, <1>6, <1>1
    <2> QED  BY <2>1, <2>4, <1>1, <1>2, <1>6, <1>8, Units DEF at, c, d
  <1> QED  BY <1>7, <1>8

\* What select() is told is nothing at the deadline and after it; before it, it is what
\* is left, rounded up to a unit of select()'s.
LEMMA RemainingExact ==
  ASSUME NEW d, d.sec \in Nat, d.nsec \in Nat, d.nsec < Second, NEW t \in Nat
  PROVE  LET left == Span(input_time_remaining(d, Timespec(t)))
         IN  /\ left \in Nat
             /\ t >= Instant(d) => left = 0
             /\ t < Instant(d) => left >= Instant(d) - t /\ left < Instant(d) - t + PerMicro
  <1> DEFINE at == Timespec(t)
             borrow == d.nsec < at.nsec
             sec == d.sec - at.sec - (IF borrow THEN 1 ELSE 0)
             nsec == d.nsec - at.nsec + (IF borrow THEN Second ELSE 0)
             usec == Micros(nsec)
             carried == Second \div PerMicro
             tv == input_time_remaining(d, at)
             over == at.sec > d.sec \/ (at.sec = d.sec /\ at.nsec >= d.nsec)
             D == d.sec * Second
             A == at.sec * Second
  <1>1. /\ at.sec \in Nat /\ at.nsec \in Nat /\ at.nsec < Second /\ A \in Nat
        /\ A + at.nsec = t
    BY ClockRead DEF Instant
  <1>2. tv = IF over THEN [sec |-> 0, usec |-> 0]
             ELSE IF usec >= carried THEN [sec |-> sec + 1, usec |-> usec - carried]
             ELSE [sec |-> sec, usec |-> usec]
    BY DEF input_time_remaining
  <1>3. D \in Nat /\ Instant(d) = D + d.nsec
    BY Units DEF Instant
  <1> HIDE DEF at, tv
  <1>4. CASE over
    <2>1. Span(tv) = 0
      <3>1. tv.sec = 0 /\ tv.usec = 0
        BY <1>2, <1>4
      <3>2. 0 * Second = 0 /\ 0 * PerMicro = 0
        BY Units, TransportAssumption
      <3> QED  BY <3>1, <3>2 DEF Span
    <2>2. t >= D + d.nsec
      <3>1. CASE at.sec > d.sec
        <4>1. at.sec >= d.sec + 1
          BY <3>1, <1>1
        <4>2. (d.sec + 1) * Second <= at.sec * Second
          BY <4>1, <1>1, Units, Products
        <4>3. (d.sec + 1) * Second = d.sec * Second + 1 * Second /\ 1 * Second = Second
          BY Units, Products
        <4>4. D + Second <= A
          BY <4>2, <4>3
        <4> HIDE DEF D, A
        <4> QED  BY <4>4, <1>1, <1>3, Units
      <3>2. CASE at.sec = d.sec /\ at.nsec >= d.nsec
        <4>1. A = D
          BY <3>2
        <4> HIDE DEF D, A
        <4> QED  BY <4>1, <3>2, <1>1, <1>3
      <3> QED  BY <1>4, <3>1, <3>2
    <2> QED  BY <2>1, <2>2, <1>3, <1>1 DEF tv, at
  <1>5. CASE ~over
    <2>1. /\ sec \in Nat /\ nsec \in Nat /\ nsec < Second
          /\ sec > 0 \/ nsec > 0
      <3>1. at.sec <= d.sec /\ (at.sec = d.sec => at.nsec < d.nsec)
        BY <1>1, <1>5
      <3>2. CASE borrow
        <4>1. sec = d.sec - at.sec - 1 /\ nsec = d.nsec - at.nsec + Second
          BY <3>2
        <4>2. at.sec < d.sec
          BY <3>1, <3>2, <1>1
        <4> HIDE DEF sec, nsec
        <4> QED  BY <4>1, <4>2, <3>2, <1>1, Units
      <3>3. CASE ~borrow
        <4>1. sec = d.sec - at.sec /\ nsec = d.nsec - at.nsec
          BY <3>3, <1>1
        <4>2. at.nsec <= d.nsec
          BY <3>3, <1>1
        <4>3. at.sec < d.sec \/ at.nsec < d.nsec
          BY <3>1, <1>1
        <4> HIDE DEF sec, nsec, borrow
        <4>4. sec \in Nat
          BY <4>1, <3>1, <1>1
        <4>5. nsec \in Nat /\ nsec < Second
          BY <4>1, <4>2, <1>1, Units
        <4>6. sec > 0 \/ nsec > 0
          BY <4>1, <4>3, <1>1
        <4> QED  BY <4>4, <4>5, <4>6
      <3> QED  BY <3>2, <3>3
    <2>2. sec * Second + nsec = D + d.nsec - t
      <3>1. CASE borrow
        <4>1. sec = d.sec - at.sec - 1 /\ nsec = d.nsec - at.nsec + Second
          BY <3>1
        <4>2. (d.sec - at.sec - 1) * Second = (d.sec - at.sec) * Second - 1 * Second
          BY <1>1, Units, Products
        <4>3. (d.sec - at.sec) * Second = D - A /\ 1 * Second = Second
          BY <1>1, Units, Products
        <4>4. sec * Second = D - A - Second
          BY <4>1, <4>2, <4>3
        <4> DEFINE S == sec * Second
        <4>5. S = D - A - Second
          BY <4>4
        <4> HIDE DEF D, A, S, sec, nsec
        <4>6. S + nsec = D + d.nsec - t
          BY <4>1, <4>5, <1>1, <1>3, Units
        <4> QED  BY <4>6 DEF S
      <3>2. CASE ~borrow
        <4>1. sec = d.sec - at.sec /\ nsec = d.nsec - at.nsec
          BY <3>2, <1>1
        <4>2. (d.sec - at.sec) * Second = D - A
          BY <1>1, Units, Products
        <4> DEFINE S == sec * Second
        <4>3. S = D - A
          BY <4>1, <4>2
        <4> HIDE DEF D, A, S, sec, nsec
        <4>4. S + nsec = D + d.nsec - t
          BY <4>1, <4>3, <1>1, <1>3
        <4> QED  BY <4>4 DEF S
      <3> QED  BY <3>1, <3>2
    <2>3. usec \in Nat /\ usec * PerMicro >= nsec /\ usec * PerMicro < nsec + PerMicro
      BY <2>1, TransportAssumption, RoundedUp DEF Micros
    <2>4. Span(tv) = sec * Second + usec * PerMicro
      <3>1. CASE usec >= carried
        <4>1. tv.sec = sec + 1 /\ tv.usec = usec - carried
          BY <1>2, <1>5, <3>1
        <4>2. (sec + 1) * Second = sec * Second + 1 * Second /\ 1 * Second = Second
          BY <2>1, Units, Products
        <4>3. (usec - carried) * PerMicro = usec * PerMicro - carried * PerMicro
          BY <2>3, Units, TransportAssumption, Products
        <4>4. carried * PerMicro = Second
          BY Units
        <4> DEFINE S == sec * Second
                   U == usec * PerMicro
        <4>5. Span(tv) = (S + Second) + (U - Second)
          BY <4>1, <4>2, <4>3, <4>4 DEF Span
        <4>6. S \in Nat /\ U \in Nat /\ Second \in Nat
          BY <2>1, <2>3, Units, TransportAssumption, Products
        <4> HIDE DEF S, U
        <4>7. Span(tv) = S + U
          BY <4>5, <4>6
        <4> QED  BY <4>7 DEF S, U
      <3>2. CASE ~(usec >= carried)
        BY <1>2, <1>5, <3>2 DEF Span
      <3> QED  BY <3>1, <3>2
    <2> DEFINE S == sec * Second
               U == usec * PerMicro
    <2>5. S \in Nat /\ U \in Nat
      BY <2>1, <2>3, Units, TransportAssumption, Products
    <2>6. U >= nsec /\ U < nsec + PerMicro /\ S + nsec = D + d.nsec - t /\ Span(tv) = S + U
      BY <2>2, <2>3, <2>4
    <2>7. t < D + d.nsec
      <3>1. nsec > 0 \/ sec > 0
        BY <2>1
      <3>2. sec > 0 => S > 0
        BY <2>1, Units, Products
      <3> HIDE DEF S, U, D, sec, nsec
      <3> QED  BY <3>1, <3>2, <2>1, <2>5, <2>6, <1>1, <1>3
    <2> HIDE DEF S, U, D, A, sec, nsec
    <2>8. /\ Span(tv) \in Nat
          /\ Span(tv) >= D + d.nsec - t /\ Span(tv) < D + d.nsec - t + PerMicro
      BY <2>1, <2>5, <2>6, <1>3, TransportAssumption
    <2> QED  BY <2>7, <2>8, <1>1, <1>3 DEF tv, at
  <1> QED  BY <1>4, <1>5

----------------------------------------------------------------------------
(* Counters of ticks.                                                      *)

\* The ticks elapsed are never more than the clock has passed, and just those as long
\* as they are fewer than the counter holds, wherever it wraps in between.
LEMMA ElapsedTicks ==
  ASSUME NEW t \in Nat, NEW from \in Nat, from <= t
  PROVE  /\ t \div PerMilli \in Nat /\ from \div PerMilli \in Nat
         /\ from \div PerMilli <= t \div PerMilli
         /\ Elapsed(t, from) \in Nat
         /\ Elapsed(t, from) <= (t \div PerMilli) - (from \div PerMilli)
         /\ (t \div PerMilli) - (from \div PerMilli) < Word =>
              Elapsed(t, from) = (t \div PerMilli) - (from \div PerMilli)
  <1> DEFINE x == t \div PerMilli
             y == from \div PerMilli
  <1>1. x \in Nat /\ y \in Nat
    BY TransportAssumption, Division
  <1>2. y <= x
    BY TransportAssumption
  <1>3. Elapsed(t, from) = ((x % Word) - (y % Word)) % Word
    BY DEF Elapsed, Ticks
  <1> HIDE DEF x, y
  <1>4. /\ ((x % Word) - (y % Word)) % Word \in Nat
        /\ ((x % Word) - (y % Word)) % Word <= x - y
        /\ x - y < Word => ((x % Word) - (y % Word)) % Word = x - y
    BY <1>1, <1>2, TransportAssumption, Wrapped
  <1> QED  BY <1>1, <1>2, <1>3, <1>4 DEF x, y

Grain(t) == t \div PerMilli

LEMMA Grains ==
  ASSUME NEW t \in Nat
  PROVE  /\ Grain(t) \in Nat /\ Grain(t) * PerMilli \in Nat
         /\ Grain(t) * PerMilli <= t /\ t < Grain(t) * PerMilli + PerMilli
         /\ \A k \in Nat : k * PerMilli \in Nat /\ Grain(t + k * PerMilli) = Grain(t) + k
  <1> DEFINE q == Grain(t)
             r == t % PerMilli
  <1>1. /\ q \in Nat /\ q * PerMilli \in Nat /\ r \in Nat /\ r < PerMilli
        /\ r = t - q * PerMilli
    BY TransportAssumption, Division DEF Grain
  <1>2. q * PerMilli <= t /\ t < q * PerMilli + PerMilli
    <2> DEFINE m == q * PerMilli
    <2>1. m \in Nat /\ r = t - m /\ r \in Nat /\ r < PerMilli /\ PerMilli \in Nat
      BY <1>1, TransportAssumption
    <2> HIDE DEF m, r
    <2>2. m <= t /\ t < m + PerMilli
      BY <2>1
    <2> QED  BY <2>2 DEF m
  <1>3. ASSUME NEW k \in Nat
        PROVE  k * PerMilli \in Nat /\ Grain(t + k * PerMilli) = Grain(t) + k
    <2> HIDE DEF q, r
    <2>1. (q + k) * PerMilli = q * PerMilli + k * PerMilli
      BY <1>1, TransportAssumption, Products
    <2> DEFINE m == q * PerMilli
               n == k * PerMilli
               p == (q + k) * PerMilli
               s == q + k
               a == t + n
    <2>2. n \in Nat /\ m \in Nat /\ p = m + n /\ r = t - m /\ p \in Nat
      BY <1>1, <2>1, TransportAssumption, Products
    <2>3. s \in Int /\ p = s * PerMilli
      BY <1>1
    <2> HIDE DEF m, n, p, s
    <2>4. a \in Int /\ a = p + r
      BY <2>2, <1>1
    <2> HIDE DEF a
    <2>5. a = s * PerMilli + r
      BY <2>3, <2>4
    <2>6. a \div PerMilli = s
      BY <2>3, <2>4, <2>5, <1>1, TransportAssumption, Quotient
    <2> QED  BY <2>2, <2>6 DEF Grain, a, s, n, q
  <1> QED  BY <1>1, <1>2, <1>3

LEMMA LaterGrain ==
  ASSUME NEW s \in Nat, NEW t \in Nat, s <= t
  PROVE  Grain(s) <= Grain(t)
  BY TransportAssumption DEF Grain

\* So many ticks tell the time between two moments to within one.
LEMMA Between ==
  ASSUME NEW s \in Nat, NEW t \in Nat, NEW k \in Nat
  PROVE  /\ Grain(t) >= Grain(s) + k => t - s > k * PerMilli - PerMilli
         /\ Grain(t) <= Grain(s) + k => t - s < k * PerMilli + PerMilli
  <1> DEFINE a == Grain(s)
             b == Grain(t)
             A == a * PerMilli
             B == b * PerMilli
             K == k * PerMilli
  <1>1. /\ a \in Nat /\ b \in Nat /\ A \in Nat /\ B \in Nat /\ K \in Nat /\ PerMilli \in Nat
        /\ A <= s /\ s < A + PerMilli /\ B <= t /\ t < B + PerMilli
    BY Grains, TransportAssumption
  <1>2. (a + k) * PerMilli = A + K
    BY <1>1, Products
  <1>3. a + k <= b => A + K <= B
    <2>1. a + k <= b => (a + k) * PerMilli <= b * PerMilli
      BY <1>1, Products
    <2> QED  BY <1>2, <2>1
  <1>4. b <= a + k => B <= A + K
    <2>1. b <= a + k => b * PerMilli <= (a + k) * PerMilli
      BY <1>1, Products
    <2> QED  BY <1>2, <2>1
  <1> HIDE DEF a, b, A, B, K
  <1>5. b >= a + k => t - s > K - PerMilli
    BY <1>1, <1>3
  <1>6. b <= a + k => t - s < K + PerMilli
    BY <1>1, <1>4
  <1> QED  BY <1>5, <1>6 DEF a, b, K

----------------------------------------------------------------------------
(* The calls.                                                              *)

\* Which calls can be where, and what they leave of the buffer there.
Shape ==
  /\ call.rest > 0 => call.op = "write" /\ call.pc \in {"copy", "drain", "blocked", "send"}
  /\ call.pc = "send" => call.rest > 0 /\ platform \notin Buffered
  /\ call.pc = "copy" => call.op = "write"
  /\ call.pc \in {"copy", "drain", "blocked"} => platform \in Buffered
  /\ call.pc \in {"copy", "drain", "blocked", "send"} => call.op \in {"write", "flush", "close"}
  /\ call.pc \in {"check", "select", "sleep", "take"} => call.op \in {"read", "poll", "purge"}
  /\ call.pc \notin {"drain", "blocked"} => out.offset = 0
  /\ platform \notin Buffered => out.count = 0
  /\ call.op \in {"flush", "close"} /\ call.pc \in {"idle", "closed"} /\ call.result = "ok" =>
       out.count = 0

\* The bytes on the line and then those waiting in the buffer grow, up to what the call
\* has handed on.
Growing ==
  /\ OnceInOrder
  /\ \A i, j \in 1 .. out.count : i < j => out.buffer[i] < out.buffer[j]
  /\ \A i \in 1 .. Len(line), j \in 1 .. out.count : j > out.offset => line[i] < out.buffer[j]
  /\ \A i \in 1 .. Len(line) : line[i] <= given - call.rest
  /\ \A j \in 1 .. out.count : out.buffer[j] <= given - call.rest
  /\ call.rest <= given

\* What is unread is the end of what arrived.
Queue ==
  /\ Len(input.unread) <= input.arrived
  /\ \A i \in 1 .. Len(input.unread) :
       input.unread[i] = input.arrived - Len(input.unread) + i
  /\ call.mark <= input.arrived

\* How far a call that asks for input has waited and is to wait, in the grain of the
\* platform's clock.
Limit == call.timeout * PerMilli

Waited ==
  call.op \in {"read", "poll", "purge"} /\ platform # "rdrpun" =>
    /\ call.timeout < Word
    /\ platform = "posix" => now - call.called < Limit + PerMicro
    /\ platform # "posix" => Grain(now) <= Grain(call.called) + call.timeout

Waits ==
  /\ call.pc = "select" =>
       /\ platform \in Selecting /\ now <= call.until
       /\ platform = "posix" => /\ call.called + Limit <= call.until
                               /\ call.until < call.called + Limit + PerMicro
       /\ platform = "socket" => Grain(call.until) = Grain(call.called) + call.timeout
  /\ call.pc = "sleep" =>
       /\ platform \in Polling /\ now <= call.until
       /\ Grain(call.until) <= Grain(call.called) + call.timeout

Timing ==
  /\ call.called <= now
  /\ call.op \in {"poll", "purge"} => call.timeout = 0
  /\ call.pc = "take" => Ready
  /\ Waited /\ Waits /\ NotEarly

OutputInv == Shape /\ Kept /\ Growing
InputInv == Queue /\ PurgedWhole
Bytes == TypeOK /\ OutputInv /\ InputInv
TransportInv == Bytes /\ Timing

\* What is not on the line yet: waiting in the buffer, or with the call.
Standing == Kept /\ Growing

----------------------------------------------------------------------------
(* Sequences.                                                              *)

LEMMA Extended ==
  ASSUME NEW s \in Seq(Nat), NEW t \in Seq(Nat)
  PROVE  /\ s \o t \in Seq(Nat) /\ Len(s \o t) = Len(s) + Len(t)
         /\ Len(s) \in Nat /\ Len(t) \in Nat
         /\ \A i \in 1 .. Len(s) : (s \o t)[i] = s[i]
         /\ \A i \in Len(s) + 1 .. Len(s) + Len(t) : (s \o t)[i] = t[i - Len(s)]
  OBVIOUS

LEMMA Piece ==
  ASSUME NEW n \in Nat, NEW b \in [1 .. n -> Nat], NEW m \in Nat, NEW k \in Nat, m + k <= n
  PROVE  /\ SubSeq(b, m + 1, m + k) \in Seq(Nat)
         /\ Len(SubSeq(b, m + 1, m + k)) = k
         /\ \A i \in 1 .. k : SubSeq(b, m + 1, m + k)[i] = b[m + i]
  <1>1. \A i \in m + 1 .. m + k : b[i] \in Nat
    OBVIOUS
  <1>2. m + 1 \in Int /\ m + k \in Int
    OBVIOUS
  <1> QED  BY <1>1, <1>2, SubSeqProperties

LEMMA Rest ==
  ASSUME NEW s \in Seq(Nat), NEW n \in 1 .. Len(s)
  PROVE  /\ SubSeq(s, n + 1, Len(s)) \in Seq(Nat)
         /\ Len(SubSeq(s, n + 1, Len(s))) = Len(s) - n
         /\ \A i \in 1 .. Len(s) - n : SubSeq(s, n + 1, Len(s))[i] = s[n + i]
  <1>1. Len(s) \in Nat /\ s \in [1 .. Len(s) -> Nat]
    OBVIOUS
  <1> DEFINE k == Len(s) - n
  <1>2. k = Len(s) - n
    OBVIOUS
  <1>3. k \in Nat /\ n + k = Len(s) /\ n + k <= Len(s) /\ n \in Nat
    BY <1>1
  <1> HIDE DEF k
  <1>4. /\ SubSeq(s, n + 1, n + k) \in Seq(Nat) /\ Len(SubSeq(s, n + 1, n + k)) = k
        /\ \A i \in 1 .. k : SubSeq(s, n + 1, n + k)[i] = s[n + i]
    BY <1>1, <1>3, Piece
  <1> QED  BY <1>2, <1>3, <1>4

----------------------------------------------------------------------------
(* The initial states.                                                     *)

LEMMA InitInv == Init => TransportInv
  <1> SUFFICES ASSUME Init PROVE TransportInv
    OBVIOUS
  <1>5. now \in Nat /\ call.called = now /\ call.op = "none" /\ call.pc = "idle"
    BY TransportAssumption DEF Init
  <1>6. Timing
    BY <1>5 DEF Timing, Waited, Waits, NotEarly
  <1>1. TypeOK
    <2>1. plan \in Plans /\ plan.boot \in Nat
      BY TransportAssumption DEF Init
    <2>2. out \in [buffer : [1 .. Size -> Nat], count : 0 .. Size, offset : 0 .. Size]
      BY TransportAssumption DEF Init
    <2>3. /\ line \in Seq(Nat)
          /\ input \in [unread : Seq(Nat), arrived : Nat, hung : BOOLEAN]
      BY DEF Init
    <2>4. /\ now \in Nat
          /\ call \in [op : {"none"}, pc : {"idle"}, result : {"ok"}, rest : Nat, timeout : Nat,
                       called : Nat, until : Nat, mark : Nat, made : Nat]
      BY <2>1 DEF Init
    <2>5. out.offset <= out.count /\ given \in Nat
      BY DEF Init
    <2>6. lost \in BOOLEAN
      BY Zenon DEF Init
    <2> QED  BY <2>1, <2>2, <2>3, <2>4, <2>5, <2>6 DEF TypeOK
  <1>2. Shape
    BY DEF Init, Shape
  <1>3. Kept /\ Growing
    BY DEF Init, Kept, Growing, OnceInOrder
  <1>4. InputInv
    BY DEF Init, InputInv, Queue, PurgedWhole
  <1> QED  BY <1>1, <1>2, <1>3, <1>4, <1>6 DEF TransportInv, Bytes, OutputInv

----------------------------------------------------------------------------
(* Input.                                                                  *)

LEMMA OutputUntouched ==
  ASSUME Standing, UNCHANGED outputVars, call'.rest = call.rest
  PROVE  Standing'
  BY DEF Standing, Kept, Growing, OnceInOrder, outputVars

Waiting == {"check", "select", "sleep", "take"}
Results == {"ok", "error", "timeout", "none", "some"}

\* What every step of read(), poll() and purge() leaves alone.
Looking ==
  /\ call.pc \in Waiting
  /\ UNCHANGED <<timeVars, outputVars>>
  /\ call' \in [op : {call.op}, pc : Waiting \cup {"idle"}, result : Results, rest : {0},
                timeout : {call.timeout}, called : {call.called}, until : Nat,
                mark : {call.mark}, made : {call.made}]
  /\ \/ UNCHANGED input
     \/ input' = [input EXCEPT !.unread = << >>]
     \/ \E n \in 1 .. Len(input.unread) : input' = Consumed(n)
  /\ call.op = "purge" /\ call'.pc = "idle" /\ call'.result = "ok" /\ platform # "rdrpun" =>
       input'.unread = << >>

LEMMA LookingStep ==
  ASSUME Bytes, Looking
  PROVE  Bytes'
  <1> USE DEF Bytes, OutputInv, InputInv
  <1>1. call.rest = 0 /\ call.op \in {"read", "poll", "purge"}
    BY SMTT(60) DEF Looking, Waiting, Shape, TypeOK
  <1>2. Standing'
    BY <1>1, OutputUntouched DEF Looking, Standing
  <1>3. Shape'
    BY <1>1 DEF Looking, Waiting, Shape, outputVars, timeVars, platform
  <1>4. /\ input'.unread \in Seq(Nat) /\ input' \in [unread : Seq(Nat), arrived : Nat, hung : BOOLEAN]
        /\ input'.arrived = input.arrived
        /\ Len(input'.unread) <= Len(input.unread)
        /\ \A i \in 1 .. Len(input'.unread) :
             input'.unread[i] = input.arrived - Len(input'.unread) + i
    <2> USE DEF TypeOK, Queue
    <2>1. CASE UNCHANGED input
      BY <2>1
    <2>2. CASE input' = [input EXCEPT !.unread = << >>]
      <3>1. << >> \in Seq(Nat) /\ Len(<< >>) = 0
        OBVIOUS
      <3>2. input'.unread = << >> /\ input'.arrived = input.arrived /\ input'.hung = input.hung
        BY <2>2
      <3>3. input' \in [unread : Seq(Nat), arrived : Nat, hung : BOOLEAN]
        BY <2>2, <3>1
      <3> QED  BY <3>1, <3>2, <3>3
    <2>3. CASE \E n \in 1 .. Len(input.unread) : input' = Consumed(n)
      <3>1. PICK n \in 1 .. Len(input.unread) : input' = Consumed(n)
        BY <2>3
      <3>2. /\ input' \in [unread : Seq(Nat), arrived : Nat, hung : BOOLEAN]
            /\ input'.arrived = input.arrived
            /\ input'.unread = SubSeq(input.unread, n + 1, Len(input.unread))
        BY <3>1, Rest DEF Consumed
      <3>31. LET q == input.unread IN
             /\ SubSeq(q, n + 1, Len(q)) \in Seq(Nat)
             /\ Len(SubSeq(q, n + 1, Len(q))) = Len(q) - n
             /\ \A i \in 1 .. Len(q) - n : SubSeq(q, n + 1, Len(q))[i] = q[n + i]
        BY Rest
      <3> DEFINE u == input.unread
                 v == input'.unread
      <3>3. /\ u \in Seq(Nat) /\ n \in 1 .. Len(u) /\ v = SubSeq(u, n + 1, Len(u))
            /\ Len(u) \in Nat /\ input.arrived \in Nat
            /\ \A i \in 1 .. Len(u) : u[i] = input.arrived - Len(u) + i
        BY <3>2
      <3> HIDE DEF u, v
      <3>4. /\ v \in Seq(Nat) /\ Len(v) = Len(u) - n
            /\ \A i \in 1 .. Len(u) - n : v[i] = u[n + i]
        BY <3>2, <3>31 DEF u, v
      <3>5. Len(v) <= Len(u) /\ \A i \in 1 .. Len(v) : v[i] = input.arrived - Len(v) + i
        <4>1. Len(v) <= Len(u)
          BY <3>3, <3>4
        <4> SUFFICES ASSUME NEW i \in 1 .. Len(v) PROVE v[i] = input.arrived - Len(v) + i
          BY <4>1
        <4>2. v[i] = u[n + i] /\ n + i \in 1 .. Len(u)
          BY <3>3, <3>4
        <4> QED  BY <3>3, <3>4, <4>2, SMTT(60)
      <3> QED  BY <3>2, <3>4, <3>5 DEF u, v
    <2> QED  BY <2>1, <2>2, <2>3 DEF Looking
  <1>5. TypeOK'
    BY <1>1, <1>4 DEF TypeOK, Looking, Waiting, Results, outputVars, timeVars
  <1>6. Queue'
    BY <1>4, SMTT(60) DEF Queue, Looking, TypeOK
  <1>7. PurgedWhole'
    <2>1. call.op = "purge" \/ ~(call'.op = "purge")
      BY DEF Looking
    <2>2. CASE Idle' /\ call'.op = "purge" /\ call'.result = "ok" /\ (platform # "rdrpun")'
      <3>1. input'.unread = << >>
        BY <2>2 DEF Looking, Idle, timeVars, platform
      <3> QED  BY <3>1 DEF PurgedWhole
    <2> QED  BY <2>2 DEF PurgedWhole
  <1> QED  BY <1>2, <1>3, <1>5, <1>6, <1>7 DEF Standing

LEMMA ReturnedIs ==
  ASSUME TypeOK, call.op \notin {"none", "close"}, NEW res \in Results, call' = Returned(res)
  PROVE  call' = [op |-> call.op, pc |-> "idle", result |-> res, rest |-> 0,
                  timeout |-> call.timeout, called |-> call.called, until |-> call.until,
                  mark |-> call.mark, made |-> call.made]
  BY DEF Returned, TypeOK

LEMMA MovedIs ==
  ASSUME TypeOK, NEW p \in Waiting, NEW u \in Nat, call' = [call EXCEPT !.pc = p, !.until = u]
  PROVE  call' = [op |-> call.op, pc |-> p, result |-> call.result, rest |-> call.rest,
                  timeout |-> call.timeout, called |-> call.called, until |-> u,
                  mark |-> call.mark, made |-> call.made]
  BY DEF TypeOK

LEMMA WentOnIs ==
  ASSUME TypeOK, NEW p \in Waiting, call' = [call EXCEPT !.pc = p]
  PROVE  call' = [op |-> call.op, pc |-> p, result |-> call.result, rest |-> call.rest,
                  timeout |-> call.timeout, called |-> call.called, until |-> call.until,
                  mark |-> call.mark, made |-> call.made]
  BY DEF TypeOK

LEMMA AskStep ==
  ASSUME Bytes, NEW op \in {"read", "poll", "purge"}, NEW t \in Nat, Ask(op, t)
  PROVE  Bytes'
  <1> USE DEF Bytes, OutputInv, InputInv
  <1>1. call.rest = 0 /\ call.pc = "idle" /\ out.offset = 0
    BY DEF Ask, Idle, Shape, TypeOK
  <1>2. /\ call' = [op |-> op, pc |-> "check", result |-> call.result, rest |-> 0, timeout |-> t,
                   called |-> now, until |-> now, mark |-> input.arrived,
                   made |-> call.made + 1]
        /\ UNCHANGED <<timeVars, outputVars, input>>
    <2>1. call' = [op |-> op, pc |-> "check", result |-> call.result, rest |-> call.rest,
                   timeout |-> t, called |-> now, until |-> now, mark |-> input.arrived,
                   made |-> call.made + 1]
      BY DEF Ask, TypeOK
    <2>2. UNCHANGED <<timeVars, outputVars, input>>
      BY DEF Ask
    <2> QED  BY <1>1, <2>1, <2>2
  <1>3. TypeOK'
    BY <1>2 DEF TypeOK, Results, timeVars, outputVars
  <1>4. Shape'
    BY <1>1, <1>2 DEF Shape, timeVars, outputVars, platform
  <1>5. Standing'
    BY <1>1, <1>2, OutputUntouched DEF Standing
  <1>6. Queue' /\ PurgedWhole'
    BY <1>2 DEF Queue, PurgedWhole, Idle, TypeOK
  <1> QED  BY <1>3, <1>4, <1>5, <1>6 DEF Standing

LEMMA ArriveStep ==
  ASSUME Bytes, Arrive
  PROVE  Bytes'
  <1> USE DEF Bytes, OutputInv, InputInv
  <1> DEFINE u == input.unread
             v == input'.unread
  <1>1. /\ UNCHANGED <<timeVars, outputVars, call>>
        /\ input' \in [unread : {Append(input.unread, input.arrived + 1)},
                       arrived : {input.arrived + 1}, hung : {input.hung}]
    BY DEF Arrive, TypeOK
  <1>2. /\ u \in Seq(Nat) /\ input.arrived + 1 \in Nat /\ input.arrived \in Nat
        /\ Len(u) <= input.arrived /\ call.mark \in Nat /\ call.mark <= input.arrived
        /\ \A i \in 1 .. Len(u) : u[i] = input.arrived - Len(u) + i
    BY DEF TypeOK, Queue
  <1>3. /\ v \in Seq(Nat) /\ Len(v) = Len(u) + 1 /\ Len(u) \in Nat
        /\ \A i \in 1 .. Len(u) : v[i] = u[i]
        /\ v[Len(u) + 1] = input.arrived + 1
    <2>1. v = Append(input.unread, input.arrived + 1)
      BY <1>1
    <2>2. /\ Append(input.unread, input.arrived + 1) \in Seq(Nat)
          /\ Len(Append(input.unread, input.arrived + 1)) = Len(input.unread) + 1
          /\ \A i \in 1 .. Len(input.unread) :
               Append(input.unread, input.arrived + 1)[i] = input.unread[i]
          /\ Append(input.unread, input.arrived + 1)[Len(input.unread) + 1] = input.arrived + 1
      BY <1>2, AppendProperties
    <2> QED  BY <1>2, <2>1, <2>2
  <1>4. input'.arrived = input.arrived + 1
    BY <1>1
  <1>5. TypeOK'
    BY <1>1, <1>2, <1>3 DEF TypeOK, timeVars, outputVars
  <1>6. Shape' /\ Standing'
    BY <1>1, OutputUntouched DEF Shape, Standing, timeVars, outputVars, platform
  <1> HIDE DEF u, v
  <1>7. Len(v) <= input'.arrived
        /\ \A i \in 1 .. Len(v) : v[i] = input'.arrived - Len(v) + i
    <2>1. Len(v) <= input'.arrived
      BY <1>2, <1>3, <1>4
    <2>2. ASSUME NEW i \in 1 .. Len(v) PROVE v[i] = input'.arrived - Len(v) + i
      <3>1. CASE i \in 1 .. Len(u)
        <4>1. v[i] = input.arrived - Len(u) + i
          BY <3>1, <1>2, <1>3, <1>4
        <4> QED  BY <4>1, <1>2, <1>3, <1>4, SMTT(60)
      <3>2. CASE i = Len(u) + 1
        BY <3>2, <1>2, <1>3, <1>4
      <3> QED  BY <3>1, <3>2, <1>3
    <2> QED  BY <2>1, <2>2
  <1>8. Queue'
    <2>1. call' = call
      BY <1>1
    <2>2. call.mark <= input.arrived + 1
      BY <1>2
    <2>3. call'.mark <= input'.arrived
      BY <1>4, <2>1, <2>2
    <2> QED  BY <1>7, <2>3 DEF Queue, v
  <1>9. PurgedWhole'
    <2> SUFFICES ASSUME (call.op = "purge" /\ Idle /\ call.result = "ok" /\ platform # "rdrpun")',
                        NEW i \in 1 .. Len(v)
                 PROVE  v[i] > call.mark
      BY <1>1 DEF PurgedWhole, v
    <2>1. \A k \in 1 .. Len(u) : u[k] > call.mark
      BY <1>1 DEF PurgedWhole, Idle, platform, timeVars, u
    <2>2. CASE i \in 1 .. Len(u)
      BY <1>3, <2>1, <2>2
    <2>3. CASE i = Len(u) + 1
      BY <1>2, <1>3, <2>3
    <2> QED  BY <1>3, <2>2, <2>3
  <1> QED  BY <1>5, <1>6, <1>8, <1>9 DEF Standing

LEMMA WorldStep ==
  ASSUME Bytes, Tick \/ HangUp
  PROVE  Bytes'
  <1> USE DEF Bytes, OutputInv, InputInv
  <1>1. /\ UNCHANGED <<plan, call, outputVars>>
        /\ now' \in Nat
        /\ input' \in [unread : {input.unread}, arrived : {input.arrived}, hung : BOOLEAN]
    <2>1. CASE Tick
      BY <2>1 DEF Tick, TypeOK
    <2>2. CASE HangUp
      <3>1. UNCHANGED <<plan, now, call, outputVars>>
        BY <2>2 DEF HangUp, timeVars
      <3>2. input' = [unread |-> input.unread, arrived |-> input.arrived, hung |-> TRUE]
        BY <2>2 DEF HangUp, TypeOK
      <3> QED  BY <3>1, <3>2 DEF TypeOK
    <2> QED  BY <2>1, <2>2
  <1>2. TypeOK'
    BY <1>1 DEF TypeOK, outputVars
  <1>3. Shape' /\ Standing'
    BY <1>1, OutputUntouched DEF Shape, Standing, outputVars, platform
  <1>4. Queue' /\ PurgedWhole'
    BY <1>1 DEF Queue, PurgedWhole, Idle, platform
  <1> QED  BY <1>2, <1>3, <1>4 DEF Standing

----------------------------------------------------------------------------
(* The time a call for input takes.                                        *)

Asking == call.op \in {"read", "poll", "purge"}

\* The call has waited its time.
WaitedOut ==
  IF platform = "posix" THEN call.called + Limit <= now
  ELSE Grain(now) >= Grain(call.called) + call.timeout

LEMMA Times ==
  ASSUME TypeOK
  PROVE  /\ call.timeout \in Nat /\ call.called \in Nat /\ now \in Nat /\ call.until \in Nat
         /\ Limit \in Nat /\ PerMilli \in Nat \ {0} /\ PerMicro \in Nat \ {0}
         /\ Word \in Nat \ {0} /\ platform \in Platforms
  <1>1. call.timeout \in Nat /\ call.called \in Nat /\ now \in Nat /\ call.until \in Nat
    BY DEF TypeOK
  <1>2. Limit \in Nat
    BY <1>1, TransportAssumption, Products DEF Limit
  <1> QED  BY <1>1, <1>2, TransportAssumption DEF TypeOK, platform

LEMMA Enough ==
  ASSUME TypeOK, WaitedOut
  PROVE  Elapsing > Limit - (IF platform = "posix" THEN 1 ELSE PerMilli)
  <1>1. CASE platform = "posix"
    BY <1>1, Times DEF WaitedOut, Elapsing
  <1>2. CASE platform # "posix"
    <2>1. Grain(now) >= Grain(call.called) + call.timeout
      BY <1>2 DEF WaitedOut
    <2>2. now - call.called > call.timeout * PerMilli - PerMilli
      BY <2>1, Times, Between
    <2> QED  BY <1>2, <2>2 DEF Elapsing, Limit
  <1> QED  BY <1>1, <1>2

\* A counter that has not run round since the call tells how many ticks it took.
LEMMA Counted ==
  ASSUME TypeOK, Timing, Asking, platform \notin {"posix", "rdrpun"}
  PROVE  /\ Grain(now) \in Nat /\ Grain(call.called) \in Nat
         /\ Elapsed(now, call.called) = Grain(now) - Grain(call.called)
         /\ Grain(call.called) <= Grain(now)
         /\ Grain(now) <= Grain(call.called) + call.timeout
         /\ Expired => WaitedOut
         /\ ~Expired => Grain(now) < Grain(call.called) + call.timeout
  <1>1. /\ Grain(now) \in Nat /\ Grain(call.called) \in Nat
        /\ Grain(call.called) <= Grain(now)
    BY Times, Grains, LaterGrain DEF Timing
  <1>2. Grain(now) <= Grain(call.called) + call.timeout /\ call.timeout < Word
    BY DEF Timing, Waited, Asking
  <1>3. Grain(now) - Grain(call.called) < Word
    BY <1>1, <1>2, Times
  <1>4. Elapsed(now, call.called) = Grain(now) - Grain(call.called)
    BY <1>3, Times, ElapsedTicks DEF Timing, Grain
  <1>5. Expired => WaitedOut
    BY <1>1, <1>4, Times DEF Expired, WaitedOut
  <1>6. ~Expired => Grain(now) < Grain(call.called) + call.timeout
    BY <1>1, <1>4, Times DEF Expired
  <1> QED  BY <1>1, <1>2, <1>4, <1>5, <1>6

\* select() is told to return just when the wait is over.
LEMMA RemainingRight ==
  ASSUME TypeOK, Timing, Asking, platform \in Selecting
  PROVE  /\ Remaining \in Nat
         /\ Remaining = 0 => WaitedOut
         /\ platform = "posix" => /\ call.called + Limit <= now + Remaining
                                  /\ now + Remaining < call.called + Limit + PerMicro
         /\ platform = "socket" =>
              Grain(now + Remaining) = Grain(call.called) + call.timeout
  <1>1. CASE platform = "posix"
    <2>1. now < call.called + Limit + PerMicro
      BY <1>1, Times DEF Timing, Waited, Asking
    <2>2. CASE call.timeout = 0
      <3>1. Limit = 0 /\ Remaining = 0
        BY <2>2, Times DEF Limit, Remaining
      <3> QED  BY <1>1, <2>1, <3>1, Times DEF Timing, WaitedOut
    <2>3. CASE call.timeout # 0
      <3> DEFINE d == set_input_deadline(Timespec(call.called), call.timeout)
                 left == Span(input_time_remaining(d, Timespec(now)))
      <3>1. /\ d.sec \in Nat /\ d.nsec \in Nat /\ d.nsec < Second
            /\ Instant(d) = call.called + Limit
        BY Times, DeadlineExact DEF Limit
      <3>2. /\ left \in Nat
            /\ now >= Instant(d) => left = 0
            /\ now < Instant(d) => left >= Instant(d) - now /\ left < Instant(d) - now + PerMicro
        BY <3>1, Times, RemainingExact
      <3>3. Remaining = left
        BY <1>1, <2>3 DEF Remaining
      <3> HIDE DEF d, left
      <3> QED  BY <1>1, <2>1, <3>1, <3>2, <3>3, Times DEF WaitedOut
    <2> QED  BY <2>2, <2>3
  <1>2. CASE platform = "socket"
    <2>1. /\ Grain(now) \in Nat /\ Grain(call.called) \in Nat
          /\ Elapsed(now, call.called) = Grain(now) - Grain(call.called)
          /\ Grain(now) <= Grain(call.called) + call.timeout
          /\ Expired => WaitedOut
          /\ ~Expired => Grain(now) < Grain(call.called) + call.timeout
          /\ Grain(call.called) <= Grain(now)
      BY <1>2, Counted
    <2>2. CASE call.timeout = 0 \/ Expired
      <3>1. Remaining = 0
        BY <1>2, <2>2 DEF Remaining
      <3>2. WaitedOut
        BY <2>1, <2>2 DEF Expired
      <3> QED  BY <1>2, <2>1, <3>1, <3>2, Times DEF WaitedOut
    <2>3. CASE ~(call.timeout = 0 \/ Expired)
      <3> DEFINE k == call.timeout - Elapsed(now, call.called)
      <3>1. Remaining = k * PerMilli
        BY <1>2, <2>3 DEF Remaining
      <3>2. k \in Nat /\ k > 0 /\ Grain(now) + k = Grain(call.called) + call.timeout
        BY <2>1, <2>3, Times
      <3> HIDE DEF k
      <3>3. k * PerMilli \in Nat /\ Grain(now + k * PerMilli) = Grain(now) + k
        BY <3>2, Times, Grains
      <3>4. k * PerMilli > 0
        BY <3>2, Times, Products
      <3> QED  BY <1>2, <3>1, <3>2, <3>3, <3>4
    <2> QED  BY <2>2, <2>3
  <1> QED  BY <1>1, <1>2 DEF Selecting

\* A call that ends or looks again keeps the timing, if it gives up no earlier than it may.
LEMMA TimingOfEnd ==
  ASSUME TypeOK, Timing, Asking, UNCHANGED timeVars, NEW p \in {"idle", "check"}, call'.pc = p,
         call'.op = call.op, call'.timeout = call.timeout, call'.called = call.called,
         call.op = "read" /\ p = "idle" /\ call'.result = "timeout" /\ ~input'.hung => WaitedOut
  PROVE  Timing'
  <1>1. platform' = platform /\ now' = now /\ Limit' = Limit
    BY DEF timeVars, platform, Limit
  <1>2. Waited' /\ (call.called <= now)' /\ (call.op \in {"poll", "purge"} => call.timeout = 0)'
    BY <1>1 DEF Timing, Waited, Asking
  <1>3. Waits' /\ (call.pc = "take" => Ready)'
    BY DEF Waits
  <1>4. NotEarly'
    <2> SUFFICES ASSUME (call.op = "read" /\ Idle /\ call.result = "timeout" /\ ~input.hung)'
                 PROVE  (Elapsing > call.timeout * PerMilli
                           - (IF platform = "posix" THEN 1 ELSE PerMilli))'
      BY DEF NotEarly
    <2>1. WaitedOut
      BY DEF Idle
    <2>2. Elapsing > Limit - (IF platform = "posix" THEN 1 ELSE PerMilli)
      BY <2>1, Enough
    <2> QED  BY <1>1, <2>2 DEF Elapsing, Limit
  <1> QED  BY <1>2, <1>3, <1>4 DEF Timing

LEMMA AskingOps ==
  ASSUME Shape, call.pc \in Waiting
  PROVE  Asking /\ call.op \notin {"none", "close"}
  BY DEF Shape, Waiting, Asking

LEMMA NotReadyIs ==
  ASSUME TypeOK, Asking, call' = NotReady
  PROVE  \E res \in {"timeout", "none", "ok"} :
           /\ call' = [op |-> call.op, pc |-> "idle", result |-> res, rest |-> 0,
                       timeout |-> call.timeout, called |-> call.called, until |-> call.until,
                       mark |-> call.mark, made |-> call.made]
           /\ call.op = "read" <=> res = "timeout"
           /\ call.op = "purge" <=> res = "ok"
  <1>1. PICK res \in {"timeout", "none", "ok"} :
             /\ call' = Returned(res)
             /\ call.op = "read" <=> res = "timeout"
             /\ call.op = "purge" <=> res = "ok"
    <2>1. CASE call.op = "read"
      BY <2>1 DEF NotReady
    <2>2. CASE call.op = "poll"
      BY <2>2 DEF NotReady
    <2>3. CASE call.op = "purge"
      BY <2>3 DEF NotReady
    <2> QED  BY <2>1, <2>2, <2>3 DEF Asking
  <1>2. call.op \notin {"none", "close"} /\ res \in Results
    BY DEF Asking, Results
  <1> QED  BY <1>1, <1>2, ReturnedIs

\* Looking ends because there is something, because the time is up, or with an error.
LEMMA EndLooks ==
  ASSUME Bytes, Timing, call.pc \in Waiting, UNCHANGED <<timeVars, outputVars>>,
         NEW res \in Results, call' = Returned(res),
         UNCHANGED input \/ input' = [input EXCEPT !.unread = << >>]
           \/ \E n \in 1 .. Len(input.unread) : input' = Consumed(n),
         call.op = "purge" /\ res = "ok" /\ platform # "rdrpun" => input'.unread = << >>,
         call.op = "read" /\ res = "timeout" /\ ~input'.hung => WaitedOut
  PROVE  Looking /\ Timing'
  <1>1. Asking /\ call.op \notin {"none", "close"} /\ TypeOK
    BY AskingOps DEF Bytes, OutputInv
  <1>2. call' = [op |-> call.op, pc |-> "idle", result |-> res, rest |-> 0,
                 timeout |-> call.timeout, called |-> call.called, until |-> call.until,
                 mark |-> call.mark, made |-> call.made]
    BY <1>1, ReturnedIs
  <1>3. Looking
    BY <1>1, <1>2 DEF Looking, TypeOK
  <1>4. Timing'
    BY <1>1, <1>2, TimingOfEnd
  <1> QED  BY <1>3, <1>4

LEMMA NotReadyLooks ==
  ASSUME Bytes, Timing, call.pc \in Waiting, UNCHANGED <<timeVars, outputVars, input>>,
         call' = NotReady,
         call.op = "purge" /\ platform # "rdrpun" => input.unread = << >>,
         call.op = "read" => WaitedOut
  PROVE  Looking /\ Timing'
  <1>1. Asking /\ TypeOK /\ call.op \notin {"none", "close"}
    BY AskingOps DEF Bytes, OutputInv
  <1>2. PICK res \in {"timeout", "none", "ok"} :
             /\ call' = [op |-> call.op, pc |-> "idle", result |-> res, rest |-> 0,
                         timeout |-> call.timeout, called |-> call.called,
                         until |-> call.until, mark |-> call.mark, made |-> call.made]
             /\ call.op = "read" <=> res = "timeout"
             /\ call.op = "purge" <=> res = "ok"
    BY <1>1, NotReadyIs
  <1>3. Looking
    BY <1>1, <1>2 DEF Looking, TypeOK, Results
  <1>4. Timing'
    BY <1>1, <1>2, TimingOfEnd
  <1> QED  BY <1>3, <1>4

\* There is something: poll() says so, the others take it.
LEMMA ThereIsLooks ==
  ASSUME Bytes, Timing, call.pc \in Waiting, UNCHANGED <<timeVars, outputVars, input>>,
         Ready, call' = ThereIs
  PROVE  Looking /\ Timing'
  <1>1. Asking /\ TypeOK /\ call.op \notin {"none", "close"} /\ call.rest = 0
    BY AskingOps DEF Bytes, OutputInv, Shape, Waiting, TypeOK
  <1>2. CASE call.op = "poll"
    <2>1. call' = Returned("some") /\ "some" \in Results
      BY <1>2 DEF ThereIs, Results
    <2> QED  BY <1>2, <2>1, EndLooks
  <1>3. CASE call.op # "poll"
    <2>1. call' = [call EXCEPT !.pc = "take"] /\ "take" \in Waiting
      BY <1>3 DEF ThereIs, Waiting
    <2>2. call' = [op |-> call.op, pc |-> "take", result |-> call.result, rest |-> call.rest,
                   timeout |-> call.timeout, called |-> call.called, until |-> call.until,
                   mark |-> call.mark, made |-> call.made]
      BY <1>1, <2>1, WentOnIs
    <2>3. Looking
      BY <1>1, <2>1, <2>2 DEF Looking, TypeOK, Results
    <2>4. platform' = platform /\ now' = now /\ Limit' = Limit /\ Ready'
      BY <2>2 DEF timeVars, platform, Limit, Ready
    <2>5. Timing'
      BY <2>2, <2>4 DEF Timing, Waited, Waits, NotEarly, Idle
    <2> QED  BY <2>3, <2>5
  <1> QED  BY <1>2, <1>3

LEMMA AskTiming ==
  ASSUME Bytes, Timing, NEW op \in {"read", "poll", "purge"}, NEW t \in Nat, Ask(op, t),
         op = "read" => t < Word, op \in {"poll", "purge"} => t = 0
  PROVE  Timing'
  <1>1. /\ call' = [op |-> op, pc |-> "check", result |-> call.result, rest |-> call.rest,
                   timeout |-> t, called |-> now, until |-> now, mark |-> input.arrived,
                   made |-> call.made + 1]
        /\ UNCHANGED timeVars
    BY DEF Ask, Bytes, TypeOK
  <1>2. platform' = platform /\ now' = now /\ now \in Nat /\ Grain(now) \in Nat
        /\ PerMicro \in Nat \ {0} /\ t * PerMilli \in Nat /\ t < Word
    BY <1>1, Grains, TransportAssumption, Products DEF timeVars, platform, Bytes, TypeOK
  <1>3. Limit' = t * PerMilli
    BY <1>1 DEF Limit
  <1>4. Waited'
    <2> DEFINE L == t * PerMilli
    <2>1. L \in Nat /\ Limit' = L
      BY <1>2, <1>3
    <2> HIDE DEF L
    <2>2. now < now + L + PerMicro /\ now - now < L + PerMicro /\ Grain(now) <= Grain(now) + t
      BY <1>2, <2>1
    <2> QED  BY <1>1, <1>2, <2>1, <2>2 DEF Waited, Grain
  <1> QED  BY <1>1, <1>2, <1>4 DEF Timing, Waits, NotEarly, Idle

LEMMA SelectLooks ==
  ASSUME Bytes, Timing, Select
  PROVE  Looking /\ Timing'
  <1>1. /\ call.pc = "check" /\ call.pc \in Waiting /\ platform \in Selecting
        /\ UNCHANGED <<timeVars, outputVars, input>>
    BY DEF Select, Waiting
  <1>2. Asking /\ TypeOK /\ call.op \notin {"none", "close"} /\ call.rest = 0
    BY <1>1, AskingOps DEF Bytes, OutputInv, Shape, Waiting, TypeOK
  <1>3. CASE call.timeout > 0 /\ Remaining = 0
    <2>1. call' = NotReady /\ call.op = "read" /\ WaitedOut
      BY <1>1, <1>2, <1>3, RemainingRight DEF Select, Timing, Asking
    <2> QED  BY <1>1, <2>1, NotReadyLooks
  <1>4. CASE ~(call.timeout > 0 /\ Remaining = 0)
    <2> DEFINE u == now + Remaining
    <2>1. /\ Remaining \in Nat
          /\ platform = "posix" => call.called + Limit <= u /\ u < call.called + Limit + PerMicro
          /\ platform = "socket" => Grain(u) = Grain(call.called) + call.timeout
      BY <1>1, <1>2, RemainingRight
    <2>2. now \in Nat /\ u \in Nat /\ now <= u /\ "select" \in Waiting
      BY <1>2, <2>1 DEF TypeOK, Waiting
    <2>3. call' = [call EXCEPT !.pc = "select", !.until = u]
      BY <1>4 DEF Select
    <2> HIDE DEF u
    <2>4. call' = [op |-> call.op, pc |-> "select", result |-> call.result, rest |-> call.rest,
                   timeout |-> call.timeout, called |-> call.called, until |-> u,
                   mark |-> call.mark, made |-> call.made]
      BY <1>2, <2>2, <2>3, MovedIs
    <2>5. Looking
      BY <1>1, <1>2, <2>2, <2>4 DEF Looking, TypeOK, Results
    <2>6. platform' = platform /\ now' = now /\ Limit' = Limit
      BY <1>1, <2>4 DEF timeVars, platform, Limit
    <2>7. Waits'
      BY <1>1, <2>1, <2>2, <2>4, <2>6 DEF Waits, Grain
    <2>8. Waited'
      BY <2>4, <2>6 DEF Timing, Waited
    <2> QED  BY <2>4, <2>5, <2>6, <2>7, <2>8 DEF Timing, NotEarly, Idle
  <1> QED  BY <1>3, <1>4

LEMMA SelectedLooks ==
  ASSUME Bytes, Timing, Selected
  PROVE  Looking /\ Timing'
  <1>1. call.pc = "select" /\ call.pc \in Waiting /\ UNCHANGED <<timeVars, outputVars, input>>
    BY DEF Selected, Waiting
  <1>2. Asking /\ TypeOK /\ call.op \notin {"none", "close"} /\ call.rest = 0
    BY <1>1, AskingOps DEF Bytes, OutputInv, Shape, Waiting, TypeOK
  <1>3. CASE Ready /\ call' = ThereIs
    BY <1>1, <1>3, ThereIsLooks
  <1>4. CASE ~Ready /\ now >= call.until /\ call' = NotReady
    <2>1. input.unread = << >>
      BY <1>4 DEF Ready
    <2>2. WaitedOut
      <3>1. CASE platform = "posix"
        BY <1>1, <1>2, <1>4, <3>1, Times DEF Timing, Waits, WaitedOut
      <3>2. CASE platform = "socket"
        <4>1. Grain(call.until) <= Grain(now)
          BY <1>2, <1>4, Times, LaterGrain
        <4>2. Grain(call.until) = Grain(call.called) + call.timeout
          BY <1>1, <3>2 DEF Timing, Waits
        <4> QED  BY <4>1, <4>2, <3>2 DEF WaitedOut
      <3> QED  BY <1>1, <3>1, <3>2 DEF Timing, Waits, Selecting
    <2> QED  BY <1>1, <1>4, <2>1, <2>2, NotReadyLooks
  <1>5. CASE ~Ready /\ call' = [call EXCEPT !.pc = "check"]
    <2>1. call' = [op |-> call.op, pc |-> "check", result |-> call.result, rest |-> call.rest,
                   timeout |-> call.timeout, called |-> call.called, until |-> call.until,
                   mark |-> call.mark, made |-> call.made]
      BY <1>2, <1>5, WentOnIs DEF Waiting
    <2>2. Looking
      BY <1>1, <1>2, <2>1 DEF Looking, TypeOK, Results, Waiting
    <2> QED  BY <1>1, <1>2, <2>1, <2>2, TimingOfEnd
  <1>6. CASE call' = Returned("error")
    BY <1>1, <1>6, EndLooks DEF Results
  <1> QED  BY <1>3, <1>4, <1>5, <1>6 DEF Selected

LEMMA LookLooks ==
  ASSUME Bytes, Timing, Look, platform \in Polling
  PROVE  Looking /\ Timing'
  <1>1. call.pc = "check" /\ call.pc \in Waiting /\ UNCHANGED <<timeVars, outputVars, input>>
    BY DEF Look, Waiting
  <1>2. Asking /\ TypeOK /\ call.op \notin {"none", "close"} /\ call.rest = 0
        /\ platform \notin {"posix", "rdrpun"}
    BY <1>1, AskingOps DEF Bytes, OutputInv, Shape, Waiting, TypeOK, Polling
  <1>3. CASE Ready
    BY <1>1, <1>3, ThereIsLooks DEF Look
  <1>4. CASE ~Ready /\ Expired
    <2>1. input.unread = << >> /\ call' = NotReady /\ WaitedOut
      BY <1>2, <1>4, Counted DEF Look, Ready
    <2> QED  BY <1>1, <2>1, NotReadyLooks
  <1>5. CASE ~Ready /\ ~Expired
    <2> DEFINE u == now + PerMilli
    <2>1. now \in Nat /\ u \in Nat /\ now <= u /\ "sleep" \in Waiting
      BY <1>2, Times DEF Waiting
    <2>2. Grain(u) <= Grain(call.called) + call.timeout
      <3>1. 1 * PerMilli = PerMilli /\ 1 \in Nat
        BY Times, <1>2
      <3>2. Grain(now + 1 * PerMilli) = Grain(now) + 1
        BY <1>2, <3>1, Times, Grains
      <3>3. Grain(now) < Grain(call.called) + call.timeout
            /\ Grain(now) \in Nat /\ Grain(call.called) \in Nat
        BY <1>2, <1>5, Counted
      <3> QED  BY <1>2, <3>1, <3>2, <3>3, Times
    <2>3. call' = [call EXCEPT !.pc = "sleep", !.until = u]
      BY <1>5 DEF Look
    <2> HIDE DEF u
    <2>4. call' = [op |-> call.op, pc |-> "sleep", result |-> call.result, rest |-> call.rest,
                   timeout |-> call.timeout, called |-> call.called, until |-> u,
                   mark |-> call.mark, made |-> call.made]
      BY <1>2, <2>1, <2>3, MovedIs
    <2>5. Looking
      BY <1>1, <1>2, <2>1, <2>4 DEF Looking, TypeOK, Results
    <2>6. platform' = platform /\ now' = now /\ Limit' = Limit
      BY <1>1, <2>4 DEF timeVars, platform, Limit
    <2>7. Waits'
      BY <2>1, <2>2, <2>4, <2>6 DEF Waits, Grain
    <2>8. Waited'
      BY <2>4, <2>6 DEF Timing, Waited
    <2> QED  BY <2>4, <2>5, <2>6, <2>7, <2>8 DEF Timing, NotEarly, Idle
  <1> QED  BY <1>3, <1>4, <1>5

LEMMA WokenLooks ==
  ASSUME Bytes, Timing, Woken
  PROVE  Looking /\ Timing'
  <1>1. /\ call.pc = "sleep" /\ call.pc \in Waiting /\ UNCHANGED <<timeVars, outputVars, input>>
        /\ call' = [call EXCEPT !.pc = "check"]
    BY DEF Woken, Waiting
  <1>2. Asking /\ TypeOK /\ call.op \notin {"none", "close"} /\ call.rest = 0
    BY <1>1, AskingOps DEF Bytes, OutputInv, Shape, Waiting, TypeOK
  <1>3. call' = [op |-> call.op, pc |-> "check", result |-> call.result, rest |-> call.rest,
                 timeout |-> call.timeout, called |-> call.called, until |-> call.until,
                 mark |-> call.mark, made |-> call.made]
    BY <1>1, <1>2, WentOnIs DEF Waiting
  <1>4. Looking
    BY <1>1, <1>2, <1>3 DEF Looking, TypeOK, Results, Waiting
  <1> QED  BY <1>1, <1>2, <1>3, <1>4, TimingOfEnd

LEMMA LineErrorLooks ==
  ASSUME Bytes, Timing, LineError
  PROVE  Looking /\ Timing'
  BY EndLooks DEF LineError, Waiting, Results

LEMMA PurgedAtOnceLooks ==
  ASSUME Bytes, Timing, PurgedAtOnce
  PROVE  Looking /\ Timing'
  <1>1. input'.unread = << >>
    BY DEF PurgedAtOnce, Bytes, TypeOK
  <1> QED  BY <1>1, EndLooks DEF PurgedAtOnce, Waiting, Results

LEMMA CpmLooks ==
  ASSUME Bytes, Timing, rdrpun_read
  PROVE  Looking /\ Timing'
  <1>1. /\ call.pc = "check" /\ call.pc \in Waiting /\ platform = "rdrpun"
        /\ UNCHANGED <<timeVars, outputVars, input>>
    BY DEF rdrpun_read, Waiting
  <1>2. CASE call.op = "read" /\ Ready /\ call' = ThereIs
    BY <1>1, <1>2, ThereIsLooks
  <1>3. CASE call.op # "read" /\ call' = NotReady
    BY <1>1, <1>3, NotReadyLooks
  <1> QED  BY <1>2, <1>3 DEF rdrpun_read

LEMMA TakeLooks ==
  ASSUME Bytes, Timing, NEW pieces \in BOOLEAN, Take(pieces)
  PROVE  Looking /\ Timing'
  <1>1. call.pc = "take" /\ call.pc \in Waiting /\ UNCHANGED <<timeVars, outputVars>>
    BY DEF Take, Waiting
  <1>2. Asking /\ TypeOK /\ call.op \notin {"none", "close"} /\ call.rest = 0
    BY <1>1, AskingOps DEF Bytes, OutputInv, Shape, Waiting, TypeOK
  <1>3. CASE call' = Returned("error") /\ UNCHANGED input
    BY <1>1, <1>3, EndLooks DEF Results
  <1>4. CASE (\E n \in 1 .. Len(input.unread) : input' = Consumed(n)) /\ call' = AfterTaking
    <2>1. CASE call.op = "purge"
      <3>1. call' = [call EXCEPT !.pc = "check"]
        BY <1>4, <2>1 DEF AfterTaking
      <3>2. call' = [op |-> call.op, pc |-> "check", result |-> call.result, rest |-> call.rest,
                     timeout |-> call.timeout, called |-> call.called, until |-> call.until,
                     mark |-> call.mark, made |-> call.made]
        BY <1>2, <3>1, WentOnIs DEF Waiting
      <3>3. Looking
        BY <1>1, <1>2, <1>4, <3>2 DEF Looking, TypeOK, Results, Waiting
      <3> QED  BY <1>1, <1>2, <3>2, <3>3, TimingOfEnd
    <2>2. CASE call.op # "purge"
      <3>1. call' = Returned("ok") /\ "ok" \in Results
        BY <1>4, <2>2 DEF AfterTaking, Results
      <3> QED  BY <1>1, <1>4, <2>2, <3>1, EndLooks
    <2> QED  BY <2>1, <2>2
  <1> QED  BY <1>3, <1>4 DEF Take

LEMMA EndOfFileLooks ==
  ASSUME Bytes, Timing, NEW res \in {"ok", "error", "timeout"}, EndOfFile(res)
  PROVE  Looking /\ Timing'
  <1>1. /\ call.pc = "take" /\ call.pc \in Waiting /\ input.unread = << >>
        /\ UNCHANGED <<timeVars, outputVars, input>>
    BY DEF EndOfFile, Waiting
  <1>2. input.hung
    BY <1>1 DEF Timing, Ready
  <1>3. PICK r \in Results : call' = Returned(r)
    BY DEF EndOfFile, Results
  <1> QED  BY <1>1, <1>2, <1>3, EndLooks

----------------------------------------------------------------------------
(* Output.                                                                 *)

\* Nothing about input changes while a call puts bytes on the line.
LEMMA InputUntouched ==
  ASSUME TypeOK, InputInv, UNCHANGED <<timeVars, input>>,
         call'.op \in {"write", "flush", "close"}, call'.mark = call.mark \/ call'.mark = 0
  PROVE  InputInv'
  <1>1. PurgedWhole'
    BY DEF PurgedWhole
  <1>2. input.arrived \in Nat
    BY DEF TypeOK
  <1>3. Queue'
    BY <1>2 DEF InputInv, Queue
  <1> QED  BY <1>1, <1>3 DEF InputInv

LEMMA NoTiming ==
  ASSUME Timing, UNCHANGED timeVars, call'.op \in {"write", "flush", "close"},
         call'.pc \notin {"select", "sleep", "take"}, call'.called = call.called
  PROVE  Timing'
  BY DEF Timing, Waited, Waits, NotEarly, timeVars

LEMMA Platform ==
  ASSUME UNCHANGED timeVars
  PROVE  platform' = platform
  BY DEF timeVars, platform

LEMMA WriteStep ==
  ASSUME TransportInv, Write
  PROVE  TransportInv'
  <1> USE DEF TransportInv, Bytes, OutputInv
  <1>1. PICK n \in 1 .. plan.writes - given :
          /\ given' = given + n
          /\ call' = [call EXCEPT !.op = "write", !.rest = n, !.mark = 0,
                                  !.pc = IF platform \in Buffered THEN "copy" ELSE "send"]
    BY DEF Write
  <1>2. call.rest = 0 /\ call.pc = "idle" /\ out.offset = 0 /\ given \in Nat /\ n \in Nat \ {0}
    <2>1. call.rest = 0 /\ call.pc = "idle" /\ out.offset = 0 /\ given \in Nat
      BY DEF Write, Idle, Shape, TypeOK
    <2>2. plan.writes \in Nat
      BY TransportAssumption DEF TypeOK
    <2> QED  BY <2>1, <2>2
  <1>3. /\ call' = [op |-> "write", pc |-> IF platform \in Buffered THEN "copy" ELSE "send",
                    result |-> call.result, rest |-> n, timeout |-> call.timeout,
                    called |-> call.called, until |-> call.until, mark |-> 0,
                    made |-> call.made]
        /\ UNCHANGED <<timeVars, out, line, lost, input>>
    BY <1>1 DEF Write, TypeOK
  <1>4. TypeOK'
    <2>1. /\ call' \in [op : {"write"}, pc : {"copy", "send"}, result : Results, rest : Nat,
                        timeout : Nat, called : Nat, until : Nat, mark : Nat, made : Nat]
          /\ given' \in Nat
      <3>1. given' \in Nat
        BY <1>1, <1>2
      <3>2. call'.rest \in Nat /\ (IF platform \in Buffered THEN "copy" ELSE "send") \in {"copy", "send"}
        BY <1>2, <1>3
      <3> QED  BY <1>2, <1>3, <3>1, <3>2 DEF TypeOK, Results
    <2> QED  BY <1>3, <2>1 DEF TypeOK, Results, timeVars
  <1>5. Shape'
    BY <1>2, <1>3, Platform DEF Shape
  <1>6. Kept'
    BY <1>1, <1>2, <1>3, SMTT(60) DEF Kept, TypeOK
  <1>7. Growing'
    <2>1. given' - call'.rest = given /\ call'.rest <= given'
      BY <1>1, <1>2, <1>3
    <2>2. given - call.rest = given
      BY <1>2
    <2> QED  BY <1>3, <2>1, <2>2 DEF Growing, OnceInOrder
  <1>8. InputInv'
    BY <1>3, InputUntouched
  <1>9. Timing'
    BY <1>3, NoTiming
  <1> QED  BY <1>4, <1>5, <1>6, <1>7, <1>8, <1>9

LEMMA FlushOrCloseStep ==
  ASSUME TransportInv, NEW op \in {"flush", "close"}, FlushOrClose(op)
  PROVE  TransportInv'
  <1> USE DEF TransportInv, Bytes, OutputInv
  <1>1. call.rest = 0 /\ call.pc = "idle" /\ out.offset = 0
    BY DEF FlushOrClose, Idle, Shape, TypeOK
  <1>2. /\ call' = [op |-> op, pc |-> IF platform \in Buffered THEN "drain"
                                     ELSE IF op = "close" THEN "closed" ELSE "idle",
                    result |-> "ok", rest |-> 0, timeout |-> call.timeout,
                    called |-> call.called, until |-> call.until, mark |-> 0,
                    made |-> call.made]
        /\ UNCHANGED <<timeVars, outputVars, input>>
    <2>1. call' = [op |-> op, pc |-> IF platform \in Buffered THEN "drain"
                                     ELSE IF op = "close" THEN "closed" ELSE "idle",
                   result |-> "ok", rest |-> call.rest, timeout |-> call.timeout,
                   called |-> call.called, until |-> call.until, mark |-> 0,
                   made |-> call.made]
      BY DEF FlushOrClose, TypeOK
    <2> QED  BY <1>1, <2>1 DEF FlushOrClose
  <1>3. TypeOK'
    BY <1>2 DEF TypeOK, timeVars, outputVars
  <1>4. Shape'
    BY <1>1, <1>2, Platform DEF Shape, outputVars
  <1>5. Standing'
    BY <1>1, <1>2, OutputUntouched DEF Standing
  <1>6. InputInv'
    BY <1>2, InputUntouched
  <1>7. Timing'
    BY <1>2, NoTiming
  <1> QED  BY <1>3, <1>4, <1>5, <1>6, <1>7 DEF Standing

LEMMA CopyStep ==
  ASSUME TransportInv, Copy, platform \in Buffered
  PROVE  TransportInv'
  <1> USE DEF TransportInv, Bytes, OutputInv
  <1> DEFINE copied == Copied(call.rest, out.count)
             count == out.count + copied
             old == out.buffer
             new == [i \in 1 .. Size |->
                       IF i > out.count /\ i <= count THEN given - call.rest + (i - out.count)
                       ELSE old[i]]
  <1>1. /\ call.pc = "copy" /\ call.op = "write" /\ out.offset = 0
        /\ call.rest \in Nat /\ out.count \in Nat /\ out.count <= Size /\ Size \in Nat
        /\ given \in Nat /\ call.rest <= given /\ old \in [1 .. Size -> Nat]
    BY TransportAssumption DEF Copy, Shape, TypeOK, Growing
  <1>2. /\ copied \in Nat /\ copied <= call.rest /\ count \in Nat /\ count <= Size
        /\ count # Size => copied = call.rest
    BY <1>1 DEF Copied, Lesser
  <1>3. UNCHANGED <<timeVars, line, given, lost, input>>
    BY DEF Copy
  <1>4. out' = [buffer |-> new, count |-> count, offset |-> 0]
    BY <1>1 DEF Copy, TypeOK
  <1> HIDE DEF copied, count
  <1>5. new \in [1 .. Size -> Nat]
    <2> SUFFICES ASSUME NEW i \in 1 .. Size
                 PROVE  (IF i > out.count /\ i <= count THEN given - call.rest + (i - out.count)
                         ELSE old[i]) \in Nat
      OBVIOUS
    <2> QED  BY <1>1, <1>2
  <1>6. \A i \in 1 .. count :
          new[i] = IF i > out.count THEN given - call.rest + (i - out.count) ELSE old[i]
    BY <1>1, <1>2
  <1> HIDE DEF new
  <1>7. call' = [op |-> "write", pc |-> IF count = Size THEN "drain" ELSE "idle",
                 result |-> IF count = Size THEN call.result ELSE "ok",
                 rest |-> call.rest - copied, timeout |-> call.timeout,
                 called |-> call.called, until |-> call.until, mark |-> call.mark,
                 made |-> call.made]
    <2>1. CASE count = Size
      <3>1. call' = [call EXCEPT !.rest = @ - copied, !.pc = "drain"]
        BY <2>1 DEF Copy, count, copied
      <3> QED  BY <1>1, <2>1, <3>1 DEF TypeOK
    <2>2. CASE count # Size
      <3>1. call' = Returned("ok")
        BY <2>2 DEF Copy, count, copied
      <3>2. call' = [op |-> "write", pc |-> "idle", result |-> "ok", rest |-> 0,
                     timeout |-> call.timeout, called |-> call.called, until |-> call.until,
                     mark |-> call.mark, made |-> call.made]
        BY <1>1, <3>1 DEF Returned, TypeOK
      <3>3. call.rest - copied = 0
        BY <1>1, <1>2, <2>2
      <3> QED  BY <2>2, <3>2, <3>3
    <2> QED  BY <2>1, <2>2
  <1>8. TypeOK'
    <2>1. call' \in [op : {"write"}, pc : {"drain", "idle"}, result : Results, rest : Nat,
                     timeout : Nat, called : Nat, until : Nat, mark : Nat, made : Nat]
      <3>1. call.rest - copied \in Nat
        BY <1>1, <1>2
      <3> QED  BY <1>7, <3>1 DEF TypeOK, Results
    <2>2. /\ out' \in [buffer : [1 .. Size -> Nat], count : 0 .. Size, offset : 0 .. Size]
          /\ out'.offset <= out'.count
      BY <1>1, <1>2, <1>4, <1>5
    <2> QED  BY <1>3, <2>1, <2>2 DEF TypeOK, Results, timeVars
  <1>9. Shape'
    <2>1. call'.rest > 0 => count = Size
      BY <1>1, <1>2, <1>7
    <2>2. call'.op = "write" /\ call'.pc \in {"drain", "idle"} /\ out'.offset = 0
          /\ (call'.pc = "drain" <=> count = Size) /\ platform' = platform
      BY <1>3, <1>4, <1>7, Platform
    <2> QED  BY <2>1, <2>2 DEF Shape
  <1>10. Kept'
    <2> SUFFICES ASSUME ~lost PROVE Kept'
      BY <1>3 DEF Kept
    <2> DEFINE l == Len(line)
    <2>1. /\ l \in Nat /\ given = l + out.count + call.rest
          /\ \A i \in 1 .. out.count : old[i] = l + i
          /\ \A i \in 1 .. Len(line) : line[i] = i
      BY <1>1 DEF Kept, TypeOK
    <2> HIDE DEF l
    <2>2. ASSUME NEW i \in 1 .. count PROVE new[i] = l + i
      <3>1. CASE i > out.count
        BY <3>1, <2>1, <1>1, <1>2, <1>6, SMTT(60)
      <3>2. CASE ~(i > out.count)
        BY <3>2, <2>1, <1>1, <1>2, <1>6
      <3> QED  BY <3>1, <3>2
    <2>3. given = l + count + (call.rest - copied)
      BY <2>1, <1>1, <1>2 DEF count
    <2>4. /\ line' = line /\ given' = given /\ out'.buffer = new /\ out'.count = count
          /\ out'.offset = 0 /\ call'.rest = call.rest - copied
      BY <1>3, <1>4, <1>7
    <2> QED  BY <2>1, <2>2, <2>3, <2>4, <1>2 DEF Kept, l
  <1>11. Growing'
    <2> DEFINE g == given - call.rest
    <2>1. g \in Nat /\ given' - call'.rest = g + copied /\ call'.rest <= given'
          /\ count = out.count + copied
      BY <1>1, <1>2, <1>3, <1>7 DEF count
    <2>2. /\ \A i, j \in 1 .. out.count : i < j => old[i] < old[j]
          /\ \A i \in 1 .. Len(line), j \in 1 .. out.count : line[i] < old[j]
          /\ \A i \in 1 .. Len(line) : line[i] <= g
          /\ \A j \in 1 .. out.count : old[j] <= g
          /\ OnceInOrder
      BY <1>1 DEF Growing
    <2>3. \A i \in 1 .. count : new[i] = IF i > out.count THEN g + (i - out.count) ELSE old[i]
      BY <1>6
    <2>4. \A i \in 1 .. Len(line) : line[i] \in Nat
      BY SMTT(60) DEF TypeOK
    <2> HIDE DEF g
    <2>5. \A i, j \in 1 .. count : i < j => new[i] < new[j]
      <3> SUFFICES ASSUME NEW i \in 1 .. count, NEW j \in 1 .. count, i < j
                   PROVE  new[i] < new[j]
        OBVIOUS
      <3>1. CASE j <= out.count
        <4>1. i \in 1 .. out.count /\ j \in 1 .. out.count
          BY <3>1, <1>1, <1>2
        <4>2. new[i] = old[i] /\ new[j] = old[j]
          BY <4>1, <1>1, <1>2, <2>3
        <4> QED  BY <4>1, <4>2, <2>2
      <3>2. CASE i > out.count
        <4>1. new[i] = g + (i - out.count) /\ new[j] = g + (j - out.count)
          BY <3>2, <1>1, <1>2, <2>3, SMTT(60)
        <4> QED  BY <4>1, <1>1, <2>1
      <3>3. CASE i <= out.count /\ j > out.count
        <4>1. new[i] = old[i] /\ old[i] <= g /\ old[i] \in Nat
          BY <3>3, <1>1, <1>2, <2>2, <2>3
        <4>2. new[j] = g + (j - out.count)
          BY <3>3, <1>1, <1>2, <2>3
        <4> QED  BY <3>3, <4>1, <4>2, <1>1, <2>1, SMTT(60)
      <3> QED  BY <3>1, <3>2, <3>3, <1>1
    <2>6. \A i \in 1 .. Len(line), j \in 1 .. count : line[i] < new[j]
      <3> SUFFICES ASSUME NEW i \in 1 .. Len(line), NEW j \in 1 .. count
                   PROVE  line[i] < new[j]
        OBVIOUS
      <3>1. CASE j <= out.count
        <4>1. new[j] = old[j] /\ j \in 1 .. out.count
          BY <3>1, <1>1, <1>2, <2>3
        <4> QED  BY <4>1, <2>2
      <3>2. CASE j > out.count
        <4>1. new[j] = g + (j - out.count) /\ line[i] <= g /\ line[i] \in Nat
          BY <3>2, <1>1, <1>2, <2>2, <2>3, <2>4
        <4> QED  BY <3>2, <4>1, <1>1, <2>1
      <3> QED  BY <3>1, <3>2, <1>1
    <2>7. \A j \in 1 .. count : new[j] <= g + copied
      <3> SUFFICES ASSUME NEW j \in 1 .. count PROVE new[j] <= g + copied
        OBVIOUS
      <3>1. CASE j <= out.count
        <4>1. new[j] = old[j] /\ old[j] <= g /\ old[j] \in Nat
          BY <3>1, <1>1, <1>2, <2>2, <2>3
        <4> QED  BY <4>1, <1>2, <2>1
      <3>2. CASE j > out.count
        <4>1. new[j] = g + (j - out.count)
          BY <3>2, <1>1, <1>2, <2>3
        <4> QED  BY <4>1, <1>1, <1>2, <2>1
      <3> QED  BY <3>1, <3>2, <1>1
    <2>8. \A i \in 1 .. Len(line) : line[i] <= g + copied
      BY <1>2, <2>1, <2>2, <2>4
    <2> QED  BY <1>3, <1>4, <2>1, <2>2, <2>5, <2>6, <2>7, <2>8 DEF Growing, OnceInOrder
  <1>12. InputInv'
    BY <1>3, <1>7, InputUntouched
  <1>13. Timing'
    BY <1>3, <1>7, NoTiming
  <1> QED  BY <1>8, <1>9, <1>10, <1>11, <1>12, <1>13

\* The system takes a piece of the buffer.
LEMMA TakenStep ==
  ASSUME TransportInv, Taken, call.pc = "drain", UNCHANGED <<timeVars, given, input>>
  PROVE  TransportInv'
  <1> USE DEF TransportInv, Bytes, OutputInv
  <1> DEFINE b == out.buffer
             l == Len(line)
             o == out.offset
  <1>1. PICK n \in 1 .. out.count - out.offset :
          /\ line' = line \o SubSeq(b, o + 1, o + n)
          /\ out' = [out EXCEPT !.offset = @ + n]
          /\ UNCHANGED <<call, lost>>
    BY DEF Taken
  <1>2. /\ o \in Nat /\ out.count \in Nat /\ out.count <= Size /\ b \in [1 .. Size -> Nat]
        /\ line \in Seq(Nat) /\ l \in Nat /\ Size \in Nat /\ given \in Nat /\ call.rest \in Nat
    BY TransportAssumption, SMTT(60) DEF TypeOK
  <1>3. n \in Nat /\ n > 0 /\ o + n <= out.count /\ o + n <= Size
    BY <1>2
  <1>4. out' = [buffer |-> b, count |-> out.count, offset |-> o + n]
    BY <1>1 DEF TypeOK
  <1> DEFINE t == SubSeq(b, o + 1, o + n)
  <1> HIDE DEF b, o
  <1>5. t \in Seq(Nat) /\ Len(t) = n /\ \A i \in 1 .. n : t[i] = b[o + i]
    BY <1>2, <1>3, Piece
  <1>6. line' = line \o t
    BY <1>1
  <1> HIDE DEF t
  <1>7. /\ line' \in Seq(Nat) /\ Len(line') = l + n
        /\ \A i \in 1 .. l : line'[i] = line[i]
        /\ \A i \in l + 1 .. l + n :
             i - l \in 1 .. n /\ o + (i - l) \in 1 .. out.count /\ line'[i] = b[o + (i - l)]
    <2>1. /\ line' \in Seq(Nat) /\ Len(line') = l + n
          /\ \A i \in 1 .. l : line'[i] = line[i]
          /\ \A i \in l + 1 .. l + n : line'[i] = t[i - l]
      BY <1>2, <1>5, <1>6, Extended
    <2>2. ASSUME NEW i \in l + 1 .. l + n
          PROVE  i - l \in 1 .. n /\ o + (i - l) \in 1 .. out.count
      BY <1>2, <1>3
    <2> QED  BY <1>5, <2>1, <2>2
  <1>8. TypeOK'
    <2>1. out' \in [buffer : [1 .. Size -> Nat], count : 0 .. Size, offset : 0 .. Size]
          /\ out'.offset <= out'.count
      BY <1>2, <1>3, <1>4
    <2> QED  BY <1>1, <1>7, <2>1 DEF TypeOK, timeVars
  <1>9. Shape'
    BY <1>1, <1>4, Platform DEF Shape
  <1> HIDE DEF l
  <1>10. Kept'
    <2> SUFFICES ASSUME ~lost PROVE Kept'
      BY <1>1 DEF Kept
    <2>1. /\ \A i \in 1 .. l : line[i] = i
          /\ \A i \in 1 .. out.count : b[i] = l - o + i
          /\ given = l - o + out.count + call.rest
      BY DEF Kept, b, o, l
    <2>2. ASSUME NEW i \in 1 .. l + n PROVE line'[i] = i
      <3>1. CASE i \in 1 .. l
        BY <3>1, <1>7, <2>1
      <3>2. CASE i \in l + 1 .. l + n
        <4>1. line'[i] = b[o + (i - l)] /\ b[o + (i - l)] = l - o + (o + (i - l))
          BY <3>2, <1>7, <2>1
        <4> QED  BY <4>1, <1>2
      <3> QED  BY <3>1, <3>2, <1>2, <1>3
    <2>3. \A i \in 1 .. out.count : b[i] = (l + n) - (o + n) + i
      BY <2>1, <1>2, <1>3
    <2>4. given = (l + n) - (o + n) + out.count + call.rest
      BY <2>1, <1>2, <1>3
    <2>5. /\ given' = given /\ call' = call /\ out'.buffer = b /\ out'.count = out.count
          /\ out'.offset = o + n
      BY <1>1, <1>4
    <2> QED  BY <1>7, <2>2, <2>3, <2>4, <2>5 DEF Kept
  <1>11. Growing'
    <2>1. /\ \A i, j \in 1 .. l : i < j => line[i] < line[j]
          /\ \A i, j \in 1 .. out.count : i < j => b[i] < b[j]
          /\ \A i \in 1 .. l, j \in 1 .. out.count : j > o => line[i] < b[j]
          /\ \A i \in 1 .. l : line[i] <= given - call.rest
          /\ \A j \in 1 .. out.count : b[j] <= given - call.rest
          /\ call.rest <= given
      BY DEF Growing, OnceInOrder, b, o, l
    <2>2. l + 1 .. l + n \subseteq 1 .. l + n /\ 1 .. l \subseteq 1 .. l + n
          /\ \A i \in 1 .. l + n : i \in 1 .. l \/ i \in l + 1 .. l + n
      BY <1>2, <1>3
    <2>3. ASSUME NEW i \in 1 .. l + n, NEW j \in 1 .. l + n, i < j PROVE line'[i] < line'[j]
      <3>1. CASE i \in 1 .. l /\ j \in 1 .. l
        BY <3>1, <2>3, <1>7, <2>1
      <3>2. CASE i \in 1 .. l /\ j \in l + 1 .. l + n
        <4>1. o + (j - l) > o
          BY <3>2, <1>2, <1>7
        <4> QED  BY <3>2, <4>1, <1>7, <2>1
      <3>3. CASE i \in l + 1 .. l + n /\ j \in l + 1 .. l + n
        <4>1. o + (i - l) < o + (j - l)
          BY <3>3, <2>3, <1>2
        <4> QED  BY <3>3, <4>1, <1>7, <2>1
      <3>4. ~(i \in l + 1 .. l + n /\ j \in 1 .. l)
        BY <2>3, <1>2, <1>3
      <3> QED  BY <3>1, <3>2, <3>3, <3>4, <2>2
    <2>4. ASSUME NEW i \in 1 .. l + n, NEW j \in 1 .. out.count, j > o + n
          PROVE  line'[i] < b[j]
      <3>1. CASE i \in 1 .. l
        <4>1. j > o
          BY <2>4, <1>2, <1>3
        <4> QED  BY <3>1, <4>1, <1>7, <2>1
      <3>2. CASE i \in l + 1 .. l + n
        <4>1. o + (i - l) < j
          BY <3>2, <2>4, <1>2, <1>3, <1>7
        <4> QED  BY <3>2, <4>1, <1>7, <2>1
      <3> QED  BY <3>1, <3>2, <2>2
    <2>5. ASSUME NEW i \in 1 .. l + n PROVE line'[i] <= given - call.rest
      <3>1. CASE i \in 1 .. l
        BY <3>1, <1>7, <2>1
      <3>2. CASE i \in l + 1 .. l + n
        BY <3>2, <1>7, <2>1
      <3> QED  BY <3>1, <3>2, <2>2
    <2>6. /\ given' = given /\ call' = call /\ out'.buffer = b /\ out'.count = out.count
          /\ out'.offset = o + n
      BY <1>1, <1>4
    <2> QED  BY <1>7, <2>1, <2>3, <2>4, <2>5, <2>6 DEF Growing, OnceInOrder
  <1>12. InputInv'
    BY <1>1, InputUntouched DEF Shape
  <1>13. Timing'
    BY <1>1, NoTiming DEF Shape
  <1> QED  BY <1>8, <1>9, <1>10, <1>11, <1>12, <1>13

LEMMA OutputReturned ==
  ASSUME TypeOK, NEW res \in Results, call' = Returned(res)
  PROVE  call' = [op |-> call.op, pc |-> IF call.op = "close" THEN "closed" ELSE "idle",
                  result |-> res, rest |-> 0, timeout |-> call.timeout,
                  called |-> call.called, until |-> call.until, mark |-> call.mark,
                  made |-> call.made]
  BY DEF Returned, TypeOK

Putting == call.pc \in {"copy", "drain", "blocked", "send"}

\* A call that fails with nothing left of it leaves everything else in order.
LEMMA FailedStep ==
  ASSUME TransportInv, Failed, call.pc \in {"drain", "blocked"},
         UNCHANGED <<timeVars, given, input>>
  PROVE  TransportInv'
  <1> USE DEF TransportInv, Bytes, OutputInv
  <1> DEFINE b == out.buffer
             l == Len(line)
             o == out.offset
             c == out.count
             new == [i \in 1 .. Size |-> IF i + o <= c THEN b[i + o] ELSE b[i]]
  <1>1. /\ o < c /\ UNCHANGED line /\ lost' = (lost \/ call.rest > 0)
        /\ call' = Returned("error") /\ out' = Unsent(out)
    BY DEF Failed
  <1>2. /\ o \in Nat /\ c \in Nat /\ c <= Size /\ b \in [1 .. Size -> Nat]
        /\ l \in Nat /\ Size \in Nat /\ given \in Nat /\ call.rest \in Nat
        /\ c - o \in Nat /\ c - o <= Size
    <2>1. /\ o \in Nat /\ c \in Nat /\ c <= Size /\ b \in [1 .. Size -> Nat]
          /\ l \in Nat /\ Size \in Nat /\ given \in Nat /\ call.rest \in Nat
      BY TransportAssumption DEF TypeOK
    <2> HIDE DEF b, l, o, c
    <2>2. c - o \in Nat /\ c - o <= Size
      BY <1>1, <2>1
    <2> QED  BY <2>1, <2>2
  <1>3. out' = [buffer |-> new, count |-> c - o, offset |-> 0]
    BY <1>1 DEF Unsent
  <1>4. call' = [op |-> call.op, pc |-> IF call.op = "close" THEN "closed" ELSE "idle",
                 result |-> "error", rest |-> 0, timeout |-> call.timeout,
                 called |-> call.called, until |-> call.until, mark |-> call.mark,
                 made |-> call.made]
    BY <1>1, OutputReturned DEF Results
  <1> HIDE DEF b, l, o, c
  <1>5. new \in [1 .. Size -> Nat]
    <2> SUFFICES ASSUME NEW i \in 1 .. Size
                 PROVE  (IF i + o <= c THEN b[i + o] ELSE b[i]) \in Nat
      OBVIOUS
    <2> QED  BY <1>2
  <1>6. \A i \in 1 .. c - o : i + o \in 1 .. c /\ i + o > o /\ new[i] = b[i + o]
    BY <1>2
  <1> HIDE DEF new
  <1>7. TypeOK'
    <2>1. out' \in [buffer : [1 .. Size -> Nat], count : 0 .. Size, offset : 0 .. Size]
          /\ out'.offset <= out'.count
      BY <1>2, <1>3, <1>5
    <2>2. lost' \in BOOLEAN
      BY <1>1 DEF TypeOK
    <2> QED  BY <1>1, <1>4, <2>1, <2>2 DEF TypeOK, timeVars
  <1>8. Shape'
    BY <1>3, <1>4, Platform DEF Shape
  <1>9. Kept'
    <2>1. CASE lost'
      BY <2>1 DEF Kept
    <2>2. CASE ~lost'
      <3>1. ~lost /\ ~(call.rest > 0)
        BY <1>1, <2>2, Zenon
      <3>2. call.rest = 0
        BY <1>2, <3>1
      <3>3. /\ \A i \in 1 .. l : line[i] = i
            /\ \A i \in 1 .. c : b[i] = l - o + i
            /\ given = l - o + c
        BY <1>2, <3>1, <3>2 DEF Kept, b, o, l, c
      <3>4. ASSUME NEW i \in 1 .. c - o PROVE new[i] = l - 0 + i
        <4>1. new[i] = b[i + o] /\ b[i + o] = l - o + (i + o)
          BY <1>6, <3>3
        <4> QED  BY <4>1, <1>2
      <3>5. given = l - 0 + (c - o) + 0
        BY <3>3, <1>2
      <3> QED  BY <1>1, <1>3, <1>4, <3>3, <3>4, <3>5 DEF Kept, l
    <2> QED  BY <2>1, <2>2
  <1>10. Growing'
    <2>1. /\ \A i, j \in 1 .. l : i < j => line[i] < line[j]
          /\ \A i, j \in 1 .. c : i < j => b[i] < b[j]
          /\ \A i \in 1 .. l, j \in 1 .. c : j > o => line[i] < b[j]
          /\ \A i \in 1 .. l : line[i] <= given - call.rest
          /\ \A j \in 1 .. c : b[j] <= given - call.rest
          /\ call.rest <= given
      BY DEF Growing, OnceInOrder, b, o, l, c
    <2>2. \A i, j \in 1 .. c - o : i < j => new[i] < new[j]
      <3> SUFFICES ASSUME NEW i \in 1 .. c - o, NEW j \in 1 .. c - o, i < j PROVE new[i] < new[j]
        OBVIOUS
      <3>1. i + o < j + o
        BY <1>2
      <3> QED  BY <3>1, <1>6, <2>1
    <2>3. \A i \in 1 .. l, j \in 1 .. c - o : line[i] < new[j]
      BY <1>6, <2>1
    <2>4. /\ line' = line /\ given' = given /\ out'.buffer = new /\ out'.count = c - o
          /\ out'.offset = 0 /\ call'.rest = 0
      BY <1>1, <1>3, <1>4
    <2>5. \A i \in 1 .. l : line[i] <= given' - call'.rest
      <3> SUFFICES ASSUME NEW i \in 1 .. l PROVE line[i] <= given' - call'.rest
        OBVIOUS
      <3>1. line \in Seq(Nat) /\ i \in 1 .. Len(line)
        BY DEF TypeOK, l
      <3>2. line[i] \in Nat
        BY <3>1
      <3> QED  BY <3>2, <1>2, <2>1, <2>4
    <2>6. \A j \in 1 .. c - o : new[j] <= given' - call'.rest
      <3> SUFFICES ASSUME NEW j \in 1 .. c - o PROVE new[j] <= given' - call'.rest
        OBVIOUS
      <3>1. new[j] = b[j + o] /\ b[j + o] <= given - call.rest /\ b[j + o] \in Nat
        BY <1>2, <1>6, <2>1
      <3> QED  BY <3>1, <1>2, <2>4
    <2>7. Len(line') = l /\ call'.rest <= given'
      BY <1>2, <2>4 DEF l
    <2> QED  BY <2>1, <2>2, <2>3, <2>4, <2>5, <2>6, <2>7 DEF Growing, OnceInOrder
  <1>11. call.op \in {"write", "flush", "close"}
    BY DEF Shape
  <1>12. InputInv'
    BY <1>4, <1>11, InputUntouched
  <1>13. Timing'
    BY <1>4, <1>11, NoTiming
  <1> QED  BY <1>7, <1>8, <1>9, <1>10, <1>12, <1>13

LEMMA EmptiedStep ==
  ASSUME TransportInv, Emptied, call.pc = "drain", UNCHANGED <<timeVars, given, input>>
  PROVE  TransportInv'
  <1> USE DEF TransportInv, Bytes, OutputInv
  <1>1. out.offset = out.count /\ UNCHANGED <<line, lost>>
    BY DEF Emptied
  <1>2. out' = [buffer |-> out.buffer, count |-> 0, offset |-> 0]
    BY DEF Emptied, TypeOK
  <1>3. call.op \in {"write", "flush", "close"} /\ call.rest \in Nat /\ platform \in Buffered
        /\ Size \in Nat /\ given \in Nat /\ Len(line) \in Nat /\ out.count \in Nat
    BY TransportAssumption DEF Shape, TypeOK
  <1>4. \/ /\ call.rest > 0
           /\ call' = [op |-> call.op, pc |-> "copy", result |-> call.result,
                       rest |-> call.rest, timeout |-> call.timeout, called |-> call.called,
                       until |-> call.until, mark |-> call.mark, made |-> call.made]
        \/ /\ call.rest = 0
           /\ call' = [op |-> call.op, pc |-> IF call.op = "close" THEN "closed" ELSE "idle",
                       result |-> "ok", rest |-> 0, timeout |-> call.timeout,
                       called |-> call.called, until |-> call.until, mark |-> call.mark,
                       made |-> call.made]
    <2>1. CASE call.rest > 0
      BY <2>1 DEF Emptied, TypeOK
    <2>2. CASE ~(call.rest > 0)
      <3>1. call' = Returned("ok") /\ call.rest = 0
        BY <2>2, <1>3 DEF Emptied
      <3> QED  BY <3>1, OutputReturned DEF Results
    <2> QED  BY <2>1, <2>2
  <1>5. call'.rest = call.rest
    BY <1>4
  <1>6. TypeOK'
    <2>1. out' \in [buffer : [1 .. Size -> Nat], count : 0 .. Size, offset : 0 .. Size]
          /\ out'.offset <= out'.count
      BY <1>2, <1>3 DEF TypeOK
    <2>2. call' \in [op : {call.op}, pc : {"copy", "closed", "idle"}, result : Results, rest : Nat,
                     timeout : Nat, called : Nat, until : Nat, mark : Nat, made : Nat]
      BY <1>3, <1>4 DEF TypeOK, Results
    <2> QED  BY <1>1, <2>1, <2>2 DEF TypeOK, Results, timeVars
  <1>7. Shape'
    BY <1>2, <1>3, <1>4, Platform DEF Shape
  <1>8. Kept'
    BY <1>1, <1>2, <1>3, <1>5, SMTT(60) DEF Kept
  <1>9. Growing'
    BY <1>1, <1>2, <1>5 DEF Growing, OnceInOrder
  <1>10. call'.op = call.op /\ call'.mark = call.mark /\ call'.called = call.called
         /\ call'.pc \in {"copy", "closed", "idle"}
    BY <1>4
  <1>11. InputInv'
    BY <1>3, <1>10, InputUntouched
  <1>12. Timing'
    BY <1>3, <1>10, NoTiming
  <1> QED  BY <1>6, <1>7, <1>8, <1>9, <1>11, <1>12

LEMMA BlockedStep ==
  ASSUME TransportInv, NEW p \in {"drain", "blocked"}, call.pc \in {"drain", "blocked"},
         call' = [call EXCEPT !.pc = p], UNCHANGED <<timeVars, outputVars, input>>
  PROVE  TransportInv'
  <1> USE DEF TransportInv, Bytes, OutputInv
  <1>1. call' = [op |-> call.op, pc |-> p, result |-> call.result, rest |-> call.rest,
                 timeout |-> call.timeout, called |-> call.called, until |-> call.until,
                 mark |-> call.mark, made |-> call.made]
    BY DEF TypeOK
  <1>2. TypeOK'
    BY <1>1 DEF TypeOK, timeVars, outputVars
  <1>3. Shape'
    BY <1>1, Platform DEF Shape, outputVars
  <1>4. Standing'
    BY <1>1, OutputUntouched DEF Standing
  <1>5. call.op \in {"write", "flush", "close"}
    BY DEF Shape
  <1>6. InputInv'
    BY <1>1, <1>5, InputUntouched
  <1>7. Timing'
    BY <1>1, <1>5, NoTiming
  <1> QED  BY <1>2, <1>3, <1>4, <1>6, <1>7 DEF Standing

LEMMA DirectStep ==
  ASSUME TransportInv, call.pc = "send", NEW n \in 1 .. call.rest, Direct(n)
  PROVE  TransportInv'
  <1> USE DEF TransportInv, Bytes, OutputInv
  <1> DEFINE l == Len(line)
             g == given - call.rest
             t == [i \in 1 .. n |-> given - call.rest + i]
  <1>1. /\ call.op = "write" /\ out.count = 0 /\ out.offset = 0 /\ platform \notin Buffered
        /\ call.rest \in Nat /\ given \in Nat /\ g \in Nat /\ l \in Nat /\ n \in Nat /\ n > 0
        /\ n <= call.rest /\ line \in Seq(Nat) /\ call.rest - n \in Nat
    BY DEF Shape, TypeOK, Growing
  <1>2. UNCHANGED <<timeVars, out, given, lost, input>> /\ line' = line \o t
    BY DEF Direct
  <1>3. t \in Seq(Nat) /\ Len(t) = n /\ \A i \in 1 .. n : t[i] = g + i
    BY <1>1
  <1> HIDE DEF t
  <1>4. /\ line' \in Seq(Nat) /\ Len(line') = l + n
        /\ \A i \in 1 .. l : line'[i] = line[i]
        /\ \A i \in l + 1 .. l + n : line'[i] = g + (i - l)
    <2>1. /\ line' \in Seq(Nat) /\ Len(line') = l + n
          /\ \A i \in 1 .. l : line'[i] = line[i]
          /\ \A i \in l + 1 .. l + n : line'[i] = t[i - l]
      BY <1>1, <1>2, <1>3, Extended
    <2>2. ASSUME NEW i \in l + 1 .. l + n PROVE i - l \in 1 .. n
      BY <1>1
    <2> QED  BY <1>3, <2>1, <2>2
  <1>5. call' = [op |-> "write", pc |-> IF call.rest = n THEN "idle" ELSE "send",
                 result |-> IF call.rest = n THEN "ok" ELSE call.result,
                 rest |-> call.rest - n, timeout |-> call.timeout, called |-> call.called,
                 until |-> call.until, mark |-> call.mark, made |-> call.made]
    <2>1. CASE call.rest = n
      <3>1. call' = [op |-> "write", pc |-> "idle", result |-> "ok", rest |-> 0,
                     timeout |-> call.timeout, called |-> call.called, until |-> call.until,
                     mark |-> call.mark, made |-> call.made]
        BY <1>1, <2>1, OutputReturned DEF Direct, Results
      <3>2. call.rest - n = 0
        BY <1>1, <2>1
      <3> QED  BY <2>1, <3>1, <3>2
    <2>2. CASE call.rest # n
      <3>1. call' = [call EXCEPT !.rest = @ - n]
        BY <2>2 DEF Direct
      <3> QED  BY <1>1, <2>2, <3>1 DEF TypeOK
    <2> QED  BY <2>1, <2>2
  <1>6. TypeOK'
    <2>1. call' \in [op : {"write"}, pc : {"send", "idle"}, result : Results, rest : Nat,
                     timeout : Nat, called : Nat, until : Nat, mark : Nat, made : Nat]
      BY <1>1, <1>5 DEF TypeOK, Results
    <2> QED  BY <1>2, <1>4, <2>1 DEF TypeOK, Results, timeVars
  <1>7. Shape'
    <2>1. call'.rest > 0 <=> call.rest # n
      BY <1>1, <1>5
    <2> QED  BY <1>1, <1>2, <1>5, <2>1, Platform DEF Shape
  <1> HIDE DEF l, g
  <1>8. Kept'
    <2>1. CASE lost
      BY <1>2, <2>1 DEF Kept
    <2>2. CASE ~lost
      <3>1. /\ \A i \in 1 .. l : line[i] = i
            /\ given = l + call.rest
        BY <1>1, <2>2 DEF Kept, l
      <3>2. g = l
        BY <1>1, <3>1 DEF g
      <3>3. ASSUME NEW i \in 1 .. l + n PROVE line'[i] = i
        <4>1. CASE i \in 1 .. l
          BY <4>1, <1>4, <3>1
        <4>2. CASE i \in l + 1 .. l + n
          BY <4>2, <1>1, <1>4, <3>2
        <4> QED  BY <4>1, <4>2, <1>1
      <3>4. given = (l + n) - 0 + 0 + (call.rest - n)
        BY <1>1, <3>1
      <3>5. /\ out'.count = 0 /\ out'.offset = 0 /\ given' = given
            /\ call'.rest = call.rest - n /\ Len(line') = l + n
        BY <1>1, <1>2, <1>4, <1>5
      <3> QED  BY <3>3, <3>4, <3>5 DEF Kept
    <2> QED  BY <2>1, <2>2
  <1>9. Growing'
    <2>1. /\ \A i, j \in 1 .. l : i < j => line[i] < line[j]
          /\ \A i \in 1 .. l : line[i] \in Nat /\ line[i] <= g
      <3>1. \A i \in 1 .. l : line[i] \in Nat
        BY <1>1 DEF l
      <3> QED  BY <3>1 DEF Growing, OnceInOrder, l, g
    <2>2. /\ given' - call'.rest = g + n /\ call'.rest <= given'
          /\ out' = out
      BY <1>1, <1>2, <1>5 DEF g
    <2>3. ASSUME NEW i \in 1 .. l + n, NEW j \in 1 .. l + n, i < j PROVE line'[i] < line'[j]
      <3>1. CASE j \in 1 .. l
        <4>1. i \in 1 .. l
          BY <2>3, <3>1, <1>1
        <4> QED  BY <2>3, <3>1, <4>1, <1>4, <2>1
      <3>2. CASE i \in 1 .. l /\ j \in l + 1 .. l + n
        <4>1. line'[i] = line[i] /\ line[i] <= g /\ line[i] \in Nat /\ line'[j] = g + (j - l)
          BY <3>2, <1>4, <2>1
        <4> QED  BY <3>2, <4>1, <1>1
      <3>3. CASE i \in l + 1 .. l + n /\ j \in l + 1 .. l + n
        BY <3>3, <2>3, <1>1, <1>4
      <3> QED  BY <2>3, <3>1, <3>2, <3>3, <1>1
    <2>4. ASSUME NEW i \in 1 .. l + n PROVE line'[i] <= g + n
      <3>1. CASE i \in 1 .. l
        <4>1. line'[i] = line[i] /\ line[i] <= g /\ line[i] \in Nat
          BY <3>1, <1>4, <2>1
        <4> QED  BY <4>1, <1>1
      <3>2. CASE i \in l + 1 .. l + n
        BY <3>2, <1>1, <1>4
      <3> QED  BY <3>1, <3>2, <1>1
    <2>5. out'.count = 0 /\ Len(line') = l + n
      BY <1>1, <1>4, <2>2
    <2> QED  BY <2>2, <2>3, <2>4, <2>5 DEF Growing, OnceInOrder
  <1>10. InputInv'
    BY <1>2, <1>5, InputUntouched
  <1>11. Timing'
    BY <1>2, <1>5, NoTiming
  <1> QED  BY <1>6, <1>7, <1>8, <1>9, <1>10, <1>11

\* The BIOS gives up on a byte.
LEMMA GivenUpStep ==
  ASSUME TransportInv, call.pc = "send", call' = Returned("error"), lost' = TRUE,
         UNCHANGED <<timeVars, out, line, given, input>>
  PROVE  TransportInv'
  <1> USE DEF TransportInv, Bytes, OutputInv
  <1>1. call.op = "write" /\ call.rest \in Nat /\ given \in Nat /\ out.count = 0 /\ line \in Seq(Nat)
        /\ call.rest <= given
    BY DEF Shape, TypeOK, Growing
  <1>2. call' = [op |-> "write", pc |-> "idle", result |-> "error", rest |-> 0,
                 timeout |-> call.timeout, called |-> call.called, until |-> call.until,
                 mark |-> call.mark, made |-> call.made]
    BY <1>1, OutputReturned DEF Results
  <1>3. TypeOK'
    BY <1>2 DEF TypeOK, timeVars
  <1>4. Shape'
    BY <1>2, Platform DEF Shape
  <1>5. Kept'
    BY DEF Kept
  <1>6. Growing'
    <2>1. \A i \in 1 .. Len(line) : line[i] \in Nat /\ line[i] <= given - call.rest
      BY <1>1 DEF Growing
    <2>2. \A i \in 1 .. Len(line) : line[i] <= given
      BY <1>1, <2>1
    <2>3. given' - call'.rest = given
      BY <1>1, <1>2
    <2> QED  BY <1>1, <1>2, <2>2, <2>3 DEF Growing, OnceInOrder
  <1>7. InputInv'
    BY <1>2, InputUntouched
  <1>8. Timing'
    BY <1>2, NoTiming
  <1> QED  BY <1>3, <1>4, <1>5, <1>6, <1>7, <1>8

----------------------------------------------------------------------------
(* Every step.                                                             *)

LEMMA OutputInvariant ==
  ASSUME TransportInv, Output
  PROVE  TransportInv'
  <1>1. CASE Write
    BY <1>1, WriteStep
  <1>2. CASE FlushOrClose("flush") \/ FlushOrClose("close")
    BY <1>2, FlushOrCloseStep
  <1>3. CASE posix_write \/ win95_write
    BY <1>3, CopyStep DEF posix_write, win95_write, Buffered
  <1>4. CASE posix_flush
    BY <1>4, TakenStep, FailedStep, EmptiedStep DEF posix_flush
  <1>5. CASE write_socket
    <2>1. CASE call.pc = "drain" /\ Taken
      BY <1>5, <2>1, TakenStep DEF write_socket
    <2>2. CASE call.pc \in {"drain", "blocked"} /\ Failed
      BY <1>5, <2>2, FailedStep DEF write_socket
    <2>3. CASE /\ call.pc = "drain" /\ call' = [call EXCEPT !.pc = "blocked"]
               /\ UNCHANGED <<out, line, lost>>
      BY <1>5, <2>3, BlockedStep DEF write_socket, outputVars
    <2>4. CASE /\ call.pc = "blocked" /\ call' = [call EXCEPT !.pc = "drain"]
               /\ UNCHANGED <<out, line, lost>>
      BY <1>5, <2>4, BlockedStep DEF write_socket, outputVars
    <2> QED  BY <1>5, <2>1, <2>2, <2>3, <2>4 DEF write_socket
  <1>6. CASE write_comm
    BY <1>6, TakenStep, FailedStep DEF write_comm
  <1>7. CASE win95_flush
    BY <1>7, EmptiedStep DEF win95_flush
  <1>8. CASE fossil_write
    BY <1>8, DirectStep DEF fossil_write
  <1>9. CASE bios_write \/ rdrpun_write
    <2>1. 1 \in 1 .. call.rest \/ call.pc # "send"
      BY DEF TransportInv, Bytes, OutputInv, Shape, TypeOK
    <2> QED  BY <1>9, <2>1, DirectStep, GivenUpStep DEF bios_write, rdrpun_write
  <1> QED  BY <1>1, <1>2, <1>3, <1>4, <1>5, <1>6, <1>7, <1>8, <1>9 DEF Output

LEMMA InputInvariant ==
  ASSUME TransportInv, Input
  PROVE  TransportInv'
  <1> USE DEF TransportInv
  <1>1. CASE \E t \in plan.timeouts : Ask("read", t)
    <2>1. PICK t \in plan.timeouts : Ask("read", t)
      BY <1>1
    <2>2. t \in Nat /\ t < Word
      BY TransportAssumption, SMTT(60) DEF Bytes, TypeOK
    <2> QED  BY <2>1, <2>2, AskStep, AskTiming
  <1>2. CASE Ask("poll", 0) \/ Ask("purge", 0)
    BY <1>2, AskStep, AskTiming
  <1>3. CASE wait_for_input \/ socket_wait
    BY <1>3, SelectLooks, SelectedLooks, LookingStep DEF wait_for_input, socket_wait
  <1>4. CASE comm_wait \/ fossil_wait \/ bios_wait
    BY <1>4, LookLooks, WokenLooks, LineErrorLooks, PurgedAtOnceLooks, LookingStep
       DEF comm_wait, fossil_wait, bios_wait, Polling
  <1>5. CASE rdrpun_read
    BY <1>5, CpmLooks, LookingStep
  <1>6. CASE posix_read \/ posix_purge
    BY <1>6, TakeLooks, EndOfFileLooks, LookingStep DEF posix_read, posix_purge
  <1>7. CASE win95_read \/ win95_purge
    BY <1>7, TakeLooks, EndOfFileLooks, LookingStep DEF win95_read, win95_purge
  <1>8. CASE fossil_read \/ bios_read \/ rdrpun_take
    BY <1>8, TakeLooks, LookingStep DEF fossil_read, bios_read, rdrpun_take
  <1> QED  BY <1>1, <1>2, <1>3, <1>4, <1>5, <1>6, <1>7, <1>8 DEF Input

\* The clock advances no further than the wait goes.
LEMMA TickTiming ==
  ASSUME Bytes, Timing, Tick
  PROVE  Timing'
  <1>1. /\ call.pc \in {"select", "sleep"} /\ now < call.until /\ now' = now + 1
        /\ UNCHANGED <<plan, call, outputVars, input>>
    BY DEF Tick
  <1>2. TypeOK /\ Asking
    BY <1>1, AskingOps DEF Bytes, OutputInv, Waiting
  <1>3. now + 1 \in Nat /\ now + 1 <= call.until /\ platform' = platform /\ Limit' = Limit
    BY <1>1, <1>2, Times DEF platform, Limit
  <1>4. Waited'
    <2>1. CASE platform = "posix"
      <3>1. call.pc = "select" /\ call.until < call.called + Limit + PerMicro /\ call.timeout < Word
        BY <1>1, <1>2, <2>1 DEF Timing, Waited, Waits, Polling, Asking
      <3>2. now + 1 - call.called < Limit + PerMicro
        BY <1>2, <1>3, <3>1, Times
      <3>3. now' - call'.called < Limit' + PerMicro
        <4>1. now' = now + 1 /\ call'.called = call.called /\ Limit' = Limit
          BY <1>1, <1>3
        <4>2. now + 1 - call.called < Limit + PerMicro
          BY <3>2
        <4> HIDE DEF Limit
        <4> QED  BY <1>2, <4>1, <4>2, Times
      <3>4. platform' = "posix" /\ call'.timeout < Word
        BY <1>1, <1>3, <2>1, <3>1
      <3> QED  BY <3>3, <3>4 DEF Waited
    <2>2. CASE platform # "posix"
      <3>1. Grain(now + 1) <= Grain(call.until)
        BY <1>2, <1>3, Times, LaterGrain
      <3>2. /\ Grain(call.until) <= Grain(call.called) + call.timeout
            /\ Grain(call.until) \in Nat /\ Grain(call.called) \in Nat /\ Grain(now + 1) \in Nat
        <4>1. /\ Grain(call.until) \in Nat /\ Grain(call.called) \in Nat
              /\ Grain(now + 1) \in Nat /\ call.timeout \in Nat
          BY <1>2, <1>3, Times, Grains
        <4>2. CASE call.pc = "select"
          <5>1. Grain(call.until) = Grain(call.called) + call.timeout
            BY <2>2, <4>2 DEF Timing, Waits, Selecting
          <5> QED  BY <4>1, <5>1
        <4>3. CASE call.pc = "sleep"
          BY <4>1, <4>3 DEF Timing, Waits
        <4> QED  BY <1>1, <4>2, <4>3
      <3>3. Grain(now + 1) <= Grain(call.called) + call.timeout
        BY <1>2, <3>1, <3>2, Times
      <3> QED  BY <1>1, <1>3, <2>2, <3>3 DEF Timing, Waited, Asking, Grain
    <2> QED  BY <2>1, <2>2
  <1>5. Waits'
    BY <1>1, <1>3 DEF Timing, Waits, Grain
  <1>6. (call.called <= now)'
    BY <1>1, <1>2, Times DEF Timing
  <1> QED  BY <1>1, <1>4, <1>5, <1>6 DEF Timing, NotEarly, Idle

LEMMA ArrivalTiming ==
  ASSUME Bytes, Timing, Arrive \/ HangUp
  PROVE  Timing'
  <1>1. /\ UNCHANGED <<timeVars, call>>
        /\ Ready => Ready'
        /\ input.hung => input'.hung
    <2>1. CASE Arrive
      <3>1. input'.unread = Append(input.unread, input.arrived + 1) /\ input'.hung = input.hung
        BY <2>1 DEF Arrive, Bytes, TypeOK
      <3>2. input'.unread # << >>
        BY <3>1, AppendProperties, SMTT(60) DEF Bytes, TypeOK
      <3> QED  BY <2>1, <3>1, <3>2 DEF Arrive, Ready
    <2>2. CASE HangUp
      <3>1. input'.hung
        BY <2>2 DEF HangUp, Bytes, TypeOK
      <3> QED  BY <2>2, <3>1 DEF HangUp, Ready
    <2> QED  BY <2>1, <2>2
  <1>2. platform' = platform /\ Limit' = Limit
    BY <1>1 DEF timeVars, platform, Limit
  <1> QED  BY <1>1, <1>2 DEF Timing, Waited, Waits, NotEarly, Idle, Elapsing, timeVars

LEMMA StutterInvariant ==
  ASSUME TransportInv, UNCHANGED vars
  PROVE  TransportInv'
  <1>1. UNCHANGED <<timeVars, outputVars, call, input>> /\ platform' = platform
    BY Platform DEF vars, timeVars, outputVars
  <1>2. TypeOK' /\ Shape'
    BY <1>1 DEF TransportInv, Bytes, OutputInv, TypeOK, Shape, timeVars, outputVars
  <1>3. Kept' /\ Growing'
    BY <1>1, OutputUntouched DEF TransportInv, Bytes, OutputInv, Standing
  <1>4. InputInv'
    BY <1>1 DEF TransportInv, Bytes, InputInv, Queue, PurgedWhole, Idle
  <1>5. Timing'
    BY <1>1 DEF TransportInv, Timing, Waited, Waits, NotEarly, Elapsing, Idle, Ready, Limit, timeVars
  <1> QED  BY <1>2, <1>3, <1>4, <1>5 DEF TransportInv, Bytes, OutputInv

LEMMA StepInvariant ==
  ASSUME TransportInv, [Next]_vars
  PROVE  TransportInv'
  <1>1. CASE Tick \/ Arrive \/ HangUp
    BY <1>1, WorldStep, ArriveStep, TickTiming, ArrivalTiming DEF TransportInv
  <1> QED  BY <1>1, OutputInvariant, InputInvariant, StutterInvariant DEF Next

----------------------------------------------------------------------------
(* Theorems.                                                               *)

\* What holds at every step, for every size of the buffer, grain of the clocks, timeout
\* below the wrap and place of the counter, over each transport: what the properties
\* below rest on.
THEOREM Invariance == Spec => []TransportInv
  <1>1. Init => TransportInv
    BY InitInv
  <1>2. TransportInv /\ [Next]_vars => TransportInv'
    BY StepInvariant
  <1> QED  BY <1>1, <1>2, PTL DEF Spec

\* Every variable keeps its type; the buffer never holds more than Size.
THEOREM TypeCorrect == Spec => []TypeOK
  <1>1. TransportInv => TypeOK
    BY DEF TransportInv, Bytes
  <1> QED  BY <1>1, Invariance, PTL

\* For every size of the buffer, until a write() fails in the middle, the line, the
\* buffer and the call hold together what was written, once and in order.
THEOREM NothingMisplaced == Spec => []Kept
  <1>1. TransportInv => Kept
    BY DEF TransportInv, Bytes, OutputInv
  <1> QED  BY <1>1, Invariance, PTL

\* Whatever fails, nothing is sent twice or out of order.
THEOREM NothingTwice == Spec => []OnceInOrder
  <1>1. TransportInv => OnceInOrder
    BY DEF TransportInv, Bytes, OutputInv, Growing
  <1> QED  BY <1>1, Invariance, PTL

\* After a flush() or a close that succeeds everything written is on the line.
THEOREM FlushedMeansSent == Spec => []FlushedAll
  <1>1. TransportInv => FlushedAll
    <2> SUFFICES ASSUME TransportInv, call.op \in {"flush", "close"},
                        call.pc \in {"idle", "closed"}, call.result = "ok", ~lost
                 PROVE  Len(line) = given
      BY DEF FlushedAll
    <2>1. out.count = 0 /\ out.offset = 0 /\ call.rest = 0
      BY DEF TransportInv, Bytes, OutputInv, Shape, TypeOK
    <2>2. given = Len(line) - out.offset + out.count + call.rest /\ Len(line) \in Nat
      BY DEF TransportInv, Bytes, OutputInv, Kept, TypeOK
    <2> QED  BY <2>1, <2>2
  <1> QED  BY <1>1, Invariance, PTL

\* For every unit of the clocks, every timeout below the wrap of the counter and
\* wherever the counter stood, no read() gives up before its time ...
THEOREM PatientReads == Spec => []NotEarly
  <1>1. TransportInv => NotEarly
    BY DEF TransportInv, Timing
  <1> QED  BY <1>1, Invariance, PTL

\* ... and none waits longer, however often it is interrupted.
THEOREM TimelyReads == Spec => []NotLate
  <1>1. TransportInv => NotLate
    <2> SUFFICES ASSUME TransportInv, call.op = "read", platform # "rdrpun"
                 PROVE  Elapsing < Limit + (IF platform = "posix" THEN PerMicro ELSE PerMilli)
      BY DEF NotLate, Limit
    <2>1. TypeOK /\ Waited
      BY DEF TransportInv, Bytes, Timing
    <2>2. CASE platform = "posix"
      BY <2>1, <2>2 DEF Waited, Elapsing
    <2>3. CASE platform # "posix"
      <3>1. Grain(now) <= Grain(call.called) + call.timeout
        BY <2>1, <2>3 DEF Waited
      <3>2. now - call.called < call.timeout * PerMilli + PerMilli
        BY <2>1, <3>1, Times, Between
      <3> QED  BY <2>3, <3>2 DEF Elapsing, Limit
    <2> QED  BY <2>2, <2>3
  <1> QED  BY <1>1, Invariance, PTL

\* What a purge leaves arrived after it was called.
THEOREM PurgesAll == Spec => []PurgedWhole
  <1>1. TransportInv => PurgedWhole
    BY DEF TransportInv, Bytes, InputInv
  <1> QED  BY <1>1, Invariance, PTL
=============================================================================
