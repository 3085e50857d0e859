----------------------------- MODULE UartProofs -----------------------------
(***************************************************************************)
(* Proofs about Uart for every size of the ring, every mark, trigger and lag   *)
(* that leave room above the high mark: no byte is lost, doubled or out of       *)
(* order, and with flow control the ring never overruns.                        *)
(***************************************************************************)
EXTENDS Uart, TLAPS, SequenceTheorems, WellFoundedInduction

\* What the transmitter holds, and who put it there.
Transmitter ==
  /\ program \in {"ready", "go"} => Len(tx) <= 1
  /\ pending_flow # "none" => ier_tx /\ xon_flow
  /\ ~xon_flow => ~peer.paused /\ \A i \in 1 .. Len(tx) : tx[i] = "data"

\* No more bytes are unread than the ring and the UART hold.
Numbers ==
  /\ \A i \in 1 .. Len(rx) : rx[i][1] <= peer.sent
  /\ ~error => peer.sent <= read + ring_count(head, tail) + Len(rx)

\* Above the high mark the peer is told to stop.
Marks ==
  ring_count(head, tail) >= RING_HIGH =>
    (xon_flow => Told = "XOFF") /\ (hardware_flow => ~rts)

\* The most that is unread when the peer has stopped.
Room == RING_HIGH - 1 + Trigger + 4 + Lag

\* How many bytes may come until the XOFF stops the peer: its lag once it has read it;
\* before, what is sent ahead of the XOFF, and with it the bytes in the transmitter
\* (and the one uart_write has begun to send) as long as it waits to be sent.
Stops(t, i) == t[i] = "XOFF" /\ \A j \in i + 1 .. Len(t) : t[j] # "XON"

Busy(at) == IF at \in {"flow", "go"} THEN 2 ELSE 1

Bounded(p, t, paused, sent, lag, busy, most) ==
  \/ paused /\ (\A i \in 1 .. Len(t) : t[i] # "XON") /\ sent + lag <= most
  \/ \E i \in 1 .. Len(t) : Stops(t, i) /\ sent + i + Lag <= most
  \/ p = "XOFF" /\ sent + Len(t) + busy + Lag <= most

Stopping ==
  ~error =>
    /\ hardware_flow /\ ~rts => peer.sent + peer.lag <= read + Room
    /\ xon_flow /\ Told = "XOFF" =>
         Bounded(pending_flow, tx, peer.paused, peer.sent, peer.lag, Busy(program),
                 read + Room)

UartInv ==
  /\ TypeOK /\ Contiguous /\ HeldBackOnlyWhenFull
  /\ Transmitter /\ Numbers /\ Marks /\ Stopping

----------------------------------------------------------------------------
(* Induction and remainders.                                               *)

\* Induction on the naturals, for a set: what has the smallest number that is
\* missing from it?
LEMMA SetInduction ==
  ASSUME NEW T, 0 \in T, \A n \in Nat : n \in T => n + 1 \in T
  PROVE  Nat \subseteq T
  <1> DEFINE Rest == Nat \ T
  <1>1. SUFFICES ASSUME Rest # {} PROVE FALSE
    OBVIOUS
  <1>2. PICK x \in Rest : \A y \in Rest : ~(<<y, x>> \in OpToRel(<, Nat))
    <2> HIDE DEF Rest
    <2>1. Rest \subseteq Nat
      BY DEF Rest
    <2> QED
      BY <1>1, <2>1, NatLessThanWellFounded, WFMin
  <1>3. \A y \in Rest : ~(y < x)
    BY <1>2 DEF OpToRel
  <1>4. x \in Nat /\ x # 0 /\ x - 1 \in Nat /\ x - 1 \in T
    BY <1>3
  <1> QED
    BY <1>4

LEMMA Remainder ==
  ASSUME NEW n \in Nat \ {0}, NEW x \in Int
  PROVE  /\ x % n \in 0 .. n - 1
         /\ 0 <= x /\ x < n => x % n = x
         /\ n <= x /\ x < 2 * n => x % n = x - n
         /\ -n <= x /\ x < 0 => x % n = x + n
  <1> DEFINE q == x \div n  r == x % n
  <1>1. q \in Int /\ r \in 0 .. n - 1
    OBVIOUS
  <1>2. q * n \in Int /\ r = x - q * n
    BY <1>1
  <1> HIDE DEF q, r
  <1>3. q >= 1 => q * n >= n
    BY <1>1
  <1>4. q >= 2 => q * n >= 2 * n
    BY <1>1
  <1>5. q <= -1 => q * n <= -n
    BY <1>1
  <1>6. q <= -2 => q * n <= -(2 * n)
    BY <1>1
  <1>7. (q = 0 => q * n = 0) /\ (q = 1 => q * n = n) /\ (q = -1 => q * n = -n)
    BY <1>1
  <1>8. 0 <= x /\ x < n => q = 0
    BY <1>1, <1>2, <1>3, <1>5
  <1>9. n <= x /\ x < 2 * n => q = 1
    BY <1>1, <1>2, <1>4, <1>5, <1>7
  <1>10. -n <= x /\ x < 0 => q = -1
    BY <1>1, <1>2, <1>3, <1>6, <1>7
  <1> QED
    BY <1>1, <1>2, <1>7, <1>8, <1>9, <1>10 DEF q, r

----------------------------------------------------------------------------
(* The ring.                                                               *)

Slot == 0 .. RING_SIZE - 1

LEMMA Counted ==
  ASSUME NEW h \in Slot, NEW t \in Slot
  PROVE  /\ ring_count(h, t) = IF t <= h THEN h - t ELSE h - t + RING_SIZE
         /\ ring_count(h, t) \in Slot
  <1> DEFINE x == h - t
  <1>1. x \in Int /\ -RING_SIZE <= x /\ x < RING_SIZE /\ (0 <= x <=> t <= h)
    BY UartAssumption DEF Slot
  <1>2. RING_SIZE \in Nat \ {0}
    BY UartAssumption
  <1> HIDE DEF x
  <1>3. /\ x % RING_SIZE \in 0 .. RING_SIZE - 1
        /\ 0 <= x => x % RING_SIZE = x
        /\ x < 0 => x % RING_SIZE = x + RING_SIZE
    BY <1>1, <1>2, Remainder
  <1> QED
    BY <1>1, <1>2, <1>3 DEF ring_count, Slot, x

LEMMA Slotted ==
  ASSUME NEW t \in Slot, NEW i \in Slot
  PROVE  /\ (t + i) % RING_SIZE = IF t + i < RING_SIZE THEN t + i ELSE t + i - RING_SIZE
         /\ (t + i) % RING_SIZE \in Slot
  <1> DEFINE x == t + i
  <1>1. x \in Int /\ 0 <= x /\ x < 2 * RING_SIZE
    BY UartAssumption DEF Slot
  <1>2. RING_SIZE \in Nat \ {0}
    BY UartAssumption
  <1> HIDE DEF x
  <1>3. /\ x % RING_SIZE \in 0 .. RING_SIZE - 1
        /\ x < RING_SIZE => x % RING_SIZE = x
        /\ RING_SIZE <= x => x % RING_SIZE = x - RING_SIZE
    BY <1>1, <1>2, Remainder
  <1> QED
    BY <1>1, <1>2, <1>3 DEF Slot, x

\* A byte is stored behind those the ring holds, over none of them, and is one more.
LEMMA StoredBehind ==
  ASSUME NEW h \in Slot, NEW t \in Slot, NEW next, next = (h + 1) % RING_SIZE
  PROVE  /\ next \in Slot
         /\ next = t <=> ring_count(h, t) = RING_SIZE - 1
         /\ next # t => ring_count(next, t) = ring_count(h, t) + 1
         /\ (t + ring_count(h, t)) % RING_SIZE = h
         /\ \A i \in 1 .. ring_count(h, t) : (t + i - 1) % RING_SIZE # h
  <1>1. next \in Slot /\ next = IF h + 1 < RING_SIZE THEN h + 1 ELSE 0
    <2>1. 1 \in Slot
      BY UartAssumption DEF Slot
    <2>2. /\ (h + 1) % RING_SIZE = IF h + 1 < RING_SIZE THEN h + 1 ELSE h + 1 - RING_SIZE
          /\ (h + 1) % RING_SIZE \in Slot
      BY <2>1, Slotted
    <2>3. h + 1 < RING_SIZE \/ h + 1 - RING_SIZE = 0
      BY UartAssumption DEF Slot
    <2> QED
      BY <2>2, <2>3
  <1>2. /\ ring_count(h, t) = IF t <= h THEN h - t ELSE h - t + RING_SIZE
        /\ ring_count(next, t) = IF t <= next THEN next - t ELSE next - t + RING_SIZE
        /\ ring_count(h, t) \in Slot
    BY <1>1, Counted
  <1>3. (t + ring_count(h, t)) % RING_SIZE = h
    <2> DEFINE n == ring_count(h, t)
    <2>1. n \in Slot /\ n = IF t <= h THEN h - t ELSE h - t + RING_SIZE
      BY <1>2
    <2> HIDE DEF n
    <2>2. (t + n) % RING_SIZE = IF t + n < RING_SIZE THEN t + n ELSE t + n - RING_SIZE
      BY <2>1, Slotted
    <2>3. (t + n) % RING_SIZE = h
      BY <2>1, <2>2, UartAssumption DEF Slot
    <2> QED
      BY <2>3 DEF n
  <1>4. ASSUME NEW i \in 1 .. ring_count(h, t) PROVE (t + i - 1) % RING_SIZE # h
    <2>1. i - 1 \in Slot /\ t + (i - 1) = t + i - 1
      BY <1>2, UartAssumption DEF Slot
    <2>2. (t + (i - 1)) % RING_SIZE
            = IF t + (i - 1) < RING_SIZE THEN t + (i - 1) ELSE t + (i - 1) - RING_SIZE
      BY <2>1, Slotted
    <2> QED
      BY <1>2, <2>1, <2>2, UartAssumption DEF Slot
  <1> QED
    BY <1>1, <1>2, <1>3, <1>4, UartAssumption DEF Slot

\* After n bytes were taken the rest follows at the new tail.
LEMMA TakenBefore ==
  ASSUME NEW h \in Slot, NEW t \in Slot, NEW n \in 0 .. ring_count(h, t),
         NEW u, u = (t + n) % RING_SIZE
  PROVE  /\ u \in Slot
         /\ ring_count(h, u) = ring_count(h, t) - n
         /\ \A i \in 1 .. ring_count(h, t) - n :
              (u + i - 1) % RING_SIZE = (t + (n + i) - 1) % RING_SIZE
  <1>1. /\ ring_count(h, t) = IF t <= h THEN h - t ELSE h - t + RING_SIZE
        /\ ring_count(h, t) \in Slot /\ n \in Slot
    BY Counted, UartAssumption DEF Slot
  <1>2. u \in Slot /\ u = IF t + n < RING_SIZE THEN t + n ELSE t + n - RING_SIZE
    BY <1>1, Slotted
  <1>3. ring_count(h, u) = IF u <= h THEN h - u ELSE h - u + RING_SIZE
    BY <1>2, Counted
  <1>4. ring_count(h, u) = ring_count(h, t) - n
    BY <1>1, <1>2, <1>3, UartAssumption DEF Slot
  <1>5. ASSUME NEW i \in 1 .. ring_count(h, t) - n
        PROVE  (u + i - 1) % RING_SIZE = (t + (n + i) - 1) % RING_SIZE
    <2>1. i - 1 \in Slot /\ n + i - 1 \in Slot
      BY <1>1, UartAssumption DEF Slot
    <2>2. (u + (i - 1)) % RING_SIZE
            = IF u + (i - 1) < RING_SIZE THEN u + (i - 1) ELSE u + (i - 1) - RING_SIZE
      BY <1>2, <2>1, Slotted
    <2>3. (t + (n + i - 1)) % RING_SIZE
            = IF t + (n + i - 1) < RING_SIZE THEN t + (n + i - 1)
              ELSE t + (n + i - 1) - RING_SIZE
      BY <2>1, Slotted
    <2>4. u + (i - 1) = u + i - 1 /\ t + (n + i - 1) = t + (n + i) - 1
      BY <1>1, <1>2, <2>1 DEF Slot
    <2> QED
      BY <1>1, <1>2, <2>2, <2>3, <2>4, UartAssumption DEF Slot
  <1> QED
    BY <1>2, <1>4, <1>5

----------------------------------------------------------------------------
(* What the interrupt routine makes of the UART's bytes.                     *)

\* The recursion of received defines a function.
LEMMA ReceivedDef ==
  ASSUME Len(rx) \in Nat
  PROVE  received = [n \in 0 .. Len(rx) |->
                       IF n = 0
                       THEN [ring |-> ring, head |-> head, error |-> error,
                             paused |-> tx_paused]
                       ELSE receive_byte(received[n - 1], rx[n])]
  <1> DEFINE start == [ring |-> ring, head |-> head, error |-> error, paused |-> tx_paused]
             Body(g, n) == IF n = 0 THEN start ELSE receive_byte(g[n - 1], rx[n])
             Has == {m \in Nat : \E g : g = [n \in 0 .. m |-> Body(g, n)]}
  <1> HIDE DEF start
  <1>1. 0 \in Has
    <2> DEFINE g == [n \in 0 .. 0 |-> start]
    <2>1. g = [n \in 0 .. 0 |-> Body(g, n)]
      OBVIOUS
    <2> QED
      BY <2>1
  <1>2. ASSUME NEW m \in Nat, m \in Has PROVE m + 1 \in Has
    <2>1. PICK g : g = [n \in 0 .. m |-> Body(g, n)]
      BY <1>2
    <2> DEFINE last == receive_byte(g[m], rx[m + 1])
               h == [n \in 0 .. m + 1 |-> IF n = m + 1 THEN last ELSE g[n]]
    <2> HIDE DEF last
    <2>2. ASSUME NEW n \in 0 .. m + 1 PROVE h[n] = Body(h, n)
      <3>1. CASE n = m + 1
        <4>1. h[n] = last /\ n # 0 /\ h[n - 1] = g[m]
          BY <3>1
        <4> QED
          BY <3>1, <4>1 DEF last
      <3>2. CASE n # m + 1
        <4>1. h[n] = g[n] /\ n \in 0 .. m /\ (n # 0 => h[n - 1] = g[n - 1])
          BY <3>2
        <4>2. g[n] = Body(g, n)
          BY <2>1, <4>1
        <4> QED
          BY <4>1, <4>2
      <3> QED
        BY <3>1, <3>2
    <2>3. h = [n \in 0 .. m + 1 |-> Body(h, n)]
      <3>1. h = [n \in 0 .. m + 1 |-> h[n]]
        OBVIOUS
      <3> HIDE DEF h
      <3> QED
        BY <2>2, <3>1
    <2>4. \E f : f = [n \in 0 .. m + 1 |-> Body(f, n)]
      BY <2>3
    <2> QED
      BY <2>4
  <1>3. Len(rx) \in Has
    <2> HIDE DEF Has
    <2> QED
      BY <1>1, <1>2, SetInduction
  <1>4. \E g : g = [n \in 0 .. Len(rx) |-> Body(g, n)]
    BY <1>3
  <1> QED
    BY <1>4 DEF received, start

----------------------------------------------------------------------------
(* The transmitter and what it tells the peer.                              *)

Sent == Flow \cup {"data"}

LEMMA TwoAtMost ==
  ASSUME NEW t \in Seq(Sent), Len(t) <= 2
  PROVE  /\ Len(t) = 0 \/ Len(t) = 1 \/ Len(t) = 2
         /\ t # << >> => Len(t) # 0
         /\ Len(t) <= 1 => Len(t) # 2
         /\ \A i \in 1 .. Len(t) : t[i] \in Sent
  <1> DEFINE n == Len(t)
  <1>1. n \in Nat /\ n <= 2 /\ (t # << >> => n # 0) /\ \A i \in 1 .. n : t[i] \in Sent
    BY EmptySeq
  <1> HIDE DEF n
  <1>2. n = 0 \/ n = 1 \/ n = 2
    BY <1>1
  <1>3. n <= 1 => n # 2
    BY <1>1
  <1> QED
    BY <1>1, <1>2, <1>3 DEF n

\* Told, of any contents of the transmitter.
ToldOf(p, t, paused) ==
  IF p # "none" THEN p
  ELSE IF \E i \in 1 .. Len(t) : t[i] \in Flow
       THEN t[CHOOSE i \in 1 .. Len(t) :
                t[i] \in Flow /\ \A j \in i + 1 .. Len(t) : t[j] \notin Flow]
  ELSE IF paused THEN "XOFF" ELSE "XON"

\* The last byte of flow control in the transmitter, which holds two bytes at most.
Says(t, paused) ==
  IF Len(t) = 2 /\ t[2] \in Flow THEN t[2]
  ELSE IF Len(t) > 0 /\ t[1] \in Flow THEN t[1]
  ELSE IF paused THEN "XOFF" ELSE "XON"

LEMMA ToldSays ==
  ASSUME NEW p, NEW t \in Seq(Sent), Len(t) <= 2, NEW paused
  PROVE  /\ ToldOf(p, t, paused) = IF p # "none" THEN p ELSE Says(t, paused)
         /\ Says(t, paused) \in Flow
  <1> DEFINE Last(i) == t[i] \in Flow /\ \A j \in i + 1 .. Len(t) : t[j] \notin Flow
             c == CHOOSE i \in 1 .. Len(t) : Last(i)
  <1>1. Len(t) \in Nat
    OBVIOUS
  <1>2. CASE \E i \in 1 .. Len(t) : t[i] \in Flow
    <2>1. \E i \in 1 .. Len(t) : Last(i)
      <3>1. PICK i \in 1 .. Len(t) : t[i] \in Flow
        BY <1>2
      <3>2. CASE Len(t) = 2 /\ t[2] \in Flow
        <4>1. 2 \in 1 .. Len(t) /\ Last(2)
          BY <3>2
        <4> QED
          BY <4>1
      <3>3. CASE ~(Len(t) = 2 /\ t[2] \in Flow)
        <4>1. CASE Len(t) = 1
          <5>1. i = 1 /\ Last(1)
            BY <3>1, <4>1
          <5> QED
            BY <3>1, <5>1
        <4>2. CASE Len(t) = 2
          <5>1. t[2] \notin Flow /\ i = 1
            BY <3>1, <3>3, <4>2
          <5>2. \A j \in 1 + 1 .. Len(t) : j = 2
            BY <4>2
          <5> QED
            BY <3>1, <5>1, <5>2
        <4>3. Len(t) # 0
          BY <3>1
        <4> QED
          BY <4>1, <4>2, <4>3, TwoAtMost
      <3> QED
        BY <3>2, <3>3
    <2>2. c \in 1 .. Len(t) /\ Last(c)
      BY <2>1
    <2> HIDE DEF c
    <2>3. t[c] = Says(t, paused)
      <3>1. CASE c = 2
        <4>1. Len(t) = 2
          BY <2>2, <3>1, TwoAtMost
        <4> QED
          BY <2>2, <3>1, <4>1 DEF Says
      <3>2. CASE c = 1
        <4>1. Len(t) > 0 /\ (Len(t) = 2 => t[2] \notin Flow)
          BY <1>1, <2>2, <3>2
        <4> QED
          BY <2>2, <3>2, <4>1 DEF Says
      <3> QED
        BY <2>2, <3>1, <3>2, TwoAtMost
    <2>4. Says(t, paused) \in Flow
      BY <2>2, <2>3
    <2>5. p = "none" => ToldOf(p, t, paused) = t[c]
      BY <1>2 DEF ToldOf, c
    <2> QED
      BY <2>3, <2>4, <2>5 DEF ToldOf
  <1>3. CASE ~\E i \in 1 .. Len(t) : t[i] \in Flow
    <2>1. Says(t, paused) = IF paused THEN "XOFF" ELSE "XON"
      BY <1>1, <1>3 DEF Says
    <2> QED
      BY <1>3, <2>1 DEF ToldOf, Flow
  <1> QED
    BY <1>2, <1>3

\* A byte more in the transmitter, and one less.
LEMMA SaysMore ==
  ASSUME NEW t \in Seq(Sent), Len(t) <= 1, NEW b \in Sent, NEW paused
  PROVE  /\ Append(t, b) \in Seq(Sent) /\ Len(Append(t, b)) = Len(t) + 1
         /\ \A i \in 1 .. Len(t) : Append(t, b)[i] = t[i]
         /\ Append(t, b)[Len(t) + 1] = b
         /\ Says(Append(t, b), paused) = IF b \in Flow THEN b ELSE Says(t, paused)
  <1> DEFINE u == Append(t, b)
  <1>1. /\ u \in Seq(Sent) /\ Len(u) = Len(t) + 1
        /\ \A i \in 1 .. Len(t) : u[i] = t[i]
        /\ u[Len(t) + 1] = b
    BY AppendProperties
  <1>2. Len(t) = 0 \/ Len(t) = 1
    <2>1. Len(t) \in Nat /\ Len(t) <= 2
      OBVIOUS
    <2> QED
      BY <2>1, TwoAtMost
  <1> HIDE DEF u
  <1>3. Says(u, paused) = IF b \in Flow THEN b ELSE Says(t, paused)
    BY <1>1, <1>2 DEF Says
  <1> QED
    BY <1>1, <1>3 DEF u

LEMMA SaysLess ==
  ASSUME NEW t \in Seq(Sent), t # << >>, Len(t) <= 2, NEW paused,
         NEW b, b = IF t[1] \in Flow THEN t[1] = "XOFF" ELSE paused
  PROVE  /\ Tail(t) \in Seq(Sent) /\ Len(Tail(t)) = Len(t) - 1
         /\ \A i \in 1 .. Len(t) - 1 : Tail(t)[i] = t[i + 1]
         /\ Says(Tail(t), b) = Says(t, paused)
  <1> DEFINE u == Tail(t)
  <1>1. /\ u \in Seq(Sent) /\ Len(u) = Len(t) - 1
        /\ \A i \in 1 .. Len(t) - 1 : u[i] = t[i + 1]
    OBVIOUS
  <1>2. Len(t) = 1 \/ Len(t) = 2
    BY TwoAtMost
  <1> HIDE DEF u
  <1>3. Says(u, b) = Says(t, paused)
    <2>1. CASE Len(t) = 1
      <3>1. Says(u, b) = IF b THEN "XOFF" ELSE "XON"
        BY <1>1, <2>1 DEF Says
      <3>2. Says(t, paused) = IF t[1] \in Flow THEN t[1]
                             ELSE IF paused THEN "XOFF" ELSE "XON"
        BY <2>1 DEF Says
      <3> QED
        BY <3>1, <3>2 DEF Flow
    <2>2. CASE Len(t) = 2
      <3>1. Says(u, b) = IF t[2] \in Flow THEN t[2] ELSE IF b THEN "XOFF" ELSE "XON"
        BY <1>1, <2>2 DEF Says
      <3>2. Says(t, paused) = IF t[2] \in Flow THEN t[2] ELSE IF t[1] \in Flow THEN t[1]
                             ELSE IF paused THEN "XOFF" ELSE "XON"
        BY <2>2 DEF Says
      <3> QED
        BY <3>1, <3>2 DEF Flow
    <2> QED
      BY <1>2, <2>1, <2>2
  <1> QED
    BY <1>1, <1>3 DEF u

DeviceState ==
  [pending : Flow \cup {"none"}, ier_tx : BOOLEAN, tx : Seq(Sent), rts : BOOLEAN]

LEMMA Scheduled ==
  ASSUME NEW d \in DeviceState, NEW byte \in Flow, NEW e, e = schedule_flow(d, byte)
  PROVE  /\ e \in DeviceState /\ e.rts = d.rts
         /\ ~xon_flow => e = d
         /\ \/ e = d /\ (xon_flow => d.pending = byte)
            \/ /\ d.pending # byte /\ d.tx = << >>
               /\ e.tx = <<byte>> /\ e.pending = "none" /\ e.ier_tx = d.ier_tx
            \/ /\ d.pending # byte /\ d.tx # << >>
               /\ e.tx = d.tx /\ e.pending = byte /\ e.ier_tx
  <1>1. CASE ~xon_flow \/ d.pending = byte
    BY <1>1 DEF schedule_flow
  <1>2. CASE xon_flow /\ d.pending # byte /\ d.tx = << >>
    <2>1. <<byte>> \in Seq(Sent)
      BY DEF Sent
    <2> QED
      BY <1>2, <2>1 DEF schedule_flow, DeviceState
  <1>3. CASE xon_flow /\ d.pending # byte /\ d.tx # << >>
    BY <1>3 DEF schedule_flow, DeviceState
  <1> QED
    BY <1>1, <1>2, <1>3

\* How an XOFF that waits is bounded at first.
LEMMA BoundedAtFirst ==
  ASSUME NEW t \in Seq(Sent), Len(t) <= 2, NEW paused, NEW lag, NEW busy \in {1, 2},
         NEW sent \in Nat, NEW most \in Nat, sent + 4 + Lag <= most
  PROVE  Bounded("XOFF", t, paused, sent, lag, busy, most)
  <1> DEFINE n == Len(t)
  <1>1. n \in Nat /\ n <= 2
    OBVIOUS
  <1> HIDE DEF n
  <1>2. sent + n + busy + Lag <= most
    BY <1>1, UartAssumption
  <1> QED
    BY <1>2 DEF Bounded, n

\* What the high and the low mark make of the device.
LEMMA Updated ==
  ASSUME NEW d \in DeviceState, NEW count \in Nat, Len(d.tx) <= 2, NEW paused \in BOOLEAN,
         d.pending # "none" => d.ier_tx /\ xon_flow,
         NEW e, e = update_receive_flow(d, count)
  PROVE  /\ e \in DeviceState /\ Len(e.tx) <= 2 /\ (Len(d.tx) <= 1 => Len(e.tx) <= 1)
         /\ e.pending # "none" => e.ier_tx /\ xon_flow
         /\ ~xon_flow => e.tx = d.tx
         /\ count >= RING_HIGH =>
              /\ xon_flow => ToldOf(e.pending, e.tx, paused) = "XOFF"
              /\ hardware_flow => ~e.rts
         /\ count <= RING_LOW =>
              /\ xon_flow => ToldOf(e.pending, e.tx, paused) = "XON"
              /\ hardware_flow => e.rts
         /\ count > RING_LOW /\ count < RING_HIGH => e = d
  <1> DEFINE x == schedule_flow(d, "XOFF")
             y == schedule_flow(d, "XON")
  <1>0. "XOFF" \in Flow /\ "XON" \in Flow /\ count \in Nat /\ RING_LOW < RING_HIGH
        /\ RING_LOW \in Nat /\ RING_HIGH \in Nat
    BY UartAssumption DEF Flow
  <1>1. /\ x \in DeviceState /\ x.rts = d.rts
        /\ ~xon_flow => x = d
        /\ \/ x = d /\ (xon_flow => d.pending = "XOFF")
           \/ /\ d.pending # "XOFF" /\ d.tx = << >>
              /\ x.tx = <<"XOFF">> /\ x.pending = "none" /\ x.ier_tx = d.ier_tx
           \/ /\ d.pending # "XOFF" /\ d.tx # << >>
              /\ x.tx = d.tx /\ x.pending = "XOFF" /\ x.ier_tx
    BY <1>0, Scheduled
  <1>2. /\ y \in DeviceState /\ y.rts = d.rts
        /\ ~xon_flow => y = d
        /\ \/ y = d /\ (xon_flow => d.pending = "XON")
           \/ /\ d.pending # "XON" /\ d.tx = << >>
              /\ y.tx = <<"XON">> /\ y.pending = "none" /\ y.ier_tx = d.ier_tx
           \/ /\ d.pending # "XON" /\ d.tx # << >>
              /\ y.tx = d.tx /\ y.pending = "XON" /\ y.ier_tx
    BY <1>0, Scheduled
  <1> HIDE DEF x, y
  <1>3. d.tx \in Seq(Sent) /\ Len(d.tx) \in Nat
    BY DEF DeviceState
  <1>4. CASE count >= RING_HIGH
    <2>1. e = [x EXCEPT !.rts = x.rts /\ ~hardware_flow] /\ ~(count <= RING_LOW)
      BY <1>0, <1>4 DEF update_receive_flow, x
    <2>2. /\ e \in DeviceState /\ e.tx = x.tx /\ e.pending = x.pending
          /\ e.ier_tx = x.ier_tx /\ (hardware_flow => ~e.rts)
      BY <1>1, <2>1 DEF DeviceState
    <2>3. /\ Len(e.tx) <= 2 /\ (Len(d.tx) <= 1 => Len(e.tx) <= 1)
          /\ e.pending # "none" => e.ier_tx /\ xon_flow
          /\ ~xon_flow => e.tx = d.tx
      <3>1. CASE x = d
        BY <2>2, <3>1
      <3>2. CASE x.tx = d.tx /\ xon_flow /\ x.ier_tx
        BY <2>2, <3>2
      <3>3. CASE x.tx = <<"XOFF">> /\ xon_flow /\ x.pending = "none"
        <4>1. Len(<<"XOFF">>) = 1
          OBVIOUS
        <4> QED
          BY <2>2, <3>3, <4>1
      <3> QED
        BY <1>1, <3>1, <3>2, <3>3
    <2>4. ASSUME xon_flow PROVE ToldOf(e.pending, e.tx, paused) = "XOFF"
      <3>1. e.pending = "XOFF" \/ (e.pending = "none" /\ e.tx = <<"XOFF">>)
        BY <1>1, <2>2, <2>4
      <3>2. e.tx \in Seq(Sent)
        BY <2>2 DEF DeviceState
      <3>3. Says(<<"XOFF">>, paused) = "XOFF"
        BY <1>0 DEF Says
      <3> QED
        BY <2>3, <3>1, <3>2, <3>3, ToldSays
    <2> QED
      BY <1>0, <1>4, <2>1, <2>2, <2>3, <2>4
  <1>5. CASE count <= RING_LOW
    <2>1. e = [y EXCEPT !.rts = y.rts \/ hardware_flow] /\ ~(count >= RING_HIGH)
      BY <1>0, <1>5 DEF update_receive_flow, y
    <2>2. /\ e \in DeviceState /\ e.tx = y.tx /\ e.pending = y.pending
          /\ e.ier_tx = y.ier_tx /\ (hardware_flow => e.rts)
      BY <1>2, <2>1 DEF DeviceState
    <2>3. /\ Len(e.tx) <= 2 /\ (Len(d.tx) <= 1 => Len(e.tx) <= 1)
          /\ e.pending # "none" => e.ier_tx /\ xon_flow
          /\ ~xon_flow => e.tx = d.tx
      <3>1. CASE y = d
        BY <2>2, <3>1
      <3>2. CASE y.tx = d.tx /\ xon_flow /\ y.ier_tx
        BY <2>2, <3>2
      <3>3. CASE y.tx = <<"XON">> /\ xon_flow /\ y.pending = "none"
        <4>1. Len(<<"XON">>) = 1
          OBVIOUS
        <4> QED
          BY <2>2, <3>3, <4>1
      <3> QED
        BY <1>2, <3>1, <3>2, <3>3
    <2>4. ASSUME xon_flow PROVE ToldOf(e.pending, e.tx, paused) = "XON"
      <3>1. e.pending = "XON" \/ (e.pending = "none" /\ e.tx = <<"XON">>)
        BY <1>2, <2>2, <2>4
      <3>2. e.tx \in Seq(Sent)
        BY <2>2 DEF DeviceState
      <3>3. Says(<<"XON">>, paused) = "XON"
        BY <1>0 DEF Says
      <3> QED
        BY <2>3, <3>1, <3>2, <3>3, ToldSays
    <2> QED
      BY <1>0, <1>5, <2>1, <2>2, <2>3, <2>4
  <1>6. CASE count > RING_LOW /\ count < RING_HIGH
    <2>1. e = d /\ ~(count >= RING_HIGH) /\ ~(count <= RING_LOW)
      BY <1>0, <1>6 DEF update_receive_flow
    <2> QED
      BY <2>1
  <1> QED
    BY <1>0, <1>4, <1>5, <1>6

LEMMA UpdatedDevice ==
  ASSUME NEW d \in DeviceState, NEW count \in Nat, Len(d.tx) <= 2,
         d.pending # "none" => d.ier_tx /\ xon_flow,
         NEW e, e = update_receive_flow(d, count)
  PROVE  /\ e \in DeviceState /\ Len(e.tx) <= 2 /\ (Len(d.tx) <= 1 => Len(e.tx) <= 1)
         /\ e.pending # "none" => e.ier_tx /\ xon_flow
         /\ ~xon_flow => e.tx = d.tx
  <1>1. TRUE \in BOOLEAN
    OBVIOUS
  <1> QED
    BY <1>1, Updated

\* An XOFF that is told again comes no later, and one that is told first in time.
LEMMA UpdatedBound ==
  ASSUME NEW d \in DeviceState, NEW count \in Nat, Len(d.tx) <= 2, NEW paused \in BOOLEAN,
         count >= RING_HIGH, xon_flow, NEW sent \in Nat, NEW most \in Nat, NEW lag \in Nat,
         NEW busy \in {1, 2}, NEW e, e = update_receive_flow(d, count)
  PROVE  /\ Bounded(d.pending, d.tx, paused, sent, lag, busy, most) =>
              Bounded(e.pending, e.tx, paused, sent, lag, busy, most)
         /\ sent + 4 + Lag <= most =>
              Bounded(e.pending, e.tx, paused, sent, lag, busy, most)
  <1> DEFINE x == schedule_flow(d, "XOFF")
  <1>1. "XOFF" \in Flow /\ x \in DeviceState
    BY Scheduled DEF Flow
  <1>2. \/ x = d /\ d.pending = "XOFF"
        \/ d.pending # "XOFF" /\ d.tx = << >> /\ x.tx = <<"XOFF">>
        \/ d.pending # "XOFF" /\ x.tx = d.tx /\ x.pending = "XOFF"
    BY <1>1, Scheduled
  <1>3. e.tx = x.tx /\ e.pending = x.pending
    <2> HIDE DEF x
    <2>1. e = [x EXCEPT !.rts = x.rts /\ ~hardware_flow]
      <3>1. ~(count <= RING_LOW)
        BY UartAssumption
      <3> QED
        BY <3>1 DEF update_receive_flow, x
    <2> QED
      BY <1>1, <2>1 DEF DeviceState
  <1>4. d.tx \in Seq(Sent)
    BY DEF DeviceState
  <1> HIDE DEF x
  <1>5. CASE x = d /\ d.pending = "XOFF"
    BY <1>3, <1>4, <1>5, BoundedAtFirst
  <1>6. CASE d.pending # "XOFF" /\ d.tx = << >> /\ x.tx = <<"XOFF">>
    <2>1. e.tx = <<"XOFF">>
      BY <1>3, <1>6
    <2>2. sent + 4 + Lag <= most => sent + 1 + Lag <= most
      BY UartAssumption
    <2>3. Stops(<<"XOFF">>, 1) /\ 1 \in 1 .. Len(<<"XOFF">>)
      BY DEF Stops
    <2>4. sent + 4 + Lag <= most => Bounded(e.pending, e.tx, paused, sent, lag, busy, most)
      BY <2>1, <2>2, <2>3 DEF Bounded
    <2>5. \A i \in 1 .. Len(e.tx) : e.tx[i] # "XON"
      BY <2>1
    <2>6. ASSUME Bounded(d.pending, d.tx, paused, sent, lag, busy, most)
          PROVE  paused /\ sent + lag <= most
      <3>1. ~\E i \in 1 .. Len(d.tx) : Stops(d.tx, i)
        BY <1>6
      <3> QED
        BY <1>6, <2>6, <3>1 DEF Bounded
    <2> QED
      BY <2>4, <2>5, <2>6 DEF Bounded
  <1>7. CASE d.pending # "XOFF" /\ x.tx = d.tx /\ x.pending = "XOFF"
    <2>1. e.tx = d.tx /\ e.pending = "XOFF"
      BY <1>3, <1>7
    <2>2. Bounded(d.pending, d.tx, paused, sent, lag, busy, most) =>
            Bounded(e.pending, e.tx, paused, sent, lag, busy, most)
      BY <1>7, <2>1 DEF Bounded
    <2> QED
      BY <1>4, <2>1, <2>2, BoundedAtFirst
  <1> QED
    BY <1>2, <1>5, <1>6, <1>7

\* The program adds a byte of data, or the XOFF that waited.
LEMMA BoundedByData ==
  ASSUME NEW p, NEW t \in Seq(Sent), Len(t) <= 1, NEW paused, NEW sent \in Nat,
         NEW lag \in Nat, NEW most \in Nat, NEW busy \in Nat, NEW after \in Nat,
         p = "XOFF" => after + 1 <= busy,
         Bounded(p, t, paused, sent, lag, busy, most)
  PROVE  Bounded(p, Append(t, "data"), paused, sent, lag, after, most)
  <1> DEFINE u == Append(t, "data")  n == Len(t)
  <1>1. /\ Len(u) = n + 1 /\ u[n + 1] = "data" /\ n \in Nat
        /\ \A i \in 1 .. n : u[i] = t[i]
    BY SaysMore DEF Sent
  <1> HIDE DEF u, n
  <1>2. CASE paused /\ (\A i \in 1 .. Len(t) : t[i] # "XON") /\ sent + lag <= most
    <2>1. \A i \in 1 .. n + 1 : u[i] # "XON"
      BY <1>1, <1>2 DEF n
    <2> QED
      BY <1>1, <1>2, <2>1 DEF Bounded, u
  <1>3. CASE \E i \in 1 .. Len(t) : Stops(t, i) /\ sent + i + Lag <= most
    <2>1. PICK i \in 1 .. n : Stops(t, i) /\ sent + i + Lag <= most
      BY <1>3 DEF n
    <2>2. \A j \in i + 1 .. n + 1 : u[j] # "XON"
      BY <1>1, <2>1 DEF Stops, n
    <2>3. Stops(u, i) /\ i \in 1 .. n + 1
      BY <1>1, <2>1, <2>2 DEF Stops
    <2> QED
      BY <1>1, <2>1, <2>3 DEF Bounded, u
  <1>4. CASE p = "XOFF" /\ sent + Len(t) + busy + Lag <= most
    <2>1. sent + n + busy + Lag <= most
      BY <1>4 DEF n
    <2>2. sent + (n + 1) + after + Lag <= most
      BY <1>1, <1>4, <2>1, UartAssumption
    <2> QED
      BY <1>1, <1>4, <2>2 DEF Bounded, u
  <1> QED
    BY <1>2, <1>3, <1>4 DEF Bounded

LEMMA BoundedBySending ==
  ASSUME NEW t \in Seq(Sent), Len(t) <= 1, NEW paused, NEW sent \in Nat,
         NEW lag \in Nat, NEW most \in Nat, NEW busy \in Nat \ {0}, NEW after, NEW p,
         Bounded("XOFF", t, paused, sent, lag, busy, most)
  PROVE  Bounded(p, Append(t, "XOFF"), paused, sent, lag, after, most)
  <1> DEFINE u == Append(t, "XOFF")  n == Len(t)
  <1>1. /\ Len(u) = n + 1 /\ u[n + 1] = "XOFF" /\ n \in Nat
        /\ \A i \in 1 .. n : u[i] = t[i]
    BY SaysMore DEF Sent, Flow
  <1> HIDE DEF u, n
  <1>2. CASE paused /\ (\A i \in 1 .. Len(t) : t[i] # "XON") /\ sent + lag <= most
    <2>1. \A i \in 1 .. n + 1 : u[i] # "XON"
      BY <1>1, <1>2 DEF n
    <2> QED
      BY <1>1, <1>2, <2>1 DEF Bounded, u
  <1>3. CASE \E i \in 1 .. Len(t) : Stops(t, i) /\ sent + i + Lag <= most
    <2>1. PICK i \in 1 .. n : Stops(t, i) /\ sent + i + Lag <= most
      BY <1>3 DEF n
    <2>2. \A j \in i + 1 .. n + 1 : u[j] # "XON"
      BY <1>1, <2>1 DEF Stops, n
    <2>3. Stops(u, i) /\ i \in 1 .. n + 1
      BY <1>1, <2>1, <2>2 DEF Stops
    <2> QED
      BY <1>1, <2>1, <2>3 DEF Bounded, u
  <1>4. CASE sent + Len(t) + busy + Lag <= most
    <2>1. sent + n + busy + Lag <= most
      BY <1>4 DEF n
    <2>2. sent + (n + 1) + Lag <= most /\ n + 1 \in 1 .. n + 1
      BY <1>1, <2>1, UartAssumption
    <2>3. Stops(u, n + 1)
      BY <1>1 DEF Stops
    <2> QED
      BY <1>1, <2>2, <2>3 DEF Bounded, u
  <1> QED
    BY <1>2, <1>3, <1>4 DEF Bounded

\* In the time of a byte the XOFF comes nearer, and once it is read the lag runs out.
LEMMA BoundedLater ==
  ASSUME NEW p, NEW t \in Seq(Sent), NEW paused, NEW sent \in Nat, NEW lag \in Nat,
         NEW busy \in Nat, NEW most \in Nat, NEW u, NEW stopped, NEW later \in Nat,
         NEW left \in 0 .. Lag,
         Len(t) <= 2, p = "XOFF" => t # << >>,
         Bounded(p, t, paused, sent, lag, busy, most),
         u = IF t = << >> THEN t ELSE Tail(t),
         t # << >> /\ t[1] = "XOFF" => stopped,
         paused /\ (\A i \in 1 .. Len(t) : t[i] # "XON") => stopped,
         later \in {sent, sent + 1}, paused => later + left <= sent + lag
  PROVE  Bounded(p, u, stopped, later, left, busy, most)
  <1> DEFINE n == Len(t)
  <1>1. n \in Nat /\ (t # << >> => n # 0) /\ \A i \in 1 .. n : t[i] \in Sent
    BY TwoAtMost
  <1>2. /\ t = << >> => Len(u) = 0
        /\ t # << >> => Len(u) = n - 1 /\ \A i \in 1 .. n - 1 : u[i] = t[i + 1]
    BY <1>1
  <1> HIDE DEF n
  <1>3. /\ Len(u) \in Nat /\ Len(u) <= n
        /\ \A i \in 1 .. Len(u) : i + 1 \in 1 .. n /\ u[i] = t[i + 1]
    <2>1. CASE t = << >>
      <3>1. \A i \in 1 .. Len(u) : FALSE
        BY <1>2, <2>1
      <3> QED
        BY <1>1, <1>2, <2>1, <3>1
    <2>2. CASE t # << >>
      <3> DEFINE m == Len(u)
      <3>1. m = n - 1 /\ n \in Nat /\ n # 0 /\ \A i \in 1 .. n - 1 : u[i] = t[i + 1]
        BY <1>1, <1>2, <2>2
      <3> HIDE DEF m
      <3>2. m \in Nat /\ m <= n
        BY <3>1
      <3>3. ASSUME NEW i \in 1 .. m PROVE i + 1 \in 1 .. n /\ u[i] = t[i + 1]
        <4>1. i \in 1 .. n - 1 /\ i + 1 \in 1 .. n
          BY <3>1
        <4> QED
          BY <3>1, <4>1
      <3> QED
        BY <3>2, <3>3 DEF m
    <2> QED
      BY <2>1, <2>2
  <1>4. CASE paused /\ (\A i \in 1 .. Len(t) : t[i] # "XON") /\ sent + lag <= most
    <2>1. \A i \in 1 .. Len(u) : u[i] # "XON"
      BY <1>3, <1>4 DEF n
    <2>2. stopped
      BY <1>4
    <2>3. later + left <= most
      BY <1>4, UartAssumption
    <2> QED
      BY <2>1, <2>2, <2>3 DEF Bounded
  <1>5. CASE \E i \in 1 .. Len(t) : Stops(t, i) /\ sent + i + Lag <= most
    <2>1. PICK i \in 1 .. n : Stops(t, i) /\ sent + i + Lag <= most
      BY <1>5 DEF n
    <2>2. t # << >> /\ Len(u) = n - 1
      BY <1>1, <1>2, <2>1 DEF n
    <2>3. CASE i = 1
      <3>1. stopped
        BY <2>1, <2>2, <2>3 DEF Stops, Flow
      <3>2. \A j \in 1 .. Len(u) : u[j] # "XON"
        <4> TAKE j \in 1 .. Len(u)
        <4>1. j + 1 \in i + 1 .. n
          BY <1>1, <2>2, <2>3
        <4> QED
          BY <1>3, <2>1, <4>1 DEF Stops, n
      <3>3. later + left <= most
        BY <2>1, <2>3, UartAssumption
      <3> QED
        BY <3>1, <3>2, <3>3 DEF Bounded
    <2>4. CASE i # 1
      <3>1. i - 1 \in 1 .. Len(u) /\ u[i - 1] = "XOFF"
        BY <1>1, <1>3, <2>1, <2>2, <2>4 DEF Stops
      <3>2. \A j \in (i - 1) + 1 .. Len(u) : u[j] # "XON"
        <4> TAKE j \in (i - 1) + 1 .. Len(u)
        <4>1. j + 1 \in i + 1 .. n /\ j \in 1 .. Len(u)
          BY <1>1, <2>1, <2>2, <2>4
        <4> QED
          BY <1>3, <2>1, <4>1 DEF Stops, n
      <3>3. later + (i - 1) + Lag <= most
        BY <2>1, UartAssumption
      <3> QED
        BY <3>1, <3>2, <3>3 DEF Bounded, Stops
    <2> QED
      BY <2>3, <2>4
  <1>6. CASE p = "XOFF" /\ sent + Len(t) + busy + Lag <= most
    <2>1. Len(u) = n - 1 /\ sent + n + busy + Lag <= most
      BY <1>2, <1>6 DEF n
    <2>2. later + (n - 1) + busy + Lag <= most
      BY <1>1, <2>1, UartAssumption
    <2> QED
      BY <1>6, <2>1, <2>2 DEF Bounded
  <1> QED
    BY <1>4, <1>5, <1>6 DEF Bounded

----------------------------------------------------------------------------
(* The interrupt routine, byte by byte.                                     *)

\* After n bytes: the error is set or there was room for all of them, and the ring holds
\* what the program has not read, up to the n-th byte.
Good(n) ==
  LET q == received[n]
  IN  /\ q \in [ring : [Slot -> Byte], head : Slot, error : BOOLEAN, paused : BOOLEAN]
      /\ error => q.error
      /\ ~q.error =>
           /\ read + ring_count(q.head, tail) = Number(n)
           /\ \A i \in 1 .. ring_count(q.head, tail) :
                q.ring[(tail + i - 1) % RING_SIZE] = read + i
      /\ ~error /\ peer.sent < read + RING_SIZE => ~q.error

LEMMA ReceivedGood ==
  ASSUME TypeOK, Contiguous, Numbers, NEW k \in 0 .. Len(rx)
  PROVE  Good(k)
  <1>1. /\ Len(rx) \in Nat /\ rx \in Seq(Byte \X Sent)
        /\ ring \in [Slot -> Byte] /\ head \in Slot /\ tail \in Slot
        /\ error \in BOOLEAN /\ tx_paused \in BOOLEAN
        /\ read \in Nat /\ peer.sent \in Nat
    BY UartAssumption, SMTT(60) DEF TypeOK, Slot, Byte, Sent
  <1>2. \A n \in 0 .. Len(rx) :
          received[n] = IF n = 0
                        THEN [ring |-> ring, head |-> head, error |-> error,
                              paused |-> tx_paused]
                        ELSE receive_byte(received[n - 1], rx[n])
    <2> DEFINE Body(n) == IF n = 0
                          THEN [ring |-> ring, head |-> head, error |-> error,
                                paused |-> tx_paused]
                          ELSE receive_byte(received[n - 1], rx[n])
    <2>1. received = [n \in 0 .. Len(rx) |-> Body(n)]
      BY <1>1, ReceivedDef
    <2> HIDE DEF Body
    <2>2. \A n \in 0 .. Len(rx) : received[n] = Body(n)
      BY <2>1
    <2> QED
      BY <2>2 DEF Body
  <1> DEFINE T == {n \in Nat : n <= Len(rx) => Good(n)}
  <1>3. 0 \in T
    <2>1. received[0] = [ring |-> ring, head |-> head, error |-> error, paused |-> tx_paused]
      BY <1>1, <1>2
    <2> QED
      BY <1>1, <2>1 DEF Good, Number, Contiguous
  <1>4. ASSUME NEW n \in Nat, n \in T PROVE n + 1 \in T
    <2> SUFFICES ASSUME n + 1 <= Len(rx) PROVE Good(n + 1)
      OBVIOUS
    <2> DEFINE q == received[n]  b == rx[n + 1]  z == received[n + 1]
               next == (q.head + 1) % RING_SIZE
               count == ring_count(q.head, tail)
    <2>1. Good(n) /\ n \in 0 .. Len(rx) /\ n + 1 \in 1 .. Len(rx) /\ n + 1 # 0
      BY <1>1, <1>4
    <2>2. z = receive_byte(q, b)
      <3>1. n + 1 \in 0 .. Len(rx) /\ (n + 1) - 1 = n
        BY <2>1
      <3> QED
        BY <1>2, <2>1, <3>1
    <2>3. b \in Byte \X Sent /\ b[1] \in Byte /\ b[2] \in Sent
      BY <1>1, <2>1
    <2>4. /\ q \in [ring : [Slot -> Byte], head : Slot, error : BOOLEAN, paused : BOOLEAN]
          /\ error => q.error
          /\ ~q.error => /\ read + count = Number(n)
                        /\ \A i \in 1 .. count : q.ring[(tail + i - 1) % RING_SIZE] = read + i
          /\ ~error /\ peer.sent < read + RING_SIZE => ~q.error
      BY <2>1 DEF Good
    <2>5. /\ next \in Slot
          /\ next = tail <=> count = RING_SIZE - 1
          /\ next # tail => ring_count(next, tail) = count + 1
          /\ (tail + count) % RING_SIZE = q.head
          /\ \A i \in 1 .. count : (tail + i - 1) % RING_SIZE # q.head
      BY <1>1, <2>4, StoredBehind
    <2>6. ~error => /\ Number(n + 1) = IF b[2] = "data" THEN Number(n) + 1 ELSE Number(n)
                   /\ Number(n + 1) = b[1] /\ Number(n + 1) <= peer.sent
      <3>1. (n + 1) - 1 = n /\ Number(n + 1) = b[1]
        BY <2>1 DEF Number
      <3>2. ~error => Number(n + 1) = IF b[2] = "data" THEN Number((n + 1) - 1) + 1
                                     ELSE Number((n + 1) - 1)
        BY <2>1 DEF Contiguous
      <3>3. b[1] <= peer.sent
        BY <2>1 DEF Numbers
      <3> QED
        BY <3>1, <3>2, <3>3
    <2>7. count \in Nat /\ RING_SIZE \in Nat
      <3>1. q.head \in Slot
        BY <2>4
      <3>2. count \in Slot
        BY <1>1, <3>1, Counted
      <3> HIDE DEF count
      <3> QED
        BY <3>2, UartAssumption DEF Slot
    <2> HIDE DEF q, b, z, next, count
    <2>8. CASE b[2] \in Flow
      <3>1. z = [q EXCEPT !.paused = b[2] = "XOFF"]
        BY <2>2, <2>8 DEF receive_byte, Flow
      <3>2. /\ z \in [ring : [Slot -> Byte], head : Slot, error : BOOLEAN, paused : BOOLEAN]
            /\ z.ring = q.ring /\ z.head = q.head /\ z.error = q.error
        BY <2>4, <3>1
      <3>3. ~error => Number(n + 1) = Number(n)
        BY <2>6, <2>8 DEF Flow
      <3> QED
        BY <2>4, <3>2, <3>3 DEF Good, z, count
    <2>9. CASE b[2] = "data" /\ next = tail
      <3>1. z = [q EXCEPT !.error = TRUE]
        BY <2>2, <2>9 DEF receive_byte, Flow, next
      <3>2. /\ z \in [ring : [Slot -> Byte], head : Slot, error : BOOLEAN, paused : BOOLEAN]
            /\ z.error
        BY <2>4, <3>1
      <3>3. ~(~error /\ peer.sent < read + RING_SIZE)
        <4> SUFFICES ASSUME ~error, peer.sent < read + RING_SIZE PROVE FALSE
          OBVIOUS
        <4>1. read + (RING_SIZE - 1) + 1 = Number(n + 1)
          BY <2>4, <2>5, <2>6, <2>9
        <4>2. Number(n + 1) = read + RING_SIZE
          BY <1>1, <2>7, <4>1
        <4> QED
          BY <1>1, <2>6, <2>7, <4>2
      <3> QED
        BY <3>2, <3>3 DEF Good, z
    <2>10. CASE b[2] = "data" /\ next # tail
      <3>1. z = [q EXCEPT !.ring[q.head] = b[1], !.head = next]
        BY <2>2, <2>10 DEF receive_byte, Flow, next
      <3>2. /\ z \in [ring : [Slot -> Byte], head : Slot, error : BOOLEAN, paused : BOOLEAN]
            /\ z.ring = [q.ring EXCEPT ![q.head] = b[1]]
            /\ z.head = next /\ z.error = q.error
        BY <2>3, <2>4, <2>5, <3>1
      <3>3. ring_count(z.head, tail) = count + 1
        BY <2>5, <2>10, <3>2
      <3>4. ASSUME ~q.error
            PROVE  /\ read + (count + 1) = Number(n + 1)
                   /\ \A i \in 1 .. count + 1 : z.ring[(tail + i - 1) % RING_SIZE] = read + i
        <4>1. read + count = Number(n) /\ Number(n + 1) = Number(n) + 1 /\ Number(n + 1) = b[1]
          BY <2>4, <2>6, <2>10, <3>4
        <4>2. read + (count + 1) = Number(n + 1)
          BY <1>1, <2>7, <4>1
        <4>3. ASSUME NEW i \in 1 .. count + 1
              PROVE  z.ring[(tail + i - 1) % RING_SIZE] = read + i
          <5>1. CASE i = count + 1
            <6>1. tail + i - 1 = tail + count
              BY <1>1, <2>7, <5>1 DEF Slot
            <6>2. (tail + i - 1) % RING_SIZE = q.head
              BY <2>5, <6>1
            <6> QED
              BY <2>4, <3>2, <4>1, <4>2, <5>1, <6>2
          <5>2. CASE i \in 1 .. count
            <6> DEFINE j == (tail + i - 1) % RING_SIZE
            <6>1. j # q.head /\ q.ring[j] = read + i
              BY <2>4, <2>5, <3>4, <5>2
            <6>2. j \in Slot
              <7>1. i - 1 \in Slot /\ tail + i - 1 = tail + (i - 1)
                <8>1. count \in Slot
                  BY <1>1, <2>4, Counted DEF count
                <8> QED
                  BY <1>1, <5>2, <8>1, UartAssumption DEF Slot
              <7>2. (tail + (i - 1)) % RING_SIZE \in Slot
                BY <1>1, <7>1, Slotted
              <7> QED
                BY <7>1, <7>2
            <6> HIDE DEF j
            <6>3. z.ring[j] = q.ring[j]
              BY <2>4, <3>2, <6>1, <6>2
            <6> QED
              BY <6>1, <6>3 DEF j
          <5> QED
            BY <2>7, <5>1, <5>2
        <4> QED
          BY <4>2, <4>3
      <3> QED
        BY <2>4, <3>2, <3>3, <3>4 DEF Good, z
    <2> QED
      BY <2>3, <2>8, <2>9, <2>10 DEF Sent
  <1>5. k \in T
    <2> HIDE DEF T
    <2> QED
      BY <1>1, <1>3, <1>4, SetInduction
  <1> QED
    BY <1>1, <1>5

----------------------------------------------------------------------------
(* The invariant.                                                          *)

LEMMA ToldIs ==
  /\ Told = ToldOf(pending_flow, tx, peer.paused)
  /\ Told' = ToldOf(pending_flow', tx', peer'.paused)
  BY DEF Told, ToldOf

\* What the constants and the variables are, without the modules' names for it.
LEMMA Types ==
  TypeOK => /\ head \in Slot /\ tail \in Slot /\ ring_count(head, tail) \in Nat
            /\ ring_count(head, tail) \in Slot
            /\ Len(rx) \in Nat /\ Len(rx) <= Trigger /\ rx \in Seq(Byte \X Sent)
            /\ tx \in Seq(Sent) /\ Len(tx) <= 2 /\ Len(tx) \in Nat
            /\ read \in Nat /\ peer.sent \in Nat /\ peer.lag \in 0 .. Lag
            /\ peer.paused \in BOOLEAN /\ Room \in Nat /\ read + Room \in Nat
            /\ Busy(program) \in {1, 2} /\ Device \in DeviceState
  <1> SUFFICES ASSUME TypeOK PROVE
            /\ head \in Slot /\ tail \in Slot /\ ring_count(head, tail) \in Nat
            /\ ring_count(head, tail) \in Slot
            /\ Len(rx) \in Nat /\ Len(rx) <= Trigger /\ rx \in Seq(Byte \X Sent)
            /\ tx \in Seq(Sent) /\ Len(tx) <= 2 /\ Len(tx) \in Nat
            /\ read \in Nat /\ peer.sent \in Nat /\ peer.lag \in 0 .. Lag
            /\ peer.paused \in BOOLEAN /\ Room \in Nat /\ read + Room \in Nat
            /\ Busy(program) \in {1, 2} /\ Device \in DeviceState
    OBVIOUS
  <1>1. head \in Slot /\ tail \in Slot
    BY DEF TypeOK, Slot
  <1>2. ring_count(head, tail) \in Nat /\ ring_count(head, tail) \in Slot
    BY <1>1, Counted DEF Slot
  <1>3. Len(rx) \in Nat /\ Len(rx) <= Trigger /\ rx \in Seq(Byte \X Sent)
    BY DEF TypeOK, Sent
  <1>4. tx \in Seq(Sent) /\ Len(tx) <= 2 /\ Len(tx) \in Nat
    BY DEF TypeOK, Sent
  <1>5. /\ read \in Nat /\ peer.sent \in Nat /\ peer.lag \in 0 .. Lag
        /\ peer.paused \in BOOLEAN
    BY DEF TypeOK, Byte
  <1>6. Room \in Nat /\ Busy(program) \in {1, 2}
    BY UartAssumption DEF Room, Busy
  <1>7. Device \in DeviceState
    BY <1>4 DEF TypeOK, Device, DeviceState
  <1> QED
    BY <1>1, <1>2, <1>3, <1>4, <1>5, <1>6, <1>7

LEMMA BoundedMeans ==
  ASSUME NEW p, NEW t \in Seq(Sent), NEW paused, NEW sent \in Nat, NEW lag \in Nat,
         NEW busy \in Nat, NEW most \in Nat, Bounded(p, t, paused, sent, lag, busy, most)
  PROVE  sent <= most
  <1>1. CASE sent + lag <= most
    BY <1>1
  <1>2. CASE \E i \in 1 .. Len(t) : Stops(t, i) /\ sent + i + Lag <= most
    <2>1. PICK i \in 1 .. Len(t) : sent + i + Lag <= most
      BY <1>2
    <2> QED
      BY <2>1, UartAssumption
  <1>3. CASE sent + Len(t) + busy + Lag <= most
    <2> DEFINE n == Len(t)
    <2>1. n \in Nat /\ sent + n + busy + Lag <= most
      BY <1>3
    <2> HIDE DEF n
    <2> QED
      BY <2>1, UartAssumption
  <1> QED
    BY <1>1, <1>2, <1>3 DEF Bounded

LEMMA BoundedUp ==
  ASSUME NEW p, NEW t \in Seq(Sent), NEW paused, NEW sent \in Nat, NEW lag \in Nat,
         NEW busy \in Nat, NEW most \in Nat, NEW more \in Nat, most <= more,
         Bounded(p, t, paused, sent, lag, busy, most)
  PROVE  Bounded(p, t, paused, sent, lag, busy, more)
  <1>1. CASE paused /\ (\A i \in 1 .. Len(t) : t[i] # "XON") /\ sent + lag <= most
    BY <1>1 DEF Bounded
  <1>2. CASE \E i \in 1 .. Len(t) : Stops(t, i) /\ sent + i + Lag <= most
    <2>1. PICK i \in 1 .. Len(t) : Stops(t, i) /\ sent + i + Lag <= most
      BY <1>2
    <2>2. sent + i + Lag <= more
      BY <2>1, UartAssumption
    <2> QED
      BY <2>1, <2>2 DEF Bounded
  <1>3. CASE p = "XOFF" /\ sent + Len(t) + busy + Lag <= most
    <2> DEFINE n == Len(t)
    <2>1. n \in Nat
      OBVIOUS
    <2> HIDE DEF n
    <2>2. sent + n + busy + Lag <= more
      BY <1>3, <2>1, UartAssumption DEF n
    <2> QED
      BY <1>3, <2>2 DEF Bounded, n
  <1> QED
    BY <1>1, <1>2, <1>3 DEF Bounded

\* The marks bring the flow control up to date: the peer is held back only if the ring
\* is above the low mark, and always above the high mark.
LEMMA FlowMarked ==
  ASSUME NEW d \in DeviceState, Len(d.tx) <= 2, d.pending # "none" => d.ier_tx /\ xon_flow,
         NEW count \in Nat, NEW paused \in BOOLEAN, NEW e, e = update_receive_flow(d, count),
         NEW next, next = ToldOf(e.pending, e.tx, paused),
         (count > RING_LOW /\ count < RING_HIGH) \/ count >= RING_HIGH \/ count <= RING_LOW
  PROVE  /\ count >= RING_HIGH => (xon_flow => next = "XOFF") /\ (hardware_flow => ~e.rts)
         /\ \/ xon_flow /\ next = "XOFF"
            \/ hardware_flow /\ ~e.rts
            => count > RING_LOW
  <1>1. /\ count >= RING_HIGH => (xon_flow => next = "XOFF") /\ (hardware_flow => ~e.rts)
        /\ count <= RING_LOW => (xon_flow => next = "XON") /\ (hardware_flow => e.rts)
    BY Updated
  <1>2. count >= RING_HIGH => count > RING_LOW
    BY UartAssumption
  <1> QED
    BY <1>1, <1>2

LEMMA RoomMeans ==
  ASSUME NEW base \in Nat, NEW sent \in Nat, NEW lag \in 0 .. Lag,
         sent <= base + RING_HIGH - 1 + Trigger
  PROVE  sent + lag <= base + Room /\ sent + 4 + Lag <= base + Room
  BY UartAssumption DEF Room

\* What the peer still sends has room: if it has been told to stop by what it was sent,
\* and if the ring has only now reached the high mark.
LEMMA FlowBounded ==
  ASSUME NEW d \in DeviceState, Len(d.tx) <= 2, d.pending # "none" => d.ier_tx /\ xon_flow,
         NEW count \in Nat, NEW paused \in BOOLEAN, NEW sent \in Nat, NEW lag \in 0 .. Lag,
         NEW base \in Nat, NEW busy \in {1, 2}, NEW e, e = update_receive_flow(d, count),
         NEW told, told = ToldOf(d.pending, d.tx, paused),
         NEW next, next = ToldOf(e.pending, e.tx, paused),
         hardware_flow /\ ~d.rts => sent + lag <= base + Room,
         xon_flow /\ told = "XOFF" =>
           Bounded(d.pending, d.tx, paused, sent, lag, busy, base + Room),
         count >= RING_HIGH /\ ((hardware_flow /\ d.rts) \/ (xon_flow /\ told # "XOFF")) =>
           sent <= base + RING_HIGH - 1 + Trigger
  PROVE  /\ hardware_flow /\ ~e.rts => sent + lag <= base + Room
         /\ xon_flow /\ next = "XOFF" =>
              Bounded(e.pending, e.tx, paused, sent, lag, busy, base + Room)
  <1> DEFINE was(most) == Bounded(d.pending, d.tx, paused, sent, lag, busy, most)
             is(most) == Bounded(e.pending, e.tx, paused, sent, lag, busy, most)
  <1>1. /\ base + Room \in Nat /\ lag \in Nat /\ RING_LOW \in Nat /\ RING_HIGH \in Nat
        /\ RING_LOW < RING_HIGH
        /\ sent <= base + RING_HIGH - 1 + Trigger =>
             sent + lag <= base + Room /\ sent + 4 + Lag <= base + Room
    <2>1. base + Room \in Nat
      BY UartAssumption, SMTT(60) DEF Room
    <2>2. /\ lag \in Nat /\ RING_LOW \in Nat /\ RING_HIGH \in Nat /\ RING_LOW < RING_HIGH
      BY UartAssumption
    <2>3. sent <= base + RING_HIGH - 1 + Trigger =>
            sent + lag <= base + Room /\ sent + 4 + Lag <= base + Room
      BY RoomMeans
    <2> QED
      BY <2>1, <2>2, <2>3
  <1>2. (count > RING_LOW /\ count < RING_HIGH) \/ count >= RING_HIGH \/ count <= RING_LOW
    BY <1>1
  <1>3. count >= RING_HIGH /\ xon_flow =>
          /\ was(base + Room) => is(base + Room)
          /\ sent + 4 + Lag <= base + Room => is(base + Room)
    BY <1>1, UpdatedBound
  <1> HIDE DEF was, is
  <1>4. CASE count >= RING_HIGH
    <2>1. hardware_flow => sent + lag <= base + Room
      <3>1. CASE d.rts
        <4>1. hardware_flow => sent <= base + RING_HIGH - 1 + Trigger
          BY <1>4, <3>1
        <4> QED
          BY <1>1, <4>1
      <3>2. CASE ~d.rts
        BY <3>2
      <3> QED
        BY <3>1, <3>2
    <2>2. xon_flow => is(base + Room)
      <3>1. CASE told = "XOFF"
        BY <1>3, <1>4, <3>1 DEF was
      <3>2. CASE told # "XOFF"
        BY <1>1, <1>3, <1>4, <3>2
      <3> QED
        BY <3>1, <3>2
    <2> QED
      BY <2>1, <2>2 DEF is
  <1>5. CASE count <= RING_LOW
    <2>1. ~(count > RING_LOW)
      BY <1>1, <1>5
    <2>2. ~(xon_flow /\ next = "XOFF") /\ ~(hardware_flow /\ ~e.rts)
      BY <1>2, <2>1, FlowMarked
    <2> QED
      BY <2>2
  <1>6. CASE count > RING_LOW /\ count < RING_HIGH
    <2>1. e = d
      BY <1>1, <1>6 DEF update_receive_flow
    <2> QED
      BY <2>1
  <1> QED
    BY <1>2, <1>4, <1>5, <1>6

LEMMA Initial == Init => UartInv
  <1> SUFFICES ASSUME Init PROVE UartInv
    OBVIOUS
  <1>1. TypeOK
    <2>1. /\ 0 \in 0 .. RING_SIZE - 1 /\ 0 \in Byte /\ 0 <= Trigger
          /\ [i \in 0 .. RING_SIZE - 1 |-> 0] \in [0 .. RING_SIZE - 1 -> Byte]
          /\ Lag \in 0 .. Lag
      BY UartAssumption DEF Byte
    <2>2. Len(<< >>) = 0 /\ << >> \in Seq(Flow \cup {"data"})
          /\ << >> \in Seq(Byte \X (Flow \cup {"data"}))
      OBVIOUS
    <2>3. peer \in [sent : Byte, paused : BOOLEAN, lag : 0 .. Lag]
      BY <2>1 DEF Init
    <2>4. pending_flow \in Flow \cup {"none"} /\ flow \subseteq {"xon", "hardware"}
      BY DEF Init
    <2>5. /\ rx \in Seq(Byte \X (Flow \cup {"data"})) /\ Len(rx) <= Trigger
          /\ tx \in Seq(Flow \cup {"data"}) /\ Len(tx) <= 2
      BY <2>1, <2>2 DEF Init
    <2> QED
      BY <2>1, <2>3, <2>4, <2>5 DEF Init, TypeOK
  <1>2. ring_count(head, tail) = 0 /\ Len(rx) = 0 /\ Len(tx) = 0
    <2>1. 0 \in Slot
      BY UartAssumption DEF Slot
    <2>2. ring_count(0, 0) = 0
      BY <2>1, Counted
    <2> QED
      BY <2>2 DEF Init
  <1>3. Told = "XON"
    BY <1>2 DEF Init, Told
  <1>4. Contiguous
    BY <1>2 DEF Init, Contiguous, Number
  <1>5. HeldBackOnlyWhenFull /\ Marks
    BY <1>2, <1>3, UartAssumption DEF Init, HeldBackOnlyWhenFull, Marks
  <1>6. Transmitter
    BY <1>2 DEF Init, Transmitter
  <1>7. Numbers
    BY <1>2 DEF Init, Numbers
  <1>8. Stopping
    BY <1>3 DEF Init, Stopping
  <1> QED
    BY <1>1, <1>4, <1>5, <1>6, <1>7, <1>8 DEF UartInv

\* The interrupt routine stores what arrived: there was room for it if flow control is
\* used, and what is in the ring is all that the peer sent.
LEMMA ReceiveKeeps ==
  ASSUME UartInv, ReceiveInterrupt
  PROVE  /\ UartInv'
         /\ flow # {} => error' = error
  <1> DEFINE q == received[Len(rx)]
             c == ring_count(q.head, tail)
             e == update_receive_flow(Device, c)
  <1>1. TypeOK /\ Contiguous /\ HeldBackOnlyWhenFull /\ Transmitter /\ Numbers /\ Marks /\ Stopping
    BY DEF UartInv
  <1>2. /\ head \in Slot /\ tail \in Slot /\ ring_count(head, tail) \in Nat
        /\ Len(rx) \in Nat /\ Len(rx) <= Trigger
        /\ tx \in Seq(Sent) /\ Len(tx) <= 2 /\ Len(tx) \in Nat
        /\ read \in Nat /\ peer.sent \in Nat /\ peer.lag \in 0 .. Lag
        /\ peer.paused \in BOOLEAN /\ Room \in Nat
        /\ Busy(program) \in {1, 2} /\ Device \in DeviceState
    BY <1>1, Types
  <1>3. Good(Len(rx))
    BY <1>1, <1>2, ReceivedGood
  <1>4. /\ q \in [ring : [Slot -> Byte], head : Slot, error : BOOLEAN, paused : BOOLEAN]
        /\ error => q.error
        /\ ~q.error => /\ read + c = Number(Len(rx))
                      /\ \A i \in 1 .. c : q.ring[(tail + i - 1) % RING_SIZE] = read + i
        /\ ~error /\ peer.sent < read + RING_SIZE => ~q.error
    BY <1>3 DEF Good
  <1>5. c \in Nat
    <2>1. q.head \in Slot
      BY <1>4
    <2>2. c \in Slot
      BY <1>2, <2>1, Counted
    <2> HIDE DEF c
    <2> QED
      BY <2>2 DEF Slot
  <1>6. /\ ring' = q.ring /\ head' = q.head /\ error' = q.error /\ tx_paused' = q.paused
        /\ pending_flow' = e.pending /\ ier_tx' = e.ier_tx /\ tx' = e.tx /\ rts' = e.rts
        /\ rx' = << >>
        /\ UNCHANGED <<flow, tail, program, read, peer>>
    BY DEF ReceiveInterrupt, SetDevice
  <1>7. /\ Device.pending = pending_flow /\ Device.tx = tx /\ Device.rts = rts
        /\ Device.ier_tx = ier_tx
    BY DEF Device
  <1> HIDE DEF q, c
  <1>8. /\ e \in DeviceState /\ Len(e.tx) <= 2 /\ (Len(tx) <= 1 => Len(e.tx) <= 1)
        /\ e.pending # "none" => e.ier_tx /\ xon_flow
        /\ ~xon_flow => e.tx = tx
    <2>1. Device.pending # "none" => Device.ier_tx /\ xon_flow
      BY <1>1, <1>7 DEF Transmitter
    <2>2. Len(Device.tx) <= 2
      BY <1>2, <1>7
    <2>0. e = update_receive_flow(Device, c) /\ peer.paused \in BOOLEAN
      BY <1>2
    <2> HIDE DEF e
    <2>3. /\ e \in DeviceState /\ Len(e.tx) <= 2
          /\ (Len(Device.tx) <= 1 => Len(e.tx) <= 1)
          /\ e.pending # "none" => e.ier_tx /\ xon_flow
          /\ ~xon_flow => e.tx = Device.tx
      <3> HIDE DEF q
      <3>1. Device \in DeviceState /\ c \in Nat
        BY <1>2, <1>5
      <3> QED
        BY <2>0, <2>1, <2>2, <3>1, UpdatedDevice
    <2> QED
      BY <1>7, <2>3
  <1> HIDE DEF e
  <1>9. ring_count(head', tail') = c /\ Number(0)' = read + c
    BY <1>6 DEF c, Number
  <1>10. TypeOK'
    <2>1. << >> \in Seq(Byte \X (Flow \cup {"data"})) /\ Len(<< >>) <= Trigger
      BY UartAssumption
    <2> QED
      BY <1>1, <1>4, <1>6, <1>8, <2>1 DEF TypeOK, DeviceState, Sent, Slot
  <1>11. ~error' => ~error /\ read + c = peer.sent
    BY <1>1, <1>4, <1>6 DEF Contiguous
  <1>12. Contiguous'
    <2>1. Len(rx') = 0
      BY <1>6
    <2> QED
      BY <1>4, <1>6, <1>9, <1>11, <2>1 DEF Contiguous, Number
  <1>13. Transmitter'
    BY <1>1, <1>6, <1>8 DEF Transmitter, xon_flow
  <1>14. Numbers'
    <2>1. Len(rx') = 0
      BY <1>6
    <2>2. read + c = peer.sent => peer.sent <= read + c + 0
      BY <1>2, <1>5
    <2> QED
      BY <1>6, <1>9, <1>11, <2>1, <2>2 DEF Numbers
  <1> DEFINE told == ToldOf(Device.pending, Device.tx, peer.paused)
             next == ToldOf(e.pending, e.tx, peer.paused)
  <1>15. /\ e = update_receive_flow(Device, c) /\ told = Told /\ Len(Device.tx) <= 2
         /\ Device.pending # "none" => Device.ier_tx /\ xon_flow
    BY <1>1, <1>2, <1>7, ToldIs DEF Transmitter, e
  <1>16. /\ Device \in DeviceState /\ c \in Nat /\ peer.paused \in BOOLEAN
         /\ peer.sent \in Nat /\ peer.lag \in 0 .. Lag /\ read \in Nat
         /\ Busy(program) \in {1, 2}
    BY <1>2, <1>5
  <1>17. /\ c >= RING_HIGH => (xon_flow => next = "XOFF") /\ (hardware_flow => ~e.rts)
         /\ \/ xon_flow /\ next = "XOFF"
            \/ hardware_flow /\ ~e.rts
            => c > RING_LOW
    <2>1. (c > RING_LOW /\ c < RING_HIGH) \/ c >= RING_HIGH \/ c <= RING_LOW
      BY <1>16, UartAssumption
    <2> HIDE DEF next
    <2>2. next = ToldOf(e.pending, e.tx, peer.paused)
      BY DEF next
    <2> QED
      BY <1>15, <1>16, <2>1, <2>2, FlowMarked
  <1> HIDE DEF told
  <1>18. ASSUME ~error, (hardware_flow /\ rts) \/ (xon_flow /\ told # "XOFF")
         PROVE  peer.sent <= read + RING_HIGH - 1 + Trigger
    <2>1. ~(ring_count(head, tail) >= RING_HIGH)
      BY <1>1, <1>15, <1>18 DEF Marks
    <2>2. peer.sent <= read + ring_count(head, tail) + Len(rx)
      BY <1>1, <1>18 DEF Numbers
    <2> QED
      BY <1>2, <2>1, <2>2, UartAssumption
  <1>19. ASSUME ~error
         PROVE  /\ hardware_flow /\ ~rts => peer.sent + peer.lag <= read + Room
                /\ xon_flow /\ told = "XOFF" =>
                     Bounded(pending_flow, tx, peer.paused, peer.sent, peer.lag,
                             Busy(program), read + Room)
    BY <1>1, <1>15, <1>19 DEF Stopping
  <1>20. ASSUME ~error
         PROVE  /\ hardware_flow /\ ~e.rts => peer.sent + peer.lag <= read + Room
                /\ xon_flow /\ next = "XOFF" =>
                     Bounded(e.pending, e.tx, peer.paused, peer.sent, peer.lag,
                             Busy(program), read + Room)
    <2> HIDE DEF next
    <2>1. told = ToldOf(Device.pending, Device.tx, peer.paused)
          /\ next = ToldOf(e.pending, e.tx, peer.paused)
      BY DEF told, next
    <2>2. /\ hardware_flow /\ ~Device.rts => peer.sent + peer.lag <= read + Room
          /\ xon_flow /\ told = "XOFF" =>
               Bounded(Device.pending, Device.tx, peer.paused, peer.sent, peer.lag,
                       Busy(program), read + Room)
          /\ c >= RING_HIGH /\ ((hardware_flow /\ Device.rts) \/ (xon_flow /\ told # "XOFF")) =>
               peer.sent <= read + RING_HIGH - 1 + Trigger
      BY <1>7, <1>18, <1>19, <1>20
    <2> QED
      BY <1>15, <1>16, <2>1, <2>2, FlowBounded
  <1>21. Told' = next /\ xon_flow' = xon_flow /\ hardware_flow' = hardware_flow
    BY <1>6, ToldIs DEF xon_flow, hardware_flow
  <1> HIDE DEF next
  <1>22. HeldBackOnlyWhenFull' /\ Marks'
    BY <1>6, <1>9, <1>17, <1>21 DEF HeldBackOnlyWhenFull, Marks
  <1>23. Stopping'
    BY <1>6, <1>11, <1>21, <1>20 DEF Stopping
  <1>24. ASSUME flow # {} PROVE error' = error
    <2>1. CASE error
      BY <1>1, <1>4, <1>6, <2>1 DEF TypeOK
    <2>2. CASE ~error
      <3>1. xon_flow \/ hardware_flow
        BY <1>1, <1>24 DEF TypeOK, xon_flow, hardware_flow
      <3>2. peer.sent <= read + Room
        <4>1. CASE (hardware_flow /\ rts) \/ (xon_flow /\ told # "XOFF")
          <5>1. peer.sent <= read + RING_HIGH - 1 + Trigger
            BY <1>18, <2>2, <4>1
          <5> QED
            BY <1>2, <5>1, UartAssumption DEF Room
        <4>2. CASE hardware_flow /\ ~rts
          <5>1. peer.sent + peer.lag <= read + Room
            BY <1>19, <2>2, <4>2
          <5> QED
            BY <1>2, <5>1, UartAssumption
        <4>3. CASE xon_flow /\ told = "XOFF"
          <5>1. Bounded(pending_flow, tx, peer.paused, peer.sent, peer.lag, Busy(program),
                        read + Room)
            BY <1>19, <2>2, <4>3
          <5> QED
            BY <1>2, <5>1, BoundedMeans
        <4> QED
          BY <3>1, <4>1, <4>2, <4>3
      <3>3. peer.sent < read + RING_SIZE
        BY <1>2, <3>2, UartAssumption DEF Room
      <3> QED
        BY <1>1, <1>4, <1>6, <2>2, <3>3 DEF TypeOK
    <2> QED
      BY <2>1, <2>2
  <1> QED
    BY <1>10, <1>12, <1>13, <1>14, <1>22, <1>23, <1>24 DEF UartInv

\* uart_read takes the oldest bytes of the ring.
LEMMA TakenKeeps ==
  ASSUME UartInv, ReadTaken
  PROVE  UartInv'
  <1>1. TypeOK /\ Contiguous /\ HeldBackOnlyWhenFull /\ Transmitter /\ Numbers /\ Marks /\ Stopping
    BY DEF UartInv
  <1>2. /\ head \in Slot /\ tail \in Slot /\ ring_count(head, tail) \in Nat
        /\ ring_count(head, tail) \in Slot /\ Len(rx) \in Nat /\ Len(rx) <= Trigger
        /\ tx \in Seq(Sent) /\ Len(tx) <= 2 /\ Len(tx) \in Nat
        /\ read \in Nat /\ peer.sent \in Nat /\ peer.lag \in 0 .. Lag
        /\ peer.paused \in BOOLEAN /\ Room \in Nat
        /\ Busy(program) \in {1, 2} /\ Device \in DeviceState
    BY <1>1, Types
  <1>3. PICK n \in 0 .. ring_count(head, tail) :
          /\ n = 0 => head = tail
          /\ tail' = (tail + n) % RING_SIZE
          /\ read' = IF n = 0 THEN read ELSE ring[(tail + n - 1) % RING_SIZE]
    BY DEF ReadTaken
  <1> DEFINE k == ring_count(head, tail)
             c == ring_count(head, tail')
             e == update_receive_flow(Device, c)
  <1>4. /\ tail' \in Slot /\ c = k - n /\ n \in 0 .. k
        /\ \A i \in 1 .. k - n : (tail' + i - 1) % RING_SIZE = (tail + (n + i) - 1) % RING_SIZE
    BY <1>2, <1>3, TakenBefore
  <1>5. /\ pending_flow' = e.pending /\ ier_tx' = e.ier_tx /\ tx' = e.tx /\ rts' = e.rts
        /\ program = "checked" /\ program' = "idle"
        /\ UNCHANGED <<flow, ring, head, error, tx_paused, rx, peer>>
    BY DEF ReadTaken, SetDevice
  <1>6. /\ Device.pending = pending_flow /\ Device.tx = tx /\ Device.rts = rts
        /\ Device.ier_tx = ier_tx
    BY DEF Device
  <1>7. /\ e = update_receive_flow(Device, c)
        /\ Device.pending # "none" => Device.ier_tx /\ xon_flow
        /\ Len(Device.tx) <= 2 /\ k \in Nat
    BY <1>1, <1>2, <1>6 DEF Transmitter
  <1>8. ring_count(head', tail') = c
    BY <1>5
  <1> HIDE DEF k, c, e
  <1>9. c \in Nat /\ n \in Nat /\ n <= k /\ c <= k
    BY <1>4, <1>7
  <1>10. /\ e \in DeviceState /\ Len(e.tx) <= 2
         /\ e.pending # "none" => e.ier_tx /\ xon_flow
         /\ ~xon_flow => e.tx = tx
    <2>1. /\ e \in DeviceState /\ Len(e.tx) <= 2
          /\ e.pending # "none" => e.ier_tx /\ xon_flow
          /\ ~xon_flow => e.tx = Device.tx
      BY <1>2, <1>7, <1>9, UpdatedDevice
    <2> QED
      BY <1>6, <2>1
  <1>11. read' \in Byte /\ (~error => read' = read + n)
    <2>1. CASE n = 0
      BY <1>1, <1>2, <1>3, <2>1 DEF TypeOK
    <2>2. CASE n # 0
      <3>1. n \in 1 .. k /\ read' = ring[(tail + n - 1) % RING_SIZE]
        BY <1>3, <1>9, <2>2, <1>7
      <3>2. ~error => read' = read + n
        BY <1>1, <3>1 DEF Contiguous, k
      <3>3. (tail + n - 1) % RING_SIZE \in Slot
        <4>0. k \in Slot
          BY <1>2 DEF k
        <4>1. n - 1 \in Slot /\ tail + n - 1 = tail + (n - 1)
          BY <1>2, <3>1, <4>0, UartAssumption DEF Slot
        <4>2. (tail + (n - 1)) % RING_SIZE \in Slot
          BY <1>2, <4>1, Slotted
        <4> QED
          BY <4>1, <4>2
      <3> QED
        BY <1>1, <3>1, <3>2, <3>3 DEF TypeOK, Slot
    <2> QED
      BY <2>1, <2>2
  <1>12. TypeOK'
    BY <1>1, <1>4, <1>5, <1>10, <1>11 DEF TypeOK, DeviceState, Sent, Slot
  <1>13. ~error => read' + c = read + k
    BY <1>2, <1>4, <1>7, <1>11
  <1>14. Number(0)' = read' + c /\ Number(0) = read + k
         /\ \A i \in 1 .. Len(rx) : Number(i)' = Number(i)
    BY <1>5, <1>8 DEF Number, k
  <1>15. Contiguous'
    <2> SUFFICES ASSUME ~error PROVE
          /\ \A i \in 1 .. c : ring[(tail' + i - 1) % RING_SIZE] = read' + i
          /\ \A i \in 1 .. Len(rx) :
               Number(i)' = IF rx[i][2] = "data" THEN Number(i - 1)' + 1 ELSE Number(i - 1)'
          /\ Number(Len(rx))' = peer.sent
      BY <1>5, <1>8 DEF Contiguous
    <2>1. ASSUME NEW i \in 1 .. c PROVE ring[(tail' + i - 1) % RING_SIZE] = read' + i
      <3>1. n + i \in 1 .. k /\ i \in 1 .. k - n
        BY <1>4, <1>7, <1>9
      <3>2. ring[(tail + (n + i) - 1) % RING_SIZE] = read + (n + i)
        BY <1>1, <3>1 DEF Contiguous, k
      <3>3. read + (n + i) = read' + i
        BY <1>2, <1>9, <1>11
      <3> QED
        BY <1>4, <3>1, <3>2, <3>3
    <2>2. \A i \in 0 .. Len(rx) : Number(i)' = Number(i)
      <3> TAKE i \in 0 .. Len(rx)
      <3>1. CASE i = 0
        BY <1>13, <1>14, <3>1
      <3>2. CASE i # 0
        BY <1>2, <1>14, <3>2
      <3> QED
        BY <3>1, <3>2
    <2>3. ASSUME NEW i \in 1 .. Len(rx)
          PROVE  Number(i)' = IF rx[i][2] = "data" THEN Number(i - 1)' + 1 ELSE Number(i - 1)'
      <3>1. i \in 0 .. Len(rx) /\ i - 1 \in 0 .. Len(rx)
        BY <1>2
      <3>2. Number(i) = IF rx[i][2] = "data" THEN Number(i - 1) + 1 ELSE Number(i - 1)
        BY <1>1 DEF Contiguous
      <3> QED
        BY <2>2, <3>1, <3>2
    <2>4. Number(Len(rx))' = peer.sent
      <3>1. Number(Len(rx)) = peer.sent
        BY <1>1 DEF Contiguous
      <3>2. CASE Len(rx) = 0
        BY <1>5, <1>8, <1>13, <3>1, <3>2 DEF Number, k
      <3>3. CASE Len(rx) # 0
        BY <1>5, <3>1, <3>3 DEF Number
      <3> QED
        BY <3>2, <3>3
    <2> QED
      BY <2>1, <2>3, <2>4
  <1>16. Transmitter'
    BY <1>1, <1>5, <1>10 DEF Transmitter, xon_flow
  <1>17. Numbers'
    <2>1. ~error => peer.sent <= read' + c + Len(rx)
      <3>1. ~error => peer.sent <= read + k + Len(rx)
        BY <1>1 DEF Numbers, k
      <3> QED
        BY <1>13, <3>1
    <2> QED
      BY <1>1, <1>5, <1>8, <2>1 DEF Numbers
  <1> DEFINE told == ToldOf(Device.pending, Device.tx, peer.paused)
             next == ToldOf(e.pending, e.tx, peer.paused)
  <1>18. told = ToldOf(Device.pending, Device.tx, peer.paused) /\ told = Told
         /\ next = ToldOf(e.pending, e.tx, peer.paused) /\ Told' = next
         /\ xon_flow' = xon_flow /\ hardware_flow' = hardware_flow
    BY <1>5, <1>6, ToldIs DEF xon_flow, hardware_flow
  <1> HIDE DEF told, next
  <1>19. /\ c >= RING_HIGH => (xon_flow => next = "XOFF") /\ (hardware_flow => ~e.rts)
         /\ \/ xon_flow /\ next = "XOFF"
            \/ hardware_flow /\ ~e.rts
            => c > RING_LOW
    <2>1. (c > RING_LOW /\ c < RING_HIGH) \/ c >= RING_HIGH \/ c <= RING_LOW
      BY <1>9, UartAssumption
    <2> QED
      BY <1>2, <1>7, <1>9, <1>18, <2>1, FlowMarked
  <1>20. HeldBackOnlyWhenFull' /\ Marks'
    BY <1>5, <1>8, <1>18, <1>19 DEF HeldBackOnlyWhenFull, Marks
  <1>21. ASSUME ~error
         PROVE  /\ hardware_flow /\ ~e.rts => peer.sent + peer.lag <= read' + Room
                /\ xon_flow /\ next = "XOFF" =>
                     Bounded(e.pending, e.tx, peer.paused, peer.sent, peer.lag,
                             Busy(program), read' + Room)
    <2>1. read' \in Nat /\ read + Room <= read' + Room /\ read + Room \in Nat
          /\ read' + Room \in Nat
      BY <1>2, <1>9, <1>11, <1>21
    <2>2. hardware_flow /\ ~Device.rts => peer.sent + peer.lag <= read' + Room
      <3>1. hardware_flow /\ ~rts => peer.sent + peer.lag <= read + Room
        BY <1>1, <1>21 DEF Stopping
      <3>2. peer.lag \in Nat /\ peer.sent \in Nat
        BY <1>2, UartAssumption
      <3>3. peer.sent + peer.lag <= read + Room => peer.sent + peer.lag <= read' + Room
        BY <2>1, <3>2
      <3> QED
        BY <1>6, <3>1, <3>3
    <2>3. xon_flow /\ told = "XOFF" =>
            Bounded(Device.pending, Device.tx, peer.paused, peer.sent, peer.lag,
                    Busy(program), read' + Room)
      <3> SUFFICES ASSUME xon_flow, told = "XOFF"
                   PROVE  Bounded(pending_flow, tx, peer.paused, peer.sent, peer.lag,
                                  Busy(program), read' + Room)
        BY <1>6
      <3>1. Bounded(pending_flow, tx, peer.paused, peer.sent, peer.lag, Busy(program),
                    read + Room)
        BY <1>1, <1>18, <1>21 DEF Stopping
      <3>2. peer.lag \in Nat /\ Busy(program) \in Nat
        BY <1>2, UartAssumption
      <3> QED
        BY <1>2, <2>1, <3>1, <3>2, BoundedUp
    <2>4. ~(c >= RING_HIGH /\ ((hardware_flow /\ Device.rts) \/ (xon_flow /\ told # "XOFF")))
      <3>1. c >= RING_HIGH => k >= RING_HIGH
        BY <1>7, <1>9, UartAssumption
      <3> QED
        BY <1>1, <1>6, <1>18, <3>1 DEF Marks, k
    <2>5. /\ Device \in DeviceState /\ c \in Nat /\ peer.paused \in BOOLEAN
          /\ peer.sent \in Nat /\ peer.lag \in 0 .. Lag /\ read' \in Nat
          /\ Busy(program) \in {1, 2}
          /\ told = ToldOf(Device.pending, Device.tx, peer.paused)
          /\ next = ToldOf(e.pending, e.tx, peer.paused)
      BY <1>2, <1>9, <1>18, <2>1
    <2> QED
      BY <1>7, <2>2, <2>3, <2>4, <2>5, FlowBounded
  <1>22. Stopping'
    BY <1>5, <1>18, <1>21 DEF Stopping, Busy
  <1> QED
    BY <1>12, <1>15, <1>16, <1>17, <1>20, <1>22 DEF UartInv

\* uart_purge: nothing is unread, and the peer is told to go on.
LEMMA PurgedKeeps ==
  ASSUME UartInv, Purged
  PROVE  UartInv'
  <1>1. TypeOK /\ Transmitter
    BY DEF UartInv
  <1>2. /\ peer.paused \in BOOLEAN /\ Device \in DeviceState
    BY <1>1, Types
  <1> DEFINE d == [Device EXCEPT !.tx = << >>]
             e == update_receive_flow(d, 0)
             next == ToldOf(e.pending, e.tx, peer.paused)
  <1>3. /\ head' = 0 /\ tail' = 0 /\ error' = FALSE /\ rx' = << >>
        /\ ring' = [i \in 0 .. RING_SIZE - 1 |-> 0]
        /\ read' = 0 /\ peer' = [peer EXCEPT !.sent = 0]
        /\ pending_flow' = e.pending /\ ier_tx' = e.ier_tx /\ tx' = e.tx /\ rts' = e.rts
        /\ program = "idle" /\ UNCHANGED <<flow, tx_paused, program>>
    BY DEF Purged, Emptied, SetDevice
  <1>4. /\ d \in DeviceState /\ d.tx = << >> /\ Len(d.tx) = 0
        /\ d.pending # "none" => d.ier_tx /\ xon_flow
    <2>1. Device.pending = pending_flow /\ Device.ier_tx = ier_tx
      BY DEF Device
    <2>2. << >> \in Seq(Sent)
      OBVIOUS
    <2>3. d \in DeviceState
      BY <1>2, <2>2 DEF DeviceState
    <2>4. d.tx = << >> /\ d.pending = pending_flow /\ d.ier_tx = ier_tx
      BY <1>2, <2>1 DEF DeviceState
    <2> QED
      BY <1>1, <2>3, <2>4 DEF Transmitter
  <1>5. e = update_receive_flow(d, 0) /\ next = ToldOf(e.pending, e.tx, peer.paused)
    OBVIOUS
  <1> HIDE DEF d, e, next
  <1>6. 0 <= RING_LOW /\ ~(0 >= RING_HIGH) /\ 0 \in Nat /\ Len(d.tx) <= 2 /\ Len(d.tx) <= 1
    BY <1>4, UartAssumption
  <1>7. /\ e \in DeviceState /\ Len(e.tx) <= 2 /\ Len(e.tx) <= 1
        /\ e.pending # "none" => e.ier_tx /\ xon_flow
        /\ ~xon_flow => e.tx = d.tx
    BY <1>2, <1>4, <1>5, <1>6, UpdatedDevice
  <1>8. ~(xon_flow /\ next = "XOFF") /\ ~(hardware_flow /\ ~e.rts)
    <2>1. ~(0 > RING_LOW)
      BY UartAssumption
    <2> QED
      BY <1>2, <1>4, <1>5, <1>6, <2>1, FlowMarked
  <1>9. ring_count(head', tail') = 0 /\ Len(rx') = 0
    <2>1. 0 \in Slot
      BY UartAssumption DEF Slot
    <2>2. ring_count(0, 0) = 0
      BY <2>1, Counted
    <2> QED
      BY <1>3, <2>2
  <1>10. peer' \in [sent : Byte, paused : BOOLEAN, lag : 0 .. Lag]
         /\ peer'.sent = 0 /\ peer'.paused = peer.paused
    <2>1. peer \in [sent : Byte, paused : BOOLEAN, lag : 0 .. Lag] /\ 0 \in Byte
      BY <1>1, UartAssumption DEF TypeOK, Byte
    <2>2. peer' = [peer EXCEPT !.sent = 0]
      BY <1>3
    <2> QED
      BY <2>1, <2>2
  <1>11. Told' = next /\ xon_flow' = xon_flow /\ hardware_flow' = hardware_flow
    BY <1>3, <1>5, <1>10, ToldIs DEF xon_flow, hardware_flow
  <1>12. TypeOK'
    <2>1. /\ 0 \in 0 .. RING_SIZE - 1 /\ 0 \in Byte /\ 0 <= Trigger
          /\ [i \in 0 .. RING_SIZE - 1 |-> 0] \in [0 .. RING_SIZE - 1 -> Byte]
      BY UartAssumption DEF Byte
    <2>2. Len(<< >>) = 0 /\ << >> \in Seq(Byte \X (Flow \cup {"data"}))
      OBVIOUS
    <2>3. /\ pending_flow' \in Flow \cup {"none"} /\ ier_tx' \in BOOLEAN /\ rts' \in BOOLEAN
          /\ tx' \in Seq(Flow \cup {"data"}) /\ Len(tx') <= 2
      BY <1>3, <1>7 DEF DeviceState, Sent
    <2> QED
      BY <1>1, <1>3, <1>10, <2>1, <2>2, <2>3 DEF TypeOK
  <1>13. Contiguous' /\ Numbers'
    BY <1>3, <1>9, <1>10 DEF Contiguous, Number, Numbers
  <1>14. Transmitter'
    BY <1>1, <1>3, <1>4, <1>7, <1>10, <1>11 DEF Transmitter
  <1>15. HeldBackOnlyWhenFull' /\ Marks'
    BY <1>3, <1>6, <1>8, <1>9, <1>11 DEF HeldBackOnlyWhenFull, Marks
  <1>16. Stopping'
    BY <1>3, <1>8, <1>11 DEF Stopping
  <1> QED
    BY <1>12, <1>13, <1>14, <1>15, <1>16 DEF UartInv

\* A step of the transmitter or of the program that leaves the received bytes alone.
LEMMA DeviceKeeps ==
  ASSUME UartInv, UNCHANGED <<flow, queueVars, rts, rx, read, peer>>,
         pending_flow' \in Flow \cup {"none"}, ier_tx' \in BOOLEAN,
         tx' \in Seq(Sent), Len(tx') <= 2,
         program' \in {"idle", "checked", "wait", "ready", "flow", "go", "flush"},
         Transmitter', Told' = Told,
         ~error /\ xon_flow /\ Told = "XOFF" =>
           Bounded(pending_flow', tx', peer.paused, peer.sent, peer.lag, Busy(program'),
                   read + Room)
  PROVE  UartInv'
  <1>1. TypeOK /\ Contiguous /\ HeldBackOnlyWhenFull /\ Numbers /\ Marks /\ Stopping
    BY DEF UartInv
  <1>2. /\ ring' = ring /\ head' = head /\ tail' = tail /\ error' = error
        /\ tx_paused' = tx_paused /\ flow' = flow /\ rts' = rts /\ rx' = rx
        /\ read' = read /\ peer' = peer
    BY DEF queueVars
  <1>3. TypeOK'
    BY <1>1, <1>2 DEF TypeOK, Sent
  <1>4. Contiguous'
    BY <1>1, <1>2 DEF Contiguous, Number
  <1>5. Numbers'
    BY <1>1, <1>2 DEF Numbers
  <1>6. xon_flow' = xon_flow /\ hardware_flow' = hardware_flow
    BY <1>2 DEF xon_flow, hardware_flow
  <1>7. HeldBackOnlyWhenFull' /\ Marks'
    BY <1>1, <1>2, <1>6 DEF HeldBackOnlyWhenFull, Marks
  <1>8. Stopping'
    BY <1>1, <1>2, <1>6 DEF Stopping
  <1> QED
    BY <1>3, <1>4, <1>5, <1>7, <1>8 DEF UartInv

\* The transmit interrupt sends the byte of flow control that waits.
LEMMA TransmitKeeps ==
  ASSUME UartInv, TransmitInterrupt
  PROVE  UartInv'
  <1>1. TypeOK /\ Transmitter /\ Stopping
    BY DEF UartInv
  <1>2. /\ UNCHANGED <<flow, queueVars, rts, rx, read, peer>> /\ program' = program
        /\ tx = << >> /\ pending_flow' = "none" /\ ier_tx' = FALSE
        /\ tx' = IF pending_flow = "none" THEN << >> ELSE <<pending_flow>>
    BY DEF TransmitInterrupt
  <1>3. pending_flow \in Flow \cup {"none"} /\ peer.paused \in BOOLEAN
        /\ program \in {"idle", "checked", "wait", "ready", "flow", "go", "flush"}
    BY <1>1 DEF TypeOK
  <1>4. /\ tx \in Seq(Sent) /\ tx' \in Seq(Sent) /\ Len(tx) = 0 /\ Len(tx') <= 1
        /\ Len(tx') <= 2
        /\ pending_flow = "none" => tx' = tx
        /\ pending_flow # "none" => /\ tx' = <<pending_flow>> /\ Len(tx') = 1
                                   /\ tx'[1] = pending_flow /\ pending_flow \in Flow
    <2>1. CASE pending_flow = "none"
      BY <1>2, <2>1
    <2>2. CASE pending_flow # "none"
      <3>1. tx' = <<pending_flow>> /\ pending_flow \in Flow
        BY <1>2, <1>3, <2>2
      <3>2. <<pending_flow>> \in Seq(Sent) /\ Len(<<pending_flow>>) = 1
            /\ <<pending_flow>>[1] = pending_flow
        BY <3>1 DEF Sent
      <3> QED
        BY <1>2, <2>2, <3>1, <3>2
    <2> QED
      BY <2>1, <2>2
  <1>5. peer' = peer /\ flow' = flow
    BY <1>2
  <1>6. Transmitter'
    BY <1>1, <1>2, <1>4, <1>5 DEF Transmitter, xon_flow
  <1>7. Told' = Told
    <2>1. Told = IF pending_flow # "none" THEN pending_flow ELSE Says(tx, peer.paused)
      <3>1. tx \in Seq(Sent) /\ Len(tx) <= 2
        BY <1>4
      <3>2. ToldOf(pending_flow, tx, peer.paused)
              = IF pending_flow # "none" THEN pending_flow ELSE Says(tx, peer.paused)
        BY <3>1, ToldSays
      <3> QED
        BY <3>2, ToldIs
    <2>2. Told' = Says(tx', peer.paused)
      <3>1. ToldOf("none", tx', peer.paused) = Says(tx', peer.paused)
        BY <1>4, ToldSays
      <3> QED
        BY <1>2, <1>5, <3>1, ToldIs
    <2>3. pending_flow # "none" => Says(tx', peer.paused) = pending_flow
      BY <1>4 DEF Says
    <2> QED
      BY <1>4, <2>1, <2>2, <2>3
  <1>8. ASSUME ~error, xon_flow, Told = "XOFF"
        PROVE  Bounded(pending_flow', tx', peer.paused, peer.sent, peer.lag, Busy(program'),
                       read + Room)
    <2>1. Bounded(pending_flow, tx, peer.paused, peer.sent, peer.lag, Busy(program),
                  read + Room)
      BY <1>1, <1>8 DEF Stopping
    <2>2. ~\E i \in 1 .. Len(tx) : Stops(tx, i)
      BY <1>4
    <2>3. CASE pending_flow = "none"
      <3>1. peer.paused /\ (\A i \in 1 .. Len(tx) : tx[i] # "XON")
            /\ peer.sent + peer.lag <= read + Room
        BY <2>1, <2>2, <2>3 DEF Bounded
      <3> QED
        BY <1>4, <2>3, <3>1 DEF Bounded
    <2>4. CASE pending_flow # "none"
      <3>1. pending_flow = "XOFF"
        BY <1>8, <2>4 DEF Told
      <3>2. CASE peer.paused /\ peer.sent + peer.lag <= read + Room
        <4>1. \A i \in 1 .. Len(tx') : tx'[i] # "XON"
          BY <1>4, <2>4, <3>1
        <4> QED
          BY <3>2, <4>1 DEF Bounded
      <3>3. CASE peer.sent + Len(tx) + Busy(program) + Lag <= read + Room
        <4>1. /\ peer.sent \in Nat /\ Busy(program) \in {1, 2} /\ read + Room \in Nat
          BY <1>1, Types
        <4>2. peer.sent + 1 + Lag <= read + Room
          BY <1>4, <3>3, <4>1, UartAssumption
        <4>3. Len(tx') = 1 /\ tx'[1] = "XOFF"
          BY <1>4, <2>4, <3>1
        <4>4. 1 \in 1 .. Len(tx') /\ Stops(tx', 1)
          BY <4>3 DEF Stops
        <4> QED
          BY <4>2, <4>4 DEF Bounded
      <3> QED
        BY <2>1, <2>2, <3>2, <3>3 DEF Bounded
    <2> QED
      BY <2>3, <2>4
  <1> QED
    BY <1>2, <1>3, <1>4, <1>6, <1>7, <1>8, DeviceKeeps

\* uart_write sends a byte of flow control that waits ...
LEMMA WriteFlowKeeps ==
  ASSUME UartInv, WriteFlow
  PROVE  UartInv'
  <1>1. TypeOK /\ Transmitter /\ Stopping
    BY DEF UartInv
  <1>2. /\ UNCHANGED <<flow, queueVars, rts, rx, read, peer>>
        /\ program = "ready" /\ program' = "flow"
        /\ pending_flow # "none" /\ pending_flow' = "none" /\ ier_tx' = ier_tx
        /\ tx' = Append(tx, pending_flow)
    BY DEF WriteFlow, AtProgram
  <1>3. /\ pending_flow \in Flow /\ pending_flow \in Sent /\ peer.paused \in BOOLEAN
        /\ ier_tx \in BOOLEAN /\ xon_flow
    BY <1>1, <1>2 DEF TypeOK, Sent, Transmitter
  <1>4. /\ tx \in Seq(Sent) /\ Len(tx) <= 1 /\ Len(tx) <= 2 /\ Len(tx) \in Nat
        /\ peer.sent \in Nat /\ peer.lag \in Nat /\ read + Room \in Nat
        /\ Busy(program) \in Nat \ {0}
    BY <1>1, <1>2, Types, UartAssumption DEF Transmitter, Busy
  <1>5. /\ tx' \in Seq(Sent) /\ Len(tx') = Len(tx) + 1
        /\ Says(tx', peer.paused) = pending_flow
    BY <1>2, <1>3, <1>4, SaysMore
  <1>6. Len(tx') <= 2
    BY <1>4, <1>5
  <1>7. peer' = peer /\ flow' = flow
    BY <1>2
  <1>8. Transmitter'
    BY <1>2, <1>3, <1>7 DEF Transmitter, xon_flow
  <1>9. Told = pending_flow /\ Told' = pending_flow
    BY <1>2, <1>5, <1>6, <1>7, ToldIs, ToldSays DEF ToldOf
  <1>10. ASSUME ~error, xon_flow, Told = "XOFF"
         PROVE  Bounded(pending_flow', tx', peer.paused, peer.sent, peer.lag, Busy(program'),
                        read + Room)
    <2>1. Bounded("XOFF", tx, peer.paused, peer.sent, peer.lag, Busy(program), read + Room)
      BY <1>1, <1>9, <1>10 DEF Stopping
    <2>2. tx' = Append(tx, "XOFF")
      BY <1>2, <1>9, <1>10
    <2> QED
      BY <1>4, <2>1, <2>2, BoundedBySending
  <1> QED
    BY <1>2, <1>3, <1>5, <1>6, <1>8, <1>9, <1>10, DeviceKeeps

\* ... and then its own byte.
LEMMA WriteByteKeeps ==
  ASSUME UartInv, WriteByte
  PROVE  UartInv'
  <1>1. TypeOK /\ Transmitter /\ Stopping
    BY DEF UartInv
  <1>2. /\ UNCHANGED <<flow, queueVars, rts, rx, read, peer>>
        /\ program \in {"ready", "go"} /\ program' = "idle"
        /\ program = "ready" => pending_flow = "none"
        /\ pending_flow' = pending_flow /\ ier_tx' = ier_tx
        /\ tx' = Append(tx, "data")
    BY DEF WriteByte, AtProgram
  <1>3. /\ pending_flow \in Flow \cup {"none"} /\ peer.paused \in BOOLEAN
        /\ ier_tx \in BOOLEAN /\ "data" \in Sent /\ "data" \notin Flow
    BY <1>1 DEF TypeOK, Sent, Flow
  <1>4. /\ tx \in Seq(Sent) /\ Len(tx) <= 1 /\ Len(tx) <= 2 /\ Len(tx) \in Nat
        /\ peer.sent \in Nat /\ peer.lag \in Nat /\ read + Room \in Nat
        /\ Busy(program) \in Nat /\ Busy(program') \in Nat
        /\ program = "go" => Busy(program') + 1 <= Busy(program)
    BY <1>1, <1>2, Types, UartAssumption DEF Transmitter, Busy
  <1>5. /\ tx' \in Seq(Sent) /\ Len(tx') = Len(tx) + 1 /\ tx'[Len(tx) + 1] = "data"
        /\ \A i \in 1 .. Len(tx) : tx'[i] = tx[i]
        /\ Says(tx', peer.paused) = Says(tx, peer.paused)
    BY <1>2, <1>3, <1>4, SaysMore
  <1>6. Len(tx') <= 2
    BY <1>4, <1>5
  <1>7. peer' = peer /\ flow' = flow
    BY <1>2
  <1>8. Transmitter'
    <2>1. (\A i \in 1 .. Len(tx) : tx[i] = "data") => \A i \in 1 .. Len(tx') : tx'[i] = "data"
      BY <1>4, <1>5
    <2> QED
      BY <1>1, <1>2, <1>7, <2>1 DEF Transmitter, xon_flow
  <1>9. Told' = Told
    <2>1. /\ Told = IF pending_flow # "none" THEN pending_flow ELSE Says(tx, peer.paused)
          /\ Told' = IF pending_flow # "none" THEN pending_flow ELSE Says(tx', peer.paused)
      <3>1. ToldOf(pending_flow, tx, peer.paused)
              = IF pending_flow # "none" THEN pending_flow ELSE Says(tx, peer.paused)
        BY <1>4, ToldSays
      <3>2. ToldOf(pending_flow, tx', peer.paused)
              = IF pending_flow # "none" THEN pending_flow ELSE Says(tx', peer.paused)
        BY <1>5, <1>6, ToldSays
      <3> QED
        BY <1>2, <1>7, <3>1, <3>2, ToldIs
    <2> QED
      BY <1>5, <2>1
  <1>10. ASSUME ~error, xon_flow, Told = "XOFF"
         PROVE  Bounded(pending_flow', tx', peer.paused, peer.sent, peer.lag, Busy(program'),
                        read + Room)
    <2>1. Bounded(pending_flow, tx, peer.paused, peer.sent, peer.lag, Busy(program),
                  read + Room)
      BY <1>1, <1>10 DEF Stopping
    <2>2. pending_flow = "XOFF" => Busy(program') + 1 <= Busy(program)
      BY <1>2, <1>4
    <2> QED
      BY <1>2, <1>4, <2>1, <2>2, BoundedByData
  <1> QED
    BY <1>2, <1>3, <1>5, <1>6, <1>8, <1>9, <1>10, DeviceKeeps

\* The program goes from one place to another.
LEMMA ProgramKeeps ==
  ASSUME UartInv,
         ReadChecked \/ WriteBegun \/ WriteFails \/ WriteReady \/ FlushBegun \/ Flushed
  PROVE  UartInv'
  <1>1. TypeOK /\ Transmitter /\ Stopping
    BY DEF UartInv
  <1>2. /\ UNCHANGED <<flow, queueVars, rts, rx, read, peer>>
        /\ UNCHANGED <<pending_flow, ier_tx, tx>>
        /\ program' \in {"idle", "checked", "wait", "ready", "go", "flush"}
        /\ program' \in {"ready", "go"} => tx = << >>
        /\ Busy(program') = Busy(program)
    BY DEF ReadChecked, WriteBegun, WriteFails, WriteReady, FlushBegun, Flushed, AtProgram,
           deviceVars, transmit_ready, Busy
  <1>3. /\ tx \in Seq(Sent) /\ Len(tx) <= 2 /\ ier_tx \in BOOLEAN
        /\ pending_flow \in Flow \cup {"none"}
    BY <1>1 DEF TypeOK, Sent
  <1>4. flow' = flow /\ peer' = peer /\ tx' = tx
    BY <1>2
  <1>5. Transmitter'
    <2>1. tx = << >> => Len(tx) <= 1
      OBVIOUS
    <2> QED
      BY <1>1, <1>2, <1>4, <2>1 DEF Transmitter, xon_flow
  <1>6. Told' = Told
    BY <1>2, <1>4, ToldIs
  <1>7. ~error /\ xon_flow /\ Told = "XOFF" =>
          Bounded(pending_flow', tx', peer.paused, peer.sent, peer.lag, Busy(program'),
                  read + Room)
    BY <1>1, <1>2 DEF Stopping
  <1> QED
    BY <1>2, <1>3, <1>5, <1>6, <1>7, DeviceKeeps

----------------------------------------------------------------------------
(* The line.                                                               *)

\* A byte that comes has the number that follows.
LEMMA Arrived ==
  ASSUME TypeOK, Contiguous, Numbers, NEW s \in Byte, NEW k \in Sent,
         s = IF k = "data" THEN peer.sent + 1 ELSE peer.sent,
         rx' = Append(rx, <<s, k>>), peer'.sent = s, Len(rx) < Trigger,
         UNCHANGED <<ring, head, tail, error, read>>
  PROVE  /\ rx' \in Seq(Byte \X Sent) /\ Len(rx') <= Trigger
         /\ Contiguous' /\ Numbers'
  <1> DEFINE n == Len(rx)  c == ring_count(head, tail)
  <1>1. /\ rx \in Seq(Byte \X Sent) /\ n \in Nat /\ peer.sent \in Nat /\ c \in Nat
        /\ read \in Nat
    BY Types
  <1>2. <<s, k>> \in Byte \X Sent /\ Trigger \in Nat
    BY UartAssumption
  <1>3. /\ rx' \in Seq(Byte \X Sent) /\ Len(rx') = n + 1
        /\ rx'[n + 1] = <<s, k>> /\ \A i \in 1 .. n : rx'[i] = rx[i]
    BY <1>1, <1>2, AppendProperties
  <1>4. rx'[n + 1][1] = s /\ rx'[n + 1][2] = k
    BY <1>3
  <1>5. c' = c /\ peer.sent <= s /\ s <= peer.sent + 1 /\ s \in Nat
    BY <1>1
  <1>6. n < Trigger
    OBVIOUS
  <1>7. Numbers'
    <2>1. \A i \in 1 .. n : rx[i][1] <= peer.sent
      BY DEF Numbers
    <2>2. ASSUME NEW i \in 1 .. n PROVE rx'[i][1] <= s
      <3>1. rx[i] \in Byte \X Sent
        BY <1>1
      <3>2. rx[i][1] \in Nat
        BY <3>1 DEF Byte
      <3> QED
        BY <1>1, <1>3, <1>5, <2>1, <3>2
    <2>3. \A i \in 1 .. n + 1 : rx'[i][1] <= s
      <3>1. \A i \in 1 .. n + 1 : i = n + 1 \/ i \in 1 .. n
        BY <1>1
      <3> QED
        BY <1>4, <1>5, <2>2, <3>1
    <2>4. ~error => peer.sent <= read + c + n
      BY DEF Numbers
    <2>5. ~error => s <= read + c + (n + 1)
      BY <1>1, <1>5, <2>4
    <2> QED
      BY <1>3, <1>5, <2>3, <2>5 DEF Numbers
  <1>8. Contiguous'
    <2>1. SUFFICES ASSUME ~error PROVE Contiguous'
      BY DEF Contiguous
    <2>2. /\ \A i \in 1 .. c : ring[(tail + i - 1) % RING_SIZE] = read + i
          /\ \A i \in 1 .. n :
               Number(i) = IF rx[i][2] = "data" THEN Number(i - 1) + 1 ELSE Number(i - 1)
          /\ Number(n) = peer.sent
      BY <2>1 DEF Contiguous
    <2> DEFINE Later(i) == IF i = 0 THEN read + c ELSE rx'[i][1]
    <2>3. \A i \in 0 .. n : Later(i) = Number(i)
      BY <1>1, <1>3 DEF Number
    <2>4. Later(n + 1) = s
      BY <1>1, <1>4
    <2> HIDE DEF Later
    <2>5. ASSUME NEW i \in 1 .. n
          PROVE  Later(i) = IF rx'[i][2] = "data" THEN Later(i - 1) + 1 ELSE Later(i - 1)
      <3>1. i \in 0 .. n /\ i - 1 \in 0 .. n
        BY <1>1
      <3>2. rx'[i] = rx[i]
        BY <1>3
      <3> QED
        BY <2>2, <2>3, <3>1, <3>2
    <2>6. Later(n + 1) = IF rx'[n + 1][2] = "data" THEN Later(n) + 1 ELSE Later(n)
      <3>1. Later(n) = peer.sent
        BY <1>1, <2>2, <2>3
      <3> QED
        BY <1>4, <2>4, <3>1
    <2>7. \A i \in 1 .. n + 1 :
            Later(i) = IF rx'[i][2] = "data" THEN Later(i - 1) + 1 ELSE Later(i - 1)
      <3>1. \A i \in 1 .. n + 1 : i = n + 1 \/ i \in 1 .. n
        BY <1>1
      <3>2. n + 1 - 1 = n
        BY <1>1
      <3> QED
        BY <2>5, <2>6, <3>1, <3>2
    <2> QED
      BY <1>3, <1>5, <2>1, <2>2, <2>4, <2>7 DEF Contiguous, Number, Later
  <1> QED
    BY <1>3, <1>1, <1>2, <1>6, <1>7, <1>8

\* The line's clock: a byte is sent, which may be the XOFF the peer was told, and a
\* byte may come, as long as the peer may send one.
LEMMA ByteTimeKeeps ==
  ASSUME UartInv, ByteTime
  PROVE  UartInv'
  <1>1. TypeOK /\ Contiguous /\ HeldBackOnlyWhenFull /\ Transmitter /\ Numbers /\ Marks /\ Stopping
    BY DEF UartInv
  <1> DEFINE paused == IF tx # << >> /\ tx[1] \in Flow THEN tx[1] = "XOFF" ELSE peer.paused
             rested == IF Stopped THEN peer.lag ELSE Lag
  <1>2. /\ Len(rx) < Trigger /\ ~(ier_tx /\ tx = << >>)
        /\ tx' = IF tx = << >> THEN tx ELSE Tail(tx)
        /\ UNCHANGED <<flow, queueVars, pending_flow, ier_tx, rts, program, read>>
    BY DEF ByteTime, Served
  <1>3. \/ rx' = rx /\ peer' = [peer EXCEPT !.paused = paused, !.lag = rested]
        \/ /\ xon_flow /\ \E f \in Flow : rx' = Append(rx, <<peer.sent, f>>)
           /\ peer' = [peer EXCEPT !.paused = paused, !.lag = rested]
        \/ /\ Stopped => peer.lag > 0
           /\ peer.sent + 1 <= MaxSent /\ rx' = Append(rx, <<peer.sent + 1, "data">>)
           /\ peer' = [sent |-> peer.sent + 1, paused |-> paused,
                       lag |-> IF Stopped THEN peer.lag - 1 ELSE Lag]
    BY DEF ByteTime
  <1>4. /\ tx \in Seq(Sent) /\ Len(tx) <= 2 /\ Len(tx) \in Nat
        /\ peer \in [sent : Byte, paused : BOOLEAN, lag : 0 .. Lag]
        /\ peer.sent \in Nat /\ peer.lag \in 0 .. Lag /\ peer.paused \in BOOLEAN
        /\ read + Room \in Nat /\ Busy(program) \in Nat /\ Lag \in Nat
        /\ pending_flow \in Flow \cup {"none"} /\ ier_tx \in BOOLEAN
    BY <1>1, Types, UartAssumption, SMTT(60) DEF TypeOK
  <1>5. /\ paused \in BOOLEAN
        /\ paused = IF tx # << >> /\ tx[1] \in Flow THEN tx[1] = "XOFF" ELSE peer.paused
    BY <1>4
  <1>6. rested \in 0 .. Lag /\ (Stopped => rested = peer.lag)
    BY <1>4
  <1> HIDE DEF paused, rested
  <1>7. /\ peer' \in [sent : Byte, paused : BOOLEAN, lag : 0 .. Lag]
        /\ peer'.paused = paused
        /\ peer'.sent \in {peer.sent, peer.sent + 1} /\ peer'.lag \in 0 .. Lag
        /\ Stopped => peer'.sent + peer'.lag <= peer.sent + peer.lag
    <2>1. CASE peer' = [peer EXCEPT !.paused = paused, !.lag = rested]
      <3>1. peer'.sent = peer.sent /\ peer'.paused = paused /\ peer'.lag = rested
        BY <1>4, <2>1
      <3>2. peer' \in [sent : Byte, paused : BOOLEAN, lag : 0 .. Lag]
        BY <1>4, <1>5, <1>6, <2>1
      <3>3. rested \in Nat /\ rested <= Lag
        BY <1>4, <1>6
      <3>4. Stopped => peer'.sent + peer'.lag <= peer.sent + peer.lag
        BY <1>4, <1>6, <3>1, <3>3
      <3> QED
        BY <1>6, <3>1, <3>2, <3>4
    <2>2. CASE /\ Stopped => peer.lag > 0
               /\ peer.sent + 1 <= MaxSent
               /\ peer' = [sent |-> peer.sent + 1, paused |-> paused,
                           lag |-> IF Stopped THEN peer.lag - 1 ELSE Lag]
      <3>1. peer.sent + 1 \in Byte
        BY <1>4, <2>2, UartAssumption DEF Byte
      <3>2. (IF Stopped THEN peer.lag - 1 ELSE Lag) \in 0 .. Lag
        BY <1>4, <2>2
      <3> QED
        BY <1>4, <1>5, <2>2, <3>1, <3>2
    <2> QED
      BY <1>3, <2>1, <2>2
  <1>8. /\ rx' \in Seq(Byte \X Sent) /\ Len(rx') <= Trigger
        /\ Contiguous' /\ Numbers'
    <2>1. UNCHANGED <<ring, head, tail, error, read>>
      BY <1>2 DEF queueVars
    <2>2. CASE rx' = rx /\ peer'.sent = peer.sent
      BY <1>1, <1>2, <2>1, <2>2, Types DEF Contiguous, Number, Numbers
    <2>3. ASSUME NEW f \in Flow, rx' = Append(rx, <<peer.sent, f>>), peer'.sent = peer.sent
          PROVE  /\ rx' \in Seq(Byte \X Sent) /\ Len(rx') <= Trigger
                 /\ Contiguous' /\ Numbers'
      <3>1. peer.sent \in Byte /\ f \in Sent /\ f # "data"
        BY <1>4 DEF Sent, Flow
      <3> QED
        BY <1>1, <1>2, <2>1, <2>3, <3>1, Arrived
    <2>4. CASE /\ rx' = Append(rx, <<peer.sent + 1, "data">>)
               /\ peer'.sent = peer.sent + 1 /\ peer.sent + 1 <= MaxSent
      <3>1. peer.sent + 1 \in Byte /\ "data" \in Sent
        BY <1>4, <2>4, UartAssumption DEF Sent, Byte
      <3> QED
        BY <1>1, <1>2, <2>1, <2>4, <3>1, Arrived
    <2>5. peer' = [peer EXCEPT !.paused = paused, !.lag = rested] => peer'.sent = peer.sent
      BY <1>4
    <2> QED
      BY <1>3, <2>2, <2>3, <2>4, <2>5
  <1>9. /\ tx' \in Seq(Sent) /\ Len(tx') <= 2 /\ Len(tx') \in Nat /\ Len(tx') <= Len(tx)
        /\ Says(tx', paused) = Says(tx, peer.paused)
        /\ (\A i \in 1 .. Len(tx) : tx[i] = "data") => \A i \in 1 .. Len(tx') : tx'[i] = "data"
    <2>1. CASE tx = << >>
      BY <1>2, <1>4, <1>5, <2>1
    <2>2. CASE tx # << >>
      <3>1. paused = IF tx[1] \in Flow THEN tx[1] = "XOFF" ELSE peer.paused
        BY <1>5, <2>2
      <3>2. /\ Tail(tx) \in Seq(Sent) /\ Len(Tail(tx)) = Len(tx) - 1
            /\ \A i \in 1 .. Len(tx) - 1 : Tail(tx)[i] = tx[i + 1]
            /\ Says(Tail(tx), paused) = Says(tx, peer.paused)
        BY <1>4, <2>2, <3>1, SaysLess
      <3>3. tx' = Tail(tx)
        BY <1>2, <2>2
      <3>4. Len(tx) - 1 \in Nat
        BY <1>4, <2>2, <3>2
      <3>5. \A i \in 1 .. Len(tx) - 1 : i + 1 \in 1 .. Len(tx)
        BY <1>4
      <3> QED
        BY <1>4, <3>2, <3>3, <3>4, <3>5
    <2> QED
      BY <2>1, <2>2
  <1>10. /\ flow' = flow /\ pending_flow' = pending_flow /\ ier_tx' = ier_tx /\ rts' = rts
         /\ program' = program /\ read' = read /\ error' = error
         /\ ring_count(head', tail') = ring_count(head, tail)
         /\ xon_flow' = xon_flow /\ hardware_flow' = hardware_flow
    BY <1>2 DEF queueVars, xon_flow, hardware_flow
  <1>11. Told' = Told
    <2>1. ToldOf(pending_flow, tx, peer.paused)
            = IF pending_flow # "none" THEN pending_flow ELSE Says(tx, peer.paused)
      BY <1>4, ToldSays
    <2>2. ToldOf(pending_flow, tx', paused)
            = IF pending_flow # "none" THEN pending_flow ELSE Says(tx', paused)
      BY <1>9, ToldSays
    <2> QED
      BY <1>7, <1>9, <1>10, <2>1, <2>2, ToldIs
  <1>12. TypeOK'
    BY <1>1, <1>2, <1>7, <1>8, <1>9, <1>10 DEF TypeOK, queueVars, Sent
  <1>13. Transmitter'
    <2>1. program \in {"ready", "go"} => Len(tx') <= 1
      BY <1>1, <1>4, <1>9 DEF Transmitter
    <2>2. pending_flow # "none" => ier_tx /\ xon_flow
      BY <1>1 DEF Transmitter
    <2>3. ~xon_flow => ~paused /\ \A i \in 1 .. Len(tx') : tx'[i] = "data"
      <3>1. ASSUME ~xon_flow PROVE ~paused
        <4>1. ~peer.paused /\ \A i \in 1 .. Len(tx) : tx[i] = "data"
          BY <1>1, <3>1 DEF Transmitter
        <4>2. tx # << >> => tx[1] = "data"
          BY <1>4, <4>1
        <4> QED
          BY <1>5, <4>1, <4>2 DEF Flow
      <3> QED
        BY <1>1, <1>9, <3>1 DEF Transmitter
    <2> QED
      BY <1>7, <1>10, <2>1, <2>2, <2>3 DEF Transmitter
  <1>14. HeldBackOnlyWhenFull' /\ Marks'
    BY <1>1, <1>10, <1>11 DEF HeldBackOnlyWhenFull, Marks
  <1>15. Stopping'
    <2>1. SUFFICES ASSUME ~error
                   PROVE  /\ hardware_flow /\ ~rts => peer'.sent + peer'.lag <= read + Room
                          /\ xon_flow /\ Told = "XOFF" =>
                               Bounded(pending_flow, tx', peer'.paused, peer'.sent, peer'.lag,
                                       Busy(program), read + Room)
      BY <1>10, <1>11 DEF Stopping, Busy, Room
    <2>2. ASSUME hardware_flow, ~rts
          PROVE  peer'.sent + peer'.lag <= read + Room
      <3>1. Stopped /\ peer.sent + peer.lag <= read + Room
        BY <1>1, <2>1, <2>2 DEF Stopped, Stopping
      <3>2. peer'.sent \in Nat /\ peer'.lag \in Nat
        BY <1>4, <1>7
      <3> QED
        BY <1>4, <1>7, <3>1, <3>2
    <2>3. ASSUME xon_flow, Told = "XOFF"
          PROVE  Bounded(pending_flow, tx', paused, peer'.sent, peer'.lag,
                         Busy(program), read + Room)
      <3>1. Bounded(pending_flow, tx, peer.paused, peer.sent, peer.lag, Busy(program),
                    read + Room)
        BY <1>1, <2>1, <2>3 DEF Stopping
      <3>2. pending_flow = "XOFF" => tx # << >>
        BY <1>1, <1>2 DEF Transmitter
      <3>3. peer.paused => peer'.sent + peer'.lag <= peer.sent + peer.lag
        BY <1>7 DEF Stopped
      <3>4. /\ tx # << >> /\ tx[1] = "XOFF" => paused
            /\ peer.paused /\ (\A i \in 1 .. Len(tx) : tx[i] # "XON") => paused
        <4>1. tx # << >> => 1 \in 1 .. Len(tx)
          BY <1>4
        <4> QED
          BY <1>5, <4>1 DEF Flow
      <3> DEFINE most == read + Room  busy == Busy(program)  sent == peer.sent
                 lag == peer.lag  before == peer.paused
                 u == tx'  later == peer'.sent  left == peer'.lag
      <3>5. /\ lag \in Nat /\ sent \in Nat /\ most \in Nat /\ busy \in Nat
            /\ tx \in Seq(Sent) /\ Len(tx) <= 2
            /\ u = IF tx = << >> THEN tx ELSE Tail(tx)
            /\ tx # << >> /\ tx[1] = "XOFF" => paused
            /\ before /\ (\A i \in 1 .. Len(tx) : tx[i] # "XON") => paused
            /\ later \in Nat /\ later \in {sent, sent + 1} /\ left \in 0 .. Lag
            /\ before => later + left <= sent + lag
            /\ Bounded(pending_flow, tx, before, sent, lag, busy, most)
        BY <1>2, <1>4, <1>7, <3>1, <3>3, <3>4
      <3> HIDE DEF most, busy, sent, lag, before, u, later, left
      <3>6. Bounded(pending_flow, u, paused, later, left, busy, most)
        BY <3>2, <3>5, BoundedLater
      <3> QED
        BY <3>6 DEF u, later, left, busy, most
    <2> QED
      BY <1>7, <2>2, <2>3
  <1> QED
    BY <1>8, <1>12, <1>13, <1>14, <1>15 DEF UartInv

\* After an error of the line nothing is promised of the data until the next purge.
LEMMA LineErrorKeeps ==
  ASSUME UartInv, LineError
  PROVE  UartInv'
  <1>1. TypeOK /\ HeldBackOnlyWhenFull /\ Transmitter /\ Numbers /\ Marks
    BY DEF UartInv
  <1>2. /\ error' = TRUE
        /\ UNCHANGED <<flow, ring, head, tail, tx_paused, deviceVars, rx, program, read, peer>>
    BY DEF LineError
  <1>3. /\ flow' = flow /\ pending_flow' = pending_flow /\ ier_tx' = ier_tx /\ rts' = rts
        /\ tx' = tx /\ peer' = peer /\ program' = program /\ rx' = rx
        /\ ring_count(head', tail') = ring_count(head, tail)
        /\ xon_flow' = xon_flow /\ hardware_flow' = hardware_flow
    BY <1>2 DEF deviceVars, xon_flow, hardware_flow
  <1>4. Told' = Told
    BY <1>3, ToldIs
  <1>5. TypeOK'
    BY <1>1, <1>2, <1>3 DEF TypeOK
  <1>6. HeldBackOnlyWhenFull' /\ Marks'
    BY <1>1, <1>3, <1>4 DEF HeldBackOnlyWhenFull, Marks
  <1>7. Transmitter'
    BY <1>1, <1>3 DEF Transmitter
  <1>8. Contiguous' /\ Stopping' /\ Numbers'
    BY <1>1, <1>2, <1>3 DEF Contiguous, Stopping, Numbers
  <1> QED
    BY <1>5, <1>6, <1>7, <1>8 DEF UartInv

----------------------------------------------------------------------------
(* The theorems.                                                           *)

\* Every step keeps the invariant.
LEMMA Step == UartInv /\ [Next]_vars => UartInv'
  <1> SUFFICES ASSUME UartInv, [Next]_vars PROVE UartInv'
    OBVIOUS
  <1>1. CASE ReceiveInterrupt
    BY <1>1, ReceiveKeeps
  <1>2. CASE TransmitInterrupt
    BY <1>2, TransmitKeeps
  <1>3. CASE ByteTime
    BY <1>3, ByteTimeKeeps
  <1>4. CASE LineError
    BY <1>4, LineErrorKeeps
  <1>5. CASE ReadChecked \/ WriteBegun \/ WriteFails \/ WriteReady \/ FlushBegun \/ Flushed
    BY <1>5, ProgramKeeps
  <1>6. CASE ReadTaken
    BY <1>6, TakenKeeps
  <1>7. CASE Purged
    BY <1>7, PurgedKeeps
  <1>8. CASE WriteFlow
    BY <1>8, WriteFlowKeeps
  <1>9. CASE WriteByte
    BY <1>9, WriteByteKeeps
  <1>10. CASE UNCHANGED vars
    <2>1. TypeOK /\ Transmitter /\ Stopping
      BY DEF UartInv
    <2>2. /\ UNCHANGED <<flow, queueVars, rts, rx, read, peer>>
          /\ pending_flow' = pending_flow /\ ier_tx' = ier_tx /\ tx' = tx
          /\ program' = program /\ flow' = flow /\ peer' = peer
      BY <1>10 DEF vars, deviceVars
    <2>3. /\ pending_flow \in Flow \cup {"none"} /\ ier_tx \in BOOLEAN
          /\ tx \in Seq(Sent) /\ Len(tx) <= 2
          /\ program \in {"idle", "checked", "wait", "ready", "flow", "go", "flush"}
      BY <2>1 DEF TypeOK, Sent
    <2>4. Transmitter'
      BY <2>1, <2>2 DEF Transmitter, xon_flow
    <2>5. Told' = Told
      BY <2>2, ToldIs
    <2>6. ~error /\ xon_flow /\ Told = "XOFF" =>
            Bounded(pending_flow', tx', peer.paused, peer.sent, peer.lag, Busy(program'),
                    read + Room)
      BY <2>1, <2>2 DEF Stopping
    <2> QED
      BY <2>2, <2>3, <2>4, <2>5, <2>6, DeviceKeeps
  <1> QED
    BY <1>1, <1>2, <1>3, <1>4, <1>5, <1>6, <1>7, <1>8, <1>9, <1>10 DEF Next

\* The driver keeps its inductive invariant, in whatever order its interrupts, the line
\* and the program's steps come.
THEOREM Invariance == Spec => []UartInv
  <1> QED
    BY Initial, Step, PTL DEF Spec

\* Every variable of the driver stays in its type; the ring's indices stay in the ring
\* and the UART's buffers in their size (receive_byte, uart_read, uart_purge).
THEOREM TypeCorrect == Spec => []TypeOK
  <1>1. UartInv => TypeOK
    BY DEF UartInv
  <1> QED
    BY <1>1, Invariance, PTL

\* As long as no error is reported no byte is lost, doubled or out of order between the
\* line and the program (receive_byte, uart_read, uart_purge).
THEOREM NothingLost == Spec => []Contiguous
  <1>1. UartInv => Contiguous
    BY DEF UartInv
  <1> QED
    BY <1>1, Invariance, PTL

\* The peer is told to stop, or RTS dropped, only while the ring is above its low mark
\* (update_receive_flow after uart_read and uart_purge).
THEOREM HeldBack == Spec => []HeldBackOnlyWhenFull
  <1>1. UartInv => HeldBackOnlyWhenFull
    BY DEF UartInv
  <1> QED
    BY <1>1, Invariance, PTL

\* With flow control the room above the high mark is enough: the ring never overruns,
\* however the program writes, waits and flushes (schedule_flow, update_receive_flow).
THEOREM NeverOverruns == Spec => NoOverrun
  <1>1. UartInv /\ [Next]_vars => [ReceiveInterrupt /\ flow # {} => error' = error]_vars
    BY ReceiveKeeps
  <1> QED
    BY <1>1, Invariance, PTL DEF Spec, NoOverrun

=============================================================================
