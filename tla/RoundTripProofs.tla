--------------------------- MODULE RoundTripProofs ---------------------------
(***************************************************************************)
(* What tx_header and tx_data write, rx_header and rx_data take apart      *)
(* again: over every line that an encoding is used on, a header and a      *)
(* subpacket are read as they were sent.  Pack-7's data are left to the    *)
(* runs of MCFraming, hexadecimal headers are in FramingProofs.            *)
(***************************************************************************)
EXTENDS FramingProofs

----------------------------------------------------------------------------
(* Sequences that grow.                                                    *)

\* Induction on the end of a sequence, for a set.
LEMMA SequenceInduction ==
  ASSUME NEW S, NEW T, << >> \in T, \A s \in Seq(S), x \in S : s \in T => Append(s, x) \in T
  PROVE  Seq(S) \subseteq T
  <1> SUFFICES ASSUME NEW s \in Seq(S) PROVE s \in T
    OBVIOUS
  <1> DEFINE n == Len(s)  U == {k \in 0 .. n : SubSeq(s, 1, k) \in T}
  <1>1. n \in Nat /\ \A i \in 1 .. n : s[i] \in S
    BY SeqElements
  <1>2. 0 \in U
    <2>1. SubSeq(s, 1, 0) = << >>
      OBVIOUS
    <2>2. 0 \in 0 .. n
      BY <1>1
    <2>3. SubSeq(s, 1, 0) \in T
      BY <2>1
    <2> QED
      BY <2>2, <2>3
  <1>3. ASSUME NEW k \in 0 .. n - 1, k \in U PROVE k + 1 \in U
    <2> DEFINE p == SubSeq(s, 1, k)
    <2>1. s[k + 1] \in S /\ k + 1 \in 0 .. n
      BY <1>1
    <2>2. p \in Seq(S) /\ Append(p, s[k + 1]) = SubSeq(s, 1, k + 1)
      OBVIOUS
    <2>3. p \in T
      BY <1>3
    <2> HIDE DEF p
    <2> QED
      BY <2>1, <2>2, <2>3
  <1>4. \A k \in 0 .. n - 1 : k \in U => k + 1 \in U
    BY <1>3
  <1>5. SubSeq(s, 1, n) = s /\ n \in 0 .. n
    BY <1>1
  <1> HIDE DEF U, n
  <1>6. \A k \in 0 .. n : k \in U
    BY <1>1, <1>2, <1>4, BoundedInduction
  <1> QED
    BY <1>5, <1>6 DEF U

LEMMA AppendIs ==
  ASSUME NEW S, NEW s \in Seq(S), NEW x \in S
  PROVE  /\ Append(s, x) \in Seq(S) /\ Len(Append(s, x)) = Len(s) + 1 /\ Len(s) \in Nat
         /\ \A i \in 1 .. Len(s) : Append(s, x)[i] = s[i]
         /\ Append(s, x)[Len(s) + 1] = x
         /\ \A t \in Seq(S) : t \o Append(s, x) = Append(t \o s, x)
         /\ s \o <<x>> = Append(s, x)
  OBVIOUS

LEMMA JoinedThrice ==
  ASSUME NEW S, NEW s \in Seq(S), NEW t \in Seq(S), NEW u \in Seq(S)
  PROVE  (s \o t) \o u = s \o (t \o u)
  OBVIOUS

LEMMA NothingJoined ==
  ASSUME NEW S, NEW s \in Seq(S)
  PROVE  s \o << >> = s /\ << >> \o s = s
  OBVIOUS

\* A last part.
LEMMA FlattenMore ==
  ASSUME NEW S, NEW parts \in Seq(Seq(S)), NEW x \in Seq(S)
  PROVE  FlattenSeq(Append(parts, x)) = FlattenSeq(parts) \o x
  <1> DEFINE more == Append(parts, x)  n == Len(parts)
  <1>1. /\ more \in Seq(Seq(S)) /\ Len(more) = n + 1 /\ n \in Nat
        /\ \A i \in 1 .. n : more[i] = parts[i]
        /\ more[n + 1] = x
    BY AppendIs
  <1>2. PICK g : /\ g[0] = << >> /\ \A i \in 1 .. n : g[i] = g[i - 1] \o parts[i]
                 /\ FlattenSeq(parts) = g[n]
    BY Flattening
  <1> HIDE DEF more
  <1>3. PICK h : /\ h[0] = << >> /\ \A i \in 1 .. Len(more) : h[i] = h[i - 1] \o more[i]
                 /\ FlattenSeq(more) = h[Len(more)]
    BY <1>1, Flattening
  <1> HIDE DEF n
  <1>4. \A i \in 0 .. n - 1 : g[i] = h[i] => g[i + 1] = h[i + 1]
    <2> TAKE i \in 0 .. n - 1
    <2>1. i + 1 \in 1 .. n /\ i + 1 \in 1 .. n + 1 /\ (i + 1) - 1 = i
      BY <1>1
    <2> QED
      BY <1>1, <1>2, <1>3, <2>1
  <1>5. g[n] = h[n]
    <2>1. \A i \in 0 .. n : g[i] = h[i]
      <3>1. n \in Nat /\ g[0] = h[0]
        BY <1>1, <1>2, <1>3
      <3> QED
        BY <1>4, <3>1, SameChain
    <2>2. n \in 0 .. n
      BY <1>1
    <2> QED
      BY <2>1, <2>2
  <1>6. h[n + 1] = h[n] \o x
    <2>1. n + 1 \in 1 .. n + 1 /\ (n + 1) - 1 = n
      BY <1>1
    <2> QED
      BY <1>1, <1>3, <2>1
  <1> QED
    BY <1>1, <1>2, <1>3, <1>5, <1>6 DEF more

----------------------------------------------------------------------------
(* What a line makes of bytes sent one after another.                      *)

LEMMA PassedSeq ==
  ASSUME NEW line \in Lines, NEW c \in Byte
  PROVE  Passed(line, c) \in Seq(Byte)
  <1> DEFINE p == Passed(line, c)
  <1>1. p = << >> \/ \E d \in Byte : p = <<d>>
    BY PassedIs
  <1> HIDE DEF p
  <1>2. CASE p = << >>
    BY <1>2 DEF p
  <1>3. CASE \E d \in Byte : p = <<d>>
    <2>1. PICK d \in Byte : p = <<d>>
      BY <1>3
    <2>2. <<d>> \in Seq(Byte)
      OBVIOUS
    <2> QED
      BY <2>1, <2>2 DEF p
  <1> QED
    BY <1>1, <1>2, <1>3

LEMMA ThroughNone == \A line \in Lines : Through(line, << >>) = << >>
  <1> TAKE line \in Lines
  <1>1. [i \in 1 .. Len(<< >>) |-> Passed(line, << >>[i])] = << >>
    OBVIOUS
  <1>2. FlattenSeq(<< >>) = << >>
    BY DEF FlattenSeq
  <1> QED
    BY <1>1, <1>2 DEF Through

LEMMA ThroughMore ==
  ASSUME NEW line \in Lines, NEW b \in Seq(Byte), NEW c \in Byte
  PROVE  Through(line, Append(b, c)) = Through(line, b) \o Passed(line, c)
  <1> DEFINE n == Len(b)  more == Append(b, c)
             parts == [i \in 1 .. n |-> Passed(line, b[i])]
             all == [i \in 1 .. Len(more) |-> Passed(line, more[i])]
             x == Passed(line, c)
  <1>1. /\ n \in Nat /\ Len(more) = n + 1 /\ more[n + 1] = c
        /\ \A i \in 1 .. n : more[i] = b[i]
    BY AppendIs
  <1>2. parts \in Seq(Seq(Byte)) /\ x \in Seq(Byte)
    BY PassedBytes, PassedSeq
  <1>3. Through(line, b) = FlattenSeq(parts) /\ Through(line, more) = FlattenSeq(all)
    BY DEF Through
  <1>4. all = Append(parts, x)
    <2>1. Len(parts) = n /\ Len(Append(parts, x)) = n + 1
          /\ \A i \in 1 .. n + 1 : Append(parts, x)[i] = IF i <= n THEN parts[i] ELSE x
      <3>1. Len(parts) = n
        BY <1>1
      <3> HIDE DEF parts, x, n
      <3>2. /\ Len(Append(parts, x)) = n + 1
            /\ \A i \in 1 .. n : Append(parts, x)[i] = parts[i]
            /\ Append(parts, x)[n + 1] = x
        BY <1>2, <3>1, AppendIs
      <3> QED
        BY <1>1, <3>1, <3>2
    <2>2. Append(parts, x) = [i \in 1 .. n + 1 |-> Append(parts, x)[i]]
      <3>1. Append(parts, x) \in Seq(Seq(Byte))
        <4> HIDE DEF parts, x
        <4> QED
          BY <1>2, AppendIs
      <3> DEFINE y == Append(parts, x)
      <3>2. y \in Seq(Seq(Byte)) /\ Len(y) = n + 1
        BY <2>1, <3>1
      <3> HIDE DEF y
      <3>3. y = [i \in 1 .. n + 1 |-> y[i]]
        BY <3>2
      <3> QED
        BY <3>3 DEF y
    <2>3. \A i \in 1 .. n + 1 : all[i] = Append(parts, x)[i]
      <3> TAKE i \in 1 .. n + 1
      <3>1. CASE i <= n
        <4>1. i \in 1 .. n /\ all[i] = Passed(line, more[i]) /\ parts[i] = Passed(line, b[i])
          BY <1>1, <3>1
        <4> HIDE DEF all, parts, x
        <4> QED
          BY <1>1, <2>1, <3>1, <4>1
      <3>2. CASE ~(i <= n)
        <4>1. i = n + 1 /\ all[i] = Passed(line, more[i])
          BY <1>1, <3>2
        <4> HIDE DEF all, parts
        <4> QED
          BY <1>1, <2>1, <3>2, <4>1
      <3> QED
        BY <3>1, <3>2
    <2>4. all = [i \in 1 .. n + 1 |-> all[i]]
      BY <1>1
    <2> HIDE DEF all, parts, x
    <2> QED
      BY <2>2, <2>3, <2>4
  <1> HIDE DEF parts, all, x
  <1> QED
    BY <1>2, <1>3, <1>4, FlattenMore DEF x, more

LEMMA ThroughJoined ==
  ASSUME NEW line \in Lines, NEW a \in Seq(Byte), NEW b \in Seq(Byte)
  PROVE  Through(line, a \o b) = Through(line, a) \o Through(line, b)
  <1> DEFINE T == {s \in Seq(Byte) : Through(line, a \o s) = Through(line, a) \o Through(line, s)}
  <1>1. << >> \in T
    <2>1. Through(line, a) \in Seq(Byte)
      BY ThroughBytes
    <2> QED
      BY <2>1, ThroughNone, NothingJoined
  <1>2. \A s \in Seq(Byte), c \in Byte : s \in T => Append(s, c) \in T
    <2> TAKE s \in Seq(Byte), c \in Byte
    <2> HAVE s \in T
    <2> DEFINE t == Append(s, c)  u == Through(line, a)  v == Through(line, s)  x == Passed(line, c)
    <2>1. t \in Seq(Byte) /\ a \o t = Append(a \o s, c) /\ a \o s \in Seq(Byte)
      BY AppendIs, Joined
    <2>2. u \in Seq(Byte) /\ v \in Seq(Byte) /\ x \in Seq(Byte)
      BY ThroughBytes, PassedSeq
    <2>3. Through(line, t) = v \o x /\ Through(line, Append(a \o s, c)) = Through(line, a \o s) \o x
      BY <2>1, ThroughMore
    <2>4. Through(line, a \o s) = u \o v
      OBVIOUS
    <2> HIDE DEF t, u, v, x
    <2>5. (u \o v) \o x = u \o (v \o x)
      BY <2>2, JoinedThrice, SMTT(60)
    <2> QED
      BY <2>1, <2>3, <2>4, <2>5 DEF t, u
  <1> HIDE DEF T
  <1>3. b \in T
    BY <1>1, <1>2, SequenceInduction
  <1> QED
    BY <1>3 DEF T

LEMMA ThroughOne ==
  ASSUME NEW line \in Lines, NEW c \in Byte
  PROVE  Through(line, <<c>>) = Passed(line, c)
  <1>1. << >> \in Seq(Byte) /\ <<c>> = Append(<< >>, c)
    OBVIOUS
  <1>2. Through(line, <<c>>) = << >> \o Passed(line, c)
    BY <1>1, ThroughMore, ThroughNone
  <1> QED
    BY <1>2, PassedSeq, NothingJoined

----------------------------------------------------------------------------
(* rx_header and rx_data take the bytes one after another.                 *)

\* The way is "header" or "data".
Taking(way, r, c) == IF way = "header" THEN rx_header(r, c) ELSE rx_data(r, c)

\* A byte that is left over spoils what was read before it.
Advance(way, r, c) == IF r.event = "none" THEN Taking(way, r, c) ELSE [r EXCEPT !.event = "invalid"]

\* The one or the other, from the receiver r, for the bytes b.  If it returns before the last of
\* them, the outcome is "invalid".
ReadAll(way, r, b) ==
  LET read(s, c) == IF s.event = "none" THEN Taking(way, s, c) ELSE [s EXCEPT !.event = "invalid"]
  IN  Along(read, r, b)

Reading(way) ==
  {r \in Good : /\ IF way = "header" THEN r.at \in AtHeader ELSE Receives(r)
                /\ r.event = "none" => r.cancel \in 0 .. 4}

LEMMA AdvanceReads ==
  ASSUME NEW way, NEW r \in Reading(way), NEW c \in Byte
  PROVE  Advance(way, r, c) \in Reading(way)
  <1>1. r \in Good /\ (r.event = "none" => r.cancel \in 0 .. 4)
    BY DEF Reading
  <1>2. CASE r.event = "none"
    <2> DEFINE s == Taking(way, r, c)
    <2>1. Steered(r)
      BY <1>1, GoodIs
    <2>2. CASE way = "header"
      <3>1. r.at \in AtHeader /\ s = rx_header(r, c)
        BY <2>2 DEF Reading, Taking
      <3>2. (s.event = "cancelled" \/ s.cancel \in 0 .. 4) /\ s.at \in AtHeader
        BY <1>1, <1>2, <2>1, <3>1, HeaderRead DEF Alive
      <3>3. s \in Good
        BY <1>1, <1>2, <3>1, HeaderTyped
      <3> HIDE DEF s
      <3>4. s \in Reading(way)
        BY <2>2, <3>2, <3>3 DEF Reading
      <3> QED
        BY <1>2, <3>4 DEF Advance, s
    <2>3. CASE way # "header"
      <3>1. Receives(r) /\ s = rx_data(r, c)
        BY <2>3 DEF Reading, Taking
      <3>2. s.event = "cancelled" \/ s.cancel \in 0 .. 4
        BY <1>1, <1>2, <2>1, <3>1, DataRead DEF Alive
      <3>3. Receives(s)
        BY <1>1, <1>2, <3>1, DataTyped
      <3> HIDE DEF s
      <3>4. s \in Reading(way)
        BY <2>3, <3>2, <3>3 DEF Reading, Receives
      <3> QED
        BY <1>2, <3>4 DEF Advance, s
    <2> QED
      BY <2>2, <2>3
  <1>3. CASE r.event # "none"
    <2> DEFINE s == [r EXCEPT !.event = "invalid"]
    <2>1. Like(s, r)
      BY <1>1, EventLike DEF Events
    <2>2. s.event = "invalid"
      BY <1>1, GoodIs DEF Fields
    <2> HIDE DEF s
    <2>3. s \in Reading(way)
      BY <2>1, <2>2, LikeReceives DEF Reading, Like
    <2> QED
      BY <1>3, <2>3 DEF Advance, s
  <1> QED
    BY <1>2, <1>3

LEMMA ReadSteps ==
  ASSUME NEW way, NEW r \in Reading(way), NEW b \in Seq(Byte)
  PROVE  \E g : /\ g \in [0 .. Len(b) -> Reading(way)] /\ g[0] = r
                /\ \A i \in 1 .. Len(b) : g[i] = Advance(way, g[i - 1], b[i])
                /\ ReadAll(way, r, b) = g[Len(b)]
  <1> DEFINE read(s, c) == IF s.event = "none" THEN Taking(way, s, c) ELSE [s EXCEPT !.event = "invalid"]
             n == Len(b)
             After(x, i) == read(x, b[i])
             step == [i \in 1 .. n |-> [x \in Reading(way) |-> After(x, i)]]
             Body(f, i) == IF i = 0 THEN r ELSE After(f[i - 1], i)
             Chain(f) == f = [i \in 0 .. n |-> Body(f, i)]
             upto == CHOOSE f : Chain(f)
  <1>1. n \in Nat /\ \A i \in 1 .. n : b[i] \in Byte
    BY SeqElements
  <1>2. \A x, i : After(x, i) = Advance(way, x, b[i])
    BY DEF Advance
  <1>3. Along(read, r, b) = upto[n]
    BY DEF Along
  <1>4. ReadAll(way, r, b) = upto[n]
    BY <1>3 DEF ReadAll
  <1> HIDE DEF n, After
  <1>5. \A i \in 1 .. n, x \in Reading(way) : After(x, i) \in Reading(way)
    BY <1>1, <1>2, AdvanceReads
  <1>6. step \in Moves(Reading(way), n) /\ \A i \in 1 .. n, x \in Reading(way) : step[i][x] = After(x, i)
    BY <1>5 DEF Moves
  <1> HIDE DEF step
  <1>7. PICK g : Leads(Reading(way), n, r, step, g)
    BY <1>1, <1>6, Recursion
  <1>8. g \in [0 .. n -> Reading(way)] /\ g[0] = r /\ \A i \in 1 .. n : g[i] = step[i][g[i - 1]]
    BY <1>7 DEF Leads
  <1>9. \A i \in 1 .. n : g[i] = After(g[i - 1], i)
    <2> TAKE i \in 1 .. n
    <2>1. i - 1 \in 0 .. n
      BY <1>1
    <2> QED
      BY <1>6, <1>8, <2>1
  <1>10. Chain(g)
    <2>1. g = [i \in 0 .. n |-> g[i]]
      BY <1>8
    <2>2. \A i \in 0 .. n : g[i] = Body(g, i)
      <3> TAKE i \in 0 .. n
      <3>1. CASE i = 0
        BY <1>8, <3>1
      <3>2. CASE i # 0
        <4>1. i \in 1 .. n
          BY <1>1, <3>2
        <4> QED
          BY <1>9, <3>2, <4>1
      <3> QED
        BY <3>1, <3>2
    <2> HIDE DEF Body
    <2> QED
      BY <2>1, <2>2
  <1>11. Chain(upto)
    <2> HIDE DEF Chain
    <2> QED
      BY <1>10
  <1> HIDE DEF upto
  <1>12. \A i \in 0 .. n : upto[i] = Body(upto, i)
    <2> HIDE DEF Body
    <2> QED
      BY <1>11
  <1> HIDE DEF Chain
  <1>13. upto[0] = g[0] /\ \A i \in 0 .. n - 1 : upto[i] = g[i] => upto[i + 1] = g[i + 1]
    <2>1. upto[0] = g[0]
      BY <1>1, <1>8, <1>12
    <2>2. ASSUME NEW i \in 0 .. n - 1, upto[i] = g[i] PROVE upto[i + 1] = g[i + 1]
      <3>1. i + 1 \in 1 .. n /\ i + 1 \in 0 .. n /\ i + 1 # 0 /\ (i + 1) - 1 = i
        BY <1>1
      <3>2. upto[i + 1] = After(upto[i], i + 1)
        BY <1>12, <3>1
      <3> QED
        BY <1>9, <2>2, <3>1, <3>2
    <2> QED
      BY <2>1, <2>2
  <1>14. upto[n] = g[n]
    <2>1. n \in 0 .. n
      BY <1>1
    <2>2. \A i \in 0 .. n : upto[i] = g[i]
      BY <1>1, <1>13, SameChain
    <2> QED
      BY <2>1, <2>2
  <1>15. \A i \in 1 .. n : g[i] = Advance(way, g[i - 1], b[i])
    BY <1>2, <1>9
  <1> QED
    BY <1>4, <1>8, <1>14, <1>15 DEF n

LEMMA ReadNone ==
  ASSUME NEW way, NEW r \in Reading(way)
  PROVE  ReadAll(way, r, << >>) = r
  <1> DEFINE e == << >>
  <1>1. e \in Seq(Byte) /\ Len(e) = 0
    OBVIOUS
  <1> HIDE DEF e
  <1>2. PICK g : /\ g \in [0 .. Len(e) -> Reading(way)] /\ g[0] = r
                 /\ \A i \in 1 .. Len(e) : g[i] = Advance(way, g[i - 1], e[i])
                 /\ ReadAll(way, r, e) = g[Len(e)]
    BY <1>1, ReadSteps
  <1> QED
    BY <1>1, <1>2 DEF e

LEMMA ReadMore ==
  ASSUME NEW way, NEW r \in Reading(way), NEW b \in Seq(Byte), NEW c \in Byte
  PROVE  /\ ReadAll(way, r, Append(b, c)) = Advance(way, ReadAll(way, r, b), c)
         /\ ReadAll(way, r, b) \in Reading(way)
  <1> DEFINE more == Append(b, c)  n == Len(b)
  <1>1. /\ more \in Seq(Byte) /\ Len(more) = n + 1 /\ n \in Nat
        /\ \A i \in 1 .. n : more[i] = b[i]
        /\ more[n + 1] = c
    BY AppendIs
  <1>2. PICK g : /\ g \in [0 .. n -> Reading(way)]
                 /\ g[0] = r /\ \A i \in 1 .. n : g[i] = Advance(way, g[i - 1], b[i])
                 /\ ReadAll(way, r, b) = g[n]
    BY ReadSteps
  <1> HIDE DEF more
  <1> HIDE DEF n
  <1>3. PICK h : /\ h[0] = r /\ \A i \in 1 .. Len(more) : h[i] = Advance(way, h[i - 1], more[i])
                 /\ ReadAll(way, r, more) = h[Len(more)]
    <2>1. more \in Seq(Byte)
      BY <1>1
    <2> QED
      BY <2>1, ReadSteps
  <1>4. \A i \in 0 .. n - 1 : g[i] = h[i] => g[i + 1] = h[i + 1]
    <2> TAKE i \in 0 .. n - 1
    <2>1. i + 1 \in 1 .. n /\ i + 1 \in 1 .. n + 1 /\ (i + 1) - 1 = i
      BY <1>1
    <2> QED
      BY <1>1, <1>2, <1>3, <2>1
  <1>5. g[n] = h[n] /\ g[n] \in Reading(way)
    <2>1. n \in 0 .. n /\ g[0] = h[0]
      BY <1>1, <1>2, <1>3
    <2>2. \A i \in 0 .. n : g[i] = h[i]
      BY <1>1, <1>4, <2>1, SameChain, ZenonT(60)
    <2> QED
      BY <1>2, <2>1, <2>2
  <1>6. h[n + 1] = Advance(way, h[n], c)
    <2>1. n + 1 \in 1 .. n + 1 /\ (n + 1) - 1 = n
      BY <1>1
    <2> QED
      BY <1>1, <1>3, <2>1
  <1> QED
    BY <1>1, <1>2, <1>3, <1>5, <1>6 DEF more

LEMMA ReadJoined ==
  ASSUME NEW way, NEW r \in Reading(way), NEW a \in Seq(Byte), NEW b \in Seq(Byte)
  PROVE  /\ ReadAll(way, r, a) \in Reading(way)
         /\ ReadAll(way, r, a \o b) = ReadAll(way, ReadAll(way, r, a), b)
  <1> DEFINE q == ReadAll(way, r, a)
             T == {s \in Seq(Byte) : ReadAll(way, r, a \o s) = ReadAll(way, q, s)}
  <1>1. 0 \in Byte
    BY DEF Byte
  <1>2. q \in Reading(way)
    BY <1>1, ReadMore
  <1> HIDE DEF q
  <1>3. << >> \in T
    BY <1>2, ReadNone, NothingJoined DEF q
  <1>4. \A s \in Seq(Byte), c \in Byte : s \in T => Append(s, c) \in T
    <2> TAKE s \in Seq(Byte), c \in Byte
    <2> HAVE s \in T
    <2> DEFINE t == Append(s, c)
    <2>1. t \in Seq(Byte) /\ a \o t = Append(a \o s, c) /\ a \o s \in Seq(Byte)
      BY AppendIs, Joined
    <2>2. ReadAll(way, q, t) = Advance(way, ReadAll(way, q, s), c)
      BY <1>2, ReadMore
    <2>3. ReadAll(way, r, Append(a \o s, c)) = Advance(way, ReadAll(way, r, a \o s), c)
      BY <2>1, ReadMore
    <2>4. ReadAll(way, r, a \o s) = ReadAll(way, q, s)
      OBVIOUS
    <2>5. ReadAll(way, r, a \o t) = ReadAll(way, q, t)
      <3> HIDE DEF t
      <3> QED
        BY <2>1, <2>2, <2>3, <2>4
    <2> QED
      BY <2>1, <2>5
  <1> HIDE DEF T
  <1>5. b \in T
    BY <1>3, <1>4, SequenceInduction
  <1> QED
    BY <1>2, <1>5 DEF T, q

\* The same for what a line makes of the bytes.
Taken(way, line, r, b) == ReadAll(way, r, Through(line, b))

LEMMA TakenNone ==
  ASSUME NEW way, NEW line \in Lines, NEW r \in Reading(way)
  PROVE  Taken(way, line, r, << >>) = r
  BY ThroughNone, ReadNone DEF Taken

LEMMA TakenOne ==
  ASSUME NEW way, NEW line \in Lines, NEW r \in Reading(way), NEW c \in Byte, NEW d \in Byte,
         Passed(line, c) = <<d>>
  PROVE  Taken(way, line, r, <<c>>) = Advance(way, r, d)
  <1>1. << >> \in Seq(Byte) /\ <<d>> = Append(<< >>, d)
    OBVIOUS
  <1>2. ReadAll(way, r, <<d>>) = Advance(way, r, d)
    <2> DEFINE e == << >>
    <2>1. e \in Seq(Byte) /\ <<d>> = Append(e, d)
      BY <1>1
    <2>2. ReadAll(way, r, e) = r
      BY ReadNone
    <2> HIDE DEF e
    <2>3. ReadAll(way, r, Append(e, d)) = Advance(way, ReadAll(way, r, e), d)
      BY <2>1, ReadMore
    <2> QED
      BY <2>1, <2>2, <2>3
  <1> QED
    BY <1>2, ThroughOne DEF Taken

LEMMA TakenJoined ==
  ASSUME NEW way, NEW line \in Lines, NEW r \in Reading(way), NEW a \in Seq(Byte), NEW b \in Seq(Byte)
  PROVE  /\ Taken(way, line, r, a) \in Reading(way)
         /\ Taken(way, line, r, a \o b) = Taken(way, line, Taken(way, line, r, a), b)
  <1> DEFINE u == Through(line, a)  v == Through(line, b)
  <1>1. u \in Seq(Byte) /\ v \in Seq(Byte)
    BY ThroughBytes
  <1>2. Through(line, a \o b) = u \o v
    BY ThroughJoined
  <1> HIDE DEF u, v
  <1>3. ReadAll(way, r, u) \in Reading(way) /\ ReadAll(way, r, u \o v) = ReadAll(way, ReadAll(way, r, u), v)
    BY <1>1, ReadJoined
  <1> QED
    BY <1>2, <1>3 DEF Taken, u, v

----------------------------------------------------------------------------
(* From the bytes of the line to symbols.                                  *)

\* s is r, but for where the cursor stands.
Agree(s, r) == s \in Good /\ \A x \in Fields \ {"cancel", "mode", "high"} : s[x] = r[x]

Rested(r) == [r EXCEPT !.cancel = 0]

LEMMA SameReceiver ==
  ASSUME NEW r \in Good, NEW s \in Good, \A x \in Fields : s[x] = r[x]
  PROVE  s = r
  <1>1. r = [x \in Fields |-> r[x]] /\ s = [x \in Fields |-> s[x]]
    <2>1. \A t \in Receiver : t = [x \in DOMAIN t |-> t[x]]
      BY ShapeIs DEF Shape
    <2> QED
      BY <2>1, GoodIs
  <1> QED
    BY <1>1

LEMMA AgreeTwice ==
  ASSUME NEW r, NEW s, NEW t, Agree(s, r), Agree(t, s)
  PROVE  Agree(t, r)
  BY DEF Agree

LEMMA RestedIs ==
  ASSUME NEW r \in Good, r.mode = "plain", r.high = FALSE
  PROVE  /\ Rested(r) \in Good /\ Rested(r).cancel = 0
         /\ \A x \in Fields \ {"cancel"} : Rested(r)[x] = r[x]
         /\ \A s : Agree(s, r) /\ s.cancel = 0 /\ s.mode = "plain" /\ s.high = FALSE => s = Rested(r)
  <1>1. DOMAIN r = Fields
    BY GoodIs
  <1>2. Rested(r) \in Good
    <2>1. 0 \in 0 .. 5
      OBVIOUS
    <2> QED
      BY <2>1, GoodCount DEF Rested
  <1>3. Rested(r).cancel = 0
    BY <1>1 DEF Rested, Fields
  <1>4. \A x \in Fields \ {"cancel"} : Rested(r)[x] = r[x]
    BY <1>1 DEF Rested, Fields
  <1>5. ASSUME NEW s, Agree(s, r), s.cancel = 0, s.mode = "plain", s.high = FALSE PROVE s = Rested(r)
    <2>1. s \in Good /\ \A x \in Fields \ {"cancel", "mode", "high"} : s[x] = r[x]
      BY <1>5 DEF Agree
    <2>2. "mode" \in Fields \ {"cancel"} /\ "high" \in Fields \ {"cancel"} /\ "cancel" \in Fields
      BY DEF Fields
    <2>3. \A x \in Fields : s[x] = Rested(r)[x]
      BY <1>3, <1>4, <1>5, <2>1, <2>2
    <2> QED
      BY <1>2, <2>1, <2>3, SameReceiver
  <1> QED
    BY <1>2, <1>3, <1>4, <1>5

LEMMA RawAgrees ==
  ASSUME NEW r \in Good, r.event = "none", r.cancel \in 0 .. 4, NEW c,
         r.cancel \in 0 .. 3 \/ c # CAN
  PROVE  LET s == rx_cursor_raw(r, c)
         IN  /\ s \in Good /\ s.event = "none" /\ s.cancel \in 0 .. 4
             /\ c # CAN \/ r.moby => s.cancel = 0
             /\ \A x \in Fields \ {"cancel"} : s[x] = r[x]
  <1> DEFINE s == rx_cursor_raw(r, c)
  <1>1. s \in Good
    BY RawGood
  <1>2. DOMAIN r = Fields
    BY GoodIs
  <1>3. CASE c # CAN \/ r.moby
    <2>1. s = [r EXCEPT !.cancel = 0]
      BY <1>3 DEF rx_cursor_raw
    <2>2. s.cancel = 0 /\ \A x \in Fields \ {"cancel"} : s[x] = r[x]
      BY <1>2, <2>1 DEF Fields
    <2>3. "event" \in Fields \ {"cancel"}
      BY DEF Fields
    <2> HIDE DEF s
    <2> QED
      BY <1>1, <2>2, <2>3 DEF s
  <1>4. CASE ~(c # CAN \/ r.moby)
    <2>1. s = [r EXCEPT !.cancel = r.cancel + 1, !.event = r.event]
      <3>1. r.cancel # 4
        BY <1>4
      <3> QED
        BY <1>4, <3>1 DEF rx_cursor_raw
    <2>2. s.cancel = r.cancel + 1 /\ \A x \in Fields \ {"cancel"} : s[x] = r[x]
      BY <1>2, <2>1 DEF Fields
    <2>3. r.cancel + 1 \in 0 .. 4
      BY <1>4
    <2>4. "event" \in Fields \ {"cancel"}
      BY DEF Fields
    <2> HIDE DEF s
    <2> QED
      BY <1>1, <1>4, <2>2, <2>3, <2>4 DEF s
  <1> QED
    BY <1>3, <1>4

\* What a byte leaves, while CANs are few.
LEMMA DecodedIs ==
  ASSUME NEW r \in Good, r.event = "none", r.cancel \in 0 .. 4, NEW c \in Byte,
         r.cancel \in 0 .. 3 \/ c # CAN, NEW omen \in BOOLEAN
  PROVE  LET d == Decoded(r, c, omen)
             p == rx_cursor(r, c)
             o == rx_omen_cursor(r, c)
         IN  /\ Agree(d.r, r) /\ d.r.event = "none" /\ d.r.cancel \in 0 .. 4
             /\ c # CAN \/ r.moby => d.r.cancel = 0
             /\ d.r.mode = IF omen THEN o[1] ELSE p[1]
             /\ d.r.high = IF omen THEN o[2] ELSE r.high
             /\ d.symbol = IF omen THEN o[3] ELSE p[2]
  <1> DEFINE s == rx_cursor_raw(r, c)  p == rx_cursor(r, c)  o == rx_omen_cursor(r, c)
             d == Decoded(r, c, omen)
             t == IF omen THEN [s EXCEPT !.mode = o[1], !.high = o[2]] ELSE [s EXCEPT !.mode = p[1]]
  <1>1. /\ s \in Good /\ s.event = "none" /\ s.cancel \in 0 .. 4
        /\ c # CAN \/ r.moby => s.cancel = 0
        /\ \A x \in Fields \ {"cancel"} : s[x] = r[x]
    BY RawAgrees
  <1>2. d.r = t /\ d.symbol = IF omen THEN o[3] ELSE p[2]
    BY <1>1 DEF Decoded
  <1>3. DOMAIN s = Fields
    BY <1>1, GoodIs
  <1>4. d.r \in Good
    BY DecodedGood DEF Like
  <1> HIDE DEF s, p, o, d
  <1>5. CASE omen
    <2>1. t = [s EXCEPT !.mode = o[1], !.high = o[2]]
      BY <1>5
    <2>2. /\ t.mode = o[1] /\ t.high = o[2] /\ t.cancel = s.cancel /\ t.event = s.event
          /\ \A x \in Fields \ {"cancel", "mode", "high"} : t[x] = s[x]
      BY <1>3, <2>1 DEF Fields
    <2> HIDE DEF t
    <2>3. Agree(t, r)
      BY <1>1, <1>2, <1>4, <2>2 DEF Agree
    <2> QED
      BY <1>1, <1>2, <1>5, <2>2, <2>3 DEF d, o
  <1>6. CASE ~omen
    <2>1. t = [s EXCEPT !.mode = p[1]]
      BY <1>6
    <2>2. /\ t.mode = p[1] /\ t.high = s.high /\ t.cancel = s.cancel /\ t.event = s.event
          /\ \A x \in Fields \ {"cancel", "mode", "high"} : t[x] = s[x]
      BY <1>3, <2>1 DEF Fields
    <2>3. s.high = r.high
      <3>1. "high" \in Fields \ {"cancel"}
        BY DEF Fields
      <3> QED
        BY <1>1, <3>1
    <2> HIDE DEF t
    <2>4. Agree(t, r)
      BY <1>1, <1>2, <1>4, <2>2 DEF Agree
    <2> QED
      BY <1>1, <1>2, <1>6, <2>2, <2>3, <2>4 DEF d, p
  <1> QED
    BY <1>5, <1>6

\* What a symbol is to the header, or to the data.
Symbol(way, r, x) ==
  IF way = "header" THEN HeaderSymbol(r, x)
  ELSE CASE r.encoded = "none" -> PlainSymbol(r, x)
         [] r.encoded = "rle" -> RunSymbol(r, x)
         [] r.encoded = "pack7" -> Pack7Symbol(r, x)

Quoting(way, r) ==
  IF way = "header" THEN r.style \in Omen
  ELSE r.encoded = "pack7" \/ (r.encoded = "rle" /\ r.escape8 = "omen")

\* Where bytes are taken apart into symbols: in data everywhere, in a header after
\* its style, but for the count of one of Omen's.
Within(way, r) ==
  way = "header" => r.at \in {"count", "header", "check"} /\ ~(r.at = "count" /\ r.style \in Omen)

LEMMA AgreeFields ==
  ASSUME NEW way, NEW r, NEW s, Agree(s, r)
  PROVE  /\ s.encoded = r.encoded /\ s.escape8 = r.escape8 /\ s.moby = r.moby /\ s.ctl = r.ctl
         /\ s.at = r.at /\ s.event = r.event /\ s.is32 = r.is32 /\ s.style = r.style
         /\ Quoting(way, s) = Quoting(way, r) /\ Within(way, s) = Within(way, r)
  <1>1. \A x \in {"encoded", "escape8", "moby", "ctl", "at", "event", "is32", "style"} :
          x \in Fields \ {"cancel", "mode", "high"}
    BY DEF Fields
  <1>2. \A x \in {"encoded", "escape8", "moby", "ctl", "at", "event", "is32", "style"} : s[x] = r[x]
    BY <1>1 DEF Agree
  <1>3. /\ s.encoded = r.encoded /\ s.escape8 = r.escape8 /\ s.moby = r.moby /\ s.ctl = r.ctl
        /\ s.at = r.at /\ s.event = r.event /\ s.is32 = r.is32 /\ s.style = r.style
    BY <1>2
  <1> QED
    BY <1>3 DEF Quoting, Within

\* A byte that is none by itself, and one that completes a symbol.
LEMMA ByteDecoded ==
  ASSUME NEW way, NEW r \in Good, Within(way, r), r.event = "none", r.cancel \in 0 .. 4,
         NEW c \in Byte, r.cancel \in 0 .. 3 \/ c # CAN
  PROVE  LET p == rx_cursor(r, c)
             o == rx_omen_cursor(r, c)
             mode == IF Quoting(way, r) THEN o[1] ELSE p[1]
             high == IF Quoting(way, r) THEN o[2] ELSE r.high
             symbol == IF Quoting(way, r) THEN o[3] ELSE p[2]
         IN  \E s : /\ Agree(s, r) /\ s.cancel \in 0 .. 4 /\ s.mode = mode /\ s.high = high
                    /\ c # CAN \/ r.moby => s.cancel = 0
                    /\ symbol = Nothing => Taking(way, r, c) = s
                    /\ symbol \notin {Nothing, Wrong} => Taking(way, r, c) = Symbol(way, s, symbol)
  <1> DEFINE d == Decoded(r, c, Quoting(way, r))  s == d.r
             p == rx_cursor(r, c)  o == rx_omen_cursor(r, c)
             symbol == IF Quoting(way, r) THEN o[3] ELSE p[2]
  <1>1. Quoting(way, r) \in BOOLEAN
    <2>1. CASE way = "header"
      BY <2>1 DEF Quoting
    <2>2. CASE way # "header"
      BY <2>2 DEF Quoting
    <2> QED
      BY <2>1, <2>2
  <1>2. /\ Agree(s, r) /\ s.event = "none" /\ s.cancel \in 0 .. 4
        /\ c # CAN \/ r.moby => s.cancel = 0
        /\ s.mode = IF Quoting(way, r) THEN o[1] ELSE p[1]
        /\ s.high = IF Quoting(way, r) THEN o[2] ELSE r.high
        /\ d.symbol = symbol
    <2> DEFINE omen == Quoting(way, r)
    <2>1. omen \in BOOLEAN
      BY <1>1
    <2> HIDE DEF omen
    <2>2. LET e == Decoded(r, c, omen)
          IN  /\ Agree(e.r, r) /\ e.r.event = "none" /\ e.r.cancel \in 0 .. 4
              /\ c # CAN \/ r.moby => e.r.cancel = 0
              /\ e.r.mode = IF omen THEN o[1] ELSE p[1]
              /\ e.r.high = IF omen THEN o[2] ELSE r.high
              /\ e.symbol = IF omen THEN o[3] ELSE p[2]
      BY <2>1, DecodedIs
    <2> QED
      BY <2>2 DEF omen
  <1>5. Nothing # Wrong
    BY DEF Nothing, Wrong
  <1>3. CASE way # "header"
    <2>1. rx_data(r, c) = CASE d.symbol = Nothing -> s
                            [] d.symbol = Wrong -> Invalid(s)
                            [] OTHER -> CASE r.encoded = "none" -> PlainSymbol(s, d.symbol)
                                          [] r.encoded = "rle" -> RunSymbol(s, d.symbol)
                                          [] r.encoded = "pack7" -> Pack7Symbol(s, d.symbol)
      BY <1>3 DEF rx_data, Quoting
    <2>2. s.encoded = r.encoded /\ Taking(way, r, c) = rx_data(r, c)
      BY <1>2, <1>3, AgreeFields DEF Taking
    <2> HIDE DEF d, s, p, o, symbol
    <2>3. symbol = Nothing => Taking(way, r, c) = s
      BY <1>2, <1>5, <2>1, <2>2
    <2>4. symbol \notin {Nothing, Wrong} => Taking(way, r, c) = Symbol(way, s, symbol)
      BY <1>2, <1>3, <1>5, <2>1, <2>2 DEF Symbol
    <2> QED
      BY <1>2, <2>3, <2>4 DEF p, o, symbol
  <1>4. CASE way = "header"
    <2>1. r.at \in {"count", "header", "check"} /\ ~(r.at = "count" /\ r.style \in Omen)
      BY <1>4 DEF Within
    <2>2. rx_cursor_raw(r, c).event # "cancelled"
      BY RawAgrees
    <2>3. rx_header(r, c) = HeaderSymbol(s, d.symbol)
      BY <1>4, <2>1, <2>2 DEF rx_header, Quoting
    <2>4. Taking(way, r, c) = HeaderSymbol(s, symbol)
      BY <1>2, <1>4, <2>3 DEF Taking
    <2> HIDE DEF d, s, p, o, symbol
    <2>5. symbol = Nothing => Taking(way, r, c) = s
      BY <2>4 DEF HeaderSymbol
    <2>6. symbol \notin {Nothing, Wrong} => Taking(way, r, c) = Symbol(way, s, symbol)
      BY <1>4, <2>4 DEF Symbol
    <2> QED
      BY <1>2, <2>5, <2>6 DEF p, o, symbol
  <1> QED
    BY <1>3, <1>4

----------------------------------------------------------------------------
(* The plain encodings and MobyTurbo, a byte at a time.                      *)

\* What the last header left the receiver with is what the format f asks for.
Attuned(f, r) ==
  /\ r.encoded = IF f.style \in SevenBit THEN f.style ELSE "none"
  /\ f.style \in SevenBit => r.escape8 = "omen"
  /\ r.moby <=> f.style = "moby"
  /\ r.is32 <=> f.style # "hex"
  /\ r.ctl => f.ctl

\* What the style of a header leaves the receiver with, for the format f.
Headed(f, r) ==
  /\ r.at \in {"count", "header", "check"} /\ r.style \notin {ZHEX, ZVHEX}
  /\ r.style \in Omen <=> f.style \in SevenBit
  /\ ~(r.at = "count" /\ r.style \in Omen)
  /\ r.moby <=> f.style = "moby"
  /\ r.ctl => f.ctl

Suits(way, f, r) == IF way = "header" THEN Headed(f, r) ELSE Attuned(f, r)

LEMMA SuitsIs ==
  ASSUME NEW way, NEW f, NEW r, Suits(way, f, r)
  PROVE  /\ r.moby <=> f.style = "moby"
         /\ r.ctl => f.ctl
         /\ Quoting(way, r) <=> f.style \in SevenBit
         /\ Within(way, r)
  BY DEF Suits, Headed, Attuned, Quoting, Within, SevenBit

\* Between two symbols.
Poised(way, f, r) ==
  /\ r \in Reading(way) /\ r.event = "none" /\ r.cancel \in 0 .. 3
  /\ r.mode = "plain" /\ r.high = FALSE /\ Suits(way, f, r)

LEMMA PoisedWithin ==
  ASSUME NEW way, NEW f, NEW r, Poised(way, f, r)
  PROVE  /\ r \in Reading(way) /\ r \in Good /\ r.event = "none"
         /\ r.cancel \in 0 .. 3 /\ r.cancel \in 0 .. 4 /\ r.mode = "plain" /\ r.high = FALSE
         /\ r.moby <=> f.style = "moby"
         /\ r.ctl => f.ctl
         /\ Quoting(way, r) <=> f.style \in SevenBit
         /\ Within(way, r)
  BY SuitsIs DEF Poised, Reading

\* MobyTurbo is for a clear line, and a stripped bit for data of seven.
Carries(line, f) ==
  /\ line \in Lines
  /\ f.style = "moby" => line = "clear"
  /\ line \in {"zero", "mark"} => f.style \in SevenBit

LEMMA PlainCrosses ==
  ASSUME NEW f, f.style \notin SevenBit, NEW line, Carries(line, f), NEW c \in Byte,
         IsFlow(c) => f.style = "moby"
  PROVE  Passed(line, c) = <<c>>
  BY DEF Carries, Lines, Passed

LEMMA OneTaken ==
  ASSUME NEW way, NEW line \in Lines, NEW r \in Reading(way), r.event = "none", NEW c \in Byte, NEW d \in Byte,
         Passed(line, c) = <<d>>
  PROVE  Taken(way, line, r, <<c>>) = Taking(way, r, d)
  <1>1. Taken(way, line, r, <<c>>) = Advance(way, r, d)
    BY TakenOne
  <1>2. Advance(way, r, d) = Taking(way, r, d)
    BY DEF Advance
  <1> QED
    BY <1>1, <1>2

LEMMA PairJoined ==
  ASSUME NEW a \in Byte, NEW b \in Byte
  PROVE  <<a>> \in Seq(Byte) /\ <<b>> \in Seq(Byte) /\ <<a>> \o <<b>> = <<a, b>>
  <1> DEFINE u == <<a>>  v == <<b>>  w == <<a, b>>
  <1>1. u \in Seq(Byte) /\ Len(u) = 1 /\ u[1] = a /\ v \in Seq(Byte) /\ Len(v) = 1 /\ v[1] = b
    OBVIOUS
  <1>2. w \in Seq(Byte) /\ Len(w) = 2 /\ w[1] = a /\ w[2] = b
    OBVIOUS
  <1> HIDE DEF u, v, w
  <1>3. /\ u \o v \in Seq(Byte) /\ Len(u \o v) = 2
        /\ \A i \in 1 .. 2 : (u \o v)[i] = IF i <= 1 THEN u[i] ELSE v[i - 1]
    BY <1>1, Joined
  <1>4. \A i \in 1 .. 2 : (u \o v)[i] = w[i]
    BY <1>1, <1>2, <1>3
  <1>5. u \o v = w
    BY <1>2, <1>3, <1>4, SeqEqual
  <1> QED
    BY <1>1, <1>5 DEF u, v, w

LEMMA TwoTaken ==
  ASSUME NEW way, NEW line \in Lines, NEW r \in Reading(way), NEW a \in Byte, NEW b \in Byte, NEW c \in Byte,
         NEW d \in Byte, Passed(line, a) = <<c>>, Passed(line, b) = <<d>>,
         r.event = "none", Taking(way, r, c).event = "none"
  PROVE  Taken(way, line, r, <<a, b>>) = Taking(way, Taking(way, r, c), d)
  <1> DEFINE s == Taking(way, r, c)
  <1>1. <<a>> \in Seq(Byte) /\ <<b>> \in Seq(Byte) /\ <<a>> \o <<b>> = <<a, b>>
    BY PairJoined
  <1>2. Taken(way, line, r, <<a>>) = s
    BY OneTaken
  <1>3. s \in Reading(way)
    BY AdvanceReads DEF Advance
  <1> HIDE DEF s
  <1>4. Taken(way, line, s, <<b>>) = Taking(way, s, d)
    BY <1>3, OneTaken DEF s
  <1>5. Taken(way, line, r, <<a>> \o <<b>>) = Taken(way, line, Taken(way, line, r, <<a>>), <<b>>)
    BY <1>1, TakenJoined, ZenonT(60)
  <1> QED
    BY <1>1, <1>2, <1>4, <1>5 DEF s

\* x after an escape is the symbol y.
Completes(r, x, y) ==
  \A s : Agree(s, r) /\ s.mode = "escaped" => rx_cursor(s, x) = <<"plain", y>>

\* ZDLE, then what completes a symbol.
LEMMA QuotedTaken ==
  ASSUME NEW way, NEW f \in Formats, NEW line, NEW r, NEW x \in Byte, NEW y,
         f.style \notin SevenBit, Carries(line, f), Poised(way, f, r), x # CAN, ~IsFlow(x),
         y \in 0 .. 511, Completes(r, x, y)
  PROVE  Taken(way, line, r, <<ZDLE, x>>) = Symbol(way, Rested(r), y)
  <1>1. /\ r \in Reading(way) /\ r \in Good /\ r.event = "none" /\ r.cancel \in 0 .. 3 /\ r.cancel \in 0 .. 4
        /\ r.mode = "plain" /\ r.high = FALSE /\ ~Quoting(way, r) /\ Within(way, r)
    BY PoisedWithin
  <1>2. ~Quoting(way, r)
    BY <1>1
  <1>3. ZDLE \in Byte /\ ~IsFlow(ZDLE) /\ ZDLE = CAN
    BY DEF Byte, ZDLE, CAN, IsFlow, Low, XON, XOFF
  <1>4. rx_cursor(r, ZDLE) = <<"escaped", Nothing>>
    BY <1>1 DEF rx_cursor
  <1> DEFINE m == rx_cursor(r, ZDLE)
  <1>5. m[1] = "escaped" /\ m[2] = Nothing
    BY <1>4
  <1> HIDE DEF m
  <1>6. PICK s : /\ Agree(s, r) /\ s.cancel \in 0 .. 4 /\ s.mode = "escaped" /\ s.high = FALSE
                 /\ Taking(way, r, ZDLE) = s
    <2>1. PICK s : /\ Agree(s, r) /\ s.cancel \in 0 .. 4
                   /\ s.mode = (IF Quoting(way, r) THEN rx_omen_cursor(r, ZDLE)[1] ELSE m[1])
                   /\ s.high = (IF Quoting(way, r) THEN rx_omen_cursor(r, ZDLE)[2] ELSE r.high)
                   /\ ZDLE # CAN \/ r.moby => s.cancel = 0
                   /\ (IF Quoting(way, r) THEN rx_omen_cursor(r, ZDLE)[3] ELSE m[2]) = Nothing => Taking(way, r, ZDLE) = s
                   /\ (IF Quoting(way, r) THEN rx_omen_cursor(r, ZDLE)[3] ELSE m[2]) \notin {Nothing, Wrong}
                        => Taking(way, r, ZDLE) = Symbol(way, s, IF Quoting(way, r) THEN rx_omen_cursor(r, ZDLE)[3] ELSE m[2])
      BY <1>1, <1>3, ByteDecoded DEF m
    <2> QED
      BY <1>1, <1>2, <1>5, <2>1
  <1>7. s.event = "none" /\ ~Quoting(way, s) /\ Within(way, s) /\ s \in Good
    BY <1>1, <1>2, <1>6, AgreeFields DEF Agree
  <1>8. rx_cursor(s, x) = <<"plain", y>>
    BY <1>6 DEF Completes
  <1> DEFINE p == rx_cursor(s, x)
  <1>9. p[1] = "plain" /\ p[2] = y /\ y \notin {Nothing, Wrong}
    BY <1>8 DEF Nothing, Wrong
  <1> HIDE DEF p
  <1>10. PICK t : /\ Agree(t, s) /\ t.mode = "plain" /\ t.high = FALSE /\ t.cancel = 0
                  /\ Taking(way, s, x) = Symbol(way, t, y)
    <2>1. PICK t : /\ Agree(t, s) /\ t.cancel \in 0 .. 4
                   /\ t.mode = (IF Quoting(way, s) THEN rx_omen_cursor(s, x)[1] ELSE p[1])
                   /\ t.high = (IF Quoting(way, s) THEN rx_omen_cursor(s, x)[2] ELSE s.high)
                   /\ x # CAN \/ s.moby => t.cancel = 0
                   /\ (IF Quoting(way, s) THEN rx_omen_cursor(s, x)[3] ELSE p[2]) = Nothing => Taking(way, s, x) = t
                   /\ (IF Quoting(way, s) THEN rx_omen_cursor(s, x)[3] ELSE p[2]) \notin {Nothing, Wrong}
                        => Taking(way, s, x) = Symbol(way, t, IF Quoting(way, s) THEN rx_omen_cursor(s, x)[3] ELSE p[2])
      BY <1>6, <1>7, ByteDecoded DEF p
    <2> QED
      BY <1>6, <1>7, <1>9, <2>1
  <1>11. t = Rested(r)
    BY <1>1, <1>6, <1>10, AgreeTwice, RestedIs
  <1>13. Passed(line, ZDLE) = <<ZDLE>> /\ Passed(line, x) = <<x>> /\ line \in Lines
    BY <1>3, PlainCrosses DEF Carries
  <1>14. Taken(way, line, r, <<ZDLE, x>>) = Taking(way, Taking(way, r, ZDLE), x)
    BY <1>1, <1>3, <1>6, <1>7, <1>13, TwoTaken
  <1> QED
    BY <1>6, <1>10, <1>11, <1>14

\* A byte that is not quoted.
LEMMA BareTaken ==
  ASSUME NEW way, NEW f \in Formats, f.style \notin SevenBit, NEW line, Carries(line, f),
         NEW r, Poised(way, f, r), NEW c \in Byte, c # ZDLE,
         f.style # "moby" => ~IsFlow(c) /\ ~(f.ctl /\ IsControl(c))
  PROVE  Taken(way, line, r, <<c>>) = Symbol(way, Rested(r), c)
  <1>1. /\ r \in Reading(way) /\ r \in Good /\ r.event = "none" /\ r.cancel \in 0 .. 3 /\ r.cancel \in 0 .. 4
        /\ r.mode = "plain" /\ r.high = FALSE /\ ~Quoting(way, r) /\ Within(way, r)
        /\ r.moby <=> f.style = "moby"
        /\ r.ctl => f.ctl
    BY PoisedWithin
  <1>2. ~Quoting(way, r)
    BY <1>1
  <1>3. c # CAN
    BY DEF ZDLE, CAN
  <1>4. rx_cursor(r, c) = <<"plain", c>>
    BY <1>1 DEF rx_cursor, rx_is_unescaped_control
  <1> DEFINE m == rx_cursor(r, c)
  <1>5. m[1] = "plain" /\ m[2] = c /\ c \notin {Nothing, Wrong}
    BY <1>4 DEF Nothing, Wrong, Byte
  <1> HIDE DEF m
  <1>6. PICK s : /\ Agree(s, r) /\ s.cancel = 0 /\ s.mode = "plain" /\ s.high = FALSE
                 /\ Taking(way, r, c) = Symbol(way, s, c)
    <2>1. PICK s : /\ Agree(s, r) /\ s.cancel \in 0 .. 4
                   /\ s.mode = (IF Quoting(way, r) THEN rx_omen_cursor(r, c)[1] ELSE m[1])
                   /\ s.high = (IF Quoting(way, r) THEN rx_omen_cursor(r, c)[2] ELSE r.high)
                   /\ c # CAN \/ r.moby => s.cancel = 0
                   /\ (IF Quoting(way, r) THEN rx_omen_cursor(r, c)[3] ELSE m[2]) = Nothing => Taking(way, r, c) = s
                   /\ (IF Quoting(way, r) THEN rx_omen_cursor(r, c)[3] ELSE m[2]) \notin {Nothing, Wrong}
                        => Taking(way, r, c) = Symbol(way, s, IF Quoting(way, r) THEN rx_omen_cursor(r, c)[3] ELSE m[2])
      BY <1>1, <1>3, ByteDecoded DEF m
    <2> QED
      BY <1>1, <1>2, <1>3, <1>5, <2>1
  <1>7. s = Rested(r)
    BY <1>1, <1>6, RestedIs
  <1>8. Passed(line, c) = <<c>> /\ line \in Lines
    BY PlainCrosses DEF Carries
  <1>9. Taken(way, line, r, <<c>>) = Taking(way, r, c)
    BY <1>1, <1>8, OneTaken
  <1> QED
    BY <1>6, <1>7, <1>9

\* A quoted byte is found again.
LEMMA PlainUnquoted ==
  ASSUME NEW way, NEW f, NEW r, NEW s, Poised(way, f, r), Agree(s, r), s.mode = "escaped", NEW c \in Byte,
         IsControl(c) \/ c = IAC
  PROVE  LET x == IF c = IAC THEN ZRUB1 ELSE Toggled(c)
         IN  x \in Byte /\ x # CAN /\ ~IsFlow(x) /\ rx_cursor(s, x) = <<"plain", c>>
  <1>1. s.escape8 \in {"none", "legacy", "omen"}
    BY GoodFields DEF Agree
  <1>2. CASE c = IAC
    <2>1. /\ ZRUB1 \in Byte /\ ZRUB1 # CAN /\ ~IsFlow(ZRUB1) /\ ~High(ZRUB1) /\ ZRUB1 # ZDLE
          /\ ~IsControl(ZRUB1) /\ ~IsEnding(ZRUB1) /\ ZRUB1 # ZRUB0 /\ IAC = 255
      BY DEF ZRUB1, ZRUB0, Byte, CAN, IsFlow, Low, XON, XOFF, High, ZDLE, IsControl, IsEnding, ZCRCE, ZCRCW, IAC
    <2>2. rx_cursor(s, ZRUB1) = <<"plain", c>>
      BY <1>2, <2>1 DEF rx_cursor, rx_needs_slow_path, rx_is_unescaped_control
    <2> QED
      BY <1>2, <2>1, <2>2
  <1>3. CASE c # IAC
    <2> DEFINE x == Toggled(c)
    <2>1. x \in Byte /\ x = c + 64 /\ (c < 32 \/ c \in 128 .. 159)
      BY <1>3, ControlBytes
    <2> HIDE DEF x
    <2>2. /\ x # CAN /\ ~IsFlow(x) /\ x # ZDLE /\ ~IsControl(x) /\ ~IsEnding(x) /\ x # ZRUB0
          /\ x # ZRUB1 /\ IsQuoted(x) /\ Toggled(x) = c
      BY <2>1 DEF ZRUB1, ZRUB0, Byte, CAN, IsFlow, Low, XON, XOFF, ZDLE, IsControl, IsEnding, ZCRCE, ZCRCW, IsQuoted, Toggled
    <2>3. rx_cursor(s, x) = <<"plain", c>>
      BY <2>2 DEF rx_cursor, rx_needs_slow_path, rx_is_unescaped_control
    <2> QED
      BY <1>3, <2>1, <2>2, <2>3 DEF x
  <1> QED
    BY <1>2, <1>3

\* p is what c becomes after s, and the receiver r has c of it.
Quotes(way, f, line, r, c, s, p) ==
  /\ p # << >> /\ buffer_tx(f, s, c) = raw(s, p)
  /\ Taken(way, line, r, p) = Symbol(way, Rested(r), c)

LEMMA PlainTaken ==
  ASSUME NEW way, NEW f \in Formats, NEW line, NEW r, NEW c \in Byte, NEW s,
         f.style \notin SevenBit, Carries(line, f), Poised(way, f, r)
  PROVE  \E p \in Seq(Byte) : Quotes(way, f, line, r, c, s, p)
  <1> DEFINE escape == IF f.style = "moby" THEN mobyturbo_byte_needs_escape(f, c, s.previous)
                       ELSE tx_byte_needs_escape(f, c, s.previous)
             x == IF c = IAC THEN ZRUB1 ELSE Toggled(c)
  <1>1. buffer_tx(f, s, c) = raw(s, IF ~escape THEN <<c>> ELSE <<ZDLE, x>>)
    BY DEF buffer_tx
  <1>2. CASE ~escape
    <2>1. c # ZDLE /\ (f.style # "moby" => ~IsFlow(c) /\ ~(f.ctl /\ IsControl(c)))
      <3>1. CASE f.style = "moby"
        BY <1>2, <3>1 DEF mobyturbo_byte_needs_escape
      <3>2. CASE f.style # "moby"
        <4>1. c \notin EscapeAlways /\ ~(f.ctl /\ IsControl(c))
          BY <1>2, <3>2 DEF tx_byte_needs_escape
        <4>2. ~IsFlow(c) /\ c # ZDLE
          BY <4>1 DEF EscapeAlways, IsFlow, Low, Byte, XON, XOFF, DLE, ZDLE
        <4> QED
          BY <4>1, <4>2
      <3> QED
        BY <3>1, <3>2
    <2>2. Taken(way, line, r, <<c>>) = Symbol(way, Rested(r), c)
      BY <2>1, BareTaken
    <2>3. <<c>> \in Seq(Byte) /\ <<c>> # << >>
      OBVIOUS
    <2> QED
      BY <1>1, <1>2, <2>2, <2>3 DEF Quotes
  <1>3. CASE escape
    <2>1. IsControl(c) \/ c = IAC
      <3>1. CASE f.style = "moby"
        <4>1. c = ZDLE \/ IsControl(c) \/ c = IAC
          BY <1>3, <3>1 DEF mobyturbo_byte_needs_escape
        <4> QED
          BY <4>1, ControlBytes DEF ZDLE
      <3>2. CASE f.style # "moby"
        <4>1. c \in EscapeAlways \/ Low(c) = CR \/ IsControl(c) \/ c = IAC
          BY <1>3, <3>2 DEF tx_byte_needs_escape
        <4>2. c \in EscapeAlways => c < 32 \/ c \in 128 .. 159
          BY DEF EscapeAlways, ZDLE, DLE, XON, XOFF
        <4>3. Low(c) = CR => c < 32 \/ c \in 128 .. 159
          BY DEF Low, CR, Byte
        <4> QED
          BY <4>1, <4>2, <4>3, ControlBytes
      <3> QED
        BY <3>1, <3>2
    <2>2. Completes(r, x, c)
      BY <2>1, PlainUnquoted DEF Completes
    <2>3. x \in Byte /\ x # CAN /\ ~IsFlow(x)
      <3>1. r \in Good
        BY DEF Poised, Reading
      <3>2. CASE c = IAC
        BY <3>2 DEF ZRUB1, Byte, CAN, IsFlow, Low, XON, XOFF
      <3>3. CASE c # IAC
        <4>1. x \in Byte /\ x = c + 64 /\ (c < 32 \/ c \in 128 .. 159)
          BY <2>1, <3>3, ControlBytes
        <4> HIDE DEF x
        <4> QED
          BY <4>1 DEF Byte, CAN, IsFlow, Low, XON, XOFF
      <3> QED
        BY <3>2, <3>3
    <2>4. c \in 0 .. 511
      BY DEF Byte
    <2> HIDE DEF x
    <2>5. Taken(way, line, r, <<ZDLE, x>>) = Symbol(way, Rested(r), c)
      BY <2>2, <2>3, <2>4, QuotedTaken, SMTT(60)
    <2>6. <<ZDLE, x>> \in Seq(Byte) /\ <<ZDLE, x>> # << >>
      BY <2>3 DEF ZDLE, Byte
    <2> QED
      BY <1>1, <1>3, <2>5, <2>6 DEF x, Quotes
  <1> QED
    BY <1>2, <1>3

\* The end of the data.
LEMMA EndingTaken ==
  ASSUME NEW way, NEW f \in Formats, f.style \notin SevenBit, NEW line, Carries(line, f),
         NEW r, Poised(way, f, r), NEW ending \in ZCRCE .. ZCRCW
  PROVE  Taken(way, line, r, <<ZDLE, ending>>) = Symbol(way, Rested(r), 256 + ending)
  <1> DEFINE y == 256 + ending
  <1>1. /\ ending \in Byte /\ ending # CAN /\ ~IsFlow(ending) /\ ~High(ending) /\ ending # ZDLE
        /\ ~IsControl(ending) /\ IsEnding(ending) /\ y \in 0 .. 511
    BY DEF Byte, CAN, IsFlow, Low, XON, XOFF, High, ZDLE, IsControl, IsEnding, ZCRCE, ZCRCW
  <1>2. ASSUME NEW s, Agree(s, r), s.mode = "escaped" PROVE rx_cursor(s, ending) = <<"plain", y>>
    BY <1>1, <1>2 DEF rx_cursor, rx_needs_slow_path, rx_is_unescaped_control
  <1>4. Completes(r, ending, y)
    BY <1>2 DEF Completes
  <1> HIDE DEF y
  <1>3. Taken(way, line, r, <<ZDLE, ending>>) = Symbol(way, Rested(r), y)
    BY <1>1, <1>4, QuotedTaken, SMTT(60)
  <1> QED
    BY <1>3 DEF y

\* In a subpacket, a symbol of a plain encoding.
LEMMA PlainIsData ==
  ASSUME NEW f, f.style \notin SevenBit, NEW r, Poised("data", f, r), NEW y
  PROVE  Symbol("data", Rested(r), y) = PlainSymbol(Rested(r), y)
  <1>1. r.encoded = "none" /\ DOMAIN r = Fields
    BY GoodIs DEF Poised, Suits, Attuned, Reading
  <1>2. Rested(r).encoded = "none"
    BY <1>1 DEF Rested, Fields
  <1> QED
    BY <1>2 DEF Symbol

----------------------------------------------------------------------------
(* What is sent grows.                                                     *)

Emitted == [wire : Seq(Byte), previous : -1 .. 127]

LEMMA WireGrows ==
  ASSUME NEW w \in Emitted, NEW b \in Seq(Byte), NEW p \in Seq(Byte)
  PROVE  b \o p \in Seq(Byte) /\ (w.wire \o b) \o p = w.wire \o (b \o p)
  <1> DEFINE u == w.wire
  <1>1. u \in Seq(Byte)
    BY DEF Emitted
  <1> HIDE DEF u
  <1>2. b \o p \in Seq(Byte)
    OBVIOUS
  <1>3. (u \o b) \o p = u \o (b \o p)
    BY <1>1, JoinedThrice
  <1> QED
    BY <1>2, <1>3 DEF u

LEMMA WireGrowsTwice ==
  ASSUME NEW w \in Emitted, NEW b \in Seq(Byte), NEW z \in Seq(Byte), NEW a \in Seq(Byte)
  PROVE  ((w.wire \o b) \o z) \o a = w.wire \o (b \o (z \o a))
  <1> DEFINE u == w.wire  ub == u \o b  za == z \o a
  <1>1. u \in Seq(Byte)
    BY DEF Emitted
  <1> HIDE DEF u
  <1>2. ub \in Seq(Byte) /\ za \in Seq(Byte)
    BY <1>1
  <1>3. ub \o za = u \o (b \o za)
    BY <1>1, <1>2, JoinedThrice, SMTT(60)
  <1> HIDE DEF ub
  <1>4. (ub \o z) \o a = ub \o (z \o a)
    BY <1>2, JoinedThrice
  <1> QED
    BY <1>3, <1>4 DEF u, ub

LEMMA RawAdds ==
  ASSUME NEW s \in Emitted, NEW p \in Seq(Byte), p # << >>
  PROVE  raw(s, p) \in Emitted /\ raw(s, p).wire = s.wire \o p
  <1>1. s.wire \in Seq(Byte)
    BY DEF Emitted
  <1>2. p[Len(p)] \in Byte
    BY EmptySeq, SeqElements
  <1> DEFINE u == s.wire  last == Low(p[Len(p)])
  <1>3. u \in Seq(Byte)
    BY <1>1
  <1>4. last \in -1 .. 127
    <2> DEFINE z == p[Len(p)]
    <2>1. z \in Byte
      BY <1>2
    <2> HIDE DEF z
    <2>2. Low(z) \in 0 .. 127
      BY <2>1, LowByte
    <2> QED
      BY <2>2 DEF z
  <1>5. raw(s, p) = [wire |-> u \o p, previous |-> last]
    BY DEF raw, Last
  <1> HIDE DEF u, last
  <1>6. u \o p \in Seq(Byte)
    BY <1>3
  <1> QED
    BY <1>4, <1>5, <1>6 DEF Emitted, u

LEMMA BufferAdds ==
  ASSUME NEW f \in Formats, NEW s \in Emitted, NEW c \in Byte
  PROVE  buffer_tx(f, s, c) \in Emitted
  <1> DEFINE escape == IF f.style = "moby" THEN mobyturbo_byte_needs_escape(f, c, s.previous)
                       ELSE tx_byte_needs_escape(f, c, s.previous)
             x == IF c = IAC THEN ZRUB1 ELSE Toggled(c)
             p == IF ~escape THEN <<c>> ELSE <<ZDLE, x>>
  <1>1. buffer_tx(f, s, c) = raw(s, p)
    BY DEF buffer_tx
  <1>2. x \in Byte
    <2>1. ZRUB1 \in Byte
      BY DEF ZRUB1, Byte
    <2>2. Toggled(c) \in Byte
      BY ControlBytes
    <2> QED
      BY <2>1, <2>2
  <1> HIDE DEF escape, x
  <1>3. p \in Seq(Byte) /\ p # << >>
    <2>1. ZDLE \in Byte
      BY DEF ZDLE, Byte
    <2>2. \A y, z \in Byte : <<y>> \in Seq(Byte) /\ <<y>> # << >> /\ <<y, z>> \in Seq(Byte) /\ <<y, z>> # << >>
      OBVIOUS
    <2> QED
      BY <1>2, <2>1, <2>2
  <1> HIDE DEF p
  <1> QED
    BY <1>1, <1>3, RawAdds

LEMMA BufferSteps ==
  ASSUME NEW f \in Formats, NEW s \in Emitted, NEW b \in Seq(Byte)
  PROVE  \E g : /\ g \in [0 .. Len(b) -> Emitted] /\ g[0] = s
                /\ \A i \in 1 .. Len(b) : g[i] = buffer_tx(f, g[i - 1], b[i])
                /\ buffer_all(f, s, b) = g[Len(b)]
  <1> DEFINE n == Len(b)
             After(x, i) == buffer_tx(f, x, b[i])
             step == [i \in 1 .. n |-> [x \in Emitted |-> After(x, i)]]
             Body(h, i) == IF i = 0 THEN s ELSE After(h[i - 1], i)
             Chain(h) == h = [i \in 0 .. n |-> Body(h, i)]
             upto == CHOOSE h : Chain(h)
  <1>1. n \in Nat /\ \A i \in 1 .. n : b[i] \in Byte
    BY SeqElements
  <1>2. \A x, i : After(x, i) = buffer_tx(f, x, b[i])
    OBVIOUS
  <1>3. buffer_all(f, s, b) = upto[n]
    BY DEF buffer_all, Along
  <1> HIDE DEF n, After
  <1>5. \A i \in 1 .. n, x \in Emitted : After(x, i) \in Emitted
    BY <1>1, <1>2, BufferAdds
  <1>6. step \in Moves(Emitted, n) /\ \A i \in 1 .. n, x \in Emitted : step[i][x] = After(x, i)
    BY <1>5 DEF Moves
  <1> HIDE DEF step
  <1>7. PICK g : Leads(Emitted, n, s, step, g)
    BY <1>1, <1>6, Recursion
  <1>8. g \in [0 .. n -> Emitted] /\ g[0] = s /\ \A i \in 1 .. n : g[i] = step[i][g[i - 1]]
    BY <1>7 DEF Leads
  <1>9. \A i \in 1 .. n : g[i] = After(g[i - 1], i)
    <2> TAKE i \in 1 .. n
    <2>1. i - 1 \in 0 .. n
      BY <1>1
    <2> QED
      BY <1>6, <1>8, <2>1
  <1>10. Chain(g)
    <2>1. g = [i \in 0 .. n |-> g[i]]
      BY <1>8
    <2>2. \A i \in 0 .. n : g[i] = Body(g, i)
      <3> TAKE i \in 0 .. n
      <3>1. CASE i = 0
        BY <1>8, <3>1
      <3>2. CASE i # 0
        <4>1. i \in 1 .. n
          BY <1>1, <3>2
        <4> QED
          BY <1>9, <3>2, <4>1
      <3> QED
        BY <3>1, <3>2
    <2> HIDE DEF Body
    <2> QED
      BY <2>1, <2>2
  <1>11. Chain(upto)
    <2> HIDE DEF Chain
    <2> QED
      BY <1>10
  <1> HIDE DEF upto
  <1>12. \A i \in 0 .. n : upto[i] = Body(upto, i)
    <2> HIDE DEF Body
    <2> QED
      BY <1>11
  <1> HIDE DEF Chain
  <1>13. upto[0] = g[0] /\ \A i \in 0 .. n - 1 : upto[i] = g[i] => upto[i + 1] = g[i + 1]
    <2>1. upto[0] = g[0]
      BY <1>1, <1>8, <1>12
    <2>2. ASSUME NEW i \in 0 .. n - 1, upto[i] = g[i] PROVE upto[i + 1] = g[i + 1]
      <3>1. i + 1 \in 1 .. n /\ i + 1 \in 0 .. n /\ i + 1 # 0 /\ (i + 1) - 1 = i
        BY <1>1
      <3>2. upto[i + 1] = After(upto[i], i + 1)
        BY <1>12, <3>1
      <3> QED
        BY <1>9, <2>2, <3>1, <3>2
    <2> QED
      BY <2>1, <2>2
  <1>14. upto[n] = g[n]
    <2>1. n \in 0 .. n
      BY <1>1
    <2>2. \A i \in 0 .. n : upto[i] = g[i]
      BY <1>1, <1>13, SameChain
    <2> QED
      BY <2>1, <2>2
  <1>15. \A i \in 1 .. n : g[i] = buffer_tx(f, g[i - 1], b[i])
    BY <1>2, <1>9
  <1> QED
    BY <1>3, <1>8, <1>14, <1>15 DEF n

LEMMA BufferNone ==
  ASSUME NEW f \in Formats, NEW s \in Emitted
  PROVE  buffer_all(f, s, << >>) = s
  <1> DEFINE e == << >>
  <1>1. e \in Seq(Byte) /\ Len(e) = 0
    OBVIOUS
  <1> HIDE DEF e
  <1>2. PICK g : /\ g \in [0 .. Len(e) -> Emitted] /\ g[0] = s
                 /\ \A i \in 1 .. Len(e) : g[i] = buffer_tx(f, g[i - 1], e[i])
                 /\ buffer_all(f, s, e) = g[Len(e)]
    BY <1>1, BufferSteps, ZenonT(60)
  <1> QED
    BY <1>1, <1>2 DEF e

LEMMA BufferMore ==
  ASSUME NEW f \in Formats, NEW s \in Emitted, NEW b \in Seq(Byte), NEW c \in Byte
  PROVE  /\ buffer_all(f, s, Append(b, c)) = buffer_tx(f, buffer_all(f, s, b), c)
         /\ buffer_all(f, s, b) \in Emitted
  <1> DEFINE more == Append(b, c)  n == Len(b)
  <1>1. /\ more \in Seq(Byte) /\ Len(more) = n + 1 /\ n \in Nat
        /\ \A i \in 1 .. n : more[i] = b[i]
        /\ more[n + 1] = c
    BY AppendIs
  <1>2. PICK g : /\ g \in [0 .. n -> Emitted]
                 /\ g[0] = s /\ \A i \in 1 .. n : g[i] = buffer_tx(f, g[i - 1], b[i])
                 /\ buffer_all(f, s, b) = g[n]
    BY BufferSteps
  <1> HIDE DEF more
  <1> HIDE DEF n
  <1>3. PICK h : /\ h[0] = s /\ \A i \in 1 .. Len(more) : h[i] = buffer_tx(f, h[i - 1], more[i])
                 /\ buffer_all(f, s, more) = h[Len(more)]
    <2>1. more \in Seq(Byte)
      BY <1>1
    <2> QED
      BY <2>1, BufferSteps
  <1>4. \A i \in 0 .. n - 1 : g[i] = h[i] => g[i + 1] = h[i + 1]
    <2> TAKE i \in 0 .. n - 1
    <2>1. i + 1 \in 1 .. n /\ i + 1 \in 1 .. n + 1 /\ (i + 1) - 1 = i
      BY <1>1
    <2> QED
      BY <1>1, <1>2, <1>3, <2>1
  <1>5. g[n] = h[n] /\ g[n] \in Emitted
    <2>1. n \in 0 .. n /\ g[0] = h[0]
      BY <1>1, <1>2, <1>3
    <2>2. \A i \in 0 .. n : g[i] = h[i]
      BY <1>1, <1>4, <2>1, SameChain, ZenonT(60)
    <2> QED
      BY <1>2, <2>1, <2>2
  <1>6. h[n + 1] = buffer_tx(f, h[n], c)
    <2>1. n + 1 \in 1 .. n + 1 /\ (n + 1) - 1 = n
      BY <1>1
    <2> QED
      BY <1>1, <1>3, <2>1
  <1> QED
    BY <1>1, <1>2, <1>3, <1>5, <1>6 DEF more

----------------------------------------------------------------------------
(* A subpacket in a plain encoding or in MobyTurbo.                         *)

Kept == {"event", "cancel", "mode", "high", "encoded", "escape8", "moby", "is32", "ctl"}

LEMMA KeptIs ==
  ASSUME NEW r, NEW s, \A x \in Kept : s[x] = r[x]
  PROVE  /\ s.event = r.event /\ s.cancel = r.cancel /\ s.mode = r.mode /\ s.high = r.high
         /\ s.encoded = r.encoded /\ s.escape8 = r.escape8 /\ s.moby = r.moby
         /\ s.is32 = r.is32 /\ s.ctl = r.ctl
  BY DEF Kept

LEMMA StillPoised ==
  ASSUME NEW f, NEW r, NEW s \in Good, Poised("data", f, r), \A x \in Kept : s[x] = r[x],
         s.at \in {"data", "check"} \/ (s.at = "ending" /\ f.style = "pack7")
  PROVE  Poised("data", f, s)
  <1>1. /\ s.event = r.event /\ s.cancel = r.cancel /\ s.mode = r.mode /\ s.high = r.high
        /\ s.encoded = r.encoded /\ s.escape8 = r.escape8 /\ s.moby = r.moby
        /\ s.is32 = r.is32 /\ s.ctl = r.ctl
    BY KeptIs
  <1>2. Attuned(f, s) /\ Attuned(f, r)
    BY <1>1 DEF Poised, Suits, Attuned
  <1>3. /\ s.event = "none" /\ s.cancel \in 0 .. 3 /\ s.mode = "plain" /\ s.high = FALSE
        /\ s.cancel \in 0 .. 4
    BY <1>1 DEF Poised
  <1>4. s.at = "ending" => s.encoded = "pack7"
    BY <1>2 DEF Attuned, SevenBit
  <1>5. Receives(s)
    BY <1>4 DEF Receives
  <1> QED
    BY <1>2, <1>3, <1>5 DEF Poised, Suits, Reading

LEMMA PoisedIs ==
  ASSUME NEW f, NEW r, Poised("data", f, r)
  PROVE  /\ r \in Good /\ r \in Reading("data") /\ DOMAIN r = Fields
         /\ Rested(r) \in Good /\ Poised("data", f, Rested(r)) /\ DOMAIN Rested(r) = Fields
         /\ \A x \in Fields \ {"cancel"} : Rested(r)[x] = r[x]
         /\ Rested(r).cancel = 0
  <1>1. r \in Good /\ r \in Reading("data") /\ r.mode = "plain" /\ r.high = FALSE /\ r.event = "none"
    BY DEF Poised, Reading
  <1>2. /\ Rested(r) \in Good /\ \A x \in Fields \ {"cancel"} : Rested(r)[x] = r[x]
        /\ Rested(r).cancel = 0
    BY <1>1, RestedIs
  <1>3. DOMAIN r = Fields /\ DOMAIN Rested(r) = Fields
    BY <1>1, <1>2, GoodIs
  <1> DEFINE s == Rested(r)
  <1>4. \A x \in {"event", "mode", "high", "encoded", "escape8", "moby", "is32", "ctl", "at"} :
          x \in Fields \ {"cancel"}
    BY DEF Fields
  <1>5. s \in Good /\ s.cancel = 0 /\ s.event = r.event /\ s.mode = r.mode /\ s.high = r.high
        /\ s.encoded = r.encoded /\ s.escape8 = r.escape8 /\ s.moby = r.moby
        /\ s.is32 = r.is32 /\ s.ctl = r.ctl /\ s.at = r.at
    BY <1>2, <1>4
  <1> HIDE DEF s
  <1>6. Attuned(f, s)
    BY <1>5 DEF Poised, Suits, Attuned
  <1>7. s \in Reading("data")
    BY <1>5 DEF Poised, Reading, Receives
  <1>8. Poised("data", f, s)
    BY <1>5, <1>6, <1>7 DEF Poised, Suits
  <1> QED
    BY <1>1, <1>2, <1>3, <1>8 DEF s

LEMMA RepeatedOnce ==
  ASSUME NEW c \in Byte
  PROVE  Repeated(c, 1) = <<c>>
  BY DEF Repeated

\* What fits into the buffer is put there.
LEMMA PutFits ==
  ASSUME NEW r \in Good, NEW c \in Byte, NEW n \in Nat, Len(r.out) + n <= Capacity
  PROVE  /\ Put(r, c, n) \in Good /\ Put(r, c, n).out = r.out \o Repeated(c, n)
         /\ \A x \in Fields \ {"out"} : Put(r, c, n)[x] = r[x]
  <1> DEFINE o == r.out \o Repeated(c, n)
  <1>1. r.out \in Seq(Byte) /\ DOMAIN r = Fields
    BY GoodFields, GoodIs
  <1>2. n <= Capacity - Len(r.out)
    <2> DEFINE m == Len(r.out)
    <2>1. m \in Nat /\ m + n <= Capacity /\ Capacity \in Nat
      BY <1>1, SubpacketAssumption
    <2> HIDE DEF m
    <2> QED
      BY <2>1 DEF m
  <1>3. Put(r, c, n) = [r EXCEPT !.out = o]
    BY <1>2 DEF Put
  <1>4. Put(r, c, n) \in Good
    BY PutLike DEF Like
  <1> HIDE DEF o
  <1>5. [r EXCEPT !.out = o].out = o /\ \A x \in Fields \ {"out"} : [r EXCEPT !.out = o][x] = r[x]
    BY <1>1 DEF Fields
  <1> QED
    BY <1>3, <1>4, <1>5 DEF o

\* The data read so far are d.
Filled(f, r, d) ==
  Poised("data", f, r) /\ r.at = "data" /\ r.out = d /\ r.over = FALSE /\ r.crc = << >>

LEMMA FillOne ==
  ASSUME NEW f, f.style \notin SevenBit, NEW d \in Seq(Byte), NEW r, Filled(f, r, d), NEW c \in Byte,
         Len(d) < Capacity
  PROVE  Filled(f, PlainSymbol(Rested(r), c), Append(d, c))
  <1> DEFINE q == Rested(r)  s == Put(q, c, 1)
  <1>1. /\ Poised("data", f, r) /\ r.at = "data" /\ r.out = d /\ r.over = FALSE /\ r.crc = << >>
    BY DEF Filled
  <1>2. /\ q \in Good /\ Poised("data", f, q) /\ DOMAIN q = Fields
        /\ \A x \in Fields \ {"cancel"} : q[x] = r[x]
    BY <1>1, PoisedIs
  <1>3. \A x \in {"at", "out", "over", "crc"} : x \in Fields \ {"cancel"}
    BY DEF Fields
  <1>4. q.at = "data" /\ q.out = d /\ q.over = FALSE /\ q.crc = << >>
    BY <1>1, <1>2, <1>3
  <1> HIDE DEF q
  <1>5. ~(c > 255)
    BY DEF Byte
  <1>6. PlainSymbol(q, c) = s
    BY <1>4, <1>5 DEF PlainSymbol
  <1>7. Len(q.out) + 1 <= Capacity
    <2> DEFINE m == Len(d)
    <2>1. m \in Nat /\ m < Capacity /\ Capacity \in Nat
      BY SubpacketAssumption
    <2> HIDE DEF m
    <2> QED
      BY <1>4, <2>1 DEF m
  <1>8. s \in Good /\ s.out = q.out \o Repeated(c, 1) /\ \A x \in Fields \ {"out"} : s[x] = q[x]
    BY <1>2, <1>7, PutFits
  <1> HIDE DEF s
  <1>9. s.out = Append(d, c)
    <2>1. d \o <<c>> = Append(d, c)
      BY AppendIs
    <2> QED
      BY <1>4, <1>8, <2>1, RepeatedOnce
  <1>10. (\A x \in Kept : x \in Fields \ {"out"}) /\ \A x \in {"at", "over", "crc"} : x \in Fields \ {"out"}
    BY DEF Fields, Kept
  <1>11. s.at = "data" /\ s.over = FALSE /\ s.crc = << >>
    BY <1>4, <1>8, <1>10
  <1>12. Poised("data", f, s)
    BY <1>2, <1>8, <1>10, <1>11, StillPoised
  <1> QED
    BY <1>6, <1>9, <1>11, <1>12 DEF Filled, q

\* How r is left by what buffer_all makes of d.
LEMMA PlainFilled ==
  ASSUME NEW f \in Formats, NEW line, NEW r, NEW w \in Emitted, NEW data \in Seq(Byte),
         f.style \notin SevenBit, Carries(line, f), Filled(f, r, << >>), Len(data) <= Capacity
  PROVE  /\ buffer_all(f, w, data) \in Emitted
         /\ \E b \in Seq(Byte) : /\ buffer_all(f, w, data).wire = w.wire \o b
                                 /\ Filled(f, Taken("data", line, r, b), data)
  <1> DEFINE Got(d, b) == buffer_all(f, w, d).wire = w.wire \o b /\ Filled(f, Taken("data", line, r, b), d)
             T == {d \in Seq(Byte) : Len(d) <= Capacity => \E b \in Seq(Byte) : Got(d, b)}
  <1>1. r \in Reading("data") /\ line \in Lines
    BY PoisedIs DEF Filled, Carries
  <1>2. << >> \in T
    <2>1. buffer_all(f, w, << >>).wire = w.wire \o << >>
      <3>1. w.wire \in Seq(Byte)
        BY DEF Emitted
      <3> QED
        BY <3>1, BufferNone, NothingJoined
    <2>2. Taken("data", line, r, << >>) = r
      BY <1>1, TakenNone
    <2>3. << >> \in Seq(Byte) /\ Got(<< >>, << >>)
      BY <2>1, <2>2
    <2> HIDE DEF Got
    <2> QED
      BY <2>3
  <1>3. ASSUME NEW d \in Seq(Byte), NEW c \in Byte, d \in T PROVE Append(d, c) \in T
    <2> SUFFICES ASSUME Len(Append(d, c)) <= Capacity PROVE \E b \in Seq(Byte) : Got(Append(d, c), b)
      <3> HIDE DEF Got
      <3> QED
        BY AppendIs
    <2> DEFINE m == Len(d)  y == Append(d, c)
    <2>1. m \in Nat /\ Len(y) = m + 1 /\ Len(y) <= Capacity
      BY AppendIs
    <2> HIDE DEF m, y
    <2>2. m < Capacity /\ m <= Capacity
      BY <2>1, SubpacketAssumption
    <2>3. PICK b \in Seq(Byte) : Got(d, b)
      <3> HIDE DEF Got
      <3> QED
        BY <1>3, <2>2 DEF m
    <2> DEFINE q == Taken("data", line, r, b)  v == buffer_all(f, w, d)
    <2>4. Filled(f, q, d) /\ v.wire = w.wire \o b
      BY <2>3
    <2>5. v \in Emitted /\ buffer_all(f, w, y) = buffer_tx(f, v, c)
      BY BufferMore DEF y
    <2> HIDE DEF q, v
    <2>6. Poised("data", f, q)
      BY <2>4 DEF Filled
    <2>20. PICK p \in Seq(Byte) : Quotes("data", f, line, q, c, v, p)
      BY <2>6, PlainTaken
    <2>7. /\ p # << >> /\ buffer_tx(f, v, c) = raw(v, p)
          /\ Taken("data", line, q, p) = PlainSymbol(Rested(q), c)
      BY <2>6, <2>20, PlainIsData DEF Quotes
    <2>8. Filled(f, PlainSymbol(Rested(q), c), y)
      BY <2>2, <2>4, FillOne DEF m, y
    <2>9. Taken("data", line, r, b \o p) = Taken("data", line, q, p)
      BY <1>1, TakenJoined DEF q
    <2>10. raw(v, p).wire = v.wire \o p
      BY <2>5, <2>7, RawAdds
    <2>11. buffer_all(f, w, y).wire = w.wire \o (b \o p)
      <3>1. buffer_all(f, w, y).wire = (w.wire \o b) \o p
        BY <2>4, <2>5, <2>7, <2>10
      <3>2. (w.wire \o b) \o p = w.wire \o (b \o p)
        BY WireGrows
      <3> QED
        BY <3>1, <3>2
    <2>12. b \o p \in Seq(Byte)
      OBVIOUS
    <2> QED
      BY <2>7, <2>8, <2>9, <2>11, <2>12 DEF y
  <1> HIDE DEF T
  <1>4. data \in T
    BY <1>2, <1>3, SequenceInduction
  <1>5. buffer_all(f, w, data) \in Emitted
    BY BufferMore, 0 \in Byte DEF Byte
  <1> QED
    BY <1>4, <1>5 DEF T

Width(f) == IF f.style = "hex" THEN 2 ELSE 4

LEMMA CheckLength ==
  ASSUME NEW f \in Formats, NEW data \in Seq(Byte), NEW ending \in Byte
  PROVE  DataCheck(f, data, ending) \in Seq(Byte) /\ Len(DataCheck(f, data, ending)) = Width(f)
  <1>1. Append(data, ending) \in Seq(Byte)
    BY AppendIs
  <1>2. CASE f.style = "hex"
    BY <1>1, <1>2, Crc16Bytes DEF DataCheck, Width
  <1>3. CASE f.style # "hex"
    <2> DEFINE w == crc32_update(Crc32Start, data)
    <2>1. w \in Word
      BY StartWord, Crc32Words
    <2>2. crc32_byte_update(w, ending) \in Word
      BY <2>1, ByteUpdate
    <2>3. Inverted(crc32_byte_update(w, ending)) \in Word
      BY <2>2, InvertedWord
    <2> QED
      BY <1>3, <2>3, WordIsBytes DEF DataCheck, Width
  <1> QED
    BY <1>2, <1>3

\* The end has been read, and the bytes k of the check.
Ending(f, r, d, e, k) ==
  Poised("data", f, r) /\ r.at = "check" /\ r.out = d /\ r.over = FALSE /\ r.ending = e /\ r.crc = k

LEMMA EndFilled ==
  ASSUME NEW f, f.style \notin SevenBit, NEW d, NEW r, Filled(f, r, d), NEW e \in ZCRCE .. ZCRCW
  PROVE  Ending(f, PlainSymbol(Rested(r), 256 + e), d, e, << >>)
  <1> DEFINE q == Rested(r)  s == [q EXCEPT !.at = "check", !.ending = e]
  <1>1. /\ Poised("data", f, r) /\ r.at = "data" /\ r.out = d /\ r.over = FALSE /\ r.crc = << >>
    BY DEF Filled
  <1>2. /\ q \in Good /\ Poised("data", f, q) /\ DOMAIN q = Fields
        /\ \A x \in Fields \ {"cancel"} : q[x] = r[x]
    BY <1>1, PoisedIs
  <1>3. \A x \in {"at", "out", "over", "crc"} : x \in Fields \ {"cancel"}
    BY DEF Fields
  <1>4. q.at = "data" /\ q.out = d /\ q.over = FALSE /\ q.crc = << >>
    BY <1>1, <1>2, <1>3
  <1> HIDE DEF q
  <1>5. 256 + e > 255 /\ (256 + e) - 256 = e /\ e \in Byte
    BY DEF ZCRCE, ZCRCW, Byte
  <1>6. PlainSymbol(q, 256 + e) = s
    BY <1>4, <1>5 DEF PlainSymbol
  <1>7. s.at = "check" /\ s.ending = e /\ \A x \in Fields \ {"at", "ending"} : s[x] = q[x]
    BY <1>2 DEF Fields
  <1>8. s \in Good
    <2> DEFINE a == [q EXCEPT !.at = "check"]
    <2>1. "check" \in RxPlaces
      BY DEF RxPlaces
    <2>2. a \in Good
      BY <1>2, <2>1, GoodName
    <2>3. s = [a EXCEPT !.ending = e]
      BY <1>2 DEF Fields
    <2> HIDE DEF a, s
    <2> QED
      BY <1>5, <2>2, <2>3, GoodByte
  <1> HIDE DEF s
  <1>9. (\A x \in Kept : x \in Fields \ {"at", "ending"})
        /\ \A x \in {"out", "over", "crc"} : x \in Fields \ {"at", "ending"}
    BY DEF Fields, Kept
  <1>10. s.out = d /\ s.over = FALSE /\ s.crc = << >>
    BY <1>4, <1>7, <1>9
  <1>11. Poised("data", f, s)
    BY <1>2, <1>7, <1>8, <1>9, StillPoised
  <1> QED
    BY <1>6, <1>7, <1>10, <1>11 DEF Ending, q

Grown(r, k) == [Rested(r) EXCEPT !.crc = k]

Compared(f, r, d, e, k, c) ==
  IF Len(k) + 1 < Width(f) THEN Grown(r, Append(k, c))
  ELSE Checked(Grown(r, Append(k, c)), DataCheck(f, d, e))

\* A byte of the check.
LEMMA CheckAdded ==
  ASSUME NEW f \in Formats, NEW d, NEW e, NEW k \in Seq(Byte), NEW r, NEW c \in Byte,
         f.style \notin SevenBit, Ending(f, r, d, e, k)
  PROVE  /\ Ending(f, Grown(r, Append(k, c)), d, e, Append(k, c))
         /\ DOMAIN Grown(r, Append(k, c)) = Fields
         /\ PlainSymbol(Rested(r), c) = Compared(f, r, d, e, k, c)
  <1> DEFINE q == Rested(r)  more == Append(k, c)  s == [q EXCEPT !.crc = more]
  <1>1. /\ Poised("data", f, r) /\ r.at = "check" /\ r.out = d /\ r.over = FALSE /\ r.ending = e /\ r.crc = k
    BY DEF Ending
  <1>2. /\ q \in Good /\ Poised("data", f, q) /\ DOMAIN q = Fields
        /\ \A x \in Fields \ {"cancel"} : q[x] = r[x]
    BY <1>1, PoisedIs
  <1>3. \A x \in {"at", "out", "over", "crc", "ending"} : x \in Fields \ {"cancel"}
    BY DEF Fields
  <1>4. q.at = "check" /\ q.out = d /\ q.over = FALSE /\ q.crc = k /\ q.ending = e
    BY <1>1, <1>2, <1>3
  <1>5. q.is32 <=> f.style # "hex"
    BY <1>2 DEF Poised, Suits, Attuned
  <1>6. more \in Seq(Byte) /\ Len(more) = Len(k) + 1
    BY AppendIs
  <1> HIDE DEF q
  <1>7. ~(c > 255) /\ c <= 255
    BY DEF Byte
  <1> HIDE DEF more
  <1>8. s.crc = more /\ DOMAIN s = Fields /\ \A x \in Fields \ {"crc"} : s[x] = q[x]
    BY <1>2 DEF Fields
  <1>9. s \in Good
    BY <1>2, <1>6, GoodText
  <1>10. [q EXCEPT !.crc = Append(@, c)] = s
    BY <1>4 DEF more
  <1> HIDE DEF s
  <1>11. PlainSymbol(q, c) =
           IF Len(s.crc) < (IF q.is32 THEN 4 ELSE 2) THEN s
           ELSE Checked(s, IF ~q.is32 THEN Crc16(Append(q.out, q.ending))
                           ELSE DataCheck([style |-> "bin32"], q.out, q.ending))
    BY <1>4, <1>7, <1>10 DEF PlainSymbol
  <1>12. PlainSymbol(q, c) =
           IF Len(k) + 1 < Width(f) THEN s ELSE Checked(s, DataCheck(f, d, e))
    <2>1. (IF ~q.is32 THEN Crc16(Append(q.out, q.ending))
           ELSE DataCheck([style |-> "bin32"], q.out, q.ending)) = DataCheck(f, d, e)
      BY <1>4, <1>5 DEF DataCheck
    <2> QED
      BY <1>4, <1>5, <1>6, <1>8, <1>11, <2>1 DEF Width
  <1>13. (\A x \in Kept : x \in Fields \ {"crc"})
        /\ \A x \in {"at", "out", "over", "ending"} : x \in Fields \ {"crc"}
    BY DEF Fields, Kept
  <1>14. s.at = "check" /\ s.out = d /\ s.over = FALSE /\ s.ending = e
    BY <1>4, <1>8, <1>13
  <1>15. Poised("data", f, s)
    BY <1>2, <1>8, <1>9, <1>13, <1>14, StillPoised
  <1> QED
    BY <1>8, <1>12, <1>14, <1>15 DEF Ending, q, more, s, Grown, Compared

LEMMA CheckedIs ==
  ASSUME NEW r, DOMAIN r = Fields, r.over = FALSE, NEW expected, r.crc = expected
  PROVE  /\ Checked(r, expected).event = "data" /\ Checked(r, expected).out = r.out
         /\ Checked(r, expected).ending = r.ending
  BY DEF Checked, Fields

\* What a check of the data d with the end e starts with.
LEMMA CheckRead ==
  ASSUME NEW f \in Formats, NEW line, NEW r, NEW w \in Emitted, NEW d, NEW e, NEW check \in Seq(Byte),
         f.style \notin SevenBit, Carries(line, f), Ending(f, r, d, e, << >>), Len(check) < Width(f)
  PROVE  /\ buffer_all(f, w, check) \in Emitted
         /\ \E b \in Seq(Byte) : /\ buffer_all(f, w, check).wire = w.wire \o b
                                 /\ Ending(f, Taken("data", line, r, b), d, e, check)
  <1> DEFINE Got(k, b) == buffer_all(f, w, k).wire = w.wire \o b /\ Ending(f, Taken("data", line, r, b), d, e, k)
             T == {k \in Seq(Byte) : Len(k) < Width(f) => \E b \in Seq(Byte) : Got(k, b)}
  <1>1. r \in Reading("data") /\ line \in Lines
    BY PoisedIs DEF Ending, Carries
  <1>2. << >> \in T
    <2>1. buffer_all(f, w, << >>).wire = w.wire \o << >>
      <3>1. w.wire \in Seq(Byte)
        BY DEF Emitted
      <3> QED
        BY <3>1, BufferNone, NothingJoined
    <2>2. Taken("data", line, r, << >>) = r
      BY <1>1, TakenNone
    <2>3. << >> \in Seq(Byte) /\ Got(<< >>, << >>)
      BY <2>1, <2>2
    <2> HIDE DEF Got
    <2> QED
      BY <2>3
  <1>3. ASSUME NEW k \in Seq(Byte), NEW c \in Byte, k \in T PROVE Append(k, c) \in T
    <2> SUFFICES ASSUME Len(Append(k, c)) < Width(f) PROVE \E b \in Seq(Byte) : Got(Append(k, c), b)
      <3> HIDE DEF Got
      <3> QED
        BY AppendIs
    <2> DEFINE m == Len(k)  y == Append(k, c)
    <2>1. m \in Nat /\ Len(y) = m + 1 /\ Len(y) < Width(f)
      BY AppendIs
    <2> HIDE DEF m, y
    <2>2. m < Width(f) /\ m + 1 < Width(f)
      BY <2>1 DEF Width
    <2>3. PICK b \in Seq(Byte) : Got(k, b)
      <3> HIDE DEF Got
      <3> QED
        BY <1>3, <2>2 DEF m
    <2> DEFINE q == Taken("data", line, r, b)  v == buffer_all(f, w, k)
    <2>4. Ending(f, q, d, e, k) /\ v.wire = w.wire \o b
      BY <2>3
    <2>5. v \in Emitted /\ buffer_all(f, w, y) = buffer_tx(f, v, c)
      BY BufferMore DEF y
    <2> HIDE DEF q, v
    <2>6. Poised("data", f, q)
      BY <2>4 DEF Ending
    <2>20. PICK p \in Seq(Byte) : Quotes("data", f, line, q, c, v, p)
      BY <2>6, PlainTaken
    <2>7. /\ p # << >> /\ buffer_tx(f, v, c) = raw(v, p)
          /\ Taken("data", line, q, p) = PlainSymbol(Rested(q), c)
      BY <2>6, <2>20, PlainIsData DEF Quotes
    <2>8. Ending(f, PlainSymbol(Rested(q), c), d, e, y)
      <3>1. Ending(f, Grown(q, y), d, e, y)
        BY <2>4, CheckAdded DEF y
      <3>2. PlainSymbol(Rested(q), c) = Compared(f, q, d, e, k, c)
        BY <2>4, CheckAdded
      <3> QED
        BY <2>2, <3>1, <3>2 DEF m, y, Compared
    <2>9. Taken("data", line, r, b \o p) = Taken("data", line, q, p)
      BY <1>1, TakenJoined DEF q
    <2>10. raw(v, p).wire = v.wire \o p
      BY <2>5, <2>7, RawAdds
    <2>11. buffer_all(f, w, y).wire = w.wire \o (b \o p)
      <3>1. buffer_all(f, w, y).wire = (w.wire \o b) \o p
        BY <2>4, <2>5, <2>7, <2>10
      <3>2. (w.wire \o b) \o p = w.wire \o (b \o p)
        BY WireGrows
      <3> QED
        BY <3>1, <3>2
    <2>12. b \o p \in Seq(Byte)
      OBVIOUS
    <2> QED
      BY <2>7, <2>8, <2>9, <2>11, <2>12 DEF y
  <1> HIDE DEF T
  <1>4. check \in T
    BY <1>2, <1>3, SequenceInduction
  <1>5. buffer_all(f, w, check) \in Emitted
    BY BufferMore, 0 \in Byte DEF Byte
  <1> QED
    BY <1>4, <1>5 DEF T

\* The subpacket has been read, as it was sent.
Arrived(r, d, e) == r.event = "data" /\ r.out = d /\ r.ending = e

LEMMA SplitLast ==
  ASSUME NEW S, NEW s \in Seq(S), Len(s) > 0
  PROVE  \E t \in Seq(S), x \in S : s = Append(t, x) /\ Len(t) + 1 = Len(s)
  <1> DEFINE n == Len(s)  k == n - 1  t == SubSeq(s, 1, k)  x == s[n]
  <1>1. n \in Nat /\ n > 0 /\ x \in S /\ SubSeq(s, 1, n) = s
    BY SeqElements
  <1> HIDE DEF x, n
  <1>3. k \in 0 .. n - 1 /\ k + 1 = n
    BY <1>1
  <1> HIDE DEF k
  <1>4. t \in Seq(S) /\ Append(t, s[k + 1]) = SubSeq(s, 1, k + 1)
    BY <1>3 DEF n
  <1> HIDE DEF t
  <1>5. Append(t, x) = s
    BY <1>1, <1>3, <1>4 DEF x
  <1>2. t \in Seq(S) /\ x \in S /\ s = Append(t, x) /\ Len(t) + 1 = Len(s)
    BY <1>1, <1>4, <1>5, AppendIs
  <1> QED
    BY <1>1, <1>2 DEF n

LEMMA CheckMatches ==
  ASSUME NEW f \in Formats, NEW line, NEW r, NEW w \in Emitted, NEW d \in Seq(Byte), NEW e \in Byte,
         f.style \notin SevenBit, Carries(line, f), Ending(f, r, d, e, << >>)
  PROVE  \E b \in Seq(Byte) : /\ buffer_all(f, w, DataCheck(f, d, e)).wire = w.wire \o b
                              /\ Arrived(Taken("data", line, r, b), d, e)
  <1> DEFINE check == DataCheck(f, d, e)
  <1>1. check \in Seq(Byte) /\ Len(check) = Width(f) /\ Width(f) > 0
    BY CheckLength DEF Width
  <1> HIDE DEF check
  <1>2. PICK k \in Seq(Byte), c \in Byte : check = Append(k, c) /\ Len(k) + 1 = Width(f)
    BY <1>1, SplitLast
  <1>3. Len(k) < Width(f) /\ ~(Len(k) + 1 < Width(f))
    <2> DEFINE m == Len(k)
    <2>1. m \in Nat /\ m + 1 = Width(f)
      BY <1>2
    <2> HIDE DEF m
    <2>2. m < Width(f) /\ ~(m + 1 < Width(f))
      BY <2>1
    <2> QED
      BY <2>2 DEF m
  <1>4. r \in Reading("data") /\ line \in Lines
    BY PoisedIs DEF Ending, Carries
  <1> DEFINE v == buffer_all(f, w, k)
  <1>5. v \in Emitted /\ \E b \in Seq(Byte) : v.wire = w.wire \o b /\ Ending(f, Taken("data", line, r, b), d, e, k)
    BY <1>3, CheckRead
  <1>6. PICK b \in Seq(Byte) : v.wire = w.wire \o b /\ Ending(f, Taken("data", line, r, b), d, e, k)
    BY <1>5
  <1> DEFINE q == Taken("data", line, r, b)
  <1>7. Ending(f, q, d, e, k)
    BY <1>6
  <1>8. buffer_all(f, w, check) = buffer_tx(f, v, c)
    BY <1>2, BufferMore
  <1> HIDE DEF q, v
  <1>9. Poised("data", f, q)
    BY <1>7 DEF Ending
  <1>18. PICK p \in Seq(Byte) : Quotes("data", f, line, q, c, v, p)
    BY <1>9, PlainTaken
  <1>10. /\ p # << >> /\ buffer_tx(f, v, c) = raw(v, p)
         /\ Taken("data", line, q, p) = PlainSymbol(Rested(q), c)
    BY <1>9, <1>18, PlainIsData DEF Quotes
  <1> DEFINE s == Grown(q, Append(k, c))
  <1>19. PlainSymbol(Rested(q), c) = Compared(f, q, d, e, k, c)
    BY <1>7, CheckAdded
  <1>20. Ending(f, s, d, e, Append(k, c)) /\ DOMAIN s = Fields
    BY <1>7, CheckAdded
  <1>11. Ending(f, s, d, e, check) /\ DOMAIN s = Fields /\ PlainSymbol(Rested(q), c) = Checked(s, check)
    BY <1>2, <1>3, <1>19, <1>20 DEF check, Compared
  <1> HIDE DEF s
  <1>13. Arrived(Checked(s, check), d, e)
    BY <1>11, CheckedIs DEF Ending, Arrived
  <1>14. Taken("data", line, r, b \o p) = Taken("data", line, q, p)
    BY <1>4, TakenJoined DEF q
  <1>15. raw(v, p).wire = v.wire \o p
    BY <1>5, <1>10, RawAdds
  <1>16. buffer_all(f, w, check).wire = w.wire \o (b \o p)
    <2>1. buffer_all(f, w, check).wire = (w.wire \o b) \o p
      BY <1>6, <1>8, <1>10, <1>15
    <2>2. (w.wire \o b) \o p = w.wire \o (b \o p)
      BY WireGrows
    <2> QED
      BY <2>1, <2>2
  <1>17. b \o p \in Seq(Byte)
    OBVIOUS
  <1> QED
    BY <1>10, <1>11, <1>13, <1>14, <1>16, <1>17 DEF check

\* What t has sent after w brings the data d and the end e to r.
Delivers(line, r, w, t, d, e, b) == t.wire = w.wire \o b /\ Arrived(Taken("data", line, r, b), d, e)

LEMMA PlainDelivers ==
  ASSUME NEW f \in Formats, NEW line, NEW r, NEW w \in Emitted, NEW data \in Seq(Byte),
         NEW ending \in ZCRCE .. ZCRCW,
         f.style \notin SevenBit, Carries(line, f), Filled(f, r, << >>), Len(data) <= Capacity
  PROVE  /\ PlainData(f, w, data, ending) \in Emitted
         /\ \E b \in Seq(Byte) : Delivers(line, r, w, PlainData(f, w, data, ending), data, ending, b)
  <1> DEFINE u == buffer_all(f, w, data)  z == <<ZDLE, ending>>  v == raw(u, z)
             check == DataCheck(f, data, ending)
  <1>1. u \in Emitted /\ \E b \in Seq(Byte) : u.wire = w.wire \o b /\ Filled(f, Taken("data", line, r, b), data)
    BY PlainFilled
  <1>2. PICK b \in Seq(Byte) : u.wire = w.wire \o b /\ Filled(f, Taken("data", line, r, b), data)
    BY <1>1
  <1>3. ending \in Byte /\ ZDLE \in Byte
    BY DEF ZCRCE, ZCRCW, ZDLE, Byte
  <1>4. z \in Seq(Byte) /\ z # << >>
    BY <1>3
  <1>5. r \in Reading("data") /\ line \in Lines /\ w.wire \in Seq(Byte)
    BY PoisedIs DEF Filled, Carries, Emitted
  <1>6. check \in Seq(Byte)
    BY <1>3, CheckLength
  <1>7. PlainData(f, w, data, ending) = buffer_all(f, v, check)
    BY DEF PlainData
  <1> DEFINE q == Taken("data", line, r, b)  p == Taken("data", line, q, z)
  <1>8. Filled(f, q, data) /\ q \in Reading("data")
    BY <1>2, PoisedIs DEF Filled
  <1>9. p = PlainSymbol(Rested(q), 256 + ending)
    <2>1. Poised("data", f, q)
      BY <1>8 DEF Filled
    <2> HIDE DEF q
    <2> QED
      BY <2>1, EndingTaken, PlainIsData
  <1>10. Ending(f, PlainSymbol(Rested(q), 256 + ending), data, ending, << >>)
    <2> HIDE DEF q
    <2> QED
      BY <1>8, EndFilled
  <1> HIDE DEF u, q, p, z, check
  <1>11. v \in Emitted /\ v.wire = u.wire \o z
    BY <1>1, <1>4, RawAdds
  <1> HIDE DEF v
  <1>12. Ending(f, p, data, ending, << >>)
    BY <1>9, <1>10
  <1>13. PICK a \in Seq(Byte) : /\ buffer_all(f, v, DataCheck(f, data, ending)).wire = v.wire \o a
                                /\ Arrived(Taken("data", line, p, a), data, ending)
    BY <1>3, <1>11, <1>12, CheckMatches, ZenonT(60)
  <1>14. buffer_all(f, v, check) \in Emitted
    BY <1>6, <1>11, BufferMore, 0 \in Byte DEF Byte
  <1> DEFINE all == b \o (z \o a)
  <1>15. z \o a \in Seq(Byte) /\ all \in Seq(Byte)
    BY <1>4
  <1>16. Taken("data", line, r, all) = Taken("data", line, p, a)
    <2>1. Taken("data", line, r, all) = Taken("data", line, q, z \o a)
      <3> DEFINE x == z \o a
      <3>1. x \in Seq(Byte) /\ all = b \o x
        BY <1>15
      <3> HIDE DEF x, all
      <3>2. Taken("data", line, r, b \o x) = Taken("data", line, Taken("data", line, r, b), x)
        BY <1>5, <3>1, TakenJoined
      <3> QED
        BY <3>1, <3>2 DEF q, x
    <2>2. Taken("data", line, q, z \o a) = Taken("data", line, p, a)
      BY <1>4, <1>5, <1>8, TakenJoined DEF p
    <2> QED
      BY <2>1, <2>2
  <1>17. buffer_all(f, v, check).wire = w.wire \o all
    <2>1. buffer_all(f, v, check).wire = ((w.wire \o b) \o z) \o a
      BY <1>2, <1>11, <1>13 DEF check
    <2>2. ((w.wire \o b) \o z) \o a = w.wire \o (b \o (z \o a))
      BY <1>4, WireGrowsTwice, ZenonT(60)
    <2> QED
      BY <2>1, <2>2
  <1> HIDE DEF all
  <1>18. Delivers(line, r, w, PlainData(f, w, data, ending), data, ending, all)
    BY <1>7, <1>13, <1>16, <1>17 DEF Delivers
  <1> QED
    BY <1>7, <1>14, <1>15, <1>18

\* The end ZCRCW is followed by an XON, which rx_data leaves on the line.
Trailing(ending) == IF ending = ZCRCW THEN <<XON>> ELSE << >>

LEMMA DataTrails ==
  ASSUME NEW f, NEW w \in Emitted, NEW data \in Seq(Byte), NEW ending \in ZCRCE .. ZCRCW,
         NEW b \in Seq(Byte), DataEnded(f, w, data, ending) \in Emitted,
         DataEnded(f, w, data, ending).wire = w.wire \o b
  PROVE  tx_data(f, w, data, ending).wire = w.wire \o (b \o Trailing(ending))
  <1> DEFINE t == DataEnded(f, w, data, ending)
  <1>1. t \in Emitted /\ t.wire = w.wire \o b
    OBVIOUS
  <1> HIDE DEF t
  <1>2. tx_data(f, w, data, ending) = IF ending = ZCRCW THEN raw(t, <<XON>>) ELSE t
    BY DataSent DEF t
  <1>3. CASE ending = ZCRCW
    <2> DEFINE x == <<XON>>
    <2>1. x \in Seq(Byte) /\ x # << >>
      BY DEF XON, Byte
    <2> HIDE DEF x
    <2>2. raw(t, x).wire = t.wire \o x
      BY <1>1, <2>1, RawAdds
    <2>3. (w.wire \o b) \o x = w.wire \o (b \o x)
      BY <2>1, WireGrows
    <2>4. tx_data(f, w, data, ending) = raw(t, x) /\ Trailing(ending) = x
      BY <1>2, <1>3 DEF Trailing, x
    <2> QED
      BY <1>1, <2>2, <2>3, <2>4
  <1>4. CASE ending # ZCRCW
    <2>1. Trailing(ending) = << >> /\ b \o << >> = b
      BY <1>4, NothingJoined DEF Trailing
    <2> QED
      BY <1>1, <1>2, <1>4, <2>1
  <1> QED
    BY <1>3, <1>4

----------------------------------------------------------------------------
(* Seven-bit quoting, a byte at a time.                                    *)

\* Within the symbol after r; h: the eighth bit is set in what follows.
Middle(way, r, s, h) ==
  /\ Agree(s, r) /\ s \in Reading(way) /\ s.cancel \in 0 .. 3 /\ s.mode = "plain" /\ s.high = h

\* Only seven bits of a byte count.
LEMMA OmenLow ==
  ASSUME NEW r, NEW c \in Byte, NEW d \in Byte, Low(d) = Low(c)
  PROVE  rx_omen_cursor(r, d) = rx_omen_cursor(r, c)
  BY DEF rx_omen_cursor

LEMMA OmenCrosses ==
  ASSUME NEW line \in Lines, NEW c \in Byte, ~IsFlow(c)
  PROVE  \E d \in Byte : Passed(line, c) = <<d>> /\ Low(d) = Low(c)
  BY PassedIs

LEMMA MiddleIs ==
  ASSUME NEW way, NEW r \in Reading(way), r.event = "none", Quoting(way, r), Within(way, r),
         NEW s, NEW h, Middle(way, r, s, h)
  PROVE  /\ s \in Good /\ s \in Reading(way) /\ s.event = "none" /\ Quoting(way, s) /\ Within(way, s) /\ s.cancel \in 0 .. 3
         /\ s.mode = "plain" /\ s.high = h /\ s.ctl = r.ctl /\ s.cancel \in 0 .. 4 /\ Agree(s, r)
  <1>1. s \in Good /\ Agree(s, r)
    BY DEF Middle, Agree
  <1>2. s.event = "none" /\ Quoting(way, s) /\ Within(way, s) /\ s.ctl = r.ctl
    BY <1>1, AgreeFields
  <1> QED
    BY <1>1, <1>2 DEF Middle

\* What a byte does, while symbols are quoted in seven bits.
Steps(r, t, mode, high) == Agree(t, r) /\ t.cancel \in 0 .. 4 /\ t.mode = mode /\ t.high = high

Becomes(way, r, c, t, mode, high, y) ==
  /\ Steps(r, t, mode, high) /\ (c # CAN => t.cancel = 0)
  /\ y = Nothing => Taking(way, r, c) = t
  /\ y \notin {Nothing, Wrong} => Taking(way, r, c) = Symbol(way, t, y)

LEMMA OmenDecoded ==
  ASSUME NEW way, NEW r \in Good, NEW c \in Byte, NEW mode, NEW high, NEW y,
         rx_omen_cursor(r, c) = <<mode, high, y>>,
         r.event = "none", r.cancel \in 0 .. 4, Quoting(way, r), Within(way, r), r.cancel \in 0 .. 3 \/ c # CAN
  PROVE  \E t : Becomes(way, r, c, t, mode, high, y)
  <1> DEFINE o == rx_omen_cursor(r, c)
  <1>1. o[1] = mode /\ o[2] = high /\ o[3] = y
    OBVIOUS
  <1> HIDE DEF o
  <1>2. PICK t : /\ Agree(t, r) /\ t.cancel \in 0 .. 4
                 /\ t.mode = (IF Quoting(way, r) THEN o[1] ELSE rx_cursor(r, c)[1])
                 /\ t.high = (IF Quoting(way, r) THEN o[2] ELSE r.high)
                 /\ c # CAN \/ r.moby => t.cancel = 0
                 /\ (IF Quoting(way, r) THEN o[3] ELSE rx_cursor(r, c)[2]) = Nothing => Taking(way, r, c) = t
                 /\ (IF Quoting(way, r) THEN o[3] ELSE rx_cursor(r, c)[2]) \notin {Nothing, Wrong}
                      => Taking(way, r, c) = Symbol(way, t, IF Quoting(way, r) THEN o[3] ELSE rx_cursor(r, c)[2])
    BY ByteDecoded DEF o
  <1>3. Steps(r, t, mode, high)
    BY <1>1, <1>2 DEF Steps
  <1> QED
    BY <1>1, <1>2, <1>3 DEF Becomes

LEMMA AgreeEnds ==
  ASSUME NEW r \in Good, r.mode = "plain", r.high = FALSE, NEW s, Agree(s, r),
         NEW t, Steps(s, t, "plain", FALSE), t.cancel = 0
  PROVE  t = Rested(r)
  <1>1. Agree(t, r)
    BY AgreeTwice DEF Steps
  <1> QED
    BY <1>1, RestedIs DEF Steps

\* Between two symbols.
Waiting(way, r) ==
  r \in Reading(way) /\ r.event = "none" /\ r.mode = "plain" /\ r.high = FALSE /\ Quoting(way, r) /\ Within(way, r)

\* A byte that stands for itself.
Itself(r, c) ==
  c \in Byte /\ c < 128 /\ ~IsFlow(c) /\ c # SO /\ c # ZDLE /\ ~(r.ctl /\ IsControl(c))

LEMMA OmenBare ==
  ASSUME NEW way, NEW line \in Lines, NEW r, NEW s, NEW h \in BOOLEAN, NEW c,
         Waiting(way, r), Middle(way, r, s, h), Itself(r, c)
  PROVE  Taken(way, line, s, <<c>>) = Symbol(way, Rested(r), IF h THEN c + 128 ELSE c)
  <1>0. /\ r \in Reading(way) /\ r.event = "none" /\ r.mode = "plain" /\ r.high = FALSE /\ Quoting(way, r) /\ Within(way, r)
        /\ c \in Byte /\ c < 128 /\ ~IsFlow(c) /\ c # SO /\ c # ZDLE /\ ~(r.ctl /\ IsControl(c))
    BY DEF Waiting, Itself
  <1>1. /\ s \in Good /\ s \in Reading(way) /\ s.event = "none" /\ Quoting(way, s) /\ Within(way, s) /\ s.cancel \in 0 .. 3
        /\ s.mode = "plain" /\ s.high = h /\ s.ctl = r.ctl /\ s.cancel \in 0 .. 4 /\ Agree(s, r)
    BY <1>0, MiddleIs
  <1>2. PICK d \in Byte : Passed(line, c) = <<d>> /\ Low(d) = Low(c)
    BY <1>0, OmenCrosses
  <1>3. d # CAN /\ Low(c) = c
    <2>1. Low(c) = c /\ c # 24
      BY <1>0 DEF Low, Byte, ZDLE
    <2>2. Low(24) = 24
      BY DEF Low
    <2> QED
      BY <1>0, <1>2, <2>1, <2>2 DEF CAN
  <1> DEFINE y == IF h THEN c + 128 ELSE c
  <1>4. rx_omen_cursor(s, c) = <<"plain", FALSE, y>>
    BY <1>0, <1>1, <1>3 DEF rx_omen_cursor, rx_is_unescaped_control
  <1>5. y \notin {Nothing, Wrong}
    BY <1>0 DEF Nothing, Wrong, Byte
  <1> HIDE DEF y
  <1>6. rx_omen_cursor(s, d) = <<"plain", FALSE, y>>
    BY <1>0, <1>2, <1>4, OmenLow
  <1>20. PICK t : Becomes(way, s, d, t, "plain", FALSE, y)
    BY <1>0, <1>1, <1>6, OmenDecoded
  <1>7. /\ Steps(s, t, "plain", FALSE) /\ (d # CAN => t.cancel = 0)
        /\ y \notin {Nothing, Wrong} => Taking(way, s, d) = Symbol(way, t, y)
    BY <1>0, <1>20 DEF Becomes
  <1>8. t = Rested(r)
    <2>1. r \in Good
      BY <1>0 DEF Reading
    <2> QED
      BY <1>0, <1>1, <1>3, <1>7, <2>1, AgreeEnds
  <1>9. Taken(way, line, s, <<c>>) = Taking(way, s, d)
    BY <1>0, <1>1, <1>2, OneTaken
  <1> QED
    BY <1>0, <1>5, <1>7, <1>8, <1>9 DEF y

\* The byte that sets the eighth bit of the next one.
LEMMA OmenShift ==
  ASSUME NEW way, NEW line \in Lines, NEW r \in Reading(way), NEW s, NEW h \in BOOLEAN,
         r.event = "none", Quoting(way, r), Within(way, r), Middle(way, r, s, h)
  PROVE  Middle(way, r, Taken(way, line, s, <<SO>>), TRUE)
  <1>1. /\ s \in Good /\ s \in Reading(way) /\ s.event = "none" /\ Quoting(way, s) /\ Within(way, s) /\ s.cancel \in 0 .. 3
        /\ s.mode = "plain" /\ s.high = h /\ s.ctl = r.ctl /\ s.cancel \in 0 .. 4 /\ Agree(s, r)
    BY MiddleIs
  <1>0. SO \in Byte /\ ~IsFlow(SO) /\ Low(SO) = SO /\ SO # CAN /\ SO # ZDLE /\ CAN \in Byte /\ Low(CAN) = CAN
    BY DEF SO, Byte, IsFlow, Low, XON, XOFF, CAN, ZDLE
  <1>2. PICK d \in Byte : Passed(line, SO) = <<d>> /\ Low(d) = Low(SO)
    BY <1>0, OmenCrosses
  <1>3. d # CAN
    BY <1>0, <1>2
  <1>4. rx_omen_cursor(s, SO) = <<"plain", TRUE, Nothing>>
    BY <1>0, <1>1 DEF rx_omen_cursor, rx_is_unescaped_control
  <1>6. rx_omen_cursor(s, d) = <<"plain", TRUE, Nothing>>
    BY <1>0, <1>2, <1>4, OmenLow
  <1>20. PICK t : Becomes(way, s, d, t, "plain", TRUE, Nothing)
    BY <1>1, <1>6, OmenDecoded
  <1>7. Steps(s, t, "plain", TRUE) /\ (d # CAN => t.cancel = 0) /\ Taking(way, s, d) = t
    BY <1>20 DEF Becomes
  <1>8. t \in Reading(way)
    BY <1>1, <1>7, AdvanceReads DEF Advance
  <1>9. Agree(t, r)
    BY <1>1, <1>7, AgreeTwice DEF Steps
  <1>10. Taken(way, line, s, <<SO>>) = t
    BY <1>0, <1>1, <1>2, <1>7, OneTaken
  <1> QED
    BY <1>3, <1>7, <1>8, <1>9, <1>10 DEF Middle, Steps

\* After an escape.
OmenCompletes(r, x, y, h) ==
  \A s : s.mode = "escaped" /\ s.high = h /\ s.ctl = r.ctl => rx_omen_cursor(s, x) = <<"plain", FALSE, y>>

Quotation(r, x, y, h) ==
  /\ x \in Byte /\ x < 128 /\ x # ZDLE /\ ~IsFlow(x) /\ y \in 0 .. 511
  /\ OmenCompletes(r, x, y, h)

LEMMA OmenQuoted ==
  ASSUME NEW way, NEW line \in Lines, NEW r, NEW s, NEW h \in BOOLEAN, NEW x, NEW y,
         Waiting(way, r), Middle(way, r, s, h), Quotation(r, x, y, h)
  PROVE  Taken(way, line, s, <<ZDLE, x>>) = Symbol(way, Rested(r), y)
  <1>0. /\ r \in Reading(way) /\ r.event = "none" /\ r.mode = "plain" /\ r.high = FALSE /\ Quoting(way, r) /\ Within(way, r)
        /\ x \in Byte /\ x < 128 /\ x # ZDLE /\ ~IsFlow(x) /\ y \in 0 .. 511
        /\ OmenCompletes(r, x, y, h)
    BY DEF Waiting, Quotation
  <1>1. /\ s \in Good /\ s \in Reading(way) /\ s.event = "none" /\ Quoting(way, s) /\ Within(way, s) /\ s.cancel \in 0 .. 3
        /\ s.mode = "plain" /\ s.high = h /\ s.ctl = r.ctl /\ s.cancel \in 0 .. 4 /\ Agree(s, r)
    BY <1>0, MiddleIs
  <1>2. ZDLE \in Byte /\ ~IsFlow(ZDLE) /\ Low(ZDLE) = ZDLE /\ Low(x) = x /\ CAN = ZDLE /\ ZDLE # SO
    BY <1>0 DEF ZDLE, Byte, IsFlow, Low, XON, XOFF, CAN, SO
  <1>3. PICK a \in Byte : Passed(line, ZDLE) = <<a>> /\ Low(a) = Low(ZDLE)
    BY <1>0, <1>2, OmenCrosses
  <1>4. PICK b \in Byte : Passed(line, x) = <<b>> /\ Low(b) = Low(x)
    BY <1>0, OmenCrosses
  <1>5. b # CAN
    BY <1>0, <1>2, <1>4
  <1>6. rx_omen_cursor(s, a) = <<"escaped", h, Nothing>>
    <2>1. rx_omen_cursor(s, ZDLE) = <<"escaped", h, Nothing>>
      BY <1>0, <1>1, <1>2 DEF rx_omen_cursor, rx_is_unescaped_control
    <2> QED
      BY <1>0, <1>2, <1>3, <2>1, OmenLow
  <1>20. PICK t : Becomes(way, s, a, t, "escaped", h, Nothing)
    BY <1>0, <1>1, <1>6, OmenDecoded
  <1>7. Steps(s, t, "escaped", h) /\ Taking(way, s, a) = t
    BY <1>0, <1>20 DEF Becomes
  <1>8. Agree(t, s) /\ t.mode = "escaped" /\ t.high = h /\ t.cancel \in 0 .. 4
    BY <1>0, <1>7 DEF Steps
  <1>9. t \in Good /\ t.event = "none" /\ Quoting(way, t) /\ Within(way, t) /\ t.ctl = r.ctl
    <2>1. t \in Good
      BY <1>0, <1>8 DEF Agree
    <2>2. t.event = s.event /\ t.ctl = s.ctl /\ Quoting(way, t) = Quoting(way, s) /\ Within(way, t) = Within(way, s)
      BY <1>0, <1>8, AgreeFields
    <2> QED
      BY <1>0, <1>1, <2>1, <2>2
  <1>10. rx_omen_cursor(t, b) = <<"plain", FALSE, y>>
    <2>1. rx_omen_cursor(t, x) = <<"plain", FALSE, y>>
      BY <1>0, <1>8, <1>9 DEF OmenCompletes
    <2> QED
      BY <1>0, <1>4, <2>1, OmenLow
  <1>11. y \notin {Nothing, Wrong}
    BY <1>0 DEF Nothing, Wrong
  <1>21. PICK u : Becomes(way, t, b, u, "plain", FALSE, y)
    BY <1>0, <1>5, <1>8, <1>9, <1>10, OmenDecoded
  <1>12. /\ Steps(t, u, "plain", FALSE) /\ (b # CAN => u.cancel = 0)
         /\ y \notin {Nothing, Wrong} => Taking(way, t, b) = Symbol(way, u, y)
    BY <1>0, <1>21 DEF Becomes
  <1>13. u = Rested(r)
    <2>1. r \in Good
      BY <1>0 DEF Reading
    <2>2. Agree(t, r)
      BY <1>0, <1>1, <1>8, AgreeTwice
    <2> QED
      BY <1>0, <1>5, <1>12, <2>1, <2>2, AgreeEnds
  <1>14. Taken(way, line, s, <<ZDLE, x>>) = Taking(way, Taking(way, s, a), b)
    BY <1>0, <1>1, <1>2, <1>3, <1>4, <1>7, <1>9, TwoTaken
  <1> QED
    BY <1>0, <1>7, <1>11, <1>12, <1>13, <1>14

LEMMA OmenCode ==
  ASSUME NEW way, NEW line \in Lines, NEW r, NEW x, NEW y,
         Waiting(way, r), Middle(way, r, r, FALSE), Quotation(r, x, y, FALSE)
  PROVE  Taken(way, line, r, <<ZDLE, x>>) = Symbol(way, Rested(r), y)
  <1> DEFINE h == FALSE
  <1>1. h \in BOOLEAN /\ Middle(way, r, r, h) /\ Quotation(r, x, y, h)
    OBVIOUS
  <1> HIDE DEF h
  <1> QED
    BY <1>1, OmenQuoted

\* The private codes, and that of 127.
Codes == OmenCodes \cup {<<127, ZRUB0>>}

LEMMA CodesAre ==
  ASSUME NEW x \in Codes
  PROVE  \/ (x[1] = 14 /\ x[2] = 110) \/ (x[1] = 16 /\ x[2] = 80) \/ (x[1] = 17 /\ x[2] = 81)
         \/ (x[1] = 19 /\ x[2] = 83) \/ (x[1] = 24 /\ x[2] = 88) \/ (x[1] = 128 /\ x[2] = 115)
         \/ (x[1] = 142 /\ x[2] = 111) \/ (x[1] = 144 /\ x[2] = 112) \/ (x[1] = 145 /\ x[2] = 113)
         \/ (x[1] = 147 /\ x[2] = 114) \/ (x[1] = 152 /\ x[2] = 116) \/ (x[1] = 255 /\ x[2] = 109)
         \/ (x[1] = 127 /\ x[2] = 108)
  BY DEF Codes, OmenCodes, SO, DLE, XON, XOFF, ZDLE, IAC, ZRUB0, ZRUB1

LEMMA CodeCompletes ==
  ASSUME NEW r, NEW x \in Codes
  PROVE  Quotation(r, x[2], x[1], FALSE)
  <1> DEFINE c == x[2]  y == x[1]
  <1>1. /\ y \in Byte /\ c \in Byte /\ c < 128 /\ c >= 80
        /\ c \notin 104 .. 107
        /\ c < 108 => c \div 32 = 2 /\ Toggled(c) = y
        /\ c = 108 => y = 127
    BY CodesAre DEF Byte, Toggled
  <1>2. \A z \in OmenCodes : z[2] = c /\ c >= ZRUB0 => z[1] = y
    <2> TAKE z \in OmenCodes
    <2>1. z \in Codes
      BY DEF Codes
    <2> QED
      BY <2>1, CodesAre
  <1>3. c > 108 => x \in OmenCodes
    BY DEF Codes, ZRUB0
  <1> DEFINE private == {z \in OmenCodes : z[2] = c /\ c >= ZRUB0}
  <1>4. c > 108 => private # {} /\ (CHOOSE z \in private : TRUE)[1] = y
    <2> HAVE c > 108
    <2>1. x \in private
      BY <1>1, <1>3 DEF ZRUB0, Byte
    <2> QED
      BY <1>2, <2>1
  <1>5. c <= 108 => private = {}
    <2> SUFFICES ASSUME c <= 108, NEW z \in OmenCodes, z[2] = c, c >= ZRUB0 PROVE FALSE
      OBVIOUS
    <2>1. c = 108 /\ z \in Codes
      BY <1>1 DEF ZRUB0, Byte, Codes
    <2>2. y = 127 /\ z[1] = 127
      BY <1>1, <2>1, CodesAre
    <2> QED
      BY <2>2 DEF OmenCodes, SO, DLE, XON, XOFF, ZDLE, IAC
  <1> HIDE DEF private
  <1> HIDE DEF c, y
  <1>6. Low(c) = c /\ ~IsFlow(c) /\ c # ZDLE
    BY <1>1 DEF Low, Byte, IsFlow, XON, XOFF, ZDLE
  <1>7. ~IsEnding(c) /\ (c < 108 => IsQuoted(c)) /\ (c < 108 => c # ZRUB0) /\ (c > 108 => c # ZRUB0)
        /\ (c = 108 => c = ZRUB0) /\ (c >= 108 => ~IsQuoted(c))
    BY <1>1 DEF IsEnding, ZCRCE, ZCRCW, IsQuoted, ZRUB0, Byte
  <1>8. ASSUME NEW s, s.mode = "escaped", s.high = FALSE PROVE rx_omen_cursor(s, c) = <<"plain", FALSE, y>>
    <2> DEFINE raised(b) == IF s.high THEN Low(b) + 128 ELSE b
               o == rx_omen_cursor(s, c)
               code == (CHOOSE z \in private : TRUE)[1]
               x1 == raised(127)  x2 == raised(code)  x3 == raised(Toggled(c))
    <2>1. o = CASE IsEnding(c) -> <<"plain", FALSE, 256 + c>>
                [] c = ZRUB0 -> <<"plain", FALSE, x1>>
                [] private # {} -> <<"plain", FALSE, x2>>
                [] IsQuoted(c) -> <<"plain", FALSE, x3>>
                [] OTHER -> <<"plain", FALSE, Wrong>>
      BY <1>6, <1>8 DEF rx_omen_cursor, private
    <2>2. x1 = 127 /\ x2 = code /\ x3 = Toggled(c)
      BY <1>8
    <2> HIDE DEF x1, x2, x3, o
    <2> DEFINE ends == IsEnding(c)  del == c = ZRUB0  priv == private # {}  quoted == IsQuoted(c)
    <2>6. o = CASE ends -> <<"plain", FALSE, 256 + c>>
                [] del -> <<"plain", FALSE, x1>>
                [] priv -> <<"plain", FALSE, x2>>
                [] quoted -> <<"plain", FALSE, x3>>
                [] OTHER -> <<"plain", FALSE, Wrong>>
      BY <2>1
    <2>7. ends \in BOOLEAN /\ del \in BOOLEAN /\ priv \in BOOLEAN /\ quoted \in BOOLEAN
      BY DEF IsEnding, IsQuoted
    <2>3. CASE c < 108
      <3>1. ~ends /\ ~del /\ ~priv /\ quoted
        <4>1. c <= 108
          BY <1>1, <2>3 DEF Byte
        <4> QED
          BY <1>5, <1>7, <2>3, <4>1
      <3> HIDE DEF ends, del, priv, quoted
      <3>2. o = <<"plain", FALSE, x3>>
        BY <2>6, <3>1
      <3> QED
        BY <1>1, <2>2, <2>3, <3>2 DEF o
    <2>4. CASE c = 108
      <3>1. ~ends /\ del /\ ~priv /\ ~quoted
        <4>1. c <= 108 /\ c >= 108
          BY <1>1, <2>4 DEF Byte
        <4> QED
          BY <1>5, <1>7, <2>4, <4>1
      <3> HIDE DEF ends, del, priv, quoted
      <3>2. o = <<"plain", FALSE, x1>>
        BY <2>6, <3>1
      <3> QED
        BY <1>1, <2>2, <2>4, <3>2 DEF o
    <2>5. CASE c > 108
      <3>1. ~ends /\ ~del /\ priv /\ ~quoted
        <4>1. c >= 108
          BY <1>1, <2>5 DEF Byte
        <4> QED
          BY <1>4, <1>7, <2>5, <4>1
      <3> HIDE DEF ends, del, priv, quoted
      <3>2. o = <<"plain", FALSE, x2>>
        BY <2>6, <3>1
      <3> QED
        BY <1>4, <2>2, <2>5, <3>2 DEF o
    <2>8. c < 108 \/ c = 108 \/ c > 108
      BY <1>1 DEF Byte
    <2> QED
      BY <2>3, <2>4, <2>5, <2>8 DEF o
  <1>9. OmenCompletes(r, c, y, FALSE)
    BY <1>8 DEF OmenCompletes
  <1>10. y \in 0 .. 511 /\ c \in Byte /\ c < 128
    BY <1>1 DEF Byte
  <1> QED
    BY <1>6, <1>9, <1>10 DEF Quotation, c, y

\* A control character that is quoted as such.
LEMMA ControlCompletes ==
  ASSUME NEW r, NEW b \in 0 .. 31, NEW h \in BOOLEAN
  PROVE  Quotation(r, Toggled(b), IF h THEN b + 128 ELSE b, h)
  <1> DEFINE c == Toggled(b)  y == IF h THEN b + 128 ELSE b
  <1>1. c = b + 64 /\ Toggled(c) = b
    BY DEF Toggled
  <1> HIDE DEF c
  <1>2. /\ c \in Byte /\ c < 128 /\ c # ZDLE /\ ~IsFlow(c) /\ Low(c) = c /\ ~IsEnding(c) /\ c # ZRUB0
        /\ IsQuoted(c) /\ ~(c >= ZRUB0) /\ Low(b) = b
    BY <1>1 DEF Byte, ZDLE, IsFlow, Low, XON, XOFF, IsEnding, ZCRCE, ZCRCW, IsQuoted, ZRUB0
  <1>3. {z \in OmenCodes : z[2] = c /\ c >= ZRUB0} = {}
    BY <1>2
  <1>4. ASSUME NEW s, s.mode = "escaped", s.high = h PROVE rx_omen_cursor(s, c) = <<"plain", FALSE, y>>
    BY <1>1, <1>2, <1>3, <1>4, ZenonT(60) DEF rx_omen_cursor
  <1>5. OmenCompletes(r, c, y, h)
    BY <1>4 DEF OmenCompletes
  <1>6. y \in 0 .. 511
    OBVIOUS
  <1> HIDE DEF y
  <1> QED
    BY <1>2, <1>5, <1>6 DEF Quotation, c, y

\* The end of a frame.
LEMMA OmenEnding ==
  ASSUME NEW r, NEW e \in ZCRCE .. ZCRCW
  PROVE  Quotation(r, e, 256 + e, FALSE)
  <1>1. /\ e \in Byte /\ e < 128 /\ e # ZDLE /\ ~IsFlow(e) /\ Low(e) = e /\ IsEnding(e)
        /\ e # ZRUB0 /\ ~(e >= ZRUB0)
    BY DEF Byte, ZDLE, IsFlow, Low, XON, XOFF, IsEnding, ZCRCE, ZCRCW, ZRUB0
  <1> DEFINE y == 256 + e
  <1>2. \A z : IsEnding(e) => (CASE IsEnding(e) -> y [] OTHER -> z) = y
    OBVIOUS
  <1>3. {z \in OmenCodes : z[2] = e /\ e >= ZRUB0} = {}
    BY <1>1
  <1>5. ~IsQuoted(e)
    BY DEF IsQuoted, ZCRCE, ZCRCW
  <1>4. ASSUME NEW s, s.mode = "escaped" PROVE rx_omen_cursor(s, e) = <<"plain", FALSE, y>>
    BY <1>1, <1>3, <1>4, <1>5 DEF rx_omen_cursor
  <1>6. OmenCompletes(r, e, y, FALSE)
    BY <1>4 DEF OmenCompletes
  <1>7. y \in 0 .. 511
    BY <1>1 DEF Byte
  <1> QED
    BY <1>1, <1>6, <1>7 DEF Quotation

LEMMA AttunedQuoting ==
  ASSUME NEW way, NEW f, NEW r, Poised(way, f, r), f.style \in SevenBit
  PROVE  /\ Quoting(way, r) /\ r \in Reading(way) /\ r.event = "none" /\ r.mode = "plain" /\ r.high = FALSE
         /\ r.cancel \in 0 .. 3 /\ (r.ctl => f.ctl)
         /\ Middle(way, r, r, FALSE) /\ Waiting(way, r)
  <1>1. /\ r \in Reading(way) /\ r \in Good /\ r.event = "none" /\ r.mode = "plain" /\ r.high = FALSE
        /\ r.cancel \in 0 .. 3 /\ (r.ctl => f.ctl) /\ Quoting(way, r) /\ Within(way, r)
    BY PoisedWithin
  <1>2. Agree(r, r)
    BY <1>1 DEF Agree
  <1> QED
    BY <1>1, <1>2 DEF Middle, Waiting

LEMMA Uncoded ==
  ASSUME NEW c \in Byte, \A x \in OmenCodes : x[1] # c
  PROVE  /\ Low(c) \in 0 .. 127 /\ Low(c) \notin {SO, ZDLE, XON, XOFF} /\ ~IsFlow(Low(c))
         /\ c = IF High(c) THEN Low(c) + 128 ELSE Low(c)
  <1> DEFINE low == Low(c)
  <1>1. low \in 0 .. 127 /\ (c < 128 => low = c) /\ (c >= 128 => low = c - 128)
    BY LowByte
  <1>2. c \notin {14, 17, 19, 24, 142, 145, 147, 152}
    <2> DEFINE o1 == <<SO, 110>>   o2 == <<XON, 81>>   o3 == <<XOFF, 83>>  o4 == <<ZDLE, 88>>
               o5 == <<142, 111>>  o6 == <<145, 113>>  o7 == <<147, 114>>  o8 == <<152, 116>>
    <2>1. /\ o1 \in OmenCodes /\ o2 \in OmenCodes /\ o3 \in OmenCodes /\ o4 \in OmenCodes
          /\ o5 \in OmenCodes /\ o6 \in OmenCodes /\ o7 \in OmenCodes /\ o8 \in OmenCodes
      BY DEF OmenCodes
    <2>2. /\ o1[1] = 14 /\ o2[1] = 17 /\ o3[1] = 19 /\ o4[1] = 24
          /\ o5[1] = 142 /\ o6[1] = 145 /\ o7[1] = 147 /\ o8[1] = 152
      BY DEF SO, XON, XOFF, ZDLE
    <2> HIDE DEF o1, o2, o3, o4, o5, o6, o7, o8
    <2> QED
      BY <2>1, <2>2
  <1> HIDE DEF low
  <1>3. low \notin {14, 17, 19, 24}
    BY <1>1, <1>2 DEF Byte
  <1>4. \A x \in 0 .. 127 : Low(x) = x
    BY DEF Low
  <1>5. ~IsFlow(low) /\ low \notin {SO, ZDLE, XON, XOFF}
    BY <1>1, <1>3, <1>4 DEF IsFlow, SO, ZDLE, XON, XOFF
  <1>6. c = IF High(c) THEN low + 128 ELSE low
    BY <1>1 DEF High, Byte
  <1> QED
    BY <1>1, <1>5, <1>6 DEF low

\* What is sent for a byte is read as that byte.
LEMMA OmenTaken ==
  ASSUME NEW way, NEW f \in Formats, NEW line \in Lines, NEW r, NEW c \in Byte,
         f.style \in SevenBit, Poised(way, f, r)
  PROVE  /\ omen_encode_byte(f, c) \in Seq(Byte)
         /\ Taken(way, line, r, omen_encode_byte(f, c)) = Symbol(way, Rested(r), c)
  <1> DEFINE coded == {x \in OmenCodes : x[1] = c} \cup
                      (IF f.ctl /\ c = 127 THEN {<<127, ZRUB0>>} ELSE {})
             pair == CHOOSE x \in coded : TRUE
             low == Low(c)
             tail == IF f.ctl /\ low < 32 THEN <<ZDLE, Toggled(low)>> ELSE <<low>>
  <1>1. omen_encode_byte(f, c) = IF coded # {} THEN <<ZDLE, pair[2]>>
                                 ELSE IF High(c) THEN <<SO>> \o tail ELSE tail
    BY DEF omen_encode_byte
  <1>2. /\ Quoting(way, r) /\ r \in Reading(way) /\ r.event = "none" /\ r.mode = "plain" /\ r.high = FALSE
        /\ (r.ctl => f.ctl) /\ Middle(way, r, r, FALSE) /\ Waiting(way, r) /\ Within(way, r)
    BY AttunedQuoting, PoisedWithin
  <1>3. ZDLE \in Byte /\ SO \in Byte /\ FALSE \in BOOLEAN /\ TRUE \in BOOLEAN
    BY DEF ZDLE, SO, Byte
  <1>4. CASE coded # {}
    <2>1. \A x \in coded : x \in Codes /\ x[1] = c
      BY DEF Codes
    <2>2. pair \in Codes /\ pair[1] = c
      <3> HIDE DEF coded
      <3> QED
        BY <1>4, <2>1
    <2> DEFINE y == pair[2]
    <2>3. Quotation(r, y, c, FALSE)
      <3> HIDE DEF pair
      <3>1. Quotation(r, pair[2], pair[1], FALSE)
        BY <2>2, CodeCompletes
      <3> QED
        BY <2>2, <3>1
    <2> HIDE DEF y, coded
    <2>5. Taken(way, line, r, <<ZDLE, y>>) = Symbol(way, Rested(r), c)
      <3>1. Waiting(way, r) /\ Middle(way, r, r, FALSE)
        BY <1>2
      <3> QED
        BY <2>3, <3>1, OmenCode
    <2>6. omen_encode_byte(f, c) = <<ZDLE, y>>
      BY <1>1, <1>4 DEF y
    <2>7. <<ZDLE, y>> \in Seq(Byte)
      BY <1>3, <2>3 DEF Quotation
    <2> QED
      BY <2>5, <2>6, <2>7
  <1>5. CASE coded = {}
    <2>1. \A x \in OmenCodes : x[1] # c
      BY <1>5
    <2> HIDE DEF coded
    <2>6. /\ low \in 0 .. 127 /\ low \notin {SO, ZDLE, XON, XOFF} /\ ~IsFlow(low)
          /\ c = IF High(c) THEN low + 128 ELSE low
      BY <2>1, Uncoded
    <2>2. /\ low \in 0 .. 127 /\ low \in Byte /\ low \notin {SO, ZDLE, XON, XOFF} /\ ~IsFlow(low)
          /\ c = IF High(c) THEN low + 128 ELSE low
      <3> HIDE DEF low
      <3> QED
        BY <2>6 DEF Byte
    <2> HIDE DEF low
    <2>3. tail \in Seq(Byte) /\
          \A s, h : h \in BOOLEAN /\ Middle(way, r, s, h) =>
            Taken(way, line, s, tail) = Symbol(way, Rested(r), IF h THEN low + 128 ELSE low)
      <3>1. CASE f.ctl /\ low < 32
        <4> DEFINE x == Toggled(low)
        <4>1. low \in 0 .. 31
          BY <2>2, <3>1
        <4>2. x \in Byte
          BY <4>1 DEF Toggled, Byte
        <4>3. ASSUME NEW s, NEW h \in BOOLEAN, Middle(way, r, s, h)
              PROVE  Taken(way, line, s, <<ZDLE, x>>) = Symbol(way, Rested(r), IF h THEN low + 128 ELSE low)
          <5> DEFINE y == IF h THEN low + 128 ELSE low
          <5>1. Quotation(r, x, y, h)
            BY <4>1, ControlCompletes
          <5> HIDE DEF x, y
          <5>2. Taken(way, line, s, <<ZDLE, x>>) = Symbol(way, Rested(r), y)
            BY <1>2, <4>3, <5>1, OmenQuoted
          <5> QED
            BY <5>2 DEF y
        <4>4. tail = <<ZDLE, x>>
          BY <3>1
        <4> HIDE DEF x, tail
        <4>5. <<ZDLE, x>> \in Seq(Byte)
          BY <1>3, <4>2
        <4> QED
          BY <4>3, <4>4, <4>5
      <3>2. CASE ~(f.ctl /\ low < 32)
        <4>1. ~(r.ctl /\ IsControl(low))
          <5>1. IsControl(low) => low < 32
            BY <2>2 DEF IsControl
          <5> QED
            BY <1>2, <3>2, <5>1
        <4>2. Itself(r, low)
          BY <2>2, <4>1 DEF Itself
        <4>3. ASSUME NEW s, NEW h \in BOOLEAN, Middle(way, r, s, h)
              PROVE  Taken(way, line, s, <<low>>) = Symbol(way, Rested(r), IF h THEN low + 128 ELSE low)
          BY <1>2, <4>2, <4>3, OmenBare
        <4>4. tail = <<low>>
          BY <3>2
        <4> HIDE DEF tail
        <4>5. <<low>> \in Seq(Byte)
          BY <2>2
        <4> QED
          BY <4>3, <4>4, <4>5
      <3> QED
        BY <3>1, <3>2
    <2> HIDE DEF tail
    <2>4. CASE ~High(c)
      <3>1. omen_encode_byte(f, c) = tail
        BY <1>1, <1>5, <2>4
      <3>2. Taken(way, line, r, tail) = Symbol(way, Rested(r), IF FALSE THEN low + 128 ELSE low)
        BY <1>2, <1>3, <2>3
      <3> QED
        BY <2>2, <2>3, <2>4, <3>1, <3>2
    <2>5. CASE High(c)
      <3> DEFINE so == <<SO>>  s == Taken(way, line, r, so)
      <3>1. so \in Seq(Byte)
        BY <1>3
      <3>2. Middle(way, r, s, TRUE)
        BY <1>2, <1>3, OmenShift
      <3> HIDE DEF so
      <3>3. Taken(way, line, r, so \o tail) = Taken(way, line, s, tail)
        BY <1>2, <2>3, <3>1, TakenJoined
      <3> HIDE DEF s
      <3>4. Taken(way, line, s, tail) = Symbol(way, Rested(r), IF TRUE THEN low + 128 ELSE low)
        BY <1>3, <2>3, <3>2
      <3>5. omen_encode_byte(f, c) = so \o tail /\ so \o tail \in Seq(Byte)
        BY <1>1, <1>5, <2>3, <2>5, <3>1 DEF so
      <3> QED
        BY <2>2, <2>5, <3>3, <3>4, <3>5
    <2> QED
      BY <2>4, <2>5
  <1> QED
    BY <1>4, <1>5

LEMMA OmenEndTaken ==
  ASSUME NEW way, NEW f \in Formats, NEW line \in Lines, NEW r, NEW e \in ZCRCE .. ZCRCW,
         f.style \in SevenBit, Poised(way, f, r)
  PROVE  Taken(way, line, r, <<ZDLE, e>>) = Symbol(way, Rested(r), 256 + e)
  <1>1. /\ Quoting(way, r) /\ r \in Reading(way) /\ r.event = "none" /\ r.mode = "plain" /\ r.high = FALSE
        /\ Middle(way, r, r, FALSE) /\ FALSE \in BOOLEAN /\ Waiting(way, r)
    BY AttunedQuoting
  <1>2. Quotation(r, e, 256 + e, FALSE)
    BY OmenEnding
  <1> DEFINE y == 256 + e
  <1>3. Quotation(r, e, y, FALSE)
    BY <1>2
  <1> HIDE DEF y
  <1>4. Taken(way, line, r, <<ZDLE, e>>) = Symbol(way, Rested(r), y)
    <2>1. Waiting(way, r) /\ Middle(way, r, r, FALSE)
      BY <1>1
    <2> QED
      BY <1>3, <2>1, OmenCode
  <1> QED
    BY <1>4 DEF y

LEMMA OmenNone ==
  ASSUME NEW f
  PROVE  OmenWire(f, << >>) = << >>
  <1>1. [i \in 1 .. Len(<< >>) |-> omen_encode_byte(f, << >>[i])] = << >>
    OBVIOUS
  <1>2. FlattenSeq(<< >>) = << >>
    BY DEF FlattenSeq
  <1> QED
    BY <1>1, <1>2 DEF OmenWire

\* The parts of which the last is x.
LEMMA PartsMore ==
  ASSUME NEW S, NEW n \in Nat, NEW parts \in [1 .. n -> Seq(S)],
         NEW all \in [1 .. n + 1 -> Seq(S)], NEW x \in Seq(S),
         \A i \in 1 .. n : all[i] = parts[i], all[n + 1] = x
  PROVE  FlattenSeq(all) = FlattenSeq(parts) \o x
  <1>1. parts \in Seq(Seq(S)) /\ Len(parts) = n
    BY FunctionIsSeq
  <1>2. all \in Seq(Seq(S)) /\ Len(all) = n + 1
    <2> DEFINE m == n + 1
    <2>1. m \in Nat /\ all \in [1 .. m -> Seq(S)]
      OBVIOUS
    <2> HIDE DEF m
    <2>2. all \in Seq(Seq(S)) /\ Len(all) = m
      BY <2>1, FunctionIsSeq
    <2> QED
      BY <2>2 DEF m
  <1>3. PICK g : /\ g[0] = << >> /\ \A i \in 1 .. n : g[i] = g[i - 1] \o parts[i]
                 /\ FlattenSeq(parts) = g[n]
    BY <1>1, Flattening
  <1>8. PICK h : /\ h[0] = << >> /\ \A i \in 1 .. Len(all) : h[i] = h[i - 1] \o all[i]
                 /\ FlattenSeq(all) = h[Len(all)]
    BY <1>2, Flattening
  <1>4. /\ h[0] = << >> /\ \A i \in 1 .. n + 1 : h[i] = h[i - 1] \o all[i]
        /\ FlattenSeq(all) = h[n + 1]
    BY <1>2, <1>8
  <1>5. \A i \in 0 .. n - 1 : g[i] = h[i] => g[i + 1] = h[i + 1]
    <2> TAKE i \in 0 .. n - 1
    <2>1. i + 1 \in 1 .. n /\ i + 1 \in 1 .. n + 1 /\ (i + 1) - 1 = i
      OBVIOUS
    <2> QED
      BY <1>3, <1>4, <2>1
  <1>6. g[n] = h[n]
    <2>1. g[0] = h[0] /\ n \in 0 .. n
      BY <1>3, <1>4
    <2>2. \A i \in 0 .. n : g[i] = h[i]
      BY <1>5, <2>1, SameChain, ZenonT(60)
    <2> QED
      BY <2>1, <2>2
  <1>7. h[n + 1] = h[n] \o x
    <2>1. n + 1 \in 1 .. n + 1 /\ (n + 1) - 1 = n
      OBVIOUS
    <2> QED
      BY <1>4, <2>1
  <1> QED
    BY <1>3, <1>4, <1>6, <1>7

LEMMA OmenMore ==
  ASSUME NEW way, NEW f \in Formats, NEW r, NEW a \in Seq(Byte), NEW c \in Byte,
         f.style \in SevenBit, Poised(way, f, r)
  PROVE  /\ OmenWire(f, a) \in Seq(Byte)
         /\ OmenWire(f, Append(a, c)) = OmenWire(f, a) \o omen_encode_byte(f, c)
  <1> DEFINE n == Len(a)  more == Append(a, c)
             parts == [i \in 1 .. n |-> omen_encode_byte(f, a[i])]
             all == [i \in 1 .. n + 1 |-> omen_encode_byte(f, more[i])]
             x == omen_encode_byte(f, c)
  <1>1. /\ n \in Nat /\ more \in Seq(Byte) /\ Len(more) = n + 1 /\ more[n + 1] = c
        /\ \A i \in 1 .. n : more[i] = a[i]
    BY AppendIs
  <1>2. \A b \in Byte : omen_encode_byte(f, b) \in Seq(Byte)
    <2>1. "clear" \in Lines
      BY DEF Lines
    <2> QED
      BY <2>1, OmenTaken
  <1>3. OmenWire(f, a) = FlattenSeq(parts) /\ OmenWire(f, more) = FlattenSeq(all)
    BY <1>1 DEF OmenWire
  <1>4. (\A i \in 1 .. n : a[i] \in Byte) /\ \A i \in 1 .. n + 1 : more[i] \in Byte
    <2>1. \A i \in 1 .. Len(more) : more[i] \in Byte
      <3> HIDE DEF more
      <3> QED
        BY <1>1, SeqElements
    <2> QED
      BY <1>1, <2>1, SeqElements
  <1> HIDE DEF n, more
  <1>5. parts \in [1 .. n -> Seq(Byte)] /\ all \in [1 .. n + 1 -> Seq(Byte)] /\ x \in Seq(Byte)
    BY <1>2, <1>4
  <1>6. /\ \A i \in 1 .. n : all[i] = parts[i]
        /\ all[n + 1] = x
    BY <1>1
  <1> HIDE DEF parts, all, x
  <1>7. FlattenSeq(all) = FlattenSeq(parts) \o x
    BY <1>1, <1>5, <1>6, PartsMore
  <1>8. FlattenSeq(parts) \in Seq(Byte)
    BY <1>1, <1>5, FunctionIsSeq, FlattenAll
  <1> QED
    BY <1>3, <1>7, <1>8 DEF x, more

LEMMA OmenJoined ==
  ASSUME NEW way, NEW f \in Formats, NEW r, NEW a \in Seq(Byte), NEW b \in Seq(Byte),
         f.style \in SevenBit, Poised(way, f, r)
  PROVE  OmenWire(f, a \o b) = OmenWire(f, a) \o OmenWire(f, b)
  <1> DEFINE T == {s \in Seq(Byte) : OmenWire(f, a \o s) = OmenWire(f, a) \o OmenWire(f, s)}
  <1>1. \A s \in Seq(Byte) : OmenWire(f, s) \in Seq(Byte)
    BY 0 \in Byte, OmenMore DEF Byte
  <1>2. << >> \in T
    <2>1. a \o << >> = a /\ OmenWire(f, a) \o << >> = OmenWire(f, a)
      <3> DEFINE u == OmenWire(f, a)
      <3>1. u \in Seq(Byte)
        BY <1>1
      <3> HIDE DEF u
      <3>2. u \o << >> = u
        BY <3>1
      <3> QED
        BY <3>2 DEF u
    <2>2. OmenWire(f, a \o << >>) = OmenWire(f, a) \o OmenWire(f, << >>)
      BY <2>1, OmenNone
    <2>3. << >> \in Seq(Byte)
      OBVIOUS
    <2> QED
      BY <2>2, <2>3
  <1>3. \A s \in Seq(Byte), c \in Byte : s \in T => Append(s, c) \in T
    <2> TAKE s \in Seq(Byte), c \in Byte
    <2> HAVE s \in T
    <2> DEFINE t == Append(s, c)  u == OmenWire(f, a)  v == OmenWire(f, s)  x == omen_encode_byte(f, c)
    <2>1. t \in Seq(Byte) /\ a \o t = Append(a \o s, c) /\ a \o s \in Seq(Byte)
      BY AppendIs, Joined
    <2>2. OmenWire(f, t) = v \o x
      BY OmenMore
    <2>3. OmenWire(f, Append(a \o s, c)) = OmenWire(f, a \o s) \o x
      BY <2>1, OmenMore, ZenonT(60)
    <2>4. OmenWire(f, a \o s) = u \o v
      OBVIOUS
    <2>5. u \in Seq(Byte) /\ v \in Seq(Byte) /\ x \in Seq(Byte)
      <3>1. "clear" \in Lines
        BY DEF Lines
      <3> QED
        BY <1>1, <3>1, OmenTaken
    <2> HIDE DEF u, v, x
    <2>6. (u \o v) \o x = u \o (v \o x)
      BY <2>5, JoinedThrice, SMTT(60)
    <2>7. OmenWire(f, a \o t) = u \o OmenWire(f, t)
      <3> HIDE DEF t
      <3> QED
        BY <2>1, <2>2, <2>3, <2>4, <2>6
    <2> QED
      BY <2>1, <2>7 DEF u
  <1> HIDE DEF T
  <1>4. b \in T
    BY <1>2, <1>3, SequenceInduction
  <1> QED
    BY <1>4 DEF T

\* Symbol after symbol.
LEMMA SymbolTaken ==
  ASSUME NEW way, NEW f \in Formats, NEW line \in Lines, NEW r, NEW q, NEW k \in Seq(Byte), NEW c \in Byte,
         f.style \in SevenBit, Poised(way, f, r), Poised(way, f, q), q = Taken(way, line, r, OmenWire(f, k))
  PROVE  /\ OmenWire(f, Append(k, c)) \in Seq(Byte)
         /\ Taken(way, line, r, OmenWire(f, Append(k, c))) = Symbol(way, Rested(q), c)
  <1> DEFINE u == OmenWire(f, k)  x == omen_encode_byte(f, c)
  <1>1. u \in Seq(Byte) /\ OmenWire(f, Append(k, c)) = u \o x
    BY OmenMore
  <1>2. x \in Seq(Byte) /\ Taken(way, line, q, x) = Symbol(way, Rested(q), c)
    BY OmenTaken
  <1>3. r \in Reading(way)
    BY PoisedWithin
  <1> HIDE DEF u, x
  <1>4. Taken(way, line, r, u \o x) = Taken(way, line, q, x)
    BY <1>1, <1>2, <1>3, TakenJoined DEF u
  <1>5. u \o x \in Seq(Byte)
    BY <1>1, <1>2
  <1> QED
    BY <1>1, <1>2, <1>4, <1>5

----------------------------------------------------------------------------
(* Runs.                                                                   *)

Sum(k) == Along(crc32_byte_update, Crc32Start, k)

LEMMA SumNone == Sum(<< >>) = Crc32Start
  <1> DEFINE e == << >>
  <1>1. e \in Seq(Byte) /\ Len(e) = 0
    OBVIOUS
  <1> HIDE DEF e
  <1>2. PICK g : Bytewise(Crc32Start, e, g)
    BY <1>1, StartWord, SomeSums
  <1>3. Sum(e) = g[Len(e)]
    BY <1>1, <1>2, StartWord, LastSum DEF Sum
  <1> QED
    BY <1>1, <1>2, <1>3 DEF Bytewise, e

LEMMA SumMore ==
  ASSUME NEW k \in Seq(Byte), NEW c \in Byte
  PROVE  /\ Sum(k) \in Word /\ Sum(Append(k, c)) = crc32_byte_update(Sum(k), c)
  <1> DEFINE n == Len(k)  more == Append(k, c)
  <1>1. /\ more \in Seq(Byte) /\ Len(more) = n + 1 /\ n \in Nat /\ more[n + 1] = c
        /\ \A i \in 1 .. n : more[i] = k[i]
    BY AppendIs
  <1>2. PICK g : Bytewise(Crc32Start, k, g)
    BY StartWord, SomeSums
  <1> HIDE DEF more
  <1>3. PICK h : Bytewise(Crc32Start, more, h)
    BY <1>1, StartWord, SomeSums
  <1>4. Sum(k) = g[n] /\ g[n] \in Word
    BY <1>2, StartWord, LastSum DEF Sum
  <1>5. Sum(more) = h[n + 1]
    BY <1>1, <1>3, StartWord, LastSum DEF Sum
  <1>6. /\ g[0] = h[0]
        /\ \A i \in 1 .. n : g[i] = crc32_byte_update(g[i - 1], k[i])
        /\ \A i \in 1 .. n + 1 : h[i] = crc32_byte_update(h[i - 1], more[i])
    BY <1>1, <1>2, <1>3 DEF Bytewise
  <1> HIDE DEF n
  <1>7. \A i \in 0 .. n - 1 : g[i] = h[i] => g[i + 1] = h[i + 1]
    <2> TAKE i \in 0 .. n - 1
    <2>1. i + 1 \in 1 .. n /\ i + 1 \in 1 .. n + 1 /\ (i + 1) - 1 = i
      BY <1>1
    <2> QED
      BY <1>1, <1>6, <2>1
  <1>8. g[n] = h[n]
    <2>1. n \in Nat /\ n \in 0 .. n /\ g[0] = h[0]
      BY <1>1, <1>6
    <2>2. \A i \in 0 .. n : g[i] = h[i]
      BY <1>7, <2>1, SameChain
    <2> QED
      BY <2>1, <2>2
  <1>9. h[n + 1] = crc32_byte_update(h[n], c)
    <2>1. n + 1 \in 1 .. n + 1 /\ (n + 1) - 1 = n
      BY <1>1
    <2> QED
      BY <1>1, <1>6, <2>1
  <1> QED
    BY <1>4, <1>5, <1>8, <1>9 DEF more

\* The symbols k have been read and are the data d; of a run, phase is what comes next.
Expands(f, r, d, k, phase, n) ==
  /\ Poised("data", f, r) /\ r.at = "data" /\ r.out = d /\ r.over = FALSE /\ r.crc = << >>
  /\ r.rle = phase /\ (phase = "value" => r.run = n) /\ r.sum = Sum(k)

LEMMA RunsOn ==
  ASSUME NEW f \in Formats, NEW r, NEW d, NEW k \in Seq(Byte), NEW phase, NEW n, NEW c \in Byte,
         Expands(f, r, d, k, phase, n)
  PROVE  Expands(f, Summed(Rested(r), c), d, Append(k, c), phase, n)
  <1> DEFINE q == Rested(r)  s == Summed(q, c)  w == Sum(Append(k, c))
  <1>1. /\ Poised("data", f, r) /\ r.at = "data" /\ r.out = d /\ r.over = FALSE /\ r.crc = << >>
        /\ r.rle = phase /\ (phase = "value" => r.run = n) /\ r.sum = Sum(k)
    BY DEF Expands
  <1>2. /\ q \in Good /\ Poised("data", f, q) /\ DOMAIN q = Fields
        /\ \A x \in Fields \ {"cancel"} : q[x] = r[x]
    BY <1>1, PoisedIs
  <1>3. \A x \in {"at", "out", "over", "crc", "rle", "run", "sum"} : x \in Fields \ {"cancel"}
    BY DEF Fields
  <1>4. /\ q.at = "data" /\ q.out = d /\ q.over = FALSE /\ q.crc = << >> /\ q.rle = phase
        /\ (phase = "value" => q.run = n) /\ q.sum = Sum(k)
    BY <1>1, <1>2, <1>3
  <1> HIDE DEF q
  <1>5. s = [q EXCEPT !.sum = w] /\ s \in Good
    <2>1. crc32_byte_update(q.sum, c) = w
      BY <1>4, SumMore
    <2>2. s \in Good
      BY <1>2, SummedLike DEF Like
    <2> QED
      BY <2>1, <2>2 DEF Summed
  <1> HIDE DEF w
  <1>6. s.sum = w /\ \A x \in Fields \ {"sum"} : s[x] = q[x]
    BY <1>2, <1>5 DEF Fields
  <1> HIDE DEF s
  <1>7. (\A x \in Kept : x \in Fields \ {"sum"})
        /\ \A x \in {"at", "out", "over", "crc", "rle", "run"} : x \in Fields \ {"sum"}
    BY DEF Fields, Kept
  <1>8. /\ s.at = "data" /\ s.out = d /\ s.over = FALSE /\ s.crc = << >> /\ s.rle = phase
        /\ (phase = "value" => s.run = n)
    BY <1>4, <1>6, <1>7
  <1>9. Poised("data", f, s)
    BY <1>2, <1>5, <1>6, <1>7, <1>8, StillPoised
  <1> QED
    BY <1>6, <1>8, <1>9 DEF Expands, s, q, w

LEMMA Turned ==
  ASSUME NEW f \in Formats, NEW s, NEW d, NEW k, NEW phase, NEW n, NEW m \in 0 .. MaxRun,
         Expands(f, s, d, k, phase, n)
  PROVE  /\ Expands(f, [s EXCEPT !.rle = "count"], d, k, "count", 0)
         /\ Expands(f, [s EXCEPT !.rle = "value", !.run = m], d, k, "value", m)
  <1>1. /\ Poised("data", f, s) /\ s.at = "data" /\ s.out = d /\ s.over = FALSE /\ s.crc = << >>
        /\ s.sum = Sum(k)
    BY DEF Expands
  <1>2. s \in Good /\ DOMAIN s = Fields
    BY <1>1, PoisedIs
  <1>3. (\A x \in Kept : x \in Fields \ {"rle", "run"})
        /\ \A x \in {"at", "out", "over", "crc", "sum"} : x \in Fields \ {"rle", "run"}
    BY DEF Fields, Kept
  <1>4. ASSUME NEW t \in Good, \A x \in Fields \ {"rle", "run"} : t[x] = s[x]
        PROVE  /\ Poised("data", f, t) /\ t.at = "data" /\ t.out = d /\ t.over = FALSE /\ t.crc = << >>
               /\ t.sum = Sum(k)
    <2>1. t.at = "data" /\ t.out = d /\ t.over = FALSE /\ t.crc = << >> /\ t.sum = Sum(k)
      BY <1>1, <1>3, <1>4
    <2>2. Poised("data", f, t)
      BY <1>1, <1>3, <1>4, <2>1, StillPoised
    <2> QED
      BY <2>1, <2>2
  <1> DEFINE a == [s EXCEPT !.rle = "count"]  v == [s EXCEPT !.rle = "value"]  b == [v EXCEPT !.run = m]
  <1>5. a.rle = "count" /\ \A x \in Fields \ {"rle", "run"} : a[x] = s[x]
    BY <1>2 DEF Fields
  <1>6. DOMAIN v = Fields /\ v.rle = "value" /\ \A x \in Fields \ {"rle", "run"} : v[x] = s[x]
    BY <1>2 DEF Fields
  <1>7. a \in Good /\ v \in Good
    BY <1>2, GoodName
  <1>8. b = [s EXCEPT !.rle = "value", !.run = m]
    OBVIOUS
  <1> HIDE DEF v
  <1>9. b.run = m /\ b.rle = "value" /\ \A x \in Fields \ {"rle", "run"} : b[x] = s[x]
    BY <1>6 DEF Fields
  <1>10. b \in Good
    BY <1>7, GoodCount
  <1> HIDE DEF a, b
  <1>11. Expands(f, a, d, k, "count", 0)
    BY <1>4, <1>5, <1>7 DEF Expands
  <1>12. Expands(f, b, d, k, "value", m)
    BY <1>4, <1>9, <1>10 DEF Expands
  <1> QED
    BY <1>8, <1>11, <1>12 DEF a

LEMMA Placed ==
  ASSUME NEW f \in Formats, NEW s, NEW d \in Seq(Byte), NEW k, NEW phase, NEW n, NEW v \in Byte, NEW m \in Nat,
         Expands(f, s, d, k, phase, n), Len(d) + m <= Capacity
  PROVE  /\ Expands(f, [Put(s, v, m) EXCEPT !.rle = "normal"], d \o Repeated(v, m), k, "normal", 0)
         /\ phase = "normal" => Expands(f, Put(s, v, m), d \o Repeated(v, m), k, "normal", 0)
  <1> DEFINE p == Put(s, v, m)  full == d \o Repeated(v, m)  t == [p EXCEPT !.rle = "normal"]
  <1>1. /\ Poised("data", f, s) /\ s.at = "data" /\ s.out = d /\ s.over = FALSE /\ s.crc = << >>
        /\ s.rle = phase /\ s.sum = Sum(k)
    BY DEF Expands
  <1>2. s \in Good
    BY <1>1, PoisedIs
  <1>3. p \in Good /\ p.out = full /\ \A x \in Fields \ {"out"} : p[x] = s[x]
    BY <1>1, <1>2, PutFits
  <1> HIDE DEF p, full
  <1>4. DOMAIN p = Fields /\ t \in Good
    BY <1>3, GoodIs, GoodName
  <1>5. t.rle = "normal" /\ \A x \in Fields \ {"rle"} : t[x] = p[x]
    BY <1>4 DEF Fields
  <1> HIDE DEF t
  <1>6. (\A x \in Kept : x \in Fields \ {"out"} /\ x \in Fields \ {"rle"})
        /\ (\A x \in {"at", "over", "crc", "sum"} : x \in Fields \ {"out"} /\ x \in Fields \ {"rle"})
        /\ "rle" \in Fields \ {"out"} /\ "out" \in Fields \ {"rle"}
    BY DEF Fields, Kept
  <1>7. /\ p.at = "data" /\ p.over = FALSE /\ p.crc = << >> /\ p.sum = Sum(k) /\ p.rle = phase
        /\ t.at = "data" /\ t.over = FALSE /\ t.crc = << >> /\ t.sum = Sum(k) /\ t.out = full
    BY <1>1, <1>3, <1>5, <1>6
  <1>8. \A x \in Kept : p[x] = s[x] /\ t[x] = s[x]
    BY <1>3, <1>5, <1>6
  <1>9. Poised("data", f, p)
    BY <1>1, <1>3, <1>7, <1>8, StillPoised
  <1>10. Poised("data", f, t)
    BY <1>1, <1>4, <1>7, <1>8, StillPoised
  <1>11. Expands(f, t, full, k, "normal", 0)
    BY <1>5, <1>7, <1>10 DEF Expands
  <1>12. phase = "normal" => Expands(f, p, full, k, "normal", 0)
    BY <1>3, <1>7, <1>9 DEF Expands
  <1> QED
    BY <1>11, <1>12 DEF t, p, full

\* rx_rle_data, where it stands and what it is given.
LEMMA RunSymbolIs ==
  ASSUME NEW q, NEW c \in Byte, q.at = "data"
  PROVE  LET s == Summed(q, c) IN
         /\ q.rle = "normal" /\ c # ZRESC => RunSymbol(q, c) = Put(s, c, 1)
         /\ q.rle = "normal" /\ c = ZRESC => RunSymbol(q, c) = [s EXCEPT !.rle = "count"]
         /\ q.rle = "count" /\ c = 64 => RunSymbol(q, c) = [Put(s, ZRESC, 1) EXCEPT !.rle = "normal"]
         /\ q.rle = "count" /\ c \in 32 .. 63 =>
              RunSymbol(q, c) = [Put(s, 32, c - 29) EXCEPT !.rle = "normal"]
         /\ q.rle = "count" /\ c \in 66 .. 127 =>
              RunSymbol(q, c) = [s EXCEPT !.rle = "value", !.run = c - 64]
         /\ q.rle = "value" => RunSymbol(q, c) = [Put(s, c, q.run) EXCEPT !.rle = "normal"]
  <1> DEFINE s == Summed(q, c)
             whole == CASE q.rle = "value" -> [Put(s, c, q.run) EXCEPT !.rle = "normal"]
               [] q.rle = "normal" ->
                    IF c = ZRESC THEN [s EXCEPT !.rle = "count"] ELSE Put(s, c, 1)
               [] q.rle = "count" /\ c = 64 -> [Put(s, ZRESC, 1) EXCEPT !.rle = "normal"]
               [] q.rle = "count" /\ c \in 32 .. 63 ->
                    [Put(s, 32, c - 29) EXCEPT !.rle = "normal"]
               [] q.rle = "count" /\ c \in 66 .. 127 ->
                    [s EXCEPT !.rle = "value", !.run = c - 64]
               [] OTHER -> Invalid(q)
  <1>1. ~(c > 255) /\ q.at # "check"
    BY DEF Byte
  <1>2. RunSymbol(q, c) = whole
    BY <1>1 DEF RunSymbol
  <1> DEFINE put == Put(s, c, 1)  count == [s EXCEPT !.rle = "count"]
             escape == [Put(s, ZRESC, 1) EXCEPT !.rle = "normal"]
             spaces == [Put(s, 32, c - 29) EXCEPT !.rle = "normal"]
             value == [s EXCEPT !.rle = "value", !.run = c - 64]
             run == [Put(s, c, q.run) EXCEPT !.rle = "normal"]
             bad == Invalid(q)
  <1>3. whole = CASE q.rle = "value" -> run
               [] q.rle = "normal" -> IF c = ZRESC THEN count ELSE put
               [] q.rle = "count" /\ c = 64 -> escape
               [] q.rle = "count" /\ c \in 32 .. 63 -> spaces
               [] q.rle = "count" /\ c \in 66 .. 127 -> value
               [] OTHER -> bad
    OBVIOUS
  <1> HIDE DEF whole, put, count, escape, spaces, value, run, bad
  <1>4. q.rle = "normal" => whole = IF c = ZRESC THEN count ELSE put
    BY <1>3
  <1>5. q.rle = "count" /\ c = 64 => whole = escape
    BY <1>3
  <1>6. q.rle = "count" /\ c \in 32 .. 63 => whole = spaces
    BY <1>3
  <1>7. q.rle = "count" /\ c \in 66 .. 127 => whole = value
    BY <1>3
  <1>8. q.rle = "value" => whole = run
    BY <1>3
  <1> QED
    BY <1>2, <1>4, <1>5, <1>6, <1>7, <1>8 DEF put, count, escape, spaces, value, run

\* What the bytes of the tokens k, all told, have made of r.
Unrolled(f, line, r, d, k, phase, n) == Expands(f, Taken("data", line, r, OmenWire(f, k)), d, k, phase, n)

RunArms(t, s, phase, n, c) ==
  /\ phase = "normal" /\ c # ZRESC => t = Put(s, c, 1)
  /\ phase = "normal" /\ c = ZRESC => t = [s EXCEPT !.rle = "count"]
  /\ phase = "count" /\ c = 64 => t = [Put(s, ZRESC, 1) EXCEPT !.rle = "normal"]
  /\ phase = "count" /\ c \in 32 .. 63 => t = [Put(s, 32, c - 29) EXCEPT !.rle = "normal"]
  /\ phase = "count" /\ c \in 66 .. 127 => t = [s EXCEPT !.rle = "value", !.run = c - 64]
  /\ phase = "value" => t = [Put(s, c, n) EXCEPT !.rle = "normal"]

LEMMA RunTaken ==
  ASSUME NEW f \in Formats, NEW line \in Lines, NEW r, NEW d, NEW k \in Seq(Byte), NEW phase, NEW n,
         NEW c \in Byte,
         f.style = "rle", Poised("data", f, r), Unrolled(f, line, r, d, k, phase, n)
  PROVE  \E s : /\ Expands(f, s, d, Append(k, c), phase, n)
                /\ RunArms(Taken("data", line, r, OmenWire(f, Append(k, c))), s, phase, n, c)
  <1> DEFINE q == Taken("data", line, r, OmenWire(f, k))  p == Rested(q)  s == Summed(p, c)
             t == Taken("data", line, r, OmenWire(f, Append(k, c)))
  <1>1. Expands(f, q, d, k, phase, n)
    BY DEF Unrolled
  <1>2. Poised("data", f, q) /\ f.style \in SevenBit
    BY <1>1 DEF Expands, SevenBit
  <1>3. t = Symbol("data", p, c)
    BY <1>2, SymbolTaken
  <1> HIDE DEF q, t
  <1>4. Expands(f, s, d, Append(k, c), phase, n)
    BY <1>1, RunsOn
  <1>5. Poised("data", f, p) /\ \A x \in Fields \ {"cancel"} : p[x] = q[x]
    BY <1>2, PoisedIs
  <1>6. \A x \in {"at", "rle", "run"} : x \in Fields \ {"cancel"}
    BY DEF Fields
  <1>7. p.at = "data" /\ p.rle = phase /\ (phase = "value" => p.run = n)
    BY <1>1, <1>5, <1>6 DEF Expands
  <1>8. p.encoded = "rle"
    BY <1>2, <1>5 DEF Poised, Suits, Attuned
  <1> HIDE DEF p
  <1>9. t = RunSymbol(p, c)
    BY <1>3, <1>8 DEF Symbol
  <1>10. /\ phase = "normal" /\ c # ZRESC => t = Put(s, c, 1)
         /\ phase = "normal" /\ c = ZRESC => t = [s EXCEPT !.rle = "count"]
         /\ phase = "count" /\ c = 64 => t = [Put(s, ZRESC, 1) EXCEPT !.rle = "normal"]
         /\ phase = "count" /\ c \in 32 .. 63 => t = [Put(s, 32, c - 29) EXCEPT !.rle = "normal"]
         /\ phase = "count" /\ c \in 66 .. 127 => t = [s EXCEPT !.rle = "value", !.run = c - 64]
         /\ phase = "value" => t = [Put(s, c, n) EXCEPT !.rle = "normal"]
    <2>1. LET z == Summed(p, c) IN
          /\ p.rle = "normal" /\ c # ZRESC => RunSymbol(p, c) = Put(z, c, 1)
          /\ p.rle = "normal" /\ c = ZRESC => RunSymbol(p, c) = [z EXCEPT !.rle = "count"]
          /\ p.rle = "count" /\ c = 64 => RunSymbol(p, c) = [Put(z, ZRESC, 1) EXCEPT !.rle = "normal"]
          /\ p.rle = "count" /\ c \in 32 .. 63 =>
               RunSymbol(p, c) = [Put(z, 32, c - 29) EXCEPT !.rle = "normal"]
          /\ p.rle = "count" /\ c \in 66 .. 127 =>
               RunSymbol(p, c) = [z EXCEPT !.rle = "value", !.run = c - 64]
          /\ p.rle = "value" => RunSymbol(p, c) = [Put(z, c, p.run) EXCEPT !.rle = "normal"]
      BY <1>7, RunSymbolIs
    <2> HIDE DEF s
    <2>2. phase = "value" => t = [Put(s, c, n) EXCEPT !.rle = "normal"]
      BY <1>7, <1>9, <2>1 DEF s
    <2> QED
      BY <1>7, <1>9, <2>1, <2>2 DEF s
  <1>11. RunArms(t, s, phase, n, c)
    BY <1>10 DEF RunArms
  <1> QED
    BY <1>4, <1>11 DEF t

\* A byte that stands for itself.
LEMMA UnrolledPlain ==
  ASSUME NEW f \in Formats, NEW line \in Lines, NEW r, NEW d \in Seq(Byte), NEW k \in Seq(Byte),
         NEW c \in Byte,
         f.style = "rle", Poised("data", f, r), Unrolled(f, line, r, d, k, "normal", 0),
         c # ZRESC, Len(d) + 1 <= Capacity
  PROVE  Unrolled(f, line, r, d \o Repeated(c, 1), Append(k, c), "normal", 0)
  <1> DEFINE more == Append(k, c)  t == Taken("data", line, r, OmenWire(f, more))
  <1>1. PICK s : Expands(f, s, d, more, "normal", 0) /\ RunArms(t, s, "normal", 0, c)
    BY RunTaken
  <1>2. t = Put(s, c, 1)
    BY <1>1 DEF RunArms
  <1> HIDE DEF t, more
  <1>3. Expands(f, t, d \o Repeated(c, 1), more, "normal", 0)
    BY <1>1, <1>2, Placed
  <1> QED
    BY <1>3 DEF t, more, Unrolled

\* The mark of a run.
LEMMA UnrolledMark ==
  ASSUME NEW f \in Formats, NEW line \in Lines, NEW r, NEW d \in Seq(Byte), NEW k \in Seq(Byte),
         f.style = "rle", Poised("data", f, r), Unrolled(f, line, r, d, k, "normal", 0)
  PROVE  Unrolled(f, line, r, d, Append(k, ZRESC), "count", 0) /\ Append(k, ZRESC) \in Seq(Byte)
  <1>1. ZRESC \in Byte /\ 0 \in 0 .. MaxRun
    BY DEF ZRESC, Byte, MaxRun
  <1> DEFINE more == Append(k, ZRESC)  t == Taken("data", line, r, OmenWire(f, more))
  <1>2. PICK s : Expands(f, s, d, more, "normal", 0) /\ RunArms(t, s, "normal", 0, ZRESC)
    BY <1>1, RunTaken
  <1>3. t = [s EXCEPT !.rle = "count"]
    BY <1>2 DEF RunArms
  <1>4. more \in Seq(Byte)
    BY <1>1
  <1> HIDE DEF t, more
  <1>5. Expands(f, t, d, more, "count", 0)
    BY <1>1, <1>2, <1>3, Turned
  <1> QED
    BY <1>4, <1>5 DEF t, more, Unrolled

\* The mark itself, or a run of spaces.
LEMMA UnrolledCount ==
  ASSUME NEW f \in Formats, NEW line \in Lines, NEW r, NEW d \in Seq(Byte), NEW k \in Seq(Byte),
         NEW c \in Byte, NEW v \in Byte, NEW m \in Nat,
         f.style = "rle", Poised("data", f, r), Unrolled(f, line, r, d, k, "count", 0),
         (c = 64 /\ v = ZRESC /\ m = 1) \/ (c \in 32 .. 63 /\ v = 32 /\ m = c - 29),
         Len(d) + m <= Capacity
  PROVE  Unrolled(f, line, r, d \o Repeated(v, m), Append(k, c), "normal", 0)
  <1> DEFINE more == Append(k, c)  t == Taken("data", line, r, OmenWire(f, more))
  <1>1. PICK s : Expands(f, s, d, more, "count", 0) /\ RunArms(t, s, "count", 0, c)
    BY RunTaken
  <1>2. t = [Put(s, v, m) EXCEPT !.rle = "normal"]
    BY <1>1 DEF RunArms
  <1> HIDE DEF t, more
  <1>3. Expands(f, t, d \o Repeated(v, m), more, "normal", 0)
    BY <1>1, <1>2, Placed
  <1> QED
    BY <1>3 DEF t, more, Unrolled

\* The length of a run, and what it is a run of.
LEMMA UnrolledLength ==
  ASSUME NEW f \in Formats, NEW line \in Lines, NEW r, NEW d \in Seq(Byte), NEW k \in Seq(Byte),
         NEW c \in Byte,
         f.style = "rle", Poised("data", f, r), Unrolled(f, line, r, d, k, "count", 0), c \in 66 .. 127
  PROVE  Unrolled(f, line, r, d, Append(k, c), "value", c - 64)
  <1> DEFINE more == Append(k, c)  t == Taken("data", line, r, OmenWire(f, more))  m == c - 64
  <1>1. PICK s : Expands(f, s, d, more, "count", 0) /\ RunArms(t, s, "count", 0, c)
    BY RunTaken
  <1>2. t = [s EXCEPT !.rle = "value", !.run = m]
    BY <1>1 DEF RunArms
  <1>3. m \in 0 .. MaxRun
    BY DEF MaxRun
  <1> HIDE DEF t, more, m
  <1>4. Expands(f, t, d, more, "value", m)
    BY <1>1, <1>2, <1>3, Turned
  <1> QED
    BY <1>4 DEF t, more, m, Unrolled

LEMMA UnrolledValue ==
  ASSUME NEW f \in Formats, NEW line \in Lines, NEW r, NEW d \in Seq(Byte), NEW k \in Seq(Byte),
         NEW c \in Byte, NEW m \in Nat,
         f.style = "rle", Poised("data", f, r), Unrolled(f, line, r, d, k, "value", m),
         Len(d) + m <= Capacity
  PROVE  Unrolled(f, line, r, d \o Repeated(c, m), Append(k, c), "normal", 0)
  <1> DEFINE more == Append(k, c)  t == Taken("data", line, r, OmenWire(f, more))
  <1>1. PICK s : Expands(f, s, d, more, "value", m) /\ RunArms(t, s, "value", m, c)
    BY RunTaken
  <1>2. t = [Put(s, c, m) EXCEPT !.rle = "normal"]
    BY <1>1 DEF RunArms
  <1> HIDE DEF t, more
  <1>3. Expands(f, t, d \o Repeated(c, m), more, "normal", 0)
    BY <1>1, <1>2, Placed
  <1> QED
    BY <1>3 DEF t, more, Unrolled

\* RunToken, case by case.
LEMMA TokenIs ==
  ASSUME NEW run \in 1 .. MaxRun, NEW v \in Byte
  PROVE  \/ run = 1 /\ v = ZRESC /\ RunToken(run, v) = <<ZRESC, 64>>
         \/ run = 1 /\ v # ZRESC /\ RunToken(run, v) = <<v>>
         \/ run = 2 /\ v # ZRESC /\ RunToken(run, v) = <<v, v>>
         \/ run \in 3 .. 34 /\ v = 32 /\ RunToken(run, v) = <<ZRESC, run + 29>>
         \/ run > 1 /\ RunToken(run, v) = <<ZRESC, run + 64, v>>
  <1> DEFINE a == <<ZRESC, 64>>  b == <<v>>  pair == <<v, v>>  spaces == <<ZRESC, run + 29>>
             long == <<ZRESC, run + 64, v>>
             bare == run > 1 /\ ~omen_rle_requires_marker(run, v)
             space == run > 2 /\ omen_rle_uses_space_run(run, v)
             one == run = 1
             token == RunToken(run, v)
  <1>1. token = CASE one -> (IF v = ZRESC THEN a ELSE b) [] bare -> pair [] space -> spaces
                  [] OTHER -> long
    BY DEF RunToken
  <1>2. /\ one <=> run = 1
        /\ bare => run = 2 /\ v # ZRESC
        /\ space => run \in 3 .. 34 /\ v = 32
        /\ ~(one /\ bare) /\ ~(one /\ space) /\ ~(bare /\ space)
        /\ one \in BOOLEAN /\ bare \in BOOLEAN /\ space \in BOOLEAN
    BY DEF omen_rle_requires_marker, omen_rle_uses_space_run
  <1>3. run \in Nat /\ (run = 1 \/ run > 1)
    OBVIOUS
  <1> HIDE DEF one, bare, space, a, b, pair, spaces, long, token
  <1>4. CASE one
    <2>1. token = IF v = ZRESC THEN a ELSE b
      BY <1>1, <1>2, <1>4
    <2> QED
      BY <1>2, <1>4, <2>1 DEF a, b, token
  <1>5. CASE bare
    <2>1. token = pair
      BY <1>1, <1>2, <1>5
    <2> QED
      BY <1>2, <1>5, <2>1 DEF pair, token
  <1>6. CASE space
    <2>1. token = spaces
      BY <1>1, <1>2, <1>6
    <2> QED
      BY <1>2, <1>6, <2>1 DEF spaces, token
  <1>7. CASE ~one /\ ~bare /\ ~space
    <2>1. token = long
      BY <1>1, <1>7
    <2> QED
      BY <1>2, <1>3, <1>7, <2>1 DEF long, token
  <1> QED
    BY <1>2, <1>4, <1>5, <1>6, <1>7

LEMMA AppendTwice ==
  ASSUME NEW S, NEW k \in Seq(S), NEW a \in S, NEW b \in S, NEW c \in S
  PROVE  /\ k \o <<a>> = Append(k, a)
         /\ k \o <<a, b>> = Append(Append(k, a), b)
         /\ k \o <<a, b, c>> = Append(Append(Append(k, a), b), c)
         /\ Append(k, a) \in Seq(S) /\ Append(Append(k, a), b) \in Seq(S)
  OBVIOUS

LEMMA RepeatedTwice ==
  ASSUME NEW d \in Seq(Byte), NEW c \in Byte
  PROVE  /\ d \o Repeated(c, 1) \in Seq(Byte) /\ Len(d \o Repeated(c, 1)) = Len(d) + 1
         /\ (d \o Repeated(c, 1)) \o Repeated(c, 1) = d \o Repeated(c, 2)
  <1>1. Repeated(c, 1) = <<c>> /\ Repeated(c, 2) = <<c, c>>
    BY DEF Repeated
  <1>2. /\ d \o <<c>> \in Seq(Byte) /\ Len(d \o <<c>>) = Len(d) + 1
        /\ (d \o <<c>>) \o <<c>> = d \o <<c, c>>
    OBVIOUS
  <1> QED
    BY <1>1, <1>2

\* A token unrolls into its run.
LEMMA TokenUnrolled ==
  ASSUME NEW f \in Formats, NEW line \in Lines, NEW r, NEW d \in Seq(Byte), NEW k \in Seq(Byte),
         NEW run \in 1 .. MaxRun, NEW v \in Byte,
         f.style = "rle", Poised("data", f, r), Unrolled(f, line, r, d, k, "normal", 0),
         Len(d) + run <= Capacity
  PROVE  Unrolled(f, line, r, d \o Repeated(v, run), k \o RunToken(run, v), "normal", 0)
  <1> DEFINE token == RunToken(run, v)  mark == Append(k, ZRESC)
  <1>1. /\ ZRESC \in Byte /\ 64 \in Byte /\ run \in Nat
        /\ (run \in 3 .. 34 => run + 29 \in Byte /\ run + 29 \in 32 .. 63 /\ run = (run + 29) - 29)
        /\ (run > 1 => run + 64 \in Byte /\ run + 64 \in 66 .. 127 /\ (run + 64) - 64 = run)
    BY DEF ZRESC, Byte, MaxRun
  <1>2. Unrolled(f, line, r, d, mark, "count", 0) /\ mark \in Seq(Byte)
    BY UnrolledMark
  <1>3. CASE run = 1 /\ v = ZRESC /\ token = <<ZRESC, 64>>
    <2>1. k \o <<ZRESC, 64>> = Append(mark, 64)
      BY <1>1, AppendTwice
    <2> HIDE DEF mark
    <2>2. Unrolled(f, line, r, d \o Repeated(v, run), Append(mark, 64), "normal", 0)
      BY <1>1, <1>2, <1>3, UnrolledCount
    <2> QED
      BY <1>3, <2>1, <2>2
  <1>4. CASE run = 1 /\ v # ZRESC /\ token = <<v>>
    <2>1. k \o <<v>> = Append(k, v)
      BY AppendTwice
    <2>2. Unrolled(f, line, r, d \o Repeated(v, 1), Append(k, v), "normal", 0)
      BY <1>4, UnrolledPlain
    <2> QED
      BY <1>4, <2>1, <2>2
  <1>5. CASE run = 2 /\ v # ZRESC /\ token = <<v, v>>
    <2> DEFINE l == Append(k, v)  e == d \o Repeated(v, 1)  n == Len(d)
    <2>1. k \o <<v, v>> = Append(l, v) /\ l \in Seq(Byte)
      BY AppendTwice
    <2>2. e \in Seq(Byte) /\ Len(e) = n + 1 /\ e \o Repeated(v, 1) = d \o Repeated(v, 2)
      BY RepeatedTwice
    <2>3. n \in Nat /\ n + 2 <= Capacity
      BY <1>5
    <2> HIDE DEF n
    <2>4. n + 1 <= Capacity /\ (n + 1) + 1 <= Capacity
      BY <2>3, SubpacketAssumption
    <2>5. Unrolled(f, line, r, e, l, "normal", 0)
      BY <1>5, <2>4, UnrolledPlain DEF n
    <2> HIDE DEF l, e
    <2>6. Unrolled(f, line, r, e \o Repeated(v, 1), Append(l, v), "normal", 0)
      BY <1>5, <2>1, <2>2, <2>4, <2>5, UnrolledPlain
    <2> QED
      BY <1>5, <2>1, <2>2, <2>6
  <1>6. CASE run \in 3 .. 34 /\ v = 32 /\ token = <<ZRESC, run + 29>>
    <2> DEFINE c == run + 29
    <2>1. c \in Byte /\ c \in 32 .. 63 /\ run = c - 29
      BY <1>1, <1>6
    <2> HIDE DEF c
    <2>2. k \o <<ZRESC, c>> = Append(mark, c)
      BY <1>1, <2>1, AppendTwice
    <2> HIDE DEF mark
    <2>3. Unrolled(f, line, r, d \o Repeated(v, run), Append(mark, c), "normal", 0)
      BY <1>1, <1>2, <1>6, <2>1, UnrolledCount
    <2> QED
      BY <1>6, <2>2, <2>3 DEF c
  <1>7. CASE run > 1 /\ token = <<ZRESC, run + 64, v>>
    <2> DEFINE c == run + 64  l == Append(mark, c)
    <2>1. c \in Byte /\ c \in 66 .. 127 /\ run = c - 64
      BY <1>1, <1>7
    <2>2. token = <<ZRESC, c, v>>
      BY <1>7
    <2> HIDE DEF c, token
    <2>3. k \o <<ZRESC, c, v>> = Append(l, v) /\ l \in Seq(Byte)
      BY <1>1, <2>1, AppendTwice
    <2> HIDE DEF mark
    <2>4. Unrolled(f, line, r, d, l, "value", run)
      BY <1>2, <2>1, UnrolledLength
    <2> HIDE DEF l
    <2>5. Unrolled(f, line, r, d \o Repeated(v, run), Append(l, v), "normal", 0)
      BY <1>1, <2>3, <2>4, UnrolledValue
    <2> QED
      BY <2>2, <2>3, <2>5 DEF token
  <1>8. \/ run = 1 /\ v = ZRESC /\ token = <<ZRESC, 64>>
        \/ run = 1 /\ v # ZRESC /\ token = <<v>>
        \/ run = 2 /\ v # ZRESC /\ token = <<v, v>>
        \/ run \in 3 .. 34 /\ v = 32 /\ token = <<ZRESC, run + 29>>
        \/ run > 1 /\ token = <<ZRESC, run + 64, v>>
    BY TokenIs
  <1> QED
    BY <1>3, <1>4, <1>5, <1>6, <1>7, <1>8 DEF token

LEMMA RunGrows ==
  ASSUME NEW data \in Seq(Byte), NEW i \in 1 .. Len(data), NEW run \in Nat,
         i + run <= Len(data) + 1, \A j \in i .. i + run - 1 : data[j] = data[i]
  PROVE  /\ SubSeq(data, 1, i - 1) \in Seq(Byte) /\ Len(SubSeq(data, 1, i - 1)) = i - 1
         /\ SubSeq(data, 1, i - 1) \o Repeated(data[i], run) = SubSeq(data, 1, (i + run) - 1)
  <1> DEFINE n == Len(data)  v == data[i]  d == SubSeq(data, 1, i - 1)  b == Repeated(v, run)
             e == SubSeq(data, 1, (i + run) - 1)
  <1>1. n \in Nat /\ v \in Byte /\ i \in 1 .. n /\ i - 1 \in 0 .. n /\ (i + run) - 1 \in 0 .. n
    BY SeqElements
  <1>2. d \in Seq(Byte) /\ Len(d) = i - 1 /\ \A j \in 1 .. i - 1 : d[j] = data[j]
    BY <1>1
  <1>3. e \in Seq(Byte) /\ Len(e) = (i + run) - 1 /\ \A j \in 1 .. (i + run) - 1 : e[j] = data[j]
    BY <1>1
  <1>4. b \in Seq(Byte) /\ Len(b) = run /\ \A j \in 1 .. run : b[j] = v
    <2>1. b \in [1 .. run -> Byte]
      BY <1>1 DEF Repeated
    <2> QED
      BY <2>1, FunctionIsSeq DEF Repeated
  <1>5. \A j \in i .. i + run - 1 : data[j] = v
    OBVIOUS
  <1> HIDE DEF n, v, d, b, e
  <1>6. d \o b \in Seq(Byte) /\ Len(d \o b) = (i + run) - 1
        /\ \A j \in 1 .. (i + run) - 1 : (d \o b)[j] = IF j <= i - 1 THEN d[j] ELSE b[j - (i - 1)]
    <2>1. Len(d) + Len(b) = (i + run) - 1
      BY <1>1, <1>2, <1>4
    <2> DEFINE m == Len(d)  a == d \o b
    <2>2. /\ a \in Seq(Byte) /\ Len(a) = m + Len(b)
          /\ \A j \in 1 .. m + Len(b) : a[j] = IF j <= m THEN d[j] ELSE b[j - m]
      BY <1>2, <1>4, Joined
    <2>3. m = i - 1
      BY <1>2
    <2> HIDE DEF m, a
    <2>4. /\ a \in Seq(Byte) /\ Len(a) = (i + run) - 1
          /\ \A j \in 1 .. (i + run) - 1 : a[j] = IF j <= i - 1 THEN d[j] ELSE b[j - (i - 1)]
      BY <2>1, <2>2, <2>3 DEF m
    <2> QED
      BY <2>4 DEF a
  <1>7. ASSUME NEW j \in 1 .. (i + run) - 1 PROVE (d \o b)[j] = e[j]
    <2>1. CASE j <= i - 1
      BY <1>1, <1>2, <1>3, <1>6, <2>1
    <2>2. CASE ~(j <= i - 1)
      <3>1. j \in i .. i + run - 1 /\ j - (i - 1) \in 1 .. run
        BY <1>1, <2>2
      <3> QED
        BY <1>3, <1>4, <1>5, <1>6, <2>2, <3>1
    <2> QED
      BY <2>1, <2>2
  <1>8. d \o b = e
    <2> DEFINE a == d \o b  m == (i + run) - 1
    <2>1. a \in Seq(Byte) /\ Len(a) = m /\ Len(e) = m /\ e \in Seq(Byte)
      BY <1>3, <1>6
    <2>2. \A j \in 1 .. m : a[j] = e[j]
      BY <1>7
    <2> HIDE DEF a, m
    <2>3. a = e
      BY <2>1, <2>2
    <2> QED
      BY <2>3 DEF a
  <1> QED
    BY <1>2, <1>8 DEF d, b, e, v

\* Token after token, to the end of the data.
LEMMA RestUnrolled ==
  ASSUME NEW f \in Formats, NEW line \in Lines, NEW r, NEW data \in Seq(Byte), NEW g,
         f.style = "rle", Poised("data", f, r), Tokened(data, g), Len(data) <= Capacity,
         NEW k \in Seq(Byte), Unrolled(f, line, r, << >>, k, "normal", 0)
  PROVE  Unrolled(f, line, r, data, k \o RunTokens(data), "normal", 0)
  <1> DEFINE n == Len(data)
             Got(i, l) == Unrolled(f, line, r, SubSeq(data, 1, i - 1), l, "normal", 0)
             Whole(l) == Unrolled(f, line, r, data, l, "normal", 0)
             Ends(i) == \A l \in Seq(Byte) : Got(i, l) => Whole(l \o g[i])
             T == {m \in 0 .. n : \A i \in (n + 1) - m .. n + 1 : Ends(i)}
  <1>1. n \in Nat /\ n <= Capacity /\ SubSeq(data, 1, n) = data /\ SubSeq(data, 1, 0) = << >>
        /\ \A i \in 1 .. n : data[i] \in Byte
    BY SeqElements
  <1>2. /\ g[1] = RunTokens(data) /\ \A i \in 1 .. n + 1 : g[i] \in Seq(Byte)
        /\ g[n + 1] = << >>
        /\ \A i \in 1 .. n : g[i] = RunToken(RunAt(data, i), data[i]) \o g[i + RunAt(data, i)]
    <2>1. \A i \in 1 .. n + 1 :
            /\ g[i] \in Seq(Byte)
            /\ g[i] = IF i > n THEN << >> ELSE RunToken(RunAt(data, i), data[i]) \o g[i + RunAt(data, i)]
      BY DEF Tokened
    <2>2. n + 1 \in 1 .. n + 1 /\ n + 1 > n /\ \A i \in 1 .. n : i \in 1 .. n + 1 /\ ~(i > n)
      BY <1>1
    <2>3. g[1] = RunTokens(data)
      BY DEF Tokened
    <2> HIDE DEF n
    <2> QED
      BY <2>1, <2>2, <2>3
  <1>3. Ends(n + 1)
    <2> SUFFICES ASSUME NEW l \in Seq(Byte), Got(n + 1, l) PROVE Whole(l \o g[n + 1])
      OBVIOUS
    <2>1. (n + 1) - 1 = n /\ l \o g[n + 1] = l
      BY <1>1, <1>2, NothingJoined
    <2> QED
      BY <1>1, <2>1
  <1>4. ASSUME NEW i \in 1 .. n, Ends(i + RunAt(data, i)) PROVE Ends(i)
    <2> SUFFICES ASSUME NEW l \in Seq(Byte), Got(i, l) PROVE Whole(l \o g[i])
      OBVIOUS
    <2> DEFINE run == RunAt(data, i)  v == data[i]  token == RunToken(run, v)
               d == SubSeq(data, 1, i - 1)
    <2>1. /\ run \in 1 .. MaxRun /\ i + run \in i + 1 .. n + 1 /\ v \in Byte
          /\ \A j \in i .. i + run - 1 : data[j] = data[i]
      BY <1>1, RunFound
    <2>2. token \in Seq(Byte)
      BY <2>1, TokenBytes
    <2>3. g[i] = token \o g[i + run]
      BY <1>2
    <2>4. Ends(i + run)
      BY <1>4
    <2> HIDE DEF run, token
    <2>5. run \in Nat /\ i + run <= Len(data) + 1 /\ i + run \in 1 .. n + 1
      BY <1>1, <2>1
    <2>6. d \in Seq(Byte) /\ Len(d) = i - 1 /\ d \o Repeated(v, run) = SubSeq(data, 1, (i + run) - 1)
      BY <2>1, <2>5, RunGrows
    <2>7. Len(d) + run <= Capacity
      BY <1>1, <2>5, <2>6, SubpacketAssumption
    <2>8. Unrolled(f, line, r, d, l, "normal", 0)
      OBVIOUS
    <2> HIDE DEF d, v
    <2>9. Unrolled(f, line, r, d \o Repeated(v, run), l \o token, "normal", 0)
      BY <2>1, <2>6, <2>7, <2>8, TokenUnrolled DEF token
    <2>10. Got(i + run, l \o token) /\ l \o token \in Seq(Byte)
      BY <2>2, <2>6, <2>9
    <2>11. Whole((l \o token) \o g[i + run])
      BY <2>4, <2>10
    <2>12. (l \o token) \o g[i + run] = l \o (token \o g[i + run])
      <3> DEFINE rest == g[i + run]
      <3>1. rest \in Seq(Byte)
        BY <1>2, <2>5
      <3> HIDE DEF rest
      <3>2. (l \o token) \o rest = l \o (token \o rest)
        BY <2>2, <3>1, SMTT(60)
      <3> QED
        BY <3>2 DEF rest
    <2> HIDE DEF Whole
    <2> QED
      BY <2>3, <2>11, <2>12
  <1> HIDE DEF Ends
  <1>5. 0 \in T
    <2>1. \A i \in (n + 1) - 0 .. n + 1 : i = n + 1
      BY <1>1
    <2>2. 0 \in 0 .. n
      BY <1>1
    <2> QED
      BY <1>3, <2>1, <2>2
  <1>6. ASSUME NEW m \in 0 .. n - 1, m \in T PROVE m + 1 \in T
    <2>1. m + 1 \in 0 .. n /\ \A i \in (n + 1) - m .. n + 1 : Ends(i)
      BY <1>1, <1>6
    <2>2. ASSUME NEW i \in (n + 1) - (m + 1) .. n + 1 PROVE Ends(i)
      <3>1. CASE i \in (n + 1) - m .. n + 1
        BY <2>1, <3>1
      <3>2. CASE i \notin (n + 1) - m .. n + 1
        <4>1. i \in 1 .. n /\ i + 1 = (n + 1) - m /\ i \in 1 .. Len(data)
          BY <1>1, <3>2
        <4>2. i + RunAt(data, i) \in i + 1 .. n + 1
          BY <4>1, RunFound
        <4>3. i + RunAt(data, i) \in (n + 1) - m .. n + 1
          BY <4>1, <4>2
        <4> QED
          BY <1>4, <2>1, <4>1, <4>3
      <3> QED
        BY <3>1, <3>2
    <2> QED
      BY <2>1, <2>2
  <1>7. \A m \in 0 .. n - 1 : m \in T => m + 1 \in T
    BY <1>6
  <1> HIDE DEF T
  <1>8. \A m \in 0 .. n : m \in T
    <2> HIDE DEF n
    <2> QED
      BY <1>1, <1>5, <1>7, BoundedInduction
  <1>9. Ends(1)
    <2>1. n \in 0 .. n /\ 1 \in (n + 1) - n .. n + 1
      BY <1>1
    <2>2. n \in T
      BY <1>8, <2>1
    <2> QED
      BY <2>1, <2>2 DEF T
  <1>10. Got(1, k)
    <2>1. 1 - 1 = 0
      OBVIOUS
    <2> QED
      BY <1>1, <2>1
  <1>11. Whole(k \o g[1])
    BY <1>9, <1>10 DEF Ends
  <1> QED
    BY <1>2, <1>11

\* rx_data begins with nothing read.
RunsEmpty(f, r) == Expands(f, r, << >>, << >>, "normal", 0)

LEMMA RunTokensTaken ==
  ASSUME NEW f \in Formats, NEW line \in Lines, NEW r, NEW data \in Seq(Byte),
         f.style = "rle", RunsEmpty(f, r), Len(data) <= Capacity
  PROVE  /\ RunTokens(data) \in Seq(Byte) /\ OmenWire(f, RunTokens(data)) \in Seq(Byte)
         /\ Expands(f, Taken("data", line, r, OmenWire(f, RunTokens(data))), data, RunTokens(data), "normal", 0)
  <1> DEFINE k == << >>  tokens == RunTokens(data)
  <1>1. Poised("data", f, r) /\ Expands(f, r, << >>, k, "normal", 0) /\ k \in Seq(Byte)
    BY DEF RunsEmpty, Expands
  <1>2. PICK g : Tokened(data, g)
    BY SomeTokens
  <1>3. Taken("data", line, r, OmenWire(f, k)) = r
    <2>1. r \in Reading("data")
      BY <1>1, PoisedIs
    <2> QED
      BY <2>1, OmenNone, TakenNone
  <1>4. Unrolled(f, line, r, << >>, k, "normal", 0)
    BY <1>1, <1>3 DEF Unrolled
  <1>5. tokens \in Seq(Byte)
    BY TokensBytes
  <1>6. k \o tokens = tokens
    BY <1>5, NothingJoined
  <1> HIDE DEF k
  <1>7. Unrolled(f, line, r, data, k \o tokens, "normal", 0)
    BY <1>1, <1>2, <1>4, RestUnrolled
  <1>8. OmenWire(f, tokens) \in Seq(Byte)
    <2>1. f.style \in SevenBit /\ 0 \in Byte
      BY DEF SevenBit, Byte
    <2> HIDE DEF tokens
    <2> QED
      BY <1>1, <1>5, <2>1, OmenMore
  <1> QED
    BY <1>5, <1>6, <1>7, <1>8 DEF Unrolled

\* The end of run-length data has been read, and the bytes k of the check; w is their sum.
Summing(f, r, d, e, k, w) == Ending(f, r, d, e, k) /\ r.sum = w

LEMMA RunsEnd ==
  ASSUME NEW f \in Formats, NEW line \in Lines, NEW r, NEW d, NEW k \in Seq(Byte), NEW e \in ZCRCE .. ZCRCW,
         f.style = "rle", Expands(f, r, d, k, "normal", 0)
  PROVE  Summing(f, Taken("data", line, r, <<ZDLE, e>>), d, e, << >>, crc32_byte_update(Sum(k), e))
  <1> DEFINE p == Rested(r)  s == Summed(p, e)  t == [s EXCEPT !.at = "check", !.ending = e]
             w == crc32_byte_update(Sum(k), e)
  <1>1. /\ Poised("data", f, r) /\ r.at = "data" /\ r.out = d /\ r.over = FALSE /\ r.crc = << >>
        /\ r.rle = "normal" /\ r.sum = Sum(k) /\ e \in Byte /\ f.style \in SevenBit
    BY DEF Expands, ZCRCE, ZCRCW, Byte, SevenBit
  <1>2. Poised("data", f, p) /\ p \in Good /\ DOMAIN p = Fields /\ \A x \in Fields \ {"cancel"} : p[x] = r[x]
    BY <1>1, PoisedIs
  <1>3. \A x \in {"at", "out", "over", "crc", "rle", "sum"} : x \in Fields \ {"cancel"}
    BY DEF Fields
  <1>4. /\ p.at = "data" /\ p.out = d /\ p.over = FALSE /\ p.crc = << >> /\ p.rle = "normal"
        /\ p.sum = Sum(k)
    BY <1>1, <1>2, <1>3
  <1>5. p.encoded = "rle"
    BY <1>2 DEF Poised, Suits, Attuned, SevenBit
  <1>6. Taken("data", line, r, <<ZDLE, e>>) = Symbol("data", p, 256 + e)
    BY <1>1, OmenEndTaken
  <1> HIDE DEF p
  <1>7. 256 + e > 255 /\ (256 + e) - 256 = e
    BY <1>1 DEF Byte
  <1>8. RunSymbol(p, 256 + e) = t
    BY <1>4, <1>7 DEF RunSymbol
  <1>9. s = [p EXCEPT !.sum = w] /\ s \in Good
    <2>1. s \in Good
      BY <1>1, <1>2, SummedLike DEF Like
    <2> QED
      BY <1>4, <2>1 DEF Summed
  <1> HIDE DEF w
  <1>10. s.sum = w /\ DOMAIN s = Fields /\ \A x \in Fields \ {"sum"} : s[x] = p[x]
    BY <1>2, <1>9 DEF Fields
  <1> HIDE DEF s
  <1>11. t.at = "check" /\ t.ending = e /\ DOMAIN t = Fields /\ \A x \in Fields \ {"at", "ending"} : t[x] = s[x]
    BY <1>10 DEF Fields
  <1>12. t \in Good
    <2> DEFINE a == [s EXCEPT !.at = "check"]
    <2>1. "check" \in RxPlaces
      BY DEF RxPlaces
    <2>2. a \in Good
      BY <1>9, <2>1, GoodName
    <2>3. t = [a EXCEPT !.ending = e]
      BY <1>10 DEF Fields
    <2> HIDE DEF a, t
    <2> QED
      BY <1>1, <2>2, <2>3, GoodByte
  <1> HIDE DEF t
  <1>13. /\ \A x \in Kept : x \in Fields \ {"at", "ending"} /\ x \in Fields \ {"sum"}
         /\ \A x \in {"out", "over", "crc"} : x \in Fields \ {"at", "ending"} /\ x \in Fields \ {"sum"}
         /\ "sum" \in Fields \ {"at", "ending"}
    BY DEF Fields, Kept
  <1>14. t.out = d /\ t.over = FALSE /\ t.crc = << >> /\ t.sum = w
    BY <1>4, <1>10, <1>11, <1>13
  <1>15. \A x \in Kept : t[x] = p[x]
    BY <1>10, <1>11, <1>13
  <1>16. Poised("data", f, t)
    BY <1>2, <1>11, <1>12, <1>15, StillPoised
  <1>17. Symbol("data", p, 256 + e) = t
    BY <1>5, <1>8 DEF Symbol
  <1>18. Summing(f, t, d, e, << >>, w)
    BY <1>11, <1>14, <1>16 DEF Summing, Ending
  <1> QED
    BY <1>6, <1>17, <1>18 DEF p, w

RunCompared(r, k, c, w) ==
  IF Len(k) + 1 < 4 THEN Grown(r, Append(k, c)) ELSE Checked(Grown(r, Append(k, c)), Inverted(w))

RunAdds(f, r, d, e, k, w, c) ==
  /\ Summing(f, Grown(r, Append(k, c)), d, e, Append(k, c), w)
  /\ DOMAIN Grown(r, Append(k, c)) = Fields
  /\ Symbol("data", Rested(r), c) = RunCompared(r, k, c, w)

LEMMA RunCheckAdded ==
  ASSUME NEW f \in Formats, NEW r, NEW d, NEW e, NEW k \in Seq(Byte), NEW w, NEW c \in Byte,
         f.style = "rle", Summing(f, r, d, e, k, w)
  PROVE  RunAdds(f, r, d, e, k, w, c)
  <1> DEFINE q == Rested(r)  more == Append(k, c)  s == [q EXCEPT !.crc = more]
  <1>1. /\ Poised("data", f, r) /\ r.at = "check" /\ r.out = d /\ r.over = FALSE /\ r.ending = e /\ r.crc = k
        /\ r.sum = w
    BY DEF Summing, Ending
  <1>2. /\ q \in Good /\ Poised("data", f, q) /\ DOMAIN q = Fields
        /\ \A x \in Fields \ {"cancel"} : q[x] = r[x]
    BY <1>1, PoisedIs
  <1>3. \A x \in {"at", "out", "over", "crc", "ending", "sum"} : x \in Fields \ {"cancel"}
    BY DEF Fields
  <1>4. /\ q.at = "check" /\ q.out = d /\ q.over = FALSE /\ q.crc = k /\ q.ending = e /\ q.sum = w
    BY <1>1, <1>2, <1>3
  <1>5. q.encoded = "rle"
    BY <1>2 DEF Poised, Suits, Attuned, SevenBit
  <1>6. more \in Seq(Byte) /\ Len(more) = Len(k) + 1
    BY AppendIs
  <1> HIDE DEF q
  <1>7. ~(c > 255) /\ c <= 255
    BY DEF Byte
  <1> HIDE DEF more
  <1>8. s.crc = more /\ s.sum = w /\ DOMAIN s = Fields /\ \A x \in Fields \ {"crc"} : s[x] = q[x]
    BY <1>2, <1>4 DEF Fields
  <1>9. s \in Good
    BY <1>2, <1>6, GoodText
  <1>10. [q EXCEPT !.crc = Append(@, c)] = s
    BY <1>4 DEF more
  <1> HIDE DEF s
  <1>11. RunSymbol(q, c) = IF Len(s.crc) < 4 THEN s ELSE Checked(s, Inverted(q.sum))
    BY <1>4, <1>7, <1>10 DEF RunSymbol
  <1>12. Symbol("data", q, c) = IF Len(k) + 1 < 4 THEN s ELSE Checked(s, Inverted(w))
    BY <1>4, <1>5, <1>6, <1>8, <1>11 DEF Symbol
  <1>13. (\A x \in Kept : x \in Fields \ {"crc"})
         /\ \A x \in {"at", "out", "over", "ending"} : x \in Fields \ {"crc"}
    BY DEF Fields, Kept
  <1>14. s.at = "check" /\ s.out = d /\ s.over = FALSE /\ s.ending = e
    BY <1>4, <1>8, <1>13
  <1>15. Poised("data", f, s)
    BY <1>2, <1>8, <1>9, <1>13, <1>14, StillPoised
  <1> QED
    BY <1>8, <1>12, <1>14, <1>15 DEF Summing, Ending, q, more, s, Grown, RunCompared, RunAdds

LEMMA RunCheckRead ==
  ASSUME NEW f \in Formats, NEW line \in Lines, NEW r, NEW d, NEW e, NEW w, NEW check \in Seq(Byte),
         f.style = "rle", Summing(f, r, d, e, << >>, w), Len(check) < 4
  PROVE  Summing(f, Taken("data", line, r, OmenWire(f, check)), d, e, check, w)
  <1> DEFINE Got(k) == Summing(f, Taken("data", line, r, OmenWire(f, k)), d, e, k, w)
             T == {k \in Seq(Byte) : Len(k) < 4 => Got(k)}
  <1>1. Poised("data", f, r) /\ f.style \in SevenBit
    BY DEF Summing, Ending, SevenBit
  <1>2. << >> \in T
    <2>1. Taken("data", line, r, OmenWire(f, << >>)) = r
      <3>1. r \in Reading("data")
        BY <1>1, PoisedIs
      <3> QED
        BY <3>1, OmenNone, TakenNone
    <2>2. << >> \in Seq(Byte) /\ Got(<< >>)
      BY <2>1
    <2> HIDE DEF Got
    <2> QED
      BY <2>2
  <1>3. ASSUME NEW k \in Seq(Byte), NEW c \in Byte, k \in T PROVE Append(k, c) \in T
    <2> SUFFICES ASSUME Len(Append(k, c)) < 4 PROVE Got(Append(k, c))
      <3> HIDE DEF Got
      <3> QED
        BY AppendIs
    <2> DEFINE m == Len(k)  y == Append(k, c)
    <2>1. m \in Nat /\ Len(y) = m + 1 /\ Len(y) < 4
      BY AppendIs
    <2> HIDE DEF m, y
    <2>2. m < 4 /\ m + 1 < 4
      BY <2>1
    <2> DEFINE q == Taken("data", line, r, OmenWire(f, k))
    <2>3. Summing(f, q, d, e, k, w)
      <3>1. Got(k)
        <4> HIDE DEF Got
        <4> QED
          BY <1>3, <2>2 DEF m
      <3> QED
        BY <3>1
    <2>4. Poised("data", f, q)
      BY <2>3 DEF Summing, Ending
    <2>5. Taken("data", line, r, OmenWire(f, y)) = Symbol("data", Rested(q), c)
      BY <1>1, <2>4, SymbolTaken DEF y
    <2> HIDE DEF q
    <2>8. RunAdds(f, q, d, e, k, w, c)
      BY <2>3, RunCheckAdded
    <2>6. Summing(f, Grown(q, y), d, e, y, w)
      BY <2>8 DEF RunAdds, y
    <2>7. Symbol("data", Rested(q), c) = RunCompared(q, k, c, w)
      BY <2>8 DEF RunAdds
    <2> QED
      BY <2>2, <2>5, <2>6, <2>7 DEF m, y, RunCompared
  <1> HIDE DEF T
  <1>4. check \in T
    BY <1>2, <1>3, SequenceInduction
  <1> QED
    BY <1>4 DEF T

LEMMA RunCheckMatches ==
  ASSUME NEW f \in Formats, NEW line \in Lines, NEW r, NEW d, NEW e, NEW w \in Word,
         f.style = "rle", Summing(f, r, d, e, << >>, w)
  PROVE  /\ Inverted(w) \in Seq(Byte) /\ OmenWire(f, Inverted(w)) \in Seq(Byte)
         /\ Arrived(Taken("data", line, r, OmenWire(f, Inverted(w))), d, e)
  <1> DEFINE check == Inverted(w)
  <1>1. check \in Seq(Byte) /\ Len(check) = 4
    BY InvertedWord, WordIsBytes
  <1> HIDE DEF check
  <1>2. PICK k \in Seq(Byte), c \in Byte : check = Append(k, c) /\ Len(k) + 1 = 4
    <2>1. Len(check) > 0 /\ check \in Seq(Byte)
      BY <1>1
    <2>2. PICK k \in Seq(Byte), c \in Byte : check = Append(k, c) /\ Len(k) + 1 = Len(check)
      BY <2>1, SplitLast
    <2> QED
      BY <1>1, <2>2
  <1>3. Len(k) < 4 /\ ~(Len(k) + 1 < 4)
    BY <1>2
  <1> DEFINE q == Taken("data", line, r, OmenWire(f, k))
  <1>4. Summing(f, q, d, e, k, w)
    BY <1>3, RunCheckRead
  <1>5. Poised("data", f, q) /\ Poised("data", f, r) /\ f.style \in SevenBit
    BY <1>4 DEF Summing, Ending, SevenBit
  <1>6. OmenWire(f, check) \in Seq(Byte) /\ Taken("data", line, r, OmenWire(f, check)) = Symbol("data", Rested(q), c)
    BY <1>2, <1>5, SymbolTaken
  <1> HIDE DEF q
  <1> DEFINE s == Grown(q, Append(k, c))
  <1>12. RunAdds(f, q, d, e, k, w, c)
    BY <1>4, RunCheckAdded
  <1>7. Summing(f, s, d, e, Append(k, c), w) /\ DOMAIN s = Fields
    BY <1>12 DEF RunAdds
  <1>8. Symbol("data", Rested(q), c) = RunCompared(q, k, c, w)
    BY <1>12 DEF RunAdds
  <1>9. Symbol("data", Rested(q), c) = Checked(s, check)
    BY <1>3, <1>8 DEF RunCompared, check
  <1>10. Ending(f, s, d, e, check)
    BY <1>2, <1>7 DEF Summing
  <1> HIDE DEF s
  <1>11. Arrived(Checked(s, check), d, e)
    BY <1>7, <1>10, CheckedIs DEF Ending, Arrived
  <1> QED
    BY <1>1, <1>6, <1>9, <1>11 DEF check

LEMMA RunsDeliver ==
  ASSUME NEW f \in Formats, NEW line \in Lines, NEW r, NEW w \in Emitted, NEW data \in Seq(Byte),
         NEW ending \in ZCRCE .. ZCRCW,
         f.style = "rle", RunsEmpty(f, r), Len(data) <= Capacity
  PROVE  /\ DataEnded(f, w, data, ending) \in Emitted
         /\ \E b \in Seq(Byte) : Delivers(line, r, w, DataEnded(f, w, data, ending), data, ending, b)
  <1> DEFINE tokens == RunTokens(data)  b == OmenWire(f, tokens)  z == <<ZDLE, ending>>
             sum == crc32_byte_update(Sum(tokens), ending)
             check == Inverted(sum)  a == OmenWire(f, check)
             q == Taken("data", line, r, b)  p == Taken("data", line, q, z)
  <1>1. tokens \in Seq(Byte) /\ b \in Seq(Byte) /\ Expands(f, q, data, tokens, "normal", 0)
    BY RunTokensTaken
  <1>2. r \in Reading("data") /\ q \in Reading("data")
    <2>1. Poised("data", f, r) /\ Poised("data", f, q)
      BY <1>1 DEF RunsEmpty, Expands
    <2> HIDE DEF q
    <2> QED
      BY <2>1, PoisedIs
  <1>3. ending \in Byte /\ ZDLE \in Byte /\ z \in Seq(Byte) /\ z # << >>
    BY DEF ZCRCE, ZCRCW, ZDLE, Byte
  <1>4. Summing(f, p, data, ending, << >>, sum)
    <2> HIDE DEF q, tokens
    <2> QED
      BY <1>1, RunsEnd
  <1>5. sum \in Word
    <2> HIDE DEF tokens
    <2> QED
      BY <1>1, <1>3, SumMore, ByteUpdate
  <1>6. DataCheck(f, tokens, ending) = check
    <2>1. Crc32Start \in Word
      BY StartWord
    <2> HIDE DEF tokens
    <2>2. crc32_update(Crc32Start, tokens) = Sum(tokens)
      BY <1>1, <2>1, SlicingIsRight DEF Sum
    <2> QED
      BY <2>2 DEF DataCheck
  <1>7. a \in Seq(Byte) /\ Arrived(Taken("data", line, p, a), data, ending)
    <2> HIDE DEF p, sum
    <2> QED
      BY <1>4, <1>5, RunCheckMatches
  <1>8. DataEnded(f, w, data, ending) = raw(w, (b \o z) \o a)
    <2> HIDE DEF tokens, check
    <2>1. f.style = "rle" /\ f.style \in SevenBit
      BY DEF SevenBit
    <2> QED
      BY <1>6, <2>1 DEF DataEnded, tokens
  <1> HIDE DEF tokens, b, z, check, a, q, p, sum
  <1> DEFINE bz == b \o z
  <1>9. bz \in Seq(Byte) /\ bz # << >> /\ bz \o a \in Seq(Byte) /\ bz \o a # << >>
    BY <1>1, <1>3, <1>7
  <1>10. raw(w, bz \o a) \in Emitted /\ raw(w, bz \o a).wire = w.wire \o (bz \o a)
    BY <1>9, RawAdds
  <1>11. Taken("data", line, r, bz) = p
    BY <1>1, <1>2, <1>3, TakenJoined DEF q, p
  <1>12. Taken("data", line, r, bz \o a) = Taken("data", line, p, a)
    <2> HIDE DEF bz
    <2> QED
      BY <1>2, <1>7, <1>9, <1>11, TakenJoined
  <1>13. Delivers(line, r, w, DataEnded(f, w, data, ending), data, ending, bz \o a)
    BY <1>7, <1>8, <1>10, <1>12 DEF Delivers
  <1> QED
    BY <1>8, <1>9, <1>10, <1>13

----------------------------------------------------------------------------
(* The start of a header in a style other than hexadecimal.                  *)

\* The style of the header of p, and the bytes of the line up to what is quoted.
Styled(f, p) ==
  CASE f.style = "bin32" -> IF Len(p) = HDRLEN THEN ZBIN32 ELSE ZVBIN32
    [] f.style = "moby" -> ZBINM32
    [] f.style = "rle" -> ZBINR32ESC8
    [] f.style = "pack7" -> ZBINP7

Opening(f, p) ==
  CASE f.style = "bin32" -> <<ZPAD, ZPAD, ZDLE, Styled(f, p)>>
    [] f.style = "moby" -> <<ZPAD, ZDLE, Styled(f, p)>>
    [] f.style \in SevenBit -> <<ZPAD, ZDLE, Styled(f, p), 33 + Len(p)>>

Binaries == {f \in Formats : f.style # "hex"}

LEMMA BinaryIs ==
  ASSUME NEW f \in Binaries, NEW p \in Headers
  PROVE  /\ f \in Formats
         /\ f.style \in {"bin32", "moby", "rle", "pack7"}
         /\ f.style \in SevenBit <=> f.style \in {"rle", "pack7"}
         /\ p \in Seq(Byte) /\ Len(p) \in 5 .. 17
         /\ Styled(f, p) \in 49 .. 100 /\ Styled(f, p) \in Known
         /\ Styled(f, p) \notin {ZHEX, ZVHEX, ZBIN, ZVBIN, ZBINR32, ZVBINR32}
         /\ Styled(f, p) \in Omen <=> f.style \in SevenBit
         /\ Styled(f, p) = ZBINM32 <=> f.style = "moby"
         /\ Styled(f, p) = ZBINP7 <=> f.style = "pack7"
         /\ Styled(f, p) \in {ZBIN32, ZVBIN32} <=> f.style = "bin32"
         /\ Styled(f, p) = ZBIN32 <=> f.style = "bin32" /\ Len(p) = HDRLEN
  <1>1. f \in Formats /\ f.style \in {"bin32", "moby", "rle", "pack7"}
    BY DEF Binaries, Formats, Styles
  <1>2. p \in Seq(Byte) /\ Len(p) \in 5 .. 17
    BY SpeltIs
  <1> DEFINE x == Styled(f, p)  short == Len(p) = HDRLEN
  <1>3. /\ f.style = "bin32" => x = IF short THEN 67 ELSE 99
        /\ f.style = "moby" => x = 51
        /\ f.style = "rle" => x = 49
        /\ f.style = "pack7" => x = 50
    BY DEF Styled, ZBIN32, ZVBIN32, ZBINM32, ZBINR32ESC8, ZBINP7
  <1> HIDE DEF x, short
  <1>4. /\ x \in 49 .. 100 /\ x \in Known /\ x \notin {ZHEX, ZVHEX, ZBIN, ZVBIN, ZBINR32, ZVBINR32}
        /\ x \in Omen <=> f.style \in SevenBit
        /\ x = ZBINM32 <=> f.style = "moby"
        /\ x = ZBINP7 <=> f.style = "pack7"
        /\ x \in {ZBIN32, ZVBIN32} <=> f.style = "bin32"
        /\ x = ZBIN32 <=> f.style = "bin32" /\ short
    BY <1>1, <1>3 DEF Known, Omen, Variable, SevenBit, ZHEX, ZVHEX, ZBIN, ZVBIN, ZBINR32, ZVBINR32,
                      ZBINM32, ZBINP7, ZBINR32ESC8, ZBIN32, ZVBIN32
  <1>5. f.style \in SevenBit <=> f.style \in {"rle", "pack7"}
    BY DEF SevenBit
  <1> QED
    BY <1>1, <1>2, <1>4, <1>5 DEF x, short

\* The same, with what the line and the receiver keep of it.
Sought(r, place, ctl) ==
  r \in Reading("header") /\ Seeking(r, place) /\ r.high = FALSE /\ r.ctl = ctl

LEMMA HuntSame ==
  ASSUME NEW r \in Good, r.at \in {"hunt", "pad", "pads"}, r.event = "none", r.cancel \in 0 .. 3, NEW c
  PROVE  rx_header(r, c).high = r.high /\ rx_header(r, c).ctl = r.ctl
  <1> DEFINE q == rx_cursor_raw(r, c)  p == Probed(q, c)
  <1>1. q.event = "none" /\ q.high = r.high /\ q.ctl = r.ctl /\ q.at = r.at /\ DOMAIN q = Fields
    BY GoodIs DEF rx_cursor_raw, Fields
  <1>2. rx_header(r, c) = Scanned(q, c)
    BY <1>1 DEF rx_header
  <1> HIDE DEF q
  <1>3. p.high = r.high /\ p.ctl = r.ctl /\ DOMAIN p = Fields
    BY <1>1 DEF Probed, Fields
  <1>4. \/ \E x \in {"hunt", "pad"} : Scanned(q, c) = [p EXCEPT !.at = x]
        \/ \E x \in {"hunt", "pad", "pads", "style"} : Scanned(q, c) = [q EXCEPT !.at = x]
    BY DEF Scanned, p
  <1> HIDE DEF p
  <1>5. \A x : /\ [p EXCEPT !.at = x].high = r.high /\ [p EXCEPT !.at = x].ctl = r.ctl
               /\ [q EXCEPT !.at = x].high = r.high /\ [q EXCEPT !.at = x].ctl = r.ctl
    BY <1>1, <1>3 DEF Fields
  <1> QED
    BY <1>2, <1>4, <1>5

\* A byte before the style.
LEMMA SoughtByte ==
  ASSUME NEW line \in Lines, NEW r, NEW x, NEW place, NEW next, NEW c,
         Sought(r, place, x), r.cancel \in 0 .. 3 \/ c = ZPAD,
         \/ c = ZPAD /\ place = "hunt" /\ next = "pad"
         \/ c = ZPAD /\ place = "pad" /\ next = "pads"
         \/ c = ZDLE /\ place \in {"pad", "pads"} /\ next = "style"
  PROVE  Sought(Taken("header", line, r, <<c>>), next, x) /\ <<c>> \in Seq(Byte)
  <1>1. c \in Byte /\ ~IsFlow(c) /\ Low(c) = c
    BY DEF ZPAD, ZDLE, Byte, IsFlow, Low, XON, XOFF
  <1>2. PICK d \in Byte : Passed(line, c) = <<d>> /\ Low(d) = Low(c)
    BY <1>1, OmenCrosses
  <1>3. r \in Reading("header") /\ r \in Good /\ r.event = "none" /\ r.at = place
        /\ r.cancel \in 0 .. 4 /\ Seeking(r, place) /\ r.high = FALSE /\ r.ctl = x
    BY DEF Sought, Seeking, Reading
  <1> DEFINE s == rx_header(r, d)
  <1>4. Taken("header", line, r, <<c>>) = s /\ s \in Reading("header")
    <2>1. Taking("header", r, d) = s
      BY DEF Taking
    <2>2. Advance("header", r, d) = s
      BY <1>3, <2>1 DEF Advance
    <2> HIDE DEF s
    <2> QED
      BY <1>1, <1>2, <1>3, <2>1, <2>2, OneTaken, AdvanceReads
  <1>5. Seeking(s, next)
    <2>1. CASE c = ZPAD
      <3>1. Low(d) = ZPAD
        BY <1>1, <1>2, <2>1
      <3>2. \/ place = "hunt" /\ next = "pad"
            \/ place = "pad" /\ next = "pads"
        BY <2>1 DEF ZPAD, ZDLE
      <3> QED
        BY <1>3, <3>1, <3>2, SeekingPad
    <2>2. CASE c = ZDLE
      <3>1. Low(d) = ZDLE
        BY <1>1, <1>2, <2>2
      <3>2. place \in {"pad", "pads"} /\ next = "style"
        BY <2>2 DEF ZPAD, ZDLE
      <3> QED
        BY <1>3, <3>1, <3>2, SeekingQuote
    <2> QED
      BY <2>1, <2>2
  <1>6. s.high = FALSE /\ s.ctl = x
    <2>1. CASE r.cancel \in 0 .. 3
      <3>1. r.at \in {"hunt", "pad", "pads"}
        BY <1>3
      <3> QED
        BY <1>3, <2>1, <3>1, HuntSame
    <2>2. CASE r.cancel = 4
      <3> DEFINE q == Rested(r)
      <3>1. q \in Good /\ q.event = "none" /\ q.at = r.at /\ q.cancel = 0 /\ q.high = r.high /\ q.ctl = r.ctl
        <4>1. r.mode = "plain"
          BY <1>3 DEF Seeking
        <4> QED
          BY <1>3, <4>1, RestedIs DEF Fields
      <3>2. d # CAN /\ c = ZPAD
        <4>1. c = ZPAD
          BY <2>2
        <4> QED
          BY <1>1, <1>2, <4>1 DEF Low, CAN, ZPAD
      <3>3. rx_cursor_raw(r, d) = q /\ rx_cursor_raw(q, d) = q
        <4>1. DOMAIN r = Fields
          BY <1>3, GoodIs
        <4>2. [q EXCEPT !.cancel = 0] = q
          BY <4>1 DEF Rested, Fields
        <4> QED
          BY <3>2, <4>2 DEF rx_cursor_raw, Rested
      <3>4. place = "hunt"
        BY <1>3, <2>2, <3>2 DEF Seeking, ZPAD, ZDLE
      <3> HIDE DEF q
      <3>5. s = rx_header(q, d)
        <4>1. s = Scanned(q, d)
          BY <1>3, <3>1, <3>3, <3>4 DEF rx_header
        <4>2. rx_header(q, d) = Scanned(q, d)
          BY <1>3, <3>1, <3>3, <3>4 DEF rx_header
        <4> QED
          BY <4>1, <4>2
      <3>6. q.at \in {"hunt", "pad", "pads"}
        BY <1>3, <3>1, <3>4
      <3> QED
        BY <1>3, <3>1, <3>5, <3>6, HuntSame
    <2>3. r.cancel \in 0 .. 3 \/ r.cancel = 4
      BY <1>3
    <2> HIDE DEF s
    <2> QED
      BY <2>1, <2>2, <2>3
  <1> HIDE DEF s
  <1>7. <<c>> \in Seq(Byte)
    BY <1>1
  <1> QED
    BY <1>4, <1>5, <1>6, <1>7 DEF Sought

\* rx_header begins.
LEMMA StartSought ==
  ASSUME NEW r \in Good, r.cancel \in 0 .. 4
  PROVE  Sought(HeaderStart(r), "hunt", r.ctl)
  <1> DEFINE h == Hunting(r)  s == HeaderStart(r)
  <1>1. DOMAIN r = Fields
    BY GoodIs
  <1>2. /\ DOMAIN h = Fields /\ h.cancel = r.cancel /\ h.at = "hunt" /\ h.mode = "plain" /\ h.style = 0
        /\ h.nibble = -1 /\ h.header = << >> /\ h.crc = << >> /\ h.high = FALSE /\ h.ctl = r.ctl
    BY <1>1 DEF Hunting, Fields
  <1>3. s = [h EXCEPT !.event = "none", !.probe = 0, !.passed = FALSE]
    BY DEF HeaderStart
  <1> HIDE DEF h
  <1>4. /\ DOMAIN s = Fields /\ s.cancel = r.cancel /\ s.at = "hunt" /\ s.mode = "plain" /\ s.style = 0
        /\ s.nibble = -1 /\ s.header = << >> /\ s.crc = << >> /\ s.high = FALSE /\ s.ctl = r.ctl
        /\ s.event = "none"
    BY <1>2, <1>3 DEF Fields
  <1>5. s \in Good
    BY HeaderStartGood
  <1> HIDE DEF s
  <1>6. Seeking(s, "hunt")
    BY <1>4 DEF Seeking
  <1>7. s \in Reading("header")
    BY <1>4, <1>5 DEF Reading, AtHeader
  <1> QED
    BY <1>4, <1>6, <1>7 DEF Sought, s

\* The bytes of Opening before the style.
LEMMA PadsSought ==
  ASSUME NEW line \in Lines, NEW r \in Good, r.cancel \in 0 .. 4,
         NEW pads, pads = <<ZPAD>> \/ pads = <<ZPAD, ZPAD>>
  PROVE  /\ pads \in Seq(Byte)
         /\ Sought(Taken("header", line, HeaderStart(r), pads \o <<ZDLE>>), "style", r.ctl)
  <1> DEFINE h == HeaderStart(r)  one == <<ZPAD>>  end == <<ZDLE>>
             s == Taken("header", line, h, one)
  <1>1. Sought(h, "hunt", r.ctl)
    BY StartSought
  <1> HIDE DEF h
  <1>2. Sought(s, "pad", r.ctl) /\ one \in Seq(Byte)
    <2> HIDE DEF one
    <2> QED
      BY <1>1, SoughtByte DEF one
  <1>3. end \in Seq(Byte)
    BY DEF ZDLE, Byte
  <1> HIDE DEF s
  <1>4. \A q, place : Sought(q, place, r.ctl) => q \in Reading("header")
    BY DEF Sought
  <1>5. CASE pads = <<ZPAD>>
    <2>1. s.cancel \in 0 .. 3
      BY <1>2 DEF Sought, Seeking
    <2>2. Sought(Taken("header", line, s, end), "style", r.ctl)
      BY <1>2, <2>1, SoughtByte
    <2> HIDE DEF end, one
    <2>3. Taken("header", line, h, one \o end) = Taken("header", line, s, end)
      BY <1>1, <1>2, <1>3, <1>4, TakenJoined DEF s
    <2> QED
      BY <1>2, <1>5, <2>2, <2>3 DEF h, one, end
  <1>6. CASE pads = <<ZPAD, ZPAD>>
    <2> DEFINE t == Taken("header", line, s, one)
    <2>1. Sought(t, "pads", r.ctl)
      BY <1>2, SoughtByte
    <2> HIDE DEF t
    <2>2. t.cancel \in 0 .. 3
      BY <2>1 DEF Sought, Seeking
    <2>3. Sought(Taken("header", line, t, end), "style", r.ctl)
      BY <2>1, <2>2, SoughtByte
    <2>4. pads = one \o one
      <3>1. ZPAD \in Byte
        BY DEF ZPAD, Byte
      <3>2. <<ZPAD>> \o <<ZPAD>> = <<ZPAD, ZPAD>>
        BY <3>1, PairJoined
      <3> QED
        BY <1>6, <3>2
    <2> HIDE DEF end, one
    <2>5. pads \in Seq(Byte)
      BY <1>2, <2>4
    <2>6. Taken("header", line, h, pads) = t
      BY <1>1, <1>2, <1>4, <2>4, TakenJoined DEF s, t
    <2>7. Taken("header", line, h, pads \o end) = Taken("header", line, t, end)
      BY <1>1, <1>3, <1>4, <2>5, <2>6, TakenJoined
    <2> QED
      BY <2>3, <2>5, <2>7 DEF h, end
  <1> QED
    BY <1>5, <1>6

\* A header of p whose style has been read.
Told(f, r, p, place, h, k) ==
  /\ r \in Reading("header") /\ r.event = "none" /\ r.cancel \in 0 .. 3
  /\ r.mode = "plain" /\ r.high = FALSE
  /\ r.style = Styled(f, p) /\ (r.moby <=> f.style = "moby") /\ (r.ctl => f.ctl)
  /\ f.style = "bin32" => r.is32 = TRUE /\ r.encoded = "none"
  /\ r.at = place /\ r.header = h /\ r.crc = k
  /\ place # "count" => r.want = Len(p)

LEMMA ToldIs ==
  ASSUME NEW f, NEW r, NEW p, NEW place, NEW h, NEW k, Told(f, r, p, place, h, k)
  PROVE  /\ r \in Reading("header") /\ r \in Good /\ DOMAIN r = Fields /\ r.event = "none"
         /\ r.cancel \in 0 .. 3 /\ r.mode = "plain" /\ r.high = FALSE
         /\ r.style = Styled(f, p) /\ (r.moby <=> f.style = "moby") /\ (r.ctl => f.ctl)
         /\ (f.style = "bin32" => r.is32 = TRUE /\ r.encoded = "none")
         /\ r.at = place /\ r.header = h /\ r.crc = k
         /\ (place # "count" => r.want = Len(p))
  BY GoodIs DEF Told, Reading

\* What a header whose style has been read keeps on its way.
LEMMA StillTold ==
  ASSUME NEW f, NEW r, NEW p, NEW place, NEW h, NEW k, Told(f, r, p, place, h, k),
         NEW s \in Good, NEW next, NEW g, NEW j, next \in AtHeader,
         \A x \in Fields \ {"cancel", "at", "want", "header", "crc"} : s[x] = r[x],
         s.cancel = 0, s.at = next, s.header = g, s.crc = j, next # "count" => s.want = Len(p)
  PROVE  Told(f, s, p, next, g, j)
  <1>1. /\ r.event = "none" /\ r.mode = "plain" /\ r.high = FALSE
        /\ r.style = Styled(f, p) /\ (r.moby <=> f.style = "moby") /\ (r.ctl => f.ctl)
        /\ (f.style = "bin32" => r.is32 = TRUE /\ r.encoded = "none")
    BY GoodIs DEF Told, Reading
  <1>2. /\ s.event = r.event /\ s.mode = r.mode /\ s.high = r.high /\ s.style = r.style
        /\ s.moby = r.moby /\ s.ctl = r.ctl /\ s.is32 = r.is32 /\ s.encoded = r.encoded
    BY DEF Fields
  <1>3. s \in Reading("header")
    BY <1>1, <1>2 DEF Reading
  <1> QED
    BY <1>1, <1>2, <1>3 DEF Told

LEMMA RestTold ==
  ASSUME NEW f, NEW r, NEW p, NEW place, NEW h, NEW k, Told(f, r, p, place, h, k)
  PROVE  Told(f, Rested(r), p, place, h, k) /\ Rested(r).cancel = 0
  <1> DEFINE s == Rested(r)
  <1>1. /\ r \in Good /\ r.mode = "plain" /\ r.high = FALSE /\ r.at = place /\ r.header = h /\ r.crc = k
        /\ (place # "count" => r.want = Len(p)) /\ r.at \in AtHeader
    BY GoodIs DEF Told, Reading
  <1>2. s \in Good /\ s.cancel = 0 /\ \A x \in Fields \ {"cancel"} : s[x] = r[x]
    BY <1>1, RestedIs
  <1> HIDE DEF s
  <1>3. s.at = place /\ s.header = h /\ s.crc = k /\ s.want = r.want
    BY <1>1, <1>2 DEF Fields
  <1>4. Told(f, s, p, place, h, k)
    BY <1>1, <1>2, <1>3, StillTold
  <1> QED
    BY <1>2, <1>4 DEF s

LEMMA ToldPoised ==
  ASSUME NEW f \in Binaries, NEW r, NEW p \in Headers, NEW place \in {"count", "header", "check"},
         NEW h, NEW k, Told(f, r, p, place, h, k), place = "count" => f.style \notin SevenBit
  PROVE  Poised("header", f, r)
  <1>1. /\ r \in Reading("header") /\ r.event = "none"
        /\ r.cancel \in 0 .. 3 /\ r.mode = "plain" /\ r.high = FALSE
        /\ r.style = Styled(f, p) /\ (r.moby <=> f.style = "moby") /\ (r.ctl => f.ctl)
        /\ r.at = place
    BY GoodIs DEF Told, Reading
  <1>2. /\ Styled(f, p) \notin {ZHEX, ZVHEX}
        /\ Styled(f, p) \in Omen <=> f.style \in SevenBit
    BY BinaryIs
  <1>3. Headed(f, r)
    BY <1>1, <1>2 DEF Headed
  <1> QED
    BY <1>1, <1>3 DEF Poised, Suits

\* The byte of the header that comes between two of its symbols.
LEMMA ToldSymbol ==
  ASSUME NEW f \in Binaries, NEW r, NEW p \in Headers, NEW place, NEW h, NEW k,
         Told(f, r, p, place, h, k), NEW c \in Byte
  PROVE  Symbol("header", Rested(r), c) = HeaderByte(Rested(r), c)
  <1> DEFINE q == Rested(r)
  <1>1. Told(f, q, p, place, h, k)
    BY RestTold
  <1> HIDE DEF q
  <1>2. q.style \notin {ZHEX, ZVHEX}
    BY <1>1, ToldIs, BinaryIs DEF Told
  <1>3. c # Nothing /\ c # Wrong /\ ~(c > 255)
    BY DEF Byte, Nothing, Wrong
  <1>4. Symbol("header", q, c) = HeaderByte(q, c)
    BY <1>2, <1>3 DEF Symbol, HeaderSymbol
  <1> QED
    BY <1>4 DEF q

\* The count.
LEMMA CountTold ==
  ASSUME NEW f \in Binaries, NEW r, NEW p \in Headers, Told(f, r, p, "count", << >>, << >>),
         r.cancel = 0
  PROVE  Told(f, Counted(r, Len(p) - 1), p, "header", << >>, << >>)
  <1> DEFINE n == Len(p) - 1  s == [r EXCEPT !.want = n + 1, !.at = "header"]
  <1>1. n \in 4 .. 16 /\ n + 1 = Len(p) /\ Len(p) \in 0 .. 17
    BY BinaryIs
  <1>2. Counted(r, n) = s
    <2>1. n \in (IF r.style \in Omen THEN 0 ELSE HDRLEN - 1) .. ZMAXHLEN
      <3> HIDE DEF n
      <3> QED
        BY <1>1 DEF HDRLEN, ZMAXHLEN
    <2> HIDE DEF n
    <2> QED
      BY <2>1 DEF Counted
  <1>3. r \in Good /\ DOMAIN r = Fields /\ r.header = << >> /\ r.crc = << >>
    BY GoodIs DEF Told, Reading
  <1>4. s \in Good
    <2>1. Counted(r, n) \in Good
      BY <1>1, <1>3, CountedGood
    <2> QED
      BY <1>2, <2>1
  <1>5. /\ \A x \in Fields \ {"cancel", "at", "want", "header", "crc"} : s[x] = r[x]
        /\ s.cancel = r.cancel /\ s.at = "header" /\ s.want = n + 1 /\ s.header = r.header /\ s.crc = r.crc
    BY <1>3 DEF Fields
  <1> HIDE DEF s, n
  <1>6. Told(f, s, p, "header", << >>, << >>)
    <2>1. "header" \in AtHeader
      BY DEF AtHeader
    <2> QED
      BY <1>1, <1>3, <1>4, <1>5, <2>1, StillTold
  <1> QED
    BY <1>2, <1>6 DEF n

LEMMA LeadTold ==
  ASSUME NEW f \in Binaries, NEW r, NEW p \in Headers, Told(f, r, p, "count", << >>, << >>)
  PROVE  Len(p) - 1 \in Byte /\ Told(f, HeaderByte(Rested(r), Len(p) - 1), p, "header", << >>, << >>)
  <1> DEFINE q == Rested(r)  n == Len(p) - 1
  <1>1. Told(f, q, p, "count", << >>, << >>) /\ q.cancel = 0
    BY RestTold
  <1> HIDE DEF q
  <1>2. q.at = "count"
    BY <1>1, GoodIs DEF Told, Reading
  <1>3. HeaderByte(q, n) = Counted(q, n)
    BY <1>2 DEF HeaderByte
  <1>4. n \in Byte
    BY BinaryIs DEF Byte
  <1>5. Told(f, Counted(q, Len(p) - 1), p, "header", << >>, << >>)
    BY <1>1, CountTold
  <1> QED
    BY <1>3, <1>4, <1>5 DEF q

\* A byte of the header.
Phase(p, k) == IF k = Len(p) THEN "check" ELSE "header"

LEMMA HeaderTold ==
  ASSUME NEW f \in Binaries, NEW r, NEW p \in Headers, NEW k \in 0 .. Len(p) - 1,
         Told(f, r, p, "header", SubSeq(p, 1, k), << >>)
  PROVE  Told(f, HeaderByte(Rested(r), p[k + 1]), p, Phase(p, k + 1), SubSeq(p, 1, k + 1), << >>)
  <1> DEFINE q == Rested(r)  c == p[k + 1]  h == SubSeq(p, 1, k)  g == SubSeq(p, 1, k + 1)
             next == Phase(p, k + 1)  s == [q EXCEPT !.header = g, !.at = next]
  <1>1. p \in Seq(Byte) /\ Len(p) \in 5 .. 17
    BY BinaryIs
  <1>2. c \in Byte /\ k \in 0 .. Len(p) - 1
    BY <1>1
  <1>3. Told(f, q, p, "header", h, << >>) /\ q.cancel = 0
    BY RestTold
  <1> HIDE DEF q
  <1>4. q \in Good /\ DOMAIN q = Fields /\ q.at = "header" /\ q.header = h /\ q.crc = << >> /\ q.want = Len(p)
    BY <1>3, GoodIs DEF Told, Reading
  <1>5. Append(h, c) = g /\ Len(Append(h, c)) = k + 1
    BY <1>1, <1>2, OneFurther
  <1> HIDE DEF c, g, h
  <1>6. HeaderByte(q, c) = s
    BY <1>4, <1>5 DEF HeaderByte, Phase
  <1>7. s \in Good
    <2>1. HeaderByte(q, c) \in Good
      BY <1>2, <1>4, HeaderByteGood
    <2> QED
      BY <1>6, <2>1
  <1>8. /\ \A x \in Fields \ {"cancel", "at", "want", "header", "crc"} : s[x] = q[x]
        /\ s.cancel = q.cancel /\ s.at = next /\ s.want = q.want /\ s.header = g /\ s.crc = q.crc
    BY <1>4 DEF Fields
  <1>9. next \in AtHeader
    BY DEF Phase, AtHeader
  <1> HIDE DEF s, next
  <1>10. Told(f, s, p, next, g, << >>)
    BY <1>3, <1>4, <1>7, <1>8, <1>9, StillTold
  <1> QED
    BY <1>6, <1>10 DEF q, c, g, next

\* A byte of the check, but for the last.
HeaderCheck(f, p) == IF f.style = "bin32" THEN Crc32(p) ELSE OmenCrc(p)

LEMMA HeaderCheckIs ==
  ASSUME NEW f \in Binaries, NEW p \in Headers
  PROVE  HeaderCheck(f, p) \in Seq(Byte) /\ Len(HeaderCheck(f, p)) = 4
  <1>1. p \in Seq(Byte)
    BY BinaryIs
  <1>2. HeaderCheck(f, p) \in Word
    BY <1>1, Crc32Bytes, OmenCrcBytes DEF HeaderCheck
  <1> QED
    BY <1>2, WordIsBytes

LEMMA CheckTold ==
  ASSUME NEW f \in Binaries, NEW r, NEW p \in Headers, NEW k \in Seq(Byte), NEW c \in Byte,
         Told(f, r, p, "check", p, k), Len(k) < 3
  PROVE  Told(f, HeaderByte(Rested(r), c), p, "check", p, Append(k, c))
  <1> DEFINE q == Rested(r)  j == Append(k, c)  s == [q EXCEPT !.crc = j]
  <1>1. Told(f, q, p, "check", p, k) /\ q.cancel = 0
    BY RestTold
  <1> HIDE DEF q
  <1>2. /\ q \in Good /\ DOMAIN q = Fields /\ q.at = "check" /\ q.header = p /\ q.crc = k
        /\ q.want = Len(p) /\ q.style \notin {ZHEX, ZVHEX, ZBIN, ZVBIN}
    <2>1. q.style = Styled(f, p)
      BY <1>1 DEF Told
    <2>2. q.style \notin {ZHEX, ZVHEX, ZBIN, ZVBIN}
      BY <2>1, BinaryIs
    <2> QED
      BY <1>1, <2>2, GoodIs DEF Told, Reading
  <1>3. Len(j) < 4
    <2>1. Len(j) = Len(k) + 1 /\ Len(k) \in Nat
      OBVIOUS
    <2> QED
      BY <2>1
  <1> HIDE DEF j
  <1>4. HeaderByte(q, c) = s
    BY <1>2, <1>3 DEF HeaderByte, j
  <1>5. s \in Good
    <2>1. HeaderByte(q, c) \in Good
      BY <1>2, HeaderByteGood
    <2> QED
      BY <1>4, <2>1
  <1>6. /\ \A x \in Fields \ {"cancel", "at", "want", "header", "crc"} : s[x] = q[x]
        /\ s.cancel = q.cancel /\ s.at = q.at /\ s.want = q.want /\ s.header = q.header /\ s.crc = j
    BY <1>2 DEF Fields
  <1> HIDE DEF s
  <1>7. "check" \in AtHeader
    BY DEF AtHeader
  <1>8. Told(f, s, p, "check", p, j)
    BY <1>1, <1>2, <1>5, <1>6, <1>7, StillTold
  <1> QED
    BY <1>4, <1>8 DEF q, j

\* A header that has been read and understood.
Understood(f, r, p) ==
  r \in Good /\ r.event = "header" /\ r.header = p /\ r.cancel = 0 /\ Attuned(f, r)

LEMMA LastTold ==
  ASSUME NEW f \in Binaries, NEW r, NEW p \in Headers, NEW k \in Seq(Byte), NEW c \in Byte,
         Told(f, r, p, "check", p, k), Append(k, c) = HeaderCheck(f, p)
  PROVE  Understood(f, HeaderByte(Rested(r), c), p)
  <1> DEFINE q == Rested(r)  s == HeaderByte(q, c)  found == [q EXCEPT !.event = "header"]
             x == Styled(f, p)
  <1>1. Told(f, q, p, "check", p, k) /\ q.cancel = 0
    BY RestTold
  <1> HIDE DEF q
  <1>2. /\ q \in Good /\ DOMAIN q = Fields /\ q.at = "check" /\ q.header = p /\ q.crc = k
        /\ q.style = x /\ (q.moby <=> f.style = "moby") /\ (q.ctl => f.ctl)
        /\ (f.style = "bin32" => q.is32 = TRUE /\ q.encoded = "none")
    BY <1>1, GoodIs DEF Told, Reading
  <1>3. /\ f.style \in {"bin32", "moby", "rle", "pack7"}
        /\ f.style \in SevenBit <=> f.style \in {"rle", "pack7"}
        /\ x \notin {ZHEX, ZVHEX, ZBIN, ZVBIN}
        /\ x \in Omen <=> f.style \in SevenBit
        /\ x = ZBINM32 <=> f.style = "moby"
        /\ x = ZBINP7 <=> f.style = "pack7"
    BY BinaryIs
  <1> HIDE DEF x
  <1>4. Len(Append(q.crc, c)) = 4 /\ Append(q.crc, c) = HeaderCheck(f, p)
    BY <1>2, HeaderCheckIs
  <1>5. Checksum(q) = HeaderCheck(f, p)
    BY <1>2, <1>3 DEF Checksum, HeaderCheck
  <1>6. s = Accepted(q)
    BY <1>2, <1>3, <1>4, <1>5 DEF HeaderByte
  <1>7. s \in Good
    BY <1>2, HeaderByteGood
  <1> HIDE DEF s
  <1>8. /\ DOMAIN found = Fields /\ found.event = "header" /\ found.header = p /\ found.cancel = 0
        /\ found.moby = q.moby /\ found.ctl = q.ctl /\ found.is32 = q.is32 /\ found.encoded = q.encoded
    BY <1>1, <1>2 DEF Fields
  <1>9. s = IF x \in Omen
            THEN [found EXCEPT !.is32 = TRUE, !.escape8 = "omen",
                               !.encoded = IF x = ZBINP7 THEN "pack7" ELSE "rle"]
            ELSE IF x = ZBINM32
            THEN [found EXCEPT !.is32 = TRUE, !.escape8 = "none", !.encoded = "none"]
            ELSE found
    BY <1>2, <1>6 DEF Accepted
  <1> HIDE DEF found
  <1>10. /\ s.event = "header" /\ s.header = p /\ s.cancel = 0 /\ (s.moby <=> f.style = "moby") /\ (s.ctl => f.ctl)
         /\ s.is32 = TRUE
    BY <1>2, <1>3, <1>8, <1>9 DEF Fields
  <1>11. /\ s.encoded = IF f.style \in SevenBit THEN f.style ELSE "none"
         /\ f.style \in SevenBit => s.escape8 = "omen"
    BY <1>2, <1>3, <1>8, <1>9 DEF Fields
  <1>12. Attuned(f, s)
    BY <1>3, <1>10, <1>11 DEF Attuned
  <1> QED
    BY <1>7, <1>10, <1>12 DEF s, q, Understood

----------------------------------------------------------------------------
(* A whole header in a style other than hexadecimal.                         *)

LEMMA RawAll ==
  ASSUME NEW s \in Emitted, NEW p \in Seq(Byte)
  PROVE  raw(s, p) \in Emitted /\ raw(s, p).wire = s.wire \o p
  <1>1. CASE p = << >>
    <2>1. s.wire \in Seq(Byte)
      BY DEF Emitted
    <2>2. s.wire \o << >> = s.wire
      BY <2>1, NothingJoined
    <2>3. raw(s, p) = s
      BY <1>1 DEF raw
    <2> QED
      BY <1>1, <2>2, <2>3
  <1>2. CASE p # << >>
    BY <1>2, RawAdds
  <1> QED
    BY <1>1, <1>2

\* What is quoted of a header, and how.
Coded(f, w, b) == IF f.style \in SevenBit THEN raw(w, OmenWire(f, b)) ELSE buffer_all(f, w, b)

\* Bytes so coded bring a receiver from r to q.
Brings(f, line, r, w, b, q) ==
  /\ b \in Seq(Byte) /\ Coded(f, w, b) \in Emitted
  /\ f.style \in SevenBit => OmenWire(f, b) \in Seq(Byte)
  /\ \E a \in Seq(Byte) : Coded(f, w, b).wire = w.wire \o a /\ Taken("header", line, r, a) = q

LEMMA BringsNone ==
  ASSUME NEW f \in Formats, NEW line \in Lines, NEW r \in Reading("header"), NEW w \in Emitted
  PROVE  Brings(f, line, r, w, << >>, r)
  <1>1. Coded(f, w, << >>) = w
    <2>1. OmenWire(f, << >>) = << >>
      BY OmenNone
    <2>2. raw(w, << >>) = w
      BY DEF raw
    <2> QED
      BY <2>1, <2>2, BufferNone DEF Coded
  <1>2. w.wire = w.wire \o << >>
    <2>1. w.wire \in Seq(Byte)
      BY DEF Emitted
    <2> QED
      BY <2>1, NothingJoined
  <1>3. Taken("header", line, r, << >>) = r
    BY TakenNone
  <1>4. << >> \in Seq(Byte)
    OBVIOUS
  <1>5. OmenWire(f, << >>) \in Seq(Byte)
    BY <1>4, OmenNone
  <1> QED
    BY <1>1, <1>2, <1>3, <1>4, <1>5 DEF Brings

\* One byte more.
LEMMA BringsMore ==
  ASSUME NEW f \in Formats, NEW line, Carries(line, f), NEW r, Poised("header", f, r), NEW w \in Emitted,
         NEW b, NEW q, Brings(f, line, r, w, b, q), Poised("header", f, q), NEW c \in Byte
  PROVE  Brings(f, line, r, w, Append(b, c), Symbol("header", Rested(q), c))
  <1> DEFINE d == Append(b, c)  t == Symbol("header", Rested(q), c)
  <1>1. PICK a \in Seq(Byte) : Coded(f, w, b).wire = w.wire \o a /\ Taken("header", line, r, a) = q
    BY DEF Brings
  <1>2. b \in Seq(Byte) /\ Coded(f, w, b) \in Emitted /\ d \in Seq(Byte) /\ line \in Lines
    BY DEF Brings, Carries
  <1>3. r \in Reading("header")
    BY DEF Poised
  <1>4. CASE f.style \in SevenBit
    <2> DEFINE e == omen_encode_byte(f, c)
    <2>1. e \in Seq(Byte) /\ Taken("header", line, q, e) = t
      BY <1>2, <1>4, OmenTaken
    <2>2. OmenWire(f, b) \in Seq(Byte) /\ OmenWire(f, d) = OmenWire(f, b) \o e
      BY <1>2, <1>4, OmenMore
    <2> HIDE DEF e
    <2>3. a \o e \in Seq(Byte) /\ OmenWire(f, d) \in Seq(Byte)
      BY <2>1, <2>2
    <2>4. Coded(f, w, d) \in Emitted /\ Coded(f, w, d).wire = w.wire \o (a \o e)
      <3>1. Coded(f, w, b).wire = w.wire \o OmenWire(f, b)
        BY <1>4, <2>2, RawAll DEF Coded
      <3>2. Coded(f, w, d) \in Emitted /\ Coded(f, w, d).wire = w.wire \o (OmenWire(f, b) \o e)
        BY <1>4, <2>2, <2>3, RawAll DEF Coded
      <3>3. (w.wire \o OmenWire(f, b)) \o e = w.wire \o (OmenWire(f, b) \o e)
        BY <2>1, <2>2, WireGrows
      <3>4. (w.wire \o a) \o e = w.wire \o (a \o e)
        BY <2>1, WireGrows
      <3> QED
        BY <1>1, <3>1, <3>2, <3>3, <3>4
    <2>5. Taken("header", line, r, a \o e) = t
      BY <1>1, <1>2, <1>3, <2>1, TakenJoined
    <2> HIDE DEF d, t
    <2>6. Brings(f, line, r, w, d, t)
      BY <1>2, <2>3, <2>4, <2>5 DEF Brings
    <2> QED
      BY <2>6 DEF d, t
  <1>5. CASE f.style \notin SevenBit
    <2> DEFINE s == Coded(f, w, b)
    <2>1. s = buffer_all(f, w, b) /\ s \in Emitted
      BY <1>2, <1>5 DEF Coded
    <2> HIDE DEF s
    <2>2. PICK e \in Seq(Byte) : Quotes("header", f, line, q, c, s, e)
      BY <1>5, <2>1, PlainTaken
    <2>3. e # << >> /\ buffer_tx(f, s, c) = raw(s, e) /\ Taken("header", line, q, e) = t
      BY <2>2 DEF Quotes
    <2>4. Coded(f, w, d) = raw(s, e)
      <3>1. buffer_all(f, w, d) = buffer_tx(f, s, c)
        BY <1>2, <2>1, BufferMore
      <3> HIDE DEF d
      <3> QED
        BY <1>5, <2>3, <3>1 DEF Coded
    <2>5. a \o e \in Seq(Byte)
      OBVIOUS
    <2>6. Coded(f, w, d) \in Emitted /\ Coded(f, w, d).wire = w.wire \o (a \o e)
      <3>1. raw(s, e) \in Emitted /\ raw(s, e).wire = s.wire \o e
        BY <2>1, RawAll
      <3>2. (w.wire \o a) \o e = w.wire \o (a \o e)
        BY WireGrows
      <3> QED
        BY <1>1, <2>4, <3>1, <3>2 DEF s
    <2>7. Taken("header", line, r, a \o e) = t
      BY <1>1, <1>2, <1>3, <2>3, TakenJoined
    <2> HIDE DEF d, t
    <2>8. Brings(f, line, r, w, d, t)
      BY <1>2, <1>5, <2>5, <2>6, <2>7 DEF Brings
    <2> QED
      BY <2>8 DEF d, t
  <1> QED
    BY <1>4, <1>5

\* Bytes so coded bring a receiver of a header of p, from r on, to a place in it.
Arrives(f, line, r, w, b, p, place, h, k) ==
  \E q : Brings(f, line, r, w, b, q) /\ Told(f, q, p, place, h, k)

LEMMA ArrivesMore ==
  ASSUME NEW f \in Binaries, NEW line, Carries(line, f), NEW r, Poised("header", f, r), NEW w \in Emitted,
         NEW p \in Headers, NEW b, NEW q, NEW place \in {"count", "header", "check"}, NEW h, NEW k,
         Brings(f, line, r, w, b, q), Told(f, q, p, place, h, k),
         place = "count" => f.style \notin SevenBit, NEW c \in Byte
  PROVE  Brings(f, line, r, w, Append(b, c), HeaderByte(Rested(q), c))
  <1>1. Poised("header", f, q)
    BY ToldPoised
  <1>2. f \in Formats
    BY DEF Binaries
  <1>3. Brings(f, line, r, w, Append(b, c), Symbol("header", Rested(q), c))
    BY <1>1, <1>2, BringsMore
  <1>4. Symbol("header", Rested(q), c) = HeaderByte(Rested(q), c)
    BY ToldSymbol
  <1> QED
    BY <1>3, <1>4

\* What comes before the header, within what is quoted.
Begins(f, p) == IF f.style = "moby" \/ (f.style = "bin32" /\ Len(p) # HDRLEN) THEN "count" ELSE "header"
Lead(f, p) == IF Begins(f, p) = "count" THEN <<Len(p) - 1>> ELSE << >>

LEMMA BeginsPoised ==
  ASSUME NEW f \in Binaries, NEW p \in Headers, NEW r, Told(f, r, p, Begins(f, p), << >>, << >>)
  PROVE  /\ Begins(f, p) \in {"count", "header"}
         /\ Begins(f, p) = "count" => f.style \notin SevenBit
         /\ Poised("header", f, r) /\ r \in Reading("header")
  <1>1. Begins(f, p) \in {"count", "header"}
    BY DEF Begins
  <1>2. Begins(f, p) = "count" => f.style \notin SevenBit
    BY DEF Begins, SevenBit
  <1>3. Poised("header", f, r)
    BY <1>1, <1>2, ToldPoised
  <1> QED
    BY <1>1, <1>2, <1>3 DEF Poised

LEMMA LeadArrives ==
  ASSUME NEW f \in Binaries, NEW line, Carries(line, f), NEW p \in Headers, NEW w \in Emitted,
         NEW r, Told(f, r, p, Begins(f, p), << >>, << >>)
  PROVE  Lead(f, p) \in Seq(Byte) /\ Arrives(f, line, r, w, Lead(f, p), p, "header", << >>, << >>)
  <1>1. f \in Formats /\ line \in Lines
    BY DEF Binaries, Carries
  <1>2. /\ Begins(f, p) \in {"count", "header"}
        /\ Begins(f, p) = "count" => f.style \notin SevenBit
        /\ Poised("header", f, r) /\ r \in Reading("header")
    BY BeginsPoised
  <1>3. Brings(f, line, r, w, << >>, r)
    BY <1>1, <1>2, BringsNone
  <1>4. << >> \in Seq(Byte)
    OBVIOUS
  <1>5. CASE Begins(f, p) = "header"
    BY <1>3, <1>4, <1>5 DEF Lead, Arrives
  <1>6. CASE Begins(f, p) = "count"
    <2> DEFINE c == Len(p) - 1  q == HeaderByte(Rested(r), c)
    <2>1. Told(f, r, p, "count", << >>, << >>)
      BY <1>6
    <2>2. c \in Byte /\ Told(f, q, p, "header", << >>, << >>)
      BY <2>1, LeadTold
    <2> HIDE DEF c
    <2>3. Brings(f, line, r, w, Append(<< >>, c), q)
      BY <1>2, <1>3, <1>6, <2>1, <2>2, ArrivesMore
    <2>4. Append(<< >>, c) = <<c>> /\ <<c>> \in Seq(Byte)
      BY <2>2
    <2>5. Lead(f, p) = <<c>>
      BY <1>6 DEF Lead, c
    <2> HIDE DEF q
    <2> QED
      BY <2>2, <2>3, <2>4, <2>5 DEF Arrives
  <1> QED
    BY <1>2, <1>5, <1>6

LEMMA HeaderArrives ==
  ASSUME NEW f \in Binaries, NEW line, Carries(line, f), NEW p \in Headers, NEW w \in Emitted,
         NEW r, Poised("header", f, r), NEW a \in Seq(Byte),
         Arrives(f, line, r, w, a, p, "header", << >>, << >>)
  PROVE  Arrives(f, line, r, w, a \o p, p, "check", p, << >>)
  <1> DEFINE m == Len(p)
             Is(k) == Arrives(f, line, r, w, a \o SubSeq(p, 1, k), p, Phase(p, k), SubSeq(p, 1, k), << >>)
             T == {k \in 0 .. m : Is(k)}
  <1>1. p \in Seq(Byte) /\ m \in 5 .. 17
    BY BinaryIs
  <1>2. 0 \in T
    <2>1. SubSeq(p, 1, 0) = << >>
      BY <1>1
    <2>2. a \o << >> = a
      BY NothingJoined
    <2>3. Phase(p, 0) = "header"
      BY <1>1 DEF Phase
    <2>4. Is(0)
      BY <2>1, <2>2, <2>3
    <2> HIDE DEF Is, m
    <2> QED
      BY <1>1, <2>4
  <1>3. ASSUME NEW k \in 0 .. m - 1, k \in T PROVE k + 1 \in T
    <2> DEFINE h == SubSeq(p, 1, k)  g == SubSeq(p, 1, k + 1)  c == p[k + 1]
    <2>1. Is(k)
      BY <1>3
    <2>2. Phase(p, k) = "header" /\ k \in 0 .. Len(p) - 1 /\ k + 1 \in 0 .. m
      BY <1>1, <1>3 DEF Phase
    <2>3. PICK q : Brings(f, line, r, w, a \o h, q) /\ Told(f, q, p, "header", h, << >>)
      BY <2>1, <2>2 DEF Arrives
    <2>4. c \in Byte /\ h \in Seq(Byte) /\ Append(h, c) = g
      <3>1. c \in Byte /\ h \in Seq(Byte)
        BY <1>1, <2>2
      <3>2. Append(h, c) = g
        BY <1>1, <2>2, OneFurther
      <3> QED
        BY <3>1, <3>2
    <2> DEFINE t == HeaderByte(Rested(q), c)
    <2>5. Told(f, t, p, Phase(p, k + 1), g, << >>)
      BY <2>2, <2>3, HeaderTold
    <2> HIDE DEF c, h, g
    <2>6. Brings(f, line, r, w, Append(a \o h, c), t)
      BY <2>3, <2>4, ArrivesMore
    <2>7. Append(a \o h, c) = a \o g
      <3>1. a \o Append(h, c) = Append(a \o h, c)
        BY <2>4, SMTT(60)
      <3> QED
        BY <2>4, <3>1
    <2> HIDE DEF t
    <2>8. Arrives(f, line, r, w, a \o g, p, Phase(p, k + 1), g, << >>)
      BY <2>5, <2>6, <2>7 DEF Arrives
    <2> HIDE DEF m
    <2> QED
      BY <2>2, <2>8 DEF g
  <1>4. m \in T
    <2>1. m \in Nat /\ \A k \in 0 .. m - 1 : k \in T => k + 1 \in T
      BY <1>1, <1>3
    <2> HIDE DEF T, m
    <2>2. m \in 0 .. m
      BY <2>1
    <2> QED
      BY <1>2, <2>1, <2>2, BoundedInduction
  <1>5. SubSeq(p, 1, m) = p /\ Phase(p, m) = "check"
    BY <1>1 DEF Phase
  <1>6. Is(m)
    BY <1>4
  <1> HIDE DEF m
  <1> QED
    BY <1>5, <1>6

LEMMA CheckArrives ==
  ASSUME NEW f \in Binaries, NEW line, Carries(line, f), NEW p \in Headers, NEW w \in Emitted,
         NEW r, Poised("header", f, r), NEW b \in Seq(Byte),
         Arrives(f, line, r, w, b, p, "check", p, << >>)
  PROVE  \E q : Brings(f, line, r, w, b \o HeaderCheck(f, p), q) /\ Understood(f, q, p)
  <1> DEFINE check == HeaderCheck(f, p)
             Is(k) == Arrives(f, line, r, w, b \o k, p, "check", p, k)
             T == {k \in Seq(Byte) : Len(k) < 4 => Is(k)}
  <1>1. check \in Seq(Byte) /\ Len(check) = 4
    BY HeaderCheckIs
  <1>2. << >> \in T
    <2>1. b \o << >> = b /\ << >> \in Seq(Byte)
      BY NothingJoined
    <2> HIDE DEF check
    <2> QED
      BY <2>1
  <1>3. ASSUME NEW k \in Seq(Byte), NEW c \in Byte, k \in T PROVE Append(k, c) \in T
    <2>1. Append(k, c) \in Seq(Byte) /\ Len(Append(k, c)) = Len(k) + 1 /\ Len(k) \in Nat
      OBVIOUS
    <2>2. CASE Len(k) < 3
      <3>1. Is(k)
        BY <1>3, <2>2, <2>1
      <3>2. PICK q : Brings(f, line, r, w, b \o k, q) /\ Told(f, q, p, "check", p, k)
        BY <3>1 DEF Arrives
      <3> DEFINE t == HeaderByte(Rested(q), c)
      <3>3. Told(f, t, p, "check", p, Append(k, c))
        BY <2>2, <3>2, CheckTold
      <3>4. Brings(f, line, r, w, Append(b \o k, c), t)
        BY <3>2, ArrivesMore
      <3>5. Append(b \o k, c) = b \o Append(k, c)
        OBVIOUS
      <3> HIDE DEF t
      <3>6. Is(Append(k, c))
        BY <3>3, <3>4, <3>5 DEF Arrives
      <3> HIDE DEF Is
      <3> QED
        BY <2>1, <3>6
    <2>3. CASE ~(Len(k) < 3)
      <3> HIDE DEF Is
      <3> QED
        BY <2>1, <2>3
    <2> QED
      BY <2>2, <2>3
  <1>4. Seq(Byte) \subseteq T
    <2> HIDE DEF T
    <2> QED
      BY <1>2, <1>3, SequenceInduction
  <1> HIDE DEF check
  <1>5. PICK k \in Seq(Byte), c \in Byte : check = Append(k, c) /\ Len(k) + 1 = 4
    <2>1. Len(check) > 0
      BY <1>1
    <2>2. \E k \in Seq(Byte), c \in Byte : check = Append(k, c) /\ Len(k) + 1 = Len(check)
      BY <1>1, <2>1, SplitLast
    <2> QED
      BY <1>1, <2>2
  <1>6. Is(k)
    <2>1. Len(k) < 4
      BY <1>5
    <2> HIDE DEF Is
    <2> QED
      BY <1>4, <1>5, <2>1
  <1>7. PICK q : Brings(f, line, r, w, b \o k, q) /\ Told(f, q, p, "check", p, k)
    BY <1>6 DEF Arrives
  <1> DEFINE t == HeaderByte(Rested(q), c)
  <1>8. Understood(f, t, p)
    BY <1>5, <1>7, LastTold DEF check
  <1>9. Brings(f, line, r, w, Append(b \o k, c), t)
    BY <1>7, ArrivesMore
  <1>10. Append(b \o k, c) = b \o check
    BY <1>5, AppendIs
  <1> HIDE DEF t
  <1> QED
    BY <1>8, <1>9, <1>10 DEF check

----------------------------------------------------------------------------
(* From the first byte on.                                                   *)

\* The byte of the style.
LEMMA StyleOpens ==
  ASSUME NEW f \in Binaries, NEW p \in Headers, NEW r, NEW x, Sought(r, "style", x), x => f.ctl,
         NEW c \in Byte, Low(c) = Styled(f, p)
  PROVE  Told(f, rx_header(r, c), p,
              IF Styled(f, p) = ZBIN32 THEN "header" ELSE "count", << >>, << >>)
  <1> DEFINE e == [r EXCEPT !.cancel = 0]  s == rx_header(r, c)  y == Styled(f, p)
             place == IF y = ZBIN32 THEN "header" ELSE "count"
             read == [e EXCEPT !.style = y, !.want = HDRLEN, !.moby = y = ZBINM32]
             next == [read EXCEPT !.at = place]
             full == [next EXCEPT !.is32 = y \in {ZBIN32, ZBINR32, ZVBIN32, ZVBINR32},
                                  !.encoded = IF y \in {ZBINR32, ZVBINR32} THEN "rle" ELSE "none"]
  <1>1. /\ r \in Reading("header") /\ r \in Good /\ r.cancel \in 0 .. 4 /\ DOMAIN r = Fields
        /\ Seeking(r, "style") /\ r.high = FALSE /\ r.ctl = x
        /\ r.event = "none" /\ r.mode = "plain" /\ r.header = << >> /\ r.crc = << >> /\ r.at = "style"
    BY DEF Sought, Seeking, Reading
  <1>2. /\ f.style \in {"bin32", "moby", "rle", "pack7"}
        /\ f.style \in SevenBit <=> f.style \in {"rle", "pack7"}
        /\ y \in 49 .. 100 /\ y \in Known
        /\ y \notin {ZHEX, ZVHEX, ZBIN, ZVBIN, ZBINR32, ZVBINR32}
        /\ y \in Omen <=> f.style \in SevenBit
        /\ y = ZBINM32 <=> f.style = "moby"
        /\ y \in {ZBIN32, ZVBIN32} <=> f.style = "bin32"
        /\ y = ZBIN32 <=> f.style = "bin32" /\ Len(p) = HDRLEN
    BY BinaryIs
  <1>3. /\ DOMAIN e = Fields /\ e.cancel = 0 /\ e.event = "none" /\ e.mode = "plain" /\ e.high = FALSE
        /\ e.ctl = x /\ e.header = << >> /\ e.crc = << >>
    BY <1>1 DEF Fields
  <1>4. s = Style(e, y)
    BY <1>1, <1>2, StyleArrives
  <1>5. s \in Good /\ (s.event = "cancelled" \/ s.cancel \in 0 .. 4) /\ s.at \in AtHeader
    <2>1. c \in Byte /\ Steered(r) /\ r.at \in AtHeader
      BY <1>1, GoodIs DEF Reading
    <2> QED
      BY <1>1, <2>1, HeaderTyped, HeaderRead DEF Alive
  <1> HIDE DEF e, s, y
  <1>6. y \in Omen \cup Variable \cup {ZBINM32} <=> y # ZBIN32
    BY <1>2 DEF Known, Omen, Variable, ZBINM32, ZBIN, ZHEX, ZBIN32, ZBINR32, ZBINR32ESC8, ZBINP7,
           ZVBIN, ZVHEX, ZVBIN32, ZVBINR32
  <1>7. s = IF y \in Omen \cup {ZBINM32} THEN next ELSE full
    <2>1. [read EXCEPT !.at = IF y \in Omen \cup Variable \cup {ZBINM32} THEN "count" ELSE "header"] = next
      BY <1>6
    <2> QED
      BY <1>2, <1>4, <2>1 DEF Style
  <1>8. /\ DOMAIN read = Fields /\ read.cancel = 0 /\ read.event = "none" /\ read.mode = "plain"
        /\ read.high = FALSE /\ read.ctl = x /\ read.header = << >> /\ read.crc = << >>
        /\ read.style = y /\ read.want = HDRLEN /\ (read.moby <=> y = ZBINM32)
    BY <1>3 DEF Fields
  <1> HIDE DEF read, place
  <1>9. /\ DOMAIN next = Fields /\ next.cancel = 0 /\ next.event = "none" /\ next.mode = "plain"
        /\ next.high = FALSE /\ next.ctl = x /\ next.header = << >> /\ next.crc = << >>
        /\ next.style = y /\ next.want = HDRLEN /\ (next.moby <=> y = ZBINM32) /\ next.at = place
    BY <1>8 DEF Fields
  <1> HIDE DEF next
  <1>10. /\ DOMAIN full = Fields /\ full.cancel = 0 /\ full.event = "none" /\ full.mode = "plain"
         /\ full.high = FALSE /\ full.ctl = x /\ full.header = << >> /\ full.crc = << >>
         /\ full.style = y /\ full.want = HDRLEN /\ (full.moby <=> y = ZBINM32) /\ full.at = place
         /\ full.is32 = (y \in {ZBIN32, ZBINR32, ZVBIN32, ZVBINR32})
         /\ full.encoded = IF y \in {ZBINR32, ZVBINR32} THEN "rle" ELSE "none"
    BY <1>9 DEF Fields
  <1> HIDE DEF full
  <1>11. /\ s.cancel = 0 /\ s.event = "none" /\ s.mode = "plain"
         /\ s.high = FALSE /\ s.ctl = x /\ s.header = << >> /\ s.crc = << >>
         /\ s.style = y /\ s.want = HDRLEN /\ (s.moby <=> y = ZBINM32) /\ s.at = place
    BY <1>7, <1>9, <1>10
  <1>12. f.style = "bin32" => s.is32 = TRUE /\ s.encoded = "none"
    <2>1. f.style = "bin32" => y \notin Omen \cup {ZBINM32} /\ y \in {ZBIN32, ZVBIN32}
      BY <1>2
    <2> QED
      BY <1>2, <1>7, <1>10, <2>1
  <1>13. s \in Reading("header")
    BY <1>5, <1>11 DEF Reading
  <1>14. place # "count" => s.want = Len(p)
    BY <1>2, <1>11 DEF place
  <1>15. s.cancel \in 0 .. 3
    BY <1>11
  <1>16. Told(f, s, p, place, << >>, << >>)
    BY <1>2, <1>11, <1>12, <1>13, <1>14, <1>15 DEF Told, y
  <1> QED
    BY <1>16 DEF s, place, y

\* The count of a header of Omen's.
LEMMA CountOpens ==
  ASSUME NEW f \in Binaries, f.style \in SevenBit, NEW p \in Headers, NEW r,
         Told(f, r, p, "count", << >>, << >>), NEW c \in Byte, Low(c) = 33 + Len(p)
  PROVE  Told(f, rx_header(r, c), p, "header", << >>, << >>)
  <1> DEFINE q == Rested(r)
  <1>1. Told(f, q, p, "count", << >>, << >>) /\ q.cancel = 0 /\ Len(p) \in 5 .. 17
    BY RestTold, BinaryIs
  <1>2. r.at = "count" /\ r.style \in Omen /\ r.event = "none"
    <2>1. r.at = "count" /\ r.style = Styled(f, p) /\ r.event = "none"
      BY DEF Told
    <2> QED
      BY <2>1, BinaryIs
  <1>3. Low(c) \in 38 .. 50 /\ Low(c) - 34 = Len(p) - 1
    <2> DEFINE m == Len(p)
    <2>1. m \in 5 .. 17 /\ Low(c) = 33 + m
      BY <1>1
    <2> HIDE DEF m
    <2>2. Low(c) \in 38 .. 50 /\ Low(c) - 34 = m - 1
      BY <2>1
    <2> QED
      BY <2>2 DEF m
  <1>4. c # CAN /\ ~IsFlow(Low(c))
    BY <1>3 DEF CAN, Low, IsFlow, XON, XOFF
  <1>5. rx_cursor_raw(r, c) = q
    BY <1>4 DEF rx_cursor_raw, Rested
  <1> HIDE DEF q
  <1>6. q.event = "none"
    BY <1>1 DEF Told
  <1>7. rx_header(r, c) = OmenCount(q, c)
    BY <1>2, <1>5, <1>6 DEF rx_header
  <1>8. OmenCount(q, c) = Counted(q, Len(p) - 1)
    BY <1>3, <1>4 DEF OmenCount
  <1>9. Told(f, Counted(q, Len(p) - 1), p, "header", << >>, << >>)
    BY <1>1, CountTold
  <1> QED
    BY <1>7, <1>8, <1>9

LEMMA OpeningCount ==
  ASSUME NEW f \in Binaries, NEW p \in Headers
  PROVE  LET n == 33 + Len(p) IN n \in Byte /\ ~IsFlow(n) /\ Low(n) = n
  <1> DEFINE m == Len(p)  n == 33 + m
  <1>1. m \in 5 .. 17
    BY BinaryIs
  <1> HIDE DEF m
  <1>2. n \in 38 .. 50
    BY <1>1
  <1> HIDE DEF n
  <1>3. n \in Byte /\ ~IsFlow(n) /\ Low(n) = n
    BY <1>2 DEF Byte, IsFlow, Low, XON, XOFF
  <1> QED
    BY <1>3 DEF n, m

LEMMA OneJoined ==
  ASSUME NEW t \in Seq(Byte), NEW c \in Byte, NEW u \in Seq(Byte), Len(u) = Len(t) + 1,
         \A i \in 1 .. Len(t) : u[i] = t[i], u[Len(t) + 1] = c
  PROVE  t \o <<c>> = u
  <1> DEFINE a == Append(t, c)
  <1>1. /\ a \in Seq(Byte) /\ Len(a) = Len(t) + 1 /\ Len(t) \in Nat /\ a[Len(t) + 1] = c
        /\ (\A i \in 1 .. Len(t) : a[i] = t[i]) /\ t \o <<c>> = a
    BY AppendIs
  <1> HIDE DEF a
  <1>2. \A i \in 1 .. Len(u) : a[i] = u[i]
    BY <1>1
  <1>3. a = u
    BY <1>1, <1>2
  <1> QED
    BY <1>1, <1>3

Joins(a, b, c, d) ==
  /\ (<<a, b>> \o <<c>>) \o <<d>> = <<a, b, c, d>> /\ <<a, b, c, d>> \in Seq(Byte)
  /\ (<<a>> \o <<b>>) \o <<c>> = <<a, b, c>> /\ <<a, b, c>> \in Seq(Byte)
  /\ ((<<a>> \o <<b>>) \o <<c>>) \o <<d>> = <<a, b, c, d>>

LEMMA FourJoined ==
  ASSUME NEW a \in Byte, NEW b \in Byte, NEW c \in Byte, NEW d \in Byte
  PROVE  Joins(a, b, c, d)
  <1> DEFINE u == <<a, b>>  v == <<a, b, c>>  w == <<a, b, c, d>>
  <1>1. u \in Seq(Byte) /\ Len(u) = 2 /\ u[1] = a /\ u[2] = b
    OBVIOUS
  <1>2. v \in Seq(Byte) /\ Len(v) = 3 /\ v[1] = a /\ v[2] = b /\ v[3] = c
    OBVIOUS
  <1>3. w \in Seq(Byte) /\ Len(w) = 4 /\ w[1] = a /\ w[2] = b /\ w[3] = c /\ w[4] = d
    OBVIOUS
  <1>4. <<a>> \o <<b>> = u
    BY PairJoined
  <1> HIDE DEF u, v, w
  <1>5. u \o <<c>> = v
    <2>1. (\A i \in 1 .. Len(u) : v[i] = u[i]) /\ Len(v) = Len(u) + 1 /\ v[Len(u) + 1] = c
      BY <1>1, <1>2
    <2> QED
      BY <1>1, <1>2, <2>1, OneJoined
  <1>6. v \o <<d>> = w
    <2>1. (\A i \in 1 .. Len(v) : w[i] = v[i]) /\ Len(w) = Len(v) + 1 /\ w[Len(v) + 1] = d
      BY <1>2, <1>3
    <2> QED
      BY <1>2, <1>3, <2>1, OneJoined
  <1>7. (u \o <<c>>) \o <<d>> = w /\ (<<a>> \o <<b>>) \o <<c>> = v
        /\ ((<<a>> \o <<b>>) \o <<c>>) \o <<d>> = w
    BY <1>4, <1>5, <1>6
  <1> QED
    BY <1>2, <1>3, <1>7 DEF u, v, w, Joins

\* A byte that is not quoted, whatever the line.
LEMMA RawTaken ==
  ASSUME NEW line \in Lines, NEW r \in Reading("header"), r.event = "none", NEW c \in Byte, ~IsFlow(c)
  PROVE  /\ Taken("header", line, r, <<c>>) \in Reading("header")
         /\ \E d \in Byte : Low(d) = Low(c) /\ Taken("header", line, r, <<c>>) = rx_header(r, d)
  <1>1. PICK d \in Byte : Passed(line, c) = <<d>> /\ Low(d) = Low(c)
    BY OmenCrosses
  <1>2. Taken("header", line, r, <<c>>) = Taking("header", r, d)
    BY <1>1, OneTaken
  <1>3. Taking("header", r, d) = rx_header(r, d)
    BY DEF Taking
  <1>4. <<c>> \in Seq(Byte)
    OBVIOUS
  <1>5. Taken("header", line, r, <<c>>) \in Reading("header")
    BY <1>4, TakenJoined
  <1> QED
    BY <1>1, <1>2, <1>3, <1>5

Pads(f) == IF f.style = "bin32" THEN <<ZPAD, ZPAD>> ELSE <<ZPAD>>

LEMMA OpeningIs ==
  ASSUME NEW f \in Binaries, NEW p \in Headers
  PROVE  /\ Pads(f) \in Seq(Byte) /\ Styled(f, p) \in Byte /\ ~IsFlow(Styled(f, p))
         /\ Low(Styled(f, p)) = Styled(f, p)
         /\ Opening(f, p) \in Seq(Byte) /\ Opening(f, p) # << >>
         /\ LET begun == (Pads(f) \o <<ZDLE>>) \o <<Styled(f, p)>>
            IN  Opening(f, p) = IF f.style \in SevenBit THEN begun \o <<33 + Len(p)>> ELSE begun
  <1> DEFINE y == Styled(f, p)  n == 33 + Len(p)
  <1>1. /\ f.style \in {"bin32", "moby", "rle", "pack7"}
        /\ f.style \in SevenBit <=> f.style \in {"rle", "pack7"}
        /\ y \in 49 .. 100
    BY BinaryIs
  <1>2. y \in Byte /\ ~IsFlow(y) /\ Low(y) = y /\ n \in Byte
    <2>1. n \in Byte
      BY OpeningCount
    <2> HIDE DEF y, n
    <2> QED
      BY <1>1, <2>1 DEF Byte, IsFlow, Low, XON, XOFF
  <1>3. ZPAD \in Byte /\ ZDLE \in Byte
    BY DEF ZPAD, ZDLE, Byte
  <1>4. Pads(f) \in Seq(Byte)
    BY <1>3 DEF Pads
  <1>5. /\ f.style = "bin32" => Opening(f, p) = <<ZPAD, ZPAD, ZDLE, y>>
        /\ f.style = "moby" => Opening(f, p) = <<ZPAD, ZDLE, y>>
        /\ f.style \in SevenBit => Opening(f, p) = <<ZPAD, ZDLE, y, n>>
    BY <1>1 DEF Opening
  <1> HIDE DEF y, n
  <1>6. /\ (<<ZPAD, ZPAD>> \o <<ZDLE>>) \o <<y>> = <<ZPAD, ZPAD, ZDLE, y>>
        /\ (<<ZPAD>> \o <<ZDLE>>) \o <<y>> = <<ZPAD, ZDLE, y>>
        /\ ((<<ZPAD>> \o <<ZDLE>>) \o <<y>>) \o <<n>> = <<ZPAD, ZDLE, y, n>>
        /\ <<ZPAD, ZPAD, ZDLE, y>> \in Seq(Byte) /\ <<ZPAD, ZDLE, y>> \in Seq(Byte)
        /\ <<ZPAD, ZDLE, y, n>> \in Seq(Byte)
    <2>1. Joins(ZPAD, ZPAD, ZDLE, y) /\ Joins(ZPAD, ZDLE, y, n)
      BY <1>2, <1>3, FourJoined
    <2> QED
      BY <2>1 DEF Joins
  <1>7. Opening(f, p) = IF f.style \in SevenBit THEN ((Pads(f) \o <<ZDLE>>) \o <<y>>) \o <<n>>
                        ELSE (Pads(f) \o <<ZDLE>>) \o <<y>>
    BY <1>1, <1>5, <1>6 DEF Pads
  <1>8. Opening(f, p) \in Seq(Byte) /\ Opening(f, p) # << >>
    <2>1. Opening(f, p) \in Seq(Byte)
      BY <1>1, <1>5, <1>6
    <2>2. Opening(f, p) # << >>
      BY <1>1, <1>5
    <2> QED
      BY <2>1, <2>2
  <1> QED
    BY <1>2, <1>4, <1>7, <1>8 DEF y, n

LEMMA OpeningTaken ==
  ASSUME NEW f \in Binaries, NEW line, Carries(line, f), NEW p \in Headers,
         NEW r \in Good, r.cancel \in 0 .. 4, r.ctl => f.ctl
  PROVE  Told(f, Taken("header", line, HeaderStart(r), Opening(f, p)), p, Begins(f, p), << >>, << >>)
  <1> DEFINE h == HeaderStart(r)  y == Styled(f, p)  n == 33 + Len(p)
             a == Pads(f) \o <<ZDLE>>  s == Taken("header", line, h, a)
             b == a \o <<y>>  t == Taken("header", line, h, b)
             place == IF y = ZBIN32 THEN "header" ELSE "count"
  <1>1. line \in Lines
    BY DEF Carries
  <1>2. h \in Reading("header")
    BY StartSought DEF Sought
  <1>3. /\ Pads(f) \in Seq(Byte) /\ y \in Byte /\ ~IsFlow(y) /\ Low(y) = y
        /\ Opening(f, p) = IF f.style \in SevenBit THEN b \o <<n>> ELSE b
    BY OpeningIs
  <1>4. ZDLE \in Byte
    BY DEF ZDLE, Byte
  <1>5. a \in Seq(Byte) /\ b \in Seq(Byte) /\ <<y>> \in Seq(Byte)
    BY <1>3, <1>4
  <1>6. Sought(s, "style", r.ctl)
    <2>1. Pads(f) = <<ZPAD>> \/ Pads(f) = <<ZPAD, ZPAD>>
      BY DEF Pads
    <2> QED
      BY <1>1, <2>1, PadsSought
  <1>7. t = Taken("header", line, s, <<y>>)
    BY <1>1, <1>2, <1>5, TakenJoined
  <1> HIDE DEF s, t, b
  <1>8. Told(f, t, p, place, << >>, << >>)
    <2>1. s \in Reading("header") /\ s.event = "none"
      BY <1>6 DEF Sought, Seeking
    <2>2. PICK d \in Byte : Low(d) = y /\ t = rx_header(s, d)
      BY <1>1, <1>3, <1>7, <2>1, RawTaken
    <2> QED
      BY <1>6, <2>2, StyleOpens
  <1>9. CASE f.style \in SevenBit
    <2>1. place = "count" /\ Begins(f, p) = "header"
      <3>1. y # ZBIN32 /\ f.style # "bin32" /\ f.style # "moby"
        BY <1>9, BinaryIs
      <3> QED
        BY <3>1 DEF Begins
    <2>2. t \in Reading("header") /\ t.event = "none" /\ Told(f, t, p, "count", << >>, << >>)
      BY <1>8, <2>1 DEF Told
    <2>3. n \in Byte /\ ~IsFlow(n) /\ Low(n) = n
      BY OpeningCount
    <2> HIDE DEF n
    <2> DEFINE u == Taken("header", line, t, <<n>>)
    <2>4. PICK d \in Byte : Low(d) = n /\ u = rx_header(t, d)
      BY <1>1, <2>2, <2>3, RawTaken
    <2>5. Told(f, u, p, "header", << >>, << >>)
      BY <1>9, <2>2, <2>4, CountOpens DEF n
    <2>6. Taken("header", line, h, b \o <<n>>) = u
      <3>1. <<n>> \in Seq(Byte)
        BY <2>3
      <3>2. Taken("header", line, h, b \o <<n>>) = Taken("header", line, Taken("header", line, h, b), <<n>>)
        BY <1>1, <1>2, <1>5, <3>1, TakenJoined
      <3> QED
        BY <3>2 DEF t
    <2> QED
      BY <1>3, <1>9, <2>1, <2>5, <2>6 DEF n
  <1>10. CASE f.style \notin SevenBit
    <2>1. place = Begins(f, p)
      <3>1. /\ y = ZBIN32 <=> f.style = "bin32" /\ Len(p) = HDRLEN
            /\ f.style = "bin32" \/ f.style = "moby"
        BY <1>10, BinaryIs
      <3> QED
        BY <3>1 DEF Begins
    <2> QED
      BY <1>3, <1>8, <1>10, <2>1 DEF t
  <1> QED
    BY <1>9, <1>10

\* tx_header in one way for all of these styles.
Body(f, p) == (Lead(f, p) \o p) \o HeaderCheck(f, p)

LEMMA BufferMany ==
  ASSUME NEW f \in Formats, NEW s \in Emitted, NEW b \in Seq(Byte)
  PROVE  buffer_all(f, s, b) \in Emitted
  <1>1. 0 \in Byte
    BY DEF Byte
  <1> QED
    BY <1>1, BufferMore

LEMMA HeaderCoded ==
  ASSUME NEW f \in Binaries, NEW p \in Headers, NEW w \in Emitted,
         f.style \in SevenBit => OmenWire(f, Body(f, p)) \in Seq(Byte)
  PROVE  /\ tx_header(f, w, p).wire = Coded(f, raw(w, Opening(f, p)), Body(f, p)).wire
         /\ tx_header(f, w, p) \in Emitted
  <1> DEFINE begun == raw(w, Opening(f, p))
  <1>1. /\ f.style \in {"bin32", "moby", "rle", "pack7"}
        /\ f.style \in SevenBit <=> f.style \in {"rle", "pack7"}
        /\ p \in Seq(Byte) /\ f \in Formats
    BY BinaryIs
  <1>5. buffer_all(f, begun, Body(f, p)) \in Emitted
    <2>1. Opening(f, p) \in Seq(Byte)
      BY OpeningIs
    <2>2. begun \in Emitted
      BY <2>1, RawAll
    <2>3. Lead(f, p) \in Seq(Byte)
      <3> DEFINE n == Len(p) - 1
      <3>1. n \in Byte
        BY BinaryIs DEF Byte
      <3> HIDE DEF n
      <3>2. <<n>> \in Seq(Byte) /\ << >> \in Seq(Byte)
        BY <3>1
      <3> QED
        BY <3>2 DEF Lead, n
    <2>4. Lead(f, p) \o p \in Seq(Byte) /\ HeaderCheck(f, p) \in Seq(Byte)
      BY <1>1, <2>3, HeaderCheckIs
    <2>5. Body(f, p) \in Seq(Byte)
      BY <2>4 DEF Body
    <2> QED
      BY <1>1, <2>2, <2>5, BufferMany
  <1>2. CASE f.style = "bin32"
    <2>1. Opening(f, p) = <<ZPAD, ZPAD, ZDLE, IF Len(p) = HDRLEN THEN ZBIN32 ELSE ZVBIN32>>
      BY <1>1, <1>2 DEF Opening, Styled
    <2>2. Lead(f, p) = IF Len(p) = HDRLEN THEN << >> ELSE <<Len(p) - 1>>
      BY <1>2 DEF Lead, Begins
    <2>3. HeaderCheck(f, p) = Crc32(p)
      BY <1>2 DEF HeaderCheck
    <2>4. tx_header(f, w, p) = buffer_all(f, begun, Body(f, p))
      BY <1>1, <1>2, <2>1, <2>2, <2>3 DEF tx_header, tx_bin32_header, Body
    <2> QED
      BY <1>1, <1>2, <1>5, <2>4 DEF Coded
  <1>3. CASE f.style = "moby"
    <2>1. Opening(f, p) = <<ZPAD, ZDLE, ZBINM32>>
      BY <1>1, <1>3 DEF Opening, Styled
    <2>2. Lead(f, p) = <<Len(p) - 1>>
      BY <1>3 DEF Lead, Begins
    <2>3. HeaderCheck(f, p) = OmenCrc(p)
      BY <1>3 DEF HeaderCheck
    <2>4. tx_header(f, w, p) = buffer_all(f, begun, Body(f, p))
      BY <1>1, <1>3, <2>1, <2>2, <2>3 DEF tx_header, tx_mobyturbo_header, Body
    <2> QED
      BY <1>1, <1>3, <1>5, <2>4 DEF Coded
  <1>4. CASE f.style \in SevenBit
    <2> DEFINE o == Opening(f, p)  e == OmenWire(f, Body(f, p))
    <2>1. o = <<ZPAD, ZDLE, IF f.style = "pack7" THEN ZBINP7 ELSE ZBINR32ESC8, 33 + Len(p)>>
      <3>1. Styled(f, p) = IF f.style = "pack7" THEN ZBINP7 ELSE ZBINR32ESC8
        BY <1>1, <1>4 DEF Styled
      <3> QED
        BY <1>1, <1>4, <3>1 DEF Opening
    <2>2. Body(f, p) = p \o OmenCrc(p)
      <3>1. Lead(f, p) = << >> /\ HeaderCheck(f, p) = OmenCrc(p)
        BY <1>1, <1>4 DEF Lead, Begins, HeaderCheck
      <3>2. << >> \o p = p
        BY <1>1, NothingJoined
      <3> QED
        BY <3>1, <3>2 DEF Body
    <2>3. tx_header(f, w, p) = raw(w, o \o e)
      <3>1. tx_header(f, w, p) = tx_omen_header(f, w, p)
        BY <1>1, <1>4 DEF tx_header
      <3> QED
        BY <2>1, <2>2, <3>1 DEF tx_omen_header
    <2>4. o \in Seq(Byte) /\ e \in Seq(Byte)
      BY <1>4, OpeningIs
    <2> HIDE DEF o, e
    <2>5. tx_header(f, w, p).wire = w.wire \o (o \o e) /\ tx_header(f, w, p) \in Emitted
      <3>1. o \o e \in Seq(Byte)
        BY <2>4
      <3> QED
        BY <2>3, <3>1, RawAll
    <2>6. raw(raw(w, o), e).wire = (w.wire \o o) \o e
      BY <2>4, RawAll
    <2>7. (w.wire \o o) \o e = w.wire \o (o \o e)
      BY <2>4, WireGrows
    <2> QED
      BY <1>4, <2>5, <2>6, <2>7 DEF Coded, o, e
  <1> QED
    BY <1>1, <1>2, <1>3, <1>4

\* rx_data begins with nothing read.
LEMMA StartsEmpty ==
  ASSUME NEW f, NEW r \in Good, Attuned(f, r), r.cancel \in 0 .. 3
  PROVE  Filled(f, DataStart(r), << >>) /\ RunsEmpty(f, DataStart(r))
  <1> DEFINE s == DataStart(r)
  <1>1. s \in Good /\ DOMAIN r = Fields
    BY DataStartGood, GoodIs
  <1>2. /\ s.at = "data" /\ s.mode = "plain" /\ s.high = FALSE /\ s.out = << >> /\ s.over = FALSE
        /\ s.crc = << >> /\ s.event = "none" /\ s.cancel = r.cancel /\ s.encoded = r.encoded
        /\ s.escape8 = r.escape8 /\ s.moby = r.moby /\ s.is32 = r.is32 /\ s.ctl = r.ctl
        /\ s.rle = "normal" /\ s.sum = Crc32Start
    BY <1>1 DEF DataStart, Fields
  <1>3. Receives(s)
    BY DataStartReceives
  <1> HIDE DEF s
  <1>4. Attuned(f, s)
    BY <1>2 DEF Attuned
  <1>5. s \in Reading("data")
    BY <1>1, <1>2, <1>3 DEF Reading
  <1>6. Filled(f, s, << >>)
    BY <1>2, <1>4, <1>5 DEF Filled, Poised, Suits
  <1>7. RunsEmpty(f, s)
    BY <1>2, <1>6, SumNone DEF Filled, RunsEmpty, Expands
  <1> QED
    BY <1>6, <1>7 DEF s

\* A subpacket that fits into the buffer, sent in any style but Pack-7 with any end over a line
\* that carries it, is what rx_data returns at the last of its bytes and no earlier: the data
\* that were given to tx_data, with that end, and never an error.  Quoting, the runs and what the
\* line makes of the bytes cancel out, whatever stands before the subpacket, and the check agrees.
\* The XON after ZCRCW stays on the line.
THEOREM SubpacketsAreRead ==
  ASSUME NEW f \in Formats, NEW line, NEW r \in Good, NEW w \in Emitted,
         NEW data \in Seq(Byte), NEW ending \in ZCRCE .. ZCRCW,
         f.style # "pack7", Carries(line, f), Attuned(f, r), r.cancel \in 0 .. 3,
         Len(data) <= Capacity
  PROVE  \E b \in Seq(Byte) :
           /\ tx_data(f, w, data, ending).wire = w.wire \o (b \o Trailing(ending))
           /\ Arrived(ReadAll("data", DataStart(r), Through(line, b)), data, ending)
  <1> DEFINE q == DataStart(r)
  <1>1. Filled(f, q, << >>) /\ RunsEmpty(f, q)
    BY StartsEmpty
  <1> HIDE DEF q
  <1>2. q \in Reading("data") /\ line \in Lines
    BY <1>1, PoisedIs DEF Filled, Carries
  <1>3. /\ DataEnded(f, w, data, ending) \in Emitted
        /\ \E b \in Seq(Byte) : Delivers(line, q, w, DataEnded(f, w, data, ending), data, ending, b)
    <2>1. CASE f.style = "rle"
      BY <1>1, <1>2, <2>1, RunsDeliver
    <2>2. CASE f.style # "rle"
      <3>1. f.style \notin SevenBit
        BY <2>2 DEF SevenBit
      <3>2. DataEnded(f, w, data, ending) = PlainData(f, w, data, ending)
        BY <2>2, <3>1 DEF DataEnded, SevenBit
      <3>3. /\ PlainData(f, w, data, ending) \in Emitted
            /\ \E b \in Seq(Byte) :
                 Delivers(line, q, w, PlainData(f, w, data, ending), data, ending, b)
        BY <1>1, <3>1, PlainDelivers
      <3> QED
        BY <3>2, <3>3
    <2> QED
      BY <2>1, <2>2
  <1>4. PICK b \in Seq(Byte) : Delivers(line, q, w, DataEnded(f, w, data, ending), data, ending, b)
    BY <1>3
  <1>5. /\ DataEnded(f, w, data, ending).wire = w.wire \o b
        /\ Arrived(Taken("data", line, q, b), data, ending)
    BY <1>4 DEF Delivers
  <1>6. DataEnded(f, w, data, ending) \in Emitted
    BY <1>3
  <1>7. tx_data(f, w, data, ending).wire = w.wire \o (b \o Trailing(ending))
    <2>1. DataEnded(f, w, data, ending).wire = w.wire \o b
      BY <1>5
    <2> QED
      BY <1>6, <2>1, DataTrails, ZenonT(60)
  <1> QED
    BY <1>5, <1>7 DEF Taken, q

LEMMA HeaderGoes ==
  ASSUME NEW f \in Formats, f.style # "hex", NEW line, Carries(line, f),
         NEW r \in Good, r.cancel \in 0 .. 4, r.ctl => f.ctl,
         NEW w \in Emitted, NEW p \in Headers
  PROVE  /\ tx_header(f, w, p) \in Emitted
         /\ \E a \in Seq(Byte) :
              /\ tx_header(f, w, p).wire = w.wire \o a
              /\ Understood(f, ReadAll("header", HeaderStart(r), Through(line, a)), p)
  <1> DEFINE o == Opening(f, p)  h == HeaderStart(r)  s == Taken("header", line, h, o)
             begun == raw(w, o)  lead == Lead(f, p)  check == HeaderCheck(f, p)
  <1>1. f \in Binaries /\ line \in Lines
    BY DEF Binaries, Carries
  <1>2. o \in Seq(Byte) /\ p \in Seq(Byte)
    BY <1>1, OpeningIs, BinaryIs
  <1>3. h \in Reading("header")
    BY StartSought DEF Sought
  <1>4. Told(f, s, p, Begins(f, p), << >>, << >>)
    BY <1>1, OpeningTaken
  <1> HIDE DEF h, s, o
  <1>5. begun \in Emitted /\ begun.wire = w.wire \o o
    BY <1>2, RawAll
  <1> HIDE DEF begun
  <1>6. Poised("header", f, s)
    BY <1>1, <1>4, BeginsPoised
  <1>7. lead \in Seq(Byte) /\ Arrives(f, line, s, begun, lead, p, "header", << >>, << >>)
    BY <1>1, <1>4, <1>5, LeadArrives
  <1> HIDE DEF lead
  <1>8. Arrives(f, line, s, begun, lead \o p, p, "check", p, << >>)
    BY <1>1, <1>5, <1>6, <1>7, HeaderArrives
  <1>9. lead \o p \in Seq(Byte)
    BY <1>2, <1>7
  <1>10. PICK q : Brings(f, line, s, begun, (lead \o p) \o check, q) /\ Understood(f, q, p)
    BY <1>1, <1>5, <1>6, <1>8, <1>9, CheckArrives
  <1>11. (lead \o p) \o check = Body(f, p)
    BY DEF Body, lead
  <1> HIDE DEF check
  <1>12. PICK a \in Seq(Byte) :
           Coded(f, begun, Body(f, p)).wire = begun.wire \o a /\ Taken("header", line, s, a) = q
    BY <1>10, <1>11 DEF Brings
  <1>13. tx_header(f, w, p) \in Emitted /\ tx_header(f, w, p).wire = Coded(f, begun, Body(f, p)).wire
    <2>1. f.style \in SevenBit => OmenWire(f, Body(f, p)) \in Seq(Byte)
      BY <1>10, <1>11 DEF Brings
    <2> QED
      BY <1>1, <2>1, HeaderCoded DEF begun, o
  <1>14. o \o a \in Seq(Byte) /\ (w.wire \o o) \o a = w.wire \o (o \o a)
    BY <1>2, WireGrows
  <1>15. Taken("header", line, h, o \o a) = q
    <2>1. Taken("header", line, h, o \o a) = Taken("header", line, Taken("header", line, h, o), a)
      BY <1>1, <1>2, <1>3, TakenJoined
    <2> QED
      BY <1>12, <2>1 DEF s
  <1>16. ReadAll("header", HeaderStart(r), Through(line, o \o a)) = q
    BY <1>15 DEF Taken, h
  <1> QED
    BY <1>5, <1>10, <1>12, <1>13, <1>14, <1>16

\* In each style but the hexadecimal one, tx_header writes after what has been sent bytes in
\* which rx_header finds that very header again, at the last byte and no earlier, over every
\* line the style is for, and after it the receiver is set up for the subpackets of that style:
\* of any header of up to sixteen parameters, whatever the receiver had set up before and
\* wherever in a header or in data it stopped.
THEOREM HeadersAreRead ==
  ASSUME NEW f \in Formats, f.style # "hex", NEW line, Carries(line, f),
         NEW r \in Good, r.cancel \in 0 .. 4, r.ctl => f.ctl,
         NEW w \in Emitted, NEW p \in Headers
  PROVE  \E a \in Seq(Byte) :
           /\ tx_header(f, w, p).wire = w.wire \o a
           /\ Understood(f, ReadAll("header", HeaderStart(r), Through(line, a)), p)
  BY HeaderGoes

\* A header and a subpacket after it, as tx_header and tx_data write them one after the other,
\* are read again by rx_header and rx_data one after the other, each to its last byte and no
\* further: in every style but the hexadecimal one and Pack-7, whatever the receiver was set up
\* for.
THEOREM FramesAreRead ==
  ASSUME NEW f \in Formats, f.style \notin {"hex", "pack7"}, NEW line, Carries(line, f),
         NEW r \in Good, r.cancel \in 0 .. 4, r.ctl => f.ctl,
         NEW w \in Emitted, NEW p \in Headers,
         NEW data \in Seq(Byte), NEW ending \in ZCRCE .. ZCRCW, Len(data) <= Capacity
  PROVE  \E a \in Seq(Byte), b \in Seq(Byte) :
           LET q == ReadAll("header", HeaderStart(r), Through(line, a))
               s == ReadAll("data", DataStart(q), Through(line, b))
           IN  /\ tx_data(f, tx_header(f, w, p), data, ending).wire
                    = w.wire \o (a \o (b \o Trailing(ending)))
               /\ Understood(f, q, p)
               /\ Arrived(s, data, ending)
  <1> DEFINE v == tx_header(f, w, p)
  <1>1. PICK a \in Seq(Byte) :
           /\ v.wire = w.wire \o a
           /\ Understood(f, ReadAll("header", HeaderStart(r), Through(line, a)), p)
    BY HeadersAreRead
  <1> DEFINE q == ReadAll("header", HeaderStart(r), Through(line, a))
  <1>2. v \in Emitted
    BY HeaderGoes
  <1> HIDE DEF v
  <1>3. q \in Good /\ Attuned(f, q) /\ q.cancel \in 0 .. 3
    <2> HIDE DEF q
    <2>1. Understood(f, q, p)
      BY <1>1 DEF q
    <2> QED
      BY <2>1 DEF Understood
  <1>4. PICK b \in Seq(Byte) :
           /\ tx_data(f, v, data, ending).wire = v.wire \o (b \o Trailing(ending))
           /\ Arrived(ReadAll("data", DataStart(q), Through(line, b)), data, ending)
    <2> HIDE DEF q
    <2> QED
      BY <1>2, <1>3, SubpacketsAreRead
  <1>5. (w.wire \o a) \o (b \o Trailing(ending)) = w.wire \o (a \o (b \o Trailing(ending)))
    <2>1. Trailing(ending) \in Seq(Byte)
      <3>1. XON \in Byte
        BY DEF XON, Byte
      <3> DEFINE x == <<XON>>  e == << >>
      <3>2. x \in Seq(Byte) /\ e \in Seq(Byte)
        BY <3>1
      <3>3. Trailing(ending) = x \/ Trailing(ending) = e
        BY DEF Trailing
      <3> QED
        BY <3>2, <3>3
    <2>2. b \o Trailing(ending) \in Seq(Byte)
      BY <2>1
    <2> QED
      BY <2>2, WireGrows
  <1>6. tx_data(f, v, data, ending).wire = w.wire \o (a \o (b \o Trailing(ending)))
    BY <1>1, <1>4, <1>5
  <1> QED
    BY <1>1, <1>4, <1>6 DEF v
=============================================================================
