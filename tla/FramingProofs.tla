---------------------------- MODULE FramingProofs ----------------------------
(***************************************************************************)
(* Proofs about Framing, for every case, whatever the options, the line, the   *)
(* data and the moment: a peer that gives up is heard, everything keeps its     *)
(* type, a reply is heard as it was sent, nothing crosses the line that must    *)
(* not, and no encoding is used that was not agreed on.                         *)
(***************************************************************************)
EXTENDS Framing, CodecProofs

Fields ==
  {"cancel", "moby", "is32", "ctl", "encoded", "escape8", "at", "style", "want", "nibble",
   "header", "crc", "probe", "passed", "mode", "high", "rle", "run", "value", "digits",
   "sum", "out", "over", "ending", "event"}

\* What steers the receiver, and s keeps the CANs that r has counted.
Steered(r) ==
  /\ DOMAIN r = Fields
  /\ r.moby \in BOOLEAN /\ r.encoded \in {"none", "rle", "pack7"} /\ r.digits \in 0 .. 4

\* What is known of the line: how much of the probe has been read, and whether all.
Still(s, r) == s.probe = r.probe /\ s.passed = r.passed

Keeps(s, r) ==
  Steered(s) /\ s.cancel = r.cancel /\ s.probe = r.probe /\ s.passed = r.passed

\* A search for a header begins, and with it the wait for the probe.
Anew(s, r) == Steered(s) /\ s.cancel = r.cancel /\ s.probe = 0 /\ s.passed = FALSE

\* Where rx_header may be.
AtHeader ==
  {"hunt", "pad", "pads", "style", "count", "header", "check", "cr", "lf"}

----------------------------------------------------------------------------
(* What the decoders keep.                                                 *)

LEMMA PutKeeps ==
  ASSUME NEW r, Steered(r), NEW c, NEW n
  PROVE  Keeps(Put(r, c, n), r)
  BY DEF Put, Fields, Steered, Keeps

LEMMA SummedKeeps ==
  ASSUME NEW r, Steered(r), NEW c
  PROVE  Keeps(Summed(r, c), r)
  BY DEF Summed, Fields, Steered, Keeps

LEMMA InvalidKeeps ==
  ASSUME NEW r, Steered(r)
  PROVE  Keeps(Invalid(r), r)
  BY DEF Invalid, Fields, Steered, Keeps

LEMMA CheckedKeeps ==
  ASSUME NEW r, Steered(r), NEW expected
  PROVE  Keeps(Checked(r, expected), r)
  BY DEF Checked, Invalid, Fields, Steered, Keeps

LEMMA HuntingKeeps ==
  ASSUME NEW r, Steered(r)
  PROVE  Keeps(Hunting(r), r) /\ Hunting(r).at = "hunt" /\ Hunting(r).event = r.event
  <1> DEFINE a == [r EXCEPT !.at = "hunt", !.style = 0, !.want = 0, !.nibble = -1,
                            !.header = << >>, !.crc = << >>, !.mode = "plain", !.high = FALSE]
             b == [a EXCEPT !.ending = 0, !.out = << >>, !.over = FALSE, !.rle = "normal",
                            !.run = 0, !.value = <<0, 0, 0, 0>>, !.digits = 0, !.sum = Crc32Start]
  <1>1. Hunting(r) = b
    BY DEF Hunting
  <1>2. Keeps(a, r) /\ a.at = "hunt" /\ a.event = r.event
    BY DEF Fields, Steered, Keeps
  <1> HIDE DEF a
  <1>3. 0 \in 0 .. 4
    OBVIOUS
  <1>4. Keeps(b, r) /\ b.at = "hunt" /\ b.event = r.event
    BY <1>2, <1>3 DEF Fields, Steered, Keeps
  <1> QED
    BY <1>1, <1>4

LEMMA PlainKeeps ==
  ASSUME NEW r, Steered(r), NEW symbol
  PROVE  Keeps(PlainSymbol(r, symbol), r)
  <1> DEFINE added == [r EXCEPT !.crc = Append(@, symbol)]
  <1>1. Keeps(added, r)
    BY DEF Fields, Steered, Keeps
  <1>2. Keeps([r EXCEPT !.at = "check", !.ending = symbol - 256], r)
    BY DEF Fields, Steered, Keeps
  <1> HIDE DEF added
  <1>3. \A e : Keeps(Checked(added, e), r)
    BY <1>1, CheckedKeeps DEF Keeps
  <1> QED
    BY <1>1, <1>2, <1>3, InvalidKeeps, PutKeeps DEF PlainSymbol, added

LEMMA RunKeeps ==
  ASSUME NEW r, Steered(r), NEW symbol
  PROVE  Keeps(RunSymbol(r, symbol), r)
  <1> DEFINE added == [r EXCEPT !.crc = Append(@, symbol)]
             s == Summed(r, symbol)
  <1>1. Keeps(added, r)
    BY DEF Fields, Steered, Keeps
  <1>2. Keeps(s, r)
    BY SummedKeeps
  <1> HIDE DEF added, s
  <1>3. \A e : Keeps(Checked(added, e), r)
    BY <1>1, CheckedKeeps DEF Keeps
  <1>4. Keeps([Summed(r, symbol - 256) EXCEPT !.at = "check", !.ending = symbol - 256], r)
    <2> DEFINE t == Summed(r, symbol - 256)
    <2>1. Keeps(t, r)
      BY SummedKeeps
    <2> HIDE DEF t
    <2>2. Keeps([t EXCEPT !.at = "check", !.ending = symbol - 256], r)
      BY <2>1 DEF Fields, Steered, Keeps
    <2> QED
      BY <2>2 DEF t
  <1>5. \A c, n : Keeps(Put(s, c, n), r)
    BY <1>2, PutKeeps DEF Keeps
  <1>6. \A c, n : Keeps([Put(s, c, n) EXCEPT !.rle = "normal"], r)
    <2> TAKE c, n
    <2> DEFINE t == Put(s, c, n)
    <2>1. Keeps(t, r)
      BY <1>5
    <2> HIDE DEF t
    <2>2. Keeps([t EXCEPT !.rle = "normal"], r)
      BY <2>1 DEF Fields, Steered, Keeps
    <2> QED
      BY <2>2 DEF t
  <1>7. Keeps([s EXCEPT !.rle = "count"], r)
        /\ Keeps([s EXCEPT !.rle = "value", !.run = symbol - 64], r)
    BY <1>2 DEF Fields, Steered, Keeps
  <1> QED
    BY <1>1, <1>3, <1>4, <1>5, <1>6, <1>7, InvalidKeeps DEF RunSymbol, added, s

\* A group of Pack-7 is stored byte by byte.
LEMMA GroupKeeps ==
  ASSUME NEW r, Steered(r), NEW bytes, Len(bytes) \in Nat
  PROVE  LET put(s, c) == Summed(Put(s, c, 1), c) IN Keeps(Along(put, r, bytes), r)
  <1> DEFINE put(s, c) == Summed(Put(s, c, 1), c)
             n == Len(bytes)
             Body(g, i) == IF i = 0 THEN r ELSE put(g[i - 1], bytes[i])
             Has == {m \in Nat : \E g : g = [i \in 0 .. m |-> Body(g, i)]}
  <1>1. ASSUME NEW s, Keeps(s, r), NEW c PROVE Keeps(put(s, c), r)
    <2>1. Keeps(Put(s, c, 1), s)
      BY <1>1, PutKeeps DEF Keeps
    <2>2. Keeps(Summed(Put(s, c, 1), c), Put(s, c, 1))
      BY <2>1, SummedKeeps DEF Keeps
    <2> QED
      BY <1>1, <2>1, <2>2 DEF Keeps
  <1> HIDE DEF put
  <1>2. 0 \in Has
    <2> DEFINE g == [i \in 0 .. 0 |-> r]
    <2>1. g = [i \in 0 .. 0 |-> Body(g, i)]
      OBVIOUS
    <2> QED
      BY <2>1
  <1>3. ASSUME NEW m \in Nat, m \in Has PROVE m + 1 \in Has
    <2>1. PICK g : g = [i \in 0 .. m |-> Body(g, i)]
      BY <1>3
    <2> DEFINE last == put(g[m], bytes[m + 1])
               h == [i \in 0 .. m + 1 |-> IF i = m + 1 THEN last ELSE g[i]]
    <2> HIDE DEF last
    <2>2. ASSUME NEW i \in 0 .. m + 1 PROVE h[i] = Body(h, i)
      <3>1. CASE i = m + 1
        <4>1. h[i] = last /\ i # 0 /\ h[i - 1] = g[m]
          BY <3>1
        <4> QED
          BY <3>1, <4>1 DEF last
      <3>2. CASE i # m + 1
        <4>1. h[i] = g[i] /\ i \in 0 .. m /\ (i # 0 => h[i - 1] = g[i - 1])
          BY <3>2
        <4>2. g[i] = Body(g, i)
          BY <2>1, <4>1
        <4> QED
          BY <4>1, <4>2
      <3> QED
        BY <3>1, <3>2
    <2>3. h = [i \in 0 .. m + 1 |-> Body(h, i)]
      <3>1. h = [i \in 0 .. m + 1 |-> h[i]]
        OBVIOUS
      <3> HIDE DEF h
      <3> QED
        BY <2>2, <3>1
    <2>4. \E f : f = [i \in 0 .. m + 1 |-> Body(f, i)]
      BY <2>3
    <2> QED
      BY <2>4
  <1>4. n \in Has
    <2> HIDE DEF Has
    <2> QED
      BY <1>2, <1>3, SetInduction
  <1>5. \E g : g = [i \in 0 .. n |-> Body(g, i)] /\ Along(put, r, bytes) = g[n]
    <2> DEFINE upto == CHOOSE g : g = [i \in 0 .. n |-> Body(g, i)]
    <2>1. upto = [i \in 0 .. n |-> Body(upto, i)]
      BY <1>4
    <2>2. Along(put, r, bytes) = upto[n]
      BY DEF Along
    <2> QED
      BY <2>1, <2>2
  <1>6. PICK g : g = [i \in 0 .. n |-> Body(g, i)] /\ Along(put, r, bytes) = g[n]
    BY <1>5
  <1>7. \A i \in 0 .. n : g[i] = Body(g, i)
    BY <1>6
  <1> DEFINE T == {i \in 0 .. n : Keeps(g[i], r)}
  <1>8. 0 \in T
    BY <1>7 DEF Keeps
  <1>9. \A i \in 0 .. n - 1 : i \in T => i + 1 \in T
    <2> TAKE i \in 0 .. n - 1
    <2> HAVE i \in T
    <2>1. g[i + 1] = put(g[i], bytes[i + 1])
      BY <1>7
    <2> QED
      BY <1>1, <2>1
  <1> HIDE DEF T
  <1>10. n \in T
    <2>1. \A i \in 0 .. n : i \in T
      BY <1>8, <1>9, BoundedInduction
    <2> QED
      BY <2>1
  <1>11. Keeps(g[n], r)
    BY <1>10 DEF T
  <1> HIDE DEF T, Has
  <1> QED
    BY <1>6, <1>11, Zenon DEF put

LEMMA LenSubSeq ==
  ASSUME NEW v, NEW m \in 1 .. 5
  PROVE  Len(SubSeq(v, m, 4)) \in Nat
  OBVIOUS

LEMMA Pack7GroupKeeps ==
  ASSUME NEW r, Steered(r), NEW digits \in 0 .. 5
  PROVE  Keeps(Pack7Group(r, digits), r)
  <1> DEFINE count == IF digits = 0 THEN 0 ELSE digits - 1
             bytes == SubSeq(r.value, 5 - count, 4)
             next == [r EXCEPT !.digits = 0, !.value = <<0, 0, 0, 0>>]
             put(s, c) == Summed(Put(s, c, 1), c)
             all == Along(put, next, bytes)
  <1>1. Len(bytes) \in Nat
    BY LenSubSeq
  <1>2. 0 \in 0 .. 4
    OBVIOUS
  <1>3. Keeps(next, r) /\ Keeps([next EXCEPT !.crc = bytes], r)
    BY <1>2 DEF Fields, Steered, Keeps
  <1> HIDE DEF next, bytes
  <1>4. Keeps(all, r)
    <2>1. Steered(next)
      BY <1>3 DEF Keeps
    <2>2. Keeps(all, next)
      BY <1>1, <2>1, GroupKeeps, Zenon
    <2> HIDE DEF all
    <2> QED
      BY <1>3, <2>2 DEF Keeps
  <1> HIDE DEF all
  <1>5. Keeps([all EXCEPT !.at = IF count < 4 THEN "ending" ELSE @], r)
    BY <1>4 DEF Fields, Steered, Keeps
  <1>6. \A e : Keeps(Checked([next EXCEPT !.crc = bytes], e), r)
    BY <1>3, CheckedKeeps DEF Keeps
  <1>7. Keeps(Invalid(r), r)
    BY InvalidKeeps
  <1> DEFINE result ==
        IF \E i \in 1 .. 4 - count : r.value[i] # 0 THEN Invalid(r)
        ELSE IF r.at = "check"
        THEN IF count < 4 THEN Invalid(r)
             ELSE Checked([next EXCEPT !.crc = bytes], Inverted(r.sum))
        ELSE [all EXCEPT !.at = IF count < 4 THEN "ending" ELSE @]
  <1>8. Pack7Group(r, digits) = result
    BY DEF Pack7Group, next, bytes, all
  <1>9. Keeps(result, r)
    BY <1>5, <1>6, <1>7
  <1> QED
    BY <1>8, <1>9

LEMMA Pack7Keeps ==
  ASSUME NEW r, Steered(r), NEW symbol
  PROVE  Keeps(Pack7Symbol(r, symbol), r)
  <1> DEFINE p == MulAdd88(r.value, symbol - 34)
             added == [r EXCEPT !.value = p.number, !.digits = @ + 1]
  <1> HIDE DEF p
  <1>1. r.digits # 4 => Keeps(added, r)
    <2>1. r.digits # 4 => r.digits + 1 \in 0 .. 4
      BY DEF Steered
    <2> QED
      BY <2>1 DEF Fields, Steered, Keeps
  <1>2. Keeps([added EXCEPT !.digits = 0], r)
    <2>1. 0 \in 0 .. 4
      OBVIOUS
    <2> QED
      BY <2>1 DEF Fields, Steered, Keeps
  <1> DEFINE full == [added EXCEPT !.digits = 0]
  <1> HIDE DEF full, added
  <1>3. Keeps(Pack7Group(full, 5), r)
    <2>1. Steered(full) /\ 5 \in 0 .. 5
      BY <1>2 DEF Keeps, full
    <2>2. Keeps(Pack7Group(full, 5), full)
      BY <2>1, Pack7GroupKeeps
    <2> QED
      BY <1>2, <2>2 DEF Keeps, full
  <1>4. Keeps(Pack7Group(r, r.digits), r)
    BY Pack7GroupKeeps DEF Steered
  <1>5. Keeps([Summed(r, symbol) EXCEPT !.at = "check", !.ending = symbol], r)
    <2> DEFINE t == Summed(r, symbol)
    <2>1. Keeps(t, r)
      BY SummedKeeps
    <2> HIDE DEF t
    <2>2. Keeps([t EXCEPT !.at = "check", !.ending = symbol], r)
      BY <2>1 DEF Fields, Steered, Keeps
    <2> QED
      BY <2>2 DEF t
  <1>6. Keeps(Invalid(r), r)
    BY InvalidKeeps
  <1> QED
    BY <1>1, <1>3, <1>4, <1>5, <1>6 DEF Pack7Symbol, full, added, p

\* Five CANs in a row, and nothing else, are a cancelled session.
LEMMA RawKeeps ==
  ASSUME NEW r, Steered(r), r.event = "none", r.cancel \in 0 .. 4, NEW c
  PROVE  LET s == rx_cursor_raw(r, c)
         IN  /\ Steered(s) /\ s.at = r.at /\ s.style = r.style /\ s.moby = r.moby
             /\ s.encoded = r.encoded /\ s.mode = r.mode /\ s.event \in {"none", "cancelled"}
             /\ Still(s, r)
             /\ s.event = "none" => s.cancel \in 0 .. 4
             /\ c = CAN /\ ~r.moby => s.event = "cancelled" \/ s.cancel = r.cancel + 1
  BY DEF rx_cursor_raw, Fields, Steered, Still

LEMMA DecodedKeeps ==
  ASSUME NEW r, Steered(r), r.event = "none", r.cancel \in 0 .. 4, NEW c, NEW omen
  PROVE  LET s == rx_cursor_raw(r, c)
             d == Decoded(r, c, omen)
         IN  /\ Keeps(d.r, s) /\ d.r.event = s.event /\ d.r.at = r.at /\ d.r.style = r.style
             /\ d.r.moby = r.moby /\ d.r.encoded = r.encoded
             /\ s.event = "cancelled" => d.r = s /\ d.symbol = Nothing
  <1> DEFINE s == rx_cursor_raw(r, c)
  <1>1. Steered(s) /\ s.at = r.at /\ s.style = r.style /\ s.moby = r.moby
        /\ s.encoded = r.encoded
    BY RawKeeps
  <1> HIDE DEF s
  <1>2. \A m, h : LET t == [s EXCEPT !.mode = m, !.high = h]
                  IN  Keeps(t, s) /\ t.event = s.event /\ t.at = s.at /\ t.style = s.style
                      /\ t.moby = s.moby /\ t.encoded = s.encoded
    BY <1>1 DEF Fields, Steered, Keeps
  <1>3. \A m : LET t == [s EXCEPT !.mode = m]
               IN  Keeps(t, s) /\ t.event = s.event /\ t.at = s.at /\ t.style = s.style
                   /\ t.moby = s.moby /\ t.encoded = s.encoded
    BY <1>1 DEF Fields, Steered, Keeps
  <1> DEFINE o == rx_omen_cursor(r, c)  p == rx_cursor(r, c)
             x == [s EXCEPT !.mode = o[1], !.high = o[2]]  y == [s EXCEPT !.mode = p[1]]
  <1> HIDE DEF o, p
  <1>4. Keeps(x, s) /\ x.event = s.event /\ x.at = s.at /\ x.style = s.style
        /\ x.moby = s.moby /\ x.encoded = s.encoded
    BY <1>2, Zenon
  <1>5. Keeps(y, s) /\ y.event = s.event /\ y.at = s.at /\ y.style = s.style
        /\ y.moby = s.moby /\ y.encoded = s.encoded
    BY <1>3
  <1>6. Keeps(s, s)
    BY <1>1 DEF Keeps
  <1> HIDE DEF x, y
  <1>7. \/ s.event = "cancelled" /\ Decoded(r, c, omen) = [r |-> s, symbol |-> Nothing]
        \/ s.event # "cancelled" /\ Decoded(r, c, omen) = [r |-> x, symbol |-> o[3]]
        \/ s.event # "cancelled" /\ Decoded(r, c, omen) = [r |-> y, symbol |-> p[2]]
    BY DEF Decoded, s, x, y, o, p
  <1> QED
    BY <1>1, <1>4, <1>5, <1>6, <1>7 DEF s

\* A CAN is ZDLE and begins an escape, or goes on with one.
LEMMA CanIsQuote ==
  ASSUME NEW r
  PROVE  /\ rx_cursor(r, CAN)[2] = Nothing
         /\ rx_omen_cursor(r, CAN)[3] \in {Nothing, Wrong}
  <1>1. ~High(CAN) /\ CAN = ZDLE /\ Low(CAN) = CAN /\ CAN # SO
    BY DEF High, CAN, ZDLE, Low, SO
  <1>2. rx_needs_slow_path(r, CAN)
    BY <1>1 DEF rx_needs_slow_path
  <1>3. rx_cursor(r, CAN)[2] = Nothing
    BY <1>1, <1>2 DEF rx_cursor
  <1>4. ~IsEnding(CAN) /\ CAN # ZRUB0 /\ ~IsQuoted(CAN) /\ ~(CAN >= ZRUB0) /\ ~IsFlow(CAN)
    BY <1>1 DEF IsEnding, CAN, ZRUB0, IsQuoted, ZCRCE, ZCRCW, IsFlow, XON, XOFF
  <1> DEFINE private == {x \in OmenCodes : x[2] = CAN /\ CAN >= ZRUB0}
  <1>5. private = {}
    BY <1>4
  <1> HIDE DEF private
  <1>6. r.mode = "escaped" => rx_omen_cursor(r, CAN)[3] = Wrong
    BY <1>1, <1>4, <1>5 DEF rx_omen_cursor, private
  <1>7. r.mode # "escaped" => rx_omen_cursor(r, CAN)[3] = Nothing
    BY <1>1, <1>4, <1>5 DEF rx_omen_cursor, private
  <1> QED
    BY <1>3, <1>6, <1>7

Alive(r) == Steered(r) /\ r.event = "none" /\ r.cancel \in 0 .. 4

\* What a byte makes of a live receiver: it is alive, or something has ended.
LEMMA DataRead ==
  ASSUME NEW r, Alive(r), NEW c
  PROVE  LET s == rx_data(r, c)
         IN  /\ Steered(s) /\ (s.event = "cancelled" \/ s.cancel \in 0 .. 4)
             /\ Still(s, r)
             /\ c = CAN /\ ~r.moby /\ r.encoded = "none" =>
                  \/ s.event = "cancelled"
                  \/ s.event = "none" /\ s.cancel = r.cancel + 1 /\ ~s.moby
                     /\ s.encoded = "none"
  <1> DEFINE q == rx_cursor_raw(r, c)
             omen == r.encoded = "pack7" \/ (r.encoded = "rle" /\ r.escape8 = "omen")
             d == Decoded(r, c, omen)
             s == rx_data(r, c)
  <1>1. /\ Steered(q) /\ q.moby = r.moby /\ q.event \in {"none", "cancelled"}
        /\ Still(q, r)
        /\ q.event = "none" => q.cancel \in 0 .. 4
        /\ c = CAN /\ ~r.moby => q.event = "cancelled" \/ q.cancel = r.cancel + 1
    BY RawKeeps DEF Alive
  <1>2. /\ Keeps(d.r, q) /\ d.r.event = q.event /\ d.r.moby = r.moby
        /\ d.r.encoded = r.encoded
        /\ q.event = "cancelled" => d.r = q /\ d.symbol = Nothing
    BY DecodedKeeps DEF Alive
  <1>3. c = CAN /\ ~omen => d.symbol = Nothing
    BY CanIsQuote DEF Decoded
  <1> DEFINE e == d.r
  <1>4. \/ d.symbol = Nothing /\ s = e
        \/ d.symbol # Nothing /\ s = Invalid(e)
        \/ d.symbol # Nothing /\ r.encoded = "none" /\ s = PlainSymbol(e, d.symbol)
        \/ d.symbol # Nothing /\ r.encoded = "rle" /\ s = RunSymbol(e, d.symbol)
        \/ d.symbol # Nothing /\ r.encoded = "pack7" /\ s = Pack7Symbol(e, d.symbol)
    <2>1. r.encoded \in {"none", "rle", "pack7"}
      BY DEF Alive, Steered
    <2>2. s = CASE d.symbol = Nothing -> d.r
                [] d.symbol = Wrong -> Invalid(d.r)
                [] OTHER -> CASE r.encoded = "none" -> PlainSymbol(d.r, d.symbol)
                              [] r.encoded = "rle" -> RunSymbol(d.r, d.symbol)
                              [] r.encoded = "pack7" -> Pack7Symbol(d.r, d.symbol)
      BY DEF rx_data
    <2>3. Nothing # Wrong
      BY DEF Nothing, Wrong
    <2> HIDE DEF d, s
    <2> QED
      BY <2>1, <2>2, <2>3
  <1> HIDE DEF q, d, s
  <1>5. Steered(e)
    BY <1>2 DEF Keeps
  <1>6. Keeps(e, e)
    BY <1>5 DEF Keeps
  <1> HIDE DEF e
  <1>7. Keeps(s, e)
    <2>1. \A y : Keeps(PlainSymbol(e, y), e) /\ Keeps(RunSymbol(e, y), e)
                /\ Keeps(Pack7Symbol(e, y), e)
      BY <1>5, PlainKeeps, RunKeeps, Pack7Keeps
    <2>2. Keeps(Invalid(e), e)
      BY <1>5, InvalidKeeps
    <2> QED
      BY <1>4, <1>6, <2>1, <2>2
  <1>8. Steered(s) /\ (s.event = "cancelled" \/ s.cancel \in 0 .. 4) /\ Still(s, r)
    BY <1>1, <1>2, <1>4, <1>7 DEF Keeps, Still, e
  <1>9. c = CAN /\ ~r.moby /\ r.encoded = "none" =>
          s = e /\ (s.event = "cancelled" \/ (s.event = "none" /\ s.cancel = r.cancel + 1))
    BY <1>1, <1>2, <1>3, <1>4 DEF Keeps, e
  <1> QED
    BY <1>2, <1>8, <1>9 DEF s, e

----------------------------------------------------------------------------
(* The scan for headers.                                                   *)

Scans(s, r) == Keeps(s, r) /\ s.at \in AtHeader

LEMMA HuntingScans ==
  ASSUME NEW r, Steered(r)
  PROVE  Scans(Hunting(r), r) /\ Hunting(r).event = r.event
  BY HuntingKeeps DEF Scans, AtHeader

\* Between headers a byte may count for the probe of the line.
LEMMA ProbedSteers ==
  ASSUME NEW r, Steered(r), NEW c
  PROVE  LET p == Probed(r, c)
         IN  Steered(p) /\ p.cancel = r.cancel /\ p.event = r.event /\ p.moby = r.moby
  BY DEF Probed, Fields, Steered

LEMMA ScannedScans ==
  ASSUME NEW r, Steered(r), NEW c
  PROVE  /\ Scans(Scanned(r, c), r) \/ Scans(Scanned(r, c), Probed(r, c))
         /\ Scanned(r, c).event = r.event /\ Scanned(r, c).moby = r.moby
  <1> DEFINE p == Probed(r, c)
  <1>1. Steered(p) /\ p.event = r.event /\ p.moby = r.moby
    BY ProbedSteers
  <1> HIDE DEF p
  <1>2. \A x : LET t == [p EXCEPT !.at = x]
               IN  Keeps(t, p) /\ t.event = r.event /\ t.moby = r.moby /\ t.at = x
    BY <1>1 DEF Fields, Steered, Keeps
  <1>3. \A x : LET t == [r EXCEPT !.at = x]
               IN  Keeps(t, r) /\ t.event = r.event /\ t.moby = r.moby /\ t.at = x
    BY DEF Fields, Steered, Keeps
  <1>4. {"hunt", "pad", "pads", "style"} \subseteq AtHeader
    BY DEF AtHeader
  <1>5. \/ \E x \in {"hunt", "pad"} : Scanned(r, c) = [p EXCEPT !.at = x]
        \/ \E x \in {"hunt", "pad", "pads", "style"} : Scanned(r, c) = [r EXCEPT !.at = x]
    BY DEF Scanned, p
  <1> QED
    BY <1>2, <1>3, <1>4, <1>5, ZenonT(60) DEF Scans, p

LEMMA AcceptedScans ==
  ASSUME NEW r, Steered(r), r.at \in AtHeader
  PROVE  Scans(Accepted(r), r)
  BY DEF Accepted, Scans, Fields, Steered, Keeps

LEMMA StyleScans ==
  ASSUME NEW r, Steered(r), NEW style
  PROVE  Scans(Style(r, style), r)
  <1> DEFINE read == [r EXCEPT !.style = style, !.want = HDRLEN, !.moby = style = ZBINM32]
             next == [read EXCEPT !.at = IF style \in Omen \cup Variable \cup {ZBINM32}
                                         THEN "count" ELSE "header"]
             e == IF style \in {ZBINR32, ZVBINR32} THEN "rle" ELSE "none"
             x == [next EXCEPT !.is32 = style \in {ZBIN32, ZBINR32, ZVBIN32, ZVBINR32},
                               !.encoded = e]
  <1>1. (style = ZBINM32) \in BOOLEAN
    OBVIOUS
  <1>2. Keeps(read, r)
    BY <1>1 DEF Fields, Steered, Keeps
  <1> HIDE DEF read
  <1>3. Keeps(next, r) /\ next.at \in {"count", "header"}
    BY <1>2 DEF Fields, Steered, Keeps
  <1> HIDE DEF next
  <1>4. e \in {"none", "rle"}
    OBVIOUS
  <1> HIDE DEF e
  <1>5. Keeps(x, r) /\ x.at \in {"count", "header"}
    BY <1>3, <1>4 DEF Fields, Steered, Keeps
  <1> HIDE DEF x
  <1>6. Style(r, style) \in {Hunting(r), next, x}
    BY DEF Style, x, e, next, read
  <1> QED
    BY <1>3, <1>5, <1>6, HuntingScans DEF Scans, AtHeader

LEMMA CountedScans ==
  ASSUME NEW r, Steered(r), NEW n
  PROVE  Scans(Counted(r, n), r)
  <1>1. Scans([r EXCEPT !.want = n + 1, !.at = "header"], r)
    BY DEF Scans, AtHeader, Fields, Steered, Keeps
  <1> QED
    BY <1>1, HuntingScans DEF Counted

LEMMA TerminatedScans ==
  ASSUME NEW r, Steered(r), r.at \in AtHeader, NEW c
  PROVE  /\ Scans(Terminated(r, c), r)
         /\ c = CAN => Terminated(r, c).event = r.event /\ Terminated(r, c).moby = r.moby
  <1>1. Scans(r, r) /\ Scans([r EXCEPT !.at = "lf"], r)
    BY DEF Scans, AtHeader, Fields, Steered, Keeps
  <1>2. ~IsFlow(CAN) /\ Low(CAN) # CR /\ Low(CAN) # LF
    BY DEF CAN, IsFlow, Low, CR, LF, XON, XOFF
  <1>3. c = CAN => Terminated(r, c) = Hunting(r)
    BY <1>2 DEF Terminated
  <1>4. Hunting(r).moby = r.moby /\ Hunting(r).event = r.event
    BY DEF Hunting, Steered, Fields
  <1> QED
    BY <1>1, <1>3, <1>4, HuntingScans, AcceptedScans DEF Terminated

LEMMA ByteScans ==
  ASSUME NEW r, Steered(r), r.at \in {"count", "header", "check"}, NEW byte
  PROVE  Scans(HeaderByte(r, byte), r)
  <1> DEFINE header == Append(r.header, byte)
             crc == Append(r.crc, byte)
             a == [r EXCEPT !.header = header,
                            !.at = IF Len(header) = r.want THEN "check" ELSE @]
             b == [r EXCEPT !.crc = crc]
             e == [r EXCEPT !.at = "cr"]
  <1>1. Scans(a, r) /\ Scans(b, r) /\ Scans(e, r)
    BY DEF Scans, AtHeader, Fields, Steered, Keeps
  <1>2. Scans(Hunting(r), r) /\ Scans(Accepted(r), r) /\ Scans(Counted(r, byte), r)
    BY HuntingScans, AcceptedScans, CountedScans DEF AtHeader
  <1>3. HeaderByte(r, byte) \in {a, b, e, Hunting(r), Accepted(r), Counted(r, byte)}
    <2> DEFINE hex == r.style \in {ZHEX, ZVHEX}
               width == IF hex \/ r.style \in {ZBIN, ZVBIN} THEN 2 ELSE 4
               x == IF Len(crc) < width THEN b
                    ELSE IF crc # Checksum(r) THEN Hunting(r)
                    ELSE IF hex THEN e ELSE Accepted(r)
    <2>1. HeaderByte(r, byte) = CASE r.at = "count" -> Counted(r, byte)
                                  [] r.at = "header" -> a
                                  [] r.at = "check" -> x
      BY DEF HeaderByte
    <2>2. x \in {b, e, Hunting(r), Accepted(r)}
      OBVIOUS
    <2> HIDE DEF x, a, b, e
    <2> QED
      BY <2>1, <2>2
  <1> HIDE DEF a, b, e
  <1> QED
    BY <1>1, <1>2, <1>3

LEMMA HexScans ==
  ASSUME NEW r, Steered(r), r.at \in {"count", "header", "check"}, NEW symbol
  PROVE  Scans(rx_hex(r, symbol), r)
  <1> DEFINE digit == {d[2] : d \in {x \in Digits : x[1] = Low(symbol)}}
             n == CHOOSE m \in digit : TRUE
             a == [r EXCEPT !.nibble = n]
             b == [r EXCEPT !.nibble = -1]
  <1> HIDE DEF n
  <1>1. Keeps(a, r) /\ Keeps(b, r) /\ a.at = r.at /\ b.at = r.at
    BY DEF Fields, Steered, Keeps
  <1>2. Scans(a, r)
    BY <1>1 DEF Scans, AtHeader
  <1> HIDE DEF a, b
  <1>3. Steered(b) /\ b.at \in {"count", "header", "check"}
    BY <1>1 DEF Keeps
  <1>4. Scans(HeaderByte(b, 16 * r.nibble + n), r)
    <2>1. Scans(HeaderByte(b, 16 * r.nibble + n), b)
      BY <1>3, ByteScans
    <2> QED
      BY <1>1, <2>1 DEF Scans, Keeps
  <1>5. rx_hex(r, symbol) \in {Hunting(r), a, HeaderByte(b, 16 * r.nibble + n)}
    BY DEF rx_hex, a, b, n
  <1> QED
    BY <1>2, <1>4, <1>5, HuntingScans

LEMMA HeaderRead ==
  ASSUME NEW r, Alive(r), r.at \in AtHeader, NEW c
  PROVE  LET s == rx_header(r, c)
         IN  /\ Steered(s) /\ (s.event = "cancelled" \/ s.cancel \in 0 .. 4)
             /\ s.at \in AtHeader
             /\ Still(s, r) \/ Still(s, Probed(r, c))
             /\ c = CAN /\ ~r.moby =>
                  \/ s.event = "cancelled"
                  \/ s.event = "none" /\ s.cancel = r.cancel + 1 /\ ~s.moby
  <1> DEFINE q == rx_cursor_raw(r, c)
             omen == r.style \in Omen
             d == Decoded(r, c, omen)
             s == rx_header(r, c)
  <1>1. /\ Steered(q) /\ q.moby = r.moby /\ q.event \in {"none", "cancelled"}
        /\ Still(q, r)
        /\ q.event = "none" => q.cancel \in 0 .. 4
        /\ q.at = r.at /\ q.style = r.style
        /\ c = CAN /\ ~r.moby => q.event = "cancelled" \/ q.cancel = r.cancel + 1
    BY RawKeeps DEF Alive
  <1>2. /\ Keeps(d.r, q) /\ d.r.event = q.event /\ d.r.moby = r.moby
        /\ d.r.at = r.at /\ d.r.style = r.style
    BY DecodedKeeps DEF Alive
  <1>3. c = CAN /\ q.event # "cancelled" => d.symbol \in {Nothing, Wrong}
    BY CanIsQuote DEF Decoded
  <1> DEFINE e == d.r
  <1>4. Scans(q, q)
    BY <1>1 DEF Scans, Keeps
  <1>5. Keeps(e, q) /\ Scans(e, q)
    BY <1>1, <1>2 DEF Scans
  <1> HIDE DEF q, d, s
  <1>6. Steered(e) /\ e.at \in AtHeader /\ Steered(q) /\ q.at \in AtHeader
    BY <1>4, <1>5 DEF Keeps, Scans
  <1> HIDE DEF e
  <1> DEFINE Middle == {"count", "header", "check"}
             y == Low(c) - 34
  <1>7. \A t : Scans(t, e) => Scans(t, q)
    BY <1>5 DEF Scans, Keeps
  <1> DEFINE p == Probed(q, c)
  <1>8. /\ Scans(Scanned(q, c), q) \/ Scans(Scanned(q, c), p)
        /\ Scans(Terminated(q, c), q) /\ Scans(Counted(q, y), q)
    BY <1>6, ScannedScans, TerminatedScans, CountedScans
  <1>9. \A x : Scans(Style(e, x), q)
    BY <1>6, <1>7, StyleScans
  <1>10. Scans(Hunting(e), q)
    BY <1>6, <1>7, HuntingScans
  <1>11. e.at \in Middle => Scans(rx_hex(e, d.symbol), q) /\ Scans(HeaderByte(e, d.symbol), q)
    BY <1>6, <1>7, HexScans, ByteScans
  <1>12. Scans(OmenCount(q, c), q)
    BY <1>4, <1>8 DEF OmenCount
  <1>13. r.at \in Middle => Scans(HeaderSymbol(e, d.symbol), q)
    <2>1. e.at = r.at
      BY <1>2 DEF e
    <2> HIDE DEF Middle
    <2> QED
      BY <1>5, <1>10, <1>11, <2>1 DEF HeaderSymbol
  <1> DEFINE Steps ==
        \/ r.at \in {"hunt", "pad", "pads"} /\ s = Scanned(q, c)
        \/ r.at \in {"cr", "lf"} /\ s = Terminated(q, c)
        \/ r.at = "style" /\ d.symbol = Nothing /\ s = e
        \/ r.at = "style" /\ d.symbol # Nothing /\ s = Style(e, d.symbol % 128)
        \/ r.at = "count" /\ s = OmenCount(q, c)
        \/ r.at \in Middle /\ s = HeaderSymbol(e, d.symbol)
  <1>14. \/ q.event = "cancelled" /\ s = q
         \/ q.event # "cancelled" /\ Steps
    <2> DEFINE t1 == Scanned(q, c)  t2 == Terminated(q, c)
               t3 == IF d.symbol = Nothing THEN e ELSE Style(e, d.symbol % 128)
               t4 == OmenCount(q, c)  t5 == HeaderSymbol(e, d.symbol)
    <2>1. s = CASE q.event = "cancelled" -> q
                [] q.event # "cancelled" /\ r.at \in {"hunt", "pad", "pads"} -> t1
                [] q.event # "cancelled" /\ r.at \in {"cr", "lf"} -> t2
                [] q.event # "cancelled" /\ r.at = "style" -> t3
                [] q.event # "cancelled" /\ (r.at = "count" /\ r.style \in Omen) -> t4
                [] OTHER -> t5
      BY DEF rx_header, s, q, d, e
    <2>2. r.at \in {"hunt", "pad", "pads"} \/ r.at \in {"cr", "lf"} \/ r.at = "style"
          \/ r.at \in Middle
      BY DEF AtHeader
    <2> HIDE DEF t1, t2, t3, t4, t5
    <2> DEFINE Some == \/ r.at \in {"hunt", "pad", "pads"} /\ s = t1
                       \/ r.at \in {"cr", "lf"} /\ s = t2
                       \/ r.at = "style" /\ s = t3
                       \/ r.at = "count" /\ s = t4
                       \/ r.at \in Middle /\ s = t5
    <2>3. q.event = "cancelled" => s = q
      BY <2>1
    <2>4. q.event # "cancelled" => Some
      <3>1. SUFFICES ASSUME q.event # "cancelled" PROVE Some
        OBVIOUS
      <3>2. CASE r.at \in {"hunt", "pad", "pads"}
        BY <2>1, <3>1, <3>2
      <3>3. CASE r.at \in {"cr", "lf"}
        BY <2>1, <3>1, <3>3
      <3>4. CASE r.at = "style"
        BY <2>1, <3>1, <3>4
      <3>5. CASE r.at \in Middle
        BY <2>1, <3>1, <3>5
      <3> QED
        BY <2>2, <3>2, <3>3, <3>4, <3>5
    <2>5. Some => Steps
      BY DEF t1, t2, t3, t4, t5
    <2> QED
      BY <2>3, <2>4, <2>5
  <1> HIDE DEF Middle
  <1> HIDE DEF p
  <1>15. Scans(s, q) \/ Scans(s, p)
    BY <1>4, <1>5, <1>8, <1>9, <1>12, <1>13, <1>14
  <1> DEFINE Same(t) == t.event = q.event /\ t.moby = q.moby
  <1>16. /\ Same(q) /\ Same(e) /\ Same(Scanned(q, c)) /\ Same(Hunting(e)) /\ Same(Hunting(q))
         /\ c = CAN => Same(Terminated(q, c))
    <2>1. Same(e)
      BY <1>1, <1>2 DEF e
    <2>2. \A t : Steered(t) => Hunting(t).event = t.event /\ Hunting(t).moby = t.moby
      BY DEF Hunting, Steered, Fields
    <2> QED
      BY <1>6, <2>1, <2>2, ScannedScans, TerminatedScans
  <1>17. c = CAN /\ q.event # "cancelled" => Same(s)
    <2>1. SUFFICES ASSUME c = CAN, q.event # "cancelled" PROVE Same(s)
      OBVIOUS
    <2>2. OmenCount(q, c) \in {q, Hunting(q)}
      <3>1. y = -10
        BY <2>1 DEF CAN, Low
      <3>2. Counted(q, y) = Hunting(q)
        BY <3>1 DEF Counted, HDRLEN, ZMAXHLEN
      <3> QED
        BY <3>2 DEF OmenCount
    <2>3. Style(e, Wrong % 128) = Hunting(e)
      <3>1. Wrong % 128 = 126
        <4>1. \A x \in Int : x \div 128 \in Int /\ x % 128 \in 0 .. 127
                            /\ x = 128 * (x \div 128) + (x % 128)
          OBVIOUS
        <4> DEFINE k == Wrong \div 128  m == Wrong % 128
        <4>2. Wrong = -2
          BY DEF Wrong
        <4>3. k \in Int /\ m \in 0 .. 127 /\ Wrong = 128 * k + m
          <5>1. Wrong \in Int
            BY <4>2
          <5> QED
            BY <4>1, <5>1
        <4> HIDE DEF k, m
        <4>4. m = 126
          BY <4>2, <4>3
        <4> QED
          BY <4>4 DEF m
      <3>2. 126 \notin Known
        BY DEF Known, Omen, Variable, ZBINM32, ZBIN, ZHEX, ZBIN32, ZBINR32, ZBINR32ESC8, ZBINP7,
               ZVBIN, ZVHEX, ZVBIN32, ZVBINR32
      <3> QED
        BY <3>1, <3>2 DEF Style
    <2>4. d.symbol = Nothing \/ d.symbol = Wrong
      BY <1>3, <2>1
    <2>5. HeaderSymbol(e, d.symbol) \in {e, Hunting(e)}
      BY <2>4 DEF HeaderSymbol
    <2>6. s \in {q, Scanned(q, c), Terminated(q, c), Hunting(q), e, Hunting(e)}
      BY <1>14, <2>1, <2>2, <2>3, <2>4, <2>5
    <2> HIDE DEF Same
    <2> QED
      BY <1>16, <2>1, <2>6, Zenon
  <1> QED
    <2>1. Steered(s) /\ s.cancel = q.cancel /\ s.at \in AtHeader
      BY <1>6, <1>15, ProbedSteers DEF Scans, Keeps, p
    <2>2. q.event = "cancelled" => s = q
      BY <1>14
    <2>3. Still(s, r) \/ Still(s, Probed(r, c))
      <3>1. Still(Probed(q, c), Probed(r, c))
        BY <1>1, <1>6 DEF Alive, Steered, Fields, Still, Probed
      <3> QED
        BY <1>1, <1>15, <3>1 DEF Scans, Keeps, Still, p
    <2> QED
      BY <1>1, <1>17, <2>1, <2>2, <2>3 DEF s

----------------------------------------------------------------------------
(* A peer that gives up.                                                   *)

\* A subroutine that begins leaves the count of CANs as it is.
LEMMA StartKeeps ==
  ASSUME NEW r, Steered(r)
  PROVE  /\ Anew(HeaderStart(r), r) /\ HeaderStart(r).event = "none"
         /\ HeaderStart(r).at \in AtHeader
         /\ Keeps(DataStart(r), r) /\ DataStart(r).event = "none"
         /\ Keeps(Invited(r), r)
  <1>1. /\ Anew(HeaderStart(r), r) /\ HeaderStart(r).event = "none"
        /\ HeaderStart(r).at \in AtHeader
    <2> DEFINE h == Hunting(r)
    <2>1. Keeps(h, r) /\ h.at = "hunt"
      BY HuntingKeeps
    <2> HIDE DEF h
    <2> DEFINE s == [h EXCEPT !.event = "none", !.probe = 0, !.passed = FALSE]
    <2>2. Anew(s, r) /\ s.event = "none" /\ s.at = "hunt"
      BY <2>1 DEF Fields, Steered, Keeps, Anew
    <2>3. HeaderStart(r) = s
      BY DEF HeaderStart, h
    <2> QED
      BY <2>2, <2>3 DEF AtHeader
  <1>2. Keeps(DataStart(r), r) /\ DataStart(r).event = "none"
    <2> DEFINE a == [r EXCEPT !.at = "data", !.mode = "plain", !.high = FALSE,
                              !.rle = "normal", !.run = 0, !.value = <<0, 0, 0, 0>>]
               b == [a EXCEPT !.digits = 0, !.sum = Crc32Start, !.out = << >>, !.over = FALSE,
                              !.ending = 0, !.crc = << >>, !.event = "none"]
    <2>1. DataStart(r) = b
      BY DEF DataStart
    <2>2. Keeps(a, r)
      BY DEF Fields, Steered, Keeps
    <2> HIDE DEF a
    <2>3. 0 \in 0 .. 4
      OBVIOUS
    <2>4. Keeps(b, r) /\ b.event = "none"
      BY <2>2, <2>3 DEF Fields, Steered, Keeps
    <2> QED
      BY <2>1, <2>4
  <1>3. Keeps(Invited(r), r)
    BY DEF Invited, Fields, Steered, Keeps
  <1> QED
    BY <1>1, <1>2, <1>3

LEMMA RepeatedSteps ==
  ASSUME NEW c, NEW n \in Nat
  PROVE  /\ Repeated(c, n) \in Seq({c}) /\ Len(Repeated(c, n)) = n
         /\ \A i \in 1 .. n : Repeated(c, n)[i] = c
         /\ Repeated(c, n) \o <<c>> = Repeated(c, n + 1)
         /\ Repeated(c, 1) = <<c>>
         /\ n > 0 => /\ Repeated(c, n) # << >> /\ Head(Repeated(c, n)) = c
                    /\ Tail(Repeated(c, n)) = Repeated(c, n - 1)
  <1>1. \A m \in Nat : /\ Repeated(c, m) \in Seq({c}) /\ Len(Repeated(c, m)) = m
                       /\ \A i \in 1 .. m : Repeated(c, m)[i] = c
    BY DEF Repeated
  <1>2. \A s, t \in Seq({c}) : Len(s) = Len(t) => s = t
    <2> TAKE s, t \in Seq({c})
    <2> HAVE Len(s) = Len(t)
    <2>1. \A i \in 1 .. Len(s) : s[i] = t[i]
      <3> TAKE i \in 1 .. Len(s)
      <3>1. s[i] \in {c} /\ t[i] \in {c}
        OBVIOUS
      <3> QED
        BY <3>1
    <2> QED
      BY <2>1, SeqEqual
  <1>3. Repeated(c, n) \o <<c>> = Repeated(c, n + 1)
    <2>1. <<c>> \in Seq({c}) /\ Len(<<c>>) = 1
      OBVIOUS
    <2>2. Repeated(c, n) \o <<c>> \in Seq({c}) /\ Len(Repeated(c, n) \o <<c>>) = n + 1
      BY <1>1, <2>1
    <2> QED
      BY <1>1, <1>2, <2>2
  <1>4. Repeated(c, 1) = <<c>>
    <2>1. <<c>> \in Seq({c}) /\ Len(<<c>>) = 1
      OBVIOUS
    <2> QED
      BY <1>1, <1>2, <2>1
  <1>5. ASSUME n > 0
        PROVE  /\ Repeated(c, n) # << >> /\ Head(Repeated(c, n)) = c
               /\ Tail(Repeated(c, n)) = Repeated(c, n - 1)
    <2> DEFINE s == Repeated(c, n)
    <2>1. s \in Seq({c}) /\ Len(s) = n /\ s[1] = c
      BY <1>1, <1>5
    <2> HIDE DEF s
    <2>2. s # << >> /\ Head(s) = c /\ Tail(s) \in Seq({c}) /\ Len(Tail(s)) = n - 1
      BY <1>5, <2>1
    <2>3. Tail(s) = Repeated(c, n - 1)
      BY <1>1, <1>2, <1>5, <2>2
    <2> QED
      BY <2>2, <2>3 DEF s
  <1> QED
    BY <1>1, <1>3, <1>4, <1>5

\* Five CANs cross every line that leaves the eighth bit clear.
LEMMA CansArrive ==
  ASSUME NEW line \in Lines, line # "mark"
  PROVE  Through(line, Repeated(CAN, 5)) = Repeated(CAN, 5)
  <1> DEFINE cans == Repeated(CAN, 5)
             parts == [i \in 1 .. Len(cans) |-> Passed(line, cans[i])]
             Body(f, i) == IF i = 1 THEN parts[i] ELSE f[i - 1] \o parts[i]
             flat == CHOOSE f : f = [i \in 1 .. Len(parts) |-> Body(f, i)]
  <1>1. Len(cans) = 5 /\ \A i \in 1 .. 5 : cans[i] = CAN
    BY RepeatedSteps, ZenonT(60)
  <1> DEFINE one == <<CAN>>
             through(c) == Passed(line, c)
             more(s) == s \o one
  <1>2. through(CAN) = one
    BY DEF Passed, Lines, CAN, IsFlow, Low, XON, XOFF
  <1>3. /\ Repeated(CAN, 1) = one
        /\ \A n \in Nat : more(Repeated(CAN, n)) = Repeated(CAN, n + 1)
    BY RepeatedSteps
  <1> HIDE DEF cans, one, through, more
  <1>4. parts = [i \in 1 .. Len(cans) |-> through(cans[i])]
    BY DEF through
  <1> HIDE DEF parts
  <1>5. Len(parts) = 5 /\ \A i \in 1 .. 5 : parts[i] = one
    <2>1. \A i \in 1 .. 5 : parts[i] = through(CAN)
      BY <1>1, <1>4
    <2>2. Len(parts) = 5
      BY <1>1, <1>4
    <2> QED
      BY <1>2, <2>1, <2>2
  <1>6. Through(line, cans) = flat[5]
    <2>1. Through(line, cans) = FlattenSeq(parts)
      BY DEF Through, parts
    <2> QED
      BY <1>5, <2>1 DEF FlattenSeq
  <1> DEFINE g == [i \in 1 .. 5 |-> Repeated(CAN, i)]
  <1>7. \A i \in 1 .. 5 : g[i] = Body(g, i)
    <2> TAKE i \in 1 .. 5
    <2>1. CASE i = 1
      BY <1>5, <1>3, <2>1
    <2>2. CASE i # 1
      <3>1. i - 1 \in 1 .. 5 /\ (i - 1) + 1 = i
        BY <2>2
      <3>2. more(Repeated(CAN, i - 1)) = Repeated(CAN, i)
        BY <1>3, <3>1
      <3>3. g[i - 1] = Repeated(CAN, i - 1) /\ g[i] = Repeated(CAN, i)
        BY <3>1
      <3>4. parts[i] = one
        BY <1>5
      <3> HIDE DEF g
      <3>5. Body(g, i) = more(g[i - 1])
        BY <2>2, <3>4 DEF more
      <3> HIDE DEF Body
      <3> QED
        BY <3>2, <3>3, <3>5
    <2> QED
      BY <2>1, <2>2
  <1>8. flat = [i \in 1 .. Len(parts) |-> Body(flat, i)]
    <2>1. g = [i \in 1 .. 5 |-> g[i]]
      OBVIOUS
    <2> HIDE DEF g
    <2>2. g = [i \in 1 .. Len(parts) |-> Body(g, i)]
      BY <1>5, <1>7, <2>1
    <2>3. \E f : f = [i \in 1 .. Len(parts) |-> Body(f, i)]
      BY <2>2
    <2> QED
      BY <2>3
  <1>9. \A i \in 1 .. 5 : flat[i] = IF i = 1 THEN one ELSE more(flat[i - 1])
    <2>1. \A i \in 1 .. 5 : flat[i] = Body(flat, i)
      BY <1>5, <1>8
    <2> HIDE DEF flat
    <2>2. \A i \in 1 .. 5 : Body(flat, i) = IF i = 1 THEN one ELSE more(flat[i - 1])
      BY <1>5 DEF more
    <2> QED
      BY <2>1, <2>2
  <1> HIDE DEF flat, Body
  <1>10. \A i \in 1 .. 4 : more(Repeated(CAN, i)) = Repeated(CAN, i + 1)
    BY <1>3
  <1>11. flat[1] = Repeated(CAN, 1)
    BY <1>9, <1>3
  <1>12. flat[5] = Repeated(CAN, 5)
    <2>1. flat[2] = Repeated(CAN, 2)
      <3>1. flat[2] = more(flat[1])
        BY <1>9
      <3> QED
        BY <1>10, <1>11, <3>1
    <2>2. flat[3] = Repeated(CAN, 3)
      <3>1. flat[3] = more(flat[2])
        BY <1>9
      <3> QED
        BY <1>10, <2>1, <3>1
    <2>3. flat[4] = Repeated(CAN, 4)
      <3>1. flat[4] = more(flat[3])
        BY <1>9
      <3> QED
        BY <1>10, <2>2, <3>1
    <2> QED
      <3>1. flat[5] = more(flat[4])
        BY <1>9
      <3> QED
        BY <1>10, <2>3, <3>1
  <1> QED
    BY <1>6, <1>12 DEF cans

\* The receiver counts CANs as long as it lives.
LiveInv == ~Over => Alive(rx) /\ (InHeader => rx.at \in AtHeader)

\* The counted CANs and those on the line are enough, and nothing else comes.
Dying ==
  tx.pc = "gone" /\ hit = "hit" /\ case.line # "mark" /\ ~Over =>
    /\ ~rx.moby /\ (InHeader \/ rx.encoded = "none")
    /\ \E n \in Nat : wire = Repeated(CAN, n) /\ rx.cancel + n >= 5

HeardInv ==
  /\ case \in Cases
  /\ "pc" \in DOMAIN tx /\ (tx.pc = "gone" => hit # "none")
  /\ "pc" \in DOMAIN file
  /\ file.pc \in {"session", "info", "data", "block", "again", "done", "cancelled"}
  /\ LiveInv /\ Dying

LEMMA HeardInit == Init => HeardInv
  <1> SUFFICES ASSUME Init PROVE HeardInv
    OBVIOUS
  <1>1. rx = [Started EXCEPT !.ctl = case.receive.ctl,
                             !.escape8 = IF case.receive.esc8 THEN "legacy" ELSE "none"]
    BY DEF Init
  <1>2. 0 \in 0 .. 4
    OBVIOUS
  <1>3. Alive(Started) /\ Started.at = "hunt"
    BY <1>2 DEF Started, Alive, Steered, Fields
  <1>4. Alive(rx) /\ rx.at = "hunt"
    BY <1>1, <1>3 DEF Alive, Steered, Fields
  <1>5. LiveInv
    BY <1>4 DEF LiveInv, AtHeader
  <1>6. "pc" \in DOMAIN tx /\ tx.pc = "offer"
    BY DEF Init
  <1>7. "pc" \in DOMAIN file /\ file.pc = "session" /\ case \in Cases
    BY DEF Init
  <1> QED
    BY <1>5, <1>6, <1>7 DEF HeardInv, Dying

\* A step that leaves the receiver alone, or lets it begin again, with zmtx still there.
LEMMA HeardThere ==
  ASSUME HeardInv, case' = case, "pc" \in DOMAIN tx', tx'.pc # "gone", LiveInv',
         "pc" \in DOMAIN file',
         file'.pc \in {"session", "info", "data", "block", "again", "done", "cancelled"}
  PROVE  HeardInv'
  BY DEF HeardInv, Dying

LEMMA SendKeeps ==
  ASSUME NEW sent, NEW t, "pc" \in DOMAIN t, Send(sent, t)
  PROVE  "pc" \in DOMAIN tx' /\ tx'.pc = t.pc
  BY DEF Send

LEMMA HeardRepeat == HeardInv /\ Repeat => HeardInv'
  <1> SUFFICES ASSUME HeardInv, Repeat PROVE HeardInv'
    OBVIOUS
  <1> DEFINE t == [tx EXCEPT !.tries = @ + 1]
  <1>1. \E sent : Send(sent, t)
    BY DEF Repeat
  <1>2. "pc" \in DOMAIN t /\ t.pc = tx.pc /\ tx.pc # "gone"
    BY DEF HeardInv, Repeat
  <1> HIDE DEF t
  <1>3. "pc" \in DOMAIN tx' /\ tx'.pc # "gone"
    BY <1>1, <1>2, SendKeeps
  <1>4. LiveInv' /\ case' = case /\ file' = file
    BY DEF Repeat, HeardInv, LiveInv, Over, InHeader
  <1> QED
    BY <1>3, <1>4, HeardThere DEF HeardInv

LEMMA HeardTakeReply == HeardInv /\ TakeReply => HeardInv'
  <1> SUFFICES ASSUME HeardInv, TakeReply PROVE HeardInv'
    OBVIOUS
  <1> DEFINE header == Heard(Head(replies))
  <1>1. Answer(header) /\ tx.pc # "gone"
    BY DEF TakeReply
  <1>2. "pc" \in DOMAIN tx
    BY DEF HeardInv
  <1>3. \A t, k : "pc" \in DOMAIN t /\ (SendFrom(t, k) \/ SendOne(t, k)) =>
          "pc" \in DOMAIN tx' /\ tx'.pc \in {"end", "sync"}
    <2> TAKE t, k
    <2> HAVE "pc" \in DOMAIN t /\ (SendFrom(t, k) \/ SendOne(t, k))
    <2> DEFINE a == [t EXCEPT !.pc = "end"]
               b == [t EXCEPT !.pc = "sync", !.at = k + Len(Block(k)), !.last = AtEnd(k)]
    <2>1. "pc" \in DOMAIN a /\ a.pc = "end" /\ "pc" \in DOMAIN b /\ b.pc = "sync"
      OBVIOUS
    <2>2. (\E sent : Send(sent, a)) \/ (\E sent : Send(sent, b))
      BY DEF SendFrom, SendOne
    <2> HIDE DEF a, b
    <2> QED
      BY <2>1, <2>2, SendKeeps
  <1>4. \/ \E k, p, m : SendFrom(IF tx.pc # "offer" THEN tx
                                ELSE [tx EXCEPT !.pack7 = p, !.moby = m], k)
        \/ \E k : SendOne(tx, k)
        \/ \E sent : Send(sent, tx)
        \/ \E sent : Send(sent, [tx EXCEPT !.pc = "end"])
        \/ tx' = tx
    BY <1>1 DEF Answer
  <1>5. "pc" \in DOMAIN tx' /\ tx'.pc # "gone"
    <2>1. CASE \E k, p, m : SendFrom(IF tx.pc # "offer" THEN tx
                                    ELSE [tx EXCEPT !.pack7 = p, !.moby = m], k)
      <3>1. PICK k, p, m : SendFrom(IF tx.pc # "offer" THEN tx
                                    ELSE [tx EXCEPT !.pack7 = p, !.moby = m], k)
        BY <2>1
      <3> DEFINE t == IF tx.pc # "offer" THEN tx ELSE [tx EXCEPT !.pack7 = p, !.moby = m]
      <3>2. "pc" \in DOMAIN t
        BY <1>2
      <3> HIDE DEF t
      <3> QED
        BY <1>3, <3>1, <3>2 DEF t
    <2>2. CASE \E k : SendOne(tx, k)
      BY <1>2, <1>3, <2>2
    <2>3. CASE \E sent : Send(sent, tx)
      BY <1>1, <1>2, <2>3, SendKeeps
    <2>4. CASE \E sent : Send(sent, [tx EXCEPT !.pc = "end"])
      <3> DEFINE t == [tx EXCEPT !.pc = "end"]
      <3>1. "pc" \in DOMAIN t /\ t.pc = "end"
        BY <1>2
      <3> HIDE DEF t
      <3> QED
        BY <2>4, <3>1, SendKeeps DEF t
    <2>5. CASE tx' = tx
      BY <1>1, <1>2, <2>5
    <2> QED
      BY <1>4, <2>1, <2>2, <2>3, <2>4, <2>5
  <1>6. LiveInv' /\ case' = case /\ file' = file
    BY DEF TakeReply, HeardInv, LiveInv, Over, InHeader
  <1> QED
    BY <1>5, <1>6, HeardThere DEF HeardInv

LEMMA AskLives ==
  ASSUME NEW r, Steered(r), r.cancel \in 0 .. 4, NEW fl, "pc" \in DOMAIN fl, Ask(r, fl)
  PROVE  /\ "pc" \in DOMAIN file' /\ file'.pc = "data"
         /\ Alive(rx') /\ rx'.at \in AtHeader
  <1>1. "pc" \in DOMAIN file' /\ file'.pc = "data"
    BY DEF Ask
  <1>2. rx' = HeaderStart(r)
    BY DEF Ask
  <1> QED
    BY <1>1, <1>2, StartKeeps DEF Alive, Anew

\* What the byte at hand makes of the receiver.
LEMMA ReadLives ==
  ASSUME HeardInv, ~Over, NEW c
  PROVE  LET r == Read(c)
         IN  /\ Steered(r) /\ (r.event = "cancelled" \/ r.cancel \in 0 .. 4)
             /\ Still(r, rx) \/ Still(r, Probed(rx, c))
             /\ InHeader => r.at \in AtHeader
             /\ c = CAN /\ ~rx.moby /\ (InHeader \/ rx.encoded = "none") =>
                  \/ r.event = "cancelled"
                  \/ /\ r.event = "none" /\ r.cancel = rx.cancel + 1 /\ ~r.moby
                     /\ InHeader \/ r.encoded = "none"
  <1>1. Alive(rx) /\ (InHeader => rx.at \in AtHeader)
    BY DEF HeardInv, LiveInv
  <1>2. CASE InHeader
    <2>1. Read(c) = rx_header(rx, c)
      BY <1>2 DEF Read
    <2> QED
      BY <1>1, <1>2, <2>1, HeaderRead
  <1>3. CASE ~InHeader
    <2>1. Read(c) = rx_data(rx, c)
      BY <1>3 DEF Read
    <2> QED
      BY <1>1, <1>3, <2>1, DataRead
  <1> QED
    BY <1>2, <1>3

LEMMA HeardReceive == HeardInv /\ ReceiveByte => HeardInv'
  <1> SUFFICES ASSUME HeardInv, ReceiveByte PROVE HeardInv'
    OBVIOUS
  <1> DEFINE c == Head(wire)
             r == Read(c)
             rest == Tail(wire)
             Places == {"session", "info", "data", "block", "again", "done", "cancelled"}
  <1>1. ~Over /\ wire # << >> /\ Receive(r, rest) /\ UNCHANGED <<case, tx, hit>>
    BY DEF ReceiveByte
  <1>2. /\ Steered(r) /\ (r.event = "cancelled" \/ r.cancel \in 0 .. 4)
        /\ InHeader => r.at \in AtHeader
        /\ c = CAN /\ ~rx.moby /\ (InHeader \/ rx.encoded = "none") =>
             \/ r.event = "cancelled"
             \/ /\ r.event = "none" /\ r.cancel = rx.cancel + 1 /\ ~r.moby
                /\ InHeader \/ r.encoded = "none"
    BY <1>1, ReadLives
  <1>3. "pc" \in DOMAIN file /\ file.pc \in Places
    BY DEF HeardInv
  <1> HIDE DEF r, rest, c
  <1>4. tx.pc = "gone" /\ hit = "hit" /\ case.line # "mark" =>
          /\ \/ r.event = "cancelled"
             \/ /\ r.event = "none" /\ r.cancel = rx.cancel + 1 /\ ~r.moby
                /\ InHeader \/ r.encoded = "none"
          /\ \E n \in Nat : n > 0 /\ rest = Repeated(CAN, n - 1) /\ rx.cancel + n >= 5
    <2> SUFFICES ASSUME tx.pc = "gone", hit = "hit", case.line # "mark"
                 PROVE  /\ \/ r.event = "cancelled"
                           \/ /\ r.event = "none" /\ r.cancel = rx.cancel + 1 /\ ~r.moby
                              /\ InHeader \/ r.encoded = "none"
                        /\ \E n \in Nat : n > 0 /\ rest = Repeated(CAN, n - 1)
                                          /\ rx.cancel + n >= 5
      OBVIOUS
    <2>1. ~rx.moby /\ (InHeader \/ rx.encoded = "none")
          /\ \E n \in Nat : wire = Repeated(CAN, n) /\ rx.cancel + n >= 5
      BY <1>1 DEF HeardInv, Dying
    <2>2. PICK n \in Nat : wire = Repeated(CAN, n) /\ rx.cancel + n >= 5
      BY <2>1
    <2>3. n > 0
      <3>1. Repeated(CAN, 0) = << >>
        BY DEF Repeated
      <3> QED
        BY <1>1, <2>2, <3>1
    <2>4. c = CAN /\ rest = Repeated(CAN, n - 1)
      BY <2>2, <2>3, RepeatedSteps DEF c, rest
    <2> QED
      BY <1>2, <2>1, <2>2, <2>3, <2>4
  <1>5. /\ Alive(HeaderStart(r)) \/ r.event = "cancelled"
        /\ Alive(DataStart(r)) \/ r.event = "cancelled"
        /\ Alive(HeaderStart(Invited(r))) \/ r.event = "cancelled"
        /\ HeaderStart(r).at \in AtHeader /\ HeaderStart(Invited(r)).at \in AtHeader
    <2>1. Keeps(Invited(r), r) /\ Anew(HeaderStart(r), r) /\ Keeps(DataStart(r), r)
          /\ HeaderStart(r).event = "none" /\ DataStart(r).event = "none"
          /\ HeaderStart(r).at \in AtHeader
      BY <1>2, StartKeeps
    <2> DEFINE i == Invited(r)
    <2>2. Steered(i) /\ i.cancel = r.cancel
      BY <2>1 DEF Keeps
    <2> HIDE DEF i
    <2>3. Anew(HeaderStart(i), i) /\ HeaderStart(i).event = "none"
          /\ HeaderStart(i).at \in AtHeader
      BY <2>2, StartKeeps
    <2> QED
      BY <1>2, <2>1, <2>2, <2>3 DEF Alive, Keeps, Anew, i
  \* Every case ends in one of these.
  <1> DEFINE Going == /\ r.event = "none" /\ rx' = r /\ wire' = rest /\ file' = file
             Told == /\ r.event \in {"header", "data", "invalid"}
                     /\ "pc" \in DOMAIN file' /\ file'.pc \in Places
                     /\ Alive(rx') /\ (file'.pc \in {"session", "data"} => rx'.at \in AtHeader)
             Ended == "pc" \in DOMAIN file' /\ file'.pc = "cancelled"
  <1>6. Going \/ Told \/ Ended
    <2> DEFINE ask == \E fl : fl = file /\ Ask(r, fl)
    <2>1. Continue(r, rest) => Going
      BY DEF Continue
    <2>2. Cancelled(r, rest) => Ended
      BY <1>3 DEF Cancelled
    <2>3. ReceiveFile(r, rest) => Told
      <3> SUFFICES ASSUME ReceiveFile(r, rest) PROVE Told
        OBVIOUS
      <3>1. r.event = "header" /\ rx' = DataStart(r)
        BY DEF ReceiveFile
      <3>2. "pc" \in DOMAIN file' /\ file'.pc = "info"
        BY <1>3 DEF ReceiveFile
      <3> QED
        BY <1>5, <3>1, <3>2
    <2>4. OtherHeader(r, rest) => Told
      BY <1>3, <1>5 DEF OtherHeader
    <2>5. r.event \in {"header", "data", "invalid"} /\ Ask(r, file) => Told
      <3> SUFFICES ASSUME r.event \in {"header", "data", "invalid"}, Ask(r, file) PROVE Told
        OBVIOUS
      <3>1. "pc" \in DOMAIN file' /\ file'.pc = "data" /\ Alive(rx') /\ rx'.at \in AtHeader
        BY <1>2, <1>3, AskLives
      <3> QED
        BY <3>1
    <2>6. InfoArrives(r, rest) => Told
      <3> SUFFICES ASSUME InfoArrives(r, rest) PROVE Told
        OBVIOUS
      <3>1. r.event \in {"data", "invalid"}
        BY DEF InfoArrives
      <3>2. Ask(r, file) \/ (file' = [file EXCEPT !.pc = "session"] /\ rx' = HeaderStart(r))
        BY DEF InfoArrives
      <3>3. CASE Ask(r, file)
        BY <2>5, <3>1, <3>3
      <3>4. CASE file' = [file EXCEPT !.pc = "session"] /\ rx' = HeaderStart(r)
        BY <1>3, <1>5, <3>1, <3>4
      <3> QED
        BY <3>2, <3>3, <3>4
    <2>7. OpenFrame(r, rest) => Told
      <3> SUFFICES ASSUME OpenFrame(r, rest) PROVE Told
        OBVIOUS
      <3>1. r.event = "header"
        BY DEF OpenFrame
      <3>2. Ask(r, file) \/ (file' = [file EXCEPT !.pc = "block"] /\ rx' = DataStart(r))
        BY DEF OpenFrame
      <3>3. CASE Ask(r, file)
        BY <2>5, <3>1, <3>3
      <3>4. CASE file' = [file EXCEPT !.pc = "block"] /\ rx' = DataStart(r)
        BY <1>3, <1>5, <3>1, <3>4
      <3> QED
        BY <3>2, <3>3, <3>4
    <2>8. EndOfFile(r, rest) => Told
      <3> SUFFICES ASSUME EndOfFile(r, rest) PROVE Told
        OBVIOUS
      <3>1. r.event = "header" /\ rx' = HeaderStart(r)
        BY DEF EndOfFile
      <3>2. "pc" \in DOMAIN file' /\ file'.pc \in {"done", "data"}
        BY <1>3 DEF EndOfFile
      <3> QED
        BY <1>5, <3>1, <3>2
    <2>9. FileAgain(r, rest) => Told
      BY <1>3, <1>5 DEF FileAgain
    <2>10. InfoAgain(r, rest) => Told
      <3> SUFFICES ASSUME InfoAgain(r, rest) PROVE Told
        OBVIOUS
      <3>1. r.event \in {"data", "invalid"} /\ Ask(r, file)
        BY DEF InfoAgain
      <3> QED
        BY <2>5, <3>1
    <2>11. BlockArrives(r, rest) => Told
      <3> SUFFICES ASSUME BlockArrives(r, rest) PROVE Told
        OBVIOUS
      <3> DEFINE open == r.ending \in {ZCRCG, ZCRCQ}
      <3>1. r.event = "data" /\ rx' = IF open THEN DataStart(r) ELSE HeaderStart(r)
        BY DEF BlockArrives
      <3>2. "pc" \in DOMAIN file' /\ file'.pc = IF open THEN "block" ELSE "data"
        BY <1>3 DEF BlockArrives
      <3> HIDE DEF open
      <3> QED
        BY <1>5, <3>1, <3>2
    <2>12. BlockRefused(r, rest) => Told
      <3> SUFFICES ASSUME BlockRefused(r, rest) PROVE Told
        OBVIOUS
      <3>1. r.event = "invalid" /\ Ask(r, file)
        BY DEF BlockRefused
      <3> QED
        BY <2>5, <3>1
    <2> HIDE DEF Going, Told, Ended
    <2> QED
      BY <1>1, <2>1, <2>2, <2>3, <2>4, <2>6, <2>7, <2>8, <2>9, <2>10, <2>11, <2>12 DEF Receive
  <1>7. case' = case /\ tx' = tx /\ hit' = hit
    BY <1>1
  <1>8. CASE Going
    <2>1. LiveInv'
      <3>1. Alive(rx') /\ (InHeader => rx'.at \in AtHeader)
        BY <1>2, <1>8 DEF Alive
      <3> QED
        BY <1>8, <3>1 DEF LiveInv, InHeader
    <2>2. Dying'
      <3> SUFFICES ASSUME tx.pc = "gone", hit = "hit", case.line # "mark"
                   PROVE  /\ ~rx'.moby /\ (InHeader' \/ rx'.encoded = "none")
                          /\ \E n \in Nat : wire' = Repeated(CAN, n) /\ rx'.cancel + n >= 5
        BY <1>7 DEF Dying
      <3>1. PICK n \in Nat : n > 0 /\ rest = Repeated(CAN, n - 1) /\ rx.cancel + n >= 5
        BY <1>4
      <3>2. rx'.cancel = rx.cancel + 1 /\ ~rx'.moby /\ (InHeader \/ rx'.encoded = "none")
        BY <1>4, <1>8
      <3>3. rx.cancel \in 0 .. 4
        BY <1>1 DEF HeardInv, LiveInv, Alive
      <3>4. n - 1 \in Nat /\ rx'.cancel + (n - 1) >= 5
        BY <3>1, <3>2, <3>3
      <3>5. wire' = Repeated(CAN, n - 1)
        BY <1>8, <3>1
      <3>6. \E m \in Nat : wire' = Repeated(CAN, m) /\ rx'.cancel + m >= 5
        BY <3>4, <3>5
      <3>7. InHeader' = InHeader
        BY <1>8 DEF InHeader
      <3> QED
        BY <3>2, <3>6, <3>7
    <2> QED
      BY <1>3, <1>7, <1>8, <2>1, <2>2 DEF HeardInv
  <1>9. CASE Told
    <2>1. LiveInv'
      BY <1>9 DEF LiveInv, InHeader
    <2>2. Dying'
      BY <1>4, <1>7, <1>9 DEF Dying
    <2> QED
      BY <1>7, <1>9, <2>1, <2>2 DEF HeardInv
  <1>10. CASE Ended
    BY <1>7, <1>10 DEF HeardInv, LiveInv, Dying, Over
  <1> QED
    BY <1>6, <1>8, <1>9, <1>10

LEMMA HeardTimeout == HeardInv /\ Timeout => HeardInv'
  <1> SUFFICES ASSUME HeardInv, Timeout PROVE HeardInv'
    OBVIOUS
  <1>1. Steered(rx) /\ rx.cancel \in 0 .. 4 /\ "pc" \in DOMAIN file
    BY DEF Timeout, HeardInv, LiveInv, Alive
  <1>2. \/ rx' = HeaderStart(Invited(rx)) /\ file' = [file EXCEPT !.pc = "session"]
        \/ Ask(rx, file)
    BY DEF Timeout
  <1>3. "pc" \in DOMAIN file' /\ file'.pc \in {"session", "data"} /\ Alive(rx')
        /\ rx'.at \in AtHeader
    <2>1. CASE rx' = HeaderStart(Invited(rx)) /\ file' = [file EXCEPT !.pc = "session"]
      <3> DEFINE i == Invited(rx)
      <3>1. Steered(i) /\ i.cancel = rx.cancel
        BY <1>1, StartKeeps DEF Keeps
      <3> HIDE DEF i
      <3>2. Anew(HeaderStart(i), i) /\ HeaderStart(i).event = "none"
            /\ HeaderStart(i).at \in AtHeader
        BY <3>1, StartKeeps
      <3> QED
        BY <1>1, <2>1, <3>1, <3>2 DEF Alive, Keeps, Anew, i
    <2>2. CASE Ask(rx, file)
      BY <1>1, <2>2, AskLives
    <2> QED
      BY <1>2, <2>1, <2>2
  <1>4. LiveInv'
    BY <1>3 DEF LiveInv
  <1>5. case' = case /\ tx' = tx /\ tx.pc # "gone" /\ "pc" \in DOMAIN tx
    BY DEF Timeout, HeardInv
  <1> QED
    BY <1>3, <1>4, <1>5, HeardThere

LEMMA HeardLine == HeardInv /\ (FlowControl \/ Damage \/ LoseReply) => HeardInv'
  <1> SUFFICES ASSUME HeardInv, FlowControl \/ Damage \/ LoseReply PROVE HeardInv'
    OBVIOUS
  <1>1. hit = "none" /\ UNCHANGED <<case, tx, rx, file>>
    BY DEF FlowControl, Damage, LoseReply, Strike
  <1>2. "pc" \in DOMAIN tx /\ tx.pc # "gone" /\ LiveInv' /\ "pc" \in DOMAIN file
    BY <1>1 DEF HeardInv, LiveInv, Over, InHeader
  <1> QED
    BY <1>1, <1>2, HeardThere DEF HeardInv

LEMMA HeardAbort == HeardInv /\ Abort => HeardInv'
  <1> SUFFICES ASSUME HeardInv, Abort PROVE HeardInv'
    OBVIOUS
  <1>1. /\ "pc" \in DOMAIN tx' /\ hit' # "none" /\ UNCHANGED <<case, rx, file>>
        /\ ~Over /\ wire' = Through(case.line, Repeated(CAN, 5))
        /\ hit' = "hit" => ~rx.moby /\ (InHeader \/ rx.encoded = "none")
    BY DEF Abort, HeardInv, Strike
  <1>2. LiveInv' /\ rx.cancel \in 0 .. 4
    BY <1>1 DEF HeardInv, LiveInv, Over, InHeader, Alive
  <1>3. case.line \in Lines
    BY FramingAssumption DEF HeardInv, Case
  <1>4. case.line # "mark" => wire' = Repeated(CAN, 5) /\ rx'.cancel + 5 >= 5
    BY <1>1, <1>2, <1>3, CansArrive
  <1>5. 5 \in Nat
    OBVIOUS
  <1>6. Dying'
    BY <1>1, <1>4, <1>5 DEF Dying, InHeader
  <1> QED
    BY <1>1, <1>2, <1>6 DEF HeardInv

LEMMA HeardSteps == HeardInv /\ [Next]_vars => HeardInv'
  <1>1. HeardInv /\ UNCHANGED vars => HeardInv'
    BY DEF vars, HeardInv, LiveInv, Dying, Over, InHeader
  <1> QED
    BY <1>1, HeardRepeat, HeardTakeReply, HeardReceive, HeardTimeout, HeardLine, HeardAbort
       DEF Next

\* A peer that gives up between any two bytes is heard, whatever is being sent and
\* however: five CANs in a row end the session (rx_cursor_raw, rx_cursor_slow).
THEOREM AbortIsHeard == Spec => []AbortHeard
  <1>1. Init => HeardInv
    BY HeardInit
  <1>2. HeardInv /\ [Next]_vars => HeardInv'
    BY HeardSteps
  <1>3. HeardInv => AbortHeard
    <2> SUFFICES ASSUME HeardInv, tx.pc = "gone", hit = "hit", wire = << >>,
                        case.line # "mark", ~Over
                 PROVE  FALSE
      BY DEF AbortHeard
    <2>1. PICK n \in Nat : wire = Repeated(CAN, n) /\ rx.cancel + n >= 5
      BY DEF HeardInv, Dying
    <2>2. n = 0
      <3>1. Len(Repeated(CAN, n)) = n
        BY RepeatedSteps
      <3> QED
        BY <2>1, <3>1
    <2>3. rx.cancel \in 0 .. 4
      BY DEF HeardInv, LiveInv, Alive
    <2> QED
      BY <2>1, <2>2, <2>3
  <1> QED
    BY <1>1, <1>2, <1>3, PTL DEF Spec

----------------------------------------------------------------------------
(* The two ways of adding up.                                              *)

\* SlicingIsRight, of what the line carries.
LEMMA SlicesOfBytes == wire \in Seq(Byte) => SlicesAgree
  <1> SUFFICES ASSUME wire \in Seq(Byte) PROVE SlicesAgree
    OBVIOUS
  <1> DEFINE n == IF Len(wire) < 29 THEN Len(wire) ELSE 29
             sent == SubSeq(wire, 1, n)
  <1>1. n \in Nat /\ n <= Len(wire)
    OBVIOUS
  <1> HIDE DEF n
  <1>2. sent \in Seq(Byte)
    BY <1>1
  <1>3. Crc32Start \in Word
    <2>1. 255 \in Byte
      BY DEF Byte
    <2> QED
      BY <2>1, WordOf DEF Crc32Start
  <1> HIDE DEF sent
  <1>4. crc32_update(Crc32Start, sent) = Along(crc32_byte_update, Crc32Start, sent)
    BY <1>2, <1>3, SlicingIsRight
  <1> QED
    BY <1>4 DEF SlicesAgree, sent, n

----------------------------------------------------------------------------
(* The receiver keeps its type, byte by byte.                               *)

LEMMA GoodIs ==
  ASSUME NEW r \in Good
  PROVE  DOMAIN r = Fields /\ Steered(r) /\ r \in Receiver
  BY DEF Good, Receiver, Fields, Steered

LEMMA HuntingGood ==
  ASSUME NEW r \in Good
  PROVE  Hunting(r) \in Good
  <1> DEFINE a == [r EXCEPT !.at = "hunt", !.style = 0, !.want = 0, !.nibble = -1]
             b == [a EXCEPT !.header = << >>, !.crc = << >>, !.mode = "plain", !.high = FALSE]
             c == [b EXCEPT !.ending = 0, !.out = << >>, !.over = FALSE, !.rle = "normal"]
             d == [c EXCEPT !.run = 0, !.value = <<0, 0, 0, 0>>, !.digits = 0, !.sum = Crc32Start]
  <1>1. Hunting(r) = d
    BY DEF Hunting
  <1>2. /\ 0 \in Byte /\ 0 \in 0 .. 17 /\ -1 \in -1 .. 15 /\ "hunt" \in RxPlaces /\ << >> \in Seq(Byte)
        /\ FALSE \in BOOLEAN /\ 0 \in 0 .. 4 /\ 0 \in 0 .. MaxRun
    BY DEF Byte, RxPlaces, MaxRun
  <1>3. <<0, 0, 0, 0>> \in Word /\ Crc32Start \in Word
    BY <1>2, StartWord, WordOf
  <1>4. a \in Good
    BY <1>2, GoodName, GoodByte, GoodCount
  <1> HIDE DEF a
  <1>5. b \in Good
    BY <1>2, <1>4, GoodText, GoodName, GoodFlag
  <1> HIDE DEF b
  <1>6. c \in Good
    BY <1>2, <1>5, GoodText, GoodName, GoodFlag, GoodByte
  <1> HIDE DEF c
  <1>7. d \in Good
    BY <1>2, <1>3, <1>6, GoodWord, GoodCount
  <1> QED
    BY <1>1, <1>7

LEMMA HeaderStartGood ==
  ASSUME NEW r \in Good
  PROVE  HeaderStart(r) \in Good
  <1> DEFINE h == Hunting(r)  s == [h EXCEPT !.event = "none", !.probe = 0, !.passed = FALSE]
  <1>1. h \in Good
    BY HuntingGood
  <1>2. 0 \in 0 .. 4 /\ FALSE \in BOOLEAN /\ "none" \in Events
    BY DEF Events
  <1>3. HeaderStart(r) = s
    BY DEF HeaderStart
  <1> HIDE DEF h
  <1>4. s \in Good
    BY <1>1, <1>2, GoodEvent, GoodCount, GoodFlag
  <1> QED
    BY <1>3, <1>4

LEMMA DataStartGood ==
  ASSUME NEW r \in Good
  PROVE  /\ DataStart(r) \in Good /\ DataStart(r).at = "data" /\ DataStart(r).encoded = r.encoded
         /\ HeaderStart(r).at = "hunt"
  <1> DEFINE a == [r EXCEPT !.at = "data", !.mode = "plain", !.high = FALSE,
                            !.rle = "normal", !.run = 0, !.value = <<0, 0, 0, 0>>]
             b == [a EXCEPT !.digits = 0, !.sum = Crc32Start, !.out = << >>, !.over = FALSE]
             c == [b EXCEPT !.ending = 0, !.crc = << >>, !.event = "none"]
  <1>1. DataStart(r) = c
    BY DEF DataStart
  <1>2. /\ 0 \in Byte /\ "data" \in RxPlaces /\ << >> \in Seq(Byte) /\ "none" \in Events
        /\ FALSE \in BOOLEAN /\ 0 \in 0 .. 4 /\ 0 \in 0 .. MaxRun
    BY DEF Byte, RxPlaces, MaxRun, Events
  <1>3. <<0, 0, 0, 0>> \in Word /\ Crc32Start \in Word
    BY <1>2, StartWord, WordOf
  <1>4. DOMAIN r = Fields
    BY GoodIs
  <1>5. a \in Good
    BY <1>2, <1>3, GoodName, GoodFlag, GoodWord, GoodCount
  <1>6. a.at = "data" /\ a.encoded = r.encoded /\ DOMAIN a = Fields
    BY <1>4 DEF Fields
  <1> HIDE DEF a
  <1>7. b \in Good
    BY <1>2, <1>3, <1>5, GoodText, GoodFlag, GoodWord, GoodCount
  <1>8. b.at = "data" /\ b.encoded = r.encoded /\ DOMAIN b = Fields
    BY <1>6 DEF Fields
  <1> HIDE DEF b
  <1>9. c \in Good
    BY <1>2, <1>7, GoodText, GoodByte, GoodEvent
  <1>10. c.at = "data" /\ c.encoded = r.encoded
    BY <1>8 DEF Fields
  <1>11. HeaderStart(r).at = "hunt"
    <2> DEFINE h == Hunting(r)
    <2>1. h.at = "hunt" /\ DOMAIN h = Fields
      BY GoodIs, HuntingKeeps DEF Keeps, Steered
    <2>2. HeaderStart(r) = [h EXCEPT !.event = "none", !.probe = 0, !.passed = FALSE]
      BY DEF HeaderStart
    <2> HIDE DEF h
    <2> QED
      BY <2>1, <2>2 DEF Fields
  <1> QED
    BY <1>1, <1>9, <1>10, <1>11

LEMMA InvitedGood ==
  ASSUME NEW r \in Good
  PROVE  Invited(r) \in Good
  <1>1. r.escape8 \in {"none", "legacy", "omen"}
    BY GoodFields
  <1> DEFINE x == IF case.receive.esc8 THEN "legacy" ELSE r.escape8
  <1>2. x \in {"none", "legacy", "omen"}
    BY <1>1
  <1>3. Invited(r) = [r EXCEPT !.escape8 = x]
    BY DEF Invited
  <1> HIDE DEF x
  <1> QED
    BY <1>2, <1>3, GoodName, ZenonT(60)

LEMMA RepeatedBytes ==
  ASSUME NEW c \in Byte, NEW k \in Int
  PROVE  Repeated(c, k) \in Seq(Byte)
  <1> DEFINE n == IF k > 0 THEN k ELSE 0  s == [i \in 1 .. n |-> c]
  <1>1. 1 .. k = 1 .. n /\ n \in Nat
    OBVIOUS
  <1>2. Repeated(c, k) = s
    BY <1>1 DEF Repeated
  <1> HIDE DEF n
  <1>3. s \in [1 .. n -> Byte]
    OBVIOUS
  <1> HIDE DEF s
  <1> QED
    BY <1>1, <1>2, <1>3, FunctionIsSeq

\* s is a typed receiver in the place and the encoding of r.
Like(s, r) == s \in Good /\ s.at = r.at /\ s.encoded = r.encoded

LEMMA PutLike ==
  ASSUME NEW r \in Good, NEW c \in Byte, NEW n \in Nat
  PROVE  Like(Put(r, c, n), r)
  <1> DEFINE room == Capacity - Len(r.out)
             full == r.out \o Repeated(c, n)
             part == r.out \o Repeated(c, room)
             a == [r EXCEPT !.out = full]
             b == [r EXCEPT !.out = part]
             d == [b EXCEPT !.over = TRUE]
  <1>1. r.out \in Seq(Byte) /\ DOMAIN r = Fields
    BY GoodFields, GoodIs
  <1>2. room \in Int
    BY <1>1, SubpacketAssumption
  <1>3. Repeated(c, n) \in Seq(Byte) /\ Repeated(c, room) \in Seq(Byte)
    <2> HIDE DEF room
    <2> QED
      BY <1>2, RepeatedBytes
  <1>4. full \in Seq(Byte) /\ part \in Seq(Byte)
    <2> DEFINE u == r.out  v == Repeated(c, n)  w == Repeated(c, room)
    <2>1. u \in Seq(Byte) /\ v \in Seq(Byte) /\ w \in Seq(Byte)
      BY <1>1, <1>3
    <2> HIDE DEF u, v, w
    <2>2. u \o v \in Seq(Byte) /\ u \o w \in Seq(Byte)
      BY <2>1
    <2> QED
      BY <2>2 DEF u, v, w
  <1>5. Put(r, c, n) = IF n <= room THEN a ELSE d
    BY DEF Put
  <1> HIDE DEF room, full, part
  <1>6. a \in Good /\ b \in Good
    BY <1>4, GoodText
  <1>7. a.at = r.at /\ a.encoded = r.encoded /\ b.at = r.at /\ b.encoded = r.encoded /\ DOMAIN b = Fields
    BY <1>1 DEF Fields
  <1> HIDE DEF a, b
  <1>8. TRUE \in BOOLEAN
    OBVIOUS
  <1>9. d \in Good
    BY <1>6, <1>8, GoodFlag
  <1>10. d.at = r.at /\ d.encoded = r.encoded
    BY <1>7 DEF Fields
  <1> HIDE DEF d
  <1> QED
    BY <1>5, <1>6, <1>7, <1>9, <1>10 DEF Like

LEMMA SummedLike ==
  ASSUME NEW r \in Good, NEW c \in Byte
  PROVE  Like(Summed(r, c), r)
  <1> DEFINE w == crc32_byte_update(r.sum, c)
  <1>1. w \in Word /\ DOMAIN r = Fields
    BY GoodFields, GoodIs, ByteUpdate
  <1>2. Summed(r, c) = [r EXCEPT !.sum = w]
    BY DEF Summed
  <1> HIDE DEF w
  <1>3. [r EXCEPT !.sum = w] \in Good
    BY <1>1, GoodWord
  <1>4. [r EXCEPT !.sum = w].at = r.at /\ [r EXCEPT !.sum = w].encoded = r.encoded
    BY <1>1 DEF Fields
  <1> QED
    BY <1>2, <1>3, <1>4 DEF Like

LEMMA EventLike ==
  ASSUME NEW r \in Good, NEW x \in Events
  PROVE  Like([r EXCEPT !.event = x], r)
  <1>1. DOMAIN r = Fields
    BY GoodIs
  <1>2. [r EXCEPT !.event = x] \in Good
    BY GoodEvent
  <1>3. [r EXCEPT !.event = x].at = r.at /\ [r EXCEPT !.event = x].encoded = r.encoded
    BY <1>1 DEF Fields
  <1> QED
    BY <1>2, <1>3 DEF Like

LEMMA CheckedLike ==
  ASSUME NEW r \in Good, NEW expected
  PROVE  Like(Checked(r, expected), r) /\ Like(Invalid(r), r)
  <1>1. "data" \in Events /\ "invalid" \in Events
    BY DEF Events
  <1>2. Like([r EXCEPT !.event = "data"], r) /\ Like([r EXCEPT !.event = "invalid"], r)
    BY <1>1, EventLike
  <1> QED
    BY <1>2 DEF Checked, Invalid

\* What the cursors may give: a byte, a frame end, nothing or what is wrong.
Symbols == -2 .. 511
Modes == {"plain", "escaped", "slow"}

LEMMA RawGood ==
  ASSUME NEW r \in Good, r.event = "none", r.cancel \in 0 .. 4, NEW c
  PROVE  rx_cursor_raw(r, c) \in Good
  <1> DEFINE x == IF r.cancel = 4 THEN "cancelled" ELSE r.event
             y == [r EXCEPT !.cancel = r.cancel + 1]
             z == [r EXCEPT !.cancel = 0]
  <1>1. x \in Events /\ r.cancel + 1 \in 0 .. 5 /\ 0 \in 0 .. 5 /\ DOMAIN r = Fields
    BY GoodIs DEF Events
  <1>2. y \in Good /\ z \in Good
    BY <1>1, GoodCount
  <1>3. rx_cursor_raw(r, c) = IF c # CAN \/ r.moby THEN z ELSE [y EXCEPT !.event = x]
    <2>1. [r EXCEPT !.cancel = @ + 1, !.event = IF r.cancel = 4 THEN "cancelled" ELSE @]
            = [y EXCEPT !.event = x]
      BY <1>1 DEF Fields
    <2> HIDE DEF x, y
    <2> QED
      BY <2>1 DEF rx_cursor_raw
  <1> HIDE DEF x, y, z
  <1> QED
    BY <1>1, <1>2, <1>3, GoodEvent

LEMMA CursorGives ==
  ASSUME NEW r, NEW c \in Byte
  PROVE  rx_cursor(r, c)[1] \in Modes /\ rx_cursor(r, c)[2] \in Symbols
  <1>1. /\ Toggled(c) \in Symbols /\ c \in Symbols /\ Nothing \in Symbols /\ 127 \in Symbols
        /\ 255 \in Symbols
    <2>1. Toggled(c) \in Byte
      BY ControlBytes
    <2> QED
      BY <2>1 DEF Byte, Symbols, Nothing
  <1>2. IsEnding(c) => 256 + c \in Symbols
    BY DEF IsEnding, ZCRCE, ZCRCW, Symbols
  <1>3. \A m, y : LET t == <<m, y>> IN t[1] = m /\ t[2] = y
    OBVIOUS
  <1>4. {"plain", "escaped", "slow"} = Modes
    BY DEF Modes
  <1> DEFINE e == 256 + c  g == Toggled(c)
  <1>5. rx_cursor(r, c) \in {<<"plain", g>>, <<"escaped", Nothing>>, <<"plain", 127>>, <<"plain", 255>>,
                             <<"slow", Nothing>>, <<"plain", c>>}
        \/ (IsEnding(c) /\ rx_cursor(r, c) = <<"plain", e>>)
    BY DEF rx_cursor
  <1> HIDE DEF e, g, Symbols, Modes
  <1> QED
    BY <1>1, <1>2, <1>3, <1>4, <1>5 DEF e, g

LEMMA OmenCursorGives ==
  ASSUME NEW r \in Good, NEW c \in Byte
  PROVE  /\ rx_omen_cursor(r, c)[1] \in Modes
         /\ rx_omen_cursor(r, c)[2] \in BOOLEAN
         /\ rx_omen_cursor(r, c)[3] \in Symbols
  <1> DEFINE b == Low(c)
             raised(x) == IF r.high THEN Low(x) + 128 ELSE x
             private == {x \in OmenCodes : x[2] = b /\ b >= ZRUB0}
             code == (CHOOSE x \in private : TRUE)[1]
             e == 256 + b
             g == Toggled(b)
  <1>1. b \in Byte /\ g \in Byte /\ 127 \in Byte
    <2>1. b \in Byte
      BY LowByte
    <2> HIDE DEF b
    <2>2. g \in Byte
      BY <2>1, ControlBytes
    <2>3. 127 \in Byte
      BY DEF Byte
    <2> QED
      BY <2>1, <2>2, <2>3
  <1>2. private # {} => code \in Byte
    <2>1. \A x \in OmenCodes : x[1] \in Byte
      BY DEF OmenCodes, SO, DLE, XON, XOFF, ZDLE, IAC, Byte
    <2> QED
      BY <2>1
  <1>3. \A x \in Byte : raised(x) \in Symbols
    <2> TAKE x \in Byte
    <2>1. Low(x) \in 0 .. 127
      BY LowByte
    <2> QED
      BY <2>1 DEF Byte, Symbols
  <1>4. IsEnding(b) => e \in Symbols
    BY DEF IsEnding, ZCRCE, ZCRCW, Symbols
  <1>5. Nothing \in Symbols /\ Wrong \in Symbols
    BY DEF Symbols, Nothing, Wrong
  <1>6. r.mode \in Modes /\ r.high \in BOOLEAN /\ "plain" \in Modes /\ "escaped" \in Modes
        /\ TRUE \in BOOLEAN /\ FALSE \in BOOLEAN
    <2>1. r.mode \in {"plain", "escaped", "slow"}
      BY GoodFields
    <2>2. r.high \in BOOLEAN
      BY GoodFields, Zenon
    <2> QED
      BY <2>1, <2>2 DEF Modes
  <1> DEFINE x1 == raised(127)  x2 == raised(code)  x3 == raised(g)  x4 == raised(b)
             o == rx_omen_cursor(r, c)
  <1>7. x1 \in Symbols /\ (private # {} => x2 \in Symbols) /\ x3 \in Symbols /\ x4 \in Symbols
    <2> HIDE DEF raised, g, b, private, code
    <2> QED
      BY <1>1, <1>2, <1>3
  <1>8. o = IF IsFlow(b) THEN <<r.mode, r.high, Nothing>>
            ELSE IF r.mode = "escaped"
            THEN CASE IsEnding(b) -> <<"plain", FALSE, e>>
                   [] b = ZRUB0 -> <<"plain", FALSE, x1>>
                   [] private # {} -> <<"plain", FALSE, x2>>
                   [] IsQuoted(b) -> <<"plain", FALSE, x3>>
                   [] OTHER -> <<"plain", FALSE, Wrong>>
            ELSE CASE b = SO -> <<r.mode, TRUE, Nothing>>
                   [] b = ZDLE -> <<"escaped", r.high, Nothing>>
                   [] b # SO /\ rx_is_unescaped_control(r, b) -> <<r.mode, r.high, Nothing>>
                   [] OTHER -> <<"plain", FALSE, x4>>
    BY DEF rx_omen_cursor
  <1> HIDE DEF x1, x2, x3, x4, private, e, b, g, raised, o
  <1> DEFINE Triple(t) == t[1] \in Modes /\ t[2] \in BOOLEAN /\ t[3] \in Symbols
  <1>9. ASSUME NEW m \in Modes, NEW h \in BOOLEAN, NEW y \in Symbols PROVE Triple(<<m, h, y>>)
    OBVIOUS
  <1>10. /\ Triple(<<r.mode, r.high, Nothing>>) /\ Triple(<<"plain", FALSE, x1>>)
         /\ (private # {} => Triple(<<"plain", FALSE, x2>>)) /\ Triple(<<"plain", FALSE, x3>>)
         /\ Triple(<<"plain", FALSE, Wrong>>) /\ Triple(<<r.mode, TRUE, Nothing>>)
         /\ Triple(<<"escaped", r.high, Nothing>>) /\ Triple(<<"plain", FALSE, x4>>)
         /\ (IsEnding(b) => Triple(<<"plain", FALSE, e>>))
    <2> HIDE DEF Triple
    <2> QED
      BY <1>4, <1>5, <1>6, <1>7, <1>9
  <1> HIDE DEF Triple
  <1>11. Triple(o)
    <2>1. CASE IsFlow(b)
      BY <1>8, <1>10, <2>1
    <2>2. CASE ~IsFlow(b) /\ r.mode = "escaped"
      BY <1>8, <1>10, <2>2
    <2>3. CASE ~IsFlow(b) /\ r.mode # "escaped"
      BY <1>8, <1>10, <2>3
    <2> QED
      BY <2>1, <2>2, <2>3
  <1> QED
    BY <1>11 DEF Triple, o

LEMMA DecodedGood ==
  ASSUME NEW r \in Good, r.event = "none", r.cancel \in 0 .. 4, NEW c \in Byte, NEW omen
  PROVE  LET d == Decoded(r, c, omen)
         IN  Like(d.r, r) /\ d.symbol \in Symbols
  <1> DEFINE s == rx_cursor_raw(r, c)
             o == rx_omen_cursor(r, c)  p == rx_cursor(r, c)
             d == Decoded(r, c, omen)
             u == [s EXCEPT !.mode = o[1]]
             x == [u EXCEPT !.high = o[2]]  y == [s EXCEPT !.mode = p[1]]
  <1>1. /\ o[1] \in Modes /\ o[2] \in BOOLEAN /\ o[3] \in Symbols
        /\ p[1] \in Modes /\ p[2] \in Symbols
    BY CursorGives, OmenCursorGives
  <1>2. s \in Good
    BY RawGood
  <1>3. Nothing \in Symbols
    BY DEF Symbols, Nothing
  <1>4. Steered(r)
    BY GoodIs
  <1>5. d.r.at = r.at /\ d.r.encoded = r.encoded
    BY <1>4, DecodedKeeps
  <1>6. DOMAIN s = Fields
    BY <1>2, GoodIs
  <1> HIDE DEF s, o, p
  <1>7. x = [s EXCEPT !.mode = o[1], !.high = o[2]]
    BY <1>6 DEF Fields
  <1>8. \/ d = [r |-> s, symbol |-> Nothing]
        \/ d = [r |-> x, symbol |-> o[3]]
        \/ d = [r |-> y, symbol |-> p[2]]
    BY <1>7 DEF Decoded, s, o, p
  <1> HIDE DEF d
  <1>9. u \in Good /\ y \in Good
    BY <1>1, <1>2, GoodName DEF Modes
  <1> HIDE DEF u, y
  <1>10. x \in Good
    BY <1>1, <1>9, GoodFlag
  <1> HIDE DEF x
  <1> QED
    BY <1>1, <1>2, <1>3, <1>5, <1>8, <1>9, <1>10 DEF Like, d

Products == [number : Seq(Byte), carry : 0 .. 87]

LEMMA MulAddWord ==
  ASSUME NEW number \in Word, NEW digit \in 0 .. 87
  PROVE  MulAdd88(number, digit).number \in Word
  <1> DEFINE q == Reverse(number)
             start == [number |-> << >>, carry |-> digit]
             n == 4
             After(x, i) == [number |-> <<(q[i] * 88 + x.carry) % 256>> \o x.number,
                             carry |-> (q[i] * 88 + x.carry) \div 256]
             step == [i \in 1 .. n |-> [x \in Products |-> After(x, i)]]
             Body(f, i) == IF i = 0 THEN start ELSE After(f[i - 1], i)
             Chain(f) == f = [i \in 0 .. n |-> Body(f, i)]
             upto == CHOOSE f : Chain(f)
  <1>1. n \in Nat /\ Len(q) = n /\ \A i \in 1 .. n : q[i] \in Byte
    <2>1. number \in Seq(Byte) /\ Len(number) = 4
      BY WordIsBytes
    <2>2. q \in [1 .. 4 -> Byte]
      <3>1. \A i \in 1 .. 4 : (4 - i) + 1 \in 1 .. 4
        OBVIOUS
      <3>2. \A j \in 1 .. 4 : number[j] \in Byte
        BY <2>1, SeqElements
      <3>3. q = [i \in 1 .. 4 |-> number[(4 - i) + 1]]
        BY <2>1 DEF Reverse
      <3> HIDE DEF q
      <3> QED
        BY <3>1, <3>2, <3>3
    <2> HIDE DEF q
    <2>3. Len(q) = 4
      BY <2>2, FunctionIsSeq
    <2> QED
      BY <2>2, <2>3
  <1> HIDE DEF q
  <1>2. start \in Products /\ \A i \in 1 .. n, x \in Products : After(x, i) \in Products
    <2>1. start \in Products
      BY DEF Products
    <2>2. \A b \in Byte, k \in 0 .. 87 : (b * 88 + k) % 256 \in Byte /\ (b * 88 + k) \div 256 \in 0 .. 87
      BY DEF Byte
    <2>3. ASSUME NEW i \in 1 .. n, NEW x \in Products PROVE After(x, i) \in Products
      <3> DEFINE k == (q[i] * 88 + x.carry) \div 256  m == (q[i] * 88 + x.carry) % 256  y == x.number
      <3>1. y \in Seq(Byte) /\ x.carry \in 0 .. 87
        BY DEF Products
      <3>2. m \in Byte /\ k \in 0 .. 87
        BY <1>1, <2>2, <3>1
      <3> HIDE DEF k, m, y
      <3>3. <<m>> \o y \in Seq(Byte)
        BY <3>1, <3>2
      <3>4. [number |-> <<m>> \o y, carry |-> k] \in Products
        BY <3>2, <3>3 DEF Products
      <3> QED
        BY <3>4 DEF k, m, y
    <2> HIDE DEF start, After, n
    <2> QED
      BY <2>1, <2>3
  <1>3. MulAdd88(number, digit) = upto[n]
    BY <1>1 DEF MulAdd88, Along, q
  <1>20. Len(start.number) = 0
    OBVIOUS
  <1>21. ASSUME NEW i \in 1 .. n, NEW x \in Products
        PROVE  Len(After(x, i).number) = Len(x.number) + 1
    <2> DEFINE m == (q[i] * 88 + x.carry) % 256  y == x.number
    <2>1. y \in Seq(Byte) /\ m \in Int
      <3>1. q[i] \in Byte /\ x.carry \in 0 .. 87
        BY <1>1, <1>21 DEF Products
      <3>2. \A b \in Byte, k \in 0 .. 87 : (b * 88 + k) % 256 \in Int
        BY DEF Byte
      <3>4. m \in Int
        BY <3>1, <3>2
      <3>3. y \in Seq(Byte)
        BY <1>21 DEF Products
      <3> QED
        BY <3>3, <3>4
    <2>2. After(x, i).number = <<m>> \o y
      OBVIOUS
    <2> HIDE DEF m, y, After
    <2>3. Len(<<m>> \o y) = Len(y) + 1
      BY <2>1
    <2> QED
      BY <2>2, <2>3 DEF y
  <1> HIDE DEF start
  <1> HIDE DEF n, After
  <1>4. step \in Moves(Products, n) /\ \A i \in 1 .. n, x \in Products : step[i][x] = After(x, i)
    BY <1>1, <1>2 DEF Moves
  <1> HIDE DEF step
  <1>5. PICK g : Leads(Products, n, start, step, g)
    BY <1>1, <1>2, <1>4, Recursion
  <1>6. g \in [0 .. n -> Products] /\ g[0] = start /\ \A i \in 1 .. n : g[i] = step[i][g[i - 1]]
    BY <1>5 DEF Leads
  <1>7. \A i \in 1 .. n : g[i] = After(g[i - 1], i)
    <2> TAKE i \in 1 .. n
    <2>1. i - 1 \in 0 .. n
      BY <1>1, <1>2
    <2> QED
      BY <1>4, <1>6, <2>1
  <1>8. Chain(g)
    <2>1. g = [i \in 0 .. n |-> g[i]]
      BY <1>6
    <2>2. \A i \in 0 .. n : g[i] = Body(g, i)
      <3> TAKE i \in 0 .. n
      <3>1. CASE i = 0
        BY <1>6, <3>1
      <3>2. CASE i # 0
        <4>1. i \in 1 .. n
          BY <1>1, <1>2, <3>2
        <4> QED
          BY <1>7, <3>2, <4>1
      <3> QED
        BY <3>1, <3>2
    <2> HIDE DEF Body
    <2> QED
      BY <2>1, <2>2
  <1>9. Chain(upto)
    <2> HIDE DEF Chain
    <2> QED
      BY <1>8
  <1> HIDE DEF upto
  <1>10. \A i \in 0 .. n : upto[i] = Body(upto, i)
    <2> HIDE DEF Body
    <2> QED
      BY <1>9
  <1> HIDE DEF Chain
  <1>11. upto[0] \in Products /\ \A i \in 1 .. n : upto[i - 1] \in Products => upto[i] \in Products
    <2>1. upto[0] \in Products
      BY <1>1, <1>2, <1>10
    <2>2. ASSUME NEW i \in 1 .. n, upto[i - 1] \in Products PROVE upto[i] \in Products
      <3>1. i \in 0 .. n /\ i # 0
        BY <1>1, <1>2
      <3>2. upto[i] = After(upto[i - 1], i)
        BY <1>10, <3>1
      <3> QED
        BY <1>1, <1>2, <2>2, <3>2
    <2> QED
      BY <2>1, <2>2
  <1>12. upto[n] \in Products
    <2>1. n \in 0 .. n
      BY <1>1, <1>2
    <2> QED
      BY <1>1, <1>2, <1>11, <2>1, ChainStays
  <1>13. \A i \in 0 .. n : upto[i] \in Products
    BY <1>1, <1>11, ChainStays
  <1> DEFINE T == {i \in 0 .. n : Len(upto[i].number) = i}
  <1>14. 0 \in T
    <2>1. upto[0] = start /\ 0 \in 0 .. n
      BY <1>1, <1>10
    <2> QED
      BY <1>20, <2>1
  <1>15. \A i \in 0 .. n - 1 : i \in T => i + 1 \in T
    <2> TAKE i \in 0 .. n - 1
    <2> HAVE i \in T
    <2>1. i + 1 \in 1 .. n /\ i + 1 \in 0 .. n /\ i \in 0 .. n /\ i + 1 # 0 /\ (i + 1) - 1 = i
      BY <1>1
    <2>2. upto[i + 1] = After(upto[i], i + 1)
      BY <1>10, <2>1
    <2>3. Len(upto[i + 1].number) = Len(upto[i].number) + 1
      BY <1>13, <1>21, <2>1, <2>2
    <2> QED
      BY <2>1, <2>3
  <1>16. n \in T
    <2>1. n \in 0 .. n
      BY <1>1
    <2> HIDE DEF T
    <2> QED
      BY <1>1, <1>14, <1>15, <2>1, BoundedInduction
  <1> DEFINE w == upto[n].number
  <1>17. w \in Seq(Byte) /\ Len(w) = 4
    BY <1>12, <1>16 DEF Products, n
  <1> HIDE DEF w
  <1>18. w \in Word
    <2>1. w \in [1 .. 4 -> Byte]
      BY <1>17, SeqElements
    <2> QED
      BY <2>1 DEF Word
  <1> QED
    BY <1>3, <1>18 DEF w

Receives(r) ==
  r \in Good /\ r.at \in (IF r.encoded = "pack7" THEN {"data", "check", "ending"} ELSE {"data", "check"})

LEMMA LikeReceives ==
  ASSUME NEW r, Receives(r), NEW s, Like(s, r)
  PROVE  Receives(s)
  BY DEF Receives, Like

LEMMA LikeLike ==
  ASSUME NEW r, NEW s, Like(s, r), NEW t, Like(t, s)
  PROVE  Like(t, r)
  BY DEF Like

LEMMA LikeFields ==
  ASSUME NEW r \in Good
  PROVE  /\ Like(r, r)
         /\ \A x \in Seq(Byte) : Like([r EXCEPT !.crc = x], r)
         /\ \A x \in Byte : Like([r EXCEPT !.ending = x], r)
         /\ \A x \in Word : Like([r EXCEPT !.value = x], r)
         /\ \A x \in 0 .. 4 : Like([r EXCEPT !.digits = x], r)
         /\ \A x \in 0 .. MaxRun : Like([r EXCEPT !.run = x], r)
         /\ \A x \in {"normal", "count", "value"} : Like([r EXCEPT !.rle = x], r)
  <1>1. DOMAIN r = Fields
    BY GoodIs
  <1>2. /\ \A x : [r EXCEPT !.crc = x].at = r.at /\ [r EXCEPT !.crc = x].encoded = r.encoded
        /\ \A x : [r EXCEPT !.ending = x].at = r.at /\ [r EXCEPT !.ending = x].encoded = r.encoded
        /\ \A x : [r EXCEPT !.value = x].at = r.at /\ [r EXCEPT !.value = x].encoded = r.encoded
        /\ \A x : [r EXCEPT !.digits = x].at = r.at /\ [r EXCEPT !.digits = x].encoded = r.encoded
        /\ \A x : [r EXCEPT !.run = x].at = r.at /\ [r EXCEPT !.run = x].encoded = r.encoded
        /\ \A x : [r EXCEPT !.rle = x].at = r.at /\ [r EXCEPT !.rle = x].encoded = r.encoded
    BY <1>1 DEF Fields
  <1>3. /\ \A x \in Seq(Byte) : [r EXCEPT !.crc = x] \in Good
        /\ \A x \in Byte : [r EXCEPT !.ending = x] \in Good
        /\ \A x \in Word : [r EXCEPT !.value = x] \in Good
        /\ \A x \in 0 .. 4 : [r EXCEPT !.digits = x] \in Good
        /\ \A x \in 0 .. MaxRun : [r EXCEPT !.run = x] \in Good
        /\ \A x \in {"normal", "count", "value"} : [r EXCEPT !.rle = x] \in Good
    BY GoodText, GoodByte, GoodWord, GoodCount, GoodName
  <1> QED
    BY <1>2, <1>3 DEF Like

\* The check follows the byte that ends the data.
LEMMA EndReceives ==
  ASSUME NEW r \in Good, NEW x \in Byte
  PROVE  Receives([r EXCEPT !.at = "check", !.ending = x])
  <1> DEFINE s == [r EXCEPT !.at = "check"]  t == [s EXCEPT !.ending = x]
  <1>1. DOMAIN r = Fields /\ "check" \in RxPlaces
    BY GoodIs DEF RxPlaces
  <1>2. s \in Good
    BY <1>1, GoodName
  <1>3. s.at = "check" /\ [r EXCEPT !.at = "check", !.ending = x] = t
    BY <1>1 DEF Fields
  <1> HIDE DEF s
  <1>4. Like(t, s)
    BY <1>2, LikeFields
  <1>5. t \in Good /\ t.at = "check"
    BY <1>3, <1>4 DEF Like
  <1> HIDE DEF t
  <1> QED
    BY <1>3, <1>5 DEF Receives

LEMMA AppendByte ==
  ASSUME NEW s \in Seq(Byte), NEW x \in Byte
  PROVE  Append(s, x) \in Seq(Byte)
  OBVIOUS

LEMMA PlainReceives ==
  ASSUME NEW r, Receives(r), r.encoded = "none", NEW symbol \in 0 .. 511
  PROVE  Receives(PlainSymbol(r, symbol))
  <1> DEFINE text == Append(r.crc, symbol)
             added == [r EXCEPT !.crc = text]
             x == symbol - 256
             last == [r EXCEPT !.at = "check", !.ending = x]
  <1>1. r \in Good /\ r.at \in {"data", "check"}
    BY DEF Receives
  <1>2. symbol <= 255 => symbol \in Byte
    BY DEF Byte
  <1>3. symbol > 255 => x \in Byte
    BY DEF Byte
  <1>4. symbol <= 255 => Like(added, r)
    <2> SUFFICES ASSUME symbol <= 255 PROVE Like(added, r)
      OBVIOUS
    <2>1. r.crc \in Seq(Byte)
      BY <1>1, GoodFields
    <2>2. text \in Seq(Byte)
      BY <1>2, <2>1, AppendByte
    <2> HIDE DEF text
    <2> QED
      BY <1>1, <2>2, LikeFields
  <1>5. symbol > 255 => Receives(last)
    <2> HIDE DEF x
    <2> QED
      BY <1>1, <1>3, EndReceives
  <1>6. symbol <= 255 => Like(Put(r, symbol, 1), r)
    <2>1. 1 \in Nat
      OBVIOUS
    <2> QED
      BY <1>1, <1>2, <2>1, PutLike
  <1> DEFINE want == IF ~r.is32 THEN Crc16(Append(r.out, r.ending))
                     ELSE DataCheck([style |-> "bin32"], r.out, r.ending)
             short == Len(added.crc) < (IF r.is32 THEN 4 ELSE 2)
             check == IF short THEN added ELSE Checked(added, want)
  <1>7. PlainSymbol(r, symbol) = CASE r.at = "check" /\ symbol > 255 -> Invalid(r)
                                   [] r.at = "check" /\ symbol <= 255 -> check
                                   [] r.at = "data" /\ symbol > 255 -> last
                                   [] OTHER -> Put(r, symbol, 1)
    BY DEF PlainSymbol
  <1> HIDE DEF added, last, want, short
  <1>8. symbol <= 255 => Like(check, r)
    <2> SUFFICES ASSUME symbol <= 255 PROVE Like(check, r)
      OBVIOUS
    <2>1. added \in Good
      BY <1>4 DEF Like
    <2>2. Like(Checked(added, want), added)
      BY <2>1, CheckedLike
    <2> QED
      BY <1>4, <2>2, LikeLike
  <1>9. Like(Invalid(r), r)
    BY <1>1, CheckedLike
  <1> HIDE DEF check
  <1>10. Like(PlainSymbol(r, symbol), r) \/ Receives(PlainSymbol(r, symbol))
    <2>1. CASE symbol > 255
      BY <1>1, <1>5, <1>7, <1>9, <2>1
    <2>2. CASE symbol <= 255
      BY <1>1, <1>6, <1>7, <1>8, <2>2
    <2> QED
      BY <2>1, <2>2
  <1> QED
    BY <1>10, LikeReceives

LEMMA RunReceives ==
  ASSUME NEW r, Receives(r), r.encoded = "rle", NEW symbol \in 0 .. 511
  PROVE  Receives(RunSymbol(r, symbol))
  <1> DEFINE text == Append(r.crc, symbol)
             added == [r EXCEPT !.crc = text]
             s == Summed(r, symbol)
             x == symbol - 256
             sx == Summed(r, x)
             last == [sx EXCEPT !.at = "check", !.ending = x]
  <1>1. r \in Good /\ r.at \in {"data", "check"}
    BY DEF Receives
  <1>2. symbol <= 255 => symbol \in Byte
    BY DEF Byte
  <1>3. symbol > 255 => x \in Byte
    BY DEF Byte
  <1>4. symbol <= 255 => Like(added, r)
    <2> SUFFICES ASSUME symbol <= 255 PROVE Like(added, r)
      OBVIOUS
    <2>1. r.crc \in Seq(Byte)
      BY <1>1, GoodFields
    <2>2. text \in Seq(Byte)
      BY <1>2, <2>1, AppendByte
    <2> HIDE DEF text
    <2> QED
      BY <1>1, <2>2, LikeFields
  <1>5. symbol > 255 => Receives(last)
    <2> HIDE DEF x
    <2>1. symbol > 255 => sx \in Good
      BY <1>1, <1>3, SummedLike DEF Like
    <2> HIDE DEF sx
    <2> QED
      BY <1>3, <2>1, EndReceives
  <1>6. symbol <= 255 => Like(s, r)
    BY <1>1, <1>2, SummedLike
  <1> DEFINE short == Len(added.crc) < 4
             check == IF short THEN added ELSE Checked(added, Inverted(r.sum))
             value == [Put(s, symbol, r.run) EXCEPT !.rle = "normal"]
             escape == [s EXCEPT !.rle = "count"]
             one == Put(s, symbol, 1)
             self == [Put(s, ZRESC, 1) EXCEPT !.rle = "normal"]
             spaces == [Put(s, 32, symbol - 29) EXCEPT !.rle = "normal"]
             counted == [s EXCEPT !.rle = "value", !.run = symbol - 64]
  <1>7. RunSymbol(r, symbol) =
          CASE r.at = "check" -> IF symbol > 255 THEN Invalid(r) ELSE check
            [] r.at # "check" /\ symbol > 255 -> IF r.rle # "normal" THEN Invalid(r) ELSE last
            [] OTHER ->
                 CASE r.rle = "value" -> value
                   [] r.rle = "normal" -> IF symbol = ZRESC THEN escape ELSE one
                   [] r.rle = "count" /\ symbol = 64 -> self
                   [] r.rle = "count" /\ symbol \in 32 .. 63 -> spaces
                   [] r.rle = "count" /\ symbol \in 66 .. 127 -> counted
                   [] OTHER -> Invalid(r)
    BY DEF RunSymbol
  <1> HIDE DEF added, last, short, s
  <1>8. symbol <= 255 => Like(check, r)
    <2> SUFFICES ASSUME symbol <= 255 PROVE Like(check, r)
      OBVIOUS
    <2>1. added \in Good
      BY <1>4 DEF Like
    <2>2. Like(Checked(added, Inverted(r.sum)), added)
      BY <2>1, CheckedLike
    <2> QED
      BY <1>4, <2>2, LikeLike
  <1>9. Like(Invalid(r), r)
    BY <1>1, CheckedLike
  <1> HIDE DEF check
  <1>10. ASSUME symbol <= 255, NEW c \in Byte, NEW n \in Nat
         PROVE  Like(Put(s, c, n), r) /\ Like([Put(s, c, n) EXCEPT !.rle = "normal"], r)
    <2> DEFINE t == Put(s, c, n)
    <2>1. s \in Good /\ Like(s, r)
      BY <1>6, <1>10 DEF Like
    <2>2. Like(t, s)
      BY <2>1, PutLike
    <2>3. Like(t, r) /\ t \in Good
      BY <2>1, <2>2, LikeLike DEF Like
    <2> HIDE DEF t
    <2>4. Like([t EXCEPT !.rle = "normal"], t)
      BY <2>3, LikeFields
    <2>5. Like([t EXCEPT !.rle = "normal"], r)
      BY <2>3, <2>4, LikeLike
    <2> QED
      BY <2>3, <2>5 DEF t
  <1>11. symbol <= 255 => Like(value, r) /\ Like(one, r) /\ Like(self, r)
    <2> SUFFICES ASSUME symbol <= 255 PROVE Like(value, r) /\ Like(one, r) /\ Like(self, r)
      OBVIOUS
    <2>1. r.run \in Nat /\ 1 \in Nat /\ ZRESC \in Byte
      <3>1. r.run \in 0 .. MaxRun
        BY <1>1, GoodFields
      <3> QED
        BY <3>1 DEF ZRESC, Byte, MaxRun
    <2> QED
      BY <1>2, <1>10, <2>1
  <1>12. symbol \in 32 .. 63 => Like(spaces, r)
    <2> SUFFICES ASSUME symbol \in 32 .. 63 PROVE Like(spaces, r)
      OBVIOUS
    <2>1. 32 \in Byte /\ symbol - 29 \in Nat /\ symbol <= 255
      BY DEF Byte
    <2> DEFINE n == symbol - 29
    <2> HIDE DEF n
    <2>2. Like([Put(s, 32, n) EXCEPT !.rle = "normal"], r)
      BY <1>10, <2>1 DEF n
    <2> QED
      BY <2>2 DEF n
  <1>13. symbol <= 255 => Like(escape, r)
    <2> SUFFICES ASSUME symbol <= 255 PROVE Like(escape, r)
      OBVIOUS
    <2>1. s \in Good
      BY <1>6 DEF Like
    <2>2. Like(escape, s)
      BY <2>1, LikeFields
    <2> QED
      BY <1>6, <2>2, LikeLike
  <1>14. symbol \in 66 .. 127 => Like(counted, r)
    <2> SUFFICES ASSUME symbol \in 66 .. 127 PROVE Like(counted, r)
      OBVIOUS
    <2> DEFINE y == symbol - 64  t == [s EXCEPT !.rle = "value"]  u == [t EXCEPT !.run = y]
    <2>1. y \in 0 .. MaxRun /\ symbol <= 255
      BY DEF MaxRun
    <2>2. s \in Good /\ DOMAIN s = Fields
      BY <1>6, <2>1, GoodIs DEF Like
    <2>3. counted = u
      BY <2>2 DEF Fields
    <2>4. Like(t, s)
      BY <2>2, LikeFields
    <2> HIDE DEF t, y
    <2>5. Like(u, t)
      BY <2>1, <2>4, LikeFields DEF Like
    <2> QED
      BY <1>6, <2>1, <2>3, <2>4, <2>5, LikeLike
  <1> HIDE DEF value, escape, one, self, spaces, counted
  <1> DEFINE result == RunSymbol(r, symbol)
  <1>15. Like(result, r) \/ Receives(result)
    <2>1. CASE symbol > 255
      BY <1>1, <1>5, <1>7, <1>9, <2>1
    <2>2. CASE symbol <= 255 /\ r.at = "check"
      BY <1>7, <1>8, <2>2
    <2>3. CASE symbol <= 255 /\ r.at # "check"
      BY <1>7, <1>9, <1>11, <1>12, <1>13, <1>14, <2>3
    <2> QED
      BY <2>1, <2>2, <2>3
  <1> QED
    BY <1>15, LikeReceives

Likes(r) == {s \in Good : s.at = r.at /\ s.encoded = r.encoded}

\* A group of Pack-7 is stored byte by byte.
LEMMA GroupLike ==
  ASSUME NEW r \in Good, NEW bytes \in Seq(Byte)
  PROVE  LET put(s, c) == Summed(Put(s, c, 1), c) IN Like(Along(put, r, bytes), r)
  <1> DEFINE put(s, c) == Summed(Put(s, c, 1), c)
             n == Len(bytes)
             After(x, i) == put(x, bytes[i])
             step == [i \in 1 .. n |-> [x \in Likes(r) |-> After(x, i)]]
             Body(f, i) == IF i = 0 THEN r ELSE After(f[i - 1], i)
             Chain(f) == f = [i \in 0 .. n |-> Body(f, i)]
             upto == CHOOSE f : Chain(f)
  <1>1. n \in Nat /\ \A i \in 1 .. n : bytes[i] \in Byte
    BY SeqElements
  <1>2. r \in Likes(r) /\ \A i \in 1 .. n, x \in Likes(r) : After(x, i) \in Likes(r)
    <2>1. ASSUME NEW i \in 1 .. n, NEW x \in Likes(r) PROVE After(x, i) \in Likes(r)
      <3> DEFINE c == bytes[i]  t == Put(x, c, 1)
      <3>1. c \in Byte /\ x \in Good /\ Like(x, r) /\ 1 \in Nat
        BY <1>1 DEF Likes, Like
      <3> HIDE DEF c
      <3>2. Like(t, x)
        BY <3>1, PutLike
      <3>3. t \in Good
        BY <3>2 DEF Like
      <3> HIDE DEF t
      <3>4. Like(Summed(t, c), t)
        BY <3>1, <3>3, SummedLike
      <3>5. Like(Summed(t, c), r)
        BY <3>1, <3>2, <3>4, LikeLike
      <3> QED
        BY <3>5 DEF Like, Likes, t, c
    <2>2. r \in Likes(r)
      BY DEF Likes
    <2> QED
      BY <2>1, <2>2
  <1>3. Along(put, r, bytes) = upto[n]
    BY DEF Along
  <1> HIDE DEF n, After
  <1>4. step \in Moves(Likes(r), n) /\ \A i \in 1 .. n, x \in Likes(r) : step[i][x] = After(x, i)
    BY <1>1, <1>2 DEF Moves
  <1> HIDE DEF step
  <1>5. PICK g : Leads(Likes(r), n, r, step, g)
    BY <1>1, <1>2, <1>4, Recursion
  <1>6. g \in [0 .. n -> Likes(r)] /\ g[0] = r /\ \A i \in 1 .. n : g[i] = step[i][g[i - 1]]
    BY <1>5 DEF Leads
  <1>7. \A i \in 1 .. n : g[i] = After(g[i - 1], i)
    <2> TAKE i \in 1 .. n
    <2>1. i - 1 \in 0 .. n
      BY <1>1, <1>2
    <2> QED
      BY <1>4, <1>6, <2>1
  <1>8. Chain(g)
    <2>1. g = [i \in 0 .. n |-> g[i]]
      BY <1>6
    <2>2. \A i \in 0 .. n : g[i] = Body(g, i)
      <3> TAKE i \in 0 .. n
      <3>1. CASE i = 0
        BY <1>6, <3>1
      <3>2. CASE i # 0
        <4>1. i \in 1 .. n
          BY <1>1, <1>2, <3>2
        <4> QED
          BY <1>7, <3>2, <4>1
      <3> QED
        BY <3>1, <3>2
    <2> HIDE DEF Body
    <2> QED
      BY <2>1, <2>2
  <1>9. Chain(upto)
    <2> HIDE DEF Chain
    <2> QED
      BY <1>8
  <1> HIDE DEF upto
  <1>10. \A i \in 0 .. n : upto[i] = Body(upto, i)
    <2> HIDE DEF Body
    <2> QED
      BY <1>9
  <1> HIDE DEF Chain
  <1>11. upto[0] \in Likes(r) /\ \A i \in 1 .. n : upto[i - 1] \in Likes(r) => upto[i] \in Likes(r)
    <2>1. upto[0] \in Likes(r)
      BY <1>1, <1>2, <1>10
    <2>2. ASSUME NEW i \in 1 .. n, upto[i - 1] \in Likes(r) PROVE upto[i] \in Likes(r)
      <3>1. i \in 0 .. n /\ i # 0
        BY <1>1, <1>2
      <3>2. upto[i] = After(upto[i - 1], i)
        BY <1>10, <3>1
      <3> QED
        BY <1>1, <1>2, <2>2, <3>2
    <2> QED
      BY <2>1, <2>2
  <1>12. upto[n] \in Likes(r)
    <2>1. n \in 0 .. n
      BY <1>1, <1>2
    <2> QED
      BY <1>1, <1>2, <1>11, <2>1, ChainStays
  <1> QED
    BY <1>3, <1>12 DEF Like, Likes

LEMMA GroupReceives ==
  ASSUME NEW r, Receives(r), r.encoded = "pack7", r.at \in {"data", "check"}, NEW digits \in 0 .. 5
  PROVE  Receives(Pack7Group(r, digits))
  <1> DEFINE count == IF digits = 0 THEN 0 ELSE digits - 1
             bytes == SubSeq(r.value, 5 - count, 4)
             zero == <<0, 0, 0, 0>>
             cleared == [r EXCEPT !.digits = 0]
             next == [cleared EXCEPT !.value = zero]
             kept == [next EXCEPT !.crc = bytes]
             put(s, c) == Summed(Put(s, c, 1), c)
             all == Along(put, next, bytes)
             place == IF count < 4 THEN "ending" ELSE all.at
             after == [all EXCEPT !.at = place]
  <1>1. r \in Good /\ r.value \in Word /\ count \in 0 .. 4 /\ DOMAIN r = Fields
    BY GoodFields, GoodIs DEF Receives
  <1>2. bytes \in Seq(Byte)
    <2>1. r.value \in Seq(Byte) /\ Len(r.value) = 4
      BY <1>1, WordIsBytes
    <2> DEFINE m == 5 - count
    <2>2. m \in Nat \ {0}
      BY <1>1
    <2> HIDE DEF m
    <2>3. SubSeq(r.value, m, 4) \in Seq(Byte)
      BY <2>1, <2>2, PartBytes
    <2> QED
      BY <2>3 DEF m
  <1>3. next = [r EXCEPT !.digits = 0, !.value = zero]
    BY <1>1 DEF Fields
  <1>4. 0 \in 0 .. 4 /\ zero \in Word
    <2>1. 0 \in Byte
      BY DEF Byte
    <2> QED
      BY <2>1, WordOf
  <1> HIDE DEF zero, bytes
  <1>5. Like(cleared, r)
    BY <1>1, <1>4, LikeFields
  <1> HIDE DEF cleared
  <1>6. Like(next, r) /\ next \in Good
    <2>1. Like(next, cleared)
      BY <1>4, <1>5, LikeFields DEF Like
    <2> QED
      BY <1>5, <2>1, LikeLike DEF Like
  <1> HIDE DEF next
  <1>7. Like(kept, next)
    BY <1>2, <1>6, LikeFields
  <1> HIDE DEF kept
  <1>8. Like(kept, r) /\ kept \in Good
    BY <1>6, <1>7, LikeLike DEF Like
  <1>9. Like(all, r) /\ all \in Good
    <2>1. Like(all, next)
      BY <1>2, <1>6, GroupLike
    <2> HIDE DEF all
    <2> QED
      BY <1>6, <2>1, LikeLike DEF Like
  <1> HIDE DEF all
  <1>10. Receives(after)
    <2>1. all.at \in {"data", "check"} /\ all.encoded = "pack7" /\ DOMAIN all = Fields
      BY <1>9, GoodIs DEF Like
    <2>2. place \in RxPlaces /\ place \in {"data", "check", "ending"}
      BY <2>1 DEF RxPlaces
    <2> HIDE DEF place
    <2>3. after \in Good
      BY <1>9, <2>2, GoodName
    <2>4. after.at = place /\ after.encoded = "pack7"
      BY <2>1 DEF Fields
    <2> HIDE DEF after
    <2> QED
      BY <2>2, <2>3, <2>4 DEF Receives
  <1>11. \A e : Receives(Checked(kept, e))
    <2> TAKE e
    <2>1. Like(Checked(kept, e), kept)
      BY <1>8, CheckedLike
    <2> QED
      BY <1>8, <2>1, LikeLike, LikeReceives
  <1>12. Receives(Invalid(r))
    BY <1>1, CheckedLike, LikeReceives
  <1> DEFINE result ==
        IF \E i \in 1 .. 4 - count : r.value[i] # 0 THEN Invalid(r)
        ELSE IF r.at = "check"
        THEN IF count < 4 THEN Invalid(r) ELSE Checked(kept, Inverted(r.sum))
        ELSE after
  <1>13. Pack7Group(r, digits) = result
    BY <1>3 DEF Pack7Group, after, place, all, kept, bytes, zero
  <1> HIDE DEF after
  <1>14. Receives(result)
    BY <1>10, <1>11, <1>12
  <1> HIDE DEF result
  <1> QED
    BY <1>13, <1>14

LEMMA Pack7Receives ==
  ASSUME NEW r, Receives(r), r.encoded = "pack7", NEW symbol \in 0 .. 511
  PROVE  Receives(Pack7Symbol(r, symbol))
  <1> DEFINE p == MulAdd88(r.value, symbol - 34)
             carry == p.carry
             number == p.number
             stored == [r EXCEPT !.value = number]
             added == [stored EXCEPT !.digits = r.digits + 1]
             full == [stored EXCEPT !.digits = 0]
             s == Summed(r, symbol)
             last == [s EXCEPT !.at = "check", !.ending = symbol]
  <1>1. r \in Good /\ r.at \in {"data", "check", "ending"} /\ DOMAIN r = Fields
        /\ r.value \in Word /\ r.digits \in 0 .. 4
    BY GoodFields, GoodIs DEF Receives
  <1>2. symbol \in 34 .. 121 => number \in Word
    <2>1. symbol \in 34 .. 121 => symbol - 34 \in 0 .. 87
      OBVIOUS
    <2> DEFINE d == symbol - 34
    <2> HIDE DEF d
    <2>2. d \in 0 .. 87 => MulAdd88(r.value, d).number \in Word
      BY <1>1, MulAddWord
    <2> QED
      BY <2>1, <2>2 DEF d
  <1> HIDE DEF number
  <1>3. symbol \in 34 .. 121 => Like(stored, r)
    BY <1>1, <1>2, LikeFields
  <1>4. DOMAIN stored = Fields
    BY <1>1 DEF Fields
  <1>5. /\ added = [r EXCEPT !.value = number, !.digits = @ + 1]
        /\ full = [added EXCEPT !.digits = 0]
    BY <1>1 DEF Fields
  <1> HIDE DEF stored
  <1>6. symbol \in 34 .. 121 /\ r.digits # 4 => Receives(added)
    <2> SUFFICES ASSUME symbol \in 34 .. 121, r.digits # 4 PROVE Receives(added)
      OBVIOUS
    <2>1. r.digits + 1 \in 0 .. 4
      BY <1>1
    <2> DEFINE k == r.digits + 1
    <2> HIDE DEF k
    <2>2. Like([stored EXCEPT !.digits = k], stored)
      BY <1>3, <2>1, LikeFields DEF k, Like
    <2> QED
      BY <1>3, <2>2, LikeLike, LikeReceives DEF k
  <1>7. symbol \in 34 .. 121 => Like(full, r)
    <2> SUFFICES ASSUME symbol \in 34 .. 121 PROVE Like(full, r)
      OBVIOUS
    <2>1. 0 \in 0 .. 4
      OBVIOUS
    <2>2. Like(full, stored)
      BY <1>3, <2>1, LikeFields DEF Like
    <2> QED
      BY <1>3, <2>2, LikeLike
  <1> HIDE DEF full
  <1>8. symbol \in 34 .. 121 /\ r.at # "ending" => Receives(Pack7Group(full, 5))
    <2> SUFFICES ASSUME symbol \in 34 .. 121, r.at # "ending" PROVE Receives(Pack7Group(full, 5))
      OBVIOUS
    <2>1. Receives(full) /\ full.encoded = "pack7" /\ full.at \in {"data", "check"} /\ 5 \in 0 .. 5
      BY <1>1, <1>7, LikeReceives DEF Like
    <2> QED
      BY <2>1, GroupReceives
  <1>9. r.at # "ending" => Receives(Pack7Group(r, r.digits))
    <2> SUFFICES ASSUME r.at # "ending" PROVE Receives(Pack7Group(r, r.digits))
      OBVIOUS
    <2>1. r.digits \in 0 .. 5 /\ r.at \in {"data", "check"}
      BY <1>1
    <2> QED
      BY <2>1, GroupReceives
  <1>10. IsEnding(symbol) => Receives(last)
    <2> SUFFICES ASSUME IsEnding(symbol) PROVE Receives(last)
      OBVIOUS
    <2>1. symbol \in Byte
      BY DEF IsEnding, ZCRCE, ZCRCW, Byte
    <2>2. s \in Good
      BY <1>1, <2>1, SummedLike DEF Like
    <2> HIDE DEF s
    <2> QED
      BY <2>1, <2>2, EndReceives
  <1>11. Receives(Invalid(r))
    BY <1>1, CheckedLike, LikeReceives
  <1> HIDE DEF s, last, added
  <1>12. Pack7Symbol(r, symbol) =
           CASE r.at = "ending" -> IF IsEnding(symbol) THEN last ELSE Invalid(r)
             [] r.at # "ending" /\ symbol = 33 ->
                  IF r.digits = 1 THEN Invalid(r) ELSE Pack7Group(r, r.digits)
             [] r.at # "ending" /\ symbol \in 34 .. 121 ->
                  IF carry # 0 THEN Invalid(r)
                  ELSE IF r.digits = 4 THEN Pack7Group(full, 5) ELSE added
             [] OTHER -> Invalid(r)
    BY <1>5 DEF Pack7Symbol, last, s, number
  <1> HIDE DEF carry
  <1> DEFINE result == Pack7Symbol(r, symbol)
  <1>13. result \in {last, Invalid(r), Pack7Group(r, r.digits), Pack7Group(full, 5), added}
         /\ Receives(result)
    <2>1. CASE r.at = "ending"
      BY <1>10, <1>11, <1>12, <2>1
    <2>2. CASE r.at # "ending" /\ symbol = 33
      BY <1>9, <1>11, <1>12, <2>2
    <2>3. CASE r.at # "ending" /\ symbol \in 34 .. 121
      BY <1>6, <1>8, <1>11, <1>12, <2>3
    <2>4. CASE r.at # "ending" /\ symbol # 33 /\ symbol \notin 34 .. 121
      BY <1>11, <1>12, <2>4
    <2> QED
      BY <2>1, <2>2, <2>3, <2>4
  <1> QED
    BY <1>13

\* A subpacket's byte leaves the receiver what it is.
LEMMA DataTyped ==
  ASSUME NEW r, Receives(r), r.event = "none", r.cancel \in 0 .. 4, NEW c \in Byte
  PROVE  Receives(rx_data(r, c))
  <1> DEFINE omen == r.encoded = "pack7" \/ (r.encoded = "rle" /\ r.escape8 = "omen")
             d == Decoded(r, c, omen)
             e == d.r
             symbol == d.symbol
             s == rx_data(r, c)
  <1>1. r \in Good
    BY DEF Receives
  <1>2. Like(e, r) /\ symbol \in Symbols
    <2> HIDE DEF omen
    <2> QED
      BY <1>1, DecodedGood
  <1>3. s = CASE symbol = Nothing -> e
              [] symbol = Wrong -> Invalid(e)
              [] OTHER -> CASE r.encoded = "none" -> PlainSymbol(e, symbol)
                            [] r.encoded = "rle" -> RunSymbol(e, symbol)
                            [] r.encoded = "pack7" -> Pack7Symbol(e, symbol)
    BY DEF rx_data
  <1> HIDE DEF d, e, symbol, s, omen
  <1>4. Receives(e) /\ e \in Good /\ e.encoded = r.encoded
    BY <1>2, LikeReceives DEF Like
  <1>5. symbol = Nothing \/ symbol = Wrong \/ symbol \in 0 .. 511
    BY <1>2 DEF Symbols, Nothing, Wrong
  <1>6. Nothing # Wrong /\ Nothing \notin 0 .. 511 /\ Wrong \notin 0 .. 511
    BY DEF Nothing, Wrong
  <1>7. Receives(Invalid(e))
    BY <1>4, CheckedLike, LikeReceives
  <1>8. r.encoded \in {"none", "rle", "pack7"}
    BY <1>1, GoodFields
  <1>9. CASE symbol = Nothing
    BY <1>3, <1>4, <1>6, <1>9 DEF s
  <1>10. CASE symbol = Wrong
    BY <1>3, <1>6, <1>7, <1>10 DEF s
  <1>11. CASE symbol \in 0 .. 511
    <2>1. CASE r.encoded = "none"
      <3>1. s = PlainSymbol(e, symbol)
        BY <1>3, <1>6, <1>11, <2>1
      <3> QED
        BY <1>4, <1>11, <2>1, <3>1, PlainReceives DEF s
    <2>2. CASE r.encoded = "rle"
      <3>1. s = RunSymbol(e, symbol)
        BY <1>3, <1>6, <1>11, <2>2
      <3> QED
        BY <1>4, <1>11, <2>2, <3>1, RunReceives DEF s
    <2>3. CASE r.encoded = "pack7"
      <3>1. s = Pack7Symbol(e, symbol)
        BY <1>3, <1>6, <1>11, <2>3
      <3> QED
        BY <1>4, <1>11, <2>3, <3>1, Pack7Receives DEF s
    <2> QED
      BY <1>8, <2>1, <2>2, <2>3
  <1> QED
    BY <1>5, <1>9, <1>10, <1>11

LEMMA ScannedGood ==
  ASSUME NEW r \in Good, NEW c
  PROVE  Scanned(r, c) \in Good
  <1> DEFINE p == Probed(r, c)
             k == IF c = mobyturbo_probe[1] THEN 1 ELSE 0
             none == [r EXCEPT !.probe = k]
             zero == [r EXCEPT !.probe = 0]
             passed == [zero EXCEPT !.passed = TRUE]
             more == [r EXCEPT !.probe = r.probe + 1]
  <1>1. r.probe \in 0 .. 4 /\ DOMAIN r = Fields
    BY GoodFields, GoodIs
  <1>2. k \in 0 .. 4 /\ 0 \in 0 .. 4 /\ (r.probe # 4 => r.probe + 1 \in 0 .. 4) /\ TRUE \in BOOLEAN
    BY <1>1
  <1>3. passed = [r EXCEPT !.probe = 0, !.passed = TRUE]
    BY <1>1 DEF Fields
  <1> HIDE DEF k
  <1>4. none \in Good /\ zero \in Good /\ (r.probe # 4 => more \in Good)
    BY <1>2, GoodCount
  <1> HIDE DEF zero
  <1>5. passed \in Good
    BY <1>2, <1>4, GoodFlag
  <1>6. p = IF c # mobyturbo_probe[r.probe + 1] THEN none ELSE IF r.probe = 4 THEN passed ELSE more
    BY <1>3 DEF Probed, k
  <1> HIDE DEF p, none, passed, more
  <1>7. p \in Good
    BY <1>4, <1>5, <1>6
  <1>8. \A x \in {"hunt", "pad", "pads", "style"} :
          [p EXCEPT !.at = x] \in Good /\ [r EXCEPT !.at = x] \in Good
    <2>1. {"hunt", "pad", "pads", "style"} \subseteq RxPlaces
      BY DEF RxPlaces
    <2> QED
      BY <1>7, <2>1, GoodName
  <1>9. \/ \E x \in {"hunt", "pad"} : Scanned(r, c) = [p EXCEPT !.at = x]
        \/ \E x \in {"hunt", "pad", "pads", "style"} : Scanned(r, c) = [r EXCEPT !.at = x]
    BY DEF Scanned, p
  <1> QED
    BY <1>8, <1>9

LEMMA StyleGood ==
  ASSUME NEW r \in Good, NEW style \in Byte
  PROVE  Style(r, style) \in Good
  <1> DEFINE m == style = ZBINM32
             styled == [r EXCEPT !.style = style]
             wanted == [styled EXCEPT !.want = HDRLEN]
             read == [wanted EXCEPT !.moby = m]
             x == IF style \in Omen \cup Variable \cup {ZBINM32} THEN "count" ELSE "header"
             next == [read EXCEPT !.at = x]
             w == style \in {ZBIN32, ZBINR32, ZVBIN32, ZVBINR32}
             e == IF style \in {ZBINR32, ZVBINR32} THEN "rle" ELSE "none"
             wide == [next EXCEPT !.is32 = w]
             full == [wide EXCEPT !.encoded = e]
  <1>1. DOMAIN r = Fields
    BY GoodIs
  <1>2. m \in BOOLEAN /\ w \in BOOLEAN /\ HDRLEN \in 0 .. 17 /\ x \in RxPlaces /\ e \in {"none", "rle", "pack7"}
    BY DEF HDRLEN, RxPlaces
  <1>3. read = [r EXCEPT !.style = style, !.want = HDRLEN, !.moby = m] /\ DOMAIN read = Fields
    BY <1>1 DEF Fields
  <1> HIDE DEF m, w, x, e
  <1>4. styled \in Good
    BY GoodByte
  <1> HIDE DEF styled
  <1>5. wanted \in Good
    BY <1>2, <1>4, GoodCount
  <1> HIDE DEF wanted
  <1>6. read \in Good
    BY <1>2, <1>5, GoodFlag
  <1> HIDE DEF read
  <1>7. next \in Good /\ DOMAIN next = Fields
    BY <1>2, <1>3, <1>6, GoodName
  <1> HIDE DEF next
  <1>8. full = [next EXCEPT !.is32 = w, !.encoded = e]
    BY <1>7 DEF Fields
  <1>9. wide \in Good
    BY <1>2, <1>7, GoodFlag
  <1> HIDE DEF wide
  <1>10. full \in Good
    BY <1>2, <1>9, GoodName
  <1> HIDE DEF full
  <1>11. Style(r, style) \in {Hunting(r), next, full}
    BY <1>3, <1>8 DEF Style, next, w, e, m, x
  <1> QED
    BY <1>7, <1>10, <1>11, HuntingGood

LEMMA CountedGood ==
  ASSUME NEW r \in Good, NEW n \in Int
  PROVE  Counted(r, n) \in Good
  <1> DEFINE k == n + 1  a == [r EXCEPT !.want = k]  b == [a EXCEPT !.at = "header"]
             inside == n \in (IF r.style \in Omen THEN 0 ELSE HDRLEN - 1) .. ZMAXHLEN
  <1>1. inside => k \in 0 .. 17
    BY DEF HDRLEN, ZMAXHLEN
  <1>2. b = [r EXCEPT !.want = n + 1, !.at = "header"] /\ "header" \in RxPlaces
    <2>1. DOMAIN r = Fields
      BY GoodIs
    <2> QED
      BY <2>1 DEF Fields, RxPlaces
  <1> HIDE DEF k
  <1>3. inside => a \in Good
    BY <1>1, GoodCount
  <1> HIDE DEF a
  <1>4. inside => b \in Good
    BY <1>2, <1>3, GoodName
  <1>5. Counted(r, n) = IF inside THEN b ELSE Hunting(r)
    BY <1>2 DEF Counted
  <1> HIDE DEF inside, b
  <1> QED
    BY <1>4, <1>5, HuntingGood

LEMMA AcceptedGood ==
  ASSUME NEW r \in Good
  PROVE  Accepted(r) \in Good
  <1> DEFINE found == [r EXCEPT !.event = "header"]
             wide == [found EXCEPT !.is32 = TRUE]
             omen == [wide EXCEPT !.escape8 = "omen"]
             e == IF r.style = ZBINP7 THEN "pack7" ELSE "rle"
             a == [omen EXCEPT !.encoded = e]
             none == [wide EXCEPT !.escape8 = "none"]
             b == [none EXCEPT !.encoded = "none"]
  <1>1. /\ "header" \in Events /\ TRUE \in BOOLEAN /\ e \in {"none", "rle", "pack7"}
        /\ "omen" \in {"none", "legacy", "omen"} /\ "none" \in {"none", "legacy", "omen"}
        /\ "none" \in {"none", "rle", "pack7"} /\ DOMAIN r = Fields
    BY GoodIs DEF Events
  <1> HIDE DEF e
  <1>2. found \in Good
    BY <1>1, GoodEvent
  <1>3. DOMAIN found = Fields
    BY <1>1
  <1> HIDE DEF found
  <1>4. wide \in Good
    BY <1>1, <1>2, GoodFlag
  <1>5. /\ a = [found EXCEPT !.is32 = TRUE, !.escape8 = "omen", !.encoded = e]
        /\ b = [found EXCEPT !.is32 = TRUE, !.escape8 = "none", !.encoded = "none"]
    BY <1>3 DEF Fields
  <1> HIDE DEF wide
  <1>6. omen \in Good /\ none \in Good
    BY <1>1, <1>4, GoodName
  <1> HIDE DEF omen, none
  <1>7. a \in Good /\ b \in Good
    BY <1>1, <1>6, GoodName
  <1> HIDE DEF a, b
  <1>8. Accepted(r) \in {a, b, found}
    BY <1>5 DEF Accepted, found, e
  <1> QED
    BY <1>2, <1>7, <1>8

LEMMA TerminatedGood ==
  ASSUME NEW r \in Good, NEW c
  PROVE  Terminated(r, c) \in Good
  <1>1. "lf" \in RxPlaces
    BY DEF RxPlaces
  <1>2. [r EXCEPT !.at = "lf"] \in Good /\ Hunting(r) \in Good /\ Accepted(r) \in Good
    BY <1>1, GoodName, HuntingGood, AcceptedGood
  <1> QED
    BY <1>2 DEF Terminated

LEMMA HeaderByteGood ==
  ASSUME NEW r \in Good, r.at \in {"count", "header", "check"}, NEW byte \in Byte
  PROVE  HeaderByte(r, byte) \in Good
  <1> DEFINE header == Append(r.header, byte)
             crc == Append(r.crc, byte)
             longer == [r EXCEPT !.header = header]
             x == IF Len(header) = r.want THEN "check" ELSE r.at
             a == [longer EXCEPT !.at = x]
             b == [r EXCEPT !.crc = crc]
             e == [r EXCEPT !.at = "cr"]
             hex == r.style \in {ZHEX, ZVHEX}
             width == IF hex \/ r.style \in {ZBIN, ZVBIN} THEN 2 ELSE 4
             y == IF Len(crc) < width THEN b
                  ELSE IF crc # Checksum(r) THEN Hunting(r)
                  ELSE IF hex THEN e ELSE Accepted(r)
  <1>1. DOMAIN r = Fields /\ r.header \in Seq(Byte) /\ r.crc \in Seq(Byte)
    BY GoodIs, GoodFields
  <1>2. header \in Seq(Byte) /\ crc \in Seq(Byte)
    BY <1>1, AppendByte
  <1>3. x \in RxPlaces /\ "cr" \in RxPlaces
    BY DEF RxPlaces
  <1>4. a = [r EXCEPT !.header = header, !.at = IF Len(header) = r.want THEN "check" ELSE @]
    BY <1>1 DEF Fields
  <1>5. HeaderByte(r, byte) = CASE r.at = "count" -> Counted(r, byte)
                                [] r.at = "header" -> a
                                [] r.at = "check" -> y
    BY <1>4 DEF HeaderByte
  <1> HIDE DEF header, crc, x
  <1>6. longer \in Good /\ b \in Good /\ e \in Good
    BY <1>2, <1>3, GoodText, GoodName
  <1> HIDE DEF longer
  <1>7. a \in Good
    BY <1>3, <1>6, GoodName
  <1>8. Counted(r, byte) \in Good
    <2>1. byte \in Int
      BY DEF Byte
    <2> QED
      BY <2>1, CountedGood
  <1>9. y \in Good
    BY <1>6, HuntingGood, AcceptedGood
  <1> HIDE DEF a, y
  <1> QED
    BY <1>5, <1>7, <1>8, <1>9

LEMMA DigitFound ==
  ASSUME NEW symbol, {d[2] : d \in {x \in Digits : x[1] = Low(symbol)}} # {}
  PROVE  (CHOOSE m \in {d[2] : d \in {x \in Digits : x[1] = Low(symbol)}} : TRUE) \in 0 .. 15
  <1> DEFINE digit == {d[2] : d \in {x \in Digits : x[1] = Low(symbol)}}
  <1>1. \A x \in Digits : x[2] \in 0 .. 15
    BY DEF Digits
  <1>2. digit \subseteq 0 .. 15
    BY <1>1
  <1> HIDE DEF digit
  <1>3. digit # {} => (CHOOSE m \in digit : TRUE) \in 0 .. 15
    BY <1>2
  <1> QED
    BY <1>3 DEF digit

LEMMA HexGood ==
  ASSUME NEW r \in Good, r.at \in {"count", "header", "check"}, NEW symbol
  PROVE  rx_hex(r, symbol) \in Good
  <1> DEFINE digit == {d[2] : d \in {x \in Digits : x[1] = Low(symbol)}}
             n == CHOOSE m \in digit : TRUE
             a == [r EXCEPT !.nibble = n]
             b == [r EXCEPT !.nibble = -1]
             y == 16 * r.nibble + n
  <1>1. digit # {} => n \in 0 .. 15
    BY DigitFound
  <1>2. rx_hex(r, symbol) = IF digit = {} THEN Hunting(r)
                            ELSE IF r.nibble < 0 THEN a ELSE HeaderByte(b, y)
    BY DEF rx_hex
  <1>3. DOMAIN r = Fields /\ r.nibble \in -1 .. 15
    BY GoodIs, GoodFields
  <1> HIDE DEF n, digit
  <1>4. digit # {} /\ ~(r.nibble < 0) => y \in Byte
    BY <1>1, <1>3 DEF Byte
  <1>5. digit # {} => a \in Good
    <2>1. digit # {} => n \in -1 .. 15
      BY <1>1
    <2> QED
      BY <2>1, GoodCount
  <1>6. b \in Good /\ b.at = r.at
    <2>1. -1 \in -1 .. 15
      OBVIOUS
    <2> QED
      BY <1>3, <2>1, GoodCount DEF Fields
  <1> HIDE DEF y, a, b
  <1>7. digit # {} /\ ~(r.nibble < 0) => HeaderByte(b, y) \in Good
    BY <1>4, <1>6, HeaderByteGood
  <1> QED
    BY <1>2, <1>5, <1>7, HuntingGood

LEMMA HeaderTyped ==
  ASSUME NEW r \in Good, r.at \in AtHeader, r.event = "none", r.cancel \in 0 .. 4, NEW c \in Byte
  PROVE  rx_header(r, c) \in Good
  <1> DEFINE q == rx_cursor_raw(r, c)
             omen == r.style \in Omen
             d == Decoded(r, c, omen)
             e == d.r
             symbol == d.symbol
             s == rx_header(r, c)
             Middle == {"count", "header", "check"}
  <1>1. q \in Good /\ q.at = r.at
    <2>1. Steered(r)
      BY GoodIs
    <2> QED
      BY <2>1, RawGood, RawKeeps
  <1>2. e \in Good /\ e.at = r.at /\ symbol \in Symbols
    <2> HIDE DEF omen
    <2> QED
      BY DecodedGood DEF Like
  <1> DEFINE t1 == Scanned(q, c)  t2 == Terminated(q, c)
             t3 == IF symbol = Nothing THEN e ELSE Style(e, symbol % 128)
             t4 == OmenCount(q, c)  t5 == HeaderSymbol(e, symbol)
  <1>3. s = CASE q.event = "cancelled" -> q
              [] q.event # "cancelled" /\ r.at \in {"hunt", "pad", "pads"} -> t1
              [] q.event # "cancelled" /\ r.at \in {"cr", "lf"} -> t2
              [] q.event # "cancelled" /\ r.at = "style" -> t3
              [] q.event # "cancelled" /\ (r.at = "count" /\ r.style \in Omen) -> t4
              [] OTHER -> t5
    BY DEF rx_header
  <1> HIDE DEF q, d, e, symbol, omen
  <1>4. t1 \in Good /\ t2 \in Good
    BY <1>1, ScannedGood, TerminatedGood
  <1>5. t3 \in Good
    <2>1. \A x \in Symbols : x % 128 \in Byte
      BY DEF Symbols, Byte
    <2> DEFINE y == symbol % 128
    <2>2. y \in Byte
      BY <1>2, <2>1
    <2> HIDE DEF y
    <2>3. Style(e, y) \in Good
      BY <1>2, <2>2, StyleGood
    <2> QED
      BY <1>2, <2>3 DEF y
  <1>6. t4 \in Good
    <2>1. Low(c) - 34 \in Int
      BY DEF Low, Byte
    <2> DEFINE y == Low(c) - 34
    <2> HIDE DEF y
    <2>2. Counted(q, y) \in Good
      BY <1>1, <2>1, CountedGood DEF y
    <2> QED
      BY <1>1, <2>2 DEF OmenCount, y
  <1>7. r.at \in Middle => t5 \in Good
    <2> SUFFICES ASSUME r.at \in Middle PROVE t5 \in Good
      OBVIOUS
    <2>1. symbol = Nothing \/ symbol = Wrong \/ symbol > 255 \/ symbol \in Byte
      BY <1>2 DEF Symbols, Nothing, Wrong, Byte
    <2>2. Hunting(e) \in Good /\ rx_hex(e, symbol) \in Good
      BY <1>2, HuntingGood, HexGood
    <2>3. symbol \in Byte => HeaderByte(e, symbol) \in Good
      BY <1>2, HeaderByteGood
    <2> QED
      BY <1>2, <2>1, <2>2, <2>3 DEF HeaderSymbol
  <1>8. r.at \in {"hunt", "pad", "pads"} \/ r.at \in {"cr", "lf"} \/ r.at = "style" \/ r.at \in Middle
    BY DEF AtHeader
  <1> HIDE DEF t1, t2, t3, t4, t5, s
  <1>9. s \in Good
    <2>1. CASE q.event = "cancelled"
      BY <1>1, <1>3, <2>1
    <2>2. CASE q.event # "cancelled" /\ r.at \in {"hunt", "pad", "pads"}
      BY <1>3, <1>4, <2>2
    <2>3. CASE q.event # "cancelled" /\ r.at \in {"cr", "lf"}
      BY <1>3, <1>4, <2>3
    <2>4. CASE q.event # "cancelled" /\ r.at = "style"
      BY <1>3, <1>5, <2>4
    <2>5. CASE q.event # "cancelled" /\ r.at \in Middle
      BY <1>3, <1>6, <1>7, <2>5
    <2> QED
      BY <1>8, <2>1, <2>2, <2>3, <2>4, <2>5
  <1> QED
    BY <1>9 DEF s

----------------------------------------------------------------------------
(* The header that zmtx reads from a reply.                                *)

LEMMA GoodCtl ==
  ASSUME NEW r \in Good, NEW x \in BOOLEAN
  PROVE  [r EXCEPT !.ctl = x] \in Good
  <1>1. x \in Flag /\ r \in Shape /\ r.sum \in Word /\ r.value \in Word
    BY ShapeIs DEF Flag, Good
  <1>2. [r EXCEPT !.ctl = x] \in Shape
    BY <1>1 DEF Shape
  <1>3. ASSUME NEW s \in Shape, s.sum = r.sum, s.value = r.value PROVE s \in Good
    BY <1>1, <1>3, ShapeIs DEF Good
  <1>4. [r EXCEPT !.ctl = x].sum = r.sum /\ [r EXCEPT !.ctl = x].value = r.value
    BY <1>1 DEF Shape
  <1> QED
    BY <1>2, <1>3, <1>4

LEMMA StartedGood ==
  /\ Started \in Good /\ Started.event = "none" /\ Started.cancel = 0 /\ Started.at = "hunt"
  /\ Started.mode = "plain" /\ Started.style = 0 /\ Started.header = << >>
  <1>1. /\ FALSE \in Flag /\ "none" \in Events /\ 0 \in Byte /\ << >> \in Seq(Byte)
        /\ 0 \in 0 .. MaxRun /\ 0 \in 0 .. 5 /\ 0 \in 0 .. 17 /\ -1 \in -1 .. 15 /\ 0 \in 0 .. 4
    BY DEF Flag, Events, Byte, MaxRun
  <1> DEFINE zero == <<0, 0, 0, 0>>
  <1>2. zero \in Word /\ Crc32Start \in Word
    BY <1>1, StartWord, WordOf
  <1>3. zero \in Seq(Byte) /\ Crc32Start \in Seq(Byte)
    <2> HIDE DEF zero
    <2> QED
      BY <1>2, WordIsBytes
  <1> HIDE DEF zero
  <1>4. Started \in Shape
    BY <1>1, <1>3 DEF Shape, Started, zero
  <1>5. /\ Started.event = "none" /\ Started.cancel = 0 /\ Started.at = "hunt"
        /\ Started.mode = "plain" /\ Started.style = 0 /\ Started.header = << >>
    BY DEF Started
  <1>6. Started.sum = Crc32Start /\ Started.value = zero
    BY DEF Started, zero
  <1>7. Started \in Good
    BY <1>2, <1>4, <1>6, ShapeIs DEF Good
  <1> QED
    BY <1>5, <1>7

LEMMA PassedIs ==
  ASSUME NEW line \in Lines, NEW c \in Byte
  PROVE  \/ Passed(line, c) = << >> /\ IsFlow(c)
         \/ \E d \in Byte : Passed(line, c) = <<d>> /\ Low(d) = Low(c)
  <1>1. line \in {"clear", "flow", "zero", "mark"}
    BY DEF Lines
  <1>2. CASE line = "clear"
    BY <1>2 DEF Passed
  <1>3. CASE line = "flow"
    BY <1>3 DEF Passed
  <1>4. CASE line = "zero"
    <2>1. Low(c) \in Byte /\ Low(Low(c)) = Low(c)
      BY DEF Low, Byte
    <2> QED
      BY <1>4, <2>1 DEF Passed
  <1>5. CASE line = "mark"
    <2>1. Low(c) + 128 \in Byte /\ Low(Low(c) + 128) = Low(c)
      BY DEF Low, Byte
    <2>2. Passed(line, c) = <<Low(c) + 128>>
      BY <1>5 DEF Passed
    <2> QED
      BY <2>1, <2>2
  <1> QED
    BY <1>1, <1>2, <1>3, <1>4, <1>5

LEMMA PassedBytes ==
  ASSUME NEW line \in Lines, NEW s \in Seq(Byte)
  PROVE  [i \in 1 .. Len(s) |-> Passed(line, s[i])] \in Seq(Seq(Byte))
  <1> DEFINE n == Len(s)  parts == [i \in 1 .. n |-> Passed(line, s[i])]
  <1>1. n \in Nat /\ \A i \in 1 .. n : s[i] \in Byte
    BY SeqElements
  <1>2. ASSUME NEW i \in 1 .. n PROVE Passed(line, s[i]) \in Seq(Byte)
    <2>1. s[i] \in Byte
      BY <1>1
    <2>2. << >> \in Seq(Byte) /\ \A d \in Byte : <<d>> \in Seq(Byte)
      OBVIOUS
    <2> QED
      BY <2>1, <2>2, PassedIs
  <1>3. parts \in [1 .. n -> Seq(Byte)]
    BY <1>2
  <1> HIDE DEF n, parts
  <1>4. parts \in Seq(Seq(Byte))
    BY <1>1, <1>3, FunctionIsSeq
  <1> QED
    BY <1>4 DEF parts, n

LEMMA ThroughBytes ==
  ASSUME NEW line \in Lines, NEW s \in Seq(Byte)
  PROVE  Through(line, s) \in Seq(Byte)
  BY PassedBytes, FlattenAll DEF Through

LEMMA ThroughClear ==
  ASSUME NEW s \in Seq(Byte)
  PROVE  Through("clear", s) = s
  <1>1. [i \in 1 .. Len(s) |-> Passed("clear", s[i])] = [i \in 1 .. Len(s) |-> <<s[i]>>]
    BY DEF Passed
  <1>2. FlattenSeq([i \in 1 .. Len(s) |-> <<s[i]>>]) = s
    BY FlattenOnes
  <1> QED
    BY <1>1, <1>2 DEF Through

\* What is not flow control arrives on every line, but perhaps for its eighth bit.
LEMMA ThroughKeeps ==
  ASSUME NEW line \in Lines, NEW w \in Seq(Byte), NEW m \in 0 .. Len(w),
         \A i \in 1 .. m : ~IsFlow(w[i])
  PROVE  LET b == Through(line, w)
         IN  b \in Seq(Byte) /\ Len(b) >= m /\ \A i \in 1 .. m : Low(b[i]) = Low(w[i])
  <1> DEFINE n == Len(w)  parts == [i \in 1 .. n |-> Passed(line, w[i])]
  <1>1. n \in Nat /\ m \in Nat /\ m <= n /\ \A i \in 1 .. n : w[i] \in Byte
    BY SeqElements
  <1>2. parts \in Seq(Seq(Byte)) /\ Len(parts) = n
    BY <1>1, PassedBytes
  <1>3. PICK g : /\ g \in [0 .. n -> Seq(Byte)] /\ g[0] = << >>
                 /\ \A i \in 1 .. n : g[i] = g[i - 1] \o parts[i]
                 /\ FlattenSeq(parts) = g[n]
    <2> HIDE DEF parts, n
    <2>1. Len(parts) = n /\ parts \in Seq(Seq(Byte))
      BY <1>2
    <2>2. \E g : /\ g \in [0 .. Len(parts) -> Seq(Byte)] /\ g[0] = << >>
                 /\ \A i \in 1 .. Len(parts) : g[i] = g[i - 1] \o parts[i]
                 /\ FlattenSeq(parts) = g[Len(parts)]
      BY <2>1, Flattening
    <2> QED
      BY <2>1, <2>2
  <1>4. \A i \in 1 .. n : parts[i] = Passed(line, w[i])
    OBVIOUS
  <1>5. Through(line, w) = g[n]
    BY <1>3 DEF Through
  <1> HIDE DEF parts, n
  <1> DEFINE Good1(b, k) == /\ b \in Seq(Byte) /\ Len(b) >= k
                            /\ \A j \in 1 .. k : Low(b[j]) = Low(w[j])
             upto(i) == IF i <= m THEN i ELSE m
             T == {i \in 0 .. n : Good1(g[i], upto(i)) /\ (i <= m => Len(g[i]) = i)}
  <1>6. 0 \in T
    <2>1. Len(<< >>) = 0 /\ << >> \in Seq(Byte) /\ upto(0) = 0
      BY <1>1
    <2> QED
      BY <1>1, <1>3, <2>1
  <1>7. \A i \in 0 .. n - 1 : i \in T => i + 1 \in T
    <2> TAKE i \in 0 .. n - 1
    <2> HAVE i \in T
    <2> DEFINE b == g[i]  c == w[i + 1]  k == upto(i)  l == upto(i + 1)  d == Passed(line, c)
               h == b \o d
    <2>1. i + 1 \in 1 .. n /\ (i + 1) - 1 = i /\ i \in 0 .. n /\ i + 1 \in 0 .. n
      BY <1>1
    <2>2. g[i + 1] = h /\ c \in Byte
      BY <1>1, <1>3, <1>4, <2>1
    <2>3. Good1(b, k) /\ (i <= m => Len(b) = i)
      OBVIOUS
    <2>4. d \in Seq(Byte) /\ (i + 1 <= m => Len(d) = 1 /\ Low(d[1]) = Low(c))
      <3>1. \/ d = << >> /\ IsFlow(c)
            \/ \E x \in Byte : d = <<x>> /\ Low(x) = Low(c)
        BY <2>2, PassedIs
      <3>2. i + 1 <= m => ~IsFlow(c)
        BY <1>1, <2>1
      <3> HIDE DEF d, c
      <3>3. CASE d = << >> /\ IsFlow(c)
        BY <3>2, <3>3
      <3>4. CASE \E x \in Byte : d = <<x>> /\ Low(x) = Low(c)
        <4>1. PICK x \in Byte : d = <<x>> /\ Low(x) = Low(c)
          BY <3>4
        <4>2. d \in Seq(Byte) /\ Len(d) = 1 /\ d[1] = x
          BY <4>1
        <4> QED
          BY <4>1, <4>2
      <3> QED
        BY <3>1, <3>3, <3>4
    <2>5. b \in Seq(Byte) /\ Len(b) \in Nat
      BY <2>3
    <2> HIDE DEF d, b
    <2>6. h \in Seq(Byte) /\ Len(h) = Len(b) + Len(d)
          /\ \A j \in 1 .. Len(b) + Len(d) : h[j] = IF j <= Len(b) THEN b[j] ELSE d[j - Len(b)]
      BY <2>4, <2>5, Joined
    <2>7. Len(d) \in Nat
      BY <2>4
    <2> HIDE DEF h
    <2>8. i + 1 <= m => Len(h) = i + 1
      <3> SUFFICES ASSUME i + 1 <= m PROVE Len(h) = i + 1
        OBVIOUS
      <3>1. Len(b) = i /\ Len(d) = 1
        <4>1. i <= m
          BY <1>1, <2>1
        <4> QED
          BY <2>3, <2>4, <4>1
      <3> QED
        BY <2>6, <3>1
    <2>9. Len(h) >= l
      BY <1>1, <2>1, <2>3, <2>5, <2>6, <2>7, <2>8
    <2>10. \A j \in 1 .. l : Low(h[j]) = Low(w[j])
      <3> TAKE j \in 1 .. l
      <3>1. CASE j <= k
        <4>1. j \in 1 .. k /\ j <= Len(b) /\ j \in 1 .. Len(b) + Len(d)
          BY <1>1, <2>1, <2>3, <2>5, <2>7, <3>1
        <4>2. h[j] = b[j]
          BY <2>6, <4>1
        <4> QED
          BY <2>3, <4>1, <4>2
      <3>2. CASE ~(j <= k)
        <4>1. i + 1 <= m /\ j = i + 1 /\ Len(b) = i
          BY <1>1, <2>1, <2>3, <3>2
        <4>2. h[j] = d[1]
          <5>1. j \in 1 .. Len(b) + Len(d) /\ ~(j <= Len(b)) /\ j - Len(b) = 1
            <6>1. Len(d) = 1 /\ i \in Nat
              BY <2>1, <2>4, <4>1
            <6> QED
              BY <4>1, <6>1
          <5>2. h[j] = d[j - Len(b)]
            BY <2>6, <5>1
          <5> QED
            BY <5>1, <5>2, Zenon
        <4> QED
          BY <2>4, <4>1, <4>2
      <3> QED
        BY <3>1, <3>2
    <2>11. Good1(h, l)
      BY <2>6, <2>9, <2>10
    <2> QED
      BY <2>1, <2>2, <2>8, <2>11
  <1>8. n \in T
    <2>1. n \in 0 .. n
      BY <1>1
    <2> HIDE DEF T
    <2> QED
      BY <1>1, <1>6, <1>7, <2>1, BoundedInduction
  <1>9. upto(n) = m
    BY <1>1
  <1> QED
    BY <1>5, <1>8, <1>9

\* Nothing but the start of a header has been read.
Seeking(r, place) ==
  /\ DOMAIN r = Fields /\ r.event = "none"
  /\ r.cancel \in 0 .. 4 /\ (place \in {"pad", "pads"} => r.cancel = 0)
  /\ r.at = place /\ r.mode = "plain" /\ r.style = 0 /\ r.nibble = -1
  /\ r.header = << >> /\ r.crc = << >>

\* A header of p, with a byte before it that counts, unless it has the usual length.
Offset(p) == IF Len(p) = HDRLEN THEN 0 ELSE 1
Headers == {p \in Parameters : Len(p) >= HDRLEN}

\* The first k bytes that p spells have been read.
Spelled(r, p, k) ==
  /\ DOMAIN r = Fields /\ r.event = "none" /\ r.mode = "plain"
  /\ r.style = IF Len(p) = HDRLEN THEN ZHEX ELSE ZVHEX
  /\ \/ k < Offset(p) /\ r.at = "count" /\ r.header = << >> /\ r.crc = << >>
     \/ /\ k \in Offset(p) .. Offset(p) + Len(p) - 1 /\ r.at = "header" /\ r.want = Len(p)
        /\ r.header = SubSeq(p, 1, k - Offset(p)) /\ r.crc = << >>
     \/ /\ k \in Offset(p) + Len(p) .. Offset(p) + Len(p) + 1 /\ r.at = "check"
        /\ r.header = p /\ r.crc = SubSeq(Crc16(p), 1, k - (Offset(p) + Len(p)))
     \/ k = Offset(p) + Len(p) + 2 /\ r.at = "cr" /\ r.header = p

LEMMA HeadersAre ==
  ASSUME NEW p \in Seq(Byte), Len(p) \in 5 .. 17
  PROVE  p \in Headers
  <1> DEFINE n == Len(p)
  <1>1. n \in 5 .. 17
    OBVIOUS
  <1> HIDE DEF n
  <1>2. n >= HDRLEN /\ n \in 1 .. 17
    BY <1>1 DEF HDRLEN
  <1> QED
    BY <1>2, Zenon DEF Headers, Parameters, n

LEMMA SpeltIs ==
  ASSUME NEW p \in Headers
  PROVE  LET q == Spelt(p)  o == Offset(p)  m == Len(p)  check == Crc16(p)
         IN  /\ p \in Seq(Byte) /\ m \in 5 .. 17 /\ o \in 0 .. 1 /\ check \in Seq(Byte) /\ Len(check) = 2
             /\ q \in Seq(Byte) /\ Len(q) = o + m + 2
             /\ o = 1 => q[1] = m - 1
             /\ \A i \in 1 .. m : q[o + i] = p[i]
             /\ \A i \in 1 .. 2 : q[o + m + i] = check[i]
  <1> DEFINE o == Offset(p)  m == Len(p)  check == Crc16(p)  one == <<m - 1>>
             c0 == IF m = HDRLEN THEN << >> ELSE one
             a == c0 \o p  q == a \o check
  <1>1. p \in Seq(Byte) /\ m \in 5 .. 17 /\ o \in 0 .. 1 /\ check \in Seq(Byte) /\ Len(check) = 2
        /\ (o = 0 <=> m = HDRLEN)
    <2>1. p \in Parameters /\ Len(p) >= 5
      BY DEF Headers, HDRLEN
    <2>2. p \in Seq(Byte) /\ Len(p) \in 1 .. 17
      BY <2>1 DEF Parameters
    <2>3. m \in 5 .. 17
      <3>1. m >= 5 /\ m \in 1 .. 17
        BY <2>1, <2>2
      <3> HIDE DEF m
      <3> QED
        BY <3>1
    <2>4. check \in Seq(Byte) /\ Len(check) = 2
      BY <2>2, Crc16Bytes
    <2>5. o \in 0 .. 1 /\ (o = 0 <=> m = HDRLEN)
      BY DEF Offset
    <2> QED
      BY <2>2, <2>3, <2>4, <2>5
  <1>2. c0 \in Seq(Byte) /\ Len(c0) = o /\ (o = 1 => c0[1] = m - 1)
    <2>1. m - 1 \in Byte
      BY <1>1 DEF Byte
    <2>2. one \in Seq(Byte) /\ Len(one) = 1 /\ one[1] = m - 1
      BY <2>1
    <2> HIDE DEF one
    <2>3. << >> \in Seq(Byte) /\ Len(<< >>) = 0
      OBVIOUS
    <2> HIDE DEF o, m
    <2> QED
      BY <1>1, <2>2, <2>3
  <1>3. Spelt(p) = q
    BY DEF Spelt
  <1> HIDE DEF c0, check, o, m
  <1>4. a \in Seq(Byte) /\ Len(a) = o + m
        /\ \A i \in 1 .. o + m : a[i] = IF i <= o THEN c0[i] ELSE p[i - o]
    <2>1. a \in Seq(Byte) /\ Len(a) = Len(c0) + Len(p)
          /\ \A i \in 1 .. Len(c0) + Len(p) : a[i] = IF i <= Len(c0) THEN c0[i] ELSE p[i - Len(c0)]
      BY <1>1, <1>2, Joined
    <2> QED
      BY <1>2, <2>1 DEF m
  <1> HIDE DEF a
  <1>5. q \in Seq(Byte) /\ Len(q) = o + m + 2
        /\ \A i \in 1 .. o + m + 2 : q[i] = IF i <= o + m THEN a[i] ELSE check[i - (o + m)]
    <2>1. q \in Seq(Byte) /\ Len(q) = Len(a) + Len(check)
          /\ \A i \in 1 .. Len(a) + Len(check) :
               q[i] = IF i <= Len(a) THEN a[i] ELSE check[i - Len(a)]
      BY <1>1, <1>4, Joined
    <2> QED
      BY <1>1, <1>4, <2>1
  <1> HIDE DEF q
  <1>6. o = 1 => q[1] = m - 1
    <2>1. o = 1 => q[1] = a[1] /\ a[1] = c0[1]
      BY <1>1, <1>4, <1>5
    <2> QED
      BY <1>2, <2>1
  <1>7. \A i \in 1 .. m : q[o + i] = p[i]
    <2> TAKE i \in 1 .. m
    <2>1. o + i \in 1 .. o + m /\ o + i \in 1 .. o + m + 2 /\ ~(o + i <= o) /\ (o + i) - o = i
          /\ o + i <= o + m
      BY <1>1
    <2> QED
      BY <1>4, <1>5, <2>1
  <1>8. \A i \in 1 .. 2 : q[o + m + i] = check[i]
    <2> TAKE i \in 1 .. 2
    <2>1. o + m + i \in 1 .. o + m + 2 /\ ~(o + m + i <= o + m) /\ (o + m + i) - (o + m) = i
      BY <1>1
    <2> QED
      BY <1>5, <2>1
  <1> QED
    BY <1>1, <1>3, <1>5, <1>6, <1>7, <1>8 DEF o, m, check

LEMMA OneFurther ==
  ASSUME NEW s \in Seq(Byte), NEW m \in 0 .. Len(s) - 1
  PROVE  /\ Append(SubSeq(s, 1, m), s[m + 1]) = SubSeq(s, 1, m + 1)
         /\ Len(Append(SubSeq(s, 1, m), s[m + 1])) = m + 1
         /\ (m + 1 = Len(s) => SubSeq(s, 1, m + 1) = s)
  <1>1. m \in Int /\ Len(s) \in Nat /\ 0 <= m /\ m + 1 <= Len(s)
    OBVIOUS
  <1> DEFINE a == SubSeq(s, 1, m)  b == SubSeq(s, 1, m + 1)  c == s[m + 1]
  <1>2. a \in Seq(Byte) /\ Len(a) = m /\ \A i \in 1 .. m : a[i] = s[i]
    BY <1>1
  <1>3. b \in Seq(Byte) /\ Len(b) = m + 1 /\ \A i \in 1 .. m + 1 : b[i] = s[i]
    BY <1>1
  <1>4. c \in Byte
    BY <1>1
  <1> HIDE DEF a, b, c
  <1>5. Append(a, c) \in Seq(Byte) /\ Len(Append(a, c)) = m + 1
        /\ \A i \in 1 .. m + 1 : Append(a, c)[i] = IF i = m + 1 THEN c ELSE a[i]
    BY <1>1, <1>2, <1>4
  <1> DEFINE d == Append(a, c)
  <1> HIDE DEF d
  <1>6. d \in Seq(Byte) /\ Len(d) = m + 1 /\ \A i \in 1 .. m + 1 : d[i] = b[i]
    BY <1>1, <1>2, <1>3, <1>5 DEF c, d
  <1>7. d = b
    BY <1>1, <1>3, <1>6
  <1>8. m + 1 = Len(s) => b = s
    BY <1>1, <1>3
  <1> QED
    BY <1>6, <1>7, <1>8 DEF a, b, c, d

LEMMA ByteSpelled ==
  ASSUME NEW p \in Headers, NEW k \in 0 .. Offset(p) + Len(p) + 1, NEW r, Spelled(r, p, k)
  PROVE  LET s == HeaderByte(r, Spelt(p)[k + 1])
         IN  Spelled(s, p, k + 1) /\ s.nibble = r.nibble
  <1> DEFINE o == Offset(p)  m == Len(p)  check == Crc16(p)  q == Spelt(p)  c == q[k + 1]
             header == Append(r.header, c)
             crc == Append(r.crc, c)
             x == IF Len(p) = HDRLEN THEN ZHEX ELSE ZVHEX
  <1>1. /\ p \in Seq(Byte) /\ m \in 5 .. 17 /\ o \in 0 .. 1 /\ check \in Seq(Byte) /\ Len(check) = 2
        /\ o = 1 => q[1] = m - 1
        /\ \A i \in 1 .. m : q[o + i] = p[i]
        /\ \A i \in 1 .. 2 : q[o + m + i] = check[i]
    BY SpeltIs
  <1>2. DOMAIN r = Fields /\ r.event = "none" /\ r.mode = "plain" /\ r.style = x
    BY DEF Spelled
  <1>3. x \in {ZHEX, ZVHEX} /\ x \notin Omen /\ x \notin {ZBINM32}
    BY DEF ZHEX, ZVHEX, Omen, ZBINR32ESC8, ZBINP7, ZBINM32
  <1> DEFINE s == HeaderByte(r, c)
  <1> SUFFICES Spelled(s, p, k + 1) /\ s.nibble = r.nibble
    OBVIOUS
  <1>4. CASE k < o /\ r.at = "count" /\ r.header = << >> /\ r.crc = << >>
    <2>1. k = 0 /\ o = 1 /\ c = m - 1
      BY <1>1, <1>4
    <2> DEFINE t == [r EXCEPT !.want = c + 1, !.at = "header"]
    <2>2. s = t
      <3>1. s = Counted(r, c)
        BY <1>4 DEF HeaderByte
      <3>2. c \in (IF r.style \in Omen THEN 0 ELSE HDRLEN - 1) .. ZMAXHLEN
        <4>1. m \in 5 .. 17 /\ c = m - 1 /\ r.style \notin Omen
          BY <1>1, <1>2, <1>3, <2>1
        <4> HIDE DEF m, c
        <4>2. c \in 4 .. 16
          BY <4>1
        <4> QED
          BY <4>1, <4>2 DEF HDRLEN, ZMAXHLEN
      <3> QED
        BY <3>1, <3>2 DEF Counted
    <2>3. t.want = m /\ t.at = "header" /\ t.header = << >> /\ t.crc = << >> /\ DOMAIN t = Fields
          /\ t.event = "none" /\ t.mode = "plain" /\ t.style = x /\ t.nibble = r.nibble
      BY <1>1, <1>2, <1>4, <2>1 DEF Fields
    <2> HIDE DEF s, t
    <2>4. SubSeq(p, 1, 0) = << >>
      BY <1>1
    <2>5. k + 1 \in o .. o + m - 1 /\ (k + 1) - o = 0
      <3>1. k = 0 /\ o = 1 /\ m \in 5 .. 17
        BY <1>1, <2>1
      <3> HIDE DEF o, m
      <3> QED
        BY <3>1
    <2>6. t.header = SubSeq(p, 1, (k + 1) - o)
      <3> DEFINE z == (k + 1) - o
      <3>1. z = 0 /\ t.header = << >>
        BY <2>3, <2>5
      <3> HIDE DEF z
      <3>2. t.header = SubSeq(p, 1, z)
        BY <2>4, <3>1
      <3> QED
        BY <3>2 DEF z
    <2>7. Spelled(t, p, k + 1)
      BY <2>3, <2>5, <2>6 DEF Spelled, o, m, x
    <2> QED
      BY <2>2, <2>3, <2>7
  <1>5. CASE /\ k \in o .. o + m - 1 /\ r.at = "header" /\ r.want = m
             /\ r.header = SubSeq(p, 1, k - o) /\ r.crc = << >>
    <2> DEFINE y == IF Len(header) = r.want THEN "check" ELSE r.at
               t == [r EXCEPT !.header = header, !.at = y]
    <2>1. s = t
      BY <1>5 DEF HeaderByte
    <2>2. k - o \in 0 .. m - 1 /\ (k - o) + 1 = (k + 1) - o /\ (k - o) + 1 \in 1 .. m
          /\ o + ((k - o) + 1) = k + 1
      BY <1>1, <1>5
    <2>3. c = p[(k - o) + 1]
      BY <1>1, <2>2
    <2>4. header = SubSeq(p, 1, (k - o) + 1) /\ Len(header) = (k - o) + 1
          /\ ((k - o) + 1 = m => header = p)
      <3> DEFINE j == k - o
      <3>1. j \in 0 .. Len(p) - 1
        BY <2>2
      <3>2. header = Append(SubSeq(p, 1, j), p[j + 1])
        BY <1>5, <2>3
      <3> HIDE DEF j
      <3> QED
        BY <1>1, <3>1, <3>2, OneFurther DEF j, m
    <2>5. t.want = m /\ t.at = y /\ t.header = header /\ t.crc = << >> /\ DOMAIN t = Fields
          /\ t.event = "none" /\ t.mode = "plain" /\ t.style = x /\ t.nibble = r.nibble
      <3> HIDE DEF header, y
      <3> QED
        BY <1>2, <1>5 DEF Fields
    <2>6. y = IF k + 1 = o + m THEN "check" ELSE "header"
      <3>1. o \in Int /\ m \in Int /\ k \in Int /\ Len(header) = (k - o) + 1
            /\ r.want = m /\ r.at = "header"
        BY <1>1, <1>5, <2>4
      <3> HIDE DEF header, o, m
      <3>2. Len(header) = r.want <=> k + 1 = o + m
        BY <3>1
      <3> QED
        BY <3>1, <3>2
    <2> HIDE DEF s, t, header, y, c
    <2>7. CASE k + 1 = o + m
      <3>1. SubSeq(check, 1, 0) = << >> /\ (k + 1) - (o + m) = 0 /\ (k - o) + 1 = m
        BY <1>1, <2>7
      <3>2. t.crc = SubSeq(check, 1, (k + 1) - (o + m)) /\ k + 1 \in o + m .. o + m + 1
        BY <1>1, <2>5, <2>7, <3>1
      <3>3. t.header = p /\ t.at = "check"
        BY <2>4, <2>5, <2>6, <2>7, <3>1
      <3>4. Spelled(t, p, k + 1)
        BY <2>5, <3>2, <3>3 DEF Spelled, o, m, x, check
      <3> QED
        BY <2>1, <2>5, <3>4
    <2>8. CASE k + 1 # o + m
      <3>1. k + 1 \in o .. o + m - 1
        <4>1. o \in 0 .. 1 /\ m \in 5 .. 17 /\ k \in o .. o + m - 1 /\ k + 1 # o + m
          BY <1>1, <1>5, <2>8
        <4> HIDE DEF o, m
        <4> QED
          BY <4>1
      <3>2. t.header = SubSeq(p, 1, (k + 1) - o) /\ t.at = "header"
        BY <2>2, <2>4, <2>5, <2>6, <2>8
      <3>3. Spelled(t, p, k + 1)
        BY <2>5, <3>1, <3>2 DEF Spelled, o, m, x
      <3> QED
        BY <2>1, <2>5, <3>3
    <2> QED
      BY <2>7, <2>8
  <1>6. CASE /\ k \in o + m .. o + m + 1 /\ r.at = "check"
             /\ r.header = p /\ r.crc = SubSeq(check, 1, k - (o + m))
    <2> DEFINE j == k - (o + m)
               t == [r EXCEPT !.crc = crc]  e == [r EXCEPT !.at = "cr"]
    <2>1. j \in 0 .. 1 /\ k + 1 = o + m + (j + 1) /\ j + 1 \in 1 .. 2
      BY <1>1, <1>6
    <2>2. c = check[j + 1]
      BY <1>1, <2>1
    <2>3. crc = SubSeq(check, 1, j + 1) /\ Len(crc) = j + 1 /\ (j + 1 = 2 => crc = check)
      <3>1. crc = Append(SubSeq(check, 1, j), check[j + 1])
        BY <1>6, <2>2
      <3>2. j \in 0 .. Len(check) - 1
        BY <1>1, <2>1
      <3> HIDE DEF j, check, crc
      <3> QED
        BY <1>1, <3>1, <3>2, OneFurther
    <2>4. Checksum(r) = check
      BY <1>2, <1>3, <1>6 DEF Checksum
    <2>5. s = IF j = 0 THEN t ELSE e
      <3>1. s = IF Len(crc) < 2 THEN t ELSE IF crc # Checksum(r) THEN Hunting(r) ELSE e
        BY <1>2, <1>3, <1>6 DEF HeaderByte
      <3> HIDE DEF s, t, e, crc, check, j
      <3>2. CASE j = 0
        BY <2>3, <3>1, <3>2
      <3>3. CASE j = 1
        BY <2>3, <2>4, <3>1, <3>3
      <3> QED
        BY <2>1, <3>2, <3>3
    <2>6. t.at = "check" /\ t.header = p /\ t.crc = crc /\ DOMAIN t = Fields
          /\ t.event = "none" /\ t.mode = "plain" /\ t.style = x /\ t.nibble = r.nibble
      <3> HIDE DEF crc
      <3> QED
        BY <1>2, <1>6 DEF Fields
    <2>7. e.at = "cr" /\ e.header = p /\ DOMAIN e = Fields
          /\ e.event = "none" /\ e.mode = "plain" /\ e.style = x /\ e.nibble = r.nibble
      BY <1>2, <1>6 DEF Fields
    <2> HIDE DEF s, t, e, crc, c
    <2>8. CASE j = 0
      <3>1. k + 1 \in o + m .. o + m + 1 /\ (k + 1) - (o + m) = j + 1
        BY <1>1, <2>1, <2>8
      <3>2. t.crc = SubSeq(check, 1, (k + 1) - (o + m))
        BY <2>3, <2>6, <3>1
      <3>3. Spelled(t, p, k + 1)
        BY <2>6, <3>1, <3>2 DEF Spelled, o, m, x, check
      <3> QED
        BY <2>5, <2>6, <2>8, <3>3
    <2>9. CASE j = 1
      <3>1. k + 1 = o + m + 2
        BY <1>1, <2>1, <2>9
      <3>2. Spelled(e, p, k + 1)
        BY <2>7, <3>1 DEF Spelled, o, m, x
      <3> QED
        BY <2>5, <2>7, <2>9, <3>2
    <2> QED
      BY <2>1, <2>8, <2>9
  <1>7. k # o + m + 2
    BY <1>1 DEF o, m
  <1> HIDE DEF s
  <1> QED
    BY <1>4, <1>5, <1>6, <1>7 DEF Spelled, o, m, check

LEMMA NibbleFound ==
  ASSUME NEW n \in 0 .. 15, NEW c \in Byte, Low(c) = tx_nibble(n)
  PROVE  /\ {d[2] : d \in {x \in Digits : x[1] = Low(c)}} = {n}
         /\ c # ZDLE /\ c # CAN /\ ~IsFlow(c) /\ ~IsControl(c)
  <1>1. Low(c) = IF n < 10 THEN 48 + n ELSE 87 + n
    BY DEF tx_nibble
  <1>2. /\ \A m \in 0 .. 9 : 48 + m = Low(c) <=> m = n
        /\ \A m \in 10 .. 15 : 87 + m = Low(c) <=> m = n
    BY <1>1
  <1> DEFINE D1 == {<<48 + m, m>> : m \in 0 .. 9}  D2 == {<<87 + m, m>> : m \in 10 .. 15}
             here == {x \in Digits : x[1] = Low(c)}
  <1>3. Digits = D1 \cup D2
    BY DEF Digits
  <1>4. \A x \in D1 : x[1] = Low(c) => x[2] = n
    BY <1>2
  <1>5. \A x \in D2 : x[1] = Low(c) => x[2] = n
    BY <1>2
  <1> DEFINE own == <<Low(c), n>>
  <1>6. own \in D1 \cup D2 /\ own[1] = Low(c) /\ own[2] = n
    <2>1. CASE n < 10
      <3>1. n \in 0 .. 9 /\ Low(c) = 48 + n
        BY <1>1, <2>1
      <3> QED
        BY <3>1
    <2>2. CASE ~(n < 10)
      <3>1. n \in 10 .. 15 /\ Low(c) = 87 + n
        BY <1>1, <2>2
      <3> QED
        BY <3>1
    <2> QED
      BY <2>1, <2>2
  <1> HIDE DEF D1, D2, own
  <1>7. {d[2] : d \in here} = {n}
    <2>1. own \in here
      BY <1>3, <1>6
    <2>2. \A x \in here : x[2] = n
      BY <1>3, <1>4, <1>5
    <2> HIDE DEF here
    <2> QED
      BY <1>6, <2>1, <2>2
  <1>8. c # ZDLE /\ c # CAN /\ ~IsFlow(c) /\ ~IsControl(c)
    <2>1. Low(c) \in 48 .. 57 \/ Low(c) \in 97 .. 102
      BY <1>1
    <2>2. c \in 0 .. 255
      BY DEF Byte
    <2> QED
      BY <2>1, <2>2 DEF ZDLE, CAN, IsFlow, IsControl, Low, XON, XOFF
  <1> QED
    BY <1>7, <1>8

\* What a byte that is no CAN leaves of the cursor between symbols.
Calmed(r) == [[r EXCEPT !.cancel = 0] EXCEPT !.mode = "plain"]

LEMMA DigitRead ==
  ASSUME NEW n \in 0 .. 15, NEW c \in Byte, Low(c) = tx_nibble(n),
         NEW r, DOMAIN r = Fields, r.event = "none", r.mode = "plain",
         r.style \in {ZHEX, ZVHEX}, r.at \in {"count", "header", "check"}
  PROVE  LET q == Calmed(r)
         IN  rx_header(r, c) = IF r.nibble < 0 THEN [q EXCEPT !.nibble = n]
                               ELSE HeaderByte([q EXCEPT !.nibble = -1], 16 * r.nibble + n)
  <1> DEFINE raised == rx_cursor_raw(r, c)
             q == Calmed(r)
             omen == r.style \in Omen
             d == Decoded(r, c, omen)
  <1>1. /\ {x[2] : x \in {y \in Digits : y[1] = Low(c)}} = {n}
        /\ c # ZDLE /\ c # CAN /\ ~IsFlow(c) /\ ~IsControl(c)
    BY NibbleFound
  <1>2. raised = [r EXCEPT !.cancel = 0]
    BY <1>1 DEF rx_cursor_raw
  <1>3. raised.event = "none"
    BY <1>2 DEF Fields
  <1>4. ~omen
    BY DEF Omen, ZBINR32ESC8, ZBINP7, ZHEX, ZVHEX
  <1>5. rx_cursor(r, c) = <<"plain", c>>
    BY <1>1 DEF rx_cursor, rx_is_unescaped_control
  <1>6. d.r = q /\ d.symbol = c
    BY <1>2, <1>3, <1>4, <1>5 DEF Decoded, Calmed
  <1>7. rx_header(r, c) = HeaderSymbol(q, c)
    <2> HIDE DEF raised, q, d
    <2>1. rx_header(r, c) = HeaderSymbol(d.r, d.symbol)
      BY <1>3, <1>4 DEF rx_header, raised, d
    <2> QED
      BY <1>6, <2>1
  <1>8. q.style = r.style /\ q.nibble = r.nibble
    BY DEF Calmed, Fields
  <1> HIDE DEF q
  <1>9. HeaderSymbol(q, c) = rx_hex(q, c)
    <2>1. c # Nothing /\ c # Wrong /\ ~(c > 255)
      BY DEF Byte, Nothing, Wrong
    <2> QED
      BY <1>8, <2>1 DEF HeaderSymbol
  <1>10. (CHOOSE m \in {n} : TRUE) = n
    OBVIOUS
  <1>11. rx_hex(q, c) = IF q.nibble < 0 THEN [q EXCEPT !.nibble = n]
                        ELSE HeaderByte([q EXCEPT !.nibble = -1], 16 * q.nibble + n)
    BY <1>1, <1>10 DEF rx_hex
  <1> QED
    BY <1>7, <1>8, <1>9, <1>11 DEF q

\* What Spelled looks at is the same.
Unmoved(s, r) ==
  /\ DOMAIN s = Fields /\ s.event = r.event /\ s.mode = r.mode /\ s.style = r.style
  /\ s.at = r.at /\ s.want = r.want /\ s.header = r.header /\ s.crc = r.crc

LEMMA SpelledUnmoved ==
  ASSUME NEW p, NEW k, NEW r, NEW s, Spelled(r, p, k), Unmoved(s, r)
  PROVE  Spelled(s, p, k)
  BY DEF Spelled, Unmoved

LEMMA SpelledPlace ==
  ASSUME NEW p \in Headers, NEW k \in 0 .. Offset(p) + Len(p) + 1, NEW r, Spelled(r, p, k)
  PROVE  /\ DOMAIN r = Fields /\ r.event = "none" /\ r.mode = "plain"
         /\ r.style \in {ZHEX, ZVHEX} /\ r.at \in {"count", "header", "check"}
  <1>1. Len(p) \in 5 .. 17 /\ Offset(p) \in 0 .. 1
    BY SpeltIs
  <1>2. k # Offset(p) + Len(p) + 2
    BY <1>1
  <1> QED
    BY <1>2 DEF Spelled

LEMMA NibbleSet ==
  ASSUME NEW r, DOMAIN r = Fields, r.mode = "plain", NEW n
  PROVE  LET s == [Calmed(r) EXCEPT !.nibble = n] IN Unmoved(s, r) /\ s.nibble = n
  <1> DEFINE a == [r EXCEPT !.cancel = 0]  b == [a EXCEPT !.mode = "plain"]
             s == [b EXCEPT !.nibble = n]
  <1>1. Unmoved(a, r)
    BY DEF Unmoved, Fields
  <1> HIDE DEF a
  <1>2. Unmoved(b, r)
    BY <1>1 DEF Unmoved, Fields
  <1> HIDE DEF b
  <1>3. Unmoved(s, r) /\ s.nibble = n
    BY <1>2 DEF Unmoved, Fields
  <1> QED
    BY <1>3 DEF Calmed, a, b

LEMMA DigitsRead ==
  ASSUME NEW p \in Headers, NEW k \in 0 .. Offset(p) + Len(p) + 1,
         NEW r, Spelled(r, p, k), r.nibble = -1,
         NEW c \in Byte, Low(c) = tx_nibble(Spelt(p)[k + 1] \div 16),
         NEW d \in Byte, Low(d) = tx_nibble(Spelt(p)[k + 1] % 16)
  PROVE  LET s == rx_header(r, c)
             t == rx_header(s, d)
         IN  s.event = "none" /\ Spelled(t, p, k + 1) /\ t.nibble = -1
  <1> DEFINE x == Spelt(p)[k + 1]  h == x \div 16  l == x % 16
             s == rx_header(r, c)  t == rx_header(s, d)
  <1>1. x \in Byte
    <2> DEFINE q == Spelt(p)
    <2>1. q \in Seq(Byte) /\ Len(q) = Offset(p) + Len(p) + 2 /\ Offset(p) \in 0 .. 1 /\ Len(p) \in 5 .. 17
      BY SpeltIs
    <2> HIDE DEF q
    <2>2. k + 1 \in 1 .. Len(q)
      BY <2>1
    <2>3. q[k + 1] \in Byte
      BY <2>1, <2>2
    <2> QED
      BY <2>3 DEF q
  <1>2. h \in 0 .. 15 /\ l \in 0 .. 15 /\ 16 * h + l = x
    <2> HIDE DEF x
    <2> QED
      BY <1>1 DEF Byte
  <1>12. Low(c) = tx_nibble(h) /\ Low(d) = tx_nibble(l)
    OBVIOUS
  <1> HIDE DEF h, l
  <1>3. /\ DOMAIN r = Fields /\ r.event = "none" /\ r.mode = "plain"
        /\ r.style \in {ZHEX, ZVHEX} /\ r.at \in {"count", "header", "check"}
    BY SpelledPlace
  <1>4. s = [Calmed(r) EXCEPT !.nibble = h]
    <2>1. s = IF r.nibble < 0 THEN [Calmed(r) EXCEPT !.nibble = h]
              ELSE HeaderByte([Calmed(r) EXCEPT !.nibble = -1], 16 * r.nibble + h)
      <3> HIDE DEF s
      <3> QED
        BY <1>2, <1>3, <1>12, DigitRead DEF s
    <2> HIDE DEF s
    <2> QED
      BY <2>1
  <1>5. Unmoved(s, r) /\ s.nibble = h
    BY <1>3, <1>4, NibbleSet, SMTT(60)
  <1> HIDE DEF s
  <1>6. Spelled(s, p, k)
    BY <1>5, SpelledUnmoved
  <1>7. /\ DOMAIN s = Fields /\ s.event = "none" /\ s.mode = "plain"
        /\ s.style \in {ZHEX, ZVHEX} /\ s.at \in {"count", "header", "check"}
    BY <1>6, SpelledPlace
  <1> DEFINE u == [Calmed(s) EXCEPT !.nibble = -1]
  <1>8. t = HeaderByte(u, x)
    <2>1. t = IF s.nibble < 0 THEN [Calmed(s) EXCEPT !.nibble = l]
              ELSE HeaderByte(u, 16 * s.nibble + l)
      <3> HIDE DEF t, u
      <3> QED
        BY <1>2, <1>7, <1>12, DigitRead DEF t, u
    <2> HIDE DEF t, u, x
    <2> QED
      BY <1>2, <1>5, <2>1
  <1>9. Unmoved(u, s) /\ u.nibble = -1
    BY <1>7, NibbleSet
  <1> HIDE DEF u, t
  <1>10. Spelled(u, p, k)
    BY <1>6, <1>9, SpelledUnmoved
  <1>11. Spelled(t, p, k + 1) /\ t.nibble = -1
    BY <1>8, <1>9, <1>10, ByteSpelled DEF x
  <1> QED
    BY <1>7, <1>11 DEF s, t

LEMMA SeekingPad ==
  ASSUME NEW r, NEW c \in Byte, Low(c) = ZPAD, NEW place, NEW next, Seeking(r, place),
         \/ place = "hunt" /\ next = "pad"
         \/ place = "pad" /\ next = "pads"
  PROVE  Seeking(rx_header(r, c), next)
  <1> DEFINE q == [r EXCEPT !.cancel = 0]  s == rx_header(r, c)
             p == IF place = "hunt" THEN Probed(q, c) ELSE q
             t == [p EXCEPT !.at = next]
  <1>1. c # CAN
    BY DEF Low, ZPAD, CAN
  <1>2. rx_cursor_raw(r, c) = q
    BY <1>1 DEF rx_cursor_raw
  <1>3. Seeking(q, place) /\ q.cancel = 0
    BY DEF Seeking, Fields
  <1>4. q.event = "none" /\ r.at = place /\ q.at = place /\ DOMAIN q = Fields
    BY <1>3 DEF Seeking
  <1> HIDE DEF q
  <1>5. s = Scanned(q, c)
    BY <1>2, <1>4 DEF rx_header
  <1>6. Scanned(q, c) = t
    <2>1. Low(c) = ZPAD /\ ZPAD # ZDLE
      BY DEF ZPAD, ZDLE
    <2>2. CASE place = "hunt" /\ next = "pad"
      BY <1>4, <2>1, <2>2 DEF Scanned
    <2>3. CASE place = "pad" /\ next = "pads"
      <3>1. Scanned(q, c) = [q EXCEPT !.at = "pads"]
        BY <1>4, <2>1, <2>3 DEF Scanned
      <3> QED
        BY <2>3, <3>1
    <2> QED
      BY <2>2, <2>3
  <1>7. Seeking(p, place) /\ p.cancel = 0
    BY <1>3, <1>4 DEF Probed, Seeking, Fields
  <1> HIDE DEF p
  <1>8. Seeking(t, next)
    BY <1>7 DEF Seeking, Fields
  <1> QED
    BY <1>5, <1>6, <1>8

LEMMA SeekingQuote ==
  ASSUME NEW r, NEW c \in Byte, Low(c) = ZDLE, NEW place \in {"pad", "pads"}, Seeking(r, place)
  PROVE  Seeking(rx_header(r, c), "style")
  <1> DEFINE q == rx_cursor_raw(r, c)  t == [q EXCEPT !.at = "style"]
  <1>1. DOMAIN q = Fields /\ q.event = "none" /\ q.cancel \in 0 .. 1 /\ q.at = place
        /\ q.mode = "plain" /\ q.style = 0 /\ q.nibble = -1 /\ q.header = << >> /\ q.crc = << >>
    BY DEF rx_cursor_raw, Seeking, Fields
  <1>2. r.at = place
    BY DEF Seeking
  <1>3. rx_header(r, c) = Scanned(q, c)
    BY <1>1, <1>2 DEF rx_header
  <1> HIDE DEF q
  <1>4. Scanned(q, c) = t
    BY <1>1 DEF Scanned, ZPAD, ZDLE
  <1>5. Seeking(t, "style")
    BY <1>1 DEF Seeking, Fields
  <1> QED
    BY <1>3, <1>4, <1>5

\* The byte after them is the style.
LEMMA StyleArrives ==
  ASSUME NEW r, NEW c \in Byte, Seeking(r, "style"), Low(c) \in 49 .. 100
  PROVE  rx_header(r, c) = Style([r EXCEPT !.cancel = 0], Low(c))
  <1> DEFINE q == rx_cursor_raw(r, c)
             omen == r.style \in Omen
             d == Decoded(r, c, omen)
             e == d.r
             s == rx_header(r, c)
             rested == [r EXCEPT !.cancel = 0]
  <1>1. DOMAIN r = Fields /\ r.event = "none" /\ r.at = "style" /\ r.mode = "plain" /\ r.style = 0
    BY DEF Seeking
  <1>2. c \in 49 .. 100 \/ c \in 177 .. 228
    BY DEF Low, Byte
  <1>3. c # ZDLE /\ c # CAN /\ ~IsFlow(c) /\ ~IsControl(c) /\ c # Nothing
    BY <1>2 DEF ZDLE, CAN, IsFlow, Low, XON, XOFF, IsControl, Nothing
  <1>4. q = rested /\ q.event = "none"
    BY <1>1, <1>3 DEF rx_cursor_raw, Fields
  <1>5. ~omen
    BY <1>1 DEF Omen, ZBINR32ESC8, ZBINP7
  <1>6. rx_cursor(r, c) = <<"plain", c>>
    BY <1>1, <1>3 DEF rx_cursor, rx_is_unescaped_control
  <1>7. e = [q EXCEPT !.mode = "plain"] /\ d.symbol = c
    BY <1>4, <1>5, <1>6 DEF Decoded
  <1>8. s = IF d.symbol = Nothing THEN e ELSE Style(e, d.symbol % 128)
    BY <1>1, <1>4 DEF rx_header
  <1>9. [rested EXCEPT !.mode = "plain"] = rested
    BY <1>1 DEF Fields
  <1> HIDE DEF q, d, e, omen, s, rested
  <1>10. e = rested
    BY <1>4, <1>7, <1>9
  <1> QED
    BY <1>3, <1>7, <1>8, <1>10 DEF Low, s, rested

LEMMA StyleRead ==
  ASSUME NEW p \in Headers, NEW r, NEW c \in Byte, Seeking(r, "style"), Low(c) = Named(p)
  PROVE  Spelled(rx_header(r, c), p, 0) /\ rx_header(r, c).nibble = -1
  <1> DEFINE e == [r EXCEPT !.cancel = 0]
             s == rx_header(r, c)
             x == Named(p)
  <1>1. DOMAIN e = Fields /\ e.event = "none" /\ e.mode = "plain" /\ e.nibble = -1
        /\ e.header = << >> /\ e.crc = << >>
    BY DEF Seeking, Fields
  <1>2. s = Style(e, x)
    <2>1. Low(c) \in 49 .. 100
      BY DEF ZHEX, ZVHEX, Named
    <2> QED
      BY <2>1, StyleArrives
  <1> HIDE DEF e, s
  <1>3. x \in Known /\ x \notin Omen \cup {ZBINM32} /\ x \in {ZHEX, ZVHEX}
         /\ (x = ZHEX <=> Len(p) = HDRLEN)
    BY DEF Named, Known, Omen, Variable, ZBINM32, ZBIN, ZHEX, ZBIN32, ZBINR32, ZBINR32ESC8, ZBINP7,
           ZVBIN, ZVHEX, ZVBIN32, ZVBINR32
  <1>4. x = ZHEX <=> x \notin Omen \cup Variable \cup {ZBINM32}
    BY <1>3 DEF Omen, Variable, ZBINM32, ZHEX, ZBINR32ESC8, ZBINP7,
           ZVBIN, ZVHEX, ZVBIN32, ZVBINR32
  <1> HIDE DEF x
  <1> DEFINE read == [e EXCEPT !.style = x, !.want = HDRLEN, !.moby = x = ZBINM32]
             place == IF x = ZHEX THEN "header" ELSE "count"
             next == [read EXCEPT !.at = place]
             full == [next EXCEPT !.is32 = x \in {ZBIN32, ZBINR32, ZVBIN32, ZVBINR32},
                                  !.encoded = IF x \in {ZBINR32, ZVBINR32} THEN "rle" ELSE "none"]
  <1>5. Style(e, x) = full
    BY <1>3, <1>4 DEF Style
  <1>6. /\ DOMAIN read = Fields /\ read.event = "none" /\ read.mode = "plain" /\ read.nibble = -1
         /\ read.header = << >> /\ read.crc = << >> /\ read.style = x /\ read.want = HDRLEN
    BY <1>1 DEF Fields
  <1> HIDE DEF read
  <1>7. /\ DOMAIN next = Fields /\ next.event = "none" /\ next.mode = "plain" /\ next.nibble = -1
         /\ next.header = << >> /\ next.crc = << >> /\ next.style = x /\ next.want = HDRLEN
         /\ next.at = place
    BY <1>6 DEF Fields
  <1> HIDE DEF next
  <1>8. /\ DOMAIN full = Fields /\ full.event = "none" /\ full.mode = "plain" /\ full.nibble = -1
         /\ full.header = << >> /\ full.crc = << >> /\ full.style = x /\ full.want = HDRLEN
         /\ full.at = place
    BY <1>7 DEF Fields
  <1> HIDE DEF full
  <1>9. Len(p) \in 5 .. 17 /\ (Offset(p) = 0 <=> x = ZHEX) /\ Offset(p) \in 0 .. 1
         /\ SubSeq(p, 1, 0) = << >>
    <2>1. p \in Seq(Byte) /\ Len(p) \in 5 .. 17
      BY SpeltIs
    <2>2. SubSeq(p, 1, 0) = << >>
      BY <2>1
    <2> QED
      BY <1>3, <2>1, <2>2 DEF Offset
  <1>10. full.style = IF Len(p) = HDRLEN THEN ZHEX ELSE ZVHEX
    BY <1>3, <1>8
  <1>11. Spelled(full, p, 0)
    <2>1. CASE x = ZHEX
      <3>1. full.at = "header" /\ full.want = Len(p) /\ Offset(p) = 0
            /\ 0 \in Offset(p) .. Offset(p) + Len(p) - 1 /\ 0 - Offset(p) = 0
        BY <1>3, <1>8, <1>9, <2>1
      <3>2. full.header = SubSeq(p, 1, 0 - Offset(p))
        BY <1>8, <1>9, <3>1
      <3> QED
        BY <1>8, <1>10, <3>1, <3>2 DEF Spelled
    <2>2. CASE x # ZHEX
      BY <1>8, <1>9, <1>10, <2>2 DEF Spelled
    <2> QED
      BY <2>1, <2>2
  <1> QED
    BY <1>2, <1>5, <1>8, <1>11 DEF s

LEMMA EndRead ==
  ASSUME NEW p \in Headers, NEW r, Spelled(r, p, Offset(p) + Len(p) + 2),
         NEW c \in Byte, Low(c) = CR, NEW d \in Byte, Low(d) = LF
  PROVE  LET s == rx_header(r, c)
             t == rx_header(s, d)
         IN  s.event = "none" /\ t.event = "header" /\ t.header = p
  <1> DEFINE s == rx_header(r, c)  t == rx_header(s, d)
             q == [r EXCEPT !.cancel = 0]  u == [s EXCEPT !.cancel = 0]
  <1>1. Len(p) \in 5 .. 17 /\ Offset(p) \in 0 .. 1
    BY SpeltIs
  <1>2. /\ DOMAIN r = Fields /\ r.event = "none" /\ r.style \in {ZHEX, ZVHEX}
        /\ r.at = "cr" /\ r.header = p
    BY <1>1 DEF Spelled
  <1>3. c # CAN /\ ~IsFlow(c) /\ d # CAN /\ ~IsFlow(d) /\ Low(d) # CR
    BY DEF Low, CAN, CR, LF, IsFlow, XON, XOFF
  <1>4. rx_cursor_raw(r, c) = q
    BY <1>3 DEF rx_cursor_raw
  <1>5. /\ DOMAIN q = Fields /\ q.event = "none" /\ q.style \in {ZHEX, ZVHEX}
        /\ q.at = "cr" /\ q.header = p
    BY <1>2 DEF Fields
  <1> HIDE DEF q
  <1>6. s = [q EXCEPT !.at = "lf"]
    <2>1. s = Terminated(q, c)
      BY <1>2, <1>4, <1>5 DEF rx_header
    <2> QED
      BY <1>3, <1>5, <2>1 DEF Terminated
  <1>7. /\ DOMAIN s = Fields /\ s.event = "none" /\ s.style \in {ZHEX, ZVHEX}
        /\ s.at = "lf" /\ s.header = p
    BY <1>5, <1>6 DEF Fields
  <1> HIDE DEF s
  <1>8. rx_cursor_raw(s, d) = u
    BY <1>3 DEF rx_cursor_raw
  <1>9. /\ DOMAIN u = Fields /\ u.event = "none" /\ u.style \in {ZHEX, ZVHEX}
        /\ u.at = "lf" /\ u.header = p
    BY <1>7 DEF Fields
  <1> HIDE DEF u
  <1>10. t = Accepted(u)
    <2>1. t = Terminated(u, d)
      BY <1>7, <1>8, <1>9 DEF rx_header
    <2> QED
      BY <1>3, <1>9, <2>1 DEF Terminated
  <1> HIDE DEF t
  <1>11. t = [u EXCEPT !.event = "header"]
    BY <1>9, <1>10 DEF Accepted, Omen, ZBINR32ESC8, ZBINP7, ZBINM32, ZHEX, ZVHEX
  <1>12. t.event = "header" /\ t.header = p
    BY <1>9, <1>11 DEF Fields
  <1> QED
    BY <1>7, <1>12 DEF s, t

\* How many bytes a header of p spells, and a line that begins with it.
SpeltLength(p) == Offset(p) + Len(p) + 2
Written(b, p) ==
  /\ b \in Seq(Byte) /\ Len(b) >= 2 * SpeltLength(p) + 6
  /\ Low(b[1]) = ZPAD /\ Low(b[2]) = ZPAD /\ Low(b[3]) = ZDLE /\ Low(b[4]) = Named(p)
  /\ \A i \in 1 .. SpeltLength(p) :
       /\ Low(b[2 * i + 3]) = tx_nibble(Spelt(p)[i] \div 16)
       /\ Low(b[2 * i + 4]) = tx_nibble(Spelt(p)[i] % 16)
  /\ Low(b[2 * SpeltLength(p) + 5]) = CR /\ Low(b[2 * SpeltLength(p) + 6]) = LF

LEMMA SpeltLengthIs ==
  ASSUME NEW p \in Headers
  PROVE  SpeltLength(p) \in 7 .. 20
  <1> DEFINE o == Offset(p)  m == Len(p)
  <1>1. m \in 5 .. 17 /\ o \in 0 .. 1
    BY SpeltIs
  <1>2. SpeltLength(p) = o + m + 2
    BY DEF SpeltLength
  <1> HIDE DEF o, m
  <1> QED
    BY <1>1, <1>2

LEMMA HexDigits ==
  ASSUME NEW n \in 0 .. 15
  PROVE  tx_nibble(n) \in HexByte
  BY DEF tx_nibble, HexByte

LEMMA WrittenThrough ==
  ASSUME NEW line \in Lines, NEW p \in Headers, NEW w, Written(w, p)
  PROVE  Written(Through(line, w), p)
  <1> DEFINE b == Through(line, w)  n == SpeltLength(p)  m == 2 * n + 6
  <1>1. n \in 7 .. 20 /\ m \in Nat
    <2>1. n \in 7 .. 20
      BY SpeltLengthIs
    <2> HIDE DEF n
    <2> QED
      BY <2>1
  <1>2. w \in Seq(Byte) /\ Len(w) >= m /\ Len(w) \in Nat
    BY DEF Written
  <1> DEFINE Kind(c) == Low(c) \in {ZPAD, ZDLE, ZHEX, ZVHEX, CR, LF} \cup HexByte
  <1>3. \A c : Kind(c) => ~IsFlow(c)
    BY DEF ZPAD, ZDLE, ZHEX, ZVHEX, CR, LF, HexByte, IsFlow, XON, XOFF
  <1>4. \A i \in 1 .. n : Kind(w[2 * i + 3]) /\ Kind(w[2 * i + 4])
    <2> TAKE i \in 1 .. n
    <2> DEFINE q == Spelt(p)
    <2>1. q \in Seq(Byte) /\ Len(q) = n
      BY SpeltIs DEF SpeltLength
    <2> HIDE DEF q, n
    <2>2. q[i] \in Byte
      BY <2>1
    <2>3. q[i] \div 16 \in 0 .. 15 /\ q[i] % 16 \in 0 .. 15
      BY <2>2 DEF Byte
    <2>4. Low(w[2 * i + 3]) \in HexByte /\ Low(w[2 * i + 4]) \in HexByte
      BY <2>3, HexDigits DEF Written, q, n
    <2> QED
      BY <2>4
  <1>5. \A i \in 1 .. m : Kind(w[i])
    <2> TAKE i \in 1 .. m
    <2>1. CASE i \in 1 .. 4
      BY <2>1 DEF Written, Named
    <2>2. CASE i \in 5 .. 2 * n + 4
      <3>1. PICK j \in 1 .. n : i = 2 * j + 3 \/ i = 2 * j + 4
        <4>1. \/ (i - 3) \div 2 \in 1 .. n /\ i = 2 * ((i - 3) \div 2) + 3
              \/ (i - 3) \div 2 \in 1 .. n /\ i = 2 * ((i - 3) \div 2) + 4
          <5> HIDE DEF n
          <5> QED
            BY <1>1, <2>2
        <4> QED
          BY <4>1
      <3> HIDE DEF n, Kind
      <3> QED
        BY <1>4, <3>1
    <2>3. CASE i = 2 * n + 5 \/ i = 2 * n + 6
      BY <2>3 DEF Written
    <2> HIDE DEF n
    <2> QED
      BY <1>1, <2>1, <2>2, <2>3
  <1> HIDE DEF n, m, Kind
  <1>6. m \in 0 .. Len(w) /\ \A i \in 1 .. m : ~IsFlow(w[i])
    BY <1>1, <1>2, <1>3, <1>5
  <1>7. b \in Seq(Byte) /\ Len(b) >= m /\ \A i \in 1 .. m : Low(b[i]) = Low(w[i])
    <2> HIDE DEF b
    <2> QED
      BY <1>2, <1>6, ThroughKeeps DEF b
  <1> HIDE DEF b
  <1>8. \A i \in 1 .. 4 : Low(b[i]) = Low(w[i])
    BY <1>1, <1>7 DEF m
  <1>9. \A i \in 1 .. n : Low(b[2 * i + 3]) = Low(w[2 * i + 3]) /\ Low(b[2 * i + 4]) = Low(w[2 * i + 4])
    <2> TAKE i \in 1 .. n
    <2>1. 2 * i + 3 \in 1 .. m /\ 2 * i + 4 \in 1 .. m
      BY <1>1 DEF m
    <2> QED
      BY <1>7, <2>1
  <1>10. Low(b[2 * n + 5]) = Low(w[2 * n + 5]) /\ Low(b[2 * n + 6]) = Low(w[2 * n + 6])
    <2>1. 2 * n + 5 \in 1 .. m /\ 2 * n + 6 \in 1 .. m
      BY <1>1 DEF m
    <2> QED
      BY <1>7, <2>1
  <1>11. Written(b, p)
    BY <1>7, <1>8, <1>9, <1>10 DEF Written, n, m
  <1> QED
    BY <1>11 DEF b


LEMMA HexWritten ==
  ASSUME NEW p \in Headers, NEW s, s.wire = << >>
  PROVE  Written(tx_hex_header(s, p).wire, p)
  <1>1. PICK t \in Seq(HexByte), e \in {<< >>, <<XON>>} :
           /\ Spells(t, Spelt(p))
           /\ tx_hex_header(s, p) = raw(s, ((HexStart(Named(p)) \o t) \o <<CR, LF>>) \o e)
    <2>1. p \in Parameters
      BY DEF Headers
    <2> QED
      BY <2>1, HexLine
  <1> DEFINE n == SpeltLength(p)  a == HexStart(Named(p))  end == <<CR, LF>>
             b == a \o t  c == b \o end  w == c \o e
  <1>2. n \in 7 .. 20
    BY SpeltLengthIs
  <1>3. Len(t) = 2 * n
    <2>1. Len(Spelt(p)) = n
      BY SpeltIs DEF SpeltLength
    <2> QED
      BY <1>1, <2>1 DEF Spells
  <1> HIDE DEF n
  <1>4. Named(p) \in {66, 98}
    BY DEF Named, ZHEX, ZVHEX
  <1>5. a \in Seq(Byte) /\ Len(a) = 4 /\ a[1] = 42 /\ a[2] = 42 /\ a[3] = 24 /\ a[4] = Named(p)
    <2>1. a = <<42, 42, 24, Named(p)>>
      BY DEF HexStart, ZPAD, ZDLE
    <2> HIDE DEF a
    <2> QED
      BY <1>4, <2>1 DEF Byte
  <1>6. end \in Seq(Byte) /\ Len(end) = 2 /\ end[1] = CR /\ end[2] = LF
    BY DEF CR, LF, Byte
  <1>7. t \in Seq(Byte)
    <2>1. HexByte \subseteq Byte
      BY DEF HexByte, Byte
    <2> QED
      BY <2>1, SeqWider
  <1>8. e \in Seq(Byte) /\ Len(e) \in Nat
    <2>1. XON \in Byte
      BY DEF XON, Byte
    <2>2. << >> \in Seq(Byte) /\ <<XON>> \in Seq(Byte)
      BY <2>1
    <2>3. e \in Seq(Byte)
      BY <2>2
    <2> QED
      BY <2>3
  <1> HIDE DEF a, end
  <1>9. /\ b \in Seq(Byte) /\ Len(b) = 2 * n + 4
        /\ \A i \in 1 .. 2 * n + 4 : b[i] = IF i <= 4 THEN a[i] ELSE t[i - 4]
    <2>1. b \in Seq(Byte) /\ Len(b) = Len(a) + Len(t)
          /\ \A i \in 1 .. Len(a) + Len(t) : b[i] = IF i <= Len(a) THEN a[i] ELSE t[i - Len(a)]
      BY <1>5, <1>7, Joined, ZenonT(60)
    <2>2. Len(a) + Len(t) = 2 * n + 4
      BY <1>2, <1>3, <1>5
    <2> QED
      BY <1>5, <2>1, <2>2
  <1> HIDE DEF b
  <1>10. /\ c \in Seq(Byte) /\ Len(c) = 2 * n + 6
         /\ \A i \in 1 .. 2 * n + 6 : c[i] = IF i <= 2 * n + 4 THEN b[i] ELSE end[i - (2 * n + 4)]
    <2>1. c \in Seq(Byte) /\ Len(c) = Len(b) + Len(end)
          /\ \A i \in 1 .. Len(b) + Len(end) : c[i] = IF i <= Len(b) THEN b[i] ELSE end[i - Len(b)]
      BY <1>6, <1>9, Joined
    <2>2. Len(b) + Len(end) = 2 * n + 6
      BY <1>2, <1>6, <1>9
    <2> QED
      BY <1>9, <2>1, <2>2
  <1> HIDE DEF c
  <1>11. /\ w \in Seq(Byte) /\ Len(w) >= 2 * n + 6
         /\ \A i \in 1 .. 2 * n + 6 : w[i] = c[i]
    <2>1. w \in Seq(Byte) /\ Len(w) = Len(c) + Len(e)
          /\ \A i \in 1 .. Len(c) + Len(e) : w[i] = IF i <= Len(c) THEN c[i] ELSE e[i - Len(c)]
      BY <1>8, <1>10, Joined
    <2>2. \A i \in 1 .. 2 * n + 6 : i \in 1 .. Len(c) + Len(e) /\ i <= Len(c)
      BY <1>2, <1>8, <1>10
    <2>3. Len(w) >= 2 * n + 6
      <3> HIDE DEF w
      <3> QED
        BY <1>2, <1>8, <1>10, <2>1
    <2> QED
      BY <2>1, <2>2, <2>3
  <1>12. w = ((HexStart(Named(p)) \o t) \o <<CR, LF>>) \o e
    BY DEF a, b, c, end
  <1> HIDE DEF w
  <1>13. tx_hex_header(s, p).wire = w
    <2>1. w # << >>
      <3>1. Len(<< >>) = 0
        OBVIOUS
      <3> QED
        BY <1>2, <1>11, <3>1
    <2>2. raw(s, w).wire = << >> \o w
      BY <2>1 DEF raw
    <2>3. << >> \o w = w
      BY <1>11
    <2> QED
      BY <1>1, <1>12, <2>2, <2>3
  <1>14. w[1] = 42 /\ w[2] = 42 /\ w[3] = 24 /\ w[4] = Named(p)
    <2>1. \A i \in 1 .. 4 : w[i] = a[i]
      <3> TAKE i \in 1 .. 4
      <3>1. i \in 1 .. 2 * n + 6 /\ i \in 1 .. 2 * n + 4 /\ i <= 4 /\ i <= 2 * n + 4
        BY <1>2
      <3>2. w[i] = c[i] /\ c[i] = b[i] /\ b[i] = a[i]
        BY <1>9, <1>10, <1>11, <3>1
      <3> QED
        BY <3>2
    <2> QED
      BY <1>5, <2>1
  <1>15. \A j \in 1 .. 2 * n : w[j + 4] = t[j]
    <2> TAKE j \in 1 .. 2 * n
    <2> DEFINE i == j + 4
    <2>1. i \in 1 .. 2 * n + 6 /\ i \in 1 .. 2 * n + 4 /\ ~(i <= 4) /\ i <= 2 * n + 4 /\ i - 4 = j
      BY <1>2
    <2> HIDE DEF i
    <2>2. w[i] = c[i] /\ c[i] = b[i] /\ b[i] = t[i - 4]
      BY <1>9, <1>10, <1>11, <2>1
    <2> QED
      BY <2>1, <2>2 DEF i
  <1>16. w[2 * n + 5] = CR /\ w[2 * n + 6] = LF
    <2>1. \A i \in 2 * n + 5 .. 2 * n + 6 : w[i] = end[i - (2 * n + 4)]
      <3> TAKE i \in 2 * n + 5 .. 2 * n + 6
      <3>1. i \in 1 .. 2 * n + 6 /\ ~(i <= 2 * n + 4)
        BY <1>2
      <3>2. w[i] = c[i] /\ c[i] = end[i - (2 * n + 4)]
        BY <1>10, <1>11, <3>1
      <3> QED
        BY <3>2
    <2>2. (2 * n + 5) - (2 * n + 4) = 1 /\ (2 * n + 6) - (2 * n + 4) = 2
          /\ 2 * n + 5 \in 2 * n + 5 .. 2 * n + 6 /\ 2 * n + 6 \in 2 * n + 5 .. 2 * n + 6
      BY <1>2
    <2>3. w[2 * n + 5] = end[1] /\ w[2 * n + 6] = end[2]
      BY <2>1, <2>2
    <2> QED
      BY <1>6, <2>3
  <1>17. \A y \in {24, 42, 66, 98, 13, 10} \cup HexByte : Low(y) = y
    BY DEF Low, HexByte
  <1>18. \A i \in 1 .. n :
           /\ Low(w[2 * i + 3]) = tx_nibble(Spelt(p)[i] \div 16)
           /\ Low(w[2 * i + 4]) = tx_nibble(Spelt(p)[i] % 16)
    <2> TAKE i \in 1 .. n
    <2> DEFINE u == 2 * i - 1  v == 2 * i
    <2>1. u \in 1 .. 2 * n /\ v \in 1 .. 2 * n /\ u + 4 = 2 * i + 3 /\ v + 4 = 2 * i + 4
      BY <1>2
    <2>2. Len(Spelt(p)) = n
      BY SpeltIs DEF SpeltLength, n
    <2>3. t[u] = tx_nibble(Spelt(p)[i] \div 16) /\ t[v] = tx_nibble(Spelt(p)[i] % 16)
      BY <1>1, <2>2 DEF Spells
    <2> HIDE DEF u, v
    <2>4. t[u] \in HexByte /\ t[v] \in HexByte
      BY <1>3, <2>1
    <2>5. w[2 * i + 3] = t[u] /\ w[2 * i + 4] = t[v]
      BY <1>15, <2>1
    <2> QED
      BY <1>17, <2>3, <2>4, <2>5
  <1>19. Written(w, p)
    <2>1. Low(w[1]) = ZPAD /\ Low(w[2]) = ZPAD /\ Low(w[3]) = ZDLE /\ Low(w[4]) = Named(p)
      BY <1>4, <1>14, <1>17 DEF ZPAD, ZDLE
    <2>2. Low(w[2 * n + 5]) = CR /\ Low(w[2 * n + 6]) = LF
      BY <1>16, <1>17 DEF CR, LF
    <2> QED
      BY <1>11, <1>18, <2>1, <2>2 DEF Written, n
  <1> QED
    BY <1>13, <1>19

Step(r, c) == IF r.event = "none" THEN rx_header(r, c) ELSE r

\* HeaderIn takes the bytes one after another.
LEMMA HeaderSteps ==
  ASSUME NEW b \in Seq(Byte)
  PROVE  \E g : /\ g[0] = Started
                /\ \A i \in 1 .. Len(b) : g[i] = Step(g[i - 1], b[i])
                /\ HeaderIn(b) = IF g[Len(b)].event = "header" THEN g[Len(b)].header ELSE << >>
  <1> DEFINE read(r, c) == IF r.event = "none" THEN rx_header(r, c) ELSE r
             n == Len(b)
             S == {r \in Good : r.event # "none" \/ (r.cancel \in 0 .. 4 /\ r.at \in AtHeader)}
  <1> DEFINE After(x, i) == read(x, b[i])
             step == [i \in 1 .. n |-> [x \in S |-> After(x, i)]]
             Body(f, i) == IF i = 0 THEN Started ELSE After(f[i - 1], i)
             Chain(f) == f = [i \in 0 .. n |-> Body(f, i)]
             upto == CHOOSE f : Chain(f)
  <1>1. n \in Nat /\ \A i \in 1 .. n : b[i] \in Byte
    BY SeqElements
  <1>2. Started \in S /\ \A i \in 1 .. n, x \in S : After(x, i) \in S
    <2>1. ASSUME NEW i \in 1 .. n, NEW x \in S PROVE After(x, i) \in S
      <3> DEFINE c == b[i]  y == rx_header(x, c)
      <3>1. c \in Byte /\ x \in Good /\ Steered(x)
        BY <1>1, GoodIs
      <3> HIDE DEF c
      <3>2. CASE x.event = "none"
        <4>1. x.cancel \in 0 .. 4 /\ x.at \in AtHeader
          BY <3>2
        <4>2. y \in Good /\ (y.event = "cancelled" \/ y.cancel \in 0 .. 4) /\ y.at \in AtHeader
          BY <3>1, <3>2, <4>1, HeaderTyped, HeaderRead DEF Alive
        <4> HIDE DEF y
        <4>3. y \in S
          BY <4>2
        <4> QED
          BY <3>2, <4>3 DEF y, c
      <3>3. CASE x.event # "none"
        BY <3>3
      <3> QED
        BY <3>2, <3>3
    <2>2. Started \in S
      BY StartedGood DEF AtHeader
    <2> HIDE DEF S, After
    <2> QED
      BY <2>1, <2>2
  <1>3. Along(read, Started, b) = upto[n]
    BY DEF Along
  <1>20. \A r, i : read(r, b[i]) = Step(r, b[i])
    BY DEF Step
  <1>21. \A r, i : After(r, i) = Step(r, b[i])
    BY <1>20
  <1> HIDE DEF S
  <1> HIDE DEF n, After
  <1>4. step \in Moves(S, n) /\ \A i \in 1 .. n, x \in S : step[i][x] = After(x, i)
    BY <1>1, <1>2 DEF Moves
  <1> HIDE DEF step
  <1>5. PICK g : Leads(S, n, Started, step, g)
    BY <1>1, <1>2, <1>4, Recursion
  <1>6. g \in [0 .. n -> S] /\ g[0] = Started /\ \A i \in 1 .. n : g[i] = step[i][g[i - 1]]
    BY <1>5 DEF Leads
  <1>7. \A i \in 1 .. n : g[i] = After(g[i - 1], i)
    <2> TAKE i \in 1 .. n
    <2>1. i - 1 \in 0 .. n
      BY <1>1, <1>2
    <2> QED
      BY <1>4, <1>6, <2>1
  <1>8. Chain(g)
    <2>1. g = [i \in 0 .. n |-> g[i]]
      BY <1>6
    <2>2. \A i \in 0 .. n : g[i] = Body(g, i)
      <3> TAKE i \in 0 .. n
      <3>1. CASE i = 0
        BY <1>6, <3>1
      <3>2. CASE i # 0
        <4>1. i \in 1 .. n
          BY <1>1, <1>2, <3>2
        <4> QED
          BY <1>7, <3>2, <4>1
      <3> QED
        BY <3>1, <3>2
    <2> HIDE DEF Body
    <2> QED
      BY <2>1, <2>2
  <1>9. Chain(upto)
    <2> HIDE DEF Chain
    <2> QED
      BY <1>8
  <1> HIDE DEF upto
  <1>10. \A i \in 0 .. n : upto[i] = Body(upto, i)
    <2> HIDE DEF Body
    <2> QED
      BY <1>9
  <1> HIDE DEF Chain
  <1>11. upto[0] = Started /\ \A i \in 1 .. n : upto[i] = Step(upto[i - 1], b[i])
    <2>1. upto[0] = Started
      BY <1>1, <1>10
    <2>2. ASSUME NEW i \in 1 .. n PROVE upto[i] = Step(upto[i - 1], b[i])
      <3>1. i \in 0 .. n /\ i # 0
        BY <1>1
      <3> QED
        BY <1>10, <1>21, <3>1
    <2> QED
      BY <2>1, <2>2
  <1>12. HeaderIn(b) = IF upto[n].event = "header" THEN upto[n].header ELSE << >>
    BY <1>3 DEF HeaderIn
  <1> QED
    BY <1>11, <1>12 DEF n

\* What a hexadecimal header is written from is read again.
LEMMA RoundTrip ==
  ASSUME NEW p \in Headers, NEW b, Written(b, p)
  PROVE  HeaderIn(b) = p
  <1>1. b \in Seq(Byte)
    BY DEF Written
  <1> DEFINE m == Len(b)  n == SpeltLength(p)  last == 2 * n + 6
  <1>2. PICK g : /\ g[0] = Started
                 /\ \A i \in 1 .. m : g[i] = Step(g[i - 1], b[i])
                 /\ HeaderIn(b) = IF g[m].event = "header" THEN g[m].header ELSE << >>
    BY <1>1, HeaderSteps
  <1>3. m \in Nat /\ \A i \in 1 .. m : b[i] \in Byte
    BY <1>1, SeqElements
  <1>4. n \in 7 .. 20 /\ n = Offset(p) + Len(p) + 2 /\ Offset(p) \in 0 .. 1 /\ Len(p) \in 5 .. 17
    BY SpeltLengthIs, SpeltIs DEF SpeltLength
  <1>5. m >= 2 * n + 6
    BY DEF Written
  <1> HIDE DEF m, n
  <1>6. \A i \in 1 .. m : g[i - 1].event = "none" => g[i] = rx_header(g[i - 1], b[i])
    BY <1>2 DEF Step
  <1> DEFINE Is(i, c) == b[i] \in Byte /\ Low(b[i]) = c
  <1>7. Is(1, ZPAD) /\ Is(2, ZPAD) /\ Is(3, ZDLE) /\ Is(4, Named(p))
    <2>1. 1 \in 1 .. m /\ 2 \in 1 .. m /\ 3 \in 1 .. m /\ 4 \in 1 .. m
      BY <1>3, <1>4, <1>5
    <2> QED
      BY <1>3, <2>1 DEF Written
  <1>8. Seeking(g[0], "hunt")
    BY <1>2, StartedGood DEF Seeking, Started, Fields
  <1>9. Seeking(g[1], "pad")
    <2>1. 1 \in 1 .. m /\ 1 - 1 = 0
      BY <1>3, <1>4, <1>5
    <2>2. g[1] = rx_header(g[0], b[1])
      BY <1>6, <1>8, <2>1 DEF Seeking
    <2> QED
      BY <1>7, <1>8, <2>2, SeekingPad
  <1>10. Seeking(g[2], "pads")
    <2>1. 2 \in 1 .. m /\ 2 - 1 = 1
      BY <1>3, <1>4, <1>5
    <2>2. g[2] = rx_header(g[1], b[2])
      BY <1>6, <1>9, <2>1 DEF Seeking
    <2> QED
      BY <1>7, <1>9, <2>2, SeekingPad
  <1>11. Seeking(g[3], "style")
    <2>1. 3 \in 1 .. m /\ 3 - 1 = 2
      BY <1>3, <1>4, <1>5
    <2>2. g[3] = rx_header(g[2], b[3])
      BY <1>6, <1>10, <2>1 DEF Seeking
    <2> QED
      BY <1>7, <1>10, <2>2, SeekingQuote
  <1> DEFINE Good1(r, k) == Spelled(r, p, k) /\ r.nibble = -1
             T == {k \in 0 .. n : Good1(g[2 * k + 4], k)}
  <1>12. 0 \in T
    <2>1. 4 \in 1 .. m /\ 4 - 1 = 3 /\ 2 * 0 + 4 = 4 /\ 0 \in 0 .. n
      BY <1>3, <1>4, <1>5
    <2>2. g[4] = rx_header(g[3], b[4])
      BY <1>6, <1>11, <2>1 DEF Seeking
    <2>3. Good1(g[4], 0)
      BY <1>7, <1>11, <2>2, StyleRead
    <2> QED
      BY <2>1, <2>3
  <1>13. \A k \in 0 .. n - 1 : k \in T => k + 1 \in T
    <2> TAKE k \in 0 .. n - 1
    <2> HAVE k \in T
    <2> DEFINE i == 2 * k + 5  j == 2 * k + 6  r == g[2 * k + 4]
    <2>1. /\ i \in 1 .. m /\ j \in 1 .. m /\ i - 1 = 2 * k + 4 /\ j - 1 = i
          /\ 2 * (k + 1) + 3 = i /\ 2 * (k + 1) + 4 = j
          /\ k + 1 \in 1 .. n /\ k + 1 \in 0 .. n
      BY <1>3, <1>4, <1>5
    <2>2. k \in 0 .. Offset(p) + Len(p) + 1
      BY <1>4
    <2>3. Good1(r, k)
      OBVIOUS
    <2>4. /\ Is(i, tx_nibble(Spelt(p)[k + 1] \div 16)) /\ Is(j, tx_nibble(Spelt(p)[k + 1] % 16))
      <3>1. /\ Low(b[2 * (k + 1) + 3]) = tx_nibble(Spelt(p)[k + 1] \div 16)
            /\ Low(b[2 * (k + 1) + 4]) = tx_nibble(Spelt(p)[k + 1] % 16)
        BY <2>1 DEF Written, n
      <3> HIDE DEF i, j
      <3> QED
        BY <1>3, <2>1, <3>1
    <2>5. g[i - 1] = r
      BY <2>1
    <2> HIDE DEF i, j, r, T
    <2>6. r.event = "none"
      BY <2>3 DEF Spelled
    <2>7. g[i] = rx_header(r, b[i])
      BY <1>6, <2>1, <2>5, <2>6
    <2> DEFINE s == rx_header(r, b[i])  t == rx_header(s, b[j])
    <2>8. s.event = "none" /\ Spelled(t, p, k + 1) /\ t.nibble = -1
      BY <2>2, <2>3, <2>4, DigitsRead
    <2> HIDE DEF s
    <2>9. g[j] = t
      BY <1>6, <2>1, <2>7, <2>8 DEF s
    <2> HIDE DEF t
    <2>10. g[2 * (k + 1) + 4] = t
      BY <2>1, <2>9
    <2> QED
      BY <2>1, <2>8, <2>10 DEF T
  <1>14. n \in T
    <2>1. n \in Nat /\ n \in 0 .. n
      BY <1>4
    <2> HIDE DEF T
    <2> QED
      BY <1>12, <1>13, <2>1, BoundedInduction
  <1> DEFINE Ends(r) == r.event = "header" /\ r.header = p
  <1>15. Ends(g[last])
    <2> DEFINE i == 2 * n + 5  j == 2 * n + 6  r == g[2 * n + 4]
    <2>1. i \in 1 .. m /\ j \in 1 .. m /\ i - 1 = 2 * n + 4 /\ j - 1 = i
      BY <1>3, <1>4, <1>5, SMTT(60)
    <2>2. Spelled(r, p, Offset(p) + Len(p) + 2)
      BY <1>4, <1>14
    <2>3. Is(i, CR) /\ Is(j, LF)
      BY <1>3, <2>1 DEF Written, n
    <2>4. g[i - 1] = r
      BY <2>1
    <2> HIDE DEF i, j, r, T
    <2>5. r.event = "none"
      BY <2>2 DEF Spelled
    <2>6. g[i] = rx_header(r, b[i])
      BY <1>6, <2>1, <2>4, <2>5
    <2> DEFINE s == rx_header(r, b[i])  t == rx_header(s, b[j])
    <2>7. s.event = "none" /\ Ends(t)
      BY <2>2, <2>3, EndRead
    <2> HIDE DEF s
    <2>8. g[j] = t
      BY <1>6, <2>1, <2>6, <2>7 DEF s
    <2> QED
      BY <2>7, <2>8 DEF j
  <1> DEFINE U == {k \in 0 .. m - last : Ends(g[last + k])}
  <1>16. last \in Nat /\ m - last \in Nat /\ last >= 1
    BY <1>3, <1>4, <1>5
  <1> HIDE DEF last, T
  <1>17. 0 \in U
    BY <1>15, <1>16
  <1>18. \A k \in 0 .. (m - last) - 1 : k \in U => k + 1 \in U
    <2> TAKE k \in 0 .. (m - last) - 1
    <2> HAVE k \in U
    <2> DEFINE i == last + (k + 1)
    <2>1. i \in 1 .. m /\ i - 1 = last + k /\ k + 1 \in 0 .. m - last
      BY <1>3, <1>16
    <2> HIDE DEF i
    <2>2. Ends(g[i - 1])
      BY <2>1
    <2>3. g[i] = g[i - 1]
      BY <1>2, <2>1, <2>2 DEF Step
    <2> QED
      BY <2>1, <2>2, <2>3 DEF i
  <1>19. Ends(g[m])
    <2>1. m - last \in 0 .. m - last /\ last + (m - last) = m
      BY <1>3, <1>16
    <2> DEFINE k == m - last
    <2>2. k \in Nat
      BY <1>16
    <2> HIDE DEF U, k
    <2>3. \A i \in 0 .. k : i \in U
      BY <1>17, <1>18, <2>2, BoundedInduction DEF k
    <2>4. k \in U
      BY <2>1, <2>3 DEF k
    <2> QED
      BY <2>1, <2>4 DEF U, k
  <1> QED
    BY <1>2, <1>19 DEF m

----------------------------------------------------------------------------
(* What zmtx puts on the line.                                             *)

LEMMA CaseIs ==
  ASSUME case \in Cases
  PROVE  /\ case.send \in Senders /\ case.receive \in Receivers /\ case.line \in Lines
         /\ case.base \in Seq(Byte) /\ Len(case.base) = 4 /\ case.base[1] \in Byte
         /\ case.base[2] \in Byte /\ case.base[3] \in Byte /\ case.base[4] \in Byte
         /\ case.data \in Seq(Byte) /\ Len(case.data) \in Nat
         /\ case.block \in Nat /\ case.block > 0 /\ case.stray \in Seq(Byte)
  <1>1. case \in Case /\ Len(case.base) = 4 /\ case.block > 0
    BY FramingAssumption
  <1>2. /\ case.send \in Senders /\ case.receive \in Receivers /\ case.line \in Lines
        /\ case.base \in Seq(Byte) /\ case.data \in Seq(Byte) /\ case.block \in Nat
        /\ case.stray \in Seq(Byte)
    BY <1>1 DEF Case
  <1> DEFINE b == case.base
  <1>3. b \in Seq(Byte) /\ Len(b) = 4
    BY <1>1, <1>2
  <1> HIDE DEF b
  <1>4. b[1] \in Byte /\ b[2] \in Byte /\ b[3] \in Byte /\ b[4] \in Byte
    BY <1>3, SMTT(60)
  <1> QED
    BY <1>1, <1>2, <1>3, <1>4 DEF b

\* What may stand side by side on a line where nothing goes wrong.
Allowed ==
  IF case.send.m THEN Byte \X Byte ELSE Pairs(Format([pack7 |-> FALSE, moby |-> FALSE]))

LEMMA FormatCovers ==
  ASSUME case \in Cases, NEW t, t.moby => case.send.m
  PROVE  Format(t) \in Formats /\ Covers(Format(t), Allowed)
  <1> DEFINE f == Format(t)  g == Format([pack7 |-> FALSE, moby |-> FALSE])
  <1>1. /\ f.ctl = case.receive.ctl /\ f.iac = case.send.iac
        /\ g.ctl = case.receive.ctl /\ g.iac = case.send.iac
    BY DEF Format, Peer, tx_zrinit
  <1>2. case.receive.ctl \in BOOLEAN /\ case.send.iac \in BOOLEAN
    BY CaseIs DEF Senders, Receivers
  <1>3. /\ f.style \in Styles /\ (f.style \in SevenBit <=> Peer.esc8)
        /\ (g.style \in SevenBit <=> Peer.esc8) /\ (f.style = "moby" => t.moby)
    BY DEF Format, Styles, SevenBit
  <1>4. f = [style |-> f.style, ctl |-> f.ctl, iac |-> f.iac]
    BY DEF Format
  <1>5. f \in Formats
    <2> HIDE DEF f
    <2> QED
      BY <1>1, <1>2, <1>3, <1>4 DEF Formats
  <1> HIDE DEF f, g
  <1>6. Pairs(f) \subseteq Pairs(g)
    <2>1. ASSUME NEW last, NEW c, Fits(f, last, c) PROVE Fits(g, last, c)
      BY <1>1, <1>3, <2>1 DEF Fits
    <2> QED
      BY <2>1 DEF Pairs
  <1>7. Pairs(f) \subseteq Byte \X Byte
    BY DEF Pairs
  <1>8. Covers(f, Allowed)
    <2>1. CASE case.send.m
      <3>1. Allowed = Byte \X Byte
        BY <2>1 DEF Allowed
      <3> QED
        BY <1>7, <3>1 DEF Covers
    <2>2. CASE ~case.send.m
      <3>1. Allowed = Pairs(g)
        BY <2>2 DEF Allowed, g
      <3> QED
        BY <1>3, <1>6, <2>2, <3>1 DEF Covers
    <2> QED
      BY <2>1, <2>2
  <1> QED
    BY <1>5, <1>8 DEF f

\* A piece starts with a header, and ends perhaps with an XON that may follow anything.
Piece(p) ==
  /\ p # << >> /\ p[1] = ZPAD
  /\ \A i \in 2 .. Len(p) : <<p[i - 1], p[i]>> \in Allowed \/ (p[i] = XON /\ i = Len(p))

Sent(s) ==
  s.wire \in Seq(Byte) /\ s.previous \in 0 .. 127 /\ (~case.send.m => Piece(s.wire))

LEMMA BegunSent ==
  ASSUME NEW a, a = ZPAD \/ case.send.m, NEW s \in Begun(Allowed, a)
  PROVE  Sent(s)
  <1>1. /\ s.wire \in Seq(Byte) /\ s.wire[Len(s.wire)] \in Byte /\ s.wire # << >>
        /\ s.previous = Low(s.wire[Len(s.wire)]) /\ s.wire[1] = a
    BY BegunLast
  <1>2. s.previous \in 0 .. 127
    BY <1>1, LowByte
  <1>3. \A i \in 2 .. Len(s.wire) : <<s.wire[i - 1], s.wire[i]>> \in Allowed
    BY DEF Begun, Sendings
  <1> QED
    BY <1>1, <1>2, <1>3 DEF Sent, Piece

LEMMA XonSent ==
  ASSUME NEW a, a = ZPAD \/ case.send.m, NEW s \in Begun(Allowed, a)
  PROVE  Sent(raw(s, <<XON>>))
  <1> DEFINE w == s.wire  one == <<XON>>  v == w \o one
  <1>1. w \in Seq(Byte) /\ w # << >> /\ w[1] = a /\ Len(w) \in Nat /\ Len(w) > 0
    <2>1. w \in Seq(Byte) /\ w # << >> /\ w[1] = a
      BY BegunLast
    <2> HIDE DEF w
    <2> QED
      BY <2>1
  <1>2. \A i \in 2 .. Len(w) : <<w[i - 1], w[i]>> \in Allowed
    BY DEF Begun, Sendings
  <1>3. one \in Seq(Byte) /\ Len(one) = 1 /\ one[1] = XON /\ Last(one) = XON /\ one # << >>
    BY DEF XON, Byte, Last
  <1>4. raw(s, <<XON>>) = [wire |-> v, previous |-> Low(XON)]
    BY <1>3 DEF raw
  <1>5. Low(XON) \in 0 .. 127
    BY DEF Low, XON
  <1> HIDE DEF w, one
  <1>6. v \in Seq(Byte) /\ Len(v) = Len(w) + Len(one)
        /\ \A i \in 1 .. Len(w) + Len(one) : v[i] = IF i <= Len(w) THEN w[i] ELSE one[i - Len(w)]
    BY <1>1, <1>3, Joined
  <1>7. Len(v) = Len(w) + 1 /\ v # << >> /\ v[1] = w[1]
    <2>1. Len(v) = Len(w) + 1
      BY <1>3, <1>6
    <2>2. 1 \in 1 .. Len(w) + Len(one) /\ 1 <= Len(w)
      BY <1>1, <1>3
    <2>3. v[1] = w[1]
      BY <1>6, <2>2
    <2>4. v # << >>
      BY <1>1, <2>1
    <2> QED
      BY <2>1, <2>3, <2>4
  <1>8. \A i \in 2 .. Len(v) : <<v[i - 1], v[i]>> \in Allowed \/ (v[i] = XON /\ i = Len(v))
    <2> TAKE i \in 2 .. Len(v)
    <2>1. CASE i <= Len(w)
      <3>1. v[i] = w[i] /\ v[i - 1] = w[i - 1]
        BY <1>1, <1>3, <1>6, <2>1
      <3> HIDE DEF v
      <3>2. i \in 2 .. Len(w)
        BY <1>1, <1>7, <2>1
      <3>3. <<w[i - 1], w[i]>> \in Allowed
        BY <1>2, <3>2
      <3> QED
        BY <3>1, <3>3
    <2>2. CASE ~(i <= Len(w))
      <3>1. i = Len(v) /\ i - Len(w) = 1
        BY <1>1, <1>7, <2>2
      <3>2. i \in 1 .. Len(w) + Len(one)
        BY <1>3, <1>7, <1>1
      <3>3. v[i] = one[i - Len(w)]
        BY <1>6, <2>2, <3>2
      <3>4. v[i] = one[1]
        BY <3>1, <3>3, Zenon
      <3> HIDE DEF v
      <3> QED
        BY <1>3, <3>1, <3>4
    <2> QED
      BY <2>1, <2>2
  <1>9. ~case.send.m => Piece(v)
    <2> HIDE DEF v
    <2> QED
      BY <1>1, <1>7, <1>8 DEF Piece
  <1> DEFINE x == raw(s, <<XON>>)
  <1>10. x.wire = v /\ x.previous = Low(XON)
    BY <1>4
  <1> HIDE DEF v, x
  <1>11. Sent(x)
    BY <1>5, <1>6, <1>9, <1>10 DEF Sent
  <1> QED
    BY <1>11 DEF x

LEMMA PositionIs ==
  ASSUME case \in Cases, NEW k \in Int
  PROVE  /\ Position(k) \in Seq(Byte) /\ Len(Position(k)) = 4
         /\ \A x \in Byte : <<x>> \o Position(k) \in Parameters /\ Len(<<x>> \o Position(k)) = 5
  <1> DEFINE p == Position(k)
  <1>1. (case.base[1] + k) % 256 \in Byte
    <2> DEFINE b == case.base[1]
    <2>1. b \in Byte
      BY CaseIs
    <2> HIDE DEF b
    <2>2. (b + k) % 256 \in Byte
      BY <2>1 DEF Byte
    <2> QED
      BY <2>2 DEF b
  <1>2. p \in Seq(Byte) /\ Len(p) = 4
    <2> DEFINE a == (case.base[1] + k) % 256
               b == case.base[2]  c == case.base[3]  d == case.base[4]
    <2>1. a \in Byte /\ b \in Byte /\ c \in Byte /\ d \in Byte
      BY <1>1, CaseIs
    <2>2. p = <<a, b, c, d>>
      BY DEF Position
    <2> HIDE DEF a, b, c, d, p
    <2> QED
      BY <2>1, <2>2
  <1> HIDE DEF p
  <1>3. ASSUME NEW x \in Byte PROVE <<x>> \o p \in Parameters /\ Len(<<x>> \o p) = 5
    <2> DEFINE one == <<x>>  h == one \o p
    <2>1. one \in Seq(Byte) /\ Len(one) = 1
      OBVIOUS
    <2> HIDE DEF one
    <2>2. h \in Seq(Byte) /\ Len(h) = Len(one) + Len(p)
      BY <1>2, <2>1, Joined
    <2> HIDE DEF h
    <2>3. h \in Parameters /\ Len(h) = 5
      BY <1>2, <2>1, <2>2 DEF Parameters
    <2> QED
      BY <2>3 DEF h, one
  <1> QED
    BY <1>2, <1>3 DEF p

LEMMA BlockIs ==
  ASSUME case \in Cases, NEW k \in Nat
  PROVE  Block(k) \in Seq(Byte)
  <1> DEFINE n == Len(case.data)  e == IF k + case.block < n THEN k + case.block ELSE n
  <1>1. case.data \in Seq(Byte) /\ n \in Nat /\ case.block \in Nat
    BY CaseIs
  <1>2. k + 1 \in Nat \ {0} /\ e \in Int /\ e <= n
    <2> HIDE DEF n
    <2> QED
      BY <1>1
  <1>3. Block(k) = SubSeq(case.data, k + 1, e)
    BY DEF Block
  <1> HIDE DEF e
  <1> QED
    BY <1>1, <1>2, <1>3, PartBytes DEF n

\* What has been sent before the first byte.
LEMMA UnsentSent ==
  ASSUME NEW x \in -1 .. 127, NEW R, NEW a
  PROVE  [wire |-> << >>, previous |-> x] \in Sendings(R, a)
  <1> DEFINE s == [wire |-> << >>, previous |-> x]
  <1>1. s.wire = << >> /\ s \in [wire : Seq(Byte), previous : -1 .. 127] /\ Len(<< >>) = 0
    OBVIOUS
  <1> HIDE DEF s
  <1>2. s \in Sendings(R, a)
    <2>1. \A i \in 2 .. Len(s.wire) : FALSE
      BY <1>1
    <2> QED
      BY <1>1, <2>1 DEF Sendings
  <1> QED
    BY <1>2 DEF s

LEMMA DataBegun ==
  ASSUME NEW f \in Formats, NEW R, Covers(f, R), NEW a, NEW s \in Begun(R, a),
         NEW data \in Seq(Byte), NEW ending \in ZCRCE .. ZCRCW
  PROVE  IF ending = ZCRCW THEN \E u \in Begun(R, a) : tx_data(f, s, data, ending) = raw(u, <<XON>>)
         ELSE tx_data(f, s, data, ending) \in Begun(R, a)
  <1>1. DataEnded(f, s, data, ending) \in Begun(R, a)
    BY EndedBegun
  <1> QED
    BY <1>1, DataSent

LEMMA ZdataSent ==
  ASSUME case \in Cases, NEW f \in Formats, Covers(f, Allowed), NEW k \in Int, NEW x \in -1 .. 127
  PROVE  ZdataHeader(f, [wire |-> << >>, previous |-> x], k) \in Begun(Allowed, ZPAD)
  <1> DEFINE s == [wire |-> << >>, previous |-> x]  p == <<ZDATA>> \o Position(k)
  <1>1. s \in Sendings(Allowed, ZPAD)
    BY UnsentSent
  <1>2. ZDATA \in Byte
    BY DEF ZDATA, Byte
  <1>3. p \in Parameters
    BY <1>2, PositionIs
  <1> HIDE DEF s, p
  <1>4. tx_header(f, s, p) \in Begun(Allowed, ZPAD)
    BY <1>1, <1>3, HeaderBegun
  <1> QED
    BY <1>4 DEF ZdataHeader, s, p

LEMMA ZeofBegun ==
  ASSUME case \in Cases, NEW s \in Sendings(Allowed, ZPAD)
  PROVE  ZeofHeader(s) \in Begun(Allowed, ZPAD)
  <1> DEFINE f == Format([pack7 |-> FALSE, moby |-> FALSE])
             p == <<ZEOF>> \o Position(Len(case.data))
  <1>1. Covers(f, Allowed)
    BY FormatCovers
  <1>2. ZEOF \in Byte /\ Len(case.data) \in Int
    BY CaseIs DEF ZEOF, Byte
  <1>3. p \in Parameters
    BY <1>2, PositionIs
  <1> HIDE DEF f, p
  <1>4. tx_hex_header(s, p) \in Begun(Allowed, ZPAD)
    BY <1>1, <1>3, HexBegun
  <1> QED
    BY <1>4 DEF ZeofHeader, p

LEMMA ZeofSent ==
  ASSUME case \in Cases, NEW x \in -1 .. 127
  PROVE  Sent(ZeofHeader([wire |-> << >>, previous |-> x]))
  <1> DEFINE s == [wire |-> << >>, previous |-> x]
  <1>1. s \in Sendings(Allowed, ZPAD)
    BY UnsentSent
  <1> HIDE DEF s
  <1>2. ZeofHeader(s) \in Begun(Allowed, ZPAD)
    BY <1>1, ZeofBegun
  <1>3. Sent(ZeofHeader(s))
    BY <1>2, BegunSent
  <1> QED
    BY <1>3 DEF s

LEMMA SynchronizedSent ==
  ASSUME case \in Cases, NEW f \in Formats, Covers(f, Allowed), NEW k \in Nat, NEW x \in -1 .. 127
  PROVE  Sent(Synchronized(f, [wire |-> << >>, previous |-> x], k))
  <1> DEFINE s == [wire |-> << >>, previous |-> x]  h == ZdataHeader(f, s, k)
  <1>1. h \in Begun(Allowed, ZPAD)
    <2>1. k \in Int
      OBVIOUS
    <2> QED
      BY <2>1, ZdataSent
  <1>2. Block(k) \in Seq(Byte)
    BY BlockIs
  <1>3. ZCRCW \in ZCRCE .. ZCRCW
    BY DEF ZCRCE, ZCRCW
  <1>4. Synchronized(f, s, k) = tx_data(f, h, Block(k), ZCRCW)
    BY DEF Synchronized
  <1> HIDE DEF h, s
  <1>5. PICK u \in Begun(Allowed, ZPAD) : tx_data(f, h, Block(k), ZCRCW) = raw(u, <<XON>>)
    BY <1>1, <1>2, <1>3, DataBegun
  <1>6. Sent(raw(u, <<XON>>))
    BY XonSent
  <1>7. Sent(Synchronized(f, s, k))
    BY <1>4, <1>5, <1>6
  <1> QED
    BY <1>7 DEF s

LEMMA StreamedSent ==
  ASSUME case \in Cases, NEW f \in Formats, Covers(f, Allowed), NEW k \in Nat, NEW x \in -1 .. 127
  PROVE  Sent(Streamed(f, [wire |-> << >>, previous |-> x], k))
  <1> DEFINE s == [wire |-> << >>, previous |-> x]
             start == ZdataHeader(f, s, k)
             full == (Len(case.data) - k) \div case.block
             S == Begun(Allowed, ZPAD)
             put(before, i) == tx_data(f, before, Block(k + (i - 1) * case.block),
                                       IF i > full THEN ZCRCE ELSE ZCRCG)
             turns == [i \in 1 .. full + 1 |-> i]
             n == IF full + 1 >= 0 THEN full + 1 ELSE 0
             After(y, i) == put(y, i)
             step == [i \in 1 .. n |-> [y \in S |-> After(y, i)]]
             Body(h, i) == IF i = 0 THEN start ELSE After(h[i - 1], i)
             Chain(h) == h = [i \in 0 .. n |-> Body(h, i)]
             upto == CHOOSE h : Chain(h)
  <1>20. full \in Int
    BY CaseIs
  <1>21. n \in Nat /\ 1 .. full + 1 = 1 .. n
    <2> HIDE DEF full
    <2> QED
      BY <1>20
  <1>22. turns = [i \in 1 .. n |-> i] /\ Len(turns) = n /\ \A i \in 1 .. n : turns[i] = i
    <2>1. turns = [i \in 1 .. n |-> i]
      BY <1>21
    <2> HIDE DEF n, turns
    <2>2. turns \in [1 .. n -> Nat]
      BY <1>21, <2>1
    <2>3. Len(turns) = n
      BY <1>21, <2>2, FunctionIsSeq
    <2> QED
      BY <2>1, <2>3
  <1>1. n \in Nat
    BY <1>21
  <1>2. start \in S /\ \A i \in 1 .. n, x_1 \in S : After(x_1, i) \in S
    <2>1. start \in S
      <3>1. k \in Int
        OBVIOUS
      <3> QED
        BY <3>1, ZdataSent
    <2>2. ASSUME NEW i \in 1 .. n, NEW y \in S PROVE put(y, i) \in S
      <3> DEFINE ending == IF i > full THEN ZCRCE ELSE ZCRCG
                 at == k + (i - 1) * case.block
      <3>1. ending \in ZCRCE .. ZCRCW /\ ending # ZCRCW
        BY DEF ZCRCE, ZCRCG, ZCRCW
      <3>2. at \in Nat
        <4> DEFINE m == case.block  j == i - 1
        <4>1. m \in Nat /\ j \in Nat
          BY <1>1, CaseIs
        <4> HIDE DEF m, j
        <4>2. j * m \in Nat
          BY <4>1
        <4> QED
          BY <4>2 DEF m, j
      <3> HIDE DEF ending, at
      <3>3. Block(at) \in Seq(Byte)
        BY <3>2, BlockIs
      <3> DEFINE data == Block(at)
      <3> HIDE DEF data
      <3>4. tx_data(f, y, data, ending) \in S
        BY <3>1, <3>3, DataBegun DEF data
      <3> QED
        BY <3>4 DEF data, at, ending
    <2> HIDE DEF S, put, n, start
    <2> QED
      BY <2>1, <2>2
  <1>3. Along(put, start, turns) = upto[n]
    <2>1. Len(turns) = n /\ \A i \in 1 .. n : turns[i] = i
      BY <1>22
    <2> DEFINE B2(h, i) == IF i = 0 THEN start ELSE put(h[i - 1], turns[i])
    <2>2. \A h : [i \in 0 .. n |-> B2(h, i)] = [i \in 0 .. n |-> Body(h, i)]
      <3> TAKE h
      <3>1. ASSUME NEW i \in 0 .. n PROVE B2(h, i) = Body(h, i)
        <4>1. CASE i = 0
          BY <4>1
        <4>2. CASE i # 0
          <5>1. i \in 1 .. n
            BY <1>1, <4>2
          <5>2. turns[i] = i
            BY <2>1, <5>1
          <5> HIDE DEF put, start, turns
          <5> QED
            BY <4>2, <5>2
        <4> QED
          BY <4>1, <4>2
      <3> HIDE DEF B2, Body
      <3> QED
        BY <3>1
    <2> DEFINE up2 == CHOOSE h : h = [i \in 0 .. n |-> B2(h, i)]
    <2>3. Along(put, start, turns) = up2[n]
      <3> HIDE DEF n, put, start, turns
      <3> QED
        BY <2>1 DEF Along
    <2>4. up2 = upto
      <3> HIDE DEF B2, Body
      <3>1. \A h : h = [i \in 0 .. n |-> B2(h, i)] <=> h = [i \in 0 .. n |-> Body(h, i)]
        BY <2>2
      <3> QED
        BY <3>1, Zenon
    <2> HIDE DEF up2, upto
    <2> QED
      BY <2>3, <2>4
  <1>23. Streamed(f, s, k) = ZeofHeader(Along(put, start, turns))
    BY DEF Streamed
  <1> HIDE DEF full, put, start, S, turns
  <1> HIDE DEF n, After
  <1>4. step \in Moves(S, n) /\ \A i \in 1 .. n, y \in S : step[i][y] = After(y, i)
    BY <1>1, <1>2 DEF Moves
  <1> HIDE DEF step
  <1>5. PICK g : Leads(S, n, start, step, g)
    BY <1>1, <1>2, <1>4, Recursion
  <1>6. g \in [0 .. n -> S] /\ g[0] = start /\ \A i \in 1 .. n : g[i] = step[i][g[i - 1]]
    BY <1>5 DEF Leads
  <1>7. \A i \in 1 .. n : g[i] = After(g[i - 1], i)
    <2> TAKE i \in 1 .. n
    <2>1. i - 1 \in 0 .. n
      BY <1>1, <1>2
    <2> QED
      BY <1>4, <1>6, <2>1
  <1>8. Chain(g)
    <2>1. g = [i \in 0 .. n |-> g[i]]
      BY <1>6
    <2>2. \A i \in 0 .. n : g[i] = Body(g, i)
      <3> TAKE i \in 0 .. n
      <3>1. CASE i = 0
        BY <1>6, <3>1
      <3>2. CASE i # 0
        <4>1. i \in 1 .. n
          BY <1>1, <1>2, <3>2
        <4> QED
          BY <1>7, <3>2, <4>1
      <3> QED
        BY <3>1, <3>2
    <2> HIDE DEF Body
    <2> QED
      BY <2>1, <2>2
  <1>9. Chain(upto)
    <2> HIDE DEF Chain
    <2> QED
      BY <1>8
  <1> HIDE DEF upto
  <1>10. \A i \in 0 .. n : upto[i] = Body(upto, i)
    <2> HIDE DEF Body
    <2> QED
      BY <1>9
  <1> HIDE DEF Chain
  <1>11. upto[0] \in S /\ \A i \in 1 .. n : upto[i - 1] \in S => upto[i] \in S
    <2>1. upto[0] \in S
      BY <1>1, <1>2, <1>10
    <2>2. ASSUME NEW i \in 1 .. n, upto[i - 1] \in S PROVE upto[i] \in S
      <3>1. i \in 0 .. n /\ i # 0
        BY <1>1, <1>2
      <3>2. upto[i] = After(upto[i - 1], i)
        BY <1>10, <3>1
      <3> QED
        BY <1>1, <1>2, <2>2, <3>2
    <2> QED
      BY <2>1, <2>2
  <1>12. upto[n] \in S
    <2>1. n \in 0 .. n
      BY <1>1, <1>2
    <2> QED
      BY <1>1, <1>2, <1>11, <2>1, ChainStays
  <1> DEFINE last == upto[n]
  <1>24. last \in Begun(Allowed, ZPAD)
    BY <1>12 DEF S
  <1> HIDE DEF last
  <1>25. last \in Sendings(Allowed, ZPAD)
    BY <1>24 DEF Begun
  <1>26. Sent(ZeofHeader(last))
    <2>1. ZeofHeader(last) \in Begun(Allowed, ZPAD)
      BY <1>25, ZeofBegun
    <2> QED
      BY <2>1, BegunSent
  <1>27. Streamed(f, s, k) = ZeofHeader(last)
    BY <1>3, <1>23 DEF last
  <1> HIDE DEF s
  <1>28. Sent(Streamed(f, s, k))
    BY <1>26, <1>27
  <1> QED
    BY <1>28 DEF s

LEMMA OfferSent ==
  ASSUME case \in Cases, NEW x \in -1 .. 127
  PROVE  Sent(Offer([wire |-> << >>, previous |-> x]))
  <1> DEFINE s == [wire |-> << >>, previous |-> x]
             f == Format([pack7 |-> FALSE, moby |-> FALSE])
             zf3 == IF offer_mobyturbo THEN 5 ELSE IF offer_pack7 THEN 1 ELSE 0
             a == IF offer_mobyturbo THEN 35 ELSE ZPAD
             probed == IF offer_mobyturbo THEN tx_mobyturbo_probe(s) ELSE s
             p == <<ZFILE, zf3, 0, 0, 0>>
             h == tx_header(f, probed, p)
  <1>1. f \in Formats /\ Covers(f, Allowed)
    BY FormatCovers
  <1>2. offer_mobyturbo => case.send.m
    BY DEF offer_mobyturbo
  <1>3. probed \in Sendings(Allowed, a) /\ (probed.wire = << >> => a = ZPAD)
    <2>1. s \in Sendings(Allowed, a) /\ s.wire = << >>
      BY UnsentSent
    <2>2. CASE offer_mobyturbo
      <3> DEFINE q == mobyturbo_probe
      <3>1. q \in Seq(Byte) /\ Len(q) = 5 /\ q # << >> /\ q[1] = 35
        <4>1. 35 \in Byte /\ 193 \in Byte /\ 212 \in Byte /\ 147 \in Byte /\ 17 \in Byte
          BY DEF Byte
        <4> QED
          BY <4>1 DEF mobyturbo_probe
      <3> HIDE DEF q
      <3>2. \A i \in 2 .. Len(q) : <<q[i - 1], q[i]>> \in Allowed
        <4> TAKE i \in 2 .. Len(q)
        <4>1. i \in 1 .. Len(q) /\ i - 1 \in 1 .. Len(q)
          BY <3>1
        <4>2. q[i - 1] \in Byte /\ q[i] \in Byte
          BY <3>1, <4>1, SeqElements
        <4>3. Allowed = Byte \X Byte
          BY <1>2, <2>2 DEF Allowed
        <4> QED
          BY <4>2, <4>3
      <3>3. a = 35
        BY <2>2
      <3> HIDE DEF s, a
      <3>4. raw(s, q) \in Begun(Allowed, a)
        BY <2>1, <3>1, <3>2, <3>3, RawFits
      <3>5. probed = raw(s, q)
        BY <2>2 DEF tx_mobyturbo_probe, q
      <3> HIDE DEF probed
      <3> QED
        BY <3>4, <3>5 DEF Begun
    <2>3. CASE ~offer_mobyturbo
      <3>1. probed = s /\ a = ZPAD
        BY <2>3
      <3> HIDE DEF probed, s, a
      <3> QED
        BY <2>1, <3>1
    <2> QED
      BY <2>2, <2>3
  <1>4. p \in Parameters
    <2>1. zf3 \in Byte /\ 0 \in Byte /\ ZFILE \in Byte
      BY DEF Byte, ZFILE
    <2> HIDE DEF zf3
    <2>2. p \in Seq(Byte) /\ Len(p) = 5
      BY <2>1
    <2> HIDE DEF p
    <2> QED
      BY <2>2 DEF Parameters
  <1>5. a = ZPAD \/ case.send.m
    BY <1>2
  <1>6. Info \in Seq(Byte)
    <2>1. 97 \in Byte /\ 0 \in Byte /\ 49 \in Byte
      BY DEF Byte
    <2> QED
      BY <2>1 DEF Info
  <1>7. ZCRCW \in ZCRCE .. ZCRCW
    BY DEF ZCRCE, ZCRCW
  <1>8. Offer(s) = tx_data(f, h, Info, ZCRCW)
    BY DEF Offer
  <1> HIDE DEF f, p, a, probed, zf3
  <1>9. h \in Begun(Allowed, a)
    BY <1>1, <1>3, <1>4, HeaderBegun
  <1> HIDE DEF h, s
  <1>10. PICK u \in Begun(Allowed, a) : tx_data(f, h, Info, ZCRCW) = raw(u, <<XON>>)
    BY <1>1, <1>6, <1>7, <1>9, DataBegun
  <1>11. Sent(raw(u, <<XON>>))
    BY <1>5, XonSent
  <1>12. Sent(Offer(s))
    BY <1>8, <1>10, <1>11
  <1> QED
    BY <1>12 DEF s

----------------------------------------------------------------------------
(* Everything keeps its type.                                              *)

Sender ==
  [pc : {"offer", "sync", "end", "gone"}, pack7 : Flag, moby : Flag, tries : 1 .. MaxTries,
   at : Nat, last : Flag, previous : 0 .. 127]

Files ==
  [pc : {"session", "info", "data", "block", "again", "done", "cancelled"}, stored : Seq(Byte),
   extended : Flag, moby : Flag, vhdr : Flag, asked : Nat]

\* Nothing but the sender's consent to it brings MobyTurbo about.
SenderOK == tx \in Sender /\ (tx.moby => case.send.m)

TypeInv ==
  /\ case \in Cases /\ SenderOK /\ wire \in Seq(Byte) /\ replies \in Seq(Headers)
  /\ rx \in Good /\ file \in Files /\ hit \in {"none", "hit", "deaf"}
  /\ ~Over /\ ~InHeader => Receives(rx)

LEMMA SenderPrevious ==
  ASSUME NEW t \in Sender, NEW x \in 0 .. 127
  PROVE  [t EXCEPT !.previous = x] \in Sender /\ [t EXCEPT !.previous = x].moby = t.moby
  BY DEF Sender

LEMMA SenderChanges ==
  ASSUME NEW t \in Sender
  PROVE  /\ \A n \in Nat : t.tries + n <= MaxTries => t.tries + n \in 1 .. MaxTries
         /\ \A x \in 1 .. MaxTries : [t EXCEPT !.tries = x] \in Sender /\ [t EXCEPT !.tries = x].moby = t.moby
         /\ [t EXCEPT !.pc = "end"] \in Sender /\ [t EXCEPT !.pc = "end"].moby = t.moby
         /\ [t EXCEPT !.pc = "gone"] \in Sender /\ [t EXCEPT !.pc = "gone"].moby = t.moby
  <1>1. MaxTries \in Nat /\ t.tries \in 1 .. MaxTries
    BY FramingAssumption DEF Sender
  <1>2. \A n \in Nat : t.tries + n <= MaxTries => t.tries + n \in 1 .. MaxTries
    BY <1>1
  <1>3. \A x \in 1 .. MaxTries : [t EXCEPT !.tries = x] \in Sender /\ [t EXCEPT !.tries = x].moby = t.moby
    BY DEF Sender
  <1>4. [t EXCEPT !.pc = "end"] \in Sender /\ [t EXCEPT !.pc = "end"].moby = t.moby
    BY DEF Sender
  <1>5. [t EXCEPT !.pc = "gone"] \in Sender /\ [t EXCEPT !.pc = "gone"].moby = t.moby
    BY DEF Sender
  <1> QED
    BY <1>2, <1>3, <1>4, <1>5

LEMMA SendTyped ==
  ASSUME case \in Cases, NEW s, Sent(s), NEW t \in Sender, t.moby => case.send.m, Send(s, t),
         wire \in Seq(Byte)
  PROVE  /\ wire' \in Seq(Byte) /\ tx' \in Sender /\ (tx'.moby => case.send.m)
         /\ tx'.moby = t.moby
  <1> DEFINE w == s.wire  x == s.previous
  <1>1. w \in Seq(Byte) /\ x \in 0 .. 127
    BY DEF Sent
  <1>2. case.line \in Lines
    BY CaseIs
  <1> HIDE DEF w, x
  <1> DEFINE arrives == Through(case.line, w)
  <1>3. arrives \in Seq(Byte)
    BY <1>1, <1>2, ThroughBytes
  <1>4. wire' = wire \o arrives /\ tx' = [t EXCEPT !.previous = x]
    BY DEF Send, w, x
  <1> HIDE DEF arrives
  <1>5. wire \o arrives \in Seq(Byte)
    BY <1>3, Joined
  <1> QED
    BY <1>1, <1>4, <1>5, SenderPrevious

\* Whatever the line does to its bytes, stripping flow control or the eighth bit, a
\* header that goes out in hexadecimal is read as it was sent, whatever its length and
\* its parameters (tx_hex_header, rx_hex_header, rx_nibble).
THEOREM RepliesAreHeard ==
  \A line \in Lines, p \in Headers :
    HeaderIn(Through(line, tx_hex_header([wire |-> << >>, previous |-> 0], p).wire)) = p
  <1> TAKE line \in Lines, p \in Headers
  <1> DEFINE s == [wire |-> << >>, previous |-> 0]  w == tx_hex_header(s, p).wire
             b == Through(line, w)
  <1>1. s.wire = << >>
    OBVIOUS
  <1> HIDE DEF s
  <1>2. Written(w, p)
    BY <1>1, HexWritten
  <1> HIDE DEF w
  <1>3. Written(b, p)
    BY <1>2, WrittenThrough
  <1> HIDE DEF b
  <1>4. HeaderIn(b) = p
    BY <1>3, RoundTrip
  <1> QED
    BY <1>4 DEF b, w, s

\* So is a reply of zmrx.
LEMMA HeardIs ==
  ASSUME case \in Cases, NEW p \in Headers
  PROVE  Heard(p) = p
  <1>1. case.line \in Lines
    BY CaseIs
  <1> QED
    BY <1>1, RepliesAreHeard DEF Heard

\* A reply goes out.
LEMMA ReplyIs ==
  ASSUME case \in Cases, NEW fl \in Files
  PROVE  /\ tx_zrpos(fl) \in Headers
         /\ <<ZNAK, 0, 0, 0, 0>> \in Headers
         /\ \A k \in Int : <<ZACK>> \o Position(k) \in Headers
  <1>1. ZNAK \in Byte /\ 0 \in Byte /\ ZACK \in Byte /\ ZRPOS \in Byte
    BY DEF ZNAK, ZACK, ZRPOS, Byte
  <1>2. <<ZNAK, 0, 0, 0, 0>> \in Headers
    <2> DEFINE p == <<ZNAK, 0, 0, 0, 0>>
    <2>1. p \in Seq(Byte) /\ Len(p) = 5
      BY <1>1
    <2> HIDE DEF p
    <2>2. Len(p) \in 5 .. 17
      BY <2>1
    <2>3. p \in Headers
      BY <2>1, <2>2, HeadersAre
    <2> QED
      BY <2>3 DEF p
  <1>3. \A k \in Int : <<ZACK>> \o Position(k) \in Headers
    <2> TAKE k \in Int
    <2> DEFINE p == <<ZACK>> \o Position(k)
    <2>1. p \in Parameters /\ Len(p) = 5
      BY <1>1, PositionIs
    <2> HIDE DEF p
    <2>2. p \in Seq(Byte) /\ Len(p) \in 5 .. 17
      BY <2>1 DEF Parameters
    <2>3. p \in Headers
      BY <2>2, HeadersAre
    <2> QED
      BY <2>3 DEF p
  <1>4. tx_zrpos(fl) \in Headers
    <2> DEFINE pack7 == ~fl.extended /\ case.receive.pack7 /\ fl.vhdr
               moby == ~fl.extended /\ fl.moby
               flags == (IF moby THEN 1 ELSE 0) + (IF pack7 THEN 2 ELSE 0)
               header == <<ZRPOS>> \o Position(Len(fl.stored))
               three == <<0, 0, flags>>
    <2>1. tx_zrpos(fl) = IF flags = 0 THEN header ELSE header \o three
      BY DEF tx_zrpos
    <2>2. flags \in 0 .. 3
      <3> HIDE DEF moby, pack7
      <3> QED
        OBVIOUS
    <2>3. Len(fl.stored) \in Int
      <3>1. fl.stored \in Seq(Byte)
        BY DEF Files
      <3> QED
        BY <3>1
    <2>4. header \in Parameters /\ Len(header) = 5
      BY <1>1, <2>3, PositionIs
    <2>5. three \in Seq(Byte) /\ Len(three) = 3
      <3>1. flags \in Byte
        BY <2>2 DEF Byte
      <3> HIDE DEF flags
      <3> QED
        BY <1>1, <3>1
    <2> HIDE DEF header, three, flags
    <2> DEFINE long == header \o three
    <2>6. long \in Seq(Byte) /\ Len(long) = Len(header) + Len(three)
      BY <2>4, <2>5, Joined DEF Parameters
    <2> HIDE DEF long
    <2>7. long \in Headers
      <3>1. Len(long) \in 5 .. 17
        BY <2>4, <2>5, <2>6
      <3> QED
        BY <2>6, <3>1, HeadersAre
    <2>8. header \in Headers
      <3>1. header \in Seq(Byte) /\ Len(header) \in 5 .. 17
        BY <2>4 DEF Parameters
      <3> QED
        BY <3>1, HeadersAre
    <2> QED
      BY <2>1, <2>7, <2>8 DEF long
  <1> QED
    BY <1>2, <1>3, <1>4

LEMMA SenderChosen ==
  ASSUME NEW t \in Sender, NEW p \in BOOLEAN, NEW m \in BOOLEAN
  PROVE  [t EXCEPT !.pack7 = p, !.moby = m] \in Sender /\ [t EXCEPT !.pack7 = p, !.moby = m].moby = m
  <1>1. p \in Flag /\ m \in Flag
    BY DEF Flag
  <1> QED
    BY <1>1 DEF Sender

LEMMA SenderWaits ==
  ASSUME NEW t \in Sender, NEW n \in Nat, NEW b \in BOOLEAN
  PROVE  /\ [t EXCEPT !.pc = "sync", !.at = n, !.last = b] \in Sender
         /\ [t EXCEPT !.pc = "sync", !.at = n, !.last = b].moby = t.moby
  <1>1. b \in Flag
    BY DEF Flag
  <1> QED
    BY <1>1 DEF Sender

LEMMA ChosenIs ==
  ASSUME NEW header
  PROVE  LET c == select_zrpos_encoding(header)
         IN  c.pack7 \in BOOLEAN /\ c.moby \in BOOLEAN /\ (c.moby => case.send.m)
  BY DEF select_zrpos_encoding

\* What zmtx sends after t.
Sends(s, t) == Sent(s) /\ t \in Sender /\ (t.moby => case.send.m) /\ Send(s, t)

LEMMA SendFromIs ==
  ASSUME case \in Cases, tx \in Sender, NEW t \in Sender, t.moby => case.send.m, NEW k \in Nat,
         SendFrom(t, k)
  PROVE  \E s, u : Sends(s, u)
  <1> DEFINE f == Format(t)  x == tx.previous  u == [t EXCEPT !.pc = "end"]
             s == Streamed(f, [wire |-> << >>, previous |-> x], k)
  <1>1. f \in Formats /\ Covers(f, Allowed)
    BY FormatCovers
  <1>2. x \in -1 .. 127
    BY DEF Sender
  <1>3. u \in Sender /\ u.moby = t.moby
    BY SenderChanges
  <1>4. Send(s, u)
    BY DEF SendFrom, Unsent
  <1> HIDE DEF f, x, u
  <1>5. Sent(s)
    BY <1>1, <1>2, StreamedSent
  <1> HIDE DEF s
  <1>6. Sends(s, u)
    BY <1>3, <1>4, <1>5 DEF Sends
  <1> QED
    BY <1>6

LEMMA SendOneIs ==
  ASSUME case \in Cases, tx \in Sender, NEW t \in Sender, t.moby => case.send.m, NEW k \in Nat,
         SendOne(t, k)
  PROVE  \E s, u : Sends(s, u)
  <1> DEFINE f == Format(t)  x == tx.previous  n == k + Len(Block(k))  b == AtEnd(k)
             u == [t EXCEPT !.pc = "sync", !.at = n, !.last = b]
             s == Synchronized(f, [wire |-> << >>, previous |-> x], k)
  <1>1. f \in Formats /\ Covers(f, Allowed)
    BY FormatCovers
  <1>2. x \in -1 .. 127
    BY DEF Sender
  <1>3. n \in Nat /\ b \in BOOLEAN
    <2>1. Block(k) \in Seq(Byte)
      BY BlockIs
    <2>2. Len(Block(k)) \in Nat
      BY <2>1
    <2>3. b \in BOOLEAN
      BY DEF AtEnd
    <2> QED
      BY <2>2, <2>3
  <1>4. Send(s, u)
    BY DEF SendOne, Unsent
  <1> HIDE DEF f, x, n, b
  <1>5. u \in Sender /\ u.moby = t.moby
    BY <1>3, SenderWaits
  <1>6. Sent(s)
    BY <1>1, <1>2, SynchronizedSent
  <1> HIDE DEF s, u
  <1>7. Sends(s, u)
    BY <1>4, <1>5, <1>6 DEF Sends
  <1> QED
    BY <1>7

LEMMA SendAgainIs ==
  ASSUME case \in Cases, tx \in Sender, NEW t \in Sender, t.moby => case.send.m,
         Send(Offer(Unsent), t) \/ Send(ZeofHeader(Unsent), t)
  PROVE  \E s, u : Sends(s, u)
  <1> DEFINE x == tx.previous
  <1>1. x \in -1 .. 127
    BY DEF Sender
  <1>2. Unsent = [wire |-> << >>, previous |-> x]
    BY DEF Unsent
  <1> HIDE DEF x
  <1>3. Sent(Offer(Unsent)) /\ Sent(ZeofHeader(Unsent))
    BY <1>1, <1>2, OfferSent, ZeofSent
  <1>4. Sends(Offer(Unsent), t) \/ Sends(ZeofHeader(Unsent), t)
    BY <1>3 DEF Sends
  <1> QED
    BY <1>4

LEMMA RepeatSends ==
  ASSUME TypeInv, Repeat
  PROVE  \E s, u : Sends(s, u)
  <1> DEFINE x == tx.tries + 1  t == [tx EXCEPT !.tries = x]
  <1>1. tx \in Sender /\ (tx.moby => case.send.m) /\ case \in Cases
    BY DEF TypeInv, SenderOK
  <1>2. tx.tries < MaxTries /\ tx.tries \in Nat /\ MaxTries \in Nat
    BY <1>1, FramingAssumption DEF Repeat, Sender
  <1>3. x \in 1 .. MaxTries
    BY <1>2
  <1>4. t = [tx EXCEPT !.tries = @ + 1]
    OBVIOUS
  <1>5. Send(Offer(Unsent), t) \/ Send(ZeofHeader(Unsent), t)
    BY <1>4 DEF Repeat
  <1> HIDE DEF x
  <1>6. t \in Sender /\ t.moby = tx.moby
    BY <1>1, <1>3, SenderChanges
  <1> HIDE DEF t
  <1> QED
    BY <1>1, <1>5, <1>6, SendAgainIs

LEMMA AnswerSends ==
  ASSUME TypeInv, NEW header, header = << >> \/ (header \in Seq(Byte) /\ Len(header) >= 5),
         Answer(header)
  PROVE  UNCHANGED <<tx, wire>> \/ \E s, u : Sends(s, u)
  <1> DEFINE type == IF header = << >> THEN -1 ELSE header[1]
             k == (header[2] - case.base[1]) % 256
             chosen == select_zrpos_encoding(header)
             acknowledged == type = ZACK /\ tx.pc = "sync" /\ k = tx.at
             fresh == [tx EXCEPT !.pack7 = chosen.pack7, !.moby = chosen.moby]
             t == IF tx.pc # "offer" THEN tx ELSE fresh
             over == [tx EXCEPT !.pc = "end"]
  <1>1. tx \in Sender /\ (tx.moby => case.send.m) /\ case \in Cases
    BY DEF TypeInv, SenderOK
  <1>2. t \in Sender /\ (t.moby => case.send.m)
    <2>1. fresh \in Sender /\ (fresh.moby => case.send.m)
      <3> DEFINE p == chosen.pack7  m == chosen.moby
      <3>1. p \in BOOLEAN /\ m \in BOOLEAN /\ (m => case.send.m)
        BY ChosenIs
      <3> HIDE DEF p, m
      <3>2. fresh \in Sender /\ fresh.moby = m
        BY <1>1, <3>1, SenderChosen DEF p, m
      <3> HIDE DEF fresh
      <3> QED
        BY <3>1, <3>2
    <2> HIDE DEF fresh
    <2> QED
      BY <1>1, <2>1
  <1>3. over \in Sender /\ over.moby = tx.moby
    BY <1>1, SenderChanges
  <1>4. header # << >> => k \in Nat
    <2> SUFFICES ASSUME header # << >> PROVE k \in Nat
      OBVIOUS
    <2> DEFINE a == header[2]  b == case.base[1]
    <2>1. header \in Seq(Byte) /\ 2 \in 1 .. Len(header)
      OBVIOUS
    <2>2. a \in Byte
      BY <2>1
    <2>3. b \in Byte
      BY <1>1, CaseIs
    <2> HIDE DEF a, b
    <2>4. (a - b) % 256 \in Nat
      BY <2>2, <2>3 DEF Byte
    <2> QED
      BY <2>4 DEF a, b
  <1>5. type \in {ZRPOS, ZACK, ZNAK} => header # << >>
    BY DEF ZRPOS, ZACK, ZNAK
  <1>6. \/ type = ZRPOS /\ SendFrom(t, k)
        \/ type = ZACK /\ tx.pc # "offer" /\ SendFrom(t, k)
        \/ type = ZRPOS /\ SendOne(tx, k)
        \/ Send(Offer(Unsent), tx)
        \/ Send(ZeofHeader(Unsent), over)
        \/ UNCHANGED <<tx, wire>>
    <2>1. Answer(header) <=>
            \/ /\ \/ type = ZRPOS /\ (tx.pc = "offer" \/ k = Len(case.data))
                  \/ acknowledged /\ ~tx.last
               /\ SendFrom(t, k)
            \/ type = ZRPOS /\ tx.pc # "offer" /\ k # Len(case.data) /\ SendOne(tx, k)
            \/ type = ZNAK /\ tx.pc = "offer" /\ Send(Offer(Unsent), tx)
            \/ /\ (acknowledged /\ tx.last) \/ (type = ZACK /\ tx.pc = "end")
               /\ Send(ZeofHeader(Unsent), over)
            \/ /\ type = -1 \/ (type = ZACK /\ tx.pc \in {"offer", "sync"} /\ ~acknowledged)
               /\ UNCHANGED <<tx, wire>>
      BY DEF Answer
    <2> HIDE DEF type, k, t, over
    <2> QED
      BY <2>1
  <1> HIDE DEF type, k, t, over
  <1>7. CASE type \in {ZRPOS, ZACK} /\ SendFrom(t, k)
    BY <1>1, <1>2, <1>4, <1>5, <1>7, SendFromIs
  <1>8. CASE type = ZRPOS /\ SendOne(tx, k)
    BY <1>1, <1>4, <1>5, <1>8, SendOneIs
  <1>9. CASE Send(Offer(Unsent), tx)
    BY <1>1, <1>9, SendAgainIs
  <1>10. CASE Send(ZeofHeader(Unsent), over)
    BY <1>1, <1>3, <1>10, SendAgainIs
  <1> QED
    BY <1>6, <1>7, <1>8, <1>9, <1>10

LEMMA TakeReplySends ==
  ASSUME TypeInv, TakeReply
  PROVE  /\ UNCHANGED <<tx, wire>> \/ \E s, u : Sends(s, u)
         /\ replies' \in Seq(Headers)
  <1> DEFINE p == Head(replies)  header == Heard(p)
  <1>1. replies \in Seq(Headers) /\ replies # << >> /\ case \in Cases
    BY DEF TypeInv, TakeReply
  <1>2. p \in Headers /\ Tail(replies) \in Seq(Headers)
    BY <1>1
  <1>3. Answer(header) /\ replies' = Tail(replies)
    BY DEF TakeReply
  <1> HIDE DEF p
  <1>4. header = << >> \/ (header \in Seq(Byte) /\ Len(header) >= 5)
    <2>1. header = p
      BY <1>1, <1>2, HeardIs
    <2>2. p \in Seq(Byte) /\ Len(p) >= 5
      BY <1>2 DEF Headers, Parameters, HDRLEN
    <2> HIDE DEF header
    <2> QED
      BY <2>1, <2>2
  <1> HIDE DEF header
  <1> QED
    BY <1>2, <1>3, <1>4, AnswerSends

LEMMA FilesPlace ==
  ASSUME NEW fl \in Files,
         NEW x \in {"session", "info", "data", "block", "again", "done", "cancelled"}
  PROVE  [fl EXCEPT !.pc = x] \in Files /\ [fl EXCEPT !.pc = x].pc = x
  BY DEF Files

LEMMA FilesOffered ==
  ASSUME NEW fl \in Files, NEW v \in BOOLEAN, NEW m \in BOOLEAN
  PROVE  LET s == [fl EXCEPT !.pc = "info", !.extended = FALSE, !.vhdr = v, !.moby = m]
         IN  s \in Files /\ s.pc = "info"
  <1>1. v \in Flag /\ m \in Flag /\ FALSE \in Flag
    BY DEF Flag
  <1> QED
    BY <1>1 DEF Files

LEMMA FilesAsked ==
  ASSUME NEW fl \in Files, NEW x \in BOOLEAN
  PROVE  LET s == [fl EXCEPT !.pc = "data", !.asked = fl.asked + 1, !.extended = x]
         IN  s \in Files /\ s.pc = "data"
  <1>1. x \in Flag
    BY DEF Flag
  <1> DEFINE n == fl.asked + 1
  <1>2. n \in Nat
    BY DEF Files
  <1> HIDE DEF n
  <1>3. [fl EXCEPT !.pc = "data", !.asked = n, !.extended = x] \in Files
        /\ [fl EXCEPT !.pc = "data", !.asked = n, !.extended = x].pc = "data"
    BY <1>1, <1>2 DEF Files
  <1> QED
    BY <1>3 DEF n

LEMMA AppendReply ==
  ASSUME NEW all \in Seq(Headers), NEW p \in Headers
  PROVE  Append(all, p) \in Seq(Headers)
  OBVIOUS

LEMMA RestBytes ==
  ASSUME NEW s \in Seq(Byte), NEW n \in 0 .. Len(s)
  PROVE  SubSeq(s, n + 1, Len(s)) \in Seq(Byte)
  <1>1. n + 1 \in Nat \ {0} /\ Len(s) \in Int /\ Len(s) <= Len(s)
    OBVIOUS
  <1> QED
    BY <1>1, PartBytes

LEMMA AskTyped ==
  ASSUME case \in Cases, replies \in Seq(Headers), NEW r \in Good, NEW fl \in Files, Ask(r, fl)
  PROVE  /\ rx' \in Good /\ file' \in Files /\ file'.pc = "data" /\ replies' \in Seq(Headers)
  <1> DEFINE header == tx_zrpos(fl)  x == fl.extended \/ Len(header) > HDRLEN
             s == [fl EXCEPT !.pc = "data", !.asked = fl.asked + 1, !.extended = x]
  <1>1. header \in Headers
    BY ReplyIs
  <1>2. replies' = Append(replies, header) /\ rx' = HeaderStart(r)
    BY DEF Ask
  <1>3. file' = s
    BY DEF Ask
  <1>4. x \in BOOLEAN
    OBVIOUS
  <1> HIDE DEF x, header
  <1>5. s \in Files /\ s.pc = "data"
    BY <1>4, FilesAsked
  <1> HIDE DEF s
  <1> QED
    BY <1>1, <1>2, <1>3, <1>5, HeaderStartGood, AppendReply

\* The receiver, at the next byte.
LEMMA ReadTyped ==
  ASSUME HeardInv, TypeInv, ~Over, wire # << >>
  PROVE  /\ Head(wire) \in Byte /\ Tail(wire) \in Seq(Byte)
         /\ Read(Head(wire)) \in Good
         /\ ~InHeader => Receives(Read(Head(wire)))
  <1> DEFINE c == Head(wire)  rest == Tail(wire)
  <1>1. wire \in Seq(Byte) /\ rx \in Good /\ (~InHeader => Receives(rx))
    BY DEF TypeInv
  <1>2. c \in Byte /\ rest \in Seq(Byte)
    BY <1>1
  <1>3. rx.event = "none" /\ rx.cancel \in 0 .. 4 /\ (InHeader => rx.at \in AtHeader)
    BY DEF HeardInv, LiveInv, Alive
  <1> HIDE DEF c, rest
  <1>4. CASE InHeader
    <2>1. rx_header(rx, c) \in Good
      BY <1>1, <1>2, <1>3, <1>4, HeaderTyped
    <2>2. Read(c) = rx_header(rx, c)
      BY <1>4 DEF Read
    <2> QED
      BY <1>2, <1>4, <2>1, <2>2 DEF c, rest
  <1>5. CASE ~InHeader
    <2>1. Receives(rx_data(rx, c))
      BY <1>1, <1>2, <1>3, <1>5, DataTyped
    <2>2. Read(c) = rx_data(rx, c)
      BY <1>5 DEF Read
    <2>3. Receives(Read(c)) /\ Read(c) \in Good
      BY <2>1, <2>2 DEF Receives
    <2> QED
      BY <1>2, <2>3 DEF c, rest
  <1> QED
    BY <1>4, <1>5

\* What it makes of it is what each of its steps hands on.
Handed ==
  /\ rx' \in Good /\ file' \in Files /\ replies' \in Seq(Headers) /\ wire' \in Seq(Byte)
  /\ file'.pc \in {"session", "data", "done", "cancelled"} \/ Receives(rx')

LEMMA DataStartReceives ==
  ASSUME NEW r \in Good
  PROVE  Receives(DataStart(r))
  BY DataStartGood DEF Receives

LEMMA ReceiveLeaves ==
  ASSUME case \in Cases, file \in Files, replies \in Seq(Headers),
         NEW r \in Good, ~InHeader => Receives(r), NEW rest \in Seq(Byte), Receive(r, rest)
  PROVE  Handed
  <1> DEFINE h == HeaderStart(r)  d == DataStart(r)
  <1>1. h \in Good /\ d \in Good /\ Receives(d)
    BY HeaderStartGood, DataStartGood, DataStartReceives
  <1>2. Ask(r, file) => rx' \in Good /\ file' \in Files /\ file'.pc = "data"
                        /\ replies' \in Seq(Headers)
    BY AskTyped
  <1>3. Purge(rest) => wire' \in Seq(Byte)
    BY RestBytes DEF Purge
  <1> HIDE DEF h, d
  <1>4. ASSUME Continue(r, rest) PROVE Handed
    <2>1. file.pc \in {"session", "data"} <=> InHeader
      BY DEF InHeader
    <2> QED
      BY <1>4, <2>1 DEF Continue, Handed
  <1>5. ASSUME Cancelled(r, rest) PROVE Handed
    <2>1. file' \in Files /\ file'.pc = "cancelled"
      BY <1>5, FilesPlace DEF Cancelled
    <2> QED
      BY <1>5, <2>1 DEF Cancelled, Handed
  <1>6. ASSUME ReceiveFile(r, rest) PROVE Handed
    <2> DEFINE v == r.header[2] % 2 = 1  m == zfile_moby(r.header, r.passed)
    <2>1. v \in BOOLEAN /\ m \in BOOLEAN
      BY DEF zfile_moby
    <2>2. file' = [file EXCEPT !.pc = "info", !.extended = FALSE, !.vhdr = v, !.moby = m]
      BY <1>6 DEF ReceiveFile
    <2> HIDE DEF v, m
    <2>3. file' \in Files
      BY <2>1, <2>2, FilesOffered
    <2>4. rx' = d /\ wire' = rest /\ replies' = replies
      BY <1>6 DEF ReceiveFile, d
    <2> QED
      BY <1>1, <2>3, <2>4 DEF Handed
  <1>7. ASSUME OtherHeader(r, rest) PROVE Handed
    <2> DEFINE i == Invited(r)
    <2>1. i \in Good
      BY InvitedGood
    <2>2. rx' = h \/ rx' = HeaderStart(i)
      BY <1>7 DEF OtherHeader, h
    <2> HIDE DEF i
    <2>3. rx' \in Good
      BY <1>1, <2>1, <2>2, HeaderStartGood
    <2> QED
      BY <1>7, <2>3 DEF OtherHeader, Handed
  <1>8. ASSUME InfoArrives(r, rest) PROVE Handed
    <2> DEFINE nak == <<ZNAK, 0, 0, 0, 0>>
    <2>1. nak \in Headers
      BY ReplyIs
    <2>2. \/ Ask(r, file)
          \/ replies' = Append(replies, nak) /\ file' = [file EXCEPT !.pc = "session"] /\ rx' = h
      BY <1>8 DEF InfoArrives, h
    <2>3. wire' = rest
      BY <1>8 DEF InfoArrives
    <2> HIDE DEF nak
    <2>4. CASE Ask(r, file)
      BY <1>2, <2>3, <2>4 DEF Handed
    <2>5. CASE replies' = Append(replies, nak) /\ file' = [file EXCEPT !.pc = "session"] /\ rx' = h
      BY <1>1, <2>1, <2>3, <2>5, FilesPlace, AppendReply DEF Handed
    <2> QED
      BY <2>2, <2>4, <2>5
  <1>9. ASSUME OpenFrame(r, rest) PROVE Handed
    <2>1. \/ file' = [file EXCEPT !.pc = "block"] /\ rx' = d /\ wire' = rest /\ replies' = replies
          \/ Ask(r, file) /\ Purge(rest)
      BY <1>9 DEF OpenFrame, d
    <2>2. CASE file' = [file EXCEPT !.pc = "block"] /\ rx' = d /\ wire' = rest /\ replies' = replies
      BY <1>1, <2>2, FilesPlace DEF Handed
    <2>3. CASE Ask(r, file) /\ Purge(rest)
      BY <1>2, <1>3, <2>3 DEF Handed
    <2> QED
      BY <2>1, <2>2, <2>3
  <1>10. ASSUME EndOfFile(r, rest) PROVE Handed
    <2> DEFINE x == IF Tail(r.header) = Position(Len(file.stored)) THEN "done" ELSE "data"
    <2>1. file' = [file EXCEPT !.pc = x] /\ rx' = h /\ wire' = rest /\ replies' = replies
      BY <1>10 DEF EndOfFile, h
    <2>2. x \in {"done", "data"}
      OBVIOUS
    <2> HIDE DEF x
    <2> QED
      BY <1>1, <2>1, <2>2, FilesPlace, ZenonT(60) DEF Handed
  <1>11. ASSUME FileAgain(r, rest) PROVE Handed
    <2>1. file' = [file EXCEPT !.pc = "again"] /\ rx' = d /\ wire' = rest /\ replies' = replies
      BY <1>11 DEF FileAgain, d
    <2> QED
      BY <1>1, <2>1, FilesPlace DEF Handed
  <1>12. ASSUME InfoAgain(r, rest) PROVE Handed
    BY <1>2, <1>12 DEF InfoAgain, Handed
  <1>13. ASSUME BlockArrives(r, rest) PROVE Handed
    <2> DEFINE stored == file.stored \o r.out
               open == r.ending \in {ZCRCG, ZCRCQ}
               p == IF open THEN "block" ELSE "data"
               ack == <<ZACK>> \o Position(Len(stored))
    <2>1. stored \in Seq(Byte)
      <3>1. file.stored \in Seq(Byte) /\ r.out \in Seq(Byte)
        BY GoodFields DEF Files
      <3> QED
        BY <3>1, Joined
    <2>2. Len(stored) \in Int
      BY <2>1
    <2>3. ack \in Headers
      BY <2>2, ReplyIs
    <2>4. /\ file' = [file EXCEPT !.stored = stored, !.pc = p]
          /\ rx' = IF open THEN d ELSE h
          /\ replies' = Append(replies, ack) \/ replies' = replies
          /\ wire' = rest
      BY <1>13 DEF BlockArrives, d, h
    <2> HIDE DEF stored, ack
    <2>5. p \in {"block", "data"} /\ (p = "data" \/ open)
      OBVIOUS
    <2> HIDE DEF p
    <2>6. file' \in Files /\ file'.pc = p
      <3> DEFINE fl == [file EXCEPT !.stored = stored, !.pc = p]
      <3>1. fl \in Files /\ fl.pc = p
        <4> HIDE DEF open
        <4>1. p \in {"block", "data"}
          BY <2>5
        <4> QED
          BY <2>1, <4>1 DEF Files
      <3>2. file' = fl
        BY <2>4
      <3> HIDE DEF fl
      <3> QED
        BY <3>1, <3>2
    <2>7. replies' \in Seq(Headers)
      BY <2>3, <2>4, AppendReply
    <2>8. rx' \in Good /\ (Receives(rx') \/ p = "data")
      <3> HIDE DEF open
      <3>1. CASE open
        BY <1>1, <2>4, <3>1
      <3>2. CASE ~open
        BY <1>1, <2>4, <2>5, <3>2
      <3> QED
        BY <3>1, <3>2
    <2> QED
      BY <2>4, <2>6, <2>7, <2>8 DEF Handed
  <1>14. ASSUME BlockRefused(r, rest) PROVE Handed
    BY <1>2, <1>3, <1>14 DEF BlockRefused, Handed
  <1> QED
    BY <1>4, <1>5, <1>6, <1>7, <1>8, <1>9, <1>10, <1>11, <1>12, <1>13, <1>14 DEF Receive

LEMMA TypeInit == Init => TypeInv
  <1> SUFFICES ASSUME Init PROVE TypeInv
    OBVIOUS
  <1>1. case \in Cases /\ replies = << >> /\ hit = "none"
    BY DEF Init
  <1> DEFINE sent == Offer([wire |-> << >>, previous |-> -1])
             new == [pc |-> "offer", pack7 |-> FALSE, moby |-> FALSE, tries |-> 1,
                     at |-> 0, last |-> FALSE, previous |-> 0]
  <1>2. Sent(sent)
    <2>1. -1 \in -1 .. 127
      OBVIOUS
    <2> QED
      BY <1>1, <2>1, OfferSent
  <1>3. tx = [new EXCEPT !.previous = sent.previous]
        /\ wire = case.stray \o Through(case.line, sent.wire)
    BY DEF Init
  <1> HIDE DEF sent
  <1>4. new \in Sender /\ ~new.moby
    <2>1. FALSE \in Flag /\ 1 \in 1 .. MaxTries /\ 0 \in 0 .. 127 /\ 0 \in Nat
      BY FramingAssumption DEF Flag
    <2> QED
      BY <2>1 DEF Sender
  <1> HIDE DEF new
  <1>5. SenderOK
    <2>1. sent.previous \in 0 .. 127
      BY <1>2 DEF Sent
    <2> QED
      BY <1>3, <1>4, <2>1, SenderPrevious DEF SenderOK
  <1>6. wire \in Seq(Byte)
    <2> DEFINE w == sent.wire  a == case.stray  b == Through(case.line, w)
    <2>1. w \in Seq(Byte) /\ case.line \in Lines /\ a \in Seq(Byte)
      BY <1>1, <1>2, CaseIs DEF Sent
    <2> HIDE DEF w
    <2>2. b \in Seq(Byte)
      BY <2>1, ThroughBytes
    <2>3. wire = a \o b
      BY <1>3 DEF w
    <2> HIDE DEF a, b
    <2> QED
      BY <2>1, <2>2, <2>3, Joined
  <1>7. file \in Files /\ file.pc = "session"
    <2> DEFINE f == [pc |-> "session", stored |-> << >>, extended |-> FALSE, moby |-> FALSE,
                     vhdr |-> FALSE, asked |-> 0]
    <2>1. file = f
      BY DEF Init
    <2>2. FALSE \in Flag /\ << >> \in Seq(Byte) /\ 0 \in Nat
      BY DEF Flag
    <2> QED
      BY <2>1, <2>2 DEF Files
  <1>8. rx \in Good
    <2> DEFINE x == case.receive.ctl  y == IF case.receive.esc8 THEN "legacy" ELSE "none"
               s == [Started EXCEPT !.ctl = x]  t == [s EXCEPT !.escape8 = y]
    <2>1. x \in BOOLEAN /\ y \in {"none", "legacy", "omen"}
      BY <1>1, CaseIs DEF Receivers
    <2>2. rx = [Started EXCEPT !.ctl = x, !.escape8 = y]
      BY DEF Init
    <2> HIDE DEF x, y
    <2>3. s \in Good
      BY <2>1, StartedGood, GoodCtl
    <2>4. rx = t
      BY <2>2
    <2> HIDE DEF s
    <2> QED
      BY <2>1, <2>3, <2>4, GoodName
  <1>9. replies \in Seq(Headers)
    BY <1>1
  <1>10. InHeader
    BY <1>7 DEF InHeader
  <1> QED
    BY <1>1, <1>5, <1>6, <1>7, <1>8, <1>9, <1>10 DEF TypeInv

\* What zmtx does leaves the rest alone.
LEMMA TypeSends ==
  ASSUME TypeInv, UNCHANGED <<case, rx, file, hit>>, replies' \in Seq(Headers),
         UNCHANGED <<tx, wire>> \/ \E s, t : Sends(s, t)
  PROVE  TypeInv'
  <1>1. case \in Cases /\ wire \in Seq(Byte) /\ SenderOK
    BY DEF TypeInv
  <1>2. wire' \in Seq(Byte) /\ SenderOK'
    <2>1. CASE UNCHANGED <<tx, wire>>
      BY <1>1, <2>1 DEF SenderOK
    <2>2. CASE \E s, t : Sends(s, t)
      <3>1. PICK s, t : Sends(s, t)
        BY <2>2
      <3>2. Sent(s) /\ t \in Sender /\ (t.moby => case.send.m) /\ Send(s, t)
        BY <3>1 DEF Sends
      <3>3. wire' \in Seq(Byte) /\ tx' \in Sender /\ (tx'.moby => case.send.m)
        BY <1>1, <3>2, SendTyped
      <3> QED
        BY <3>3 DEF SenderOK
    <2> QED
      BY <2>1, <2>2
  <1>3. (Over' <=> Over) /\ (InHeader' <=> InHeader)
    BY DEF Over, InHeader
  <1> QED
    BY <1>2, <1>3 DEF TypeInv

LEMMA TypeTransmits == TypeInv /\ (Repeat \/ TakeReply) => TypeInv'
  <1> SUFFICES ASSUME TypeInv, Repeat \/ TakeReply PROVE TypeInv'
    OBVIOUS
  <1>1. CASE Repeat
    <2>1. UNCHANGED <<case, replies, rx, file, hit>>
      BY <1>1 DEF Repeat
    <2>2. replies' \in Seq(Headers)
      BY <2>1 DEF TypeInv
    <2>3. \E s, t : Sends(s, t)
      BY <1>1, RepeatSends
    <2> QED
      BY <2>1, <2>2, <2>3, TypeSends
  <1>2. CASE TakeReply
    <2>1. UNCHANGED <<case, rx, file, hit>>
      BY <1>2 DEF TakeReply
    <2>2. replies' \in Seq(Headers) /\ (UNCHANGED <<tx, wire>> \/ \E s, t : Sends(s, t))
      BY <1>2, TakeReplySends
    <2> QED
      BY <2>1, <2>2, TypeSends
  <1> QED
    BY <1>1, <1>2

\* What zmrx does leaves the rest alone.
LEMMA TypeLeft ==
  ASSUME TypeInv, UNCHANGED <<case, tx, hit>>, Handed
  PROVE  TypeInv'
  <1>1. SenderOK'
    BY DEF TypeInv, SenderOK
  <1>2. ~Over' /\ ~InHeader' => Receives(rx')
    BY DEF Handed, Over, InHeader
  <1> QED
    BY <1>1, <1>2 DEF TypeInv, Handed

LEMMA TypeReceives == HeardInv /\ TypeInv /\ (ReceiveByte \/ Timeout) => TypeInv'
  <1> SUFFICES ASSUME HeardInv, TypeInv, ReceiveByte \/ Timeout PROVE TypeInv'
    OBVIOUS
  <1>1. case \in Cases /\ file \in Files /\ replies \in Seq(Headers) /\ rx \in Good
        /\ wire \in Seq(Byte)
    BY DEF TypeInv
  <1>2. CASE ReceiveByte
    <2> DEFINE r == Read(Head(wire))  rest == Tail(wire)
    <2>1. UNCHANGED <<case, tx, hit>> /\ ~Over /\ wire # << >> /\ Receive(r, rest)
      BY <1>2 DEF ReceiveByte
    <2>2. r \in Good /\ (~InHeader => Receives(r)) /\ rest \in Seq(Byte)
      BY <2>1, ReadTyped
    <2> HIDE DEF r, rest
    <2>3. Handed
      BY <1>1, <2>1, <2>2, ReceiveLeaves
    <2> QED
      BY <2>1, <2>3, TypeLeft
  <1>3. CASE Timeout
    <2> DEFINE i == Invited(rx)
    <2>1. UNCHANGED <<case, tx, wire, hit>>
      BY <1>3 DEF Timeout
    <2>2. \/ rx' = HeaderStart(i) /\ file' = [file EXCEPT !.pc = "session"] /\ replies' = replies
          \/ Ask(rx, file)
      BY <1>3 DEF Timeout
    <2>3. i \in Good
      BY <1>1, InvitedGood
    <2> HIDE DEF i
    <2>4. HeaderStart(i) \in Good
      BY <2>3, HeaderStartGood
    <2>5. wire' \in Seq(Byte)
      BY <1>1, <2>1
    <2>6. Handed
      <3>1. CASE rx' = HeaderStart(i) /\ file' = [file EXCEPT !.pc = "session"] /\ replies' = replies
        BY <1>1, <2>4, <2>5, <3>1, FilesPlace DEF Handed
      <3>2. CASE Ask(rx, file)
        <4>1. rx' \in Good /\ file' \in Files /\ file'.pc = "data" /\ replies' \in Seq(Headers)
          BY <1>1, <3>2, AskTyped
        <4> QED
          BY <2>5, <4>1 DEF Handed
      <3> QED
        BY <2>2, <3>1, <3>2
    <2> QED
      BY <2>1, <2>6, TypeLeft
  <1> QED
    BY <1>2, <1>3

LEMMA DamagedBytes ==
  ASSUME NEW c \in Byte, NEW s \in Damaged(c)
  PROVE  s \in Seq(Byte)
  <1> DEFINE t == Toggled(c)  e == IF c % 2 = 0 THEN c + 1 ELSE c - 1  h == (c + 128) % 256
  <1>1. t \in Byte /\ e \in Byte /\ h \in Byte /\ ZDLE \in Byte /\ ZPAD \in Byte /\ XON \in Byte
    <2>1. t \in Byte
      BY ControlBytes
    <2>2. e \in Byte /\ h \in Byte
      BY DEF Byte
    <2>3. ZDLE \in Byte /\ ZPAD \in Byte /\ XON \in Byte
      BY DEF ZDLE, ZPAD, XON, Byte
    <2> QED
      BY <2>1, <2>2, <2>3
  <1>2. s = << >> \/ s = <<t>> \/ s = <<e>> \/ s = <<h>> \/ s = <<ZDLE>> \/ s = <<ZPAD>>
        \/ s = <<c, XON>>
    BY DEF Damaged
  <1> HIDE DEF t, e, h
  <1>3. << >> \in Seq(Byte) /\ <<t>> \in Seq(Byte) /\ <<e>> \in Seq(Byte) /\ <<h>> \in Seq(Byte)
    BY <1>1
  <1>4. <<ZDLE>> \in Seq(Byte) /\ <<ZPAD>> \in Seq(Byte)
    BY <1>1
  <1>5. <<c, XON>> \in Seq(Byte)
    BY <1>1
  <1> QED
    BY <1>2, <1>3, <1>4, <1>5, Zenon

LEMMA TypeLine == TypeInv /\ (FlowControl \/ Damage \/ Abort \/ LoseReply) => TypeInv'
  <1> SUFFICES ASSUME TypeInv, FlowControl \/ Damage \/ Abort \/ LoseReply PROVE TypeInv'
    OBVIOUS
  <1>1. /\ UNCHANGED <<case, rx, file>> /\ wire \in Seq(Byte) /\ replies \in Seq(Headers)
        /\ SenderOK /\ case \in Cases
    <2>1. UNCHANGED <<case, rx, file>>
      BY DEF FlowControl, Damage, Abort, LoseReply
    <2> QED
      BY <2>1 DEF TypeInv
  <1>2. hit' \in {"none", "hit", "deaf"}
    BY DEF FlowControl, Damage, Abort, LoseReply
  <1>3. wire' \in Seq(Byte)
    <2>1. CASE FlowControl
      <3>1. PICK c \in {XON, XOFF} : wire' = <<c>> \o wire
        BY <2>1 DEF FlowControl
      <3> DEFINE one == <<c>>
      <3>2. one \in Seq(Byte)
        BY DEF XON, XOFF, Byte
      <3> HIDE DEF one
      <3>3. one \o wire \in Seq(Byte)
        BY <1>1, <3>2, Joined
      <3> QED
        BY <3>1, <3>3 DEF one
    <2>2. CASE Damage
      <3>1. wire # << >>
        BY <2>2 DEF Damage
      <3> DEFINE c == Head(wire)  rest == Tail(wire)
      <3>2. c \in Byte /\ rest \in Seq(Byte)
        BY <1>1, <3>1
      <3>3. PICK s \in Damaged(c) : wire' = s \o rest
        BY <2>2 DEF Damage
      <3> HIDE DEF c, rest
      <3>4. s \in Seq(Byte)
        BY <3>2, DamagedBytes
      <3> QED
        BY <3>2, <3>3, <3>4, Joined
    <2>3. CASE Abort
      <3> DEFINE cans == Repeated(CAN, 5)
      <3>1. cans \in Seq(Byte)
        <4>1. CAN \in Byte /\ 5 \in Int
          BY DEF CAN, Byte
        <4> QED
          BY <4>1, RepeatedBytes
      <3>2. wire' = Through(case.line, cans)
        BY <2>3 DEF Abort
      <3> HIDE DEF cans
      <3>3. case.line \in Lines
        BY <1>1, CaseIs
      <3> QED
        BY <3>1, <3>2, <3>3, ThroughBytes
    <2>4. CASE LoseReply
      BY <1>1, <2>4 DEF LoseReply
    <2> QED
      BY <2>1, <2>2, <2>3, <2>4
  <1>4. replies' \in Seq(Headers)
    <2>1. replies' = replies \/ (replies # << >> /\ replies' = Tail(replies))
      BY DEF FlowControl, Damage, Abort, LoseReply
    <2> QED
      BY <1>1, <2>1
  <1>5. SenderOK'
    <2>1. tx' = tx \/ tx' = [tx EXCEPT !.pc = "gone"]
      BY DEF FlowControl, Damage, Abort, LoseReply
    <2>2. tx \in Sender /\ (tx.moby => case.send.m)
      BY <1>1 DEF SenderOK
    <2>3. tx' \in Sender /\ tx'.moby = tx.moby
      <3>1. CASE tx' = tx
        BY <2>2, <3>1
      <3>2. CASE tx' = [tx EXCEPT !.pc = "gone"]
        BY <2>2, <3>2, SenderChanges
      <3> QED
        BY <2>1, <3>1, <3>2
    <2> QED
      BY <1>1, <2>2, <2>3 DEF SenderOK
  <1>6. (Over' <=> Over) /\ (InHeader' <=> InHeader)
    BY <1>1 DEF Over, InHeader
  <1> QED
    BY <1>1, <1>2, <1>3, <1>4, <1>5, <1>6 DEF TypeInv

LEMMA Changes ==
  ASSUME [Next]_vars
  PROVE  \/ Repeat \/ TakeReply
         \/ ReceiveByte \/ Timeout
         \/ FlowControl \/ Damage \/ Abort \/ LoseReply
         \/ UNCHANGED vars
  BY DEF Next

LEMMA TypeSteps == HeardInv /\ TypeInv /\ [Next]_vars => TypeInv'
  <1>1. TypeInv /\ UNCHANGED vars => TypeInv'
    BY DEF vars, TypeInv, SenderOK, Over, InHeader
  <1> QED
    BY <1>1, Changes, TypeTransmits, TypeReceives, TypeLine

LEMMA TypeInvTypes == TypeInv => TypeOK
  <1> SUFFICES ASSUME TypeInv PROVE TypeOK
    OBVIOUS
  <1>1. case \in Case
    BY FramingAssumption DEF TypeInv
  <1>2. tx \in [pc : {"offer", "sync", "end", "gone"}, pack7 : BOOLEAN, moby : BOOLEAN,
             tries : 1 .. MaxTries, at : Nat, last : BOOLEAN, previous : 0 .. 127]
    BY Zenon DEF TypeInv, SenderOK, Sender, Flag
  <1>3. file \in [pc : {"session", "info", "data", "block", "again", "done", "cancelled"},
               stored : Seq(Byte), extended : BOOLEAN, moby : BOOLEAN, vhdr : BOOLEAN,
               asked : Nat]
    BY Zenon DEF TypeInv, Files, Flag
  <1>4. replies \in Seq(Seq(Byte))
    <2>1. replies \in Seq(Headers) /\ Headers \subseteq Seq(Byte)
      BY DEF TypeInv, Headers, Parameters
    <2> HIDE DEF Headers
    <2>2. \A i \in 1 .. Len(replies) : replies[i] \in Seq(Byte)
      BY <2>1
    <2> QED
      BY <2>1, <2>2
  <1>5. rx \in Receiver /\ wire \in Seq(Byte) /\ hit \in {"none", "hit", "deaf"}
    BY DEF TypeInv, Good
  <1> QED
    BY <1>1, <1>2, <1>3, <1>4, <1>5 DEF TypeOK

\* Whatever the options, the data and the line, both programs and what is under way
\* between them keep their types: no field of struct zmodem leaves its range, and no
\* header or subpacket holds anything but bytes (rx_header, rx_data, tx_header, tx_data).
THEOREM TypesHold == Spec => []TypeOK
  <1>1. Init => HeardInv /\ TypeInv
    BY HeardInit, TypeInit
  <1>2. HeardInv /\ TypeInv /\ [Next]_vars => HeardInv' /\ TypeInv'
    BY HeardSteps, TypeSteps
  <1>3. TypeInv => TypeOK
    BY TypeInvTypes
  <1> QED
    BY <1>1, <1>2, <1>3, PTL DEF Spec

\* What the line carries at any moment has the same sum over eight bytes at a time as
\* over one, as SlicingIsRight says of any bytes (crc32_update and its tables).
THEOREM SlicesAlwaysAgree == Spec => []SlicesAgree
  <1>1. Init => HeardInv /\ TypeInv
    BY HeardInit, TypeInit
  <1>2. HeardInv /\ TypeInv /\ [Next]_vars => HeardInv' /\ TypeInv'
    BY HeardSteps, TypeSteps
  <1>3. TypeInv => SlicesAgree
    BY SlicesOfBytes DEF TypeInv
  <1> QED
    BY <1>1, <1>2, <1>3, PTL DEF Spec

----------------------------------------------------------------------------
(* Nothing crosses the line that must not.                                 *)

\* Neighbours on a line where nothing goes wrong: a permitted pair, or the XON that
\* ends what was sent.
Orderly(w) ==
  \A i \in 2 .. Len(w) :
    \/ <<w[i - 1], w[i]>> \in Allowed
    \/ w[i] = XON /\ (i = Len(w) \/ w[i + 1] = ZPAD)

SafeWire ==
  case.line = "clear" /\ hit = "none" /\ case.stray = << >> /\ ~case.send.m => Orderly(wire)

LEMMA OrderlyRest ==
  ASSUME NEW w \in Seq(Byte), NEW n \in 0 .. Len(w), Orderly(w)
  PROVE  Orderly(SubSeq(w, n + 1, Len(w)))
  <1> DEFINE r == SubSeq(w, n + 1, Len(w))
  <1>1. Len(r) = Len(w) - n /\ \A j \in 1 .. Len(r) : r[j] = w[n + j]
    OBVIOUS
  <1>2. Len(w) \in Nat /\ n \in Nat /\ n <= Len(w)
    OBVIOUS
  <1> SUFFICES Orderly(r)
    OBVIOUS
  <1> HIDE DEF r
  <1>3. ASSUME NEW j \in 2 .. Len(r)
        PROVE  <<r[j - 1], r[j]>> \in Allowed \/ (r[j] = XON /\ (j = Len(r) \/ r[j + 1] = ZPAD))
    <2> DEFINE i == n + j
    <2>1. i \in 2 .. Len(w) /\ i - 1 = n + (j - 1) /\ i + 1 = n + (j + 1)
      BY <1>1, <1>2
    <2>2. r[j] = w[i] /\ r[j - 1] = w[i - 1]
      BY <1>1, <1>2, <2>1
    <2>3. i = Len(w) <=> j = Len(r)
      <3>1. Len(r) \in Nat /\ j \in Nat /\ Len(r) = Len(w) - n
        BY <1>1, <1>2
      <3> QED
        BY <1>2, <3>1
    <2>4. j # Len(r) => r[j + 1] = w[i + 1]
      <3>1. Len(r) \in Int /\ j \in Int /\ j >= 2 /\ j <= Len(r)
        BY <1>1, <1>2
      <3>2. j # Len(r) => j + 1 \in 1 .. Len(r)
        BY <3>1
      <3> QED
        BY <1>1, <2>1, <3>2
    <2> HIDE DEF i
    <2>5. <<w[i - 1], w[i]>> \in Allowed \/ (w[i] = XON /\ (i = Len(w) \/ w[i + 1] = ZPAD))
      BY <2>1 DEF Orderly
    <2> QED
      BY <2>2, <2>3, <2>4, <2>5
  <1> QED
    BY <1>3 DEF Orderly

LEMMA OrderlyTail ==
  ASSUME NEW w \in Seq(Byte), w # << >>, Orderly(w)
  PROVE  Orderly(Tail(w))
  <1>1. 1 \in 0 .. Len(w) /\ Tail(w) = SubSeq(w, 1 + 1, Len(w))
    OBVIOUS
  <1> QED
    BY <1>1, OrderlyRest

LEMMA PadFollows ==
  ASSUME case \in Cases
  PROVE  ZPAD \in Calm(Allowed)
  <1> DEFINE t == [pack7 |-> FALSE, moby |-> FALSE]  f == Format(t)
  <1>1. Covers(f, Allowed)
    BY FormatCovers
  <1> HIDE DEF f
  <1>2. ZPAD \in 32 .. 127
    BY DEF ZPAD
  <1> QED
    BY <1>1, <1>2, CalmPrintable

LEMMA OrderlyPiece ==
  ASSUME case \in Cases, NEW w \in Seq(Byte), Orderly(w), NEW p \in Seq(Byte), Piece(p)
  PROVE  Orderly(w \o p)
  <1> DEFINE v == w \o p
  <1>1. Len(v) = Len(w) + Len(p) /\ Len(w) \in Nat /\ Len(p) \in Nat /\ Len(p) > 0
    BY DEF Piece
  <1>2. (\A i \in 1 .. Len(w) : v[i] = w[i]) /\ (\A i \in 1 .. Len(p) : v[Len(w) + i] = p[i])
    OBVIOUS
  <1>3. p[1] = ZPAD
    BY DEF Piece
  <1> SUFFICES Orderly(v)
    OBVIOUS
  <1> HIDE DEF v
  <1>4. v[Len(w) + 1] = ZPAD
    BY <1>1, <1>2, <1>3
  <1>5. ASSUME NEW j \in 2 .. Len(v)
        PROVE  <<v[j - 1], v[j]>> \in Allowed \/ (v[j] = XON /\ (j = Len(v) \/ v[j + 1] = ZPAD))
    <2>1. CASE j <= Len(w)
      <3>1. j \in 2 .. Len(w) /\ v[j] = w[j] /\ v[j - 1] = w[j - 1]
        BY <1>1, <1>2, <2>1
      <3>2. <<w[j - 1], w[j]>> \in Allowed \/ (w[j] = XON /\ (j = Len(w) \/ w[j + 1] = ZPAD))
        BY <3>1 DEF Orderly
      <3>3. j # Len(w) => v[j + 1] = w[j + 1]
        <4>1. j # Len(w) => j + 1 \in 1 .. Len(w)
          BY <1>1, <2>1
        <4> QED
          BY <1>2, <4>1
      <3>4. j = Len(w) => v[j + 1] = ZPAD
        BY <1>4
      <3> QED
        BY <3>1, <3>2, <3>3, <3>4
    <2>2. CASE j = Len(w) + 1
      <3>1. j - 1 \in 1 .. Len(w)
        BY <1>1, <2>2
      <3>2. v[j - 1] \in Byte
        BY <1>2, <3>1
      <3>3. v[j] = ZPAD
        BY <1>4, <2>2
      <3>4. <<v[j - 1], ZPAD>> \in Allowed
        BY <3>2, PadFollows DEF Calm
      <3> QED
        BY <3>3, <3>4
    <2>3. CASE j > Len(w) + 1
      <3> DEFINE i == j - Len(w)
      <3>1. i \in 2 .. Len(p) /\ j = Len(w) + i /\ j - 1 = Len(w) + (i - 1) /\ i - 1 \in 1 .. Len(p)
        BY <1>1, <2>3
      <3>2. v[j] = p[i] /\ v[j - 1] = p[i - 1] /\ (i = Len(p) <=> j = Len(v))
        <4>1. i \in 1 .. Len(p) /\ (i = Len(p) <=> j = Len(v))
          BY <1>1, <3>1
        <4>2. v[Len(w) + i] = p[i] /\ v[Len(w) + (i - 1)] = p[i - 1]
          BY <1>2, <3>1, <4>1
        <4> QED
          BY <3>1, <4>1, <4>2
      <3> HIDE DEF i
      <3>3. <<p[i - 1], p[i]>> \in Allowed \/ (p[i] = XON /\ i = Len(p))
        BY <3>1 DEF Piece
      <3> QED
        BY <3>2, <3>3
    <2> QED
      BY <1>1, <2>1, <2>2, <2>3
  <1> QED
    BY <1>5 DEF Orderly

LEMMA AllowedStays ==
  ASSUME case' = case, NEW w, Orderly(w), wire' = w
  PROVE  Orderly(wire)'
  <1>1. Allowed' = Allowed
    BY DEF Allowed, Format, Peer, tx_zrinit
  <1> QED
    BY <1>1 DEF Orderly

LEMMA SafeInit == Init => SafeWire
  <1> SUFFICES ASSUME Init, case.line = "clear", case.stray = << >>, ~case.send.m
               PROVE  Orderly(wire)
    BY DEF SafeWire
  <1> DEFINE sent == Offer([wire |-> << >>, previous |-> -1])  p == sent.wire  e == << >>
  <1>1. case \in Cases
    BY DEF Init
  <1>2. Sent(sent)
    <2>1. -1 \in -1 .. 127
      OBVIOUS
    <2> QED
      BY <1>1, <2>1, OfferSent
  <1>3. wire = << >> \o Through("clear", p)
    BY DEF Init
  <1> HIDE DEF sent
  <1>4. p \in Seq(Byte) /\ Piece(p)
    BY <1>2 DEF Sent
  <1> HIDE DEF p
  <1>5. wire = << >> \o p
    BY <1>3, <1>4, ThroughClear
  <1>6. e \in Seq(Byte) /\ Orderly(e)
    BY DEF Orderly
  <1>7. wire = e \o p
    BY <1>5
  <1> HIDE DEF e
  <1> QED
    BY <1>1, <1>4, <1>6, <1>7, OrderlyPiece

LEMMA SafeSends ==
  ASSUME TypeInv, SafeWire, UNCHANGED <<case, rx, file, hit>>,
         UNCHANGED <<tx, wire>> \/ \E s, t : Sends(s, t)
  PROVE  SafeWire'
  <1> SUFFICES ASSUME case.line = "clear", hit = "none", case.stray = << >>, ~case.send.m
               PROVE  Orderly(wire)'
    BY DEF SafeWire
  <1>1. case \in Cases /\ wire \in Seq(Byte) /\ Orderly(wire)
    BY DEF TypeInv, SafeWire
  <1>2. CASE UNCHANGED <<tx, wire>>
    BY <1>1, <1>2, AllowedStays
  <1>3. CASE \E s, t : Sends(s, t)
    <2>1. PICK s, t : Sends(s, t)
      BY <1>3
    <2> DEFINE p == s.wire
    <2>2. p \in Seq(Byte) /\ Piece(p)
      BY <2>1 DEF Sends, Sent
    <2>3. wire' = wire \o Through("clear", p)
      BY <2>1 DEF Sends, Send
    <2> HIDE DEF p
    <2>4. wire' = wire \o p
      BY <2>2, <2>3, ThroughClear
    <2>5. Orderly(wire \o p)
      BY <1>1, <2>2, OrderlyPiece
    <2> QED
      BY <2>4, <2>5, AllowedStays
  <1> QED
    BY <1>2, <1>3

LEMMA SafeReceives ==
  ASSUME TypeInv, SafeWire, ReceiveByte
  PROVE  SafeWire'
  <1> DEFINE r == Read(Head(wire))  rest == Tail(wire)
  <1>1. UNCHANGED <<case, tx, hit>> /\ wire # << >> /\ Receive(r, rest)
    BY DEF ReceiveByte
  <1>2. wire' = rest \/ Purge(rest)
    <2> HIDE DEF r, rest
    <2> QED
      BY <1>1 DEF Receive, Continue, Cancelled, ReceiveFile, OtherHeader, InfoArrives, OpenFrame,
                  EndOfFile, FileAgain, InfoAgain, BlockArrives, BlockRefused
  <1> SUFFICES ASSUME case.line = "clear", hit = "none", case.stray = << >>, ~case.send.m
               PROVE  Orderly(wire)'
    BY <1>1 DEF SafeWire
  <1>3. wire \in Seq(Byte) /\ Orderly(wire)
    BY DEF TypeInv, SafeWire
  <1>4. rest \in Seq(Byte) /\ Orderly(rest)
    BY <1>1, <1>3, OrderlyTail
  <1> HIDE DEF rest
  <1>5. Orderly(wire')
    <2>1. CASE wire' = rest
      BY <1>4, <2>1
    <2>2. CASE Purge(rest)
      <3>1. PICK n \in 0 .. Len(rest) : wire' = SubSeq(rest, n + 1, Len(rest))
        BY <2>2 DEF Purge
      <3> QED
        BY <1>4, <3>1, OrderlyRest
    <2> QED
      BY <1>2, <2>1, <2>2
  <1> QED
    BY <1>1, <1>5, AllowedStays

LEMMA SafeSteps == TypeInv /\ SafeWire /\ [Next]_vars => SafeWire'
  <1> SUFFICES ASSUME TypeInv, SafeWire, [Next]_vars PROVE SafeWire'
    OBVIOUS
  <1>1. CASE Repeat
    <2>1. UNCHANGED <<case, rx, file, hit>>
      BY <1>1 DEF Repeat
    <2> QED
      BY <1>1, <2>1, RepeatSends, SafeSends
  <1>2. CASE TakeReply
    <2>1. UNCHANGED <<case, rx, file, hit>>
      BY <1>2 DEF TakeReply
    <2> QED
      BY <1>2, <2>1, TakeReplySends, SafeSends
  <1>3. CASE ReceiveByte
    BY <1>3, SafeReceives
  <1>4. CASE Timeout \/ UNCHANGED vars
    <2>1. UNCHANGED <<case, wire, hit>>
      BY <1>4 DEF Timeout, vars
    <2>2. Orderly(wire) => Orderly(wire)'
      BY <2>1, AllowedStays
    <2> QED
      BY <2>1, <2>2 DEF SafeWire
  <1>5. CASE FlowControl \/ Damage \/ Abort \/ LoseReply
    <2>1. hit' # "none"
      BY <1>5 DEF FlowControl, Damage, Abort, LoseReply
    <2> QED
      BY <2>1 DEF SafeWire
  <1> QED
    BY <1>1, <1>2, <1>3, <1>4, <1>5, Changes

LEMMA SafeWireSafe == TypeInv /\ SafeWire => SafeOnLine
  <1> SUFFICES ASSUME TypeInv, SafeWire, case.line = "clear", hit = "none", case.stray = << >>,
                      ~case.send.m, NEW i \in 2 .. Len(wire)
               PROVE  LET c == wire[i]
                      IN  /\ IsFlow(c) =>
                             c = XON /\ (wire[i - 1] = LF \/ i = Len(wire) \/ wire[i + 1] = ZPAD)
                          /\ c # DLE
                          /\ Peer.esc8 => c < 128
                          /\ Low(c) = CR /\ Low(wire[i - 1]) = AT => Peer.esc8
                          /\ case.send.iac => c # IAC
                          /\ Peer.ctl /\ IsControl(c) => c \in {ZDLE, SO, CR, LF, XON}
    BY DEF SafeOnLine
  <1> DEFINE c == wire[i]  last == wire[i - 1]
             f == Format([pack7 |-> FALSE, moby |-> FALSE])
  <1>1. <<last, c>> \in Allowed \/ (c = XON /\ (i = Len(wire) \/ wire[i + 1] = ZPAD))
    BY DEF SafeWire, Orderly
  <1>2. Allowed = Pairs(f)
    BY DEF Allowed
  <1>3. (f.style \in SevenBit <=> Peer.esc8) /\ f.ctl = Peer.ctl /\ f.iac = case.send.iac
    BY DEF Format, SevenBit
  <1> HIDE DEF c, last, f
  <1>4. Fits(f, last, c) \/ (c = XON /\ (i = Len(wire) \/ wire[i + 1] = ZPAD))
    BY <1>1, <1>2 DEF Pairs
  <1>5. /\ IsFlow(c) => c = XON /\ (last = LF \/ i = Len(wire) \/ wire[i + 1] = ZPAD)
        /\ c # DLE
        /\ Peer.esc8 => c < 128
        /\ Low(c) = CR /\ Low(last) = AT => Peer.esc8
        /\ case.send.iac => c # IAC
        /\ Peer.ctl /\ IsControl(c) => c \in {ZDLE, SO, CR, LF, XON}
    <2>1. CASE Fits(f, last, c)
      BY <1>3, <2>1 DEF Fits
    <2>2. CASE c = XON /\ (i = Len(wire) \/ wire[i + 1] = ZPAD)
      <3>1. Low(c) # CR /\ c # DLE /\ c < 128 /\ c # IAC
        BY <2>2 DEF Low, XON, CR, DLE, IAC
      <3> QED
        BY <2>2, <3>1
    <2> QED
      BY <1>4, <2>1, <2>2
  <1> QED
    BY <1>5 DEF c, last

\* Whatever is sent and asked for, what must not cross a line where nothing goes wrong
\* does not: flow control, a DLE, the eighth bit after ESC8, a return after an at-sign,
\* an IAC or a control character (initialize_tx_classes, omen_encode_byte, tx_data).
THEOREM LineIsSafe == Spec => []SafeOnLine
  <1>1. Init => HeardInv /\ TypeInv /\ SafeWire
    BY HeardInit, TypeInit, SafeInit
  <1>2. HeardInv /\ TypeInv /\ SafeWire /\ [Next]_vars => HeardInv' /\ TypeInv' /\ SafeWire'
    BY HeardSteps, TypeSteps, SafeSteps
  <1>3. TypeInv /\ SafeWire => SafeOnLine
    BY SafeWireSafe
  <1> QED
    BY <1>1, <1>2, <1>3, PTL DEF Spec


----------------------------------------------------------------------------
(* Nothing is used that was not asked for.                                 *)

\* What a line that strips flow control lets through.
Silent == {c \in Byte : ~IsFlow(c)}

\* At most one byte of w is flow control.
Single(w) == \A i \in 1 .. Len(w), j \in 1 .. Len(w) : IsFlow(w[i]) /\ IsFlow(w[j]) => i = j

\* The probe holds two bytes of flow control, and a fault puts at most one on the line:
\* a line that strips flow control never looks transparent.
Opaque ==
  case.line = "flow" =>
    /\ rx.passed = FALSE
    /\ hit = "none" => wire \in Seq(Silent) /\ rx.probe <= 3
    /\ Single(wire) /\ (rx.probe = 4 => wire \in Seq(Silent))

LEMMA SilentSingle ==
  ASSUME NEW w \in Seq(Silent)
  PROVE  Single(w)
  <1>1. \A i \in 1 .. Len(w) : ~IsFlow(w[i])
    <2>1. \A i \in 1 .. Len(w) : w[i] \in Silent
      BY SeqElements
    <2> QED
      BY <2>1 DEF Silent
  <1> QED
    BY <1>1 DEF Single

\* Silence before or after it adds no flow control.
LEMMA SingleJoined ==
  ASSUME NEW s \in Seq(Byte), Single(s), NEW w \in Seq(Silent)
  PROVE  Single(s \o w)
  <1> DEFINE a == s \o w  m == Len(s)  n == Len(w)
  <1>1. w \in Seq(Byte)
    BY DEF Silent
  <1>2. m \in Nat /\ n \in Nat
    BY <1>1
  <1>3. Len(a) = m + n /\ \A i \in 1 .. m + n : a[i] = IF i <= m THEN s[i] ELSE w[i - m]
    BY <1>1, Joined
  <1>4. \A i \in 1 .. n : ~IsFlow(w[i])
    <2>1. \A i \in 1 .. Len(w) : w[i] \in Silent
      BY SeqElements
    <2> QED
      BY <2>1 DEF Silent
  <1>5. \A i \in 1 .. m, j \in 1 .. m : IsFlow(s[i]) /\ IsFlow(s[j]) => i = j
    BY DEF Single
  <1> HIDE DEF a, m, n
  <1>6. \A i \in 1 .. Len(a) : IsFlow(a[i]) => i \in 1 .. m /\ a[i] = s[i]
    <2> TAKE i \in 1 .. Len(a)
    <2>1. CASE i <= m
      BY <1>2, <1>3, <2>1
    <2>2. CASE ~(i <= m)
      <3>1. i - m \in 1 .. n /\ a[i] = w[i - m]
        BY <1>2, <1>3, <2>2
      <3> QED
        BY <1>4, <3>1
    <2> QED
      BY <2>1, <2>2
  <1>7. Single(a)
    BY <1>5, <1>6 DEF Single
  <1> QED
    BY <1>7 DEF a

LEMMA SilentJoined ==
  ASSUME NEW s \in Seq(Silent), NEW w \in Seq(Silent)
  PROVE  s \o w \in Seq(Silent)
  BY Joined

\* What is thrown away of w, or read of it, takes flow control with it.
LEMMA RestOf ==
  ASSUME NEW w \in Seq(Byte), NEW n \in 0 .. Len(w)
  PROVE  LET r == SubSeq(w, n + 1, Len(w))
         IN  /\ Single(w) => Single(r)
             /\ w \in Seq(Silent) => r \in Seq(Silent)
  <1> DEFINE r == SubSeq(w, n + 1, Len(w))  m == Len(w)
  <1>1. Len(r) = m - n /\ \A j \in 1 .. Len(r) : r[j] = w[n + j]
    OBVIOUS
  <1>2. m \in Nat /\ n \in Nat /\ n <= m
    OBVIOUS
  <1>3. r \in Seq(Byte)
    BY RestBytes
  <1>4. \A i \in 1 .. m : w[i] \in Byte
    BY SeqElements
  <1>5. w \in Seq(Silent) => \A i \in 1 .. m : w[i] \in Silent
    BY SeqElements
  <1>6. Single(w) => \A i \in 1 .. m, j \in 1 .. m : IsFlow(w[i]) /\ IsFlow(w[j]) => i = j
    BY DEF Single
  <1> HIDE DEF r, m
  <1>7. \A j \in 1 .. Len(r) : n + j \in 1 .. m
    BY <1>1, <1>2
  <1>8. Single(w) => Single(r)
    <2> SUFFICES ASSUME Single(w) PROVE Single(r)
      OBVIOUS
    <2>1. ASSUME NEW i \in 1 .. Len(r), NEW j \in 1 .. Len(r), IsFlow(r[i]), IsFlow(r[j])
          PROVE  i = j
      <3>1. n + i \in 1 .. m /\ n + j \in 1 .. m /\ IsFlow(w[n + i]) /\ IsFlow(w[n + j])
        BY <1>1, <1>7, <2>1
      <3>2. n + i = n + j
        BY <1>6, <3>1
      <3>3. i \in Int /\ j \in Int
        BY <1>1, <1>2
      <3> QED
        BY <1>2, <3>2, <3>3
    <2> QED
      BY <2>1 DEF Single
  <1>9. w \in Seq(Silent) => r \in Seq(Silent)
    <2> SUFFICES ASSUME w \in Seq(Silent) PROVE r \in Seq(Silent)
      OBVIOUS
    <2>1. \A j \in 1 .. Len(r) : r[j] \in Silent
      BY <1>1, <1>5, <1>7
    <2>2. r \in [1 .. Len(r) -> Byte] /\ Len(r) \in Nat
      BY <1>3, SeqElements
    <2>3. r \in [1 .. Len(r) -> Silent]
      BY <2>1, <2>2
    <2> QED
      BY <2>2, <2>3, FunctionIsSeq
  <1> QED
    BY <1>8, <1>9 DEF r, m

LEMMA SilentThrough ==
  ASSUME NEW s \in Seq(Byte)
  PROVE  Through("flow", s) \in Seq(Silent)
  <1> DEFINE n == Len(s)  parts == [i \in 1 .. n |-> Passed("flow", s[i])]
  <1>1. n \in Nat /\ \A i \in 1 .. n : s[i] \in Byte
    BY SeqElements
  <1>2. ASSUME NEW i \in 1 .. n PROVE Passed("flow", s[i]) \in Seq(Silent)
    <2> DEFINE c == s[i]
    <2>1. c \in Byte
      BY <1>1
    <2> HIDE DEF c
    <2>2. Passed("flow", c) = IF IsFlow(c) THEN << >> ELSE <<c>>
      BY DEF Passed
    <2>3. << >> \in Seq(Silent)
      OBVIOUS
    <2>4. ~IsFlow(c) => <<c>> \in Seq(Silent)
      <3>1. ~IsFlow(c) => c \in Silent
        BY <2>1 DEF Silent
      <3> QED
        BY <3>1
    <2> QED
      BY <2>2, <2>3, <2>4 DEF c
  <1>3. parts \in [1 .. n -> Seq(Silent)]
    BY <1>2
  <1>4. Through("flow", s) = FlattenSeq(parts)
    BY DEF Through
  <1> HIDE DEF n, parts
  <1>5. parts \in Seq(Seq(Silent))
    BY <1>1, <1>3, FunctionIsSeq
  <1> QED
    BY <1>4, <1>5, FlattenAll

\* Two bytes of the probe, the fourth and the fifth, are flow control.
LEMMA ProbedIs ==
  ASSUME NEW r, Steered(r), r.probe \in 0 .. 4, r.passed = FALSE, NEW c
  PROVE  LET p == Probed(r, c)
         IN  /\ p.probe \in 0 .. 4
             /\ r.probe <= 3 => p.passed = FALSE
             /\ ~IsFlow(c) => p.passed = FALSE /\ p.probe <= 3
  <1> DEFINE p == Probed(r, c)
  <1>1. mobyturbo_probe[1] = 35 /\ mobyturbo_probe[2] = 193 /\ mobyturbo_probe[3] = 212
        /\ mobyturbo_probe[4] = 147 /\ mobyturbo_probe[5] = 17
    BY DEF mobyturbo_probe
  <1>2. IsFlow(147) /\ IsFlow(17)
    BY DEF IsFlow, Low, XON, XOFF
  <1>3. r.probe \in {0, 1, 2, 3, 4}
    OBVIOUS
  <1> DEFINE x == mobyturbo_probe[r.probe + 1]
             first == IF c = mobyturbo_probe[1] THEN 1 ELSE 0
  <1>4. (r.probe = 3 => x = 147) /\ (r.probe = 4 => x = 17)
    BY <1>1
  <1>5. first \in {0, 1}
    OBVIOUS
  <1>6. p = IF c # x THEN [r EXCEPT !.probe = first]
            ELSE IF r.probe = 4 THEN [r EXCEPT !.probe = 0, !.passed = TRUE]
            ELSE [r EXCEPT !.probe = @ + 1]
    BY DEF Probed
  <1> HIDE DEF x, first, p
  <1>7. CASE c # x
    <2>1. p.probe = first /\ p.passed = FALSE
      BY <1>6, <1>7 DEF Steered, Fields
    <2> QED
      BY <1>5, <2>1 DEF p
  <1>8. CASE c = x /\ r.probe = 4
    <2>1. p.probe = 0 /\ IsFlow(c)
      BY <1>2, <1>4, <1>6, <1>8 DEF Steered, Fields
    <2> QED
      BY <1>8, <2>1 DEF p
  <1>9. CASE c = x /\ r.probe # 4
    <2>1. p.probe = r.probe + 1 /\ p.passed = FALSE
      BY <1>6, <1>9 DEF Steered, Fields
    <2>2. r.probe = 3 => IsFlow(c)
      BY <1>2, <1>4, <1>9
    <2> QED
      BY <1>3, <1>9, <2>1, <2>2 DEF p
  <1> QED
    BY <1>7, <1>8, <1>9

LEMMA OpaqueInit == Init => Opaque
  <1> SUFFICES ASSUME Init, case.line = "flow"
               PROVE  rx.passed = FALSE /\ rx.probe <= 3 /\ rx.probe # 4 /\ wire \in Seq(Silent)
                      /\ Single(wire)
    BY DEF Opaque
  <1>1. case \in Cases
    BY DEF Init
  <1>2. rx.passed = FALSE /\ rx.probe = 0
    BY DEF Init, Started
  <1> DEFINE sent == Offer([wire |-> << >>, previous |-> -1])  w == sent.wire  a == case.stray
             b == Through("flow", w)
  <1>3. w \in Seq(Byte)
    <2>1. -1 \in -1 .. 127
      OBVIOUS
    <2>2. Sent(sent)
      BY <1>1, <2>1, OfferSent
    <2> QED
      BY <2>2 DEF Sent
  <1>4. wire = a \o b
    BY DEF Init
  <1>5. a \in Seq(Silent)
    <2>1. a \in Seq(Byte)
      BY <1>1, CaseIs
    <2>2. \A i \in DOMAIN a : ~IsFlow(a[i])
      BY <1>1, FramingAssumption
    <2> HIDE DEF a
    <2>3. Len(a) \in Nat /\ DOMAIN a = 1 .. Len(a) /\ a \in [1 .. Len(a) -> Byte]
      BY <2>1, SeqElements
    <2>4. a \in [1 .. Len(a) -> Silent]
      BY <2>2, <2>3 DEF Silent
    <2> QED
      BY <2>3, <2>4, FunctionIsSeq
  <1> HIDE DEF a, w
  <1>6. b \in Seq(Silent)
    BY <1>3, SilentThrough
  <1> HIDE DEF b
  <1>7. wire \in Seq(Silent)
    BY <1>4, <1>5, <1>6, SilentJoined
  <1> QED
    BY <1>2, <1>7, SilentSingle

LEMMA OpaqueSends ==
  ASSUME TypeInv, Opaque, UNCHANGED <<case, rx, hit>>,
         UNCHANGED <<tx, wire>> \/ \E s, t : Sends(s, t)
  PROVE  Opaque'
  <1>1. CASE wire' = wire
    BY <1>1 DEF Opaque
  <1>2. CASE \E s, t : Sends(s, t)
    <2>1. PICK s, t : Sends(s, t)
      BY <1>2
    <2> DEFINE w == s.wire  b == Through("flow", w)
    <2>2. w \in Seq(Byte)
      BY <2>1 DEF Sends, Sent
    <2> SUFFICES ASSUME case.line = "flow" PROVE Opaque'
      BY DEF Opaque
    <2>3. wire' = wire \o b
      BY <2>1 DEF Sends, Send
    <2> HIDE DEF w
    <2>4. b \in Seq(Silent)
      BY <2>2, SilentThrough
    <2> HIDE DEF b
    <2>5. wire \in Seq(Byte)
      BY DEF TypeInv
    <2>6. Single(wire) => Single(wire')
      BY <2>3, <2>4, <2>5, SingleJoined
    <2>7. wire \in Seq(Silent) => wire' \in Seq(Silent)
      BY <2>3, <2>4, SilentJoined
    <2> QED
      BY <2>6, <2>7 DEF Opaque
  <1> QED
    BY <1>1, <1>2

\* What zmrx knows of the line once it has read the next byte.
Unopened(r, rest) ==
  case.line = "flow" =>
    /\ r.passed = FALSE
    /\ hit = "none" => rest \in Seq(Silent) /\ r.probe <= 3
    /\ Single(rest) /\ (r.probe = 4 => rest \in Seq(Silent))

LEMMA OpaqueRead ==
  ASSUME HeardInv, TypeInv, Opaque, ~Over, wire # << >>
  PROVE  Unopened(Read(Head(wire)), Tail(wire))
  <1> DEFINE c == Head(wire)  rest == Tail(wire)  r == Read(c)  p == Probed(rx, c)
  <1> SUFFICES ASSUME case.line = "flow" PROVE Unopened(r, rest)
    BY DEF Unopened
  <1>1. wire \in Seq(Byte) /\ rx \in Good /\ Steered(rx)
    BY DEF TypeInv, HeardInv, LiveInv, Alive
  <1>2. /\ rx.passed = FALSE
        /\ hit = "none" => wire \in Seq(Silent) /\ rx.probe <= 3
        /\ Single(wire) /\ (rx.probe = 4 => wire \in Seq(Silent))
    BY DEF Opaque
  <1>3. rx.probe \in 0 .. 4
    BY <1>1 DEF Good, Receiver
  <1>4. Still(r, rx) \/ Still(r, p)
    BY ReadLives
  <1>5. /\ p.probe \in 0 .. 4 /\ (rx.probe <= 3 => p.passed = FALSE)
        /\ ~IsFlow(c) => p.passed = FALSE /\ p.probe <= 3
    BY <1>1, <1>2, <1>3, ProbedIs
  <1>6. Single(rest) /\ (wire \in Seq(Silent) => rest \in Seq(Silent))
    <2>1. 1 \in 0 .. Len(wire) /\ rest = SubSeq(wire, 1 + 1, Len(wire))
      BY <1>1
    <2> HIDE DEF rest
    <2> QED
      BY <1>1, <1>2, <2>1, RestOf
  <1>7. wire \in Seq(Silent) => ~IsFlow(c)
    <2>1. wire \in Seq(Silent) => c \in Silent
      OBVIOUS
    <2> QED
      BY <2>1 DEF Silent
  <1>8. IsFlow(c) => rest \in Seq(Silent)
    <2> SUFFICES ASSUME IsFlow(c) PROVE rest \in Seq(Silent)
      OBVIOUS
    <2>1. 1 \in 1 .. Len(wire) /\ wire[1] = c
      BY <1>1
    <2>2. Len(rest) \in Nat /\ Len(wire) = Len(rest) + 1 /\ rest \in [1 .. Len(rest) -> Byte]
          /\ \A j \in 1 .. Len(rest) : rest[j] = wire[j + 1]
      <3>1. rest \in Seq(Byte) /\ Len(wire) = Len(rest) + 1
        BY <1>1
      <3>2. \A j \in 1 .. Len(rest) : rest[j] = wire[j + 1]
        BY <1>1
      <3> HIDE DEF rest
      <3> QED
        BY <3>1, <3>2, SeqElements
    <2>3. \A i \in 1 .. Len(wire), j \in 1 .. Len(wire) : IsFlow(wire[i]) /\ IsFlow(wire[j]) => i = j
      BY <1>2 DEF Single
    <2> HIDE DEF c, rest
    <2>4. ASSUME NEW j \in 1 .. Len(rest) PROVE ~IsFlow(rest[j])
      <3>1. j + 1 \in 1 .. Len(wire) /\ j + 1 # 1 /\ rest[j] = wire[j + 1]
        BY <2>2
      <3> QED
        BY <2>1, <2>3, <3>1
    <2>5. rest \in [1 .. Len(rest) -> Silent]
      BY <2>2, <2>4 DEF Silent
    <2> QED
      BY <2>2, <2>5, FunctionIsSeq
  <1> HIDE DEF c, rest, r, p
  <1>9. CASE Still(r, rx)
    BY <1>2, <1>6, <1>9 DEF Unopened, Still
  <1>10. CASE Still(r, p)
    <2>1. r.probe = p.probe /\ r.passed = p.passed
      BY <1>10 DEF Still
    <2>2. CASE ~IsFlow(c)
      <3>1. r.passed = FALSE /\ r.probe <= 3 /\ r.probe # 4
        BY <1>5, <2>1, <2>2
      <3> QED
        BY <1>2, <1>6, <3>1 DEF Unopened
    <2>3. CASE IsFlow(c)
      <3>1. hit # "none" /\ rx.probe <= 3
        BY <1>2, <1>3, <1>7, <2>3
      <3> QED
        BY <1>5, <1>6, <1>8, <2>1, <2>3, <3>1 DEF Unopened
    <2> QED
      BY <2>2, <2>3
  <1> QED
    BY <1>4, <1>9, <1>10

\* No step of zmrx makes more of the line than what it has read.
LEMMA ReceiveStill ==
  ASSUME NEW r, Steered(r), NEW rest \in Seq(Byte), Receive(r, rest)
  PROVE  /\ Still(rx', r) \/ (rx'.probe = 0 /\ rx'.passed = FALSE)
         /\ \E n \in 0 .. Len(rest) : wire' = SubSeq(rest, n + 1, Len(rest))
  <1> DEFINE h == HeaderStart(r)  d == DataStart(r)  i == Invited(r)  j == HeaderStart(i)
             Remains == \E n \in 0 .. Len(rest) : wire' = SubSeq(rest, n + 1, Len(rest))
  <1>1. Still(d, r) /\ h.probe = 0 /\ h.passed = FALSE /\ Steered(i)
    BY StartKeeps DEF Keeps, Anew, Still
  <1>2. j.probe = 0 /\ j.passed = FALSE
    <2> HIDE DEF i
    <2> QED
      BY <1>1, StartKeeps DEF Anew
  <1> HIDE DEF d, h, i, j
  <1>3. rx' \in {r, h, d, j}
    BY DEF Receive, Continue, Cancelled, ReceiveFile, OtherHeader, InfoArrives, OpenFrame,
           EndOfFile, FileAgain, InfoAgain, BlockArrives, BlockRefused, Ask, d, h, i, j
  <1>4. wire' = rest \/ Purge(rest)
    BY DEF Receive, Continue, Cancelled, ReceiveFile, OtherHeader, InfoArrives, OpenFrame,
           EndOfFile, FileAgain, InfoAgain, BlockArrives, BlockRefused
  <1>5. Remains
    <2>1. 0 \in 0 .. Len(rest) /\ rest = SubSeq(rest, 0 + 1, Len(rest))
      OBVIOUS
    <2> QED
      BY <1>4, <2>1 DEF Purge
  <1> QED
    BY <1>1, <1>2, <1>3, <1>5 DEF Still

LEMMA OpaqueReceives == HeardInv /\ TypeInv /\ Opaque /\ (ReceiveByte \/ Timeout) => Opaque'
  <1> SUFFICES ASSUME HeardInv, TypeInv, Opaque, ReceiveByte \/ Timeout, case'.line = "flow"
               PROVE  Opaque'
    BY DEF Opaque
  <1>1. CASE ReceiveByte
    <2> DEFINE r == Read(Head(wire))  rest == Tail(wire)
    <2>1. UNCHANGED <<case, hit>> /\ ~Over /\ wire # << >> /\ Receive(r, rest)
      BY <1>1 DEF ReceiveByte
    <2>2. Unopened(r, rest)
      BY <2>1, OpaqueRead
    <2>3. Steered(r)
      BY <2>1, ReadLives
    <2>4. rest \in Seq(Byte)
      BY <2>1 DEF TypeInv
    <2> HIDE DEF r, rest
    <2>5. Still(rx', r) \/ (rx'.probe = 0 /\ rx'.passed = FALSE)
      BY <2>1, <2>3, <2>4, ReceiveStill
    <2>6. PICK n \in 0 .. Len(rest) : wire' = SubSeq(rest, n + 1, Len(rest))
      BY <2>1, <2>3, <2>4, ReceiveStill
    <2>7. /\ Single(rest) => Single(wire')
          /\ rest \in Seq(Silent) => wire' \in Seq(Silent)
      BY <2>4, <2>6, RestOf
    <2> QED
      BY <2>1, <2>2, <2>5, <2>7 DEF Unopened, Opaque, Still
  <1>2. CASE Timeout
    <2>1. UNCHANGED <<case, wire, hit>>
      BY <1>2 DEF Timeout
    <2>2. rx' = HeaderStart(Invited(rx)) \/ rx' = HeaderStart(rx)
      BY <1>2 DEF Timeout, Ask
    <2>3. Steered(rx)
      BY <1>2 DEF Timeout, HeardInv, LiveInv, Alive
    <2> DEFINE i == Invited(rx)
    <2>4. Steered(i)
      BY <2>3, StartKeeps DEF Keeps
    <2> HIDE DEF i
    <2>5. rx'.probe = 0 /\ rx'.passed = FALSE
      BY <2>2, <2>3, <2>4, StartKeeps DEF Anew, i
    <2> QED
      BY <2>1, <2>5 DEF Opaque
  <1> QED
    BY <1>1, <1>2

\* A fault puts one byte of flow control on the line, and there is one fault.
LEMMA OpaqueLine ==
  TypeInv /\ Opaque /\ (FlowControl \/ Damage \/ Abort \/ LoseReply) => Opaque'
  <1> SUFFICES ASSUME TypeInv, Opaque, FlowControl \/ Damage \/ Abort \/ LoseReply,
                      case.line = "flow"
               PROVE  Opaque'
    BY DEF Opaque, FlowControl, Damage, Abort, LoseReply
  <1>1. UNCHANGED <<case, rx>> /\ hit = "none" /\ hit' # "none"
    BY DEF FlowControl, Damage, Abort, LoseReply, Strike
  <1>2. rx.passed = FALSE /\ wire \in Seq(Silent) /\ rx.probe <= 3
    BY <1>1 DEF Opaque
  <1> SUFFICES Single(wire')
    BY <1>1, <1>2 DEF Opaque
  <1>3. CASE FlowControl
    <2>1. PICK c \in {XON, XOFF} : wire' = <<c>> \o wire
      BY <1>3 DEF FlowControl
    <2> DEFINE s == <<c>>
    <2>2. s \in Seq(Byte) /\ Len(s) = 1
      BY DEF XON, XOFF, Byte
    <2> HIDE DEF s
    <2>3. Single(s)
      BY <2>2 DEF Single
    <2> QED
      BY <1>2, <2>1, <2>2, <2>3, SingleJoined DEF s
  <1>4. CASE Damage
    <2> DEFINE c == Head(wire)  rest == Tail(wire)
    <2>1. wire # << >> /\ \E s \in Damaged(c) : wire' = s \o rest
      BY <1>4 DEF Damage
    <2>2. c \in Silent /\ rest \in Seq(Silent)
      BY <1>2, <2>1
    <2> HIDE DEF c, rest
    <2>3. PICK s \in Damaged(c) : wire' = s \o rest
      BY <2>1
    <2>4. c \in Byte /\ ~IsFlow(c)
      BY <2>2 DEF Silent
    <2>5. s \in Seq(Byte)
      BY <2>4, DamagedBytes
    <2>6. s = <<c, XON>> \/ Len(s) <= 1
      <3>1. s = << >> \/ s = <<c, XON>> \/ \E x : s = <<x>>
        BY DEF Damaged
      <3>2. Len(<< >>) <= 1 /\ \A x : Len(<<x>>) <= 1
        OBVIOUS
      <3> QED
        BY <3>1, <3>2, Zenon
    <2>7. Single(s)
      <3>1. CASE Len(s) <= 1
        <4>1. Len(s) \in Nat
          BY <2>5
        <4>2. \A i \in 1 .. Len(s) : i = 1
          BY <3>1, <4>1
        <4> QED
          BY <4>2 DEF Single
      <3>2. CASE s = <<c, XON>>
        <4>1. Len(s) = 2 /\ s[1] = c
          BY <3>2
        <4>2. \A i \in 1 .. Len(s) : i = 1 \/ i = 2
          BY <4>1
        <4> QED
          BY <2>4, <4>1, <4>2 DEF Single
      <3> QED
        BY <2>6, <3>1, <3>2
    <2> QED
      BY <2>2, <2>3, <2>5, <2>7, SingleJoined
  <1>5. CASE Abort
    <2> DEFINE cans == Repeated(CAN, 5)
    <2>1. cans \in Seq(Byte)
      <3>1. CAN \in Byte /\ 5 \in Int
        BY DEF CAN, Byte
      <3> QED
        BY <3>1, RepeatedBytes
    <2>2. wire' = Through("flow", cans)
      BY <1>5 DEF Abort
    <2> HIDE DEF cans
    <2> QED
      BY <2>1, <2>2, SilentThrough, SilentSingle
  <1>6. CASE LoseReply
    <2>1. wire' = wire
      BY <1>6 DEF LoseReply
    <2> QED
      BY <1>2, <2>1, SilentSingle
  <1> QED
    BY <1>3, <1>4, <1>5, <1>6

\* zmrx asks for MobyTurbo only where it may be had.
Wished ==
  LET o == case.receive IN o.m /\ ~o.M /\ ~o.esc8 /\ case.line = "clear"

\* A header whose flags, if it has any, ask for nothing else.
Honest ==
  {p \in Headers :
     Len(p) > 7 => /\ p[8] % 2 = 1 => Wished
                   /\ (p[8] \div 2) % 2 = 1 => case.receive.pack7}

\* What zmrx has in mind, what it has asked for and what zmtx does.
Consents ==
  /\ file.moby => Wished
  /\ replies \in Seq(Honest)
  /\ tx.moby => Willing
  /\ tx.pack7 => case.receive.pack7

LEMMA HonestStays ==
  ASSUME case' = case
  PROVE  Honest' = Honest /\ (Wished' <=> Wished) /\ (Willing' <=> Willing)
  BY DEF Honest, Wished, Willing

LEMMA ShortIsHonest ==
  ASSUME NEW p \in Headers, Len(p) = 5
  PROVE  p \in Honest
  <1> DEFINE n == Len(p)
  <1>1. n = 5
    OBVIOUS
  <1> HIDE DEF n
  <1>2. ~(n > 7)
    BY <1>1
  <1> QED
    BY <1>2, Zenon DEF Honest, n

\* The flags of a ZRPOS are what zmrx has in mind.
LEMMA ZrposIsHonest ==
  ASSUME case \in Cases, NEW fl \in Files, fl.moby => Wished
  PROVE  tx_zrpos(fl) \in Honest
  <1> DEFINE pack7 == ~fl.extended /\ case.receive.pack7 /\ fl.vhdr
             moby == ~fl.extended /\ fl.moby
             flags == (IF moby THEN 1 ELSE 0) + (IF pack7 THEN 2 ELSE 0)
             k == Len(fl.stored)
             header == <<ZRPOS>> \o Position(k)
             p == tx_zrpos(fl)
  <1>1. p = IF flags = 0 THEN header ELSE header \o <<0, 0, flags>>
    BY DEF tx_zrpos
  <1>2. flags \in 0 .. 3 /\ (flags % 2 = 1 => moby) /\ ((flags \div 2) % 2 = 1 => pack7)
    BY DEF Files, Flag
  <1>3. Len(header) = 5
    BY DEF Position
  <1>4. p \in Headers
    BY ReplyIs
  <1>5. moby => Wished
    OBVIOUS
  <1>6. pack7 => case.receive.pack7
    OBVIOUS
  <1> HIDE DEF header, flags, moby, pack7, p
  <1>7. Len(p) > 7 => p[8] = flags
    <2>1. CASE flags = 0
      <3> DEFINE n == Len(p)
      <3>1. n = 5
        BY <1>1, <1>3, <2>1
      <3> HIDE DEF n
      <3>2. ~(n > 7)
        BY <3>1
      <3> QED
        BY <3>2, Zenon DEF n
    <2>2. CASE flags # 0
      <3> DEFINE tail == <<0, 0, flags>>
      <3>1. tail \in Seq(Byte) /\ Len(tail) = 3 /\ tail[3] = flags
        BY <1>2 DEF Byte
      <3>2. header \in Seq(Byte)
        <4>1. fl.stored \in Seq(Byte)
          BY DEF Files
        <4>2. ZRPOS \in Byte /\ k \in Int
          BY <4>1 DEF ZRPOS, Byte
        <4> HIDE DEF k
        <4>3. header \in Parameters
          BY <4>2, PositionIs DEF header
        <4> QED
          BY <4>3 DEF Parameters
      <3>3. p = header \o tail
        BY <1>1, <2>2
      <3> HIDE DEF tail
      <3>4. 8 \in 1 .. Len(header) + Len(tail) /\ ~(8 <= Len(header)) /\ 8 - Len(header) = 3
        BY <1>3, <3>1
      <3>5. (header \o tail)[8] = tail[8 - Len(header)]
        BY <3>1, <3>2, <3>4, Joined
      <3> QED
        BY <3>1, <3>3, <3>4, <3>5
    <2> QED
      BY <2>1, <2>2
  <1> QED
    BY <1>2, <1>4, <1>5, <1>6, <1>7 DEF Honest, p

\* zmtx gives no more than it was asked for, and only what it wants itself.
LEMMA ChosenConsents ==
  ASSUME NEW p \in Honest
  PROVE  LET c == select_zrpos_encoding(p)
         IN  (c.moby => Willing) /\ (c.pack7 => case.receive.pack7)
  <1> DEFINE flags == IF Len(p) > 7 THEN p[8] ELSE 0
  <1>1. select_zrpos_encoding(p).moby => flags % 2 = 1 /\ case.send.m /\ ~case.send.M
    BY DEF select_zrpos_encoding
  <1>2. select_zrpos_encoding(p).pack7 => (flags \div 2) % 2 = 1
    BY DEF select_zrpos_encoding
  <1>3. ~(0 % 2 = 1) /\ ~((0 \div 2) % 2 = 1)
    OBVIOUS
  <1>4. /\ flags % 2 = 1 => Wished
        /\ (flags \div 2) % 2 = 1 => case.receive.pack7
    BY <1>3 DEF Honest
  <1> HIDE DEF flags
  <1> QED
    BY <1>1, <1>2, <1>4 DEF Wished, Willing

LEMMA ConsentsInit == Init => Consents
  <1> SUFFICES ASSUME Init PROVE Consents
    OBVIOUS
  <1>1. replies = << >> /\ file.moby = FALSE
    BY DEF Init
  <1> DEFINE new == [pc |-> "offer", pack7 |-> FALSE, moby |-> FALSE, tries |-> 1,
                     at |-> 0, last |-> FALSE, previous |-> 0]
             x == Offer([wire |-> << >>, previous |-> -1]).previous
  <1>2. tx = [new EXCEPT !.previous = x]
    BY DEF Init
  <1> HIDE DEF x
  <1>3. tx.moby = FALSE /\ tx.pack7 = FALSE
    BY <1>2
  <1>4. replies \in Seq(Honest)
    BY <1>1
  <1> QED
    BY <1>1, <1>3, <1>4 DEF Consents

\* What zmtx does uses what it has used, or what it was just asked for.
LEMMA SendUses ==
  ASSUME NEW t \in Sender, NEW s, Send(s, t)
  PROVE  tx'.moby = t.moby /\ tx'.pack7 = t.pack7
  <1> DEFINE x == s.previous
  <1>1. tx' = [t EXCEPT !.previous = x]
    BY DEF Send
  <1> HIDE DEF x
  <1> QED
    BY <1>1 DEF Sender

LEMMA SenderUses ==
  ASSUME NEW t \in Sender
  PROVE  /\ \A x : LET u == [t EXCEPT !.tries = x] IN u.moby = t.moby /\ u.pack7 = t.pack7
         /\ \A x : LET u == [t EXCEPT !.pc = x] IN u.moby = t.moby /\ u.pack7 = t.pack7
         /\ \A x, n, b : LET u == [t EXCEPT !.pc = x, !.at = n, !.last = b]
                         IN  u.moby = t.moby /\ u.pack7 = t.pack7
         /\ \A p, m : LET u == [t EXCEPT !.pack7 = p, !.moby = m]
                      IN  u.moby = m /\ u.pack7 = p
  BY DEF Sender

LEMMA AnswerUses ==
  ASSUME TypeInv, NEW header, Answer(header)
  PROVE  LET c == select_zrpos_encoding(header)
         IN  \/ tx'.moby = tx.moby /\ tx'.pack7 = tx.pack7
             \/ tx'.moby = c.moby /\ tx'.pack7 = c.pack7
  <1> DEFINE c == select_zrpos_encoding(header)  p == c.pack7  m == c.moby
             fresh == [tx EXCEPT !.pack7 = p, !.moby = m]
             Same(u, t) == u.moby = t.moby /\ u.pack7 = t.pack7
             over == [tx EXCEPT !.pc = "end"]
  <1>1. tx \in Sender
    BY DEF TypeInv, SenderOK
  <1>2. p \in BOOLEAN /\ m \in BOOLEAN
    BY ChosenIs
  <1> HIDE DEF p, m
  <1>3. fresh \in Sender /\ fresh.moby = m /\ fresh.pack7 = p
    <2>1. fresh \in Sender /\ fresh.moby = m
      BY <1>1, <1>2, SenderChosen
    <2>2. fresh.pack7 = p
      BY <1>1 DEF Sender
    <2> QED
      BY <2>1, <2>2
  <1>4. over \in Sender /\ Same(over, tx)
    BY <1>1, SenderChanges, SenderUses
  <1> DEFINE k == (header[2] - case.base[1]) % 256
             t == IF tx.pc # "offer" THEN tx ELSE fresh
  <1>5. SendFrom(t, k) \/ SendOne(tx, k) \/ Send(Offer(Unsent), tx) \/ Send(ZeofHeader(Unsent), over)
        \/ tx' = tx
    BY DEF Answer, c, p, m
  <1>6. t \in Sender /\ (Same(t, tx) \/ Same(t, fresh))
    BY <1>1, <1>3
  <1> HIDE DEF fresh, over, k, t
  <1>7. CASE SendFrom(t, k)
    <2> DEFINE u == [t EXCEPT !.pc = "end"]  s == Streamed(Format(t), Unsent, k)
    <2>1. u \in Sender /\ Same(u, t)
      BY <1>6, SenderChanges, SenderUses
    <2>2. Send(s, u)
      BY <1>7 DEF SendFrom
    <2> HIDE DEF u, s
    <2>3. Same(tx', u)
      BY <2>1, <2>2, SendUses
    <2> QED
      BY <1>3, <1>6, <2>1, <2>3 DEF p, m
  <1>8. CASE SendOne(tx, k)
    <2> DEFINE n == k + Len(Block(k))  b == AtEnd(k)
               u == [tx EXCEPT !.pc = "sync", !.at = n, !.last = b]
               s == Synchronized(Format(tx), Unsent, k)  x == s.previous
    <2>1. tx' = [u EXCEPT !.previous = x]
      BY <1>8 DEF SendOne, Send
    <2> HIDE DEF n, b, s, x
    <2>2. Same(u, tx) /\ DOMAIN u = DOMAIN tx
      BY <1>1, SenderUses
    <2>3. "moby" \in DOMAIN u /\ "pack7" \in DOMAIN u
      BY <1>1, <2>2 DEF Sender
    <2> HIDE DEF u
    <2>4. Same(tx', u)
      BY <2>1, <2>3
    <2> QED
      BY <2>2, <2>4
  <1>9. CASE Send(Offer(Unsent), tx)
    BY <1>1, <1>9, SendUses
  <1>10. CASE Send(ZeofHeader(Unsent), over)
    BY <1>4, <1>10, SendUses
  <1> QED
    BY <1>5, <1>7, <1>8, <1>9, <1>10

LEMMA ConsentsSends == TypeInv /\ Consents /\ (Repeat \/ TakeReply) => Consents'
  <1> SUFFICES ASSUME TypeInv, Consents, Repeat \/ TakeReply PROVE Consents'
    OBVIOUS
  <1>1. case \in Cases /\ tx \in Sender
    BY DEF TypeInv, SenderOK
  <1>2. UNCHANGED <<case, file>>
    BY DEF Repeat, TakeReply
  <1>3. Honest' = Honest /\ (Wished' <=> Wished) /\ (Willing' <=> Willing)
    BY <1>2, HonestStays
  <1>4. CASE Repeat
    <2> DEFINE n == tx.tries + 1  t == [tx EXCEPT !.tries = n]
    <2>1. t = [tx EXCEPT !.tries = @ + 1] /\ replies' = replies
      BY <1>4 DEF Repeat
    <2>2. Send(Offer(Unsent), t) \/ Send(ZeofHeader(Unsent), t)
      BY <1>4, <2>1 DEF Repeat
    <2>3. n \in 1 .. MaxTries
      BY <1>1, <1>4, FramingAssumption DEF Repeat, Sender
    <2> HIDE DEF n
    <2>4. t \in Sender /\ t.moby = tx.moby /\ t.pack7 = tx.pack7
      BY <1>1, <2>3, SenderChanges, SenderUses
    <2> HIDE DEF t
    <2>5. tx'.moby = tx.moby /\ tx'.pack7 = tx.pack7
      BY <2>2, <2>4, SendUses
    <2> QED
      BY <1>2, <1>3, <2>1, <2>5 DEF Consents
  <1>5. CASE TakeReply
    <2> DEFINE p == Head(replies)
    <2>1. replies # << >> /\ replies' = Tail(replies) /\ Answer(Heard(p))
      BY <1>5 DEF TakeReply
    <2>2. p \in Honest /\ Tail(replies) \in Seq(Honest)
      BY <2>1 DEF Consents
    <2> HIDE DEF p
    <2>3. Heard(p) = p
      BY <1>1, <2>2, HeardIs DEF Honest
    <2> DEFINE c == select_zrpos_encoding(p)
    <2>4. (c.moby => Willing) /\ (c.pack7 => case.receive.pack7)
      BY <2>2, ChosenConsents
    <2>5. \/ tx'.moby = tx.moby /\ tx'.pack7 = tx.pack7
          \/ tx'.moby = c.moby /\ tx'.pack7 = c.pack7
      BY <2>1, <2>3, AnswerUses
    <2> HIDE DEF c
    <2> QED
      BY <1>2, <1>3, <2>1, <2>2, <2>4, <2>5 DEF Consents
  <1> QED
    BY <1>4, <1>5

\* What zmrx has in mind and has said, after a step of its own.
Minded == (file'.moby => Wished) /\ replies' \in Seq(Honest)

LEMMA AskMinded ==
  ASSUME case \in Cases, file \in Files, Consents, NEW r, Ask(r, file)
  PROVE  Minded
  <1> DEFINE p == tx_zrpos(file)  n == file.asked + 1
             x == file.extended \/ Len(p) > HDRLEN
  <1>1. p \in Honest
    BY ZrposIsHonest DEF Consents
  <1>2. replies' = Append(replies, p)
    BY DEF Ask
  <1>3. file' = [file EXCEPT !.pc = "data", !.asked = n, !.extended = x]
    BY DEF Ask
  <1> HIDE DEF p, n, x
  <1>4. file'.moby = file.moby
    BY <1>3 DEF Files
  <1>5. replies' \in Seq(Honest)
    BY <1>1, <1>2 DEF Consents
  <1> QED
    BY <1>4, <1>5 DEF Consents, Minded

LEMMA FilesMind ==
  ASSUME NEW fl \in Files
  PROVE  /\ \A x : [fl EXCEPT !.pc = x].moby = fl.moby
         /\ \A x, y : [fl EXCEPT !.stored = y, !.pc = x].moby = fl.moby
         /\ \A x, e, v, m :
              [fl EXCEPT !.pc = x, !.extended = e, !.vhdr = v, !.moby = m].moby = m
  BY DEF Files

\* MobyTurbo comes to zmrx's mind only when the probe has crossed the line.
LEMMA ProbeIsNeeded ==
  ASSUME case \in Cases, NEW r, NEW rest, Unopened(r, rest), NEW header,
         zfile_moby(header, r.passed)
  PROVE  Wished
  <1>1. case.receive.m /\ ~case.receive.M /\ ~case.receive.esc8 /\ r.passed
    BY DEF zfile_moby
  <1>2. case.line \in Lines /\ (case.line \in {"zero", "mark"} => case.receive.esc8)
    BY CaseIs, FramingAssumption
  <1>3. case.line # "flow"
    BY <1>1 DEF Unopened
  <1> QED
    BY <1>1, <1>2, <1>3 DEF Wished, Lines

LEMMA ReceiveMinds ==
  ASSUME case \in Cases, file \in Files, Consents, NEW r \in Good, NEW rest,
         Unopened(r, rest), Receive(r, rest)
  PROVE  Minded
  <1>1. (file.moby => Wished) /\ replies \in Seq(Honest)
    BY DEF Consents
  <1>2. CASE Ask(r, file)
    BY <1>2, AskMinded
  <1>3. CASE replies' = replies /\ file'.moby = file.moby
    BY <1>1, <1>3 DEF Minded
  <1>4. ASSUME ReceiveFile(r, rest) PROVE Minded
    <2> DEFINE v == r.header[2] % 2 = 1  m == zfile_moby(r.header, r.passed)
    <2>1. file' = [file EXCEPT !.pc = "info", !.extended = FALSE, !.vhdr = v, !.moby = m]
      BY <1>4 DEF ReceiveFile
    <2>2. m => Wished
      BY ProbeIsNeeded
    <2> HIDE DEF v, m
    <2>3. file'.moby = m
      BY <2>1, FilesMind
    <2>4. replies' = replies
      BY <1>4 DEF ReceiveFile
    <2> QED
      BY <1>1, <2>2, <2>3, <2>4 DEF Minded
  <1>5. ASSUME InfoArrives(r, rest) PROVE Minded
    <2> DEFINE nak == <<ZNAK, 0, 0, 0, 0>>
    <2>1. Ask(r, file)
          \/ (replies' = Append(replies, nak) /\ file' = [file EXCEPT !.pc = "session"])
      BY <1>5 DEF InfoArrives
    <2>2. nak \in Headers
      BY ReplyIs
    <2>3. Len(nak) = 5
      OBVIOUS
    <2> HIDE DEF nak
    <2>4. nak \in Honest
      BY <2>2, <2>3, ShortIsHonest
    <2>5. CASE replies' = Append(replies, nak) /\ file' = [file EXCEPT !.pc = "session"]
      <3>1. file'.moby = file.moby
        BY <2>5, FilesMind
      <3>2. replies' \in Seq(Honest)
        BY <1>1, <2>4, <2>5
      <3> QED
        BY <1>1, <3>1, <3>2 DEF Minded
    <2> QED
      BY <1>2, <2>1, <2>5
  <1>6. ASSUME BlockArrives(r, rest) PROVE Minded
    <2> DEFINE stored == file.stored \o r.out
               place == IF r.ending \in {ZCRCG, ZCRCQ} THEN "block" ELSE "data"
               ack == <<ZACK>> \o Position(Len(stored))
    <2>1. /\ file' = [file EXCEPT !.stored = stored, !.pc = place]
          /\ replies' = Append(replies, ack) \/ replies' = replies
      BY <1>6 DEF BlockArrives
    <2>2. ack \in Honest
      <3>1. stored \in Seq(Byte)
        <4>1. file.stored \in Seq(Byte) /\ r.out \in Seq(Byte)
          BY GoodFields DEF Files
        <4> QED
          BY <4>1, Joined
      <3>2. Len(stored) \in Int
        BY <3>1
      <3> HIDE DEF stored
      <3>3. ack \in Headers
        BY <3>2, ReplyIs
      <3>4. Len(ack) = 5
        BY DEF Position
      <3> HIDE DEF ack
      <3> QED
        BY <3>3, <3>4, ShortIsHonest
    <2> HIDE DEF stored, place, ack
    <2>3. file'.moby = file.moby
      BY <2>1, FilesMind
    <2>4. replies' \in Seq(Honest)
      BY <1>1, <2>1, <2>2
    <2> QED
      BY <1>1, <2>3, <2>4 DEF Minded
  <1>7. \A x : [file EXCEPT !.pc = x].moby = file.moby
    BY FilesMind
  <1>8. ASSUME Continue(r, rest) \/ Cancelled(r, rest) \/ OtherHeader(r, rest)
               \/ OpenFrame(r, rest) \/ EndOfFile(r, rest) \/ FileAgain(r, rest)
               \/ InfoAgain(r, rest) \/ BlockRefused(r, rest)
        PROVE  Ask(r, file) \/ (replies' = replies /\ file'.moby = file.moby)
    BY <1>7, <1>8, ZenonT(60) DEF Continue, Cancelled, OtherHeader, OpenFrame, EndOfFile, FileAgain,
                      InfoAgain, BlockRefused
  <1> QED
    BY <1>2, <1>3, <1>4, <1>5, <1>6, <1>8 DEF Receive

LEMMA ConsentsReceives ==
  HeardInv /\ TypeInv /\ Opaque /\ Consents /\ (ReceiveByte \/ Timeout) => Consents'
  <1> SUFFICES ASSUME HeardInv, TypeInv, Opaque, Consents, ReceiveByte \/ Timeout
               PROVE  Consents'
    OBVIOUS
  <1>1. UNCHANGED <<case, tx>> /\ case \in Cases /\ file \in Files
    BY DEF ReceiveByte, Timeout, TypeInv
  <1>2. Honest' = Honest /\ (Wished' <=> Wished) /\ (Willing' <=> Willing)
    BY <1>1, HonestStays
  <1> SUFFICES Minded
    BY <1>1, <1>2 DEF Minded, Consents
  <1>3. CASE ReceiveByte
    <2> DEFINE r == Read(Head(wire))  rest == Tail(wire)
    <2>1. ~Over /\ wire # << >> /\ Receive(r, rest)
      BY <1>3 DEF ReceiveByte
    <2>2. r \in Good /\ Unopened(r, rest)
      BY <2>1, ReadTyped, OpaqueRead
    <2> HIDE DEF r, rest
    <2> QED
      BY <1>1, <2>1, <2>2, ReceiveMinds
  <1>4. CASE Timeout
    <2>1. \/ file' = [file EXCEPT !.pc = "session"] /\ replies' = replies
          \/ Ask(rx, file)
      BY <1>4 DEF Timeout
    <2>2. [file EXCEPT !.pc = "session"].moby = file.moby
      BY <1>1, FilesMind
    <2> QED
      BY <1>1, <2>1, <2>2, AskMinded DEF Minded, Consents
  <1> QED
    BY <1>3, <1>4

LEMMA ConsentsLine ==
  TypeInv /\ Consents /\ (FlowControl \/ Damage \/ Abort \/ LoseReply) => Consents'
  <1> SUFFICES ASSUME TypeInv, Consents, FlowControl \/ Damage \/ Abort \/ LoseReply
               PROVE  Consents'
    OBVIOUS
  <1>1. UNCHANGED <<case, file>> /\ tx \in Sender
    BY DEF FlowControl, Damage, Abort, LoseReply, TypeInv, SenderOK
  <1>2. Honest' = Honest /\ (Wished' <=> Wished) /\ (Willing' <=> Willing)
    BY <1>1, HonestStays
  <1>3. tx' = tx \/ tx' = [tx EXCEPT !.pc = "gone"]
    BY DEF FlowControl, Damage, Abort, LoseReply
  <1>4. tx'.moby = tx.moby /\ tx'.pack7 = tx.pack7
    <2>1. CASE tx' = [tx EXCEPT !.pc = "gone"]
      BY <1>1, <2>1 DEF Sender
    <2> QED
      BY <1>3, <2>1
  <1>5. replies' = replies \/ (replies # << >> /\ replies' = Tail(replies))
    BY DEF FlowControl, Damage, Abort, LoseReply
  <1>6. replies' \in Seq(Honest)
    BY <1>5 DEF Consents
  <1> QED
    BY <1>1, <1>2, <1>4, <1>6 DEF Consents

LEMMA ConsentSteps ==
  HeardInv /\ TypeInv /\ Opaque /\ Consents /\ [Next]_vars => Opaque' /\ Consents'
  <1> SUFFICES ASSUME HeardInv, TypeInv, Opaque, Consents, [Next]_vars
               PROVE  Opaque' /\ Consents'
    OBVIOUS
  <1>1. CASE Repeat \/ TakeReply
    <2>1. UNCHANGED <<case, rx, hit>>
      BY <1>1 DEF Repeat, TakeReply
    <2>2. UNCHANGED <<tx, wire>> \/ \E s, t : Sends(s, t)
      BY <1>1, RepeatSends, TakeReplySends
    <2> QED
      BY <1>1, <2>1, <2>2, OpaqueSends, ConsentsSends
  <1>2. CASE ReceiveByte \/ Timeout
    BY <1>2, OpaqueReceives, ConsentsReceives
  <1>3. CASE FlowControl \/ Damage \/ Abort \/ LoseReply
    BY <1>3, OpaqueLine, ConsentsLine
  <1>4. CASE UNCHANGED vars
    BY <1>4 DEF vars, Opaque, Consents, Honest, Wished, Willing
  <1> QED
    BY <1>1, <1>2, <1>3, <1>4, Changes

\* For every pair of options, over every line and under every fault: zmtx uses
\* MobyTurbo only where both sides asked for it, neither refused it and the line lets
\* every byte through, and Pack-7 only where the peer asked for it.  What is asked for
\* in a ZRPOS is heard as it was meant (RepliesAreHeard), and the probe's two bytes of
\* flow control never both cross a line that strips them (Opaque), whatever stood on it
\* before (tx_zrinit, zfile_moby, tx_zrpos, rx_header, select_zrpos_encoding).
THEOREM OnlyByConsent == Spec => []Consented
  <1>1. Init => HeardInv /\ TypeInv /\ Opaque /\ Consents
    BY HeardInit, TypeInit, OpaqueInit, ConsentsInit
  <1>2. HeardInv /\ TypeInv /\ Opaque /\ Consents /\ [Next]_vars
          => HeardInv' /\ TypeInv' /\ Opaque' /\ Consents'
    BY HeardSteps, TypeSteps, ConsentSteps
  <1>3. Consents => Consented
    BY DEF Consents, Consented
  <1> QED
    BY <1>1, <1>2, <1>3, PTL DEF Spec
=============================================================================
