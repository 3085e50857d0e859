----------------------------- MODULE Subpacket -----------------------------
(***************************************************************************)
(* One data subpacket (zmdm.c): what tx_data makes of a buffer in each of the  *)
(* encodings, and how rx_data takes it apart again, byte by byte.  Bytes are   *)
(* numbers and the checks are computed (Crc).                                 *)
(*                                                                           *)
(* A format is [style, ctl, iac]: how headers and data are sent, ESCCTL, and   *)
(* the escape of IAC.  What has been sent is [wire, previous]: the bytes, and   *)
(* last_sent.  The receiver is a record of the fields of struct zmodem that    *)
(* steer it, of rx_header's and rx_data's locals and of their cursor.  The      *)
(* copying of whole words and the pieces in which bytes reach io.read and       *)
(* io.write are left out.                                                     *)
(***************************************************************************)
EXTENDS Crc, Integers, SequencesExt

CONSTANT Capacity    \* the size of the buffer rx_data fills

ASSUME SubpacketAssumption == Capacity \in Nat

Byte == 0 .. 255

\* CRC16 as hexadecimal, CRC32, MobyTurbo, and the seven-bit run lengths and Pack-7.
Styles == {"hex", "bin32", "moby", "rle", "pack7"}
SevenBit == {"rle", "pack7"}

CR == 13
SO == 14
DLE == 16
XON == 17
XOFF == 19
ZDLE == 24
CAN == 24
AT == 64
ZCRCE == 104
ZCRCG == 105
ZCRCQ == 106
ZCRCW == 107
ZRUB0 == 108
ZRUB1 == 109
ZRESC == 126
IAC == 255

Low(c) == c % 128
High(c) == c >= 128
Toggled(c) == IF (c \div 64) % 2 = 1 THEN c - 64 ELSE c + 64   \* c ^ 0x40
IsControl(c) == (c \div 32) % 4 = 0                            \* (c & 0x60) == 0
IsQuoted(c) == (c \div 32) % 4 = 2                             \* (c & 0x60) == 0x40
IsFlow(c) == Low(c) \in {XON, XOFF}
IsEnding(c) == c \in ZCRCE .. ZCRCW

----------------------------------------------------------------------------
(* Sending: the plain and the MobyTurbo encodings.                         *)

\* initialize_tx_classes: what is quoted whatever was asked for.
EscapeAlways == {ZDLE, DLE, 144, XON, 145, XOFF, 147}

\* A return after an at-sign would be taken for a command by a modem.
tx_byte_needs_escape(f, c, previous) ==
  \/ c \in EscapeAlways
  \/ Low(c) = CR /\ previous = AT
  \/ f.ctl /\ IsControl(c)
  \/ f.iac /\ c = IAC

mobyturbo_byte_needs_escape(f, c, previous) ==
  \/ c = ZDLE
  \/ f.ctl /\ IsControl(c) /\ c \notin EscapeAlways
  \/ f.iac /\ c = IAC

\* Mutant of buffer_tx: the byte before is not kept.
buffer_tx_forgetful(f, sent, c) ==
  LET escape == IF f.style = "moby" THEN mobyturbo_byte_needs_escape(f, c, sent.previous)
                ELSE tx_byte_needs_escape(f, c, sent.previous)
      quoted == <<ZDLE, IF c = IAC THEN ZRUB1 ELSE Toggled(c)>>
  IN  [sent EXCEPT !.wire = @ \o (IF escape THEN quoted ELSE <<c>>)]

\* tx_raw of each byte.
raw(sent, bytes) ==
  IF bytes = << >> THEN sent
  ELSE [wire |-> sent.wire \o bytes, previous |-> Low(Last(bytes))]

\* One byte, quoted where its format asks for it.
buffer_tx(f, sent, c) ==
  LET escape == IF f.style = "moby" THEN mobyturbo_byte_needs_escape(f, c, sent.previous)
                ELSE tx_byte_needs_escape(f, c, sent.previous)
  IN  raw(sent, IF ~escape THEN <<c>>
                ELSE <<ZDLE, IF c = IAC THEN ZRUB1 ELSE Toggled(c)>>)

buffer_all(f, sent, data) ==
  LET put(before, c) == buffer_tx(f, before, c) IN Along(put, sent, data)

\* The check that covers the data and the byte that ends it.
DataCheck(f, data, ending) ==
  IF f.style = "hex" THEN Crc16(Append(data, ending))
  ELSE Inverted(crc32_byte_update(crc32_update(Crc32Start, data), ending))

PlainData(f, sent, data, ending) ==
  buffer_all(f, raw(buffer_all(f, sent, data), <<ZDLE, ending>>), DataCheck(f, data, ending))

----------------------------------------------------------------------------
(* Sending: seven-bit quoting, run lengths and Pack-7.                     *)

\* The bytes with a private code of their own, and the code.
OmenCodes == {<<SO, 110>>, <<DLE, 80>>, <<XON, 81>>, <<XOFF, 83>>, <<ZDLE, 88>>,
              <<128, 115>>, <<142, 111>>, <<144, 112>>, <<145, 113>>,
              <<147, 114>>, <<152, 116>>, <<IAC, ZRUB1>>}

omen_encode_byte(f, c) ==
  LET coded == {x \in OmenCodes : x[1] = c} \cup
               (IF f.ctl /\ c = 127 THEN {<<127, ZRUB0>>} ELSE {})
      low == Low(c)
      tail == IF f.ctl /\ low < 32 THEN <<ZDLE, Toggled(low)>> ELSE <<low>>
  IN  IF coded # {} THEN <<ZDLE, (CHOOSE x \in coded : TRUE)[2]>>
      ELSE IF High(c) THEN <<SO>> \o tail ELSE tail

OmenWire(f, data) == FlattenSeq([i \in 1 .. Len(data) |-> omen_encode_byte(f, data[i])])

MaxRun == 63

\* How often data[i] stands in a row from i on, at most MaxRun.
RunAt(data, i) ==
  Max({n \in 1 .. MaxRun : i + n - 1 <= Len(data) /\ \A j \in i .. i + n - 1 : data[j] = data[i]})

omen_rle_requires_marker(run, value) == run # 2 \/ value = ZRESC \/ High(value)

\* Mutant of omen_rle_uses_space_run: one space too many.
space_run_off_by_one(run, value) == value = 32 /\ run <= 35

omen_rle_uses_space_run(run, value) == value = 32 /\ run <= 34

RunToken(run, value) ==
  CASE run = 1 -> IF value = ZRESC THEN <<ZRESC, 64>> ELSE <<value>>
    [] run > 1 /\ ~omen_rle_requires_marker(run, value) -> <<value, value>>
    [] run > 2 /\ omen_rle_uses_space_run(run, value) -> <<ZRESC, run + 29>>
    [] OTHER -> <<ZRESC, run + 64, value>>

RunTokens(data) ==
  LET tokens[i \in 1 .. Len(data) + 1] ==
        IF i > Len(data) THEN << >>
        ELSE RunToken(RunAt(data, i), data[i]) \o tokens[i + RunAt(data, i)]
  IN  tokens[1]

\* A number of up to 32 bits is the sequence of its bytes, the highest first.
\* Its quotient and remainder by 88:
DivMod88(number) ==
  LET divide(d, b) == [quotient |-> Append(d.quotient, (d.rest * 256 + b) \div 88),
                       rest |-> (d.rest * 256 + b) % 88]
  IN  Along(divide, [quotient |-> << >>, rest |-> 0], number)

\* A group of n bytes becomes n + 1 printable digits, the highest first.
pack7_encode_group(group) ==
  LET n == Len(group)
      shifted[k \in 0 .. n] ==
        IF k = 0 THEN group ELSE DivMod88(shifted[k - 1]).quotient
  IN  [i \in 1 .. n + 1 |-> 34 + DivMod88(shifted[n + 1 - i]).rest]

Pack7Wire(data) ==
  LET groups == [g \in 1 .. (Len(data) + 3) \div 4 |->
                   SubSeq(data, 4 * g - 3, IF 4 * g < Len(data) THEN 4 * g ELSE Len(data))]
  IN  FlattenSeq([g \in DOMAIN groups |-> pack7_encode_group(groups[g])])

tx_data(f, sent, data, ending) ==
  LET tokens == RunTokens(data)
      check == DataCheck(f, IF f.style = "rle" THEN tokens ELSE data, ending)
      ended == CASE f.style \notin SevenBit -> PlainData(f, sent, data, ending)
                 [] f.style = "rle" ->
                      raw(sent, OmenWire(f, tokens) \o <<ZDLE, ending>> \o OmenWire(f, check))
                 [] f.style = "pack7" ->
                      raw(sent, Pack7Wire(data) \o <<33, ending>> \o pack7_encode_group(check))
  IN  raw(ended, IF ending = ZCRCW THEN <<XON>> ELSE << >>)

----------------------------------------------------------------------------
(* Receiving: from the bytes of the line to symbols.                       *)

Repeated(c, n) == [i \in 1 .. n |-> c]

Receiver ==
  [cancel : 0 .. 5, moby : BOOLEAN, is32 : BOOLEAN, ctl : BOOLEAN,
   encoded : {"none", "rle", "pack7"}, escape8 : {"none", "legacy", "omen"},
   at : {"hunt", "pad", "pads", "style", "count", "header", "cr", "lf",
         "data", "ending", "check"},
   style : Byte, want : 0 .. 17, nibble : -1 .. 15, header : Seq(Byte), crc : Seq(Byte),
   probe : 0 .. 4, passed : BOOLEAN,
   mode : {"plain", "escaped", "slow"}, high : BOOLEAN,
   rle : {"normal", "count", "value"}, run : 0 .. MaxRun, value : Seq(Byte), digits : 0 .. 4,
   sum : Seq(Byte), out : Seq(Byte), over : BOOLEAN, ending : Byte,
   event : {"none", "header", "data", "invalid", "cancelled"}]

\* rx_data begins.
DataStart(r) ==
  [r EXCEPT !.at = "data", !.mode = "plain", !.high = FALSE, !.rle = "normal", !.run = 0,
            !.value = <<0, 0, 0, 0>>, !.digits = 0, !.sum = Crc32Start, !.out = << >>,
            !.over = FALSE, !.ending = 0, !.crc = << >>, !.event = "none"]

\* Mutant of rx_cursor_raw: a CAN that follows an escape is not counted.
rx_cursor_unquoted(r, c) ==
  IF c # CAN \/ r.moby THEN [r EXCEPT !.cancel = 0]
  ELSE IF r.mode = "escaped" THEN r
  ELSE [r EXCEPT !.cancel = @ + 1, !.event = IF r.cancel = 4 THEN "cancelled" ELSE @]

\* Mutant of rx_cursor_raw: one CAN too many is waited for.
rx_cursor_late(r, c) ==
  IF c # CAN \/ r.moby THEN [r EXCEPT !.cancel = 0]
  ELSE [r EXCEPT !.cancel = @ + 1, !.event = IF r.cancel = 5 THEN "cancelled" ELSE @]

\* Five CANs in a row end the session, except on a transparent line.
rx_cursor_raw(r, c) ==
  IF c # CAN \/ r.moby THEN [r EXCEPT !.cancel = 0]
  ELSE [r EXCEPT !.cancel = @ + 1, !.event = IF r.cancel = 4 THEN "cancelled" ELSE @]

\* A symbol is a byte, a frame end raised by 256, or nothing yet.
Nothing == -1
Wrong == -2

rx_is_unescaped_control(r, c) == r.ctl /\ c # ZDLE /\ IsControl(c)

rx_needs_slow_path(r, c) ==
  c = ZDLE \/ (~r.moby /\ (IsFlow(c) \/ rx_is_unescaped_control(r, c)))

\* rx_cursor, rx_cursor_slow: what the byte c adds, as <<mode, symbol>>.
rx_cursor(r, c) ==
  IF r.mode = "escaped"
  THEN IF r.escape8 = "legacy" /\ High(c) THEN <<"plain", Toggled(c)>>
       ELSE IF rx_needs_slow_path(r, c) THEN <<"escaped", Nothing>>
       ELSE IF IsEnding(c) THEN <<"plain", 256 + c>>
       ELSE IF c = ZRUB0 THEN <<"plain", 127>>
       ELSE IF c = ZRUB1 THEN <<"plain", 255>>
       ELSE IF IsQuoted(c) THEN <<"plain", Toggled(c)>>
       ELSE <<"slow", Nothing>>
  ELSE IF c = ZDLE THEN <<"escaped", Nothing>>
  ELSE IF (r.mode = "slow" \/ ~r.moby) /\ (IsFlow(c) \/ rx_is_unescaped_control(r, c))
  THEN <<"slow", Nothing>>
  ELSE <<"plain", c>>

\* rx_omen_cursor: the same for seven-bit quoting, as <<mode, high, symbol>>.
rx_omen_cursor(r, byte) ==
  LET c == Low(byte)
      raised(b) == IF r.high THEN Low(b) + 128 ELSE b
      private == {x \in OmenCodes : x[2] = c /\ c >= ZRUB0}
  IN  IF IsFlow(c) THEN <<r.mode, r.high, Nothing>>
      ELSE IF r.mode = "escaped"
      THEN CASE IsEnding(c) -> <<"plain", FALSE, 256 + c>>
             [] c = ZRUB0 -> <<"plain", FALSE, raised(127)>>
             [] private # {} -> <<"plain", FALSE, raised((CHOOSE x \in private : TRUE)[1])>>
             [] IsQuoted(c) -> <<"plain", FALSE, raised(Toggled(c))>>
             [] OTHER -> <<"plain", FALSE, Wrong>>
      ELSE CASE c = SO -> <<r.mode, TRUE, Nothing>>
             [] c = ZDLE -> <<"escaped", r.high, Nothing>>
             [] c # SO /\ rx_is_unescaped_control(r, c) -> <<r.mode, r.high, Nothing>>
             [] OTHER -> <<"plain", FALSE, raised(c)>>

\* rx_rle_cursor: the quoting of run-length data is the last header's.
\* The receiver after the byte c with what it adds, [r, symbol].
Decoded(r, c, omen) ==
  LET raised == rx_cursor_raw(r, c)
      o == rx_omen_cursor(r, c)
      p == rx_cursor(r, c)
  IN  IF raised.event = "cancelled" THEN [r |-> raised, symbol |-> Nothing]
      ELSE IF omen THEN [r |-> [raised EXCEPT !.mode = o[1], !.high = o[2]], symbol |-> o[3]]
      ELSE [r |-> [raised EXCEPT !.mode = p[1]], symbol |-> p[2]]

----------------------------------------------------------------------------
(* Receiving: from symbols to data.                                        *)

Invalid(r) == [r EXCEPT !.event = "invalid"]

\* n times the byte c into the buffer, or past its end.
Put(r, c, n) ==
  LET room == Capacity - Len(r.out)
  IN  IF n <= room THEN [r EXCEPT !.out = @ \o Repeated(c, n)]
      ELSE [r EXCEPT !.out = @ \o Repeated(c, room), !.over = TRUE]

Summed(r, c) == [r EXCEPT !.sum = crc32_byte_update(@, c)]

\* Mutant of Checked: the check is not compared.
Checked_trusting(r, expected) == IF ~r.over THEN [r EXCEPT !.event = "data"] ELSE Invalid(r)

\* The check has been read.
Checked(r, expected) ==
  IF r.crc = expected /\ ~r.over THEN [r EXCEPT !.event = "data"] ELSE Invalid(r)

\* rx_32_data, rx_16_data
PlainSymbol(r, symbol) ==
  LET added == [r EXCEPT !.crc = Append(@, symbol)]
  IN  CASE r.at = "check" /\ symbol > 255 -> Invalid(r)
        [] r.at = "check" /\ symbol <= 255 ->
             IF Len(added.crc) < (IF r.is32 THEN 4 ELSE 2) THEN added
             ELSE Checked(added, IF ~r.is32 THEN Crc16(Append(r.out, r.ending))
                                 ELSE DataCheck([style |-> "bin32"], r.out, r.ending))
        [] r.at = "data" /\ symbol > 255 -> [r EXCEPT !.at = "check", !.ending = symbol - 256]
        [] OTHER -> Put(r, symbol, 1)

\* rx_rle_data: the run-length tokens, which the check covers; classify_omen_rle_count.
RunSymbol(r, symbol) ==
  LET added == [r EXCEPT !.crc = Append(@, symbol)]
      s == Summed(r, symbol)
  IN  CASE r.at = "check" ->
             IF symbol > 255 THEN Invalid(r)
             ELSE IF Len(added.crc) < 4 THEN added ELSE Checked(added, Inverted(r.sum))
        [] r.at # "check" /\ symbol > 255 ->
             IF r.rle # "normal" THEN Invalid(r)
             ELSE [Summed(r, symbol - 256) EXCEPT !.at = "check", !.ending = symbol - 256]
        [] OTHER ->
             CASE r.rle = "value" -> [Put(s, symbol, r.run) EXCEPT !.rle = "normal"]
               [] r.rle = "normal" ->
                    IF symbol = ZRESC THEN [s EXCEPT !.rle = "count"] ELSE Put(s, symbol, 1)
               [] r.rle = "count" /\ symbol = 64 -> [Put(s, ZRESC, 1) EXCEPT !.rle = "normal"]
               [] r.rle = "count" /\ symbol \in 32 .. 63 ->
                    [Put(s, 32, symbol - 29) EXCEPT !.rle = "normal"]
               [] r.rle = "count" /\ symbol \in 66 .. 127 ->
                    [s EXCEPT !.rle = "value", !.run = symbol - 64]
               [] OTHER -> Invalid(r)

\* value * 88 + digit in 32 bits, and what is carried out of them.
MulAdd88(number, digit) ==
  LET multiply(p, b) == [number |-> <<(b * 88 + p.carry) % 256>> \o p.number,
                         carry |-> (b * 88 + p.carry) \div 256]
  IN  Along(multiply, [number |-> << >>, carry |-> digit], Reverse(number))

\* The bytes of a group of so many digits; a value they cannot hold is refused.
Pack7Group(r, digits) ==
  LET count == IF digits = 0 THEN 0 ELSE digits - 1
      bytes == SubSeq(r.value, 5 - count, 4)
      next == [r EXCEPT !.digits = 0, !.value = <<0, 0, 0, 0>>]
      put(s, c) == Summed(Put(s, c, 1), c)
  IN  IF \E i \in 1 .. 4 - count : r.value[i] # 0 THEN Invalid(r)
      ELSE IF r.at = "check"
      THEN IF count < 4 THEN Invalid(r) ELSE Checked([next EXCEPT !.crc = bytes], Inverted(r.sum))
      ELSE [Along(put, next, bytes) EXCEPT !.at = IF count < 4 THEN "ending" ELSE @]

\* rx_pack7_group, rx_pack7_data
Pack7Symbol(r, symbol) ==
  LET p == MulAdd88(r.value, symbol - 34)
      added == [r EXCEPT !.value = p.number, !.digits = @ + 1]
  IN  CASE r.at = "ending" ->
             IF IsEnding(symbol)
             THEN [Summed(r, symbol) EXCEPT !.at = "check", !.ending = symbol]
             ELSE Invalid(r)
        [] r.at # "ending" /\ symbol = 33 ->
             IF r.digits = 1 THEN Invalid(r) ELSE Pack7Group(r, r.digits)
        [] r.at # "ending" /\ symbol \in 34 .. 121 ->
             IF p.carry # 0 THEN Invalid(r)
             ELSE IF r.digits = 4 THEN Pack7Group([added EXCEPT !.digits = 0], 5)
             ELSE added
        [] OTHER -> Invalid(r)

\* rx_data, for one byte of the line.
rx_data(r, c) ==
  LET d == Decoded(r, c, r.encoded = "pack7" \/ (r.encoded = "rle" /\ r.escape8 = "omen"))
  IN  CASE d.symbol = Nothing -> d.r
        [] d.symbol = Wrong -> Invalid(d.r)
        [] OTHER -> CASE r.encoded = "none" -> PlainSymbol(d.r, d.symbol)
                      [] r.encoded = "rle" -> RunSymbol(d.r, d.symbol)
                      [] r.encoded = "pack7" -> Pack7Symbol(d.r, d.symbol)
=============================================================================
