------------------------------- MODULE Header -------------------------------
(***************************************************************************)
(* Headers (zmdm.c): how a sender writes one in each of its styles, and how    *)
(* rx_header finds one on the line again, byte by byte.  A header is the       *)
(* sequence of its type and its parameters.                                   *)
(***************************************************************************)
EXTENDS Subpacket

ZRQINIT == 0
ZACK == 3
ZFILE == 4
ZNAK == 6
ZFIN == 8
ZRPOS == 9
ZDATA == 10
ZEOF == 11

HDRLEN == 5
ZMAXHLEN == 16
ZPAD == 42
LF == 10

ZBINR32ESC8 == 49
ZBINP7 == 50
ZBINM32 == 51
ZBIN == 65
ZHEX == 66
ZBIN32 == 67
ZBINR32 == 68
ZVBIN == 97
ZVHEX == 98
ZVBIN32 == 99
ZVBINR32 == 100

Omen == {ZBINR32ESC8, ZBINP7}
Variable == {ZVBIN, ZVHEX, ZVBIN32, ZVBINR32}
Known == Omen \cup {ZBINM32, ZBIN, ZHEX, ZBIN32, ZBINR32} \cup Variable

mobyturbo_probe == <<35, 193, 212, 147, 17>>

\* "Copyright 1989 Omen Technology INC All Rights Reserved"
omen_header_crc_suffix ==
  <<67, 111, 112, 121, 114, 105, 103, 104, 116, 32, 49, 57, 56, 57, 32, 79, 109, 101, 110, 32,
    84, 101, 99, 104, 110, 111, 108, 111, 103, 121, 32, 73, 78, 67, 32, 65, 108, 108, 32,
    82, 105, 103, 104, 116, 115, 32, 82, 101, 115, 101, 114, 118, 101, 100>>

Crc32(p) == Inverted(crc32_update(Crc32Start, p))
OmenCrc(p) == Crc32(p \o omen_header_crc_suffix)

----------------------------------------------------------------------------
(* Sending.                                                                *)

tx_nibble(n) == IF n < 10 THEN 48 + n ELSE 87 + n
tx_hex(bytes) ==
  FlattenSeq([i \in DOMAIN bytes |-> <<tx_nibble(bytes[i] \div 16), tx_nibble(bytes[i] % 16)>>])

tx_hex_header(sent, p) ==
  raw(sent, <<ZPAD, ZPAD, ZDLE>>
            \o (IF Len(p) = HDRLEN THEN <<ZHEX>> ELSE <<ZVHEX>> \o tx_hex(<<Len(p) - 1>>))
            \o tx_hex(p) \o tx_hex(Crc16(p)) \o <<CR, LF>>
            \o (IF p[1] \in {ZACK, ZFIN} THEN << >> ELSE <<XON>>))

tx_bin32_header(f, sent, p) ==
  LET fixed == Len(p) = HDRLEN
      begun == raw(sent, <<ZPAD, ZPAD, ZDLE, IF fixed THEN ZBIN32 ELSE ZVBIN32>>)
  IN  buffer_all(f, begun, (IF fixed THEN << >> ELSE <<Len(p) - 1>>) \o p \o Crc32(p))

tx_omen_header(f, sent, p) ==
  raw(sent, <<ZPAD, ZDLE, IF f.style = "pack7" THEN ZBINP7 ELSE ZBINR32ESC8, 33 + Len(p)>>
            \o OmenWire(f, p \o OmenCrc(p)))

tx_mobyturbo_header(f, sent, p) ==
  buffer_all(f, raw(sent, <<ZPAD, ZDLE, ZBINM32>>), <<Len(p) - 1>> \o p \o OmenCrc(p))

\* tx_header, tx_header_length
tx_header(f, sent, p) ==
  CASE f.style = "hex" -> tx_hex_header(sent, p)
    [] f.style = "bin32" -> tx_bin32_header(f, sent, p)
    [] f.style = "moby" -> tx_mobyturbo_header(f, sent, p)
    [] f.style \in SevenBit -> tx_omen_header(f, sent, p)

tx_mobyturbo_probe(sent) == raw(sent, mobyturbo_probe)

----------------------------------------------------------------------------
(* Receiving.                                                              *)

\* rx_header looks for the next header, having read no part of one yet.
Hunting(r) ==
  [r EXCEPT !.at = "hunt", !.style = 0, !.want = 0, !.nibble = -1, !.header = << >>,
            !.crc = << >>, !.mode = "plain", !.high = FALSE, !.ending = 0, !.out = << >>,
            !.over = FALSE, !.rle = "normal", !.run = 0, !.value = <<0, 0, 0, 0>>,
            !.digits = 0, !.sum = Crc32Start]

\* rx_header is called.
HeaderStart(r) == [Hunting(r) EXCEPT !.event = "none", !.probe = 0, !.passed = FALSE]

\* The probe of the line is looked for between headers.
Probed(r, c) ==
  IF c # mobyturbo_probe[r.probe + 1]
  THEN [r EXCEPT !.probe = IF c = mobyturbo_probe[1] THEN 1 ELSE 0]
  ELSE IF r.probe = 4 THEN [r EXCEPT !.probe = 0, !.passed = TRUE]
  ELSE [r EXCEPT !.probe = @ + 1]

\* The bytes before the style: ZPAD, perhaps another, ZDLE.
Scanned(r, c) ==
  CASE r.at = "hunt" -> [Probed(r, c) EXCEPT !.at = IF Low(c) = ZPAD THEN "pad" ELSE "hunt"]
    [] r.at = "pad" /\ Low(c) = ZPAD -> [r EXCEPT !.at = "pads"]
    [] r.at \in {"pad", "pads"} /\ Low(c) = ZDLE -> [r EXCEPT !.at = "style"]
    [] OTHER -> [r EXCEPT !.at = "hunt"]

\* The style says how the rest is read, and what data will follow: at once, even
\* when the rest turns out wrong, unless the style is one of Omen's.
Style(r, style) ==
  LET read == [r EXCEPT !.style = style, !.want = HDRLEN, !.moby = style = ZBINM32]
      next == [read EXCEPT !.at = IF style \in Omen \cup Variable \cup {ZBINM32} THEN "count"
                                  ELSE "header"]
  IN  IF style \notin Known THEN Hunting(r)
      ELSE IF style \in Omen \cup {ZBINM32} THEN next
      ELSE [next EXCEPT !.is32 = style \in {ZBIN32, ZBINR32, ZVBIN32, ZVBINR32},
                        !.encoded = IF style \in {ZBINR32, ZVBINR32} THEN "rle" ELSE "none"]

\* A header whose check matches.
Accepted(r) ==
  LET found == [r EXCEPT !.event = "header"]
  IN  IF r.style \in Omen
      THEN [found EXCEPT !.is32 = TRUE, !.escape8 = "omen",
                         !.encoded = IF r.style = ZBINP7 THEN "pack7" ELSE "rle"]
      ELSE IF r.style = ZBINM32
      THEN [found EXCEPT !.is32 = TRUE, !.escape8 = "none", !.encoded = "none"]
      ELSE found

\* rx_variable_length, and the count of an Omen header.
Counted(r, n) ==
  IF n \in (IF r.style \in Omen THEN 0 ELSE HDRLEN - 1) .. ZMAXHLEN
  THEN [r EXCEPT !.want = n + 1, !.at = "header"] ELSE Hunting(r)

Checksum(r) ==
  IF r.style \in Omen \cup {ZBINM32} THEN OmenCrc(r.header)
  ELSE IF r.style \in {ZHEX, ZVHEX, ZBIN, ZVBIN} THEN Crc16(r.header) ELSE Crc32(r.header)

\* A decoded byte of the count, the header or its check.
HeaderByte(r, byte) ==
  LET header == Append(r.header, byte)
      crc == Append(r.crc, byte)
      hex == r.style \in {ZHEX, ZVHEX}
      width == IF hex \/ r.style \in {ZBIN, ZVBIN} THEN 2 ELSE 4
  IN  CASE r.at = "count" -> Counted(r, byte)
        [] r.at = "header" ->
             [r EXCEPT !.header = header, !.at = IF Len(header) = r.want THEN "check" ELSE @]
        [] r.at = "check" ->
             IF Len(crc) < width THEN [r EXCEPT !.crc = crc]
             ELSE IF crc # Checksum(r) THEN Hunting(r)
             ELSE IF hex THEN [r EXCEPT !.at = "cr"] ELSE Accepted(r)

\* rx_nibble: the value of a hexadecimal digit, with or without the eighth bit.
Digits == {<<48 + n, n>> : n \in 0 .. 9} \cup {<<87 + n, n>> : n \in 10 .. 15}

rx_hex(r, symbol) ==
  LET digit == {d[2] : d \in {x \in Digits : x[1] = Low(symbol)}}
      n == CHOOSE m \in digit : TRUE
  IN  IF digit = {} THEN Hunting(r)
      ELSE IF r.nibble < 0 THEN [r EXCEPT !.nibble = n]
      ELSE HeaderByte([r EXCEPT !.nibble = -1], 16 * r.nibble + n)

\* The end of a hexadecimal header: CR LF, or LF alone.
Terminated(r, c) ==
  CASE IsFlow(c) -> r
    [] ~IsFlow(c) /\ r.at = "cr" /\ Low(c) = CR -> [r EXCEPT !.at = "lf"]
    [] ~IsFlow(c) /\ Low(c) = LF -> Accepted(r)
    [] OTHER -> Hunting(r)

\* What a symbol is to the header that is being read.
HeaderSymbol(r, symbol) ==
  IF symbol = Nothing THEN r
  ELSE IF symbol = Wrong \/ symbol > 255 THEN Hunting(r)
  ELSE IF r.style \in {ZHEX, ZVHEX} THEN rx_hex(r, symbol)
  ELSE HeaderByte(r, symbol)

\* The count of an Omen header is one byte, without quoting.
OmenCount(r, c) == IF IsFlow(Low(c)) THEN r ELSE Counted(r, Low(c) - 34)

\* rx_header, for one byte of the line.
rx_header(r, c) ==
  LET raised == rx_cursor_raw(r, c)
      d == Decoded(r, c, r.style \in Omen)
      counts == r.at = "count" /\ r.style \in Omen
  IN  CASE raised.event = "cancelled" -> raised
        [] raised.event # "cancelled" /\ r.at \in {"hunt", "pad", "pads"} -> Scanned(raised, c)
        [] raised.event # "cancelled" /\ r.at \in {"cr", "lf"} -> Terminated(raised, c)
        [] raised.event # "cancelled" /\ r.at = "style" ->
             IF d.symbol = Nothing THEN d.r ELSE Style(d.r, d.symbol % 128)
        [] raised.event # "cancelled" /\ counts -> OmenCount(raised, c)
        [] OTHER -> HeaderSymbol(d.r, d.symbol)
=============================================================================
