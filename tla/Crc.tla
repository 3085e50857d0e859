-------------------------------- MODULE Crc --------------------------------
(***************************************************************************)
(* The two checks of the protocol (crctab.c).  A CRC16 is <<high, low>>, a     *)
(* CRC32 is its four bytes, the lowest first: the order in which each goes on  *)
(* the line.  Every table of the program is linear over exclusive or, so it is *)
(* given by its entries at the powers of two.                                 *)
(***************************************************************************)
LOCAL INSTANCE Integers
LOCAL INSTANCE Sequences

\* op over the sequence s from start on.  (FoldLeft, for hundreds of bytes.)
Along(op(_, _), start, s) ==
  LET upto[i \in 0 .. Len(s)] == IF i = 0 THEN start ELSE op(upto[i - 1], s[i])
  IN  upto[Len(s)]

\* The bit of a byte whose weight is w.
Bit(n, w) == (n \div w) % 2

Weight == <<1, 2, 4, 8, 16, 32, 64, 128>>

Total(x) == x[1] + x[2] + x[3] + x[4] + x[5] + x[6] + x[7] + x[8]

\* Bit by bit.
XorTable ==
  [a \in 0 .. 255 |-> [b \in 0 .. 255 |->
    Total([i \in 1 .. 8 |-> Weight[i] * ((Bit(a, Weight[i]) + Bit(b, Weight[i])) % 2)])]]

\* a ^ b for two bytes.
Xor(a, b) == XorTable[a][b]

XorAll(a, b) == [i \in DOMAIN a |-> Xor(a[i], b[i])]

\* The table whose entry at 2^(i - 1) is powers[i].
Table(powers) ==
  [n \in 0 .. 255 |->
    LET sum[i \in 0 .. 8] ==
          IF i = 0 THEN [j \in DOMAIN powers[1] |-> 0]
          ELSE XorAll(sum[i - 1], [j \in DOMAIN powers[i] |-> Bit(n, Weight[i]) * powers[i][j]])
    IN  sum[8]]

crc16tab ==
  Table(<< <<16, 33>>, <<32, 66>>, <<64, 132>>, <<129, 8>>,
           <<18, 49>>, <<36, 98>>, <<72, 196>>, <<145, 136>> >>)

crc32tab ==
  Table(<< <<150, 48, 7, 119>>, <<44, 97, 14, 238>>, <<25, 196, 109, 7>>, <<50, 136, 219, 14>>,
           <<100, 16, 183, 29>>, <<200, 32, 110, 59>>, <<144, 65, 220, 118>>, <<32, 131, 184, 237>> >>)

crc16_update(crc, byte) ==
  LET t == crc16tab[crc[1]] IN <<Xor(t[1], crc[2]), Xor(t[2], byte)>>

crc32_byte_update(crc, byte) ==
  LET t == crc32tab[Xor(crc[1], byte)]
  IN  <<Xor(t[1], crc[2]), Xor(t[2], crc[3]), Xor(t[3], crc[4]), t[4]>>

\* Each table carries the one before it through one more zero byte.
NextSlice(table) == [n \in 0 .. 255 |-> crc32_byte_update(table[n], 0)]

\* crc32tab, crc32_slice_0 ... crc32_slice_6
crc32_tables ==
  LET next(tables, i) == Append(tables, NextSlice(tables[i])) IN Along(next, <<crc32tab>>, <<1, 2, 3, 4, 5, 6, 7>>)

\* Mutant of crc32_slices: two tables change places.
crc32_slices_swapped(crc, d) ==
  LET table == <<1, 2, 4, 3, 5, 6, 7, 8>>
      looked(sum, i) == XorAll(sum, crc32_tables[table[9 - i]][IF i <= 4 THEN Xor(crc[i], d[i]) ELSE d[i]])
  IN  Along(looked, <<0, 0, 0, 0>>, <<1, 2, 3, 4, 5, 6, 7, 8>>)

\* Eight bytes at a time.
crc32_slices(crc, d) ==
  LET looked(sum, i) == XorAll(sum, crc32_tables[9 - i][IF i <= 4 THEN Xor(crc[i], d[i]) ELSE d[i]])
  IN  Along(looked, <<0, 0, 0, 0>>, <<1, 2, 3, 4, 5, 6, 7, 8>>)

crc32_update(crc, data) ==
  LET eights == Len(data) \div 8
      sliced[k \in 0 .. eights] ==
        IF k = 0 THEN crc ELSE crc32_slices(sliced[k - 1], SubSeq(data, 8 * k - 7, 8 * k))
  IN  Along(crc32_byte_update, sliced[eights], SubSeq(data, 8 * eights + 1, Len(data)))

\* The checks as they are sent: CRC16 is flushed by two zeros, CRC32 inverted.
Crc16(data) == Along(crc16_update, <<0, 0>>, data \o <<0, 0>>)
Crc32Start == <<255, 255, 255, 255>>
Inverted(crc) == [i \in 1 .. 4 |-> 255 - crc[i]]
=============================================================================
