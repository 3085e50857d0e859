----------------------------- MODULE MCFraming -----------------------------
EXTENDS Framing

NoOptions == [m |-> FALSE, M |-> FALSE, iac |-> FALSE]
Plain == [m |-> FALSE, M |-> FALSE, pack7 |-> FALSE, ctl |-> FALSE, esc8 |-> FALSE, fcs32 |-> TRUE]
SevenBits == [Plain EXCEPT !.esc8 = TRUE]

\* Both sides of each encoding, as <<zmtx, zmrx>>: CRC32, MobyTurbo, run lengths, Pack-7.
Sides ==
  { <<NoOptions, Plain>>, <<[NoOptions EXCEPT !.m = TRUE], [Plain EXCEPT !.m = TRUE]>>,
    <<NoOptions, SevenBits>>, <<NoOptions, [SevenBits EXCEPT !.pack7 = TRUE]>> }
WithCrc16 == Sides \cup {<<NoOptions, [Plain EXCEPT !.fcs32 = FALSE]>>}

\* The same with every choice of ESCCTL and the escape of IAC that they know.
Escaping(sides) ==
  { x \in {<<[s[1] EXCEPT !.iac = iac], [s[2] EXCEPT !.ctl = ctl]>> :
             s \in sides, iac \in BOOLEAN, ctl \in BOOLEAN} : ~(x[1].iac /\ x[2].esc8) }

\* Every choice of MobyTurbo, its refusal, ESC8 and Pack-7.
Options ==
  { <<[m |-> m, M |-> M, iac |-> FALSE], o>> :
    m \in BOOLEAN, M \in BOOLEAN,
    o \in {r \in Receivers : (r.pack7 => r.esc8) /\ r.fcs32 /\ ~r.ctl} }

Transfer(sides, line, base, payloads, block, stray, fault) ==
  { [send |-> x[1], receive |-> x[2], line |-> line, base |-> base, data |-> d,
     block |-> block, stray |-> stray, fault |-> fault] : x \in sides, d \in payloads }

\* Positions: none, and bytes that act in every escape.
Zero == <<0, 0, 0, 0>>
Awkward == <<24, 64, 13, 255>>

\* One byte of every class.
Singles == {<<c>> : c \in {0, 14, 16, 17, 32, 33, 65, 104, 127, 128, 142, 144, 147, 152, 216}}

\* Bytes that could act together on the line, in one subpacket or in two.
Pairs == {13, 24, 64, 126, 141, 255} \X {13, 24, 64, 255}

\* Runs around the limits of two, of the space token and of a long run; the largest
\* and the smallest groups of Pack-7; a copy of the start of a header, and of CANs.
Runs == {Repeated(c, n) : c \in {32, 126}, n \in {3, 34, 35, 63, 64, 65}} \cup {Repeated(200, 2)}
Groups == {<<255, 255, 255, 255>>, <<0, 0, 0, 0, 255>>, <<255, 255, 255>>,
           <<42, 42, 24, 66>>, Repeated(24, 6)}

\* Their CRC32 and the end ZCRCE are <<13, 17, 141, 64>>, <<64, 13, ...>>,
\* <<..., 42, 42>>, <<24, 24, 24, ...>>; after the XON of a header and ESCCTL.
AwkwardChecks == {<<0, 53, 0>>, <<0, 167, 18>>, <<2, 5, 176>>, <<23, 197, 33>>}

\* What zmtx sends first of all: ZRQINIT.
zrqinit == <<42, 42, 24, 66>> \o Repeated(48, 14) \o <<13, 10, 17>>

MCCases ==
  UNION
  { Transfer(Escaping(WithCrc16), "clear", Awkward, Singles \cup Groups \cup AwkwardChecks,
             100, << >>, "none"),
    Transfer(Escaping(Sides), "clear", Zero, Pairs, 1, << >>, "none"),
    Transfer({s \in Sides : s[2].esc8}, "clear", Zero, Runs, 100, << >>, "none"),
    Transfer(Options, "clear", Zero, {<<17, 200>>}, 100, <<35, 193>>, "reply"),
    Transfer(Options, "flow", Zero, {<<17, 200>>}, 100, <<42, 65, 24>>, "none"),
    Transfer({s \in Options : ~s[2].esc8}, "flow", Zero, {<<17, 200>>}, 100, <<35, 193, 212>>,
             "damage"),
    Transfer({s \in Options : s[2].esc8}, "zero", Zero, {<<17, 200>>}, 100, << >>, "none"),
    Transfer({s \in Options : s[2].esc8}, "mark", Zero, {<<17, 200>>}, 100, << >>, "none"),
    Transfer(Escaping(WithCrc16), "clear", Zero, {<<24, 13>>, <<126, 126, 126>>}, 100, << >>,
             "noise"),
    Transfer(Sides, "clear", Awkward, {<<65, 24, 13>>, <<23, 197, 33>>}, 2, << >>, "damage"),
    Transfer(Sides, "clear", Zero, {<<24, 200>>}, 100, zrqinit, "abort") }
=============================================================================
