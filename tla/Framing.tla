------------------------------ MODULE Framing ------------------------------
(***************************************************************************)
(* One file between zmtx and zmrx, byte by byte: how the two agree on an        *)
(* encoding (ZRINIT, ZFILE and its probe of the line, the extended ZRPOS), and   *)
(* the headers and subpackets that cross a line which slips in flow control,     *)
(* strips bytes or bits, damages one byte, or loses an answer.                   *)
(*                                                                           *)
(* The retry limits, the window and the growth of subpackets are FileSender's     *)
(* and FileReceiver's; the invitation, other files and the end are Session's.     *)
(***************************************************************************)
EXTENDS Header

CONSTANTS
  Cases,     \* what may be sent, between whom and over which line; see Case
  MaxTries,  \* bound: how often a ZFILE or a ZEOF is sent
  MaxAsked   \* bound: how many ZRPOS a silent line brings about

\* The options of zmtx, those of zmrx (fcs32: another receiver may lack CRC32).
Senders == [m : BOOLEAN, M : BOOLEAN, iac : BOOLEAN]
Receivers == [m : BOOLEAN, M : BOOLEAN, pack7 : BOOLEAN, ctl : BOOLEAN, esc8 : BOOLEAN,
              fcs32 : BOOLEAN]

\* A line strips software flow control ("flow"), or the eighth bit ("zero", "mark").
Lines == {"clear", "flow", "zero", "mark"}
Faults == {"none", "noise", "damage", "abort", "reply"}

\* base is the position of data in the file, block the size of a subpacket, and
\* stray what the line carried before, and let through.
Case ==
  [send : Senders, receive : Receivers, line : Lines, base : Seq(Byte), data : Seq(Byte),
   block : Nat, stray : Seq(Byte), fault : Faults]

ASSUME FramingAssumption ==
  /\ \A k \in Cases : /\ k \in Case
                      /\ Len(k.base) = 4 /\ k.base[1] + Len(k.data) < 256
                      /\ k.block > 0 /\ Len(k.data) <= Capacity
                      /\ k.receive.pack7 => k.receive.esc8
                      /\ k.line \in {"zero", "mark"} => k.receive.esc8
                      /\ k.line = "flow" => \A i \in DOMAIN k.stray : ~IsFlow(k.stray[i])
  /\ MaxTries \in Nat \ {0} /\ MaxAsked \in Nat

VARIABLES
  case,     \* the case at hand
  tx,       \* zmtx
  wire,     \* what is on its way to zmrx
  replies,  \* the headers on their way to zmtx, as zmrx has them
  rx,       \* zmrx's struct zmodem, rx_header and rx_data
  file,     \* zmrx's file
  hit       \* what the line or the peer has done: "none", "hit", or "deaf"

vars == <<case, tx, wire, replies, rx, file, hit>>

\* What becomes of a byte, and what of the sent bytes arrives.
Passed(line, c) ==
  CASE line = "clear" -> <<c>>
    [] line = "flow" -> IF IsFlow(c) THEN << >> ELSE <<c>>
    [] line = "zero" -> <<Low(c)>>
    [] line = "mark" -> <<Low(c) + 128>>

Through(line, bytes) == FlattenSeq([i \in 1 .. Len(bytes) |-> Passed(line, bytes[i])])

\* Position k of the data, as the bytes of a header; only the lowest of them counts.
Position(k) == <<(case.base[1] + k) % 256, case.base[2], case.base[3], case.base[4]>>

----------------------------------------------------------------------------
(* zmtx.                                                                   *)

\* What zmrx announces (tx_zrinit) and zmtx takes over (parse_zrinit).
tx_zrinit(o) ==
  [vhdr |-> o.pack7 \/ (o.m /\ ~o.M), ctl |-> o.ctl, esc8 |-> o.esc8, fcs32 |-> o.fcs32]

Peer == tx_zrinit(case.receive)

offer_pack7 == Peer.esc8 /\ Peer.vhdr
offer_mobyturbo == case.send.m /\ ~case.send.M /\ ~Peer.esc8 /\ Peer.vhdr

\* The style that tx_header and tx_data choose.
Format(t) ==
  [style |-> IF Peer.esc8 THEN (IF t.pack7 THEN "pack7" ELSE "rle")
             ELSE IF t.moby THEN "moby" ELSE IF Peer.fcs32 THEN "bin32" ELSE "hex",
   ctl |-> Peer.ctl, iac |-> case.send.iac]

\* Mutant of select_zrpos_encoding: the header has to go on after the flags.
select_zrpos_encoding_long(header) ==
  LET flags == IF Len(header) > 8 THEN header[8] ELSE 0
  IN  [pack7 |-> (flags \div 2) % 2 = 1 /\ Peer.esc8 /\ Peer.vhdr,
       moby |-> flags % 2 = 1 /\ case.send.m /\ ~case.send.M /\ ~Peer.esc8 /\ Peer.vhdr]

select_zrpos_encoding(header) ==
  LET flags == IF Len(header) > 7 THEN header[8] ELSE 0
  IN  [pack7 |-> (flags \div 2) % 2 = 1 /\ Peer.esc8 /\ Peer.vhdr,
       moby |-> flags % 2 = 1 /\ case.send.m /\ ~case.send.M /\ ~Peer.esc8 /\ Peer.vhdr]

Info == <<97, 0, 49, 0>>    \* a name and a size

\* The probe, ZFILE and the file's information.
Offer(sent) ==
  LET f == Format([pack7 |-> FALSE, moby |-> FALSE])
      zf3 == IF offer_mobyturbo THEN 5 ELSE IF offer_pack7 THEN 1 ELSE 0
      probed == IF offer_mobyturbo THEN tx_mobyturbo_probe(sent) ELSE sent
  IN  tx_data(f, tx_header(f, probed, <<ZFILE, zf3, 0, 0, 0>>), Info, ZCRCW)

\* The subpacket at position k, and where the next one starts.
Block(k) == SubSeq(case.data, k + 1, IF k + case.block < Len(case.data) THEN k + case.block
                                     ELSE Len(case.data))
AtEnd(k) == Len(case.data) - k < case.block

ZdataHeader(f, sent, k) == tx_header(f, sent, <<ZDATA>> \o Position(k))
ZeofHeader(sent) == tx_hex_header(sent, <<ZEOF>> \o Position(Len(case.data)))

\* send_from a position: subpackets without pause, and the end of the file.
Streamed(f, sent, k) ==
  LET full == (Len(case.data) - k) \div case.block
      put(before, i) ==
        tx_data(f, before, Block(k + (i - 1) * case.block), IF i > full THEN ZCRCE ELSE ZCRCG)
  IN  ZeofHeader(Along(put, ZdataHeader(f, sent, k), [i \in 1 .. full + 1 |-> i]))

\* After a ZRPOS: one subpacket that has to be acknowledged.
Synchronized(f, sent, k) == tx_data(f, ZdataHeader(f, sent, k), Block(k), ZCRCW)

\* The sent bytes go on the line; t is what zmtx is after them.
Send(sent, t) ==
  /\ wire' = wire \o Through(case.line, sent.wire)
  /\ tx' = [t EXCEPT !.previous = sent.previous]

Unsent == [wire |-> << >>, previous |-> tx.previous]

SendFrom(t, k) == Send(Streamed(Format(t), Unsent, k), [t EXCEPT !.pc = "end"])

SendOne(t, k) ==
  Send(Synchronized(Format(t), Unsent, k),
       [t EXCEPT !.pc = "sync", !.at = k + Len(Block(k)), !.last = AtEnd(k)])

\* zmtx hears nothing in time, though an answer may be on its way.
Repeat ==
  /\ tx.pc \in {"offer", "end"} /\ wire = << >> /\ tx.tries < MaxTries
  /\ LET t == [tx EXCEPT !.tries = @ + 1]
     IN  Send(IF tx.pc = "offer" THEN Offer(Unsent) ELSE ZeofHeader(Unsent), t)
  /\ UNCHANGED <<case, replies, rx, file, hit>>

\* struct zmodem at the start of a program.
Started == [cancel |-> 0, moby |-> FALSE, is32 |-> FALSE, ctl |-> FALSE, encoded |-> "none",
         escape8 |-> "none", at |-> "hunt", style |-> 0, want |-> 0, nibble |-> -1,
         header |-> << >>, crc |-> << >>, probe |-> 0, passed |-> FALSE, mode |-> "plain",
         high |-> FALSE, rle |-> "normal", run |-> 0, value |-> <<0, 0, 0, 0>>, digits |-> 0,
         sum |-> Crc32Start, out |-> << >>, over |-> FALSE, ending |-> 0, event |-> "none"]

\* The header that zmtx reads from the bytes of a reply.
HeaderIn(bytes) ==
  LET read(r, c) == IF r.event = "none" THEN rx_header(r, c) ELSE r
      r == Along(read, Started, bytes)
  IN  IF r.event = "header" THEN r.header ELSE << >>

\* What zmtx makes of a header that zmrx sent.
Heard(header) ==
  HeaderIn(Through(case.line, tx_hex_header([wire |-> << >>, previous |-> 0], header).wire))

\* What zmtx does of it; an empty header is one that could not be read.
Answer(header) ==
  LET type == IF header = << >> THEN -1 ELSE header[1]
      k == (header[2] - case.base[1]) % 256
      chosen == select_zrpos_encoding(header)
      acknowledged == type = ZACK /\ tx.pc = "sync" /\ k = tx.at
  IN  \/ /\ \/ type = ZRPOS /\ (tx.pc = "offer" \/ k = Len(case.data))
            \/ acknowledged /\ ~tx.last
         /\ SendFrom(IF tx.pc # "offer" THEN tx
                     ELSE [tx EXCEPT !.pack7 = chosen.pack7, !.moby = chosen.moby], k)
      \/ type = ZRPOS /\ tx.pc # "offer" /\ k # Len(case.data) /\ SendOne(tx, k)
      \/ type = ZNAK /\ tx.pc = "offer" /\ Send(Offer(Unsent), tx)
      \/ /\ (acknowledged /\ tx.last) \/ (type = ZACK /\ tx.pc = "end")
         /\ Send(ZeofHeader(Unsent), [tx EXCEPT !.pc = "end"])
      \/ /\ type = -1 \/ (type = ZACK /\ tx.pc \in {"offer", "sync"} /\ ~acknowledged)
         /\ UNCHANGED <<tx, wire>>

TakeReply ==
  /\ replies # << >> /\ tx.pc # "gone"
  /\ replies' = Tail(replies)
  /\ \E header \in {Heard(Head(replies))} : Answer(header)
  /\ UNCHANGED <<case, rx, file, hit>>

----------------------------------------------------------------------------
(* zmrx.                                                                   *)

\* Mutant of zfile_moby: the probe is not asked for.
zfile_moby_unprobed(header, passed) ==
  LET o == case.receive
      zf3 == header[2]
  IN  o.m /\ ~o.M /\ ~o.esc8 /\ zf3 % 2 = 1 /\ (zf3 \div 4) % 2 = 1

\* receive_file: whether MobyTurbo will be asked for.
zfile_moby(header, passed) ==
  LET o == case.receive
      zf3 == header[2]
  IN  o.m /\ ~o.M /\ ~o.esc8 /\ zf3 % 2 = 1 /\ (zf3 \div 4) % 2 = 1 /\ passed

\* tx_zrpos: the first ZRPOS after a ZFILE says which encoding is wanted.
tx_zrpos(fl) ==
  LET pack7 == ~fl.extended /\ case.receive.pack7 /\ fl.vhdr
      moby == ~fl.extended /\ fl.moby
      flags == (IF moby THEN 1 ELSE 0) + (IF pack7 THEN 2 ELSE 0)
      header == <<ZRPOS>> \o Position(Len(fl.stored))
  IN  IF flags = 0 THEN header ELSE header \o <<0, 0, flags>>

\* A ZRPOS goes out; the receiver then looks for a header.
Ask(r, fl) ==
  LET header == tx_zrpos(fl)
  IN  /\ replies' = Append(replies, header)
      /\ file' = [fl EXCEPT !.pc = "data", !.asked = @ + 1,
                            !.extended = @ \/ Len(header) > HDRLEN]
      /\ rx' = HeaderStart(r)

\* rx_purge throws away what has arrived of the rest of the line.
Purge(rest) == \E n \in 0 .. Len(rest) : wire' = SubSeq(rest, n + 1, Len(rest))

InHeader == file.pc \in {"session", "data"}

\* The receiver, after one more byte.
Read(c) == IF InHeader THEN rx_header(rx, c) ELSE rx_data(rx, c)

\* Each of the following is what zmrx does of the byte that leaves r, before rest.
Continue(r, rest) ==
  /\ r.event = "none"
  /\ rx' = r /\ wire' = rest
  /\ UNCHANGED <<file, replies>>

Cancelled(r, rest) ==
  /\ r.event = "cancelled"
  /\ rx' = r /\ wire' = rest
  /\ file' = [file EXCEPT !.pc = "cancelled"]
  /\ UNCHANGED replies

\* receive_file: its first part, before the information is read.
ReceiveFile(r, rest) ==
  /\ r.event = "header" /\ file.pc = "session" /\ r.header[1] = ZFILE
  /\ file' = [file EXCEPT !.pc = "info", !.extended = FALSE, !.vhdr = r.header[2] % 2 = 1,
                          !.moby = zfile_moby(r.header, r.passed)]
  /\ rx' = DataStart(r) /\ wire' = rest
  /\ UNCHANGED replies

\* The session answers other headers with a ZRINIT, which sets the quoting back to
\* what was announced, or with a ZCOMPL; neither means anything to zmtx here.
Invited(r) == [r EXCEPT !.escape8 = IF case.receive.esc8 THEN "legacy" ELSE @]

OtherHeader(r, rest) ==
  /\ r.event = "header" /\ file.pc = "session" /\ r.header[1] # ZFILE
  /\ rx' = HeaderStart(IF r.header[1] \in {ZRQINIT, ZEOF} THEN Invited(r) ELSE r)
  /\ wire' = rest
  /\ UNCHANGED <<file, replies>>

\* The information: a name, its end, and an end of the whole.
ValidInfo(out) ==
  Len(out) >= 2 /\ Last(out) = 0 /\ \E i \in 2 .. Len(out) - 1 : out[i] = 0 /\ out[1] # 0

InfoArrives(r, rest) ==
  /\ r.event \in {"data", "invalid"} /\ file.pc = "info"
  /\ wire' = rest
  /\ IF r.event = "data" /\ r.ending = ZCRCW /\ ValidInfo(r.out)
     THEN Ask(r, file)
     ELSE /\ replies' = Append(replies, <<ZNAK, 0, 0, 0, 0>>)
          /\ file' = [file EXCEPT !.pc = "session"]
          /\ rx' = HeaderStart(r)

\* receive_file_data: ZDATA at the right position opens a frame.
OpenFrame(r, rest) ==
  /\ r.event = "header" /\ file.pc = "data" /\ r.header[1] = ZDATA
  /\ IF Tail(r.header) = Position(Len(file.stored))
     THEN /\ file' = [file EXCEPT !.pc = "block"]
          /\ rx' = DataStart(r) /\ wire' = rest
          /\ UNCHANGED replies
     ELSE Ask(r, file) /\ Purge(rest)

EndOfFile(r, rest) ==
  /\ r.event = "header" /\ file.pc = "data" /\ r.header[1] = ZEOF
  /\ file' = [file EXCEPT !.pc = IF Tail(r.header) = Position(Len(file.stored))
                                 THEN "done" ELSE "data"]
  /\ rx' = HeaderStart(r) /\ wire' = rest
  /\ UNCHANGED replies

\* zmtx has not heard the ZRPOS: its ZFILE comes again.
FileAgain(r, rest) ==
  /\ r.event = "header" /\ file.pc = "data" /\ r.header[1] = ZFILE
  /\ file' = [file EXCEPT !.pc = "again"]
  /\ rx' = DataStart(r) /\ wire' = rest
  /\ UNCHANGED replies

InfoAgain(r, rest) ==
  /\ r.event \in {"data", "invalid"} /\ file.pc = "again"
  /\ Ask(r, file) /\ wire' = rest

\* Mutant of BlockArrives: the one that ends a frame with ZCRCW is not acknowledged.
BlockArrives_silent(r, rest) ==
  /\ r.event = "data" /\ file.pc = "block"
  /\ LET stored == file.stored \o r.out
         open == r.ending \in {ZCRCG, ZCRCQ}
     IN  /\ file' = [file EXCEPT !.stored = stored, !.pc = IF open THEN "block" ELSE "data"]
         /\ rx' = IF open THEN DataStart(r) ELSE HeaderStart(r)
         /\ replies' = IF r.ending = ZCRCQ
                       THEN Append(replies, <<ZACK>> \o Position(Len(stored))) ELSE replies
  /\ wire' = rest

\* A subpacket is written; one that asks for it is acknowledged.
BlockArrives(r, rest) ==
  /\ r.event = "data" /\ file.pc = "block"
  /\ LET stored == file.stored \o r.out
         open == r.ending \in {ZCRCG, ZCRCQ}
     IN  /\ file' = [file EXCEPT !.stored = stored, !.pc = IF open THEN "block" ELSE "data"]
         /\ rx' = IF open THEN DataStart(r) ELSE HeaderStart(r)
         /\ replies' = IF r.ending \in {ZCRCQ, ZCRCW}
                       THEN Append(replies, <<ZACK>> \o Position(Len(stored))) ELSE replies
  /\ wire' = rest

BlockRefused(r, rest) ==
  /\ r.event = "invalid" /\ file.pc = "block"
  /\ Ask(r, file) /\ Purge(rest)

Receive(r, rest) ==
  \/ Continue(r, rest) \/ Cancelled(r, rest) \/ ReceiveFile(r, rest) \/ OtherHeader(r, rest)
  \/ InfoArrives(r, rest) \/ OpenFrame(r, rest) \/ EndOfFile(r, rest)
  \/ FileAgain(r, rest) \/ InfoAgain(r, rest) \/ BlockArrives(r, rest) \/ BlockRefused(r, rest)

Over == file.pc \in {"done", "cancelled"}

ReceiveByte ==
  /\ ~Over /\ wire # << >>
  /\ \E r \in {Read(Head(wire))} : Receive(r, Tail(wire))
  /\ UNCHANGED <<case, tx, hit>>

Quiet == wire = << >> /\ replies = << >>

\* zmrx hears nothing in time: it asks again, or in the session invites again.
Timeout ==
  /\ ~Over /\ Quiet /\ tx.pc # "gone" /\ file.asked < MaxAsked
  /\ IF file.pc \in {"session", "info"}
     THEN /\ rx' = HeaderStart(Invited(rx))
          /\ file' = [file EXCEPT !.pc = "session"]
          /\ UNCHANGED replies
     ELSE Ask(rx, file)
  /\ UNCHANGED <<case, tx, wire, hit>>

----------------------------------------------------------------------------
(* The line.                                                               *)

Strike(fault) == case.fault = fault /\ hit = "none" /\ ~Over

\* A byte of flow control slips in; MobyTurbo is for lines that never do it, and
\* nothing of it is allowed for inside the start of a header.
FlowControl ==
  /\ Strike("noise") /\ wire # << >> /\ ~tx.moby /\ rx.at \notin {"pad", "pads"}
  /\ \E c \in {XON, XOFF} : wire' = <<c>> \o wire
  /\ hit' = "hit"
  /\ UNCHANGED <<case, tx, replies, rx, file>>

\* What becomes of a byte.
Damaged(c) == {<< >>, <<Toggled(c)>>, <<IF c % 2 = 0 THEN c + 1 ELSE c - 1>>,
               <<(c + 128) % 256>>, <<ZDLE>>, <<ZPAD>>, <<c, XON>>} \ {<<c>>}

Damage ==
  /\ Strike("damage") /\ wire # << >>
  /\ \E bytes \in Damaged(Head(wire)) : wire' = bytes \o Tail(wire)
  /\ hit' = "hit"
  /\ UNCHANGED <<case, tx, replies, rx, file>>

\* The peer gives up.  Inside seven-bit data, and on a line taken for transparent,
\* its CANs are not what they seem.
Abort ==
  /\ Strike("abort") /\ wire # << >>
  /\ wire' = Through(case.line, Repeated(CAN, 5))
  /\ tx' = [tx EXCEPT !.pc = "gone"]
  /\ hit' = IF rx.moby \/ (~InHeader /\ rx.encoded # "none") THEN "deaf" ELSE "hit"
  /\ UNCHANGED <<case, replies, rx, file>>

LoseReply ==
  /\ Strike("reply") /\ replies # << >>
  /\ replies' = Tail(replies) /\ hit' = "hit"
  /\ UNCHANGED <<case, tx, wire, rx, file>>

----------------------------------------------------------------------------
Init ==
  /\ case \in Cases
  /\ LET new == [pc |-> "offer", pack7 |-> FALSE, moby |-> FALSE, tries |-> 1,
                 at |-> 0, last |-> FALSE, previous |-> 0]
         sent == Offer([wire |-> << >>, previous |-> -1])
     IN  /\ tx = [new EXCEPT !.previous = sent.previous]
         /\ wire = case.stray \o Through(case.line, sent.wire)
  /\ replies = << >>
  /\ rx = [Started EXCEPT !.ctl = case.receive.ctl,
                       !.escape8 = IF case.receive.esc8 THEN "legacy" ELSE "none"]
  /\ file = [pc |-> "session", stored |-> << >>, extended |-> FALSE, moby |-> FALSE,
             vhdr |-> FALSE, asked |-> 0]
  /\ hit = "none"

Next ==
  \/ Repeat \/ TakeReply \/ ReceiveByte \/ Timeout
  \/ FlowControl \/ Damage \/ Abort \/ LoseReply

Spec == Init /\ [][Next]_vars

TypeOK ==
  /\ case \in Case
  /\ tx \in [pc : {"offer", "sync", "end", "gone"}, pack7 : BOOLEAN, moby : BOOLEAN,
             tries : 1 .. MaxTries, at : Nat, last : BOOLEAN,
             previous : 0 .. 127]
  /\ wire \in Seq(Byte) /\ replies \in Seq(Seq(Byte)) /\ rx \in Receiver
  /\ file \in [pc : {"session", "info", "data", "block", "again", "done", "cancelled"},
               stored : Seq(Byte), extended : BOOLEAN, moby : BOOLEAN, vhdr : BOOLEAN,
               asked : Nat]
  /\ hit \in {"none", "hit", "deaf"}

----------------------------------------------------------------------------
(* Properties.                                                             *)

\* What zmrx stores is what zmtx sent, whatever one byte of the line turns into, and
\* a file is complete when it ends (the checks of headers and subpackets).  CRC16
\* alone cannot promise that: it is zero again after a check, so that the loss of
\* the ZDLE that ends a subpacket joins it, its end and its check to the next one.
Intact ==
  case.receive.fcs32 \/ hit = "none" =>
    /\ IsPrefix(file.stored, case.data)
    /\ file.pc = "done" => file.stored = case.data

\* Whatever the bytes, the options and the line that was announced, a transfer
\* nothing goes wrong with is not interrupted: one ZRPOS for each ZFILE, no abort,
\* and the file is there when the line falls silent (tx_data, rx_data, rx_header).
Transparent ==
  case.fault = "noise" \/ hit = "none" =>
    /\ file.asked <= tx.tries /\ file.pc # "cancelled"
    /\ Quiet => file.pc = "done"

\* What must not cross the line does not: flow control or a DLE, a high bit once
\* ESC8 was asked for or else an at-sign before a return, an IAC or a control
\* character where their escape was asked for.  The XON of a hexadecimal header and of ZCRCW
\* ends what is sent at once (initialize_tx_classes, omen_encode_byte).
SafeOnLine ==
  case.line = "clear" /\ hit = "none" /\ case.stray = << >> /\ ~case.send.m =>
    \A i \in 2 .. Len(wire) :
      LET c == wire[i]
      IN  /\ IsFlow(c) => c = XON /\ (wire[i - 1] = LF \/ i = Len(wire) \/ wire[i + 1] = ZPAD)
          /\ c # DLE
          /\ Peer.esc8 => c < 128
          /\ Low(c) = CR /\ Low(wire[i - 1]) = AT => Peer.esc8
          /\ case.send.iac => c # IAC
          /\ Peer.ctl /\ IsControl(c) => c \in {ZDLE, SO, CR, LF, XON}

\* A peer that gives up between any two bytes is heard, in headers and between them
\* too: five CANs end the session (rx_cursor_raw, rx_cursor_slow).
AbortHeard ==
  tx.pc = "gone" /\ hit = "hit" /\ wire = << >> /\ case.line # "mark" => Over

\* Both sides asked for MobyTurbo, neither refused it, and the line lets all through.
Willing ==
  LET s == case.send
      o == case.receive
  IN  s.m /\ ~s.M /\ o.m /\ ~o.M /\ ~o.esc8 /\ case.line = "clear"

\* zmtx uses MobyTurbo only where both sides asked for it, neither refused it and the
\* line is transparent, and Pack-7 only where the peer asked for it, whatever becomes
\* of the probe, of ZFILE and of the answer on their way (tx_zrinit, ZFILE's extended
\* options, zfile_moby, tx_zrpos, select_zrpos_encoding).
Consented == (tx.moby => Willing) /\ (tx.pack7 => case.receive.pack7)

\* Where nothing goes wrong, the best encoding both sides want is the one in use: the
\* probe is recognised after whatever the line carried before, and the first ZRPOS
\* brings the wish across (rx_header's probe, tx_zrpos, select_zrpos_encoding).
Preferred ==
  tx.pc \in {"sync", "end"} /\ hit = "none" /\ tx.tries = 1 =>
    tx.moby = Willing /\ tx.pack7 = case.receive.pack7

\* One damaged byte costs little, whatever the purges throw away: at most one more
\* ZFILE until the receiver asks for data, and few requests until it has them
\* (receive_file, receive_file_data, the resynchronisation of rx_header).
SoonRecovers ==
  /\ tx.tries = 2 /\ tx.pc # "gone" /\ Quiet => file.pc \notin {"session", "info"}
  /\ file.asked <= 3 * tx.tries

\* The sum over eight bytes at a time is the sum over one at a time, for what the line
\* carries at any moment (crc32_update and its tables).
SlicesAgree ==
  rx.at = "hunt" =>
    LET sent == SubSeq(wire, 1, IF Len(wire) < 29 THEN Len(wire) ELSE 29)
    IN  crc32_update(Crc32Start, sent) = Along(crc32_byte_update, Crc32Start, sent)
=============================================================================
