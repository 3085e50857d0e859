---------------------------- MODULE TransferInv ----------------------------
(***************************************************************************)
(* Why Transfer is safe: an inductive invariant, in named parts.            *)
(***************************************************************************)
EXTENDS Transfer

\* The sender has had the receiver's position and streams from it.
Streaming == snd.pc \in {"stream", "poll", "ack", "eof"}

\* b may follow a inside one ZDATA frame.
Follows(a, b) ==
  \/ a.type = "ZDATA" /\ a.pos = b.pos
  \/ a.type = "DATA" /\ a.end \in {"ZCRCG", "ZCRCQ"} /\ a.pos + a.n = b.pos

\* Every subpacket on the line continues what is before it on the line.
Chained ==
  \A i \in 1 .. Len(toReceiver) - 1 :
    toReceiver[i + 1].type = "DATA" => Follows(toReceiver[i], toReceiver[i + 1])

\* A receiver inside a frame finds the subpacket it is waiting for, or none.
HeadFits ==
  (rcv.pc = "data" /\ toReceiver # << >> /\ toReceiver[1].type = "DATA")
    => toReceiver[1].pos = rcv.pos

\* A frame the sender has open ends, so far, where the sender is: on the line,
\* or at the receiver when the line is empty.
FrameIsOpen == snd.pc \in {"stream", "poll"} /\ snd.frame_open

TailFits ==
  (FrameIsOpen /\ toReceiver # << >>) =>
    LET last == toReceiver[Len(toReceiver)]
    IN  /\ last.type = "DATA" /\ last.end \in {"ZCRCG", "ZCRCQ"}
        /\ last.pos + last.n = snd.position

ReceiverFits ==
  (FrameIsOpen /\ toReceiver = << >> /\ rcv.pc = "data") => rcv.pos = snd.position

\* Nothing on the line lies beyond the end of the file, and ZEOF is at it.
LineBounded ==
  \A i \in 1 .. Len(toReceiver) :
    LET f == toReceiver[i]
    IN  /\ f.type \in {"DATA", "ZDATA"} => f.pos + f.n <= FileLen
        /\ f.type = "ZEOF" => f.pos = FileLen

\* Nor is the sender beyond it; the window and the receiver's buffer hold.
SenderBounded ==
  /\ snd.pos <= FileLen /\ snd.position <= FileLen
  /\ snd.pc = "eof" => snd.position = FileLen
  /\ snd.pc = "ack" /\ snd.stop_after_ack => snd.position = FileLen
  /\ Streaming /\ window_enabled => snd.position - snd.acknowledged <= Window
  /\ Streaming /\ RecvBuffer # 0 => snd.segment_sent <= RecvBuffer
  /\ snd.pc \in {"stream", "poll"} /\ RecvBuffer # 0 => snd.segment_sent < RecvBuffer
  /\ Streaming => snd.position <= rcv.pos + snd.segment_sent
  /\ snd.pc # "done" => snd.result = "none"

\* What the receiver counts is what it has stored.
ReceiverBounded ==
  /\ rcv.pos <= FileLen
  /\ rcv.result # "failed" => rcv.pos = Len(disk)
  /\ rcv.pc \in {"header", "data"} => rcv.result = "none" /\ rcv.wanted
  /\ rcv.pc = "session" => rcv.result # "failed"
  /\ rcv.result = "succeeded" => rcv.pos = FileLen
  /\ rcv.result # "none" => rcv.wanted

\* Answers on their way name no position the receiver has not reached, and
\* ZSKIP only comes from a receiver that does not want the file.
AnswersTrue ==
  \A i \in 1 .. Len(toSender) :
    /\ toSender[i].type \in {"ZACK", "ZRPOS"} => toSender[i].pos <= rcv.pos
    /\ toSender[i].type = "ZSKIP" => ~rcv.wanted

\* Offers come before everything else, and none is left when the file is done.
OffersFirst ==
  /\ snd.pc = "offer" =>
       \A i \in 1 .. Len(toReceiver) : toReceiver[i].type = "ZFILE"
  /\ \A i \in 1 .. Len(toReceiver), j \in 1 .. Len(toReceiver) :
       i < j /\ toReceiver[j].type = "ZFILE" => toReceiver[i].type = "ZFILE"
  /\ rcv.result = "succeeded" =>
       /\ snd.pc # "offer"
       /\ \A i \in 1 .. Len(toReceiver) : toReceiver[i].type # "ZFILE"

\* Until the receiver has the file, no ZRINIT follows a ZRPOS: the only ones
\* are invitations that came before the offer was accepted.
InvitationsOld ==
  rcv.result # "succeeded" =>
    /\ \A i \in 1 .. Len(toSender), j \in 1 .. Len(toSender) :
         i < j /\ toSender[i].type = "ZRPOS" => toSender[j].type # "ZRINIT"
    /\ Streaming => \A i \in 1 .. Len(toSender) : toSender[i].type # "ZRINIT"
    /\ rcv.pc = "session" =>
         /\ ~Streaming
         /\ \A i \in 1 .. Len(toSender) : toSender[i].type # "ZRPOS"

\* The inductive invariant: with the type invariant and the properties it is
\* there for.
IInv ==
  /\ TypeOK
  /\ Chained /\ HeadFits /\ TailFits /\ ReceiverFits /\ LineBounded
  /\ SenderBounded /\ ReceiverBounded /\ AnswersTrue
  /\ OffersFirst /\ InvitationsOld
  /\ Intact /\ Complete /\ AcknowledgedIsStored
=============================================================================
