----------------------------- MODULE FileSender -----------------------------
(***************************************************************************)
(* zmtx sending one file: send_file() with the streaming loop send_from()   *)
(* it calls (zmtx.c).  Positions are counted in blocks of the file.         *)
(*                                                                         *)
(* snd.pc says where the program waits or works:                            *)
(*   "offer"   in the ZFILE loop, waiting for the receiver's decision       *)
(*   "stream"  at the top of send_from's loop: waiting for room in the      *)
(*             window, or about to send a subpacket                         *)
(*   "poll"    after a subpacket, looking at what the receiver has sent     *)
(*   "ack"     after ZCRCW, waiting for the ZACK of that very position      *)
(*   "eof"     in the ZEOF loop, waiting for ZRINIT                         *)
(*   "done"    send_file returned; main has begun to close the session      *)
(* The other fields are the locals and statics of the code, by their names. *)
(***************************************************************************)
EXTENDS Line

CONSTANTS
  FileLen,       \* length of the file
  MinBlock,      \* the 128 bytes below which subpackets are not halved
  BlockLen,      \* ZBLOCKLEN, the size streaming starts from
  MaxBlock,      \* max_subpacket_size as the -k option selected it
  Window,        \* window_size (-w), 0 for none
  RecvBuffer,    \* receiver_buffer_size of ZRINIT, 0 for none
  NonStreaming,  \* opt_s
  CanFdx,        \* the receiver's ZF0_CANFDX
  CanOvio,       \* the receiver's ZF0_CANOVIO
  LineCap        \* bound: frames the line takes before tx_data blocks

VARIABLE snd

ASSUME SenderAssumption ==
  /\ FileLen \in Nat /\ MinBlock \in Nat \ {0} /\ BlockLen \in Nat \ {0}
  /\ MaxBlock \in Nat \ {0} /\ Window \in Nat /\ RecvBuffer \in Nat
  /\ NonStreaming \in BOOLEAN /\ CanFdx \in BOOLEAN /\ CanOvio \in BOOLEAN
  /\ LineCap \in Nat \ {0}
  \* main refuses -w with -s, and a window below four subpackets
  /\ Window # 0 => ~NonStreaming /\ Window >= 4 * MaxBlock

SenderPc == {"offer", "stream", "poll", "ack", "eof", "done"}
SendResult == {"none", "succeeded", "skipped", "failed"}

SenderState ==
  [pc : SenderPc, result : SendResult, stale_zrinit : BOOLEAN,
   attempts : Nat, finish_attempts : Nat,
   pos : Nat, furthest_attempted : Nat, furthest_receiver : Nat,
   position : Nat, acknowledged : Nat, last_ack_request : Nat,
   segment_sent : Nat, frame_open : BOOLEAN,
   synchronize_recovery : BOOLEAN, stop_after_ack : BOOLEAN,
   subpacket_size : Nat \ {0}, max_subpacket_size : Nat \ {0}]

SenderTypeOK == snd \in SenderState

\* send_file has opened the file and sent its first ZFILE.
SenderInit ==
  snd = [pc |-> "offer", result |-> "none", stale_zrinit |-> FALSE,
         attempts |-> 0, finish_attempts |-> 0,
         pos |-> 0, furthest_attempted |-> 0, furthest_receiver |-> 0,
         position |-> 0, acknowledged |-> 0, last_ack_request |-> 0,
         segment_sent |-> 0, frame_open |-> FALSE,
         synchronize_recovery |-> FALSE, stop_after_ack |-> FALSE,
         subpacket_size |-> BlockLen, max_subpacket_size |-> MaxBlock]

Lesser(a, b) == IF a < b THEN a ELSE b
Greater(a, b) == IF a > b THEN a ELSE b

Transmit(frames) == toReceiver' = toReceiver \o frames

reply == Head(toSender)

\* rx_header returned: the frame leaves the line.
TakeReply(types) ==
  /\ toSender # << >>
  /\ reply.type \in types
  /\ toSender' = Tail(toSender)

Replies == {"ZRINIT", "ZRPOS", "ZACK", "ZNAK", "ZSKIP", "ZCOMPL", "ZFERR", "ZFIN"}

\* send_file returns r and main goes on to close the session.
Return(r) ==
  /\ snd' = [snd EXCEPT !.pc = "done", !.result = r]
  /\ Transmit(<<Header("ZFIN", 0)>>)

----------------------------------------------------------------------------
(* Subpacket sizes and retry accounting.                                   *)

increase_subpacket_size(s) ==
  [s EXCEPT !.subpacket_size =
     IF @ < s.max_subpacket_size THEN Lesser(2 * @, s.max_subpacket_size) ELSE @]

\* Mutant of reduce_subpacket_size: no smallest subpacket.
reduce_without_floor(s) ==
  [s EXCEPT
     !.max_subpacket_size =
        IF s.subpacket_size = @ /\ @ > BlockLen THEN @ \div 2 ELSE @,
     !.subpacket_size = @ \div 2]

reduce_subpacket_size(s) ==
  [s EXCEPT
     !.max_subpacket_size =
        IF s.subpacket_size = @ /\ @ > BlockLen THEN @ \div 2 ELSE @,
     !.subpacket_size = IF @ > MinBlock THEN @ \div 2 ELSE @]

\* account_recovery for a position the receiver requested: progress beyond
\* everything it requested before forgives the attempts made so far and starts
\* a new epoch of attempted progress.
AccountRequest(s, requested) ==
  IF requested > s.furthest_receiver
  THEN [s EXCEPT !.furthest_receiver = requested,
                 !.furthest_attempted = requested, !.attempts = 0]
  ELSE [s EXCEPT !.attempts = @ + 1]

\* account_recovery for the position the sender had reached when a ZNAK or a
\* timeout stopped it.
AccountAttempt(s) ==
  IF s.position > s.furthest_attempted
  THEN [s EXCEPT !.furthest_attempted = s.position, !.attempts = 0]
  ELSE [s EXCEPT !.attempts = @ + 1]

\* seek_sender(pos) and the start of send_from.
StreamFrom(s, synchronize) ==
  [s EXCEPT !.pc = "stream", !.position = s.pos, !.acknowledged = s.pos,
            !.last_ack_request = s.pos, !.segment_sent = 0,
            !.frame_open = FALSE, !.synchronize_recovery = synchronize,
            !.stop_after_ack = FALSE, !.finish_attempts = 0]

\* The head of send_file's transfer loop.
Resume(s) ==
  IF s.attempts < MaxRetries
  THEN snd' = StreamFrom(s, TRUE) /\ UNCHANGED toReceiver
  ELSE /\ snd' = [s EXCEPT !.pc = "done", !.result = "failed"]
       /\ Transmit(<<Header("ZFIN", 0)>>)

----------------------------------------------------------------------------
(* The ZFILE loop of send_file.                                            *)

\* Mutant of OfferAgain: attempts are not counted.
OfferAgainUncounted ==
  IF snd.attempts + 1 < MaxRetries
  THEN /\ snd' = [snd EXCEPT !.stale_zrinit = FALSE]
       /\ Transmit(<<Header("ZFILE", 0)>>)
  ELSE Return("failed")

\* One more turn of the loop, or send_file gives up.
OfferAgain ==
  IF snd.attempts + 1 < MaxRetries
  THEN /\ snd' = [snd EXCEPT !.attempts = @ + 1, !.stale_zrinit = FALSE]
       /\ Transmit(<<Header("ZFILE", 0)>>)
  ELSE Return("failed")

\* A ZACK, and the first ZRINIT of an attempt, which is an answer to an
\* earlier invitation, leave the loop waiting.
OfferWaits ==
  /\ snd.pc = "offer"
  /\ TakeReply({"ZACK", "ZRINIT"})
  /\ reply.type = "ZRINIT" => ~snd.stale_zrinit
  /\ snd' = [snd EXCEPT !.stale_zrinit = @ \/ reply.type = "ZRINIT"]
  /\ UNCHANGED toReceiver

OfferSkipped ==
  /\ snd.pc = "offer"
  /\ TakeReply({"ZSKIP"})
  /\ Return("skipped")

OfferAccepted ==
  /\ snd.pc = "offer"
  /\ TakeReply({"ZRPOS"})
  /\ snd' = StreamFrom([snd EXCEPT !.pos = reply.pos, !.attempts = 0,
                                   !.furthest_attempted = reply.pos,
                                   !.furthest_receiver = reply.pos], FALSE)
  /\ UNCHANGED toReceiver

OfferRefused ==
  /\ snd.pc = "offer"
  /\ TakeReply(Replies \ {"ZACK", "ZSKIP", "ZRPOS"})
  /\ reply.type = "ZRINIT" => snd.stale_zrinit
  /\ OfferAgain

OfferTimeout ==
  /\ snd.pc = "offer"
  /\ OfferAgain
  /\ UNCHANGED toSender

----------------------------------------------------------------------------
(* send_from: one turn of its loop sends one subpacket.                    *)

window_enabled == Window # 0 /\ CanFdx

wait_each_block == NonStreaming \/ ~CanOvio \/ (Window # 0 /\ ~CanFdx)

WindowFull == window_enabled /\ snd.position - snd.acknowledged >= Window

\* Mutant of read_size: nothing clips a subpacket.
read_size_unclipped == snd.subpacket_size

\* How much is read: a subpacket, clipped by what the window and the
\* receiver's buffer leave.
read_size ==
  LET window == IF window_enabled
                THEN Window - (snd.position - snd.acknowledged)
                ELSE snd.subpacket_size
      buffer == IF RecvBuffer # 0 THEN RecvBuffer - snd.segment_sent
                ELSE snd.subpacket_size
  IN  Lesser(snd.subpacket_size, Lesser(window, buffer))

\* How a subpacket of n blocks ends.
FrameEnd(n, end_of_file) ==
  LET waits == snd.synchronize_recovery \/ wait_each_block
      position == snd.position + n
      segment_full == RecvBuffer # 0 /\ snd.segment_sent + n = RecvBuffer
      ack_due == window_enabled /\ position - snd.last_ack_request >= Window \div 4
  IN  IF n = 0 \/ (end_of_file /\ ~waits) THEN "ZCRCE"
      ELSE IF waits \/ segment_full THEN "ZCRCW"
      ELSE IF ack_due THEN "ZCRCQ" ELSE "ZCRCG"

\* Mutant of Opening: the position of the header is set once, not per frame.
OpeningOnce == IF snd.frame_open THEN << >> ELSE <<Header("ZDATA", snd.pos)>>

\* The open ZDATA header, when the frame is still to be opened.
Opening == IF snd.frame_open THEN << >> ELSE <<Header("ZDATA", snd.position)>>

CanStream == snd.pc = "stream" /\ ~WindowFull

SendSubpacket ==
  /\ CanStream
  /\ Len(toReceiver) < LineCap
  /\ LET n == Lesser(read_size, FileLen - snd.position)
         end_of_file == n < read_size
         end == FrameEnd(n, end_of_file)
         position == snd.position + n
         subpacket == Opening \o <<Subpacket(snd.position, n, end)>>
     IN  /\ Transmit(IF end = "ZCRCE"
                     THEN subpacket \o <<Header("ZEOF", position)>>
                     ELSE subpacket)
         /\ snd' = [snd EXCEPT
              !.pc = IF end = "ZCRCE" THEN "eof"
                     ELSE IF end = "ZCRCW" THEN "ack" ELSE "poll",
              !.position = position,
              !.frame_open = TRUE,
              !.segment_sent = @ + n,
              !.last_ack_request = IF end = "ZCRCQ" THEN position ELSE @,
              !.stop_after_ack =
                 end_of_file /\ (snd.synchronize_recovery \/ wait_each_block)]
  /\ UNCHANGED toSender

\* The file cannot be read: ZFERR, and the file is given up.
ReadFails ==
  /\ CanStream
  /\ Fault("disk")
  /\ snd' = [snd EXCEPT !.pc = "done", !.result = "failed"]
  /\ Transmit(Opening \o <<Header("ZFERR", snd.position), Header("ZFIN", 0)>>)
  /\ UNCHANGED toSender

----------------------------------------------------------------------------
(* send_from: what the receiver says meanwhile.                            *)

\* rx_poll found nothing: the loop goes on with a larger subpacket.
NothingHeard ==
  /\ snd.pc = "poll"
  /\ snd' = [increase_subpacket_size(snd) EXCEPT !.pc = "stream"]
  /\ UNCHANGED <<toReceiver, toSender>>

\* send_from reads headers after a subpacket and while the window is full.
Listening == snd.pc = "poll" \/ (snd.pc = "stream" /\ WindowFull)

\* Recovery by the sender's own judgement: a ZNAK, an impossible ZACK or a
\* timeout make it start again from the position the receiver last asked for.
StartAgain == Resume(reduce_subpacket_size(AccountAttempt(snd)))

\* Mutant of Acknowledged: an acknowledgement opens the whole window.
AcknowledgedAll ==
  /\ Listening
  /\ TakeReply({"ZACK"})
  /\ reply.pos <= snd.position
  /\ snd' = [snd EXCEPT !.acknowledged = snd.position]
  /\ UNCHANGED toReceiver

\* accept_acknowledgement.
Acknowledged ==
  /\ Listening
  /\ TakeReply({"ZACK"})
  /\ reply.pos <= snd.position
  /\ snd' = [snd EXCEPT !.acknowledged = Greater(@, reply.pos)]
  /\ UNCHANGED toReceiver

\* After ZCRCW only the ZACK of the position just sent counts.
SynchronousAck ==
  /\ snd.pc = "ack"
  /\ TakeReply({"ZACK"})
  /\ IF reply.pos # snd.position
     THEN UNCHANGED <<snd, toReceiver>>
     ELSE LET acked == [increase_subpacket_size(snd) EXCEPT
                          !.acknowledged = snd.position,
                          !.last_ack_request = snd.position,
                          !.frame_open = FALSE, !.segment_sent = 0,
                          !.synchronize_recovery = FALSE]
          IN IF snd.stop_after_ack
             THEN /\ snd' = [acked EXCEPT !.pc = "eof"]
                  /\ Transmit(<<Header("ZEOF", snd.position)>>)
             ELSE /\ snd' = [acked EXCEPT !.pc = "stream"]
                  /\ UNCHANGED toReceiver

\* Any other header ends send_from, and send_file decides what it means.
Interrupting == Listening \/ snd.pc = "ack"

RepositionRequested ==
  /\ Interrupting
  /\ TakeReply({"ZRPOS"})
  /\ Resume(reduce_subpacket_size(
              [AccountRequest(snd, reply.pos) EXCEPT !.pos = reply.pos]))

\* A ZNAK, or a ZACK that accept_acknowledgement finds beyond what was sent.
Refused ==
  /\ TakeReply({"ZNAK", "ZACK"})
  /\ IF reply.type = "ZNAK" THEN Interrupting
     ELSE Listening /\ reply.pos > snd.position
  /\ StartAgain

StreamEnded ==
  /\ Interrupting
  /\ TakeReply(Replies \ {"ZACK", "ZRPOS", "ZNAK"})
  /\ Return(IF reply.type = "ZSKIP" THEN "skipped" ELSE "failed")

\* Ten seconds without the header the loop waits for.
StreamTimeout ==
  /\ snd.pc = "ack" \/ (snd.pc = "stream" /\ WindowFull)
  /\ StartAgain
  /\ UNCHANGED toSender

----------------------------------------------------------------------------
(* The ZEOF loop of send_file.                                             *)

FinishAgain ==
  IF snd.finish_attempts + 1 < MaxRetries
  THEN /\ snd' = [snd EXCEPT !.finish_attempts = @ + 1]
       /\ Transmit(<<Header("ZEOF", snd.position)>>)
  ELSE Return("failed")

\* Mutant of Finished: any answer to ZEOF is good enough.
FinishedByAny ==
  /\ snd.pc = "eof"
  /\ TakeReply({"ZRINIT", "ZRPOS"})
  /\ Return("succeeded")

Finished ==
  /\ snd.pc = "eof"
  /\ TakeReply({"ZRINIT"})
  /\ Return("succeeded")

\* The receiver still misses something: subpackets keep their size here.
FinishRepositioned ==
  /\ snd.pc = "eof"
  /\ TakeReply({"ZRPOS"})
  /\ Resume([AccountRequest(snd, reply.pos) EXCEPT !.pos = reply.pos])

\* Mutant of FinishAcknowledged: a ZACK is taken for the receiver's consent.
FinishAcknowledgedAsSuccess ==
  /\ snd.pc = "eof"
  /\ TakeReply({"ZACK"})
  /\ Return("succeeded")

FinishAcknowledged ==
  /\ snd.pc = "eof"
  /\ TakeReply({"ZACK"})
  /\ FinishAgain

FinishEnded ==
  /\ snd.pc = "eof"
  /\ TakeReply(Replies \ {"ZRINIT", "ZRPOS", "ZACK"})
  /\ Return(IF reply.type = "ZSKIP" THEN "skipped" ELSE "failed")

FinishTimeout ==
  /\ snd.pc = "eof"
  /\ FinishAgain
  /\ UNCHANGED toSender

----------------------------------------------------------------------------

\* The sender waits for the receiver, and would wait for ever without a timer.
SenderWaits ==
  \/ snd.pc \in {"offer", "ack", "eof", "done"}
  \/ snd.pc = "stream" /\ WindowFull
=============================================================================
