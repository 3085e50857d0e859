---------------------------- MODULE FileReceiver ----------------------------
(***************************************************************************)
(* zmrx receiving one file: main's session loop, receive_file() and         *)
(* receive_file_data() (zmrx.c).                                            *)
(*                                                                         *)
(* rcv.pc says where the program is:                                        *)
(*   "session"  in the inner loop of main, waiting for the next request     *)
(*   "header"   in receive_file_data, waiting for ZDATA or ZEOF             *)
(*   "data"     in receive_file_data, inside a ZDATA frame                  *)
(*   "closed"   the session loop ended; main has sent ZFIN                  *)
(* disk is the file on the receiver's disk: the positions, in the sender's  *)
(* file, of the blocks it holds.                                            *)
(***************************************************************************)
EXTENDS Line

CONSTANTS
  Partial   \* the lengths an earlier partial copy may have

VARIABLES rcv, disk

receiverVars == <<rcv, disk>>

ASSUME ReceiverAssumption == Partial \subseteq Nat

ReceiverState ==
  [pc : {"session", "header", "data", "closed"},
   result : {"none", "succeeded", "failed"}, wanted : BOOLEAN,
   pos : Nat, errors : Nat, attempts : Nat]

ReceiverTypeOK ==
  /\ rcv \in ReceiverState
  /\ disk \in Seq(Nat)

\* The n blocks of the file from position p.
Blocks(p, n) == [i \in 1 .. n |-> p + i - 1]

\* Contact has been made: the session loop waits for a ZFILE.  The file may
\* be there in part, for crash recovery to resume.  The file policy of
\* receive_file wants it or not.
ReceiverInit ==
  /\ \E n \in Partial : disk = Blocks(0, n)
  /\ \E wanted \in BOOLEAN :
       rcv = [pc |-> "session", result |-> "none", wanted |-> wanted,
              pos |-> Len(disk), errors |-> 0, attempts |-> 0]

Answer(frames) == toSender' = toSender \o frames

request == Head(toReceiver)

\* rx_header or rx_data returned: the frame leaves the line.
TakeRequest(types) ==
  /\ toReceiver # << >>
  /\ request.type \in types
  /\ toReceiver' = Tail(toReceiver)

\* receive_file returned RECEIVE_FAILED and main left the session loop:
\* ZFERR, unless the sender sent it or it was sent already, then ZFIN.
Fail(zferr) ==
  /\ rcv' = [rcv EXCEPT !.pc = "closed", !.result = "failed"]
  /\ Answer(zferr \o <<Header("ZFIN", 0)>>)

zferr0 == <<Header("ZFERR", 0)>>

----------------------------------------------------------------------------
(* The session loop of main.                                               *)

\* A ZFILE: receive_file reads the information and either skips the file or
\* opens it, appending to what is there, and asks for the rest.
Offered ==
  /\ rcv.pc = "session"
  /\ TakeRequest({"ZFILE"})
  /\ IF rcv.wanted
     THEN /\ rcv' = [rcv EXCEPT !.pc = "header", !.pos = Len(disk),
                                !.errors = 0, !.attempts = 0]
          /\ Answer(<<Header("ZRPOS", Len(disk))>>)
     ELSE /\ rcv' = [rcv EXCEPT !.attempts = 0]
          /\ Answer(<<Header("ZSKIP", 0)>>)
  /\ UNCHANGED disk

\* The ZFILE header arrived and its information did not: a ZNAK when it is
\* malformed, nothing when it stops short.
OfferTorn ==
  /\ rcv.pc = "session"
  /\ TakeRequest({"ZFILE"})
  /\ Fault("damage")
  /\ rcv' = [rcv EXCEPT !.attempts = 0]
  /\ \E short \in BOOLEAN :
       Answer(IF short THEN << >> ELSE <<Header("ZNAK", 0)>>)
  /\ UNCHANGED disk

\* The file was complete: the ZRINIT that said so is repeated.
Invited ==
  /\ rcv.pc = "session"
  /\ TakeRequest({"ZEOF"})
  /\ rcv' = [rcv EXCEPT !.attempts = 0]
  /\ Answer(<<Header("ZRINIT", 0)>>)
  /\ UNCHANGED disk

Unexpected ==
  /\ rcv.pc = "session"
  /\ TakeRequest({"ZDATA", "ZFERR"})
  /\ rcv' = [rcv EXCEPT !.attempts = 0]
  /\ Answer(<<Header("ZCOMPL", 0)>>)
  /\ UNCHANGED disk

Closed ==
  /\ rcv.pc = "session"
  /\ TakeRequest({"ZFIN"})
  /\ rcv' = [rcv EXCEPT !.pc = "closed"]
  /\ Answer(<<Header("ZFIN", 0)>>)
  /\ UNCHANGED disk

\* Seven seconds without a request: invite again, MaxRetries waits in all.
SessionTimeout ==
  /\ rcv.pc = "session"
  /\ IF rcv.attempts + 1 < MaxRetries
     THEN /\ rcv' = [rcv EXCEPT !.attempts = @ + 1]
          /\ Answer(<<Header("ZRINIT", 0)>>)
     ELSE /\ rcv' = [rcv EXCEPT !.pc = "closed"]
          /\ Answer(<<Header("ZFIN", 0)>>)
  /\ UNCHANGED <<toReceiver, disk>>

\* rx_header passes over subpackets that belong to no frame it is reading.
Garbage ==
  /\ rcv.pc \in {"session", "header"}
  /\ TakeRequest({"DATA"})
  /\ UNCHANGED <<rcv, disk, toSender>>

\* Waiting for the two bytes OO that end the session, main reads and drops
\* whatever else still comes.
Drained ==
  /\ rcv.pc = "closed"
  /\ toReceiver # << >>
  /\ toReceiver' = Tail(toReceiver)
  /\ UNCHANGED <<rcv, disk, toSender>>

----------------------------------------------------------------------------
(* receive_file_data: waiting for a header.                                *)

\* Mutant of AskAgain: the request is forgotten.
AskAgainSilently ==
  IF rcv.errors + 1 < MaxRetries
  THEN /\ rcv' = [rcv EXCEPT !.pc = "header", !.errors = @ + 1]
       /\ Answer(<< >>)
  ELSE Fail(zferr0)

\* Ask for the data from pos again, unless that was the last allowed time.
AskAgain ==
  IF rcv.errors + 1 < MaxRetries
  THEN /\ rcv' = [rcv EXCEPT !.pc = "header", !.errors = @ + 1]
       /\ Answer(<<Header("ZRPOS", rcv.pos)>>)
  ELSE Fail(zferr0)

\* Mutant of FrameOpened: the position of the frame is not looked at.
FrameOpenedAnywhere ==
  /\ rcv.pc = "header"
  /\ TakeRequest({"ZDATA"})
  /\ rcv' = [rcv EXCEPT !.pc = "data"]
  /\ UNCHANGED <<disk, toSender>>

FrameOpened ==
  /\ rcv.pc = "header"
  /\ TakeRequest({"ZDATA"})
  /\ request.pos = rcv.pos
  /\ rcv' = [rcv EXCEPT !.pc = "data"]
  /\ UNCHANGED <<disk, toSender>>

\* A frame for another position: purge and ask again.
FrameMisplaced ==
  /\ rcv.pc = "header"
  /\ toReceiver # << >>
  /\ request.type = "ZDATA"
  /\ request.pos # rcv.pos
  /\ toReceiver' \in Purged(Tail(toReceiver))
  /\ AskAgain
  /\ UNCHANGED disk

\* The end of the file, at the position reached: flush, close, set the time,
\* and invite the next file.
Completed ==
  /\ rcv.pc = "header"
  /\ TakeRequest({"ZEOF"})
  /\ request.pos = rcv.pos
  /\ rcv' = [rcv EXCEPT !.pc = "session", !.result = "succeeded",
                        !.attempts = 0]
  /\ Answer(<<Header("ZRINIT", 0)>>)
  /\ UNCHANGED disk

\* fflush or fclose fails.
CloseFails ==
  /\ rcv.pc = "header"
  /\ TakeRequest({"ZEOF"})
  /\ request.pos = rcv.pos
  /\ Fault("disk")
  /\ Fail(<<Header("ZFERR", rcv.pos)>>)
  /\ UNCHANGED disk

\* A ZEOF for another position is ignored.
EofMisplaced ==
  /\ rcv.pc = "header"
  /\ TakeRequest({"ZEOF"})
  /\ request.pos # rcv.pos
  /\ UNCHANGED <<rcv, disk, toSender>>

\* The file is offered again: the answer to the first offer was lost or late.
OfferedAgain ==
  /\ rcv.pc = "header"
  /\ TakeRequest({"ZFILE"})
  /\ Answer(<<Header("ZRPOS", rcv.pos)>>)
  /\ UNCHANGED <<rcv, disk>>

Abandoned ==
  /\ rcv.pc = "header"
  /\ TakeRequest({"ZFERR", "ZFIN"})
  /\ Fail(IF request.type = "ZFERR" THEN << >> ELSE zferr0)
  /\ UNCHANGED disk

HeaderTimeout ==
  /\ rcv.pc = "header"
  /\ AskAgain
  /\ UNCHANGED <<toReceiver, disk>>

----------------------------------------------------------------------------
(* receive_file_data: inside a ZDATA frame.                                *)

\* A good subpacket is written, the position advances, and ZCRCQ and ZCRCW
\* are acknowledged with it.
Stored ==
  /\ rcv.pc = "data"
  /\ TakeRequest({"DATA"})
  /\ LET pos == rcv.pos + request.n
     IN  /\ disk' = disk \o Blocks(request.pos, request.n)
         /\ rcv' = [rcv EXCEPT !.pos = pos, !.errors = 0,
                      !.pc = IF request.end \in {"ZCRCG", "ZCRCQ"}
                             THEN "data" ELSE "header"]
         /\ Answer(IF request.end \in {"ZCRCQ", "ZCRCW"}
                   THEN <<Header("ZACK", pos)>> ELSE << >>)

\* fwrite fails, having written some of the subpacket.
StoreFails ==
  /\ rcv.pc = "data"
  /\ TakeRequest({"DATA"})
  /\ Fault("disk")
  /\ request.n > 0
  /\ \E n \in 0 .. request.n - 1 : disk' = disk \o Blocks(request.pos, n)
  /\ Fail(<<Header("ZFERR", rcv.pos)>>)

\* What arrives is no good subpacket, for instance a header where a subpacket
\* should be: purge and ask again.
Invalid ==
  /\ rcv.pc = "data"
  /\ toReceiver # << >>
  /\ request.type # "DATA"
  /\ toReceiver' \in Purged(Tail(toReceiver))
  /\ AskAgain
  /\ UNCHANGED disk

DataTimeout ==
  /\ rcv.pc = "data"
  /\ toReceiver' \in Purged(toReceiver)
  /\ AskAgain
  /\ UNCHANGED disk

----------------------------------------------------------------------------

\* A frame arrives damaged: a header is passed over, a subpacket inside a
\* frame is invalid.
DamagedArrival ==
  /\ toReceiver # << >>
  /\ rcv.pc # "closed"
  /\ Fault("damage")
  /\ IF rcv.pc = "data"
     THEN toReceiver' \in Purged(Tail(toReceiver)) /\ AskAgain
     ELSE toReceiver' = Tail(toReceiver) /\ UNCHANGED <<rcv, toSender>>
  /\ UNCHANGED disk
=============================================================================
