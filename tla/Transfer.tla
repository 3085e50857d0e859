------------------------------ MODULE Transfer ------------------------------
(***************************************************************************)
(* One file, from zmtx's ZFILE to zmrx's final ZRINIT, over a line that      *)
(* damages frames and delivers late: FileSender and FileReceiver composed.   *)
(***************************************************************************)
EXTENDS FileSender, FileReceiver

vars == <<toReceiver, toSender, faults, snd, rcv, disk>>

\* receive_file resumes a copy no longer than the file it is offered, and
\* truncates any other.
ASSUME TransferAssumption == Partial \subseteq 0 .. FileLen

\* The sender's main has just heard the ZRINIT that made contact; more of
\* them may be on their way, repeated by the receiver's timer.
Init ==
  /\ toReceiver = <<Header("ZFILE", 0)>>
  /\ \E n \in 0 .. 2 : toSender = [i \in 1 .. n |-> Header("ZRINIT", 0)]
  /\ faults = 0
  /\ SenderInit
  /\ ReceiverInit

\* Nothing is on its way, and neither program will send before a timer ends.
Silent ==
  /\ SenderWaits
  /\ toSender = << >> \/ snd.pc = "done"
  /\ toReceiver = << >>

\* A timer ends because nothing comes, or because what comes is late.
Expires == \/ Silent /\ UNCHANGED faults
           \/ ~Silent /\ Fault("late")

BySender == UNCHANGED <<faults, receiverVars>>
ByReceiver == UNCHANGED <<faults, snd>>

SenderNext ==
  \/ OfferWaits /\ BySender
  \/ OfferSkipped /\ BySender
  \/ OfferAccepted /\ BySender
  \/ OfferRefused /\ BySender
  \/ SendSubpacket /\ BySender
  \/ NothingHeard /\ BySender
  \/ Acknowledged /\ BySender
  \/ SynchronousAck /\ BySender
  \/ RepositionRequested /\ BySender
  \/ Refused /\ BySender
  \/ StreamEnded /\ BySender
  \/ Finished /\ BySender
  \/ FinishRepositioned /\ BySender
  \/ FinishAcknowledged /\ BySender
  \/ FinishEnded /\ BySender

ReceiverNext ==
  \/ Offered /\ ByReceiver
  \/ Invited /\ ByReceiver
  \/ Unexpected /\ ByReceiver
  \/ Closed /\ ByReceiver
  \/ Garbage /\ ByReceiver
  \/ Drained /\ ByReceiver
  \/ FrameOpened /\ ByReceiver
  \/ FrameMisplaced /\ ByReceiver
  \/ Completed /\ ByReceiver
  \/ EofMisplaced /\ ByReceiver
  \/ OfferedAgain /\ ByReceiver
  \/ Abandoned /\ ByReceiver
  \/ Stored /\ ByReceiver
  \/ Invalid /\ ByReceiver

Timers ==
  \/ OfferTimeout /\ Expires /\ UNCHANGED receiverVars
  \/ StreamTimeout /\ Expires /\ UNCHANGED receiverVars
  \/ FinishTimeout /\ Expires /\ UNCHANGED receiverVars
  \/ SessionTimeout /\ Expires /\ UNCHANGED snd
  \/ HeaderTimeout /\ Expires /\ UNCHANGED snd
  \/ DataTimeout /\ Expires /\ UNCHANGED snd

\* A header on its way to the sender is damaged, and rx_header passes over it.
ReplyDamaged ==
  /\ toSender # << >>
  /\ snd.pc # "done"
  /\ Fault("damage")
  /\ toSender' = Tail(toSender)
  /\ UNCHANGED <<toReceiver, snd, receiverVars>>

Environment ==
  \/ ReplyDamaged
  \/ DamagedArrival /\ UNCHANGED snd
  \/ OfferTorn /\ UNCHANGED snd
  \/ CloseFails /\ UNCHANGED snd
  \/ StoreFails /\ UNCHANGED snd
  \/ ReadFails /\ UNCHANGED receiverVars

Terminated ==
  /\ snd.pc = "done" /\ rcv.pc = "closed" /\ toReceiver = << >>
  /\ UNCHANGED vars

Next == SenderNext \/ ReceiverNext \/ Timers \/ Environment \/ Terminated

Spec == Init /\ [][Next]_vars

\* Both programs run and their timers end; the environment owes nothing.
Fairness == WF_vars(SenderNext) /\ WF_vars(ReceiverNext) /\ WF_vars(Timers)

FairSpec == Spec /\ Fairness

----------------------------------------------------------------------------

TypeOK == LineTypeOK /\ SenderTypeOK /\ ReceiverTypeOK

\* Every block on the receiver's disk is the block of the sender's file at
\* that position, whatever was damaged, purged, resent or late.
Intact == \A i \in 1 .. Len(disk) : disk[i] = i - 1

\* A receiver that reports a file has all of it, and a sender that reports a
\* file has a receiver that reported it.
Complete ==
  /\ rcv.result = "succeeded" => Len(disk) = FileLen
  /\ snd.result = "succeeded" => rcv.result = "succeeded"

\* The sender never takes as acknowledged, and never skips over, anything the
\* receiver has not stored.
AcknowledgedIsStored ==
  snd.pc \in {"stream", "poll", "ack", "eof"} =>
    snd.pos <= rcv.pos /\ snd.acknowledged <= rcv.pos

\* The sender is never further ahead of the receiver's disk than the window
\* (-w) and the receiver's buffer (ZRINIT) allow.
WithinWindow ==
  snd.pc \in {"stream", "poll", "ack", "eof"} =>
    /\ window_enabled => snd.position - rcv.pos <= Window
    /\ RecvBuffer # 0 => snd.position - rcv.pos <= RecvBuffer

\* The transfer keeps the promise of Copy.
Promise == INSTANCE Copy WITH
  Length <- FileLen, copied <- rcv.pos, receiver <- rcv.result,
  sender <- snd.result

PromiseKept == Promise!CopySpec

\* Whatever happens, both programs stop.
Terminates == <>(snd.pc = "done" /\ rcv.pc = "closed")

\* One frame damaged or late does not stop the transfer of a wanted file.
Survives ==
  rcv.wanted /\ [](faults <= 1) => <>(snd.result = "succeeded" /\ rcv.result = "succeeded")

\* zmrx.c:296: "A mismatched ZEOF is ignored; a later timeout resynchronizes.":
\* zmrx asks again for its position, or is in a frame that goes on from there,
\* which it may have asked for before.
Resynchronizes ==
  (/\ rcv.pc = "header" /\ toReceiver # << >>
   /\ request.type = "ZEOF" /\ request.pos # rcv.pos)
  ~> \/ rcv.pc = "data"
     \/ \E i \in 1 .. Len(toSender) : toSender[i] = Header("ZRPOS", rcv.pos)
=============================================================================
