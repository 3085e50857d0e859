------------------------------ MODULE Session ------------------------------
(***************************************************************************)
(* A whole session: main() of zmtx and zmrx, from the first ZRQINIT to OO,  *)
(* with the ZFILE and ZEOF loops of send_file() and the ZFILE handling of    *)
(* receive_file().  The data of a file, which Transfer models, is one        *)
(* subpacket here, so that positions are 0 and 1.  A data frame remembers    *)
(* the file it was read from, which its bytes on the line do not tell.       *)
(***************************************************************************)
EXTENDS Line, FiniteSets

CONSTANTS
  NFiles,     \* how many files zmtx was given
  Policies    \* which of them zmrx's file policy may want: a set of sets

ASSUME SessionAssumption ==
  NFiles \in Nat \ {0} /\ Policies \subseteq SUBSET (1 .. NFiles)

VARIABLES
  zmtx,      \* the sender
  zmrx,      \* the receiver
  outcome,   \* what zmtx counts each file as
  stored,    \* the file whose data is under each name at the receiver, or 0
  received   \* the names zmrx reports as received

vars == <<toReceiver, toSender, faults, zmtx, zmrx, outcome, stored, received>>

File == 1 .. NFiles

Frame(type, file, pos) == [type |-> type, file |-> file, pos |-> pos]

Plain(type) == Frame(type, 0, 0)

RequestType == {"ZRQINIT", "ZFILE", "DATA", "DATAW", "ZEOF", "ZFIN", "OO"}
ReplyType == {"ZRINIT", "ZRPOS", "ZACK", "ZNAK", "ZSKIP", "ZCOMPL", "ZFERR", "ZFIN"}

TypeOK ==
  /\ toReceiver \in Seq([type : RequestType, file : 0 .. NFiles, pos : 0 .. 1])
  /\ toSender \in Seq([type : ReplyType, file : {0}, pos : 0 .. 1])
  /\ faults \in 0 .. MaxFaults
  /\ zmtx \in [pc : {"contact", "offer", "ack", "eof", "fin", "exit"},
               file : 1 .. NFiles + 1, attempts : 0 .. MaxRetries,
               finish_attempts : 0 .. MaxRetries, stale_zrinit : BOOLEAN,
               pos : 0 .. 1, furthest_attempted : 0 .. 1,
               furthest_receiver : 0 .. 1, readable : 0 .. NFiles,
               failed : BOOLEAN]
  /\ zmrx \in [pc : {"contact", "session", "header", "over", "exit"},
               file : 0 .. NFiles, pos : 0 .. 1, errors : 0 .. MaxRetries,
               attempts : 0 .. MaxRetries, wanted : SUBSET File, failed : BOOLEAN]
  /\ outcome \in [File -> {"none", "sent", "skipped", "failed"}]
  /\ stored \in [File -> 0 .. NFiles]
  /\ received \subseteq File

Request(frames) == toReceiver' = toReceiver \o frames
Answer(frames) == toSender' = toSender \o frames

reply == Head(toSender)
request == Head(toReceiver)

TakeReply(types) ==
  /\ toSender # << >>
  /\ reply.type \in types
  /\ toSender' = Tail(toSender)

TakeRequest(types) ==
  /\ toReceiver # << >>
  /\ request.type \in types
  /\ toReceiver' = Tail(toReceiver)

\* zmtx has purged its input and sent its first ZRQINIT.  The ZRINIT zmrx sent
\* when it started may have been purged, or be still to come.  zmtx can open
\* all files, or the first readable of them; zmrx's file policy wants some.
Init ==
  /\ toReceiver = <<Plain("ZRQINIT")>>
  /\ toSender \in {<< >>, <<Plain("ZRINIT")>>}
  /\ faults = 0
  /\ \E readable \in 0 .. NFiles :
       zmtx = [pc |-> "contact", file |-> 1, attempts |-> 1,
               finish_attempts |-> 0, stale_zrinit |-> FALSE, pos |-> 0,
               furthest_attempted |-> 0, furthest_receiver |-> 0,
               readable |-> readable, failed |-> FALSE]
  /\ \E wanted \in Policies :
       zmrx = [pc |-> "contact", file |-> 0, pos |-> 0, errors |-> 0,
               attempts |-> 1, wanted |-> wanted, failed |-> FALSE]
  /\ outcome = [k \in File |-> "none"]
  /\ stored = [k \in File |-> 0]
  /\ received = {}

----------------------------------------------------------------------------
(* zmtx.                                                                   *)

\* main leaves its file loop and closes the session.
Close(s) ==
  /\ zmtx' = [s EXCEPT !.pc = "fin", !.attempts = 1]
  /\ Request(<<Plain("ZFIN")>>)

\* The next turn of main's file loop, the files so far counted as results:
\* another file is offered, or cannot be opened, or none is left.
NextFile(s, results) ==
  /\ outcome' = IF s.file \in s.readable + 1 .. NFiles
                THEN [results EXCEPT ![s.file] = "failed"] ELSE results
  /\ IF s.file <= s.readable
     THEN /\ zmtx' = [s EXCEPT !.pc = "offer", !.attempts = 0,
                               !.stale_zrinit = FALSE]
          /\ Request(<<Frame("ZFILE", s.file, 0)>>)
     ELSE Close([s EXCEPT !.failed = s.file <= NFiles])

\* send_file returned and main goes on with the next file, or stops.
Return(result) ==
  LET results == [outcome EXCEPT ![zmtx.file] = result]
  IN  IF result = "failed"
      THEN /\ Close([zmtx EXCEPT !.failed = TRUE])
           /\ outcome' = results
      ELSE NextFile([zmtx EXCEPT !.file = @ + 1], results)

\* Contact.  zmrx sends only ZRINIT before it has heard of a file, so that no
\* other header can cost an attempt here.
ContactAgain ==
  IF zmtx.attempts < MaxRetries
  THEN /\ zmtx' = [zmtx EXCEPT !.attempts = @ + 1]
       /\ Request(<<Plain("ZRQINIT")>>)
  ELSE /\ zmtx' = [zmtx EXCEPT !.pc = "exit", !.failed = TRUE]
       /\ UNCHANGED toReceiver

ContactMade ==
  /\ zmtx.pc = "contact"
  /\ TakeReply({"ZRINIT"})
  /\ NextFile(zmtx, outcome)

ContactTimeout ==
  /\ zmtx.pc = "contact"
  /\ ContactAgain
  /\ UNCHANGED <<toSender, outcome>>

\* The ZFILE loop.
OfferAgain ==
  IF zmtx.attempts + 1 < MaxRetries
  THEN /\ zmtx' = [zmtx EXCEPT !.attempts = @ + 1, !.stale_zrinit = FALSE]
       /\ Request(<<Frame("ZFILE", zmtx.file, 0)>>)
       /\ UNCHANGED outcome
  ELSE Return("failed")

OfferWaits ==
  /\ zmtx.pc = "offer"
  /\ TakeReply({"ZACK", "ZRINIT"})
  /\ reply.type = "ZRINIT" => ~zmtx.stale_zrinit
  /\ zmtx' = [zmtx EXCEPT !.stale_zrinit = @ \/ reply.type = "ZRINIT"]
  /\ UNCHANGED <<toReceiver, outcome>>

OfferRefused ==
  /\ zmtx.pc = "offer"
  /\ TakeReply(ReplyType \ {"ZACK", "ZSKIP", "ZRPOS"})
  /\ reply.type = "ZRINIT" => zmtx.stale_zrinit
  /\ OfferAgain

OfferTimeout ==
  /\ zmtx.pc = "offer"
  /\ OfferAgain
  /\ UNCHANGED toSender

OfferSkipped ==
  /\ zmtx.pc = "offer"
  /\ TakeReply({"ZSKIP"})
  /\ Return("skipped")

\* seek_sender and send_from: a subpacket that ends the file is followed by
\* ZEOF at once, but for recovery, where it ends with ZCRCW and is waited for.
SendFrom(s, synchronize) ==
  IF synchronize /\ s.pos = 0
  THEN /\ zmtx' = [s EXCEPT !.pc = "ack"]
       /\ Request(<<Frame("DATAW", s.file, s.pos)>>)
  ELSE /\ zmtx' = [s EXCEPT !.pc = "eof", !.finish_attempts = 0]
       /\ Request(<<Frame("DATA", s.file, s.pos), Frame("ZEOF", 0, 1)>>)

OfferAccepted ==
  /\ zmtx.pc = "offer"
  /\ TakeReply({"ZRPOS"})
  /\ SendFrom([zmtx EXCEPT !.pos = reply.pos, !.attempts = 0,
                           !.furthest_attempted = reply.pos,
                           !.furthest_receiver = reply.pos], FALSE)
  /\ UNCHANGED outcome

\* The head of send_file's transfer loop.
Resume(s) ==
  IF s.attempts < MaxRetries
  THEN SendFrom(s, TRUE) /\ UNCHANGED outcome
  ELSE Return("failed")

\* account_recovery for a ZRPOS, and for the end of the file reached before a
\* timeout.  (A ZNAK after ZCRCW and a ZACK after ZEOF, which Transfer has, do
\* not occur without a window: one that came would be read by no action.)
Reposition ==
  Resume(IF reply.pos > zmtx.furthest_receiver
         THEN [zmtx EXCEPT !.pos = reply.pos, !.furthest_receiver = reply.pos,
                           !.furthest_attempted = reply.pos, !.attempts = 0]
         ELSE [zmtx EXCEPT !.pos = reply.pos, !.attempts = @ + 1])

StartAgain ==
  Resume(IF 1 > zmtx.furthest_attempted
         THEN [zmtx EXCEPT !.furthest_attempted = 1, !.attempts = 0]
         ELSE [zmtx EXCEPT !.attempts = @ + 1])

DataAcknowledged ==
  /\ zmtx.pc = "ack"
  /\ TakeReply({"ZACK"})
  /\ IF reply.pos = 1
     THEN /\ zmtx' = [zmtx EXCEPT !.pc = "eof", !.finish_attempts = 0]
          /\ Request(<<Frame("ZEOF", 0, 1)>>)
     ELSE UNCHANGED <<zmtx, toReceiver>>
  /\ UNCHANGED outcome

DataTimeout ==
  /\ zmtx.pc = "ack"
  /\ StartAgain
  /\ UNCHANGED toSender

Repositioned ==
  /\ zmtx.pc \in {"ack", "eof"}
  /\ TakeReply({"ZRPOS"})
  /\ Reposition

\* Headers that end the file: all others after ZCRCW and, after ZEOF, all but
\* ZACK and the ZRINIT of success.
FileEnded ==
  /\ \/ zmtx.pc = "ack" /\ TakeReply(ReplyType \ {"ZACK", "ZRPOS", "ZNAK"})
     \/ zmtx.pc = "eof" /\ TakeReply(ReplyType \ {"ZRINIT", "ZRPOS", "ZACK"})
  /\ Return(IF reply.type = "ZSKIP" THEN "skipped" ELSE "failed")

\* Mutant of Finished: ZRPOS, like ZRINIT, ends the file.
FinishedByAny ==
  /\ zmtx.pc = "eof"
  /\ TakeReply({"ZRINIT", "ZRPOS"})
  /\ Return("sent")

Finished ==
  /\ zmtx.pc = "eof"
  /\ TakeReply({"ZRINIT"})
  /\ Return("sent")

FinishAgain ==
  IF zmtx.finish_attempts + 1 < MaxRetries
  THEN /\ zmtx' = [zmtx EXCEPT !.finish_attempts = @ + 1]
       /\ Request(<<Frame("ZEOF", 0, 1)>>)
       /\ UNCHANGED outcome
  ELSE Return("failed")

FinishTimeout ==
  /\ zmtx.pc = "eof"
  /\ FinishAgain
  /\ UNCHANGED toSender

\* Mutant of CloseAgain: attempts are not counted.
CloseAgainUncounted ==
  IF zmtx.attempts < MaxRetries
  THEN /\ UNCHANGED zmtx
       /\ Request(<<Plain("ZFIN")>>)
  ELSE /\ zmtx' = [zmtx EXCEPT !.pc = "exit", !.failed = TRUE]
       /\ UNCHANGED toReceiver

\* Mutant of CloseAgain: one attempt too many.
CloseAgainOnceMore ==
  IF zmtx.attempts <= MaxRetries
  THEN /\ zmtx' = [zmtx EXCEPT !.attempts = @ + 1]
       /\ Request(<<Plain("ZFIN")>>)
  ELSE /\ zmtx' = [zmtx EXCEPT !.pc = "exit", !.failed = TRUE]
       /\ UNCHANGED toReceiver

\* The session is closed: ZFIN until ZFIN is heard, then OO.
CloseAgain ==
  IF zmtx.attempts < MaxRetries
  THEN /\ zmtx' = [zmtx EXCEPT !.attempts = @ + 1]
       /\ Request(<<Plain("ZFIN")>>)
  ELSE /\ zmtx' = [zmtx EXCEPT !.pc = "exit", !.failed = TRUE]
       /\ UNCHANGED toReceiver

CloseHeard ==
  /\ zmtx.pc = "fin"
  /\ TakeReply({"ZFIN"})
  /\ zmtx' = [zmtx EXCEPT !.pc = "exit"]
  /\ Request(<<Plain("OO")>>)
  /\ UNCHANGED outcome

CloseRefused ==
  /\ zmtx.pc = "fin"
  /\ TakeReply(ReplyType \ {"ZFIN"})
  /\ CloseAgain
  /\ UNCHANGED outcome

CloseTimeout ==
  /\ zmtx.pc = "fin"
  /\ CloseAgain
  /\ UNCHANGED <<toSender, outcome>>

\* zmtx has exited, and what still arrives is read by nobody.
SenderGone ==
  /\ zmtx.pc = "exit"
  /\ TakeReply(ReplyType)
  /\ UNCHANGED <<toReceiver, zmtx, outcome>>

----------------------------------------------------------------------------
(* zmrx.                                                                   *)

\* main leaves the session loop: the error is answered, then ZFIN is sent and
\* OO waited for.
Leave(failed, error) ==
  /\ zmrx' = [zmrx EXCEPT !.pc = "over", !.failed = failed]
  /\ Answer(error \o <<Plain("ZFIN")>>)

\* The first header that is no ZRQINIT makes contact, and the session loop
\* handles it.
InSession == zmrx.pc \in {"contact", "session"}

Waiting == [zmrx EXCEPT !.pc = "session", !.attempts = 0]

\* ZRQINIT and ZEOF are answered with an invitation; before contact, ZRQINIT
\* costs an attempt.
Invite ==
  /\ InSession
  /\ TakeRequest({"ZRQINIT", "ZEOF"})
  /\ zmrx.pc = "contact" => request.type = "ZEOF"
  /\ zmrx' = Waiting
  /\ Answer(<<Plain("ZRINIT")>>)
  /\ UNCHANGED <<stored, received>>

InviteAgain ==
  IF zmrx.attempts < MaxRetries
  THEN /\ zmrx' = [zmrx EXCEPT !.attempts = @ + 1]
       /\ Answer(<<Plain("ZRINIT")>>)
  ELSE /\ zmrx' = [zmrx EXCEPT !.pc = "exit", !.failed = TRUE]
       /\ UNCHANGED toSender

ContactInvited ==
  /\ zmrx.pc = "contact"
  /\ TakeRequest({"ZRQINIT"})
  /\ InviteAgain
  /\ UNCHANGED <<stored, received>>

InviteTimeout ==
  /\ zmrx.pc = "contact"
  /\ InviteAgain
  /\ UNCHANGED <<toReceiver, stored, received>>

\* receive_file skips the file, or opens it: a copy already received has the
\* size and the time of the file offered, and is resumed at its end.
Offered ==
  /\ InSession
  /\ TakeRequest({"ZFILE"})
  /\ IF request.file \in zmrx.wanted
     THEN LET pos == IF request.file \in received THEN 1 ELSE 0
          IN  /\ zmrx' = [Waiting EXCEPT !.pc = "header", !.errors = 0,
                            !.file = request.file, !.pos = pos]
              /\ stored' = [stored EXCEPT
                              ![request.file] = IF pos = 0 THEN 0 ELSE @]
              /\ Answer(<<Frame("ZRPOS", 0, pos)>>)
     ELSE zmrx' = Waiting /\ Answer(<<Plain("ZSKIP")>>) /\ UNCHANGED stored
  /\ UNCHANGED received

\* The information of the file is malformed, or stops short.
OfferTorn ==
  /\ InSession
  /\ TakeRequest({"ZFILE"})
  /\ Fault("damage")
  /\ zmrx' = Waiting
  /\ \E short \in BOOLEAN :
       Answer(IF short THEN << >> ELSE <<Plain("ZNAK")>>)
  /\ UNCHANGED <<stored, received>>

Unexpected ==
  /\ InSession
  /\ TakeRequest({"DATA", "DATAW"})
  /\ zmrx' = Waiting
  /\ Answer(<<Plain("ZCOMPL")>>)
  /\ UNCHANGED <<stored, received>>

Closed ==
  /\ InSession
  /\ TakeRequest({"ZFIN"})
  /\ Leave(FALSE, << >>)
  /\ UNCHANGED <<stored, received>>

SessionTimeout ==
  /\ zmrx.pc = "session"
  /\ IF zmrx.attempts + 1 < MaxRetries
     THEN /\ zmrx' = [zmrx EXCEPT !.attempts = @ + 1]
          /\ Answer(<<Plain("ZRINIT")>>)
     ELSE Leave(TRUE, << >>)
  /\ UNCHANGED <<toReceiver, stored, received>>

\* receive_file_data.
AskAgain ==
  IF zmrx.errors + 1 < MaxRetries
  THEN /\ zmrx' = [zmrx EXCEPT !.errors = @ + 1]
       /\ Answer(<<Frame("ZRPOS", 0, zmrx.pos)>>)
  ELSE Leave(TRUE, <<Plain("ZFERR")>>)

Store ==
  /\ zmrx.pc = "header"
  /\ TakeRequest({"DATA", "DATAW"})
  /\ request.pos = zmrx.pos
  /\ zmrx' = [zmrx EXCEPT !.pos = 1, !.errors = 0]
  /\ stored' = [stored EXCEPT ![zmrx.file] = IF zmrx.pos = 0 THEN request.file ELSE @]
  /\ Answer(IF request.type = "DATAW" THEN <<Frame("ZACK", 0, 1)>> ELSE << >>)
  /\ UNCHANGED received

Misplaced ==
  /\ zmrx.pc = "header"
  /\ toReceiver # << >>
  /\ request.type \in {"DATA", "DATAW"}
  /\ request.pos # zmrx.pos
  /\ toReceiver' \in Purged(Tail(toReceiver))
  /\ AskAgain
  /\ UNCHANGED <<stored, received>>

\* Mutant of Completed: any ZEOF completes the file.
CompletedAnywhere ==
  /\ zmrx.pc = "header"
  /\ TakeRequest({"ZEOF"})
  /\ zmrx' = Waiting
  /\ received' = received \cup {zmrx.file}
  /\ Answer(<<Plain("ZRINIT")>>)
  /\ UNCHANGED stored

Completed ==
  /\ zmrx.pc = "header"
  /\ TakeRequest({"ZEOF"})
  /\ request.pos = zmrx.pos
  /\ zmrx' = Waiting
  /\ received' = received \cup {zmrx.file}
  /\ Answer(<<Plain("ZRINIT")>>)
  /\ UNCHANGED stored

EofIgnored ==
  /\ zmrx.pc = "header"
  /\ TakeRequest({"ZEOF"})
  /\ request.pos # zmrx.pos
  /\ UNCHANGED <<toSender, zmrx, stored, received>>

\* A ZFILE is taken for a repetition, whatever file it offers.
OfferedAgain ==
  /\ zmrx.pc = "header"
  /\ TakeRequest({"ZFILE"})
  /\ Answer(<<Frame("ZRPOS", 0, zmrx.pos)>>)
  /\ UNCHANGED <<zmrx, stored, received>>

Abandoned ==
  /\ zmrx.pc = "header"
  /\ TakeRequest({"ZRQINIT", "ZFIN"})
  /\ Leave(TRUE, <<Plain("ZFERR")>>)
  /\ UNCHANGED <<stored, received>>

\* stat or fopen fails for a file offered, or fwrite, fflush or fclose for the
\* file being received.
DiskFails ==
  /\ \/ InSession /\ TakeRequest({"ZFILE"})
     \/ /\ zmrx.pc = "header"
        /\ TakeRequest({"DATA", "DATAW", "ZEOF"})
        /\ request.pos = zmrx.pos
        /\ request.type = "ZEOF" \/ zmrx.pos = 0
  /\ Fault("disk")
  /\ Leave(TRUE, <<Plain("ZFERR")>>)
  /\ UNCHANGED <<stored, received>>

HeaderTimeout ==
  /\ zmrx.pc = "header"
  /\ AskAgain
  /\ UNCHANGED <<toReceiver, stored, received>>

\* The session is over once OO is heard, or nothing is for a second.
OverAndOut ==
  /\ zmrx.pc = "over"
  /\ TakeRequest({"OO"})
  /\ zmrx' = [zmrx EXCEPT !.pc = "exit"]
  /\ UNCHANGED <<toSender, stored, received>>

OverTimeout ==
  /\ zmrx.pc = "over"
  /\ zmrx' = [zmrx EXCEPT !.pc = "exit", !.failed = TRUE]
  /\ UNCHANGED <<toReceiver, toSender, stored, received>>

\* Bytes that no header or awaited O is found in, or that nobody reads.
Dropped ==
  /\ \/ InSession /\ TakeRequest({"OO"})
     \/ zmrx.pc = "header" /\ TakeRequest({"OO"})
     \/ zmrx.pc = "over" /\ TakeRequest(RequestType \ {"OO"})
     \/ zmrx.pc = "exit" /\ TakeRequest(RequestType)
  /\ UNCHANGED <<toSender, zmrx, stored, received>>

----------------------------------------------------------------------------
(* The session.                                                            *)

\* A damaged header is passed over; damaged data inside a frame is purged and
\* asked for again.
RequestDamaged ==
  /\ toReceiver # << >>
  /\ zmrx.pc # "exit"
  /\ Fault("damage")
  /\ \/ toReceiver' = Tail(toReceiver) /\ UNCHANGED <<zmrx, toSender>>
     \/ /\ zmrx.pc = "header" /\ request.type \in {"DATA", "DATAW"}
        /\ request.pos = zmrx.pos
        /\ toReceiver' \in Purged(Tail(toReceiver))
        /\ AskAgain
     \/ /\ zmrx.pc = "header" /\ request.type = "ZFILE"
        /\ toReceiver' = Tail(toReceiver)
        /\ Answer(<<Frame("ZRPOS", 0, zmrx.pos)>>)
        /\ UNCHANGED zmrx
  /\ UNCHANGED <<zmtx, outcome, stored, received>>

ReplyDamaged ==
  /\ toSender # << >>
  /\ zmtx.pc # "exit"
  /\ Fault("damage")
  /\ toSender' = Tail(toSender)
  /\ UNCHANGED <<toReceiver, zmtx, zmrx, outcome, stored, received>>

BySender == UNCHANGED <<faults, zmrx, stored, received>>
ByReceiver == UNCHANGED <<faults, zmtx, outcome>>

SenderNext ==
  \/ ContactMade /\ BySender
  \/ OfferWaits /\ BySender
  \/ OfferRefused /\ BySender
  \/ OfferSkipped /\ BySender
  \/ OfferAccepted /\ BySender
  \/ DataAcknowledged /\ BySender
  \/ Repositioned /\ BySender
  \/ FileEnded /\ BySender
  \/ Finished /\ BySender
  \/ CloseHeard /\ BySender
  \/ CloseRefused /\ BySender
  \/ SenderGone /\ BySender

ReceiverNext ==
  \/ ContactInvited /\ ByReceiver
  \/ Invite /\ ByReceiver
  \/ Offered /\ ByReceiver
  \/ Unexpected /\ ByReceiver
  \/ Closed /\ ByReceiver
  \/ Store /\ ByReceiver
  \/ Misplaced /\ ByReceiver
  \/ Completed /\ ByReceiver
  \/ EofIgnored /\ ByReceiver
  \/ OfferedAgain /\ ByReceiver
  \/ Abandoned /\ ByReceiver
  \/ OverAndOut /\ ByReceiver
  \/ Dropped /\ ByReceiver

\* Nothing is on its way to a program that still runs.
Silent ==
  /\ toSender = << >> \/ zmtx.pc = "exit"
  /\ toReceiver = << >> \/ zmrx.pc = "exit"

\* A timer ends because nothing comes, or because what comes is late.
Expires == \/ Silent /\ UNCHANGED faults
           \/ ~Silent /\ Fault("late")

SenderTimer ==
  \/ ContactTimeout
  \/ OfferTimeout
  \/ DataTimeout
  \/ FinishTimeout
  \/ CloseTimeout

ReceiverTimer ==
  \/ InviteTimeout
  \/ SessionTimeout
  \/ HeaderTimeout
  \/ OverTimeout

Timers ==
  \/ SenderTimer /\ Expires /\ UNCHANGED <<zmrx, stored, received>>
  \/ ReceiverTimer /\ Expires /\ UNCHANGED <<zmtx, outcome>>

Environment ==
  \/ RequestDamaged
  \/ ReplyDamaged
  \/ OfferTorn /\ UNCHANGED <<zmtx, outcome>>
  \/ DiskFails /\ UNCHANGED <<zmtx, outcome>>

Terminated ==
  /\ zmtx.pc = "exit" /\ zmrx.pc = "exit"
  /\ toSender = << >> /\ toReceiver = << >>
  /\ UNCHANGED vars

Next == SenderNext \/ ReceiverNext \/ Timers \/ Environment \/ Terminated

Spec == Init /\ [][Next]_vars

\* Both programs run and their timers end; the environment owes nothing.
Fairness == WF_vars(SenderNext) /\ WF_vars(ReceiverNext) /\ WF_vars(Timers)

FairSpec == Spec /\ Fairness

----------------------------------------------------------------------------

\* zmrx stores under each name nothing but the data of the file offered under
\* that name (send_file and receive_file each believe they speak of the same
\* file, which no header after ZFILE tells).
Unmixed == \A k \in File : stored[k] \in {0, k}

\* What zmtx counts as sent is what zmrx received; what it counts as skipped
\* zmrx did not want; and when zmtx exits with 0, zmrx has all it wanted.
ReportsTrue ==
  /\ \A k \in File :
       /\ outcome[k] = "sent" => k \in received /\ stored[k] = k
       /\ outcome[k] = "skipped" => k \notin zmrx.wanted
  /\ zmtx.pc = "exit" /\ ~zmtx.failed => zmrx.wanted = received

\* Whatever happens, both programs exit.
Terminates == <>(zmtx.pc = "exit" /\ zmrx.pc = "exit")

\* zmrx.1:89, of exit status 0: "The transfer completed successfully."
ReceiverExitTrue ==
  zmrx.pc = "exit" /\ ~zmrx.failed => \A k \in received : stored[k] = k

\* zmtx.1:100, of exit status 0: "The transfer completed successfully."
SenderExitTrue ==
  zmtx.pc = "exit" /\ ~zmtx.failed =>
    \A k \in File : k \in received \/ k \notin zmrx.wanted
=============================================================================
