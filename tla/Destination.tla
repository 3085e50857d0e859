---------------------------- MODULE Destination ----------------------------
(***************************************************************************)
(* One name on the receiver's disk, over many sessions: how receive_file()  *)
(* of zmrx decides what to do with a file that exists already (management   *)
(* options, crash recovery), and what an interrupted session leaves behind.  *)
(* The transfer itself, which Transfer models, appends blocks in order.      *)
(* Nothing is assumed of the two machines' clocks: a file that is written    *)
(* gets any date, also one that another file has or had.                     *)
(***************************************************************************)
EXTENDS Integers, Sequences

CONSTANTS
  Lengths,   \* the lengths the sender's file may have, in blocks
  Dates,     \* the seconds a clock may show when a file is written
  MaxVersion \* bound: how many versions of the sender's file there are

ASSUME DestinationAssumption ==
  Lengths \subseteq Nat /\ Dates \subseteq Int /\ MaxVersion \in Nat

VARIABLES
  source,    \* the sender's file: which version of it, its length and st_mtime
  copy,      \* the receiver's file: the version each block comes from, st_mtime
  session,   \* receive_file
  coincided  \* history: another program gave the copy the date of the sender's
             \* file, or the sender's file the date of the copy

vars == <<source, copy, session, coincided>>

Option == {"none", "protect", "clobber", "newer"}

\* A file of another origin has version 0.
Foreign(n, mtime) == [exists |-> TRUE, blocks |-> [i \in 1 .. n |-> 0], mtime |-> mtime]

NoFile == [exists |-> FALSE, blocks |-> << >>, mtime |-> 0]

Idle(result) ==
  [pc |-> "idle", result |-> result, option |-> "none", exclusive |-> FALSE,
   recover |-> FALSE, dated |-> FALSE, start |-> 0]

TypeOK ==
  /\ source \in [version : Nat \ {0}, len : Lengths, mtime : Dates]
  /\ copy \in [exists : BOOLEAN, blocks : Seq(Nat), mtime : Dates \cup {0}]
  /\ session \in [pc : {"idle", "opening", "receiving"},
                  result : {"none", "received", "skipped", "failed"},
                  option : Option, exclusive : BOOLEAN, recover : BOOLEAN,
                  dated : BOOLEAN, start : Nat]
  /\ coincided \in BOOLEAN
  /\ session.pc = "receiving" =>
       /\ copy.exists
       /\ session.start <= Len(copy.blocks) /\ Len(copy.blocks) <= source.len

SameDate == copy.exists /\ copy.mtime = source.mtime

\* A foreign file has any date, by accident that of the sender's file.
Init ==
  /\ \E n \in Lengths, d \in Dates : source = [version |-> 1, len |-> n, mtime |-> d]
  /\ copy \in {NoFile} \cup {Foreign(n, d) : n \in Lengths, d \in Dates}
  /\ session = Idle("none")
  /\ coincided = SameDate

----------------------------------------------------------------------------

\* The option that counts: to protect before to clobber before newer, and of
\* equal options the receiver's before the sender's.
Selected(tx, rx) ==
  CASE "protect" \in {tx, rx} -> "protect"
    [] "protect" \notin {tx, rx} /\ "clobber" \in {tx, rx} -> "clobber"
    [] {"protect", "clobber"} \cap {tx, rx} = {} /\ "newer" \in {tx, rx} -> "newer"
    [] OTHER -> "none"

\* Mutant of Recoverable: the dates are not compared.
RecoverableByLength(dated) ==
  copy.exists /\ dated /\ Len(copy.blocks) <= source.len

\* The copy has the date of the file offered, and is no longer.
Recoverable(dated) ==
  /\ dated /\ SameDate
  /\ Len(copy.blocks) <= source.len

Skipped(option, dated) ==
  /\ copy.exists /\ ~Recoverable(dated)
  /\ \/ option = "protect"
     \/ option = "newer" /\ (dated => source.mtime <= copy.mtime)

\* A ZFILE: stat and the decision.  zmtx dates its offers, other senders may
\* not.
Offered ==
  /\ session.pc = "idle"
  /\ \E tx \in Option, rx \in Option, dated \in BOOLEAN :
       LET option == Selected(tx, rx)
       IN  session' = IF Skipped(option, dated) THEN Idle("skipped")
                      ELSE [pc |-> "opening", result |-> "none",
                            option |-> option,
                            exclusive |-> option = "protect" /\ ~copy.exists,
                            recover |-> Recoverable(dated), dated |-> dated,
                            start |-> 0]
  /\ UNCHANGED <<source, copy, coincided>>

\* Mutant of Opened: a file that exists is added to.
OpenedAppending ==
  /\ session.pc = "opening"
  /\ session.exclusive => ~copy.exists
  /\ \E d \in Dates :
       copy' = IF copy.exists THEN copy
               ELSE [exists |-> TRUE, blocks |-> << >>, mtime |-> d]
  /\ session' = [session EXCEPT !.pc = "receiving", !.start = Len(copy'.blocks)]
  /\ coincided' = (coincided /\ session.recover)
  /\ UNCHANGED source

\* Mutant of Opened: a file to be protected is created like any other.
OpenedRegardless ==
  /\ session.pc = "opening"
  /\ \E d \in Dates :
       copy' = IF session.recover THEN copy
               ELSE [exists |-> TRUE, blocks |-> << >>, mtime |-> d]
  /\ session' = [session EXCEPT !.pc = "receiving", !.start = Len(copy'.blocks)]
  /\ coincided' = (coincided /\ session.recover)
  /\ UNCHANGED source

\* The file is opened for appending, created exclusively, or truncated; what is
\* empty is a beginning of any file, whatever its date.
Opened ==
  /\ session.pc = "opening"
  /\ session.exclusive => ~copy.exists
  /\ \E d \in Dates :
       copy' = IF session.recover THEN copy
               ELSE [exists |-> TRUE, blocks |-> << >>, mtime |-> d]
  /\ session' = [session EXCEPT !.pc = "receiving", !.start = Len(copy'.blocks)]
  /\ coincided' = (coincided /\ session.recover)
  /\ UNCHANGED source

OpenFails ==
  /\ session.pc = "opening"
  /\ session.exclusive /\ copy.exists
  /\ session' = Idle("failed")
  /\ UNCHANGED <<source, copy, coincided>>

\* receive_file_data commits one more block.
Stored ==
  /\ session.pc = "receiving"
  /\ Len(copy.blocks) < source.len
  /\ \E d \in Dates :
       copy' = [copy EXCEPT !.blocks = Append(@, source.version), !.mtime = d]
  /\ UNCHANGED <<source, session, coincided>>

\* The last block is there: the file is closed and given the sender's date.
\* (Blocks are written as they are stored: only Killed sees stdio's buffer.)
Received ==
  /\ session.pc = "receiving"
  /\ Len(copy.blocks) = source.len
  /\ copy' = IF session.dated THEN [copy EXCEPT !.mtime = source.mtime] ELSE copy
  /\ session' = Idle("received")
  /\ UNCHANGED <<source, coincided>>

\* The transfer fails: receive_file closes the file and forgets it, so that
\* cleanup has no file to date, and the file keeps the time of its last block.
Failed ==
  /\ session.pc = "receiving"
  /\ session' = Idle("failed")
  /\ UNCHANGED <<source, copy, coincided>>

\* zmrx is killed: the blocks that stdio still buffers are lost.
Killed ==
  /\ session.pc = "receiving"
  /\ \E n \in session.start .. Len(copy.blocks) :
       copy' = [copy EXCEPT !.blocks = SubSeq(@, 1, n)]
  /\ session' = Idle("none")
  /\ UNCHANGED <<source, coincided>>

\* The sender's file is written anew, between sessions.  Its date may be that of
\* the copy: of what was received in the same second, or by another clock.
Edited ==
  /\ session.pc = "idle"
  /\ source.version < MaxVersion
  /\ \E n \in Lengths, d \in Dates :
       source' = [version |-> source.version + 1, len |-> n, mtime |-> d]
  /\ UNCHANGED <<copy, session>>
  /\ coincided' = SameDate'

\* Another program creates the file while receive_file is about to open it.
Appears ==
  /\ session.pc = "opening"
  /\ ~copy.exists
  /\ \E n \in Lengths, d \in Dates : copy' = Foreign(n, d)
  /\ UNCHANGED <<source, session>>
  /\ coincided' = SameDate'

Next ==
  \/ Offered
  \/ Opened
  \/ OpenFails
  \/ Stored
  \/ Received
  \/ Failed
  \/ Killed
  \/ Edited
  \/ Appears

Spec == Init /\ [][Next]_vars

----------------------------------------------------------------------------

Prefix(n) == [i \in 1 .. n |-> source.version]

\* What zmrx reports as received is the sender's file, every block of it from
\* the version offered, whatever interrupted sessions left behind.  The premise is
\* that nobody else has made the dates equal (coincided) since the copy was last
\* created or truncated: receive_file then adds to what is another file.
Whole ==
  [][session.pc = "receiving" /\ session'.result = "received" /\ ~coincided =>
       copy'.blocks = Prefix(source.len)]_vars

\* Equal dates deceive receive_file only when another program made them equal:
\* no session that fails, is killed or resumes another leaves a file that is
\* not a beginning of the sender's file but has its date, whatever the clocks
\* show; and after an accident dates tell again, once the source has been
\* rewritten with another date or the copy truncated.
DateTells == SameDate /\ ~coincided => copy.blocks = Prefix(Len(copy.blocks))

\* How much of the copy is older than the session.
Older == IF session.pc = "receiving" THEN session.start ELSE Len(copy.blocks)

\* Under -p nothing that was there is lost, even if it appeared after stat or
\* the session is killed: the file is only added to.
Protects ==
  [][session.option = "protect" =>
       /\ Older <= Len(copy'.blocks)
       /\ SubSeq(copy'.blocks, 1, Older) = SubSeq(copy.blocks, 1, Older)]_vars

\* zmrx.1:75: "The default is to protect the destination."
DefaultProtects ==
  [][copy.exists /\ session.pc = "opening" /\ session.option = "none" =>
       Len(copy.blocks) <= Len(copy'.blocks)]_vars

\* zmrx.c:948: "set the time (so crash recovery may work)": a copy that failed
\* halfway has the date of the sender's file, and the next session resumes it.
RecoveryWorks ==
  [][session.pc = "receiving" /\ session'.result = "failed" /\ session.dated =>
       Recoverable(TRUE)']_vars
=============================================================================
