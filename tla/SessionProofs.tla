---------------------------- MODULE SessionProofs ----------------------------
(***************************************************************************)
(* Proofs about Session for any number of files, retries and faults: every    *)
(* variable keeps its type under any file policy of zmrx; under a policy that   *)
(* wants the first files and none after them no data goes under another file's  *)
(* name, and what both programs report is true.                                 *)
(***************************************************************************)
EXTENDS Session, TLAPS, SequenceTheorems

Prefix == \A wanted \in Policies : \A k \in wanted : 1 .. k \subseteq wanted

----------------------------------------------------------------------------
(* The invariant.                                                          *)

\* An offer of a file zmrx wants.
Wanted(frame) == frame.type = "ZFILE" /\ frame.file \in zmrx.wanted

Body == {"DATA", "DATAW", "ZEOF"}

\* zmrx will read the j-th frame on its way to it inside a file.
Inside(j) == zmrx.pc = "header" \/ \E i \in 1 .. j - 1 : Wanted(toReceiver[i])

OnWay(type) == \E i \in 1 .. Len(toSender) : toSender[i].type = type

\* What zmrx will read inside a file is of the file zmtx is at, and what zmrx wants
\* is offered before its data.
Requests ==
  /\ \A j \in 1 .. Len(toReceiver) :
       /\ toReceiver[j].type = "ZFILE" => toReceiver[j].file \in 1 .. zmtx.file
       /\ Wanted(toReceiver[j]) => toReceiver[j].file = zmtx.file
       /\ Inside(j) /\ toReceiver[j].type \in {"DATA", "DATAW"} =>
            toReceiver[j].file = zmtx.file
       /\ toReceiver[j].type = "ZEOF" => toReceiver[j].pos = 1
  /\ \A j, l \in 1 .. Len(toReceiver) :
       j < l /\ Inside(j) /\ toReceiver[j].type \in Body => ~Wanted(toReceiver[l])

NothingOffered ==
  zmrx.pc # "header" /\ \A j \in 1 .. Len(toReceiver) : ~Wanted(toReceiver[j])

\* zmrx is inside no file but the one zmtx is at, and only before it has received it.
Files ==
  /\ \A k \in zmrx.wanted : 1 .. k \subseteq zmrx.wanted
  /\ zmrx.pc = "header" =>
       /\ zmrx.file = zmtx.file /\ zmtx.file \in zmrx.wanted
       /\ zmrx.pos = 1 => stored[zmtx.file] = zmtx.file
  /\ \A k \in received : k \in zmrx.wanted /\ k <= zmtx.file
  /\ zmtx.file \in received => NothingOffered /\ stored[zmtx.file] = zmtx.file
  /\ OnWay("ZSKIP") => zmtx.file \notin zmrx.wanted

\* On its way to zmtx every frame of type a comes before every one of type b.
Before(a, b) ==
  \A i, j \in 1 .. Len(toSender) :
    toSender[i].type = b /\ toSender[j].type = a => j < i

Ended == zmrx.pc \in {"over", "exit"}

\* Before contact no file has been heard of.
Contacting ==
  zmtx.pc = "contact" =>
    zmtx.file = 1 /\ received = {} /\ NothingOffered /\ ~OnWay("ZRPOS")

\* While zmtx offers a file zmrx has nothing of it, and a ZRPOS on its way is an
\* answer to this offer.
Offering ==
  zmtx.pc = "offer" =>
    /\ zmtx.file \notin received
    /\ \A j \in 1 .. Len(toReceiver) : Inside(j) => toReceiver[j].type \notin Body
    /\ OnWay("ZRPOS") => zmtx.file \in zmrx.wanted /\ (zmrx.pc = "header" \/ Ended)
    /\ Before("ZRINIT", "ZRPOS")

\* While zmtx sends a file zmrx is inside it, has received it or is gone, and a
\* ZRINIT on its way says that the file was received.
Sending ==
  zmtx.pc \in {"ack", "eof"} =>
    /\ zmtx.file \in zmrx.wanted
    /\ zmtx.file \in received \/ zmrx.pc = "header" \/ Ended
    /\ OnWay("ZRINIT") => zmtx.file \in received
    /\ Before("ZRPOS", "ZRINIT")

\* What zmtx has counted so far.
Counts ==
  /\ zmtx.pc \in {"fin", "exit"} /\ ~zmtx.failed => zmtx.file = NFiles + 1
  /\ \A k \in File :
       /\ outcome[k] = "sent" => k < zmtx.file /\ k \in received /\ stored[k] = k
       /\ outcome[k] = "skipped" => k \notin zmrx.wanted
       /\ k \in zmrx.wanted /\ k < zmtx.file => outcome[k] = "sent"

SessionInv ==
  Requests /\ Files /\ Contacting /\ Offering /\ Sending /\ Counts /\ Unmixed

----------------------------------------------------------------------------
(* Types.                                                                  *)

RequestFrame == [type : RequestType, file : 0 .. NFiles, pos : 0 .. 1]
ReplyFrame == [type : ReplyType, file : {0}, pos : 0 .. 1]

SenderState ==
  [pc : {"contact", "offer", "ack", "eof", "fin", "exit"},
   file : 1 .. NFiles + 1, attempts : 0 .. MaxRetries,
   finish_attempts : 0 .. MaxRetries, stale_zrinit : BOOLEAN,
   pos : 0 .. 1, furthest_attempted : 0 .. 1, furthest_receiver : 0 .. 1,
   readable : 0 .. NFiles, failed : BOOLEAN]

ReceiverState ==
  [pc : {"contact", "session", "header", "over", "exit"},
   file : 0 .. NFiles, pos : 0 .. 1, errors : 0 .. MaxRetries,
   attempts : 0 .. MaxRetries, wanted : SUBSET File, failed : BOOLEAN]

Outcomes == [File -> {"none", "sent", "skipped", "failed"}]

\* With it, where the files are that the programs speak of.
TypeInv ==
  /\ TypeOK
  /\ zmtx.pc \in {"offer", "ack", "eof"} => zmtx.file <= zmtx.readable
  /\ zmrx.pc = "header" => zmrx.file \in File
  /\ zmrx.wanted \in Policies

LEMMA Types ==
  TypeOK <=> /\ toReceiver \in Seq(RequestFrame) /\ toSender \in Seq(ReplyFrame)
             /\ faults \in 0 .. MaxFaults /\ zmtx \in SenderState /\ zmrx \in ReceiverState
             /\ outcome \in Outcomes /\ stored \in [File -> 0 .. NFiles]
             /\ received \subseteq File
  BY DEF TypeOK, RequestFrame, ReplyFrame, SenderState, ReceiverState, Outcomes

----------------------------------------------------------------------------
(* What a step does to a line.                                             *)

\* Frames of S are put on the line.
Extends(after, before, S) == \E frames \in Seq(S) : after = before \o frames

\* d frames are read, lost or purged.
Shortens(after, before, d) ==
  /\ d \in 0 .. Len(before) /\ Len(after) = Len(before) - d
  /\ \A i \in 1 .. Len(before) - d : i + d \in 1 .. Len(before) /\ after[i] = before[i + d]

LEMMA Extended ==
  ASSUME NEW T, NEW S, NEW before, NEW after,
         before \in Seq(T), S \subseteq T, Extends(after, before, S)
  PROVE  /\ after \in Seq(T) /\ Len(after) \in Nat /\ Len(before) \in Nat
         /\ Len(before) <= Len(after)
         /\ \A i \in 1 .. Len(before) : after[i] = before[i]
         /\ \A i \in 1 .. Len(after) : i \in 1 .. Len(before) \/ after[i] \in S
  <1>1. PICK frames \in Seq(S) : after = before \o frames
    BY DEF Extends
  <1>2. frames \in Seq(T) /\ Len(frames) \in Nat /\ Len(before) \in Nat
    <2>1. \A i \in 1 .. Len(frames) : frames[i] \in T
      OBVIOUS
    <2> QED
      BY <2>1
  <1>3. after \in Seq(T) /\ Len(after) = Len(before) + Len(frames)
    BY <1>1, <1>2
  <1>4. \A i \in 1 .. Len(before) : after[i] = before[i]
    BY <1>1, <1>2
  <1>5. ASSUME NEW i \in 1 .. Len(after), i \notin 1 .. Len(before)
        PROVE  after[i] \in S
    <2>1. i - Len(before) \in 1 .. Len(frames) /\ after[i] = frames[i - Len(before)]
      BY <1>1, <1>2, <1>3, <1>5
    <2> QED
      BY <2>1
  <1> QED
    BY <1>2, <1>3, <1>4, <1>5

LEMMA Extending ==
  ASSUME NEW S, NEW before, NEW after, NEW f, NEW g, before \in Seq(S),
         \/ after = before
         \/ f \in S /\ after = before \o <<f>>
         \/ f \in S /\ g \in S /\ after = before \o <<f, g>>
  PROVE  Extends(after, before, S)
  <1>1. CASE after = before
    <2>1. << >> \in Seq(S) /\ before = before \o << >>
      OBVIOUS
    <2> QED
      BY <1>1, <2>1 DEF Extends
  <1>2. CASE f \in S /\ after = before \o <<f>>
    <2>1. <<f>> \in Seq(S)
      BY <1>2
    <2> QED
      BY <1>2, <2>1 DEF Extends
  <1>3. CASE f \in S /\ g \in S /\ after = before \o <<f, g>>
    <2>1. <<f, g>> \in Seq(S)
      BY <1>3
    <2> QED
      BY <1>3, <2>1 DEF Extends
  <1> QED
    BY <1>1, <1>2, <1>3

LEMMA Shortened ==
  ASSUME NEW T, NEW before, NEW after, NEW d,
         before \in Seq(T), after \in Seq(T), Shortens(after, before, d)
  PROVE  /\ Len(after) \in Nat /\ Len(before) \in Nat /\ d \in Nat
         /\ Len(after) + d = Len(before)
         /\ \A i \in 1 .. Len(after) : i + d \in 1 .. Len(before) /\ after[i] = before[i + d]
  BY DEF Shortens

LEMMA TakenShortens ==
  ASSUME NEW T, NEW before \in Seq(T), before # << >>
  PROVE  /\ Tail(before) \in Seq(T) /\ Shortens(Tail(before), before, 1)
         /\ Len(before) \in Nat \ {0} /\ Head(before) = before[1] /\ before[1] \in T
  <1> DEFINE n == Len(before)
  <1>1. n \in Nat /\ n # 0
    BY EmptySeq
  <1>2. /\ Head(before) \in T /\ Tail(before) \in Seq(T) /\ Len(Tail(before)) = n - 1
        /\ \A i \in 1 .. Len(Tail(before)) : Tail(before)[i] = before[i + 1]
    BY HeadTailProperties
  <1>3. 1 \in 1 .. n /\ before[1] \in T /\ Head(before) = before[1]
    BY <1>1
  <1> HIDE DEF n
  <1>4. \A i \in 1 .. n - 1 : i + 1 \in 1 .. n
    BY <1>1
  <1>5. 1 \in 0 .. n
    BY <1>1
  <1> QED
    BY <1>1, <1>2, <1>3, <1>4, <1>5 DEF Shortens, n

LEMMA PurgedShortens ==
  ASSUME NEW T, NEW before \in Seq(T), before # << >>, NEW after \in Purged(Tail(before))
  PROVE  after \in Seq(T) /\ \E d \in Nat : Shortens(after, before, d)
  <1> DEFINE n == Len(before)  rest == Tail(before)  m == Len(rest)
  <1>1. /\ n \in Nat /\ n # 0 /\ rest \in Seq(T) /\ m = n - 1
        /\ \A i \in 1 .. m : rest[i] = before[i + 1]
    BY EmptySeq, HeadTailProperties
  <1>2. PICK k \in 1 .. m + 1 : after = SubSeq(rest, k, m)
    BY DEF Purged
  <1>3. k \in Nat /\ 1 <= k /\ k <= n /\ m \in Nat
    BY <1>1
  <1>4. \A i \in k .. m : rest[i] \in T
    BY <1>1, <1>3
  <1> HIDE DEF n, rest, m
  <1>5. /\ after \in Seq(T) /\ Len(after) = m - k + 1
        /\ \A i \in 1 .. m - k + 1 : after[i] = rest[k + i - 1]
    BY <1>1, <1>2, <1>3, <1>4, SubSeqProperties
  <1>6. ASSUME NEW i \in 1 .. n - k PROVE i + k \in 1 .. n /\ after[i] = before[i + k]
    <2>1. i \in 1 .. m - k + 1 /\ k + i - 1 \in 1 .. m /\ (k + i - 1) + 1 = i + k
      BY <1>1, <1>3
    <2>2. i + k \in 1 .. n
      BY <1>1, <1>3
    <2>3. after[i] = rest[k + i - 1] /\ rest[k + i - 1] = before[(k + i - 1) + 1]
      BY <1>1, <1>5, <2>1
    <2> QED
      BY <2>1, <2>2, <2>3
  <1>7. Len(after) = n - k /\ k \in 0 .. n
    BY <1>1, <1>3, <1>5
  <1>8. Shortens(after, before, k)
    BY <1>6, <1>7 DEF Shortens, n
  <1> QED
    BY <1>3, <1>5, <1>8

----------------------------------------------------------------------------
(* What zmtx does: each of its actions is one of five turns.                *)

Ask(k) == {f \in RequestFrame : f.type = "ZFILE" /\ f.file = k}
Data(k) == {f \in RequestFrame : \/ f.type \in {"DATA", "DATAW"} /\ f.file = k
                                 \/ f.type = "ZEOF" /\ f.pos = 1}
Talk == {f \in RequestFrame : f.type \in {"ZRQINIT", "ZFIN", "OO"}}

Heard(type) ==
  toSender # << >> /\ toSender[1].type = type /\ toSender' = Tail(toSender)

MayHear == toSender' = toSender \/ (toSender # << >> /\ toSender' = Tail(toSender))

SameFile == zmtx'.file = zmtx.file /\ zmtx'.readable = zmtx.readable

\* It stays where it is.
Waits ==
  /\ MayHear /\ SameFile /\ zmtx'.failed = zmtx.failed /\ outcome' = outcome
  /\ \/ zmtx'.pc = zmtx.pc /\ Extends(toReceiver', toReceiver, Talk)
     \/ /\ zmtx.pc = "offer" /\ zmtx'.pc = "offer"
        /\ Extends(toReceiver', toReceiver, Ask(zmtx.file))
     \/ /\ zmtx.pc \in {"ack", "eof"} /\ zmtx'.pc \in {"ack", "eof"}
        /\ Extends(toReceiver', toReceiver, Data(zmtx.file))

\* zmrx accepts the file.
Accepts ==
  /\ zmtx.pc = "offer" /\ Heard("ZRPOS") /\ SameFile /\ outcome' = outcome
  /\ zmtx'.pc \in {"ack", "eof"} /\ Extends(toReceiver', toReceiver, Data(zmtx.file))

\* The file failed, and with it the session.
GivesUp ==
  /\ zmtx.pc \in {"offer", "ack", "eof"} /\ MayHear /\ SameFile
  /\ zmtx'.pc = "fin" /\ zmtx'.failed
  /\ outcome' = [outcome EXCEPT ![zmtx.file] = "failed"]
  /\ Extends(toReceiver', toReceiver, Talk)

\* The k-th file is next.
GoesTo(k, results) ==
  /\ zmtx'.file = k /\ zmtx'.readable = zmtx.readable
  /\ \/ /\ zmtx'.pc = "offer" /\ k <= zmtx.readable
        /\ outcome' = results /\ Extends(toReceiver', toReceiver, Ask(k))
     \/ /\ zmtx'.pc = "fin" /\ (zmtx'.failed \/ k = NFiles + 1)
        /\ outcome' = results \/ (k \in File /\ outcome' = [results EXCEPT ![k] = "failed"])
        /\ Extends(toReceiver', toReceiver, Talk)

GoesOn ==
  \/ zmtx.pc = "contact" /\ MayHear /\ GoesTo(zmtx.file, outcome)
  \/ /\ zmtx.pc \in {"offer", "ack", "eof"} /\ Heard("ZSKIP")
     /\ GoesTo(zmtx.file + 1, [outcome EXCEPT ![zmtx.file] = "skipped"])
  \/ /\ zmtx.pc = "eof" /\ Heard("ZRINIT")
     /\ GoesTo(zmtx.file + 1, [outcome EXCEPT ![zmtx.file] = "sent"])

\* It exits.
Exits ==
  /\ zmtx.pc \in {"contact", "fin"} /\ zmtx'.pc = "exit" /\ MayHear /\ SameFile
  /\ zmtx'.failed \/ (zmtx.pc = "fin" /\ zmtx'.failed = zmtx.failed)
  /\ outcome' = outcome /\ Extends(toReceiver', toReceiver, Talk)

SenderTurn == Waits \/ Accepts \/ GivesUp \/ GoesOn \/ Exits

\* The variables of zmtx keep their types.
SenderTyped ==
  /\ toReceiver' \in Seq(RequestFrame) /\ toSender' \in Seq(ReplyFrame)
  /\ zmtx' \in SenderState /\ outcome' \in Outcomes
  /\ zmtx'.pc \in {"offer", "ack", "eof"} => zmtx'.file <= zmtx'.readable

LEMMA Frames ==
  /\ Plain("ZRQINIT") \in Talk /\ Plain("ZFIN") \in Talk /\ Plain("OO") \in Talk
  /\ \A k \in 1 .. NFiles :
       /\ Frame("ZFILE", k, 0) \in Ask(k)
       /\ \A pos \in 0 .. 1 : Frame("DATA", k, pos) \in Data(k)
                             /\ Frame("DATAW", k, pos) \in Data(k)
  /\ \A k \in Int : Frame("ZEOF", 0, 1) \in Data(k)
  BY SessionAssumption DEF Frame, Plain, Talk, Ask, Data, RequestFrame, RequestType

\* Frames that are put on the line to zmrx have its type.
LEMMA Requested ==
  ASSUME NEW S, S \in {Talk, Ask(zmtx.file), Data(zmtx.file), Ask(zmtx.file + 1)},
         toReceiver \in Seq(RequestFrame), Extends(toReceiver', toReceiver, S)
  PROVE  toReceiver' \in Seq(RequestFrame)
  <1>1. S \subseteq RequestFrame
    BY DEF Talk, Ask, Data
  <1> QED
    BY <1>1, Extended

LEMMA Asked ==
  ASSUME NEW f, NEW S, f \in S, S \subseteq RequestFrame,
         toReceiver \in Seq(RequestFrame), Request(<<f>>)
  PROVE  Extends(toReceiver', toReceiver, S) /\ toReceiver' \in Seq(RequestFrame)
  <1>1. toReceiver' = toReceiver \o <<f>> /\ <<f>> \in Seq(S)
    BY DEF Request
  <1>2. Extends(toReceiver', toReceiver, S)
    BY <1>1 DEF Extends
  <1> QED
    BY <1>2, Extended

LEMMA AskedTwice ==
  ASSUME NEW f, NEW g, NEW S, f \in S, g \in S, S \subseteq RequestFrame,
         toReceiver \in Seq(RequestFrame), Request(<<f, g>>)
  PROVE  Extends(toReceiver', toReceiver, S) /\ toReceiver' \in Seq(RequestFrame)
  <1>1. toReceiver' = toReceiver \o <<f, g>> /\ <<f, g>> \in Seq(S)
    BY DEF Request
  <1>2. Extends(toReceiver', toReceiver, S)
    BY <1>1 DEF Extends
  <1> QED
    BY <1>2, Extended

LEMMA NothingAsked ==
  ASSUME NEW S, toReceiver \in Seq(RequestFrame), toReceiver' = toReceiver
  PROVE  Extends(toReceiver', toReceiver, S) /\ toReceiver' \in Seq(RequestFrame)
  <1>1. toReceiver' = toReceiver \o << >> /\ << >> \in Seq(S)
    OBVIOUS
  <1> QED
    BY <1>1 DEF Extends

LEMMA Subsets ==
  \A k : Talk \subseteq RequestFrame /\ Ask(k) \subseteq RequestFrame /\ Data(k) \subseteq RequestFrame
  BY DEF Talk, Ask, Data

LEMMA Taken ==
  ASSUME TypeInv, NEW types, TakeReply(types)
  PROVE  /\ toSender # << >> /\ toSender' = Tail(toSender) /\ MayHear
         /\ reply = toSender[1] /\ reply \in ReplyFrame /\ reply.type \in types
         /\ toSender' \in Seq(ReplyFrame)
         /\ \A type : reply.type = type => Heard(type)
  <1>1. toSender \in Seq(ReplyFrame)
    BY Types DEF TypeInv
  <1>2. toSender # << >> /\ toSender' = Tail(toSender) /\ reply.type \in types
    BY DEF TakeReply
  <1>3. reply = toSender[1] /\ toSender[1] \in ReplyFrame /\ Tail(toSender) \in Seq(ReplyFrame)
    BY <1>1, <1>2, TakenShortens DEF reply
  <1> QED
    BY <1>2, <1>3 DEF MayHear, Heard

LEMMA ClosesSession ==
  ASSUME NEW s, s \in SenderState, toReceiver \in Seq(RequestFrame), Close(s)
  PROVE  /\ zmtx' \in SenderState /\ zmtx'.pc = "fin" /\ zmtx'.file = s.file
         /\ zmtx'.readable = s.readable /\ zmtx'.failed = s.failed
         /\ Extends(toReceiver', toReceiver, Talk) /\ toReceiver' \in Seq(RequestFrame)
  <1>1. zmtx' = [s EXCEPT !.pc = "fin", !.attempts = 1] /\ Request(<<Plain("ZFIN")>>)
    BY DEF Close
  <1>2. 1 \in 0 .. MaxRetries
    BY LineAssumption
  <1>3. /\ zmtx' \in SenderState /\ zmtx'.pc = "fin" /\ zmtx'.file = s.file
        /\ zmtx'.readable = s.readable /\ zmtx'.failed = s.failed
    BY <1>1, <1>2 DEF SenderState
  <1>4. Extends(toReceiver', toReceiver, Talk) /\ toReceiver' \in Seq(RequestFrame)
    BY <1>1, Frames, Subsets, Asked
  <1> QED
    BY <1>3, <1>4

LEMMA NextIsOffered ==
  ASSUME NEW s, NEW results, s \in SenderState, results \in Outcomes,
         toReceiver \in Seq(RequestFrame), s.readable = zmtx.readable, NextFile(s, results)
  PROVE  /\ GoesTo(s.file, results)
         /\ zmtx' \in SenderState /\ outcome' \in Outcomes /\ toReceiver' \in Seq(RequestFrame)
         /\ zmtx'.pc \in {"offer", "ack", "eof"} => zmtx'.file <= zmtx'.readable
  <1>1. s.file \in 1 .. NFiles + 1 /\ s.readable \in 0 .. NFiles /\ NFiles \in Nat
    BY SessionAssumption DEF SenderState
  <1>2. /\ outcome' = results \/ (s.file \in File /\ outcome' = [results EXCEPT ![s.file] = "failed"])
        /\ outcome' \in Outcomes
    <2>1. /\ s.file \in s.readable + 1 .. NFiles => s.file \in File
          /\ s.file \in s.readable + 1 .. NFiles => outcome' = [results EXCEPT ![s.file] = "failed"]
          /\ s.file \notin s.readable + 1 .. NFiles => outcome' = results
      BY <1>1 DEF NextFile, File
    <2> QED
      BY <2>1 DEF Outcomes
  <1>3. CASE s.file <= s.readable
    <2>1. outcome' = results
      BY <1>1, <1>3 DEF NextFile
    <2>2. /\ zmtx' = [s EXCEPT !.pc = "offer", !.attempts = 0, !.stale_zrinit = FALSE]
          /\ Request(<<Frame("ZFILE", s.file, 0)>>)
      BY <1>3 DEF NextFile
    <2>3. 0 \in 0 .. MaxRetries
      BY LineAssumption
    <2>4. /\ zmtx' \in SenderState /\ zmtx'.pc = "offer" /\ zmtx'.file = s.file
          /\ zmtx'.readable = s.readable
      BY <2>2, <2>3 DEF SenderState
    <2>5. Frame("ZFILE", s.file, 0) \in Ask(s.file)
      BY <1>1, <1>3, Frames
    <2>6. Extends(toReceiver', toReceiver, Ask(s.file)) /\ toReceiver' \in Seq(RequestFrame)
      BY <2>2, <2>5, Subsets, Asked
    <2> QED
      BY <1>2, <1>3, <2>1, <2>4, <2>6 DEF GoesTo
  <1>4. CASE ~(s.file <= s.readable)
    <2> DEFINE few == s.file <= NFiles
               t == [s EXCEPT !.failed = few]
    <2>1. Close(t)
      BY <1>4 DEF NextFile
    <2>2. few \in BOOLEAN /\ (~few => s.file = NFiles + 1)
      BY <1>1
    <2> HIDE DEF few
    <2>3. /\ t \in SenderState /\ t.file = s.file /\ t.readable = s.readable
          /\ few => t.failed
      BY <2>2 DEF SenderState
    <2> HIDE DEF t
    <2>4. /\ zmtx' \in SenderState /\ zmtx'.pc = "fin" /\ zmtx'.file = s.file
          /\ zmtx'.readable = s.readable /\ zmtx'.failed = t.failed
          /\ Extends(toReceiver', toReceiver, Talk) /\ toReceiver' \in Seq(RequestFrame)
      BY <2>1, <2>3, ClosesSession
    <2> QED
      BY <1>2, <2>2, <2>3, <2>4 DEF GoesTo
  <1> QED
    BY <1>3, <1>4

\* While zmtx is at a file, that file could be opened.
LEMMA AtFile ==
  ASSUME TypeInv
  PROVE  /\ zmtx \in SenderState /\ toReceiver \in Seq(RequestFrame)
         /\ toSender \in Seq(ReplyFrame) /\ outcome \in Outcomes
         /\ zmtx.file \in 1 .. NFiles + 1 /\ zmtx.readable \in 0 .. NFiles
         /\ NFiles \in Nat /\ MaxRetries \in Nat /\ 0 \in 0 .. MaxRetries
         /\ zmtx.pc \in {"offer", "ack", "eof"} =>
              /\ zmtx.file <= zmtx.readable /\ zmtx.file \in 1 .. NFiles
              /\ zmtx.file \in File /\ zmtx.file + 1 \in 1 .. NFiles + 1
  <1>1. /\ zmtx \in SenderState /\ toReceiver \in Seq(RequestFrame)
        /\ toSender \in Seq(ReplyFrame) /\ outcome \in Outcomes
        /\ zmtx.pc \in {"offer", "ack", "eof"} => zmtx.file <= zmtx.readable
    BY Types DEF TypeInv
  <1>2. zmtx.file \in 1 .. NFiles + 1 /\ zmtx.readable \in 0 .. NFiles
    BY <1>1 DEF SenderState
  <1>3. NFiles \in Nat /\ MaxRetries \in Nat /\ 0 \in 0 .. MaxRetries
    BY SessionAssumption, LineAssumption
  <1>4. ASSUME zmtx.file <= zmtx.readable
        PROVE  /\ zmtx.file \in 1 .. NFiles /\ zmtx.file \in File
               /\ zmtx.file + 1 \in 1 .. NFiles + 1
    BY <1>2, <1>3, <1>4 DEF File
  <1> QED
    BY <1>1, <1>2, <1>3, <1>4

LEMMA Returns ==
  ASSUME NEW result, result \in {"sent", "skipped", "failed"},
         TypeInv, zmtx.pc \in {"offer", "ack", "eof"}, MayHear, toSender' \in Seq(ReplyFrame),
         result = "sent" => zmtx.pc = "eof" /\ Heard("ZRINIT"),
         result = "skipped" => Heard("ZSKIP"), Return(result)
  PROVE  SenderTyped /\ SenderTurn
  <1> DEFINE results == [outcome EXCEPT ![zmtx.file] = result]
             s == [zmtx EXCEPT !.failed = TRUE]
             t == [zmtx EXCEPT !.file = @ + 1]
  <1>1. results \in Outcomes
    BY AtFile DEF Outcomes
  <1>2. /\ s \in SenderState /\ s.file = zmtx.file /\ s.readable = zmtx.readable /\ s.failed
        /\ t \in SenderState /\ t.file = zmtx.file + 1 /\ t.readable = zmtx.readable
    BY AtFile DEF SenderState
  <1>3. CASE result = "failed"
    <2>1. Close(s) /\ outcome' = results
      BY <1>3 DEF Return
    <2> HIDE DEF s
    <2>2. /\ zmtx' \in SenderState /\ zmtx'.pc = "fin" /\ zmtx'.file = zmtx.file
          /\ zmtx'.readable = zmtx.readable /\ zmtx'.failed
          /\ Extends(toReceiver', toReceiver, Talk) /\ toReceiver' \in Seq(RequestFrame)
      BY <2>1, <1>2, AtFile, ClosesSession
    <2>3. GivesUp
      BY <1>3, <2>1, <2>2 DEF GivesUp, SameFile
    <2> QED
      BY <1>1, <2>1, <2>2, <2>3 DEF SenderTyped, SenderTurn
  <1>4. CASE result # "failed"
    <2>1. NextFile(t, results)
      BY <1>4 DEF Return
    <2> HIDE DEF t, results
    <2>2. /\ GoesTo(zmtx.file + 1, results)
          /\ zmtx' \in SenderState /\ outcome' \in Outcomes /\ toReceiver' \in Seq(RequestFrame)
          /\ zmtx'.pc \in {"offer", "ack", "eof"} => zmtx'.file <= zmtx'.readable
      BY <1>1, <1>2, <2>1, AtFile, NextIsOffered
    <2>3. GoesOn
      BY <1>4, <2>2 DEF GoesOn, results
    <2> QED
      BY <2>2, <2>3 DEF SenderTyped, SenderTurn
  <1> QED
    BY <1>3, <1>4

LEMMA SendsFrom ==
  ASSUME NEW s, NEW synchronize, TypeInv, zmtx.pc \in {"offer", "ack", "eof"}, s \in SenderState,
         s.file = zmtx.file, s.readable = zmtx.readable, s.failed = zmtx.failed,
         SendFrom(s, synchronize)
  PROVE  /\ zmtx' \in SenderState /\ zmtx'.pc \in {"ack", "eof"} /\ SameFile
         /\ zmtx'.failed = zmtx.failed
         /\ Extends(toReceiver', toReceiver, Data(zmtx.file)) /\ toReceiver' \in Seq(RequestFrame)
  <1>1. /\ Frame("DATA", zmtx.file, s.pos) \in Data(zmtx.file)
        /\ Frame("DATAW", zmtx.file, s.pos) \in Data(zmtx.file)
        /\ Frame("ZEOF", 0, 1) \in Data(zmtx.file)
    <2>1. s.pos \in 0 .. 1
      BY DEF SenderState
    <2> QED
      BY <2>1, AtFile, Frames
  <1>2. CASE synchronize /\ s.pos = 0
    <2>1. zmtx' = [s EXCEPT !.pc = "ack"] /\ Request(<<Frame("DATAW", s.file, s.pos)>>)
      BY <1>2 DEF SendFrom
    <2>2. /\ zmtx' \in SenderState /\ zmtx'.pc = "ack" /\ zmtx'.file = s.file
          /\ zmtx'.readable = s.readable /\ zmtx'.failed = s.failed
      BY <2>1 DEF SenderState
    <2>3. /\ Extends(toReceiver', toReceiver, Data(zmtx.file))
          /\ toReceiver' \in Seq(RequestFrame)
      BY <1>1, <2>1, AtFile, Subsets, Asked
    <2> QED
      BY <2>2, <2>3 DEF SameFile
  <1>3. CASE ~(synchronize /\ s.pos = 0)
    <2>1. /\ zmtx' = [s EXCEPT !.pc = "eof", !.finish_attempts = 0]
          /\ Request(<<Frame("DATA", s.file, s.pos), Frame("ZEOF", 0, 1)>>)
      BY <1>3 DEF SendFrom
    <2>2. /\ zmtx' \in SenderState /\ zmtx'.pc = "eof" /\ zmtx'.file = s.file
          /\ zmtx'.readable = s.readable /\ zmtx'.failed = s.failed
      BY <2>1, AtFile DEF SenderState
    <2>3. /\ Extends(toReceiver', toReceiver, Data(zmtx.file))
          /\ toReceiver' \in Seq(RequestFrame)
      BY <1>1, <2>1, AtFile, Subsets, AskedTwice
    <2> QED
      BY <2>2, <2>3 DEF SameFile
  <1> QED
    BY <1>2, <1>3

LEMMA Resumes ==
  ASSUME NEW s, TypeInv, zmtx.pc \in {"ack", "eof"}, MayHear, toSender' \in Seq(ReplyFrame),
         s.attempts < MaxRetries => s \in SenderState, s.file = zmtx.file,
         s.readable = zmtx.readable, s.failed = zmtx.failed, Resume(s)
  PROVE  SenderTyped /\ SenderTurn
  <1>1. CASE s.attempts < MaxRetries /\ SendFrom(s, TRUE) /\ UNCHANGED outcome
    <2>1. /\ zmtx' \in SenderState /\ zmtx'.pc \in {"ack", "eof"} /\ SameFile
          /\ zmtx'.failed = zmtx.failed
          /\ Extends(toReceiver', toReceiver, Data(zmtx.file))
          /\ toReceiver' \in Seq(RequestFrame)
      BY <1>1, SendsFrom
    <2> QED
      BY <1>1, <2>1, AtFile DEF SenderTyped, SenderTurn, Waits, SameFile
  <1>2. CASE Return("failed")
    BY <1>2, Returns
  <1> QED
    BY <1>1, <1>2 DEF Resume

LEMMA OffersAgain ==
  ASSUME TypeInv, zmtx.pc = "offer", MayHear, toSender' \in Seq(ReplyFrame), OfferAgain
  PROVE  SenderTyped /\ SenderTurn
  <1>1. CASE zmtx.attempts + 1 < MaxRetries
    <2>1. /\ zmtx' = [zmtx EXCEPT !.attempts = @ + 1, !.stale_zrinit = FALSE]
          /\ Request(<<Frame("ZFILE", zmtx.file, 0)>>) /\ UNCHANGED outcome
      BY <1>1 DEF OfferAgain
    <2>2. zmtx.attempts \in Nat /\ zmtx.attempts + 1 \in 0 .. MaxRetries
      BY <1>1, AtFile DEF SenderState
    <2>3. zmtx' \in SenderState /\ zmtx'.pc = zmtx.pc /\ SameFile /\ zmtx'.failed = zmtx.failed
      BY <2>1, <2>2, AtFile DEF SenderState, SameFile
    <2>4. Frame("ZFILE", zmtx.file, 0) \in Ask(zmtx.file)
      BY AtFile, Frames
    <2>5. /\ Extends(toReceiver', toReceiver, Ask(zmtx.file))
          /\ toReceiver' \in Seq(RequestFrame)
      BY <2>1, <2>4, AtFile, Subsets, Asked
    <2> QED
      BY <2>1, <2>3, <2>5, AtFile DEF SenderTyped, SenderTurn, Waits, SameFile
  <1>2. CASE Return("failed")
    BY <1>2, Returns
  <1> QED
    BY <1>1, <1>2 DEF OfferAgain

LEMMA FinishesAgain ==
  ASSUME TypeInv, zmtx.pc = "eof", MayHear, toSender' \in Seq(ReplyFrame), FinishAgain
  PROVE  SenderTyped /\ SenderTurn
  <1>1. CASE zmtx.finish_attempts + 1 < MaxRetries
    <2>1. /\ zmtx' = [zmtx EXCEPT !.finish_attempts = @ + 1]
          /\ Request(<<Frame("ZEOF", 0, 1)>>) /\ UNCHANGED outcome
      BY <1>1 DEF FinishAgain
    <2>2. zmtx.finish_attempts \in Nat /\ zmtx.finish_attempts + 1 \in 0 .. MaxRetries
      BY <1>1, AtFile DEF SenderState
    <2>3. zmtx' \in SenderState /\ zmtx'.pc = zmtx.pc /\ SameFile /\ zmtx'.failed = zmtx.failed
      BY <2>1, <2>2, AtFile DEF SenderState, SameFile
    <2>4. Frame("ZEOF", 0, 1) \in Data(zmtx.file)
      BY AtFile, Frames
    <2>5. /\ Extends(toReceiver', toReceiver, Data(zmtx.file))
          /\ toReceiver' \in Seq(RequestFrame)
      BY <2>1, <2>4, AtFile, Subsets, Asked
    <2> QED
      BY <2>1, <2>3, <2>5, AtFile DEF SenderTyped, SenderTurn, Waits, SameFile
  <1>2. CASE Return("failed")
    BY <1>2, Returns
  <1> QED
    BY <1>1, <1>2 DEF FinishAgain

\* ZRQINIT and ZFIN are repeated in the same way.
LEMMA RepeatsOrExits ==
  ASSUME NEW f, f \in Talk, TypeInv, zmtx.pc \in {"contact", "fin"}, MayHear,
         toSender' \in Seq(ReplyFrame), outcome' = outcome,
         IF zmtx.attempts < MaxRetries
         THEN zmtx' = [zmtx EXCEPT !.attempts = @ + 1] /\ Request(<<f>>)
         ELSE /\ zmtx' = [zmtx EXCEPT !.pc = "exit", !.failed = TRUE]
              /\ UNCHANGED toReceiver
  PROVE  SenderTyped /\ SenderTurn
  <1>1. CASE zmtx.attempts < MaxRetries
    <2>1. zmtx' = [zmtx EXCEPT !.attempts = @ + 1] /\ Request(<<f>>)
      BY <1>1
    <2>2. zmtx.attempts \in Nat /\ zmtx.attempts + 1 \in 0 .. MaxRetries
      BY <1>1, AtFile DEF SenderState
    <2>3. zmtx' \in SenderState /\ zmtx'.pc = zmtx.pc /\ SameFile /\ zmtx'.failed = zmtx.failed
      BY <2>1, <2>2, AtFile DEF SenderState, SameFile
    <2>4. Extends(toReceiver', toReceiver, Talk) /\ toReceiver' \in Seq(RequestFrame)
      BY <2>1, AtFile, Subsets, Asked
    <2> QED
      BY <2>3, <2>4, AtFile DEF SenderTyped, SenderTurn, Waits
  <1>2. CASE ~(zmtx.attempts < MaxRetries)
    <2>1. /\ zmtx' = [zmtx EXCEPT !.pc = "exit", !.failed = TRUE]
          /\ toReceiver' = toReceiver
      BY <1>2
    <2>2. zmtx' \in SenderState /\ zmtx'.pc = "exit" /\ SameFile /\ zmtx'.failed
      BY <2>1, AtFile DEF SenderState, SameFile
    <2>3. Extends(toReceiver', toReceiver, Talk) /\ toReceiver' \in Seq(RequestFrame)
      BY <2>1, AtFile, NothingAsked
    <2> QED
      BY <2>2, <2>3, AtFile DEF SenderTyped, SenderTurn, Exits
  <1> QED
    BY <1>1, <1>2

\* What zmtx does when it has read a header.
LEMMA SenderActs ==
  ASSUME TypeInv, SenderNext
  PROVE  SenderTyped /\ SenderTurn
  <1>1. CASE ContactMade
    <2>1. zmtx.pc = "contact" /\ TakeReply({"ZRINIT"}) /\ NextFile(zmtx, outcome)
      BY <1>1 DEF ContactMade
    <2>2. MayHear /\ toSender' \in Seq(ReplyFrame)
      BY <2>1, Taken
    <2>3. /\ GoesTo(zmtx.file, outcome)
          /\ zmtx' \in SenderState /\ outcome' \in Outcomes /\ toReceiver' \in Seq(RequestFrame)
          /\ zmtx'.pc \in {"offer", "ack", "eof"} => zmtx'.file <= zmtx'.readable
      BY <2>1, AtFile, NextIsOffered
    <2> QED
      BY <2>1, <2>2, <2>3 DEF SenderTyped, SenderTurn, GoesOn
  <1>2. CASE OfferWaits
    <2>1. /\ zmtx.pc = "offer" /\ TakeReply({"ZACK", "ZRINIT"})
          /\ zmtx' = [zmtx EXCEPT !.stale_zrinit = @ \/ reply.type = "ZRINIT"]
          /\ toReceiver' = toReceiver /\ outcome' = outcome
      BY <1>2 DEF OfferWaits
    <2>2. MayHear /\ toSender' \in Seq(ReplyFrame)
      BY <2>1, Taken
    <2> DEFINE stale == zmtx.stale_zrinit \/ reply.type = "ZRINIT"
    <2>3. stale \in BOOLEAN /\ zmtx' = [zmtx EXCEPT !.stale_zrinit = stale]
      BY <2>1
    <2> HIDE DEF stale
    <2>4. zmtx' \in SenderState /\ zmtx'.pc = zmtx.pc /\ SameFile /\ zmtx'.failed = zmtx.failed
      BY <2>3, AtFile DEF SenderState, SameFile
    <2>5. Extends(toReceiver', toReceiver, Talk) /\ toReceiver' \in Seq(RequestFrame)
      BY <2>1, AtFile, NothingAsked
    <2> QED
      BY <2>1, <2>2, <2>4, <2>5, AtFile DEF SenderTyped, SenderTurn, Waits, SameFile
  <1>3. CASE OfferRefused
    <2>1. zmtx.pc = "offer" /\ OfferAgain /\ TakeReply(ReplyType \ {"ZACK", "ZSKIP", "ZRPOS"})
      BY <1>3 DEF OfferRefused
    <2> QED
      BY <2>1, Taken, OffersAgain
  <1>4. CASE OfferSkipped
    <2>1. zmtx.pc = "offer" /\ TakeReply({"ZSKIP"}) /\ Return("skipped")
      BY <1>4 DEF OfferSkipped
    <2>2. MayHear /\ Heard("ZSKIP") /\ toSender' \in Seq(ReplyFrame)
      BY <2>1, Taken
    <2> QED
      BY <2>1, <2>2, Returns
  <1>5. CASE OfferAccepted
    <2> DEFINE s == [zmtx EXCEPT !.pos = reply.pos, !.attempts = 0,
                                 !.furthest_attempted = reply.pos,
                                 !.furthest_receiver = reply.pos]
    <2>1. /\ zmtx.pc = "offer" /\ TakeReply({"ZRPOS"}) /\ SendFrom(s, FALSE)
          /\ outcome' = outcome
      BY <1>5 DEF OfferAccepted
    <2>2. Heard("ZRPOS") /\ reply \in ReplyFrame /\ toSender' \in Seq(ReplyFrame)
      BY <2>1, Taken
    <2>3. reply.pos \in 0 .. 1
      BY <2>2 DEF ReplyFrame
    <2>4. /\ s \in SenderState /\ s.file = zmtx.file /\ s.readable = zmtx.readable
          /\ s.failed = zmtx.failed
      BY <2>3, AtFile DEF SenderState
    <2> HIDE DEF s
    <2>5. /\ zmtx' \in SenderState /\ zmtx'.pc \in {"ack", "eof"} /\ SameFile
          /\ zmtx'.failed = zmtx.failed
          /\ Extends(toReceiver', toReceiver, Data(zmtx.file))
          /\ toReceiver' \in Seq(RequestFrame)
      BY <2>1, <2>4, SendsFrom
    <2> QED
      BY <2>1, <2>2, <2>5, AtFile DEF SenderTyped, SenderTurn, Accepts, SameFile
  <1>6. CASE DataAcknowledged
    <2>1. zmtx.pc = "ack" /\ TakeReply({"ZACK"}) /\ outcome' = outcome
      BY <1>6 DEF DataAcknowledged
    <2>2. MayHear /\ toSender' \in Seq(ReplyFrame)
      BY <2>1, Taken
    <2>3. CASE reply.pos = 1
      <3>1. /\ zmtx' = [zmtx EXCEPT !.pc = "eof", !.finish_attempts = 0]
            /\ Request(<<Frame("ZEOF", 0, 1)>>)
        BY <1>6, <2>3 DEF DataAcknowledged
      <3>2. /\ zmtx' \in SenderState /\ zmtx'.pc = "eof" /\ SameFile
            /\ zmtx'.failed = zmtx.failed
        BY <3>1, AtFile DEF SenderState, SameFile
      <3>3. Frame("ZEOF", 0, 1) \in Data(zmtx.file)
        BY AtFile, Frames
      <3>4. /\ Extends(toReceiver', toReceiver, Data(zmtx.file))
            /\ toReceiver' \in Seq(RequestFrame)
        BY <3>1, <3>3, AtFile, Subsets, Asked
      <3> QED
        BY <2>1, <2>2, <3>2, <3>4, AtFile DEF SenderTyped, SenderTurn, Waits, SameFile
    <2>4. CASE reply.pos # 1
      <3>1. zmtx' = zmtx /\ toReceiver' = toReceiver
        BY <1>6, <2>4 DEF DataAcknowledged
      <3>2. Extends(toReceiver', toReceiver, Talk)
        BY <3>1, AtFile, NothingAsked
      <3> QED
        BY <2>1, <2>2, <3>1, <3>2, AtFile DEF SenderTyped, SenderTurn, Waits, SameFile
    <2> QED
      BY <2>3, <2>4
  <1>7. CASE Repositioned
    <2>1. zmtx.pc \in {"ack", "eof"} /\ TakeReply({"ZRPOS"}) /\ Reposition
      BY <1>7 DEF Repositioned
    <2>2. MayHear /\ reply \in ReplyFrame /\ toSender' \in Seq(ReplyFrame)
      BY <2>1, Taken
    <2>3. reply.pos \in 0 .. 1
      BY <2>2 DEF ReplyFrame
    <2>4. CASE reply.pos > zmtx.furthest_receiver
      <3> DEFINE s == [zmtx EXCEPT !.pos = reply.pos, !.furthest_receiver = reply.pos,
                                   !.furthest_attempted = reply.pos, !.attempts = 0]
      <3>1. Resume(s)
        BY <2>1, <2>4 DEF Reposition
      <3>2. /\ s \in SenderState /\ s.file = zmtx.file /\ s.readable = zmtx.readable
            /\ s.failed = zmtx.failed
        BY <2>3, AtFile DEF SenderState
      <3> HIDE DEF s
      <3> QED
        BY <2>1, <2>2, <3>1, <3>2, Resumes
    <2>5. CASE ~(reply.pos > zmtx.furthest_receiver)
      <3> DEFINE s == [zmtx EXCEPT !.pos = reply.pos, !.attempts = @ + 1]
      <3>1. Resume(s)
        BY <2>1, <2>5 DEF Reposition
      <3>2. /\ s.attempts < MaxRetries => s \in SenderState
            /\ s.file = zmtx.file /\ s.readable = zmtx.readable /\ s.failed = zmtx.failed
        <4>1. s.attempts = zmtx.attempts + 1 /\ zmtx.attempts \in Nat
          BY AtFile DEF SenderState
        <4>2. s.attempts < MaxRetries => s.attempts \in 0 .. MaxRetries
          BY <4>1, AtFile
        <4>3. s.attempts \in 0 .. MaxRetries => s \in SenderState
          BY <2>3, AtFile DEF SenderState
        <4>4. s.file = zmtx.file /\ s.readable = zmtx.readable /\ s.failed = zmtx.failed
          BY AtFile DEF SenderState
        <4> QED
          BY <4>2, <4>3, <4>4
      <3> HIDE DEF s
      <3> QED
        BY <2>1, <2>2, <3>1, <3>2, Resumes
    <2> QED
      BY <2>4, <2>5
  <1>8. CASE FileEnded
    <2> DEFINE result == IF reply.type = "ZSKIP" THEN "skipped" ELSE "failed"
    <2>1. PICK types : TakeReply(types)
      BY <1>8 DEF FileEnded
    <2>2. zmtx.pc \in {"ack", "eof"} /\ Return(result)
      BY <1>8 DEF FileEnded
    <2>3. /\ MayHear /\ toSender' \in Seq(ReplyFrame)
          /\ reply.type = "ZSKIP" => Heard("ZSKIP")
      BY <2>1, Taken
    <2>4. /\ result \in {"sent", "skipped", "failed"} /\ result # "sent"
          /\ result = "skipped" => Heard("ZSKIP")
      BY <2>3
    <2> HIDE DEF result
    <2> QED
      BY <2>2, <2>3, <2>4, Returns
  <1>9. CASE Finished
    <2>1. zmtx.pc = "eof" /\ TakeReply({"ZRINIT"}) /\ Return("sent")
      BY <1>9 DEF Finished
    <2>2. MayHear /\ Heard("ZRINIT") /\ toSender' \in Seq(ReplyFrame)
      BY <2>1, Taken
    <2> QED
      BY <2>1, <2>2, Returns
  <1>10. CASE CloseHeard
    <2>1. /\ zmtx.pc = "fin" /\ TakeReply({"ZFIN"}) /\ zmtx' = [zmtx EXCEPT !.pc = "exit"]
          /\ Request(<<Plain("OO")>>) /\ outcome' = outcome
      BY <1>10 DEF CloseHeard
    <2>2. MayHear /\ toSender' \in Seq(ReplyFrame)
      BY <2>1, Taken
    <2>3. zmtx' \in SenderState /\ zmtx'.pc = "exit" /\ SameFile /\ zmtx'.failed = zmtx.failed
      BY <2>1, AtFile DEF SenderState, SameFile
    <2>4. Extends(toReceiver', toReceiver, Talk) /\ toReceiver' \in Seq(RequestFrame)
      BY <2>1, Frames, AtFile, Subsets, Asked
    <2> QED
      BY <2>1, <2>2, <2>3, <2>4, AtFile DEF SenderTyped, SenderTurn, Exits
  <1>11. CASE CloseRefused
    <2>1. /\ zmtx.pc = "fin" /\ TakeReply(ReplyType \ {"ZFIN"}) /\ CloseAgain
          /\ outcome' = outcome
      BY <1>11 DEF CloseRefused
    <2>2. MayHear /\ toSender' \in Seq(ReplyFrame)
      BY <2>1, Taken
    <2> QED
      BY <2>1, <2>2, Frames, RepeatsOrExits DEF CloseAgain
  <1>12. CASE SenderGone
    <2>1. /\ zmtx.pc = "exit" /\ TakeReply(ReplyType)
          /\ toReceiver' = toReceiver /\ zmtx' = zmtx /\ outcome' = outcome
      BY <1>12 DEF SenderGone
    <2>2. MayHear /\ toSender' \in Seq(ReplyFrame)
      BY <2>1, Taken
    <2>3. Extends(toReceiver', toReceiver, Talk)
      BY <2>1, AtFile, NothingAsked
    <2> QED
      BY <2>1, <2>2, <2>3, AtFile DEF SenderTyped, SenderTurn, Waits, SameFile
  <1> QED
    BY <1>1, <1>2, <1>3, <1>4, <1>5, <1>6, <1>7, <1>8, <1>9, <1>10, <1>11, <1>12
    DEF SenderNext

\* What zmtx does when a timer ends.
LEMMA SenderTimes ==
  ASSUME TypeInv, SenderTimer
  PROVE  SenderTyped /\ SenderTurn
  <1>1. CASE ContactTimeout
    <2>1. zmtx.pc = "contact" /\ ContactAgain /\ toSender' = toSender /\ outcome' = outcome
      BY <1>1 DEF ContactTimeout
    <2>2. MayHear /\ toSender' \in Seq(ReplyFrame)
      BY <2>1, AtFile DEF MayHear
    <2> QED
      BY <2>1, <2>2, Frames, RepeatsOrExits DEF ContactAgain
  <1>2. CASE OfferTimeout
    <2>1. zmtx.pc = "offer" /\ OfferAgain /\ toSender' = toSender
      BY <1>2 DEF OfferTimeout
    <2>2. MayHear /\ toSender' \in Seq(ReplyFrame)
      BY <2>1, AtFile DEF MayHear
    <2> QED
      BY <2>1, <2>2, OffersAgain
  <1>3. CASE DataTimeout
    <2>1. zmtx.pc = "ack" /\ StartAgain /\ toSender' = toSender
      BY <1>3 DEF DataTimeout
    <2>2. MayHear /\ toSender' \in Seq(ReplyFrame)
      BY <2>1, AtFile DEF MayHear
    <2>3. CASE 1 > zmtx.furthest_attempted
      <3> DEFINE s == [zmtx EXCEPT !.furthest_attempted = 1, !.attempts = 0]
      <3>1. Resume(s)
        BY <2>1, <2>3 DEF StartAgain
      <3>2. /\ s \in SenderState /\ s.file = zmtx.file /\ s.readable = zmtx.readable
            /\ s.failed = zmtx.failed
        <4>1. zmtx \in SenderState /\ 1 \in 0 .. 1 /\ 0 \in 0 .. MaxRetries
          BY AtFile
        <4> QED
          BY <4>1 DEF SenderState
      <3> HIDE DEF s
      <3> QED
        BY <2>1, <2>2, <3>1, <3>2, Resumes
    <2>4. CASE ~(1 > zmtx.furthest_attempted)
      <3> DEFINE s == [zmtx EXCEPT !.attempts = @ + 1]
      <3>1. Resume(s)
        BY <2>1, <2>4 DEF StartAgain
      <3>2. /\ s.attempts < MaxRetries => s \in SenderState
            /\ s.file = zmtx.file /\ s.readable = zmtx.readable /\ s.failed = zmtx.failed
        <4>1. s.attempts = zmtx.attempts + 1 /\ zmtx.attempts \in Nat
          BY AtFile DEF SenderState
        <4>2. s.attempts < MaxRetries => s.attempts \in 0 .. MaxRetries
          BY <4>1, AtFile
        <4>3. s.attempts \in 0 .. MaxRetries => s \in SenderState
          BY AtFile DEF SenderState
        <4>4. s.file = zmtx.file /\ s.readable = zmtx.readable /\ s.failed = zmtx.failed
          BY AtFile DEF SenderState
        <4> QED
          BY <4>2, <4>3, <4>4
      <3> HIDE DEF s
      <3> QED
        BY <2>1, <2>2, <3>1, <3>2, Resumes
    <2> QED
      BY <2>3, <2>4
  <1>4. CASE FinishTimeout
    <2>1. zmtx.pc = "eof" /\ FinishAgain /\ toSender' = toSender
      BY <1>4 DEF FinishTimeout
    <2>2. MayHear /\ toSender' \in Seq(ReplyFrame)
      BY <2>1, AtFile DEF MayHear
    <2> QED
      BY <2>1, <2>2, FinishesAgain
  <1>5. CASE CloseTimeout
    <2>1. zmtx.pc = "fin" /\ CloseAgain /\ toSender' = toSender /\ outcome' = outcome
      BY <1>5 DEF CloseTimeout
    <2>2. MayHear /\ toSender' \in Seq(ReplyFrame)
      BY <2>1, AtFile DEF MayHear
    <2> QED
      BY <2>1, <2>2, Frames, RepeatsOrExits DEF CloseAgain
  <1> QED
    BY <1>1, <1>2, <1>3, <1>4, <1>5 DEF SenderTimer

----------------------------------------------------------------------------
(* What zmrx does: each of its actions is one of five turns.                *)

Say(types) == {f \in ReplyFrame : f.type \in types}

\* d frames are read, lost or purged.
Reads(d) == d \in Nat /\ Shortens(toReceiver', toReceiver, d)

ReadsHead == toReceiver # << >> /\ toReceiver' = Tail(toReceiver)

KeepsFiles == stored' = stored /\ received' = received

\* It reads a request outside a file, or waits for one.
Talks ==
  /\ zmrx.pc # "header" /\ zmrx'.pc # "header" /\ KeepsFiles
  /\ \E d \in Nat : Reads(d)
  /\ \/ Ended /\ toSender' = toSender /\ zmrx'.pc \in {"over", "exit"}
     \/ ~Ended /\ Extends(toSender', toSender, Say({"ZRINIT", "ZCOMPL", "ZNAK", "ZFIN", "ZFERR"}))
     \/ /\ ~Ended /\ ReadsHead
        /\ toReceiver[1].type = "ZFILE" /\ toReceiver[1].file \notin zmrx.wanted
        /\ Extends(toSender', toSender, Say({"ZSKIP"}))

\* It reads or asks again inside a file, or gives up.
StaysInFile ==
  /\ zmrx.pc = "header" /\ KeepsFiles
  /\ \E d \in Nat : Reads(d)
  /\ \/ zmrx'.pc = "header" /\ zmrx'.file = zmrx.file /\ zmrx'.pos = zmrx.pos
     \/ zmrx'.pc = "over"
  /\ Extends(toSender', toSender, Say({"ZRPOS", "ZFERR", "ZFIN"}))

\* A file it wants is offered.
Opens ==
  /\ zmrx.pc # "header" /\ ReadsHead
  /\ Wanted(toReceiver[1])
  /\ zmrx'.pc = "header" /\ zmrx'.file = toReceiver[1].file
  /\ IF toReceiver[1].file \in received
     THEN zmrx'.pos = 1 /\ stored' = stored
     ELSE zmrx'.pos = 0 /\ stored' = [stored EXCEPT ![toReceiver[1].file] = 0]
  /\ received' = received
  /\ Extends(toSender', toSender, Say({"ZRPOS"}))

\* Data comes for the file it is in.
Stores ==
  /\ zmrx.pc = "header" /\ ReadsHead
  /\ toReceiver[1].type \in {"DATA", "DATAW"}
  /\ zmrx'.pc = "header" /\ zmrx'.file = zmrx.file
  /\ \/ zmrx.pos = 0 /\ stored' = [stored EXCEPT ![zmrx.file] = toReceiver[1].file]
     \/ zmrx.pos = 1 /\ stored' = stored
  /\ received' = received
  /\ Extends(toSender', toSender, Say({"ZACK"}))

\* The file is received.
Completes ==
  /\ zmrx.pc = "header" /\ ReadsHead
  /\ toReceiver[1].type = "ZEOF" /\ toReceiver[1].pos = zmrx.pos
  /\ zmrx'.pc = "session" /\ stored' = stored /\ received' = received \cup {zmrx.file}
  /\ Extends(toSender', toSender, Say({"ZRINIT"}))

ReceiverTurn == Talks \/ StaysInFile \/ Opens \/ Stores \/ Completes

\* The variables of zmrx keep their types.
ReceiverTyped ==
  /\ toReceiver' \in Seq(RequestFrame) /\ toSender' \in Seq(ReplyFrame)
  /\ zmrx' \in ReceiverState /\ zmrx'.wanted = zmrx.wanted
  /\ zmrx'.pc = "header" => zmrx'.file \in File
  /\ stored' \in [File -> 0 .. NFiles] /\ received' \subseteq File

LEMMA InFile ==
  ASSUME TypeInv
  PROVE  /\ zmrx \in ReceiverState /\ toReceiver \in Seq(RequestFrame)
         /\ toSender \in Seq(ReplyFrame)
         /\ stored \in [File -> 0 .. NFiles] /\ received \subseteq File
         /\ zmrx.wanted \subseteq File
         /\ zmrx.pc = "header" => zmrx.file \in File
         /\ File \subseteq 0 .. NFiles
         /\ NFiles \in Nat /\ MaxRetries \in Nat /\ 0 \in 0 .. MaxRetries
  <1>1. /\ zmrx \in ReceiverState /\ toReceiver \in Seq(RequestFrame)
        /\ toSender \in Seq(ReplyFrame)
        /\ stored \in [File -> 0 .. NFiles] /\ received \subseteq File
        /\ zmrx.pc = "header" => zmrx.file \in File
    BY Types DEF TypeInv
  <1>2. zmrx.wanted \subseteq File
    BY <1>1 DEF ReceiverState
  <1>3. NFiles \in Nat /\ MaxRetries \in Nat /\ 0 \in 0 .. MaxRetries
    BY SessionAssumption, LineAssumption
  <1>4. File \subseteq 0 .. NFiles
    BY <1>3 DEF File
  <1> QED
    BY <1>1, <1>2, <1>3, <1>4

\* zmrx sends nothing, a frame or some.
LEMMA Answered ==
  ASSUME NEW types, NEW frames, TypeInv, Answer(frames),
         \/ frames = << >>
         \/ \E f \in Say(types) : frames = <<f>>
         \/ frames \in Seq(Say(types))
  PROVE  Extends(toSender', toSender, Say(types)) /\ toSender' \in Seq(ReplyFrame)
  <1> DEFINE S == Say(types)
  <1>1. frames \in Seq(S)
    <2> HIDE DEF S
    <2>1. \A f \in S : <<f>> \in Seq(S)
      OBVIOUS
    <2>2. << >> \in Seq(S)
      OBVIOUS
    <2> QED
      BY <2>1, <2>2 DEF S
  <1>2. Extends(toSender', toSender, Say(types))
    BY <1>1 DEF Answer, Extends
  <1>3. Say(types) \subseteq ReplyFrame
    BY DEF Say
  <1> QED
    BY <1>2, <1>3, InFile, Extended

LEMMA Replies ==
  ASSUME NEW types, types \subseteq ReplyType
  PROVE  \A type \in types :
           /\ Plain(type) \in Say(types)
           /\ \A pos \in 0 .. 1 : Frame(type, 0, pos) \in Say(types)
  BY DEF Plain, Frame, Say, ReplyFrame

\* The head of the line is read.
LEMMA TakenRequest ==
  ASSUME NEW types, TypeInv, TakeRequest(types)
  PROVE  /\ ReadsHead /\ Reads(1) /\ request = toReceiver[1] /\ request \in RequestFrame
         /\ request.type \in types /\ toReceiver' \in Seq(RequestFrame)
  <1>1. toReceiver # << >> /\ toReceiver' = Tail(toReceiver) /\ request.type \in types
    BY DEF TakeRequest
  <1>2. /\ request = toReceiver[1] /\ toReceiver[1] \in RequestFrame
        /\ Tail(toReceiver) \in Seq(RequestFrame)
        /\ Shortens(Tail(toReceiver), toReceiver, 1)
    BY <1>1, InFile, TakenShortens DEF request
  <1> QED
    BY <1>1, <1>2 DEF ReadsHead, Reads

\* Nothing is read.
LEMMA NothingRead ==
  ASSUME TypeInv, toReceiver' = toReceiver
  PROVE  Reads(0) /\ toReceiver' \in Seq(RequestFrame)
  <1> DEFINE n == Len(toReceiver)
  <1>1. n \in Nat /\ toReceiver \in Seq(RequestFrame)
    BY InFile
  <1> HIDE DEF n
  <1>2. 0 \in 0 .. n /\ n = n - 0 /\ \A i \in 1 .. n - 0 : i + 0 \in 1 .. n /\ i + 0 = i
    BY <1>1
  <1> QED
    BY <1>1, <1>2 DEF Reads, Shortens, n

LEMMA WaitingTyped ==
  ASSUME TypeInv
  PROVE  /\ Waiting \in ReceiverState /\ Waiting.pc = "session" /\ Waiting.wanted = zmrx.wanted
         /\ Waiting.file = zmrx.file /\ Waiting.pos = zmrx.pos
  BY InFile DEF Waiting, ReceiverState

LEMMA Leaves ==
  ASSUME NEW error, NEW types, types \subseteq ReplyType, "ZFIN" \in types,
         TypeInv, Leave(TRUE, error) \/ Leave(FALSE, error),
         error = << >> \/ (error = <<Plain("ZFERR")>> /\ "ZFERR" \in types)
  PROVE  /\ zmrx' \in ReceiverState /\ zmrx'.pc = "over" /\ zmrx'.wanted = zmrx.wanted
         /\ Extends(toSender', toSender, Say(types)) /\ toSender' \in Seq(ReplyFrame)
  <1>1. \/ zmrx' = [zmrx EXCEPT !.pc = "over", !.failed = TRUE]
        \/ zmrx' = [zmrx EXCEPT !.pc = "over", !.failed = FALSE]
    BY DEF Leave
  <1>2. zmrx' \in ReceiverState /\ zmrx'.pc = "over" /\ zmrx'.wanted = zmrx.wanted
    BY <1>1, InFile DEF ReceiverState
  <1> DEFINE frames == error \o <<Plain("ZFIN")>>
  <1>3. Answer(frames)
    BY DEF Leave
  <1>4. Plain("ZFIN") \in Say(types) /\ ("ZFERR" \in types => Plain("ZFERR") \in Say(types))
    BY Replies
  <1> DEFINE S == Say(types)
  <1>5. frames \in Seq(S)
    <2>1. \A f \in S : <<f>> \in Seq(S)
      OBVIOUS
    <2>2. << >> \in Seq(S)
      OBVIOUS
    <2>3. Plain("ZFIN") \in S /\ ("ZFERR" \in types => Plain("ZFERR") \in S)
      BY <1>4
    <2> HIDE DEF S
    <2>4. error \in Seq(S) /\ <<Plain("ZFIN")>> \in Seq(S)
      BY <2>1, <2>2, <2>3
    <2> QED
      BY <2>4
  <1> HIDE DEF frames
  <1>6. Extends(toSender', toSender, Say(types)) /\ toSender' \in Seq(ReplyFrame)
    BY <1>3, <1>4, <1>5, Answered
  <1> QED
    BY <1>2, <1>6

LEMMA AsksAgain ==
  ASSUME TypeInv, zmrx.pc = "header", AskAgain
  PROVE  /\ zmrx' \in ReceiverState /\ zmrx'.wanted = zmrx.wanted
         /\ \/ zmrx'.pc = "header" /\ zmrx'.file = zmrx.file /\ zmrx'.pos = zmrx.pos
            \/ zmrx'.pc = "over"
         /\ Extends(toSender', toSender, Say({"ZRPOS", "ZFERR", "ZFIN"}))
         /\ toSender' \in Seq(ReplyFrame)
  <1> DEFINE types == {"ZRPOS", "ZFERR", "ZFIN"}
  <1>1. types \subseteq ReplyType
    BY DEF ReplyType
  <1>2. CASE zmrx.errors + 1 < MaxRetries
    <2>1. /\ zmrx' = [zmrx EXCEPT !.errors = @ + 1]
          /\ Answer(<<Frame("ZRPOS", 0, zmrx.pos)>>)
      BY <1>2 DEF AskAgain
    <2>2. zmrx.errors \in Nat /\ zmrx.errors + 1 \in 0 .. MaxRetries
      BY <1>2, InFile DEF ReceiverState
    <2>3. /\ zmrx' \in ReceiverState /\ zmrx'.wanted = zmrx.wanted
          /\ zmrx'.pc = zmrx.pc /\ zmrx'.file = zmrx.file /\ zmrx'.pos = zmrx.pos
      BY <2>1, <2>2, InFile DEF ReceiverState
    <2>4. zmrx.pos \in 0 .. 1
      BY InFile DEF ReceiverState
    <2>5. Frame("ZRPOS", 0, zmrx.pos) \in Say(types)
      BY <1>1, <2>4, Replies
    <2> HIDE DEF types
    <2>6. Extends(toSender', toSender, Say(types)) /\ toSender' \in Seq(ReplyFrame)
      BY <2>1, <2>5, Answered
    <2> QED
      BY <2>3, <2>6 DEF types
  <1>3. CASE ~(zmrx.errors + 1 < MaxRetries)
    <2>1. Leave(TRUE, <<Plain("ZFERR")>>)
      BY <1>3 DEF AskAgain
    <2>2. /\ zmrx' \in ReceiverState /\ zmrx'.pc = "over" /\ zmrx'.wanted = zmrx.wanted
          /\ Extends(toSender', toSender, Say(types)) /\ toSender' \in Seq(ReplyFrame)
      BY <1>1, <2>1, Leaves
    <2> QED
      BY <2>2
  <1> QED
    BY <1>2, <1>3

LEMMA InvitesAgain ==
  ASSUME NEW types, types \subseteq ReplyType, "ZRINIT" \in types,
         TypeInv, zmrx.pc = "contact", InviteAgain
  PROVE  /\ zmrx' \in ReceiverState /\ zmrx'.wanted = zmrx.wanted
         /\ zmrx'.pc \in {"contact", "exit"}
         /\ Extends(toSender', toSender, Say(types)) /\ toSender' \in Seq(ReplyFrame)
  <1>1. CASE zmrx.attempts < MaxRetries
    <2>1. zmrx' = [zmrx EXCEPT !.attempts = @ + 1] /\ Answer(<<Plain("ZRINIT")>>)
      BY <1>1 DEF InviteAgain
    <2>2. zmrx.attempts \in Nat /\ zmrx.attempts + 1 \in 0 .. MaxRetries
      BY <1>1, InFile DEF ReceiverState
    <2>3. zmrx' \in ReceiverState /\ zmrx'.wanted = zmrx.wanted /\ zmrx'.pc = "contact"
      BY <2>1, <2>2, InFile DEF ReceiverState
    <2>4. Extends(toSender', toSender, Say(types)) /\ toSender' \in Seq(ReplyFrame)
      BY <2>1, Replies, Answered
    <2> QED
      BY <2>3, <2>4
  <1>2. CASE ~(zmrx.attempts < MaxRetries)
    <2>1. zmrx' = [zmrx EXCEPT !.pc = "exit", !.failed = TRUE] /\ toSender' = toSender
      BY <1>2 DEF InviteAgain
    <2>2. zmrx' \in ReceiverState /\ zmrx'.wanted = zmrx.wanted /\ zmrx'.pc = "exit"
      BY <2>1, InFile DEF ReceiverState
    <2>3. toSender' = toSender \o << >>
      BY <2>1, InFile
    <2>4. Extends(toSender', toSender, Say(types)) /\ toSender' \in Seq(ReplyFrame)
      BY <2>3, Answered DEF Answer
    <2> QED
      BY <2>2, <2>4
  <1> QED
    BY <1>1, <1>2

\* What zmrx answers outside a file.
Talking == {"ZRINIT", "ZCOMPL", "ZNAK", "ZFIN", "ZFERR"}
InFileSaying == {"ZRPOS", "ZFERR", "ZFIN"}

LEMMA ReplyTypes ==
  Talking \subseteq ReplyType /\ InFileSaying \subseteq ReplyType /\ {"ZSKIP"} \subseteq ReplyType
  /\ {"ZRPOS"} \subseteq ReplyType /\ {"ZACK"} \subseteq ReplyType /\ {"ZRINIT"} \subseteq ReplyType
  BY DEF Talking, InFileSaying, ReplyType

\* Nothing is said.
LEMMA Silently ==
  ASSUME NEW types, TypeInv, toSender' = toSender
  PROVE  Extends(toSender', toSender, Say(types)) /\ toSender' \in Seq(ReplyFrame)
  <1>1. Answer(<< >>)
    BY InFile DEF Answer
  <1> QED
    BY <1>1, Answered

\* A request is answered outside a file, and zmrx stays in the session or leaves it.
LEMMA TalksOutside ==
  ASSUME TypeInv, zmrx.pc \in {"contact", "session"}, stored' = stored, received' = received,
         zmrx' \in ReceiverState, zmrx'.wanted = zmrx.wanted, zmrx'.pc # "header",
         toReceiver' \in Seq(RequestFrame), Reads(0) \/ Reads(1),
         toSender' \in Seq(ReplyFrame), Extends(toSender', toSender, Say(Talking))
  PROVE  ReceiverTyped /\ ReceiverTurn
  <1>1. \E d \in Nat : Reads(d)
    OBVIOUS
  <1>2. Talks
    BY <1>1 DEF Talks, KeepsFiles, Ended, Talking
  <1> QED
    BY <1>2, InFile DEF ReceiverTyped, ReceiverTurn

\* Inside a file nothing is stored.
LEMMA StaysInside ==
  ASSUME NEW d, d \in Nat, TypeInv, zmrx.pc = "header", stored' = stored, received' = received,
         zmrx' \in ReceiverState, zmrx'.wanted = zmrx.wanted,
         \/ zmrx'.pc = "header" /\ zmrx'.file = zmrx.file /\ zmrx'.pos = zmrx.pos
         \/ zmrx'.pc = "over",
         toReceiver' \in Seq(RequestFrame), Reads(d),
         toSender' \in Seq(ReplyFrame), Extends(toSender', toSender, Say(InFileSaying))
  PROVE  ReceiverTyped /\ ReceiverTurn
  <1>1. StaysInFile
    BY DEF StaysInFile, KeepsFiles, InFileSaying
  <1> QED
    BY <1>1, InFile DEF ReceiverTyped, ReceiverTurn

\* After the session, nothing is said.
LEMMA TalksAfter ==
  ASSUME TypeInv, zmrx.pc \in {"over", "exit"}, stored' = stored, received' = received,
         zmrx' \in ReceiverState, zmrx'.wanted = zmrx.wanted, zmrx'.pc \in {"over", "exit"},
         toReceiver' \in Seq(RequestFrame), Reads(0) \/ Reads(1), toSender' = toSender
  PROVE  ReceiverTyped /\ ReceiverTurn
  <1>1. \E d \in Nat : Reads(d)
    OBVIOUS
  <1>2. Talks
    BY <1>1 DEF Talks, KeepsFiles, Ended
  <1> QED
    BY <1>2, InFile DEF ReceiverTyped, ReceiverTurn

\* What zmrx does with a file offered.
LEMMA OfferTaken ==
  ASSUME TypeInv, Offered
  PROVE  ReceiverTyped /\ ReceiverTurn
  <1>1. zmrx.pc \in {"contact", "session"} /\ TakeRequest({"ZFILE"}) /\ received' = received
    BY DEF Offered, InSession
  <1>2. /\ ReadsHead /\ Reads(1) /\ request = toReceiver[1] /\ request \in RequestFrame
        /\ request.type = "ZFILE" /\ toReceiver' \in Seq(RequestFrame)
    BY <1>1, TakenRequest
  <1>3. CASE request.file \in zmrx.wanted
    <2> DEFINE pos == IF request.file \in received THEN 1 ELSE 0
               state == [Waiting EXCEPT !.pc = "header", !.errors = 0, !.file = request.file,
                                        !.pos = pos]
    <2>1. /\ zmrx' = state
          /\ stored' = [stored EXCEPT ![request.file] = IF pos = 0 THEN 0 ELSE @]
          /\ Answer(<<Frame("ZRPOS", 0, pos)>>)
      BY <1>3 DEF Offered
    <2>2. request.file \in File /\ request.file \in 0 .. NFiles /\ pos \in 0 .. 1
      BY <1>3, InFile
    <2>3. Frame("ZRPOS", 0, pos) \in Say({"ZRPOS"})
      BY <2>2, ReplyTypes, Replies
    <2>4. IF request.file \in received
          THEN pos = 1 /\ stored' = stored
          ELSE pos = 0 /\ stored' = [stored EXCEPT ![request.file] = 0]
      BY <2>1, <2>2, InFile
    <2> HIDE DEF pos
    <2>5. /\ state \in ReceiverState /\ state.pc = "header" /\ state.wanted = zmrx.wanted
          /\ state.file = request.file /\ state.pos = pos
      BY <2>2, InFile, WaitingTyped DEF ReceiverState
    <2> HIDE DEF state
    <2>6. /\ Extends(toSender', toSender, Say({"ZRPOS"})) /\ toSender' \in Seq(ReplyFrame)
      BY <2>1, <2>3, Answered
    <2>7. Wanted(toReceiver[1])
      BY <1>2, <1>3 DEF Wanted
    <2>8. Opens
      BY <1>1, <1>2, <2>1, <2>4, <2>5, <2>6, <2>7 DEF Opens
    <2>9. stored' \in [File -> 0 .. NFiles]
      BY <2>1, <2>2, InFile
    <2> QED
      BY <1>1, <1>2, <2>1, <2>2, <2>5, <2>6, <2>8, <2>9, InFile DEF ReceiverTyped, ReceiverTurn
  <1>4. CASE request.file \notin zmrx.wanted
    <2>1. zmrx' = Waiting /\ Answer(<<Plain("ZSKIP")>>) /\ stored' = stored
      BY <1>4 DEF Offered
    <2>2. Extends(toSender', toSender, Say({"ZSKIP"})) /\ toSender' \in Seq(ReplyFrame)
      BY <2>1, ReplyTypes, Replies, Answered
    <2>3. Talks
      BY <1>1, <1>2, <1>4, <2>1, <2>2, WaitingTyped DEF Talks, KeepsFiles, Ended
    <2> QED
      BY <1>1, <1>2, <2>1, <2>2, <2>3, InFile, WaitingTyped DEF ReceiverTyped, ReceiverTurn
  <1> QED
    BY <1>3, <1>4

LEMMA DataStored ==
  ASSUME TypeInv, Store
  PROVE  ReceiverTyped /\ ReceiverTurn
  <1>1. /\ zmrx.pc = "header" /\ TakeRequest({"DATA", "DATAW"})
        /\ zmrx' = [zmrx EXCEPT !.pos = 1, !.errors = 0]
        /\ stored' = [stored EXCEPT ![zmrx.file] = IF zmrx.pos = 0 THEN request.file ELSE @]
        /\ Answer(IF request.type = "DATAW" THEN <<Frame("ZACK", 0, 1)>> ELSE << >>)
        /\ received' = received
    BY DEF Store
  <1>2. /\ ReadsHead /\ Reads(1) /\ request = toReceiver[1] /\ request \in RequestFrame
        /\ request.type \in {"DATA", "DATAW"} /\ toReceiver' \in Seq(RequestFrame)
    BY <1>1, TakenRequest
  <1>3. /\ zmrx' \in ReceiverState /\ zmrx'.wanted = zmrx.wanted /\ zmrx'.pc = "header"
        /\ zmrx'.file = zmrx.file
    <2>1. zmrx \in ReceiverState /\ 1 \in 0 .. 1 /\ 0 \in 0 .. MaxRetries
      BY InFile
    <2> QED
      BY <1>1, <2>1 DEF ReceiverState
  <1>4. zmrx.pos \in 0 .. 1 /\ request.file \in 0 .. NFiles
    BY <1>2, InFile DEF ReceiverState, RequestFrame
  <1>5. /\ stored' \in [File -> 0 .. NFiles]
        /\ \/ zmrx.pos = 0 /\ stored' = [stored EXCEPT ![zmrx.file] = toReceiver[1].file]
           \/ zmrx.pos = 1 /\ stored' = stored
    <2>1. zmrx.file \in File /\ stored \in [File -> 0 .. NFiles]
      BY <1>1, InFile
    <2>2. CASE zmrx.pos = 0
      BY <1>1, <1>2, <1>4, <2>1, <2>2
    <2>3. CASE zmrx.pos = 1
      BY <1>1, <1>2, <1>4, <2>1, <2>3
    <2> QED
      BY <1>4, <2>2, <2>3
  <1>6. Frame("ZACK", 0, 1) \in Say({"ZACK"})
    BY ReplyTypes, Replies
  <1> DEFINE frames == IF request.type = "DATAW" THEN <<Frame("ZACK", 0, 1)>> ELSE << >>
  <1>7. Answer(frames) /\ (frames = << >> \/ frames = <<Frame("ZACK", 0, 1)>>)
    BY <1>1
  <1> HIDE DEF frames
  <1>8. Extends(toSender', toSender, Say({"ZACK"})) /\ toSender' \in Seq(ReplyFrame)
    BY <1>6, <1>7, Answered
  <1>9. Stores
    BY <1>1, <1>2, <1>3, <1>5, <1>8 DEF Stores
  <1> QED
    BY <1>1, <1>2, <1>3, <1>5, <1>8, <1>9, InFile DEF ReceiverTyped, ReceiverTurn

LEMMA FileCompleted ==
  ASSUME TypeInv, Completed
  PROVE  ReceiverTyped /\ ReceiverTurn
  <1>1. /\ zmrx.pc = "header" /\ TakeRequest({"ZEOF"}) /\ request.pos = zmrx.pos
        /\ zmrx' = Waiting /\ received' = received \cup {zmrx.file}
        /\ Answer(<<Plain("ZRINIT")>>) /\ stored' = stored
    BY DEF Completed
  <1>2. /\ ReadsHead /\ Reads(1) /\ request = toReceiver[1] /\ request.type = "ZEOF"
        /\ toReceiver' \in Seq(RequestFrame)
    BY <1>1, TakenRequest
  <1>3. Extends(toSender', toSender, Say({"ZRINIT"})) /\ toSender' \in Seq(ReplyFrame)
    BY <1>1, ReplyTypes, Replies, Answered
  <1>4. Completes
    BY <1>1, <1>2, <1>3, WaitingTyped DEF Completes
  <1> QED
    BY <1>1, <1>2, <1>3, <1>4, InFile, WaitingTyped DEF ReceiverTyped, ReceiverTurn

\* What zmrx does when it has read a request.
LEMMA ReceiverActs ==
  ASSUME TypeInv, ReceiverNext
  PROVE  ReceiverTyped /\ ReceiverTurn
  <1>1. CASE ContactInvited
    <2>1. /\ zmrx.pc = "contact" /\ TakeRequest({"ZRQINIT"}) /\ InviteAgain
          /\ stored' = stored /\ received' = received
      BY <1>1 DEF ContactInvited
    <2>2. /\ zmrx' \in ReceiverState /\ zmrx'.wanted = zmrx.wanted
          /\ zmrx'.pc \in {"contact", "exit"}
          /\ Extends(toSender', toSender, Say(Talking)) /\ toSender' \in Seq(ReplyFrame)
      BY <2>1, ReplyTypes, InvitesAgain DEF Talking
    <2> QED
      BY <2>1, <2>2, TakenRequest, TalksOutside
  <1>2. CASE Invite
    <2>1. /\ zmrx.pc \in {"contact", "session"} /\ TakeRequest({"ZRQINIT", "ZEOF"})
          /\ zmrx' = Waiting /\ Answer(<<Plain("ZRINIT")>>)
          /\ stored' = stored /\ received' = received
      BY <1>2 DEF Invite, InSession
    <2>2. Plain("ZRINIT") \in Say(Talking)
      BY ReplyTypes, Replies DEF Talking
    <2>3. Extends(toSender', toSender, Say(Talking)) /\ toSender' \in Seq(ReplyFrame)
      BY <2>1, <2>2, Answered
    <2> QED
      BY <2>1, <2>3, WaitingTyped, TakenRequest, TalksOutside
  <1>3. CASE Offered
    BY <1>3, OfferTaken
  <1>4. CASE Unexpected
    <2>1. /\ zmrx.pc \in {"contact", "session"} /\ TakeRequest({"DATA", "DATAW"})
          /\ zmrx' = Waiting /\ Answer(<<Plain("ZCOMPL")>>)
          /\ stored' = stored /\ received' = received
      BY <1>4 DEF Unexpected, InSession
    <2>2. Plain("ZCOMPL") \in Say(Talking)
      BY ReplyTypes, Replies DEF Talking
    <2>3. Extends(toSender', toSender, Say(Talking)) /\ toSender' \in Seq(ReplyFrame)
      BY <2>1, <2>2, Answered
    <2> QED
      BY <2>1, <2>3, WaitingTyped, TakenRequest, TalksOutside
  <1>5. CASE Closed
    <2>1. /\ zmrx.pc \in {"contact", "session"} /\ TakeRequest({"ZFIN"})
          /\ Leave(FALSE, << >>) /\ stored' = stored /\ received' = received
      BY <1>5 DEF Closed, InSession
    <2>2. /\ zmrx' \in ReceiverState /\ zmrx'.pc = "over" /\ zmrx'.wanted = zmrx.wanted
          /\ Extends(toSender', toSender, Say(Talking)) /\ toSender' \in Seq(ReplyFrame)
      BY <2>1, ReplyTypes, Leaves DEF Talking
    <2> QED
      BY <2>1, <2>2, TakenRequest, TalksOutside
  <1>6. CASE Store
    BY <1>6, DataStored
  <1>7. CASE Misplaced
    <2>1. /\ zmrx.pc = "header" /\ toReceiver # << >>
          /\ toReceiver' \in Purged(Tail(toReceiver)) /\ AskAgain
          /\ stored' = stored /\ received' = received
      BY <1>7 DEF Misplaced
    <2>2. toReceiver' \in Seq(RequestFrame) /\ \E d \in Nat : Reads(d)
      BY <2>1, InFile, PurgedShortens DEF Reads
    <2> QED
      BY <2>1, <2>2, AsksAgain, StaysInside DEF InFileSaying
  <1>8. CASE Completed
    BY <1>8, FileCompleted
  <1>9. CASE EofIgnored
    <2>1. /\ zmrx.pc = "header" /\ TakeRequest({"ZEOF"}) /\ toSender' = toSender
          /\ zmrx' = zmrx /\ stored' = stored /\ received' = received
      BY <1>9 DEF EofIgnored
    <2> QED
      BY <2>1, InFile, TakenRequest, Silently, StaysInside
  <1>10. CASE OfferedAgain
    <2>1. /\ zmrx.pc = "header" /\ TakeRequest({"ZFILE"})
          /\ Answer(<<Frame("ZRPOS", 0, zmrx.pos)>>)
          /\ zmrx' = zmrx /\ stored' = stored /\ received' = received
      BY <1>10 DEF OfferedAgain
    <2>2. zmrx.pos \in 0 .. 1
      BY InFile DEF ReceiverState
    <2>3. Frame("ZRPOS", 0, zmrx.pos) \in Say(InFileSaying)
      BY <2>2, ReplyTypes, Replies DEF InFileSaying
    <2>4. Extends(toSender', toSender, Say(InFileSaying)) /\ toSender' \in Seq(ReplyFrame)
      BY <2>1, <2>3, Answered
    <2> QED
      BY <2>1, <2>4, InFile, TakenRequest, StaysInside
  <1>11. CASE Abandoned
    <2>1. /\ zmrx.pc = "header" /\ TakeRequest({"ZRQINIT", "ZFIN"})
          /\ Leave(TRUE, <<Plain("ZFERR")>>)
          /\ stored' = stored /\ received' = received
      BY <1>11 DEF Abandoned
    <2>2. /\ zmrx' \in ReceiverState /\ zmrx'.pc = "over" /\ zmrx'.wanted = zmrx.wanted
          /\ Extends(toSender', toSender, Say(InFileSaying)) /\ toSender' \in Seq(ReplyFrame)
      BY <2>1, ReplyTypes, Leaves DEF InFileSaying
    <2> QED
      BY <2>1, <2>2, TakenRequest, StaysInside
  <1>12. CASE OverAndOut
    <2>1. /\ zmrx.pc = "over" /\ TakeRequest({"OO"}) /\ zmrx' = [zmrx EXCEPT !.pc = "exit"]
          /\ toSender' = toSender /\ stored' = stored /\ received' = received
      BY <1>12 DEF OverAndOut
    <2>2. zmrx' \in ReceiverState /\ zmrx'.pc = "exit" /\ zmrx'.wanted = zmrx.wanted
      BY <2>1, InFile DEF ReceiverState
    <2> QED
      BY <2>1, <2>2, TakenRequest, TalksAfter
  <1>13. CASE Dropped
    <2>1. /\ toSender' = toSender /\ zmrx' = zmrx
          /\ stored' = stored /\ received' = received
      BY <1>13 DEF Dropped
    <2>2. PICK types : TakeRequest(types)
      BY <1>13 DEF Dropped
    <2>3. zmrx.pc \in {"contact", "session", "header", "over", "exit"}
      BY InFile DEF ReceiverState
    <2>4. CASE zmrx.pc \in {"contact", "session"}
      BY <2>1, <2>2, <2>4, InFile, TakenRequest, Silently, TalksOutside
    <2>5. CASE zmrx.pc = "header"
      BY <2>1, <2>2, <2>5, InFile, TakenRequest, Silently, StaysInside
    <2>6. CASE zmrx.pc \in {"over", "exit"}
      BY <2>1, <2>2, <2>6, InFile, TakenRequest, TalksAfter
    <2> QED
      BY <2>3, <2>4, <2>5, <2>6
  <1> QED
    BY <1>1, <1>2, <1>3, <1>4, <1>5, <1>6, <1>7, <1>8, <1>9, <1>10, <1>11, <1>12, <1>13
    DEF ReceiverNext

\* What zmrx does when a timer ends.
LEMMA ReceiverTimes ==
  ASSUME TypeInv, ReceiverTimer
  PROVE  ReceiverTyped /\ ReceiverTurn
  <1>1. CASE InviteTimeout
    <2>1. /\ zmrx.pc = "contact" /\ InviteAgain
          /\ toReceiver' = toReceiver /\ stored' = stored /\ received' = received
      BY <1>1 DEF InviteTimeout
    <2>2. /\ zmrx' \in ReceiverState /\ zmrx'.wanted = zmrx.wanted
          /\ zmrx'.pc \in {"contact", "exit"}
          /\ Extends(toSender', toSender, Say(Talking)) /\ toSender' \in Seq(ReplyFrame)
      BY <2>1, ReplyTypes, InvitesAgain DEF Talking
    <2> QED
      BY <2>1, <2>2, NothingRead, TalksOutside
  <1>2. CASE SessionTimeout
    <2>1. /\ zmrx.pc = "session"
          /\ toReceiver' = toReceiver /\ stored' = stored /\ received' = received
      BY <1>2 DEF SessionTimeout
    <2>2. CASE zmrx.attempts + 1 < MaxRetries
      <3>1. zmrx' = [zmrx EXCEPT !.attempts = @ + 1] /\ Answer(<<Plain("ZRINIT")>>)
        BY <1>2, <2>2 DEF SessionTimeout
      <3>2. zmrx.attempts \in Nat /\ zmrx.attempts + 1 \in 0 .. MaxRetries
        BY <2>2, InFile DEF ReceiverState
      <3>3. zmrx' \in ReceiverState /\ zmrx'.wanted = zmrx.wanted /\ zmrx'.pc = "session"
        BY <2>1, <3>1, <3>2, InFile DEF ReceiverState
      <3>4. Plain("ZRINIT") \in Say(Talking)
        BY ReplyTypes, Replies DEF Talking
      <3>5. Extends(toSender', toSender, Say(Talking)) /\ toSender' \in Seq(ReplyFrame)
        BY <3>1, <3>4, Answered
      <3> QED
        BY <2>1, <3>3, <3>5, NothingRead, TalksOutside
    <2>3. CASE ~(zmrx.attempts + 1 < MaxRetries)
      <3>1. Leave(TRUE, << >>)
        BY <1>2, <2>3 DEF SessionTimeout
      <3>2. /\ zmrx' \in ReceiverState /\ zmrx'.pc = "over" /\ zmrx'.wanted = zmrx.wanted
            /\ Extends(toSender', toSender, Say(Talking)) /\ toSender' \in Seq(ReplyFrame)
        BY <3>1, ReplyTypes, Leaves DEF Talking
      <3> QED
        BY <2>1, <3>2, NothingRead, TalksOutside
    <2> QED
      BY <2>2, <2>3
  <1>3. CASE HeaderTimeout
    <2>1. /\ zmrx.pc = "header" /\ AskAgain
          /\ toReceiver' = toReceiver /\ stored' = stored /\ received' = received
      BY <1>3 DEF HeaderTimeout
    <2> QED
      BY <2>1, AsksAgain, NothingRead, StaysInside DEF InFileSaying
  <1>4. CASE OverTimeout
    <2>1. /\ zmrx.pc = "over" /\ zmrx' = [zmrx EXCEPT !.pc = "exit", !.failed = TRUE]
          /\ toReceiver' = toReceiver /\ toSender' = toSender
          /\ stored' = stored /\ received' = received
      BY <1>4 DEF OverTimeout
    <2>2. zmrx' \in ReceiverState /\ zmrx'.pc = "exit" /\ zmrx'.wanted = zmrx.wanted
      BY <2>1, InFile DEF ReceiverState
    <2> QED
      BY <2>1, <2>2, NothingRead, TalksAfter
  <1> QED
    BY <1>1, <1>2, <1>3, <1>4 DEF ReceiverTimer

\* Faults that zmrx meets.
LEMMA ReceiverFaults ==
  ASSUME TypeInv, RequestDamaged \/ OfferTorn \/ DiskFails
  PROVE  ReceiverTyped /\ ReceiverTurn
  <1>1. CASE RequestDamaged
    <2>1. toReceiver # << >> /\ zmrx.pc # "exit" /\ stored' = stored /\ received' = received
      BY <1>1 DEF RequestDamaged
    <2>2. /\ Tail(toReceiver) \in Seq(RequestFrame)
          /\ Shortens(Tail(toReceiver), toReceiver, 1)
      BY <2>1, InFile, TakenShortens
    <2>3. CASE toReceiver' = Tail(toReceiver) /\ zmrx' = zmrx /\ toSender' = toSender
      <3>1. Reads(1) /\ toReceiver' \in Seq(RequestFrame)
        BY <2>2, <2>3 DEF Reads
      <3>2. zmrx.pc \in {"contact", "session", "header", "over", "exit"}
        BY InFile DEF ReceiverState
      <3>3. CASE zmrx.pc \in {"contact", "session"}
        BY <2>1, <2>3, <3>1, <3>3, InFile, Silently, TalksOutside
      <3>4. CASE zmrx.pc = "header"
        BY <2>1, <2>3, <3>1, <3>4, InFile, Silently, StaysInside
      <3>5. CASE zmrx.pc \in {"over", "exit"}
        BY <2>1, <2>3, <3>1, <3>5, InFile, TalksAfter
      <3> QED
        BY <3>2, <3>3, <3>4, <3>5
    <2>4. CASE zmrx.pc = "header" /\ toReceiver' \in Purged(Tail(toReceiver)) /\ AskAgain
      <3>1. toReceiver' \in Seq(RequestFrame) /\ \E d \in Nat : Reads(d)
        BY <2>1, <2>4, InFile, PurgedShortens DEF Reads
      <3> QED
        BY <2>1, <2>4, <3>1, AsksAgain, StaysInside DEF InFileSaying
    <2>5. CASE /\ zmrx.pc = "header" /\ toReceiver' = Tail(toReceiver)
               /\ Answer(<<Frame("ZRPOS", 0, zmrx.pos)>>) /\ zmrx' = zmrx
      <3>1. Reads(1) /\ toReceiver' \in Seq(RequestFrame)
        BY <2>2, <2>5 DEF Reads
      <3>2. zmrx.pos \in 0 .. 1
        BY InFile DEF ReceiverState
      <3>3. Frame("ZRPOS", 0, zmrx.pos) \in Say(InFileSaying)
        BY <3>2, ReplyTypes, Replies DEF InFileSaying
      <3>4. Extends(toSender', toSender, Say(InFileSaying)) /\ toSender' \in Seq(ReplyFrame)
        BY <2>5, <3>3, Answered
      <3> QED
        BY <2>1, <2>5, <3>1, <3>4, InFile, StaysInside
    <2> QED
      BY <1>1, <2>3, <2>4, <2>5 DEF RequestDamaged
  <1>2. CASE OfferTorn
    <2>1. /\ zmrx.pc \in {"contact", "session"} /\ TakeRequest({"ZFILE"}) /\ zmrx' = Waiting
          /\ stored' = stored /\ received' = received
          /\ Answer(<< >>) \/ Answer(<<Plain("ZNAK")>>)
      BY <1>2 DEF OfferTorn, InSession
    <2>2. Plain("ZNAK") \in Say(Talking)
      BY ReplyTypes, Replies DEF Talking
    <2>3. Extends(toSender', toSender, Say(Talking)) /\ toSender' \in Seq(ReplyFrame)
      BY <2>1, <2>2, Answered
    <2> QED
      BY <2>1, <2>3, WaitingTyped, TakenRequest, TalksOutside
  <1>3. CASE DiskFails
    <2>1. Leave(TRUE, <<Plain("ZFERR")>>) /\ stored' = stored /\ received' = received
      BY <1>3 DEF DiskFails
    <2>2. CASE zmrx.pc \in {"contact", "session"} /\ TakeRequest({"ZFILE"})
      <3>1. /\ zmrx' \in ReceiverState /\ zmrx'.pc = "over" /\ zmrx'.wanted = zmrx.wanted
            /\ Extends(toSender', toSender, Say(Talking)) /\ toSender' \in Seq(ReplyFrame)
        BY <2>1, ReplyTypes, Leaves DEF Talking
      <3> QED
        BY <2>1, <2>2, <3>1, TakenRequest, TalksOutside
    <2>3. CASE zmrx.pc = "header" /\ TakeRequest({"DATA", "DATAW", "ZEOF"})
      <3>1. /\ zmrx' \in ReceiverState /\ zmrx'.pc = "over" /\ zmrx'.wanted = zmrx.wanted
            /\ Extends(toSender', toSender, Say(InFileSaying)) /\ toSender' \in Seq(ReplyFrame)
        BY <2>1, ReplyTypes, Leaves DEF InFileSaying
      <3> QED
        BY <2>1, <2>3, <3>1, TakenRequest, StaysInside
    <2> QED
      BY <1>3, <2>2, <2>3 DEF DiskFails, InSession
  <1> QED
    BY <1>1, <1>2, <1>3

----------------------------------------------------------------------------
(* Type correctness.                                                       *)

SenderStep == SenderTyped /\ SenderTurn /\ zmrx' = zmrx /\ stored' = stored /\ received' = received
ReceiverStep == ReceiverTyped /\ ReceiverTurn /\ zmtx' = zmtx /\ outcome' = outcome

LEMMA FaultTyped ==
  ASSUME NEW kind, TypeInv, Fault(kind)
  PROVE  faults' \in 0 .. MaxFaults
  <1>1. faults \in 0 .. MaxFaults /\ MaxFaults \in Nat
    BY Types, LineAssumption DEF TypeInv
  <1> QED
    BY <1>1 DEF Fault

\* Every step is a turn of one of the programs, or changes nothing.
LEMMA Steps ==
  ASSUME TypeInv, [Next]_vars
  PROVE  /\ faults' \in 0 .. MaxFaults
         /\ SenderStep \/ ReceiverStep \/ UNCHANGED vars
  <1>0. faults \in 0 .. MaxFaults
    BY Types DEF TypeInv
  <1>1. CASE SenderNext
    <2>1. faults' = faults /\ zmrx' = zmrx /\ stored' = stored /\ received' = received
      BY <1>1 DEF SenderNext, BySender
    <2> QED
      BY <1>0, <1>1, <2>1, SenderActs DEF SenderStep
  <1>2. CASE ReceiverNext
    <2>1. faults' = faults /\ zmtx' = zmtx /\ outcome' = outcome
      BY <1>2 DEF ReceiverNext, ByReceiver
    <2> QED
      BY <1>0, <1>2, <2>1, ReceiverActs DEF ReceiverStep
  <1>3. CASE Timers
    <2>1. \/ SenderTimer /\ zmrx' = zmrx /\ stored' = stored /\ received' = received
          \/ ReceiverTimer /\ zmtx' = zmtx /\ outcome' = outcome
      BY <1>3 DEF Timers
    <2>2. Expires
      BY <1>3 DEF Timers
    <2>3. faults' \in 0 .. MaxFaults
      BY <1>0, <2>2, FaultTyped DEF Expires
    <2> QED
      BY <2>1, <2>3, SenderTimes, ReceiverTimes DEF SenderStep, ReceiverStep
  <1>4. CASE RequestDamaged
    <2>1. zmtx' = zmtx /\ outcome' = outcome /\ Fault("damage")
      BY <1>4 DEF RequestDamaged
    <2> QED
      BY <1>4, <2>1, FaultTyped, ReceiverFaults DEF ReceiverStep
  <1>5. CASE ReplyDamaged
    <2>1. /\ toSender # << >> /\ toSender' = Tail(toSender) /\ toReceiver' = toReceiver
          /\ zmtx' = zmtx /\ zmrx' = zmrx /\ outcome' = outcome
          /\ stored' = stored /\ received' = received /\ Fault("damage")
      BY <1>5 DEF ReplyDamaged
    <2>2. MayHear /\ toSender' \in Seq(ReplyFrame)
      BY <2>1, AtFile, TakenShortens DEF MayHear
    <2>3. Extends(toReceiver', toReceiver, Talk)
      BY <2>1, AtFile, NothingAsked
    <2>4. SenderTyped /\ SenderTurn
      BY <2>1, <2>2, <2>3, AtFile DEF SenderTyped, SenderTurn, Waits, SameFile
    <2> QED
      BY <2>1, <2>4, FaultTyped DEF SenderStep
  <1>6. CASE (OfferTorn \/ DiskFails) /\ UNCHANGED <<zmtx, outcome>>
    <2>1. Fault("damage") \/ Fault("disk")
      BY <1>6 DEF OfferTorn, DiskFails
    <2> QED
      BY <1>6, <2>1, FaultTyped, ReceiverFaults DEF ReceiverStep
  <1>7. CASE UNCHANGED vars
    BY <1>0, <1>7 DEF vars
  <1> QED
    BY <1>1, <1>2, <1>3, <1>4, <1>5, <1>6, <1>7 DEF Next, Environment, Terminated

LEMMA TypeInit == Init => TypeInv
  <1> SUFFICES ASSUME Init PROVE TypeInv
    OBVIOUS
  <1>1. /\ NFiles \in Nat \ {0} /\ MaxRetries \in Nat \ {0} /\ MaxFaults \in Nat
        /\ 0 \in 0 .. MaxRetries /\ 1 \in 0 .. MaxRetries /\ 0 \in 0 .. MaxFaults
        /\ 1 \in 1 .. NFiles + 1 /\ 0 \in 0 .. NFiles /\ 0 \in 0 .. 1
    BY SessionAssumption, LineAssumption
  <1>2. Plain("ZRQINIT") \in RequestFrame /\ Plain("ZRINIT") \in ReplyFrame
    BY <1>1 DEF Plain, Frame, RequestFrame, ReplyFrame, RequestType, ReplyType
  <1>3. toReceiver \in Seq(RequestFrame) /\ toSender \in Seq(ReplyFrame)
    <2>1. \A S : \A f \in S : <<f>> \in Seq(S)
      OBVIOUS
    <2>2. \A S : << >> \in Seq(S)
      OBVIOUS
    <2> QED
      BY <1>2, <2>1, <2>2 DEF Init
  <1>4. zmtx \in SenderState /\ zmtx.pc = "contact"
    BY <1>1 DEF Init, SenderState
  <1>5. zmrx \in ReceiverState /\ zmrx.pc = "contact" /\ zmrx.wanted \in Policies
    <2>1. PICK wanted \in Policies :
            zmrx = [pc |-> "contact", file |-> 0, pos |-> 0, errors |-> 0,
                    attempts |-> 1, wanted |-> wanted, failed |-> FALSE]
      BY DEF Init
    <2>2. wanted \in SUBSET File
      BY SessionAssumption DEF File
    <2> QED
      BY <1>1, <2>1, <2>2 DEF ReceiverState
  <1>6. /\ faults = 0 /\ outcome \in Outcomes /\ stored \in [File -> 0 .. NFiles]
        /\ received \subseteq File
    BY <1>1 DEF Init, Outcomes
  <1> QED
    BY <1>1, <1>3, <1>4, <1>5, <1>6, Types DEF TypeInv

LEMMA TypeKept == TypeInv /\ [Next]_vars => TypeInv'
  <1> SUFFICES ASSUME TypeInv, [Next]_vars PROVE TypeInv'
    OBVIOUS
  <1>1. faults' \in 0 .. MaxFaults
    BY Steps
  <1>2. ASSUME /\ toReceiver' \in Seq(RequestFrame) /\ toSender' \in Seq(ReplyFrame)
               /\ zmtx' \in SenderState /\ zmrx' \in ReceiverState
               /\ outcome' \in Outcomes /\ stored' \in [File -> 0 .. NFiles]
               /\ received' \subseteq File,
               zmtx'.pc \in {"offer", "ack", "eof"} => zmtx'.file <= zmtx'.readable,
               zmrx'.pc = "header" => zmrx'.file \in File, zmrx'.wanted = zmrx.wanted
        PROVE  TypeInv'
    <2>1. TypeOK'
      BY <1>1, <1>2 DEF TypeOK, RequestFrame, ReplyFrame, SenderState, ReceiverState, Outcomes
    <2> QED
      BY <1>2, <2>1 DEF TypeInv
  <1>3. CASE SenderStep \/ ReceiverStep
    <2>1. zmrx.pc = "header" => zmrx.file \in File
      BY DEF TypeInv
    <2>2. zmtx.pc \in {"offer", "ack", "eof"} => zmtx.file <= zmtx.readable
      BY DEF TypeInv
    <2>3. CASE SenderStep
      BY <1>2, <2>1, <2>3, InFile DEF SenderStep, SenderTyped
    <2>4. CASE ReceiverStep
      BY <1>2, <2>2, <2>4, AtFile DEF ReceiverStep, ReceiverTyped
    <2> QED
      BY <1>3, <2>3, <2>4
  <1>4. CASE UNCHANGED vars
    BY <1>4 DEF vars, TypeInv, TypeOK
  <1> QED
    BY <1>3, <1>4, Steps

\* Under any file policy of zmrx the variables of a session keep their types.
THEOREM TypeCorrect == Spec => []TypeOK
  <1>1. TypeInv => TypeOK
    BY DEF TypeInv
  <1> QED
    BY <1>1, TypeInit, TypeKept, PTL DEF Spec

----------------------------------------------------------------------------
(* What the invariant says of the lines, step by step.                      *)

Lines == toReceiver \in Seq(RequestFrame) /\ toSender \in Seq(ReplyFrame)

\* A request that speaks of the k-th file.
Fits(f, k) ==
  /\ f.type \in {"ZFILE", "DATA", "DATAW"} => f.file = k
  /\ f.type = "ZEOF" => f.pos = 1

NoneWanted(S) == \A f \in S : ~Wanted(f)

\* zmrx will read no data and no end of a file.
NoBody == \A j \in 1 .. Len(toReceiver) : Inside(j) => toReceiver[j].type \notin Body

LEMMA NothingInside ==
  ASSUME Lines, NothingOffered
  PROVE  \A j \in 1 .. Len(toReceiver) : ~Inside(j)
  <1>1. ASSUME NEW j, NEW i, j \in 1 .. Len(toReceiver), i \in 1 .. j - 1
        PROVE  i \in 1 .. Len(toReceiver)
    BY <1>1 DEF Lines
  <1> QED
    BY <1>1 DEF NothingOffered, Inside

\* Requests that zmtx puts on the line.
LEMMA RequestsExtended ==
  ASSUME NEW S, S \subseteq RequestFrame, Lines, Requests, zmrx' = zmrx,
         Extends(toReceiver', toReceiver, S),
         zmtx.file \in Nat, zmtx'.file \in Nat \ {0}, zmtx.file <= zmtx'.file,
         zmtx'.file = zmtx.file \/ NothingOffered,
         \A f \in S : Fits(f, zmtx'.file),
         NoneWanted(S) \/ (NoBody /\ \A f \in S : f.type \notin Body)
  PROVE  /\ Requests'
         /\ NothingOffered /\ NoneWanted(S) => NothingOffered'
         /\ NoBody /\ (\A f \in S : f.type \notin Body) => NoBody'
  <1> DEFINE n == Len(toReceiver)  m == Len(toReceiver')
  <1>1. /\ n \in Nat /\ m \in Nat /\ n <= m /\ toReceiver' \in Seq(RequestFrame)
        /\ \A i \in 1 .. n : toReceiver'[i] = toReceiver[i]
        /\ \A i \in 1 .. m : i \in 1 .. n \/ toReceiver'[i] \in S
    BY Extended DEF Lines
  <1>2. \A i \in 1 .. n : i \in 1 .. m
    BY <1>1
  <1> HIDE DEF n, m
  <1>3. ASSUME NEW j \in 1 .. n PROVE Inside(j)' <=> Inside(j)
    <2>1. \A i \in 1 .. j - 1 : i \in 1 .. n
      BY <1>1
    <2>2. \A i \in 1 .. j - 1 : toReceiver'[i] = toReceiver[i]
      BY <1>1, <2>1
    <2> QED
      BY <2>2 DEF Inside, Wanted
  <1>4. ASSUME NEW j \in 1 .. n
        PROVE  /\ toReceiver[j].type = "ZFILE" => toReceiver[j].file \in 1 .. zmtx'.file
               /\ Wanted(toReceiver[j]) => toReceiver[j].file = zmtx'.file
               /\ Inside(j) /\ toReceiver[j].type \in {"DATA", "DATAW"} =>
                    toReceiver[j].file = zmtx'.file
               /\ toReceiver[j].type = "ZEOF" => toReceiver[j].pos = 1
    <2>1. /\ toReceiver[j].type = "ZFILE" => toReceiver[j].file \in 1 .. zmtx.file
          /\ Wanted(toReceiver[j]) => toReceiver[j].file = zmtx.file
          /\ Inside(j) /\ toReceiver[j].type \in {"DATA", "DATAW"} =>
               toReceiver[j].file = zmtx.file
          /\ toReceiver[j].type = "ZEOF" => toReceiver[j].pos = 1
      BY DEF Requests, n
    <2>2. \A k \in 1 .. zmtx.file : k \in 1 .. zmtx'.file
      OBVIOUS
    <2>3. NothingOffered => ~Wanted(toReceiver[j]) /\ ~Inside(j)
      BY NothingInside DEF NothingOffered, n
    <2> QED
      BY <2>1, <2>2, <2>3
  <1>5. ASSUME NEW j \in 1 .. m
        PROVE  /\ toReceiver'[j].type = "ZFILE" => toReceiver'[j].file \in 1 .. zmtx'.file
               /\ Wanted(toReceiver[j])' => toReceiver'[j].file = zmtx'.file
               /\ Inside(j)' /\ toReceiver'[j].type \in {"DATA", "DATAW"} =>
                    toReceiver'[j].file = zmtx'.file
               /\ toReceiver'[j].type = "ZEOF" => toReceiver'[j].pos = 1
    <2>1. CASE j \in 1 .. n
      BY <1>1, <1>3, <1>4, <2>1 DEF Wanted
    <2>2. CASE toReceiver'[j] \in S
      <3>1. Fits(toReceiver'[j], zmtx'.file) /\ zmtx'.file \in 1 .. zmtx'.file
        BY <2>2
      <3> QED
        BY <3>1 DEF Fits, Wanted
    <2> QED
      BY <1>1, <2>1, <2>2
  <1>6. ASSUME NEW j \in 1 .. m, NEW l \in 1 .. m, j < l,
               Inside(j)', toReceiver'[j].type \in Body, Wanted(toReceiver[l])'
        PROVE  FALSE
    <2>1. j \in 1 .. n \/ toReceiver'[j] \in S
      BY <1>1
    <2>2. l \in 1 .. n => j \in 1 .. n
      BY <1>1, <1>6
    <2>3. ASSUME j \in 1 .. n
          PROVE  Inside(j) /\ toReceiver[j].type \in Body
      BY <1>1, <1>3, <1>6, <2>3
    <2>4. CASE l \in 1 .. n
      <3>1. Wanted(toReceiver[l])
        BY <1>1, <1>6, <2>4 DEF Wanted
      <3> QED
        BY <1>6, <2>2, <2>3, <2>4, <3>1 DEF Requests, n
    <2>5. CASE toReceiver'[l] \in S
      <3>1. ~NoneWanted(S)
        BY <1>6, <2>5 DEF NoneWanted, Wanted
      <3> QED
        BY <1>6, <2>1, <2>3, <3>1 DEF NoBody, n
    <2> QED
      BY <1>1, <2>4, <2>5
  <1>7. Requests'
    BY <1>5, <1>6 DEF Requests, m
  <1>8. ASSUME NothingOffered, NoneWanted(S) PROVE NothingOffered'
    <2>1. ASSUME NEW j \in 1 .. m PROVE ~Wanted(toReceiver[j])'
      <3>1. CASE j \in 1 .. n
        BY <1>1, <1>8, <3>1 DEF NothingOffered, Wanted, n
      <3>2. CASE toReceiver'[j] \in S
        BY <1>8, <3>2 DEF NoneWanted, Wanted
      <3> QED
        BY <1>1, <3>1, <3>2
    <2> QED
      BY <1>8, <2>1 DEF NothingOffered, m
  <1>9. ASSUME NoBody, \A f \in S : f.type \notin Body PROVE NoBody'
    <2>1. ASSUME NEW j \in 1 .. m, Inside(j)' PROVE toReceiver'[j].type \notin Body
      <3>1. CASE j \in 1 .. n
        BY <1>1, <1>3, <1>9, <2>1, <3>1 DEF NoBody, n
      <3>2. CASE toReceiver'[j] \in S
        BY <1>9, <3>2
      <3> QED
        BY <1>1, <3>1, <3>2
    <2> QED
      BY <2>1 DEF NoBody, m
  <1> QED
    BY <1>7, <1>8, <1>9

\* Requests that zmrx reads, or that are lost.
LEMMA RequestsRead ==
  ASSUME NEW d, Lines, Requests, Reads(d), toReceiver' \in Seq(RequestFrame),
         zmtx' = zmtx, zmrx'.wanted = zmrx.wanted,
         zmrx'.pc = "header" /\ zmrx.pc # "header" => d = 1 /\ Wanted(toReceiver[1])
  PROVE  /\ Requests'
         /\ NothingOffered /\ zmrx'.pc # "header" => NothingOffered'
         /\ NoBody => NoBody'
  <1> DEFINE n == Len(toReceiver)  m == Len(toReceiver')
  <1>1. /\ m \in Nat /\ n \in Nat /\ d \in Nat /\ m + d = n
        /\ \A i \in 1 .. m : i + d \in 1 .. n /\ toReceiver'[i] = toReceiver[i + d]
    <2>1. toReceiver \in Seq(RequestFrame) /\ Shortens(toReceiver', toReceiver, d)
      BY DEF Lines, Reads
    <2> QED
      BY <2>1, Shortened
  <1> HIDE DEF n, m
  <1>2. ASSUME NEW j \in 1 .. m, Inside(j)' PROVE Inside(j + d)
    <2>1. CASE zmrx'.pc = "header"
      <3>1. CASE zmrx.pc = "header"
        BY <3>1 DEF Inside
      <3>2. CASE zmrx.pc # "header"
        <4>1. d = 1 /\ Wanted(toReceiver[1]) /\ 1 \in 1 .. (j + d) - 1
          BY <1>1, <2>1, <3>2
        <4> QED
          BY <4>1 DEF Inside
      <3> QED
        BY <3>1, <3>2
    <2>2. CASE \E i \in 1 .. j - 1 : Wanted(toReceiver[i])'
      <3>1. PICK i \in 1 .. j - 1 : Wanted(toReceiver[i])'
        BY <2>2
      <3>2. i \in 1 .. m /\ i + d \in 1 .. (j + d) - 1
        BY <1>1
      <3>3. Wanted(toReceiver[i + d])
        BY <1>1, <3>1, <3>2 DEF Wanted
      <3> QED
        BY <3>2, <3>3 DEF Inside
    <2> QED
      BY <1>2, <2>1, <2>2 DEF Inside
  <1>3. ASSUME NEW j \in 1 .. m
        PROVE  /\ toReceiver'[j].type = "ZFILE" => toReceiver'[j].file \in 1 .. zmtx'.file
               /\ Wanted(toReceiver[j])' => toReceiver'[j].file = zmtx'.file
               /\ Inside(j)' /\ toReceiver'[j].type \in {"DATA", "DATAW"} =>
                    toReceiver'[j].file = zmtx'.file
               /\ toReceiver'[j].type = "ZEOF" => toReceiver'[j].pos = 1
    <2>1. j + d \in 1 .. n /\ toReceiver'[j] = toReceiver[j + d]
      BY <1>1
    <2>2. /\ toReceiver[j + d].type = "ZFILE" => toReceiver[j + d].file \in 1 .. zmtx.file
          /\ Wanted(toReceiver[j + d]) => toReceiver[j + d].file = zmtx.file
          /\ Inside(j + d) /\ toReceiver[j + d].type \in {"DATA", "DATAW"} =>
               toReceiver[j + d].file = zmtx.file
          /\ toReceiver[j + d].type = "ZEOF" => toReceiver[j + d].pos = 1
      BY <2>1 DEF Requests, n
    <2>3. Wanted(toReceiver[j])' => Wanted(toReceiver[j + d])
      BY <2>1 DEF Wanted
    <2> QED
      BY <1>2, <2>1, <2>2, <2>3
  <1>4. ASSUME NEW j \in 1 .. m, NEW l \in 1 .. m, j < l,
               Inside(j)', toReceiver'[j].type \in Body, Wanted(toReceiver[l])'
        PROVE  FALSE
    <2>1. /\ j + d \in 1 .. n /\ toReceiver'[j] = toReceiver[j + d]
          /\ l + d \in 1 .. n /\ toReceiver'[l] = toReceiver[l + d] /\ j + d < l + d
      BY <1>1, <1>4, SMTT(60)
    <2>2. Inside(j + d) /\ toReceiver[j + d].type \in Body /\ Wanted(toReceiver[l + d])
      BY <1>2, <1>4, <2>1 DEF Wanted
    <2> QED
      BY <2>1, <2>2 DEF Requests, n
  <1>5. Requests'
    BY <1>3, <1>4 DEF Requests, m
  <1>6. ASSUME NothingOffered, zmrx'.pc # "header" PROVE NothingOffered'
    <2>1. ASSUME NEW j \in 1 .. m PROVE ~Wanted(toReceiver[j])'
      BY <1>1, <1>6 DEF NothingOffered, Wanted, n
    <2> QED
      BY <1>6, <2>1 DEF NothingOffered, m
  <1>7. ASSUME NoBody PROVE NoBody'
    <2>1. ASSUME NEW j \in 1 .. m, Inside(j)' PROVE toReceiver'[j].type \notin Body
      BY <1>1, <1>2, <1>7, <2>1 DEF NoBody, n
    <2> QED
      BY <2>1 DEF NoBody, m
  <1> QED
    BY <1>5, <1>6, <1>7

\* Replies that zmtx reads, or that are lost.
LEMMA RepliesHeard ==
  ASSUME Lines, MayHear
  PROVE  /\ \A type : OnWay(type)' => OnWay(type)
         /\ \A a, b : Before(a, b) => Before(a, b)'
         /\ \A type : Heard(type) => OnWay(type)
         /\ \A a, b : Heard(b) /\ Before(a, b) => ~OnWay(a)
  <1> DEFINE n == Len(toSender)  m == Len(toSender')
  <1>1. PICK d \in Nat : /\ n \in Nat /\ m \in Nat
                         /\ \A i \in 1 .. m : i + d \in 1 .. n /\ toSender'[i] = toSender[i + d]
    <2>1. CASE toSender' = toSender
      <3>1. n \in Nat /\ m = n
        BY <2>1 DEF Lines
      <3>2. \A i \in 1 .. m : i + 0 \in 1 .. n /\ toSender'[i] = toSender[i + 0]
        BY <2>1, <3>1
      <3> QED
        BY <3>1, <3>2
    <2>2. CASE toSender # << >> /\ toSender' = Tail(toSender)
      <3>1. toSender' \in Seq(ReplyFrame) /\ Shortens(toSender', toSender, 1)
        BY <2>2, TakenShortens DEF Lines
      <3>2. toSender \in Seq(ReplyFrame)
        BY DEF Lines
      <3>3. /\ n \in Nat /\ m \in Nat /\ 1 \in Nat
            /\ \A i \in 1 .. m : i + 1 \in 1 .. n /\ toSender'[i] = toSender[i + 1]
        BY <3>1, <3>2, Shortened
      <3> QED
        BY <3>3
    <2> QED
      BY <2>1, <2>2 DEF MayHear
  <1>2. ASSUME NEW type, Heard(type) PROVE 1 \in 1 .. n /\ toSender[1].type = type
    <2>1. toSender # << >> /\ toSender[1].type = type /\ n \in Nat \ {0}
      BY <1>2, TakenShortens DEF Heard, Lines
    <2> QED
      BY <2>1
  <1> HIDE DEF n, m
  <1>3. ASSUME NEW type, OnWay(type)' PROVE OnWay(type)
    <2>1. PICK i \in 1 .. m : toSender'[i].type = type
      BY <1>3 DEF OnWay, m
    <2>2. i + d \in 1 .. n /\ toSender[i + d].type = type
      BY <1>1, <2>1
    <2> QED
      BY <2>2 DEF OnWay, n
  <1>4. ASSUME NEW a, NEW b, Before(a, b) PROVE Before(a, b)'
    <2>1. ASSUME NEW i \in 1 .. m, NEW j \in 1 .. m,
                 toSender'[i].type = b, toSender'[j].type = a
          PROVE  j < i
      <3>1. /\ i + d \in 1 .. n /\ toSender[i + d].type = b
            /\ j + d \in 1 .. n /\ toSender[j + d].type = a
        BY <1>1, <2>1
      <3>2. j + d < i + d
        BY <1>4, <3>1 DEF Before, n
      <3> QED
        BY <1>1, <3>2
    <2> QED
      BY <2>1 DEF Before, m
  <1>5. ASSUME NEW type, Heard(type) PROVE OnWay(type)
    BY <1>2, <1>5 DEF OnWay, n
  <1>6. ASSUME NEW a, NEW b, Heard(b), Before(a, b), OnWay(a) PROVE FALSE
    <2>1. PICK j \in 1 .. n : toSender[j].type = a
      BY <1>6 DEF OnWay, n
    <2>2. 1 \in 1 .. n /\ toSender[1].type = b
      BY <1>2, <1>6
    <2>3. j < 1
      BY <1>6, <2>1, <2>2 DEF Before, n
    <2> QED
      BY <1>1, <2>3
  <1> QED
    BY <1>3, <1>4, <1>5, <1>6

\* Replies that zmrx puts on the line.
LEMMA RepliesExtended ==
  ASSUME NEW types, Lines, Extends(toSender', toSender, Say(types))
  PROVE  /\ \A type : type \notin types /\ OnWay(type)' => OnWay(type)
         /\ \A a, b : Before(a, b) /\ (a \notin types \/ (b \notin types /\ ~OnWay(b))) =>
              Before(a, b)'
  <1> DEFINE n == Len(toSender)  m == Len(toSender')
  <1>1. Say(types) \subseteq ReplyFrame /\ \A f \in Say(types) : f.type \in types
    BY DEF Say
  <1>2. /\ n \in Nat /\ m \in Nat /\ n <= m
        /\ \A i \in 1 .. n : toSender'[i] = toSender[i]
        /\ \A i \in 1 .. m : i \in 1 .. n \/ toSender'[i] \in Say(types)
    BY <1>1, Extended DEF Lines
  <1> HIDE DEF n, m
  <1>3. ASSUME NEW type, NEW i \in 1 .. m, toSender'[i].type = type, type \notin types
        PROVE  i \in 1 .. n /\ toSender[i].type = type
    BY <1>1, <1>2, <1>3
  <1>4. ASSUME NEW type, type \notin types, OnWay(type)' PROVE OnWay(type)
    BY <1>3, <1>4 DEF OnWay, n, m
  <1>5. ASSUME NEW a, NEW b, Before(a, b), a \notin types \/ (b \notin types /\ ~OnWay(b))
        PROVE  Before(a, b)'
    <2>1. ASSUME NEW i \in 1 .. m, NEW j \in 1 .. m,
                 toSender'[i].type = b, toSender'[j].type = a
          PROVE  j < i
      <3>1. CASE a \notin types
        <4>1. j \in 1 .. n /\ toSender[j].type = a
          BY <1>3, <2>1, <3>1
        <4>2. CASE i \in 1 .. n
          <5>1. toSender[i].type = b
            BY <1>2, <2>1, <4>2
          <5> QED
            BY <1>5, <4>1, <4>2, <5>1 DEF Before, n
        <4>3. CASE i \notin 1 .. n
          BY <1>2, <4>1, <4>3
        <4> QED
          BY <4>2, <4>3
      <3>2. CASE b \notin types /\ ~OnWay(b)
        <4>1. i \in 1 .. n /\ toSender[i].type = b
          BY <1>3, <2>1, <3>2
        <4> QED
          BY <3>2, <4>1 DEF OnWay, n
      <3> QED
        BY <1>5, <3>1, <3>2
    <2> QED
      BY <2>1 DEF Before, m
  <1> QED
    BY <1>4, <1>5

----------------------------------------------------------------------------
(* zmtx keeps the invariant.                                               *)

LEMMA FramesFit ==
  ASSUME NEW k
  PROVE  /\ \A f \in Talk : Fits(f, k) /\ f.type \notin Body
         /\ \A f \in Ask(k) : Fits(f, k) /\ f.type \notin Body
         /\ \A f \in Data(k) : Fits(f, k)
         /\ NoneWanted(Talk) /\ NoneWanted(Data(k))
         /\ k \notin zmrx.wanted => NoneWanted(Ask(k))
  BY DEF Talk, Ask, Data, Fits, NoneWanted, Wanted, Body

LEMMA Places ==
  ASSUME TypeInv, SessionInv
  PROVE  /\ Lines /\ NFiles \in Nat /\ zmtx.file \in 1 .. NFiles + 1
         /\ zmtx.file \in Nat /\ zmtx.file \in Nat \ {0} /\ zmtx.file + 1 \in Nat \ {0}
         /\ zmtx.file # zmtx.file + 1 /\ zmtx.file <= zmtx.file + 1
         /\ zmtx.file <= zmtx.file
         /\ \A k \in File : k < zmtx.file + 1 => k < zmtx.file \/ k = zmtx.file
         /\ \A k \in received : k \in File /\ k \in zmrx.wanted /\ k <= zmtx.file
         /\ zmrx.wanted \subseteq File
         /\ \A k \in File : k < zmtx.file => k # zmtx.file /\ k < zmtx.file + 1
         /\ zmtx.file < zmtx.file + 1
         /\ zmtx.pc \in {"offer", "ack", "eof"} => zmtx.file \in File /\ zmtx.file <= NFiles
         /\ outcome \in Outcomes
         /\ zmtx.file + 1 \notin received
         /\ zmtx.file \notin zmrx.wanted => zmtx.file + 1 \notin zmrx.wanted
  <1>1. /\ Lines /\ NFiles \in Nat /\ zmtx.file \in 1 .. NFiles + 1
        /\ zmrx.wanted \subseteq File /\ outcome \in Outcomes
        /\ zmtx.pc \in {"offer", "ack", "eof"} => zmtx.file \in File /\ zmtx.file \in 1 .. NFiles
    BY AtFile, InFile DEF Lines
  <1>2. \A k \in received : k \in File /\ k \in zmrx.wanted /\ k <= zmtx.file
    BY <1>1, InFile DEF SessionInv, Files
  <1>3. zmtx.file + 1 \notin received
    BY <1>1, <1>2
  <1>4. ASSUME zmtx.file + 1 \in zmrx.wanted PROVE zmtx.file \in zmrx.wanted
    <2>1. 1 .. zmtx.file + 1 \subseteq zmrx.wanted
      BY <1>4 DEF SessionInv, Files
    <2> QED
      BY <1>1, <2>1
  <1>5. /\ \A k \in File : k < zmtx.file + 1 => k < zmtx.file \/ k = zmtx.file
        /\ \A k \in File : k < zmtx.file => k # zmtx.file /\ k < zmtx.file + 1
    BY <1>1 DEF File
  <1> QED
    BY <1>1, <1>2, <1>3, <1>4, <1>5

\* While zmtx stays at its file, and zmrx does nothing.
LEMMA FilesStay ==
  ASSUME Files, zmrx' = zmrx, stored' = stored, received' = received,
         zmtx'.file = zmtx.file, OnWay("ZSKIP")' => OnWay("ZSKIP"),
         zmtx.file \in received => NothingOffered'
  PROVE  Files'
  BY DEF Files

LEMMA CountsStay ==
  ASSUME Counts, zmrx' = zmrx, stored' = stored, received' = received,
         zmtx'.file = zmtx.file, outcome' = outcome,
         zmtx'.pc \in {"fin", "exit"} /\ ~zmtx'.failed =>
           zmtx.pc \in {"fin", "exit"} /\ ~zmtx.failed
  PROVE  Counts'
  BY DEF Counts

LEMMA WaitsKeeps ==
  ASSUME TypeInv, SessionInv, Waits, zmrx' = zmrx, stored' = stored, received' = received
  PROVE  SessionInv'
  <1>1. /\ Lines /\ MayHear /\ zmtx'.file = zmtx.file /\ zmtx'.failed = zmtx.failed
        /\ outcome' = outcome /\ zmtx.file \in Nat /\ zmtx.file \in Nat \ {0}
        /\ zmtx.file <= zmtx.file /\ Requests
    BY Places DEF Waits, SameFile, SessionInv
  <1>2. /\ \A type : OnWay(type)' => OnWay(type)
        /\ \A a, b : Before(a, b) => Before(a, b)'
    BY <1>1, RepliesHeard
  <1>3. /\ Requests'
        /\ zmtx.file \in received => NothingOffered'
        /\ zmtx'.pc = "offer" => NoBody'
        /\ zmtx'.pc = "contact" => NothingOffered'
        /\ zmtx'.pc = zmtx.pc \/ {zmtx'.pc, zmtx.pc} \subseteq {"ack", "eof"}
    <2>1. /\ zmtx.pc = "offer" => NoBody /\ zmtx.file \notin received
          /\ zmtx.pc = "contact" => NothingOffered
          /\ zmtx.file \in received => NothingOffered
      BY DEF SessionInv, Offering, Contacting, Files, NoBody
    <2>2. CASE zmtx'.pc = zmtx.pc /\ Extends(toReceiver', toReceiver, Talk)
      BY <1>1, <2>1, <2>2, FramesFit, Subsets, RequestsExtended
    <2>3. CASE /\ zmtx.pc = "offer" /\ zmtx'.pc = "offer"
               /\ Extends(toReceiver', toReceiver, Ask(zmtx.file))
      <3>1. /\ Ask(zmtx.file) \subseteq RequestFrame
            /\ \A f \in Ask(zmtx.file) : Fits(f, zmtx.file) /\ f.type \notin Body
        BY Subsets, FramesFit
      <3>2. Requests' /\ NoBody'
        BY <1>1, <2>1, <2>3, <3>1, RequestsExtended
      <3> QED
        BY <2>1, <2>3, <3>2
    <2>4. CASE /\ zmtx.pc \in {"ack", "eof"} /\ zmtx'.pc \in {"ack", "eof"}
               /\ Extends(toReceiver', toReceiver, Data(zmtx.file))
      <3>1. /\ Data(zmtx.file) \subseteq RequestFrame /\ NoneWanted(Data(zmtx.file))
            /\ \A f \in Data(zmtx.file) : Fits(f, zmtx.file)
        BY Subsets, FramesFit
      <3>2. Requests' /\ (NothingOffered => NothingOffered')
        BY <1>1, <2>4, <3>1, RequestsExtended
      <3> QED
        BY <2>1, <2>4, <3>2
    <2> QED
      BY <2>2, <2>3, <2>4 DEF Waits
  <1>4. Files'
    BY <1>1, <1>2, <1>3, FilesStay DEF SessionInv
  <1>5. Counts'
    BY <1>1, <1>3, CountsStay DEF SessionInv
  <1>6. Contacting'
    BY <1>1, <1>2, <1>3 DEF SessionInv, Contacting
  <1>7. Offering'
    BY <1>1, <1>2, <1>3 DEF SessionInv, Offering, NoBody, Ended
  <1>8. Sending'
    BY <1>1, <1>2, <1>3 DEF SessionInv, Sending, Ended
  <1>9. Unmixed'
    BY DEF SessionInv, Unmixed
  <1> QED
    BY <1>3, <1>4, <1>5, <1>6, <1>7, <1>8, <1>9 DEF SessionInv

LEMMA AcceptsKeeps ==
  ASSUME TypeInv, SessionInv, Accepts, zmrx' = zmrx, stored' = stored, received' = received
  PROVE  SessionInv'
  <1>1. /\ Lines /\ MayHear /\ Heard("ZRPOS") /\ zmtx'.file = zmtx.file /\ outcome' = outcome
        /\ zmtx.pc = "offer" /\ zmtx'.pc \in {"ack", "eof"}
        /\ zmtx.file \in Nat /\ zmtx.file \in Nat \ {0} /\ zmtx.file <= zmtx.file /\ Requests
    BY Places DEF Accepts, SameFile, SessionInv, Heard, MayHear
  <1>2. /\ \A type : OnWay(type)' => OnWay(type)
        /\ OnWay("ZRPOS")
        /\ Before("ZRINIT", "ZRPOS") => ~OnWay("ZRINIT")
    BY <1>1, RepliesHeard
  <1>3. /\ zmtx.file \notin received /\ zmtx.file \in zmrx.wanted
        /\ zmrx.pc = "header" \/ Ended
        /\ ~OnWay("ZRINIT")'
    BY <1>1, <1>2 DEF SessionInv, Offering
  <1>4. Requests'
    <2>1. /\ Data(zmtx.file) \subseteq RequestFrame /\ NoneWanted(Data(zmtx.file))
          /\ \A f \in Data(zmtx.file) : Fits(f, zmtx.file)
      BY Subsets, FramesFit
    <2>2. Extends(toReceiver', toReceiver, Data(zmtx.file))
      BY DEF Accepts
    <2> QED
      BY <1>1, <2>1, <2>2, RequestsExtended
  <1>5. Files'
    BY <1>1, <1>2, <1>3, FilesStay DEF SessionInv
  <1>6. Counts'
    BY <1>1, CountsStay DEF SessionInv
  <1>7. Before("ZRPOS", "ZRINIT")'
    BY <1>3 DEF Before, OnWay
  <1>8. Sending' /\ Contacting' /\ Offering' /\ Unmixed'
    BY <1>1, <1>3, <1>7 DEF SessionInv, Sending, Contacting, Offering, Unmixed, Ended
  <1> QED
    BY <1>4, <1>5, <1>6, <1>8 DEF SessionInv

\* The session fails at a file, or zmtx exits.
LEMMA StopsKeeps ==
  ASSUME TypeInv, SessionInv, GivesUp \/ Exits,
         zmrx' = zmrx, stored' = stored, received' = received
  PROVE  SessionInv'
  <1>1. /\ Lines /\ MayHear /\ zmtx'.file = zmtx.file
        /\ zmtx'.pc \in {"fin", "exit"} /\ Extends(toReceiver', toReceiver, Talk)
        /\ zmtx.file \in Nat /\ zmtx.file \in Nat \ {0} /\ zmtx.file <= zmtx.file /\ Requests
    BY Places DEF GivesUp, Exits, SameFile, SessionInv
  <1>2. \A type : OnWay(type)' => OnWay(type)
    BY <1>1, RepliesHeard
  <1>3. Requests' /\ (NothingOffered => NothingOffered')
    BY <1>1, FramesFit, Subsets, RequestsExtended
  <1>4. Files'
    BY <1>1, <1>2, <1>3, FilesStay DEF SessionInv, Files
  <1>5. Counts'
    <2>1. CASE GivesUp
      <3>1. /\ outcome' = [outcome EXCEPT ![zmtx.file] = "failed"] /\ zmtx'.failed
            /\ zmtx.file \in File /\ outcome \in Outcomes
        BY <2>1, Places DEF GivesUp
      <3>2. \A k \in File : IF k = zmtx.file THEN outcome'[k] = "failed"
                                              ELSE outcome'[k] = outcome[k]
        BY <3>1 DEF Outcomes
      <3>3. \A k \in File : k < zmtx.file => k # zmtx.file
        BY Places
      <3> QED
        BY <1>1, <3>1, <3>2, <3>3 DEF SessionInv, Counts
    <2>2. CASE Exits
      <3>1. /\ outcome' = outcome
            /\ zmtx'.failed \/ (zmtx.pc = "fin" /\ zmtx'.failed = zmtx.failed)
        BY <2>2 DEF Exits
      <3> QED
        BY <1>1, <3>1, CountsStay DEF SessionInv
    <2> QED
      BY <2>1, <2>2
  <1>6. Sending' /\ Contacting' /\ Offering' /\ Unmixed'
    BY <1>1 DEF SessionInv, Sending, Contacting, Offering, Unmixed
  <1> QED
    BY <1>3, <1>4, <1>5, <1>6 DEF SessionInv

\* zmtx goes to the k-th file: nothing zmrx wants is on its way to it, and it is
\* inside no file.
LEMMA GoesToKeeps ==
  ASSUME NEW k, NEW results, TypeInv, SessionInv, GoesTo(k, results), MayHear,
         zmrx' = zmrx, stored' = stored, received' = received,
         NothingOffered, ~OnWay("ZRPOS"), k = zmtx.file \/ k = zmtx.file + 1,
         k \notin received, OnWay("ZSKIP") => k \notin zmrx.wanted,
         results \in Outcomes,
         \A j \in File :
           /\ results[j] = "sent" => j < k /\ j \in received /\ stored[j] = j
           /\ results[j] = "skipped" => j \notin zmrx.wanted
           /\ j \in zmrx.wanted /\ j < k => results[j] = "sent"
  PROVE  SessionInv'
  <1>1. /\ Lines /\ zmtx.file \in Nat /\ k \in Nat \ {0} /\ zmtx.file <= k /\ Requests
        /\ zmtx'.file = k
    BY Places DEF GoesTo, SessionInv
  <1>2. \A type : OnWay(type)' => OnWay(type)
    BY <1>1, RepliesHeard
  <1>3. NoBody
    BY <1>1, NothingInside DEF NoBody
  <1>4. /\ Requests' /\ NoBody' /\ zmrx'.pc # "header"
        /\ zmtx'.pc \in {"offer", "fin"}
    <2>0. zmtx'.file \in Nat \ {0} /\ zmtx.file <= zmtx'.file
      BY <1>1
    <2>3. zmrx'.pc # "header" /\ zmtx'.pc \in {"offer", "fin"}
      BY DEF NothingOffered, GoesTo
    <2>1. CASE Extends(toReceiver', toReceiver, Talk)
      <3>1. /\ Talk \subseteq RequestFrame
            /\ \A f \in Talk : Fits(f, zmtx'.file) /\ f.type \notin Body
        BY Subsets, FramesFit
      <3> QED
        <4>1. /\ NoneWanted(Talk) \/ (NoBody /\ \A f \in Talk : f.type \notin Body)
              /\ zmtx'.file = zmtx.file \/ NothingOffered
              /\ \A f \in Talk : Fits(f, zmtx'.file)
          BY <1>3, <3>1
        <4>2. Requests' /\ (NoBody /\ (\A f \in Talk : f.type \notin Body) => NoBody')
          BY <1>1, <2>0, <2>1, <3>1, <4>1, RequestsExtended
        <4> QED
          BY <1>3, <2>3, <3>1, <4>2
    <2>2. CASE Extends(toReceiver', toReceiver, Ask(k))
      <3>1. /\ Ask(k) \subseteq RequestFrame
            /\ \A f \in Ask(k) : Fits(f, zmtx'.file) /\ f.type \notin Body
        BY <1>1, Subsets, FramesFit
      <3> QED
        <4>1. /\ NoneWanted(Ask(k)) \/ (NoBody /\ \A f \in Ask(k) : f.type \notin Body)
              /\ zmtx'.file = zmtx.file \/ NothingOffered
              /\ \A f \in Ask(k) : Fits(f, zmtx'.file)
          BY <1>3, <3>1
        <4>2. Requests' /\ (NoBody /\ (\A f \in Ask(k) : f.type \notin Body) => NoBody')
          BY <1>1, <2>0, <2>2, <3>1, <4>1, RequestsExtended
        <4> QED
          BY <1>3, <2>3, <3>1, <4>2
    <2> QED
      BY <2>1, <2>2, <2>3 DEF GoesTo
  <1>5. Files'
    <2>1. \A j \in received : j \in zmrx.wanted /\ j <= k
      <3>1. \A j \in received : j \in File /\ j \in zmrx.wanted /\ j <= zmtx.file
        BY Places
      <3>2. \A j \in File : j <= zmtx.file => j <= k
        BY <1>1 DEF File
      <3> QED
        BY <3>1, <3>2
    <2>2. \A j \in zmrx.wanted : 1 .. j \subseteq zmrx.wanted
      BY DEF SessionInv, Files
    <2> QED
      BY <1>1, <1>2, <1>4, <2>1, <2>2 DEF Files
  <1>6. Counts'
    <2>1. zmtx'.pc \in {"fin", "exit"} /\ ~zmtx'.failed => zmtx'.file = NFiles + 1
      BY <1>1 DEF GoesTo
    <2>2. outcome' = results \/ (k \in File /\ outcome' = [results EXCEPT ![k] = "failed"])
      BY DEF GoesTo
    <2>3. ASSUME NEW j \in File
          PROVE  outcome'[j] = results[j] \/ (j = k /\ outcome'[j] = "failed")
      BY <2>2 DEF Outcomes
    <2>4. ~(k < k)
      BY <1>1
    <2>5. ASSUME NEW j \in File
          PROVE  /\ outcome'[j] = "sent" => j < k /\ j \in received /\ stored[j] = j
                 /\ outcome'[j] = "skipped" => j \notin zmrx.wanted
                 /\ j \in zmrx.wanted /\ j < k => outcome'[j] = "sent"
      BY <2>3, <2>4
    <2> QED
      BY <1>1, <2>1, <2>5 DEF Counts
  <1>7. Before("ZRINIT", "ZRPOS")' /\ ~OnWay("ZRPOS")'
    BY <1>2 DEF Before, OnWay
  <1>8. Offering'
    BY <1>1, <1>4, <1>7 DEF Offering, NoBody
  <1>9. Sending' /\ Contacting' /\ Unmixed'
    BY <1>4 DEF SessionInv, Sending, Contacting, Unmixed
  <1> QED
    BY <1>4, <1>5, <1>6, <1>8, <1>9 DEF SessionInv

LEMMA GoesOnKeeps ==
  ASSUME TypeInv, SessionInv, GoesOn, zmrx' = zmrx, stored' = stored, received' = received
  PROVE  SessionInv'
  <1>1. /\ Lines /\ outcome \in Outcomes
        /\ zmtx.pc \in {"offer", "ack", "eof"} => zmtx.file \in File
    BY Places
  <1>2. \A j \in File :
          /\ outcome[j] = "sent" => j < zmtx.file /\ j \in received /\ stored[j] = j
          /\ outcome[j] = "skipped" => j \notin zmrx.wanted
          /\ j \in zmrx.wanted /\ j < zmtx.file => outcome[j] = "sent"
    BY DEF SessionInv, Counts
  <1>3. CASE zmtx.pc = "contact" /\ MayHear /\ GoesTo(zmtx.file, outcome)
    <2>1. NothingOffered /\ ~OnWay("ZRPOS") /\ zmtx.file \notin received
      BY <1>3 DEF SessionInv, Contacting
    <2>2. OnWay("ZSKIP") => zmtx.file \notin zmrx.wanted
      BY DEF SessionInv, Files
    <2> QED
      BY <1>1, <1>2, <1>3, <2>1, <2>2, GoesToKeeps
  <1>4. CASE /\ zmtx.pc \in {"offer", "ack", "eof"} /\ Heard("ZSKIP")
             /\ GoesTo(zmtx.file + 1, [outcome EXCEPT ![zmtx.file] = "skipped"])
    <2> DEFINE k == zmtx.file + 1
               results == [outcome EXCEPT ![zmtx.file] = "skipped"]
    <2>1. MayHear
      BY <1>4 DEF Heard, MayHear
    <2>2. OnWay("ZSKIP")
      BY <1>1, <1>4, <2>1, RepliesHeard
    <2>3. zmtx.file \notin zmrx.wanted /\ zmtx.file + 1 \notin zmrx.wanted
      BY <2>2, Places DEF SessionInv, Files
    <2>4. NothingOffered
      BY <2>3 DEF NothingOffered, SessionInv, Files, Requests, Wanted
    <2>5. ~OnWay("ZRPOS")
      BY <1>4, <2>3 DEF SessionInv, Offering, Sending
    <2>6. /\ results \in Outcomes
          /\ \A j \in File : results[j] = IF j = zmtx.file THEN "skipped" ELSE outcome[j]
      BY <1>1, <1>4 DEF Outcomes
    <2>7. GoesTo(k, results) /\ k = zmtx.file + 1 /\ k \notin received
      BY <1>4, Places
    <2> HIDE DEF results, k
    <2>8. \A j \in File :
            /\ results[j] = "sent" => j < k /\ j \in received /\ stored[j] = j
            /\ results[j] = "skipped" => j \notin zmrx.wanted
            /\ j \in zmrx.wanted /\ j < k => results[j] = "sent"
      <3> TAKE j \in File
      <3>1. /\ j < k => j < zmtx.file \/ j = zmtx.file
            /\ j < zmtx.file => j < k
        BY <2>7, Places
      <3> QED
        BY <1>2, <2>3, <2>6, <3>1
    <2> QED
      BY <2>1, <2>3, <2>4, <2>5, <2>6, <2>7, <2>8, GoesToKeeps
  <1>5. CASE /\ zmtx.pc = "eof" /\ Heard("ZRINIT")
             /\ GoesTo(zmtx.file + 1, [outcome EXCEPT ![zmtx.file] = "sent"])
    <2> DEFINE k == zmtx.file + 1
               results == [outcome EXCEPT ![zmtx.file] = "sent"]
    <2>1. MayHear
      BY <1>5 DEF Heard, MayHear
    <2>2. OnWay("ZRINIT") /\ (Before("ZRPOS", "ZRINIT") => ~OnWay("ZRPOS"))
      BY <1>1, <1>5, <2>1, RepliesHeard
    <2>3. zmtx.file \in received /\ ~OnWay("ZRPOS")
      BY <1>5, <2>2 DEF SessionInv, Sending
    <2>4. NothingOffered /\ stored[zmtx.file] = zmtx.file /\ zmtx.file \in zmrx.wanted
      BY <2>3 DEF SessionInv, Files
    <2>5. ~OnWay("ZSKIP")
      BY <2>4 DEF SessionInv, Files
    <2>6. /\ results \in Outcomes
          /\ \A j \in File : results[j] = IF j = zmtx.file THEN "sent" ELSE outcome[j]
      BY <1>1, <1>5 DEF Outcomes
    <2>7. GoesTo(k, results) /\ k = zmtx.file + 1 /\ k \notin received
      BY <1>5, Places
    <2> HIDE DEF results, k
    <2>8. \A j \in File :
            /\ results[j] = "sent" => j < k /\ j \in received /\ stored[j] = j
            /\ results[j] = "skipped" => j \notin zmrx.wanted
            /\ j \in zmrx.wanted /\ j < k => results[j] = "sent"
      <3> TAKE j \in File
      <3>1. /\ j < k => j < zmtx.file \/ j = zmtx.file
            /\ j < zmtx.file => j < k
            /\ j = zmtx.file => j < k
        BY <2>7, Places
      <3> QED
        BY <1>2, <2>3, <2>4, <2>6, <3>1
    <2> QED
      BY <2>1, <2>3, <2>4, <2>5, <2>6, <2>7, <2>8, GoesToKeeps
  <1> QED
    BY <1>3, <1>4, <1>5 DEF GoesOn

LEMMA SenderKeeps ==
  ASSUME TypeInv, SessionInv, SenderStep
  PROVE  SessionInv'
  <1>1. zmrx' = zmrx /\ stored' = stored /\ received' = received /\ SenderTurn
    BY DEF SenderStep
  <1> QED
    BY <1>1, WaitsKeeps, AcceptsKeeps, StopsKeeps, GoesOnKeeps DEF SenderTurn

----------------------------------------------------------------------------
(* zmrx keeps the invariant.                                               *)

LEMMA HeadRead ==
  ASSUME TypeInv, ReadsHead
  PROVE  Reads(1) /\ 1 \in 1 .. Len(toReceiver)
  <1>1. toReceiver \in Seq(RequestFrame)
    BY InFile
  <1>2. Shortens(toReceiver', toReceiver, 1) /\ Len(toReceiver) \in Nat \ {0}
    BY <1>1, TakenShortens DEF ReadsHead
  <1> QED
    BY <1>2 DEF Reads

\* What zmtx has counted stays true while zmrx keeps what it has received and the
\* data of the files before.
LEMMA CountsTrue ==
  ASSUME Counts, zmtx' = zmtx, outcome' = outcome, zmrx'.wanted = zmrx.wanted,
         received \subseteq received',
         \A k \in File : k < zmtx.file => stored'[k] = stored[k]
  PROVE  Counts'
  BY DEF Counts

LEMMA TalksKeeps ==
  ASSUME TypeInv, SessionInv, ReceiverTyped, Talks, zmtx' = zmtx, outcome' = outcome
  PROVE  SessionInv'
  <1>1. /\ Lines /\ toReceiver' \in Seq(RequestFrame) /\ zmrx'.wanted = zmrx.wanted
        /\ zmrx.pc # "header" /\ zmrx'.pc # "header"
        /\ stored' = stored /\ received' = received /\ Requests
    BY Places DEF ReceiverTyped, Talks, KeepsFiles, SessionInv
  <1>2. PICK d \in Nat : Reads(d)
    BY DEF Talks
  <1>3. /\ Requests' /\ (NothingOffered => NothingOffered') /\ (NoBody => NoBody')
    BY <1>1, <1>2, RequestsRead
  <1>4. /\ \A type : OnWay(type)' => \/ OnWay(type)
                                     \/ ~Ended /\ type \notin {"ZSKIP", "ZRPOS"}
                                     \/ type = "ZSKIP" /\ zmtx.file \notin zmrx.wanted
        /\ Before("ZRPOS", "ZRINIT") => Before("ZRPOS", "ZRINIT")'
        /\ Before("ZRINIT", "ZRPOS") /\ (OnWay("ZRPOS") => Ended) => Before("ZRINIT", "ZRPOS")'
        /\ Ended => Ended'
    <2>1. CASE Ended /\ toSender' = toSender /\ zmrx'.pc \in {"over", "exit"}
      <3>1. MayHear
        BY <2>1 DEF MayHear
      <3> QED
        BY <1>1, <2>1, <3>1, RepliesHeard DEF Ended
    <2>2. CASE /\ ~Ended
               /\ Extends(toSender', toSender, Say({"ZRINIT", "ZCOMPL", "ZNAK", "ZFIN", "ZFERR"}))
      <3> DEFINE types == {"ZRINIT", "ZCOMPL", "ZNAK", "ZFIN", "ZFERR"}
      <3>1. "ZSKIP" \notin types /\ "ZRPOS" \notin types
        OBVIOUS
      <3>2. Extends(toSender', toSender, Say(types))
        BY <2>2
      <3> HIDE DEF types
      <3>3. /\ \A type : type \notin types /\ OnWay(type)' => OnWay(type)
            /\ \A a, b : Before(a, b) /\ (a \notin types \/ (b \notin types /\ ~OnWay(b))) =>
                 Before(a, b)'
        BY <1>1, <3>2, RepliesExtended
      <3> QED
        BY <2>2, <3>1, <3>3
    <2>3. CASE /\ ~Ended /\ ReadsHead
               /\ toReceiver[1].type = "ZFILE" /\ toReceiver[1].file \notin zmrx.wanted
               /\ Extends(toSender', toSender, Say({"ZSKIP"}))
      <3>1. toReceiver[1].file \in 1 .. zmtx.file
        BY <2>3, HeadRead DEF SessionInv, Requests
      <3>2. zmtx.file \notin zmrx.wanted
        BY <2>3, <3>1 DEF SessionInv, Files
      <3>3. /\ \A type : type \notin {"ZSKIP"} /\ OnWay(type)' => OnWay(type)
            /\ \A a, b : Before(a, b) /\ (a \notin {"ZSKIP"} \/ (b \notin {"ZSKIP"} /\ ~OnWay(b))) =>
                 Before(a, b)'
        BY <1>1, <2>3, RepliesExtended
      <3> QED
        BY <2>3, <3>2, <3>3
    <2> QED
      BY <2>1, <2>2, <2>3 DEF Talks
  <1>5. Files'
    BY <1>1, <1>3, <1>4 DEF SessionInv, Files
  <1>6. Contacting'
    BY <1>1, <1>3, <1>4 DEF SessionInv, Contacting
  <1>7. Offering'
    <2> SUFFICES ASSUME zmtx.pc = "offer" PROVE Offering'
      BY DEF Offering
    <2>1. /\ zmtx.file \notin received /\ NoBody /\ Before("ZRINIT", "ZRPOS")
          /\ OnWay("ZRPOS") => zmtx.file \in zmrx.wanted /\ Ended
      BY <1>1 DEF SessionInv, Offering, NoBody
    <2>2. NoBody' /\ Before("ZRINIT", "ZRPOS")' /\ (OnWay("ZRPOS")' => OnWay("ZRPOS"))
      BY <1>3, <1>4, <2>1
    <2> QED
      BY <1>1, <1>4, <2>1, <2>2 DEF Offering, NoBody
  <1>8. Sending'
    BY <1>1, <1>4 DEF SessionInv, Sending
  <1>9. Counts' /\ Unmixed'
    BY <1>1, CountsTrue DEF SessionInv, Unmixed
  <1> QED
    BY <1>3, <1>5, <1>6, <1>7, <1>8, <1>9 DEF SessionInv

LEMMA StaysInFileKeeps ==
  ASSUME TypeInv, SessionInv, ReceiverTyped, StaysInFile, zmtx' = zmtx, outcome' = outcome
  PROVE  SessionInv'
  <1> DEFINE types == {"ZRPOS", "ZFERR", "ZFIN"}
  <1>1. /\ Lines /\ toReceiver' \in Seq(RequestFrame) /\ zmrx'.wanted = zmrx.wanted
        /\ zmrx.pc = "header" /\ stored' = stored /\ received' = received /\ Requests
        /\ \/ zmrx'.pc = "header" /\ zmrx'.file = zmrx.file /\ zmrx'.pos = zmrx.pos
           \/ zmrx'.pc = "over"
        /\ Extends(toSender', toSender, Say(types))
    BY Places DEF ReceiverTyped, StaysInFile, KeepsFiles, SessionInv
  <1>2. PICK d \in Nat : Reads(d)
    BY DEF StaysInFile
  <1>3. "ZSKIP" \notin types /\ "ZRINIT" \notin types
    OBVIOUS
  <1> HIDE DEF types
  <1>4. Requests' /\ (NoBody => NoBody')
    BY <1>1, <1>2, RequestsRead
  <1>5. /\ zmtx.file \in zmrx.wanted /\ zmtx.file \notin received /\ zmtx.pc # "contact"
        /\ zmrx.file = zmtx.file /\ (zmrx.pos = 1 => stored[zmtx.file] = zmtx.file)
        /\ zmtx.pc \in {"ack", "eof"} => ~OnWay("ZRINIT")
    BY <1>1 DEF SessionInv, Files, Contacting, NothingOffered, Sending
  <1>6. /\ \A type : type \notin types /\ OnWay(type)' => OnWay(type)
        /\ \A a, b : Before(a, b) /\ (a \notin types \/ (b \notin types /\ ~OnWay(b))) =>
             Before(a, b)'
    BY <1>1, RepliesExtended
  <1>7. Files'
    BY <1>1, <1>3, <1>5, <1>6 DEF SessionInv, Files
  <1>8. Contacting'
    BY <1>5 DEF Contacting
  <1>9. Offering'
    BY <1>1, <1>3, <1>4, <1>5, <1>6 DEF SessionInv, Offering, NoBody, Ended
  <1>10. Sending'
    BY <1>1, <1>3, <1>5, <1>6 DEF SessionInv, Sending, Ended
  <1>11. Counts' /\ Unmixed'
    BY <1>1, CountsTrue DEF SessionInv, Unmixed
  <1> QED
    BY <1>4, <1>7, <1>8, <1>9, <1>10, <1>11 DEF SessionInv

LEMMA OpensKeeps ==
  ASSUME TypeInv, SessionInv, ReceiverTyped, Opens, zmtx' = zmtx, outcome' = outcome
  PROVE  SessionInv'
  <1>1. /\ Lines /\ toReceiver' \in Seq(RequestFrame) /\ zmrx'.wanted = zmrx.wanted
        /\ Wanted(toReceiver[1]) /\ Reads(1) /\ 1 \in 1 .. Len(toReceiver)
        /\ zmrx'.pc = "header" /\ received' = received /\ Requests
        /\ Extends(toSender', toSender, Say({"ZRPOS"}))
    BY Places, HeadRead DEF ReceiverTyped, Opens, SessionInv
  <1>2. /\ toReceiver[1].file = zmtx.file /\ zmtx.file \in zmrx.wanted
        /\ ~NothingOffered
    BY <1>1 DEF Requests, NothingOffered, Wanted
  <1>3. zmtx.file \notin received /\ zmtx.pc # "contact" /\ ~OnWay("ZSKIP")
    BY <1>2 DEF SessionInv, Files, Contacting
  <1>4. /\ zmrx'.file = zmtx.file /\ zmrx'.pos = 0
        /\ stored' = [stored EXCEPT ![zmtx.file] = 0]
    BY <1>2, <1>3 DEF Opens
  <1>5. /\ Requests' /\ (NoBody => NoBody')
    BY <1>1, RequestsRead
  <1>6. /\ \A type : type # "ZRPOS" /\ OnWay(type)' => OnWay(type)
        /\ \A a, b : Before(a, b) /\ (a # "ZRPOS" \/ (b # "ZRPOS" /\ ~OnWay(b))) =>
             Before(a, b)'
    BY <1>1, RepliesExtended
  <1>7. /\ stored \in [File -> 0 .. NFiles]
        /\ \A k \in File : k < zmtx.file => k # zmtx.file
    BY InFile, Places
  <1>8. Files'
    BY <1>1, <1>2, <1>3, <1>4, <1>6 DEF SessionInv, Files
  <1>9. Contacting'
    BY <1>3 DEF Contacting
  <1>10. Offering'
    BY <1>1, <1>2, <1>5, <1>6 DEF SessionInv, Offering, NoBody
  <1>11. Sending'
    BY <1>1, <1>2, <1>3, <1>6 DEF SessionInv, Sending
  <1>12. Counts'
    <2>1. \A k \in File : k < zmtx.file => stored'[k] = stored[k]
      BY <1>4, <1>7
    <2> QED
      BY <1>1, <2>1, CountsTrue DEF SessionInv
  <1>13. Unmixed'
    BY <1>4, <1>7 DEF SessionInv, Unmixed
  <1> QED
    BY <1>5, <1>8, <1>9, <1>10, <1>11, <1>12, <1>13 DEF SessionInv

LEMMA StoresKeeps ==
  ASSUME TypeInv, SessionInv, ReceiverTyped, Stores, zmtx' = zmtx, outcome' = outcome
  PROVE  SessionInv'
  <1>1. /\ Lines /\ toReceiver' \in Seq(RequestFrame) /\ zmrx'.wanted = zmrx.wanted
        /\ toReceiver[1].type \in {"DATA", "DATAW"} /\ Reads(1) /\ 1 \in 1 .. Len(toReceiver)
        /\ zmrx.pc = "header" /\ zmrx'.pc = "header" /\ zmrx'.file = zmrx.file
        /\ received' = received /\ Requests
        /\ Extends(toSender', toSender, Say({"ZACK"}))
    BY Places, HeadRead DEF ReceiverTyped, Stores, SessionInv
  <1>2. toReceiver[1].file = zmtx.file
    BY <1>1 DEF Requests, Inside
  <1>3. /\ zmtx.file \in zmrx.wanted /\ zmtx.file \notin received /\ zmtx.pc # "contact"
        /\ zmrx.file = zmtx.file /\ (zmrx.pos = 1 => stored[zmtx.file] = zmtx.file)
    BY <1>1 DEF SessionInv, Files, Contacting, NothingOffered
  <1>4. /\ stored \in [File -> 0 .. NFiles] /\ zmtx.file \in File
        /\ \A k \in File : k < zmtx.file => k # zmtx.file
    BY <1>1, <1>3, InFile, Places
  <1>5. \/ stored' = [stored EXCEPT ![zmtx.file] = zmtx.file]
        \/ stored' = stored /\ stored[zmtx.file] = zmtx.file
    BY <1>2, <1>3 DEF Stores
  <1>6. \A k \in File : stored'[k] = IF k = zmtx.file THEN zmtx.file ELSE stored[k]
    BY <1>4, <1>5
  <1>7. Requests' /\ (NoBody => NoBody')
    BY <1>1, RequestsRead
  <1>8. /\ \A type : type # "ZACK" /\ OnWay(type)' => OnWay(type)
        /\ \A a, b : Before(a, b) /\ (a # "ZACK" \/ (b # "ZACK" /\ ~OnWay(b))) =>
             Before(a, b)'
    BY <1>1, RepliesExtended
  <1>9. Files'
    BY <1>1, <1>3, <1>4, <1>6, <1>8 DEF SessionInv, Files
  <1>10. Contacting'
    BY <1>3 DEF Contacting
  <1>11. Offering'
    BY <1>1, <1>3, <1>7, <1>8 DEF SessionInv, Offering, NoBody
  <1>12. Sending'
    BY <1>1, <1>8 DEF SessionInv, Sending
  <1>13. Counts'
    BY <1>1, <1>4, <1>6, CountsTrue DEF SessionInv
  <1>14. Unmixed'
    BY <1>6 DEF SessionInv, Unmixed
  <1> QED
    BY <1>7, <1>9, <1>10, <1>11, <1>12, <1>13, <1>14 DEF SessionInv

LEMMA CompletesKeeps ==
  ASSUME TypeInv, SessionInv, ReceiverTyped, Completes, zmtx' = zmtx, outcome' = outcome
  PROVE  SessionInv'
  <1>1. /\ Lines /\ toReceiver' \in Seq(RequestFrame) /\ zmrx'.wanted = zmrx.wanted
        /\ toReceiver[1].type = "ZEOF" /\ toReceiver[1].pos = zmrx.pos
        /\ Reads(1) /\ 1 \in 1 .. Len(toReceiver)
        /\ zmrx.pc = "header" /\ zmrx'.pc = "session" /\ stored' = stored /\ Requests
        /\ received' = received \cup {zmrx.file}
        /\ Extends(toSender', toSender, Say({"ZRINIT"}))
    BY Places, HeadRead DEF ReceiverTyped, Completes, SessionInv
  <1>2. Inside(1) /\ toReceiver[1].type \in Body
    BY <1>1 DEF Inside, Body
  <1>3. /\ zmtx.file \in zmrx.wanted /\ zmtx.pc # "contact"
        /\ zmrx.file = zmtx.file /\ stored[zmtx.file] = zmtx.file /\ ~OnWay("ZSKIP")
    BY <1>1 DEF SessionInv, Files, Contacting, NothingOffered, Requests
  <1>4. zmtx.pc # "offer"
    BY <1>1, <1>2 DEF SessionInv, Offering
  <1>5. Requests'
    BY <1>1, RequestsRead
  <1>6. NothingOffered'
    <2> DEFINE n == Len(toReceiver)  m == Len(toReceiver')
    <2>1. /\ n \in Nat /\ m \in Nat
          /\ \A i \in 1 .. m : i + 1 \in 1 .. n /\ toReceiver'[i] = toReceiver[i + 1]
      <3>1. /\ toReceiver \in Seq(RequestFrame) /\ toReceiver' \in Seq(RequestFrame)
            /\ Shortens(toReceiver', toReceiver, 1)
        BY <1>1 DEF Lines, Reads
      <3> QED
        BY <3>1, Shortened
    <2>2. 1 \in 1 .. n
      BY <1>1
    <2> HIDE DEF n, m
    <2>3. ASSUME NEW i \in 1 .. m PROVE ~Wanted(toReceiver[i])'
      <3>1. i + 1 \in 1 .. n /\ 1 < i + 1
        BY <2>1
      <3>2. ~Wanted(toReceiver[i + 1])
        BY <1>1, <1>2, <2>2, <3>1 DEF Requests, n
      <3> QED
        BY <1>1, <2>1, <3>2 DEF Wanted
    <2> QED
      BY <1>1, <2>3 DEF NothingOffered, m
  <1>7. /\ \A type : type # "ZRINIT" /\ OnWay(type)' => OnWay(type)
        /\ \A a, b : Before(a, b) /\ (a # "ZRINIT" \/ (b # "ZRINIT" /\ ~OnWay(b))) =>
             Before(a, b)'
    BY <1>1, RepliesExtended
  <1>8. zmtx.file <= zmtx.file
    BY Places
  <1>9. Files'
    BY <1>1, <1>3, <1>6, <1>7, <1>8 DEF SessionInv, Files
  <1>10. Contacting' /\ Offering'
    BY <1>3, <1>4 DEF Contacting, Offering
  <1>11. Sending'
    BY <1>1, <1>3, <1>7 DEF SessionInv, Sending
  <1>12. Counts' /\ Unmixed'
    BY <1>1, CountsTrue DEF SessionInv, Unmixed
  <1> QED
    BY <1>5, <1>9, <1>10, <1>11, <1>12 DEF SessionInv

LEMMA ReceiverKeeps ==
  ASSUME TypeInv, SessionInv, ReceiverStep
  PROVE  SessionInv'
  BY TalksKeeps, StaysInFileKeeps, OpensKeeps, StoresKeeps, CompletesKeeps
  DEF ReceiverStep, ReceiverTurn

----------------------------------------------------------------------------
(* The theorems.                                                           *)

LEMMA InvInit == Prefix /\ Init => SessionInv
  <1> SUFFICES ASSUME Prefix, Init PROVE SessionInv
    OBVIOUS
  <1>1. /\ zmtx.pc = "contact" /\ zmtx.file = 1 /\ zmrx.pc = "contact"
        /\ zmrx.wanted \in Policies /\ received = {}
        /\ outcome = [k \in File |-> "none"] /\ stored = [k \in File |-> 0]
    BY DEF Init
  <1>2. Len(toReceiver) = 1 /\ toReceiver[1].type = "ZRQINIT"
    BY DEF Init, Plain, Frame
  <1>3. \A i \in 1 .. Len(toSender) : toSender[i].type = "ZRINIT"
    <2>1. CASE toSender = << >>
      BY <2>1
    <2>2. CASE toSender = <<Plain("ZRINIT")>>
      BY <2>2 DEF Plain, Frame
    <2> QED
      BY <2>1, <2>2 DEF Init
  <1>4. \A j \in 1 .. Len(toReceiver) : j = 1
    BY <1>2
  <1>5. Requests /\ NothingOffered
    BY <1>1, <1>2, <1>4 DEF Requests, NothingOffered, Wanted, Body
  <1>6. \A type : OnWay(type) => type = "ZRINIT"
    BY <1>3 DEF OnWay
  <1>7. Files
    BY <1>1, <1>6 DEF Files, Prefix
  <1>8. Contacting /\ Offering /\ Sending
    BY <1>1, <1>5, <1>6 DEF Contacting, Offering, Sending
  <1>9. Counts
    <2>1. \A k \in File : ~(k < 1)
      BY SessionAssumption DEF File
    <2> QED
      BY <1>1, <2>1 DEF Counts
  <1>10. Unmixed
    BY <1>1 DEF Unmixed
  <1> QED
    BY <1>5, <1>7, <1>8, <1>9, <1>10 DEF SessionInv

LEMMA InvKept == TypeInv /\ SessionInv /\ [Next]_vars => SessionInv'
  <1> SUFFICES ASSUME TypeInv, SessionInv, [Next]_vars PROVE SessionInv'
    OBVIOUS
  <1>1. CASE UNCHANGED vars
    BY <1>1 DEF vars, SessionInv, Requests, Files, Contacting, Offering, Sending, Counts,
                Unmixed, NothingOffered, Inside, Wanted, OnWay, Before, Ended
  <1> QED
    BY <1>1, Steps, SenderKeeps, ReceiverKeeps

\* Where zmrx wants the first files and none after them, zmtx and zmrx speak of the
\* same file throughout, and no answer is taken for one about another file.
THEOREM Invariance == Prefix /\ Spec => [](TypeInv /\ SessionInv)
  <1>1. Prefix /\ Init => TypeInv /\ SessionInv
    BY TypeInit, InvInit
  <1>2. TypeInv /\ SessionInv /\ [Next]_vars => (TypeInv /\ SessionInv)'
    BY TypeKept, InvKept
  <1> QED
    BY <1>1, <1>2, PTL DEF Spec

\* Then no file's data is stored under another's name.
THEOREM NamesKept == Prefix /\ Spec => []Unmixed
  <1>1. TypeInv /\ SessionInv => Unmixed
    BY DEF SessionInv
  <1> QED
    BY <1>1, Invariance, PTL

LEMMA CountsReport == TypeInv /\ SessionInv => ReportsTrue
  <1> SUFFICES ASSUME TypeInv, SessionInv PROVE ReportsTrue
    OBVIOUS
  <1>1. \A k \in File :
          /\ outcome[k] = "sent" => k \in received /\ stored[k] = k
          /\ outcome[k] = "skipped" => k \notin zmrx.wanted
    BY DEF SessionInv, Counts
  <1>2. ASSUME zmtx.pc = "exit", ~zmtx.failed PROVE zmrx.wanted = received
    <2>1. zmtx.file = NFiles + 1
      BY <1>2 DEF SessionInv, Counts
    <2>2. \A k \in zmrx.wanted : k \in File /\ k < zmtx.file
      BY <2>1, Places DEF File
    <2>3. \A k \in zmrx.wanted : k \in received
      BY <2>2 DEF SessionInv, Counts
    <2>4. \A k \in received : k \in zmrx.wanted
      BY Places
    <2> QED
      BY <2>3, <2>4
  <1> QED
    BY <1>1, <1>2 DEF ReportsTrue

\* Then what zmtx reports of each file, and of all of them, is what zmrx has.
THEOREM TrueReports == Prefix /\ Spec => []ReportsTrue
  BY CountsReport, Invariance, PTL

=============================================================================
