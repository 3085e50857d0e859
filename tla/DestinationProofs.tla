------------------------- MODULE DestinationProofs -------------------------
(***************************************************************************)
(* Proofs about Destination for every set of lengths and of dates and any      *)
(* number of versions: unless another program has made the dates equal, they   *)
(* do not deceive and what is received is the sender's file; protection keeps  *)
(* what was there in any case.                                               *)
(***************************************************************************)
EXTENDS Destination, TLAPS, SequenceTheorems

\* A file that does not exist has no blocks.
Blank == ~copy.exists => copy.blocks = << >>

Beginning == copy.blocks = Prefix(Len(copy.blocks))

\* What receive_file decided on from stat is still so when it opens the file,
\* and the file it is receiving into is a beginning of the sender's, unless its
\* date had deceived.
Decided ==
  /\ session.pc = "idle" => session.option = "none"
  /\ session.pc # "idle" => session.result = "none"
  /\ session.pc = "opening" /\ session.recover => Recoverable(session.dated)
  /\ session.pc = "opening" /\ session.option = "protect" /\ ~session.recover =>
       session.exclusive
  /\ session.pc = "receiving" /\ ~coincided => Beginning

DestinationInv == TypeOK /\ Blank /\ DateTells /\ Decided

----------------------------------------------------------------------------
(* Beginnings of a file.                                                   *)

LEMMA BeginningOf ==
  ASSUME NEW s \in Seq(Nat), NEW v \in Nat
  PROVE  s = [i \in 1 .. Len(s) |-> v] <=> \A i \in 1 .. Len(s) : s[i] = v
  <1>1. s = [i \in 1 .. Len(s) |-> s[i]]
    OBVIOUS
  <1> QED
    BY <1>1

\* A beginning of a beginning is one, and so is one with one block more.
LEMMA BeginningCut ==
  ASSUME NEW s \in Seq(Nat), NEW v \in Nat, NEW n \in 0 .. Len(s)
  PROVE  /\ SubSeq(s, 1, n) \in Seq(Nat) /\ Len(SubSeq(s, 1, n)) = n
         /\ \A i \in 1 .. n : SubSeq(s, 1, n)[i] = s[i]
         /\ s = [i \in 1 .. Len(s) |-> v] =>
              SubSeq(s, 1, n) = [i \in 1 .. Len(SubSeq(s, 1, n)) |-> v]
  <1> DEFINE t == SubSeq(s, 1, n)
  <1>1. t \in Seq(Nat) /\ Len(t) = n /\ \A i \in 1 .. n : t[i] = s[i]
    BY SubSeqProperties
  <1>2. ASSUME s = [i \in 1 .. Len(s) |-> v] PROVE t = [i \in 1 .. Len(t) |-> v]
    <2>1. \A i \in 1 .. n : s[i] = v
      BY <1>2
    <2> HIDE DEF t
    <2> QED
      BY <1>1, <2>1, BeginningOf
  <1> QED
    BY <1>1, <1>2

LEMMA BeginningAppended ==
  ASSUME NEW s \in Seq(Nat), NEW v \in Nat, s = [i \in 1 .. Len(s) |-> v]
  PROVE  Append(s, v) = [i \in 1 .. Len(Append(s, v)) |-> v]
  <1> DEFINE t == Append(s, v)
  <1>1. \A i \in 1 .. Len(s) : s[i] = v
    OBVIOUS
  <1>2. /\ t \in Seq(Nat) /\ Len(t) = Len(s) + 1 /\ t[Len(s) + 1] = v
        /\ \A i \in 1 .. Len(s) : t[i] = s[i]
    BY AppendProperties
  <1>3. \A i \in 1 .. Len(t) : t[i] = v
    BY <1>1, <1>2
  <1> HIDE DEF t
  <1>4. t = [i \in 1 .. Len(t) |-> v]
    BY <1>2, <1>3, BeginningOf
  <1> QED
    BY <1>4 DEF t

LEMMA BeginningEmpty ==
  ASSUME NEW v
  PROVE  << >> = [i \in 1 .. Len(<< >>) |-> v]
  OBVIOUS

----------------------------------------------------------------------------
(* The invariant.                                                          *)

LEMMA Initial == Init => DestinationInv
  <1> SUFFICES ASSUME Init PROVE DestinationInv
    OBVIOUS
  <1> USE DestinationAssumption
  <1>1. PICK n \in Lengths, e \in Dates : source = [version |-> 1, len |-> n, mtime |-> e]
    BY DEF Init
  <1>2. session = Idle("none") /\ coincided = SameDate
    BY DEF Init
  <1>3. SameDate \in BOOLEAN
    BY DEF SameDate, Init, NoFile, Foreign
  <1>4. copy \in [exists : BOOLEAN, blocks : Seq(Nat), mtime : Dates \cup {0}] /\ Blank
    <2>1. CASE copy = NoFile
      BY <2>1 DEF NoFile, Blank
    <2>2. CASE \E k \in Lengths, d \in Dates : copy = Foreign(k, d)
      <3>1. PICK k \in Lengths, d \in Dates : copy = Foreign(k, d)
        BY <2>2
      <3>2. [i \in 1 .. k |-> 0] \in Seq(Nat)
        OBVIOUS
      <3> QED
        BY <3>1, <3>2 DEF Foreign, Blank
    <2> QED
      BY <2>1, <2>2 DEF Init
  <1>5. TypeOK
    BY <1>1, <1>2, <1>3, <1>4 DEF Idle, TypeOK, Option
  <1>6. DateTells /\ Decided
    BY <1>2 DEF DateTells, Decided, Idle
  <1> QED
    BY <1>4, <1>5, <1>6 DEF DestinationInv

\* The decision: receive_file goes by what stat says.
LEMMA OfferedKeeps ==
  ASSUME DestinationInv, Offered
  PROVE  DestinationInv'
  <1> USE DestinationAssumption DEF DestinationInv
  <1>1. PICK tx \in Option, rx \in Option, dated \in BOOLEAN :
          session' = IF Skipped(Selected(tx, rx), dated) THEN Idle("skipped")
                     ELSE [pc |-> "opening", result |-> "none",
                           option |-> Selected(tx, rx),
                           exclusive |-> Selected(tx, rx) = "protect" /\ ~copy.exists,
                           recover |-> Recoverable(dated), dated |-> dated,
                           start |-> 0]
    BY DEF Offered
  <1>2. UNCHANGED <<source, copy, coincided>>
    BY DEF Offered
  <1>3. Selected(tx, rx) \in Option
    BY DEF Selected, Option
  <1>4. Recoverable(dated) \in BOOLEAN
    BY DEF Recoverable, SameDate, TypeOK
  <1>5. Blank' /\ DateTells'
    BY <1>2 DEF Blank, DateTells, SameDate, Prefix
  <1>6. CASE Skipped(Selected(tx, rx), dated)
    BY <1>1, <1>2, <1>5, <1>6 DEF Idle, TypeOK, Option, Decided
  <1>7. CASE ~Skipped(Selected(tx, rx), dated)
    <2>1. session' = [pc |-> "opening", result |-> "none",
                      option |-> Selected(tx, rx),
                      exclusive |-> Selected(tx, rx) = "protect" /\ ~copy.exists,
                      recover |-> Recoverable(dated), dated |-> dated, start |-> 0]
      BY <1>1, <1>7
    <2>2. TypeOK'
      BY <1>2, <1>3, <1>4, <2>1 DEF TypeOK
    <2>3. Recoverable(dated) => (session.recover /\ Recoverable(session.dated))'
      BY <1>2, <2>1 DEF Recoverable, SameDate
    <2>4. session'.option = "protect" /\ ~session'.recover => session'.exclusive
      BY <1>7, <2>1 DEF Skipped
    <2>5. Decided'
      BY <1>2, <2>1, <2>3, <2>4 DEF Decided
    <2> QED
      BY <1>5, <2>2, <2>5
  <1> QED
    BY <1>6, <1>7

\* A copy that is recovered is a beginning because its date says so; any other is
\* empty.
LEMMA OpenedKeeps ==
  ASSUME DestinationInv, Opened
  PROVE  DestinationInv'
  <1> USE DestinationAssumption DEF DestinationInv
  <1>1. PICK d \in Dates :
          copy' = IF session.recover THEN copy
                  ELSE [exists |-> TRUE, blocks |-> << >>, mtime |-> d]
    BY DEF Opened
  <1>2. source' = source /\ source.len \in Nat /\ coincided' = (coincided /\ session.recover)
    BY DEF Opened, TypeOK
  <1>3. /\ copy' \in [exists : BOOLEAN, blocks : Seq(Nat), mtime : Dates \cup {0}]
        /\ copy'.exists
        /\ Len(copy'.blocks) <= source.len
        /\ ~coincided' => Beginning'
    <2>1. CASE session.recover
      <3>1. copy' = copy /\ Recoverable(session.dated) /\ coincided' = coincided
        BY <1>1, <1>2, <2>1 DEF Opened, Decided, TypeOK
      <3>2. ~coincided => Beginning
        BY <3>1 DEF Recoverable, DateTells, Beginning
      <3> QED
        BY <1>2, <3>1, <3>2 DEF TypeOK, Recoverable, SameDate, Beginning, Prefix
    <2>2. CASE ~session.recover
      <3>1. copy' = [exists |-> TRUE, blocks |-> << >>, mtime |-> d]
        BY <1>1, <2>2
      <3>2. copy'.blocks = << >> /\ Len(<< >>) = 0 /\ << >> \in Seq(Nat)
        BY <3>1
      <3>3. Beginning'
        BY <3>2, BeginningEmpty DEF Beginning, Prefix
      <3> QED
        BY <1>2, <3>1, <3>2, <3>3
    <2> QED
      BY <2>1, <2>2
  <1>4. Len(copy'.blocks) \in Nat
    BY <1>3
  <1>5. /\ session' \in [pc : {"receiving"}, result : {session.result},
                       option : Option, exclusive : BOOLEAN, recover : BOOLEAN,
                       dated : BOOLEAN, start : Nat]
        /\ session'.start = Len(copy'.blocks)
    BY <1>4 DEF Opened, TypeOK
  <1>6. session.result \in {"none"} /\ coincided' \in BOOLEAN
    BY <1>2 DEF Opened, Decided
  <1>7. TypeOK'
    <2>1. session' \in [pc : {"idle", "opening", "receiving"},
                        result : {"none", "received", "skipped", "failed"},
                        option : Option, exclusive : BOOLEAN, recover : BOOLEAN,
                        dated : BOOLEAN, start : Nat]
      BY <1>5, <1>6
    <2>2. copy' \in [exists : BOOLEAN, blocks : Seq(Nat), mtime : Dates \cup {0}]
      BY <1>3
    <2>3. copy'.exists /\ session'.start <= Len(copy'.blocks)
      BY <1>3, <1>4, <1>5
    <2> QED
      BY <1>2, <1>3, <1>6, <2>1, <2>2, <2>3 DEF TypeOK
  <1>8. Blank' /\ DateTells' /\ Decided'
    BY <1>3, <1>5, <1>6 DEF Blank, DateTells, Decided, Beginning
  <1> QED
    BY <1>7, <1>8

LEMMA StoredKeeps ==
  ASSUME DestinationInv, Stored
  PROVE  DestinationInv'
  <1> USE DestinationAssumption DEF DestinationInv
  <1>1. /\ ~coincided => Beginning
        /\ copy.blocks \in Seq(Nat) /\ source.version \in Nat /\ source.len \in Nat
    BY DEF Stored, Decided, TypeOK
  <1>2. PICK d \in Dates :
          copy' = [copy EXCEPT !.blocks = Append(copy.blocks, source.version), !.mtime = d]
    BY DEF Stored
  <1>3. /\ copy'.blocks = Append(copy.blocks, source.version)
        /\ copy'.mtime = d /\ copy'.exists = copy.exists
    BY <1>2 DEF TypeOK
  <1>4. /\ copy'.blocks \in Seq(Nat)
        /\ Len(copy'.blocks) = Len(copy.blocks) + 1
    BY <1>1, <1>3, AppendProperties
  <1>5. source' = source /\ session' = session /\ coincided' = coincided
        /\ session.pc = "receiving" /\ copy.exists
    BY DEF Stored, TypeOK
  <1>6. ~coincided => Beginning'
    BY <1>1, <1>3, <1>5, BeginningAppended DEF Beginning, Prefix
  <1>7. TypeOK'
    <2>1. copy' = [exists |-> copy.exists, blocks |-> Append(copy.blocks, source.version),
                   mtime |-> d]
      BY <1>2 DEF TypeOK
    <2> HIDE DEF DestinationInv
    <2>2. copy' \in [exists : BOOLEAN, blocks : Seq(Nat), mtime : Dates \cup {0}]
      BY <1>3, <1>4, <1>5, <2>1
    <2>3. copy'.exists /\ session.start <= Len(copy'.blocks) /\ Len(copy'.blocks) <= source.len
      BY <1>1, <1>3, <1>4, <1>5 DEF DestinationInv, Stored, TypeOK
    <2> QED
      BY <1>5, <2>2, <2>3 DEF DestinationInv, TypeOK
  <1>8. Blank' /\ DateTells' /\ Decided'
    BY <1>3, <1>5, <1>6 DEF Blank, DateTells, Decided, Beginning
  <1> QED
    BY <1>7, <1>8

LEMMA ReceivedKeeps ==
  ASSUME DestinationInv, Received
  PROVE  DestinationInv'
  <1> USE DestinationAssumption DEF DestinationInv
  <1>1. (~coincided => Beginning) /\ copy.exists
    BY DEF Received, Decided, TypeOK
  <1>2. copy'.blocks = copy.blocks /\ copy'.exists = copy.exists
    BY DEF Received, TypeOK
  <1>3. source' = source /\ session' = Idle("received") /\ coincided' = coincided
    BY DEF Received
  <1>4. TypeOK'
    <2>1. copy' \in [exists : BOOLEAN, blocks : Seq(Nat), mtime : Dates \cup {0}]
      BY SMTT(60) DEF Received, TypeOK
    <2> QED
      BY <1>3, <2>1 DEF TypeOK, Idle, Option
  <1>5. Blank' /\ DateTells' /\ Decided'
    BY <1>1, <1>2, <1>3 DEF Blank, DateTells, Decided, Beginning, Prefix, Idle
  <1> QED
    BY <1>4, <1>5

\* What is lost when zmrx is killed is the end of the copy.
LEMMA KilledKeeps ==
  ASSUME DestinationInv, Killed
  PROVE  DestinationInv'
  <1> USE DestinationAssumption DEF DestinationInv
  <1>1. PICK n \in session.start .. Len(copy.blocks) :
          copy' = [copy EXCEPT !.blocks = SubSeq(copy.blocks, 1, n)]
    BY DEF Killed
  <1>2. /\ ~coincided => Beginning
        /\ copy.blocks \in Seq(Nat) /\ source.version \in Nat
        /\ n \in 0 .. Len(copy.blocks) /\ copy.exists
    BY DEF Killed, Decided, TypeOK
  <1>3. /\ copy'.blocks = SubSeq(copy.blocks, 1, n)
        /\ copy'.mtime = copy.mtime /\ copy'.exists
    BY <1>1, <1>2 DEF TypeOK
  <1>4. source' = source /\ session' = Idle("none") /\ coincided' = coincided
    BY DEF Killed
  <1> DEFINE s == copy.blocks  v == source.version
  <1>5. /\ SubSeq(s, 1, n) \in Seq(Nat)
        /\ s = [i \in 1 .. Len(s) |-> v] =>
             SubSeq(s, 1, n) = [i \in 1 .. Len(SubSeq(s, 1, n)) |-> v]
    BY <1>2, BeginningCut, SMTT(60)
  <1>6. copy'.blocks \in Seq(Nat) /\ (~coincided => Beginning')
    BY <1>2, <1>3, <1>4, <1>5 DEF Beginning, Prefix
  <1>7. TypeOK'
    BY <1>1, <1>3, <1>4, <1>6 DEF TypeOK, Idle, Option
  <1>8. Blank' /\ DateTells' /\ Decided'
    BY <1>3, <1>4, <1>6 DEF Blank, DateTells, Decided, Beginning, Idle
  <1> QED
    BY <1>7, <1>8

\* A new version of the sender's file either has another date than the copy, or
\* the dates coincide.
LEMMA EditedKeeps ==
  ASSUME DestinationInv, Edited
  PROVE  DestinationInv'
  <1> USE DestinationAssumption DEF DestinationInv
  <1>1. PICK n \in Lengths, d \in Dates :
          source' = [version |-> source.version + 1, len |-> n, mtime |-> d]
    BY DEF Edited
  <1>2. /\ copy' = copy /\ session' = session /\ session.pc = "idle"
        /\ coincided' = SameDate'
    BY DEF Edited
  <1>3. SameDate' \in BOOLEAN
    BY <1>2 DEF SameDate, TypeOK
  <1>4. TypeOK'
    BY <1>1, <1>2, <1>3 DEF TypeOK
  <1>5. Blank' /\ DateTells' /\ Decided'
    BY <1>2 DEF Blank, DateTells, Decided
  <1> QED
    BY <1>4, <1>5

\* So does a file that another program creates; receive_file then was not about
\* to resume one.
LEMMA AppearsKeeps ==
  ASSUME DestinationInv, Appears
  PROVE  DestinationInv'
  <1> USE DestinationAssumption DEF DestinationInv
  <1>1. PICK n \in Lengths, d \in Dates : copy' = Foreign(n, d)
    BY DEF Appears
  <1>2. /\ source' = source /\ session' = session /\ session.pc = "opening"
        /\ ~copy.exists /\ coincided' = SameDate'
    BY DEF Appears
  <1>3. [i \in 1 .. n |-> 0] \in Seq(Nat)
    OBVIOUS
  <1>4. SameDate' \in BOOLEAN
    BY <1>1 DEF SameDate, Foreign
  <1>5. TypeOK'
    BY <1>1, <1>2, <1>3, <1>4 DEF Foreign, TypeOK
  <1>6. ~session.recover
    BY <1>2 DEF Decided, Recoverable, SameDate
  <1>7. Blank' /\ DateTells' /\ Decided'
    BY <1>1, <1>2, <1>6 DEF Foreign, Blank, DateTells, Decided
  <1> QED
    BY <1>5, <1>7

LEMMA OthersKeep ==
  ASSUME DestinationInv, OpenFails \/ Failed \/ UNCHANGED vars
  PROVE  DestinationInv'
  <1> USE DestinationAssumption DEF DestinationInv
  <1>1. source' = source /\ copy' = copy /\ coincided' = coincided
    BY DEF OpenFails, Failed, vars
  <1>2. session' = session \/ session' = Idle("failed")
    BY DEF OpenFails, Failed, vars
  <1>3. TypeOK'
    <2>1. CASE session' = session
      BY <1>1, <2>1 DEF TypeOK
    <2>2. CASE session' = Idle("failed")
      BY <1>1, <2>2 DEF TypeOK, Idle, Option
    <2> QED
      BY <1>2, <2>1, <2>2
  <1>4. Blank' /\ DateTells'
    BY <1>1 DEF Blank, DateTells, SameDate, Prefix
  <1>5. Decided'
    BY <1>1, <1>2 DEF Decided, Idle, Beginning, Prefix, Recoverable, SameDate
  <1> QED
    BY <1>3, <1>4, <1>5

\* The dates, the decisions and the copy agree, whatever becomes of a session
\* (receive_file, receive_file_data, cleanup).
THEOREM Invariance == Spec => []DestinationInv
  <1>1. Init => DestinationInv
    BY Initial
  <1>2. DestinationInv /\ [Next]_vars => DestinationInv'
    <2> SUFFICES ASSUME DestinationInv, [Next]_vars PROVE DestinationInv'
      OBVIOUS
    <2>1. CASE Offered
      BY <2>1, OfferedKeeps
    <2>2. CASE Opened
      BY <2>2, OpenedKeeps
    <2>3. CASE Stored
      BY <2>3, StoredKeeps
    <2>4. CASE Received
      BY <2>4, ReceivedKeeps
    <2>5. CASE Killed
      BY <2>5, KilledKeeps
    <2>6. CASE Edited
      BY <2>6, EditedKeeps
    <2>7. CASE Appears
      BY <2>7, AppearsKeeps
    <2>8. CASE OpenFails \/ Failed \/ UNCHANGED vars
      BY <2>8, OthersKeep
    <2> QED
      BY <2>1, <2>2, <2>3, <2>4, <2>5, <2>6, <2>7, <2>8 DEF Next
  <1> QED
    BY <1>1, <1>2, PTL DEF Spec

\* The variables have the values struct rx_session and stat can have.
THEOREM TypeCorrect == Spec => []TypeOK
  <1>1. DestinationInv => TypeOK
    BY DEF DestinationInv
  <1> QED
    BY <1>1, Invariance, PTL

\* A copy with the date of the sender's file is a beginning of that file, unless
\* another program made the dates equal: what zmrx leaves, however its sessions
\* end and whatever the clocks show, never deceives the next (zmrx.c:771).
THEOREM DatesTell == Spec => []DateTells
  <1>1. DestinationInv => DateTells
    BY DEF DestinationInv
  <1> QED
    BY <1>1, Invariance, PTL

----------------------------------------------------------------------------
(* What a step may never do.                                               *)

\* A file reported as received is the sender's, every block of it, on the same
\* premise.
THEOREM ReceivedWhole == Spec => Whole
  <1> DEFINE A == session.pc = "receiving" /\ session'.result = "received" /\ ~coincided =>
                    copy'.blocks = Prefix(source.len)
  <1>1. DestinationInv /\ [Next]_vars => [A]_vars
    <2> SUFFICES ASSUME DestinationInv, Next, session.pc = "receiving",
                        session'.result = "received", ~coincided
                 PROVE  copy'.blocks = Prefix(source.len)
      OBVIOUS
    <2>1. Received
      <3>1. session'.result # session.result /\ session.pc # "idle" /\ session.pc # "opening"
        BY DEF DestinationInv, Decided
      <3>2. ~Opened /\ ~Stored /\ ~Edited /\ ~Appears /\ ~Offered /\ ~OpenFails
        BY <3>1 DEF Offered, Opened, OpenFails, Stored, Edited, Appears
      <3>3. ~Failed /\ ~Killed
        BY DEF Failed, Killed, Idle
      <3> QED
        BY <3>2, <3>3 DEF Next
    <2>2. Beginning /\ copy'.blocks = copy.blocks /\ Len(copy.blocks) = source.len
      BY <2>1 DEF DestinationInv, Decided, Received, TypeOK
    <2> QED
      BY <2>2 DEF Beginning
  <1> QED
    BY <1>1, Invariance, PTL DEF Spec, Whole

\* Nothing that was there is lost under -p, whatever the dates.
THEOREM ProtectedKept == Spec => Protects
  <1> DEFINE Kept(n) == n <= Len(copy'.blocks)
                       /\ SubSeq(copy'.blocks, 1, n) = SubSeq(copy.blocks, 1, n)
             A == session.option = "protect" => Kept(Older)
  <1>1. DestinationInv /\ [Next]_vars => [A]_vars
    <2> SUFFICES ASSUME DestinationInv, Next, session.option = "protect"
                 PROVE  Kept(Older)
      BY DEF Older
    <2> USE DEF DestinationInv
    <2>1. /\ copy.blocks \in Seq(Nat) /\ Older \in 0 .. Len(copy.blocks)
          /\ session.pc # "idle"
      BY DEF TypeOK, Decided, Older
    <2>2. CASE copy'.blocks = copy.blocks
      BY <2>1, <2>2
    <2>3. CASE Opened /\ ~session.recover
      <3>1. copy.blocks = << >> /\ copy'.blocks = << >> /\ Older = 0
        BY <2>3 DEF Opened, Decided, Blank, Older
      <3> QED
        BY <3>1
    <2>4. CASE Appears
      <3>1. copy.blocks = << >> /\ Older = 0
        BY <2>4 DEF Appears, Blank, Older
      <3>2. PICK n \in Lengths : copy'.blocks = [i \in 1 .. n |-> 0]
        BY <2>4 DEF Appears, Foreign
      <3>3. copy'.blocks \in Seq(Nat) /\ Len(copy'.blocks) \in Nat
        BY <3>2, DestinationAssumption
      <3> QED
        BY <3>1, <3>3
    <2>5. CASE Stored
      <3>1. copy'.blocks = Append(copy.blocks, source.version) /\ source.version \in Nat
        BY <2>5 DEF Stored, TypeOK
      <3> DEFINE n == Older  t == Append(copy.blocks, source.version)
      <3>2. t \in Seq(Nat) /\ Len(t) = Len(copy.blocks) + 1
            /\ \A i \in 1 .. Len(copy.blocks) : t[i] = copy.blocks[i]
        BY <2>1, <3>1, AppendProperties
      <3> HIDE DEF n, t
      <3>3. SubSeq(t, 1, n) = SubSeq(copy.blocks, 1, n) /\ n <= Len(t)
        BY <2>1, <3>2 DEF n
      <3> QED
        BY <3>1, <3>3 DEF n, t
    <2>6. CASE Killed
      <3>1. PICK m \in session.start .. Len(copy.blocks) :
              copy' = [copy EXCEPT !.blocks = SubSeq(copy.blocks, 1, m)]
        BY <2>6 DEF Killed
      <3>2. Older = session.start /\ copy'.blocks = SubSeq(copy.blocks, 1, m)
        BY <2>6, <3>1 DEF Killed, Older, TypeOK
      <3> DEFINE n == session.start  s == copy.blocks  t == SubSeq(s, 1, m)
      <3>3. s \in Seq(Nat) /\ n \in Nat /\ m \in 0 .. Len(s) /\ n <= m
        BY <2>1, <3>2
      <3>4. t \in Seq(Nat) /\ Len(t) = m /\ \A i \in 1 .. m : t[i] = s[i]
        BY <3>3, SubSeqProperties
      <3> HIDE DEF n, s, t
      <3>5. SubSeq(t, 1, n) = SubSeq(s, 1, n) /\ n <= Len(t)
        BY <3>3, <3>4
      <3> QED
        BY <3>2, <3>5 DEF n, s, t
    <2> QED
      BY <2>1, <2>2, <2>3, <2>4, <2>5, <2>6
         DEF Next, Offered, Opened, OpenFails, Received, Failed, Edited, TypeOK
  <1> QED
    BY <1>1, Invariance, PTL DEF Spec, Protects
=============================================================================
