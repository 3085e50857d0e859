--------------------------- MODULE TransferProofs ---------------------------
(***************************************************************************)
(* Proofs about Transfer for every file, window, buffer, subpacket size,    *)
(* retry limit, number and kind of faults.                                  *)
(***************************************************************************)
EXTENDS TransferInv, SequenceTheorems, TLAPS

----------------------------------------------------------------------------
(* Sequences.                                                              *)

LEMMA HeadAndTail ==
  ASSUME NEW S, NEW s \in Seq(S), s # << >>
  PROVE  /\ Head(s) = s[1] /\ s[1] \in S /\ Len(s) \in Nat \ {0}
         /\ Tail(s) \in Seq(S) /\ Len(Tail(s)) = Len(s) - 1
         /\ \A i \in 1 .. Len(s) - 1 : Tail(s)[i] = s[i + 1]
  OBVIOUS

LEMMA Concatenation ==
  ASSUME NEW S, NEW s \in Seq(S), NEW t \in Seq(S)
  PROVE  /\ s \o t \in Seq(S) /\ Len(s \o t) = Len(s) + Len(t)
         /\ Len(s) \in Nat /\ Len(t) \in Nat
         /\ \A i \in 1 .. Len(s) : (s \o t)[i] = s[i]
         /\ \A i \in 1 .. Len(t) : (s \o t)[Len(s) + i] = t[i]
  OBVIOUS

\* Short sequences, and short sequences put together.
LEMMA Single ==
  ASSUME NEW S, NEW a \in S
  PROVE  <<a>> \in Seq(S) /\ Len(<<a>>) = 1 /\ <<a>>[1] = a
  OBVIOUS

LEMMA Pair ==
  ASSUME NEW S, NEW a \in S, NEW b \in S
  PROVE  /\ <<a, b>> \in Seq(S) /\ Len(<<a, b>>) = 2
         /\ <<a, b>>[1] = a /\ <<a, b>>[2] = b
  OBVIOUS

LEMMA Triple ==
  ASSUME NEW S, NEW a \in S, NEW b \in S, NEW c \in S
  PROVE  /\ <<a, b, c>> \in Seq(S) /\ Len(<<a, b, c>>) = 3
         /\ <<a, b, c>>[1] = a /\ <<a, b, c>>[2] = b /\ <<a, b, c>>[3] = c
  OBVIOUS

LEMMA Joined ==
  ASSUME NEW S, NEW a \in S, NEW b \in S, NEW c \in S
  PROVE  /\ << >> \o <<a>> = <<a>> /\ << >> \o <<a, b>> = <<a, b>>
         /\ <<a>> \o <<b>> = <<a, b>> /\ <<a>> \o <<b, c>> = <<a, b, c>>
         /\ <<a, b>> \o <<c>> = <<a, b, c>>
  <1>1. << >> \o <<a>> = <<a>> /\ << >> \o <<a, b>> = <<a, b>>
    OBVIOUS
  <1>2. <<a>> \o <<b>> = <<a, b>>
    <2> DEFINE s == <<a>> \o <<b>>
    <2>1. s \in Seq(S) /\ Len(s) = 2 /\ s[1] = a /\ s[2] = b
      OBVIOUS
    <2> HIDE DEF s
    <2>2. <<a, b>> \in Seq(S) /\ Len(<<a, b>>) = 2
      OBVIOUS
    <2>3. \A i \in 1 .. Len(s) : s[i] = <<a, b>>[i]
      BY <2>1
    <2>4. s = <<a, b>>
      BY <2>1, <2>2, <2>3, SeqEqual
    <2> QED  BY <2>4 DEF s
  <1>3. <<a>> \o <<b, c>> = <<a, b, c>>
    <2> DEFINE s == <<a>> \o <<b, c>>
    <2>1. s \in Seq(S) /\ Len(s) = 3 /\ s[1] = a /\ s[2] = b /\ s[3] = c
      OBVIOUS
    <2> HIDE DEF s
    <2>2. <<a, b, c>> \in Seq(S) /\ Len(<<a, b, c>>) = 3
      OBVIOUS
    <2>3. \A i \in 1 .. Len(s) : s[i] = <<a, b, c>>[i]
      BY <2>1
    <2>4. s = <<a, b, c>>
      BY <2>1, <2>2, <2>3, SeqEqual
    <2> QED  BY <2>4 DEF s
  <1>4. <<a, b>> \o <<c>> = <<a, b, c>>
    <2> DEFINE s == <<a, b>> \o <<c>>
    <2>1. s \in Seq(S) /\ Len(s) = 3 /\ s[1] = a /\ s[2] = b /\ s[3] = c
      OBVIOUS
    <2> HIDE DEF s
    <2>2. <<a, b, c>> \in Seq(S) /\ Len(<<a, b, c>>) = 3
      OBVIOUS
    <2>3. \A i \in 1 .. Len(s) : s[i] = <<a, b, c>>[i]
      BY <2>1
    <2>4. s = <<a, b, c>>
      BY <2>1, <2>2, <2>3, SeqEqual
    <2> QED  BY <2>4 DEF s
  <1> QED  BY <1>1, <1>2, <1>3, <1>4

\* t is what is left of s when k elements are gone.
Rest(t, s, k) ==
  /\ k \in 0 .. Len(s) /\ Len(t) = Len(s) - k
  /\ \A i \in 1 .. Len(t) : t[i] = s[i + k]

LEMMA TailIsRest ==
  ASSUME NEW S, NEW s \in Seq(S), s # << >>
  PROVE  Rest(Tail(s), s, 1)
  BY HeadAndTail DEF Rest

LEMMA PurgedIsRest ==
  ASSUME NEW S, NEW s \in Seq(S), NEW t \in Purged(s)
  PROVE  t \in Seq(S) /\ \E k \in Nat : Rest(t, s, k)
  <1>1. PICK k \in 1 .. Len(s) + 1 : t = SubSeq(s, k, Len(s))
    BY DEF Purged
  <1>2. Rest(t, s, k - 1) /\ t \in Seq(S)
    BY <1>1 DEF Rest
  <1> QED  BY <1>2

LEMMA PurgedTailIsRest ==
  ASSUME NEW S, NEW s \in Seq(S), s # << >>, NEW t \in Purged(Tail(s))
  PROVE  t \in Seq(S) /\ \E k \in Nat : Rest(t, s, k)
  <1>1. Tail(s) \in Seq(S)
    BY HeadAndTail
  <1>2. PICK k \in Nat : t \in Seq(S) /\ Rest(t, Tail(s), k)
    BY <1>1, PurgedIsRest
  <1>3. Rest(t, s, k + 1)
    BY <1>1, <1>2, HeadAndTail DEF Rest
  <1> QED  BY <1>2, <1>3

----------------------------------------------------------------------------
(* The sender's operators keep the shape of its state.                     *)

LEMMA Halving ==
  ASSUME NEW n \in Nat, n > 1
  PROVE  n \div 2 \in Nat \ {0}
  OBVIOUS

LEMMA ReduceType ==
  ASSUME NEW s \in SenderState
  PROVE  reduce_subpacket_size(s) \in SenderState
  <1>1. s.subpacket_size \in Nat \ {0} /\ s.max_subpacket_size \in Nat \ {0}
    BY DEF SenderState
  <1>2. /\ s.max_subpacket_size > BlockLen => s.max_subpacket_size > 1
        /\ s.subpacket_size > MinBlock => s.subpacket_size > 1
    BY <1>1, SenderAssumption
  <1> DEFINE m == IF s.subpacket_size = s.max_subpacket_size /\ s.max_subpacket_size > BlockLen
                  THEN s.max_subpacket_size \div 2 ELSE s.max_subpacket_size
             n == IF s.subpacket_size > MinBlock THEN s.subpacket_size \div 2
                  ELSE s.subpacket_size
  <1>3. m \in Nat \ {0} /\ n \in Nat \ {0}
    BY <1>1, <1>2, Halving
  <1>4. reduce_subpacket_size(s)
          = [s EXCEPT !.max_subpacket_size = m, !.subpacket_size = n]
    BY DEF reduce_subpacket_size
  <1> HIDE DEF m, n
  <1> QED  BY <1>3, <1>4 DEF SenderState

LEMMA IncreaseType ==
  ASSUME NEW s \in SenderState
  PROVE  increase_subpacket_size(s) \in SenderState
  BY SenderAssumption DEF SenderState, increase_subpacket_size, Lesser

LEMMA AccountRequestType ==
  ASSUME NEW s \in SenderState, NEW p \in Nat
  PROVE  AccountRequest(s, p) \in SenderState
  <1>1. CASE p > s.furthest_receiver
    BY <1>1 DEF SenderState, AccountRequest
  <1>2. CASE ~(p > s.furthest_receiver)
    BY <1>2 DEF SenderState, AccountRequest
  <1> QED  BY <1>1, <1>2

LEMMA AccountAttemptType ==
  ASSUME NEW s \in SenderState
  PROVE  AccountAttempt(s) \in SenderState
  <1>1. CASE s.position > s.furthest_attempted
    BY <1>1 DEF SenderState, AccountAttempt
  <1>2. CASE ~(s.position > s.furthest_attempted)
    BY <1>2 DEF SenderState, AccountAttempt
  <1> QED  BY <1>1, <1>2

LEMMA StreamFromType ==
  ASSUME NEW s \in SenderState, NEW b \in BOOLEAN
  PROVE  StreamFrom(s, b) \in SenderState
  BY DEF SenderState, StreamFrom, SenderPc

----------------------------------------------------------------------------
(* A step of the sender that sends no subpacket: it takes at most one answer *)
(* from the line and adds the headers G.                                     *)

TakesAnAnswer == toSender # << >> /\ Rest(toSender', toSender, 1)

SenderStepOK(G) ==
  /\ UNCHANGED <<rcv, disk>> /\ faults' \in Nat
  /\ snd' \in SenderState /\ toSender' \in Seq(ToSenderFrame)
  /\ toSender' = toSender \/ TakesAnAnswer
  /\ toReceiver' = toReceiver \o G
  /\ \A i \in 1 .. Len(G) :
       /\ G[i].type # "DATA"
       /\ G[i].type = "ZDATA" => G[i].pos + G[i].n <= FileLen
       /\ G[i].type = "ZEOF" => G[i].pos = FileLen
       /\ G[i].type = "ZFILE" <=> snd'.pc = "offer"
  /\ snd'.pc = "offer" => snd.pc = "offer"
  /\ SenderBounded'
  /\ FrameIsOpen' => FrameIsOpen /\ G = << >> /\ snd'.position = snd.position
  /\ Streaming' => \/ Streaming
                   \/ TakesAnAnswer /\ toSender[1].type = "ZRPOS"
  /\ AcknowledgedIsStored'
  /\ snd'.result = "succeeded" => snd.result = "succeeded" \/ rcv.result = "succeeded"

LEMMA SenderStep ==
  ASSUME IInv, NEW G \in Seq(ToReceiverFrame), SenderStepOK(G)
  PROVE  IInv'
  <1> USE DEF SenderStepOK
  <1>1. /\ toReceiver \in Seq(ToReceiverFrame) /\ toSender \in Seq(ToSenderFrame)
        /\ rcv \in ReceiverState /\ snd \in SenderState
    BY DEF IInv, TypeOK, LineTypeOK, SenderTypeOK, ReceiverTypeOK
  <1> DEFINE n == Len(toReceiver)
  <1>2. /\ toReceiver' \in Seq(ToReceiverFrame) /\ Len(toReceiver') = n + Len(G)
        /\ n \in Nat /\ Len(G) \in Nat
        /\ \A i \in 1 .. n : toReceiver'[i] = toReceiver[i]
        /\ \A i \in 1 .. Len(G) : toReceiver'[n + i] = G[i]
    BY <1>1, Concatenation
  <1>3. \A i \in 1 .. Len(toReceiver') :
          \/ i \in 1 .. n /\ toReceiver'[i] = toReceiver[i]
          \/ i - n \in 1 .. Len(G) /\ toReceiver'[i] = G[i - n]
    BY <1>2
  <1>4. \A i \in 1 .. Len(toSender') :
          \E j \in 1 .. Len(toSender) : j >= i /\ toSender'[i] = toSender[j]
    BY <1>1 DEF TakesAnAnswer, Rest
  <1>5. \A i \in 1 .. Len(toSender'), j \in 1 .. Len(toSender') : i < j =>
          \E k \in 1 .. Len(toSender), l \in 1 .. Len(toSender) :
            k < l /\ toSender'[i] = toSender[k] /\ toSender'[j] = toSender[l]
    <2>1. CASE toSender' = toSender
      BY <2>1
    <2>2. CASE TakesAnAnswer
      <3> SUFFICES ASSUME NEW i \in 1 .. Len(toSender'), NEW j \in 1 .. Len(toSender'),
                          i < j
                   PROVE  /\ i + 1 \in 1 .. Len(toSender) /\ j + 1 \in 1 .. Len(toSender)
                          /\ toSender'[i] = toSender[i + 1]
                          /\ toSender'[j] = toSender[j + 1] /\ i + 1 < j + 1
        OBVIOUS
      <3> QED  BY <1>1, <2>2 DEF TakesAnAnswer, Rest
    <2> QED  BY <2>1, <2>2
  <1> HIDE DEF n
  <1>6. TypeOK'
    BY <1>2 DEF IInv, TypeOK, LineTypeOK, SenderTypeOK, ReceiverTypeOK
  <1>7. Chained'
    BY <1>2, <1>3, SMTT(60) DEF IInv, Chained, Follows
  <1>8. HeadFits'
    BY <1>2, <1>3 DEF IInv, HeadFits
  <1>9. TailFits' /\ ReceiverFits'
    <2>1. CASE ~FrameIsOpen'
      BY <2>1 DEF TailFits, ReceiverFits, FrameIsOpen
    <2>2. CASE FrameIsOpen'
      <3>1. toReceiver' = toReceiver
        BY <1>1, <2>2
      <3> QED  BY <2>2, <3>1 DEF IInv, TailFits, ReceiverFits
    <2> QED  BY <2>1, <2>2
  <1>10. LineBounded'
    <2> SUFFICES ASSUME NEW i \in 1 .. Len(toReceiver')
                 PROVE  /\ toReceiver'[i].type \in {"DATA", "ZDATA"}
                             => toReceiver'[i].pos + toReceiver'[i].n <= FileLen
                        /\ toReceiver'[i].type = "ZEOF" => toReceiver'[i].pos = FileLen
      BY DEF LineBounded
    <2>1. CASE i \in 1 .. n /\ toReceiver'[i] = toReceiver[i]
      BY <2>1 DEF IInv, LineBounded, n
    <2>2. CASE i - n \in 1 .. Len(G) /\ toReceiver'[i] = G[i - n]
      BY <2>2
    <2> QED  BY <1>3, <2>1, <2>2
  <1>11. ReceiverBounded' /\ Intact'
    BY DEF IInv, ReceiverBounded, Intact
  <1>12. AnswersTrue'
    BY <1>4 DEF IInv, AnswersTrue
  <1>13. OffersFirst'
    <2>1. snd'.pc = "offer" =>
            \A i \in 1 .. Len(toReceiver') : toReceiver'[i].type = "ZFILE"
      BY <1>2, <1>3 DEF IInv, OffersFirst, n
    <2>2. \A i \in 1 .. Len(toReceiver'), j \in 1 .. Len(toReceiver') :
            i < j /\ toReceiver'[j].type = "ZFILE" => toReceiver'[i].type = "ZFILE"
      <3>1. CASE snd'.pc = "offer"
        BY <2>1, <3>1
      <3>2. CASE snd'.pc # "offer"
        <4> TAKE i \in 1 .. Len(toReceiver'), j \in 1 .. Len(toReceiver')
        <4> HAVE i < j /\ toReceiver'[j].type = "ZFILE"
        <4>1. j \in 1 .. n /\ toReceiver'[j] = toReceiver[j]
          BY <1>3, <3>2
        <4>2. i \in 1 .. n /\ toReceiver'[i] = toReceiver[i]
          BY <1>2, <4>1
        <4> QED  BY <4>1, <4>2 DEF IInv, OffersFirst, n
      <3> QED  BY <3>1, <3>2
    <2>3. rcv'.result = "succeeded" =>
            /\ snd'.pc # "offer"
            /\ \A i \in 1 .. Len(toReceiver') : toReceiver'[i].type # "ZFILE"
      BY <1>2, <1>3 DEF IInv, OffersFirst, n
    <2> QED  BY <2>1, <2>2, <2>3 DEF OffersFirst
  <1>14. InvitationsOld'
    <2> SUFFICES ASSUME rcv.result # "succeeded"
                 PROVE  InvitationsOld'
      BY DEF InvitationsOld
    <2>1. \A i \in 1 .. Len(toSender), j \in 1 .. Len(toSender) :
            i < j /\ toSender[i].type = "ZRPOS" => toSender[j].type # "ZRINIT"
      BY DEF IInv, InvitationsOld
    <2>2. \A i \in 1 .. Len(toSender'), j \in 1 .. Len(toSender') :
            i < j /\ toSender'[i].type = "ZRPOS" => toSender'[j].type # "ZRINIT"
      <3> TAKE i \in 1 .. Len(toSender'), j \in 1 .. Len(toSender')
      <3> HAVE i < j /\ toSender'[i].type = "ZRPOS"
      <3>1. PICK k \in 1 .. Len(toSender), l \in 1 .. Len(toSender) :
              k < l /\ toSender'[i] = toSender[k] /\ toSender'[j] = toSender[l]
        BY <1>5
      <3> QED  BY <2>1, <3>1
    <2>3. Streaming' => \A i \in 1 .. Len(toSender') : toSender'[i].type # "ZRINIT"
      <3>1. CASE Streaming
        BY <1>4, <3>1 DEF IInv, InvitationsOld
      <3>2. CASE TakesAnAnswer /\ toSender[1].type = "ZRPOS"
        <4>1. \A j \in 2 .. Len(toSender) : toSender[j].type # "ZRINIT"
          BY <1>1, <2>1, <3>2
        <4>2. \A i \in 1 .. Len(toSender') :
                i + 1 \in 2 .. Len(toSender) /\ toSender'[i] = toSender[i + 1]
          BY <1>1, <3>2 DEF TakesAnAnswer, Rest
        <4> QED  BY <4>1, <4>2
      <3> QED  BY <3>1, <3>2
    <2>4. rcv.pc = "session" =>
            ~Streaming' /\ \A i \in 1 .. Len(toSender') : toSender'[i].type # "ZRPOS"
      BY <1>1, <1>4 DEF IInv, InvitationsOld, TakesAnAnswer
    <2> QED  BY <2>2, <2>3, <2>4 DEF InvitationsOld
  <1>15. Complete'
    BY DEF IInv, Complete
  <1> QED
    BY <1>6, <1>7, <1>8, <1>9, <1>10, <1>11, <1>12, <1>13, <1>14, <1>15 DEF IInv

----------------------------------------------------------------------------
(* A step of the receiver: it takes k frames from the line, of which it uses *)
(* at most the first, and adds the answers A.                                *)

ReceiverStepOK(A) ==
  /\ UNCHANGED snd /\ faults' \in Nat
  /\ rcv' \in ReceiverState /\ disk' \in Seq(Nat)
  /\ toReceiver' \in Seq(ToReceiverFrame)
  /\ \E k \in Nat : Rest(toReceiver', toReceiver, k)
  /\ toSender' = toSender \o A
  /\ \A i \in 1 .. Len(A) :
       /\ A[i].type \in {"ZACK", "ZRPOS"} => A[i].pos <= rcv'.pos
       /\ A[i].type = "ZSKIP" => ~rcv.wanted
       /\ A[i].type = "ZRINIT" => rcv.pc = "session" \/ rcv'.result = "succeeded"
       /\ A[i].type = "ZRPOS" => Len(A) = 1 /\ rcv'.pc # "session"
  /\ rcv'.pc = "session" => rcv.pc = "session" \/ rcv'.result = "succeeded"
  /\ rcv.pos <= rcv'.pos /\ rcv'.wanted = rcv.wanted
  /\ ReceiverBounded' /\ Intact' /\ HeadFits' /\ ReceiverFits'
  /\ rcv.result = "succeeded" => rcv'.result = "succeeded"
  /\ rcv'.result = "succeeded" =>
       \/ rcv.result = "succeeded"
       \/ toReceiver # << >> /\ toReceiver[1].type = "ZEOF"

LEMMA ReceiverStep ==
  ASSUME IInv, NEW A \in Seq(ToSenderFrame), ReceiverStepOK(A)
  PROVE  IInv'
  <1>0. UNCHANGED snd
    BY DEF ReceiverStepOK
  <1>1. /\ toReceiver \in Seq(ToReceiverFrame) /\ toSender \in Seq(ToSenderFrame)
        /\ rcv \in ReceiverState /\ snd \in SenderState
    BY DEF IInv, TypeOK, LineTypeOK, SenderTypeOK, ReceiverTypeOK
  <1>2. PICK k \in Nat : Rest(toReceiver', toReceiver, k)
    BY DEF ReceiverStepOK
  <1>3. /\ k \in 0 .. Len(toReceiver) /\ Len(toReceiver') = Len(toReceiver) - k
        /\ \A i \in 1 .. Len(toReceiver') :
             i + k \in 1 .. Len(toReceiver) /\ toReceiver'[i] = toReceiver[i + k]
        /\ toReceiver' \in Seq(ToReceiverFrame)
        /\ Len(toReceiver) \in Nat /\ Len(toReceiver') \in Nat
    <2>1. toReceiver' \in Seq(ToReceiverFrame)
      BY DEF ReceiverStepOK
    <2>2. Len(toReceiver) \in Nat /\ Len(toReceiver') \in Nat
      BY <1>1, <2>1
    <2> QED  BY <1>2, <2>1, <2>2 DEF Rest
  <1> DEFINE n == Len(toSender)
  <1>4. /\ toSender' \in Seq(ToSenderFrame) /\ Len(toSender') = n + Len(A)
        /\ n \in Nat /\ Len(A) \in Nat
        /\ \A i \in 1 .. n : toSender'[i] = toSender[i]
        /\ \A i \in 1 .. Len(A) : toSender'[n + i] = A[i]
    BY <1>1, Concatenation DEF ReceiverStepOK
  <1>5. \A i \in 1 .. Len(toSender') :
          \/ i \in 1 .. n /\ toSender'[i] = toSender[i]
          \/ i - n \in 1 .. Len(A) /\ toSender'[i] = A[i - n]
    BY <1>4
  <1> HIDE DEF n
  <1>6. TypeOK'
    BY <1>0, <1>3, <1>4
    DEF IInv, TypeOK, LineTypeOK, SenderTypeOK, ReceiverTypeOK, ReceiverStepOK
  <1>7. Chained'
    <2> SUFFICES ASSUME NEW i \in 1 .. Len(toReceiver') - 1,
                        toReceiver'[i + 1].type = "DATA"
                 PROVE  Follows(toReceiver'[i], toReceiver'[i + 1])
      BY DEF Chained
    <2>1. /\ i + k \in 1 .. Len(toReceiver) - 1
          /\ toReceiver'[i] = toReceiver[i + k]
          /\ toReceiver'[i + 1] = toReceiver[(i + k) + 1]
      BY <1>3
    <2> QED  BY <2>1 DEF IInv, Chained
  <1>8. TailFits'
    <2> SUFFICES ASSUME FrameIsOpen, toReceiver' # << >>
                 PROVE  TailFits'
      BY <1>0 DEF TailFits, FrameIsOpen
    <2>1. /\ Len(toReceiver') \in 1 .. Len(toReceiver')
          /\ toReceiver'[Len(toReceiver')] = toReceiver[Len(toReceiver)]
          /\ toReceiver # << >>
      BY <1>1, <1>3
    <2> QED  BY <1>0, <2>1 DEF IInv, TailFits
  <1>9. LineBounded'
    <2> SUFFICES ASSUME NEW i \in 1 .. Len(toReceiver')
                 PROVE  /\ toReceiver'[i].type \in {"DATA", "ZDATA"}
                             => toReceiver'[i].pos + toReceiver'[i].n <= FileLen
                        /\ toReceiver'[i].type = "ZEOF" => toReceiver'[i].pos = FileLen
      BY DEF LineBounded
    <2> QED  BY <1>3 DEF IInv, LineBounded
  <1>10. SenderBounded'
    <2>1. /\ rcv.pos \in Nat /\ rcv'.pos \in Nat /\ rcv.pos <= rcv'.pos
          /\ snd.position \in Nat /\ snd.segment_sent \in Nat
      BY <1>1 DEF ReceiverStepOK, ReceiverState, SenderState
    <2>2. Streaming' => snd'.position <= rcv'.pos + snd'.segment_sent
      BY <1>0, <2>1 DEF IInv, SenderBounded, Streaming
    <2> QED
      BY <1>0, <2>2 DEF IInv, SenderBounded, Streaming, window_enabled
  <1>11. AnswersTrue'
    <2> SUFFICES ASSUME NEW i \in 1 .. Len(toSender')
                 PROVE  /\ toSender'[i].type \in {"ZACK", "ZRPOS"}
                             => toSender'[i].pos <= rcv'.pos
                        /\ toSender'[i].type = "ZSKIP" => ~rcv'.wanted
      BY DEF AnswersTrue
    <2>1. CASE i \in 1 .. n /\ toSender'[i] = toSender[i]
      <3>1. toSender[i] \in ToSenderFrame /\ toSender[i].pos \in Nat
        <4>1. toSender[i] \in ToSenderFrame
          BY <1>1, <2>1 DEF n
        <4> QED  BY <4>1 DEF ToSenderFrame
      <3>2. rcv.pos \in Nat /\ rcv'.pos \in Nat /\ rcv.pos <= rcv'.pos
        BY <1>1 DEF ReceiverStepOK, ReceiverState
      <3> QED  BY <2>1, <3>1, <3>2 DEF IInv, AnswersTrue, ReceiverStepOK, n
    <2>2. CASE i - n \in 1 .. Len(A) /\ toSender'[i] = A[i - n]
      BY <2>2 DEF ReceiverStepOK
    <2> QED  BY <1>5, <2>1, <2>2
  <1>12. OffersFirst'
    <2>1. snd'.pc = "offer" =>
            \A i \in 1 .. Len(toReceiver') : toReceiver'[i].type = "ZFILE"
      BY <1>0, <1>3 DEF IInv, OffersFirst
    <2>2. \A i \in 1 .. Len(toReceiver'), j \in 1 .. Len(toReceiver') :
            i < j /\ toReceiver'[j].type = "ZFILE" => toReceiver'[i].type = "ZFILE"
      <3> TAKE i \in 1 .. Len(toReceiver'), j \in 1 .. Len(toReceiver')
      <3> HAVE i < j /\ toReceiver'[j].type = "ZFILE"
      <3>1. /\ i + k \in 1 .. Len(toReceiver) /\ j + k \in 1 .. Len(toReceiver)
            /\ toReceiver'[i] = toReceiver[i + k] /\ toReceiver'[j] = toReceiver[j + k]
        BY <1>3
      <3>2. i + k < j + k
        BY <1>3
      <3> QED  BY <3>1, <3>2 DEF IInv, OffersFirst
    <2>3. rcv'.result = "succeeded" =>
            /\ snd.pc # "offer"
            /\ \A i \in 1 .. Len(toReceiver) : toReceiver[i].type # "ZFILE"
      <3>1. CASE rcv.result = "succeeded"
        BY <3>1 DEF IInv, OffersFirst
      <3>2. CASE toReceiver # << >> /\ toReceiver[1].type = "ZEOF"
        <4>1. 1 \in 1 .. Len(toReceiver)
          BY <1>1, <3>2
        <4> QED  BY <3>2, <4>1 DEF IInv, OffersFirst
      <3> QED  BY <3>1, <3>2 DEF ReceiverStepOK
    <2> QED  BY <1>0, <1>3, <2>1, <2>2, <2>3 DEF OffersFirst
  <1>13. InvitationsOld'
    <2> SUFFICES ASSUME rcv'.result # "succeeded"
                 PROVE  InvitationsOld'
      BY DEF InvitationsOld
    <2>1. rcv.result # "succeeded"
      BY DEF ReceiverStepOK
    <2>2. rcv'.pc = "session" => rcv.pc = "session"
      BY DEF ReceiverStepOK
    <2>3. \A i \in 1 .. Len(A) : A[i].type = "ZRINIT" => rcv.pc = "session"
      BY DEF ReceiverStepOK
    <2>4. \A i \in 1 .. Len(A) : A[i].type = "ZRPOS" => Len(A) = 1 /\ rcv'.pc # "session"
      BY DEF ReceiverStepOK
    <2>5. /\ \A i \in 1 .. n, j \in 1 .. n :
               i < j /\ toSender[i].type = "ZRPOS" => toSender[j].type # "ZRINIT"
          /\ Streaming => \A i \in 1 .. n : toSender[i].type # "ZRINIT"
          /\ rcv.pc = "session" =>
               ~Streaming /\ \A i \in 1 .. n : toSender[i].type # "ZRPOS"
      BY <2>1 DEF IInv, InvitationsOld, n
    <2>6. \A i \in 1 .. Len(toSender'), j \in 1 .. Len(toSender') :
            i < j /\ toSender'[i].type = "ZRPOS" => toSender'[j].type # "ZRINIT"
      <3> SUFFICES ASSUME NEW i \in 1 .. Len(toSender'), NEW j \in 1 .. Len(toSender'),
                          i < j, toSender'[i].type = "ZRPOS", toSender'[j].type = "ZRINIT"
                   PROVE  FALSE
        OBVIOUS
      <3>1. CASE j \in 1 .. n /\ toSender'[j] = toSender[j]
        <4>1. i \in 1 .. n /\ toSender'[i] = toSender[i]
          BY <1>4, <3>1
        <4> QED  BY <2>5, <3>1, <4>1
      <3>2. CASE j - n \in 1 .. Len(A) /\ toSender'[j] = A[j - n]
        <4>1. rcv.pc = "session"
          BY <2>3, <3>2
        <4>2. CASE i \in 1 .. n /\ toSender'[i] = toSender[i]
          BY <2>5, <4>1, <4>2
        <4>3. CASE i - n \in 1 .. Len(A) /\ toSender'[i] = A[i - n]
          BY <1>4, <2>4, <3>2, <4>3
        <4> QED  BY <1>5, <4>2, <4>3
      <3> QED  BY <1>5, <3>1, <3>2
    <2>7. Streaming' => \A i \in 1 .. Len(toSender') : toSender'[i].type # "ZRINIT"
      BY <1>0, <1>5, <2>3, <2>5 DEF Streaming
    <2>8. rcv'.pc = "session" =>
            ~Streaming' /\ \A i \in 1 .. Len(toSender') : toSender'[i].type # "ZRPOS"
      BY <1>0, <1>5, <2>2, <2>4, <2>5 DEF Streaming
    <2> QED  BY <2>6, <2>7, <2>8 DEF InvitationsOld
  <1>14. Complete'
    BY <1>0 DEF IInv, Complete, ReceiverStepOK, ReceiverBounded
  <1>15. AcknowledgedIsStored'
    <2>1. /\ rcv.pos \in Nat /\ rcv'.pos \in Nat /\ rcv.pos <= rcv'.pos
          /\ snd.pos \in Nat /\ snd.acknowledged \in Nat
      BY <1>1 DEF ReceiverStepOK, ReceiverState, SenderState
    <2> QED  BY <1>0, <2>1 DEF IInv, AcknowledgedIsStored
  <1>16. ReceiverBounded' /\ Intact' /\ HeadFits' /\ ReceiverFits'
    BY DEF ReceiverStepOK
  <1> QED
    BY <1>6, <1>7, <1>8, <1>9, <1>10, <1>11, <1>12, <1>13, <1>14, <1>15, <1>16 DEF IInv

----------------------------------------------------------------------------
(* What the steps have in common.                                          *)

LEMMA HeaderFields ==
  ASSUME NEW t, NEW p
  PROVE  /\ Header(t, p).type = t /\ Header(t, p).pos = p /\ Header(t, p).n = 0
         /\ t \in {"ZFILE", "ZDATA", "ZEOF", "ZFERR", "ZFIN"} /\ p \in Nat
              => Header(t, p) \in ToReceiverFrame
         /\ t \in Replies /\ p \in Nat => Header(t, p) \in ToSenderFrame
  BY DEF Header, ToReceiverFrame, ToSenderFrame, Replies

\* One header, or none, as a sequence of frames.
LEMMA OneHeader ==
  ASSUME NEW S, NEW h \in S
  PROVE  /\ <<h>> \in Seq(S) /\ Len(<<h>>) = 1 /\ <<h>>[1] = h
         /\ << >> \in Seq(S) /\ Len(<< >>) = 0
  OBVIOUS

LEMMA NothingAdded ==
  ASSUME NEW S, NEW s \in Seq(S)
  PROVE  s \o << >> = s /\ << >> \in Seq(S) /\ Len(<< >>) = 0
  OBVIOUS

LEMMA Typed ==
  ASSUME IInv
  PROVE  /\ toReceiver \in Seq(ToReceiverFrame) /\ toSender \in Seq(ToSenderFrame)
         /\ rcv \in ReceiverState /\ snd \in SenderState /\ faults \in Nat
         /\ disk \in Seq(Nat)
  BY DEF IInv, TypeOK, LineTypeOK, SenderTypeOK, ReceiverTypeOK

LEMMA FaultCounted ==
  ASSUME IInv, (\E kind \in Faults : Fault(kind)) \/ Expires \/ UNCHANGED faults
  PROVE  faults' \in Nat
  BY Typed DEF Fault, Expires

\* What an answer the sender takes is worth.
LEMMA AnswerTaken ==
  ASSUME IInv, NEW types, TakeReply(types)
  PROVE  /\ TakesAnAnswer /\ toSender' \in Seq(ToSenderFrame)
         /\ reply = toSender[1] /\ reply.type \in types
         /\ reply.pos \in Nat
         /\ reply.type \in {"ZACK", "ZRPOS"} => reply.pos <= rcv.pos /\ reply.pos <= FileLen
         /\ reply.type = "ZSKIP" => ~rcv.wanted
         /\ reply.type = "ZRINIT" /\ Streaming => rcv.result = "succeeded"
  <1>1. /\ toSender \in Seq(ToSenderFrame) /\ toSender # << >>
        /\ toSender' = Tail(toSender) /\ reply.type \in types
    BY Typed DEF TakeReply
  <1>2. /\ reply = toSender[1] /\ toSender[1] \in ToSenderFrame
        /\ toSender' \in Seq(ToSenderFrame) /\ 1 \in 1 .. Len(toSender)
    BY <1>1, HeadAndTail DEF reply
  <1>3. reply.pos \in Nat
    BY <1>2 DEF ToSenderFrame
  <1>4. TakesAnAnswer
    BY <1>1, TailIsRest DEF TakesAnAnswer
  <1>5. /\ reply.type \in {"ZACK", "ZRPOS"} => reply.pos <= rcv.pos
        /\ reply.type = "ZSKIP" => ~rcv.wanted
    BY <1>2 DEF IInv, AnswersTrue
  <1>6. rcv.pos \in Nat /\ rcv.pos <= FileLen /\ FileLen \in Nat
    BY Typed, SenderAssumption DEF IInv, ReceiverBounded, ReceiverState
  <1>7. reply.type = "ZRINIT" /\ Streaming => rcv.result = "succeeded"
    BY <1>2 DEF IInv, InvitationsOld
  <1> QED  BY <1>1, <1>2, <1>3, <1>4, <1>5, <1>6, <1>7

LEMMA ReduceKeeps ==
  ASSUME NEW s \in SenderState
  PROVE  LET r == reduce_subpacket_size(s)
         IN  r.pos = s.pos /\ r.result = s.result /\ r.attempts = s.attempts
  BY DEF SenderState, reduce_subpacket_size

LEMMA IncreaseKeeps ==
  ASSUME NEW s \in SenderState
  PROVE  LET r == increase_subpacket_size(s)
         IN  /\ r.pc = s.pc /\ r.pos = s.pos /\ r.result = s.result
             /\ r.position = s.position /\ r.acknowledged = s.acknowledged
             /\ r.segment_sent = s.segment_sent /\ r.frame_open = s.frame_open
             /\ r.stop_after_ack = s.stop_after_ack
  BY DEF SenderState, increase_subpacket_size

LEMMA AccountKeeps ==
  ASSUME NEW s \in SenderState, NEW p \in Nat
  PROVE  /\ AccountAttempt(s).pos = s.pos /\ AccountAttempt(s).result = s.result
         /\ AccountRequest(s, p).result = s.result
  <1>1. AccountAttempt(s).pos = s.pos /\ AccountAttempt(s).result = s.result
    BY DEF SenderState, AccountAttempt
  <1>2. AccountRequest(s, p).result = s.result
    BY DEF SenderState, AccountRequest
  <1> QED  BY <1>1, <1>2

----------------------------------------------------------------------------
(* The sender gives up, finishes or starts again.                          *)

TakesAtMostOne ==
  /\ toSender' \in Seq(ToSenderFrame)
  /\ toSender' = toSender \/ TakesAnAnswer
  /\ UNCHANGED <<rcv, disk>> /\ faults' \in Nat

LEMMA ReturnStep ==
  ASSUME IInv, TakesAtMostOne, NEW r \in SendResult, Return(r),
         r = "succeeded" => rcv.result = "succeeded"
  PROVE  IInv'
  <1> DEFINE G == <<Header("ZFIN", 0)>>
  <1>1. /\ G \in Seq(ToReceiverFrame) /\ Len(G) = 1
        /\ G[1].type = "ZFIN"
    BY HeaderFields, OneHeader
  <1>2. snd \in SenderState /\ toReceiver' = toReceiver \o G
    BY Typed DEF Return, Transmit
  <1>3. /\ snd' \in SenderState /\ snd'.pc = "done" /\ snd'.result = r
        /\ snd'.pos = snd.pos /\ snd'.position = snd.position
    BY <1>2 DEF Return, SenderState, SenderPc
  <1> HIDE DEF G
  <1>4. SenderBounded' /\ ~FrameIsOpen' /\ ~Streaming' /\ AcknowledgedIsStored'
    BY <1>3
    DEF IInv, SenderBounded, FrameIsOpen, Streaming, AcknowledgedIsStored
  <1>5. SenderStepOK(G)
    BY <1>1, <1>2, <1>3, <1>4 DEF SenderStepOK, TakesAtMostOne
  <1> QED  BY <1>1, <1>5, SenderStep

LEMMA ResumeStep ==
  ASSUME IInv, TakesAtMostOne, Streaming,
         NEW s \in SenderState, s.result = "none",
         s.pos <= FileLen, s.pos <= rcv.pos, s.position <= FileLen, Resume(s)
  PROVE  IInv'
  <1>1. snd \in SenderState /\ toReceiver \in Seq(ToReceiverFrame)
    BY Typed
  <1>2. CASE s.attempts < MaxRetries
    <2>1. snd' = StreamFrom(s, TRUE) /\ toReceiver' = toReceiver \o << >>
      BY <1>1, <1>2, NothingAdded DEF Resume
    <2>2. /\ snd' \in SenderState /\ snd'.pc = "stream" /\ snd'.result = "none"
          /\ snd'.pos = s.pos /\ snd'.position = s.pos /\ snd'.acknowledged = s.pos
          /\ snd'.segment_sent = 0 /\ snd'.frame_open = FALSE
      BY <2>1, StreamFromType, ZenonT(60) DEF StreamFrom, SenderState
    <2>3. s.pos \in Nat /\ RecvBuffer \in Nat /\ Window \in Nat
      BY SenderAssumption DEF SenderState
    <2>4. SenderBounded'
      <3>1. rcv.pos \in Nat /\ rcv' = rcv
        BY Typed DEF ReceiverState, TakesAtMostOne
      <3> QED
        BY <2>2, <2>3, <3>1 DEF SenderBounded, Streaming, window_enabled
    <2>5. AcknowledgedIsStored' /\ ~FrameIsOpen'
      BY <2>2 DEF AcknowledgedIsStored, FrameIsOpen, TakesAtMostOne
    <2> DEFINE G == << >>
    <2>6. toReceiver' = toReceiver \o G /\ Len(G) = 0 /\ G \in Seq(ToReceiverFrame)
      BY <1>1, <2>1, NothingAdded
    <2> HIDE DEF G
    <2>7. SenderStepOK(G)
      BY <2>2, <2>4, <2>5, <2>6 DEF SenderStepOK, TakesAtMostOne
    <2> QED  BY <2>6, <2>7, SenderStep
  <1>3. CASE ~(s.attempts < MaxRetries)
    <2> DEFINE G == <<Header("ZFIN", 0)>>
    <2>1. /\ G \in Seq(ToReceiverFrame) /\ Len(G) = 1
          /\ G[1].type = "ZFIN"
      BY HeaderFields, OneHeader
    <2>2. /\ toReceiver' = toReceiver \o G
          /\ snd' = [s EXCEPT !.pc = "done", !.result = "failed"]
      BY <1>3 DEF Resume, Transmit
    <2>3. /\ snd' \in SenderState /\ snd'.pc = "done" /\ snd'.result = "failed"
          /\ snd'.pos = s.pos /\ snd'.position = s.position
      BY <2>2 DEF SenderState, SenderPc, SendResult
    <2> HIDE DEF G
    <2>4. SenderBounded' /\ ~FrameIsOpen' /\ ~Streaming' /\ AcknowledgedIsStored'
      BY <2>3 DEF SenderBounded, FrameIsOpen, Streaming, AcknowledgedIsStored
    <2>5. SenderStepOK(G)
      BY <2>1, <2>2, <2>3, <2>4 DEF SenderStepOK, TakesAtMostOne
    <2> QED  BY <2>1, <2>5, SenderStep
  <1> QED  BY <1>2, <1>3

LEMMA QuietStep ==
  ASSUME IInv, TakesAtMostOne, UNCHANGED toReceiver, snd' \in SenderState,
         snd'.pc = "offer" => snd.pc = "offer",
         SenderBounded', AcknowledgedIsStored',
         FrameIsOpen' => FrameIsOpen /\ snd'.position = snd.position,
         Streaming' => Streaming \/ (TakesAnAnswer /\ toSender[1].type = "ZRPOS"),
         snd'.result = "none"
  PROVE  IInv'
  <1> DEFINE G == << >>
  <1>1. toReceiver' = toReceiver \o G /\ Len(G) = 0 /\ G \in Seq(ToReceiverFrame)
    BY Typed, NothingAdded
  <1>2. G = << >>
    OBVIOUS
  <1> HIDE DEF G
  <1>3. SenderStepOK(G)
    BY <1>1, <1>2 DEF SenderStepOK, TakesAtMostOne
  <1> QED  BY <1>1, <1>3, SenderStep

LEMMA OfferAgainStep ==
  ASSUME IInv, TakesAtMostOne, snd.pc = "offer", OfferAgain
  PROVE  IInv'
  <1>1. CASE snd.attempts + 1 < MaxRetries
    <2> DEFINE G == <<Header("ZFILE", 0)>>
    <2>1. G \in Seq(ToReceiverFrame) /\ Len(G) = 1 /\ G[1].type = "ZFILE"
      BY HeaderFields, OneHeader
    <2>2. /\ toReceiver' = toReceiver \o G
          /\ snd' = [snd EXCEPT !.attempts = @ + 1, !.stale_zrinit = FALSE]
      BY <1>1 DEF OfferAgain, Transmit
    <2>3. /\ snd' \in SenderState /\ snd'.pc = "offer" /\ snd'.result = snd.result
          /\ snd'.pos = snd.pos /\ snd'.position = snd.position
      <3>1. snd \in SenderState /\ snd.attempts + 1 \in Nat
        BY Typed DEF SenderState
      <3>2. snd' = [snd EXCEPT !.attempts = snd.attempts + 1, !.stale_zrinit = FALSE]
        BY <2>2
      <3>3. snd' \in SenderState
        BY <3>1, <3>2 DEF SenderState
      <3> QED  BY <3>1, <3>2 DEF SenderState
    <2> HIDE DEF G
    <2>4. SenderBounded' /\ ~FrameIsOpen' /\ ~Streaming' /\ AcknowledgedIsStored'
      BY <2>3
      DEF IInv, SenderBounded, FrameIsOpen, Streaming, AcknowledgedIsStored
    <2>5. SenderStepOK(G)
      BY <2>1, <2>2, <2>3, <2>4 DEF SenderStepOK, TakesAtMostOne
    <2> QED  BY <2>1, <2>5, SenderStep
  <1>2. CASE ~(snd.attempts + 1 < MaxRetries)
    BY <1>2, ReturnStep DEF OfferAgain, SendResult
  <1> QED  BY <1>1, <1>2

LEMMA FinishAgainStep ==
  ASSUME IInv, TakesAtMostOne, snd.pc = "eof", FinishAgain
  PROVE  IInv'
  <1>1. CASE snd.finish_attempts + 1 < MaxRetries
    <2> DEFINE G == <<Header("ZEOF", snd.position)>>
    <2>1. snd.position = FileLen /\ snd.position \in Nat
      BY Typed DEF IInv, SenderBounded, SenderState
    <2>2. /\ G \in Seq(ToReceiverFrame) /\ Len(G) = 1
          /\ G[1].type = "ZEOF" /\ G[1].pos = FileLen
      BY <2>1, HeaderFields, OneHeader
    <2>3. /\ toReceiver' = toReceiver \o G
          /\ snd' = [snd EXCEPT !.finish_attempts = @ + 1]
      BY <1>1 DEF FinishAgain, Transmit
    <2>4. /\ snd' \in SenderState /\ snd'.pc = "eof" /\ snd'.result = snd.result
          /\ snd'.pos = snd.pos /\ snd'.position = snd.position
          /\ snd'.acknowledged = snd.acknowledged
          /\ snd'.segment_sent = snd.segment_sent
      <3>1. snd \in SenderState /\ snd.finish_attempts + 1 \in Nat
        BY Typed DEF SenderState
      <3>2. snd' = [snd EXCEPT !.finish_attempts = snd.finish_attempts + 1]
        BY <2>3
      <3>3. snd' \in SenderState
        BY <3>1, <3>2 DEF SenderState
      <3> QED  BY <3>1, <3>2 DEF SenderState
    <2> HIDE DEF G
    <2>5. SenderBounded' /\ ~FrameIsOpen' /\ Streaming /\ AcknowledgedIsStored'
      BY <2>1, <2>4
      DEF IInv, SenderBounded, FrameIsOpen, Streaming, AcknowledgedIsStored,
          window_enabled, TakesAtMostOne
    <2>6. SenderStepOK(G)
      BY <2>2, <2>3, <2>4, <2>5 DEF SenderStepOK, TakesAtMostOne
    <2> QED  BY <2>2, <2>6, SenderStep
  <1>2. CASE ~(snd.finish_attempts + 1 < MaxRetries)
    BY <1>2, ReturnStep DEF FinishAgain, SendResult
  <1> QED  BY <1>1, <1>2

LEMMA StartAgainStep ==
  ASSUME IInv, TakesAtMostOne, Streaming, StartAgain
  PROVE  IInv'
  <1>1. snd \in SenderState /\ snd.result = "none"
    BY Typed DEF IInv, SenderBounded, Streaming
  <1> DEFINE a == AccountAttempt(snd)
             s == reduce_subpacket_size(a)
  <1>2. a \in SenderState /\ s \in SenderState
    BY <1>1, AccountAttemptType, ReduceType
  <1>3. s.pos = snd.pos /\ s.result = "none"
    BY <1>1, <1>2, ReduceKeeps, AccountKeeps
  <1>4. s.position = snd.position
    BY <1>1, <1>2 DEF reduce_subpacket_size, AccountAttempt, SenderState
  <1>5. s.pos <= FileLen /\ s.pos <= rcv.pos /\ s.position <= FileLen
    BY <1>3, <1>4 DEF IInv, SenderBounded, AcknowledgedIsStored, Streaming
  <1>6. Resume(s)
    BY DEF StartAgain
  <1> HIDE DEF a, s
  <1> QED  BY <1>2, <1>3, <1>5, <1>6, ResumeStep

\* A ZRPOS taken while streaming or finishing, with or without smaller
\* subpackets.
LEMMA RepositionStep ==
  ASSUME IInv, TakesAtMostOne, Streaming, NEW p \in Nat, p <= FileLen, p <= rcv.pos,
         LET a == [AccountRequest(snd, p) EXCEPT !.pos = p]
         IN  Resume(a) \/ Resume(reduce_subpacket_size(a))
  PROVE  IInv'
  <1>1. snd \in SenderState /\ snd.result = "none" /\ snd.position <= FileLen
    BY Typed DEF IInv, SenderBounded, Streaming
  <1> DEFINE q == AccountRequest(snd, p)
             a == [q EXCEPT !.pos = p]
             s == reduce_subpacket_size(a)
  <1>2. q \in SenderState /\ q.result = "none" /\ q.position = snd.position
    BY <1>1, AccountRequestType, ZenonT(60) DEF AccountRequest, SenderState
  <1> HIDE DEF q
  <1>3. a \in SenderState /\ a.result = "none" /\ a.pos = p /\ a.position <= FileLen
    BY <1>1, <1>2 DEF SenderState
  <1> HIDE DEF a
  <1>4. /\ s \in SenderState /\ s.result = "none" /\ s.pos = p
        /\ s.position <= FileLen
    BY <1>3, ReduceType, ZenonT(60) DEF reduce_subpacket_size, SenderState
  <1>5. Resume(a) \/ Resume(s)
    BY DEF a, q
  <1> HIDE DEF s
  <1>6. CASE Resume(a)
    BY <1>3, <1>6, ResumeStep
  <1>7. CASE Resume(s)
    BY <1>4, <1>7, ResumeStep
  <1> QED  BY <1>5, <1>6, <1>7

----------------------------------------------------------------------------
(* The sender's actions, but for SendSubpacket.                            *)

Untouched == UNCHANGED <<rcv, disk>> /\ faults' \in Nat

LEMMA TookOne ==
  ASSUME IInv, Untouched, NEW types, TakeReply(types)
  PROVE  TakesAtMostOne
  BY AnswerTaken DEF TakesAtMostOne, Untouched

LEMMA TookNone ==
  ASSUME IInv, Untouched, UNCHANGED toSender
  PROVE  TakesAtMostOne
  BY Typed DEF TakesAtMostOne, Untouched

LEMMA OfferWaitsStep ==
  ASSUME IInv, Untouched, OfferWaits
  PROVE  IInv'
  <1>1. TakesAtMostOne /\ snd.pc = "offer" /\ UNCHANGED toReceiver
    BY TookOne DEF OfferWaits
  <1>2. snd \in SenderState
    BY Typed
  <1>3. snd' = [snd EXCEPT !.stale_zrinit = snd.stale_zrinit \/ reply.type = "ZRINIT"]
    BY DEF OfferWaits
  <1>4. snd' \in SenderState
    BY <1>2, <1>3 DEF SenderState
  <1>5. /\ snd'.pc = "offer" /\ snd'.result = snd.result
        /\ snd'.pos = snd.pos /\ snd'.position = snd.position
    BY <1>1, <1>2, <1>3 DEF SenderState
  <1>6. /\ SenderBounded' /\ ~FrameIsOpen' /\ ~Streaming' /\ AcknowledgedIsStored'
        /\ snd.result = "none"
    BY <1>1, <1>5
    DEF IInv, SenderBounded, FrameIsOpen, Streaming, AcknowledgedIsStored
  <1> QED  BY <1>1, <1>4, <1>5, <1>6, QuietStep

LEMMA OfferSkippedStep ==
  ASSUME IInv, Untouched, OfferSkipped
  PROVE  IInv'
  BY TookOne, ReturnStep DEF OfferSkipped, SendResult

LEMMA OfferAcceptedStep ==
  ASSUME IInv, Untouched, OfferAccepted
  PROVE  IInv'
  <1>1. TakeReply({"ZRPOS"}) /\ snd.pc = "offer" /\ UNCHANGED toReceiver
    BY DEF OfferAccepted
  <1>2. /\ TakesAtMostOne /\ TakesAnAnswer /\ toSender[1].type = "ZRPOS"
        /\ reply.pos \in Nat /\ reply.pos <= rcv.pos /\ reply.pos <= FileLen
    BY <1>1, TookOne, AnswerTaken
  <1>3. snd \in SenderState /\ snd.result = "none"
    BY <1>1, Typed DEF IInv, SenderBounded
  <1> DEFINE s == [snd EXCEPT !.pos = reply.pos, !.attempts = 0,
                              !.furthest_attempted = reply.pos,
                              !.furthest_receiver = reply.pos]
  <1>4. s \in SenderState /\ s.pos = reply.pos /\ s.result = "none"
    BY <1>2, <1>3 DEF SenderState
  <1>5. snd' = StreamFrom(s, FALSE)
    BY DEF OfferAccepted
  <1> HIDE DEF s
  <1>6. /\ snd' \in SenderState /\ snd'.pc = "stream" /\ snd'.result = "none"
        /\ snd'.pos = reply.pos /\ snd'.position = reply.pos
        /\ snd'.acknowledged = reply.pos
        /\ snd'.segment_sent = 0 /\ snd'.frame_open = FALSE
    BY <1>4, <1>5, StreamFromType, ZenonT(60) DEF StreamFrom, SenderState
  <1>7. RecvBuffer \in Nat /\ Window \in Nat /\ rcv.pos \in Nat /\ rcv' = rcv
    BY SenderAssumption, Typed DEF ReceiverState, Untouched
  <1>8. SenderBounded' /\ ~FrameIsOpen' /\ AcknowledgedIsStored'
    BY <1>2, <1>6, <1>7
    DEF SenderBounded, FrameIsOpen, Streaming, AcknowledgedIsStored, window_enabled,
        TakesAtMostOne
  <1> QED  BY <1>1, <1>2, <1>6, <1>8, QuietStep

LEMMA OfferRefusedStep ==
  ASSUME IInv, Untouched, OfferRefused
  PROVE  IInv'
  BY TookOne, OfferAgainStep DEF OfferRefused

LEMMA NothingHeardStep ==
  ASSUME IInv, Untouched, NothingHeard
  PROVE  IInv'
  <1>1. /\ TakesAtMostOne /\ snd.pc = "poll" /\ UNCHANGED toReceiver
    BY TookNone DEF NothingHeard
  <1>2. snd \in SenderState
    BY Typed
  <1> DEFINE s == increase_subpacket_size(snd)
  <1>3. /\ s \in SenderState /\ s.pos = snd.pos /\ s.result = snd.result
        /\ s.position = snd.position /\ s.acknowledged = snd.acknowledged
        /\ s.segment_sent = snd.segment_sent /\ s.frame_open = snd.frame_open
    BY <1>2, IncreaseType, IncreaseKeeps
  <1>4. snd' = [s EXCEPT !.pc = "stream"]
    BY DEF NothingHeard
  <1> HIDE DEF s
  <1>5. /\ snd' \in SenderState /\ snd'.pc = "stream"
        /\ snd'.pos = snd.pos /\ snd'.result = snd.result
        /\ snd'.position = snd.position /\ snd'.acknowledged = snd.acknowledged
        /\ snd'.segment_sent = snd.segment_sent /\ snd'.frame_open = snd.frame_open
    BY <1>3, <1>4 DEF SenderState, SenderPc
  <1>6. /\ SenderBounded' /\ AcknowledgedIsStored' /\ Streaming
        /\ FrameIsOpen' => FrameIsOpen
        /\ snd.result = "none"
    BY <1>1, <1>5
    DEF IInv, SenderBounded, FrameIsOpen, Streaming, AcknowledgedIsStored,
        window_enabled, TakesAtMostOne
  <1> QED  BY <1>1, <1>5, <1>6, QuietStep

LEMMA AcknowledgedStep ==
  ASSUME IInv, Untouched, Acknowledged
  PROVE  IInv'
  <1>1. TakeReply({"ZACK"}) /\ UNCHANGED toReceiver /\ snd.pc \in {"poll", "stream"}
    BY DEF Acknowledged, Listening
  <1>2. /\ TakesAtMostOne /\ reply.pos \in Nat /\ reply.pos <= rcv.pos
    BY <1>1, TookOne, AnswerTaken
  <1>3. snd \in SenderState /\ snd.acknowledged \in Nat
    BY Typed DEF SenderState
  <1> DEFINE a == Greater(snd.acknowledged, reply.pos)
  <1>4. /\ a \in Nat /\ a >= snd.acknowledged
        /\ a = snd.acknowledged \/ a = reply.pos
    BY <1>2, <1>3 DEF Greater
  <1>5. snd' = [snd EXCEPT !.acknowledged = a]
    BY DEF Acknowledged
  <1> HIDE DEF a
  <1>6. snd' \in SenderState
    BY <1>3, <1>4, <1>5 DEF SenderState
  <1>7. /\ snd'.pc = snd.pc /\ snd'.acknowledged = a
        /\ snd'.pos = snd.pos /\ snd'.result = snd.result
        /\ snd'.position = snd.position /\ snd'.stop_after_ack = snd.stop_after_ack
        /\ snd'.segment_sent = snd.segment_sent /\ snd'.frame_open = snd.frame_open
    BY <1>3, <1>4, <1>5 DEF SenderState
  <1>8. snd.position \in Nat /\ Window \in Nat
    BY <1>3, SenderAssumption DEF SenderState
  <1>9. SenderBounded'
    BY <1>1, <1>3, <1>4, <1>7, <1>8
    DEF Untouched, IInv, SenderBounded, Streaming, window_enabled
  <1>10. /\ AcknowledgedIsStored' /\ Streaming
         /\ FrameIsOpen' => FrameIsOpen
         /\ snd.result = "none"
    BY <1>1, <1>2, <1>4, <1>7
    DEF IInv, SenderBounded, FrameIsOpen, Streaming, AcknowledgedIsStored,
        TakesAtMostOne
  <1>11. snd'.pc # "offer"
    BY <1>1, <1>7
  <1> QED  BY <1>1, <1>2, <1>6, <1>7, <1>9, <1>10, <1>11, QuietStep

LEMMA SynchronousAckStep ==
  ASSUME IInv, Untouched, SynchronousAck
  PROVE  IInv'
  <1>1. TakeReply({"ZACK"}) /\ snd.pc = "ack"
    BY DEF SynchronousAck
  <1>2. /\ TakesAtMostOne /\ reply.pos \in Nat /\ reply.pos <= rcv.pos
    BY <1>1, TookOne, AnswerTaken
  <1>3. snd \in SenderState /\ snd.result = "none" /\ snd.pos <= rcv.pos
    BY <1>1, Typed DEF IInv, SenderBounded, AcknowledgedIsStored
  <1>4. CASE reply.pos # snd.position
    <2>1. UNCHANGED <<snd, toReceiver>>
      BY <1>4 DEF SynchronousAck
    <2>2. SenderBounded' /\ AcknowledgedIsStored' /\ FrameIsOpen' = FrameIsOpen
      BY <1>2, <2>1
      DEF IInv, SenderBounded, FrameIsOpen, Streaming, AcknowledgedIsStored,
          window_enabled, TakesAtMostOne
    <2> QED  BY <1>1, <1>2, <1>3, <2>1, <2>2, QuietStep DEF Streaming
  <1>5. CASE reply.pos = snd.position
    <2> DEFINE s == increase_subpacket_size(snd)
               acked == [s EXCEPT !.acknowledged = snd.position,
                                  !.last_ack_request = snd.position,
                                  !.frame_open = FALSE, !.segment_sent = 0,
                                  !.synchronize_recovery = FALSE]
    <2>1. s \in SenderState /\ s.pos = snd.pos /\ s.result = snd.result
          /\ s.position = snd.position /\ snd.position \in Nat
      BY <1>3, IncreaseType, IncreaseKeeps DEF SenderState
    <2> HIDE DEF s
    <2>2. /\ acked \in SenderState /\ acked.pos = snd.pos /\ acked.result = "none"
          /\ acked.position = snd.position /\ acked.acknowledged = snd.position
          /\ acked.frame_open = FALSE /\ acked.segment_sent = 0
      BY <1>3, <2>1 DEF SenderState
    <2>3. IF snd.stop_after_ack
          THEN /\ snd' = [acked EXCEPT !.pc = "eof"]
               /\ Transmit(<<Header("ZEOF", snd.position)>>)
          ELSE /\ snd' = [acked EXCEPT !.pc = "stream"]
               /\ UNCHANGED toReceiver
      BY <1>5 DEF SynchronousAck, s
    <2> HIDE DEF acked
    <2>4. /\ snd' \in SenderState /\ snd'.pos = snd.pos /\ snd'.result = "none"
          /\ snd'.position = snd.position /\ snd'.acknowledged = snd.position
          /\ snd'.frame_open = FALSE /\ snd'.segment_sent = 0
          /\ snd'.pc = IF snd.stop_after_ack THEN "eof" ELSE "stream"
      BY <2>2, <2>3 DEF SenderState, SenderPc
    <2>5. /\ RecvBuffer \in Nat /\ Window \in Nat /\ rcv.pos \in Nat /\ rcv' = rcv
          /\ snd.position <= rcv.pos
      BY <1>2, <1>5, SenderAssumption, Typed DEF ReceiverState, Untouched
    <2>6. /\ SenderBounded' /\ Streaming /\ ~FrameIsOpen'
          /\ snd.stop_after_ack => snd.position = FileLen
      BY <1>1, <2>1, <2>4, <2>5
      DEF IInv, SenderBounded, FrameIsOpen, Streaming, window_enabled
    <2>7. AcknowledgedIsStored'
      BY <1>2, <1>3, <1>5, <2>4 DEF AcknowledgedIsStored, TakesAtMostOne
    <2>8. CASE ~snd.stop_after_ack
      BY <1>2, <2>3, <2>4, <2>6, <2>7, <2>8, QuietStep
    <2>9. CASE snd.stop_after_ack
      <3> DEFINE G == <<Header("ZEOF", snd.position)>>
      <3>1. /\ G \in Seq(ToReceiverFrame) /\ Len(G) = 1
            /\ G[1].type = "ZEOF" /\ G[1].pos = FileLen
        BY <2>1, <2>6, <2>9, HeaderFields, OneHeader
      <3>2. toReceiver' = toReceiver \o G /\ snd'.pc = "eof"
        BY <2>3, <2>4, <2>9 DEF Transmit
      <3> HIDE DEF G
      <3>3. SenderStepOK(G)
        BY <1>2, <2>4, <2>6, <2>7, <3>1, <3>2 DEF SenderStepOK, TakesAtMostOne
      <3> QED  BY <3>1, <3>3, SenderStep
    <2> QED  BY <2>8, <2>9
  <1> QED  BY <1>4, <1>5

LEMMA RepositionRequestedStep ==
  ASSUME IInv, Untouched, RepositionRequested \/ FinishRepositioned
  PROVE  IInv'
  <1>1. TakeReply({"ZRPOS"}) /\ Streaming
    BY DEF RepositionRequested, FinishRepositioned, Interrupting, Listening, Streaming
  <1>2. /\ TakesAtMostOne /\ reply.pos \in Nat
        /\ reply.pos <= rcv.pos /\ reply.pos <= FileLen
    BY <1>1, TookOne, AnswerTaken
  <1>3. LET a == [AccountRequest(snd, reply.pos) EXCEPT !.pos = reply.pos]
        IN  Resume(a) \/ Resume(reduce_subpacket_size(a))
    BY DEF RepositionRequested, FinishRepositioned
  <1> QED  BY <1>1, <1>2, <1>3, RepositionStep

LEMMA RefusedStep ==
  ASSUME IInv, Untouched, Refused
  PROVE  IInv'
  <1>1. TakeReply({"ZNAK", "ZACK"}) /\ Streaming /\ StartAgain
    BY DEF Refused, Interrupting, Listening, Streaming
  <1> QED  BY <1>1, TookOne, StartAgainStep

LEMMA StreamTimeoutStep ==
  ASSUME IInv, Untouched, StreamTimeout
  PROVE  IInv'
  BY TookNone, StartAgainStep DEF StreamTimeout, Streaming

LEMMA EndedStep ==
  ASSUME IInv, Untouched, StreamEnded \/ FinishEnded
  PROVE  IInv'
  <1>1. \E types : TakeReply(types)
    BY DEF StreamEnded, FinishEnded
  <1>2. Return("skipped") \/ Return("failed")
    BY DEF StreamEnded, FinishEnded
  <1> QED  BY <1>1, <1>2, TookOne, ReturnStep DEF SendResult

LEMMA FinishedStep ==
  ASSUME IInv, Untouched, Finished
  PROVE  IInv'
  <1>1. TakeReply({"ZRINIT"}) /\ Streaming /\ Return("succeeded")
    BY DEF Finished, Streaming
  <1>2. rcv.result = "succeeded"
    BY <1>1, AnswerTaken
  <1> QED  BY <1>1, <1>2, TookOne, ReturnStep DEF SendResult

LEMMA FinishAcknowledgedStep ==
  ASSUME IInv, Untouched, FinishAcknowledged
  PROVE  IInv'
  BY TookOne, FinishAgainStep DEF FinishAcknowledged

LEMMA FinishTimeoutStep ==
  ASSUME IInv, Untouched, FinishTimeout
  PROVE  IInv'
  BY TookNone, FinishAgainStep DEF FinishTimeout

LEMMA OfferTimeoutStep ==
  ASSUME IInv, Untouched, OfferTimeout
  PROVE  IInv'
  BY TookNone, OfferAgainStep DEF OfferTimeout

\* An answer is lost.
LEMMA ReplyDamagedStep ==
  ASSUME IInv, ReplyDamaged
  PROVE  IInv'
  <1>1. /\ toSender # << >> /\ toSender' = Tail(toSender) /\ snd.pc # "done"
        /\ UNCHANGED <<toReceiver, snd, rcv, disk>>
    BY DEF ReplyDamaged, receiverVars
  <1>2. faults' \in Nat
    BY FaultCounted DEF ReplyDamaged, Faults
  <1>3. TakesAtMostOne
    BY <1>1, <1>2, Typed, HeadAndTail, TailIsRest DEF TakesAtMostOne, TakesAnAnswer
  <1>4. /\ SenderBounded' /\ AcknowledgedIsStored' /\ snd.result = "none"
        /\ FrameIsOpen' = FrameIsOpen /\ Streaming' = Streaming
    BY <1>1
    DEF IInv, SenderBounded, FrameIsOpen, Streaming, AcknowledgedIsStored,
        window_enabled
  <1> QED  BY <1>1, <1>3, <1>4, Typed, QuietStep

LEMMA ReadFailsStep ==
  ASSUME IInv, ReadFails, UNCHANGED <<rcv, disk>>
  PROVE  IInv'
  <1>1. /\ faults' \in Nat /\ UNCHANGED toSender /\ snd.pc = "stream"
    BY FaultCounted DEF ReadFails, Faults, CanStream
  <1>2. TakesAtMostOne /\ snd \in SenderState
    BY <1>1, Typed DEF TakesAtMostOne
  <1>3. /\ snd.position \in Nat /\ snd.position <= FileLen /\ FileLen \in Nat
    BY <1>2, SenderAssumption DEF SenderState, IInv, SenderBounded
  <1> DEFINE d == Header("ZDATA", snd.position)
             e == Header("ZFERR", snd.position)
             f == Header("ZFIN", 0)
             G == Opening \o <<e, f>>
  <1>4. /\ d \in ToReceiverFrame /\ e \in ToReceiverFrame /\ f \in ToReceiverFrame
        /\ d.type = "ZDATA" /\ d.pos + d.n <= FileLen
        /\ e.type = "ZFERR" /\ f.type = "ZFIN"
    BY <1>3, HeaderFields
  <1>5. G = <<e, f>> \/ G = <<d, e, f>>
    <2>1. << >> \o <<e, f>> = <<e, f>> /\ <<d>> \o <<e, f>> = <<d, e, f>>
      BY <1>4, Joined
    <2> QED  BY <2>1 DEF Opening
  <1>6. toReceiver' = toReceiver \o G
    BY DEF ReadFails, Transmit
  <1> HIDE DEF d, e, f, G
  <1>7. /\ G \in Seq(ToReceiverFrame)
        /\ \A i \in 1 .. Len(G) : G[i] \in {d, e, f}
    <2>1. CASE G = <<e, f>>
      BY <1>4, <2>1
    <2>2. CASE G = <<d, e, f>>
      BY <1>4, <2>2
    <2> QED  BY <1>5, <2>1, <2>2
  <1>8. /\ snd' \in SenderState /\ snd'.pc = "done" /\ snd'.result = "failed"
        /\ snd'.pos = snd.pos /\ snd'.position = snd.position
    BY <1>2 DEF ReadFails, SenderState, SenderPc, SendResult
  <1>9. SenderBounded' /\ ~FrameIsOpen' /\ ~Streaming' /\ AcknowledgedIsStored'
    BY <1>8
    DEF IInv, SenderBounded, FrameIsOpen, Streaming, AcknowledgedIsStored
  <1>10. SenderStepOK(G)
    BY <1>2, <1>4, <1>6, <1>7, <1>8, <1>9 DEF SenderStepOK, TakesAtMostOne
  <1> QED  BY <1>7, <1>10, SenderStep

----------------------------------------------------------------------------
(* SendSubpacket: the subpacket continues what is before it, and stays in    *)
(* the file, in the window and in the receiver's buffer.                     *)

LEMMA SubpacketBounded ==
  ASSUME IInv, CanStream,
         NEW n, n = Lesser(read_size, FileLen - snd.position)
  PROVE  /\ n \in Nat /\ snd.position + n <= FileLen
         /\ n = 0 \/ n < read_size => snd.position + n = FileLen
         /\ window_enabled => (snd.position + n) - snd.acknowledged <= Window
         /\ RecvBuffer # 0 => snd.segment_sent + n <= RecvBuffer
  <1>1. snd \in SenderState /\ snd.pc = "stream" /\ ~WindowFull
    BY Typed DEF CanStream
  <1>2. /\ snd.position \in Nat /\ snd.acknowledged \in Nat /\ snd.segment_sent \in Nat
        /\ snd.subpacket_size \in Nat \ {0}
        /\ FileLen \in Nat /\ Window \in Nat /\ RecvBuffer \in Nat
    BY <1>1, SenderAssumption DEF SenderState
  <1>3. /\ snd.position <= FileLen
        /\ window_enabled => Window - (snd.position - snd.acknowledged) >= 1
        /\ RecvBuffer # 0 => RecvBuffer - snd.segment_sent >= 1
    BY <1>1, <1>2 DEF IInv, SenderBounded, WindowFull
  <1>4. /\ read_size \in Nat \ {0}
        /\ window_enabled => read_size <= Window - (snd.position - snd.acknowledged)
        /\ RecvBuffer # 0 => read_size <= RecvBuffer - snd.segment_sent
    BY <1>2, <1>3 DEF read_size, Lesser
  <1>5. /\ n \in Nat /\ n <= FileLen - snd.position /\ n <= read_size
        /\ n < read_size => n = FileLen - snd.position
    BY <1>2, <1>3, <1>4 DEF Lesser
  <1>6. n = 0 => n < read_size
    BY <1>4
  <1> QED  BY <1>2, <1>3, <1>4, <1>5, <1>6

SubpacketFrames(G) ==
  /\ G \in Seq(ToReceiverFrame) /\ Len(G) \in Nat \ {0}
  /\ \A i \in 1 .. Len(G) :
       /\ G[i].type = "DATA" =>
            /\ G[i].pos = snd.position
            /\ IF i = 1 THEN snd.frame_open ELSE Follows(G[i - 1], G[i])
       /\ G[i].type \in {"DATA", "ZDATA"} => G[i].pos + G[i].n <= FileLen
       /\ G[i].type = "ZEOF" => G[i].pos = FileLen
       /\ G[i].type # "ZFILE"

LEMMA FramesFit ==
  ASSUME IInv, NEW n \in Nat, snd.position + n <= FileLen, NEW end \in FrameEnds,
         NEW h \in ToReceiverFrame, h.type = "ZDATA", h.pos = snd.position, h.n = 0,
         NEW d \in ToReceiverFrame, d.type = "DATA", d.pos = snd.position,
         d.n = n, d.end = end,
         NEW z \in ToReceiverFrame, z.type = "ZEOF",
         end = "ZCRCE" => z.pos = FileLen,
         NEW G,
         G = IF snd.frame_open
             THEN IF end = "ZCRCE" THEN <<d, z>> ELSE <<d>>
             ELSE IF end = "ZCRCE" THEN <<h, d, z>> ELSE <<h, d>>
  PROVE  /\ SubpacketFrames(G)
         /\ end # "ZCRCE" => /\ G[Len(G)].type = "DATA" /\ G[Len(G)].end = end
                             /\ G[Len(G)].pos + G[Len(G)].n = snd.position + n
  <1>1. /\ snd.position \in Nat /\ snd.frame_open \in BOOLEAN /\ FileLen \in Nat
        /\ snd.position <= FileLen
    BY Typed, SenderAssumption DEF SenderState, IInv, SenderBounded
  <1>2. Follows(h, d)
    BY DEF Follows
  <1>3. CASE snd.frame_open /\ end = "ZCRCE"
    <2>1. G \in Seq(ToReceiverFrame) /\ Len(G) = 2 /\ G[1] = d /\ G[2] = z
      BY <1>1, <1>3, Pair
    <2>2. \A i \in 1 .. Len(G) : i = 1 \/ i = 2
      BY <2>1
    <2> QED  BY <1>1, <1>2, <1>3, <2>1, <2>2 DEF SubpacketFrames
  <1>4. CASE snd.frame_open /\ end # "ZCRCE"
    <2>1. G \in Seq(ToReceiverFrame) /\ Len(G) = 1 /\ G[1] = d
      BY <1>1, <1>4, Single
    <2>2. \A i \in 1 .. Len(G) : i = 1
      BY <2>1
    <2> QED  BY <1>1, <1>2, <1>4, <2>1, <2>2 DEF SubpacketFrames
  <1>5. CASE ~snd.frame_open /\ end = "ZCRCE"
    <2>1. G \in Seq(ToReceiverFrame) /\ Len(G) = 3 /\ G[1] = h /\ G[2] = d /\ G[3] = z
      BY <1>1, <1>5, Triple
    <2>2. \A i \in 1 .. Len(G) : i = 1 \/ i = 2 \/ i = 3
      BY <2>1
    <2> QED  BY <1>1, <1>2, <1>5, <2>1, <2>2 DEF SubpacketFrames
  <1>6. CASE ~snd.frame_open /\ end # "ZCRCE"
    <2>1. G \in Seq(ToReceiverFrame) /\ Len(G) = 2 /\ G[1] = h /\ G[2] = d
      BY <1>1, <1>6, Pair
    <2>2. \A i \in 1 .. Len(G) : i = 1 \/ i = 2
      BY <2>1
    <2> QED  BY <1>1, <1>2, <1>6, <2>1, <2>2 DEF SubpacketFrames
  <1> QED  BY <1>1, <1>3, <1>4, <1>5, <1>6

FramesOf(n, end) ==
  LET h == Header("ZDATA", snd.position)
      d == Subpacket(snd.position, n, end)
      z == Header("ZEOF", snd.position + n)
  IN  IF snd.frame_open
      THEN IF end = "ZCRCE" THEN <<d, z>> ELSE <<d>>
      ELSE IF end = "ZCRCE" THEN <<h, d, z>> ELSE <<h, d>>

LEMMA FramesSent ==
  ASSUME IInv, NEW n \in Nat, NEW end \in FrameEnds
  PROVE  (IF end = "ZCRCE"
          THEN (Opening \o <<Subpacket(snd.position, n, end)>>)
                 \o <<Header("ZEOF", snd.position + n)>>
          ELSE Opening \o <<Subpacket(snd.position, n, end)>>) = FramesOf(n, end)
  <1>1. snd.position \in Nat /\ snd.frame_open \in BOOLEAN
    BY Typed DEF SenderState
  <1> DEFINE h == Header("ZDATA", snd.position)
             d == Subpacket(snd.position, n, end)
             z == Header("ZEOF", snd.position + n)
  <1>2. h \in ToReceiverFrame /\ z \in ToReceiverFrame
    BY <1>1, HeaderFields
  <1>3. d \in ToReceiverFrame
    BY <1>1 DEF Subpacket, ToReceiverFrame
  <1>4. Opening = IF snd.frame_open THEN << >> ELSE <<h>>
    BY DEF Opening
  <1> HIDE DEF h, d, z
  <1>5. /\ << >> \o <<d>> = <<d>> /\ <<h>> \o <<d>> = <<h, d>>
        /\ <<d>> \o <<z>> = <<d, z>> /\ <<h, d>> \o <<z>> = <<h, d, z>>
    BY <1>2, <1>3, Joined
  <1>6. (IF end = "ZCRCE" THEN (Opening \o <<d>>) \o <<z>> ELSE Opening \o <<d>>)
          = IF snd.frame_open
            THEN IF end = "ZCRCE" THEN <<d, z>> ELSE <<d>>
            ELSE IF end = "ZCRCE" THEN <<h, d, z>> ELSE <<h, d>>
    BY <1>1, <1>4, <1>5
  <1> QED  BY <1>6 DEF h, d, z, FramesOf

LEMMA SubpacketIsFramed ==
  ASSUME IInv, NEW n \in Nat, NEW end \in FrameEnds,
         snd.position + n <= FileLen,
         end = "ZCRCE" => snd.position + n = FileLen
  PROVE  LET G == FramesOf(n, end)
         IN  /\ SubpacketFrames(G)
             /\ end # "ZCRCE" => /\ G[Len(G)].type = "DATA" /\ G[Len(G)].end = end
                                 /\ G[Len(G)].pos + G[Len(G)].n = snd.position + n
  <1>1. snd.position \in Nat
    BY Typed DEF SenderState
  <1> DEFINE h == Header("ZDATA", snd.position)
             d == Subpacket(snd.position, n, end)
             z == Header("ZEOF", snd.position + n)
             G == FramesOf(n, end)
  <1>2. /\ h \in ToReceiverFrame /\ h.type = "ZDATA" /\ h.pos = snd.position
        /\ h.n = 0
        /\ z \in ToReceiverFrame /\ z.type = "ZEOF" /\ z.pos = snd.position + n
    BY <1>1, HeaderFields
  <1>3. /\ d \in ToReceiverFrame /\ d.type = "DATA" /\ d.pos = snd.position
        /\ d.n = n /\ d.end = end
    BY <1>1 DEF Subpacket, ToReceiverFrame
  <1>4. G = IF snd.frame_open
            THEN IF end = "ZCRCE" THEN <<d, z>> ELSE <<d>>
            ELSE IF end = "ZCRCE" THEN <<h, d, z>> ELSE <<h, d>>
    BY DEF FramesOf
  <1>5. end = "ZCRCE" => z.pos = FileLen
    BY <1>2
  <1> HIDE DEF h, d, z, G
  <1>6. /\ SubpacketFrames(G)
        /\ end # "ZCRCE" => /\ G[Len(G)].type = "DATA" /\ G[Len(G)].end = end
                            /\ G[Len(G)].pos + G[Len(G)].n = snd.position + n
    BY <1>2, <1>3, <1>4, <1>5, FramesFit
  <1> QED  BY <1>6 DEF G

LEMMA SendSubpacketStep ==
  ASSUME IInv, Untouched, SendSubpacket
  PROVE  IInv'
  <1> DEFINE n == Lesser(read_size, FileLen - snd.position)
             end_of_file == n < read_size
             end == FrameEnd(n, end_of_file)
             position == snd.position + n
             G == IF end = "ZCRCE"
                  THEN (Opening \o <<Subpacket(snd.position, n, end)>>)
                         \o <<Header("ZEOF", position)>>
                  ELSE Opening \o <<Subpacket(snd.position, n, end)>>
             m == Len(toReceiver)
  <1>1. CanStream /\ UNCHANGED <<toSender, rcv, disk>> /\ faults' \in Nat
    BY DEF SendSubpacket, Untouched
  <1>2. /\ toReceiver' = toReceiver \o G
        /\ snd' = [snd EXCEPT
             !.pc = IF end = "ZCRCE" THEN "eof"
                    ELSE IF end = "ZCRCW" THEN "ack" ELSE "poll",
             !.position = position,
             !.frame_open = TRUE,
             !.segment_sent = @ + n,
             !.last_ack_request = IF end = "ZCRCQ" THEN position ELSE @,
             !.stop_after_ack =
                end_of_file /\ (snd.synchronize_recovery \/ wait_each_block)]
    BY DEF SendSubpacket, Transmit
  <1>3. /\ snd \in SenderState /\ snd.pc = "stream" /\ snd.result = "none"
        /\ snd.position \in Nat /\ snd.segment_sent \in Nat /\ RecvBuffer \in Nat
        /\ toReceiver \in Seq(ToReceiverFrame)
    BY <1>1, Typed, SenderAssumption DEF CanStream, SenderState, IInv, SenderBounded
  <1>4. /\ n \in Nat /\ position <= FileLen /\ position \in Nat
        /\ n = 0 \/ end_of_file => position = FileLen
        /\ window_enabled => position - snd.acknowledged <= Window
        /\ RecvBuffer # 0 => snd.segment_sent + n <= RecvBuffer
    <2>1. n = Lesser(read_size, FileLen - snd.position)
      OBVIOUS
    <2> HIDE DEF n
    <2>2. /\ n \in Nat /\ snd.position + n <= FileLen
          /\ n = 0 \/ n < read_size => snd.position + n = FileLen
          /\ window_enabled => (snd.position + n) - snd.acknowledged <= Window
          /\ RecvBuffer # 0 => snd.segment_sent + n <= RecvBuffer
      BY <1>1, <2>1, SubpacketBounded
    <2>3. n \in Nat /\ position \in Nat
      BY <1>3, <2>2
    <2>4. /\ position <= FileLen
          /\ n = 0 \/ end_of_file => position = FileLen
          /\ window_enabled => position - snd.acknowledged <= Window
          /\ RecvBuffer # 0 => snd.segment_sent + n <= RecvBuffer
      BY <2>2
    <2> QED  BY <2>3, <2>4
  <1> HIDE DEF n, position
  <1>5. /\ end \in FrameEnds
        /\ end = "ZCRCE" => n = 0 \/ end_of_file
        /\ RecvBuffer # 0 /\ end \notin {"ZCRCE", "ZCRCW"}
             => snd.segment_sent + n # RecvBuffer
    BY DEF FrameEnd, FrameEnds
  <1> HIDE DEF end, end_of_file
  <1>6. /\ snd'.pc = IF end = "ZCRCE" THEN "eof"
                     ELSE IF end = "ZCRCW" THEN "ack" ELSE "poll"
        /\ snd'.position = position /\ snd'.pos = snd.pos
        /\ snd'.acknowledged = snd.acknowledged /\ snd'.result = "none"
        /\ snd'.frame_open = TRUE /\ snd'.segment_sent = snd.segment_sent + n
        /\ snd'.stop_after_ack =>  end_of_file
    BY <1>2, <1>3 DEF SenderState
  <1>7. snd' \in SenderState
    <2>1. snd.segment_sent + n \in Nat /\ snd.last_ack_request \in Nat
      BY <1>3, <1>4, SMTT(60) DEF SenderState
    <2>2. (end_of_file /\ (snd.synchronize_recovery \/ wait_each_block)) \in BOOLEAN
      BY DEF end_of_file
    <2> QED  BY <1>2, <1>3, <1>4, <2>1, <2>2, ZenonT(60) DEF SenderState, SenderPc
  <1>8. /\ SubpacketFrames(G)
        /\ end # "ZCRCE" => /\ G[Len(G)].type = "DATA" /\ G[Len(G)].end = end
                            /\ G[Len(G)].pos + G[Len(G)].n = position
    <2>1. G = FramesOf(n, end)
      BY <1>4, <1>5, FramesSent DEF position
    <2>2. /\ snd.position + n <= FileLen
          /\ end = "ZCRCE" => snd.position + n = FileLen
      BY <1>4, <1>5 DEF position
    <2> HIDE DEF G
    <2>3. /\ SubpacketFrames(G)
          /\ end # "ZCRCE" => /\ G[Len(G)].type = "DATA" /\ G[Len(G)].end = end
                              /\ G[Len(G)].pos + G[Len(G)].n = snd.position + n
      BY <1>4, <1>5, <2>1, <2>2, SubpacketIsFramed
    <2> QED  BY <2>3 DEF position
  <1> HIDE DEF G
  <1>9. /\ G \in Seq(ToReceiverFrame) /\ Len(G) \in Nat \ {0}
    BY <1>8 DEF SubpacketFrames
  <1>10. /\ toReceiver' \in Seq(ToReceiverFrame) /\ Len(toReceiver') = m + Len(G)
         /\ m \in Nat
         /\ \A i \in 1 .. m : toReceiver'[i] = toReceiver[i]
         /\ \A i \in 1 .. Len(G) : toReceiver'[m + i] = G[i]
    BY <1>2, <1>3, <1>9, Concatenation
  <1>11. \A i \in 1 .. Len(toReceiver') :
           \/ i \in 1 .. m /\ toReceiver'[i] = toReceiver[i]
           \/ i - m \in 1 .. Len(G) /\ toReceiver'[i] = G[i - m]
    BY <1>9, <1>10
  <1> HIDE DEF m
  <1>12. TypeOK'
    BY <1>1, <1>7, <1>10
    DEF IInv, TypeOK, LineTypeOK, SenderTypeOK, ReceiverTypeOK
  <1>13. Chained'
    <2> SUFFICES ASSUME NEW i \in 1 .. Len(toReceiver') - 1,
                        toReceiver'[i + 1].type = "DATA"
                 PROVE  Follows(toReceiver'[i], toReceiver'[i + 1])
      BY DEF Chained
    <2>1. CASE i + 1 \in 1 .. m
      <3>1. /\ i \in 1 .. m - 1 /\ toReceiver'[i] = toReceiver[i]
            /\ toReceiver'[i + 1] = toReceiver[i + 1]
        BY <1>10, <2>1
      <3> QED  BY <3>1 DEF IInv, Chained, m
    <2>2. CASE i = m
      <3>1. /\ 1 \in 1 .. Len(G) /\ toReceiver'[i + 1] = G[1]
            /\ toReceiver'[i] = toReceiver[m] /\ toReceiver # << >>
        BY <1>3, <1>9, <1>10, <2>2 DEF m
      <3>2. snd.frame_open /\ G[1].pos = snd.position
        BY <1>8, <3>1 DEF SubpacketFrames
      <3> QED
        BY <1>3, <3>1, <3>2 DEF IInv, TailFits, FrameIsOpen, Follows, m
    <2>3. CASE i > m
      <3> DEFINE j == (i + 1) - m
      <3>1. /\ j \in 1 .. Len(G) /\ j # 1 /\ j - 1 \in 1 .. Len(G)
            /\ m + j = i + 1 /\ m + (j - 1) = i
        BY <1>9, <1>10, <2>3, SMTT(60)
      <3> HIDE DEF j
      <3>2. toReceiver'[i + 1] = G[j] /\ toReceiver'[i] = G[j - 1]
        BY <1>10, <3>1
      <3> QED  BY <1>8, <3>1, <3>2 DEF SubpacketFrames
    <2> QED  BY <1>10, <2>1, <2>2, <2>3
  <1>14. HeadFits'
    <2> SUFFICES ASSUME rcv.pc = "data", toReceiver'[1].type = "DATA"
                 PROVE  toReceiver'[1].pos = rcv.pos
      BY <1>1 DEF HeadFits
    <2>1. CASE toReceiver = << >>
      <3>1. m = 0 /\ toReceiver'[1] = G[1] /\ 1 \in 1 .. Len(G)
        BY <1>9, <1>10, <2>1 DEF m
      <3>2. snd.frame_open /\ G[1].pos = snd.position
        BY <1>8, <3>1 DEF SubpacketFrames
      <3> QED
        BY <1>3, <2>1, <3>1, <3>2 DEF IInv, ReceiverFits, FrameIsOpen
    <2>2. CASE toReceiver # << >>
      <3>1. toReceiver'[1] = toReceiver[1]
        BY <1>3, <1>10, <2>2 DEF m
      <3> QED  BY <2>2, <3>1 DEF IInv, HeadFits
    <2> QED  BY <2>1, <2>2
  <1>15. TailFits' /\ ReceiverFits'
    <2>1. /\ Len(G) \in 1 .. Len(G) /\ toReceiver' # << >>
          /\ toReceiver'[Len(toReceiver')] = G[Len(G)]
      BY <1>9, <1>10
    <2>2. FrameIsOpen' => end \in {"ZCRCG", "ZCRCQ"}
      BY <1>5, <1>6 DEF FrameIsOpen, FrameEnds
    <2> QED  BY <1>6, <1>8, <2>1, <2>2 DEF TailFits, ReceiverFits
  <1>16. LineBounded'
    <2> SUFFICES ASSUME NEW i \in 1 .. Len(toReceiver')
                 PROVE  /\ toReceiver'[i].type \in {"DATA", "ZDATA"}
                             => toReceiver'[i].pos + toReceiver'[i].n <= FileLen
                        /\ toReceiver'[i].type = "ZEOF" => toReceiver'[i].pos = FileLen
      BY DEF LineBounded
    <2>1. CASE i \in 1 .. m /\ toReceiver'[i] = toReceiver[i]
      BY <2>1 DEF IInv, LineBounded, m
    <2>2. CASE i - m \in 1 .. Len(G) /\ toReceiver'[i] = G[i - m]
      BY <1>8, <2>2 DEF SubpacketFrames
    <2> QED  BY <1>11, <2>1, <2>2
  <1>17. SenderBounded'
    <2>1. /\ snd.pos <= FileLen
          /\ snd.pos \in Nat /\ snd.acknowledged \in Nat
      BY <1>3 DEF IInv, SenderBounded, SenderState
    <2>2. position <= rcv'.pos + snd'.segment_sent
      <3>1. /\ snd.position <= rcv.pos + snd.segment_sent /\ rcv.pos \in Nat
            /\ rcv' = rcv
        BY <1>1, <1>3, Typed DEF IInv, SenderBounded, Streaming, ReceiverState
      <3> QED  BY <1>3, <1>4, <1>6, <3>1 DEF position
    <2> QED
      BY <1>3, <1>4, <1>5, <1>6, <2>1, <2>2, SMTT(60) DEF SenderBounded, Streaming, window_enabled
  <1>18. ReceiverBounded' /\ Intact' /\ AnswersTrue'
    BY <1>1 DEF IInv, ReceiverBounded, Intact, AnswersTrue
  <1>19. OffersFirst'
    <2>1. \A i \in 1 .. Len(toReceiver') :
            toReceiver'[i].type = "ZFILE" => i \in 1 .. m
      BY <1>8, <1>11 DEF SubpacketFrames
    <2>2. \A i \in 1 .. Len(toReceiver'), j \in 1 .. Len(toReceiver') :
            i < j /\ toReceiver'[j].type = "ZFILE" => toReceiver'[i].type = "ZFILE"
      <3> TAKE i \in 1 .. Len(toReceiver'), j \in 1 .. Len(toReceiver')
      <3> HAVE i < j /\ toReceiver'[j].type = "ZFILE"
      <3>1. /\ i \in 1 .. m /\ toReceiver'[i] = toReceiver[i]
            /\ j \in 1 .. m /\ toReceiver'[j] = toReceiver[j]
        BY <1>10, <2>1
      <3> QED  BY <3>1 DEF IInv, OffersFirst, m
    <2>3. rcv'.result = "succeeded" =>
            \A i \in 1 .. Len(toReceiver') : toReceiver'[i].type # "ZFILE"
      BY <1>1, <1>10, <2>1 DEF IInv, OffersFirst, m
    <2> QED  BY <1>6, <2>2, <2>3 DEF OffersFirst
  <1>20. InvitationsOld'
    BY <1>1, <1>3, <1>6 DEF IInv, InvitationsOld, Streaming
  <1>21. Complete' /\ AcknowledgedIsStored'
    BY <1>1, <1>3, <1>6 DEF IInv, Complete, AcknowledgedIsStored
  <1> QED
    BY <1>12, <1>13, <1>14, <1>15, <1>16, <1>17, <1>18, <1>19, <1>20, <1>21 DEF IInv

----------------------------------------------------------------------------
(* What the receiver's steps have in common.                               *)

LineShortened ==
  toReceiver' \in Seq(ToReceiverFrame) /\ \E k \in Nat : Rest(toReceiver', toReceiver, k)

LEMMA LineKept ==
  ASSUME IInv, UNCHANGED toReceiver
  PROVE  LineShortened
  <1>1. toReceiver \in Seq(ToReceiverFrame) /\ Len(toReceiver) \in Nat
    BY Typed
  <1>2. Rest(toReceiver, toReceiver, 0)
    BY <1>1 DEF Rest
  <1> QED  BY <1>1, <1>2 DEF LineShortened

LEMMA RequestTaken ==
  ASSUME IInv, NEW types, TakeRequest(types)
  PROVE  /\ LineShortened /\ toReceiver # << >>
         /\ request = toReceiver[1] /\ request \in ToReceiverFrame
         /\ request.type \in types
         /\ toReceiver' # << >> =>
              toReceiver'[1] = toReceiver[2] /\ 1 \in 1 .. Len(toReceiver) - 1
         /\ toReceiver' = << >> => Len(toReceiver) = 1
  <1>1. /\ toReceiver \in Seq(ToReceiverFrame) /\ toReceiver # << >>
        /\ toReceiver' = Tail(toReceiver) /\ request.type \in types
    BY Typed DEF TakeRequest
  <1>2. /\ request = toReceiver[1] /\ request \in ToReceiverFrame
        /\ toReceiver' \in Seq(ToReceiverFrame) /\ Rest(toReceiver', toReceiver, 1)
    BY <1>1, HeadAndTail, TailIsRest DEF request
  <1>3. toReceiver' # << >> =>
          toReceiver'[1] = toReceiver[2] /\ 1 \in 1 .. Len(toReceiver) - 1
    <2> SUFFICES ASSUME toReceiver' # << >>
                 PROVE  toReceiver'[1] = toReceiver[1 + 1] /\ 1 \in 1 .. Len(toReceiver) - 1
      OBVIOUS
    <2>1. /\ Len(toReceiver') = Len(toReceiver) - 1
          /\ \A i \in 1 .. Len(toReceiver) - 1 : toReceiver'[i] = toReceiver[i + 1]
      BY <1>1, HeadAndTail
    <2>2. 1 \in 1 .. Len(toReceiver) - 1
      BY <1>1, <1>2, <2>1
    <2> QED  BY <2>1, <2>2
  <1>4. toReceiver' = << >> => Len(toReceiver) = 1
    <2>1. Len(toReceiver') = Len(toReceiver) - 1 /\ Len(toReceiver) \in Nat
      BY <1>1, HeadAndTail
    <2>2. toReceiver' = << >> => Len(toReceiver') = 0
      OBVIOUS
    <2> QED  BY <2>1, <2>2
  <1> QED  BY <1>1, <1>2, <1>3, <1>4 DEF LineShortened

LEMMA LinePurged ==
  ASSUME IInv, \/ toReceiver' \in Purged(toReceiver)
               \/ toReceiver # << >> /\ toReceiver' \in Purged(Tail(toReceiver))
               \/ toReceiver # << >> /\ toReceiver' = Tail(toReceiver)
  PROVE  LineShortened
  <1>1. toReceiver \in Seq(ToReceiverFrame)
    BY Typed
  <1>2. CASE toReceiver' \in Purged(toReceiver)
    BY <1>1, <1>2, PurgedIsRest DEF LineShortened
  <1>3. CASE toReceiver # << >> /\ toReceiver' \in Purged(Tail(toReceiver))
    BY <1>1, <1>3, PurgedTailIsRest DEF LineShortened
  <1>4. CASE toReceiver # << >> /\ toReceiver' = Tail(toReceiver)
    BY <1>1, <1>4, HeadAndTail, TailIsRest DEF LineShortened
  <1> QED  BY <1>2, <1>3, <1>4

\* A step that stores nothing, does not finish the file and does not go on
\* inside a frame.
AnswersOK(A) ==
  \A i \in 1 .. Len(A) :
    /\ A[i].type \in {"ZACK", "ZRPOS"} => A[i].pos <= rcv.pos
    /\ A[i].type = "ZSKIP" => ~rcv.wanted
    /\ A[i].type = "ZRINIT" => rcv.pc = "session"
    /\ A[i].type = "ZRPOS" => Len(A) = 1 /\ rcv'.pc # "session"

LEMMA NothingStored ==
  ASSUME IInv, LineShortened, UNCHANGED <<snd, disk>>, faults' \in Nat,
         NEW A \in Seq(ToSenderFrame), toSender' = toSender \o A, AnswersOK(A),
         rcv' \in ReceiverState, rcv'.pc # "data",
         rcv'.pos = rcv.pos, rcv'.wanted = rcv.wanted,
         rcv'.pc = "session" => rcv.pc = "session",
         rcv'.pc = "header" => rcv.result = "none" /\ rcv.wanted,
         rcv'.result = rcv.result
  PROVE  IInv'
  <1>1. /\ rcv \in ReceiverState /\ rcv.pos \in Nat /\ disk' \in Seq(Nat)
    BY Typed DEF ReceiverState
  <1>2. ReceiverBounded' /\ Intact'
    BY <1>1 DEF IInv, ReceiverBounded, Intact, ReceiverState
  <1>3. HeadFits' /\ ReceiverFits'
    BY DEF HeadFits, ReceiverFits
  <1>4. ReceiverStepOK(A)
    BY <1>1, <1>2, <1>3 DEF ReceiverStepOK, LineShortened, AnswersOK
  <1> QED  BY <1>4, ReceiverStep

\* The receiver gives up the file, whatever its disk now holds after pos.
LEMMA FailStep ==
  ASSUME IInv, LineShortened, UNCHANGED snd, faults' \in Nat,
         rcv.pc \in {"header", "data"}, disk' \in Seq(Nat), Intact',
         NEW zferr, zferr = << >> \/ \E p \in Nat : zferr = <<Header("ZFERR", p)>>,
         Fail(zferr)
  PROVE  IInv'
  <1> DEFINE z == Header("ZFIN", 0)
             A == zferr \o <<z>>
  <1>1. PICK p \in Nat : zferr = << >> \/ zferr = <<Header("ZFERR", p)>>
    OBVIOUS
  <1> DEFINE e == Header("ZFERR", p)
  <1>2. /\ z \in ToSenderFrame /\ z.type = "ZFIN"
        /\ e \in ToSenderFrame /\ e.type = "ZFERR"
    BY HeaderFields DEF Replies
  <1>3. A = <<z>> \/ A = <<e, z>>
    <2>1. << >> \o <<z>> = <<z>> /\ <<e>> \o <<z>> = <<e, z>>
      <3> HIDE DEF e, z
      <3> QED  BY <1>2, Joined
    <2> QED  BY <1>1, <2>1
  <1>4. toSender' = toSender \o A
    BY DEF Fail, Answer
  <1> HIDE DEF z, e, A
  <1>5. A \in Seq(ToSenderFrame) /\ \A i \in 1 .. Len(A) : A[i].type \in {"ZFERR", "ZFIN"}
    <2>1. CASE A = <<z>>
      BY <1>2, <2>1
    <2>2. CASE A = <<e, z>>
      BY <1>2, <2>2
    <2> QED  BY <1>3, <2>1, <2>2
  <1>6. rcv \in ReceiverState /\ rcv.pos \in Nat /\ rcv.result = "none"
    BY Typed DEF ReceiverState, IInv, ReceiverBounded
  <1>7. /\ rcv' \in ReceiverState /\ rcv'.pc = "closed" /\ rcv'.result = "failed"
        /\ rcv'.pos = rcv.pos /\ rcv'.wanted = rcv.wanted
    BY <1>6 DEF Fail, ReceiverState
  <1>8. ReceiverBounded' /\ HeadFits' /\ ReceiverFits'
    BY <1>6, <1>7 DEF IInv, ReceiverBounded, HeadFits, ReceiverFits
  <1>9. ReceiverStepOK(A)
    <2>1. \A i \in 1 .. Len(A) :
            A[i].type \notin {"ZACK", "ZRPOS", "ZSKIP", "ZRINIT"}
      BY <1>5
    <2> QED  BY <1>4, <1>6, <1>7, <1>8, <2>1 DEF ReceiverStepOK, LineShortened
  <1> QED  BY <1>5, <1>9, ReceiverStep

LEMMA AskAgainStep ==
  ASSUME IInv, LineShortened, UNCHANGED <<snd, disk>>, faults' \in Nat,
         rcv.pc \in {"header", "data"}, AskAgain
  PROVE  IInv'
  <1>1. /\ rcv \in ReceiverState /\ rcv.pos \in Nat /\ rcv.errors + 1 \in Nat
        /\ rcv.result = "none" /\ rcv.wanted /\ disk \in Seq(Nat) /\ Intact
    BY Typed DEF ReceiverState, IInv, ReceiverBounded
  <1>2. CASE rcv.errors + 1 < MaxRetries
    <2> DEFINE A == <<Header("ZRPOS", rcv.pos)>>
    <2>1. /\ A \in Seq(ToSenderFrame) /\ Len(A) = 1
          /\ A[1].type = "ZRPOS" /\ A[1].pos = rcv.pos
      BY <1>1, HeaderFields, OneHeader DEF Replies
    <2>2. /\ toSender' = toSender \o A
          /\ rcv' = [rcv EXCEPT !.pc = "header", !.errors = rcv.errors + 1]
      BY <1>2 DEF AskAgain, Answer
    <2> HIDE DEF A
    <2>3. rcv' \in ReceiverState
      BY <1>1, <2>2 DEF ReceiverState
    <2>4. /\ rcv'.pc = "header" /\ rcv'.pos = rcv.pos /\ rcv'.wanted = rcv.wanted
          /\ rcv'.result = rcv.result
      BY <1>1, <2>2 DEF ReceiverState
    <2>5. AnswersOK(A)
      BY <1>1, <2>1, <2>4 DEF AnswersOK
    <2> QED  BY <1>1, <2>1, <2>2, <2>3, <2>4, <2>5, NothingStored
  <1>3. CASE ~(rcv.errors + 1 < MaxRetries)
    <2>1. Fail(zferr0) /\ zferr0 = <<Header("ZFERR", 0)>> /\ 0 \in Nat
      BY <1>3 DEF AskAgain, zferr0
    <2>2. Intact' /\ disk' \in Seq(Nat)
      BY <1>1 DEF Intact
    <2> QED  BY <2>1, <2>2, FailStep
  <1> QED  BY <1>2, <1>3

----------------------------------------------------------------------------
(* The receiver's actions.                                                 *)

\* A single answer, or none, in a step that stores nothing.
LEMMA OneAnswer ==
  ASSUME IInv, NEW t \in Replies, NEW p \in Nat
  PROVE  LET A == <<Header(t, p)>>
         IN  /\ A \in Seq(ToSenderFrame) /\ Len(A) = 1
             /\ \A i \in 1 .. Len(A) : A[i].type = t /\ A[i].pos = p
             /\ << >> \in Seq(ToSenderFrame) /\ Len(<< >>) = 0
  <1> DEFINE h == Header(t, p)
  <1>1. h \in ToSenderFrame /\ h.type = t /\ h.pos = p
    BY HeaderFields
  <1> HIDE DEF h
  <1>2. /\ <<h>> \in Seq(ToSenderFrame) /\ Len(<<h>>) = 1 /\ <<h>>[1] = h
        /\ << >> \in Seq(ToSenderFrame) /\ Len(<< >>) = 0
    BY <1>1, OneHeader
  <1>3. \A i \in 1 .. Len(<<h>>) : <<h>>[i].type = t /\ <<h>>[i].pos = p
    BY <1>1, <1>2
  <1> QED  BY <1>2, <1>3 DEF h

LEMMA AnswerOnly ==
  ASSUME IInv, LineShortened, UNCHANGED <<snd, disk>>, faults' \in Nat,
         NEW t \in Replies \ {"ZACK"}, NEW p \in Nat,
         Answer(<<Header(t, p)>>) \/ Answer(<< >>) \/ UNCHANGED toSender,
         t = "ZRPOS" => p <= rcv.pos /\ rcv'.pc # "session",
         t = "ZSKIP" => ~rcv.wanted, t = "ZRINIT" => rcv.pc = "session",
         rcv' \in ReceiverState, rcv'.pc # "data",
         rcv'.pos = rcv.pos, rcv'.wanted = rcv.wanted,
         rcv'.pc = "session" => rcv.pc = "session",
         rcv'.pc = "header" => rcv.result = "none" /\ rcv.wanted,
         rcv'.result = rcv.result
  PROVE  IInv'
  <1>1. CASE Answer(<<Header(t, p)>>)
    <2> DEFINE A == <<Header(t, p)>>
    <2>1. /\ A \in Seq(ToSenderFrame) /\ Len(A) = 1
          /\ \A i \in 1 .. Len(A) : A[i].type = t /\ A[i].pos = p
      BY OneAnswer
    <2>2. toSender' = toSender \o A
      BY <1>1 DEF Answer
    <2> HIDE DEF A
    <2>3. AnswersOK(A)
      BY <2>1 DEF AnswersOK
    <2> QED  BY <2>1, <2>2, <2>3, NothingStored
  <1>2. CASE Answer(<< >>) \/ UNCHANGED toSender
    <2> DEFINE A == << >>
    <2>1. A \in Seq(ToSenderFrame) /\ Len(A) = 0 /\ toSender' = toSender \o A
      BY <1>2, Typed, NothingAdded DEF Answer
    <2> HIDE DEF A
    <2>2. AnswersOK(A)
      BY <2>1 DEF AnswersOK
    <2> QED  BY <2>1, <2>2, NothingStored
  <1> QED  BY <1>1, <1>2

Quiescent == UNCHANGED snd /\ faults' \in Nat

LEMMA ReceiverTyped ==
  ASSUME IInv
  PROVE  /\ rcv \in ReceiverState /\ rcv.pos \in Nat /\ rcv.attempts + 1 \in Nat
         /\ rcv.wanted \in BOOLEAN /\ disk \in Seq(Nat) /\ Len(disk) \in Nat
         /\ rcv.pc # "closed" => rcv.pos = Len(disk)
         /\ rcv.pc \in {"header", "data"} => rcv.result = "none" /\ rcv.wanted
  BY Typed DEF ReceiverState, IInv, ReceiverBounded

LEMMA OfferedStep ==
  ASSUME IInv, Quiescent, Offered
  PROVE  IInv'
  <1>1. /\ rcv.pc = "session" /\ TakeRequest({"ZFILE"}) /\ UNCHANGED <<snd, disk>>
        /\ faults' \in Nat
    BY DEF Offered, Quiescent
  <1>2. LineShortened /\ toReceiver # << >> /\ toReceiver[1].type = "ZFILE"
    BY <1>1, RequestTaken
  <1>3. rcv.result = "none"
    <2>1. 1 \in 1 .. Len(toReceiver)
      BY <1>2, Typed
    <2> QED
      BY <1>1, <1>2, <2>1, Typed DEF IInv, OffersFirst, ReceiverBounded, ReceiverState
  <1>4. /\ rcv \in ReceiverState /\ rcv.pos \in Nat /\ rcv.wanted \in BOOLEAN
        /\ rcv.pos = Len(disk)
    BY <1>1, ReceiverTyped
  <1>5. CASE rcv.wanted
    <2>1. /\ rcv' = [rcv EXCEPT !.pc = "header", !.pos = rcv.pos,
                                !.errors = 0, !.attempts = 0]
          /\ Answer(<<Header("ZRPOS", rcv.pos)>>)
      BY <1>4, <1>5 DEF Offered
    <2>2. rcv' \in ReceiverState
      BY <1>4, <2>1 DEF ReceiverState
    <2>3. /\ rcv'.pc = "header" /\ rcv'.pos = rcv.pos
          /\ rcv'.wanted = rcv.wanted /\ rcv'.result = rcv.result
      BY <1>4, <2>1 DEF ReceiverState
    <2>4. "ZRPOS" \in Replies \ {"ZACK"}
      BY DEF Replies
    <2>5. /\ rcv.pos <= rcv.pos /\ rcv'.pc # "session" /\ rcv'.pc # "data"
          /\ "ZRPOS" # "ZSKIP" /\ "ZRPOS" # "ZRINIT"
      BY <1>4, <2>3
    <2> QED
      BY <1>1, <1>2, <1>3, <1>4, <1>5, <2>1, <2>2, <2>3, <2>4, <2>5, AnswerOnly
  <1>6. CASE ~rcv.wanted
    <2>1. rcv' = [rcv EXCEPT !.attempts = 0] /\ Answer(<<Header("ZSKIP", 0)>>)
      BY <1>6 DEF Offered
    <2>2. /\ rcv' \in ReceiverState /\ rcv'.pc = "session" /\ rcv'.pos = rcv.pos
          /\ rcv'.wanted = rcv.wanted /\ rcv'.result = rcv.result
      BY <1>1, <1>4, <2>1 DEF ReceiverState
    <2>3. "ZSKIP" \in Replies \ {"ZACK"} /\ 0 \in Nat
      BY DEF Replies
    <2> QED
      BY <1>1, <1>2, <1>3, <1>4, <1>6, <2>1, <2>2, <2>3, AnswerOnly
  <1> QED  BY <1>4, <1>5, <1>6

\* A request answered in the session loop.
LEMMA SessionAnswer ==
  ASSUME IInv, LineShortened, Quiescent, UNCHANGED disk, rcv.pc = "session",
         NEW a \in Nat, rcv' = [rcv EXCEPT !.attempts = a],
         NEW t \in {"ZRINIT", "ZCOMPL", "ZNAK"},
         Answer(<<Header(t, 0)>>) \/ Answer(<< >>)
  PROVE  IInv'
  <1>1. /\ rcv' \in ReceiverState /\ rcv'.pc = "session" /\ rcv'.pos = rcv.pos
        /\ rcv'.wanted = rcv.wanted /\ rcv'.result = rcv.result
    BY ReceiverTyped DEF ReceiverState
  <1>2. t \in Replies \ {"ZACK"} /\ t # "ZRPOS" /\ t # "ZSKIP" /\ 0 \in Nat
    BY DEF Replies
  <1>3. UNCHANGED <<snd, disk>> /\ faults' \in Nat
    BY DEF Quiescent
  <1> QED  BY <1>1, <1>2, <1>3, AnswerOnly

LEMMA CloseStep ==
  ASSUME IInv, LineShortened, Quiescent, UNCHANGED disk, rcv.pc = "session",
         rcv' = [rcv EXCEPT !.pc = "closed"], Answer(<<Header("ZFIN", 0)>>)
  PROVE  IInv'
  <1>1. /\ rcv' \in ReceiverState /\ rcv'.pc = "closed" /\ rcv'.pos = rcv.pos
        /\ rcv'.wanted = rcv.wanted /\ rcv'.result = rcv.result
    BY ReceiverTyped DEF ReceiverState
  <1>2. "ZFIN" \in Replies \ {"ZACK"} /\ 0 \in Nat
    BY DEF Replies
  <1>3. UNCHANGED <<snd, disk>> /\ faults' \in Nat
    BY DEF Quiescent
  <1> QED  BY <1>1, <1>2, <1>3, AnswerOnly

\* A frame leaves the line and nothing comes of it.
LEMMA IgnoredStep ==
  ASSUME IInv, LineShortened, Quiescent, UNCHANGED <<rcv, disk, toSender>>,
         rcv.pc # "data"
  PROVE  IInv'
  <1>1. rcv' \in ReceiverState /\ rcv' = rcv
        /\ (rcv.pc = "header" => rcv.result = "none" /\ rcv.wanted)
    BY ReceiverTyped
  <1>2. "ZNAK" \in Replies \ {"ZACK"} /\ 0 \in Nat
    BY DEF Replies
  <1>3. UNCHANGED <<snd, disk>> /\ faults' \in Nat
    BY DEF Quiescent
  <1> QED  BY <1>1, <1>2, <1>3, AnswerOnly

LEMMA SessionSteps ==
  ASSUME IInv, Quiescent, Invited \/ Unexpected \/ SessionTimeout \/ Closed
  PROVE  IInv'
  <1>1. 0 \in Nat /\ rcv.attempts + 1 \in Nat
    BY ReceiverTyped
  <1>2. CASE Invited
    <2>1. LineShortened
      BY <1>2, RequestTaken DEF Invited
    <2> QED  BY <1>1, <1>2, <2>1, SessionAnswer DEF Invited
  <1>3. CASE Unexpected
    <2>1. LineShortened
      BY <1>3, RequestTaken DEF Unexpected
    <2> QED  BY <1>1, <1>3, <2>1, SessionAnswer DEF Unexpected
  <1>4. CASE SessionTimeout
    <2>1. LineShortened
      BY <1>4, LineKept DEF SessionTimeout
    <2>2. CASE rcv.attempts + 1 < MaxRetries
      BY <1>1, <1>4, <2>1, <2>2, SessionAnswer DEF SessionTimeout
    <2>3. CASE ~(rcv.attempts + 1 < MaxRetries)
      BY <1>4, <2>1, <2>3, CloseStep DEF SessionTimeout
    <2> QED  BY <2>2, <2>3
  <1>5. CASE Closed
    <2>1. LineShortened
      BY <1>5, RequestTaken DEF Closed
    <2> QED  BY <1>5, <2>1, CloseStep DEF Closed
  <1> QED  BY <1>2, <1>3, <1>4, <1>5

LEMMA OfferTornStep ==
  ASSUME IInv, UNCHANGED snd, OfferTorn
  PROVE  IInv'
  <1>1. Quiescent
    BY FaultCounted DEF OfferTorn, Faults, Quiescent
  <1>2. LineShortened /\ 0 \in Nat
    BY RequestTaken DEF OfferTorn
  <1>3. Answer(<<Header("ZNAK", 0)>>) \/ Answer(<< >>)
    BY DEF OfferTorn
  <1> QED  BY <1>1, <1>2, <1>3, SessionAnswer DEF OfferTorn

LEMMA IgnoredSteps ==
  ASSUME IInv, Quiescent, Garbage \/ Drained \/ EofMisplaced
  PROVE  IInv'
  <1>1. LineShortened
    <2>1. CASE Garbage
      BY <2>1, RequestTaken DEF Garbage
    <2>2. CASE Drained
      BY <2>2, LinePurged DEF Drained
    <2>3. CASE EofMisplaced
      BY <2>3, RequestTaken DEF EofMisplaced
    <2> QED  BY <2>1, <2>2, <2>3
  <1>2. UNCHANGED <<rcv, disk, toSender>> /\ rcv.pc # "data"
    BY DEF Garbage, Drained, EofMisplaced
  <1> QED  BY <1>1, <1>2, IgnoredStep

LEMMA OfferedAgainStep ==
  ASSUME IInv, Quiescent, OfferedAgain
  PROVE  IInv'
  <1>1. LineShortened /\ rcv.pc = "header" /\ UNCHANGED <<rcv, disk>>
        /\ Answer(<<Header("ZRPOS", rcv.pos)>>)
    BY RequestTaken DEF OfferedAgain
  <1>2. /\ rcv' \in ReceiverState /\ rcv' = rcv /\ rcv.result = "none" /\ rcv.wanted
        /\ rcv.pos \in Nat /\ rcv.pos <= rcv.pos
    BY <1>1, ReceiverTyped
  <1>3. "ZRPOS" \in Replies \ {"ZACK"}
    BY DEF Replies
  <1>4. /\ UNCHANGED <<snd, disk>> /\ faults' \in Nat
        /\ rcv'.pc # "session" /\ rcv'.pc # "data"
        /\ "ZRPOS" # "ZSKIP" /\ "ZRPOS" # "ZRINIT"
    BY <1>1 DEF Quiescent
  <1> QED  BY <1>1, <1>2, <1>3, <1>4, AnswerOnly

\* Whatever makes the receiver ask for its position again.
LEMMA AskAgainSteps ==
  ASSUME IInv, Quiescent,
         \/ FrameMisplaced \/ HeaderTimeout \/ Invalid \/ DataTimeout
  PROVE  IInv'
  <1>1. UNCHANGED <<snd, disk>> /\ faults' \in Nat
    BY DEF Quiescent, FrameMisplaced, HeaderTimeout, Invalid, DataTimeout
  <1>2. rcv.pc \in {"header", "data"} /\ AskAgain
    BY DEF FrameMisplaced, HeaderTimeout, Invalid, DataTimeout
  <1>3. LineShortened
    <2>1. CASE UNCHANGED toReceiver
      BY <2>1, LineKept
    <2>2. CASE ~UNCHANGED toReceiver
      BY <2>2, LinePurged DEF FrameMisplaced, HeaderTimeout, Invalid, DataTimeout
    <2> QED  BY <2>1, <2>2
  <1> QED  BY <1>1, <1>2, <1>3, AskAgainStep

LEMMA DamagedArrivalStep ==
  ASSUME IInv, UNCHANGED snd, DamagedArrival
  PROVE  IInv'
  <1>1. Quiescent
    BY FaultCounted DEF DamagedArrival, Faults, Quiescent
  <1>2. LineShortened
    BY LinePurged DEF DamagedArrival
  <1>3. UNCHANGED <<snd, disk>> /\ faults' \in Nat
    BY <1>1 DEF DamagedArrival, Quiescent
  <1>4. CASE rcv.pc = "data"
    BY <1>2, <1>3, <1>4, AskAgainStep DEF DamagedArrival
  <1>5. CASE rcv.pc # "data"
    BY <1>1, <1>2, <1>5, IgnoredStep DEF DamagedArrival
  <1> QED  BY <1>4, <1>5

\* Whatever makes the receiver give up the file, its disk unchanged.
LEMMA AbandonedStep ==
  ASSUME IInv, UNCHANGED snd, (Quiescent /\ Abandoned) \/ CloseFails
  PROVE  IInv'
  <1>1. faults' \in Nat
    BY FaultCounted DEF CloseFails, Faults, Quiescent
  <1>2. LineShortened /\ rcv.pc = "header" /\ UNCHANGED disk
    BY RequestTaken DEF Abandoned, CloseFails
  <1>3. Intact' /\ disk' \in Seq(Nat) /\ rcv.pos \in Nat /\ 0 \in Nat
    BY <1>2, ReceiverTyped DEF IInv, Intact
  <1>4. CASE Abandoned
    <2>1. Fail(<< >>) \/ Fail(<<Header("ZFERR", 0)>>)
      BY <1>4 DEF Abandoned, zferr0
    <2> QED  BY <1>1, <1>2, <1>3, <2>1, FailStep
  <1>5. CASE CloseFails
    <2>1. Fail(<<Header("ZFERR", rcv.pos)>>)
      BY <1>5 DEF CloseFails
    <2> QED  BY <1>1, <1>2, <1>3, <2>1, FailStep
  <1> QED  BY <1>4, <1>5

LEMMA FrameOpenedStep ==
  ASSUME IInv, Quiescent, FrameOpened
  PROVE  IInv'
  <1>1. /\ rcv.pc = "header" /\ request.pos = rcv.pos /\ UNCHANGED <<disk, toSender>>
        /\ rcv' = [rcv EXCEPT !.pc = "data"]
    BY DEF FrameOpened
  <1>2. /\ LineShortened /\ request = toReceiver[1] /\ request.type = "ZDATA"
        /\ toReceiver' # << >> =>
             toReceiver'[1] = toReceiver[2] /\ 1 \in 1 .. Len(toReceiver) - 1
        /\ toReceiver' = << >> => Len(toReceiver) = 1
        /\ toReceiver # << >>
    BY RequestTaken DEF FrameOpened
  <1>3. /\ rcv \in ReceiverState /\ rcv.pos \in Nat /\ rcv.result = "none"
        /\ rcv.wanted /\ rcv.pos = Len(disk) /\ disk \in Seq(Nat)
    BY <1>1, ReceiverTyped
  <1>4. /\ rcv' \in ReceiverState /\ rcv'.pc = "data" /\ rcv'.pos = rcv.pos
        /\ rcv'.wanted = rcv.wanted /\ rcv'.result = rcv.result
    BY <1>1, <1>3 DEF ReceiverState
  <1>5. HeadFits'
    <2> SUFFICES ASSUME toReceiver' # << >>, toReceiver'[1].type = "DATA"
                 PROVE  toReceiver'[1].pos = rcv.pos
      BY <1>4 DEF HeadFits
    <2>1. toReceiver'[1] = toReceiver[1 + 1] /\ 1 \in 1 .. Len(toReceiver) - 1
      BY <1>2
    <2>2. Follows(toReceiver[1], toReceiver[1 + 1])
      BY <2>1 DEF IInv, Chained
    <2> QED  BY <1>1, <1>2, <2>1, <2>2 DEF Follows
  <1>6. ReceiverFits'
    <2> SUFFICES ASSUME FrameIsOpen, toReceiver' = << >>
                 PROVE  FALSE
      BY DEF ReceiverFits, FrameIsOpen, Quiescent
    <2>1. toReceiver[1].type = "DATA"
      BY <1>2 DEF IInv, TailFits
    <2> QED  BY <1>2, <2>1
  <1>7. ReceiverBounded' /\ Intact'
    BY <1>1, <1>3, <1>4 DEF IInv, ReceiverBounded, Intact
  <1> DEFINE A == << >>
  <1>8. A \in Seq(ToSenderFrame) /\ Len(A) = 0 /\ toSender' = toSender \o A
    BY <1>1, Typed, NothingAdded
  <1> HIDE DEF A
  <1>9. /\ rcv.pos <= rcv'.pos /\ rcv'.pc # "session" /\ rcv'.result # "succeeded"
        /\ rcv.result # "succeeded" /\ disk' \in Seq(Nat)
        /\ \A i \in 1 .. Len(A) : FALSE
    BY <1>1, <1>3, <1>4, <1>8
  <1>10. ReceiverStepOK(A)
    BY <1>2, <1>4, <1>5, <1>6, <1>7, <1>8, <1>9
       DEF ReceiverStepOK, LineShortened, Quiescent
  <1> QED  BY <1>8, <1>10, ReceiverStep

LEMMA CompletedStep ==
  ASSUME IInv, Quiescent, Completed
  PROVE  IInv'
  <1>1. /\ rcv.pc = "header" /\ request.pos = rcv.pos /\ UNCHANGED disk
        /\ rcv' = [rcv EXCEPT !.pc = "session", !.result = "succeeded",
                              !.attempts = 0]
        /\ Answer(<<Header("ZRINIT", 0)>>)
    BY DEF Completed
  <1>2. /\ LineShortened /\ request = toReceiver[1] /\ request.type = "ZEOF"
        /\ toReceiver # << >>
    BY RequestTaken DEF Completed
  <1>3. /\ rcv \in ReceiverState /\ rcv.pos \in Nat /\ rcv.wanted
        /\ rcv.pos = Len(disk) /\ disk \in Seq(Nat)
    BY <1>1, ReceiverTyped
  <1>4. /\ rcv' \in ReceiverState /\ rcv'.pc = "session" /\ rcv'.pos = rcv.pos
        /\ rcv'.wanted = rcv.wanted /\ rcv'.result = "succeeded"
    BY <1>1, <1>3 DEF ReceiverState
  <1>5. rcv.pos = FileLen
    <2>1. 1 \in 1 .. Len(toReceiver)
      BY <1>2, Typed
    <2> QED  BY <1>1, <1>2, <2>1 DEF IInv, LineBounded
  <1>6. ReceiverBounded' /\ Intact' /\ HeadFits' /\ ReceiverFits'
    BY <1>1, <1>3, <1>4, <1>5
       DEF IInv, ReceiverBounded, Intact, HeadFits, ReceiverFits
  <1> DEFINE A == <<Header("ZRINIT", 0)>>
  <1>7. /\ A \in Seq(ToSenderFrame) /\ \A i \in 1 .. Len(A) : A[i].type = "ZRINIT"
        /\ toSender' = toSender \o A
    <2>1. "ZRINIT" \in Replies /\ 0 \in Nat
      BY DEF Replies
    <2>2. toSender' = toSender \o A
      BY <1>1 DEF Answer
    <2> QED  BY <2>1, <2>2, OneAnswer
  <1> HIDE DEF A
  <1>8. /\ rcv.pos <= rcv'.pos /\ disk' \in Seq(Nat)
        /\ \A i \in 1 .. Len(A) : A[i].type \notin {"ZACK", "ZRPOS", "ZSKIP"}
    BY <1>1, <1>3, <1>4, <1>7
  <1>9. ReceiverStepOK(A)
    BY <1>2, <1>4, <1>6, <1>7, <1>8
       DEF ReceiverStepOK, LineShortened, Quiescent
  <1> QED  BY <1>7, <1>9, ReceiverStep

\* n blocks that continue the disk leave it intact.
LEMMA GrownIntact ==
  ASSUME IInv, NEW n \in Nat, disk' = disk \o Blocks(Len(disk), n)
  PROVE  Intact' /\ disk' \in Seq(Nat) /\ Len(disk') = Len(disk) + n
  <1>1. disk \in Seq(Nat) /\ Len(disk) \in Nat
    BY Typed
  <1>2. /\ Blocks(Len(disk), n) \in Seq(Nat) /\ Len(Blocks(Len(disk), n)) = n
        /\ \A i \in 1 .. n : Blocks(Len(disk), n)[i] = Len(disk) + i - 1
    BY <1>1 DEF Blocks
  <1>3. /\ disk' \in Seq(Nat) /\ Len(disk') = Len(disk) + n
        /\ \A i \in 1 .. Len(disk) : disk'[i] = disk[i]
        /\ \A i \in 1 .. n : disk'[Len(disk) + i] = Len(disk) + i - 1
    BY <1>1, <1>2
  <1>4. Intact'
    <2> SUFFICES ASSUME NEW i \in 1 .. Len(disk')
                 PROVE  disk'[i] = i - 1
      BY DEF Intact
    <2>1. CASE i \in 1 .. Len(disk)
      BY <1>3, <2>1 DEF IInv, Intact
    <2>2. CASE i \notin 1 .. Len(disk)
      <3> DEFINE j == i - Len(disk)
      <3>1. j \in 1 .. n /\ i = Len(disk) + j
        BY <1>1, <1>3, <2>2
      <3> HIDE DEF j
      <3> QED  BY <1>3, <3>1
    <2> QED  BY <2>1, <2>2
  <1> QED  BY <1>3, <1>4

LEMMA StoredStep ==
  ASSUME IInv, Quiescent, Stored
  PROVE  IInv'
  <1> DEFINE n == request.n
             end == request.end
             A == IF end \in {"ZCRCQ", "ZCRCW"}
                  THEN <<Header("ZACK", rcv.pos + n)>> ELSE << >>
  <1>1. /\ rcv.pc = "data" /\ disk' = disk \o Blocks(request.pos, n)
        /\ rcv' = [rcv EXCEPT !.pos = rcv.pos + n, !.errors = 0,
                     !.pc = IF end \in {"ZCRCG", "ZCRCQ"}
                            THEN "data" ELSE "header"]
        /\ toSender' = toSender \o A
    BY DEF Stored, Answer
  <1>2. /\ LineShortened /\ request = toReceiver[1] /\ request \in ToReceiverFrame
        /\ request.type = "DATA" /\ toReceiver # << >>
        /\ toReceiver' # << >> =>
             toReceiver'[1] = toReceiver[2] /\ 1 \in 1 .. Len(toReceiver) - 1
        /\ toReceiver' = << >> => Len(toReceiver) = 1
    BY RequestTaken DEF Stored
  <1>3. /\ rcv \in ReceiverState /\ rcv.pos \in Nat /\ rcv.result = "none"
        /\ rcv.wanted /\ rcv.pos = Len(disk) /\ disk \in Seq(Nat)
    BY <1>1, ReceiverTyped
  <1>4. n \in Nat /\ request.pos = rcv.pos /\ rcv.pos + n <= FileLen
    <2>1. 1 \in 1 .. Len(toReceiver)
      BY <1>2, Typed
    <2> QED
      BY <1>1, <1>2, <2>1 DEF IInv, HeadFits, LineBounded, ToReceiverFrame
  <1>5. /\ rcv' \in ReceiverState /\ rcv'.pos = rcv.pos + n
        /\ rcv'.wanted = rcv.wanted /\ rcv'.result = "none"
        /\ rcv'.pc = IF end \in {"ZCRCG", "ZCRCQ"} THEN "data" ELSE "header"
    <2>1. rcv.pos + n \in Nat
      BY <1>3, <1>4
    <2> HIDE DEF n, end
    <2> QED  BY <1>1, <1>3, <2>1 DEF ReceiverState
  <1>6. Intact' /\ disk' \in Seq(Nat) /\ Len(disk') = rcv.pos + n
    BY <1>1, <1>3, <1>4, GrownIntact
  <1>7. ReceiverBounded'
    BY <1>3, <1>4, <1>5, <1>6 DEF ReceiverBounded
  <1>8. HeadFits'
    <2> SUFFICES ASSUME toReceiver' # << >>, toReceiver'[1].type = "DATA",
                        rcv'.pc = "data"
                 PROVE  toReceiver'[1].pos = rcv'.pos
      BY DEF HeadFits
    <2>1. toReceiver'[1] = toReceiver[1 + 1] /\ 1 \in 1 .. Len(toReceiver) - 1
      BY <1>2
    <2>2. Follows(toReceiver[1], toReceiver[1 + 1])
      BY <2>1 DEF IInv, Chained
    <2> QED  BY <1>2, <1>4, <1>5, <2>1, <2>2 DEF Follows
  <1>9. ReceiverFits'
    <2> SUFFICES ASSUME FrameIsOpen, toReceiver' = << >>
                 PROVE  rcv'.pos = snd.position
      BY DEF ReceiverFits, FrameIsOpen, Quiescent
    <2>1. toReceiver[1].pos + toReceiver[1].n = snd.position
      BY <1>2 DEF IInv, TailFits
    <2> QED  BY <1>2, <1>4, <1>5, <2>1
  <1>10. /\ A \in Seq(ToSenderFrame)
         /\ \A i \in 1 .. Len(A) : A[i].type = "ZACK" /\ A[i].pos = rcv.pos + n
    <2>1. "ZACK" \in Replies /\ rcv.pos + n \in Nat
      BY <1>3, <1>4 DEF Replies
    <2> HIDE DEF n, end
    <2>2. CASE end \in {"ZCRCQ", "ZCRCW"}
      BY <2>1, <2>2, OneAnswer
    <2>3. CASE end \notin {"ZCRCQ", "ZCRCW"}
      <3>1. A = << >>
        BY <2>3
      <3> HIDE DEF A
      <3> QED  BY <3>1
    <2> QED  BY <2>2, <2>3
  <1> HIDE DEF A
  <1>11. /\ rcv'.pc # "session" /\ rcv.pos <= rcv'.pos
         /\ \A i \in 1 .. Len(A) : A[i].pos <= rcv'.pos
    BY <1>3, <1>4, <1>5, <1>10
  <1>12. ReceiverStepOK(A)
    BY <1>1, <1>2, <1>3, <1>5, <1>6, <1>7, <1>8, <1>9, <1>10, <1>11
       DEF ReceiverStepOK, LineShortened, Quiescent
  <1> QED  BY <1>10, <1>12, ReceiverStep

LEMMA StoreFailsStep ==
  ASSUME IInv, UNCHANGED snd, StoreFails
  PROVE  IInv'
  <1>1. faults' \in Nat
    BY FaultCounted DEF StoreFails, Faults
  <1>2. /\ LineShortened /\ request = toReceiver[1] /\ request \in ToReceiverFrame
        /\ request.type = "DATA" /\ toReceiver # << >>
    BY RequestTaken DEF StoreFails
  <1>3. rcv.pc = "data" /\ rcv.pos \in Nat /\ rcv.pos = Len(disk)
    BY ReceiverTyped DEF StoreFails
  <1>4. request.n \in Nat /\ request.pos = rcv.pos
    BY <1>2, <1>3 DEF IInv, HeadFits, ToReceiverFrame
  <1>5. PICK n \in 0 .. request.n - 1 : disk' = disk \o Blocks(request.pos, n)
    BY DEF StoreFails
  <1>6. Intact' /\ disk' \in Seq(Nat)
    BY <1>3, <1>4, <1>5, GrownIntact
  <1>7. Fail(<<Header("ZFERR", rcv.pos)>>)
    BY DEF StoreFails
  <1> QED  BY <1>1, <1>2, <1>3, <1>6, <1>7, FailStep

----------------------------------------------------------------------------
(* The invariant, for every instance.                                      *)

LEMMA InitialInvariant ==
  ASSUME Init
  PROVE  IInv
  <1> DEFINE offer == Header("ZFILE", 0)
             invitation == Header("ZRINIT", 0)
  <1>1. /\ offer \in ToReceiverFrame /\ offer.type = "ZFILE"
        /\ invitation \in ToSenderFrame /\ invitation.type = "ZRINIT"
    BY HeaderFields DEF Replies
  <1>2. PICK m \in 0 .. 2 : toSender = [i \in 1 .. m |-> invitation]
    BY DEF Init
  <1>3. toReceiver = <<offer>> /\ faults = 0 /\ SenderInit /\ ReceiverInit
    BY DEF Init
  <1> HIDE DEF offer, invitation
  <1>4. /\ toReceiver \in Seq(ToReceiverFrame) /\ Len(toReceiver) = 1
        /\ toReceiver[1].type = "ZFILE"
    BY <1>1, <1>3
  <1>5. /\ toSender \in Seq(ToSenderFrame) /\ Len(toSender) = m
        /\ \A i \in 1 .. Len(toSender) : toSender[i].type = "ZRINIT"
    BY <1>1, <1>2
  <1>6. /\ snd \in SenderState /\ snd.pc = "offer" /\ snd.pos = 0
        /\ snd.position = 0 /\ snd.result = "none"
    BY <1>3, SenderAssumption DEF SenderInit, SenderState, SenderPc, SendResult
  <1>7. PICK n \in Partial : disk = Blocks(0, n)
    BY <1>3 DEF ReceiverInit
  <1>8. /\ n \in Nat /\ n <= FileLen /\ disk \in Seq(Nat) /\ Len(disk) = n
        /\ \A i \in 1 .. n : disk[i] = i - 1
    BY <1>7, TransferAssumption, SenderAssumption DEF Blocks
  <1>9. /\ rcv \in ReceiverState /\ rcv.pc = "session" /\ rcv.result = "none"
        /\ rcv.pos = Len(disk)
    BY <1>3, <1>8 DEF ReceiverInit, ReceiverState
  <1>10. TypeOK
    BY <1>3, <1>4, <1>5, <1>6, <1>8, <1>9
       DEF TypeOK, LineTypeOK, SenderTypeOK, ReceiverTypeOK
  <1>11. \A i \in 1 .. Len(toReceiver) : toReceiver[i].type = "ZFILE"
    BY <1>4
  <1>12. Chained /\ HeadFits /\ TailFits /\ ReceiverFits /\ LineBounded
    BY <1>4, <1>6, <1>9, <1>11
       DEF Chained, HeadFits, TailFits, ReceiverFits, LineBounded, FrameIsOpen
  <1>13. SenderBounded
    BY <1>6, SenderAssumption DEF SenderBounded, Streaming
  <1>14. ReceiverBounded /\ Intact /\ Complete /\ AcknowledgedIsStored
    BY <1>6, <1>8, <1>9 DEF ReceiverBounded, Intact, Complete, AcknowledgedIsStored
  <1>15. AnswersTrue
    BY <1>5 DEF AnswersTrue
  <1>16. OffersFirst
    BY <1>9, <1>11 DEF OffersFirst
  <1>17. InvitationsOld
    BY <1>5, <1>6 DEF InvitationsOld, Streaming
  <1> QED
    BY <1>10, <1>12, <1>13, <1>14, <1>15, <1>16, <1>17 DEF IInv

LEMMA SenderNextStep ==
  ASSUME IInv, SenderNext
  PROVE  IInv'
  <1>1. Untouched
    BY FaultCounted DEF SenderNext, BySender, receiverVars, Untouched
  <1> QED
    BY <1>1, OfferWaitsStep, OfferSkippedStep, OfferAcceptedStep, OfferRefusedStep,
       SendSubpacketStep, NothingHeardStep, AcknowledgedStep, SynchronousAckStep,
       RepositionRequestedStep, RefusedStep, EndedStep, FinishedStep,
       FinishAcknowledgedStep
    DEF SenderNext

LEMMA ReceiverNextStep ==
  ASSUME IInv, ReceiverNext
  PROVE  IInv'
  <1>1. Quiescent
    BY FaultCounted DEF ReceiverNext, ByReceiver, Quiescent
  <1> QED
    BY <1>1, OfferedStep, SessionSteps, IgnoredSteps, FrameOpenedStep,
       AskAgainSteps, CompletedStep, OfferedAgainStep, AbandonedStep, StoredStep
    DEF ReceiverNext, Quiescent

LEMMA TimersStep ==
  ASSUME IInv, Timers
  PROVE  IInv'
  <1>1. faults' \in Nat
    BY FaultCounted DEF Timers
  <1>2. CASE (OfferTimeout \/ StreamTimeout \/ FinishTimeout) /\ UNCHANGED receiverVars
    BY <1>1, <1>2, OfferTimeoutStep, StreamTimeoutStep, FinishTimeoutStep
       DEF receiverVars, Untouched
  <1>3. CASE (SessionTimeout \/ HeaderTimeout \/ DataTimeout) /\ UNCHANGED snd
    BY <1>1, <1>3, SessionSteps, AskAgainSteps DEF Quiescent
  <1> QED  BY <1>2, <1>3 DEF Timers

LEMMA EnvironmentStep ==
  ASSUME IInv, Environment
  PROVE  IInv'
  BY ReplyDamagedStep, DamagedArrivalStep, OfferTornStep, AbandonedStep,
     StoreFailsStep, ReadFailsStep
  DEF Environment, receiverVars

LEMMA StutterStep ==
  ASSUME IInv, UNCHANGED vars
  PROVE  IInv'
  BY DEF vars, IInv, TypeOK, LineTypeOK, SenderTypeOK, ReceiverTypeOK, Chained,
     HeadFits, TailFits, ReceiverFits, LineBounded, SenderBounded, ReceiverBounded,
     AnswersTrue, OffersFirst, InvitationsOld, Intact, Complete,
     AcknowledgedIsStored, FrameIsOpen, Streaming

LEMMA Inductive ==
  ASSUME IInv, [Next]_vars
  PROVE  IInv'
  <1>1. CASE Next
    BY <1>1, SenderNextStep, ReceiverNextStep, TimersStep, EnvironmentStep,
       StutterStep
       DEF Next, Terminated
  <1>2. CASE UNCHANGED vars
    BY <1>2, StutterStep
  <1> QED  BY <1>1, <1>2

\* The inductive invariant holds in every reachable state of every instance.
THEOREM Invariance == Spec => []IInv
  <1>1. Init => IInv
    BY InitialInvariant
  <1>2. IInv /\ [Next]_vars => IInv'
    BY Inductive
  <1> QED  BY <1>1, <1>2, PTL DEF Spec

\* Every variable keeps its type, whatever the sizes, the window, the buffer
\* and the number of faults.
THEOREM TypeCorrect == Spec => []TypeOK
  <1>1. IInv => TypeOK
    BY DEF IInv
  <1> QED  BY <1>1, Invariance, PTL

\* No damage, purge, retransmission, late timer or failing disk ever puts a
\* block where the sender's file has another.
THEOREM FileIntact == Spec => []Intact
  <1>1. IInv => Intact
    BY DEF IInv
  <1> QED  BY <1>1, Invariance, PTL

\* A reported file is whole, and reported by both.
THEOREM FileComplete == Spec => []Complete
  <1>1. IInv => Complete
    BY DEF IInv
  <1> QED  BY <1>1, Invariance, PTL

\* The sender never skips or takes as acknowledged what is not stored.
THEOREM NothingSkipped == Spec => []AcknowledgedIsStored
  <1>1. IInv => AcknowledgedIsStored
    BY DEF IInv
  <1> QED  BY <1>1, Invariance, PTL

LEMMA WindowKept ==
  ASSUME IInv
  PROVE  WithinWindow
  <1> SUFFICES ASSUME Streaming
               PROVE  /\ window_enabled => snd.position - rcv.pos <= Window
                      /\ RecvBuffer # 0 => snd.position - rcv.pos <= RecvBuffer
    BY DEF WithinWindow, Streaming
  <1>1. /\ snd.position \in Nat /\ snd.acknowledged \in Nat /\ rcv.pos \in Nat
        /\ snd.segment_sent \in Nat /\ Window \in Nat /\ RecvBuffer \in Nat
    BY Typed, SenderAssumption DEF SenderState, ReceiverState
  <1>2. /\ snd.position <= rcv.pos + snd.segment_sent
        /\ RecvBuffer # 0 => snd.segment_sent <= RecvBuffer
        /\ window_enabled => snd.position - snd.acknowledged <= Window
    BY DEF IInv, SenderBounded
  <1>3. snd.acknowledged <= rcv.pos
    BY DEF IInv, AcknowledgedIsStored, Streaming
  <1> QED  BY <1>1, <1>2, <1>3

\* Neither the -w window nor the buffer a receiver announces is ever exceeded.
THEOREM WindowRespected == Spec => []WithinWindow
  BY WindowKept, Invariance, PTL

----------------------------------------------------------------------------
(* The transfer implements Copy.                                           *)

\* How a step of the sender changes what it reports.
ReportOK ==
  \/ snd'.result = snd.result
  \/ /\ snd.pc # "done"
     /\ snd'.result = "skipped" =>
          toSender # << >> /\ toSender[1].type = "ZSKIP"

LEMMA ResumeReports ==
  ASSUME IInv, NEW s \in SenderState, s.result = snd.result, snd.pc # "done",
         Resume(s)
  PROVE  ReportOK
  <1>1. CASE s.attempts < MaxRetries
    BY <1>1, ZenonT(60) DEF Resume, StreamFrom, SenderState, ReportOK
  <1>2. CASE ~(s.attempts < MaxRetries)
    <2>1. snd'.result = "failed"
      BY <1>2 DEF Resume, SenderState
    <2> QED  BY <2>1 DEF ReportOK
  <1> QED  BY <1>1, <1>2

LEMMA StartAgainReports ==
  ASSUME IInv, snd.pc # "done", StartAgain
  PROVE  ReportOK
  <1> DEFINE a == AccountAttempt(snd)
             s == reduce_subpacket_size(a)
  <1>1. snd \in SenderState /\ 0 \in Nat
    BY Typed
  <1>2. a \in SenderState /\ a.result = snd.result
    BY <1>1, AccountAttemptType, AccountKeeps
  <1> HIDE DEF a
  <1>3. s \in SenderState /\ s.result = snd.result
    BY <1>2, ReduceType, ReduceKeeps
  <1>4. Resume(s)
    BY DEF StartAgain, a
  <1> HIDE DEF s
  <1> QED  BY <1>3, <1>4, ResumeReports

LEMMA RepositionReports ==
  ASSUME IInv, snd.pc # "done", NEW p \in Nat,
         LET a == [AccountRequest(snd, p) EXCEPT !.pos = p]
         IN  Resume(a) \/ Resume(reduce_subpacket_size(a))
  PROVE  ReportOK
  <1> DEFINE q == AccountRequest(snd, p)
             a == [q EXCEPT !.pos = p]
             s == reduce_subpacket_size(a)
  <1>1. q \in SenderState /\ q.result = snd.result
    BY Typed, AccountRequestType, AccountKeeps
  <1> HIDE DEF q
  <1>2. a \in SenderState /\ a.result = snd.result
    BY <1>1 DEF SenderState
  <1> HIDE DEF a
  <1>3. s \in SenderState /\ s.result = snd.result
    BY <1>2, ReduceType, ReduceKeeps
  <1>4. Resume(a) \/ Resume(s)
    BY DEF a, q
  <1> HIDE DEF s
  <1> QED  BY <1>2, <1>3, <1>4, ResumeReports

LEMMA ReturnReports ==
  ASSUME IInv, snd.pc # "done", NEW r, Return(r),
         r = "skipped" => toSender # << >> /\ toSender[1].type = "ZSKIP"
  PROVE  ReportOK
  <1>1. snd'.result = r
    BY Typed DEF Return, SenderState
  <1> QED  BY <1>1 DEF ReportOK

LEMMA AgainReports ==
  ASSUME IInv, snd.pc # "done", OfferAgain \/ FinishAgain
  PROVE  ReportOK
  <1>1. CASE Return("failed")
    BY <1>1, ReturnReports
  <1>2. CASE ~Return("failed")
    BY <1>2, Typed DEF OfferAgain, FinishAgain, SenderState, ReportOK
  <1> QED  BY <1>1, <1>2

LEMMA SenderReports ==
  ASSUME IInv,
         \/ SenderNext \/ OfferTimeout \/ StreamTimeout \/ FinishTimeout \/ ReadFails
  PROVE  ReportOK
  <1>1. snd \in SenderState
    BY Typed
  <1>2. \A types : TakeReply(types) =>
          toSender # << >> /\ reply = toSender[1] /\ reply.pos \in Nat
    BY AnswerTaken, Typed, HeadAndTail DEF TakeReply, reply
  <1>3. CASE \/ OfferWaits \/ NothingHeard \/ Acknowledged \/ OfferAccepted
             \/ SendSubpacket
    <2>1. CASE OfferWaits
      BY <1>1, <2>1 DEF OfferWaits, SenderState, ReportOK
    <2>2. CASE NothingHeard
      <3> DEFINE s == increase_subpacket_size(snd)
      <3>1. s \in SenderState /\ s.result = snd.result
        BY <1>1, IncreaseType, IncreaseKeeps
      <3>2. snd' = [s EXCEPT !.pc = "stream"]
        BY <2>2 DEF NothingHeard
      <3> HIDE DEF s
      <3> QED  BY <3>1, <3>2 DEF SenderState, ReportOK
    <2>3. CASE Acknowledged
      BY <1>1, <2>3 DEF Acknowledged, SenderState, ReportOK
    <2>4. CASE OfferAccepted
      BY <1>1, <2>4 DEF OfferAccepted, StreamFrom, SenderState, ReportOK
    <2>5. CASE SendSubpacket
      BY <1>1, <2>5 DEF SendSubpacket, SenderState, ReportOK
    <2> QED  BY <1>3, <2>1, <2>2, <2>3, <2>4, <2>5
  <1>4. CASE SynchronousAck
    <2> DEFINE s == increase_subpacket_size(snd)
               acked == [s EXCEPT !.acknowledged = snd.position,
                                  !.last_ack_request = snd.position,
                                  !.frame_open = FALSE, !.segment_sent = 0,
                                  !.synchronize_recovery = FALSE]
    <2>1. s \in SenderState /\ s.result = snd.result
      BY <1>1, IncreaseType, IncreaseKeeps
    <2>2. \/ snd' = snd \/ snd' = [acked EXCEPT !.pc = "eof"]
          \/ snd' = [acked EXCEPT !.pc = "stream"]
      BY <1>4 DEF SynchronousAck
    <2> HIDE DEF s
    <2> QED  BY <2>1, <2>2, ZenonT(60) DEF SenderState, ReportOK
  <1>5. CASE OfferSkipped
    BY <1>2, <1>5, ReturnReports DEF OfferSkipped, TakeReply
  <1>6. CASE OfferRefused \/ OfferTimeout \/ FinishAcknowledged \/ FinishTimeout
    BY <1>6, AgainReports DEF OfferRefused, OfferTimeout, FinishAcknowledged, FinishTimeout
  <1>7. CASE Refused \/ StreamTimeout
    BY <1>7, StartAgainReports
    DEF Refused, StreamTimeout, Interrupting, Listening
  <1>8. CASE RepositionRequested \/ FinishRepositioned
    BY <1>2, <1>8, RepositionReports
    DEF RepositionRequested, FinishRepositioned, Interrupting, Listening
  <1>9. CASE StreamEnded \/ FinishEnded
    <2>1. \E types : TakeReply(types)
      BY <1>9 DEF StreamEnded, FinishEnded
    <2>2. Return(IF reply.type = "ZSKIP" THEN "skipped" ELSE "failed")
      BY <1>9 DEF StreamEnded, FinishEnded
    <2>3. snd.pc # "done"
      BY <1>9 DEF StreamEnded, FinishEnded, Interrupting, Listening
    <2> QED  BY <1>2, <2>1, <2>2, <2>3, ReturnReports
  <1>10. CASE Finished
    BY <1>10, ReturnReports DEF Finished
  <1>11. CASE ReadFails
    BY <1>1, <1>11 DEF ReadFails, CanStream, SenderState, ReportOK
  <1> QED
    BY <1>3, <1>4, <1>5, <1>6, <1>7, <1>8, <1>9, <1>10, <1>11 DEF SenderNext

\* How a step of the receiver changes what it has committed and reports.
CommitOK ==
  \/ rcv'.pos = rcv.pos /\ rcv'.result = rcv.result
  \/ rcv.result = "none" /\ rcv'.result = "none" /\ rcv.pos <= rcv'.pos
  \/ rcv.result = "none" /\ rcv'.pos = rcv.pos

ReceiverActs ==
  \/ ReceiverNext \/ SessionTimeout \/ HeaderTimeout \/ DataTimeout
  \/ DamagedArrival \/ OfferTorn \/ CloseFails \/ StoreFails

LEMMA ReceiverCommits ==
  ASSUME IInv, ReceiverActs
  PROVE  CommitOK
  <1>1. /\ rcv \in ReceiverState /\ rcv.pos \in Nat
        /\ rcv.pc \in {"header", "data"} => rcv.result = "none"
        /\ rcv.pc = "session" => rcv.pos = Len(disk)
    BY Typed DEF IInv, ReceiverBounded, ReceiverState
  <1>2. ASSUME rcv.pc \in {"header", "data"},
               AskAgain \/ \E zferr : Fail(zferr)
        PROVE  CommitOK
    BY <1>1, <1>2 DEF AskAgain, Fail, ReceiverState, CommitOK
  <1>3. CASE Offered
    BY <1>1, <1>3 DEF Offered, ReceiverState, CommitOK
  <1>4. CASE \/ Invited \/ Unexpected \/ Closed \/ SessionTimeout \/ OfferTorn
    BY <1>1, <1>4
    DEF Invited, Unexpected, Closed, SessionTimeout, OfferTorn, ReceiverState, CommitOK
  <1>5. CASE Garbage \/ Drained \/ EofMisplaced \/ OfferedAgain
    BY <1>5 DEF Garbage, Drained, EofMisplaced, OfferedAgain, CommitOK
  <1>6. CASE FrameOpened
    BY <1>1, <1>6 DEF FrameOpened, ReceiverState, CommitOK
  <1>7. CASE Completed
    BY <1>1, <1>7 DEF Completed, ReceiverState, CommitOK
  <1>8. CASE FrameMisplaced \/ Invalid \/ HeaderTimeout \/ DataTimeout
    BY <1>2, <1>8 DEF FrameMisplaced, Invalid, HeaderTimeout, DataTimeout
  <1>9. CASE Abandoned \/ CloseFails \/ StoreFails
    BY <1>2, <1>9 DEF Abandoned, CloseFails, StoreFails
  <1>10. CASE Stored
    <2>1. rcv.result = "none" /\ request.n \in Nat
      <3>1. request.type = "DATA" /\ request \in ToReceiverFrame
        BY <1>10, RequestTaken DEF Stored
      <3> QED  BY <1>1, <1>10, <3>1 DEF Stored, ToReceiverFrame
    <2>2. rcv'.pos = rcv.pos + request.n /\ rcv'.result = "none"
      BY <1>1, <1>10, <2>1 DEF Stored, ReceiverState
    <2> QED  BY <1>1, <2>1, <2>2 DEF CommitOK
  <1>11. CASE DamagedArrival
    BY <1>1, <1>2, <1>11 DEF DamagedArrival, CommitOK
  <1> QED
    BY <1>3, <1>4, <1>5, <1>6, <1>7, <1>8, <1>9, <1>10, <1>11
    DEF ReceiverActs, ReceiverNext

LEMMA StepImplemented ==
  ASSUME IInv, IInv', [Next]_vars
  PROVE  [Promise!CopyNext]_(Promise!copyVars)
  <1>1. /\ rcv.pos \in Nat /\ rcv'.pos \in Nat /\ rcv'.pos <= FileLen
        /\ rcv'.result = "succeeded" => rcv'.pos = FileLen
        /\ rcv'.result \in {"none", "succeeded", "failed"}
        /\ FileLen \in Nat
    BY SenderAssumption
    DEF IInv, TypeOK, ReceiverTypeOK, ReceiverState, ReceiverBounded
  <1>2. /\ snd.pc # "done" => snd.result = "none"
        /\ snd'.result \in SendResult
        /\ snd'.result = "succeeded" => rcv'.result = "succeeded"
    BY DEF IInv, TypeOK, SenderTypeOK, SenderState, SenderBounded, Complete
  <1>3. toSender # << >> /\ toSender[1].type = "ZSKIP" => rcv.result = "none"
    <2>1. toSender # << >> => 1 \in 1 .. Len(toSender)
      BY Typed
    <2> QED  BY <2>1 DEF IInv, AnswersTrue, ReceiverBounded
  <1>4. CASE ReceiverActs /\ UNCHANGED snd
    <2>1. CommitOK
      BY <1>4, ReceiverCommits
    <2>2. CASE rcv'.pos = rcv.pos /\ rcv'.result = rcv.result
      BY <1>4, <2>2 DEF Promise!copyVars
    <2>3. CASE rcv.result = "none" /\ rcv'.result = "none" /\ rcv.pos < rcv'.pos
      BY <1>1, <1>4, <2>3 DEF Promise!Grow, Promise!CopyNext
    <2>4. CASE rcv.result = "none" /\ rcv'.pos = rcv.pos
      <3>1. CASE rcv'.result = "succeeded"
        BY <1>1, <1>4, <2>4, <3>1 DEF Promise!Deliver, Promise!CopyNext
      <3>2. CASE rcv'.result = "failed"
        BY <1>4, <2>4, <3>2 DEF Promise!GiveUp, Promise!CopyNext
      <3> QED  BY <1>1, <2>2, <2>4, <3>1, <3>2
    <2> QED  BY <1>1, <2>1, <2>2, <2>3, <2>4 DEF CommitOK
  <1>5. CASE UNCHANGED rcv /\ ReportOK
    <2>1. CASE snd'.result = snd.result
      BY <1>5, <2>1 DEF Promise!copyVars
    <2>2. CASE snd'.result # snd.result
      <3>1. /\ snd.result = "none"
            /\ snd'.result \in {"succeeded", "skipped", "failed"}
            /\ snd'.result = "skipped" => rcv.result = "none"
            /\ snd'.result = "succeeded" => rcv.result = "succeeded"
        BY <1>2, <1>3, <1>5, <2>2 DEF ReportOK, SendResult
      <3> QED  BY <1>5, <3>1 DEF Promise!Report, Promise!CopyNext
    <2> QED  BY <2>1, <2>2
  <1>6. CASE UNCHANGED <<rcv, snd>>
    BY <1>6 DEF Promise!copyVars
  <1>7. \/ ReceiverActs /\ UNCHANGED snd
        \/ UNCHANGED rcv /\ ReportOK
        \/ UNCHANGED <<rcv, snd>>
    BY SenderReports
    DEF Next, SenderNext, ReceiverNext, Timers, Environment, Terminated, BySender,
        ByReceiver, receiverVars, ReplyDamaged, ReceiverActs, vars
  <1> QED  BY <1>4, <1>5, <1>6, <1>7

LEMMA InitImplemented ==
  ASSUME Init
  PROVE  Promise!CopyInit
  <1>1. IInv
    BY InitialInvariant
  <1>2. /\ snd.result = "none" /\ rcv.result = "none"
        /\ rcv.pos \in Nat /\ rcv.pos <= FileLen /\ FileLen \in Nat
    BY <1>1, Typed, SenderAssumption
    DEF Init, SenderInit, ReceiverInit, IInv, ReceiverBounded, ReceiverState
  <1> QED  BY <1>2 DEF Promise!CopyInit

\* The two programs and the line between them do what Copy promises: the
\* committed part only grows, a delivery is whole and final, and the sender
\* reports success after it, or a skip only when nothing was delivered.
THEOREM Refinement == Spec => PromiseKept
  <1>1. Init => Promise!CopyInit
    BY InitImplemented
  <1>2. IInv /\ IInv' /\ [Next]_vars => [Promise!CopyNext]_(Promise!copyVars)
    BY StepImplemented
  <1> QED
    BY <1>1, <1>2, Invariance, PTL DEF Spec, PromiseKept, Promise!CopySpec
=============================================================================
