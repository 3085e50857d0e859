-------------------------------- MODULE Line --------------------------------
(***************************************************************************)
(* The serial line between zmtx and zmrx, as the two programs meet it       *)
(* through tx_header, tx_data, rx_header, rx_data and rx_purge: two ordered *)
(* streams of frames, one in each direction.  The line neither reorders nor *)
(* repeats.  It may damage a frame, which its CRC always reveals, and it    *)
(* may be late: a read then times out although an answer is on its way.     *)
(***************************************************************************)
EXTENDS Integers, Sequences

CONSTANTS
  FaultKinds,   \* the faults that may happen: a subset of Faults
  MaxFaults,    \* bound: how many faults one behaviour holds
  MaxRetries    \* MAX_RETRIES, which both programs define as 10

VARIABLES
  toReceiver,   \* frames sent by zmtx and not yet read by zmrx
  toSender,     \* frames sent by zmrx and not yet read by zmtx
  faults        \* faults so far

lineVars == <<toReceiver, toSender, faults>>

\* "damage": a frame fails its CRC.  "late": a timer beats an answer that is
\* on its way.  "disk": a local read or write fails.
Faults == {"damage", "late", "disk"}

ASSUME LineAssumption ==
  FaultKinds \subseteq Faults /\ MaxFaults \in Nat /\ MaxRetries \in Nat \ {0}

FrameEnds == {"ZCRCE", "ZCRCG", "ZCRCQ", "ZCRCW"}

\* A header carries its type and position.  A data subpacket ("DATA") is
\* abstracted to the file positions of the bytes in it, n bytes from pos, and
\* the way it ends.  ZFILE stands for the header and its information
\* subpacket.
Header(type, pos) == [type |-> type, pos |-> pos, n |-> 0, end |-> "none"]

Subpacket(pos, n, end) == [type |-> "DATA", pos |-> pos, n |-> n, end |-> end]

ToReceiverFrame ==
  [type : {"ZFILE", "ZDATA", "ZEOF", "ZFERR", "ZFIN"},
   pos : Nat, n : {0}, end : {"none"}]
  \cup [type : {"DATA"}, pos : Nat, n : Nat, end : FrameEnds]

ToSenderFrame ==
  [type : {"ZRINIT", "ZRPOS", "ZACK", "ZNAK", "ZSKIP", "ZCOMPL", "ZFERR", "ZFIN"},
   pos : Nat, n : {0}, end : {"none"}]

LineTypeOK ==
  /\ toReceiver \in Seq(ToReceiverFrame)
  /\ toSender \in Seq(ToSenderFrame)
  /\ faults \in Nat

Fault(kind) ==
  /\ kind \in FaultKinds
  /\ faults < MaxFaults
  /\ faults' = faults + 1

\* rx_purge throws away what has arrived: any number of the frames that
\* follow in s, since the others are still on the line.
Purged(s) == {SubSeq(s, k, Len(s)) : k \in 1 .. Len(s) + 1}
=============================================================================
