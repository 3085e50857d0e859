-------------------------------- MODULE Copy --------------------------------
(***************************************************************************)
(* What a file transfer promises, without the protocol: the copy grows from *)
(* what was there to the whole file and never shrinks; the receiver reports *)
(* it only when it is whole, and nothing is stored after it reported; the   *)
(* sender reports success only after the receiver did.  Either may give up. *)
(***************************************************************************)
EXTENDS Naturals

CONSTANT Length

VARIABLES
  copied,    \* how much of the file the receiver has committed
  receiver,  \* what the receiver reports
  sender     \* what the sender reports

copyVars == <<copied, receiver, sender>>

CopyInit == copied \in 0 .. Length /\ receiver = "none" /\ sender = "none"

Grow ==
  /\ receiver = "none"
  /\ copied' \in copied + 1 .. Length
  /\ UNCHANGED <<receiver, sender>>

Deliver ==
  /\ receiver = "none" /\ copied = Length
  /\ receiver' = "succeeded"
  /\ UNCHANGED <<copied, sender>>

GiveUp ==
  /\ receiver = "none"
  /\ receiver' = "failed"
  /\ UNCHANGED <<copied, sender>>

Report ==
  /\ sender = "none"
  /\ sender' \in {"succeeded", "skipped", "failed"}
  /\ sender' = "succeeded" => receiver = "succeeded"
  /\ sender' = "skipped" => receiver = "none"
  /\ UNCHANGED <<copied, receiver>>

CopyNext == Grow \/ Deliver \/ GiveUp \/ Report

CopySpec == CopyInit /\ [][CopyNext]_copyVars
=============================================================================
