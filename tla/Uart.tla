-------------------------------- MODULE Uart --------------------------------
(***************************************************************************)
(* The DOS driver of a 16550 UART (dos/uart.c): an interrupt routine and    *)
(* the program share a ring of received bytes, the flow-control byte that    *)
(* waits to be sent, and the transmit interrupt.  What runs between          *)
(* _disable() and _enable() is one step; everything else may be interrupted. *)
(* Bytes are numbered in the order the peer sent them since the driver was   *)
(* last purged; a byte of flow control has the number of the one before it.  *)
(***************************************************************************)
EXTENDS Integers, Sequences

CONSTANTS
  RING_SIZE, RING_HIGH, RING_LOW,
  Trigger,   \* received bytes in the UART that raise an interrupt
  Lag,       \* bytes the peer still sends after it read XOFF or lost CTS
  MaxSent    \* bound: how many bytes the peer sends between two purges

\* Above the high mark there is room for what arrives until the peer stops: the
\* bytes in its UART, four byte times in which an XOFF waits to be sent (behind two
\* bytes in the transmitter and one more of the program), and the peer's lag.
ASSUME UartAssumption ==
  /\ RING_SIZE \in Nat \ {0} /\ RING_HIGH \in Nat /\ RING_LOW \in Nat
  /\ RING_LOW < RING_HIGH
  /\ Trigger \in Nat \ {0} /\ Lag \in Nat /\ MaxSent \in Nat
  /\ RING_HIGH + Trigger + Lag + 4 <= RING_SIZE

VARIABLES
  flow,      \* the flow control that was selected: xon_flow, hardware_flow
  ring, head, tail, error, tx_paused, pending_flow,   \* struct uart_runtime
  ier_tx,    \* the transmit interrupt is enabled
  rx, tx,    \* the bytes in the UART, received and to be sent
  rts,       \* MCR_RTS
  program,   \* where uart_read, uart_write or uart_flush is
  read,      \* the number of the last byte the program was given
  peer       \* the other end of the line

queueVars == <<ring, head, tail, error, tx_paused>>
deviceVars == <<pending_flow, ier_tx, tx, rts>>
vars == <<flow, queueVars, deviceVars, rx, program, read, peer>>

xon_flow == "xon" \in flow
hardware_flow == "hardware" \in flow

Byte == 0 .. MaxSent

Flow == {"XON", "XOFF"}

TypeOK ==
  /\ flow \subseteq {"xon", "hardware"}
  /\ ring \in [0 .. RING_SIZE - 1 -> Byte]
  /\ head \in 0 .. RING_SIZE - 1 /\ tail \in 0 .. RING_SIZE - 1
  /\ error \in BOOLEAN /\ tx_paused \in BOOLEAN /\ ier_tx \in BOOLEAN
  /\ pending_flow \in Flow \cup {"none"}
  /\ rx \in Seq(Byte \X (Flow \cup {"data"})) /\ Len(rx) <= Trigger
  /\ tx \in Seq(Flow \cup {"data"}) /\ Len(tx) <= 2
  /\ rts \in BOOLEAN /\ read \in Byte
  /\ program \in {"idle", "checked", "wait", "ready", "flow", "go", "flush"}
  /\ peer \in [sent : Byte, paused : BOOLEAN, lag : 0 .. Lag]

\* uart_init
Init ==
  /\ flow \in SUBSET {"xon", "hardware"}
  /\ ring = [i \in 0 .. RING_SIZE - 1 |-> 0] /\ head = 0 /\ tail = 0
  /\ error = FALSE /\ tx_paused = FALSE /\ pending_flow = "none"
  /\ ier_tx = FALSE /\ rx = << >> /\ tx = << >> /\ rts = TRUE
  /\ program = "idle" /\ read = 0
  /\ peer = [sent |-> 0, paused |-> FALSE, lag |-> Lag]

----------------------------------------------------------------------------
(* Flow control.  d is the state it changes, as the code finds it.         *)

Device == [pending |-> pending_flow, ier_tx |-> ier_tx, tx |-> tx, rts |-> rts]

SetDevice(d) ==
  /\ pending_flow' = d.pending /\ ier_tx' = d.ier_tx
  /\ tx' = d.tx /\ rts' = d.rts

\* Mutant of schedule_flow: the transmit interrupt is not enabled.
schedule_unarmed(d, byte) ==
  IF ~xon_flow \/ d.pending = byte THEN d
  ELSE IF d.tx = << >> THEN [d EXCEPT !.tx = <<byte>>, !.pending = "none"]
  ELSE [d EXCEPT !.pending = byte]

\* The byte is sent at once if the transmitter is empty, and by its interrupt
\* otherwise.
schedule_flow(d, byte) ==
  IF ~xon_flow \/ d.pending = byte THEN d
  ELSE IF d.tx = << >> THEN [d EXCEPT !.tx = <<byte>>, !.pending = "none"]
  ELSE [d EXCEPT !.pending = byte, !.ier_tx = TRUE]

ring_count(h, t) == (h - t) % RING_SIZE

update_receive_flow(d, count) ==
  CASE count >= RING_HIGH ->
         [schedule_flow(d, "XOFF") EXCEPT !.rts = @ /\ ~hardware_flow]
    [] count <= RING_LOW ->
         [schedule_flow(d, "XON") EXCEPT !.rts = @ \/ hardware_flow]
    [] OTHER -> d

----------------------------------------------------------------------------
(* The interrupt routine.                                                  *)

\* Mutant of receive_byte: a byte the ring has no room for is dropped unseen.
receive_byte_unflagged(q, b) ==
  LET next == (q.head + 1) % RING_SIZE
  IN  CASE b[2] \in Flow -> [q EXCEPT !.paused = b[2] = "XOFF"]
        [] b[2] = "data" /\ next = tail -> q
        [] OTHER -> [q EXCEPT !.ring[q.head] = b[1], !.head = next]

\* The queue q after the byte b: flow control, an overrun, or a byte stored.
receive_byte(q, b) ==
  LET next == (q.head + 1) % RING_SIZE
  IN  CASE b[2] \in Flow -> [q EXCEPT !.paused = b[2] = "XOFF"]
        [] b[2] = "data" /\ next = tail -> [q EXCEPT !.error = TRUE]
        [] OTHER -> [q EXCEPT !.ring[q.head] = b[1], !.head = next]

\* The queue after the first n bytes the UART holds.
received[n \in 0 .. Len(rx)] ==
  IF n = 0 THEN [ring |-> ring, head |-> head, error |-> error, paused |-> tx_paused]
  ELSE receive_byte(received[n - 1], rx[n])

\* Every byte the UART holds is received, then the flow control is brought up
\* to date.
ReceiveInterrupt ==
  /\ rx # << >>
  /\ LET q == received[Len(rx)]
     IN  /\ ring' = q.ring /\ head' = q.head
         /\ error' = q.error /\ tx_paused' = q.paused
         /\ SetDevice(update_receive_flow(Device, ring_count(q.head, tail)))
  /\ rx' = << >>
  /\ UNCHANGED <<flow, tail, program, read, peer>>

TransmitInterrupt ==
  /\ ier_tx /\ tx = << >>
  /\ tx' = IF pending_flow = "none" THEN << >> ELSE <<pending_flow>>
  /\ pending_flow' = "none"
  /\ ier_tx' = FALSE
  /\ UNCHANGED <<flow, queueVars, rts, rx, program, read, peer>>

----------------------------------------------------------------------------
(* The line, and the UART's side of it.                                    *)

Stopped == peer.paused \/ (hardware_flow /\ ~rts)

\* An interrupt is served within the time of a byte.
Served == Len(rx) < Trigger /\ ~(ier_tx /\ tx = << >>)

\* In the time of a byte the UART sends one, which reaches the peer, and the
\* peer sends one or none: of data if it may, or of flow control.
ByteTime ==
  /\ Served
  /\ tx' = IF tx = << >> THEN tx ELSE Tail(tx)
  /\ LET paused == IF tx # << >> /\ tx[1] \in Flow THEN tx[1] = "XOFF"
                   ELSE peer.paused
         sent == peer.sent + 1
         rested == IF Stopped THEN peer.lag ELSE Lag
     IN  \/ /\ rx' = rx
            /\ peer' = [peer EXCEPT !.paused = paused, !.lag = rested]
         \/ /\ xon_flow
            /\ \E f \in Flow : rx' = Append(rx, <<peer.sent, f>>)
            /\ peer' = [peer EXCEPT !.paused = paused, !.lag = rested]
         \/ /\ Stopped => peer.lag > 0
            /\ sent <= MaxSent
            /\ rx' = Append(rx, <<sent, "data">>)
            /\ peer' = [sent |-> sent, paused |-> paused,
                        lag |-> IF Stopped THEN peer.lag - 1 ELSE Lag]
  /\ UNCHANGED <<flow, queueVars, pending_flow, ier_tx, rts, program, read>>

\* The UART reports an overrun or a framing error of its own; what that does
\* to the data is left open, as nothing is promised of it until the next purge.
LineError ==
  /\ ~error
  /\ error' = TRUE
  /\ UNCHANGED <<flow, ring, head, tail, tx_paused, deviceVars, rx, program, read, peer>>

----------------------------------------------------------------------------
(* The program.                                                            *)

\* uart_read finds no error ...
ReadChecked ==
  /\ program = "idle"
  /\ ~error
  /\ program' = "checked"
  /\ UNCHANGED <<flow, queueVars, deviceVars, rx, read, peer>>

\* ... and takes what the ring holds, up to its capacity, and is done, or
\* finds it empty and looks again or times out.
ReadTaken ==
  /\ program = "checked"
  /\ \E count \in 0 .. ring_count(head, tail) :
       /\ count = 0 => head = tail
       /\ tail' = (tail + count) % RING_SIZE
       /\ read' = IF count = 0 THEN read ELSE ring[(tail + count - 1) % RING_SIZE]
  /\ SetDevice(update_receive_flow(Device, ring_count(head, tail')))
  /\ program' = "idle"
  /\ UNCHANGED <<flow, ring, head, error, tx_paused, rx, peer>>

\* The ring and the UART's received bytes are gone: the next byte is the first.
Emptied ==
  /\ head' = 0 /\ tail' = 0 /\ error' = FALSE /\ rx' = << >>
  /\ ring' = [i \in 0 .. RING_SIZE - 1 |-> 0]
  /\ read' = 0 /\ peer' = [peer EXCEPT !.sent = 0]

\* Mutant of Purged: the flow control is left as it is.
PurgedSilently ==
  /\ program = "idle"
  /\ Emptied
  /\ tx' = << >>
  /\ UNCHANGED <<flow, tx_paused, pending_flow, ier_tx, rts, program>>

\* uart_purge empties the ring and both buffers of the UART.
Purged ==
  /\ program = "idle"
  /\ Emptied
  /\ SetDevice(update_receive_flow([Device EXCEPT !.tx = << >>], 0))
  /\ UNCHANGED <<flow, tx_paused, program>>

\* The peer's CTS may hold the transmitter for as long as it likes.
transmit_ready == ~tx_paused /\ tx = << >>

AtProgram(from, to) ==
  /\ program = from /\ program' = to
  /\ UNCHANGED <<flow, queueVars, rx, read, peer>>

WriteBegun == AtProgram("idle", "wait") /\ UNCHANGED deviceVars

WriteFails ==
  /\ error
  /\ ~transmit_ready \/ hardware_flow
  /\ AtProgram("wait", "idle") /\ UNCHANGED deviceVars

\* Mutant of WriteReady: the transmitter is not waited for.
WriteReadyAtOnce ==
  /\ ~tx_paused
  /\ AtProgram("wait", "ready") \/ AtProgram("flow", "go")
  /\ UNCHANGED deviceVars

WriteReady ==
  /\ transmit_ready
  /\ AtProgram("wait", "ready") \/ AtProgram("flow", "go")
  /\ UNCHANGED deviceVars

\* A waiting flow-control byte goes first, and the transmitter is waited for
\* once more ...
WriteFlow ==
  /\ pending_flow # "none"
  /\ tx' = Append(tx, pending_flow)
  /\ pending_flow' = "none"
  /\ AtProgram("ready", "flow")
  /\ UNCHANGED <<ier_tx, rts>>

\* ... then the byte goes, whatever waits by then.
WriteByte ==
  /\ \/ AtProgram("ready", "idle") /\ pending_flow = "none"
     \/ AtProgram("go", "idle")
  /\ tx' = Append(tx, "data")
  /\ UNCHANGED <<pending_flow, ier_tx, rts>>

FlushBegun == AtProgram("idle", "flush") /\ UNCHANGED deviceVars

Flushed ==
  /\ pending_flow = "none" /\ tx = << >>
  /\ AtProgram("flush", "idle") /\ UNCHANGED deviceVars

Next ==
  \/ ReceiveInterrupt \/ TransmitInterrupt \/ ByteTime \/ LineError
  \/ ReadChecked \/ ReadTaken \/ Purged
  \/ WriteBegun \/ WriteFails \/ WriteReady \/ WriteFlow \/ WriteByte
  \/ FlushBegun \/ Flushed

\* The hardware is fair: interrupts are served, and the line's clock, which
\* waits for nothing but them, does not stop however often the program purges.
Spec ==
  /\ Init /\ [][Next]_vars
  /\ WF_vars(ReceiveInterrupt) /\ WF_vars(TransmitInterrupt) /\ SF_vars(ByteTime)

----------------------------------------------------------------------------
(* Properties.                                                             *)

\* The number of the i-th byte in the UART, or of the last one in the ring.
Number(i) == IF i = 0 THEN read + ring_count(head, tail) ELSE rx[i][1]

\* As long as no error is reported no byte is lost, doubled or out of order:
\* what the program was given, the ring and the UART follow one another up to
\* the last byte the peer sent (receive_byte, uart_read, uart_purge).
Contiguous ==
  ~error =>
    /\ \A i \in 1 .. ring_count(head, tail) : ring[(tail + i - 1) % RING_SIZE] = read + i
    /\ \A i \in 1 .. Len(rx) :
         Number(i) = IF rx[i][2] = "data" THEN Number(i - 1) + 1 ELSE Number(i - 1)
    /\ Number(Len(rx)) = peer.sent

\* The last thing the peer was told, or is about to be told.
Told ==
  IF pending_flow # "none" THEN pending_flow
  ELSE IF \E i \in 1 .. Len(tx) : tx[i] \in Flow
       THEN tx[CHOOSE i \in 1 .. Len(tx) :
                 tx[i] \in Flow /\ \A j \in i + 1 .. Len(tx) : tx[j] \notin Flow]
  ELSE IF peer.paused THEN "XOFF" ELSE "XON"

\* The peer is held back only while the ring is above its low mark: neither a
\* read nor a purge between two interrupts leaves a peer that waits for an XON
\* or for RTS (update_receive_flow after uart_read and uart_purge).
HeldBackOnlyWhenFull ==
  (xon_flow /\ Told = "XOFF") \/ (hardware_flow /\ ~rts)
    => ring_count(head, tail) > RING_LOW

\* With flow control the ring never overruns, however the program writes,
\* waits and flushes (schedule_flow, the high mark of the ring).
NoOverrun ==
  [][ReceiveInterrupt /\ flow # {} => error' = error]_vars

\* A peer that was told to stop is told to go on once the ring is low, whatever
\* the program does then (schedule_flow and the transmit interrupt).
PeerGoesOn ==
  (peer.paused /\ ring_count(head, tail) <= RING_LOW) ~> ~peer.paused
=============================================================================
