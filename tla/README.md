# zmtx-zmrx: models, checks and proofs

zmtx sends files with ZMODEM, zmrx receives them. This directory holds TLA+
models of the two programs and of the parts below them, TLC configurations that
check the models on small instances, and TLAPS proofs that the transfer of a
file, a session of several, the file at the receiver, the transports and the DOS
driver are correct for every instance; that a peer that gives up is heard, that what
crosses the line may cross it, and that no encoding is used that was not asked for;
and that the fast CRC is the slow one. File names and line numbers refer to `src/`, the
repository.

## 1. The system and its components

| Component | Code | State it keeps | Operations | Modules |
|---|---|---|---|---|
| Sending a file | `zmtx.c`: `send_file`, `send_from` | position, acknowledged position, attempts and two marks of progress, subpacket sizes, open frame, bytes since the last stop | offer, stream a subpacket, read replies, wait for ZACK, recover, finish | `FileSender` |
| Receiving a file's data | `zmrx.c`: `receive_file_data` | position, consecutive errors, the file | frame, subpacket, end, mismatch, purge, timeout, failure | `FileReceiver` |
| The two together | | the line | | `Transfer`, `TransferInv`, `TransferProofs`, `Copy` |
| The session | `main` of both programs | file index, attempts, exit status | contact, invite, offer, skip, close, OO | `Session`, `SessionProofs` |
| File management | `zmrx.c`: `receive_file`, `cleanup` | the file on disk and its date | options, stat, open, store, date, fail | `Destination`, `DestinationProofs` |
| Data subpackets | `zmdm.c`: `tx_data`, `rx_data` | last byte sent; cursor, quotation, run, group, check | encode; decode a byte | `Subpacket`, `Crc`, `CodecProofs`, `RoundTripProofs` |
| Headers and their scan | `zmdm.c`: `tx_*_header`, `rx_header_raw` | the format of the data to come, probe, CANs in a row | encode; decode a byte | `Header`, `FramingProofs` |
| Negotiation | `tx_zrinit`, `parse_zrinit`, `tx_zrpos`, `select_zrpos_encoding` | what each side believes of the other | announce, offer, ask, choose | `Framing`, `FramingProofs` |
| DOS serial driver | `dos/uart.c` | ring, flow control, transmit interrupt | two interrupts, read, write, flush, purge | `Uart`, `UartProofs` |
| Other transports | `posix/`, `win95/`, `dos/fossil.c`, `dos/bios.c`, `cpm/rdrpun.c` | output buffer, deadline | read, write, flush, poll, purge, close | `Transport`, `TransportProofs` |
| Options, reports, tests, tools | | | | not modelled |

How they interact. zmtx and zmrx only share the line: headers and data
subpackets, in order, one stream each way. `send_file` calls `send_from`, which
returns the header that interrupted it; `receive_file` calls
`receive_file_data`, which returns the header that ended the data. Both use
`rx_header`, `rx_data`, `tx_header`, `tx_data` and `rx_purge` of `zmdm.c`,
which reach a transport through the function pointers of `struct zmodem_io`.
Only the DOS driver is concurrent within one program: its interrupt routine
shares the ring and the flow-control byte with the program. zmrx keeps nothing
from one run to the next but the file and its date, and these are what crash
recovery goes by.

What is hard. The two programs run at their own speed, and a header says
neither which file nor which attempt it belongs to, so that a late answer is
read as the answer to something else. Frames are damaged and then purged along
with an unknown part of what follows. All timers are long, unrelated and
restarted by whatever arrives. The window, the receiver's buffer, the size of
subpackets and the ends of frames interact at every boundary. Crash recovery
must tell a partial copy from another file. An interrupt comes between any two
instructions. Five encodings share special bytes with the modem and the abort
sequence, and the two sides learn from each other, over a line that may lose the
answer, which one is in use. A system call takes part of what it is given, is
interrupted, or fails, while a clock wraps. `PROJECT.json` lists these hazards, each at its line.

## 2. The modules

`Line` is the line of `Transfer` and `Session`: `toReceiver` and `toSender`,
sequences of frames, and `faults`. A ZFILE stands for the header and its
information subpacket. A data subpacket is the positions of its blocks in the
sender's file, so that "the right bytes" is "the right positions". The CRC is
taken to reveal every damage. The line neither reorders nor repeats, as a
serial line does not; repetitions come from the programs. A lost frame is one
that is damaged on arrival.

`FileSender` is `send_file` with `send_from` inlined. `snd.pc` says where the
program waits (`offer`, `stream`, `poll`, `ack`, `eof`); the other fields are
the code's variables under their names. One action is one turn of the code from
one read of the line to the next: `SendSubpacket` opens a frame if none is open,
clips the read, chooses the subpacket's end, sends it and, after ZCRCE, goes on
to the first ZEOF as the code does. Between subpackets the code polls: in
`poll` the sender reads what has arrived, or finds nothing (`NothingHeard`),
even if something is on its way.

`FileReceiver` is `receive_file_data` with the branch of `receive_file` around
it and zmrx's session loop. `disk` is what the file holds. The file policy is a
choice made at the start (`wanted`); `Destination` models how it is made.

`Transfer` composes the two. `Copy` is what a transfer promises, without any
protocol, and `PromiseKept` is the refinement. `TransferInv` is the inductive
invariant and `TransferProofs` the proof.

`Session` is both `main` functions over several files. Since `Transfer` has
modelled the data, a file is one subpacket here, or nothing. A data frame
carries the file it was read from, which the program cannot see: this is how
`Unmixed` can tell.

`Destination` is one name on the receiver's disk over many sessions. Blocks
carry the version of the source they come from. The source may be rewritten
between sessions, sessions fail or are killed, and another program may create the
file while zmrx is about to. Dates are seconds, as `st_mtime` is, and nothing is
assumed of the two machines' clocks: whatever is written gets any date of `Dates`,
also one that another file has or had. `coincided` is a history variable that no
guard reads: another program, by rewriting the source or creating the copy, has made
the two dates equal. It ends when the copy is truncated or the source gets another date.

`Crc`, `Subpacket` and `Header` are functions on bytes. `tx_data` and `tx_header`
give the bytes on the line for each format; `rx_data` and `rx_header` take one
byte and a receiver, a record of the fields of `struct zmodem`, of the locals of
the decoders and of their cursor, to the next receiver. One record serves both,
as one `struct zmodem` does: what a header leaves behind is what the next
subpacket is read with. The checks are computed, with the tables of `crctab.c`
given by their entries at the powers of two. Numbers of 32 bits are sequences of
four bytes, as TLC's integers are too narrow.

`Framing` puts both programs around them, for one file: `Offer` with its probe,
`Streamed` and `Synchronized` data and ZEOF of zmtx; the branches of zmrx for
each header and subpacket, one action each, of which `Receive` picks the one
that fits the byte just read. A case fixes the options of both, the line, the
data and the fault. zmtx's retry limits, the window and the growth of subpackets
are `FileSender`'s and are replaced by bounds here; a reply is a header, sent and
read by the same functions, that is lost or arrives whole.

`Transport` is the layer below, for six transports: POSIX, Windows 95 over a
socket and over a communication handle, FOSSIL, BIOS, and CP/M. Bytes carry
their number, so that order and loss can be told. A call goes through `call.pc`:
copying into the buffer and draining it, or checking the clock, waiting, and
taking what came. `Taken` is a system call that takes some of it; `Failed` one
that does not. Time is counted in the finest unit of the clock and passes only
while the program waits. That no call outlasts its wait (`Tick`) is an
assumption on the system: `select` and `Sleep` return when their time is over.
The code that computes these waits is what is checked.

`Uart` is the driver. Code between `_disable` and `_enable`, and an interrupt
routine, are one step each. `ByteTime` is the hardware's step: the UART sends a
byte, the peer reacts and may send one. Bytes are numbered as the peer sends them,
up to `MaxSent`, so that a lost or doubled one can be told.

`DestinationProofs`, `UartProofs` and `SessionProofs` hold the inductive
invariants of their modules and the proofs; `CodecProofs` is about `Crc`, what the
encoders put on a line and how a number is spelt in hexadecimal, and holds the inductions
that the others cite; `FramingProofs` is about `Framing` and the decoders, and
`RoundTripProofs` about encoders and decoders together (section 5).

## 3. What the runs show

Every property of a passing run has a mutant of the code, listed in
`PROJECT.json`, that makes the run fail.

| Run | Instance | What it checks |
|---|---|---|
| `MCWindow` | 9 blocks, subpackets of 1 and 2, window of 8, receiver's buffer of 7, partial copies of 0 and 1, 2 faults of any kind | `IInv`, `AcknowledgedIsStored`, `WithinWindow`, `PromiseKept`, `Terminates` |
| `MCStop` | 6 blocks, subpackets of 1 to 4, a receiver without overlapped input, buffer of 3, 2 damaged or late frames | `TypeOK`, `Intact`, `Complete`, `PromiseKept`, `Terminates`, `Survives` |
| `MCSession` | 3 files, of which the first 0 to 3 are wanted, 3 faults | `TypeOK`, `Unmixed`, `ReportsTrue`, `Terminates` |
| `MCDestination` | lengths 0, 1 and 3, 3 dates, 3 versions of the source, all pairs of options | `TypeOK`, `DateTells`, `Whole`, `Protects` |
| `MCUart` | ring of 12, marks at 5 and 1, 2 bytes to an interrupt, a lag of 1, 12 bytes sent, all kinds of flow control | `TypeOK`, `Contiguous`, `HeldBackOnlyWhenFull`, `NoOverrun`, `PeerGoesOn` |
| `MCFraming` | every class of byte, pairs of special bytes, runs around each limit, checks and positions made of special bytes, all encodings with every escape, all pairs of options, five kinds of fault and four of line | `TypeOK`, `Intact`, `Transparent`, `SafeOnLine`, `AbortHeard`, `Consented`, `Preferred`, `SoonRecovers`, `SlicesAgree` |
| `MCTransport` | 7 bytes through a buffer of 3; waits of 0, 1 and the longest from 19 places of the clock; six transports | `TypeOK`, `Kept`, `OnceInOrder`, `FlushedAll`, `NotEarly`, `NotLate`, `PurgedWhole` |

Bounds, and why they are enough.

- `MaxRetries` is 3 for the code's 10: below three there is no retry after a
  retry, and the code does nothing with the number but compare it.
- Files of 9 and 6 blocks are longer than the window and the buffer, so that
  each fills, is clipped to an odd rest, and opens again: in `MCWindow` the
  buffer of 7 is full before the window of 8 is. `MinBlock`, `BlockLen` and
  `MaxBlock` of 1, 2 and 4 in `MCStop` stand for 128, 1024 and 8192: both halving
  rules and the doubling happen.
- Two faults reach every recovery inside a recovery. Three in `Session`, with
  one subpacket per file, reach every attempt limit with the timers' help.
- `LineCap` is how far the sender runs ahead before the line blocks it: more
  than the frames of one window or segment.
- Three dates and three versions allow a copy that is older or newer than the source or
  has its date by right or by accident, and a version after that accident.
- The ring of 12 keeps the distances that matter: the high mark is below the size by
  what may still arrive (`Trigger`, `Lag` and four byte times, section 5), the low
  mark above empty, and the marks are further apart than what is under way when the
  peer stops: were they not, a ring just emptied would be full again before its XON
  went out, and the peer would not go on. In the code these are 2048, 1536, 512 and
  the UART's 14 bytes. `MaxSent` ends a behaviour after the ring was filled and
  wrapped.
- In `MCFraming` a case has one file of at most 65 bytes, in subpackets of 1, 2
  or 100. Encodings act on a byte and its neighbours, on runs up to 63 and on
  groups of four, and the capacity of 70 is above the longest. One fault is
  enough for what one byte may destroy; faults within recoveries are the matter
  of `MCWindow`, `MCStop` and `MCSession`. `MaxTries` and `MaxAsked` end a
  behaviour after two ZFILE or ZEOF and eight ZRPOS; `SoonRecovers` shows that
  fewer are needed.
- In `MCTransport` a second is two milliseconds, a millisecond two microseconds
  and these two units of the clock, and the tick counter has eight values: every
  carry, borrow and wrap of the computations happens, from every place of the
  clock. Seven bytes fill a buffer of three twice and leave a rest.
- `MCFraming` and `MCTransport` do not check for deadlock: a file and a plan end.

Fairness. `Transfer` and `Session` assume that each program goes on when it can
and that timers end (weak fairness of `SenderNext`, `ReceiverNext`, `Timers`);
nothing is assumed of faults. Timers may end at any time when nothing is on its
way, and by a fault ("late") when something is; that one timer is longer than
another is never used. `Framing` and `Transport` state
safety only. `Uart` assumes that interrupts are served and that the
line's clock does not stop (strong fairness of `ByteTime`, as a program that
purges for ever would otherwise keep it waiting); nothing is assumed of the
program.

What `MCSession` leaves to the next section: with a policy that wants some
files and not others, a stale ZSKIP can be taken for the wrong file, and
`Unmixed` and `ReportsTrue` fail; `MCMixed` and `MCSkip` show how. Under a
policy that wants the first files and none after them (all, none, or those before
the disk is full) they hold: `MCSession` checks it for three files, section 5
proves it for any number.

## 4. Where the code and its words differ

Five runs are expected to end in a violation. The outcome of each was also seen
in zmtx and zmrx, built for POSIX and joined by a pipe that delays or damages
bytes where the trace does.

1. `MCResync`: `zmrx.c:296`, "a later timeout resynchronizes". After one damaged
   ZDATA header zmrx passes over the data and ignores the ZEOF, and the ZEOF that
   zmtx repeats every ten seconds restarts the ten seconds of zmrx; both
   programs fail with status 4. A ZEOF that is only late, after zmrx's ZRPOS, is
   no violation: the frame that was asked for resynchronizes.
2. `MCMixed`: exit status 0 of zmrx means success. After a late ZSKIP, the data
   of the third file are stored under the second file's name.
3. `MCSkip`: exit status 0 of zmtx means success. After two damaged frames a
   file that zmrx wants is counted as skipped and never sent.
4. `MCDefault`: "The default is to protect the destination." An existing file
   is truncated.
5. `MCRecovery`: "set the time (so crash recovery may work)". `receive_file`
   has forgotten the file by then, and the next session truncates the copy.

Differences met while reading, which no run shows:

- `ZMODEM.md:138`: five CANs abort a session. Inside a subpacket in a seven-bit
  format the second one is refused as a bad quotation (`zmdm.c:1438`) and the
  rest purged; after a MobyTurbo header CANs are not counted, not even while the
  next header is looked for; with mark parity a CAN arrives as 0x98 and is not
  one (`zmdm.c:1218` compares all eight bits). `AbortHeard` leaves these out.
- `docs/protocol-state-machine.md:74` describes the scan for a header. After two
  ZPADs that no ZDLE follows, the third byte is not looked at again
  (`zmdm.c:2565-2581`): a stray ZPAD just before `**` ZDLE costs the header.
- The same page says that `rx_header()` "accepts fixed `ZBIN`, `ZHEX`, and
  `ZBIN32` headers" and that "Variable-length and run-length-encoded headers are
  not accepted" (`docs/protocol-state-machine.md:74` and `:82`).
  `rx_header_raw` (`zmdm.c:2540-2705`) accepts both, and the Omen and MobyTurbo
  headers too; `Header` follows the code.
- Flow control between a header's ZPAD and its ZDLE costs the header too, as the
  scan reads raw bytes (`zmdm.c:2562-2573`); everywhere else it is passed over.
  `FlowControl` of `Framing` slips nothing in there.
- CRC16, which is used only for receivers without CRC32, starts at zero and is
  zero again after its own check. Where a subpacket of such a file loses the
  ZDLE before its end, the end, the check and the next subpacket become its data
  and the sum matches (`zmdm.c:1713-1808`). `Intact` of `Framing` is stated for
  CRC32.
- `zmodem_init` sets `want_fcs_32` and nothing resets it (`zmdm.c:96`):
  `tx_bin16_header` is never called, and a receiver without CRC32 gets
  hexadecimal headers.
- Only the first ZRPOS after a ZFILE asks for Pack-7 or MobyTurbo
  (`zmrx.c:222`). When it is lost, the file goes in the other encoding; zmtx
  chooses again only at the next ZFILE, so that both still agree.
- The end of the input is a timeout to `posix_read` (`posix/zmodem_plat.c:179`)
  and an error to `win95_read` (`win95/zmodem_plat.c:182`): a peer that is gone
  ends zmtx and zmrx at once on Windows, and after all their retries on POSIX.
- A write that fails after the buffer was filled once leaves out the rest of its
  bytes, while the buffer keeps what was not sent; what is written next follows
  a gap (`Kept` and `FlushedAll` are stated until then, `OnceInOrder` always).
- The CP/M driver ignores timeouts (`cpm/rdrpun.c:30`): with it every wait of the
  protocol is without end.
- `posix_purge`, `bios_purge`, `bios_flush` and a FOSSIL that takes no byte loop
  as long as the line wants.
- `zmrx.1:35`: `-e` asks that all control characters be escaped. With `-m`,
  DLE, XON and XOFF are sent as they are (`zmdm.c:489-516`). `SafeOnLine`
  leaves MobyTurbo out.
- `dos/uart.c:446`: a purge may throw away the peer's XON; the transmitter then
  stays paused and `uart_write` waits for ever, in its second loop even after an
  error. The same happens when both sides are stopped while both write.
- `dos/uart.c:371`: `uart_read` looks at the error before it disables
  interrupts, and may return bytes from after a gap once.
- zmrx sends its last ZFIN once (`zmrx.c:1240`): if it is damaged, or OO is, a
  session in which every file arrived ends with failures.
- Under `-p` a partial copy that crash recovery accepts is still added to.

## 5. What is proved

### A transfer

`TransferProofs` proves, for every length of the file, every subpacket size,
window, buffer and retry limit that the assumptions of the modules allow, and
any number of faults:

| Theorem | Property |
|---|---|
| `Invariance` | `Spec => []IInv` |
| `TypeCorrect` | `Spec => []TypeOK` |
| `FileIntact` | `Spec => []Intact` |
| `FileComplete` | `Spec => []Complete` |
| `NothingSkipped` | `Spec => []AcknowledgedIsStored` |
| `WindowRespected` | `Spec => []WithinWindow` |
| `Refinement` | `Spec => PromiseKept` |

The assumptions are those of `Line`, `FileSender`, `FileReceiver` and
`Transfer`: sizes are natural numbers, positive where the code never has zero;
a window excludes `-s` and holds at least four of the largest subpackets, which
`main` enforces; a partial copy is no longer than the file. TLC evaluates them
in every run.

The argument. `Intact` is not inductive: that the next subpacket stored is the
right one depends on what is on the line. `IInv` adds, in named parts:

- `Chained`, `HeadFits`, `TailFits`, `ReceiverFits`: each subpacket on the line
  continues the frame before it; the first continues what the receiver inside a
  frame has; the last ends where the sender of an open frame is. A purge drops
  a beginning of the line and the receiver then waits for a header, which keeps
  all four.
- `LineBounded`, `SenderBounded`, `ReceiverBounded`: nothing lies beyond the
  end of the file, ZEOF names exactly the end, and the sender is ahead of the
  receiver by no more than what it sent since it last stopped.
- `AnswersTrue`: no ZACK or ZRPOS on its way names a position the receiver has
  not reached. A stale one can therefore only move the sender back, never over
  a gap.
- `OffersFirst`, `InvitationsOld`: offers precede everything else, and while the
  receiver has not finished no ZRINIT follows a ZRPOS. This is why tolerating
  one stale ZRINIT per ZFILE is safe, and why a ZRINIT after ZEOF is true.

Each action has one step in the proof that `IInv` is preserved, with lemmas for
what appending to the line, taking from it and purging it do to `Chained` and
the bounds. The refinement follows from `IInv` in the first state of each step.

### A transport

`TransportProofs` proves, for every size of the output buffer,
every grain and wrap of the clocks and every plan of calls, arrivals and
failures the assumptions allow:

| Theorem | Statement |
|---|---|
| `Invariance` | `Spec => []TransportInv` |
| `TypeCorrect` | `Spec => []TypeOK` |
| `NothingMisplaced` | `Spec => []Kept` |
| `NothingTwice` | `Spec => []OnceInOrder` |
| `FlushedMeansSent` | `Spec => []FlushedAll` |
| `PatientReads` | `Spec => []NotEarly` |
| `TimelyReads` | `Spec => []NotLate` |
| `PurgesAll` | `Spec => []PurgedWhole` |

Assumed (`TransportAssumption`): sizes and clock rates are positive; a
microsecond divides a second into a whole number of grains; timeouts are below
the wrap of the clock. That last one is what `win95_read` relies on when it
subtracts two values of `GetTickCount`; the wrap is after
49 days, and zmtx and zmrx wait ten seconds at most.

The argument. `TransportInv` has two halves. `Bytes` says how the line, the
buffer and the call that is running divide what was given between them. `Kept`
alone is not inductive: while `posix_write` fills the buffer, empties it and
writes on, what it may still copy depends on where in its loop it stands, which
`Shape` says; after a failure bytes are missing, and only `Growing` (what
follows is newer than all before it) is left to carry `OnceInOrder`. `Queue`
says that input is numbered as it arrives, so that a purge can be asked whether
it left any that is older than itself. `Timing` says how long a wait has
lasted: `Waited` bounds the age of a call that still waits, and `Waits` ties the
end of the `select` or sleep at hand to the moment of the call. An interrupted
wait is asked for again, and without that relation its lengths would add up.

The arithmetic comes first: `set_input_deadline` is exact and carries
its microseconds (`DeadlineExact`), `input_time_remaining` rounds the rest up
by less than one unit and never to zero while there is some (`RemainingExact`),
and a difference of two tick counts is right across the wrap (`ElapsedTicks`).

### The file at the receiver

`DestinationProofs` proves, for every set of lengths the sender's file may have and
of dates, and any number of its versions:

| Theorem | Statement |
|---|---|
| `Invariance` | `Spec => []DestinationInv` |
| `TypeCorrect` | `Spec => []TypeOK` |
| `DatesTell` | `Spec => []DateTells` |
| `ReceivedWhole` | `Spec => Whole` |
| `ProtectedKept` | `Spec => Protects` |

`DatesTell` and `ReceivedWhole` have a premise, `~coincided`: that no other program has
made the dates equal. They say that zmrx does its own part: whatever its
sessions leave behind when they fail, are killed or resume one another, a file with
the sender's date is a beginning of the sender's file, whatever the clocks show; and
that after an accident dates tell again. Without the premise both are false, and
the code has no defence: `zmrx.c:771` compares two dates in seconds and nothing of
the data. A copy that failed keeps the second of its last block (`MCRecovery`, section
4); if the source is then rewritten and gets that same second, by haste or by a clock
that differs, the next session adds the new version's data to the old one's and
reports the mixture as received. The same happens to a file of another origin that has
the sender's date and is no longer. The model has these behaviours. `ProtectedKept`
needs no premise.

The argument. A session adds only to what `receive_file` found to have the
sender's date or to what it has truncated, and the source stays as it is meanwhile:
`Decided` says that what it learnt from `stat` still fits when it opens the file, and that
the copy it adds to is, from the moment it is open, a beginning of the source, unless its
date had deceived; so what ZEOF finds complete is the whole file. A step of another
program makes the dates differ or sets `coincided`. Under `-p` `Decided` says that
`O_EXCL` is set unless the copy is resumed, and a step then only adds at the end.

### The DOS driver

`UartProofs` proves, for every size of the ring, every pair of marks, every
trigger level of the UART and every lag of the peer that the assumption allows:

| Theorem | Statement |
|---|---|
| `Invariance` | `Spec => []UartInv` |
| `TypeCorrect` | `Spec => []TypeOK` |
| `NothingLost` | `Spec => []Contiguous` |
| `HeldBack` | `Spec => []HeldBackOnlyWhenFull` |
| `NeverOverruns` | `Spec => NoOverrun` |

Assumed (`UartAssumption`): the low mark is below the high one, and the ring holds
the high mark, what the UART gathers before it interrupts (`Trigger`), what the peer
still sends after it was told to stop (`Lag`), and four bytes more. The driver has
1536 and 14 of 2048 (`dos/uart.c`), which leaves a peer 494 bytes. The four are the
byte times an XOFF may take: two bytes are in the transmitter, `uart_write` may be
about to send one more, and then it is sent itself.

The argument. `NoOverrun` needs a bound on what may still come. `Stopping` gives
it: while the peer is to be silent, what it has sent and will send until the stop
reaches it is at most `Room` above what the program has read. How much that is
depends on where the XOFF is: still `pending_flow`, in the transmitter behind
other bytes, or read by the peer (`Bounded`); with RTS it is the peer's lag alone.
`Marks` starts the count: when an interrupt leaves the ring at the high mark or
above, the peer has been told. `Transmitter` says what may be in the transmitter at
which point of the program, since `uart_write` looks at `pending_flow` with
interrupts enabled; `Numbers` ties the count of bytes sent to what the ring and the
UART hold. `Contiguous` has to be kept by a loop, `receive_byte` over all the UART
holds: a lemma for the recursive function `received` carries it from byte to byte.

### A session

`SessionProofs` proves, for any number of files and faults:

| Theorem | Statement |
|---|---|
| `TypeCorrect` | `Spec => []TypeOK` |
| `Invariance` | `Prefix /\ Spec => [](TypeInv /\ SessionInv)` |
| `NamesKept` | `Prefix /\ Spec => []Unmixed` |
| `TrueReports` | `Prefix /\ Spec => []ReportsTrue` |

`Prefix` says of `Policies` that zmrx wants the first files and none after them: it
takes them all, none, or those that come before it can store no more. It is a
hypothesis of the theorems and not an assumption of the module, because the two
properties are false without it (`MCMixed` and `MCSkip` of section 4 are the
counterexamples). Types are correct under every policy.

The argument. No frame says which file it belongs to, so `SessionInv` says what
each frame on its way implies about where both programs are:

- `Requests`: what zmrx will read inside a file is of the file zmtx is at, and a
  ZFILE it will accept is that of the file zmtx is at; behind data and ZEOF that
  it will read inside a file there is no such offer.
- `Files`: zmrx is inside no file but the one zmtx is at; once it has received that
  one, nothing on its way is an offer it would accept; and a ZSKIP on its way
  means that zmtx's file is not wanted. The last is where `Prefix` is needed: a
  stale ZSKIP is about an earlier file, and after one that is not wanted there is
  none that is.
- `Contacting`, `Offering`, `Sending`: a ZRPOS that zmtx may take for the answer to
  its offer is that answer, since every stale ZRINIT is before it; and while zmtx
  sends, a ZRINIT on its way says that the file was received, since every ZRPOS is
  before that one. This is why `send_file` may take a ZRINIT after ZEOF for success.
- `Counts`: what zmtx counted so far is what zmrx has.

Each action is one of ten turns, five of each program (waiting, accepting, giving
up, going on, ending; answering, staying in the file, opening, storing,
completing). A turn says only which frames it takes, adds and what it changes; an
action is shown to be a turn, and each turn to keep each part of the invariant.

### A byte stream

`FramingProofs` proves, for every set of cases that the assumption allows:

| Theorem | Statement |
|---|---|
| `AbortIsHeard` | `Spec => []AbortHeard` |
| `TypesHold` | `Spec => []TypeOK` |
| `LineIsSafe` | `Spec => []SafeOnLine` |
| `OnlyByConsent` | `Spec => []Consented` |
| `RepliesAreHeard` | a hexadecimal header is read as it was sent, over each of the four kinds of line |
| `SlicesAlwaysAgree` | `Spec => []SlicesAgree` |

Assumed (`FramingAssumption`): a position has four bytes and the data do not carry
into its second; a subpacket is not empty and the data fit zmrx's buffer; Pack-7,
and a line of seven bits, come with ESC8, as `main` and the user arrange it; a ZFILE
is sent at least once; what a line that strips flow control carried before had
crossed it, and so holds none. The options, the data, what the line carried before, and the
moment at which anything goes wrong are arbitrary. `AbortIsHeard` needs only that the
line is one of the four kinds.

A peer that gives up. `AbortHeard` speaks of the end, when the line is empty; `HeardInv`
says what leads there. `LiveInv` says of a zmrx that has not ended that it has
counted fewer than five CANs and that, where it waits for a header, it is the
header's decoder that reads. `Dying` says that once the peer
has given up and is to be heard the line carries nothing but CANs, that those on
it and those counted are five or more, and that the receiver is
somewhere where they count. So with none left on the line zmrx has ended.

`Dying` is kept because of what the decoders do with a CAN, which is also ZDLE, the
quotation: a lemma for each decoder (`Keeps`) shows that it leaves the count and the
choice of encoding alone, whatever it makes of the byte, even where it stores a run
of 63 or completes a group; and that a CAN in a header or in plain data yields no
symbol (`CanIsQuote`), so that no header is accepted, no subpacket ends and no
purge takes the CANs that follow. Where this fails, in
seven-bit data and after a MobyTurbo header, is where `AbortHeard` makes its
exceptions.

Types. `TypeInv` is `TypeOK` with what keeps it: checks and the value of a group are
four bytes (`Good`), no reply is longer than a header may be, MobyTurbo is chosen only
with the sender's consent, and a zmrx inside a subpacket is in a state of its
decoder, with Pack-7 never at the place of an end without a group behind it
(`Receives`). The last needs `HeardInv`, since a sixth CAN would leave the counter's
range. The parts of the proof: each decoder, given any byte, leaves the receiver in
its type (`DataTyped`, `HeaderTyped`); what zmtx reads of a reply is a header
(`RepliesAreHeard`); and each encoder sends bytes (below).

A header in hexadecimal. `RepliesAreHeard` is about an encoder and a decoder together:
every header zmrx sends, and every one of zmtx's before it knows of CRC32, is read as
what it was, for every type, position and length. `Spells` says that two characters
stand for a byte, as `Spelt` that a string stands for a header and its CRC16, with
its length before it in a variable one; `HexSpelt` is what the encoder writes.
`Written` adds the start and the end of line, and allows the eighth bit to be set or
not on each character and the XON to be missing, which is all that a line does to it
(`WrittenThrough`: no hexadecimal digit is flow control). `Spelled` is the invariant of
the induction over the decoder (`RoundTrip`): after k symbols it has kept the bytes of
the first k and their sum, and of half a byte its first digit. That the sum over the
header and its own check is zero is the algebra of `CodecProofs` again.

What was asked for. `Consented` is a statement about two programs that never see each
other's options. `Honest` says of each header on its way to zmtx that a position in it,
if it carries a wish, carries one that zmrx has, and for MobyTurbo one it may have:
`Wished`, which needs the extended options of a ZFILE that arrived and the probe. Since
a reply is read as it was sent, `select_zrpos_encoding` then chooses nothing else
(`ChosenConsents`). That a wish for MobyTurbo also means a line that lets every byte
through is `Opaque`, about the probe: two of its five bytes are flow control,
neighbours at its end. A line that strips flow control has passed neither; a fault may slip in
one, or make one of another byte, but not both. So from the moment of the fault
there is at most one such byte on the line or in what the scan has matched
of the probe, and the match is never completed. `ProbedSteers` and the lemmas
for the decoders (`Keeps`, `Still`, `Anew`) say which of them touch the match. Lines of
seven bits need none of this: they come with ESC8, which refuses MobyTurbo.

What crosses the line. `SafeOnLine` excepts an XON that ends what is sent, and whether
it does is only seen when more is sent or it is taken: `SafeWire` is the inductive form,
every pair of neighbours on the line being in `Allowed` or its second an XON at an end.
`Begun` says of what an encoder has sent that it starts with a given byte, that each
pair of neighbours is permitted, and that the byte the encoder remembers is the last it
sent. Each encoder is shown to keep it, for every header and
all data: hexadecimal (`HeaderBegun`), the quotations of the plain encoding, the runs and
escapes of Omen's, and Pack-7's groups of printable characters (`DataSent`). A file of any
length in subpackets of any size then follows by an induction over its subpackets
(`StreamedSent`). A purge leaves an end of the line, and a new piece starts with ZPAD,
which may follow anything.

### From an encoder to its decoder

`RoundTripProofs` proves `SubpacketsAreRead`: in every style but Pack-7, data that fit the
buffer, sent with any of the four ends, are what `rx_data` returns at the last of their bytes
and no earlier (`ReadAll` spoils what it returned when a byte is left over). Assumed is only
what the code arranges elsewhere: that the line is one the encoding is for (`Carries`:
MobyTurbo on a clear line, eight bits on one of eight), and that what the last header left
with zmrx fits the format (`Attuned`: CRC32 or CRC16, MobyTurbo or not, no control character
dropped that zmtx does not quote), with fewer than four CANs counted.

The argument. The byte zmtx remembers, the CANs zmrx counts, and whether the line
strips flow control make the path of a byte depend on those before it; what is proved of
one byte holds in each of these states. `PlainTaken` does: whatever was sent before, the
bytes `buffer_tx` sends for c bring the receiver, by what crosses the line, to where the
symbol c brings it (`Quotes`); it is here that each quotation is found to be the
one the cursor takes apart, and that no byte it drops was sent bare. `PlainFilled` carries
this through the data, whose length keeps `Put` inside the buffer; `EndFilled` is the end,
`CheckRead` the check but for its last byte, and `CheckMatches` the comparison, where
both sides compute one check of the same data and end.

Run-length data take two codings, one in the other. `RunTokensTaken` is the outer one: zmtx's
tokens, a byte, a byte twice, a run of spaces, a run with its length and value, leave `rx_data` with the
data they stand for, the runs whole (`Expands` is the state between two tokens, with the run
in progress and the sum of the tokens so far, not of the data). The inner one is Omen's
quoting, which sends each byte of a token with an escape for its top bit and one for a
control character; what is proved of one such byte holds whether the line strips the top
bit or sets it, and whatever part of the token it is. An XON behind ZCRCW (`Trailing`)
stays on the line: `rx_data` has returned.

`HeadersAreRead` is the same for `tx_header` and `rx_header`, in every style but the
hexadecimal one, whose headers `RepliesAreHeard` is about: whatever the receiver was set up
for and wherever it stopped, in a header or in data, it finds a header of up to sixteen
parameters at the last of its bytes, and is then `Attuned` to the subpackets of that style. So
what `SubpacketsAreRead` assumes is what the header before leaves, and `FramesAreRead` says
it of the two together. `Told` is the state between two bytes of a
header: its style is known, and so many bytes of it and of its check have been read.
`OpeningTaken` brings the scan there, through the pads and Omen's announcement, from any
state it can be in; from there on a byte of the header goes the way of a byte of data
(`Brings`, on `PlainTaken` and `OmenTaken`), and `CheckArrives` compares the sums.

### The CRC

`CodecProofs` proves `SlicingIsRight`: from any sum and for any sequence of bytes,
`crc32_update` is `crc32_byte_update` repeated. `SlicesAlwaysAgree` applies it to
the line, which by `TypeInv` carries bytes at any moment.

The argument. Exclusive or of bytes, from their bits, is a commutative group, and
so is that of four bytes (`XorGroup`, `WordGroup`). A table that is given by its
entries at the powers of two is linear (`TableLinear`): this is taken from the
definition of `Table`, not from its 256 entries. One byte update is then a sum of
what a zero byte makes of the sum so far, the table at the byte, and the rest of the
old sum shifted (`Carried`). `Left` describes what each of eight bytes has left in
the sum after each step. What it has left after the last is its entry in the table
that `crc32_slices` looks it up in, since each of the eight tables is the one before
it carried through a zero (`EightTables`, `LeftCarried`). `EightBytes` adds
this up, and the sum of the whole follows, in eights and a rest (`PartSum`).

Inductions over data are made here without the induction theorems of the library,
which take an operator: `SetInduction` is about a set, and follows from the
well-foundedness of the naturals; `Recursion` says that steps which are functions on
a set lead somewhere, and `SameChain` that they lead to one place only.

### Only model-checked

All liveness (`Terminates`, `Survives`, `PeerGoesOn`), which is out of the prover's
reach, and of `Framing`:

- `Intact` does not hold of arbitrary cases: a damaged header or subpacket whose
  CRC matches by chance is taken for a good one. `MCFraming` shows that no damage it
  does is of that kind.
- `Preferred` depends on the stray bytes before ZFILE: they may be a header, or the
  beginning of one, that costs the ZFILE.
- `Transparent` and `SoonRecovers` rest on each decoder giving back what its encoder
  was given, and on the two programs agreeing which encoding that is. The first is proved of
  headers in all styles and of all subpackets but Pack-7's; for those it is
  checked for chosen data. All pairs of options are checked.

## 6. What is left out

- Errors of the line itself (`ZMODEM_IO_ERROR`, a broken connection, CAN
  between frames): both programs then stop.
- Positions near 2^32: the code refuses files that pass it (`zmtx.c:539`,
  `zmrx.c:372`); `Transfer` counts in naturals.
- A file that changes while it is sent (`Destination` changes it between
  sessions only).
- In `Framing`: a timeout inside a header or subpacket and the copying of whole
  spans. The CRC of `Line`, and so of `Transfer` and `Session`, is ideal: a
  damaged frame is always noticed. `Framing` has the real sums.
- In `Transport`: opening a line, its modes and options; the choice between UART,
  FOSSIL and BIOS; the loop of `bios_flush`; a clock that fails. The DOS clock
  is modelled with 1000 ticks a second. CP/M's files, as the adapter gives them
  to zmtx and zmrx, are left out.
- `tx_bin16_header`, which cannot be reached, and `rx_header_and_check`, which
  neither program calls.
- ZSINIT, which zmtx never sends and zmrx handles; ZCHALLENGE, ZCOMMAND and the like, which
  zmrx answers with ZCOMPL.
- In `Session`, failures of zmrx's disk other than those of one file.

## 7. Plan

Done: `Line`, `FileSender`, `FileReceiver`, `Transfer` with `Copy` and its
proofs; `Session`, `Destination`, `Uart` and `Transport` with theirs; `Crc`,
`Subpacket`, `Header` and `Framing`, with proofs about aborts, types, what
crosses the line, headers, subpackets, consent, and the CRC. What would come next:

1. Proofs about `Framing`: the round trip of Pack-7's data, and `Transparent` from
   `FramesAreRead` and that.
2. ZSINIT in zmrx, with a peer that sends it.
3. Positions of 32 bits, for a file that reaches the limit while it is sent.
