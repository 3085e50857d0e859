----------------------------- MODULE Transport -----------------------------
(***************************************************************************)
(* The transports under the protocol: how the bytes of write() reach the line  *)
(* through the output buffer and partial, interrupted or failing system calls,  *)
(* and how read(), poll() and purge() wait for input (posix, win95, dos, cpm).   *)
(* The 16550 driver is Uart's.                                                 *)
(*                                                                           *)
(* The bytes are numbered: the program writes 1, 2, ... and the peer sends      *)
(* 1, 2, ...  Time is counted in the finest unit of the clock (nanoseconds);     *)
(* only waiting takes time.  A system call that is interrupted before it does    *)
(* anything is a stutter wherever the code simply repeats it.                  *)
(***************************************************************************)
EXTENDS Integers, Sequences

CONSTANTS
  Plans,      \* what a program does over which transport; see Plan
  Size,       \* ZMODEM_TX_BURST_CAPACITY, the size of the output buffer
  PerMicro,   \* units of time in the smallest wait of select()
  PerMilli,   \* units in a millisecond, and in a tick of GetTickCount() and clock()
  Millis,     \* milliseconds in a second
  Word        \* ticks until the tick counter wraps

Second == Millis * PerMilli

\* Output through a buffer, or at once.
Buffered == {"posix", "socket", "comm"}
Unbuffered == {"fossil", "bios", "rdrpun"}
Platforms == Buffered \cup Unbuffered

\* writes bytes at most are written, arrivals sent by the peer, and input is asked for
\* calls times, with one of the timeouts; the program starts at boot.
Plan == [platform : Platforms, writes : Nat, arrivals : Nat, calls : Nat,
         timeouts : SUBSET Nat, boot : Nat]

ASSUME TransportAssumption ==
  /\ Size \in Nat \ {0} /\ PerMicro \in Nat \ {0} /\ PerMilli \in Nat \ {0}
  /\ Millis \in Nat \ {0} /\ Word \in Nat \ {0}
  /\ Second % PerMicro = 0
  /\ \A p \in Plans : /\ p.platform \in Platforms
                      /\ p.writes \in Nat /\ p.arrivals \in Nat /\ p.calls \in Nat
                      /\ p.timeouts \subseteq 0 .. Word - 1 /\ p.boot \in Nat

VARIABLES
  plan,     \* the plan at hand
  now,      \* the time
  call,     \* the call that is running, or the result of the last one
  out,      \* output_buffer, output_count and posix_flush's offset
  line,     \* what has been sent
  given,    \* how many bytes have been handed to write()
  lost,     \* whether a failed write() left out some of its bytes
  input     \* what has arrived and is unread, what has arrived at all, and hanging up

vars == <<plan, now, call, out, line, given, lost, input>>
timeVars == <<plan, now>>
outputVars == <<out, line, given, lost>>

platform == plan.platform
Lesser(a, b) == IF a < b THEN a ELSE b

Init ==
  /\ plan \in Plans
  /\ now = plan.boot
  /\ call = [op |-> "none", pc |-> "idle", result |-> "ok", rest |-> 0, timeout |-> 0,
             called |-> now, until |-> now, mark |-> 0, made |-> 0]
  /\ out = [buffer |-> [i \in 1 .. Size |-> 0], count |-> 0, offset |-> 0]
  /\ line = << >> /\ given = 0 /\ lost = FALSE
  /\ input = [unread |-> << >>, arrived |-> 0, hung |-> FALSE]

Idle == call.pc = "idle"

Returned(result) ==
  [call EXCEPT !.pc = IF call.op = "close" THEN "closed" ELSE "idle",
               !.result = result, !.rest = 0]

----------------------------------------------------------------------------
(* Output.                                                                 *)

Write ==
  /\ Idle
  /\ \E n \in 1 .. plan.writes - given :
       /\ given' = given + n
       /\ call' = [call EXCEPT !.op = "write", !.rest = n, !.mark = 0,
                               !.pc = IF platform \in Buffered THEN "copy" ELSE "send"]
  /\ UNCHANGED <<timeVars, out, line, lost, input>>

\* flush(), and the flush() of close().  Without a buffer there is nothing to do: the
\* driver waits for the last byte.
FlushOrClose(op) ==
  /\ Idle /\ plan.writes > 0
  /\ call' = [call EXCEPT !.op = op, !.mark = 0, !.result = "ok",
                          !.pc = IF platform \in Buffered THEN "drain"
                                 ELSE IF op = "close" THEN "closed" ELSE "idle"]
  /\ UNCHANGED <<timeVars, outputVars, input>>

\* Mutant of Copied: all of the rest, though it may not fit.
Copied_all(rest, count) == rest

\* How many bytes of the rest go into a buffer that holds count.
Copied(rest, count) == Lesser(rest, Size - count)

\* What fits is copied; a full buffer is flushed.
Copy ==
  /\ call.pc = "copy"
  /\ LET copied == Copied(call.rest, out.count)
         count == out.count + copied
     IN  /\ out' = [out EXCEPT
                      !.count = count,
                      !.buffer = [i \in 1 .. Size |->
                        IF i > out.count /\ i <= count THEN given - call.rest + (i - out.count)
                        ELSE out.buffer[i]]]
         /\ call' = IF count = Size
                    THEN [call EXCEPT !.rest = @ - copied, !.pc = "drain"]
                    ELSE Returned("ok")
  /\ UNCHANGED <<timeVars, line, given, lost, input>>

posix_write == platform = "posix" /\ Copy
win95_write == platform \in {"socket", "comm"} /\ Copy

\* The system takes some of what is left.
Taken ==
  \E n \in 1 .. out.count - out.offset :
    /\ line' = line \o SubSeq(out.buffer, out.offset + 1, out.offset + n)
    /\ out' = [out EXCEPT !.offset = @ + n]
    /\ UNCHANGED <<call, lost>>

\* Mutant of Unsent: what has been sent stays in the buffer.
Unsent_kept(o) == [o EXCEPT !.offset = 0]

\* What has not been sent moves to the front of the buffer.
Unsent(o) ==
  [buffer |-> [i \in 1 .. Size |-> IF i + o.offset <= o.count THEN o.buffer[i + o.offset]
                                   ELSE o.buffer[i]],
   count |-> o.count - o.offset, offset |-> 0]

\* The system fails: the call fails, and what it has not copied is left out.
Failed ==
  /\ out.offset < out.count
  /\ out' = Unsent(out)
  /\ call' = Returned("error")
  /\ lost' = (lost \/ call.rest > 0)
  /\ UNCHANGED line

\* Mutant of Emptied: what the system took of the buffer counts as all of it.
Emptied_short ==
  /\ out.offset > 0 \/ out.count = 0
  /\ out' = [out EXCEPT !.count = 0, !.offset = 0]
  /\ call' = IF call.rest > 0 THEN [call EXCEPT !.pc = "copy"] ELSE Returned("ok")
  /\ UNCHANGED <<line, lost>>

\* Everything is sent: the buffer is empty, and a write() goes on with its rest.
Emptied ==
  /\ out.offset = out.count
  /\ out' = [out EXCEPT !.count = 0, !.offset = 0]
  /\ call' = IF call.rest > 0 THEN [call EXCEPT !.pc = "copy"] ELSE Returned("ok")
  /\ UNCHANGED <<line, lost>>

posix_flush ==
  /\ platform = "posix" /\ call.pc = "drain"
  /\ Taken \/ Failed \/ Emptied
  /\ UNCHANGED <<timeVars, given, input>>

\* A socket that does not take any more is waited for, however long it takes.
write_socket ==
  /\ platform = "socket"
  /\ \/ call.pc = "drain" /\ (Taken \/ Failed)
     \/ call.pc = "blocked" /\ Failed
     \/ /\ call.pc = "drain" /\ out.offset < out.count
        /\ call' = [call EXCEPT !.pc = "blocked"]
        /\ UNCHANGED <<out, line, lost>>
     \/ /\ call.pc = "blocked"
        /\ call' = [call EXCEPT !.pc = "drain"]
        /\ UNCHANGED <<out, line, lost>>
  /\ UNCHANGED <<timeVars, given, input>>

write_comm ==
  /\ platform = "comm" /\ call.pc = "drain"
  /\ Taken \/ Failed
  /\ UNCHANGED <<timeVars, given, input>>

win95_flush ==
  /\ platform \in {"socket", "comm"} /\ call.pc = "drain"
  /\ Emptied
  /\ UNCHANGED <<timeVars, given, input>>

\* The next n bytes of the call go on the line.
Direct(n) ==
  /\ line' = line \o [i \in 1 .. n |-> given - call.rest + i]
  /\ call' = IF call.rest = n THEN Returned("ok") ELSE [call EXCEPT !.rest = @ - n]
  /\ UNCHANGED <<timeVars, out, given, lost, input>>

fossil_write ==
  /\ platform = "fossil" /\ call.pc = "send"
  /\ \E n \in 1 .. call.rest : Direct(n)

bios_write ==
  /\ platform = "bios" /\ call.pc = "send"
  /\ \/ Direct(1)
     \/ /\ call' = Returned("error") /\ lost' = TRUE
        /\ UNCHANGED <<timeVars, out, line, given, input>>

rdrpun_write == platform = "rdrpun" /\ call.pc = "send" /\ Direct(1)

Output ==
  \/ Write \/ FlushOrClose("flush") \/ FlushOrClose("close")
  \/ posix_write \/ win95_write \/ posix_flush \/ write_socket \/ write_comm \/ win95_flush
  \/ fossil_write \/ bios_write \/ rdrpun_write

----------------------------------------------------------------------------
(* Deadlines.                                                              *)

Timespec(t) == [sec |-> t \div Second, nsec |-> t % Second]
Instant(ts) == ts.sec * Second + ts.nsec

set_input_deadline(at, timeout) ==
  LET sec == at.sec + timeout \div Millis
      nsec == at.nsec + (timeout % Millis) * PerMilli
  IN  IF nsec >= Second THEN [sec |-> sec + 1, nsec |-> nsec - Second]
      ELSE [sec |-> sec, nsec |-> nsec]

\* Mutant of Micros: a fraction is dropped.
Micros_down(nsec) == nsec \div PerMicro

\* No wait of select() is shorter than what is left.
Micros(nsec) == (nsec + PerMicro - 1) \div PerMicro

\* What select() is told, in whole units of its own; nothing after the deadline.
input_time_remaining(deadline, at) ==
  LET borrow == deadline.nsec < at.nsec
      sec == deadline.sec - at.sec - (IF borrow THEN 1 ELSE 0)
      nsec == deadline.nsec - at.nsec + (IF borrow THEN Second ELSE 0)
      usec == Micros(nsec)
      carried == Second \div PerMicro
  IN  IF at.sec > deadline.sec \/ (at.sec = deadline.sec /\ at.nsec >= deadline.nsec)
      THEN [sec |-> 0, usec |-> 0]
      ELSE IF usec >= carried THEN [sec |-> sec + 1, usec |-> usec - carried]
      ELSE [sec |-> sec, usec |-> usec]

Span(tv) == tv.sec * Second + tv.usec * PerMicro

\* GetTickCount(), clock(): a counter that wraps, of no finer grain than a tick.
Ticks(t) == (t \div PerMilli) % Word

\* Mutant of Elapsed: the difference is not taken in the width of the counter.
Elapsed_wide(t, from) == Ticks(t) - Ticks(from)

Elapsed(t, from) == (Ticks(t) - Ticks(from)) % Word

\* zmodem_dos_timeout_expired
Expired == call.timeout = 0 \/ Elapsed(now, call.called) >= call.timeout

\* Mutant of Remaining: an interrupted wait starts anew.
Remaining_anew ==
  IF call.timeout = 0 THEN 0
  ELSE call.timeout * PerMilli

\* How long select() is to wait from now on.
Remaining ==
  IF call.timeout = 0 THEN 0
  ELSE IF platform = "posix"
  THEN Span(input_time_remaining(set_input_deadline(Timespec(call.called), call.timeout),
                                 Timespec(now)))
  ELSE IF Expired THEN 0
  ELSE (call.timeout - Elapsed(now, call.called)) * PerMilli

----------------------------------------------------------------------------
(* Input.                                                                  *)

Selecting == {"posix", "socket"}
Polling == {"comm", "fossil", "bios"}

Ready == input.unread # << >> \/ input.hung

\* read(), poll() or purge() is called; a purge is to remove what has arrived.
Ask(op, timeout) ==
  /\ Idle /\ call.made < plan.calls
  /\ call' = [call EXCEPT !.op = op, !.pc = "check", !.timeout = timeout, !.called = now,
                          !.until = now, !.mark = input.arrived, !.made = @ + 1]
  /\ UNCHANGED <<timeVars, outputVars, input>>

\* Nothing has come in.
NotReady ==
  Returned(CASE call.op = "read" -> "timeout" [] call.op = "poll" -> "none"
             [] call.op = "purge" -> "ok")

ThereIs == IF call.op = "poll" THEN Returned("some") ELSE [call EXCEPT !.pc = "take"]

\* wait_for_input and socket_wait look at the clock and call select().
Select ==
  /\ platform \in Selecting /\ call.pc = "check"
  /\ call' = IF call.timeout > 0 /\ Remaining = 0 THEN NotReady
             ELSE [call EXCEPT !.pc = "select", !.until = now + Remaining]
  /\ UNCHANGED <<timeVars, outputVars, input>>

\* select() returns: for input, for the end of its wait, for a signal, or with an error.
Selected ==
  /\ call.pc = "select"
  /\ \/ Ready /\ call' = ThereIs
     \/ ~Ready /\ now >= call.until /\ call' = NotReady
     \/ ~Ready /\ call' = [call EXCEPT !.pc = "check"]
     \/ call' = Returned("error")
  /\ UNCHANGED <<timeVars, outputVars, input>>

wait_for_input == platform = "posix" /\ (Select \/ Selected)
socket_wait == platform = "socket" /\ (Select \/ Selected)

\* The queue is looked at, and again after a while.
Look ==
  /\ call.pc = "check"
  /\ call' = IF Ready THEN ThereIs ELSE IF Expired THEN NotReady
             ELSE [call EXCEPT !.pc = "sleep", !.until = now + PerMilli]
  /\ UNCHANGED <<timeVars, outputVars, input>>

Woken ==
  /\ call.pc = "sleep"
  /\ call' = [call EXCEPT !.pc = "check"]
  /\ UNCHANGED <<timeVars, outputVars, input>>

LineError ==
  /\ call.pc = "check"
  /\ call' = Returned("error")
  /\ UNCHANGED <<timeVars, outputVars, input>>

\* PurgeComm and its like empty the queue at once.
PurgedAtOnce ==
  /\ call.op = "purge" /\ call.pc = "check"
  /\ input' = [input EXCEPT !.unread = << >>]
  /\ call' = Returned("ok")
  /\ UNCHANGED <<timeVars, outputVars>>

comm_wait ==
  /\ platform = "comm"
  /\ \/ call.op # "purge" /\ Look
     \/ LineError \/ Woken \/ PurgedAtOnce

fossil_wait ==
  /\ platform = "fossil"
  /\ \/ call.op # "purge" /\ (Look \/ LineError)
     \/ Woken \/ PurgedAtOnce

bios_wait ==
  /\ platform = "bios"
  /\ Look \/ Woken \/ (call.op # "purge" /\ LineError)

\* The reader of CP/M blocks; there is no poll and no purge.
rdrpun_read ==
  /\ platform = "rdrpun" /\ call.pc = "check"
  /\ \/ call.op = "read" /\ Ready /\ call' = ThereIs
     \/ call.op # "read" /\ call' = NotReady
  /\ UNCHANGED <<timeVars, outputVars, input>>

\* The first n unread bytes are taken from the system.
Consumed(n) == [input EXCEPT !.unread = SubSeq(@, n + 1, Len(@))]

\* Mutant of AfterTaking: a purge is over after one piece.
AfterTaking_once == Returned("ok")

\* A read is over, a purge looks for more.
AfterTaking == IF call.op = "purge" THEN [call EXCEPT !.pc = "check"] ELSE Returned("ok")

\* What there is, is read: whatever the system gives to a read, one byte or a piece to
\* a purge.  At the end of the file there is nothing.
Take(pieces) ==
  /\ call.pc = "take"
  /\ \/ /\ \E n \in 1 .. Len(input.unread) :
             (n > 1 => pieces) /\ input' = Consumed(n)
        /\ call' = AfterTaking
     \/ /\ platform \in Selecting \cup {"comm"} \/ (platform = "bios" /\ call.op = "read")
        /\ call' = Returned("error") /\ UNCHANGED input
  /\ UNCHANGED <<timeVars, outputVars>>

EndOfFile(result) ==
  /\ call.pc = "take" /\ input.unread = << >>
  /\ call' = Returned(IF call.op = "purge" THEN "ok" ELSE result)
  /\ UNCHANGED <<timeVars, outputVars, input>>

posix_read == platform = "posix" /\ call.op = "read" /\ (Take(TRUE) \/ EndOfFile("timeout"))
posix_purge == platform = "posix" /\ call.op = "purge" /\ (Take(FALSE) \/ EndOfFile("ok"))
win95_read == platform \in {"socket", "comm"} /\ call.op = "read" /\ (Take(TRUE) \/ EndOfFile("error"))
win95_purge == platform = "socket" /\ call.op = "purge" /\ (Take(TRUE) \/ EndOfFile("ok"))
fossil_read == platform = "fossil" /\ Take(TRUE)
bios_read == platform = "bios" /\ Take(FALSE)
rdrpun_take == platform = "rdrpun" /\ Take(FALSE)

Input ==
  \/ \E t \in plan.timeouts : Ask("read", t)
  \/ Ask("poll", 0) \/ Ask("purge", 0)
  \/ wait_for_input \/ socket_wait \/ comm_wait \/ fossil_wait \/ bios_wait \/ rdrpun_read
  \/ posix_read \/ posix_purge \/ win95_read \/ win95_purge
  \/ fossil_read \/ bios_read \/ rdrpun_take

----------------------------------------------------------------------------
(* The world.                                                              *)

\* Time passes while the program waits, and no call outlasts its wait.
Tick ==
  /\ call.pc \in {"select", "sleep"} /\ now < call.until
  /\ now' = now + 1
  /\ UNCHANGED <<plan, call, outputVars, input>>

Arrive ==
  /\ input.arrived < plan.arrivals /\ ~input.hung
  /\ input' = [input EXCEPT !.unread = Append(@, input.arrived + 1), !.arrived = @ + 1]
  /\ UNCHANGED <<timeVars, call, outputVars>>

HangUp ==
  /\ platform \in Selecting /\ plan.calls > 0 /\ ~input.hung
  /\ input' = [input EXCEPT !.hung = TRUE]
  /\ UNCHANGED <<timeVars, call, outputVars>>

Next == Output \/ Input \/ Tick \/ Arrive \/ HangUp

Spec == Init /\ [][Next]_vars

TypeOK ==
  /\ plan \in Plans /\ now \in Nat
  /\ call \in [op : {"none", "write", "flush", "close", "read", "poll", "purge"},
               pc : {"idle", "closed", "copy", "drain", "blocked", "send",
                     "check", "select", "sleep", "take"},
               result : {"ok", "error", "timeout", "none", "some"},
               rest : Nat, timeout : Nat, called : Nat, until : Nat, mark : Nat, made : Nat]
  /\ out \in [buffer : [1 .. Size -> Nat], count : 0 .. Size, offset : 0 .. Size]
  /\ out.offset <= out.count
  /\ line \in Seq(Nat) /\ given \in Nat /\ lost \in BOOLEAN
  /\ input \in [unread : Seq(Nat), arrived : Nat, hung : BOOLEAN]

----------------------------------------------------------------------------
(* Properties.                                                             *)

\* Until a write() fails in the middle, what is on the line and what is still in the
\* buffer and in the call are the bytes the program wrote, once and in order, whatever
\* the system takes at a time and however often a flush failed in between.
Kept ==
  ~lost =>
    /\ \A i \in 1 .. Len(line) : line[i] = i
    /\ \A i \in 1 .. out.count : out.buffer[i] = Len(line) - out.offset + i
    /\ given = Len(line) - out.offset + out.count + call.rest

\* Nothing reaches the line twice or out of order, after failures either.
OnceInOrder == \A i, j \in 1 .. Len(line) : i < j => line[i] < line[j]

\* A flush or a close that succeeds has put everything written on the line, unless a
\* write failed before.
FlushedAll ==
  call.op \in {"flush", "close"} /\ call.pc \in {"idle", "closed"} /\ call.result = "ok" /\ ~lost =>
    Len(line) = given

Elapsing == now - call.called

\* A read gives up no earlier than it was told to, to a tick of its clock, except at
\* the end of the file, and wherever the clock's carries and the counter's wrap fall
\* (set_input_deadline, input_time_remaining, socket_wait, zmodem_dos_timeout_expired).
NotEarly ==
  call.op = "read" /\ Idle /\ call.result = "timeout" /\ ~input.hung =>
    Elapsing > call.timeout * PerMilli - (IF platform = "posix" THEN 1 ELSE PerMilli)

\* A read never waits longer than it was told to, to the grain of its wait, however
\* often it is interrupted; the reader of CP/M has no clock.
NotLate ==
  call.op = "read" /\ platform # "rdrpun" =>
    Elapsing < call.timeout * PerMilli + (IF platform = "posix" THEN PerMicro ELSE PerMilli)

\* A purge that succeeds leaves nothing of what had arrived when it was called
\* (posix_purge and its like).
PurgedWhole ==
  call.op = "purge" /\ Idle /\ call.result = "ok" /\ platform # "rdrpun" =>
    \A i \in 1 .. Len(input.unread) : input.unread[i] > call.mark
=============================================================================
