---------------------------- MODULE MCTransport ----------------------------
EXTENDS Transport

Doing(platforms, writes, arrivals, calls, timeouts, boots) ==
  { [platform |-> p, writes |-> writes, arrivals |-> arrivals, calls |-> calls,
     timeouts |-> timeouts, boot |-> b] : p \in platforms, b \in boots }

\* Writing through the buffer twice over, waiting around every carry of the clocks and
\* the wrap of the tick counter, asking again after an answer, and both at once.
MCPlans ==
  UNION { Doing(Platforms, 7, 0, 0, {}, {0}),
          Doing(Platforms, 0, 2, 1, {0, 1, 7}, 0 .. 7 \cup 21 .. 31),
          Doing(Platforms, 0, 2, 2, {1}, {6}),
          Doing(Platforms, 2, 1, 1, {1}, {0}) }
=============================================================================
