-------------------------------- MODULE Backoff --------------------------------
(***************************************************************************)
(* src/backoff.rs: exponential backoff with equal jitter, the one curve    *)
(* behind the REST retry and both stream reconnects.  Durations are whole  *)
(* time units; the jitter's draw is a set of possible delays.              *)
(***************************************************************************)
EXTENDS Naturals

Least(a, b) == IF a < b THEN a ELSE b

\* A bug to catch: the count is not kept within its width.
SaturatingInc_Unbounded(n, maxU32) == n + 1

\* u32::saturating_add(1), the way every failure counter here counts.
SaturatingInc(n, maxU32) == IF n < maxU32 THEN n + 1 ELSE maxU32

\* A bug to catch: the jump comes a doubling early.
Double_JumpsEarly(d, max) == IF 4 * d >= max THEN max ELSE 2 * d

\* One pass of the doubling loop: past half of the ceiling it jumps to it.
Double(d, max) == IF 2 * d >= max THEN max ELSE 2 * d

\* capped_delay: n counts consecutive failures from 1; 0 is treated as 1.
CappedDelay(n, min, max) ==
  LET grown[k \in 0..n] == IF k <= 1 THEN min ELSE Double(grown[k - 1], max)
  IN  Least(grown[n], max)

\* A bug to catch: full jitter in place of equal jitter.
ReconnectDelays_FullJitter(n, min, max) == 0..CappedDelay(n, min, max)

\* reconnect_delay: anything the jitter may draw from the top half.
ReconnectDelays(n, min, max) ==
  {d \in 0..max : d <= CappedDelay(n, min, max) /\ CappedDelay(n, min, max) <= 2 * d}

\* check_window, check_data_timeout and check_stable_session: what the
\* builders let through.
CheckWindow(min, max) == min > 0 /\ max >= min
CheckDataTimeout(timeout) == timeout > 0
CheckStableSession(after) == after > 0
=============================================================================
