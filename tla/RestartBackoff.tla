--------------------------- MODULE RestartBackoff ---------------------------
(***************************************************************************)
(* The restart delay that cmd/fluent-bit-watcher/main.go computes from     *)
(* the number of restarts so far:                                          *)
(*                                                                         *)
(*   delayTime := time.Duration(math.Pow(2, float64(restartTimes)))        *)
(*                * time.Second                                            *)
(*   if delayTime >= MaxDelayTime { delayTime = MaxDelayTime }             *)
(*                                                                         *)
(* time.Duration is an int64 of nanoseconds, so the product wraps modulo   *)
(* 2^64.  TLC's integers have 32 bits; the definitions below stay exact    *)
(* without ever forming the product, because                               *)
(*                                                                         *)
(*   2^n * 10^9  =  5^9 * 2^(n+9)       and      5^9 < 2^21                *)
(*                                                                         *)
(* Delays are in seconds; a delay that the runtime treats as already       *)
(* elapsed (zero or negative, time.NewTimer fires at once) is 0.           *)
(***************************************************************************)
EXTENDS Integers, Sequences

MaxDelaySeconds == 300

\* The odd part of the number of nanoseconds in a second, and the largest
\* number of restarts whose product still fits in an int64: 5^9 has 21 bits,
\* so 2^n s takes n + 9 + 21 bits.
SecondOddPart == 1953125
LastExact == 33

\* From this count on all 64 low bits of the product are zero.
FirstZero == 55

\* The powers of two below the cap, 2^0 first.
UncappedDelays == <<1, 2, 4, 8, 16, 32, 64, 128, 256>>

\* Bit 63 of the product, i.e. bit 54 - n of 5^9: the sign of the Duration.
WrapsNegative(n) == (SecondOddPart \div 2^(FirstZero - 1 - n)) % 2 = 1


\* The delay of backoff() after n restarts.  A wrapped product that is still
\* positive is a multiple of 2^43 ns, more than two hours, hence capped.
DelaySeconds(n) ==
  IF n \in 0..8 THEN UncappedDelays[n + 1]
  ELSE IF n <= LastExact \/ (n < FirstZero /\ ~WrapsNegative(n))
       THEN MaxDelaySeconds
       ELSE 0
=============================================================================
