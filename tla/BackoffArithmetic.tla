-------------------------- MODULE BackoffArithmetic --------------------------
(***************************************************************************)
(* The arithmetic of backoff() in cmd/fluent-bit-watcher/main.go, bit for  *)
(* bit: 2^n * time.Second modulo 2^64, held as four limbs of 16 bits, least*)
(* significant first, and doubled from one restart to the next.            *)
(***************************************************************************)
EXTENDS RestartBackoff
LOCAL INSTANCE SequencesExt

MaxRestarts == 110   \* bound: twice the count from which the product is zero

Base == 65536

\* Carries the excess of each limb into the next one, and out of the last.
Normal(a) ==
  LET c1 == a[1] \div Base
      c2 == (a[2] + c1) \div Base
      c3 == (a[3] + c2) \div Base
  IN  << a[1] % Base, (a[2] + c1) % Base, (a[3] + c2) % Base, (a[4] + c3) % Base >>

\* factor * time.Second, for factors up to MaxDelaySeconds: 10^9 is 3B9ACA00.
Seconds(factor) == Normal(<<51712 * factor, 15258 * factor, 0, 0>>)

Doubled(a) == Normal([i \in 1..4 |-> 2 * a[i]])

\* The products for 0, 1, 2, ... restarts.
Products ==
  FoldLeft(LAMBDA p, n : Append(p, Doubled(p[n])), <<Seconds(1)>>,
           [n \in 1..MaxRestarts |-> n])

NotPositive(a) == a[4] >= 32768 \/ a = <<0, 0, 0, 0>>

\* a < b, for limbs of the same sign.
Below(a, b) == \E i \in 1..4 : a[i] < b[i] /\ \A j \in i+1..4 : a[j] = b[j]

\* The counts for which DelaySeconds is the delay that the code computes in
\* 64-bit arithmetic: a product that is not positive does not delay, one from
\* five minutes on is capped, any other one is exact.
Exact ==
  {n \in 0..MaxRestarts :
    LET d == DelaySeconds(n)
        p == Products[n + 1]
    IN  IF NotPositive(p) THEN d = 0
        ELSE IF ~Below(p, Seconds(MaxDelaySeconds)) THEN d = MaxDelaySeconds
        ELSE d \in 1..(MaxDelaySeconds - 1) /\ p = Seconds(d)}
=============================================================================
