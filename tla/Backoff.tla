------------------------------- MODULE Backoff -------------------------------
(***************************************************************************)
(* The exponential backoff ladder shared by the mutation outbox and by the *)
(* event stream's reconnect scheduler (store/outbox.rs, backoff_seconds    *)
(* and at_offset).  Instants are natural numbers of seconds; Horizon is    *)
(* the last instant a model looks at, and every stamp beyond it is cut to  *)
(* it.                                                                     *)
(***************************************************************************)
EXTENDS Integers

CONSTANTS
    BaseSeconds,    \* first delay of the ladder (2 in the code)
    MaxSeconds,     \* its ceiling (300 in the code)
    Horizon         \* last instant of the model

ASSUME BackoffAssumption ==
    /\ BaseSeconds \in Nat \ {0}
    /\ MaxSeconds \in Nat
    /\ BaseSeconds <= MaxSeconds
    /\ Horizon \in Nat \ {0}

Instant == 1 .. Horizon

\* The stamp of a column that is NULL: earlier than every instant.
Null == 0

Earlier(a, b) == IF a <= b THEN a ELSE b

\* 1 << exponent for the exponents the code can reach (saturating_sub, min 16).
ShiftTable == <<1, 2, 4, 8, 16, 32, 64, 128, 256, 512, 1024, 2048, 4096, 8192,
                16384, 32768, 65536>>

Exponent(retries) ==
    IF retries < 1 THEN 0 ELSE Earlier(retries - 1, 16)

BackoffSeconds(retries) ==
    Earlier(BaseSeconds * ShiftTable[Exponent(retries) + 1], MaxSeconds)

\* now + backoff(retries), the absolute deadline stored with a row.
NextRetryAt(at, retries) == Earlier(at + BackoffSeconds(retries), Horizon)
=============================================================================
