--------------------------- MODULE MCRateLimiter ----------------------------
(* Three threads on two workers, two hits per two ticks (and the settings   *)
(* "0/second" and an unreadable one), one fault.                            *)
EXTENDS RateLimiter

CONSTANTS w1, w2, t1, t2, t3

MCWorkers == {w1, w2}
MCThreads == {t1, t2, t3}
MCWorkerOf == [t \in MCThreads |-> IF t = t3 THEN w2 ELSE w1]
MCPeriodTicks == [second |-> 1, minute |-> 2]
MCRates == {[count |-> 2, period |-> "day"], [count |-> 0, period |-> "second"],
            [count |-> None, period |-> "second"]}
=============================================================================
