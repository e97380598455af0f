------------------------------ MODULE MCWriters ------------------------------
(* The two queues that write behind the requests, for TLC: a behaviour is    *)
(* about the usage logger or about the response cache; the other's variables *)
(* stay as they began. After Close nothing is left to do, so deadlock is not *)
(* checked.                                                                  *)
EXTENDS UsageLogger, ResponseCache

CONSTANTS e1, e2, e3, e4, r1, r2, r3, w1, w2, k1, k2

FourEntries == {e1, e2, e3, e4}
ThreeRequests == {r1, r2, r3}
TwoWorkers == {w1, w2}
TwoKeys == {k1, k2}

VARIABLE subject

writersVars == <<vars, cacheVars, subject>>

WritersInit ==
  /\ \/ subject = "usage" /\ key = [r \in Requests |-> k1]
     \/ subject = "cache"
  /\ Init /\ CacheInit

WritersNext ==
  \/ subject = "usage" /\ Next /\ UNCHANGED <<cacheVars, subject>>
  \/ subject = "cache" /\ CacheNext /\ UNCHANGED <<vars, subject>>

\* The fair actions of the logger are not enabled while it is idle.
WritersSpec == WritersInit /\ [][WritersNext]_writersVars /\ LoggerFairness
=============================================================================
