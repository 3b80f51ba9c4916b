---- MODULE MCThreadPool ----
(* Instances of ThreadPool for TLC. *)
EXTENDS ThreadPool, TLC

CONSTANTS t1, t2, t3, t4, c1, c2, c3, c4

OneThread == {t1}
TwoThreads == {t1, t2}
FourThreads == {t1, t2, t3, t4}
OneConn == {c1}
TwoConns == {c1, c2}
FourConns == {c1, c2, c3, c4}

NoThreads == {}
AnyThread == Threads \cup {Main}
MainOnly == {Main}
NoFaults == {}
SetupFault == {"setup"}
DetachFault == {"detach"}

(* Threads are alike, and so are clients: only Main and None are singled out. *)
Interchangeable == Permutations(Threads) \cup Permutations(Conns)
====
