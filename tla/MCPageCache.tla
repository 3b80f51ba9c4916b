---- MODULE MCPageCache ----
(* Instances of PageCache for TLC. *)
EXTENDS PageCache, TLC

CONSTANTS w1, w2

TwoWorkers == {w1, w2}

Growing == <<1, 1, 2>>
Sizes == <<2, 1, 2>>

NoFaults == {}
AllFaults == {"open", "stat", "alloc", "read", "assemble", "hydrate", "cap"}

Workers == Permutations(Threads)
====
