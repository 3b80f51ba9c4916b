--------------------------- MODULE ClientService ---------------------------
(***************************************************************************)
(* What the server promises the clients it accepts, without a word about   *)
(* threads, rings or locks: clients wait in the order they were accepted,  *)
(* no more than Capacity at a time; the first one is handed to a worker;   *)
(* its connection is closed once, when the worker is done with it.         *)
(* The implementation is src/main.c and src/lib/thread.c.                  *)
(***************************************************************************)
EXTENDS Naturals, Sequences

CONSTANTS Clients, Capacity

VARIABLES
  pending,  (* accepted clients no worker has taken, the oldest first *)
  serving   (* clients a worker has taken and not closed              *)

vars == <<pending, serving>>

Waiting == {pending[i] : i \in DOMAIN pending}

Init == pending = <<>> /\ serving = {}

Admit(c) ==
  /\ Len(pending) < Capacity
  /\ c \notin Waiting \cup serving
  /\ pending' = Append(pending, c)
  /\ UNCHANGED serving

Begin ==
  /\ pending # <<>>
  /\ serving' = serving \cup {Head(pending)}
  /\ pending' = Tail(pending)

Finish(c) ==
  /\ c \in serving
  /\ serving' = serving \ {c}
  /\ UNCHANGED pending

Next ==
  \/ \E c \in Clients : Admit(c) \/ Finish(c)
  \/ Begin

Spec == Init /\ [][Next]_vars
=============================================================================
