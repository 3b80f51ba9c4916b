---------------------------- MODULE DataInduction ----------------------------
(***************************************************************************)
(* Induction for what the source computes byte by byte, stated with sets   *)
(* and functions: the laws of the libraries take an operator and cannot be *)
(* applied by the provers.                                                 *)
(***************************************************************************)
EXTENDS Integers, WellFoundedInduction, TLAPS

LEMMA LeastNumber ==
  ASSUME NEW T, T \subseteq Nat, T # {}
  PROVE  \E x \in T : \A y \in T : x <= y
<1> DEFINE R == {p \in Nat \X Nat : p[1] < p[2]}
<1>1. IsWellFoundedOn(R, Nat)
  BY NatLessThanWellFounded DEF OpToRel
<1> HIDE DEF R
<1>2. PICK x \in T : \A y \in T : ~(<<y, x>> \in R)
  BY <1>1, WFMin
<1>3. \A y \in T : ~(y < x)
  BY <1>2 DEF R
<1> QED
  BY <1>3

(* A set with 0 and with the successor of every number below a bound that it *)
(* has contains all numbers up to the bound.                                 *)
THEOREM InductionUpTo ==
  ASSUME NEW N \in Nat, NEW S, 0 \in S, \A n \in 0..N - 1 : n \in S => n + 1 \in S
  PROVE  0..N \subseteq S
<1> DEFINE T == (0..N) \ S
<1> SUFFICES ASSUME T # {} PROVE FALSE
  OBVIOUS
<1>0. T \subseteq Nat
  OBVIOUS
<1>1. PICK x \in T : \A y \in T : x <= y
  BY <1>0, LeastNumber
<1>2. x \in 1..N
  OBVIOUS
<1>3. x - 1 \in 0..N - 1 /\ x - 1 \notin T
  BY <1>1, <1>2
<1>4. x - 1 \in S
  BY <1>3
<1> QED
  BY <1>2, <1>3, <1>4

(* An automaton, and its run over an input of N bytes: the states it is in  *)
(* after each of them.                                                      *)
Automaton(N, State, start, step) ==
  N \in Nat /\ start \in State /\ step \in [State \X (1..N) -> State]

AutomatonRun(f, N, State, start, step) ==
  /\ f \in [0..N -> State]
  /\ f[0] = start
  /\ \A n \in 1..N : f[n] = step[<<f[n - 1], n>>]

(* Every automaton has a run over every input.                              *)
THEOREM RunExists ==
  ASSUME NEW N, NEW State, NEW start, NEW step, Automaton(N, State, start, step)
  PROVE  \E f : AutomatonRun(f, N, State, start, step)
<1> USE DEF Automaton, AutomatonRun
<1> DEFINE S == {m \in 0..N : \E f \in [0..m -> State] :
                    f[0] = start /\ \A n \in 1..m : f[n] = step[<<f[n - 1], n>>]}
<1>1. 0 \in S
  <2> DEFINE g == [n \in 0..0 |-> start]
  <2>1. g \in [0..0 -> State] /\ g[0] = start
    OBVIOUS
  <2>2. \A n \in 1..0 : g[n] = step[<<g[n - 1], n>>]
    OBVIOUS
  <2> HIDE DEF g
  <2> QED
    BY <2>1, <2>2
<1>2. ASSUME NEW m \in 0..N - 1, m \in S PROVE m + 1 \in S
  <2>1. PICK f \in [0..m -> State] : f[0] = start /\ \A n \in 1..m : f[n] = step[<<f[n - 1], n>>]
    BY <1>2
  <2> DEFINE g == [n \in 0..m + 1 |-> IF n <= m THEN f[n] ELSE step[<<f[m], m + 1>>]]
  <2>2. <<f[m], m + 1>> \in State \X (1..N)
    BY <1>2
  <2>3. g \in [0..m + 1 -> State]
    BY <1>2, <2>2
  <2>4. g[0] = start
    BY <1>2, <2>1
  <2>5. ASSUME NEW n \in 1..m + 1 PROVE g[n] = step[<<g[n - 1], n>>]
    <3>1. CASE n = m + 1
      <4>1. g[n] = step[<<f[m], m + 1>>] /\ g[n - 1] = f[m]
        BY <1>2, <3>1
      <4> QED
        BY <3>1, <4>1
    <3>2. CASE n \in 1..m
      BY <1>2, <2>1, <3>2
    <3> QED
      BY <1>2, <3>1, <3>2
  <2> HIDE DEF g
  <2> QED
    BY <1>2, <2>3, <2>4, <2>5
<1> HIDE DEF S
<1>3. N \in S
  BY <1>1, <1>2, InductionUpTo
<1> QED
  BY <1>3 DEF S
=============================================================================
