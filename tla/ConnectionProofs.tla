-------------------------- MODULE ConnectionProofs --------------------------
(***************************************************************************)
(* Theorems about request() and strncasestrn() for every buffer and every  *)
(* capacity of the parts, and on them theorems about Connection for any    *)
(* clients, any answers that fit, and buffers, parts and limits on packets *)
(* of any size.                                                            *)
(***************************************************************************)
EXTENDS Connection, DataInduction, SequenceTheorems

(* The states of the parser: a status is set in the refused one alone, and  *)
(* each loop has its stages.                                                *)
Records ==
  [part : Parts \cup {"body", "refused"}, stage : 0..7, index : Nat,
   status : {0, 400, 414, 431, 501, 505}, len : [Parts -> Nat]]

States ==
  {st \in Records :
     /\ st.part = "refused" <=> st.status # 0
     /\ st.part = "protocol" => st.stage \in {3, 4}
     /\ st.part = "header" => st.stage \in 3..6
     /\ st.part = "body" => st.stage = 7}

LEMMA StartIsState == Start \in States
  BY DEF Start, States, Records, Parts

LEMMA RefuseIsState ==
  ASSUME NEW st \in States, NEW s \in {400, 414, 431, 501, 505}
  PROVE  Refuse(st, s) \in States /\ Refuse(st, s).index = st.index /\ Refuse(st, s).part = "refused"
<1>1. st \in Records
  BY DEF States
<1>2. Refuse(st, s) \in Records
  <2> DEFINE x == [st EXCEPT !.part = "refused"]
  <2>1. x \in Records
    BY <1>1 DEF Records
  <2> HIDE DEF x
  <2>2. [x EXCEPT !.status = s] \in Records
    BY <2>1 DEF Records
  <2>3. Refuse(st, s) = [x EXCEPT !.status = s]
    BY DEF Refuse, x
  <2> QED
    BY <2>2, <2>3
<1>3. /\ Refuse(st, s).part = "refused" /\ Refuse(st, s).status = s
      /\ Refuse(st, s).index = st.index
  BY <1>1 DEF Refuse, Records
<1> QED
  BY <1>2, <1>3 DEF States

LEMMA CountIsState ==
  ASSUME NEW st \in States, st.part \in Parts
  PROVE  /\ Count(st) \in States /\ Count(st).index = st.index
         /\ Count(st).part = st.part /\ Count(st).stage = st.stage
  BY DEF Count, States, Records

LEMMA EnterIsState ==
  ASSUME NEW st \in States, st.part \in Parts, NEW p \in Parts \cup {"body"}, NEW n \in 0..7,
         p = "protocol" => n \in {3, 4}, p = "header" => n \in 3..6, p = "body" => n = 7
  PROVE  /\ Enter(st, p, n) \in States /\ Enter(st, p, n).index = st.index
         /\ Enter(st, p, n).part = p /\ Enter(st, p, n).stage = n
<1>1. st \in Records /\ st.status = 0
  BY DEF States, Parts
<1>2. Enter(st, p, n) \in Records
  <2> DEFINE x == [st EXCEPT !.part = p]
  <2>1. x \in Records
    BY <1>1 DEF Records
  <2> HIDE DEF x
  <2>2. [x EXCEPT !.stage = n] \in Records
    BY <2>1 DEF Records
  <2>3. Enter(st, p, n) = [x EXCEPT !.stage = n]
    BY DEF Enter, x
  <2> QED
    BY <2>2, <2>3
<1>3. /\ Enter(st, p, n).part = p /\ Enter(st, p, n).stage = n
      /\ Enter(st, p, n).index = st.index /\ Enter(st, p, n).status = st.status
  BY <1>1 DEF Enter, Records
<1> QED
  BY <1>1, <1>2, <1>3 DEF States, Parts

LEMMA ReadIsState ==
  ASSUME NEW st \in States, NEW b \in Bytes, st.part \in Parts
  PROVE  Read(st, b) \in States /\ Read(st, b).index = st.index
<1>1. CASE st.part = "method"
  <2>1. Read(st, b) = ReadMethod(st, b)
    BY <1>1 DEF Read
  <2>2. Enter(st, "pathname", 1) \in States /\ Enter(st, "pathname", 1).index = st.index
    BY EnterIsState DEF Parts
  <2> QED
    BY <1>1, <2>1, <2>2, RefuseIsState, CountIsState DEF ReadMethod
<1>2. CASE st.part = "pathname"
  <2>1. Read(st, b) = ReadPathname(st, b)
    BY <1>2 DEF Read
  <2>2. Enter(st, "search", 2) \in States /\ Enter(st, "search", 2).index = st.index
    BY EnterIsState DEF Parts
  <2>3. Enter(st, "protocol", 3) \in States /\ Enter(st, "protocol", 3).index = st.index
    BY EnterIsState DEF Parts
  <2> QED
    BY <1>2, <2>1, <2>2, <2>3, RefuseIsState, CountIsState DEF ReadPathname
<1>3. CASE st.part = "search"
  <2>1. Read(st, b) = ReadSearch(st, b)
    BY <1>3 DEF Read
  <2>2. Enter(st, "protocol", 3) \in States /\ Enter(st, "protocol", 3).index = st.index
    BY EnterIsState DEF Parts
  <2> QED
    BY <1>3, <2>1, <2>2, RefuseIsState, CountIsState DEF ReadSearch
<1>4. CASE st.part = "protocol"
  <2>1. Read(st, b) = ReadProtocol(st, b)
    BY <1>4 DEF Read
  <2>2. Enter(st, "protocol", 4) \in States /\ Enter(st, "protocol", 4).index = st.index
    BY EnterIsState DEF Parts
  <2>3. Enter(st, "header", 5) \in States /\ Enter(st, "header", 5).index = st.index
    BY EnterIsState DEF Parts
  <2> QED
    BY <1>4, <2>1, <2>2, <2>3, RefuseIsState, CountIsState DEF ReadProtocol
<1>5. CASE st.part = "header"
  <2> DEFINE c == Count(st)
  <2>1. Read(st, b) = ReadHeader(st, b)
    BY <1>5 DEF Read
  <2>2. c \in States /\ c.index = st.index /\ c.part \in Parts
    BY CountIsState
  <2>3. st.stage \in 3..6
    BY <1>5 DEF States
  <2>4. Enter(c, "body", 7) \in States /\ Enter(c, "body", 7).index = st.index
    BY <2>2, EnterIsState DEF Parts
  <2>5. \A n \in 3..6 : Enter(c, "header", n) \in States /\ Enter(c, "header", n).index = st.index
    BY <2>2, EnterIsState DEF Parts
  <2> HIDE DEF c
  <2>6. Refuse(st, 400) \in States /\ Refuse(st, 400).index = st.index
    BY RefuseIsState
  <2>7. CASE b \in Eol /\ st.stage = 6
    BY <2>1, <2>4, <2>7 DEF ReadHeader, c
  <2>8. CASE b \in Eol /\ st.stage # 6
    <3>1. PICK n \in 3..6 : n = st.stage + 1
      BY <2>3, <2>8
    <3>2. Read(st, b) = Enter(c, "header", n)
      BY <2>1, <2>8, <3>1 DEF ReadHeader, c
    <3> QED
      BY <2>5, <3>2
  <2>9. CASE b \notin Eol
    BY <2>1, <2>5, <2>6, <2>9 DEF ReadHeader, c
  <2> QED
    BY <2>7, <2>8, <2>9
<1> QED
  BY <1>1, <1>2, <1>3, <1>4, <1>5 DEF Parts

LEMMA UnfinishedIsStatus ==
  ASSUME NEW st \in States, st.part \in Parts
  PROVE  Unfinished(st) \in {400, 414, 431, 501, 505}
  BY DEF Unfinished, Parts

(* A step past the last state that reads a byte changes nothing; any other  *)
(* reads one, and refuses the request when the part is full after it.       *)
LEMMA StepIsState ==
  ASSUME NEW st \in States, NEW b \in Bytes
  PROVE  /\ Step(st, b) \in States
         /\ st.part \notin Parts => Step(st, b) = st
         /\ st.part \in Parts =>
              /\ Step(st, b).index = st.index + 1
              /\ Step(st, b).part # "refused" =>
                   Step(st, b) = [Read(st, b) EXCEPT !.index = st.index + 1]
<1>1. CASE st.part \notin Parts
  BY <1>1 DEF Step, States, Records
<1>2. CASE st.part \in Parts
  <2> DEFINE next == [Read(st, b) EXCEPT !.index = st.index + 1]
  <2>1. st.part \notin {"body", "refused"}
    BY <1>2 DEF Parts
  <2>2. next \in States /\ next.index = st.index + 1
    <3>1. Read(st, b) \in States /\ st.index \in Nat
      BY <1>2, ReadIsState DEF States, Records
    <3> QED
      BY <3>1 DEF States, Records
  <2>3. Step(st, b) = IF next.part \in Parts /\ Full(next) THEN Refuse(next, Unfinished(next)) ELSE next
    BY <2>1 DEF Step
  <2> HIDE DEF next
  <2>4. next.part \in Parts => Refuse(next, Unfinished(next)) \in States
                               /\ Refuse(next, Unfinished(next)).index = next.index
                               /\ Refuse(next, Unfinished(next)).part = "refused"
    BY <2>2, UnfinishedIsStatus, RefuseIsState
  <2>5. Step(st, b) \in States /\ Step(st, b).index = st.index + 1
    BY <2>2, <2>3, <2>4
  <2>6. Step(st, b).part # "refused" => Step(st, b) = next
    BY <2>3, <2>4
  <2> QED
    BY <1>2, <2>5, <2>6 DEF next
<1> QED
  BY <1>1, <1>2

-----------------------------------------------------------------------------
(* Runs: the states after each byte of a buffer.                            *)

ParserRun(f, buffer) ==
  /\ f \in [0..Len(buffer) -> States]
  /\ f[0] = Start
  /\ \A n \in 1..Len(buffer) : f[n] = Step(f[n - 1], buffer[n])

(* What request() makes of the state it stops in.                           *)
ParsedFrom(end) ==
  IF end.part \in Parts THEN Refuse(end, Unfinished(end)) ELSE end

LEMMA ParserRunExists ==
  ASSUME NEW buffer \in Seq(Bytes)
  PROVE  \E f : ParserRun(f, buffer) /\ Parse(buffer) = ParsedFrom(f[Len(buffer)])
<1> DEFINE N == Len(buffer)
           step == [x \in States \X (1..N) |-> Step(x[1], buffer[x[2]])]
           Runs(g) == g = [n \in 0..N |->
                             IF n = 0 THEN Start
                             ELSE CHOOSE next \in {Step(st, buffer[n]) : st \in {g[n - 1]}} : TRUE]
<1>1. N \in Nat /\ \A n \in 1..N : buffer[n] \in Bytes
  OBVIOUS
<1>2. Automaton(N, States, Start, step)
  BY <1>1, StepIsState, StartIsState DEF Automaton
<1>3. PICK f \in [0..N -> States] : f[0] = Start /\ \A n \in 1..N : f[n] = step[<<f[n - 1], n>>]
  <2> HIDE DEF step
  <2>1. \E f : AutomatonRun(f, N, States, Start, step)
    BY <1>2, RunExists, Zenon
  <2> QED
    BY <2>1 DEF AutomatonRun
<1>4. \A n \in 1..N : f[n] = Step(f[n - 1], buffer[n])
  BY <1>1, <1>3
<1>5. Runs(f)
  <2>1. ASSUME NEW n \in 1..N
        PROVE  f[n] = CHOOSE next \in {Step(st, buffer[n]) : st \in {f[n - 1]}} : TRUE
    BY <1>4
  <2> QED
    BY <1>3, <2>1
<1>6. PICK g : g = CHOOSE h : Runs(h)
  OBVIOUS
<1>7. Runs(g)
  <2> HIDE DEF Runs
  <2> QED
    BY <1>5, <1>6, Zenon
<1>8. Parse(buffer) = ParsedFrom(g[N])
  BY <1>6 DEF Parse, ParsedFrom, Final
<1>9. g[0] = Start /\ DOMAIN g = 0..N
  BY <1>1, <1>7
<1>10. \A n \in 1..N : g[n] = Step(g[n - 1], buffer[n])
  BY <1>1, <1>7
<1>11. 0..N \subseteq {n \in 0..N : g[n] = f[n]}
  <2> DEFINE S == {n \in 0..N : g[n] = f[n]}
  <2>1. 0 \in S
    BY <1>1, <1>3, <1>9
  <2>2. \A n \in 0..N - 1 : n \in S => n + 1 \in S
    BY <1>1, <1>4, <1>10
  <2> HIDE DEF S
  <2>3. 0..N \subseteq S
    BY <1>1, <2>1, <2>2, InductionUpTo
  <2> QED
    BY <2>3 DEF S
<1>12. ParserRun(f, buffer)
  BY <1>3, <1>4 DEF ParserRun
<1> QED
  BY <1>1, <1>8, <1>11, <1>12

(* The states of the search for the end of the head.                        *)
MatchStates == [index : Nat, ind : 0..4]

MatchStart == [index |-> 0, ind |-> 0]

MatchRun(m, buffer) ==
  /\ m \in [0..Len(buffer) -> MatchStates]
  /\ m[0] = MatchStart
  /\ \A n \in 1..Len(buffer) : m[n] = Match(m[n - 1], buffer[n])

LEMMA MatchIsState ==
  ASSUME NEW st \in MatchStates, NEW b
  PROVE  /\ Match(st, b) \in MatchStates
         /\ st.ind = 4 => Match(st, b) = st
         /\ st.ind # 4 =>
              /\ Match(st, b).index = st.index + 1
              /\ Match(st, b).ind = IF b = Pattern[st.ind + 1] THEN st.ind + 1 ELSE 0
<1>1. Len(Pattern) = 4
  BY DEF Pattern
<1>2. st.index \in Nat /\ st.ind \in 0..4
  BY DEF MatchStates
<1> QED
  BY <1>1, <1>2 DEF Match, MatchStates

FoundFrom(end) == IF end.ind = Len(Pattern) THEN end.index ELSE 0

LEMMA MatchRunExists ==
  ASSUME NEW buffer \in Seq(Bytes)
  PROVE  \E m : MatchRun(m, buffer) /\ BodyIndex(buffer) = FoundFrom(m[Len(buffer)])
<1> DEFINE N == Len(buffer)
           step == [x \in MatchStates \X (1..N) |-> Match(x[1], buffer[x[2]])]
           Runs(g) == g = [n \in 0..N |->
                             IF n = 0 THEN MatchStart
                             ELSE CHOOSE next \in {Match(st, buffer[n]) : st \in {g[n - 1]}} : TRUE]
<1>1. N \in Nat
  OBVIOUS
<1>2. Automaton(N, MatchStates, MatchStart, step)
  <2>1. MatchStart \in MatchStates
    BY DEF MatchStart, MatchStates
  <2>2. step \in [MatchStates \X (1..N) -> MatchStates]
    BY <1>1, MatchIsState
  <2> QED
    BY <1>1, <2>1, <2>2 DEF Automaton
<1>3. PICK f \in [0..N -> MatchStates] :
        f[0] = MatchStart /\ \A n \in 1..N : f[n] = step[<<f[n - 1], n>>]
  <2> HIDE DEF step
  <2>1. \E f : AutomatonRun(f, N, MatchStates, MatchStart, step)
    BY <1>2, RunExists, Zenon
  <2> QED
    BY <2>1 DEF AutomatonRun
<1>4. \A n \in 1..N : f[n] = Match(f[n - 1], buffer[n])
  BY <1>1, <1>3
<1>5. Runs(f)
  <2>1. ASSUME NEW n \in 1..N
        PROVE  f[n] = CHOOSE next \in {Match(st, buffer[n]) : st \in {f[n - 1]}} : TRUE
    BY <1>4
  <2> QED
    BY <1>3, <2>1
<1>6. PICK g : g = CHOOSE h : Runs(h)
  OBVIOUS
<1>7. Runs(g)
  <2> HIDE DEF Runs
  <2> QED
    BY <1>5, <1>6, Zenon
<1>8. BodyIndex(buffer) = FoundFrom(g[N])
  BY <1>6 DEF BodyIndex, FoundFrom, Final, MatchStart
<1>9. g[0] = MatchStart /\ DOMAIN g = 0..N
  BY <1>1, <1>7
<1>10. \A n \in 1..N : g[n] = Match(g[n - 1], buffer[n])
  BY <1>1, <1>7
<1>11. 0..N \subseteq {n \in 0..N : g[n] = f[n]}
  <2> DEFINE S == {n \in 0..N : g[n] = f[n]}
  <2>1. 0 \in S
    BY <1>1, <1>3, <1>9
  <2>2. \A n \in 0..N - 1 : n \in S => n + 1 \in S
    BY <1>1, <1>4, <1>10
  <2> HIDE DEF S
  <2>3. 0..N \subseteq S
    BY <1>1, <2>1, <2>2, InductionUpTo
  <2> QED
    BY <2>3 DEF S
<1>12. MatchRun(f, buffer)
  BY <1>3, <1>4 DEF MatchRun
<1> QED
  BY <1>1, <1>8, <1>11, <1>12

-----------------------------------------------------------------------------
(* What the two searches for the end of the head have in common.            *)

(* How much of the end of the head a state of the parser has seen.          *)
SeenOf(st) ==
  IF st.part \in {"protocol", "header", "body"} THEN st.stage - 3 ELSE 0

(* Lines end as they should up to a byte.                                   *)
ProperUpTo(buffer, n) == \A k \in 1..n :
  /\ buffer[k] = "lf" => k > 1 /\ buffer[k - 1] = "cr"
  /\ buffer[k] = "cr" => k = n \/ buffer[k + 1] = "lf"

InStep(st, m, buffer, n) ==
  /\ st.part \in Parts => st.index = n
  /\ st.index <= n
  /\ m.index = st.index
  /\ m.ind = SeenOf(st)
  /\ m.ind \in {1, 3} <=> st.index > 0 /\ buffer[st.index] = "cr"

LEMMA ReadSeen ==
  ASSUME NEW st \in States, NEW b \in Bytes, st.part \in Parts, Read(st, b).part # "refused"
  PROVE  /\ SeenOf(st) \in 0..3
         /\ b \in Eol => SeenOf(Read(st, b)) = SeenOf(st) + 1
         /\ b \notin Eol /\ SeenOf(st) \in {0, 2} => SeenOf(Read(st, b)) = 0
<1> DEFINE c == Count(st)
<1>1. /\ st.part = "protocol" => st.stage \in {3, 4}
      /\ st.part = "header" => st.stage \in 3..6
  BY DEF States
<1>2. \A s \in {400, 414, 431, 501, 505} : Refuse(st, s).part = "refused"
  BY RefuseIsState
<1>3. c \in States /\ c.part = st.part /\ c.stage = st.stage
  BY CountIsState
<1>4. SeenOf(c) = SeenOf(st)
  BY <1>3 DEF SeenOf
<1>5. CASE st.part = "method"
  <2>1. Read(st, b) = ReadMethod(st, b)
    BY <1>5 DEF Read
  <2>2. Enter(st, "pathname", 1).part = "pathname"
    BY EnterIsState DEF Parts
  <2> QED
    BY <1>2, <1>4, <1>5, <2>1, <2>2 DEF ReadMethod, SeenOf, Control, Eol
<1>6. CASE st.part = "pathname"
  <2>1. Read(st, b) = ReadPathname(st, b)
    BY <1>6 DEF Read
  <2>2. Enter(st, "search", 2).part = "search"
    BY EnterIsState DEF Parts
  <2>3. Enter(st, "protocol", 3).part = "protocol" /\ Enter(st, "protocol", 3).stage = 3
    BY EnterIsState DEF Parts
  <2> QED
    BY <1>2, <1>4, <1>6, <2>1, <2>2, <2>3 DEF ReadPathname, SeenOf, Control, Eol
<1>7. CASE st.part = "search"
  <2>1. Read(st, b) = ReadSearch(st, b)
    BY <1>7 DEF Read
  <2>2. Enter(st, "protocol", 3).part = "protocol" /\ Enter(st, "protocol", 3).stage = 3
    BY EnterIsState DEF Parts
  <2> QED
    BY <1>2, <1>4, <1>7, <2>1, <2>2 DEF ReadSearch, SeenOf, Control, Eol
<1>8. CASE st.part = "protocol"
  <2>1. Read(st, b) = ReadProtocol(st, b)
    BY <1>8 DEF Read
  <2>2. Enter(st, "protocol", 4).part = "protocol" /\ Enter(st, "protocol", 4).stage = 4
    BY EnterIsState DEF Parts
  <2>3. Enter(st, "header", 5).part = "header" /\ Enter(st, "header", 5).stage = 5
    BY EnterIsState DEF Parts
  <2> QED
    <3>1. SeenOf(st) = st.stage - 3 /\ st.stage \in {3, 4}
      BY <1>1, <1>8 DEF SeenOf
    <3>2. CASE b \in Eol /\ st.stage = 3
      BY <2>1, <2>2, <3>1, <3>2 DEF ReadProtocol, SeenOf
    <3>3. CASE b \in Eol /\ st.stage = 4
      BY <1>2, <2>1, <2>3, <3>1, <3>3 DEF ReadProtocol, SeenOf
    <3>4. CASE b \notin Eol
      BY <1>2, <1>4, <2>1, <3>1, <3>4 DEF ReadProtocol
    <3> QED
      BY <3>1, <3>2, <3>3, <3>4
<1>9. CASE st.part = "header"
  <2>1. Read(st, b) = ReadHeader(st, b)
    BY <1>9 DEF Read
  <2>2. Enter(c, "body", 7).part = "body" /\ Enter(c, "body", 7).stage = 7
    BY <1>3, EnterIsState DEF Parts
  <2>3. \A n \in 3..6 : Enter(c, "header", n).part = "header" /\ Enter(c, "header", n).stage = n
    BY <1>3, EnterIsState DEF Parts
  <2> HIDE DEF c
  <2>4. CASE b \in Eol /\ st.stage = 6
    BY <1>9, <2>1, <2>2, <2>4 DEF ReadHeader, SeenOf, c
  <2>5. CASE b \in Eol /\ st.stage # 6
    <3>1. PICK n \in 3..6 : n = st.stage + 1
      BY <1>1, <1>9, <2>5
    <3>2. Read(st, b) = Enter(c, "header", n)
      BY <2>1, <2>5, <3>1 DEF ReadHeader, c
    <3> QED
      BY <1>1, <1>9, <2>3, <2>5, <3>1, <3>2 DEF SeenOf
  <2>6. CASE b \notin Eol
    <3>1. Read(st, b) = Refuse(st, 400) \/ Read(st, b) = Enter(c, "header", 3)
      BY <2>1, <2>6 DEF ReadHeader, c
    <3> QED
      BY <1>1, <1>2, <1>9, <2>3, <2>6, <3>1 DEF SeenOf
  <2> QED
    BY <2>4, <2>5, <2>6
<1> QED
  BY <1>5, <1>6, <1>7, <1>8, <1>9 DEF Parts

LEMMA Lockstep ==
  ASSUME NEW buffer \in Seq(Bytes), NEW f, ParserRun(f, buffer), NEW m, MatchRun(m, buffer),
         NEW n \in 0..Len(buffer), f[n].part # "refused", ProperUpTo(buffer, f[n].index)
  PROVE  InStep(f[n], m[n], buffer, n)
<1> DEFINE N == Len(buffer)
           Good(k) == f[k].part # "refused" /\ ProperUpTo(buffer, f[k].index)
                        => InStep(f[k], m[k], buffer, k)
           S == {k \in 0..N : Good(k)}
<1>1. /\ N \in Nat /\ \A k \in 1..N : buffer[k] \in Bytes
      /\ \A k \in 0..N : f[k] \in States /\ m[k] \in MatchStates
  <2>1. N \in Nat /\ \A k \in 1..N : buffer[k] \in Bytes
    OBVIOUS
  <2>2. f \in [0..N -> States] /\ m \in [0..N -> MatchStates]
    BY DEF ParserRun, MatchRun
  <2> QED
    BY <2>1, <2>2
<1>2. 0 \in S
  BY <1>1 DEF ParserRun, MatchRun, Start, MatchStart, InStep, SeenOf, Parts
<1>3. ASSUME NEW k \in 0..N - 1, k \in S PROVE k + 1 \in S
  <2> SUFFICES ASSUME f[k + 1].part # "refused", ProperUpTo(buffer, f[k + 1].index)
               PROVE  InStep(f[k + 1], m[k + 1], buffer, k + 1)
    BY <1>1
  <2> DEFINE b == buffer[k + 1]
  <2>1. /\ f[k + 1] = Step(f[k], b) /\ m[k + 1] = Match(m[k], b)
        /\ b \in Bytes /\ f[k] \in States /\ m[k] \in MatchStates
        /\ k + 1 \in 1..N
    BY <1>1 DEF ParserRun, MatchRun
  <2>2. CASE f[k].part \notin Parts
    <3>1. f[k + 1] = f[k]
      BY <2>1, <2>2, StepIsState
    <3>2. f[k].part = "body" /\ f[k].stage = 7
      BY <2>1, <2>2, <3>1 DEF States, Records
    <3>3. InStep(f[k], m[k], buffer, k)
      BY <1>3, <3>1
    <3>4. m[k].ind = 4
      BY <3>2, <3>3 DEF InStep, SeenOf
    <3>5. m[k + 1] = m[k]
      BY <2>1, <3>4, MatchIsState
    <3> QED
      BY <1>1, <3>1, <3>3, <3>5, <2>2 DEF InStep, States, Records
  <2>3. CASE f[k].part \in Parts
    <3>1. f[k + 1].index = f[k].index + 1 /\ f[k + 1] = [Read(f[k], b) EXCEPT !.index = f[k].index + 1]
      BY <2>1, <2>3, StepIsState
    <3>2. f[k].index \in Nat
      BY <2>1 DEF States, Records
    <3>3. ProperUpTo(buffer, f[k].index) /\ f[k].part # "refused"
      BY <2>3, <3>1, <3>2, SMTT(30) DEF ProperUpTo, Parts
    <3>4. InStep(f[k], m[k], buffer, k)
      BY <1>3, <3>3
    <3>5. f[k].index = k /\ f[k + 1].index = k + 1
      BY <2>3, <3>1, <3>4 DEF InStep
    <3> DEFINE r == Read(f[k], b)
               s == SeenOf(f[k])
    <3>6. r \in States
      BY <2>1, <2>3, ReadIsState
    <3>7. f[k + 1].part = r.part /\ f[k + 1].stage = r.stage
      BY <3>1, <3>6 DEF States, Records
    <3>8. /\ s \in 0..3
          /\ b \in Eol => SeenOf(f[k + 1]) = s + 1
          /\ b \notin Eol /\ s \in {0, 2} => SeenOf(f[k + 1]) = 0
      BY <2>1, <2>3, <3>7, ReadSeen DEF SeenOf
    <3>9. /\ m[k + 1].index = k + 1
          /\ m[k + 1].ind = IF b = Pattern[s + 1] THEN s + 1 ELSE 0
      BY <2>1, <3>4, <3>5, <3>8, MatchIsState DEF InStep
    <3>10. s \in {1, 3} <=> k > 0 /\ buffer[k] = "cr"
      BY <3>4, <3>5 DEF InStep
    <3>11. /\ b = "lf" => k > 0 /\ buffer[k] = "cr"
           /\ k > 0 /\ buffer[k] = "cr" => b = "lf"
      BY <1>1, <3>5 DEF ProperUpTo
    <3>12. /\ Pattern[1] = "cr" /\ Pattern[2] = "lf" /\ Pattern[3] = "cr" /\ Pattern[4] = "lf"
      BY DEF Pattern
    <3> HIDE DEF b, r, s
    <3>13. CASE s \in {1, 3}
      <4>1. b = "lf" /\ b \in Eol /\ b = Pattern[s + 1]
        BY <3>10, <3>11, <3>12, <3>13 DEF Eol
      <4>2. m[k + 1].ind = s + 1 /\ SeenOf(f[k + 1]) = s + 1
        BY <3>8, <3>9, <4>1
      <4> QED
        BY <1>1, <3>5, <3>9, <3>13, <4>1, <4>2 DEF InStep, b
    <3>14. CASE s \in {0, 2} /\ b = "cr"
      <4>1. b \in Eol /\ b = Pattern[s + 1]
        BY <3>12, <3>14 DEF Eol
      <4>2. m[k + 1].ind = s + 1 /\ SeenOf(f[k + 1]) = s + 1
        BY <3>8, <3>9, <4>1
      <4> QED
        BY <1>1, <3>5, <3>9, <3>14, <4>2 DEF InStep, b
    <3>15. CASE s \in {0, 2} /\ b # "cr"
      <4>1. b \notin Eol /\ b # Pattern[s + 1]
        BY <3>10, <3>11, <3>12, <3>15 DEF Eol
      <4>2. m[k + 1].ind = 0 /\ SeenOf(f[k + 1]) = 0
        BY <3>8, <3>9, <3>15, <4>1
      <4> QED
        BY <1>1, <3>5, <3>9, <3>15, <4>2 DEF InStep, b
    <3> QED
      BY <3>8, <3>13, <3>14, <3>15
  <2> QED
    BY <2>2, <2>3
<1> HIDE DEF S
<1>4. 0..N \subseteq S
  BY <1>1, <1>2, <1>3, InductionUpTo
<1> QED
  BY <1>4 DEF S

LEMMA ParsedFromState ==
  ASSUME NEW st \in States
  PROVE  /\ ParsedFrom(st) \in States /\ ParsedFrom(st).index = st.index
         /\ ParsedFrom(st).part \in {"body", "refused"}
         /\ ParsedFrom(st).status = 0 => st.part = "body" /\ ParsedFrom(st) = st
<1>1. CASE st.part \in Parts
  <2>1. /\ ParsedFrom(st) \in States /\ ParsedFrom(st).index = st.index
        /\ ParsedFrom(st).part = "refused"
    BY <1>1, UnfinishedIsStatus, RefuseIsState DEF ParsedFrom
  <2> QED
    BY <2>1 DEF States
<1>2. CASE st.part \notin Parts
  BY <1>2 DEF ParsedFrom, States, Records
<1> QED
  BY <1>1, <1>2

LEMMA ReadsNoMore ==
  ASSUME NEW buffer \in Seq(Bytes), NEW f, ParserRun(f, buffer), NEW n \in 0..Len(buffer)
  PROVE  f[n] \in States /\ f[n].index <= n
<1> DEFINE N == Len(buffer)
           S == {k \in 0..N : f[k].index <= k}
<1>1. N \in Nat /\ f \in [0..N -> States] /\ f[0] = Start
  BY DEF ParserRun
<1>2. 0 \in S
  BY <1>1 DEF Start
<1>3. ASSUME NEW k \in 0..N - 1, k \in S PROVE k + 1 \in S
  <2>1. f[k + 1] = Step(f[k], buffer[k + 1]) /\ buffer[k + 1] \in Bytes /\ f[k] \in States
    BY <1>1 DEF ParserRun
  <2>2. f[k].index \in Nat
    BY <2>1 DEF States, Records
  <2>3. f[k + 1].index \in {f[k].index, f[k].index + 1}
    BY <2>1, StepIsState
  <2> QED
    BY <1>3, <2>2, <2>3
<1> HIDE DEF S
<1>4. 0..N \subseteq S
  BY <1>1, <1>2, <1>3, InductionUpTo
<1> QED
  BY <1>1, <1>4 DEF S

(* request() ends in the body or refuses, and reads no byte past the last.  *)
THEOREM ParseType ==
  ASSUME NEW buffer \in Seq(Bytes)
  PROVE  /\ Parse(buffer) \in States /\ Parse(buffer).part \in {"body", "refused"}
         /\ Parse(buffer).index \in 0..Len(buffer)
<1>1. PICK f : ParserRun(f, buffer) /\ Parse(buffer) = ParsedFrom(f[Len(buffer)])
  BY ParserRunExists
<1>2. Len(buffer) \in 0..Len(buffer)
  OBVIOUS
<1>3. f[Len(buffer)] \in States /\ f[Len(buffer)].index <= Len(buffer)
  BY <1>1, <1>2, ReadsNoMore
<1>4. f[Len(buffer)].index \in Nat
  BY <1>3 DEF States, Records
<1> QED
  BY <1>1, <1>3, <1>4, ParsedFromState

LEMMA RunsAlike ==
  ASSUME NEW buffer \in Seq(Bytes), NEW m, MatchRun(m, buffer),
         NEW n \in 0..Len(buffer), NEW r, MatchRun(r, SubSeq(buffer, 1, n))
  PROVE  r[n] = m[n]
<1> DEFINE S == {k \in 0..n : r[k] = m[k]}
<1>1. /\ Len(buffer) \in Nat /\ Len(SubSeq(buffer, 1, n)) = n
      /\ \A k \in 1..n : SubSeq(buffer, 1, n)[k] = buffer[k]
  OBVIOUS
<1>2. 0 \in S
  BY DEF MatchRun
<1>3. ASSUME NEW k \in 0..n - 1, k \in S PROVE k + 1 \in S
  <2>1. r[k + 1] = Match(r[k], SubSeq(buffer, 1, n)[k + 1])
    BY <1>1 DEF MatchRun
  <2>2. m[k + 1] = Match(m[k], buffer[k + 1])
    BY <1>1 DEF MatchRun
  <2> QED
    BY <1>1, <1>3, <2>1, <2>2
<1> HIDE DEF S
<1>4. 0..n \subseteq S
  BY <1>2, <1>3, InductionUpTo
<1> QED
  BY <1>4 DEF S

LEMMA MatchIsFinal ==
  ASSUME NEW buffer \in Seq(Bytes), NEW m, MatchRun(m, buffer),
         NEW n \in 0..Len(buffer), m[n].ind = 4
  PROVE  m[Len(buffer)] = m[n]
<1> DEFINE N == Len(buffer)
           S == {k \in 0..N : k >= n => m[k] = m[n]}
<1>1. N \in Nat /\ m \in [0..N -> MatchStates]
  BY DEF MatchRun
<1>2. 0 \in S
  OBVIOUS
<1>3. ASSUME NEW k \in 0..N - 1, k \in S PROVE k + 1 \in S
  <2>1. m[k + 1] = Match(m[k], buffer[k + 1]) /\ m[k] \in MatchStates
    BY <1>1 DEF MatchRun
  <2>2. k >= n => m[k + 1] = m[n]
    BY <1>3, <2>1, MatchIsState
  <2> QED
    BY <2>2
<1> HIDE DEF S
<1>4. 0..N \subseteq S
  BY <1>1, <1>2, <1>3, InductionUpTo
<1> QED
  BY <1>1, <1>4 DEF S

LEMMA MatchReadsNoMore ==
  ASSUME NEW buffer \in Seq(Bytes), NEW m, MatchRun(m, buffer), NEW n \in 0..Len(buffer)
  PROVE  m[n] \in MatchStates /\ m[n].index <= n
<1> DEFINE N == Len(buffer)
           S == {k \in 0..N : m[k].index <= k}
<1>1. N \in Nat /\ m \in [0..N -> MatchStates] /\ m[0] = MatchStart
  BY DEF MatchRun
<1>2. 0 \in S
  BY <1>1 DEF MatchStart
<1>3. ASSUME NEW k \in 0..N - 1, k \in S PROVE k + 1 \in S
  <2>1. m[k + 1] = Match(m[k], buffer[k + 1]) /\ m[k] \in MatchStates
    BY <1>1 DEF MatchRun
  <2>2. m[k].index \in Nat
    BY <2>1 DEF MatchStates
  <2>3. m[k + 1].index \in {m[k].index, m[k].index + 1}
    BY <2>1, MatchIsState
  <2> QED
    BY <1>3, <2>2, <2>3
<1> HIDE DEF S
<1>4. 0..N \subseteq S
  BY <1>1, <1>2, <1>3, InductionUpTo
<1> QED
  BY <1>1, <1>4 DEF S

(* strncasestrn() finds the end of the head within the buffer or says 0.    *)
LEMMA BodyIndexType ==
  ASSUME NEW buffer \in Seq(Bytes)
  PROVE  BodyIndex(buffer) \in 0..Len(buffer)
<1>1. PICK m : MatchRun(m, buffer) /\ BodyIndex(buffer) = FoundFrom(m[Len(buffer)])
  BY MatchRunExists
<1>2. Len(buffer) \in 0..Len(buffer)
  OBVIOUS
<1>3. m[Len(buffer)] \in MatchStates /\ m[Len(buffer)].index <= Len(buffer)
  BY <1>1, <1>2, MatchReadsNoMore
<1> QED
  BY <1>1, <1>2, <1>3 DEF FoundFrom, MatchStates

(* The end of the head, once it has arrived, stays where it was found,      *)
(* whatever arrives after it.                                               *)
THEOREM BodyIndexStays ==
  ASSUME NEW buffer \in Seq(Bytes), NEW n \in 0..Len(buffer),
         BodyIndex(SubSeq(buffer, 1, n)) # 0
  PROVE  BodyIndex(buffer) = BodyIndex(SubSeq(buffer, 1, n))
<1> DEFINE first == SubSeq(buffer, 1, n)
<1>1. first \in Seq(Bytes) /\ Len(first) = n
  OBVIOUS
<1>2. PICK m : MatchRun(m, buffer) /\ BodyIndex(buffer) = FoundFrom(m[Len(buffer)])
  BY MatchRunExists
<1>3. PICK r : MatchRun(r, first) /\ BodyIndex(first) = FoundFrom(r[Len(first)])
  BY <1>1, MatchRunExists
<1>4. r[n] = m[n]
  BY <1>2, <1>3, RunsAlike
<1>5. Len(Pattern) = 4
  BY DEF Pattern
<1>6. r[n].ind = 4
  BY <1>1, <1>3, <1>5 DEF FoundFrom
<1>7. m[Len(buffer)] = m[n]
  BY <1>2, <1>4, <1>6, MatchIsFinal
<1> QED
  BY <1>1, <1>2, <1>3, <1>4, <1>7

(* Nothing is done before the first byte is read.                           *)
LEMMA AtStart ==
  ASSUME NEW buffer \in Seq(Bytes), NEW f, ParserRun(f, buffer), NEW n \in 0..Len(buffer),
         f[n].index = 0
  PROVE  f[n] = Start
<1> DEFINE N == Len(buffer)
           S == {k \in 0..N : f[k].index = 0 => f[k] = Start}
<1>1. N \in Nat /\ f \in [0..N -> States] /\ f[0] = Start
  BY DEF ParserRun
<1>2. 0 \in S
  BY <1>1
<1>3. ASSUME NEW k \in 0..N - 1, k \in S PROVE k + 1 \in S
  <2>1. f[k + 1] = Step(f[k], buffer[k + 1]) /\ buffer[k + 1] \in Bytes /\ f[k] \in States
    BY <1>1 DEF ParserRun
  <2>2. f[k].index \in Nat
    BY <2>1 DEF States, Records
  <2>3. f[k + 1] = f[k] \/ f[k + 1].index = f[k].index + 1
    BY <2>1, StepIsState
  <2> QED
    BY <1>3, <2>2, <2>3
<1> HIDE DEF S
<1>4. 0..N \subseteq S
  BY <1>1, <1>2, <1>3, InductionUpTo
<1> QED
  BY <1>4 DEF S

(* handle() and request() look for the end of the head each in its own way, *)
(* the one for a line end that is repeated, the other by counting line ends *)
(* from a number that depends on what came before (app.c:55, strn.c:5-29,   *)
(* request.c:101-163): where lines end as they should they agree, for every *)
(* buffer and every capacity of the parts.                                  *)
THEOREM HeadEndsAgree ==
  ASSUME NEW buffer \in Seq(Bytes), Parse(buffer).status = 0,
         ProperLines(SubSeq(buffer, 1, Parse(buffer).index))
  PROVE  BodyIndex(buffer) = Parse(buffer).index /\ Parse(buffer).index > 0
<1> DEFINE N == Len(buffer)
<1>1. N \in Nat /\ N \in 0..Len(buffer)
  OBVIOUS
<1>2. PICK f : ParserRun(f, buffer) /\ Parse(buffer) = ParsedFrom(f[N])
  BY ParserRunExists
<1>3. PICK m : MatchRun(m, buffer) /\ BodyIndex(buffer) = FoundFrom(m[N])
  BY MatchRunExists
<1>4. f[N] \in States /\ f[N].index <= N
  BY <1>1, <1>2, ReadsNoMore
<1>5. f[N].part = "body" /\ Parse(buffer) = f[N]
  BY <1>2, <1>4, ParsedFromState
<1>6. f[N].index \in 0..N /\ f[N].stage = 7
  BY <1>1, <1>4, <1>5 DEF States, Records
<1>7. ProperUpTo(buffer, f[N].index)
  <2> DEFINE x == f[N].index
             head == SubSeq(buffer, 1, x)
  <2>1. Len(head) = x /\ \A k \in 1..x : head[k] = buffer[k]
    BY <1>1, <1>6
  <2>2. ProperLines(head)
    BY <1>5
  <2> HIDE DEF head, x
  <2>3. x \in Nat
    BY <1>6 DEF x
  <2>4. ProperUpTo(buffer, x)
    BY <2>1, <2>2, <2>3 DEF ProperLines, ProperUpTo
  <2> QED
    BY <2>4 DEF x
<1>8. InStep(f[N], m[N], buffer, N)
  BY <1>1, <1>2, <1>3, <1>5, <1>7, Lockstep
<1>9. m[N].ind = 4 /\ m[N].index = f[N].index
  BY <1>5, <1>6, <1>8 DEF InStep, SeenOf
<1>10. BodyIndex(buffer) = Parse(buffer).index
  BY <1>3, <1>5, <1>9 DEF FoundFrom, Pattern
<1>11. f[N].index # 0
  BY <1>1, <1>2, <1>5, AtStart DEF Start
<1> QED
  BY <1>5, <1>6, <1>10, <1>11
-----------------------------------------------------------------------------
(* The parser and the grammar of a request.                                 *)

(* The first place j after i with a byte of a class, past the end for none. *)
First(buffer, i, classes, j) ==
  /\ j \in 1..(Len(buffer) + 1)
  /\ i <= Len(buffer) => j > i
  /\ i > Len(buffer) => j = Len(buffer) + 1
  /\ \A k \in (i + 1)..(j - 1) : buffer[k] \notin classes
  /\ j <= Len(buffer) => buffer[j] \in classes

PatternEnds(buffer, k) ==
  buffer[k - 3] = "cr" /\ buffer[k - 2] = "lf" /\ buffer[k - 1] = "cr" /\ buffer[k] = "lf"

(* Where a request's method, pathname, search, first line and head end.     *)
Landmarks(buffer, m, p, s, line, end) ==
  /\ First(buffer, 0, {"space"}, m)
  /\ First(buffer, m, {"space", "mark"}, p)
  /\ p <= Len(buffer) /\ buffer[p] = "mark" => First(buffer, p, {"space"}, s)
  /\ ~(p <= Len(buffer) /\ buffer[p] = "mark") => s = p
  /\ First(buffer, s, {"cr"}, line)
  /\ end \in 1..(Len(buffer) + 1)
  /\ \A k \in (line + 3)..(end - 1) : ~PatternEnds(buffer, k)
  /\ end <= Len(buffer) => end >= line + 3 /\ PatternEnds(buffer, end)

PartLength(part, m, p, s, line, end) ==
  CASE part = "method" -> m - 1
    [] part = "pathname" -> p - m - 1
    [] part = "search" -> IF s = p THEN 0 ELSE s - p - 1
    [] part = "protocol" -> line - s - 1
    [] part = "header" -> end - line - 1

IsRequest(buffer, m, p, s, line, end) ==
  /\ end <= Len(buffer)
  /\ \A k \in 1..(end - 1) : buffer[k] # "ctl"
  /\ \A k \in 1..(line - 1) : buffer[k] \notin Control
  /\ m > 1 /\ p > m + 1 /\ line > s + 1
  /\ \A part \in Parts \ {"header"} : PartLength(part, m, p, s, line, end) < Cap[part]
  /\ PartLength("header", m, p, s, line, end) <= Cap["header"]

LEMMA LeastOf ==
  ASSUME NEW S \in SUBSET Nat, NEW x \in S
  PROVE  Least(S) \in S /\ \A y \in S : Least(S) <= y
<1>1. \E y \in S : \A z \in S : y <= z
  <2>1. S # {} /\ S \subseteq Nat
    OBVIOUS
  <2> QED
    BY <2>1, LeastNumber
<1> QED
  BY <1>1 DEF Least

LEMMA FirstAfterIs ==
  ASSUME NEW buffer \in Seq(Bytes), NEW i \in Nat, i <= Len(buffer) + 1, NEW classes
  PROVE  First(buffer, i, classes, FirstAfter(buffer, i, classes))
<1> DEFINE N == Len(buffer)
           S == {k \in (i + 1)..N : buffer[k] \in classes} \cup {N + 1}
           j == Least(S)
<1>1. N \in Nat
  OBVIOUS
<1>2. S \in SUBSET Nat /\ N + 1 \in S
  BY <1>1
<1>3. j \in S /\ \A y \in S : j <= y
  <2> HIDE DEF S
  <2> QED
    BY <1>2, LeastOf
<1>4. j \in 1..(N + 1) /\ (i <= N => j > i) /\ (i > N => j = N + 1) /\ (j <= N => buffer[j] \in classes)
  <2> HIDE DEF j
  <2> QED
    BY <1>1, <1>3
<1>5. \A k \in (i + 1)..(j - 1) : buffer[k] \notin classes
  <2> HIDE DEF j
  <2> SUFFICES ASSUME NEW k \in (i + 1)..(j - 1), buffer[k] \in classes PROVE FALSE
    OBVIOUS
  <2>1. k \in S /\ k < j
    BY <1>1, <1>4
  <2>2. j <= k
    BY <1>3, <2>1
  <2>3. j \in Nat /\ k \in Nat
    BY <1>1, <1>4
  <2> QED
    BY <2>1, <2>2, <2>3
<1>6. FirstAfter(buffer, i, classes) = j
  BY DEF FirstAfter
<1> HIDE DEF j
<1> QED
  BY <1>4, <1>5, <1>6 DEF First

LEMMA PatternIs ==
  ASSUME NEW buffer \in Seq(Bytes), NEW k \in 4..Len(buffer)
  PROVE  SubSeq(buffer, k - 3, k) = Pattern <=> PatternEnds(buffer, k)
<1> DEFINE t == SubSeq(buffer, k - 3, k)
<1>1. /\ t \in Seq(Bytes) /\ Len(t) = 4
      /\ t[1] = buffer[k - 3] /\ t[2] = buffer[k - 2] /\ t[3] = buffer[k - 1] /\ t[4] = buffer[k]
  OBVIOUS
<1>2. /\ Pattern \in Seq(Bytes) /\ Len(Pattern) = 4
      /\ Pattern[1] = "cr" /\ Pattern[2] = "lf" /\ Pattern[3] = "cr" /\ Pattern[4] = "lf"
  BY DEF Pattern, Bytes
<1> HIDE DEF t
<1>3. t = Pattern <=> \A i \in 1..4 : t[i] = Pattern[i]
  BY <1>1, <1>2
<1>4. (\A i \in 1..4 : t[i] = Pattern[i])
        <=> t[1] = Pattern[1] /\ t[2] = Pattern[2] /\ t[3] = Pattern[3] /\ t[4] = Pattern[4]
  OBVIOUS
<1> QED
  BY <1>1, <1>2, <1>3, <1>4 DEF PatternEnds, t

Lengths(m, p, s, line, end) ==
  [method |-> m - 1, pathname |-> p - m - 1, search |-> IF s = p THEN 0 ELSE s - p - 1,
   protocol |-> line - s - 1, header |-> end - line - 1]

LEMMA LengthsAre ==
  ASSUME NEW m, NEW p, NEW s, NEW line, NEW end
  PROVE  /\ DOMAIN Lengths(m, p, s, line, end) = Parts
         /\ \A part \in Parts : Lengths(m, p, s, line, end)[part] = PartLength(part, m, p, s, line, end)
         /\ Lengths(m, p, s, line, end) = [part \in Parts |-> Lengths(m, p, s, line, end)[part]]
<1> DEFINE l == Lengths(m, p, s, line, end)
<1>1. /\ l["method"] = m - 1 /\ l["pathname"] = p - m - 1 /\ l["search"] = IF s = p THEN 0 ELSE s - p - 1
      /\ l["protocol"] = line - s - 1 /\ l["header"] = end - line - 1
  BY DEF Lengths
<1>2. DOMAIN l = Parts
  BY DEF Lengths, Parts
<1>3. \A part \in Parts : l[part] = PartLength(part, m, p, s, line, end)
  BY <1>1 DEF PartLength, Parts
<1>4. l = [part \in DOMAIN l |-> l[part]]
  BY DEF Lengths
<1> QED
  BY <1>2, <1>3, <1>4

(* Between as a property of places.                                         *)
LEMMA BetweenIs ==
  ASSUME NEW buffer, NEW j \in Nat
  PROVE  /\ "ctl" \notin Between(buffer, 0, j) <=> \A k \in 1..(j - 1) : buffer[k] # "ctl"
         /\ Between(buffer, 0, j) \cap Control = {} <=> \A k \in 1..(j - 1) : buffer[k] \notin Control
  BY DEF Between

LEMMA HeadEndIs ==
  ASSUME NEW buffer \in Seq(Bytes), NEW line \in 1..(Len(buffer) + 1)
  PROVE  LET end == HeadEnd(buffer, line) IN
         /\ end \in 1..(Len(buffer) + 1)
         /\ \A k \in (line + 3)..(end - 1) : ~PatternEnds(buffer, k)
         /\ end <= Len(buffer) => end >= line + 3 /\ PatternEnds(buffer, end)
<1> DEFINE N == Len(buffer)
           S == {k \in (line + 3)..N : SubSeq(buffer, k - 3, k) = Pattern} \cup {N + 1}
           j == Least(S)
<1>1. N \in Nat
  OBVIOUS
<1>2. S \in SUBSET Nat /\ N + 1 \in S
  BY <1>1
<1>3. j \in S /\ \A y \in S : j <= y
  <2> HIDE DEF S
  <2> QED
    BY <1>2, LeastOf
<1>a. \A k \in (line + 3)..N : k \in 4..N
  BY <1>1
<1>4. j \in 1..(N + 1) /\ (j <= N => j >= line + 3 /\ PatternEnds(buffer, j))
  <2> HIDE DEF j
  <2>1. j = N + 1 \/ (j \in (line + 3)..N /\ SubSeq(buffer, j - 3, j) = Pattern)
    BY <1>3
  <2>2. j \in (line + 3)..N /\ SubSeq(buffer, j - 3, j) = Pattern => PatternEnds(buffer, j)
    BY <1>a, PatternIs
  <2> QED
    BY <1>1, <2>1, <2>2
<1>5. \A k \in (line + 3)..(j - 1) : ~PatternEnds(buffer, k)
  <2> HIDE DEF j
  <2> SUFFICES ASSUME NEW k \in (line + 3)..(j - 1), PatternEnds(buffer, k) PROVE FALSE
    OBVIOUS
  <2>1. k \in (line + 3)..N /\ k < j
    BY <1>1, <1>4
  <2>2. SubSeq(buffer, k - 3, k) = Pattern
    BY <1>a, <2>1, PatternIs
  <2>3. j <= k
    BY <1>3, <2>1, <2>2
  <2>4. j \in Nat /\ k \in Nat
    BY <1>1, <1>4
  <2> QED
    BY <2>1, <2>3, <2>4
<1>6. HeadEnd(buffer, line) = j
  BY DEF HeadEnd
<1> HIDE DEF j
<1> QED
  BY <1>4, <1>5, <1>6

(* The grammar, by the places of a request.                                 *)
LEMMA RequestIs ==
  ASSUME NEW buffer \in Seq(Bytes)
  PROVE  \E m, p, s, line, end :
           /\ Landmarks(buffer, m, p, s, line, end)
           /\ Request(buffer) = IF IsRequest(buffer, m, p, s, line, end)
                                THEN [index |-> end, len |-> Lengths(m, p, s, line, end)]
                                ELSE [index |-> 0, len |-> Start.len]
<1> DEFINE N == Len(buffer)
<1>0. N \in Nat
  OBVIOUS
<1>1. PICK m : m = FirstAfter(buffer, 0, {"space"}) /\ First(buffer, 0, {"space"}, m)
  BY <1>0, FirstAfterIs
<1>2. m \in Nat /\ m <= N + 1
  BY <1>0, <1>1 DEF First
<1>3. PICK p : p = FirstAfter(buffer, m, {"space", "mark"}) /\ First(buffer, m, {"space", "mark"}, p)
  BY <1>2, FirstAfterIs
<1>4. p \in Nat /\ p <= N + 1
  BY <1>0, <1>3 DEF First
<1>5. PICK s : /\ s = IF p <= N /\ buffer[p] = "mark" THEN FirstAfter(buffer, p, {"space"}) ELSE p
               /\ p <= N /\ buffer[p] = "mark" => First(buffer, p, {"space"}, s)
  BY <1>4, FirstAfterIs
<1>6. s \in Nat /\ s <= N + 1
  BY <1>0, <1>4, <1>5 DEF First
<1>7. PICK line : line = FirstAfter(buffer, s, {"cr"}) /\ First(buffer, s, {"cr"}, line)
  BY <1>6, FirstAfterIs
<1>8. line \in 1..(N + 1)
  BY <1>7 DEF First
<1>9. PICK end :
        /\ end = HeadEnd(buffer, line)
        /\ end \in 1..(N + 1)
        /\ \A k \in (line + 3)..(end - 1) : ~PatternEnds(buffer, k)
        /\ end <= N => end >= line + 3 /\ PatternEnds(buffer, end)
  BY <1>8, HeadEndIs
<1>10. Landmarks(buffer, m, p, s, line, end)
  BY <1>1, <1>3, <1>5, <1>7, <1>9, SMTT(30) DEF Landmarks
<1> DEFINE lens == Lengths(m, p, s, line, end)
           ok == /\ end <= N
                 /\ "ctl" \notin Between(buffer, 0, end)
                 /\ Between(buffer, 0, line) \cap Control = {}
                 /\ \A part \in Parts \ {"search", "header"} : lens[part] > 0
                 /\ \A part \in Parts \ {"header"} : lens[part] < Cap[part]
                 /\ lens["header"] <= Cap["header"]
<1>11. Request(buffer) = IF ok THEN [index |-> end, len |-> lens] ELSE [index |-> 0, len |-> Start.len]
  BY <1>1, <1>3, <1>5, <1>7, <1>9 DEF Request, Lengths
<1>12. ok <=> IsRequest(buffer, m, p, s, line, end)
  <2>1. end \in Nat /\ line \in Nat
    BY <1>0, <1>8, <1>9
  <2>2. /\ "ctl" \notin Between(buffer, 0, end) <=> \A k \in 1..(end - 1) : buffer[k] # "ctl"
        /\ Between(buffer, 0, line) \cap Control = {} <=> \A k \in 1..(line - 1) : buffer[k] \notin Control
    BY <2>1, BetweenIs
  <2>3. \A part \in Parts : lens[part] = PartLength(part, m, p, s, line, end)
    BY LengthsAre
  <2> HIDE DEF lens
  <2>4. (\A part \in Parts \ {"search", "header"} : lens[part] > 0) <=> (m > 1 /\ p > m + 1 /\ line > s + 1)
    <3>1. lens["method"] = m - 1 /\ lens["pathname"] = p - m - 1 /\ lens["protocol"] = line - s - 1
      BY <2>3 DEF PartLength, Parts
    <3>2. (\A part \in Parts \ {"search", "header"} : lens[part] > 0)
            <=> (lens["method"] > 0 /\ lens["pathname"] > 0 /\ lens["protocol"] > 0)
      BY DEF Parts
    <3> QED
      BY <1>2, <1>4, <1>6, <2>1, <3>1, <3>2
  <2>5. "header" \in Parts
    BY DEF Parts
  <2> QED
    BY <2>2, <2>3, <2>4, <2>5 DEF IsRequest
<1> QED
  BY <1>10, <1>11, <1>12

(* The places in their order.                                               *)
LEMMA LandmarksInOrder ==
  ASSUME NEW buffer \in Seq(Bytes), NEW m, NEW p, NEW s, NEW line, NEW end,
         Landmarks(buffer, m, p, s, line, end)
  PROVE  LET N == Len(buffer) IN
         /\ N \in Nat
         /\ m \in Nat /\ p \in Nat /\ s \in Nat /\ line \in Nat /\ end \in Nat
         /\ 1 <= m /\ m <= p /\ p <= s /\ s <= line /\ line <= end /\ end <= N + 1
         /\ m <= N => m < p /\ buffer[m] = "space"
         /\ p <= N => buffer[p] \in {"space", "mark"} /\ (p < s <=> buffer[p] = "mark")
         /\ s <= N => s < line /\ buffer[s] = "space"
         /\ line <= N => line < end /\ buffer[line] = "cr"
         /\ \A k \in 1..(m - 1) : buffer[k] # "space"
         /\ \A k \in (m + 1)..(p - 1) : buffer[k] \notin {"space", "mark"}
         /\ \A k \in (p + 1)..(s - 1) : buffer[k] # "space"
         /\ \A k \in (s + 1)..(line - 1) : buffer[k] # "cr"
<1> DEFINE N == Len(buffer)
<1>0. N \in Nat
  OBVIOUS
<1>1. /\ m \in 1..(N + 1) /\ (m <= N => buffer[m] = "space") /\ \A k \in 1..(m - 1) : buffer[k] # "space"
  BY <1>0 DEF Landmarks, First
<1>2. /\ p \in 1..(N + 1) /\ (m <= N => p > m) /\ (m > N => p = N + 1)
      /\ p <= N => buffer[p] \in {"space", "mark"}
      /\ \A k \in (m + 1)..(p - 1) : buffer[k] \notin {"space", "mark"}
  BY <1>0 DEF Landmarks, First
<1>3. CASE p <= N /\ buffer[p] = "mark"
  <2>1. /\ s \in 1..(N + 1) /\ p < s /\ (s <= N => buffer[s] = "space")
        /\ \A k \in (p + 1)..(s - 1) : buffer[k] # "space"
    BY <1>0, <1>3 DEF Landmarks, First
  <2>2. /\ line \in 1..(N + 1) /\ (s <= N => line > s) /\ (s > N => line = N + 1)
        /\ line <= N => buffer[line] = "cr"
        /\ \A k \in (s + 1)..(line - 1) : buffer[k] # "cr"
    BY <1>0 DEF Landmarks, First
  <2>3. end \in 1..(N + 1) /\ (end <= N => end >= line + 3)
    BY DEF Landmarks
  <2> QED
    BY <1>0, <1>1, <1>2, <1>3, <2>1, <2>2, <2>3
<1>4. CASE ~(p <= N /\ buffer[p] = "mark")
  <2>1. s = p
    BY <1>0, <1>4 DEF Landmarks
  <2>2. /\ line \in 1..(N + 1) /\ (s <= N => line > s) /\ (s > N => line = N + 1)
        /\ line <= N => buffer[line] = "cr"
        /\ \A k \in (s + 1)..(line - 1) : buffer[k] # "cr"
    BY <1>0 DEF Landmarks, First
  <2>3. end \in 1..(N + 1) /\ (end <= N => end >= line + 3)
    BY DEF Landmarks
  <2>4. \A k \in (p + 1)..(s - 1) : buffer[k] # "space"
    BY <1>0, <1>2, <2>1
  <2> QED
    BY <1>0, <1>1, <1>2, <1>4, <2>1, <2>2, <2>3, <2>4
<1> QED
  BY <1>3, <1>4

-----------------------------------------------------------------------------
(* What the parser knows after some bytes, by the places of the request.    *)

Clip(i, low, high) == IF i <= low THEN 0 ELSE IF i < high THEN i - low ELSE high - low - 1

SoFar(part, i, m, p, s, line) ==
  CASE part = "method" -> Clip(i, 0, m)
    [] part = "pathname" -> Clip(i, m, p)
    [] part = "search" -> IF s = p THEN 0 ELSE Clip(i, p, s)
    [] part = "protocol" -> Clip(i, s, line)
    [] part = "header" -> IF i <= line THEN 0 ELSE i - line - 1

Sized(st, m, p, s, line) ==
  \A part \in Parts :
    /\ st.len[part] = SoFar(part, st.index, m, p, s, line)
    /\ st.len[part] <= Cap[part]
    /\ part # "header" \/ st.part # "body" => st.len[part] < Cap[part]

Clean(buffer, i, line) ==
  \A k \in 1..i : buffer[k] # "ctl" /\ (k < line => buffer[k] \notin Control)

Filled(i, m, p, s, line) ==
  /\ i >= m => m > 1
  /\ i >= p => p > m + 1
  /\ i > line => line > s + 1

HeaderStage(buffer, i) ==
  IF buffer[i] = "cr" THEN IF buffer[i - 1] = "lf" THEN 6 ELSE 4
  ELSE IF buffer[i] = "lf" THEN 5 ELSE 3

Placing(st, buffer, m, p, s, line, end) ==
  LET i == st.index IN
  /\ st.part = "method" => i < m
  /\ st.part = "pathname" => m <= i /\ i < p
  /\ st.part = "search" => p <= i /\ i < s
  /\ st.part = "protocol" => IF st.stage = 3 THEN s <= i /\ i < line ELSE i = line
  /\ st.part = "header" => line < i /\ i < end /\ st.stage = HeaderStage(buffer, i)
  /\ st.part = "body" => i = end

Described(st, buffer, n, m, p, s, line, end) ==
  /\ st.part \in Parts => st.index = n
  /\ st.part = "refused" => ~IsRequest(buffer, m, p, s, line, end)
  /\ st.part # "refused" =>
       /\ st.index <= n
       /\ Sized(st, m, p, s, line)
       /\ Clean(buffer, st.index, line)
       /\ Filled(st.index, m, p, s, line)
       /\ Placing(st, buffer, m, p, s, line, end)

(* The outcome of a byte.                                                   *)
LEMMA StepOutcome ==
  ASSUME NEW st \in States, st.part \in Parts, NEW b \in Bytes
  PROVE  LET r == Read(st, b)
             next == Step(st, b)
         IN  /\ next.index = st.index + 1
             /\ \/ r.part = "refused" /\ next.part = "refused"
                \/ r.part \in Parts /\ r.len[r.part] = Cap[r.part] /\ next.part = "refused"
                \/ /\ r.part # "refused" /\ (r.part \in Parts => r.len[r.part] # Cap[r.part])
                   /\ next.part = r.part /\ next.stage = r.stage /\ next.len = r.len
<1> DEFINE r == Read(st, b)
           x == [r EXCEPT !.index = st.index + 1]
<1>1. r \in States
  BY ReadIsState
<1>2. x.part = r.part /\ x.stage = r.stage /\ x.len = r.len /\ x.index = st.index + 1
  BY <1>1 DEF States, Records
<1>3. Step(st, b) = IF x.part \in Parts /\ Full(x) THEN Refuse(x, Unfinished(x)) ELSE x
  BY DEF Step, Parts
<1>4. Full(x) <=> r.len[r.part] = Cap[r.part]
  BY <1>2 DEF Full
<1>5. \A q : Refuse(x, q).part = "refused" /\ Refuse(x, q).index = x.index
  BY <1>1 DEF Refuse, States, Records
<1> HIDE DEF x, r
<1>6. CASE x.part \in Parts /\ Full(x)
  BY <1>2, <1>3, <1>4, <1>5, <1>6 DEF r
<1>7. CASE ~(x.part \in Parts /\ Full(x))
  BY <1>2, <1>3, <1>4, <1>7 DEF r
<1> QED
  BY <1>6, <1>7

Counted(st) == [st.len EXCEPT ![st.part] = @ + 1]

LEMMA EntersAndCounts ==
  ASSUME NEW st \in States, st.part \in Parts
  PROVE  /\ Count(st).part = st.part /\ Count(st).stage = st.stage
         /\ Count(st).len = Counted(st)
         /\ \A q, n : /\ Enter(st, q, n).part = q /\ Enter(st, q, n).stage = n
                      /\ Enter(st, q, n).len = st.len
         /\ \A q, n : /\ Enter(Count(st), q, n).part = q /\ Enter(Count(st), q, n).stage = n
                      /\ Enter(Count(st), q, n).len = Counted(st)
         /\ \A q : Refuse(st, q).part = "refused"
<1>1. st \in Records
  BY DEF States
<1>2. Count(st) = [st EXCEPT !.len = [st.len EXCEPT ![st.part] = @ + 1]]
  BY <1>1 DEF Count, Records
<1> DEFINE c == [st EXCEPT !.len = [st.len EXCEPT ![st.part] = @ + 1]]
<1>3. c \in Records /\ c.part = st.part /\ c.stage = st.stage /\ c.len = [st.len EXCEPT ![st.part] = @ + 1]
  BY <1>1 DEF Records
<1>4. ASSUME NEW x \in Records, NEW q, NEW n
      PROVE  Enter(x, q, n).part = q /\ Enter(x, q, n).stage = n /\ Enter(x, q, n).len = x.len
  <2> DEFINE y == [x EXCEPT !.part = q]
  <2>1. y.part = q /\ y.len = x.len /\ DOMAIN y = DOMAIN x
    BY <1>4 DEF Records
  <2>2. DOMAIN x = {"part", "stage", "index", "status", "len"}
    BY <1>4 DEF Records
  <2>3. Enter(x, q, n) = [y EXCEPT !.stage = n]
    BY DEF Enter
  <2> HIDE DEF y
  <2> QED
    BY <2>1, <2>2, <2>3
<1>5. \A q : Refuse(st, q).part = "refused"
  BY <1>1 DEF Refuse, Records
<1>6. Count(st) = c
  BY <1>2
<1>7. Count(st).part = st.part /\ Count(st).stage = st.stage /\ Count(st).len = Counted(st)
  BY <1>3, <1>6 DEF Counted
<1>8. \A q, n : /\ Enter(Count(st), q, n).part = q /\ Enter(Count(st), q, n).stage = n
                /\ Enter(Count(st), q, n).len = Count(st).len
  <2>1. Count(st) \in Records
    BY <1>3, <1>6, Zenon
  <2> QED
    BY <1>4, <2>1
<1>9. \A q, n : /\ Enter(Count(st), q, n).part = q /\ Enter(Count(st), q, n).stage = n
                /\ Enter(Count(st), q, n).len = Counted(st)
  BY <1>7, <1>8, Zenon
<1>10. \A q, n : /\ Enter(st, q, n).part = q /\ Enter(st, q, n).stage = n
                 /\ Enter(st, q, n).len = st.len
  BY <1>1, <1>4
<1> HIDE DEF c
<1> QED
  BY <1>5, <1>7, <1>9, <1>10

LEMMA EntersCounted ==
  ASSUME NEW st \in States, st.part \in Parts, NEW q, NEW n
  PROVE  /\ Enter(Count(st), q, n).part = q /\ Enter(Count(st), q, n).stage = n
         /\ Enter(Count(st), q, n).len = Counted(st)
  BY EntersAndCounts

(* What has been read of the parts after one more byte.                     *)
LEMMA SizedCounts ==
  ASSUME NEW st \in States, NEW next, NEW q \in Parts,
         NEW m, NEW p, NEW s, NEW line,
         Sized(st, m, p, s, line), st.part # "body", next.part # "body",
         next.len = [st.len EXCEPT ![q] = @ + 1], st.len[q] + 1 # Cap[q],
         \A part \in Parts : SoFar(part, next.index, m, p, s, line)
           = IF part = q THEN SoFar(part, st.index, m, p, s, line) + 1 ELSE SoFar(part, st.index, m, p, s, line)
  PROVE  Sized(next, m, p, s, line)
<1>1. st.len \in [Parts -> Nat]
  BY DEF States, Records
<1>2. \A part \in Parts : Cap[part] \in Nat
  BY CapAssumption
<1>3. \A part \in Parts : st.len[part] = SoFar(part, st.index, m, p, s, line) /\ st.len[part] < Cap[part]
  BY DEF Sized
<1>4. \A part \in Parts : next.len[part] = IF part = q THEN st.len[part] + 1 ELSE st.len[part]
  BY <1>1
<1>5. \A part \in Parts : next.len[part] = SoFar(part, next.index, m, p, s, line)
  BY <1>3, <1>4
<1>6. \A part \in Parts : next.len[part] < Cap[part] /\ next.len[part] \in Nat
  BY <1>1, <1>2, <1>3, <1>4
<1> QED
  BY <1>2, <1>5, <1>6 DEF Sized

LEMMA SizedStays ==
  ASSUME NEW st \in States, NEW next, NEW m, NEW p, NEW s, NEW line,
         Sized(st, m, p, s, line), st.part # "body", next.len = st.len,
         \A part \in Parts : SoFar(part, next.index, m, p, s, line) = SoFar(part, st.index, m, p, s, line)
  PROVE  Sized(next, m, p, s, line)
  BY DEF Sized

(* A clip after one more byte: before, within, at the end of and after it.  *)
LEMMA ClipMoves ==
  ASSUME NEW i \in Nat, NEW low \in Nat, NEW high \in Nat
  PROVE  /\ i + 1 <= low => Clip(i + 1, low, high) = Clip(i, low, high)
         /\ low <= i /\ i + 1 < high => Clip(i + 1, low, high) = Clip(i, low, high) + 1
         /\ low < high /\ i + 1 = high => Clip(i + 1, low, high) = Clip(i, low, high)
         /\ low < high /\ high <= i => Clip(i + 1, low, high) = Clip(i, low, high)
<1>1. CASE i + 1 <= low
  BY <1>1 DEF Clip
<1>2. CASE low <= i /\ i + 1 < high
  <2>1. CASE i = low
    BY <1>2, <2>1 DEF Clip
  <2>2. CASE i # low
    BY <1>2, <2>2 DEF Clip
  <2> QED
    BY <2>1, <2>2
<1>3. CASE low < high /\ i + 1 = high
  <2>1. CASE i = low
    BY <1>3, <2>1 DEF Clip
  <2>2. CASE i # low
    BY <1>3, <2>2 DEF Clip
  <2> QED
    BY <2>1, <2>2
<1>4. CASE low < high /\ high <= i
  BY <1>4 DEF Clip
<1> QED
  BY <1>1, <1>2, <1>3, <1>4

(* A byte of the method.                                                    *)
LEMMA MethodDescribed ==
  ASSUME NEW buffer \in Seq(Bytes), NEW m, NEW p, NEW s, NEW line, NEW end,
         Landmarks(buffer, m, p, s, line, end),
         NEW n \in 0..(Len(buffer) - 1), NEW st \in States, st.part = "method",
         Described(st, buffer, n, m, p, s, line, end)
  PROVE  Described(Step(st, buffer[n + 1]), buffer, n + 1, m, p, s, line, end)
<1> DEFINE N == Len(buffer)
           b == buffer[n + 1]
           r == Read(st, b)
           next == Step(st, b)
<1>1. /\ N \in Nat /\ m \in Nat /\ p \in Nat /\ s \in Nat /\ line \in Nat /\ end \in Nat
      /\ 1 <= m /\ m <= p /\ p <= s /\ s <= line /\ line <= end /\ end <= N + 1
      /\ m <= N => m < p /\ buffer[m] = "space"
      /\ \A k \in 1..(m - 1) : buffer[k] # "space"
  BY LandmarksInOrder
<1>2. st.index = n /\ n < m /\ st.len \in [Parts -> Nat] /\ Sized(st, m, p, s, line) /\ Clean(buffer, n, line)
  BY DEF Described, Placing, Parts, States, Records
<1>3. b \in Bytes /\ n + 1 \in 1..N /\ n \in Nat
  OBVIOUS
<1>4. r = ReadMethod(st, b)
  BY DEF Read
<1>5. /\ next.index = n + 1
      /\ \/ r.part = "refused" /\ next.part = "refused"
         \/ r.part \in Parts /\ r.len[r.part] = Cap[r.part] /\ next.part = "refused"
         \/ /\ r.part # "refused" /\ (r.part \in Parts => r.len[r.part] # Cap[r.part])
            /\ next.part = r.part /\ next.stage = r.stage /\ next.len = r.len
  BY <1>2, <1>3, StepOutcome DEF Parts
<1>6. \A part \in Parts : Cap[part] \in Nat /\ Cap[part] > 0
  BY CapAssumption
<1>7. st.len["method"] = n
  BY <1>1, <1>2, SMTT(30) DEF Sized, SoFar, Clip, Parts
<1> HIDE DEF r, next, b
<1>8. CASE b = "space"
  <2>1. m = n + 1
    BY <1>1, <1>2, <1>3, <1>8 DEF b
  <2>2. CASE n = 0
    <3>1. r = Refuse(st, 501)
      BY <1>4, <1>7, <1>8, <2>2 DEF ReadMethod, Empty, Control, Eol
    <3>2. next.part = "refused"
      BY <1>5, <3>1, EntersAndCounts DEF Parts
    <3>3. ~IsRequest(buffer, m, p, s, line, end)
      BY <2>1, <2>2 DEF IsRequest
    <3> QED
      BY <3>2, <3>3 DEF Described, Parts, next, b
  <2>3. CASE n # 0
    <3>1. r = Enter(st, "pathname", 1)
      BY <1>4, <1>7, <1>8, <2>3 DEF ReadMethod, Empty, Control, Eol
    <3>2. r.part = "pathname" /\ r.len = st.len
      BY <3>1, EntersAndCounts DEF Parts
    <3>3. st.len["pathname"] = 0
      BY <1>1, <1>2 DEF Sized, SoFar, Clip, Parts
    <3>4. next.part = "pathname" /\ next.len = st.len /\ next.index = n + 1
      BY <1>5, <1>6, <3>2, <3>3 DEF Parts
    <3>5. Sized(next, m, p, s, line)
      <4>1. \A part \in Parts : SoFar(part, n + 1, m, p, s, line) = SoFar(part, n, m, p, s, line)
        BY <1>1, <1>3, <2>1, SMTT(30) DEF SoFar, Clip, Parts
      <4> QED
        BY <1>2, <3>4, <4>1, SizedStays
    <3>6. Clean(buffer, n + 1, line)
      BY <1>2, <1>3, <1>8 DEF Clean, Control, Eol, b
    <3>7. m < p
      BY <1>1, <1>3, <2>1
    <3>8. Filled(n + 1, m, p, s, line) /\ Placing(next, buffer, m, p, s, line, end)
      BY <1>1, <1>3, <2>1, <2>3, <3>4, <3>7 DEF Filled, Placing
    <3> QED
      BY <3>4, <3>5, <3>6, <3>8 DEF Described, next, b
  <2> QED
    BY <2>2, <2>3
<1>9. CASE b # "space"
  <2>1. n + 1 < m
    BY <1>1, <1>2, <1>3, <1>9 DEF b
  <2>2. CASE b \in Control
    <3>1. r = Refuse(st, 400)
      BY <1>4, <2>2 DEF ReadMethod, Control, Eol
    <3>2. next.part = "refused"
      BY <1>5, <3>1, EntersAndCounts DEF Parts
    <3>3. n + 1 \in 1..(line - 1)
      BY <1>1, <1>3, <2>1
    <3>4. ~IsRequest(buffer, m, p, s, line, end)
      BY <2>2, <3>3 DEF IsRequest, b
    <3> QED
      BY <3>2, <3>4 DEF Described, Parts, next, b
  <2>3. CASE b \notin Control
    <3>1. r = Count(st)
      BY <1>4, <1>9, <2>3 DEF ReadMethod
    <3>2. r.part = "method" /\ r.len = [st.len EXCEPT !["method"] = @ + 1]
      BY <3>1, EntersAndCounts DEF Parts, Counted
    <3>3. r.len["method"] = n + 1 /\ \A part \in Parts \ {"method"} : r.len[part] = st.len[part]
      BY <1>2, <1>7, <3>2 DEF Parts
    <3>4. CASE n + 1 = Cap["method"]
      <4>1. next.part = "refused"
        BY <1>5, <3>2, <3>3, <3>4 DEF Parts
      <4>2. PartLength("method", m, p, s, line, end) = m - 1
        BY DEF PartLength
      <4>3. ~IsRequest(buffer, m, p, s, line, end)
        BY <1>1, <1>3, <2>1, <3>4, <4>2 DEF IsRequest, Parts
      <4> QED
        BY <4>1, <4>3 DEF Described, Parts, next, b
    <3>5. CASE n + 1 # Cap["method"]
      <4>1. next.part = "method" /\ next.len = r.len /\ next.index = n + 1
        BY <1>5, <3>2, <3>3, <3>5 DEF Parts
      <4>2. Sized(next, m, p, s, line)
        <5>1. \A part \in Parts : SoFar(part, n + 1, m, p, s, line)
                = IF part = "method" THEN n + 1 ELSE SoFar(part, n, m, p, s, line)
          BY <1>1, <1>3, <2>1 DEF SoFar, Clip, Parts
        <5>2. \A part \in Parts : SoFar(part, n + 1, m, p, s, line)
                = IF part = "method" THEN SoFar(part, n, m, p, s, line) + 1 ELSE SoFar(part, n, m, p, s, line)
          BY <1>2, <1>7, <5>1 DEF Sized
        <5>3. st.len["method"] + 1 # Cap["method"] /\ "method" \in Parts /\ next.part # "body"
          BY <1>7, <3>5, <4>1 DEF Parts
        <5>4. next.len = [st.len EXCEPT !["method"] = @ + 1]
          BY <3>2, <4>1
        <5>5. \A part \in Parts : SoFar(part, next.index, m, p, s, line)
                = IF part = "method" THEN SoFar(part, st.index, m, p, s, line) + 1
                  ELSE SoFar(part, st.index, m, p, s, line)
          BY <1>2, <4>1, <5>2
        <5>6. Sized(st, m, p, s, line) /\ st.part # "body"
          BY <1>2
        <5> QED
          BY <5>3, <5>4, <5>5, <5>6, SizedCounts
      <4>3. Clean(buffer, n + 1, line)
        BY <1>2, <1>3, <2>3 DEF Clean, Control, Eol, b
      <4>4. Filled(n + 1, m, p, s, line) /\ Placing(next, buffer, m, p, s, line, end)
        BY <1>1, <1>3, <2>1, <4>1 DEF Filled, Placing
      <4> QED
        BY <4>1, <4>2, <4>3, <4>4 DEF Described, next, b
    <3> QED
      BY <3>4, <3>5
  <2> QED
    BY <2>2, <2>3
<1> QED
  BY <1>8, <1>9

(* A byte of the pathname.                                                  *)
LEMMA PathnameDescribed ==
  ASSUME NEW buffer \in Seq(Bytes), NEW m, NEW p, NEW s, NEW line, NEW end,
         Landmarks(buffer, m, p, s, line, end),
         NEW n \in 0..(Len(buffer) - 1), NEW st \in States, st.part = "pathname",
         Described(st, buffer, n, m, p, s, line, end)
  PROVE  Described(Step(st, buffer[n + 1]), buffer, n + 1, m, p, s, line, end)
<1> DEFINE N == Len(buffer)
           b == buffer[n + 1]
           r == Read(st, b)
           next == Step(st, b)
<1>1. /\ N \in Nat /\ m \in Nat /\ p \in Nat /\ s \in Nat /\ line \in Nat /\ end \in Nat
      /\ 1 <= m /\ m <= p /\ p <= s /\ s <= line /\ line <= end /\ end <= N + 1
      /\ p <= N => buffer[p] \in {"space", "mark"} /\ (p < s <=> buffer[p] = "mark")
      /\ s <= N => s < line
      /\ \A k \in (m + 1)..(p - 1) : buffer[k] \notin {"space", "mark"}
  BY LandmarksInOrder
<1>2. /\ st.index = n /\ m <= n /\ n < p /\ st.len \in [Parts -> Nat]
      /\ Sized(st, m, p, s, line) /\ Clean(buffer, n, line) /\ Filled(n, m, p, s, line)
  BY DEF Described, Placing, Parts, States, Records
<1>3. b \in Bytes /\ n + 1 \in 1..N /\ n \in Nat
  OBVIOUS
<1>4. r = ReadPathname(st, b)
  BY DEF Read
<1>5. /\ next.index = n + 1
      /\ \/ r.part = "refused" /\ next.part = "refused"
         \/ r.part \in Parts /\ r.len[r.part] = Cap[r.part] /\ next.part = "refused"
         \/ /\ r.part # "refused" /\ (r.part \in Parts => r.len[r.part] # Cap[r.part])
            /\ next.part = r.part /\ next.stage = r.stage /\ next.len = r.len
  BY <1>2, <1>3, StepOutcome DEF Parts
<1>6. \A part \in Parts : Cap[part] \in Nat /\ Cap[part] > 0
  BY CapAssumption
<1>7. st.len["pathname"] = n - m
  BY <1>1, <1>2, <1>3 DEF Sized, SoFar, Clip, Parts
<1> HIDE DEF r, next, b
<1>8. CASE b \in {"space", "mark"}
  <2>1. p = n + 1
    BY <1>1, <1>2, <1>3, <1>8 DEF b
  <2>2. CASE n = m
    <3>1. r = Refuse(st, 414)
      BY <1>1, <1>4, <1>7, <1>8, <2>2 DEF ReadPathname, Empty
    <3>2. next.part = "refused"
      BY <1>5, <3>1, EntersAndCounts DEF Parts
    <3>3. ~IsRequest(buffer, m, p, s, line, end)
      BY <1>1, <2>1, <2>2 DEF IsRequest
    <3> QED
      BY <3>2, <3>3 DEF Described, Parts, next, b
  <2>3. CASE n # m
    <3>1. ~Empty(st, "pathname")
      BY <1>1, <1>2, <1>3, <1>7, <2>3 DEF Empty
    <3>2. \/ b = "mark" /\ r = Enter(st, "search", 2)
          \/ b = "space" /\ r = Enter(st, "protocol", 3)
      BY <1>4, <1>8, <3>1 DEF ReadPathname, Control, Eol
    <3>3. /\ r.len = st.len
          /\ b = "mark" => r.part = "search"
          /\ b = "space" => r.part = "protocol" /\ r.stage = 3
      BY <3>2, EntersAndCounts DEF Parts
    <3>4. st.len["search"] = 0 /\ st.len["protocol"] = 0
      BY <1>1, <1>2, <1>3, SMTT(30) DEF Sized, SoFar, Clip, Parts
    <3>5. next.part = r.part /\ next.stage = r.stage /\ next.len = st.len /\ next.index = n + 1
      BY <1>5, <1>6, <1>8, <3>3, <3>4 DEF Parts
    <3>6. Sized(next, m, p, s, line)
      <4>1. \A part \in Parts : SoFar(part, n + 1, m, p, s, line) = SoFar(part, n, m, p, s, line)
        <5>1. /\ Clip(n + 1, 0, m) = Clip(n, 0, m) /\ Clip(n + 1, m, p) = Clip(n, m, p)
              /\ Clip(n + 1, p, s) = Clip(n, p, s) /\ Clip(n + 1, s, line) = Clip(n, s, line)
          BY <1>1, <1>2, <1>3, <2>1 DEF Clip
        <5>2. n <= line /\ n + 1 <= line
          BY <1>1, <1>3, <2>1
        <5> QED
          BY <5>1, <5>2 DEF SoFar, Parts
      <4> QED
        BY <1>2, <3>5, <4>1, SizedStays
    <3>7. Clean(buffer, n + 1, line)
      BY <1>2, <1>3, <1>8 DEF Clean, Control, Eol, b
    <3>8. b = "mark" => p < s
      BY <1>1, <1>3, <2>1 DEF b
    <3>9. b = "space" => s = p /\ s < line
      BY <1>1, <1>3, <2>1 DEF b
    <3>10. Filled(n + 1, m, p, s, line)
      BY <1>1, <1>2, <1>3, <2>1, <2>3, <3>8, <3>9, <1>8 DEF Filled
    <3>11. Placing(next, buffer, m, p, s, line, end)
      BY <1>1, <1>3, <1>8, <2>1, <3>3, <3>5, <3>8, <3>9 DEF Placing
    <3> QED
      BY <1>8, <3>3, <3>5, <3>6, <3>7, <3>10, <3>11 DEF Described, next, b
  <2> QED
    BY <2>2, <2>3
<1>9. CASE b \notin {"space", "mark"}
  <2>1. n + 1 < p
    BY <1>1, <1>2, <1>3, <1>9 DEF b
  <2>2. CASE b \in Control
    <3>1. r = Refuse(st, 400)
      BY <1>4, <1>9, <2>2 DEF ReadPathname, Control, Eol
    <3>2. next.part = "refused"
      BY <1>5, <3>1, EntersAndCounts DEF Parts
    <3>3. n + 1 \in 1..(line - 1)
      BY <1>1, <1>3, <2>1
    <3>4. ~IsRequest(buffer, m, p, s, line, end)
      BY <2>2, <3>3 DEF IsRequest, b
    <3> QED
      BY <3>2, <3>4 DEF Described, Parts, next, b
  <2>3. CASE b \notin Control
    <3>1. r = Count(st)
      BY <1>4, <1>9, <2>3 DEF ReadPathname
    <3>2. r.part = "pathname" /\ r.len = [st.len EXCEPT !["pathname"] = @ + 1]
      BY <3>1, EntersAndCounts DEF Parts, Counted
    <3>3. r.len["pathname"] = n - m + 1
      BY <1>2, <1>7, <3>2 DEF Parts
    <3>4. CASE n - m + 1 = Cap["pathname"]
      <4>1. next.part = "refused"
        BY <1>5, <3>2, <3>3, <3>4 DEF Parts
      <4>2. PartLength("pathname", m, p, s, line, end) = p - m - 1
        BY DEF PartLength
      <4>3. ~IsRequest(buffer, m, p, s, line, end)
        BY <1>1, <1>3, <2>1, <3>4, <4>2 DEF IsRequest, Parts
      <4> QED
        BY <4>1, <4>3 DEF Described, Parts, next, b
    <3>5. CASE n - m + 1 # Cap["pathname"]
      <4>1. next.part = "pathname" /\ next.len = r.len /\ next.index = n + 1
        BY <1>5, <3>2, <3>3, <3>5 DEF Parts
      <4>2. Sized(next, m, p, s, line)
        <5>1. \A part \in Parts : SoFar(part, n + 1, m, p, s, line)
                = IF part = "pathname" THEN SoFar(part, n, m, p, s, line) + 1 ELSE SoFar(part, n, m, p, s, line)
          <6>1. 0 < m /\ m <= n /\ n + 1 <= p /\ n + 1 <= s
            BY <1>1, <1>2, <1>3, <2>1 DEF Filled
          <6>2. /\ Clip(n + 1, 0, m) = Clip(n, 0, m) /\ Clip(n + 1, m, p) = Clip(n, m, p) + 1
                /\ Clip(n + 1, p, s) = Clip(n, p, s) /\ Clip(n + 1, s, line) = Clip(n, s, line)
            BY <1>1, <1>3, <2>1, <6>1, ClipMoves
          <6>3. n <= line /\ n + 1 <= line
            BY <1>1, <1>3, <6>1
          <6> QED
            BY <6>2, <6>3 DEF SoFar, Parts
        <5>2. st.len["pathname"] + 1 # Cap["pathname"] /\ "pathname" \in Parts /\ next.part # "body"
          BY <1>1, <1>3, <1>7, <3>5, <4>1 DEF Parts
        <5>3. next.len = [st.len EXCEPT !["pathname"] = @ + 1]
          BY <3>2, <4>1
        <5>4. \A part \in Parts : SoFar(part, next.index, m, p, s, line)
                = IF part = "pathname" THEN SoFar(part, st.index, m, p, s, line) + 1
                  ELSE SoFar(part, st.index, m, p, s, line)
          BY <1>2, <4>1, <5>1
        <5>5. Sized(st, m, p, s, line) /\ st.part # "body"
          BY <1>2
        <5> QED
          BY <5>2, <5>3, <5>4, <5>5, SizedCounts
      <4>3. Clean(buffer, n + 1, line)
        BY <1>2, <1>3, <2>3 DEF Clean, Control, Eol, b
      <4>4. Filled(n + 1, m, p, s, line) /\ Placing(next, buffer, m, p, s, line, end)
        BY <1>1, <1>2, <1>3, <2>1, <4>1 DEF Filled, Placing
      <4> QED
        BY <4>1, <4>2, <4>3, <4>4 DEF Described, next, b
    <3> QED
      BY <3>4, <3>5
  <2> QED
    BY <2>2, <2>3
<1> QED
  BY <1>8, <1>9

(* A byte of the search.                                                    *)
LEMMA SearchDescribed ==
  ASSUME NEW buffer \in Seq(Bytes), NEW m, NEW p, NEW s, NEW line, NEW end,
         Landmarks(buffer, m, p, s, line, end),
         NEW n \in 0..(Len(buffer) - 1), NEW st \in States, st.part = "search",
         Described(st, buffer, n, m, p, s, line, end)
  PROVE  Described(Step(st, buffer[n + 1]), buffer, n + 1, m, p, s, line, end)
<1> DEFINE N == Len(buffer)
           b == buffer[n + 1]
           r == Read(st, b)
           next == Step(st, b)
<1>1. /\ N \in Nat /\ m \in Nat /\ p \in Nat /\ s \in Nat /\ line \in Nat /\ end \in Nat
      /\ 1 <= m /\ m <= p /\ p <= s /\ s <= line /\ line <= end /\ end <= N + 1
      /\ s <= N => s < line /\ buffer[s] = "space"
      /\ \A k \in (p + 1)..(s - 1) : buffer[k] # "space"
  BY LandmarksInOrder
<1>2. /\ st.index = n /\ p <= n /\ n < s /\ st.len \in [Parts -> Nat]
      /\ Sized(st, m, p, s, line) /\ Clean(buffer, n, line) /\ Filled(n, m, p, s, line)
  BY DEF Described, Placing, Parts, States, Records
<1>3. b \in Bytes /\ n + 1 \in 1..N /\ n \in Nat
  OBVIOUS
<1>4. r = ReadSearch(st, b)
  BY DEF Read
<1>5. /\ next.index = n + 1
      /\ \/ r.part = "refused" /\ next.part = "refused"
         \/ r.part \in Parts /\ r.len[r.part] = Cap[r.part] /\ next.part = "refused"
         \/ /\ r.part # "refused" /\ (r.part \in Parts => r.len[r.part] # Cap[r.part])
            /\ next.part = r.part /\ next.stage = r.stage /\ next.len = r.len
  BY <1>2, <1>3, StepOutcome DEF Parts
<1>6. \A part \in Parts : Cap[part] \in Nat /\ Cap[part] > 0
  BY CapAssumption
<1>7. st.len["search"] = n - p
  BY <1>1, <1>2, <1>3, SMTT(30) DEF Sized, SoFar, Clip, Parts
<1> HIDE DEF r, next, b
<1>8. CASE b = "space"
  <2>1. s = n + 1
    BY <1>1, <1>2, <1>3, <1>8, SMTT(30) DEF b
  <2>2. r = Enter(st, "protocol", 3)
    BY <1>4, <1>8 DEF ReadSearch, Control, Eol
  <2>3. r.len = st.len /\ r.part = "protocol" /\ r.stage = 3
    BY <2>2, EntersAndCounts DEF Parts
  <2>4. st.len["protocol"] = 0
    BY <1>1, <1>2, <1>3, SMTT(30) DEF Sized, SoFar, Clip, Parts
  <2>5. next.part = "protocol" /\ next.stage = 3 /\ next.len = st.len /\ next.index = n + 1
    BY <1>5, <1>6, <2>3, <2>4 DEF Parts
  <2>6. Sized(next, m, p, s, line)
    <3>1. \A part \in Parts : SoFar(part, n + 1, m, p, s, line) = SoFar(part, n, m, p, s, line)
      <4>1. /\ Clip(n + 1, 0, m) = Clip(n, 0, m) /\ Clip(n + 1, m, p) = Clip(n, m, p)
            /\ Clip(n + 1, p, s) = Clip(n, p, s) /\ Clip(n + 1, s, line) = Clip(n, s, line)
        <5>1. 0 < m /\ m <= n /\ m < p /\ p < s /\ n + 1 <= s
          BY <1>1, <1>2, <1>3, <2>1 DEF Filled
        <5> QED
          BY <1>1, <1>2, <1>3, <2>1, <5>1, ClipMoves
      <4>2. n <= line /\ n + 1 <= line
        BY <1>1, <1>3, <2>1
      <4> QED
        BY <4>1, <4>2 DEF SoFar, Parts
    <3> QED
      BY <1>2, <2>5, <3>1, SizedStays
  <2>7. Clean(buffer, n + 1, line)
    BY <1>2, <1>3, <1>8 DEF Clean, Control, Eol, b
  <2>8. s < line
    BY <1>1, <1>3, <2>1
  <2>9. Filled(n + 1, m, p, s, line) /\ Placing(next, buffer, m, p, s, line, end)
    BY <1>1, <1>2, <1>3, <2>1, <2>5, <2>8 DEF Filled, Placing
  <2> QED
    BY <2>5, <2>6, <2>7, <2>9 DEF Described, next, b
<1>9. CASE b # "space"
  <2>1. n + 1 < s
    BY <1>1, <1>2, <1>3, <1>9 DEF b
  <2>2. CASE b \in Control
    <3>1. r = Refuse(st, 400)
      BY <1>4, <1>9, <2>2 DEF ReadSearch, Control, Eol
    <3>2. next.part = "refused"
      BY <1>5, <3>1, EntersAndCounts DEF Parts
    <3>3. n + 1 \in 1..(line - 1)
      BY <1>1, <1>3, <2>1
    <3>4. ~IsRequest(buffer, m, p, s, line, end)
      BY <2>2, <3>3 DEF IsRequest, b
    <3> QED
      BY <3>2, <3>4 DEF Described, Parts, next, b
  <2>3. CASE b \notin Control
    <3>1. r = Count(st)
      BY <1>4, <1>9, <2>3 DEF ReadSearch
    <3>2. r.part = "search" /\ r.len = [st.len EXCEPT !["search"] = @ + 1]
      BY <3>1, EntersAndCounts DEF Parts, Counted
    <3>3. r.len["search"] = n - p + 1
      BY <1>2, <1>7, <3>2 DEF Parts
    <3>4. CASE n - p + 1 = Cap["search"]
      <4>1. next.part = "refused"
        BY <1>5, <3>2, <3>3, <3>4 DEF Parts
      <4>2. PartLength("search", m, p, s, line, end) = s - p - 1
        BY <1>1, <1>2, <1>3 DEF PartLength
      <4>3. ~IsRequest(buffer, m, p, s, line, end)
        BY <1>1, <1>3, <2>1, <3>4, <4>2 DEF IsRequest, Parts
      <4> QED
        BY <4>1, <4>3 DEF Described, Parts, next, b
    <3>5. CASE n - p + 1 # Cap["search"]
      <4>1. next.part = "search" /\ next.len = r.len /\ next.index = n + 1
        BY <1>5, <3>2, <3>3, <3>5 DEF Parts
      <4>2. Sized(next, m, p, s, line)
        <5>1. 0 < m /\ m <= n /\ m < p /\ p < s /\ n + 1 <= s
          BY <1>1, <1>2, <1>3, <2>1 DEF Filled
        <5>2. /\ Clip(n + 1, 0, m) = Clip(n, 0, m) /\ Clip(n + 1, m, p) = Clip(n, m, p)
              /\ Clip(n + 1, p, s) = Clip(n, p, s) + 1 /\ Clip(n + 1, s, line) = Clip(n, s, line)
          BY <1>1, <1>2, <1>3, <2>1, <5>1, ClipMoves
        <5>3. n <= line /\ n + 1 <= line /\ s # p
          BY <1>1, <1>3, <5>1
        <5>4. \A part \in Parts : SoFar(part, n + 1, m, p, s, line)
                = IF part = "search" THEN SoFar(part, n, m, p, s, line) + 1 ELSE SoFar(part, n, m, p, s, line)
          BY <5>2, <5>3 DEF SoFar, Parts
        <5>5. st.len["search"] + 1 # Cap["search"] /\ "search" \in Parts /\ next.part # "body"
          BY <1>1, <1>3, <1>7, <3>5, <4>1 DEF Parts
        <5>6. next.len = [st.len EXCEPT !["search"] = @ + 1]
          BY <3>2, <4>1
        <5>7. \A part \in Parts : SoFar(part, next.index, m, p, s, line)
                = IF part = "search" THEN SoFar(part, st.index, m, p, s, line) + 1
                  ELSE SoFar(part, st.index, m, p, s, line)
          BY <1>2, <4>1, <5>4
        <5>8. Sized(st, m, p, s, line) /\ st.part # "body"
          BY <1>2
        <5> QED
          BY <5>5, <5>6, <5>7, <5>8, SizedCounts
      <4>3. Clean(buffer, n + 1, line)
        BY <1>2, <1>3, <2>3 DEF Clean, Control, Eol, b
      <4>4. Filled(n + 1, m, p, s, line) /\ Placing(next, buffer, m, p, s, line, end)
        BY <1>1, <1>2, <1>3, <2>1, <4>1 DEF Filled, Placing
      <4> QED
        BY <4>1, <4>2, <4>3, <4>4 DEF Described, next, b
    <3> QED
      BY <3>4, <3>5
  <2> QED
    BY <2>2, <2>3
<1> QED
  BY <1>8, <1>9

(* A byte of the protocol, or the second one of the end of its line.        *)
LEMMA ProtocolDescribed ==
  ASSUME NEW buffer \in Seq(Bytes), NEW m, NEW p, NEW s, NEW line, NEW end,
         Landmarks(buffer, m, p, s, line, end),
         NEW n \in 0..(Len(buffer) - 1), NEW st \in States, st.part = "protocol",
         Described(st, buffer, n, m, p, s, line, end), ProperUpTo(buffer, n + 1)
  PROVE  Described(Step(st, buffer[n + 1]), buffer, n + 1, m, p, s, line, end)
<1> DEFINE N == Len(buffer)
           b == buffer[n + 1]
           r == Read(st, b)
           next == Step(st, b)
<1>1. /\ N \in Nat /\ m \in Nat /\ p \in Nat /\ s \in Nat /\ line \in Nat /\ end \in Nat
      /\ 1 <= m /\ m <= p /\ p <= s /\ s <= line /\ line <= end /\ end <= N + 1
      /\ s <= N => buffer[s] = "space"
      /\ line <= N => line < end /\ buffer[line] = "cr"
      /\ \A k \in (s + 1)..(line - 1) : buffer[k] # "cr"
  BY LandmarksInOrder
<1>2. /\ st.index = n /\ st.len \in [Parts -> Nat] /\ st.stage \in {3, 4}
      /\ st.stage = 3 => s <= n /\ n < line
      /\ st.stage # 3 => n = line
      /\ Sized(st, m, p, s, line) /\ Clean(buffer, n, line) /\ Filled(n, m, p, s, line)
  BY DEF Described, Placing, Parts, States, Records
<1>3. b \in Bytes /\ n + 1 \in 1..N /\ n \in Nat
  OBVIOUS
<1>4. r = ReadProtocol(st, b)
  BY DEF Read
<1>5. /\ next.index = n + 1
      /\ \/ r.part = "refused" /\ next.part = "refused"
         \/ r.part \in Parts /\ r.len[r.part] = Cap[r.part] /\ next.part = "refused"
         \/ /\ r.part # "refused" /\ (r.part \in Parts => r.len[r.part] # Cap[r.part])
            /\ next.part = r.part /\ next.stage = r.stage /\ next.len = r.len
  BY <1>2, <1>3, StepOutcome DEF Parts
<1>6. \A part \in Parts : Cap[part] \in Nat /\ Cap[part] > 0
  BY CapAssumption
<1>7. /\ b = "lf" => n + 1 > 1 /\ buffer[n] = "cr"
      /\ n >= 1 /\ buffer[n] = "cr" => b = "lf"
  BY <1>3 DEF ProperUpTo, b
<1> HIDE DEF r, next, b
<1>8. CASE st.stage = 3
  <2>1. s <= n /\ n < line /\ st.len["protocol"] = n - s
    BY <1>1, <1>2, <1>3, <1>8 DEF Sized, SoFar, Clip, Parts
  <2>2. b # "lf"
    <3>1. buffer[n] # "cr"
      BY <1>1, <1>3, <2>1
    <3> QED
      BY <1>7, <3>1
  <2>3. CASE b = "cr"
    <3>1. line = n + 1
      <4>1. buffer[n + 1] = "cr"
        BY <2>3 DEF b
      <4>2. ~(n + 1 \in (s + 1)..(line - 1))
        BY <1>1, <4>1
      <4>3. n \in Nat /\ s \in Nat /\ line \in Nat /\ s <= n /\ n < line
        BY <1>1, <1>3, <2>1
      <4> QED
        BY ONLY <4>2, <4>3
    <3>2. r = Enter(st, "protocol", 4)
      BY <1>4, <1>8, <2>3 DEF ReadProtocol, Control, Eol
    <3>3. r.len = st.len /\ r.part = "protocol" /\ r.stage = 4
      BY <3>2, EntersAndCounts DEF Parts
    <3>4. st.len["protocol"] # Cap["protocol"]
      BY <1>2, <1>6 DEF Sized, Parts
    <3>5. next.part = "protocol" /\ next.stage = 4 /\ next.len = st.len /\ next.index = n + 1
      BY <1>5, <3>3, <3>4 DEF Parts
    <3>6. Sized(next, m, p, s, line)
      <4>1. \A part \in Parts : SoFar(part, n + 1, m, p, s, line) = SoFar(part, n, m, p, s, line)
        <5>1. /\ Clip(n + 1, 0, m) = Clip(n, 0, m) /\ Clip(n + 1, m, p) = Clip(n, m, p)
              /\ s = p \/ Clip(n + 1, p, s) = Clip(n, p, s)
              /\ Clip(n + 1, s, line) = Clip(n, s, line)
          <6>1. 0 < m /\ m <= n /\ m < p /\ p <= n /\ (s = p \/ p < s) /\ s < line
            BY <1>1, <1>2, <1>3, <2>1, SMTT(30) DEF Filled
          <6> QED
            BY <1>1, <1>3, <2>1, <3>1, <6>1, ClipMoves, SMTT(30)
        <5>2. n <= line /\ n + 1 <= line
          BY <1>1, <1>3, <3>1
        <5> QED
          BY <5>1, <5>2 DEF SoFar, Parts
      <4> QED
        BY <1>2, <3>5, <4>1, SizedStays
    <3>7. Clean(buffer, n + 1, line)
      BY <1>2, <1>3, <2>3, <3>1 DEF Clean, b
    <3>8. Filled(n + 1, m, p, s, line) /\ Placing(next, buffer, m, p, s, line, end)
      BY <1>1, <1>2, <1>3, <2>1, <3>1, <3>5 DEF Filled, Placing
    <3> QED
      BY <3>5, <3>6, <3>7, <3>8 DEF Described, next, b
  <2>4. CASE b # "cr"
    <3>1. n + 1 < line
      BY <1>1, <1>3, <2>1, <2>4 DEF b
    <3>2. CASE b = "ctl"
      <4>1. r = Refuse(st, 400)
        BY <1>4, <3>2 DEF ReadProtocol, Control, Eol
      <4>2. next.part = "refused"
        BY <1>5, <4>1, EntersAndCounts DEF Parts
      <4>3. n + 1 \in 1..(line - 1) /\ b \in Control
        BY <1>1, <1>3, <3>1, <3>2 DEF Control
      <4>4. ~IsRequest(buffer, m, p, s, line, end)
        BY <4>3 DEF IsRequest, b
      <4> QED
        BY <4>2, <4>4 DEF Described, Parts, next, b
    <3>3. CASE b # "ctl"
      <4>0. b \notin Control
        BY <2>2, <2>4, <3>3 DEF Control, Eol
      <4>1. r = Count(st)
        BY <1>4, <4>0 DEF ReadProtocol, Control
      <4>2. r.part = "protocol" /\ r.stage = 3 /\ r.len = [st.len EXCEPT !["protocol"] = @ + 1]
        BY <1>8, <4>1, EntersAndCounts DEF Parts, Counted
      <4>3. r.len["protocol"] = n - s + 1
        BY <1>2, <2>1, <4>2 DEF Parts
      <4>4. CASE n - s + 1 = Cap["protocol"]
        <5>1. next.part = "refused"
          BY <1>5, <4>2, <4>3, <4>4 DEF Parts
        <5>2. PartLength("protocol", m, p, s, line, end) = line - s - 1
          BY DEF PartLength
        <5>3. ~IsRequest(buffer, m, p, s, line, end)
          BY <1>1, <1>3, <3>1, <4>4, <5>2 DEF IsRequest, Parts
        <5> QED
          BY <5>1, <5>3 DEF Described, Parts, next, b
      <4>5. CASE n - s + 1 # Cap["protocol"]
        <5>1. next.part = "protocol" /\ next.stage = 3 /\ next.len = r.len /\ next.index = n + 1
          BY <1>5, <4>2, <4>3, <4>5 DEF Parts
        <5>2. Sized(next, m, p, s, line)
          <6>1. 0 < m /\ m <= n /\ m < p /\ p <= n /\ (s = p \/ p < s) /\ s < line
            BY <1>1, <1>2, <1>3, <2>1, SMTT(30) DEF Filled
          <6>2. /\ Clip(n + 1, 0, m) = Clip(n, 0, m) /\ Clip(n + 1, m, p) = Clip(n, m, p)
                /\ s = p \/ Clip(n + 1, p, s) = Clip(n, p, s)
                /\ Clip(n + 1, s, line) = Clip(n, s, line) + 1
            BY <1>1, <1>3, <2>1, <3>1, <6>1, ClipMoves
          <6>3. n <= line /\ n + 1 <= line
            BY <1>1, <1>3, <3>1
          <6>4. \A part \in Parts : SoFar(part, n + 1, m, p, s, line)
                  = IF part = "protocol" THEN SoFar(part, n, m, p, s, line) + 1 ELSE SoFar(part, n, m, p, s, line)
            BY <6>2, <6>3 DEF SoFar, Parts
          <6>5. st.len["protocol"] + 1 # Cap["protocol"] /\ "protocol" \in Parts /\ next.part # "body"
            BY <1>1, <1>3, <2>1, <4>5, <5>1 DEF Parts
          <6>6. next.len = [st.len EXCEPT !["protocol"] = @ + 1]
            BY <4>2, <5>1
          <6>7. \A part \in Parts : SoFar(part, next.index, m, p, s, line)
                  = IF part = "protocol" THEN SoFar(part, st.index, m, p, s, line) + 1
                    ELSE SoFar(part, st.index, m, p, s, line)
            BY <1>2, <5>1, <6>4
          <6>8. Sized(st, m, p, s, line) /\ st.part # "body"
            BY <1>2
          <6> QED
            BY <6>5, <6>6, <6>7, <6>8, SizedCounts
        <5>3. Clean(buffer, n + 1, line)
          BY <1>2, <1>3, <4>0 DEF Clean, Control, Eol, b
        <5>4. Filled(n + 1, m, p, s, line) /\ Placing(next, buffer, m, p, s, line, end)
          BY <1>1, <1>2, <1>3, <2>1, <3>1, <5>1 DEF Filled, Placing
        <5> QED
          BY <5>1, <5>2, <5>3, <5>4 DEF Described, next, b
      <4> QED
        BY <4>4, <4>5
    <3> QED
      BY <3>2, <3>3
  <2> QED
    BY <2>3, <2>4
<1>9. CASE st.stage = 4
  <2>1. n = line /\ line < end /\ line <= N
    BY <1>1, <1>2, <1>3, <1>9
  <2>2. st.len["protocol"] = line - s - 1
    <3>1. s < line
      BY <1>1, <2>1, LandmarksInOrder
    <3> QED
      BY <1>1, <1>2, <2>1, <3>1 DEF Sized, SoFar, Clip, Parts
  <2>3. b = "lf"
    BY <1>1, <1>3, <1>7, <2>1
  <2>4. CASE line = s + 1
    <3>1. r = Refuse(st, 505)
      <4>1. Empty(st, "protocol")
        BY <1>1, <2>2, <2>4 DEF Empty
      <4> QED
        BY <1>4, <1>9, <2>3, <4>1 DEF ReadProtocol, Control, Eol
    <3>2. next.part = "refused"
      BY <1>5, <3>1, EntersAndCounts DEF Parts
    <3>3. ~IsRequest(buffer, m, p, s, line, end)
      BY <1>1, <2>4 DEF IsRequest
    <3> QED
      BY <3>2, <3>3 DEF Described, Parts, next, b
  <2>5. CASE line # s + 1
    <3>0. line > s + 1
      <4>1. s < line
        BY <1>1, <2>1, LandmarksInOrder
      <4> QED
        BY <1>1, <2>5, <4>1
    <3>1. r = Enter(st, "header", 5)
      <4>1. ~Empty(st, "protocol")
        BY <1>1, <2>2, <3>0 DEF Empty
      <4> QED
        BY <1>4, <1>9, <2>3, <4>1 DEF ReadProtocol, Control, Eol
    <3>2. r.len = st.len /\ r.part = "header" /\ r.stage = 5
      BY <3>1, EntersAndCounts DEF Parts
    <3>3. st.len["header"] = 0
      BY <1>1, <1>2, <2>1 DEF Sized, SoFar, Parts
    <3>4. next.part = "header" /\ next.stage = 5 /\ next.len = st.len /\ next.index = n + 1
      BY <1>5, <1>6, <3>2, <3>3 DEF Parts
    <3>5. Sized(next, m, p, s, line)
      <4>1. \A part \in Parts : SoFar(part, n + 1, m, p, s, line) = SoFar(part, n, m, p, s, line)
        <5>1. /\ Clip(n + 1, 0, m) = Clip(n, 0, m) /\ Clip(n + 1, m, p) = Clip(n, m, p)
              /\ s = p \/ Clip(n + 1, p, s) = Clip(n, p, s)
              /\ Clip(n + 1, s, line) = Clip(n, s, line)
          <6>1. 0 < m /\ m <= n /\ m < p /\ p <= n /\ (s = p \/ p < s) /\ s < line
            BY <1>1, <1>2, <1>3, <2>1, <3>0, SMTT(30) DEF Filled
          <6> QED
            BY <1>1, <1>3, <2>1, <6>1, ClipMoves
        <5>2. n <= line /\ ~(n + 1 <= line) /\ (n + 1) - line - 1 = 0
          BY <1>1, <1>3, <2>1
        <5>3. SoFar("header", n + 1, m, p, s, line) = 0 /\ SoFar("header", n, m, p, s, line) = 0
          BY <5>2 DEF SoFar
        <5>4. \A part \in Parts \ {"header"} : SoFar(part, n + 1, m, p, s, line) = SoFar(part, n, m, p, s, line)
          BY <5>1 DEF SoFar, Parts
        <5> QED
          BY <5>3, <5>4
      <4> QED
        BY <1>2, <3>4, <4>1, SizedStays
    <3>6. Clean(buffer, n + 1, line)
      BY <1>1, <1>2, <1>3, <2>1, <2>3 DEF Clean, b
    <3>7. Filled(n + 1, m, p, s, line)
      BY <1>1, <1>2, <1>3, <2>1, <3>0 DEF Filled
    <3>8. n + 1 < end
      <4>1. end <= N => end >= line + 3
        BY DEF Landmarks
      <4> QED
        BY <1>1, <1>3, <2>1, <4>1
    <3>9. Placing(next, buffer, m, p, s, line, end)
      BY <1>1, <1>3, <2>1, <2>3, <3>4, <3>8 DEF Placing, HeaderStage, b
    <3> QED
      BY <3>4, <3>5, <3>6, <3>7, <3>9 DEF Described, next, b
  <2> QED
    BY <2>4, <2>5
<1> QED
  BY <1>2, <1>8, <1>9

(* A byte of the header.                                                    *)
LEMMA HeaderDescribed ==
  ASSUME NEW buffer \in Seq(Bytes), NEW m, NEW p, NEW s, NEW line, NEW end,
         Landmarks(buffer, m, p, s, line, end),
         NEW n \in 0..(Len(buffer) - 1), NEW st \in States, st.part = "header",
         Described(st, buffer, n, m, p, s, line, end), ProperUpTo(buffer, n + 1)
  PROVE  Described(Step(st, buffer[n + 1]), buffer, n + 1, m, p, s, line, end)
<1> DEFINE N == Len(buffer)
           b == buffer[n + 1]
           r == Read(st, b)
           next == Step(st, b)
<1>1. /\ N \in Nat /\ m \in Nat /\ p \in Nat /\ s \in Nat /\ line \in Nat /\ end \in Nat
      /\ 1 <= m /\ m <= p /\ p <= s /\ s <= line /\ line <= end /\ end <= N + 1
      /\ line <= N => line < end /\ buffer[line] = "cr"
  BY LandmarksInOrder
<1>2. /\ st.index = n /\ line < n /\ n < end /\ st.stage = HeaderStage(buffer, n)
      /\ st.len \in [Parts -> Nat] /\ st.stage \in 3..6
      /\ Sized(st, m, p, s, line) /\ Clean(buffer, n, line) /\ Filled(n, m, p, s, line)
  BY DEF Described, Placing, Parts, States, Records
<1>3. b \in Bytes /\ n + 1 \in 1..N /\ n \in Nat
  OBVIOUS
<1>4. r = ReadHeader(st, b)
  BY DEF Read
<1>5. /\ next.index = n + 1
      /\ \/ r.part = "refused" /\ next.part = "refused"
         \/ r.part \in Parts /\ r.len[r.part] = Cap[r.part] /\ next.part = "refused"
         \/ /\ r.part # "refused" /\ (r.part \in Parts => r.len[r.part] # Cap[r.part])
            /\ next.part = r.part /\ next.stage = r.stage /\ next.len = r.len
  BY <1>2, <1>3, StepOutcome DEF Parts
<1>6. \A part \in Parts : Cap[part] \in Nat /\ Cap[part] > 0
  BY CapAssumption
<1>7. /\ b = "lf" <=> buffer[n] = "cr"
      /\ b = "lf" => n > 1
  <2>1. n >= 1
    BY <1>1, <1>2, <1>3
  <2> QED
    BY <1>1, <1>2, <1>3, <2>1 DEF ProperUpTo, b
<1>8. st.len["header"] = n - line - 1 /\ st.len["header"] < Cap["header"]
  BY <1>1, <1>2, <1>3 DEF Sized, SoFar, Parts
<1>9. /\ \A part \in Parts \ {"header"} : SoFar(part, n + 1, m, p, s, line) = SoFar(part, n, m, p, s, line)
      /\ SoFar("header", n, m, p, s, line) = n - line - 1
      /\ SoFar("header", n + 1, m, p, s, line) = n - line
      /\ SoFar("header", n + 1, m, p, s, line) = SoFar("header", n, m, p, s, line) + 1
  <2>1. 0 < m /\ m <= n /\ m < p /\ p <= n /\ (s = p \/ p < s) /\ s < line /\ s <= n
    BY <1>1, <1>2, <1>3, SMTT(30) DEF Filled
  <2>2. /\ Clip(n + 1, 0, m) = Clip(n, 0, m) /\ Clip(n + 1, m, p) = Clip(n, m, p)
        /\ s = p \/ Clip(n + 1, p, s) = Clip(n, p, s)
        /\ Clip(n + 1, s, line) = Clip(n, s, line)
    BY <1>1, <1>2, <1>3, <2>1, ClipMoves, SMTT(30)
  <2>3. \A part \in Parts \ {"header"} : SoFar(part, n + 1, m, p, s, line) = SoFar(part, n, m, p, s, line)
    BY <2>2 DEF SoFar, Parts
  <2>4. ~(n <= line) /\ ~(n + 1 <= line) /\ (n + 1) - line - 1 = n - line /\ n - line = (n - line - 1) + 1
    BY <1>1, <1>2, <1>3, SMTT(30)
  <2>5. /\ SoFar("header", n, m, p, s, line) = n - line - 1
        /\ SoFar("header", n + 1, m, p, s, line) = n - line
    BY <2>4 DEF SoFar
  <2> QED
    BY <2>3, <2>4, <2>5
<1>10. n + 1 = end => b = "lf" /\ st.stage = 6
  <2>1. SUFFICES ASSUME n + 1 = end PROVE b = "lf" /\ st.stage = 6
    OBVIOUS
  <2>2. end <= N /\ PatternEnds(buffer, end)
    BY <1>3, <2>1 DEF Landmarks
  <2>3. end - 2 = n - 1 /\ end - 1 = n
    BY <1>3, <2>1
  <2>4. buffer[n - 1] = "lf" /\ buffer[n] = "cr" /\ b = "lf"
    BY <2>1, <2>2, <2>3 DEF PatternEnds, b
  <2> QED
    BY <1>2, <2>4 DEF HeaderStage
<1> HIDE DEF r, next, b
<1>11. CASE b = "lf" /\ st.stage = 6
  <2>1. buffer[n] = "cr" /\ buffer[n - 1] = "lf"
    BY <1>2, <1>11 DEF HeaderStage
  <2>2. n - 1 > 1 /\ buffer[n - 2] = "cr" /\ n - 1 # line
    <3>1. n - 1 \in 1..(n + 1) /\ (n - 1) - 1 = n - 2
      BY <1>1, <1>2, <1>3, SMTT(30)
    <3>2. buffer[n - 1] = "lf" => n - 1 > 1 /\ buffer[(n - 1) - 1] = "cr"
      BY <3>1 DEF ProperUpTo
    <3>3. line <= N
      BY <1>1, <1>2, <1>3
    <3> QED
      BY <1>1, <2>1, <3>1, <3>2, <3>3
  <2>3. PatternEnds(buffer, n + 1) /\ n + 1 >= line + 3
    <3>1. (n + 1) - 3 = n - 2 /\ (n + 1) - 2 = n - 1 /\ (n + 1) - 1 = n /\ n + 1 >= line + 3
      BY <1>1, <1>2, <1>3, <2>2
    <3> QED
      BY <1>11, <2>1, <2>2, <3>1 DEF PatternEnds, b
  <2>4. n + 1 = end
    <3>1. \A k \in (line + 3)..(end - 1) : ~PatternEnds(buffer, k)
      BY DEF Landmarks
    <3> QED
      BY <1>1, <1>2, <1>3, <2>3, <3>1
  <2>5. r = Enter(Count(st), "body", 7)
    BY <1>4, <1>11 DEF ReadHeader, Eol
  <2>6. r.part = "body" /\ r.len = [st.len EXCEPT !["header"] = @ + 1]
    <3>1. st.part \in Parts
      BY DEF Parts
    <3>2. r.part = "body" /\ r.len = Counted(st)
      BY <2>5, <3>1, EntersCounted
    <3>3. Counted(st) = [st.len EXCEPT !["header"] = @ + 1]
      BY DEF Counted
    <3> QED
      BY <3>2, <3>3
  <2>7. next.part = "body" /\ next.len = r.len /\ next.index = n + 1
    BY <1>5, <2>6 DEF Parts
  <2>8. Sized(next, m, p, s, line)
    <3>1. "header" \in Parts
      BY DEF Parts
    <3>2. \A part \in Parts \ {"header"} :
            next.len[part] = st.len[part] /\ st.len[part] < Cap[part] /\ st.len[part] = SoFar(part, n, m, p, s, line)
      BY <1>2, <2>6, <2>7 DEF Sized
    <3>3. next.len["header"] = n - line /\ n - line <= Cap["header"]
      <4>1. next.len["header"] = st.len["header"] + 1
        BY <1>2, <2>6, <2>7, <3>1
      <4> QED
        BY <1>1, <1>3, <1>6, <1>8, <3>1, <4>1, SMTT(30)
    <3>4. \A part \in Parts : next.len[part] = SoFar(part, n + 1, m, p, s, line)
      BY <1>9, <3>2, <3>3
    <3>5. \A part \in Parts \ {"header"} : next.len[part] <= Cap[part] /\ next.len[part] < Cap[part]
      BY <1>2, <1>6, <3>2
    <3> QED
      BY <2>7, <3>3, <3>4, <3>5 DEF Sized
  <2>9. Clean(buffer, n + 1, line)
    BY <1>1, <1>2, <1>3, <1>11 DEF Clean, b
  <2>10. Filled(n + 1, m, p, s, line) /\ Placing(next, buffer, m, p, s, line, end)
    BY <1>1, <1>2, <1>3, <2>4, <2>7 DEF Filled, Placing
  <2> QED
    BY <2>7, <2>8, <2>9, <2>10 DEF Described, Parts, next, b
<1>12. CASE ~(b = "lf" /\ st.stage = 6)
  <2>1. n + 1 < end
    BY <1>1, <1>2, <1>3, <1>10, <1>12
  <2>2. CASE b = "ctl"
    <3>1. r = Refuse(st, 400)
      BY <1>4, <2>2 DEF ReadHeader, Control, Eol
    <3>2. next.part = "refused"
      BY <1>5, <3>1, EntersAndCounts DEF Parts
    <3>3. n + 1 \in 1..(end - 1)
      BY <1>1, <1>3, <2>1
    <3>4. ~IsRequest(buffer, m, p, s, line, end)
      BY <2>2, <3>3 DEF IsRequest, b
    <3> QED
      BY <3>2, <3>4 DEF Described, Parts, next, b
  <2>3. CASE b # "ctl"
    <3>1. r = Enter(Count(st), "header", HeaderStage(buffer, n + 1))
      <4>1. (n + 1) - 1 = n
        BY <1>3
      <4>2. HeaderStage(buffer, n + 1)
              = IF b = "cr" THEN IF buffer[n] = "lf" THEN 6 ELSE 4 ELSE IF b = "lf" THEN 5 ELSE 3
        BY <4>1 DEF HeaderStage, b
      <4>3. CASE b \in Eol
        <5>1. st.stage # 6
          <6>1. st.stage = 6 => buffer[n] = "cr"
            BY <1>2 DEF HeaderStage
          <6> QED
            BY <1>7, <1>12, <6>1
        <5>2. r = Enter(Count(st), "header", st.stage + 1)
          BY <1>4, <4>3, <5>1 DEF ReadHeader
        <5>3. CASE b = "cr"
          <6>1. buffer[n] # "cr"
            BY <1>7, <5>3
          <6>2. st.stage = IF buffer[n] = "lf" THEN 5 ELSE 3
            BY <1>2, <6>1 DEF HeaderStage
          <6> QED
            BY <4>2, <5>2, <5>3, <6>2
        <5>4. CASE b = "lf"
          <6>1. buffer[n] = "cr"
            BY <1>7, <5>4
          <6>2. st.stage = 4
            BY <1>2, <5>1, <6>1 DEF HeaderStage
          <6> QED
            BY <4>2, <5>2, <5>4, <6>2
        <5> QED
          BY <4>3, <5>3, <5>4 DEF Eol
      <4>4. CASE b \notin Eol
        <5>1. r = Enter(Count(st), "header", 3)
          BY <1>4, <2>3, <4>4 DEF ReadHeader, Control
        <5> QED
          BY <4>2, <4>4, <5>1 DEF Eol
      <4> QED
        BY <4>3, <4>4
    <3>2. /\ r.part = "header" /\ r.stage = HeaderStage(buffer, n + 1)
          /\ r.len = [st.len EXCEPT !["header"] = @ + 1]
      <4>1. st.part \in Parts
        BY DEF Parts
      <4>2. r.part = "header" /\ r.stage = HeaderStage(buffer, n + 1) /\ r.len = Counted(st)
        BY <3>1, <4>1, EntersCounted
      <4>3. Counted(st) = [st.len EXCEPT !["header"] = @ + 1]
        BY DEF Counted
      <4> QED
        BY <4>2, <4>3
    <3>3. r.len["header"] = n - line
      <4>1. r.len["header"] = st.len["header"] + 1
        BY <1>2, <3>2 DEF Parts
      <4> QED
        BY <1>1, <1>3, <1>8, <4>1
    <3>4. CASE n - line = Cap["header"]
      <4>1. next.part = "refused"
        BY <1>5, <3>2, <3>3, <3>4 DEF Parts
      <4>2. PartLength("header", m, p, s, line, end) = end - line - 1
        BY DEF PartLength
      <4>3. ~IsRequest(buffer, m, p, s, line, end)
        BY <1>1, <1>3, <2>1, <3>4, <4>2 DEF IsRequest
      <4> QED
        BY <4>1, <4>3 DEF Described, Parts, next, b
    <3>5. CASE n - line # Cap["header"]
      <4>1. next.part = "header" /\ next.stage = HeaderStage(buffer, n + 1) /\ next.len = r.len /\ next.index = n + 1
        BY <1>5, <3>2, <3>3, <3>5 DEF Parts
      <4>2. Sized(next, m, p, s, line)
        <5>1. \A part \in Parts : SoFar(part, n + 1, m, p, s, line)
                = IF part = "header" THEN SoFar(part, n, m, p, s, line) + 1 ELSE SoFar(part, n, m, p, s, line)
          BY <1>9
        <5>2. st.len["header"] + 1 # Cap["header"] /\ "header" \in Parts /\ next.part # "body"
          BY <1>1, <1>3, <1>8, <3>5, <4>1 DEF Parts
        <5>3. next.len = [st.len EXCEPT !["header"] = @ + 1]
          BY <3>2, <4>1
        <5>4. \A part \in Parts : SoFar(part, next.index, m, p, s, line)
                = IF part = "header" THEN SoFar(part, st.index, m, p, s, line) + 1
                  ELSE SoFar(part, st.index, m, p, s, line)
          BY <1>2, <4>1, <5>1
        <5>5. Sized(st, m, p, s, line) /\ st.part # "body"
          BY <1>2
        <5> QED
          BY <5>2, <5>3, <5>4, <5>5, SizedCounts
      <4>3. Clean(buffer, n + 1, line)
        BY <1>1, <1>2, <1>3, <2>3 DEF Clean, b
      <4>4. Filled(n + 1, m, p, s, line) /\ Placing(next, buffer, m, p, s, line, end)
        BY <1>1, <1>2, <1>3, <2>1, <4>1 DEF Filled, Placing
      <4> QED
        BY <4>1, <4>2, <4>3, <4>4 DEF Described, next, b
    <3> QED
      BY <3>4, <3>5
  <2> QED
    BY <2>2, <2>3
<1> QED
  BY <1>11, <1>12

(* Before the first byte.                                                   *)
LEMMA StartDescribed ==
  ASSUME NEW buffer \in Seq(Bytes), NEW m, NEW p, NEW s, NEW line, NEW end,
         Landmarks(buffer, m, p, s, line, end)
  PROVE  Described(Start, buffer, 0, m, p, s, line, end)
<1>1. /\ m \in Nat /\ p \in Nat /\ s \in Nat /\ line \in Nat /\ end \in Nat
      /\ 1 <= m /\ m <= p /\ p <= s /\ s <= line /\ line <= end
  BY LandmarksInOrder
<1>2. Start.part = "method" /\ Start.index = 0 /\ \A part \in Parts : Start.len[part] = 0
  BY DEF Start
<1>3. \A part \in Parts : SoFar(part, 0, m, p, s, line) = 0
  <2>1. Clip(0, 0, m) = 0 /\ Clip(0, m, p) = 0 /\ Clip(0, p, s) = 0 /\ Clip(0, s, line) = 0 /\ 0 <= line
    BY <1>1 DEF Clip
  <2> QED
    BY <2>1 DEF SoFar, Parts
<1>4. Sized(Start, m, p, s, line)
  BY <1>2, <1>3, CapAssumption DEF Sized
<1>5. Clean(buffer, 0, line) /\ Filled(0, m, p, s, line) /\ Placing(Start, buffer, m, p, s, line, end)
  BY <1>1, <1>2 DEF Clean, Filled, Placing
<1> QED
  BY <1>2, <1>4, <1>5 DEF Described

(* The parser's states are what the places of the request say, as long as   *)
(* lines end as they should in what it has read.                            *)
LEMMA RunDescribed ==
  ASSUME NEW buffer \in Seq(Bytes), NEW f, ParserRun(f, buffer),
         NEW m, NEW p, NEW s, NEW line, NEW end, Landmarks(buffer, m, p, s, line, end),
         NEW n \in 0..Len(buffer), ProperUpTo(buffer, f[n].index)
  PROVE  Described(f[n], buffer, n, m, p, s, line, end)
<1> DEFINE N == Len(buffer)
           Good(k) == ProperUpTo(buffer, f[k].index) => Described(f[k], buffer, k, m, p, s, line, end)
           S == {k \in 0..N : Good(k)}
<1>1. N \in Nat /\ f \in [0..N -> States] /\ f[0] = Start
  BY DEF ParserRun
<1>2. 0 \in S
  BY <1>1, StartDescribed
<1>3. ASSUME NEW k \in 0..N - 1, k \in S PROVE k + 1 \in S
  <2> SUFFICES ASSUME ProperUpTo(buffer, f[k + 1].index)
               PROVE  Described(f[k + 1], buffer, k + 1, m, p, s, line, end)
    BY <1>1
  <2>1. PICK st \in States : st = f[k]
    BY <1>1
  <2>2. f[k + 1] = Step(st, buffer[k + 1]) /\ buffer[k + 1] \in Bytes
    BY <1>1, <2>1 DEF ParserRun
  <2>3. st.index \in Nat
    BY DEF States, Records
  <2>4. CASE st.part \notin Parts
    <3>1. f[k + 1] = st
      BY <2>2, <2>4, StepIsState
    <3>2. Described(st, buffer, k, m, p, s, line, end)
      BY <1>3, <2>1, <3>1
    <3>3. st.index <= k => st.index <= k + 1
      BY <2>3
    <3> QED
      BY <2>4, <3>1, <3>2, <3>3 DEF Described
  <2>5. CASE st.part \in Parts
    <3>1. f[k + 1].index = st.index + 1
      BY <2>2, <2>5, StepIsState
    <3>2. ProperUpTo(buffer, st.index + 1)
      BY <3>1
    <3>3. ProperUpTo(buffer, st.index)
      BY <2>3, <3>2 DEF ProperUpTo
    <3>4. Described(st, buffer, k, m, p, s, line, end)
      BY <1>3, <2>1, <3>3
    <3>5. ProperUpTo(buffer, k + 1)
      BY <2>5, <3>2, <3>4 DEF Described
    <3>6. Described(Step(st, buffer[k + 1]), buffer, k + 1, m, p, s, line, end)
      <4>1. CASE st.part = "method"
        BY <3>4, <4>1, MethodDescribed
      <4>2. CASE st.part = "pathname"
        BY <3>4, <4>2, PathnameDescribed
      <4>3. CASE st.part = "search"
        BY <3>4, <4>3, SearchDescribed
      <4>4. CASE st.part = "protocol"
        BY <3>4, <3>5, <4>4, ProtocolDescribed
      <4>5. CASE st.part = "header"
        BY <3>4, <3>5, <4>5, HeaderDescribed
      <4> QED
        BY <2>5, <4>1, <4>2, <4>3, <4>4, <4>5 DEF Parts
    <3> QED
      BY <2>2, <3>6
  <2> QED
    BY <2>4, <2>5
<1> HIDE DEF S
<1>4. 0..N \subseteq S
  BY <1>1, <1>2, <1>3, InductionUpTo
<1> QED
  BY <1>4 DEF S

(* A parser that is through has read a request, with all of its lengths.    *)
LEMMA ThroughIsRequest ==
  ASSUME NEW buffer \in Seq(Bytes), NEW m, NEW p, NEW s, NEW line, NEW end,
         Landmarks(buffer, m, p, s, line, end), NEW st \in States, st.part = "body",
         Described(st, buffer, Len(buffer), m, p, s, line, end)
  PROVE  IsRequest(buffer, m, p, s, line, end) /\ st.index = end /\ st.len = Lengths(m, p, s, line, end)
<1> DEFINE N == Len(buffer)
<1>1. /\ N \in Nat /\ m \in Nat /\ p \in Nat /\ s \in Nat /\ line \in Nat /\ end \in Nat
      /\ 1 <= m /\ m <= p /\ p <= s /\ s <= line /\ line <= end /\ end <= N + 1
      /\ m <= N => m < p
      /\ s <= N => s < line
  BY LandmarksInOrder
<1>2. /\ st.index = end /\ end <= N
      /\ Sized(st, m, p, s, line) /\ Clean(buffer, end, line) /\ Filled(end, m, p, s, line)
  BY DEF Described, Placing
<1>3. end >= line + 3
  BY <1>2 DEF Landmarks
<1>4. m > 1 /\ p > m + 1 /\ line > s + 1
  BY <1>1, <1>2, <1>3 DEF Filled
<1>5. \A part \in Parts : st.len[part] = PartLength(part, m, p, s, line, end)
  <2>1. Clip(end, 0, m) = m - 1 /\ Clip(end, m, p) = p - m - 1 /\ Clip(end, s, line) = line - s - 1
    BY <1>1, <1>3, <1>4 DEF Clip
  <2>2. s = p \/ Clip(end, p, s) = s - p - 1
    BY <1>1, <1>3 DEF Clip
  <2>3. ~(end <= line)
    BY <1>1, <1>3
  <2>4. \A part \in Parts : SoFar(part, end, m, p, s, line) = PartLength(part, m, p, s, line, end)
    BY <2>1, <2>2, <2>3 DEF SoFar, PartLength, Parts
  <2> QED
    BY <1>2, <2>4 DEF Sized
<1>6. /\ \A k \in 1..(end - 1) : buffer[k] # "ctl"
      /\ \A k \in 1..(line - 1) : buffer[k] \notin Control
  BY <1>1, <1>2 DEF Clean
<1>7. /\ \A part \in Parts \ {"header"} : PartLength(part, m, p, s, line, end) < Cap[part]
      /\ PartLength("header", m, p, s, line, end) <= Cap["header"]
  BY <1>2, <1>5 DEF Sized, Parts
<1>8. IsRequest(buffer, m, p, s, line, end)
  BY <1>2, <1>4, <1>6, <1>7 DEF IsRequest
<1>9. st.len = Lengths(m, p, s, line, end)
  <2>1. st.len \in [Parts -> Nat]
    BY DEF States, Records
  <2>2. st.len = [part \in Parts |-> st.len[part]]
    BY <2>1
  <2> QED
    BY <1>5, <2>2, LengthsAre
<1> QED
  BY <1>2, <1>8, <1>9

(* A buffer that ends in one of the parts holds no whole request.           *)
LEMMA UnfinishedIsNone ==
  ASSUME NEW buffer \in Seq(Bytes), NEW m, NEW p, NEW s, NEW line, NEW end,
         Landmarks(buffer, m, p, s, line, end), NEW st \in States, st.part \in Parts,
         Described(st, buffer, Len(buffer), m, p, s, line, end)
  PROVE  ~IsRequest(buffer, m, p, s, line, end)
<1> DEFINE N == Len(buffer)
<1>1. /\ N \in Nat /\ m \in Nat /\ p \in Nat /\ s \in Nat /\ line \in Nat /\ end \in Nat
      /\ m <= p /\ p <= s /\ s <= line /\ line <= end
  BY LandmarksInOrder
<1>2. st.index = N /\ Placing(st, buffer, m, p, s, line, end)
  BY DEF Described, Parts
<1>3. end <= N => end >= line + 3
  BY DEF Landmarks
<1>4. N < m \/ N < p \/ N < s \/ N < line \/ N = line \/ N < end
  BY <1>2 DEF Placing, Parts
<1>5. ~(end <= N)
  BY <1>1, <1>3, <1>4
<1> QED
  BY <1>5 DEF IsRequest

(* request() routes exactly the requests: for every buffer and every        *)
(* capacity of the parts, where lines end as they should in what was read,  *)
(* the stages of request.c:37-163 find a request where the grammar has one, *)
(* with its end and the length of every part.                               *)
THEOREM ParserIsGrammar ==
  ASSUME NEW buffer \in Seq(Bytes),
         ProperLines(SubSeq(buffer, 1, IF Parse(buffer).status = 0 THEN Parse(buffer).index ELSE Len(buffer)))
  PROVE  /\ Parse(buffer).status = 0 <=> Request(buffer).index # 0
         /\ Parse(buffer).status = 0 =>
              Parse(buffer).index = Request(buffer).index /\ Parse(buffer).len = Request(buffer).len
<1> DEFINE N == Len(buffer)
<1>1. N \in Nat /\ N \in 0..Len(buffer)
  OBVIOUS
<1>2. PICK f : ParserRun(f, buffer) /\ Parse(buffer) = ParsedFrom(f[N])
  BY ParserRunExists
<1>3. PICK st \in States : st = f[N] /\ st.index <= N
  BY <1>1, <1>2, ReadsNoMore
<1>4. PICK x : x = IF Parse(buffer).status = 0 THEN Parse(buffer).index ELSE N
  OBVIOUS
<1>5. st.index \in Nat /\ x \in 0..N /\ st.index <= x
  <2>1. st.index \in Nat
    BY DEF States, Records
  <2>2. Parse(buffer).index = st.index
    BY <1>2, <1>3, ParsedFromState
  <2> QED
    BY <1>1, <1>3, <1>4, <2>1, <2>2
<1>6. ProperUpTo(buffer, st.index)
  <2>1. PICK head : head = SubSeq(buffer, 1, x)
    OBVIOUS
  <2>2. Len(head) = x /\ \A k \in 1..x : head[k] = buffer[k]
    BY <1>1, <1>5, <2>1
  <2>3. ProperLines(head)
    BY <1>4, <2>1
  <2>4. ProperUpTo(buffer, x)
    BY <1>5, <2>2, <2>3 DEF ProperLines, ProperUpTo
  <2> QED
    BY <1>5, <2>4 DEF ProperUpTo
<1>7. PICK m, p, s, line, end :
        /\ Landmarks(buffer, m, p, s, line, end)
        /\ Request(buffer) = IF IsRequest(buffer, m, p, s, line, end)
                             THEN [index |-> end, len |-> Lengths(m, p, s, line, end)]
                             ELSE [index |-> 0, len |-> Start.len]
  BY RequestIs
<1>8. Described(st, buffer, N, m, p, s, line, end)
  BY <1>1, <1>2, <1>3, <1>6, <1>7, RunDescribed
<1>9. CASE st.part = "body"
  <2>1. Parse(buffer) = st /\ st.status = 0
    BY <1>2, <1>3, <1>9 DEF ParsedFrom, States, Parts
  <2>2. IsRequest(buffer, m, p, s, line, end) /\ st.index = end /\ st.len = Lengths(m, p, s, line, end)
    BY <1>7, <1>8, <1>9, ThroughIsRequest
  <2>3. Request(buffer).index = end /\ Request(buffer).len = Lengths(m, p, s, line, end)
    BY <1>7, <2>2
  <2>4. end # 0
    BY <1>1, <1>7 DEF Landmarks
  <2> QED
    BY <2>1, <2>2, <2>3, <2>4
<1>10. CASE st.part # "body"
  <2>1. Parse(buffer).status # 0
    BY <1>2, <1>3, <1>10, ParsedFromState
  <2>2. ~IsRequest(buffer, m, p, s, line, end)
    <3>1. CASE st.part \in Parts
      BY <1>7, <1>8, <3>1, UnfinishedIsNone
    <3>2. CASE st.part = "refused"
      BY <1>8, <3>2 DEF Described
    <3> QED
      BY <1>10, <3>1, <3>2 DEF States, Records
  <2>3. Request(buffer).index = 0
    BY <1>7, <2>2
  <2> QED
    BY <2>1, <2>3
<1> QED
  BY <1>9, <1>10

------------------------------------------------------------------------------
(* The connection.                                                          *)

LEMMA SizesAreNumbers ==
  /\ FirstCap \in Nat /\ FirstCap <= ReceiveBuffer
  /\ ReceiveBuffer \in Nat /\ SendBuffer \in Nat /\ BodyBase \in Nat /\ Beyond \in Nat /\ Word \in Nat
  /\ BodyBase <= SendBuffer
  /\ ReceiveBuffer < Word
  /\ ReceivePackets \in Nat \ {0} /\ SendPackets \in Nat \ {0}
<1>1. \A p \in Parts : Cap[p] \in Nat
  BY CapAssumption
<1>2. FirstCap \in Nat
  BY <1>1 DEF FirstCap, Parts
<1> QED
  BY <1>2, ConnectionAssumption

LEMMA ClientBytes ==
  ASSUME NEW c \in Clients
  PROVE  c.bytes \in Seq(Bytes) /\ c.content \in Int /\ Len(c.bytes) \in Nat
  BY ConnectionAssumption

LEMMA AnswerFits ==
  ASSUME NEW a \in Answers
  PROVE  /\ a.header \in Nat \ {0} /\ a.body \in Nat
         /\ a.header <= BodyBase /\ BodyBase + a.body <= SendBuffer + Beyond
<1>1. /\ a \in [header : Nat \ {0}, body : Nat] /\ a.header <= BodyBase
      /\ a.body <= SendBuffer - BodyBase + Beyond
  BY ConnectionAssumption
<1> QED
  BY <1>1, SizesAreNumbers

(* Every request has a length below 2^64.                                   *)
LEMMA RequestLengthType ==
  ASSUME NEW c \in Clients, client = c, NEW first \in Seq(Bytes)
  PROVE  RequestLength(first) \in 0..(Word - 1)
<1>1. Word \in Nat \ {0}
  BY SizesAreNumbers
<1>2. \A x \in Int : x % Word \in 0..(Word - 1)
  BY <1>1
<1>3. BodyIndex(first) \in Nat /\ c.content \in Int
  BY BodyIndexType, ClientBytes
<1>4. PICK x \in 0..(Word - 1) : x = c.content % Word
  BY <1>2, <1>3
<1>5. PICK y \in 0..(Word - 1) : y = (BodyIndex(first) + x) % Word
  <2>1. BodyIndex(first) + x \in Int
    BY <1>1, <1>3
  <2> QED
    BY <1>2, <2>1
<1>6. RequestLength(first) \in {0, y}
  BY <1>4, <1>5 DEF RequestLength
<1> QED
  BY <1>1, <1>6

(* The addresses of a stretch of the response buffer.                       *)
LEMMA RunOf ==
  ASSUME NEW from \in Int, NEW n \in Nat
  PROVE  /\ Run(from, n) \in Seq(Int) /\ Len(Run(from, n)) = n
         /\ \A i \in 1..n : Run(from, n)[i] = from + i - 1
  BY DEF Run

LEMMA RunFromZero ==
  ASSUME NEW n \in Nat
  PROVE  /\ Run(0, n) \in Seq(Int) /\ Len(Run(0, n)) = n
         /\ \A i \in 1..n : Run(0, n)[i] = i - 1
  BY DEF Run

LEMMA WholeOf ==
  ASSUME resp.header \in Nat, resp.body \in Nat
  PROVE  /\ Whole \in Seq(Int) /\ Len(Whole) = resp.header + resp.body
         /\ \A i \in 1..resp.header : Whole[i] = i - 1
         /\ \A i \in (resp.header + 1)..(resp.header + resp.body) : Whole[i] = BodyBase + (i - resp.header) - 1
<1>1. PICK n \in Nat, k \in Nat : n = resp.header /\ k = resp.body
  OBVIOUS
<1> DEFINE h == Run(0, n)
           b == Run(BodyBase, k)
<1>2. /\ h \in Seq(Int) /\ Len(h) = n
      /\ \A i \in 1..n : h[i] = i - 1
  BY RunFromZero
<1>3. /\ b \in Seq(Int) /\ Len(b) = k
      /\ \A i \in 1..k : b[i] = BodyBase + i - 1
  <2>1. BodyBase \in Int
    BY SizesAreNumbers
  <2> QED
    BY <2>1, RunOf
<1>4. Whole = h \o b
  BY <1>1 DEF Whole
<1> HIDE DEF h, b
<1>5. BodyBase \in Nat
  BY SizesAreNumbers
<1>6. h \o b \in Seq(Int) /\ Len(h \o b) = n + k
  <2>1. h \in Seq(Int) /\ Len(h) = n /\ b \in Seq(Int) /\ Len(b) = k
    BY <1>2, <1>3
  <2> QED
    BY <2>1, SMTT(30)
<1>7. \A i \in 1..n : (h \o b)[i] = i - 1
  BY <1>1, <1>2, <1>3
<1>8. \A i \in (n + 1)..(n + k) : (h \o b)[i] = BodyBase + (i - n) - 1
  <2> SUFFICES ASSUME NEW i \in (n + 1)..(n + k) PROVE (h \o b)[i] = BodyBase + (i - n) - 1
    OBVIOUS
  <2>1. h \in Seq(Int) /\ Len(h) = n /\ b \in Seq(Int) /\ Len(b) = k
    BY <1>2, <1>3
  <2>2. i - n \in 1..k
    BY <1>1
  <2>3. (h \o b)[i] = b[i - n]
    BY <2>1, <2>2, SMTT(30)
  <2> QED
    BY <1>3, <2>2, <2>3
<1> QED
  BY <1>1, <1>4, <1>6, <1>7, <1>8

-----------------------------------------------------------------------------
(* Type correctness.                                                        *)

Addresses == 0..(SendBuffer + Beyond - 1)

Receives == {"open", "receive", "further", "request"}

ConnectionInv ==
  /\ client \in Clients
  /\ pc \in Pc
  /\ received \in Nat /\ received <= ReceiveBuffer /\ received <= Len(client.bytes)
  /\ packetsIn \in 0..ReceivePackets
  /\ expected \in 0..(Word - 1)
  /\ req \in States /\ req.index <= received
  /\ resp \in Answers \cup {[header |-> 0, body |-> 0]}
  /\ out \in Seq(Addresses) /\ Len(out) <= ResponseLength
  /\ packetsOut \in 0..SendPackets
  /\ failed \in BOOLEAN
  /\ pc \in Receives => req = Start
  /\ pc \in {"send", "sendFurther"} => resp \in Answers
  /\ pc \in Receives \cup {"route", "send"} => out = <<>>
  /\ pc = "sendFurther" => out # <<>>

LEMMA FailsTyped ==
  ASSUME ConnectionInv, NEW p, Fails(p)
  PROVE  ConnectionInv'
  BY DEF ConnectionInv, Fails, Goto, Pc, Receives, ResponseLength

LEMMA TypedStep == ConnectionInv /\ [Next]_vars => ConnectionInv'
<1> SUFFICES ASSUME ConnectionInv, [Next]_vars PROVE ConnectionInv'
  OBVIOUS
<1> USE DEF sendVars
<1>1. client.bytes \in Seq(Bytes) /\ Len(client.bytes) \in Nat
  BY ClientBytes DEF ConnectionInv
<1>2. CASE SetTimeouts
  BY <1>2 DEF SetTimeouts, ConnectionInv, Goto, Pc, Receives, ResponseLength
<1>3. CASE Receive
  <2>1. PICK n \in 1..Smaller(Coming, FirstCap) :
          received' = n /\ expected' = RequestLength(SubSeq(client.bytes, 1, n))
    BY <1>3 DEF Receive
  <2>2. n <= Len(client.bytes) /\ n <= ReceiveBuffer /\ n \in Nat
    BY <1>1, SizesAreNumbers DEF Smaller, Coming, ConnectionInv
  <2>3. expected' \in 0..(Word - 1)
    <3>1. SubSeq(client.bytes, 1, n) \in Seq(Bytes)
      BY <1>1, <2>2
    <3> QED
      BY <2>1, <3>1, RequestLengthType DEF ConnectionInv
  <2>4. req = Start /\ Start.index = 0
    BY <1>3 DEF Receive, ConnectionInv, Receives, Start
  <2> QED
    BY <1>3, <2>1, <2>2, <2>3, <2>4, SizesAreNumbers
    DEF Receive, ConnectionInv, Goto, Pc, Receives, ResponseLength
<1>4. CASE ReceiveFurther
  <2>1. PICK n \in 1..Smaller(Coming, Room) : received' = received + n
    BY <1>4 DEF ReceiveFurther
  <2>2. received' <= Len(client.bytes) /\ received' <= ReceiveBuffer /\ received' \in Nat /\ received <= received'
    BY <1>1, <2>1, SizesAreNumbers DEF Smaller, Coming, Room, ConnectionInv
  <2>3. packetsIn' \in 0..ReceivePackets
    BY <1>4, SizesAreNumbers DEF ReceiveFurther, ReceivesNoMore, ConnectionInv
  <2>4. req.index \in Nat
    BY DEF ConnectionInv, States, Records
  <2>5. req.index <= received'
    BY <2>2, <2>4 DEF ConnectionInv
  <2> QED
    BY <1>4, <2>2, <2>3, <2>5
    DEF ReceiveFurther, ConnectionInv, Goto, Pc, Receives, ResponseLength
<1>5. CASE Received
  BY <1>5 DEF Received, ConnectionInv, Goto, Pc, Receives, ResponseLength
<1>6. CASE ParseRequest
  <2>1. Buffer \in Seq(Bytes) /\ Len(Buffer) = received
    BY <1>1 DEF Buffer, ConnectionInv
  <2>2. req' \in States /\ req'.index <= received
    BY <1>6, <2>1, ParseType DEF ParseRequest
  <2> QED
    BY <1>6, <2>2 DEF ParseRequest, ConnectionInv, Goto, Pc, Receives, ResponseLength
<1>7. CASE Route
  <2>1. out = <<>> /\ Len(out) = 0
    BY <1>7 DEF Route, ConnectionInv
  <2>2. resp' \in Answers /\ 0 <= resp'.header + resp'.body
    BY <1>7, AnswerFits DEF Route
  <2> QED
    BY <1>7, <2>1, <2>2 DEF Route, ConnectionInv, Goto, Pc, Receives, ResponseLength
<1>8. CASE RouteCrashes
  BY <1>8 DEF RouteCrashes, ConnectionInv, Goto, Pc, Receives, ResponseLength
<1>9. CASE Send
  <2>1. /\ resp \in Answers /\ resp' = resp
        /\ resp.header \in Nat \ {0} /\ resp.body \in Nat
        /\ resp.header <= SendBuffer
    BY <1>9, AnswerFits, SizesAreNumbers DEF Send, ConnectionInv
  <2>2. PICK n \in 1..resp.header : out' = Run(0, n)
    BY <1>9, <2>1 DEF Send
  <2>3. out' \in Seq(Addresses) /\ Len(out') = n
    <3>1. Run(0, n) \in Seq(Int) /\ Len(Run(0, n)) = n /\ \A i \in 1..n : Run(0, n)[i] = 0 + i - 1
      BY RunOf
    <3>2. \A i \in 1..n : Run(0, n)[i] \in Addresses
      BY <2>1, <3>1, SizesAreNumbers, SMTT(30) DEF Addresses
    <3> QED
      BY <2>2, <3>1, <3>2
  <2>4. out' # <<>> /\ Len(out') <= resp.header + resp.body
    BY <2>1, <2>3
  <2> QED
    BY <1>9, <2>1, <2>3, <2>4, SizesAreNumbers
    DEF Send, ConnectionInv, Goto, Pc, Receives, ResponseLength
<1>10. CASE SendFurther
  <2>1. /\ resp \in Answers /\ resp' = resp
        /\ resp.header \in Nat \ {0} /\ resp.body \in Nat
        /\ resp.header <= BodyBase /\ BodyBase + resp.body <= SendBuffer + Beyond
        /\ out \in Seq(Addresses) /\ Len(out) \in Nat \ {0} /\ Len(out) <= resp.header + resp.body
    BY <1>10, AnswerFits DEF SendFurther, ConnectionInv, ResponseLength
  <2>2. PICK n \in 1..(resp.body - BodyOffset) : out' = out \o Run(BodyBase + BodyOffset, n)
    BY <1>10 DEF SendFurther
  <2>13. BodyBase \in Nat /\ SendBuffer \in Nat /\ Beyond \in Nat
    BY SizesAreNumbers
  <2>14. PICK from \in Nat : from = BodyBase + BodyOffset
    BY <2>1, <2>13 DEF BodyOffset
  <2>3. n \in Nat \ {0} /\ from + n <= SendBuffer + Beyond
    <3>1. PICK h \in Nat, b \in Nat, l \in Nat : h = resp.header /\ b = resp.body /\ l = Len(out)
      BY <2>1
    <3>2. n \in 1..(b - (l - h)) /\ from = BodyBase + (l - h) /\ BodyBase + b <= SendBuffer + Beyond
      BY <2>1, <2>2, <2>14, <3>1 DEF BodyOffset
    <3> QED
      BY <2>13, <3>2
  <2>4. /\ Run(from, n) \in Seq(Int) /\ Len(Run(from, n)) = n
        /\ \A i \in 1..n : Run(from, n)[i] = from + i - 1
    BY <2>3, <2>14, RunOf
  <2>5. \A i \in 1..n : Run(from, n)[i] \in Addresses
    BY <2>3, <2>4, <2>13 DEF Addresses
  <2>6. Run(from, n) \in Seq(Addresses)
    BY <2>4, <2>5
  <2>7. out' \in Seq(Addresses) /\ Len(out') = Len(out) + n
    <3>1. out \in Seq(Addresses) /\ Run(from, n) \in Seq(Addresses) /\ Len(Run(from, n)) = n
      BY <2>1, <2>4, <2>6
    <3>2. out' = out \o Run(from, n)
      BY <2>2, <2>14
    <3> HIDE DEF Addresses
    <3> QED
      BY <3>1, <3>2, ConcatProperties
  <2>8. out' # <<>> /\ Len(out') <= resp.header + resp.body
    BY <2>1, <2>2, <2>3, <2>7 DEF BodyOffset
  <2>9. packetsOut' \in 0..SendPackets
    BY <1>10, SizesAreNumbers DEF SendFurther, SendsNoMore, ConnectionInv
  <2> QED
    BY <1>10, <2>1, <2>7, <2>8, <2>9
    DEF SendFurther, ConnectionInv, Goto, Pc, Receives, ResponseLength
<1>11. CASE AllSent
  BY <1>11 DEF AllSent, ConnectionInv, Goto, Pc, Receives, ResponseLength
<1>12. CASE Close
  BY <1>12 DEF Close, ConnectionInv, Goto, Pc, Receives, ResponseLength
<1>13. CASE OpenFails \/ ReceiveFails \/ FurtherFails \/ SendFails \/ SendFurtherFails
  BY <1>13, FailsTyped DEF OpenFails, ReceiveFails, FurtherFails, SendFails, SendFurtherFails
<1>14. CASE UNCHANGED vars
  BY <1>14 DEF vars, ConnectionInv, ResponseLength
<1> QED
  BY <1>2, <1>3, <1>4, <1>5, <1>6, <1>7, <1>8, <1>9, <1>10, <1>11, <1>12, <1>13, <1>14 DEF Next

LEMMA InitTyped == Init => ConnectionInv
<1> SUFFICES ASSUME Init PROVE ConnectionInv
  OBVIOUS
<1>1. Start \in States /\ Start.index = 0
  BY StartIsState DEF Start
<1>2. Len(client.bytes) \in Nat
  BY ClientBytes DEF Init
<1>3. out = <<>> /\ out \in Seq(Addresses) /\ Len(out) <= ResponseLength
  BY DEF Init, ResponseLength
<1>4. 0 \in 0..(Word - 1) /\ 0 \in 0..ReceivePackets /\ 0 \in 0..SendPackets /\ 0 <= ReceiveBuffer
  BY SizesAreNumbers
<1> QED
  <2>1. /\ client \in Clients /\ pc = "open" /\ received = 0 /\ packetsIn = 0 /\ expected = 0
        /\ req = Start /\ resp = [header |-> 0, body |-> 0] /\ packetsOut = 0 /\ failed = FALSE
    BY DEF Init
  <2>2. received \in Nat /\ received <= ReceiveBuffer /\ received <= Len(client.bytes)
    BY <1>2, <1>4, <2>1
  <2>3. req \in States /\ req.index <= received
    BY <1>1, <2>1
  <2> QED
    BY <1>3, <1>4, <2>1, <2>2, <2>3 DEF ConnectionInv, Pc

LEMMA AlwaysTyped == Spec => []ConnectionInv
  BY InitTyped, TypedStep, PTL DEF Spec

(* Every variable keeps its type: no recv() goes past the receive buffer,   *)
(* no limit on packets is passed, and request_length does not leave a       *)
(* size_t, even where the first send() is short (app.c:34-91, 125-166).  A  *)
(* send() goes as far behind the send buffer as a body was written there,   *)
(* Beyond bytes at most: handle() adds nothing to what flight.c:124 lets    *)
(* through, and does not stop it either.                                    *)
THEOREM ConnectionTyped == Spec => []TypeOK
<1>1. ConnectionInv => TypeOK
  <2> SUFFICES ASSUME ConnectionInv PROVE TypeOK
    OBVIOUS
  <2>1. req.part \in Parts \cup {"body", "refused"} /\ req.index \in 0..received
    BY DEF ConnectionInv, States, Records
  <2>2. \A i \in DOMAIN out : out[i] \in 0..(SendBuffer + Beyond - 1)
    <3>1. out \in Seq(Addresses)
      BY DEF ConnectionInv
    <3>2. \A i \in DOMAIN out : out[i] \in Addresses
      BY <3>1
    <3> QED
      BY <3>2 DEF Addresses
  <2> QED
    BY <2>1, <2>2, SizesAreNumbers DEF ConnectionInv, TypeOK
<1> QED
  BY <1>1, AlwaysTyped, PTL

-----------------------------------------------------------------------------
(* What is sent.                                                            *)

Placed(i) == IF i <= resp.header THEN i - 1 ELSE BodyBase + (i - resp.header) - 1

(* What has been sent is the first bytes of the answer: head and header at  *)
(* least, once anything has.                                                *)
Ordered ==
  /\ out # <<>> => resp.header <= Len(out)
  /\ \A i \in 1..Len(out) : out[i] = Placed(i)

(* Nothing but send() adds to what is sent, and the answer is made before.  *)
LEMMA SentBySend ==
  ASSUME ConnectionInv, [Next]_vars
  PROVE  \/ UNCHANGED <<out, resp>>
         \/ Route /\ out = <<>> /\ out' = <<>>
         \/ Send
         \/ SendFurther
<1> USE DEF sendVars
<1>1. CASE SetTimeouts \/ Receive \/ ReceiveFurther \/ Received \/ ParseRequest \/ RouteCrashes \/ AllSent \/ Close
  BY <1>1 DEF SetTimeouts, Receive, ReceiveFurther, Received, ParseRequest, RouteCrashes, AllSent, Close
<1>2. CASE OpenFails \/ ReceiveFails \/ FurtherFails \/ SendFails \/ SendFurtherFails
  BY <1>2 DEF OpenFails, ReceiveFails, FurtherFails, SendFails, SendFurtherFails, Fails
<1>3. CASE Route
  BY <1>3 DEF Route, ConnectionInv
<1>4. CASE UNCHANGED vars
  BY <1>4 DEF vars
<1> QED
  BY <1>1, <1>2, <1>3, <1>4 DEF Next

LEMMA OrderedStep ==
  ASSUME ~ShortFirst
  PROVE  ConnectionInv /\ Ordered /\ [Next]_vars => Ordered'
<1> SUFFICES ASSUME ConnectionInv, Ordered, [Next]_vars PROVE Ordered'
  OBVIOUS
<1>1. CASE UNCHANGED <<out, resp>>
  BY <1>1 DEF Ordered, Placed
<1>2. CASE out' = <<>>
  BY <1>2 DEF Ordered
<1>3. CASE Send
  <2>1. resp \in Answers /\ resp' = resp /\ out' = Run(0, resp.header)
    BY <1>3 DEF Send, ConnectionInv
  <2>2. PICK h \in Nat : h = resp.header
    BY <2>1, AnswerFits
  <2>3. out' = Run(0, h) /\ Len(Run(0, h)) = h /\ \A i \in 1..h : Run(0, h)[i] = i - 1
    BY <2>1, <2>2, RunFromZero
  <2>4. resp'.header = h
    BY <2>1, <2>2
  <2>5. Len(out') = h /\ \A i \in 1..h : out'[i] = i - 1
    BY <2>3
  <2> QED
    BY <2>2, <2>4, <2>5 DEF Ordered, Placed
<1>4. CASE SendFurther
  <2>1. /\ resp \in Answers /\ resp' = resp
        /\ out \in Seq(Addresses) /\ out # <<>> /\ resp.header <= Len(out)
        /\ \A i \in 1..Len(out) : out[i] = Placed(i)
    BY <1>4 DEF SendFurther, ConnectionInv, Ordered
  <2>2. PICK h \in Nat, b \in Nat, l \in Nat : h = resp.header /\ b = resp.body /\ l = Len(out)
    BY <2>1, AnswerFits
  <2>3. BodyBase \in Nat
    BY SizesAreNumbers
  <2>4. PICK from \in Nat : from = BodyBase + (l - h)
    BY <2>1, <2>2, <2>3
  <2>5. PICK n \in 1..(b - (l - h)) : out' = out \o Run(from, n)
    BY <1>4, <2>2, <2>4 DEF SendFurther, BodyOffset
  <2>6. n \in Nat /\ from \in Int
    BY <2>2, <2>4, <2>5
  <2>7. /\ Run(from, n) \in Seq(Int) /\ Len(Run(from, n)) = n
        /\ \A i \in 1..n : Run(from, n)[i] = from + i - 1
    BY <2>6, RunOf
  <2>8. out \in Seq(Int)
    BY <2>1, SizesAreNumbers DEF Addresses
  <2>9. /\ Len(out') = l + n
        /\ \A i \in 1..(l + n) : out'[i] = IF i <= l THEN out[i] ELSE Run(from, n)[i - l]
    <3>1. Run(from, n) \in Seq(Int) /\ Len(Run(from, n)) = n
      BY <2>7
    <3>2. /\ Len(out \o Run(from, n)) = Len(out) + n
          /\ \A i \in 1..(Len(out) + n) :
               (out \o Run(from, n))[i] = IF i <= Len(out) THEN out[i] ELSE Run(from, n)[i - Len(out)]
      BY <2>8, <3>1, ConcatProperties, ZenonT(40)
    <3> QED
      BY <2>2, <2>5, <3>2
  <2>10. ASSUME NEW i \in 1..(l + n) PROVE out'[i] = Placed(i)
    <3>1. CASE i <= l
      <4>1. i \in 1..Len(out) /\ out'[i] = out[i]
        BY <2>2, <2>6, <2>9, <3>1
      <4> QED
        BY <2>1, <4>1
    <3>2. CASE i > l
      <4>1. i - l \in 1..n
        BY <2>2, <2>6, <3>2
      <4>2. out'[i] = from + (i - l) - 1
        <5>1. out'[i] = Run(from, n)[i - l]
          BY <2>2, <2>6, <2>9, <3>2
        <5>2. Run(from, n)[i - l] = from + (i - l) - 1
          BY <2>7, <4>1
        <5> QED
          BY <5>1, <5>2
      <4>3. Placed(i) = BodyBase + (i - h) - 1
        BY <2>1, <2>2, <2>6, <3>2 DEF Placed
      <4>4. i \in Int /\ l \in Int /\ h \in Int
        BY <2>2, <2>6
      <4>5. from + (i - l) - 1 = BodyBase + (i - h) - 1
        BY <2>3, <2>4, <4>4
      <4> QED
        BY <4>2, <4>3, <4>5
    <3> QED
      BY <2>2, <2>6, <3>1, <3>2
  <2>11. \A i \in 1..Len(out') : out'[i] = Placed(i)'
    BY <2>1, <2>9, <2>10 DEF Placed
  <2>12. resp'.header <= Len(out')
    BY <2>1, <2>2, <2>6, <2>9
  <2> QED
    BY <2>11, <2>12 DEF Ordered
<1> QED
  BY <1>1, <1>2, <1>3, <1>4, SentBySend

LEMMA AlwaysOrdered ==
  ASSUME ~ShortFirst
  PROVE  Spec => [](ConnectionInv /\ Ordered)
<1>1. Init => ConnectionInv /\ Ordered
  BY InitTyped DEF Init, Ordered
<1>2. ConnectionInv /\ Ordered /\ [Next]_vars => (ConnectionInv /\ Ordered)'
  BY TypedStep, OrderedStep
<1> QED
  BY <1>1, <1>2, PTL DEF Spec

LEMMA ResponseIsNumbers ==
  ASSUME ConnectionInv
  PROVE  resp.header \in Nat /\ resp.body \in Nat
<1>1. CASE resp \in Answers
  BY <1>1, AnswerFits
<1>2. CASE resp = [header |-> 0, body |-> 0]
  BY <1>2
<1> QED
  BY <1>1, <1>2 DEF ConnectionInv

LEMMA SentIsWhole ==
  ASSUME ConnectionInv, Ordered
  PROVE  /\ Len(Whole) = ResponseLength /\ Whole \in Seq(Int) /\ out \in Seq(Int)
         /\ Len(out) <= Len(Whole) /\ \A i \in 1..Len(out) : out[i] = Whole[i]
<1>1. resp.header \in Nat /\ resp.body \in Nat /\ BodyBase \in Nat
  BY ResponseIsNumbers, SizesAreNumbers
<1>2. /\ Whole \in Seq(Int) /\ Len(Whole) = resp.header + resp.body
      /\ \A i \in 1..resp.header : Whole[i] = i - 1
      /\ \A i \in (resp.header + 1)..(resp.header + resp.body) : Whole[i] = BodyBase + (i - resp.header) - 1
  BY <1>1, WholeOf
<1>3. out \in Seq(Int) /\ Len(out) <= resp.header + resp.body
  BY SizesAreNumbers DEF ConnectionInv, Addresses, ResponseLength
<1>4. ASSUME NEW i \in 1..Len(out) PROVE out[i] = Whole[i]
  <2>1. out[i] = Placed(i) /\ i \in Nat /\ 1 <= i /\ i <= resp.header + resp.body
    BY <1>1, <1>3 DEF Ordered
  <2>2. CASE i <= resp.header
    BY <1>1, <1>2, <2>1, <2>2 DEF Placed
  <2>3. CASE i > resp.header
    <3>1. i \in (resp.header + 1)..(resp.header + resp.body)
      BY <1>1, <2>1, <2>3
    <3>2. Whole[i] = BodyBase + (i - resp.header) - 1
      BY <1>2, <3>1
    <3> QED
      BY <1>1, <2>1, <2>3, <3>2 DEF Placed
  <2> QED
    BY <1>1, <2>1, <2>2, <2>3
<1> QED
  BY <1>2, <1>3, <1>4 DEF ResponseLength

(* The client gets head, header and body in order and nothing else, however *)
(* send() cuts the body and whichever call fails, provided the first send() *)
(* takes head and header whole (app.c:125-166).                             *)
THEOREM SendsInOrder ==
  ASSUME ~ShortFirst
  PROVE  Spec => []AnswerInOrder
<1>1. ConnectionInv /\ Ordered => AnswerInOrder
  <2> SUFFICES ASSUME ConnectionInv, Ordered PROVE AnswerInOrder
    OBVIOUS
  <2>1. /\ Whole \in Seq(Int) /\ out \in Seq(Int)
        /\ Len(out) <= Len(Whole) /\ \A i \in 1..Len(out) : out[i] = Whole[i]
    BY SentIsWhole
  <2>2. SubSeq(out, 1, Len(out)) = SubSeq(Whole, 1, Len(out))
    BY <2>1, SMTT(30)
  <2> QED
    BY <2>1, <2>2 DEF AnswerInOrder, IsPrefix
<1> QED
  BY <1>1, AlwaysOrdered, PTL

-----------------------------------------------------------------------------
(* The connection is closed with the answer sent, the packets used up, the  *)
(* head alone of an answer that is too long, or a call that failed.         *)
Ended ==
  /\ pc = "sendFurther" /\ ResponseLength > SendBuffer => out = Run(0, resp.header)
  /\ pc \in {"cleanup", "closed"} /\ ~failed =>
       \/ Len(out) = ResponseLength
       \/ packetsOut = SendPackets
       \/ ResponseLength > SendBuffer /\ out = Run(0, resp.header)

LEMMA EndedStep ==
  ASSUME ~ShortFirst
  PROVE  ConnectionInv /\ Ended /\ [Next]_vars => Ended'
<1> SUFFICES ASSUME ConnectionInv, Ended, [Next]_vars PROVE Ended'
  OBVIOUS
<1> USE DEF sendVars, Goto
<1>1. CASE SetTimeouts \/ Receive \/ ReceiveFurther \/ Received \/ ParseRequest \/ Route \/ RouteCrashes
  BY <1>1 DEF SetTimeouts, Receive, ReceiveFurther, Received, ParseRequest, Route, RouteCrashes, Ended
<1>6. CASE Send
  <2>1. pc' = "sendFurther" /\ out' = Run(0, resp.header) /\ resp' = resp
    BY <1>6 DEF Send
  <2> QED
    BY <2>1 DEF Ended
<1>7. CASE SendFurther
  <2>1. resp \in Answers /\ resp' = resp /\ pc' = "sendFurther" /\ ~SendsNoMore
    BY <1>7 DEF SendFurther, ConnectionInv
  <2>2. ResponseLength' = ResponseLength /\ ~(ResponseLength > SendBuffer)
    BY <2>1 DEF ResponseLength, SendsNoMore
  <2> QED
    BY <2>1, <2>2 DEF Ended
<1>2. CASE OpenFails \/ ReceiveFails \/ FurtherFails \/ SendFails \/ SendFurtherFails
  BY <1>2 DEF OpenFails, ReceiveFails, FurtherFails, SendFails, SendFurtherFails, Fails, Ended
<1>3. CASE AllSent
  <2>1. resp \in Answers /\ pc = "sendFurther" /\ pc' = "cleanup" /\ UNCHANGED <<resp, out, packetsOut>>
    BY <1>3 DEF AllSent, ConnectionInv
  <2>2. ResponseLength \in Nat /\ ResponseLength' = ResponseLength
    BY <2>1, AnswerFits, SizesAreNumbers DEF ResponseLength
  <2>3. CASE Sent
    <3>1. out \in Seq(Addresses) /\ Len(out) <= ResponseLength
      BY DEF ConnectionInv
    <3>2. Len(out) = ResponseLength
      BY <2>2, <2>3, <3>1 DEF Sent
    <3> QED
      BY <2>1, <2>2, <3>2 DEF Ended
  <2>4. CASE packetsOut + 1 > SendPackets
    <3>1. packetsOut = SendPackets
      BY <2>4, SizesAreNumbers DEF ConnectionInv
    <3> QED
      BY <2>1, <3>1 DEF Ended
  <2>5. CASE ResponseLength > SendBuffer
    <3>1. out' = Run(0, resp'.header) /\ ResponseLength' > SendBuffer
      BY <2>1, <2>2, <2>5 DEF Ended, Run
    <3> QED
      BY <2>1, <3>1 DEF Ended
  <2> QED
    BY <1>3, <2>3, <2>4, <2>5 DEF AllSent, SendsNoMore
<1>4. CASE Close
  BY <1>4 DEF Close, Ended, ResponseLength
<1>5. CASE UNCHANGED vars
  BY <1>5 DEF vars, Ended, ResponseLength
<1> QED
  BY <1>1, <1>2, <1>3, <1>4, <1>5, <1>6, <1>7 DEF Next

(* A connection that is closed without a failing call has sent all of its   *)
(* answer, or as far as the packets allowed carry it, or no body of one     *)
(* that is longer than the buffer: the loop of send() is left for no other  *)
(* reason (app.c:141-166).                                                  *)
THEOREM SendsWhole ==
  ASSUME ~ShortFirst
  PROVE  Spec => []AnswerDelivered
<1>1. Init => Ended
  BY DEF Init, Ended
<1>2. Spec => []Ended
  BY <1>1, EndedStep, AlwaysTyped, PTL DEF Spec
<1>3. ConnectionInv /\ Ordered /\ Ended => AnswerDelivered
  <2> SUFFICES ASSUME ConnectionInv, Ordered, Ended, pc = "closed", ~failed, packetsOut # SendPackets,
                      ~(ResponseLength > SendBuffer /\ out = Run(0, resp.header))
               PROVE  out = Whole
    BY DEF AnswerDelivered
  <2>1. /\ Whole \in Seq(Int) /\ out \in Seq(Int) /\ Len(out) = Len(Whole)
        /\ \A i \in 1..Len(out) : out[i] = Whole[i]
    BY SentIsWhole DEF Ended
  <2> QED
    BY <2>1, SeqEqual
<1> QED
  BY <1>2, <1>3, AlwaysOrdered, PTL

-----------------------------------------------------------------------------
(* What is received.                                                        *)

LengthOf(c, first) ==
  LET content == c.content % Word
  IN  IF "length" \in ToSet(first) /\ BodyIndex(first) # 0 /\ content > 0
      THEN (BodyIndex(first) + content) % Word
      ELSE 0

LEMMA RequestLengthOf ==
  ASSUME NEW first
  PROVE  RequestLength(first) = LengthOf(client, first)
  BY DEF RequestLength, LengthOf

(* The length was worked out from the first packet, which is all there is   *)
(* where it came out as 0; and handle() acts on what it has received when   *)
(* that is all it waits for or a limit is met.                              *)
Measured ==
  /\ received > 0 =>
       \E n \in 1..received : /\ expected = LengthOf(client, SubSeq(client.bytes, 1, n))
                              /\ expected = 0 => received = n
  /\ pc \in {"further", "request", "route", "send", "sendFurther"} => received > 0
  /\ pc \in {"request", "route", "send", "sendFurther"} \/ req # Start =>
       received > 0 /\ (Complete \/ ReceivesNoMore)
  /\ req # Start => req = Parse(Buffer)

LEMMA MeasuredStep == ConnectionInv /\ Measured /\ [Next]_vars => Measured'
<1> SUFFICES ASSUME ConnectionInv, Measured, [Next]_vars PROVE Measured'
  OBVIOUS
<1> USE DEF sendVars, Goto
<1>1. CASE SetTimeouts \/ RouteCrashes \/ AllSent \/ Close \/ Route \/ Send \/ SendFurther
  <2>1. UNCHANGED <<client, received, packetsIn, expected, req>>
    BY <1>1 DEF SetTimeouts, RouteCrashes, AllSent, Close, Route, Send, SendFurther
  <2>2. \/ pc' \in {"receive", "crashed", "cleanup", "closed"}
        \/ pc \in {"route", "send", "sendFurther"} /\ pc' \in {"send", "sendFurther"}
    BY <1>1 DEF SetTimeouts, RouteCrashes, AllSent, Close, Route, Send, SendFurther
  <2> QED
    BY <2>1, <2>2 DEF Measured, Complete, ReceivesNoMore, Buffer
<1>2. CASE OpenFails \/ ReceiveFails \/ FurtherFails \/ SendFails \/ SendFurtherFails
  <2>1. UNCHANGED <<client, received, packetsIn, expected, req>> /\ pc' = "cleanup"
    BY <1>2 DEF OpenFails, ReceiveFails, FurtherFails, SendFails, SendFurtherFails, Fails
  <2> QED
    BY <2>1 DEF Measured, Complete, ReceivesNoMore, Buffer
<1>3. CASE Receive
  <2>1. PICK n \in 1..Smaller(Coming, FirstCap) :
          received' = n /\ expected' = RequestLength(SubSeq(client.bytes, 1, n))
    BY <1>3 DEF Receive
  <2>2. /\ n \in Nat /\ n > 0 /\ req' = Start /\ client' = client /\ pc' = "further"
    <3>1. Coming \in Int
      BY ClientBytes DEF ConnectionInv, Coming
    <3>2. Smaller(Coming, FirstCap) \in Int
      BY <3>1, SizesAreNumbers DEF Smaller
    <3> QED
      BY <1>3, <2>1, <3>2 DEF Receive, ConnectionInv, Receives
  <2>3. expected' = LengthOf(client, SubSeq(client.bytes, 1, n))
    BY <2>1, RequestLengthOf
  <2> QED
    BY <2>1, <2>2, <2>3 DEF Measured
<1>4. CASE ReceiveFurther
  <2>1. /\ ~Complete /\ received > 0 /\ pc' = "further" /\ received \in Nat
        /\ UNCHANGED <<client, expected, req>> /\ req = Start /\ expected \in Nat
    BY <1>4, SizesAreNumbers DEF ReceiveFurther, Measured, ConnectionInv, Receives
  <2>2. expected # 0
    BY <2>1 DEF Complete
  <2>3. received' \in Nat /\ received' >= received
    <3>1. PICK n \in 1..Smaller(Coming, Room) : received' = received + n
      BY <1>4 DEF ReceiveFurther
    <3>2. Coming \in Int /\ Room \in Int
      BY <2>1, ClientBytes, SizesAreNumbers DEF ConnectionInv, Coming, Room
    <3> QED
      BY <2>1, <3>1, <3>2 DEF Smaller
  <2>4. PICK n \in 1..received : expected = LengthOf(client, SubSeq(client.bytes, 1, n))
    BY <2>1 DEF Measured
  <2>5. n \in 1..received'
    BY <2>1, <2>3, <2>4
  <2> QED
    BY <2>1, <2>2, <2>3, <2>4, <2>5 DEF Measured
<1>5. CASE Received
  <2>1. /\ UNCHANGED <<client, received, packetsIn, expected, req>> /\ pc' = "request"
        /\ req = Start /\ received > 0 /\ (Complete \/ ReceivesNoMore)
    BY <1>5 DEF Received, Measured, ConnectionInv, Receives
  <2> QED
    BY <2>1 DEF Measured, Complete, ReceivesNoMore
<1>6. CASE ParseRequest
  <2>1. /\ UNCHANGED <<client, received, packetsIn, expected>> /\ pc' = "route"
        /\ req' = Parse(Buffer) /\ received > 0 /\ (Complete \/ ReceivesNoMore)
    BY <1>6 DEF ParseRequest, Measured
  <2>2. Buffer' = Buffer
    BY <2>1 DEF Buffer
  <2>3. req' = Parse(Buffer')
    BY <2>1, <2>2
  <2> QED
    BY <2>1, <2>3 DEF Measured, Complete, ReceivesNoMore
<1>7. CASE UNCHANGED vars
  BY <1>7 DEF vars, Measured, Complete, ReceivesNoMore, Buffer
<1> QED
  BY <1>1, <1>2, <1>3, <1>4, <1>5, <1>6, <1>7 DEF Next

LEMMA AlwaysMeasured == Spec => [](ConnectionInv /\ Measured)
<1>1. Init => ConnectionInv /\ Measured
  BY InitTyped DEF Init, Measured
<1>2. ConnectionInv /\ Measured /\ [Next]_vars => (ConnectionInv /\ Measured)'
  BY TypedStep, MeasuredStep
<1> QED
  BY <1>1, <1>2, PTL DEF Spec

(* A routed request whose lines end as they should, in what has arrived.    *)
LEMMA RoutedHead ==
  ASSUME ConnectionInv, Measured, Parsed, req.status = 0, ProperLines(ParsedHead)
  PROVE  \E b \in Seq(Bytes) :
           /\ b = Buffer /\ Len(b) = received /\ req = Parse(b)
           /\ ParsedHead = SubSeq(b, 1, req.index)
           /\ BodyIndex(b) = req.index /\ req.index > 0
<1>1. PICK b \in Seq(Bytes) : b = Buffer /\ Len(b) = received
  <2>1. client.bytes \in Seq(Bytes) /\ received \in Nat /\ received <= Len(client.bytes)
    BY ClientBytes DEF ConnectionInv
  <2>2. Buffer \in Seq(Bytes) /\ Len(Buffer) = received
    BY <2>1 DEF Buffer
  <2> QED
    BY <2>2
<1>2. req = Parse(b)
  BY <1>1 DEF Parsed, Measured
<1>3. ParsedHead = SubSeq(b, 1, req.index)
  BY <1>1 DEF ParsedHead
<1>4. BodyIndex(b) = Parse(b).index /\ Parse(b).index > 0
  BY <1>2, <1>3, HeadEndsAgree
<1> QED
  BY <1>1, <1>2, <1>3, <1>4

(* handle() and request() agree on where the body of a routed request       *)
(* starts, whatever arrived and in whatever packets, if every line of its   *)
(* head ends with carriage return and line feed (app.c:55,                  *)
(* request.c:101-163).  Of a head with a bare line feed they do not: only   *)
(* request() takes it for the end of a line.                                *)
THEOREM SameBodyStart == Spec => []HeadEndAgrees
<1>1. ConnectionInv /\ Measured => HeadEndAgrees
  BY RoutedHead DEF HeadEndAgrees
<1> QED
  BY <1>1, AlwaysMeasured, PTL

(* A sum of two numbers below a modulus goes over it once at most.          *)
LEMMA WrapsOnce ==
  ASSUME NEW w \in Nat, NEW x \in 0..(w - 1), NEW y \in 0..(w - 1)
  PROVE  (x + y) % w = IF x + y < w THEN x + y ELSE x + y - w
<1>1. w > 0
  OBVIOUS
<1>2. CASE x + y < w
  BY <1>1, <1>2
<1>3. CASE ~(x + y < w)
  <2>1. x + y - w \in 0..(w - 1)
    BY <1>3
  <2>2. \A q \in Int, r \in 0..(w - 1) : x + y = w * q + r => (x + y) % w = r
    BY <1>1
  <2>3. x + y = w * 1 + (x + y - w)
    OBVIOUS
  <2> QED
    BY <1>3, <2>1, <2>2, <2>3
<1> QED
  BY <1>2, <1>3

(* What is left of a number that fits in a size_t, and of one that does not. *)
LEMMA ContentModulo ==
  ASSUME NEW w \in Nat \ {0}, NEW c \in Nat
  PROVE  c % w \in 0..(w - 1) /\ (c < w => c % w = c)
  OBVIOUS

(* The announced body, where request_length could be worked out from the    *)
(* first packet: it stopped short of the body only where the sum went over  *)
(* 2^64, which is over the receive buffer too.                              *)
LEMMA LengthTellsWhole ==
  ASSUME NEW w \in Nat, NEW limit \in Nat, limit < w, NEW start \in 1..limit, NEW c \in Nat \ {0},
         NEW got \in Nat, got - start < c,
         NEW k, k = c % w,
         got >= (IF k > 0 THEN (start + k) % w ELSE 0)
  PROVE  start + c > limit
<1>1. k \in 0..(w - 1) /\ (c < w => k = c)
  <2>1. w \in Nat \ {0}
    OBVIOUS
  <2> QED
    BY <2>1, ContentModulo
<1>2. CASE c >= w
  BY <1>2
<1>3. CASE c < w
  <2>1. k = c /\ start \in 0..(w - 1)
    BY <1>1, <1>3
  <2>2. (start + k) % w = IF start + k < w THEN start + k ELSE start + k - w
    BY <1>1, <2>1, WrapsOnce
  <2>3. CASE start + k < w
    <3>1. got >= start + c
      BY <2>1, <2>2, <2>3
    <3> QED
      BY <3>1
  <2>4. CASE ~(start + k < w)
    BY <2>1, <2>4
  <2> QED
    BY <2>3, <2>4
<1> QED
  BY <1>2, <1>3

(* A request is acted on with less of a body than it announced only where a *)
(* limit on packets or bytes was met, if every line of its head ends with   *)
(* carriage return and line feed: no way of cutting the client's bytes into *)
(* packets, no time at which it stops and no number it announces, even one  *)
(* that goes over 2^64, makes handle() take a part of a body for the whole  *)
(* (app.c:54-91).  A head with bare line feeds may be acted on without its  *)
(* body, because handle() does not find its end.                            *)
THEOREM WholeBody == Spec => []BodyWholeUnlessLimit
<1>1. ConnectionInv /\ Measured => BodyWholeUnlessLimit
  <2> SUFFICES ASSUME ConnectionInv, Measured, Parsed, req.status = 0, ProperLines(ParsedHead),
                      "length" \in ToSet(ParsedHead), received - req.index < client.content,
                      packetsIn # ReceivePackets
               PROVE  req.index + client.content > ReceiveBuffer
    BY DEF BodyWholeUnlessLimit
  <2>1. PICK b \in Seq(Bytes) :
          /\ b = Buffer /\ Len(b) = received /\ ParsedHead = SubSeq(b, 1, req.index)
          /\ BodyIndex(b) = req.index /\ req.index > 0
    BY RoutedHead
  <2>2. PICK start \in Nat, got \in Nat, limit \in Nat, w \in Nat, c \in Int :
          /\ start = req.index /\ got = received /\ limit = ReceiveBuffer /\ w = Word
          /\ c = client.content /\ limit < w /\ got <= limit /\ start <= got
    <3>1. req.index \in Nat /\ req.index <= received
      BY DEF ConnectionInv, States, Records
    <3>2. received \in Nat /\ received <= ReceiveBuffer /\ client.content \in Int
      BY ClientBytes DEF ConnectionInv
    <3> QED
      BY <3>1, <3>2, SizesAreNumbers
  <2>3. start \in 1..limit /\ c \in Nat \ {0} /\ got - start < c
    BY <2>1, <2>2
  <2>4. received > 0 /\ (Complete \/ ReceivesNoMore)
    BY DEF Measured, Parsed
  <2>5. PICK n \in 1..got : /\ expected = LengthOf(client, SubSeq(client.bytes, 1, n))
                            /\ expected = 0 => got = n
    BY <2>2, <2>4 DEF Measured
  <2>6. PICK first : first = SubSeq(b, 1, n) /\ first = SubSeq(client.bytes, 1, n)
    <3>1. b = SubSeq(client.bytes, 1, got) /\ client.bytes \in Seq(Bytes) /\ got <= Len(client.bytes)
      BY <2>1, <2>2, ClientBytes DEF Buffer, ConnectionInv
    <3>2. SubSeq(b, 1, n) = SubSeq(client.bytes, 1, n)
      BY <3>1
    <3> QED
      BY <3>2
  <2>7. PICK k : k = c % w
    OBVIOUS
  <2>8. expected = IF "length" \in ToSet(first) /\ BodyIndex(first) # 0 /\ k > 0
                   THEN (BodyIndex(first) + k) % w ELSE 0
    BY <2>2, <2>5, <2>6, <2>7 DEF LengthOf
  <2>9. n \in 0..Len(b) /\ (BodyIndex(first) # 0 => BodyIndex(first) = start)
    <3>1. n \in 0..Len(b)
      BY <2>1, <2>2, <2>5
    <3> QED
      BY <2>1, <2>2, <2>6, <3>1, BodyIndexStays
  <2>10. k \in 0..(w - 1) /\ (c < w => k = c) /\ w \in Nat \ {0}
    <3>1. w \in Nat \ {0} /\ c \in Nat
      BY <2>2, <2>3
    <3> QED
      BY <2>7, <3>1, ContentModulo
  <2>11. CASE Complete
    <3>1. got >= expected
      BY <2>2, <2>11 DEF Complete
    <3>2. expected = IF k > 0 THEN (start + k) % w ELSE 0
      <4>1. CASE expected = 0
        <5>1. first = b
          BY <2>1, <2>2, <2>5, <2>6, <4>1
        <5>2. "length" \in ToSet(first)
          <6>1. ToSet(SubSeq(b, 1, start)) \subseteq ToSet(b)
            BY <2>1, <2>2, SMTT(30) DEF ToSet
          <6> QED
            BY <2>1, <2>2, <5>1, <6>1
        <5> QED
          BY <2>1, <2>2, <2>3, <2>8, <5>1, <5>2
      <4>2. CASE expected # 0
        BY <2>8, <2>9, <4>2
      <4> QED
        BY <4>1, <4>2
    <3>3. got >= (IF k > 0 THEN (start + k) % w ELSE 0)
      BY <3>1, <3>2
    <3>4. start + c > limit
      BY <2>2, <2>3, <2>7, <3>3, LengthTellsWhole
    <3> QED
      BY <2>2, <3>4
  <2>12. CASE ReceivesNoMore
    <3>1. expected > limit
      BY <2>2, <2>12, SizesAreNumbers DEF ReceivesNoMore, ConnectionInv
    <3>2. expected = (start + k) % w /\ k > 0
      <4>1. expected # 0
        BY <2>2, <3>1
      <4> QED
        BY <2>8, <2>9, <4>1
    <3>3. CASE c >= w
      BY <2>2, <2>3, <3>3
    <3>4. CASE c < w
      <4>1. (start + k) % w = IF start + k < w THEN start + k ELSE start + k - w
        <5>1. start \in 0..(w - 1)
          BY <2>2, <2>3
        <5> QED
          BY <2>10, <5>1, WrapsOnce, ZenonT(60)
      <4>2. k = c
        BY <2>10, <3>4
      <4>3. start + c > limit
        <5>1. start + c > limit \/ start + c - w > limit
          BY <3>1, <3>2, <4>1, <4>2
        <5> QED
          BY <2>2, <5>1, SMTT(30)
      <4> QED
        BY <2>2, <4>3
    <3> QED
      BY <2>2, <3>3, <3>4
  <2> QED
    BY <2>4, <2>11, <2>12
<1> QED
  BY <1>1, AlwaysMeasured, PTL

-----------------------------------------------------------------------------
(* What request() routes.                                                   *)

(* Among the heads whose lines end with carriage return and line feed,      *)
(* request() routes exactly those of the grammar, whatever arrived and in   *)
(* whatever packets (request.c:37-163): the heads that have arrived whole,  *)
(* with parts that are not empty and fit.  The others get a status, which   *)
(* the grammar does not tell.                                               *)
THEOREM RoutesRequests == Spec => []ParserMeetsGrammar
<1>1. ASSUME ConnectionInv, Measured, Parsed, ProperLines(ParsedHead)
      PROVE  /\ req.status = 0 <=> Request(Buffer).index # 0
             /\ req.status = 0 => req.index = Request(Buffer).index /\ req.len = Request(Buffer).len
  <2>1. PICK b \in Seq(Bytes) : b = Buffer /\ Len(b) = received
    <3>1. client.bytes \in Seq(Bytes) /\ received \in Nat /\ received <= Len(client.bytes)
      BY <1>1, ClientBytes DEF ConnectionInv
    <3>2. Buffer \in Seq(Bytes) /\ Len(Buffer) = received
      BY <3>1 DEF Buffer
    <3> QED
      BY <3>2
  <2>2. req = Parse(b)
    BY <1>1, <2>1 DEF Parsed, Measured
  <2>3. ProperLines(SubSeq(b, 1, IF Parse(b).status = 0 THEN Parse(b).index ELSE Len(b)))
    BY <1>1, <2>1, <2>2 DEF ParsedHead
  <2>4. /\ Parse(b).status = 0 <=> Request(b).index # 0
        /\ Parse(b).status = 0 => Parse(b).index = Request(b).index /\ Parse(b).len = Request(b).len
    BY <2>3, ParserIsGrammar
  <2> QED
    BY <2>1, <2>2, <2>4
<1>2. ConnectionInv /\ Measured => ParserMeetsGrammar
  BY <1>1 DEF ParserMeetsGrammar
<1> QED
  BY <1>2, AlwaysMeasured, PTL
=============================================================================
