------------------------ MODULE PageTransformsProofs ------------------------
(***************************************************************************)
(* Theorems about the functions that turn a file into a page, for every    *)
(* page, every list of fragments and every size of the arrays.             *)
(***************************************************************************)
EXTENDS PageTransforms, DataInduction, FiniteSetTheorems

Texts == Seq(STRING)

(* What the libraries' sequences do, for letters of any kind.               *)
LEMMA SubSeqIs ==
  ASSUME NEW S, NEW s \in Seq(S), NEW a \in Nat \ {0}, NEW b \in 0 .. Len(s), a <= b + 1
  PROVE  /\ SubSeq(s, a, b) \in Seq(S) /\ Len(SubSeq(s, a, b)) = b + 1 - a
         /\ \A k \in 1 .. b + 1 - a : SubSeq(s, a, b)[k] = s[a + k - 1]
  OBVIOUS

LEMMA SameSeq ==
  ASSUME NEW S, NEW s \in Seq(S), NEW t \in Seq(S)
  PROVE  s = t <=> Len(s) = Len(t) /\ \A k \in 1 .. Len(s) : s[k] = t[k]
  OBVIOUS

LEMMA ElementIs ==
  ASSUME NEW S, NEW s \in Seq(S)
  PROVE  Len(s) \in Nat /\ \A k \in 1 .. Len(s) : s[k] \in S /\ k \in DOMAIN s
  OBVIOUS


-----------------------------------------------------------------------------
(* The places of the fragments in a text.                                   *)

(* The first of some places is the least of them.                           *)
LEMMA FirstPlaceIs ==
  ASSUME NEW txt \in Texts, NEW places \in SUBSET (1 .. Len(txt))
  PROVE  /\ FirstPlace(txt, places) \in places \cup {Len(txt) + 1}
         /\ FirstPlace(txt, places) \in 1 .. Len(txt) + 1
         /\ \A k \in places : FirstPlace(txt, places) <= k
<1> DEFINE T == Len(txt)
           S == places \cup {T + 1}
<1>0. T \in Nat
  BY DEF Texts
<1>1. S # {} /\ S \subseteq Nat
  <2>1. T + 1 \in S /\ T + 1 \in Nat
    BY <1>0
  <2>2. \A k \in places : k \in Nat
    BY ONLY <1>0, places \in SUBSET (1 .. T)
  <2> QED
    BY <2>1, <2>2, Zenon
<1>2. PICK j \in S : \A k \in S : j <= k
  BY <1>1, LeastNumber
<1>3. \A k \in places : j <= k
  BY <1>2
<1>4. FirstPlace(txt, places) = CHOOSE x \in S : \A k \in places : x <= k
  BY DEF FirstPlace
<1>5. FirstPlace(txt, places) \in S /\ \A k \in places : FirstPlace(txt, places) <= k
  <2> HIDE DEF S
  <2> QED
    BY <1>2, <1>3, <1>4
<1>6. S \subseteq 1 .. T + 1
  <2>1. T + 1 \in 1 .. T + 1 /\ 1 .. T \subseteq 1 .. T + 1
    BY <1>0
  <2> QED
    BY <2>1, places \in SUBSET (1 .. T), Zenon
<1> QED
  BY <1>5, <1>6, Zenon

LEMMA CullIs ==
  ASSUME NEW n \in 1 .. Len(Culls)
  PROVE  /\ Culls[n].start \in Texts /\ Culls[n].end \in Texts
         /\ Len(Culls[n].start) \in Nat \ {0} /\ Len(Culls[n].end) \in Nat \ {0}
<1> DEFINE R == [start : Seq(STRING), end : Seq(STRING)]
<1>0. Culls \in Seq(R)
  BY CullsAssumption
<1>1. Culls[n] \in R /\ n \in DOMAIN Culls
  <2> HIDE DEF R
  <2> QED
    BY <1>0, ElementIs
<1>2. Culls[n].start # <<>> /\ Culls[n].end # <<>>
  BY <1>1, CullsAssumption
<1>3. Culls[n].start \in Texts /\ Culls[n].end \in Texts
  BY <1>1 DEF Texts
<1>4. /\ Len(Culls[n].start) \in Nat /\ Len(Culls[n].start) # 0
      /\ Len(Culls[n].end) \in Nat /\ Len(Culls[n].end) # 0
  BY <1>2, <1>3 DEF Texts
<1> QED
  BY <1>3, <1>4

(* An occurrence, letter by letter.                                         *)
LEMMA OccursIs ==
  ASSUME NEW txt \in Texts, NEW pattern \in Texts, Len(pattern) > 0, NEW i \in Nat \ {0}
  PROVE  OccursAt(txt, pattern, i) <=>
           /\ i + Len(pattern) - 1 <= Len(txt)
           /\ \A k \in 1 .. Len(pattern) : txt[i + k - 1] = pattern[k]
<1>1. Len(txt) \in Nat /\ Len(pattern) \in Nat
  BY DEF Texts
<1>2. CASE i + Len(pattern) - 1 <= Len(txt)
  <2> DEFINE u == SubSeq(txt, i, i + Len(pattern) - 1)
  <2>1. /\ u \in Texts /\ Len(u) = Len(pattern)
        /\ \A k \in 1 .. Len(pattern) : u[k] = txt[i + k - 1]
    <3>1. PICK last : last = i + Len(pattern) - 1 /\ last \in 0 .. Len(txt) /\ i <= last + 1
      BY <1>1, <1>2
    <3>2. /\ SubSeq(txt, i, last) \in Texts /\ Len(SubSeq(txt, i, last)) = last + 1 - i
          /\ \A k \in 1 .. last + 1 - i : SubSeq(txt, i, last)[k] = txt[i + k - 1]
      BY <3>1, SubSeqIs DEF Texts
    <3>3. last + 1 - i = Len(pattern)
      BY <1>1, <3>1
    <3> QED
      BY <3>1, <3>2, <3>3
  <2>2. u = pattern <=> \A k \in 1 .. Len(pattern) : u[k] = pattern[k]
    <3> HIDE DEF u
    <3> QED
      BY <2>1, SameSeq DEF Texts
  <2> QED
    BY <1>2, <2>1, <2>2 DEF OccursAt
<1> QED
  BY <1>2 DEF OccursAt

(* The place where the n-th fragment is found.                              *)
LEMMA StartPlaceIs ==
  ASSUME NEW txt \in Texts, NEW n \in 1 .. Len(Culls), NEW from \in 1 .. Len(txt) + 1
  PROVE  LET s == StartPlace(txt, n, from)
             len == Len(Culls[n].start)
         IN  /\ s \in from .. Len(txt) + 1
             /\ s <= Len(txt) => OccursAt(txt, Culls[n].start, s) /\ s + len <= Len(txt)
             /\ \A j \in from .. Len(txt) :
                  OccursAt(txt, Culls[n].start, j) /\ j + len <= Len(txt) => s <= j
<1> DEFINE places == {j \in from .. Len(txt) :
                        OccursAt(txt, Culls[n].start, j) /\ j + Len(Culls[n].start) <= Len(txt)}
           s == StartPlace(txt, n, from)
<1>0. Len(txt) \in Nat
  BY DEF Texts
<1>1. places \in SUBSET (1 .. Len(txt))
  BY <1>0
<1>2. s \in places \cup {Len(txt) + 1} /\ \A k \in places : s <= k
  <2> HIDE DEF places
  <2>1. FirstPlace(txt, places) \in places \cup {Len(txt) + 1} /\ \A k \in places : FirstPlace(txt, places) <= k
    BY <1>1, FirstPlaceIs
  <2> QED
    BY <2>1 DEF StartPlace, places
<1> HIDE DEF s
<1>3. s \in from .. Len(txt) + 1
  BY <1>0, <1>2
<1>4. s <= Len(txt) => s \in places
  BY <1>0, <1>2
<1>5. /\ s <= Len(txt) => OccursAt(txt, Culls[n].start, s) /\ s + Len(Culls[n].start) <= Len(txt)
      /\ \A j \in from .. Len(txt) :
           OccursAt(txt, Culls[n].start, j) /\ j + Len(Culls[n].start) <= Len(txt) => s <= j
  BY <1>2, <1>4
<1> QED
  BY <1>3, <1>5 DEF s

LEMMA EndPlaceIs ==
  ASSUME NEW txt \in Texts, NEW n \in 1 .. Len(Culls), NEW start \in 1 .. Len(txt) + 1
  PROVE  LET e == EndPlace(txt, n, start)
             from == start + Len(Culls[n].start)
         IN  /\ e \in 1 .. Len(txt) + 1
             /\ e <= Len(txt) => e >= from /\ OccursAt(txt, Culls[n].end, e)
             /\ \A j \in from .. Len(txt) : OccursAt(txt, Culls[n].end, j) => e <= j
<1> DEFINE from == start + Len(Culls[n].start)
           places == {j \in from .. Len(txt) : OccursAt(txt, Culls[n].end, j)}
           e == EndPlace(txt, n, start)
<1>0. Len(txt) \in Nat /\ Len(Culls[n].start) \in Nat
  BY CullIs DEF Texts
<1>1. places \in SUBSET (1 .. Len(txt))
  BY <1>0
<1>2. e \in places \cup {Len(txt) + 1} /\ \A k \in places : e <= k
  <2> HIDE DEF places
  <2>1. FirstPlace(txt, places) \in places \cup {Len(txt) + 1} /\ \A k \in places : FirstPlace(txt, places) <= k
    BY <1>1, FirstPlaceIs
  <2> QED
    BY <2>1 DEF EndPlace, places
<1> HIDE DEF e
<1>3. e \in 1 .. Len(txt) + 1
  BY <1>0, <1>2
<1>4. e <= Len(txt) => e \in places
  BY <1>0, <1>2
<1>5. /\ e <= Len(txt) => e >= from /\ OccursAt(txt, Culls[n].end, e)
      /\ \A j \in from .. Len(txt) : OccursAt(txt, Culls[n].end, j) => e <= j
  BY <1>0, <1>2, <1>4
<1> QED
  BY <1>3, <1>5 DEF e

-----------------------------------------------------------------------------
(* The scan of a text.                                                      *)

ScanNext(txt, last, n) ==
  LET s == StartPlace(txt, n, last.from)
      behind == EndPlace(txt, n, s) + Len(Culls[n].end)
  IN [kept |-> last.kept \o SubSeq(txt, last.from, s - 1),
      from |-> IF behind <= Len(txt) THEN behind ELSE Len(txt) + 1]

Scans(txt) == [kept : Texts, from : 1 .. Len(txt) + 1]

LEMMA ScanNextType ==
  ASSUME NEW txt \in Texts, NEW last \in Scans(txt), NEW n \in 1 .. Len(Culls)
  PROVE  ScanNext(txt, last, n) \in Scans(txt)
<1> DEFINE s == StartPlace(txt, n, last.from)
           e == EndPlace(txt, n, s)
<1>0. Len(txt) \in Nat /\ Len(Culls[n].end) \in Nat \ {0} /\ last.from \in 1 .. Len(txt) + 1 /\ last.kept \in Texts
  BY CullIs DEF Texts, Scans
<1>1. s \in last.from .. Len(txt) + 1
  BY <1>0, StartPlaceIs
<1>2. s \in 1 .. Len(txt) + 1
  BY <1>0, <1>1
<1>3. e \in 1 .. Len(txt) + 1
  BY <1>2, EndPlaceIs
<1> HIDE DEF s, e
<1>4. last.kept \o SubSeq(txt, last.from, s - 1) \in Texts
  BY <1>0, <1>1, <1>2 DEF Texts
<1>5. (IF e + Len(Culls[n].end) <= Len(txt) THEN e + Len(Culls[n].end) ELSE Len(txt) + 1) \in 1 .. Len(txt) + 1
  BY <1>0, <1>3
<1> QED
  BY <1>4, <1>5 DEF ScanNext, Scans, s, e

LEMMA ScanIs ==
  ASSUME NEW txt \in Texts
  PROVE  /\ Scan(txt) \in [0 .. Len(Culls) -> Scans(txt)]
         /\ Scan(txt)[0] = [kept |-> <<>>, from |-> 1]
         /\ \A n \in 1 .. Len(Culls) : Scan(txt)[n] = ScanNext(txt, Scan(txt)[n - 1], n)
<1> DEFINE L == Len(Culls)
           start == [kept |-> <<>>, from |-> 1]
           step == [x \in Scans(txt) \X (1 .. L) |-> ScanNext(txt, x[1], x[2])]
           Runs(g) == g = [n \in 0 .. L |-> IF n = 0 THEN start ELSE ScanNext(txt, g[n - 1], n)]
<1>1. L \in Nat /\ start \in Scans(txt)
  BY CullsAssumption DEF Scans, Texts
<1>2. Automaton(L, Scans(txt), start, step)
  BY <1>1, ScanNextType DEF Automaton
<1>3. PICK f \in [0 .. L -> Scans(txt)] : f[0] = start /\ \A n \in 1 .. L : f[n] = step[<<f[n - 1], n>>]
  <2> HIDE DEF step, start
  <2>1. \E f : AutomatonRun(f, L, Scans(txt), start, step)
    BY <1>2, RunExists, Zenon
  <2> QED
    BY <2>1 DEF AutomatonRun
<1>4. \A n \in 1 .. L : f[n] = ScanNext(txt, f[n - 1], n)
  <2> TAKE n \in 1 .. L
  <2>1. f[n - 1] \in Scans(txt)
    BY <1>1, <1>3
  <2>2. PICK x : x = <<f[n - 1], n>>
    OBVIOUS
  <2>3. x \in Scans(txt) \X (1 .. L) /\ x[1] = f[n - 1] /\ x[2] = n
    BY <2>1, <2>2
  <2>4. step[x] = ScanNext(txt, x[1], x[2])
    BY <2>3
  <2> QED
    BY <1>3, <2>2, <2>3, <2>4
<1> HIDE DEF step, start
<1>5. Runs(f)
  BY <1>1, <1>3, <1>4
<1>6. Scan(txt) = CHOOSE g : Runs(g)
  BY DEF Scan, ScanNext, start
<1>7. Runs(Scan(txt))
  <2> HIDE DEF Runs
  <2> QED
    BY <1>5, <1>6, Zenon
<1>8. PICK g : g = Scan(txt)
  OBVIOUS
<1>9. g = [n \in 0 .. L |-> IF n = 0 THEN start ELSE ScanNext(txt, g[n - 1], n)]
  BY <1>7, <1>8
<1>10. g[0] = start /\ DOMAIN g = 0 .. L /\ \A n \in 1 .. L : g[n] = ScanNext(txt, g[n - 1], n)
  BY <1>1, <1>9
<1>11. 0 .. L \subseteq {n \in 0 .. L : g[n] \in Scans(txt)}
  <2> DEFINE S == {n \in 0 .. L : g[n] \in Scans(txt)}
  <2>1. 0 \in S
    BY <1>1, <1>10
  <2>2. \A n \in 0 .. L - 1 : n \in S => n + 1 \in S
    BY <1>1, <1>10, ScanNextType
  <2> HIDE DEF S
  <2>3. 0 .. L \subseteq S
    BY <1>1, <2>1, <2>2, InductionUpTo
  <2> QED
    BY <2>3 DEF S
<1>12. g = [n \in 0 .. L |-> g[n]]
  BY <1>9
<1>13. g \in [0 .. L -> Scans(txt)]
  BY <1>11, <1>12
<1> QED
  BY <1>8, <1>10, <1>13 DEF start

LEMMA BehindTheEnd ==
  ASSUME NEW T \in Nat, NEW ls \in Nat, NEW le \in Nat \ {0}, NEW e \in 1 .. T + 1, e <= T => e >= T + 1 + ls
  PROVE  e = T + 1 /\ ~(e + le <= T) /\ T + 1 - 1 = T
  OBVIOUS

(* Behind its last letter nothing of a text is found any more.              *)
LEMMA ScanStays ==
  ASSUME NEW txt \in Texts, NEW n \in 0 .. Len(Culls), Scan(txt)[n].from = Len(txt) + 1
  PROVE  CulledText(txt) = Scan(txt)[n].kept
<1> DEFINE L == Len(Culls)
           f == Scan(txt)
           S == {k \in 0 .. L - n : f[n + k] = f[n]}
<1>0. PICK T : T = Len(txt) /\ T \in Nat /\ L \in Nat
  <2>1. Len(txt) \in Nat
    BY DEF Texts
  <2>2. L \in Nat
    BY CullsAssumption
  <2> QED
    BY <2>1, <2>2, Zenon
<1>1. f \in [0 .. L -> Scans(txt)] /\ \A m \in 1 .. L : f[m] = ScanNext(txt, f[m - 1], m)
  BY ScanIs
<1>2. f[n] \in Scans(txt) /\ f[n].from = T + 1
  BY <1>0, <1>1
<1> HIDE DEF f
<1>3. PICK last : last = f[n] /\ last \in Scans(txt)
  BY <1>2
<1>4. last.kept \in Texts /\ last.from = T + 1 /\ SubSeq(txt, T + 1, T) = <<>>
  BY <1>0, <1>2, <1>3 DEF Scans, Texts
<1>5. last.kept \o <<>> = last.kept
  BY <1>4 DEF Texts
<1>6. ASSUME NEW m \in 1 .. L PROVE ScanNext(txt, last, m) = last
  <2>1. PICK s : s = StartPlace(txt, m, T + 1)
    OBVIOUS
  <2>2. s = T + 1
    <3>1. s \in T + 1 .. T + 1
      BY <1>0, <2>1, StartPlaceIs
    <3> QED
      BY <1>0, <3>1
  <2>3. PICK e : e = EndPlace(txt, m, s)
    OBVIOUS
  <2>4. PICK ls, le : ls = Len(Culls[m].start) /\ le = Len(Culls[m].end) /\ ls \in Nat /\ le \in Nat \ {0}
    BY CullIs
  <2>5. s \in 1 .. Len(txt) + 1
    BY <1>0, <2>2
  <2>6. e \in 1 .. T + 1 /\ (e <= T => e >= T + 1 + ls)
    BY <1>0, <2>2, <2>3, <2>4, <2>5, EndPlaceIs
  <2>8. e = T + 1 /\ ~(e + le <= T) /\ s - 1 = T
    <3>1. le \in Nat \ {0} /\ ls \in Nat /\ T \in Nat
      BY <1>0, <2>4
    <3>2. e = T + 1 /\ ~(e + le <= T) /\ T + 1 - 1 = T
      BY ONLY <2>6, <3>1, BehindTheEnd
    <3> QED
      BY <2>2, <3>1, <3>2
  <2>7. ScanNext(txt, last, m) = [kept |-> last.kept, from |-> T + 1]
    BY <1>0, <1>4, <1>5, <2>1, <2>3, <2>4, <2>8 DEF ScanNext
  <2> QED
    BY <1>3, <1>4, <2>7 DEF Scans
<1>7. 0 \in S
  BY <1>0
<1>8. \A k \in 0 .. L - n - 1 : k \in S => k + 1 \in S
  <2> SUFFICES ASSUME NEW k \in 0 .. L - n - 1, k \in S PROVE k + 1 \in S
    OBVIOUS
  <2>1. PICK m : m = n + (k + 1) /\ m \in 1 .. L /\ m - 1 = n + k /\ k + 1 \in 0 .. L - n
    BY <1>0
  <2>2. f[n + k] = f[n]
    OBVIOUS
  <2>3. f[m] = ScanNext(txt, last, m)
    BY <1>1, <1>3, <2>1, <2>2
  <2>4. f[m] = f[n]
    BY <1>3, <1>6, <2>1, <2>3
  <2> QED
    BY <2>1, <2>4
<1>9. L - n \in S
  <2>1. PICK N : N = L - n /\ N \in Nat
    BY <1>0
  <2>2. 0 \in S /\ \A k \in 0 .. N - 1 : k \in S => k + 1 \in S
    BY <1>7, <1>8, <2>1
  <2> HIDE DEF S
  <2>3. 0 .. N \subseteq S
    BY <2>1, <2>2, InductionUpTo
  <2> QED
    BY <2>1, <2>3
<1>10. f[L] = last
  <2>1. n + (L - n) = L
    BY <1>0
  <2> QED
    BY <1>3, <1>9, <2>1
<1> QED
  BY <1>0, <1>3, <1>4, <1>5, <1>10 DEF CulledText, f

-----------------------------------------------------------------------------
(* The bytes of a file of parts.                                            *)

LEMMA ConcatIs ==
  ASSUME NEW S, NEW s \in Seq(S), NEW t \in Seq(S)
  PROVE  /\ s \o t \in Seq(S) /\ Len(s \o t) = Len(s) + Len(t)
         /\ \A k \in 1 .. Len(s) : (s \o t)[k] = s[k]
         /\ \A k \in 1 .. Len(t) : (s \o t)[Len(s) + k] = t[k]
  OBVIOUS

LEMMA FlattenIs ==
  ASSUME NEW S, NEW seqs \in Seq(Seq(S))
  PROVE  FlattenSeq(seqs) \in Seq(S)
<1> DEFINE L == Len(seqs)
           step == [x \in Seq(S) \X (1 .. L) |-> x[1] \o seqs[x[2]]]
           Runs(g) == g = [n \in 1 .. L |-> IF n = 1 THEN seqs[n] ELSE g[n - 1] \o seqs[n]]
<1>0. L \in Nat /\ <<>> \in Seq(S) /\ \A n \in 1 .. L : seqs[n] \in Seq(S)
  BY ElementIs
<1>1. CASE L = 0
  BY <1>1 DEF FlattenSeq
<1>2. CASE L # 0
  <2>1. Automaton(L, Seq(S), <<>>, step)
    <3>1. \A x \in Seq(S) \X (1 .. L) : x[1] \o seqs[x[2]] \in Seq(S)
      <4> TAKE x \in Seq(S) \X (1 .. L)
      <4>1. x[1] \in Seq(S) /\ seqs[x[2]] \in Seq(S)
        BY <1>0
      <4> QED
        BY <4>1, ConcatIs
    <3> QED
      BY <1>0, <3>1 DEF Automaton
  <2>2. PICK f \in [0 .. L -> Seq(S)] : f[0] = <<>> /\ \A n \in 1 .. L : f[n] = step[<<f[n - 1], n>>]
    <3> HIDE DEF step
    <3>1. \E f : AutomatonRun(f, L, Seq(S), <<>>, step)
      BY <2>1, RunExists, Zenon
    <3> QED
      BY <3>1 DEF AutomatonRun
  <2>3. \A n \in 1 .. L : f[n] = f[n - 1] \o seqs[n]
    <3> TAKE n \in 1 .. L
    <3>1. PICK x : x = <<f[n - 1], n>>
      OBVIOUS
    <3>2. x \in Seq(S) \X (1 .. L) /\ x[1] = f[n - 1] /\ x[2] = n
      <4>1. n - 1 \in 0 .. L
        BY <1>0
      <4>2. f[n - 1] \in Seq(S)
        BY <2>2, <4>1, Zenon
      <4> QED
        BY <3>1, <4>2
    <3>3. step[x] = x[1] \o seqs[x[2]]
      BY <3>2
    <3> HIDE DEF step
    <3> QED
      BY <2>2, <3>1, <3>2, <3>3
  <2> HIDE DEF step
  <2>4. PICK h : h = [n \in 1 .. L |-> f[n]]
    OBVIOUS
  <2>5. Runs(h)
    <3>1. f[1] = seqs[1]
      <4>1. f[1] = f[0] \o seqs[1] /\ seqs[1] \in Seq(S)
        <5>1. 1 \in 1 .. L /\ 1 - 1 = 0
          BY <1>0, <1>2
        <5> QED
          BY <1>0, <2>3, <5>1
      <4>2. <<>> \o seqs[1] = seqs[1]
        BY <4>1
      <4> QED
        BY <2>2, <4>1, <4>2
    <3>2. ASSUME NEW n \in 1 .. L PROVE f[n] = IF n = 1 THEN seqs[n] ELSE h[n - 1] \o seqs[n]
      <4>1. CASE n = 1
        BY <3>1, <4>1
      <4>2. CASE n # 1
        <5>1. n - 1 \in 1 .. L
          BY <1>0, <4>2
        <5> QED
          BY <2>3, <2>4, <4>2, <5>1
      <4> QED
        BY <4>1, <4>2
    <3> QED
      BY <2>4, <3>2
  <2>6. PICK g : g = CHOOSE run : Runs(run)
    OBVIOUS
  <2>7. Runs(g)
    <3> HIDE DEF Runs
    <3> QED
      BY <2>5, <2>6, Zenon
  <2>8. g[1] = seqs[1] /\ \A n \in 1 .. L : n # 1 => g[n] = g[n - 1] \o seqs[n]
    <3>1. \A n \in 1 .. L : g[n] = IF n = 1 THEN seqs[n] ELSE g[n - 1] \o seqs[n]
      BY <2>7, Zenon
    <3>2. 1 \in 1 .. L
      BY <1>0, <1>2
    <3> QED
      BY <3>1, <3>2, Zenon
  <2>9. PICK N : N = L - 1 /\ N \in Nat
    BY <1>0, <1>2
  <2>10. 0 .. N \subseteq {n \in 0 .. N : g[n + 1] \in Seq(S)}
    <3> DEFINE G == {n \in 0 .. N : g[n + 1] \in Seq(S)}
    <3>1. 0 \in G
      BY <1>0, <2>8, <2>9
    <3>2. \A n \in 0 .. N - 1 : n \in G => n + 1 \in G
      <4> SUFFICES ASSUME NEW n \in 0 .. N - 1, n \in G PROVE n + 1 \in G
        OBVIOUS
      <4>1. PICK m : m = n + 2 /\ m \in 1 .. L /\ m # 1 /\ m - 1 = n + 1 /\ n + 1 \in 0 .. N /\ (n + 1) + 1 = m
        BY <1>0, <2>9
      <4>2. g[m] = g[n + 1] \o seqs[m] /\ seqs[m] \in Seq(S) /\ g[n + 1] \in Seq(S)
        BY <1>0, <2>8, <4>1
      <4>3. g[m] \in Seq(S)
        BY <4>2, ConcatIs
      <4> QED
        BY <4>1, <4>3
    <3> HIDE DEF G
    <3>3. 0 .. N \subseteq G
      BY <2>9, <3>1, <3>2, InductionUpTo
    <3> QED
      BY <3>3 DEF G
  <2>11. g[L] \in Seq(S)
    <3>1. N \in 0 .. N /\ N + 1 = L
      BY <1>0, <2>9
    <3> QED
      BY <2>10, <3>1
  <2>12. FlattenSeq(seqs) = g[L]
    BY <1>2, <2>6 DEF FlattenSeq
  <2> QED
    BY <2>11, <2>12
<1> QED
  BY <1>1, <1>2

LEMMA SourceIsText ==
  ASSUME NEW parts \in Pages
  PROVE  Source(parts) \in Texts
<1> DEFINE R == [letters : Seq(STRING), meant : Seq(STRING), uses : SUBSET Seq(STRING),
                 loose : SUBSET Seq(STRING), own : BOOLEAN]
           seqs == [i \in DOMAIN parts |-> parts[i].letters]
<1>1. parts \in Seq(R)
  BY TransformsAssumption
<1>2. \A i \in 1 .. Len(parts) : parts[i] \in R
  <2> HIDE DEF R
  <2> QED
    BY <1>1, ElementIs
<1>3. DOMAIN parts = 1 .. Len(parts) /\ Len(parts) \in Nat
  <2> HIDE DEF R
  <2> QED
    BY <1>1
<1>4. \A i \in 1 .. Len(parts) : parts[i].letters \in Texts
  BY <1>2 DEF Texts
<1>5. seqs \in Seq(Texts)
  BY <1>3, <1>4
<1> HIDE DEF seqs
<1>6. FlattenSeq(seqs) \in Texts
  BY <1>5, FlattenIs DEF Texts
<1> QED
  BY <1>6 DEF Source, seqs

-----------------------------------------------------------------------------
(* How a pattern is followed letter by letter.                              *)

(* The letters matched after the one at i, of ind matched before it.        *)
Step(txt, pattern, ind, i) ==
  IF ind < Len(pattern) /\ txt[i] = pattern[ind + 1] THEN ind + 1 ELSE 0

(* Directly before i stand the first ind letters of the pattern, from at    *)
(* the earliest.                                                            *)
Matched(txt, pattern, ind, from, i) ==
  /\ ind \in 0 .. Len(pattern) /\ i - ind >= from
  /\ \A k \in 1 .. ind : txt[i - ind - 1 + k] = pattern[k]

(* A place of the pattern that cannot be passed over: no beginning of it    *)
(* stands directly before it, nor the whole of it.                          *)
Seen(txt, pattern, from, place) ==
  place <= Len(txt) =>
    /\ OccursAt(txt, pattern, place)
    /\ ~BegunBefore(txt, pattern, from, place)
    /\ ~(place - Len(pattern) >= from /\ OccursAt(txt, pattern, place - Len(pattern)))

(* From that place on, what is matched is what lies behind it.              *)
Follows(txt, pattern, place, ind, i) ==
  place <= Len(txt) => i <= place + Len(pattern) /\ (place <= i => ind = i - place)

LEMMA LengthIs ==
  ASSUME NEW txt \in Texts
  PROVE  Len(txt) \in Nat
  BY DEF Texts

LEMMA MatchedNext ==
  ASSUME NEW txt \in Texts, NEW pattern \in Texts, NEW from \in 1 .. Len(txt) + 1,
         NEW i \in from .. Len(txt), NEW ind, Matched(txt, pattern, ind, from, i)
  PROVE  Matched(txt, pattern, Step(txt, pattern, ind, i), from, i + 1)
<1>0. PICK len, T : len = Len(pattern) /\ len \in Nat /\ T = Len(txt) /\ T \in Nat
  BY LengthIs
<1>1. /\ ind \in 0 .. len /\ i - ind >= from
      /\ \A k \in 1 .. ind : txt[i - ind - 1 + k] = pattern[k]
  BY <1>0 DEF Matched
<1>2. CASE ind < len /\ txt[i] = pattern[ind + 1]
  <2>1. PICK m : m = ind + 1 /\ m \in 0 .. len /\ (i + 1) - m = i - ind
    BY <1>0, <1>1, <1>2
  <2>2. ASSUME NEW k \in 1 .. m PROVE txt[(i + 1) - m - 1 + k] = pattern[k]
    <3>1. CASE k = ind + 1
      <4>1. (i + 1) - m - 1 + k = i
        BY <1>0, <1>1, <2>1, <3>1
      <4> QED
        BY <1>2, <3>1, <4>1
    <3>2. CASE k # ind + 1
      <4>1. k \in 1 .. ind /\ (i + 1) - m - 1 + k = i - ind - 1 + k
        BY <1>0, <1>1, <2>1, <2>2, <3>2
      <4> QED
        BY <1>1, <4>1
    <3> QED
      BY <3>1, <3>2
  <2>3. (i + 1) - m >= from
    BY <1>1, <2>1
  <2>4. Step(txt, pattern, ind, i) = m
    BY <1>0, <1>2, <2>1 DEF Step
  <2> QED
    BY <1>0, <2>1, <2>2, <2>3, <2>4 DEF Matched
<1>3. CASE ~(ind < len /\ txt[i] = pattern[ind + 1])
  <2>1. Step(txt, pattern, ind, i) = 0
    BY <1>0, <1>3 DEF Step
  <2>2. (i + 1) - 0 >= from /\ 0 \in 0 .. len
    BY <1>0
  <2>3. \A k \in 1 .. 0 : txt[(i + 1) - 0 - 1 + k] = pattern[k]
    OBVIOUS
  <2> QED
    BY <1>0, <2>1, <2>2, <2>3 DEF Matched
<1> QED
  BY <1>2, <1>3

LEMMA MatchedWhole ==
  ASSUME NEW txt \in Texts, NEW pattern \in Texts, Len(pattern) > 0, NEW from \in 1 .. Len(txt) + 1,
         NEW i \in from .. Len(txt) + 1, Matched(txt, pattern, Len(pattern), from, i)
  PROVE  i - Len(pattern) >= from /\ OccursAt(txt, pattern, i - Len(pattern))
<1>0. PICK len, T : len = Len(pattern) /\ len \in Nat /\ T = Len(txt) /\ T \in Nat
  BY LengthIs
<1>1. i - len >= from /\ \A k \in 1 .. len : txt[i - len - 1 + k] = pattern[k]
  BY <1>0 DEF Matched
<1>2. PICK p : p = i - len /\ p \in Nat \ {0} /\ p + len - 1 <= T /\ \A k \in 1 .. len : i - len - 1 + k = p + k - 1
  BY <1>0, <1>1
<1>3. \A k \in 1 .. Len(pattern) : txt[p + k - 1] = pattern[k]
  BY <1>0, <1>1, <1>2
<1>4. OccursAt(txt, pattern, p)
  BY <1>0, <1>2, <1>3, OccursIs
<1> QED
  BY <1>0, <1>1, <1>2, <1>4

LEMMA MatchedNone ==
  ASSUME NEW txt \in Texts, NEW pattern \in Texts, Len(pattern) > 0, NEW from \in 1 .. Len(txt) + 1,
         NEW i \in from .. Len(txt) + 1, NEW ind, Matched(txt, pattern, ind, from, i),
         ~BegunBefore(txt, pattern, from, i),
         ~(i - Len(pattern) >= from /\ OccursAt(txt, pattern, i - Len(pattern)))
  PROVE  ind = 0
<1>0. PICK len, T : len = Len(pattern) /\ len \in Nat /\ T = Len(txt) /\ T \in Nat
  BY LengthIs
<1>1. /\ ind \in 0 .. len /\ i - ind >= from
      /\ \A k \in 1 .. ind : txt[i - ind - 1 + k] = pattern[k]
  BY <1>0 DEF Matched
<1>2. ind # len
  BY <1>0, MatchedWhole
<1> SUFFICES ASSUME ind \in 1 .. len - 1 PROVE FALSE
  BY <1>0, <1>1, <1>2
<1>3. PICK a, b : a = i - ind /\ b = i - 1 /\ a \in Nat \ {0} /\ b \in 0 .. T /\ a <= b + 1 /\ b + 1 - a = ind
  BY <1>0, <1>1
<1>4. /\ SubSeq(txt, a, b) \in Texts /\ Len(SubSeq(txt, a, b)) = ind
      /\ \A k \in 1 .. ind : SubSeq(txt, a, b)[k] = txt[a + k - 1]
  BY <1>0, <1>3, SubSeqIs DEF Texts
<1>5. /\ SubSeq(pattern, 1, ind) \in Texts /\ Len(SubSeq(pattern, 1, ind)) = ind
      /\ \A k \in 1 .. ind : SubSeq(pattern, 1, ind)[k] = pattern[k]
  <2>1. ind \in 0 .. Len(pattern) /\ 1 \in Nat \ {0} /\ 1 <= ind + 1 /\ ind + 1 - 1 = ind
    BY <1>0
  <2>2. /\ SubSeq(pattern, 1, ind) \in Texts /\ Len(SubSeq(pattern, 1, ind)) = ind + 1 - 1
        /\ \A k \in 1 .. ind + 1 - 1 : SubSeq(pattern, 1, ind)[k] = pattern[1 + k - 1]
    BY <2>1, SubSeqIs DEF Texts
  <2>3. \A k \in 1 .. ind : 1 + k - 1 = k
    OBVIOUS
  <2> QED
    BY <2>1, <2>2, <2>3
<1>6. \A k \in 1 .. ind : a + k - 1 = i - ind - 1 + k
  BY <1>3
<1>7. SubSeq(txt, a, b) = SubSeq(pattern, 1, ind)
  <2>1. \A k \in 1 .. ind : SubSeq(txt, a, b)[k] = SubSeq(pattern, 1, ind)[k]
    BY <1>1, <1>4, <1>5, <1>6, ZenonT(60)
  <2> QED
    BY <1>4, <1>5, <2>1, SameSeq DEF Texts
<1> QED
  BY <1>0, <1>1, <1>3, <1>7 DEF BegunBefore

LEMMA FollowsNext ==
  ASSUME NEW txt \in Texts, NEW pattern \in Texts, Len(pattern) > 0, NEW from \in 1 .. Len(txt) + 1,
         NEW place \in 1 .. Len(txt) + 1, NEW i \in from .. Len(txt), NEW ind, ind # Len(pattern),
         Matched(txt, pattern, ind, from, i), Seen(txt, pattern, from, place),
         Follows(txt, pattern, place, ind, i)
  PROVE  Follows(txt, pattern, place, Step(txt, pattern, ind, i), i + 1)
<1> SUFFICES ASSUME place <= Len(txt)
             PROVE  i + 1 <= place + Len(pattern) /\ (place <= i + 1 => Step(txt, pattern, ind, i) = (i + 1) - place)
  BY DEF Follows
<1>a. Len(pattern) \in Nat \ {0} /\ Len(txt) \in Nat
  BY LengthIs
<1>0. PICK len, T : len = Len(pattern) /\ len \in Nat \ {0} /\ T = Len(txt) /\ T \in Nat
  BY <1>a
<1>1. i <= place + len /\ (place <= i => ind = i - place)
  BY <1>0 DEF Follows
<1>2. ind \in 0 .. len
  BY <1>0 DEF Matched
<1>3. OccursAt(txt, pattern, place)
  BY DEF Seen
<1>4. \A k \in 1 .. len : txt[place + k - 1] = pattern[k]
  <2>1. place \in Nat \ {0}
    BY <1>0
  <2> QED
    BY <1>0, <1>3, <2>1, OccursIs
<1>5. CASE place <= i
  <2>1. ind = i - place /\ ind < len /\ ind + 1 \in 1 .. len /\ place + (ind + 1) - 1 = i
    BY <1>0, <1>1, <1>2, <1>5
  <2>2. txt[i] = pattern[ind + 1]
    BY <1>4, <2>1
  <2>3. Step(txt, pattern, ind, i) = ind + 1
    BY <1>0, <2>1, <2>2 DEF Step
  <2> QED
    BY <1>0, <2>1, <2>3
<1>6. CASE place = i + 1
  <2>1. i + 1 \in from .. Len(txt) + 1
    BY <1>0
  <2>2. Matched(txt, pattern, Step(txt, pattern, ind, i), from, i + 1)
    BY MatchedNext
  <2>3. /\ ~BegunBefore(txt, pattern, from, i + 1)
        /\ ~((i + 1) - Len(pattern) >= from /\ OccursAt(txt, pattern, (i + 1) - Len(pattern)))
    BY <1>6 DEF Seen
  <2>4. Step(txt, pattern, ind, i) = 0
    BY <1>0, <2>1, <2>2, <2>3, MatchedNone
  <2> QED
    BY <1>0, <1>6, <2>4
<1>7. CASE place > i + 1
  BY <1>0, <1>7
<1> QED
  BY <1>0, <1>5, <1>6, <1>7

-----------------------------------------------------------------------------
(* What the culling has written.                                            *)

(* The first w letters of a file are those kept before and those of the     *)
(* text from one place up to another.                                       *)
Filled(fl, w, kept, txt, from, to) ==
  /\ w = Len(kept) + (to - from)
  /\ \A k \in 1 .. Len(kept) : fl[k] = kept[k]
  /\ \A k \in from .. to - 1 : fl[Len(kept) + k - from + 1] = txt[k]

(* From i on the file is still the text.                                    *)
Unread(fl, txt, i) ==
  fl \in Texts /\ Len(fl) = Len(txt) /\ \A k \in i .. Len(txt) : fl[k] = txt[k]

Replaced(s, n, x) == [s EXCEPT ![n] = x]

LEMMA ReplacedIs ==
  ASSUME NEW S, NEW s \in Seq(S), NEW n \in 1 .. Len(s), NEW x \in S
  PROVE  /\ Replaced(s, n, x) \in Seq(S) /\ Len(Replaced(s, n, x)) = Len(s)
         /\ Replaced(s, n, x)[n] = x
         /\ \A k \in 1 .. Len(s) : k # n => Replaced(s, n, x)[k] = s[k]
  BY DEF Replaced

(* The letter of txt at i stands at w + 1, and nothing before it is touched. *)
Moved(put, fl, txt, i, w) ==
  /\ Unread(put, txt, i + 1)
  /\ put[w + 1] = txt[i]
  /\ \A k \in 1 .. w : put[k] = fl[k]

(* A letter that is read is written at or before its place.                 *)
LEMMA PutIs ==
  ASSUME NEW txt \in Texts, NEW i \in 1 .. Len(txt), NEW fl, Unread(fl, txt, i), NEW w \in 0 .. i - 1,
         NEW put, put = Replaced(fl, w + 1, fl[i])
  PROVE  Moved(put, fl, txt, i, w)
<1>0. PICK T : T = Len(txt) /\ T \in Nat
  BY LengthIs
<1>1. PICK n : n = w + 1 /\ n \in 1 .. i /\ n \in 1 .. T
  BY <1>0
<1>2. fl \in Texts /\ Len(fl) = T /\ fl[i] = txt[i] /\ \A k \in i .. T : fl[k] = txt[k]
  BY <1>0 DEF Unread
<1>3. fl[i] \in STRING
  BY <1>0, <1>2, ElementIs DEF Texts
<1>4. PICK x : x = fl[i] /\ x \in STRING
  BY <1>3
<1>5. /\ put \in Texts /\ Len(put) = T /\ put[n] = x
      /\ \A k \in 1 .. T : k # n => put[k] = fl[k]
  <2>1. put = Replaced(fl, n, x)
    BY <1>1, <1>4
  <2>2. n \in 1 .. Len(fl)
    BY <1>1, <1>2
  <2>3. PICK S : S = STRING
    OBVIOUS
  <2>5. fl \in Seq(S) /\ x \in S
    BY <1>2, <1>4, <2>3 DEF Texts
  <2>4. /\ Replaced(fl, n, x) \in Seq(S) /\ Len(Replaced(fl, n, x)) = Len(fl)
        /\ Replaced(fl, n, x)[n] = x
        /\ \A k \in 1 .. Len(fl) : k # n => Replaced(fl, n, x)[k] = fl[k]
    BY ONLY <2>2, <2>5, ReplacedIs
  <2> QED
    BY <1>2, <2>1, <2>3, <2>4 DEF Texts
<1>6. \A k \in i + 1 .. T : k \in 1 .. T /\ k # n /\ k \in i .. T
  BY <1>0, <1>1
<1>7. \A k \in 1 .. w : k \in 1 .. T /\ k # n
  BY <1>0, <1>1
<1>8. Unread(put, txt, i + 1)
  BY <1>0, <1>2, <1>5, <1>6 DEF Unread
<1>9. put[w + 1] = txt[i]
  BY <1>1, <1>2, <1>4, <1>5
<1>10. \A k \in 1 .. w : put[k] = fl[k]
  BY <1>5, <1>7
<1> QED
  BY <1>8, <1>9, <1>10 DEF Moved

(* What is written stays when a letter is put behind it.                    *)
LEMMA FilledStays ==
  ASSUME NEW txt \in Texts, NEW kept \in Texts, NEW from \in Nat, NEW to \in Nat, from <= to,
         NEW fl, NEW w, Filled(fl, w, kept, txt, from, to),
         NEW put, \A k \in 1 .. w : put[k] = fl[k]
  PROVE  Filled(put, w, kept, txt, from, to)
<1>0. PICK len : len = Len(kept) /\ len \in Nat
  BY LengthIs
<1>1. /\ w = len + (to - from)
      /\ \A k \in 1 .. len : fl[k] = kept[k]
      /\ \A k \in from .. to - 1 : fl[len + k - from + 1] = txt[k]
  BY <1>0 DEF Filled
<1>2. \A k \in 1 .. len : k \in 1 .. w
  BY <1>0, <1>1
<1>3. \A k \in from .. to - 1 : len + k - from + 1 \in 1 .. w
  BY <1>0, <1>1
<1> QED
  BY <1>0, <1>1, <1>2, <1>3 DEF Filled

(* The next letter of the text is written behind it.                        *)
LEMMA FilledNext ==
  ASSUME NEW txt \in Texts, NEW kept \in Texts, NEW from \in Nat, NEW to \in Nat, from <= to,
         NEW fl, NEW w, Filled(fl, w, kept, txt, from, to), fl[w + 1] = txt[to]
  PROVE  Filled(fl, w + 1, kept, txt, from, to + 1)
<1>0. PICK len : len = Len(kept) /\ len \in Nat
  BY LengthIs
<1>1. /\ w = len + (to - from)
      /\ \A k \in 1 .. len : fl[k] = kept[k]
      /\ \A k \in from .. to - 1 : fl[len + k - from + 1] = txt[k]
  BY <1>0 DEF Filled
<1>2. w + 1 = len + ((to + 1) - from)
  BY <1>0, <1>1
<1>3. ASSUME NEW k \in from .. (to + 1) - 1 PROVE fl[len + k - from + 1] = txt[k]
  <2>1. CASE k = to
    <3>1. len + k - from + 1 = w + 1
      BY <1>0, <1>1, <2>1
    <3> QED
      BY <2>1, <3>1
  <2>2. CASE k # to
    <3>1. k \in from .. to - 1
      BY <2>2
    <3> QED
      BY <1>1, <3>1
  <2> QED
    BY <2>1, <2>2
<1> QED
  BY <1>0, <1>1, <1>2, <1>3 DEF Filled

(* The letters of a start are taken back.                                   *)
LEMMA FilledBack ==
  ASSUME NEW txt \in Texts, NEW kept \in Texts, NEW from \in Nat, NEW to \in Nat, NEW back \in from .. to,
         NEW fl, NEW w, Filled(fl, w, kept, txt, from, to)
  PROVE  Filled(fl, w - (to - back), kept, txt, from, back)
<1>0. PICK len : len = Len(kept) /\ len \in Nat
  BY LengthIs
<1>1. /\ w = len + (to - from)
      /\ \A k \in 1 .. len : fl[k] = kept[k]
      /\ \A k \in from .. to - 1 : fl[len + k - from + 1] = txt[k]
  BY <1>0 DEF Filled
<1>2. w - (to - back) = len + (back - from)
  BY <1>0, <1>1
<1>3. \A k \in from .. back - 1 : k \in from .. to - 1
  OBVIOUS
<1> QED
  BY <1>0, <1>1, <1>2, <1>3 DEF Filled

(* What is written, as a sequence.                                          *)
LEMMA FilledWhole ==
  ASSUME NEW txt \in Texts, NEW kept \in Texts, NEW from \in 1 .. Len(txt) + 1, NEW to \in from .. Len(txt) + 1,
         NEW fl \in Texts, NEW w \in 0 .. Len(fl), Filled(fl, w, kept, txt, from, to)
  PROVE  /\ SubSeq(fl, 1, w) = kept \o SubSeq(txt, from, to - 1)
         /\ kept \o SubSeq(txt, from, to - 1) \in Texts
<1>0. PICK len, T : len = Len(kept) /\ len \in Nat /\ T = Len(txt) /\ T \in Nat
  BY LengthIs
<1>1. /\ w = len + (to - from)
      /\ \A k \in 1 .. len : fl[k] = kept[k]
      /\ \A k \in from .. to - 1 : fl[len + k - from + 1] = txt[k]
  BY <1>0 DEF Filled
<1>2. PICK a : a = SubSeq(fl, 1, w) /\ a \in Texts /\ Len(a) = w /\ \A k \in 1 .. w : a[k] = fl[k]
  <2>1. 1 \in Nat \ {0} /\ w \in 0 .. Len(fl) /\ 1 <= w + 1 /\ w + 1 - 1 = w /\ \A k \in 1 .. w : 1 + k - 1 = k
    BY <1>0, <1>1, LengthIs
  <2>2. /\ SubSeq(fl, 1, w) \in Texts /\ Len(SubSeq(fl, 1, w)) = w + 1 - 1
        /\ \A k \in 1 .. w + 1 - 1 : SubSeq(fl, 1, w)[k] = fl[1 + k - 1]
    BY <2>1, SubSeqIs DEF Texts
  <2> QED
    BY <2>1, <2>2
<1>3. PICK d, last : d = to - from /\ d \in Nat /\ last = to - 1 /\ last \in 0 .. T /\ from <= last + 1 /\ last + 1 - from = d
  BY <1>0
<1>4. PICK b : b = SubSeq(txt, from, to - 1) /\ b \in Texts /\ Len(b) = d /\ \A k \in 1 .. d : b[k] = txt[from + k - 1]
  <2>1. from \in Nat \ {0} /\ last \in 0 .. Len(txt)
    BY <1>0, <1>3
  <2>2. /\ SubSeq(txt, from, last) \in Texts /\ Len(SubSeq(txt, from, last)) = last + 1 - from
        /\ \A k \in 1 .. last + 1 - from : SubSeq(txt, from, last)[k] = txt[from + k - 1]
    BY <1>3, <2>1, SubSeqIs DEF Texts
  <2> QED
    BY <1>3, <2>2
<1>9. w = len + d
  BY <1>1, <1>3
<1>5. PICK c : c = kept \o b
  OBVIOUS
<1>6. /\ c \in Texts /\ Len(c) = w
      /\ \A k \in 1 .. len : c[k] = kept[k]
      /\ \A k \in 1 .. d : c[len + k] = b[k]
  BY <1>0, <1>1, <1>3, <1>4, <1>5, ConcatIs, SMTT(30) DEF Texts
<1>7. ASSUME NEW k \in 1 .. w PROVE a[k] = c[k]
  <2>1. CASE k <= len
    <3>1. k \in 1 .. len
      BY <1>0, <2>1
    <3> QED
      BY <1>1, <1>2, <1>6, <3>1
  <2>2. CASE k > len
    <3>1. PICK m : m = k - len /\ m \in 1 .. d /\ len + m = k
      BY <1>0, <1>3, <1>9, <2>2, SMTT(30)
    <3>2. PICK j : j = from + m - 1 /\ j \in from .. to - 1 /\ len + j - from + 1 = k
      BY <1>0, <1>3, <3>1, SMTT(30)
    <3>3. c[k] = txt[j]
      BY <1>4, <1>6, <3>1, <3>2
    <3>4. fl[k] = txt[j]
      BY <1>1, <3>2
    <3> QED
      BY <1>2, <3>3, <3>4
  <2> QED
    BY <1>0, <1>1, <2>1, <2>2
<1>8. a = c
  BY <1>2, <1>6, <1>7, SameSeq DEF Texts
<1> QED
  BY <1>2, <1>4, <1>5, <1>6, <1>8

(* Behind an end, what was written is what is kept from then on.            *)
LEMMA FilledAgain ==
  ASSUME NEW txt \in Texts, NEW kept \in Texts, NEW from \in 1 .. Len(txt) + 1, NEW to \in from .. Len(txt) + 1,
         NEW fl \in Texts, NEW w \in 0 .. Len(fl), Filled(fl, w, kept, txt, from, to), NEW i \in Nat
  PROVE  Filled(fl, w, kept \o SubSeq(txt, from, to - 1), txt, i, i)
<1>1. PICK all : all = kept \o SubSeq(txt, from, to - 1) /\ all \in Texts /\ SubSeq(fl, 1, w) = all
  <2>1. /\ SubSeq(fl, 1, w) = kept \o SubSeq(txt, from, to - 1)
        /\ kept \o SubSeq(txt, from, to - 1) \in Texts
    BY FilledWhole, Zenon
  <2> QED
    BY <2>1, Zenon
<1>2. Len(all) = w /\ \A k \in 1 .. w : fl[k] = all[k]
  <2>1. 1 \in Nat \ {0} /\ w \in 0 .. Len(fl) /\ 1 <= w + 1 /\ w + 1 - 1 = w /\ w \in Nat /\ \A k \in 1 .. w : 1 + k - 1 = k
    BY LengthIs
  <2>2. /\ Len(SubSeq(fl, 1, w)) = w + 1 - 1
        /\ \A k \in 1 .. w + 1 - 1 : SubSeq(fl, 1, w)[k] = fl[1 + k - 1]
    BY <2>1, SubSeqIs DEF Texts
  <2> QED
    BY <1>1, <2>1, <2>2
<1>3. w = Len(all) + (i - i) /\ \A k \in i .. i - 1 : fl[Len(all) + k - i + 1] = txt[k]
  BY <1>2, LengthIs
<1> QED
  BY <1>1, <1>2, <1>3 DEF Filled

-----------------------------------------------------------------------------
(* One fragment after the other.                                            *)

(* What is kept before the n-th fragment is looked for, and from where; the *)
(* places of its start and of its end.                                      *)
KeptAt(txt, n) == Scan(txt)[n - 1].kept
From(txt, n) == Scan(txt)[n - 1].from
BeginOf(txt, n) == StartPlace(txt, n, From(txt, n))
FinishOf(txt, n) == EndPlace(txt, n, BeginOf(txt, n))

LEMMA FromIs ==
  ASSUME NEW txt \in Texts, NEW n \in 1 .. Len(Culls) + 1
  PROVE  From(txt, n) \in 1 .. Len(txt) + 1 /\ KeptAt(txt, n) \in Texts
<1>1. n - 1 \in 0 .. Len(Culls)
  BY CullsAssumption
<1>2. Scan(txt)[n - 1] \in Scans(txt)
  BY <1>1, ScanIs
<1> QED
  BY <1>2 DEF From, KeptAt, Scans

LEMMA PlacesAre ==
  ASSUME NEW txt \in Texts, NEW n \in 1 .. Len(Culls)
  PROVE  LET s == BeginOf(txt, n)
             e == FinishOf(txt, n)
             ls == Len(Culls[n].start)
         IN  /\ From(txt, n) \in 1 .. Len(txt) + 1 /\ KeptAt(txt, n) \in Texts
             /\ s \in From(txt, n) .. Len(txt) + 1 /\ s \in 1 .. Len(txt) + 1
             /\ s <= Len(txt) => OccursAt(txt, Culls[n].start, s) /\ s + ls <= Len(txt)
             /\ \A j \in From(txt, n) .. Len(txt) :
                  OccursAt(txt, Culls[n].start, j) /\ j + ls <= Len(txt) => s <= j
             /\ e \in 1 .. Len(txt) + 1
             /\ e <= Len(txt) => e >= s + ls /\ OccursAt(txt, Culls[n].end, e)
             /\ \A j \in s + ls .. Len(txt) : OccursAt(txt, Culls[n].end, j) => e <= j
<1>0. Len(txt) \in Nat /\ n \in 1 .. Len(Culls) + 1
  BY LengthIs, CullsAssumption
<1>1. PICK from : from = From(txt, n) /\ from \in 1 .. Len(txt) + 1
  BY <1>0, FromIs
<1>2. PICK s : s = BeginOf(txt, n)
  OBVIOUS
<1>3. /\ s \in from .. Len(txt) + 1
      /\ s <= Len(txt) => OccursAt(txt, Culls[n].start, s) /\ s + Len(Culls[n].start) <= Len(txt)
      /\ \A j \in from .. Len(txt) :
           OccursAt(txt, Culls[n].start, j) /\ j + Len(Culls[n].start) <= Len(txt) => s <= j
  BY <1>1, <1>2, StartPlaceIs DEF BeginOf
<1>4. s \in 1 .. Len(txt) + 1
  BY <1>0, <1>1, <1>3
<1>5. PICK e : e = FinishOf(txt, n)
  OBVIOUS
<1>6. /\ e \in 1 .. Len(txt) + 1
      /\ e <= Len(txt) => e >= s + Len(Culls[n].start) /\ OccursAt(txt, Culls[n].end, e)
      /\ \A j \in s + Len(Culls[n].start) .. Len(txt) : OccursAt(txt, Culls[n].end, j) => e <= j
  BY <1>2, <1>4, <1>5, EndPlaceIs DEF FinishOf
<1>7. KeptAt(txt, n) \in Texts
  BY <1>0, FromIs
<1> QED
  BY <1>1, <1>2, <1>3, <1>4, <1>5, <1>6, <1>7

LEMMA NextFragment ==
  ASSUME NEW txt \in Texts, NEW n \in 1 .. Len(Culls)
  PROVE  LET behind == FinishOf(txt, n) + Len(Culls[n].end)
         IN  /\ KeptAt(txt, n + 1) = KeptAt(txt, n) \o SubSeq(txt, From(txt, n), BeginOf(txt, n) - 1)
             /\ From(txt, n + 1) = IF behind <= Len(txt) THEN behind ELSE Len(txt) + 1
<1>1. Scan(txt)[n] = ScanNext(txt, Scan(txt)[n - 1], n)
  BY ScanIs
<1>2. (n + 1) - 1 = n
  BY CullsAssumption
<1>3. Scan(txt)[(n + 1) - 1] = ScanNext(txt, Scan(txt)[n - 1], n)
  BY <1>1, <1>2
<1>4. Scan(txt)[(n + 1) - 1] =
        [kept |-> KeptAt(txt, n) \o SubSeq(txt, From(txt, n), BeginOf(txt, n) - 1),
         from |-> IF FinishOf(txt, n) + Len(Culls[n].end) <= Len(txt)
                  THEN FinishOf(txt, n) + Len(Culls[n].end) ELSE Len(txt) + 1]
  BY <1>3, Zenon DEF ScanNext, KeptAt, From, BeginOf, FinishOf
<1>5. KeptAt(txt, n + 1) = Scan(txt)[(n + 1) - 1].kept /\ From(txt, n + 1) = Scan(txt)[(n + 1) - 1].from
  BY Zenon DEF KeptAt, From
<1>6. PICK kept, behind : /\ kept = KeptAt(txt, n) \o SubSeq(txt, From(txt, n), BeginOf(txt, n) - 1)
                          /\ behind = IF FinishOf(txt, n) + Len(Culls[n].end) <= Len(txt)
                                      THEN FinishOf(txt, n) + Len(Culls[n].end) ELSE Len(txt) + 1
  OBVIOUS
<1>7. PICK r : r = Scan(txt)[(n + 1) - 1] /\ r = [kept |-> kept, from |-> behind]
  BY <1>4, <1>6
<1>8. r.kept = kept /\ r.from = behind
  BY <1>7
<1> QED
  BY <1>5, <1>6, <1>7, <1>8, Zenon

(* What a tidy text says of the n-th fragment.                              *)
LEMMA StartSeen ==
  ASSUME NEW txt \in Texts, Tidy(txt), NEW n \in 1 .. Len(Culls)
  PROVE  Seen(txt, Culls[n].start, From(txt, n), BeginOf(txt, n))
<1> SUFFICES ASSUME BeginOf(txt, n) <= Len(txt)
             PROVE  /\ OccursAt(txt, Culls[n].start, BeginOf(txt, n))
                    /\ ~BegunBefore(txt, Culls[n].start, From(txt, n), BeginOf(txt, n))
                    /\ ~(/\ BeginOf(txt, n) - Len(Culls[n].start) >= From(txt, n)
                         /\ OccursAt(txt, Culls[n].start, BeginOf(txt, n) - Len(Culls[n].start)))
  BY DEF Seen
<1>1. n \in DOMAIN Culls
  BY CullsAssumption
<1>2. ~BegunBefore(txt, Culls[n].start, From(txt, n), BeginOf(txt, n))
  BY <1>1 DEF Tidy, From, BeginOf
<1>3. PICK s, from, ls, T : /\ s = BeginOf(txt, n) /\ from = From(txt, n) /\ ls = Len(Culls[n].start) /\ T = Len(txt)
                            /\ T \in Nat /\ ls \in Nat \ {0} /\ from \in 1 .. T + 1 /\ s \in from .. T + 1
  BY PlacesAre, CullIs, LengthIs
<1>4. /\ OccursAt(txt, Culls[n].start, s) /\ s + ls <= T /\ s <= T
      /\ \A j \in from .. T : OccursAt(txt, Culls[n].start, j) /\ j + ls <= T => s <= j
  BY <1>3, PlacesAre
<1>5. ~(s - ls >= from /\ OccursAt(txt, Culls[n].start, s - ls))
  <2> SUFFICES ASSUME s - ls >= from, OccursAt(txt, Culls[n].start, s - ls) PROVE FALSE
    OBVIOUS
  <2>1. s - ls \in from .. T /\ (s - ls) + ls <= T /\ ~(s <= s - ls)
    BY <1>3, <1>4
  <2> QED
    BY <1>4, <2>1
<1> QED
  BY <1>2, <1>3, <1>4, <1>5

LEMMA EndSeen ==
  ASSUME NEW txt \in Texts, Tidy(txt), NEW n \in 1 .. Len(Culls), BeginOf(txt, n) <= Len(txt)
  PROVE  /\ Seen(txt, Culls[n].end, From(txt, n), FinishOf(txt, n))
         /\ \A j \in From(txt, n) .. BeginOf(txt, n) + Len(Culls[n].start) - 1 :
              OccursAt(txt, Culls[n].end, j) => j + Len(Culls[n].end) < BeginOf(txt, n) + Len(Culls[n].start)
<1>1. n \in DOMAIN Culls
  BY CullsAssumption
<1>2. \A j \in From(txt, n) .. BeginOf(txt, n) + Len(Culls[n].start) - 1 :
        OccursAt(txt, Culls[n].end, j) => j + Len(Culls[n].end) < BeginOf(txt, n) + Len(Culls[n].start)
  BY <1>1 DEF Tidy, From, BeginOf
<1>3. FinishOf(txt, n) <= Len(txt) => ~BegunBefore(txt, Culls[n].end, From(txt, n), FinishOf(txt, n))
  BY <1>1 DEF Tidy, From, BeginOf, FinishOf
<1>4. PICK s, from, ls, le, T, e :
        /\ s = BeginOf(txt, n) /\ from = From(txt, n) /\ ls = Len(Culls[n].start) /\ T = Len(txt)
        /\ le = Len(Culls[n].end) /\ e = FinishOf(txt, n)
        /\ T \in Nat /\ ls \in Nat \ {0} /\ le \in Nat \ {0} /\ from \in 1 .. T + 1 /\ s \in from .. T + 1
        /\ e \in 1 .. T + 1
  BY PlacesAre, CullIs, LengthIs
<1>5. /\ e <= T => e >= s + ls /\ OccursAt(txt, Culls[n].end, e)
      /\ \A j \in s + ls .. T : OccursAt(txt, Culls[n].end, j) => e <= j
  BY <1>4, PlacesAre
<1>6. \A j \in from .. s + ls - 1 : OccursAt(txt, Culls[n].end, j) => j + le < s + ls
  BY <1>2, <1>4
<1>7. ASSUME e <= T, e - le >= from, OccursAt(txt, Culls[n].end, e - le) PROVE FALSE
  <2>a. T \in Nat /\ ls \in Nat /\ le \in Nat \ {0} /\ from \in 1 .. T + 1 /\ s \in from .. T + 1 /\ e \in 1 .. T + 1
    BY <1>4
  <2>1. PICK j : j = e - le /\ j \in Int /\ j < e /\ j + le = e
    BY ONLY <2>a
  <2>2. CASE j >= s + ls
    <3>1. j \in s + ls .. T
      BY <2>a, <1>7, <2>1, <2>2
    <3> QED
      BY <2>a, <1>5, <1>7, <2>1, <3>1
  <2>3. CASE j < s + ls
    <3>1. j \in from .. s + ls - 1
      BY <2>a, <1>7, <2>1, <2>3
    <3>2. j + le < s + ls
      BY <1>6, <1>7, <2>1, <3>1
    <3> QED
      BY <2>a, <1>5, <1>7, <2>1, <3>2
  <2> QED
    BY <2>a, <2>1, <2>2, <2>3
<1>8. Seen(txt, Culls[n].end, from, e)
  BY <1>3, <1>4, <1>5, <1>7 DEF Seen
<1> QED
  BY <1>2, <1>4, <1>8

-----------------------------------------------------------------------------
(* Where the culling of a tidy text stands before the letter at i, with fl  *)
(* the file and w letters of it written.                                    *)

(* Before the n-th fragment: all is written since the one before it.        *)
Before(txt, fl, w, n, si, ei, i) ==
  /\ From(txt, n) <= i
  /\ Filled(fl, w, KeptAt(txt, n), txt, From(txt, n), i)
  /\ Matched(txt, Culls[n].start, si, From(txt, n), i)
  /\ Follows(txt, Culls[n].start, BeginOf(txt, n), si, i)
  /\ Matched(txt, Culls[n].end, ei, From(txt, n), i)

(* Within it: what is written ends where it begins.                         *)
Within(txt, fl, w, n, ei, i) ==
  /\ BeginOf(txt, n) <= Len(txt) /\ BeginOf(txt, n) + Len(Culls[n].start) < i
  /\ Filled(fl, w, KeptAt(txt, n), txt, From(txt, n), BeginOf(txt, n))
  /\ Matched(txt, Culls[n].end, ei, From(txt, n), i)
  /\ Follows(txt, Culls[n].end, FinishOf(txt, n), ei, i)

(* Behind the last one.                                                     *)
Beyond(txt, fl, w, i) ==
  /\ From(txt, Len(Culls) + 1) <= i
  /\ Filled(fl, w, KeptAt(txt, Len(Culls) + 1), txt, From(txt, Len(Culls) + 1), i)

LEMMA BeforeNext ==
  ASSUME NEW txt \in Texts, Tidy(txt), NEW n \in 1 .. Len(Culls), NEW i \in 1 .. Len(txt),
         NEW fl, NEW w, NEW si, NEW ei, Before(txt, fl, w, n, si, ei, i), si # Len(Culls[n].start),
         NEW put, put[w + 1] = txt[i], \A k \in 1 .. w : put[k] = fl[k]
  PROVE  Before(txt, put, w + 1, n, Step(txt, Culls[n].start, si, i), Step(txt, Culls[n].end, ei, i), i + 1)
<1>1. PICK from, kept, s : /\ from = From(txt, n) /\ kept = KeptAt(txt, n) /\ s = BeginOf(txt, n)
                           /\ from \in 1 .. Len(txt) + 1 /\ kept \in Texts /\ s \in 1 .. Len(txt) + 1
  BY PlacesAre
<1>2. PICK p, q : p = Culls[n].start /\ q = Culls[n].end /\ p \in Texts /\ q \in Texts /\ Len(p) > 0
  BY CullIs
<1>3. /\ from <= i /\ Filled(fl, w, kept, txt, from, i) /\ Matched(txt, p, si, from, i)
      /\ Follows(txt, p, s, si, i) /\ Matched(txt, q, ei, from, i)
  BY <1>1, <1>2 DEF Before
<1>4. i \in from .. Len(txt) /\ i \in Nat /\ from \in Nat
  BY <1>1, <1>3
<1>5. Filled(put, w + 1, kept, txt, from, i + 1)
  <2>1. Filled(put, w, kept, txt, from, i)
    BY <1>1, <1>3, <1>4, FilledStays
  <2> QED
    BY <1>1, <1>3, <1>4, <2>1, FilledNext
<1>6. Matched(txt, p, Step(txt, p, si, i), from, i + 1) /\ Matched(txt, q, Step(txt, q, ei, i), from, i + 1)
  BY <1>1, <1>2, <1>3, <1>4, MatchedNext
<1>7. Seen(txt, p, from, s)
  BY <1>1, <1>2, StartSeen
<1>8. Follows(txt, p, s, Step(txt, p, si, i), i + 1)
  <2>1. si # Len(p)
    BY <1>2
  <2> QED
    BY <1>1, <1>2, <1>3, <1>4, <1>7, <2>1, FollowsNext
<1>9. from <= i + 1
  BY <1>1, <1>3
<1> QED
  BY <1>1, <1>2, <1>5, <1>6, <1>8, <1>9 DEF Before

(* The letter behind a start is the one behind the first start, and no end  *)
(* stands before it.                                                        *)
LEMMA BeforeWithin ==
  ASSUME NEW txt \in Texts, Tidy(txt), NEW n \in 1 .. Len(Culls), NEW i \in 1 .. Len(txt),
         NEW fl, NEW w, NEW ei, Before(txt, fl, w, n, Len(Culls[n].start), ei, i),
         NEW v, v = w - Len(Culls[n].start), NEW put, \A k \in 1 .. v : put[k] = fl[k]
  PROVE  ei # Len(Culls[n].end) /\ Within(txt, put, v, n, Step(txt, Culls[n].end, ei, i), i + 1)
<1>1. PICK from, kept, s, e, T :
        /\ from = From(txt, n) /\ kept = KeptAt(txt, n) /\ s = BeginOf(txt, n) /\ e = FinishOf(txt, n)
        /\ T = Len(txt) /\ T \in Nat
        /\ from \in 1 .. T + 1 /\ kept \in Texts /\ s \in from .. T + 1 /\ e \in 1 .. T + 1
  BY PlacesAre, LengthIs
<1>2. PICK p, q, ls, le : /\ p = Culls[n].start /\ q = Culls[n].end /\ p \in Texts /\ q \in Texts
                          /\ ls = Len(p) /\ le = Len(q) /\ ls \in Nat \ {0} /\ le \in Nat \ {0}
  BY CullIs
<1>3. /\ from <= i /\ Filled(fl, w, kept, txt, from, i) /\ Matched(txt, p, ls, from, i)
      /\ Follows(txt, p, s, ls, i) /\ Matched(txt, q, ei, from, i)
  BY <1>1, <1>2 DEF Before
<1>a. T \in Nat /\ from \in 1 .. T + 1 /\ s \in from .. T + 1 /\ e \in 1 .. T + 1 /\ ls \in Nat \ {0} /\ le \in Nat \ {0} /\ i \in from .. T
  BY <1>1, <1>2, <1>3
<1>4. i - ls >= from /\ OccursAt(txt, p, i - ls)
  <2>1. i \in from .. Len(txt) + 1 /\ from \in 1 .. Len(txt) + 1 /\ Len(p) > 0
    BY <1>1, <1>2, <1>3, SMTT(30)
  <2> QED
    BY <1>2, <1>3, <2>1, MatchedWhole
<1>5. s <= i - ls
  <2>1. \A j \in from .. T : OccursAt(txt, p, j) /\ j + ls <= T => s <= j
    BY <1>1, <1>2, PlacesAre
  <2>2. i - ls \in from .. T /\ (i - ls) + ls <= T
    BY <1>a, <1>4
  <2> QED
    BY <1>4, <2>1, <2>2
<1>6. s <= T /\ i = s + ls
  <2>1. s <= T
    BY ONLY <1>a, <1>5
  <2>2. i <= s + ls
    BY <1>1, <1>2, <1>3, <2>1 DEF Follows
  <2> QED
    BY ONLY <1>a, <1>5, <2>1, <2>2
<1>7. /\ Seen(txt, q, from, e)
      /\ \A j \in from .. s + ls - 1 : OccursAt(txt, q, j) => j + le < s + ls
  BY <1>1, <1>2, <1>6, EndSeen
<1>8. ei # le
  <2> SUFFICES ASSUME ei = le PROVE FALSE
    OBVIOUS
  <2>1. i - le >= from /\ OccursAt(txt, q, i - le)
    <3>1. i \in from .. Len(txt) + 1 /\ from \in 1 .. Len(txt) + 1 /\ Len(q) > 0
      BY <1>1, <1>2, <1>3, SMTT(30)
    <3> QED
      BY <1>2, <1>3, <3>1, MatchedWhole
  <2>2. i - le \in from .. s + ls - 1 /\ ~((i - le) + le < s + ls)
    <3>1. i - le >= from
      BY <2>1
    <3> QED
      BY ONLY <1>a, <1>6, <3>1
  <2> QED
    BY <1>7, <2>1, <2>2
<1>9. Follows(txt, q, e, ei, i)
  <2> SUFFICES ASSUME e <= T PROVE i <= e + le /\ (e <= i => ei = i - e)
    BY <1>1, <1>2 DEF Follows
  <2>1. e >= s + ls
    BY <1>1, <1>2, PlacesAre
  <2>2. CASE e = i
    <3>1. ~BegunBefore(txt, q, from, i) /\ ~(i - Len(q) >= from /\ OccursAt(txt, q, i - Len(q)))
      BY <1>1, <1>7, <2>2 DEF Seen
    <3>2. i \in from .. Len(txt) + 1 /\ from \in 1 .. Len(txt) + 1 /\ Len(q) > 0
      BY <1>1, <1>2, <1>3, SMTT(30)
    <3>3. ei = 0
      BY <1>2, <1>3, <3>1, <3>2, MatchedNone
    <3> QED
      BY <1>a, <2>2, <3>3
  <2> QED
    BY <1>a, <1>6, <2>1, <2>2, SMTT(30)
<1>10. /\ Matched(txt, q, Step(txt, q, ei, i), from, i + 1)
       /\ Follows(txt, q, e, Step(txt, q, ei, i), i + 1)
  <2>1. i \in from .. Len(txt) /\ from \in 1 .. Len(txt) + 1 /\ e \in 1 .. Len(txt) + 1 /\ Len(q) > 0 /\ ei # Len(q)
    BY <1>1, <1>2, <1>3, <1>8
  <2> QED
    BY <1>2, <1>3, <1>7, <1>9, <2>1, FollowsNext, MatchedNext
<1>11. Filled(put, v, kept, txt, from, s)
  <2>1. s \in from .. i /\ from \in Nat /\ i \in Nat /\ s \in Nat /\ from <= i /\ from <= s /\ i - s = ls
    BY <1>a, <1>6, SMTT(30)
  <2>2. Filled(fl, w - (i - s), kept, txt, from, s)
    BY <1>1, <1>3, <2>1, FilledBack
  <2>3. Filled(fl, v, kept, txt, from, s)
    BY <1>2, <2>1, <2>2
  <2> QED
    BY <1>1, <2>1, <2>3, FilledStays
<1>12. s + ls < i + 1
  BY <1>a, <1>6
<1> QED
  BY <1>1, <1>2, <1>6, <1>8, <1>10, <1>11, <1>12 DEF Within

LEMMA WithinNext ==
  ASSUME NEW txt \in Texts, Tidy(txt), NEW n \in 1 .. Len(Culls), NEW i \in 1 .. Len(txt),
         NEW fl, NEW w, NEW ei, Within(txt, fl, w, n, ei, i), ei # Len(Culls[n].end),
         NEW put, \A k \in 1 .. w : put[k] = fl[k]
  PROVE  Within(txt, put, w, n, Step(txt, Culls[n].end, ei, i), i + 1)
<1>1. PICK from, kept, s, e, T :
        /\ from = From(txt, n) /\ kept = KeptAt(txt, n) /\ s = BeginOf(txt, n) /\ e = FinishOf(txt, n)
        /\ T = Len(txt) /\ T \in Nat
        /\ from \in 1 .. T + 1 /\ kept \in Texts /\ s \in from .. T + 1 /\ e \in 1 .. T + 1
  BY PlacesAre, LengthIs
<1>2. PICK p, q, ls : /\ p = Culls[n].start /\ q = Culls[n].end /\ q \in Texts
                      /\ ls = Len(p) /\ ls \in Nat \ {0} /\ Len(q) > 0
  <2>1. Culls[n].end \in Texts /\ Len(Culls[n].start) \in Nat \ {0} /\ Len(Culls[n].end) > 0
    BY CullIs
  <2> QED
    BY <2>1
<1>3. /\ s <= T /\ s + ls < i /\ Filled(fl, w, kept, txt, from, s) /\ Matched(txt, q, ei, from, i)
      /\ Follows(txt, q, e, ei, i)
  BY <1>1, <1>2 DEF Within
<1>a. T \in Nat /\ from \in 1 .. T + 1 /\ s \in from .. T + 1 /\ ls \in Nat \ {0} /\ i \in 1 .. T
  BY <1>1, <1>2
<1>4. i \in from .. T /\ from \in Nat /\ s \in Nat /\ from <= s /\ s + ls < i + 1
  BY <1>a, <1>3
<1>5. Seen(txt, q, from, e)
  BY <1>1, <1>2, <1>3, EndSeen
<1>6. /\ Matched(txt, q, Step(txt, q, ei, i), from, i + 1)
      /\ Follows(txt, q, e, Step(txt, q, ei, i), i + 1)
  <2>1. i \in from .. Len(txt) /\ from \in 1 .. Len(txt) + 1 /\ e \in 1 .. Len(txt) + 1 /\ ei # Len(q)
    BY <1>1, <1>2, <1>4
  <2> QED
    BY <1>2, <1>3, <1>5, <2>1, FollowsNext, MatchedNext
<1>7. Filled(put, w, kept, txt, from, s)
  BY <1>1, <1>3, <1>4, FilledStays
<1> QED
  BY <1>1, <1>2, <1>3, <1>4, <1>6, <1>7 DEF Within

(* An end that is matched is the first behind the start: what is written is *)
(* what is kept before the next fragment.                                   *)
LEMMA WithinWhole ==
  ASSUME NEW txt \in Texts, Tidy(txt), NEW n \in 1 .. Len(Culls), NEW i \in 1 .. Len(txt),
         NEW fl \in Texts, NEW w \in 0 .. Len(fl), Within(txt, fl, w, n, Len(Culls[n].end), i)
  PROVE  From(txt, n + 1) = i /\ Filled(fl, w, KeptAt(txt, n + 1), txt, i, i)
<1>1. PICK from, kept, s, e, T :
        /\ from = From(txt, n) /\ kept = KeptAt(txt, n) /\ s = BeginOf(txt, n) /\ e = FinishOf(txt, n)
        /\ T = Len(txt) /\ T \in Nat
        /\ from \in 1 .. T + 1 /\ kept \in Texts /\ s \in from .. T + 1 /\ e \in 1 .. T + 1
  BY PlacesAre, LengthIs
<1>b. Culls[n].end \in Texts /\ Len(Culls[n].start) \in Nat \ {0} /\ Len(Culls[n].end) \in Nat \ {0}
  BY CullIs
<1>2. PICK p, q, ls, le : /\ p = Culls[n].start /\ q = Culls[n].end /\ q \in Texts
                          /\ ls = Len(p) /\ ls \in Nat \ {0} /\ le = Len(q) /\ le \in Nat \ {0}
  BY <1>b
<1>3. /\ s <= T /\ s + ls < i /\ Filled(fl, w, kept, txt, from, s) /\ Matched(txt, q, le, from, i)
      /\ Follows(txt, q, e, le, i)
  BY <1>1, <1>2 DEF Within
<1>a. /\ T \in Nat /\ from \in 1 .. T + 1 /\ s \in from .. T + 1 /\ e \in 1 .. T + 1
      /\ ls \in Nat \ {0} /\ le \in Nat \ {0} /\ i \in 1 .. T
  BY <1>1, <1>2
<1>4. i - le >= from /\ OccursAt(txt, q, i - le)
  <2>1. from <= i
    BY ONLY <1>a, <1>3
  <2>2. i \in from .. Len(txt) + 1 /\ from \in 1 .. Len(txt) + 1 /\ Len(q) > 0
    BY <1>1, <1>2, <2>1, SMTT(30)
  <2> QED
    BY <1>2, <1>3, <2>2, MatchedWhole
<1>5. i - le >= s + ls
  <2>1. \A j \in from .. s + ls - 1 : OccursAt(txt, q, j) => j + le < s + ls
    BY <1>1, <1>2, <1>3, EndSeen
  <2>2. PICK j : j = i - le /\ j \in Int /\ j + le = i
    BY ONLY <1>a
  <2>3. j < s + ls => j \in from .. s + ls - 1 /\ ~(j + le < s + ls)
    BY ONLY <1>a, <1>3, <1>4, <2>2
  <2>4. ~(j < s + ls)
    BY <1>4, <2>1, <2>2, <2>3
  <2> QED
    BY ONLY <1>a, <2>2, <2>4
<1>6. e <= i - le
  <2>1. \A j \in s + ls .. T : OccursAt(txt, q, j) => e <= j
    BY <1>1, <1>2, PlacesAre
  <2>2. i - le \in s + ls .. T
    BY ONLY <1>a, <1>5
  <2> QED
    BY <1>4, <2>1, <2>2
<1>7. e <= T /\ i = e + le
  <2>1. e <= T
    BY ONLY <1>a, <1>6
  <2>2. i <= e + le
    BY <1>1, <1>2, <1>3, <2>1 DEF Follows
  <2> QED
    BY ONLY <1>a, <1>6, <2>1, <2>2
<1>8. From(txt, n + 1) = i /\ KeptAt(txt, n + 1) = kept \o SubSeq(txt, from, s - 1)
  <2>1. e + le <= T
    BY ONLY <1>a, <1>7
  <2>2. FinishOf(txt, n) + Len(Culls[n].end) = e + le
    BY <1>1, <1>2
  <2>3. From(txt, n + 1) = e + le
    BY <1>1, <2>1, <2>2, NextFragment
  <2>4. KeptAt(txt, n + 1) = kept \o SubSeq(txt, from, s - 1)
    BY <1>1, NextFragment
  <2> QED
    BY <1>7, <2>3, <2>4
<1>9. Filled(fl, w, kept \o SubSeq(txt, from, s - 1), txt, i, i)
  <2>1. from \in 1 .. Len(txt) + 1 /\ s \in from .. Len(txt) + 1 /\ i \in Nat
    BY <1>1
  <2> QED
    BY <1>1, <1>3, <2>1, FilledAgain
<1> QED
  BY <1>8, <1>9

LEMMA BeyondNext ==
  ASSUME NEW txt \in Texts, NEW i \in 1 .. Len(txt), NEW fl, NEW w, Beyond(txt, fl, w, i),
         NEW put, put[w + 1] = txt[i], \A k \in 1 .. w : put[k] = fl[k]
  PROVE  Beyond(txt, put, w + 1, i + 1)
<1>1. Len(Culls) + 1 \in 1 .. Len(Culls) + 1
  BY CullsAssumption
<1>2. PICK from, kept : /\ from = From(txt, Len(Culls) + 1) /\ kept = KeptAt(txt, Len(Culls) + 1)
                        /\ from \in 1 .. Len(txt) + 1 /\ kept \in Texts
  BY <1>1, FromIs
<1>3. from <= i /\ Filled(fl, w, kept, txt, from, i)
  BY <1>2 DEF Beyond
<1>4. from \in Nat /\ i \in Nat /\ from <= i + 1
  BY <1>2, <1>3
<1>5. Filled(put, w, kept, txt, from, i)
  BY <1>2, <1>3, <1>4, FilledStays
<1>6. Filled(put, w + 1, kept, txt, from, i + 1)
  BY <1>2, <1>3, <1>4, <1>5, FilledNext
<1> QED
  BY <1>2, <1>4, <1>6 DEF Beyond

(* The letter behind an end is the first of what is kept next, and the      *)
(* first that may belong to the next start.                                 *)
LEMMA WithinBefore ==
  ASSUME NEW txt \in Texts, Tidy(txt), NEW n \in 1 .. Len(Culls), n + 1 <= Len(Culls), NEW i \in 1 .. Len(txt),
         NEW fl \in Texts, NEW w \in 0 .. Len(fl), Within(txt, fl, w, n, Len(Culls[n].end), i),
         NEW put, put[w + 1] = txt[i], \A k \in 1 .. w : put[k] = fl[k]
  PROVE  Before(txt, put, w + 1, n + 1, Step(txt, Culls[n + 1].start, 0, i), Step(txt, Culls[n + 1].end, 0, i), i + 1)
<1>1. PICK m : m = n + 1 /\ m \in 1 .. Len(Culls)
  BY CullsAssumption, SMTT(30)
<1>2. From(txt, m) = i /\ Filled(fl, w, KeptAt(txt, m), txt, i, i)
  BY <1>1, WithinWhole
<1>3. Before(txt, fl, w, m, 0, 0, i)
  <2>0. Len(Culls[m].start) \in Nat \ {0} /\ Len(Culls[m].end) \in Nat
    BY <1>1, CullIs
  <2>1. Matched(txt, Culls[m].start, 0, i, i) /\ Matched(txt, Culls[m].end, 0, i, i)
    BY <2>0 DEF Matched
  <2>2. Follows(txt, Culls[m].start, BeginOf(txt, m), 0, i)
    <3>1. BeginOf(txt, m) \in i .. Len(txt) + 1
      BY <1>1, <1>2, PlacesAre
    <3>2. i <= BeginOf(txt, m) + Len(Culls[m].start) /\ (BeginOf(txt, m) <= i => 0 = i - BeginOf(txt, m))
      <4>1. PICK s, ls, T : s = BeginOf(txt, m) /\ ls = Len(Culls[m].start) /\ T = Len(txt)
        OBVIOUS
      <4>2. T \in Nat /\ ls \in Nat \ {0} /\ s \in i .. T + 1 /\ i \in 1 .. T
        BY <2>0, <3>1, <4>1, LengthIs
      <4>3. i <= s + ls /\ (s <= i => 0 = i - s)
        BY ONLY <4>2
      <4> QED
        BY <4>1, <4>3
    <3> QED
      BY <3>2 DEF Follows
  <2> QED
    BY <1>2, <2>1, <2>2 DEF Before
<1>4. 0 # Len(Culls[m].start)
  BY <1>1, CullIs
<1>5. Before(txt, put, w + 1, m, Step(txt, Culls[m].start, 0, i), Step(txt, Culls[m].end, 0, i), i + 1)
  BY <1>1, <1>3, <1>4, BeforeNext
<1> QED
  BY <1>1, <1>5

LEMMA WithinBeyond ==
  ASSUME NEW txt \in Texts, Tidy(txt), NEW n \in 1 .. Len(Culls), n + 1 = Len(Culls) + 1, NEW i \in 1 .. Len(txt),
         NEW fl \in Texts, NEW w \in 0 .. Len(fl), Within(txt, fl, w, n, Len(Culls[n].end), i),
         NEW put, put[w + 1] = txt[i], \A k \in 1 .. w : put[k] = fl[k]
  PROVE  Beyond(txt, put, w + 1, i + 1)
<1>1. From(txt, n + 1) = i /\ Filled(fl, w, KeptAt(txt, n + 1), txt, i, i)
  BY WithinWhole
<1>2. Beyond(txt, fl, w, i)
  BY <1>1 DEF Beyond
<1> QED
  BY <1>2, BeyondNext

-----------------------------------------------------------------------------
(* At the end of the text what is written is what the list says.            *)

LEMMA BeyondEnd ==
  ASSUME NEW txt \in Texts, NEW fl \in Texts, NEW w \in 0 .. Len(fl), Beyond(txt, fl, w, Len(txt) + 1)
  PROVE  SubSeq(fl, 1, w) = CulledText(txt)
<1>1. Len(Culls) + 1 \in 1 .. Len(Culls) + 1 /\ (Len(Culls) + 1) - 1 = Len(Culls)
  BY CullsAssumption
<1>2. PICK from, kept, T : /\ from = From(txt, Len(Culls) + 1) /\ kept = KeptAt(txt, Len(Culls) + 1)
                           /\ T = Len(txt) /\ T \in Nat
                           /\ from \in 1 .. T + 1 /\ kept \in Texts
  BY <1>1, FromIs, LengthIs
<1>3. Filled(fl, w, kept, txt, from, T + 1)
  BY <1>2 DEF Beyond
<1>4. PICK to : to = T + 1 /\ to \in from .. Len(txt) + 1 /\ to - 1 = T /\ from \in 1 .. Len(txt) + 1
  BY <1>2
<1>a. from \in 1 .. Len(txt) + 1 /\ to \in from .. Len(txt) + 1 /\ Filled(fl, w, kept, txt, from, to) /\ kept \in Texts
  BY <1>2, <1>3, <1>4
<1>5. SubSeq(fl, 1, w) = kept \o SubSeq(txt, from, to - 1)
  BY ONLY <1>a, fl \in Texts, txt \in Texts, w \in 0 .. Len(fl), FilledWhole, ZenonT(60)
<1>6. CulledText(txt) = kept \o SubSeq(txt, from, T)
  BY <1>1, <1>2 DEF CulledText, KeptAt, From
<1> QED
  BY <1>4, <1>5, <1>6

(* The n-th fragment has no end: nothing more is kept.                      *)
LEMMA LastFragment ==
  ASSUME NEW txt \in Texts, NEW n \in 1 .. Len(Culls),
         FinishOf(txt, n) + Len(Culls[n].end) > Len(txt),
         NEW fl \in Texts, NEW w \in 0 .. Len(fl),
         Filled(fl, w, KeptAt(txt, n), txt, From(txt, n), BeginOf(txt, n))
  PROVE  SubSeq(fl, 1, w) = CulledText(txt)
<1>1. PICK from, kept, s, T :
        /\ from = From(txt, n) /\ kept = KeptAt(txt, n) /\ s = BeginOf(txt, n) /\ T = Len(txt) /\ T \in Nat
        /\ from \in 1 .. T + 1 /\ kept \in Texts /\ s \in from .. T + 1
  BY PlacesAre, LengthIs
<1>2. SubSeq(fl, 1, w) = kept \o SubSeq(txt, from, s - 1)
  <2>1. from \in 1 .. Len(txt) + 1 /\ s \in from .. Len(txt) + 1 /\ Filled(fl, w, kept, txt, from, s) /\ kept \in Texts
    BY <1>1
  <2> QED
    BY ONLY <2>1, fl \in Texts, txt \in Texts, w \in 0 .. Len(fl), FilledWhole, ZenonT(60)
<1>3. ~(FinishOf(txt, n) + Len(Culls[n].end) <= Len(txt))
  <2>1. PICK e, le : e = FinishOf(txt, n) /\ le = Len(Culls[n].end) /\ e \in 1 .. T + 1 /\ le \in Nat
    BY <1>1, PlacesAre, CullIs
  <2> QED
    BY <1>1, <2>1, SMTT(30)
<1>4. From(txt, n + 1) = Len(txt) + 1 /\ KeptAt(txt, n + 1) = kept \o SubSeq(txt, from, s - 1)
  BY <1>1, <1>3, NextFragment
<1>5. (n + 1) - 1 = n /\ n \in 0 .. Len(Culls)
  BY CullsAssumption
<1>6. Scan(txt)[n].from = Len(txt) + 1 /\ Scan(txt)[n].kept = kept \o SubSeq(txt, from, s - 1)
  BY <1>4, <1>5 DEF From, KeptAt
<1>7. CulledText(txt) = Scan(txt)[n].kept
  BY <1>5, <1>6, ScanStays
<1> QED
  BY <1>2, <1>6, <1>7

LEMMA BeforeEnd ==
  ASSUME NEW txt \in Texts, NEW n \in 1 .. Len(Culls), NEW fl \in Texts, NEW w \in 0 .. Len(fl),
         NEW si, NEW ei, Before(txt, fl, w, n, si, ei, Len(txt) + 1)
  PROVE  SubSeq(fl, 1, w) = CulledText(txt)
<1>1. PICK s, e, ls, le, T :
        s = BeginOf(txt, n) /\ e = FinishOf(txt, n) /\ T = Len(txt) /\ ls = Len(Culls[n].start) /\ le = Len(Culls[n].end)
  OBVIOUS
<1>a. /\ s \in 1 .. T + 1 /\ e \in 1 .. T + 1
      /\ s <= T => s + ls <= T
      /\ e <= T => e >= s + ls
  BY <1>1, PlacesAre
<1>b. T \in Nat /\ ls \in Nat \ {0} /\ le \in Nat \ {0}
  BY <1>1, LengthIs, CullIs
<1>2. s <= T => T + 1 <= s + ls
  BY <1>1 DEF Before, Follows
<1>3. s = T + 1 /\ e + le > T
  BY ONLY <1>a, <1>b, <1>2
<1>4. Filled(fl, w, KeptAt(txt, n), txt, From(txt, n), BeginOf(txt, n))
  BY <1>1, <1>3 DEF Before
<1> QED
  BY <1>1, <1>3, <1>4, LastFragment

LEMMA WithinEnd ==
  ASSUME NEW txt \in Texts, NEW n \in 1 .. Len(Culls), NEW fl \in Texts, NEW w \in 0 .. Len(fl),
         NEW ei, Within(txt, fl, w, n, ei, Len(txt) + 1)
  PROVE  SubSeq(fl, 1, w) = CulledText(txt)
<1>1. PICK e, le, T : /\ e = FinishOf(txt, n) /\ T = Len(txt) /\ T \in Nat
                      /\ le = Len(Culls[n].end) /\ le \in Nat \ {0} /\ e \in 1 .. T + 1
  BY PlacesAre, LengthIs, CullIs
<1>2. e <= T => T + 1 <= e + le
  BY <1>1 DEF Within, Follows
<1>3. e + le > T
  BY ONLY <1>1, <1>2
<1>4. Filled(fl, w, KeptAt(txt, n), txt, From(txt, n), BeginOf(txt, n))
  BY DEF Within
<1> QED
  BY <1>1, <1>3, <1>4, LastFragment

-----------------------------------------------------------------------------
(* The steps of the culling.                                                *)

(* What holds while any text is culled.                                     *)
Reading(txt) ==
  /\ index \in 1 .. Len(txt) + 1 /\ Unread(file, txt, index)
  /\ writeIndex \in 0 .. index - 1
  /\ cullIndex \in 1 .. Len(Culls) + 1 /\ cut \in BOOLEAN
  /\ cut => Looking
  /\ Looking => startInd \in Nat /\ (~cut => startInd <= writeIndex)

(* What holds besides while a tidy text is culled.                          *)
Finding(txt) ==
  /\ ~Looking => Beyond(txt, file, writeIndex, index)
  /\ Looking /\ ~cut => Before(txt, file, writeIndex, cullIndex, startInd, endInd, index)
  /\ Looking /\ cut => Within(txt, file, writeIndex, cullIndex, endInd, index)

LEMMA PutReads ==
  ASSUME NEW txt \in Texts, Reading(txt), index <= Len(file), NEW cutting, Put(cutting)
  PROVE  /\ index \in 1 .. Len(txt) /\ Byte = txt[index]
         /\ Written \in 0 .. writeIndex /\ (~Begins => Written = writeIndex)
         /\ (Begins => Written = writeIndex - Len(Culls[cullIndex].start))
         /\ index' = index + 1 /\ Unread(file', txt, index + 1)
         /\ file'[Written + 1] = txt[index]
         /\ \A k \in 1 .. Written : file'[k] = file[k]
<1>1. PICK T, i : T = Len(txt) /\ T \in Nat /\ i = index /\ i \in 1 .. T
  BY LengthIs DEF Reading, Unread
<1>2. Byte = txt[i] /\ file[i] = txt[i]
  BY <1>1 DEF Reading, Unread, Byte
<1>3. /\ Written \in 0 .. writeIndex /\ (~Begins => Written = writeIndex)
      /\ (Begins => Written = writeIndex - Len(Culls[cullIndex].start))
  <2>1. CASE Begins
    <3>1. Looking /\ ~cut /\ startInd = Len(Culls[cullIndex].start)
      BY <2>1 DEF Begins
    <3>2. startInd \in Nat /\ startInd <= writeIndex
      BY <3>1 DEF Reading
    <3>3. writeIndex \in Nat
      BY <1>1 DEF Reading
    <3>4. Written = writeIndex - startInd
      BY <2>1, <3>1 DEF Written
    <3> QED
      BY <2>1, <3>1, <3>2, <3>3, <3>4
  <2>2. CASE ~Begins
    <3>1. writeIndex \in Nat
      BY <1>1 DEF Reading
    <3> QED
      BY <2>2, <3>1 DEF Written
  <2> QED
    BY <2>1, <2>2
<1>4. PICK w, fl : w = Written /\ w \in 0 .. i - 1 /\ fl = file /\ Unread(fl, txt, i)
  <2>1. writeIndex \in 0 .. i - 1 /\ Unread(file, txt, i)
    BY <1>1 DEF Reading
  <2> QED
    BY <1>1, <1>3, <2>1
<1>5. PICK put : put = file' /\ put = Replaced(fl, w + 1, fl[i])
  BY <1>1, <1>4 DEF Put, Byte, Replaced
<1>6. i \in 1 .. Len(txt)
  BY <1>1
<1>7. Unread(put, txt, i + 1) /\ put[w + 1] = txt[i] /\ \A k \in 1 .. w : put[k] = fl[k]
  <2>1. Unread(fl, txt, i) /\ w \in 0 .. i - 1
    BY <1>4
  <2>2. put = Replaced(fl, w + 1, fl[i])
    BY <1>5
  <2>3. i \in 1 .. Len(txt) /\ txt \in Texts
    BY <1>6
  <2>4. Moved(put, fl, txt, i, w)
    BY ONLY <2>1, <2>2, <2>3, PutIs
  <2> QED
    BY <2>4 DEF Moved
<1>8. index' = index + 1
  BY DEF Put
<1> QED
  BY <1>1, <1>2, <1>3, <1>4, <1>5, <1>6, <1>7, <1>8

LEMMA CopyReads ==
  ASSUME NEW txt \in Texts, Reading(txt), CullCopy
  PROVE  Reading(txt)' /\ (Finding(txt) => Finding(txt)')
<1>1. index <= Len(file) /\ ~Looking /\ Put(cut) /\ UNCHANGED <<cullIndex, startInd, endInd>>
  BY DEF CullCopy
<1>2. ~Begins /\ ~Looking' /\ cut = FALSE
  BY <1>1 DEF Begins, Looking, Reading
<1>3. PICK i, w, fl, put, T :
        i = index /\ w = writeIndex /\ fl = file /\ put = file' /\ T = Len(txt) /\ T \in Nat
  BY LengthIs
<1>4. /\ i \in 1 .. T /\ index' = i + 1 /\ Unread(put, txt, i + 1)
      /\ put[w + 1] = txt[i] /\ \A k \in 1 .. w : put[k] = fl[k]
  BY <1>1, <1>2, <1>3, PutReads
<1>5. writeIndex' = w + 1 /\ cut' = FALSE
  BY <1>1, <1>2, <1>3 DEF Put, Written
<1>6. Reading(txt)'
  <2>1. index' \in 1 .. Len(txt) + 1
    BY <1>3, <1>4
  <2>2. w \in 0 .. i - 1
    BY <1>3 DEF Reading
  <2>3. writeIndex' \in 0 .. index' - 1
    BY <1>3, <1>4, <1>5, <2>2
  <2>4. Unread(file', txt, index')
    BY <1>3, <1>4
  <2> QED
    BY <1>1, <1>2, <1>5, <2>1, <2>3, <2>4 DEF Reading
<1>7. ASSUME Finding(txt) PROVE Finding(txt)'
  <2>1. Beyond(txt, fl, w, i)
    BY <1>1, <1>3, <1>7 DEF Finding
  <2>2. i \in 1 .. Len(txt)
    BY <1>3, <1>4
  <2>3. Beyond(txt, put, w + 1, i + 1)
    BY <1>4, <2>1, <2>2, BeyondNext
  <2>4. Beyond(txt, file', writeIndex', index')
    BY <1>3, <1>4, <1>5, <2>3
  <2> QED
    BY <1>2, <2>4 DEF Finding
<1> QED
  BY <1>6, <1>7

LEMMA StepIs ==
  ASSUME NEW txt, NEW pattern \in Texts, NEW ind \in Nat, NEW i
  PROVE  Step(txt, pattern, ind, i) \in 0 .. ind + 1
<1>1. Len(pattern) \in Nat
  BY LengthIs
<1> QED
  BY <1>1 DEF Step

LEMMA MatchReads ==
  ASSUME NEW txt \in Texts, Reading(txt), CullMatch
  PROVE  Reading(txt)' /\ (Tidy(txt) /\ Finding(txt) => Finding(txt)')
<1>1. index <= Len(file) /\ Looking /\ ~Ends /\ Put(cut \/ Begins) /\ cullIndex' = cullIndex
  BY DEF CullMatch
<1>2. PICK i, w, v, fl, put, T, n, si, ei :
        i = index /\ w = writeIndex /\ v = Written /\ fl = file /\ put = file' /\ T = Len(txt) /\ T \in Nat /\ n = cullIndex
        /\ si = startInd /\ ei = endInd
  BY LengthIs
<1>3. /\ i \in 1 .. T /\ Byte = txt[i] /\ index' = i + 1 /\ Unread(put, txt, i + 1)
      /\ v \in 0 .. w /\ (~Begins => v = w) /\ (Begins => v = w - Len(Culls[n].start))
      /\ put[v + 1] = txt[i] /\ \A k \in 1 .. v : put[k] = fl[k]
  BY <1>1, <1>2, PutReads
<1>4. /\ n \in 1 .. Len(Culls) /\ cut \in BOOLEAN /\ si \in Nat /\ w \in 0 .. i - 1
      /\ ~cut => si <= w
  <2>1. n \in 1 .. Len(Culls) + 1 /\ n <= Len(Culls) /\ Len(Culls) \in Nat
    BY <1>1, <1>2, CullsAssumption DEF Reading, Looking
  <2> QED
    BY <1>1, <1>2, <2>1 DEF Reading
<1>5. PICK p, q : p = Culls[n].start /\ q = Culls[n].end /\ p \in Texts /\ q \in Texts
  BY <1>4, CullIs
<1>6. /\ startInd' = (IF Begins THEN si ELSE Step(txt, p, si, i))
      /\ endInd' = Step(txt, q, ei, i)
  BY <1>2, <1>3, <1>5 DEF CullMatch, Advance, Step
<1>7. /\ cut' = (cut \/ Begins)
      /\ writeIndex' = IF cut \/ Begins THEN v ELSE v + 1
  BY <1>1, <1>2 DEF Put
<1>8. Looking' /\ i \in 1 .. Len(txt)
  BY <1>1, <1>2, <1>3 DEF Looking
<1>9. Begins => ~cut /\ si = Len(Culls[n].start)
  BY <1>2 DEF Begins
<1>10. Reading(txt)'
  <2>1. index' \in 1 .. Len(txt) + 1 /\ Unread(file', txt, index')
    BY <1>2, <1>3
  <2>2. PICK w2 : w2 = writeIndex'
    OBVIOUS
  <2>3. w2 = v \/ w2 = v + 1
    BY <1>7, <2>2
  <2>4. w2 \in 0 .. (i + 1) - 1
    BY <1>3, <1>4, <2>3
  <2>5. startInd' \in Nat /\ (~cut' => startInd' <= w2)
    <3>1. Step(txt, p, si, i) \in 0 .. si + 1
      BY <1>4, <1>5, StepIs
    <3>2. CASE Begins
      <4>1. startInd' = si /\ cut' = TRUE
        BY <1>6, <1>7, <3>2
      <4> QED
        BY <1>4, <4>1
    <3>3. CASE ~Begins
      <4>1. PICK s2 : s2 = startInd' /\ s2 \in 0 .. si + 1
        BY <1>6, <3>1, <3>3
      <4>2. ASSUME ~cut' PROVE s2 <= w2
        <5>1. ~cut /\ w2 = w + 1
          BY <1>3, <1>7, <2>2, <3>3, <4>2
        <5>2. si <= w
          BY <1>4, <5>1
        <5> QED
          BY ONLY <1>3, <1>4, <4>1, <5>1, <5>2
      <4> QED
        BY <1>4, <4>1, <4>2
    <3> QED
      BY <3>2, <3>3
  <2>6. cullIndex' \in 1 .. Len(Culls) + 1
    BY <1>1 DEF Reading
  <2>7. cut' \in BOOLEAN
    BY <1>7
  <2> QED
    BY <1>3, <1>8, <2>1, <2>2, <2>4, <2>5, <2>6, <2>7 DEF Reading
<1>11. ASSUME Tidy(txt), Finding(txt) PROVE Finding(txt)'
  <2>1. CASE Begins
    <3>1. Before(txt, fl, w, n, Len(Culls[n].start), ei, i)
      BY <1>1, <1>2, <1>9, <1>11, <2>1 DEF Finding
    <3>2. v = w - Len(Culls[n].start)
      BY <1>3, <2>1
    <3>3. Within(txt, put, v, n, Step(txt, Culls[n].end, ei, i), i + 1)
      BY <1>3, <1>4, <1>8, <1>11, <3>1, <3>2, BeforeWithin
    <3>4. Within(txt, file', writeIndex', cullIndex', endInd', index')
      BY <1>1, <1>2, <1>3, <1>5, <1>6, <1>7, <2>1, <3>3
    <3> QED
      BY <1>7, <1>8, <2>1, <3>4 DEF Finding
  <2>2. CASE ~Begins /\ ~cut
    <3>1. Before(txt, fl, w, n, si, ei, i) /\ si # Len(Culls[n].start)
      BY <1>1, <1>2, <1>11, <2>2 DEF Finding, Begins
    <3>2. v = w
      BY <1>3, <2>2
    <3>3. put[w + 1] = txt[i] /\ \A k \in 1 .. w : put[k] = fl[k]
      BY <1>3, <3>2
    <3>4. Before(txt, put, w + 1, n, Step(txt, Culls[n].start, si, i), Step(txt, Culls[n].end, ei, i), i + 1)
      BY <1>4, <1>8, <1>11, <3>1, <3>3, BeforeNext
    <3>5. writeIndex' = w + 1 /\ startInd' = Step(txt, Culls[n].start, si, i) /\ endInd' = Step(txt, Culls[n].end, ei, i)
      BY <1>5, <1>6, <1>7, <2>2, <3>2
    <3>6. Before(txt, file', writeIndex', cullIndex', startInd', endInd', index')
      BY <1>1, <1>2, <1>3, <3>4, <3>5
    <3> QED
      BY <1>7, <1>8, <2>2, <3>6 DEF Finding
  <2>3. CASE ~Begins /\ cut
    <3>1. Within(txt, fl, w, n, ei, i) /\ ei # Len(Culls[n].end)
      BY <1>1, <1>2, <1>11, <2>3 DEF Finding, Ends
    <3>2. v = w
      BY <1>3, <2>3
    <3>3. \A k \in 1 .. w : put[k] = fl[k]
      BY <1>3, <3>2
    <3>4. Within(txt, put, w, n, Step(txt, Culls[n].end, ei, i), i + 1)
      BY <1>4, <1>8, <1>11, <3>1, <3>3, WithinNext
    <3>5. writeIndex' = w /\ endInd' = Step(txt, Culls[n].end, ei, i)
      BY <1>5, <1>6, <1>7, <2>3, <3>2
    <3>6. Within(txt, file', writeIndex', cullIndex', endInd', index')
      BY <1>1, <1>2, <1>3, <3>4, <3>5
    <3> QED
      BY <1>7, <1>8, <2>3, <3>6 DEF Finding
  <2> QED
    BY <2>1, <2>2, <2>3
<1> QED
  BY <1>10, <1>11

LEMMA ResumeReads ==
  ASSUME NEW txt \in Texts, Reading(txt), CullResume
  PROVE  Reading(txt)' /\ (Tidy(txt) /\ Finding(txt) => Finding(txt)')
<1>1. index <= Len(file) /\ Ends /\ Looking /\ Put(FALSE) /\ cullIndex' = cullIndex + 1
  BY DEF CullResume, Ends
<1>2. PICK i, w, v, fl, put, T, n, m :
        i = index /\ w = writeIndex /\ v = Written /\ fl = file /\ put = file' /\ T = Len(txt) /\ T \in Nat /\ n = cullIndex
        /\ m = cullIndex + 1
  BY LengthIs
<1>3. /\ i \in 1 .. T /\ Byte = txt[i] /\ index' = i + 1 /\ Unread(put, txt, i + 1)
      /\ v \in 0 .. w /\ (~Begins => v = w)
      /\ put[v + 1] = txt[i] /\ \A k \in 1 .. v : put[k] = fl[k]
  BY <1>1, <1>2, PutReads
<1>4. n \in 1 .. Len(Culls) /\ w \in 0 .. i - 1 /\ Len(Culls) \in Nat /\ m = n + 1
  <2>1. n \in 1 .. Len(Culls) + 1 /\ n <= Len(Culls) /\ Len(Culls) \in Nat
    BY <1>1, <1>2, CullsAssumption DEF Reading, Looking
  <2> QED
    BY <1>1, <1>2, <2>1 DEF Reading
<1>5. cut' = FALSE /\ writeIndex' = v + 1 /\ cullIndex' = m /\ i \in 1 .. Len(txt)
  BY <1>1, <1>2, <1>3 DEF Put
<1>6. Looking' <=> m <= Len(Culls)
  BY <1>5 DEF Looking
<1>7. m <= Len(Culls) => startInd' = Step(txt, Culls[m].start, 0, i) /\ endInd' = Step(txt, Culls[m].end, 0, i)
  <2> SUFFICES ASSUME m <= Len(Culls) PROVE startInd' = Step(txt, Culls[m].start, 0, i) /\ endInd' = Step(txt, Culls[m].end, 0, i)
    OBVIOUS
  <2>1. cullIndex < Len(Culls)
    BY <1>2, <1>4
  <2>2. startInd' = Advance(Culls[m].start, 0) /\ endInd' = Advance(Culls[m].end, 0)
    BY <1>2, <2>1 DEF CullResume
  <2> QED
    BY <1>2, <1>3, <2>2 DEF Advance, Step
<1>8. Reading(txt)'
  <2>1. index' \in 1 .. Len(txt) + 1 /\ Unread(file', txt, index')
    BY <1>2, <1>3
  <2>2. writeIndex' \in 0 .. index' - 1
    BY <1>3, <1>4, <1>5
  <2>3. m \in 1 .. Len(Culls) + 1
    BY <1>4
  <2>4. m <= Len(Culls) => startInd' \in Nat /\ startInd' <= writeIndex'
    <3> SUFFICES ASSUME m <= Len(Culls) PROVE startInd' \in Nat /\ startInd' <= v + 1
      BY <1>5
    <3>1. m \in 1 .. Len(Culls)
      BY <1>4
    <3>2. startInd' \in 0 .. 0 + 1
      BY <1>7, <3>1, CullIs, StepIs
    <3> QED
      BY <1>3, <3>2
  <2> QED
    BY <1>5, <1>6, <2>1, <2>2, <2>3, <2>4 DEF Reading
<1>9. ASSUME Tidy(txt), Finding(txt) PROVE Finding(txt)'
  <2>1. ~Begins /\ cut
    <3> SUFFICES ASSUME ~cut \/ Begins PROVE FALSE
      OBVIOUS
    <3>1. Begins /\ endInd = Len(Culls[n].end) /\ ~cut /\ startInd = Len(Culls[n].start)
      BY <1>1, <1>2 DEF Ends, Begins
    <3>2. Before(txt, fl, w, n, Len(Culls[n].start), Len(Culls[n].end), i)
      BY <1>1, <1>2, <1>9, <3>1 DEF Finding
    <3>3. PICK u, x : u = w - Len(Culls[n].start) /\ x = fl
      OBVIOUS
    <3>4. \A k \in 1 .. u : x[k] = fl[k]
      BY <3>3
    <3> QED
      BY <1>4, <1>5, <1>9, <3>2, <3>3, <3>4, BeforeWithin
  <2>2. Within(txt, fl, w, n, Len(Culls[n].end), i)
    BY <1>1, <1>2, <1>9, <2>1 DEF Finding, Ends
  <2>3. put[w + 1] = txt[i] /\ (\A k \in 1 .. w : put[k] = fl[k]) /\ writeIndex' = w + 1
    BY <1>3, <1>5, <2>1
  <2>4. fl \in Texts /\ w \in 0 .. Len(fl)
    <3>1. fl \in Texts /\ Len(fl) = T
      BY <1>2 DEF Reading, Unread
    <3> QED
      BY <1>3, <1>4, <3>1
  <2>5. CASE m <= Len(Culls)
    <3>1. n + 1 <= Len(Culls)
      BY <1>4, <2>5
    <3>2. Before(txt, put, w + 1, n + 1, Step(txt, Culls[n + 1].start, 0, i), Step(txt, Culls[n + 1].end, 0, i), i + 1)
      BY <1>4, <1>5, <1>9, <2>2, <2>3, <2>4, <3>1, WithinBefore
    <3>3. Before(txt, put, w + 1, m, Step(txt, Culls[m].start, 0, i), Step(txt, Culls[m].end, 0, i), i + 1)
      BY <1>4, <3>2
    <3>4. Before(txt, file', writeIndex', cullIndex', startInd', endInd', index')
      BY <1>2, <1>3, <1>5, <1>7, <2>3, <2>5, <3>3
    <3> QED
      BY <1>5, <1>6, <2>5, <3>4 DEF Finding
  <2>6. CASE ~(m <= Len(Culls))
    <3>1. n + 1 = Len(Culls) + 1
      BY <1>4, <2>6
    <3>2. Beyond(txt, put, w + 1, i + 1)
      BY <1>4, <1>5, <1>9, <2>2, <2>3, <2>4, <3>1, WithinBeyond
    <3>3. Beyond(txt, file', writeIndex', index')
      BY <1>2, <1>3, <2>3, <3>2
    <3> QED
      BY <1>6, <2>6, <3>3 DEF Finding
  <2> QED
    BY <2>5, <2>6
<1> QED
  BY <1>8, <1>9

-----------------------------------------------------------------------------
(* What the loops of assemble(), extract() and hydrate() work with.         *)

LEMMA AppendIs ==
  ASSUME NEW S, NEW s \in Seq(S), NEW x \in S
  PROVE  Append(s, x) \in Seq(S) /\ Len(Append(s, x)) = Len(s) + 1
  OBVIOUS

LEMMA AppendText ==
  ASSUME NEW txt \in Texts, NEW x \in STRING
  PROVE  Append(txt, x) \in Texts
<1>1. PICK S : S = STRING
  OBVIOUS
<1>2. txt \in Seq(S) /\ x \in S
  BY <1>1 DEF Texts
<1>3. Append(txt, x) \in Seq(S)
  BY ONLY <1>2, AppendIs
<1> QED
  BY <1>1, <1>3 DEF Texts

LEMMA ConcatText ==
  ASSUME NEW a \in Texts, NEW b \in Texts
  PROVE  a \o b \in Texts
  BY ConcatIs DEF Texts

LEMMA LetterIs ==
  ASSUME NEW txt \in Texts, NEW i \in Nat \ {0}, i <= Len(txt)
  PROVE  txt[i] \in STRING
<1>1. i \in 1 .. Len(txt)
  BY LengthIs
<1> QED
  BY <1>1, ElementIs DEF Texts

(* The next place of a letter is behind the last one of the file at most.   *)
LEMMA NextPlaceIs ==
  ASSUME file \in Texts, NEW letter, NEW i \in 1 .. Len(file) + 1
  PROVE  NextPlaceOf(letter, i) \in i .. Len(file) + 1
<1>1. PICK fl, T : fl = file /\ T = Len(file) /\ T \in Nat
  BY LengthIs
<1>2. i \in 1 .. T + 1
  BY <1>1
<1> DEFINE places == {j \in i .. T + 1 : j = T + 1 \/ fl[j] = letter}
<1>3. places # {} /\ places \subseteq Nat
  BY <1>1, <1>2
<1>4. PICK j \in places : \A k \in places : j <= k
  BY <1>3, LeastNumber
<1>5. j \in i .. T + 1 /\ (j = T + 1 \/ fl[j] = letter)
  OBVIOUS
<1>6. \A k \in i .. j - 1 : fl[k] # letter
  <2> SUFFICES ASSUME NEW k \in i .. j - 1, fl[k] = letter PROVE FALSE
    OBVIOUS
  <2>1. k \in i .. T + 1 /\ ~(j <= k)
    BY <1>1, <1>2, <1>5
  <2>2. k \in places
    BY <2>1
  <2> QED
    BY <1>4, <2>1, <2>2
<1> HIDE DEF places
<1> DEFINE P(x) == /\ x = T + 1 \/ fl[x] = letter
                   /\ \A k \in i .. x - 1 : fl[k] # letter
<1>7. \E x \in i .. T + 1 : P(x)
  BY <1>5, <1>6
<1>8. NextPlaceOf(letter, i) = CHOOSE x \in i .. T + 1 : P(x)
  BY <1>1 DEF NextPlaceOf
<1>9. NextPlaceOf(letter, i) \in i .. T + 1
  <2> HIDE DEF P
  <2> QED
    BY <1>7, <1>8, Zenon
<1> QED
  BY <1>1, <1>9

LEMMA PrefixOfText ==
  ASSUME NEW txt \in Texts, NEW a \in Nat \ {0}, NEW b \in 0 .. Len(txt), a <= b + 1
  PROVE  SubSeq(txt, a, b) \in Texts
  BY SubSeqIs DEF Texts

LEMMA WithoutTagIs ==
  ASSUME assembled \in Texts
  PROVE  WithoutTag \in Texts
<1> DEFINE opens == {i \in 1 .. Len(assembled) : assembled[i] = "<"}
           P(x) == \A j \in opens : j <= x
<1>1. PICK T : T = Len(assembled) /\ T \in Nat
  BY LengthIs
<1>2. CASE stale
  BY <1>2 DEF WithoutTag
<1>3. CASE opens = {}
  <2>1. <<>> \in Texts
    BY DEF Texts
  <2> QED
    BY <1>3, <2>1 DEF WithoutTag
<1>4. CASE ~stale /\ opens # {}
  <2> DEFINE far == {T - i : i \in opens}
  <2>1. far # {} /\ far \subseteq Nat
    BY <1>1, <1>4
  <2>2. PICK d \in far : \A e \in far : d <= e
    BY <2>1, LeastNumber
  <2>3. PICK x \in opens : d = T - x
    OBVIOUS
  <2>4. P(x)
    <3> SUFFICES ASSUME NEW j \in opens PROVE j <= x
      OBVIOUS
    <3>1. T - j \in far /\ j \in 1 .. T /\ x \in 1 .. T
      BY <1>1
    <3>2. T - x <= T - j
      BY <2>2, <2>3, <3>1
    <3> QED
      BY <1>1, <3>1, <3>2
  <2>5. PICK last : last = CHOOSE i \in opens : P(i)
    OBVIOUS
  <2>6. last \in opens
    <3> HIDE DEF opens, P
    <3> QED
      BY <2>4, <2>5, Zenon
  <2>7. last \in 1 .. T
    BY <1>1, <2>6
  <2>8. last - 1 \in 0 .. Len(assembled) /\ 1 \in Nat \ {0} /\ 1 <= (last - 1) + 1
    BY <1>1, <2>7
  <2>9. SubSeq(assembled, 1, last - 1) \in Texts
    BY <2>8, PrefixOfText
  <2>10. WithoutTag = SubSeq(assembled, 1, last - 1)
    BY <1>4, <2>5 DEF WithoutTag
  <2> QED
    BY <2>9, <2>10
<1> QED
  BY <1>2, <1>3, <1>4

LEMMA NamesAre ==
  ASSUME NEW txt \in Texts
  PROVE  Prefix(txt) \in Texts /\ Name(txt) \in Texts
<1> DEFINE P(x) == \A j \in Colons(txt) : x <= j
<1>1. PICK T : T = Len(txt) /\ T \in Nat /\ Colons(txt) \subseteq 1 .. T
  <2>1. DOMAIN txt = 1 .. Len(txt)
    BY DEF Texts
  <2> QED
    BY <2>1, LengthIs DEF Colons
<1>2. CASE Colons(txt) = {}
  <2>1. <<>> \in Texts
    BY DEF Texts
  <2> QED
    BY <1>2, <2>1 DEF Prefix, Name
<1>3. CASE Colons(txt) # {}
  <2>1. Colons(txt) \subseteq Nat
    BY <1>1
  <2>2. \E x \in Colons(txt) : P(x)
    BY <1>3, <2>1, LeastNumber
  <2>3. PICK c : c = Colon(txt)
    OBVIOUS
  <2>4. c \in Colons(txt)
    <3>1. c = CHOOSE x \in Colons(txt) : P(x)
      BY <2>3 DEF Colon
    <3> HIDE DEF P
    <3> QED
      BY <2>2, <3>1, Zenon
  <2>5. c \in 1 .. T
    BY <1>1, <2>4
  <2>6. /\ 1 \in Nat \ {0} /\ c - 1 \in 0 .. Len(txt) /\ 1 <= (c - 1) + 1
        /\ c + 1 \in Nat \ {0} /\ Len(txt) \in 0 .. Len(txt) /\ c + 1 <= Len(txt) + 1
    BY <1>1, <2>5
  <2>7. SubSeq(txt, 1, c - 1) \in Texts /\ SubSeq(txt, c + 1, Len(txt)) \in Texts
    BY <2>6, PrefixOfText
  <2> QED
    BY <1>3, <2>3, <2>7 DEF Prefix, Name
<1> QED
  BY <1>2, <1>3

-----------------------------------------------------------------------------
(* The inductive invariant.                                                 *)

Loops == {"cull", "assemble", "imports", "body", "tags", "script", "hydrate", "done", "failed"}
Rules == [pfx : Texts, cls : Texts]
Buffers == [rules : Seq(Rules), len : Nat]

RequestInv == page \in Pages /\ guest \in BOOLEAN /\ tries \in 0 .. MaxTries

TextInv ==
  /\ pc \in Loops /\ file \in Texts /\ index \in Nat \ {0}
  /\ tag \in BOOLEAN /\ quote \in BOOLEAN

AssembleInv == assembled \in Texts /\ allocated \in Nat

ClassInv ==
  /\ class \in BOOLEAN /\ current \in Texts
  /\ classes \in Seq(Texts) /\ Len(classes) < MaxClasses

(* A rule takes at least a byte, and no more than the longest.              *)
Filling(buffer) == buffer.len < Room + Longest /\ (buffer.len = 0 <=> buffer.rules = <<>>)

RulesInv ==
  /\ buffers \in [DOMAIN Tag -> Buffers]
  /\ \A b \in DOMAIN Tag : Filling(buffers[b])

CountsInv == writeIndex \in Nat /\ cullIndex \in 1 .. Len(Culls) + 1 /\ frags \in 0 .. Len(Culls)

(* While a text is culled, and just behind it.                              *)
CullInv ==
  /\ pc = "cull" => tries = 0 /\ Reading(Source(page)) /\ (Tidy(Source(page)) => Finding(Source(page)))
  /\ Culled /\ Tidy(Source(page)) => file = CulledText(Source(page))

PageInv ==
  RequestInv /\ TextInv /\ AssembleInv /\ ClassInv /\ RulesInv /\ CountsInv /\ CullInv

(* Once the text is culled, the page is not what the culling leaves again.  *)
LEMMA NotCulled ==
  ASSUME pc' # "cull", ~Culled'
  PROVE  CullInv'
  BY DEF CullInv

LEMMA ListLength == Len(Culls) \in Nat
  BY CullsAssumption

LEMMA EmptyIs == Empty \in Buffers /\ Filling(Empty) /\ Empty.len = 0 /\ Empty.rules = <<>>
<1>1. 0 < Room + Longest
  BY TransformsAssumption
<1> QED
  BY <1>1 DEF Empty, Buffers, Filling

LEMMA Begun ==
  ASSUME Init
  PROVE  PageInv
<1>1. PICK txt : txt = Source(page) /\ txt \in Texts
  BY SourceIsText DEF Init
<1>2. PICK T, L : T = Len(txt) /\ T \in Nat /\ L = Len(Culls) /\ L \in Nat
  BY <1>1, LengthIs, ListLength
<1>3. /\ file = txt /\ index = 1 /\ writeIndex = 0 /\ cut = FALSE /\ cullIndex = 1 /\ startInd = 0 /\ endInd = 0
      /\ frags = 0 /\ tries = 0
  BY <1>1 DEF Init, CullInit
<1>4. RequestInv
  BY <1>3, TransformsAssumption DEF Init, RequestInv
<1>5. TextInv
  <2>1. pc \in Loops
    BY DEF Init, Loops
  <2>2. tag = FALSE /\ quote = FALSE
    BY DEF Init
  <2>3. file \in Texts /\ index \in Nat \ {0}
    BY <1>1, <1>3
  <2> QED
    BY <2>1, <2>2, <2>3 DEF TextInv
<1>6. AssembleInv
  BY DEF Init, AssembleInv, Texts
<1>7. ClassInv
  <2>1. classes = <<>> /\ current = <<>> /\ class = FALSE
    BY DEF Init, HydrateInit
  <2>2. Len(<<>>) < MaxClasses
    BY TransformsAssumption
  <2>3. <<>> \in Texts /\ <<>> \in Seq(Texts)
    BY DEF Texts
  <2> QED
    BY <2>1, <2>2, <2>3 DEF ClassInv
<1>8. RulesInv
  <2>1. buffers = [b \in DOMAIN Tag |-> Empty]
    BY DEF Init, HydrateInit
  <2> QED
    BY <2>1, EmptyIs DEF RulesInv
<1>9. CountsInv
  BY <1>2, <1>3 DEF CountsInv
<1>10. CullInv
  <2>1. Reading(txt)
    <3>1. Unread(file, txt, index)
      BY <1>1, <1>3 DEF Unread
    <3>2. 1 \in 1 .. Len(txt) + 1 /\ 0 \in 0 .. 1 - 1 /\ 1 \in 1 .. Len(Culls) + 1
      BY <1>2
    <3>3. /\ index \in 1 .. Len(txt) + 1 /\ writeIndex \in 0 .. index - 1 /\ cullIndex \in 1 .. Len(Culls) + 1
          /\ cut = FALSE /\ startInd \in Nat /\ startInd <= writeIndex
      BY <1>3, <3>2
    <3> QED
      BY <3>1, <3>3 DEF Reading
  <2>2. Finding(txt)
    <3>1. From(txt, 1) = 1 /\ KeptAt(txt, 1) = <<>>
      <4>1. Scan(txt)[1 - 1] = [kept |-> <<>>, from |-> 1]
        BY <1>1, ScanIs
      <4> QED
        BY <4>1 DEF From, KeptAt
    <3>2. Filled(file, 0, <<>>, txt, 1, 1)
      BY DEF Filled
    <3>3. CASE L = 0
      <4>1. ~Looking
        BY <1>2, <1>3, <3>3 DEF Looking
      <4>2. Beyond(txt, file, 0, 1)
        BY <1>2, <3>1, <3>2, <3>3 DEF Beyond
      <4> QED
        BY <1>3, <4>1, <4>2 DEF Finding
    <3>4. CASE L # 0
      <4>1. 1 \in 1 .. Len(Culls)
        BY <1>2, <3>4
      <4>2. Matched(txt, Culls[1].start, 0, 1, 1) /\ Matched(txt, Culls[1].end, 0, 1, 1)
        BY <4>1, CullIs DEF Matched
      <4>3. Follows(txt, Culls[1].start, BeginOf(txt, 1), 0, 1)
        <5>1. PICK s, ls : s = BeginOf(txt, 1) /\ ls = Len(Culls[1].start)
          OBVIOUS
        <5>2. s \in 1 .. T + 1 /\ ls \in Nat \ {0}
          BY <1>1, <1>2, <4>1, <5>1, PlacesAre, CullIs
        <5>3. 1 <= s + ls /\ (s <= 1 => 0 = 1 - s)
          BY <1>2, <5>2
        <5> QED
          BY <5>1, <5>3 DEF Follows
      <4>4. Before(txt, file, 0, 1, 0, 0, 1)
        BY <3>1, <3>2, <4>2, <4>3 DEF Before
      <4>5. Looking
        BY <1>2, <1>3, <3>4 DEF Looking
      <4> QED
        BY <1>3, <4>4, <4>5 DEF Finding
    <3> QED
      BY <3>3, <3>4
  <2>3. ~Culled
    BY DEF Init, Culled
  <2> QED
    BY <1>1, <1>3, <2>1, <2>2, <2>3 DEF CullInv
<1> QED
  BY <1>4, <1>5, <1>6, <1>7, <1>8, <1>9, <1>10 DEF PageInv

LEMMA CullStepInv ==
  ASSUME PageInv, CullStep
  PROVE  PageInv'
<1>1. PICK txt : txt = Source(page) /\ txt \in Texts
  BY SourceIsText DEF PageInv, RequestInv
<1>2. page' = page /\ guest' = guest /\ tries' = tries /\ UNCHANGED <<assembled, allocated, classes, current, class, buffers>>
  BY DEF CullStep, requestVars, assembleVars, hydrateVars
<1>3. CullNext
  BY DEF CullStep
<1>4. pc = "cull"
  BY <1>3 DEF CullNext, CullCopy, CullMatch, CullResume, CullEnd
<1>5. Reading(txt) /\ (Tidy(txt) => Finding(txt)) /\ tries = 0
  BY <1>1, <1>4 DEF PageInv, CullInv
<1>6. RequestInv' /\ AssembleInv' /\ ClassInv' /\ RulesInv'
  BY <1>2 DEF PageInv, RequestInv, AssembleInv, ClassInv, RulesInv
<1>7. CASE CullCopy \/ CullMatch \/ CullResume
  <2>1. pc' = pc /\ tag' = tag /\ quote' = quote /\ frags' = frags
    BY <1>7 DEF CullCopy, CullMatch, CullResume
  <2>2. Reading(txt)' /\ (Tidy(txt) => Finding(txt)')
    BY <1>1, <1>5, <1>7, CopyReads, MatchReads, ResumeReads
  <2>3. file' \in Texts /\ index' \in Nat \ {0} /\ writeIndex' \in Nat /\ cullIndex' \in 1 .. Len(Culls) + 1
    <3>1. /\ file' \in Texts /\ index' \in 1 .. Len(txt) + 1 /\ writeIndex' \in 0 .. index' - 1
          /\ cullIndex' \in 1 .. Len(Culls) + 1
      BY <2>2 DEF Reading, Unread
    <3>2. Len(txt) \in Nat
      BY <1>1, LengthIs
    <3> QED
      BY <3>1, <3>2
  <2>4. TextInv' /\ CountsInv'
    BY <2>1, <2>3 DEF PageInv, TextInv, CountsInv
  <2>5. ~Culled'
    BY <1>4, <2>1 DEF Culled
  <2>6. CullInv'
    <3>1. Source(page)' = txt
      BY <1>1, <1>2
    <3> QED
      BY <1>2, <1>5, <2>2, <2>5, <3>1 DEF CullInv
  <2> QED
    BY <1>6, <2>4, <2>6 DEF PageInv
<1>8. CASE CullEnd
  <2>1. /\ index > Len(file) /\ file' = SubSeq(file, 1, writeIndex) /\ frags' = Len(Culls) + 1 - cullIndex
        /\ pc' = "assemble" /\ index' = 1 /\ tag' = FALSE /\ quote' = FALSE
        /\ writeIndex' = writeIndex /\ cullIndex' = cullIndex
    BY <1>8 DEF CullEnd, Start
  <2>2. PICK T, fl, w, L : T = Len(txt) /\ T \in Nat /\ fl = file /\ w = writeIndex /\ L = Len(Culls) /\ L \in Nat
    BY <1>1, LengthIs, ListLength
  <2>3. fl \in Texts /\ Len(fl) = T /\ index = T + 1 /\ w \in 0 .. Len(fl)
    <3>1. file \in Texts /\ Len(file) = T /\ index \in 1 .. T + 1 /\ writeIndex \in 0 .. index - 1
      BY <1>5, <2>2 DEF Reading, Unread
    <3>2. index = T + 1
      BY <2>1, <2>2, <3>1
    <3> QED
      BY <2>2, <3>1, <3>2
  <2>4. SubSeq(fl, 1, w) \in Texts
    <3>1. 1 \in Nat \ {0} /\ 1 <= w + 1
      BY <2>2, <2>3
    <3> QED
      BY <2>3, <3>1, PrefixOfText
  <2>5. frags' \in 0 .. Len(Culls)
    <3>1. cullIndex \in 1 .. L + 1
      BY <2>2 DEF PageInv, CountsInv
    <3> QED
      BY <2>1, <2>2, <3>1
  <2>6. TextInv' /\ CountsInv'
    <3>1. pc' \in Loops
      BY <2>1 DEF Loops
    <3>a. file' = SubSeq(fl, 1, w)
      BY <2>1, <2>2
    <3>b. file' \in Texts
      BY <2>4, <3>a
    <3>c. tag' \in BOOLEAN /\ quote' \in BOOLEAN
      BY <2>1, Zenon
    <3>d. index' \in Nat \ {0}
      BY <2>1
    <3>2. file' \in Texts /\ index' \in Nat \ {0} /\ tag' \in BOOLEAN /\ quote' \in BOOLEAN
      BY <3>b, <3>c, <3>d
    <3>3. writeIndex' \in Nat /\ cullIndex' \in 1 .. Len(Culls) + 1
      BY <2>1 DEF PageInv, CountsInv
    <3> QED
      BY <2>5, <3>1, <3>2, <3>3 DEF TextInv, CountsInv
  <2>7. ASSUME Tidy(txt) PROVE file' = CulledText(txt)
    <3>1. PICK n, si, ei : n = cullIndex /\ si = startInd /\ ei = endInd /\ n \in 1 .. L + 1
      BY <2>2 DEF PageInv, CountsInv
    <3>2. index = Len(txt) + 1
      BY <2>2, <2>3
    <3>3. CASE ~Looking
      <4>1. Beyond(txt, fl, w, Len(txt) + 1)
        BY <1>5, <2>2, <2>7, <3>2, <3>3 DEF Finding
      <4> QED
        BY <1>1, <2>1, <2>2, <2>3, <4>1, BeyondEnd
    <3>4. CASE Looking /\ ~cut
      <4>1. Before(txt, fl, w, n, si, ei, Len(txt) + 1)
        BY <1>5, <2>2, <2>7, <3>1, <3>2, <3>4 DEF Finding
      <4>2. n \in 1 .. Len(Culls)
        BY <2>2, <3>1, <3>4 DEF Looking
      <4> QED
        BY <1>1, <2>1, <2>2, <2>3, <4>1, <4>2, BeforeEnd
    <3>5. CASE Looking /\ cut
      <4>1. Within(txt, fl, w, n, ei, Len(txt) + 1)
        BY <1>5, <2>2, <2>7, <3>1, <3>2, <3>5 DEF Finding
      <4>2. n \in 1 .. Len(Culls)
        BY <2>2, <3>1, <3>5 DEF Looking
      <4> QED
        BY <1>1, <2>1, <2>2, <2>3, <4>1, <4>2, WithinEnd
    <3> QED
      BY <3>3, <3>4, <3>5
  <2>8. CullInv'
    <3>1. Source(page)' = txt
      BY <1>1, <1>2
    <3> QED
      BY <2>1, <2>7, <3>1 DEF CullInv
  <2> QED
    BY <1>6, <2>6, <2>8 DEF PageInv
<1> QED
  BY <1>3, <1>7, <1>8 DEF CullNext

(* What is spilled behind the memory of a text is some letter.              *)
LEMMA SpilledText ==
  ASSUME NEW txt \in Texts
  PROVE  Spilled(txt) \in Texts
<1>1. PICK n : n = Len(txt) /\ n \in Nat
  BY LengthIs
<1>2. DOMAIN txt = 1 .. n /\ \A i \in 1 .. n : txt[i] \in STRING
  BY <1>1 DEF Texts
<1>3. \A i \in 1 .. n : (IF i <= allocated THEN txt[i] ELSE Garbage) \in STRING
  BY <1>2, TransformsAssumption
<1>4. Spilled(txt) \in [1 .. n -> STRING]
  BY <1>2, <1>3 DEF Spilled
<1> QED
  BY <1>1, <1>4 DEF Texts

LEMMA CopyByteIs ==
  ASSUME file \in Texts, assembled \in Texts, allocated \in Nat, index \in Nat \ {0}, index <= Len(file), CopyByte
  PROVE  index' = index + 1 /\ assembled' \in Texts /\ allocated' \in Nat
<1>1. Byte \in STRING
  BY LetterIs DEF Byte
<1>2. assembled' \in Texts
  BY <1>1, AppendText DEF CopyByte
<1>3. allocated' \in Nat
  BY TransformsAssumption DEF CopyByte
<1> QED
  BY <1>2, <1>3 DEF CopyByte

LEMMA AssembleStepInv ==
  ASSUME PageInv, AssembleStep
  PROVE  PageInv'
<1>1. /\ page' = page /\ guest' = guest /\ tries' = tries /\ UNCHANGED cullVars
      /\ UNCHANGED <<classes, current, class, buffers>> /\ AssembleNext
  BY DEF AssembleStep, hydrateVars
<1>2. RequestInv' /\ ClassInv' /\ RulesInv' /\ CountsInv'
  BY <1>1 DEF PageInv, RequestInv, ClassInv, RulesInv, CountsInv, cullVars
<1>3. /\ file \in Texts /\ assembled \in Texts /\ index \in Nat \ {0} /\ tag \in BOOLEAN /\ quote \in BOOLEAN
      /\ pc \in Loops /\ allocated \in Nat
  BY DEF PageInv, TextInv, AssembleInv
<1>4. PICK T : T = Len(file) /\ T \in Nat
  BY <1>3, LengthIs
<1>5. TagAfter \in BOOLEAN /\ QuoteAfter \in BOOLEAN
  BY <1>3 DEF TagAfter, QuoteAfter
<1>6. SUFFICES TextInv' /\ AssembleInv' /\ CullInv'
  BY <1>2 DEF PageInv
<1>7. ASSUME index <= Len(file), index' = index + 1, pc' = pc, pc \in {"assemble", "imports"}, file' = file,
             tag' \in BOOLEAN, quote' \in BOOLEAN, assembled' \in Texts, allocated' \in Nat
      PROVE  TextInv' /\ AssembleInv' /\ CullInv'
  <2>1. index' \in Nat \ {0} /\ index' # 1
    BY <1>3, <1>7
  <2>2. pc' # "cull" /\ ~Culled'
    BY <1>7, <2>1 DEF Culled
  <2> QED
    BY <1>3, <1>7, <2>1, <2>2, NotCulled DEF TextInv, AssembleInv
<1>8. ASSUME pc' = "failed", UNCHANGED <<file, index, tag, quote, assembled, allocated>>
      PROVE  TextInv' /\ AssembleInv' /\ CullInv'
  <2>1. pc' # "cull" /\ ~Culled' /\ pc' \in Loops
    BY <1>8 DEF Culled, Loops
  <2> QED
    BY <1>3, <1>8, <2>1, NotCulled DEF TextInv, AssembleInv
<1>9. CASE AssembleRef
  <2>1. /\ pc = "assemble" /\ pc' = pc /\ file' = file /\ tag' = TagAfter /\ quote' = QuoteAfter /\ IsRef
        /\ LET start == index + 3
               stop == NextPlaceOf("\"", start)
               path == SubSeq(file, start, stop - 1)
           IN /\ path \in DOMAIN Components
              /\ assembled' = WithoutTag \o Components[path]
              /\ allocated' = allocated + Len(Components[path])
              /\ index' = NextPlaceOf(">", stop) + 1
    BY <1>9 DEF AssembleRef
  <2>a. PICK start : start = index + 3
    OBVIOUS
  <2>2. PICK stop, path : stop = NextPlaceOf("\"", start) /\ path = SubSeq(file, start, stop - 1)
    OBVIOUS
  <2>3. /\ path \in DOMAIN Components /\ assembled' = WithoutTag \o Components[path]
        /\ allocated' = allocated + Len(Components[path]) /\ index' = NextPlaceOf(">", stop) + 1
    BY <2>1, <2>2, <2>a
  <2>4. index + 2 <= T
    <3>1. index + Len(<<"ref=", "\"">>) < Len(file)
      BY <2>1 DEF IsRef, Following
    <3>2. Len(<<"ref=", "\"">>) = 2
      OBVIOUS
    <3> QED
      BY <1>3, <1>4, <3>1, <3>2
  <2>5. start \in 1 .. Len(file) + 1
    <3>1. start \in 1 .. T + 1
      BY <1>3, <1>4, <2>a, <2>4
    <3> QED
      BY <1>4, <3>1
  <2>6. stop \in start .. T + 1
    BY <1>3, <1>4, <2>2, <2>5, NextPlaceIs
  <2>7. stop \in 1 .. Len(file) + 1
    BY <1>4, <2>5, <2>6
  <2>8. PICK close : close = NextPlaceOf(">", stop) /\ close \in stop .. T + 1
    BY <1>3, <1>4, <2>7, NextPlaceIs
  <2>9. index' = close + 1 /\ close \in 1 .. T + 1
    BY <1>4, <2>3, <2>7, <2>8
  <2>10. assembled' \in Texts /\ allocated' \in Nat
    <3>1. Components[path] \in Texts
      BY <2>3, TransformsAssumption DEF Texts
    <3>2. Len(Components[path]) \in Nat
      BY <3>1, LengthIs
    <3>3. allocated' \in Nat
      BY <1>3, <2>3, <3>2
    <3> QED
      BY <1>3, <2>3, <3>1, <3>3, WithoutTagIs, ConcatText
  <2>11. index' \in Nat \ {0} /\ index' # 1
    BY <1>4, <2>9
  <2>12. pc' # "cull" /\ ~Culled'
    BY <2>1, <2>11 DEF Culled
  <2> QED
    BY <1>3, <1>5, <2>1, <2>10, <2>11, <2>12, NotCulled DEF TextInv, AssembleInv
<1>10. CASE AssembleRefFails
  BY <1>8, <1>10 DEF AssembleRefFails, Fail, assembleVars
<1>11. CASE AssembleValue
  <2>1. PICK txt : txt = assembled \o Values[Byte]
    OBVIOUS
  <2>2. /\ index <= Len(file) /\ index' = index + 1 /\ pc' = pc /\ pc = "assemble" /\ file' = file
        /\ tag' = TagAfter /\ quote' = QuoteAfter /\ Byte \in DOMAIN Values /\ allocated' = allocated
        /\ (assembled' = txt \/ assembled' = Spilled(txt))
    BY <1>11, <2>1 DEF AssembleValue, IsValue
  <2>3. Values[Byte] \in Texts
    BY <2>2, TransformsAssumption DEF Texts
  <2>4. txt \in Texts
    BY <1>3, <2>1, <2>3, ConcatText
  <2>5. assembled' \in Texts
    BY <2>2, <2>4, SpilledText
  <2> QED
    BY <1>3, <1>5, <1>7, <2>2, <2>5
<1>12. CASE AssembleCopy
  <2>1. /\ index <= Len(file) /\ pc' = pc /\ pc = "assemble" /\ file' = file
        /\ tag' = TagAfter /\ quote' = QuoteAfter /\ CopyByte
    BY <1>12 DEF AssembleCopy
  <2>2. index' = index + 1 /\ assembled' \in Texts /\ allocated' \in Nat
    BY <1>3, <2>1, CopyByteIs
  <2> QED
    BY <1>5, <1>7, <2>1, <2>2
<1>13. CASE AssembleBodyEnds
  <2>1. pc' = "imports" /\ UNCHANGED <<file, index, tag, quote, assembled, allocated>>
    BY <1>13 DEF AssembleBodyEnds, assembleVars
  <2>2. pc' # "cull" /\ ~Culled' /\ pc' \in Loops
    BY <2>1 DEF Culled, Loops
  <2> QED
    BY <1>3, <2>1, <2>2, NotCulled DEF TextInv, AssembleInv
<1>14. CASE Import
  <2>1. /\ index <= Len(file) /\ IsImport /\ pc = "imports" /\ pc' = pc /\ file' = file /\ tag' = tag /\ quote' = quote
        /\ LET stop == NextPlaceOf("\n", index + 2)
               path == SelectSeq(SubSeq(file, index + 2, stop - 1), Unquoted)
           IN /\ path \in DOMAIN Scripts
              /\ assembled' = assembled \o Scripts[path]
              /\ allocated' = allocated + Len(Scripts[path])
              /\ index' = stop + 1
    BY <1>14 DEF Import
  <2>2. PICK start, stop, path :
          start = index + 2 /\ stop = NextPlaceOf("\n", start) /\ path = SelectSeq(SubSeq(file, start, stop - 1), Unquoted)
    OBVIOUS
  <2>3. /\ path \in DOMAIN Scripts /\ assembled' = assembled \o Scripts[path]
        /\ allocated' = allocated + Len(Scripts[path]) /\ index' = stop + 1
    BY <2>1, <2>2
  <2>4. index + 1 <= T
    <3>1. index + Len(<<"'">>) < Len(file)
      BY <2>1 DEF IsImport, Following
    <3>2. Len(<<"'">>) = 1
      OBVIOUS
    <3> QED
      BY <1>3, <1>4, <3>1, <3>2
  <2>5. start \in 1 .. Len(file) + 1
    <3>1. start \in 1 .. T + 1
      BY <1>3, <1>4, <2>2, <2>4
    <3> QED
      BY <1>4, <3>1
  <2>6. stop \in start .. T + 1
    BY <1>3, <1>4, <2>2, <2>5, NextPlaceIs
  <2>7. index' \in Nat \ {0}
    BY <1>4, <2>3, <2>5, <2>6
  <2>8. assembled' \in Texts /\ allocated' \in Nat
    <3>1. Scripts[path] \in Texts
      BY <2>3, TransformsAssumption DEF Texts
    <3>2. Len(Scripts[path]) \in Nat
      BY <3>1, LengthIs
    <3>3. allocated' \in Nat
      BY <1>3, <2>3, <3>2
    <3> QED
      BY <1>3, <2>3, <3>1, <3>3, ConcatText
  <2>9. pc' # "cull" /\ ~Culled'
    BY <2>1 DEF Culled
  <2> QED
    BY <1>3, <2>1, <2>7, <2>8, <2>9, NotCulled DEF TextInv, AssembleInv
<1>15. CASE ImportFails
  BY <1>8, <1>15 DEF ImportFails, Fail, assembleVars
<1>16. CASE ImportCopy
  <2>1. /\ index <= Len(file) /\ pc' = pc /\ pc = "imports" /\ file' = file
        /\ tag' = tag /\ quote' = quote /\ CopyByte
    BY <1>16 DEF ImportCopy
  <2>2. index' = index + 1 /\ assembled' \in Texts /\ allocated' \in Nat
    BY <1>3, <2>1, CopyByteIs
  <2> QED
    BY <1>3, <1>7, <2>1, <2>2
<1>18. CASE CopyNoMemory
  BY <1>8, <1>18 DEF CopyNoMemory, Fail, assembleVars
<1>17. CASE AssembleEnd
  <2>1. /\ file' = assembled /\ assembled' = <<>> /\ allocated' = 0 /\ pc' = "body" /\ index' = 1
        /\ tag' = FALSE /\ quote' = FALSE
    BY <1>17 DEF AssembleEnd, Start
  <2>2. pc' # "cull" /\ ~Culled' /\ pc' \in Loops /\ <<>> \in Texts
    BY <2>1 DEF Culled, Loops, Texts
  <2>3. file' \in Texts /\ assembled' \in Texts /\ allocated' \in Nat /\ index' \in Nat \ {0} /\ tag' \in BOOLEAN /\ quote' \in BOOLEAN
    <3>1. tag' \in BOOLEAN /\ quote' \in BOOLEAN
      BY <2>1, Zenon
    <3>2. index' \in Nat \ {0} /\ allocated' \in Nat
      BY <2>1
    <3>3. file' \in Texts /\ assembled' \in Texts
      BY <1>3, <2>1, <2>2, Zenon
    <3> QED
      BY <3>1, <3>2, <3>3
  <2> QED
    BY <2>2, <2>3, NotCulled DEF TextInv, AssembleInv
<1> QED
  BY <1>1, <1>9, <1>10, <1>11, <1>12, <1>13, <1>14, <1>15, <1>16, <1>17, <1>18
     DEF AssembleNext

(* append() takes a class only while there is room for one more.            *)
LEMMA TakeClassKeeps ==
  ASSUME current \in Texts, classes \in Seq(Texts), Len(classes) < MaxClasses, ~Full, TakeClass
  PROVE  current' \in Texts /\ classes' \in Seq(Texts) /\ Len(classes') < MaxClasses
<1>1. current' \in Texts
  BY DEF TakeClass, Texts
<1>2. Len(classes) \in Nat /\ MaxClasses \in Nat
  BY TransformsAssumption, ElementIs
<1>3. CASE classes' = classes
  BY <1>1, <1>3
<1>4. CASE classes' = Append(classes, current)
  <2>1. Append(classes, current) \in Seq(Texts) /\ Len(Append(classes, current)) = Len(classes) + 1
    BY AppendIs
  <2>2. Len(classes) + 1 < MaxClasses
    BY <1>2 DEF Full
  <2> QED
    BY <1>1, <1>4, <2>1, <2>2
<1> QED
  BY <1>3, <1>4 DEF TakeClass

LEMMA AppendedIs ==
  ASSUME NEW S, NEW s \in Seq(S), NEW x \in S
  PROVE  /\ Len(s) \in Nat /\ Append(s, x) \in Seq(S) /\ Len(Append(s, x)) = Len(s) + 1
         /\ \A k \in 1 .. Len(s) : Append(s, x)[k] = s[k]
         /\ Append(s, x)[Len(s) + 1] = x
  OBVIOUS

LEMMA RuleLength ==
  ASSUME NEW rule
  PROVE  Length(rule) \in 1 .. Longest /\ Longest \in Nat /\ Room \in Nat
BY TransformsAssumption DEF Length

(* stamp() writes a rule only into a buffer that is filled to less than     *)
(* Room, and then a whole one.                                              *)
LEMMA StampKeeps ==
  ASSUME NEW buffer \in Buffers, Filling(buffer), NEW rule \in Rules
  PROVE  stamp(buffer, rule) \in Buffers /\ Filling(stamp(buffer, rule))
<1>1. CASE buffer.len < Room
  <2>1. buffer.rules \in Seq(Rules) /\ buffer.len \in Nat
    BY DEF Buffers
  <2>2. PICK rs, n : rs = Append(buffer.rules, rule) /\ n = buffer.len + Length(rule)
    OBVIOUS
  <2>3. rs \in Seq(Rules) /\ Len(rs) = Len(buffer.rules) + 1 /\ Len(buffer.rules) \in Nat
    BY <2>1, <2>2, AppendedIs
  <2>4. rs # <<>>
    BY <2>3
  <2>5. n \in Nat /\ n # 0 /\ n < Room + Longest
    BY <1>1, <2>1, <2>2, RuleLength
  <2>6. stamp(buffer, rule) = [rules |-> rs, len |-> n]
    BY <1>1, <2>2 DEF stamp, With
  <2> QED
    BY <2>3, <2>4, <2>5, <2>6 DEF Buffers, Filling
<1>2. CASE ~(buffer.len < Room)
  BY <1>2 DEF stamp
<1> QED
  BY <1>1, <1>2

LEMMA HydrateStepInv ==
  ASSUME PageInv, HydrateStep
  PROVE  PageInv'
<1>1. /\ page' = page /\ guest' = guest /\ tries' = tries /\ UNCHANGED cullVars
      /\ UNCHANGED <<assembled, allocated>> /\ (HydrateNext \/ WriteNoMemory)
  BY DEF HydrateStep, assembleVars
<1>2. RequestInv' /\ AssembleInv' /\ CountsInv'
  BY <1>1 DEF PageInv, RequestInv, AssembleInv, CountsInv, cullVars
<1>3. SUFFICES TextInv' /\ ClassInv' /\ RulesInv' /\ CullInv'
  BY <1>2 DEF PageInv
<1>4. TextInv /\ ClassInv /\ RulesInv
  BY DEF PageInv
<1>5. file \in Texts /\ index \in Nat \ {0} /\ pc \in Loops
  BY <1>4 DEF TextInv
<1>6. index <= Len(file) => Byte \in STRING
  BY <1>5, LetterIs DEF Byte
<1>7. ASSUME file' = file, index' = index + 1 \/ index' = index \/ index' = 1,
             pc' \in Loops \ {"cull", "assemble"}, tag' \in BOOLEAN, quote' \in BOOLEAN
      PROVE  TextInv' /\ CullInv'
  <2>1. index' \in Nat \ {0}
    BY <1>5, <1>7
  <2>2. pc' # "cull" /\ ~Culled'
    BY <1>7 DEF Culled
  <2> QED
    BY <1>5, <1>7, <2>1, <2>2, NotCulled DEF TextInv
<1>8. UNCHANGED buffers => RulesInv'
  BY <1>4 DEF RulesInv
<1>9. Skip => ClassInv'
  BY <1>4 DEF ClassInv, Skip
<1>10. ASSUME ~Full, TakeClass, class' \in BOOLEAN PROVE ClassInv'
  BY <1>4, <1>10, TakeClassKeeps DEF ClassInv
<1>11. CASE FindBody
  <2>1. /\ file' = file /\ index' = index + 1 /\ quote' = quote /\ UNCHANGED buffers /\ Skip
        /\ (tag' = tag \/ tag' = TRUE) /\ pc = "body" /\ (pc' = "tags" \/ pc' = pc)
    BY <1>11 DEF FindBody
  <2>2. pc' \in Loops \ {"cull", "assemble"}
    BY <2>1 DEF Loops
  <2>3. tag' \in BOOLEAN /\ quote' \in BOOLEAN
    BY <1>4, <2>1 DEF TextInv
  <2> QED
    BY <1>7, <1>8, <1>9, <2>1, <2>2, <2>3
<1>12. CASE TagOpens
  <2>1. /\ file' = file /\ index' = index + 1 /\ quote' = quote /\ UNCHANGED buffers /\ Skip
        /\ tag' = TRUE /\ pc = "tags" /\ (pc' = "script" \/ pc' = pc)
    BY <1>12 DEF TagOpens, InTags
  <2>2. pc' \in Loops \ {"cull", "assemble"}
    BY <2>1 DEF Loops
  <2>3. tag' \in BOOLEAN /\ quote' \in BOOLEAN
    BY <1>4, <2>1 DEF TextInv
  <2> QED
    BY <1>7, <1>8, <1>9, <2>1, <2>2, <2>3
<1>13. CASE TagCloses
  <2>1. /\ file' = file /\ index' = index + 1 /\ quote' = quote /\ UNCHANGED buffers /\ Skip
        /\ tag' = FALSE /\ pc = "tags" /\ pc' = pc
    BY <1>13 DEF TagCloses, InTags
  <2>2. pc' \in Loops \ {"cull", "assemble"}
    BY <2>1 DEF Loops
  <2>3. tag' \in BOOLEAN /\ quote' \in BOOLEAN
    BY <1>4, <2>1 DEF TextInv
  <2> QED
    BY <1>7, <1>8, <1>9, <2>1, <2>2, <2>3
<1>14. CASE QuoteOpens
  <2>1. /\ file' = file /\ index' = index + 1 /\ quote' = TRUE /\ UNCHANGED buffers /\ pc = "tags" /\ pc' = pc
        /\ tag' = tag /\ class' = (class \/ AppendAt) /\ (AppendAt => ~Full)
        /\ IF AppendAt THEN TakeClass ELSE UNCHANGED <<classes, current>>
    BY <1>14 DEF QuoteOpens, InTags
  <2>2. pc' \in Loops \ {"cull", "assemble"}
    BY <2>1 DEF Loops
  <2>3. tag' \in BOOLEAN /\ quote' \in BOOLEAN
    BY <1>4, <2>1 DEF TextInv
  <2>4. class' \in BOOLEAN
    BY <2>1
  <2>5. ClassInv'
    <3>1. CASE AppendAt
      BY <1>10, <2>1, <2>4, <3>1
    <3>2. CASE ~AppendAt
      BY <1>4, <2>1, <2>4, <3>2 DEF ClassInv
    <3> QED
      BY <3>1, <3>2
  <2> QED
    BY <1>7, <1>8, <2>1, <2>2, <2>3, <2>5
<1>15. CASE QuoteCloses
  <2>1. /\ file' = file /\ index' = index + 1 /\ quote' = FALSE /\ UNCHANGED buffers /\ pc = "tags" /\ pc' = pc
        /\ tag' = tag /\ class' = FALSE /\ (class => ~Full)
        /\ IF class THEN TakeClass ELSE UNCHANGED <<classes, current>>
    BY <1>15 DEF QuoteCloses, InTags
  <2>2. pc' \in Loops \ {"cull", "assemble"}
    BY <2>1 DEF Loops
  <2>3. tag' \in BOOLEAN /\ quote' \in BOOLEAN
    BY <1>4, <2>1 DEF TextInv
  <2>4. class' \in BOOLEAN
    BY <2>1
  <2>5. ClassInv'
    <3>1. CASE class
      BY <1>10, <2>1, <2>4, <3>1
    <3>2. CASE ~class
      BY <1>4, <2>1, <2>4, <3>2 DEF ClassInv
    <3> QED
      BY <3>1, <3>2
  <2> QED
    BY <1>7, <1>8, <2>1, <2>2, <2>3, <2>5
<1>16. CASE ClassEnds
  <2>1. /\ file' = file /\ index' = index + 1 /\ quote' = quote /\ UNCHANGED buffers /\ pc = "tags" /\ pc' = pc
        /\ tag' = tag /\ class' = class /\ ~Full /\ TakeClass
    BY <1>16 DEF ClassEnds, InTags
  <2>2. pc' \in Loops \ {"cull", "assemble"}
    BY <2>1 DEF Loops
  <2>3. tag' \in BOOLEAN /\ quote' \in BOOLEAN /\ class' \in BOOLEAN
    BY <1>4, <2>1 DEF TextInv, ClassInv
  <2> QED
    BY <1>7, <1>8, <1>10, <2>1, <2>2, <2>3
<1>17. CASE ClassGoesOn
  <2>1. /\ file' = file /\ index' = index + 1 /\ quote' = quote /\ UNCHANGED buffers /\ pc = "tags" /\ pc' = pc
        /\ tag' = tag /\ class' = class /\ classes' = classes /\ current' = Append(current, Byte)
        /\ index <= Len(file)
    BY <1>17 DEF ClassGoesOn, InTags
  <2>2. pc' \in Loops \ {"cull", "assemble"}
    BY <2>1 DEF Loops
  <2>3. tag' \in BOOLEAN /\ quote' \in BOOLEAN
    BY <1>4, <2>1 DEF TextInv
  <2>4. current' \in Texts
    BY <1>4, <1>6, <2>1, AppendText DEF ClassInv
  <2>5. ClassInv'
    BY <1>4, <2>1, <2>4 DEF ClassInv
  <2> QED
    BY <1>7, <1>8, <2>1, <2>2, <2>3, <2>5
<1>18. CASE OtherOfTags
  <2>1. /\ file' = file /\ index' = index + 1 /\ quote' = quote /\ UNCHANGED buffers /\ pc = "tags" /\ pc' = pc
        /\ tag' = tag /\ Skip
    BY <1>18 DEF OtherOfTags, InTags
  <2>2. pc' \in Loops \ {"cull", "assemble"}
    BY <2>1 DEF Loops
  <2>3. tag' \in BOOLEAN /\ quote' \in BOOLEAN
    BY <1>4, <2>1 DEF TextInv
  <2> QED
    BY <1>7, <1>8, <1>9, <2>1, <2>2, <2>3
<1>19. CASE ScriptByte
  <2>1. /\ file' = file /\ index' = index + 1 /\ UNCHANGED buffers /\ pc = "script" /\ pc' = pc
        /\ tag' = ((tag \/ AddOpens) /\ ~AddCloses) /\ quote' = (IF AddQuote THEN ~quote ELSE quote)
        /\ class' = class /\ index <= Len(file) /\ (AddQuote \/ AddComma => ~Full)
        /\ IF AddQuote \/ AddComma THEN TakeClass
           ELSE IF AddGoesOn THEN current' = Append(current, Byte) /\ UNCHANGED classes
           ELSE UNCHANGED <<classes, current>>
    BY <1>19 DEF ScriptByte, InScript
  <2>2. pc' \in Loops \ {"cull", "assemble"}
    BY <2>1 DEF Loops
  <2>3. tag' \in BOOLEAN /\ quote' \in BOOLEAN /\ class' \in BOOLEAN
    BY <1>4, <2>1 DEF TextInv, ClassInv
  <2>4. ClassInv'
    <3>1. CASE AddQuote \/ AddComma
      BY <1>10, <2>1, <2>3, <3>1
    <3>2. CASE ~(AddQuote \/ AddComma) /\ AddGoesOn
      <4>1. current' \in Texts
        BY <1>4, <1>6, <2>1, <3>2, AppendText DEF ClassInv
      <4> QED
        BY <1>4, <2>1, <2>3, <3>2, <4>1 DEF ClassInv
    <3>3. CASE ~(AddQuote \/ AddComma) /\ ~AddGoesOn
      BY <1>4, <2>1, <2>3, <3>3 DEF ClassInv
    <3> QED
      BY <3>1, <3>2, <3>3
  <2> QED
    BY <1>7, <1>8, <2>1, <2>2, <2>3, <2>4
<1>20. ASSUME Fail, UNCHANGED hydrateVars PROVE TextInv' /\ ClassInv' /\ RulesInv' /\ CullInv'
  <2>1. pc' = "failed" /\ UNCHANGED <<file, index, tag, quote, buffers>> /\ Skip
    BY <1>20 DEF Fail, hydrateVars, Skip
  <2>2. pc' \in Loops \ {"cull", "assemble"}
    BY <2>1 DEF Loops
  <2>3. tag' \in BOOLEAN /\ quote' \in BOOLEAN
    BY <1>4, <2>1 DEF TextInv
  <2> QED
    BY <1>7, <1>8, <1>9, <2>1, <2>2, <2>3
<1>21. CASE ExtractFails
  BY <1>20, <1>21 DEF ExtractFails
<1>22. CASE WriteFails
  BY <1>20, <1>22 DEF WriteFails
<1>26. CASE WriteNoMemory
  BY <1>20, <1>26 DEF WriteNoMemory
<1>23. CASE ExtractEnd
  <2>1. pc' = "hydrate" /\ index' = 1 /\ tag' = FALSE /\ quote' = FALSE /\ file' = file /\ UNCHANGED buffers /\ Skip
    BY <1>23 DEF ExtractEnd, Start
  <2>2. pc' \in Loops \ {"cull", "assemble"}
    BY <2>1 DEF Loops
  <2>3. tag' \in BOOLEAN /\ quote' \in BOOLEAN
    BY <2>1, Zenon
  <2> QED
    BY <1>7, <1>8, <1>9, <2>1, <2>2, <2>3
<1>24. CASE HydrateClass
  <2>1. /\ pc = "hydrate" /\ pc' = pc /\ index' = index + 1 /\ tag' = tag /\ quote' = quote /\ file' = file /\ Skip
        /\ index <= Len(classes)
        /\ LET pfx == Prefix(classes[index])
               cls == Name(classes[index])
           IN buffers' = [b \in DOMAIN buffers |->
                            IF Stamped(b, pfx, cls) THEN stamp(buffers[b], Rule(pfx, cls)) ELSE buffers[b]]
    BY <1>24 DEF HydrateClass
  <2>2. pc' \in Loops \ {"cull", "assemble"}
    BY <2>1 DEF Loops
  <2>3. tag' \in BOOLEAN /\ quote' \in BOOLEAN
    BY <1>4, <2>1 DEF TextInv
  <2>4. PICK pfx, cls : pfx = Prefix(classes[index]) /\ cls = Name(classes[index])
    OBVIOUS
  <2>5. pfx \in Texts /\ cls \in Texts
    <3>1. classes \in Seq(Texts)
      BY <1>4 DEF ClassInv
    <3>2. Len(classes) \in Nat /\ \A k \in 1 .. Len(classes) : classes[k] \in Texts
      BY <3>1, ElementIs
    <3>3. classes[index] \in Texts
      BY <1>5, <2>1, <3>2
    <3> QED
      BY <2>4, <3>3, NamesAre
  <2>6. PICK rule : rule = Rule(pfx, cls) /\ rule \in Rules
    <3>1. <<>> \in Texts
      BY DEF Texts
    <3>2. PICK p : p = IF Plain(cls) THEN <<>> ELSE pfx
      OBVIOUS
    <3>3. p \in Texts
      BY <2>5, <3>1, <3>2, Zenon
    <3>4. [pfx |-> p, cls |-> cls] \in Rules
      BY <2>5, <3>3 DEF Rules
    <3> QED
      BY <3>2, <3>4, Zenon DEF Rule
  <2>7. PICK bs : bs = buffers /\ bs \in [DOMAIN Tag -> Buffers] /\ \A b \in DOMAIN Tag : Filling(bs[b])
    BY <1>4 DEF RulesInv
  <2>8. buffers' = [b \in DOMAIN Tag |-> IF Stamped(b, pfx, cls) THEN stamp(bs[b], rule) ELSE bs[b]]
    <3>1. DOMAIN bs = DOMAIN Tag
      BY <2>7
    <3> QED
      BY <2>1, <2>4, <2>6, <2>7, <3>1
  <2>9. \A b \in DOMAIN Tag : stamp(bs[b], rule) \in Buffers /\ Filling(stamp(bs[b], rule))
    <3> TAKE b \in DOMAIN Tag
    <3>1. bs[b] \in Buffers /\ Filling(bs[b])
      BY <2>7
    <3> QED
      BY <2>6, <3>1, StampKeeps
  <2>10. RulesInv'
    BY <2>7, <2>8, <2>9 DEF RulesInv
  <2> QED
    BY <1>7, <1>9, <2>1, <2>2, <2>3, <2>10
<1>25. CASE Write
  <2>1. pc' = "done" /\ UNCHANGED <<file, index, tag, quote, buffers>> /\ Skip
    BY <1>25 DEF Write
  <2>2. pc' \in Loops \ {"cull", "assemble"}
    BY <2>1 DEF Loops
  <2>3. tag' \in BOOLEAN /\ quote' \in BOOLEAN
    BY <1>4, <2>1 DEF TextInv
  <2> QED
    BY <1>7, <1>8, <1>9, <2>1, <2>2, <2>3
<1> QED
  BY <1>1, <1>11, <1>12, <1>13, <1>14, <1>15, <1>16, <1>17, <1>18, <1>19, <1>21, <1>22, <1>23, <1>24, <1>25,
     <1>26 DEF HydrateNext

LEMMA ServeAgainInv ==
  ASSUME PageInv, ServeAgain
  PROVE  PageInv'
<1>1. /\ page' = page /\ guest' = guest /\ tries < MaxTries /\ tries' = tries + 1 /\ file' = file
      /\ pc' = "assemble" /\ index' = 1 /\ tag' = FALSE /\ quote' = FALSE
      /\ assembled' = <<>> /\ allocated' = 0 /\ classes' = <<>> /\ current' = <<>> /\ class' = FALSE
      /\ buffers' = [b \in DOMAIN Tag |-> Empty] /\ UNCHANGED cullVars
  BY DEF ServeAgain, Start
<1>2. tries \in 0 .. MaxTries /\ MaxTries \in Nat /\ MaxClasses \in Nat \ {0}
  BY TransformsAssumption DEF PageInv, RequestInv
<1>3. tries' \in 0 .. MaxTries /\ tries' # 0
  BY <1>1, <1>2
<1>4. <<>> \in Texts /\ <<>> \in Seq(Texts) /\ Len(<<>>) = 0
  BY DEF Texts
<1>5. RequestInv' /\ CountsInv' /\ AssembleInv'
  BY <1>1, <1>3, <1>4 DEF PageInv, RequestInv, CountsInv, AssembleInv, cullVars
<1>6. TextInv'
  <2>1. tag' \in BOOLEAN /\ quote' \in BOOLEAN
    BY <1>1, Zenon
  <2>2. index' \in Nat \ {0} /\ pc' \in Loops
    BY <1>1 DEF Loops
  <2>3. file' \in Texts
    BY <1>1 DEF PageInv, TextInv
  <2> QED
    BY <2>1, <2>2, <2>3 DEF TextInv
<1>7. ClassInv'
  <2>1. class' \in BOOLEAN
    BY <1>1, Zenon
  <2>2. Len(classes') < MaxClasses
    BY <1>1, <1>2, <1>4
  <2> QED
    BY <1>1, <1>4, <2>1, <2>2 DEF ClassInv
<1>8. RulesInv'
  BY <1>1, EmptyIs DEF RulesInv
<1>9. CullInv'
  <2>1. pc' # "cull" /\ ~Culled'
    BY <1>1, <1>3 DEF Culled
  <2> QED
    BY <2>1, NotCulled
<1> QED
  BY <1>5, <1>6, <1>7, <1>8, <1>9 DEF PageInv

LEMMA PageStays == Spec => []PageInv
<1>1. Init => PageInv
  BY Begun
<1>2. PageInv /\ [Next]_vars => PageInv'
  <2> SUFFICES ASSUME PageInv, [Next]_vars PROVE PageInv'
    OBVIOUS
  <2>1. CASE UNCHANGED vars
    <3>1. /\ UNCHANGED <<pc, file, index, tag, quote>>
          /\ UNCHANGED <<writeIndex, cut, cullIndex, startInd, endInd, frags>>
          /\ UNCHANGED <<assembled, allocated, classes, current, class, buffers, page, guest, tries>>
      BY <2>1 DEF vars, textVars, cullVars, assembleVars, hydrateVars, requestVars
    <3>2. RequestInv' /\ TextInv' /\ AssembleInv' /\ ClassInv' /\ RulesInv' /\ CountsInv'
      BY <3>1 DEF PageInv, RequestInv, TextInv, AssembleInv, ClassInv, RulesInv, CountsInv
    <3>3. CullInv'
      <4>1. PICK txt : txt = Source(page) /\ txt = Source(page)'
        BY <3>1
      <4>2. (Reading(txt)' <=> Reading(txt)) /\ (Finding(txt)' <=> Finding(txt)) /\ (Culled' <=> Culled)
        BY <3>1 DEF Reading, Finding, Culled, Looking
      <4>3. CullInv
        BY DEF PageInv
      <4> QED
        BY <3>1, <4>1, <4>2, <4>3 DEF CullInv
    <3> QED
      BY <3>2, <3>3 DEF PageInv
  <2> QED
    BY <2>1, CullStepInv, AssembleStepInv, HydrateStepInv, ServeAgainInv DEF Next
<1> QED
  BY <1>1, <1>2, PTL DEF Spec

(* The types and the bounds of the loops: no more classes are taken than    *)
(* the array has places, and a rule begins only in the first Room bytes of  *)
(* a buffer, so that it ends less than the longest rule behind them: within *)
(* the buffer if no rule is longer than the 64 bytes that are kept free,    *)
(* which the code does not check (cull.c:40-75, hydrate.c:9-77,             *)
(* utility.c:5-53).                                                         *)
THEOREM TransformsTyped == Spec => []TypeOK
<1>1. PageInv => TypeOK
  <2> SUFFICES ASSUME PageInv PROVE TypeOK
    OBVIOUS
  <2>1. \A b \in DOMAIN buffers : buffers[b].len \in Nat /\ buffers[b].len < Room + Longest
    BY DEF PageInv, RulesInv, Filling, Buffers
  <2> QED
    BY <2>1 DEF PageInv, RequestInv, TextInv, ClassInv, CountsInv, TypeOK, Loops
<1> QED
  BY <1>1, PageStays, PTL

(* Whatever the text, the list of fragments and the letters: culling in     *)
(* place never overtakes what is still to be read, and when it is over the  *)
(* file is the text without the first place of each fragment, unless a      *)
(* start or an end in it is not seen (cull.c:40-75).                        *)
THEOREM CullsAsListed == Spec => []CulledAsListed
<1>1. PageInv => CulledAsListed
  <2> SUFFICES ASSUME PageInv PROVE CulledAsListed
    OBVIOUS
  <2>1. pc = "cull" => writeIndex < index
    <3> SUFFICES ASSUME pc = "cull" PROVE writeIndex < index
      OBVIOUS
    <3>1. PICK txt : txt = Source(page) /\ txt \in Texts
      BY SourceIsText DEF PageInv, RequestInv
    <3>2. PICK T : T = Len(txt) /\ T \in Nat
      BY <3>1, LengthIs
    <3>3. index \in 1 .. T + 1 /\ writeIndex \in 0 .. index - 1
      BY <3>1, <3>2 DEF PageInv, CullInv, Reading
    <3> QED
      BY <3>2, <3>3
  <2> QED
    BY <2>1 DEF PageInv, CullInv, CulledAsListed
<1> QED
  BY <1>1, PageStays, PTL

-----------------------------------------------------------------------------
(* What the array of classes and the buffers of the blocks hold.            *)

RuleOf(c) == Rule(Prefix(c), Name(c))
StampedFor(block, c) == Stamped(block, Prefix(c), Name(c))

(* The classes stamped into a block when n of them have been gone through.  *)
TakenOf(block, n) == {classes[i] : i \in {j \in 1 .. n : StampedFor(block, classes[j])}}
DueOf(block, n) == {RuleOf(c) : c \in TakenOf(block, n)}

Buffered(block, n) ==
  /\ Range(buffers[block].rules) \subseteq DueOf(block, n)
  /\ buffers[block].len < Room => DueOf(block, n) \subseteq Range(buffers[block].rules)

(* Every class of the array is there once.                                  *)
OnceInv ==
  /\ \A i, j \in 1 .. Len(classes) : classes[i] = classes[j] => i = j
  /\ IsFiniteSet(ToSet(classes)) /\ Cardinality(ToSet(classes)) = Len(classes)

BufferInv ==
  /\ pc \notin {"hydrate", "done", "failed"} => \A b \in DOMAIN Tag : buffers[b] = Empty
  /\ pc = "hydrate" =>
       index \in 1 .. Len(classes) + 1 /\ \A b \in DOMAIN Tag : Buffered(b, index - 1)
  /\ pc = "done" =>
       \A b \in DOMAIN Tag :
         Buffered(b, Len(classes)) /\ (b # "tiny" => Served(b) = Range(buffers[b].rules))

FailedInv ==
  pc = "failed" => faulted \/ Full \/ (classes # <<>> /\ StylePlaces = {})

TookInv == OnceInv /\ BufferInv /\ FailedInv


LEMMA RangeIs ==
  ASSUME NEW S, NEW s \in Seq(S)
  PROVE  ToSet(s) = {s[k] : k \in 1 .. Len(s)} /\ Range(s) = {s[k] : k \in 1 .. Len(s)}
<1>1. DOMAIN s = 1 .. Len(s)
  OBVIOUS
<1> QED
  BY <1>1, Zenon DEF ToSet, Range

LEMMA RangeAppended ==
  ASSUME NEW S, NEW s \in Seq(S), NEW x \in S
  PROVE  /\ Range(Append(s, x)) = Range(s) \cup {x}
         /\ ToSet(Append(s, x)) = ToSet(s) \cup {x}
<1>1. PICK t, n : t = Append(s, x) /\ n = Len(s)
  OBVIOUS
<1>2. /\ n \in Nat /\ t \in Seq(S) /\ Len(t) = n + 1
      /\ \A k \in 1 .. n : t[k] = s[k]
      /\ t[n + 1] = x
  BY <1>1, AppendedIs
<1>3. 1 .. n + 1 = (1 .. n) \cup {n + 1}
  BY <1>2
<1>4. {t[k] : k \in 1 .. n + 1} = {s[k] : k \in 1 .. n} \cup {x}
  <2>1. {t[k] : k \in 1 .. n + 1} = {t[k] : k \in 1 .. n} \cup {t[n + 1]}
    BY <1>3, Zenon
  <2>2. {t[k] : k \in 1 .. n} = {s[k] : k \in 1 .. n}
    BY <1>2, Zenon
  <2> QED
    BY <1>2, <2>1, <2>2
<1>5. Range(t) = {t[k] : k \in 1 .. n + 1} /\ ToSet(t) = {t[k] : k \in 1 .. n + 1}
  BY <1>2, RangeIs
<1>6. Range(s) = {s[k] : k \in 1 .. n} /\ ToSet(s) = {s[k] : k \in 1 .. n}
  BY <1>1, RangeIs
<1> QED
  BY <1>1, <1>4, <1>5, <1>6

(* append() takes a class only when it is not in the array yet.             *)
LEMMA TakeClassOnce ==
  ASSUME current \in Texts, classes \in Seq(Texts), OnceInv, TakeClass
  PROVE  OnceInv'
<1>1. CASE classes' = classes
  BY <1>1 DEF OnceInv
<1>2. CASE classes' # classes
  <2>1. PICK cs, c : cs = classes /\ c = current
    OBVIOUS
  <2>2. classes' = Append(cs, c) /\ c \notin ToSet(cs) /\ cs \in Seq(Texts) /\ c \in Texts
    BY <1>2, <2>1 DEF TakeClass
  <2>3. PICK n : n = Len(cs)
    OBVIOUS
  <2>4. /\ n \in Nat /\ Len(classes') = n + 1
        /\ \A k \in 1 .. n : classes'[k] = cs[k]
        /\ classes'[n + 1] = c
    BY <2>2, <2>3, AppendedIs
  <2>5. \A k \in 1 .. n : cs[k] # c
    BY <2>2, <2>3, RangeIs
  <2>6. ASSUME NEW i \in 1 .. n + 1, NEW j \in 1 .. n + 1, classes'[i] = classes'[j]
        PROVE  i = j
    <3>1. \A k, l \in 1 .. n : cs[k] = cs[l] => k = l
      BY <2>1, <2>3 DEF OnceInv
    <3> QED
      BY <2>4, <2>5, <2>6, <3>1
  <2>7. ToSet(classes') = ToSet(cs) \cup {c}
    BY <2>2, RangeAppended
  <2>8. IsFiniteSet(ToSet(cs)) /\ Cardinality(ToSet(cs)) = n
    BY <2>1, <2>3 DEF OnceInv
  <2>9. IsFiniteSet(ToSet(classes')) /\ Cardinality(ToSet(classes')) = n + 1
    <3>1. /\ IsFiniteSet(ToSet(cs) \cup {c})
          /\ Cardinality(ToSet(cs) \cup {c}) = Cardinality(ToSet(cs)) + 1
      BY <2>2, <2>8, FS_AddElement
    <3> QED
      BY <2>7, <2>8, <3>1
  <2> QED
    BY <2>4, <2>6, <2>9 DEF OnceInv
<1> QED
  BY <1>1, <1>2

LEMMA BufferedSame ==
  ASSUME classes' = classes, buffers' = buffers
  PROVE  \A b, n : Buffered(b, n)' <=> Buffered(b, n)
<1> TAKE b, n
<1>1. TakenOf(b, n)' = TakenOf(b, n)
  BY DEF TakenOf
<1>2. DueOf(b, n)' = DueOf(b, n)
  BY <1>1 DEF DueOf
<1> QED
  BY <1>1, <1>2 DEF Buffered

LEMMA BufferedNone ==
  ASSUME NEW b, buffers[b] = Empty
  PROVE  Buffered(b, 0)
<1>1. TakenOf(b, 0) = {}
  BY DEF TakenOf
<1>2. DueOf(b, 0) = {}
  BY <1>1 DEF DueOf
<1>3. Range(<<>>) = {}
  BY DEF Range
<1> QED
  BY <1>2, <1>3, EmptyIs DEF Buffered

(* One class more: its rule goes into the buffer while there is room.       *)
LEMMA BufferedNext ==
  ASSUME NEW b, NEW n \in Nat, buffers[b] \in Buffers, RuleOf(classes[n + 1]) \in Rules,
         Buffered(b, n), classes' = classes,
         buffers'[b] = IF StampedFor(b, classes[n + 1]) THEN stamp(buffers[b], RuleOf(classes[n + 1]))
                       ELSE buffers[b]
  PROVE  Buffered(b, n + 1)'
<1>1. PICK c, buf, due : c = classes[n + 1] /\ buf = buffers[b] /\ due = DueOf(b, n)
  OBVIOUS
<1>2. 1 .. n + 1 = (1 .. n) \cup {n + 1}
  OBVIOUS
<1>3. DueOf(b, n + 1)' = {RuleOf(d) : d \in TakenOf(b, n + 1)'} /\ due = {RuleOf(d) : d \in TakenOf(b, n)}
  BY <1>1 DEF DueOf
<1>4. Range(buf.rules) \subseteq due /\ (buf.len < Room => due \subseteq Range(buf.rules))
  BY <1>1 DEF Buffered
<1>5. CASE ~StampedFor(b, c)
  <2>1. TakenOf(b, n + 1)' = TakenOf(b, n)
    <3>1. {j \in 1 .. n + 1 : StampedFor(b, classes[j])} = {j \in 1 .. n : StampedFor(b, classes[j])}
      BY <1>1, <1>2, <1>5
    <3> QED
      BY <3>1 DEF TakenOf
  <2>2. buffers'[b] = buf
    BY <1>1, <1>5
  <2>3. DueOf(b, n + 1)' = due
    BY <1>3, <2>1
  <2> QED
    BY <1>4, <2>2, <2>3 DEF Buffered
<1>6. CASE StampedFor(b, c)
  <2>1. TakenOf(b, n + 1)' = TakenOf(b, n) \cup {c}
    <3>1. {j \in 1 .. n + 1 : StampedFor(b, classes[j])} = {j \in 1 .. n : StampedFor(b, classes[j])} \cup {n + 1}
      BY <1>1, <1>2, <1>6
    <3>2. TakenOf(b, n + 1)' = {classes[i] : i \in {j \in 1 .. n + 1 : StampedFor(b, classes[j])}}
      BY DEF TakenOf
    <3>3. TakenOf(b, n) = {classes[i] : i \in {j \in 1 .. n : StampedFor(b, classes[j])}}
      BY DEF TakenOf
    <3> HIDE DEF StampedFor
    <3>4. PICK A : A = {j \in 1 .. n : StampedFor(b, classes[j])}
      OBVIOUS
    <3>5. {classes[i] : i \in A \cup {n + 1}} = {classes[i] : i \in A} \cup {classes[n + 1]}
      BY Zenon
    <3> QED
      BY <1>1, <3>1, <3>2, <3>3, <3>4, <3>5
  <2>2. PICK rule : rule = RuleOf(c) /\ rule \in Rules
    BY <1>1
  <2>3. DueOf(b, n + 1)' = due \cup {rule}
    <3>1. {RuleOf(d) : d \in TakenOf(b, n) \cup {c}} = {RuleOf(d) : d \in TakenOf(b, n)} \cup {RuleOf(c)}
      BY Zenon
    <3> QED
      BY <1>3, <2>1, <2>2, <3>1
  <2>4. CASE buf.len < Room
    <3>1. buffers'[b] = With(buf, rule)
      BY <1>1, <1>6, <2>2, <2>4 DEF stamp
    <3>2. buffers'[b].rules = Append(buf.rules, rule)
      BY <3>1 DEF With
    <3>3. buf.rules \in Seq(Rules)
      BY <1>1 DEF Buffers
    <3>4. Range(Append(buf.rules, rule)) = Range(buf.rules) \cup {rule}
      BY <2>2, <3>3, RangeAppended
    <3> QED
      BY <1>4, <2>3, <2>4, <3>2, <3>4 DEF Buffered
  <2>5. CASE ~(buf.len < Room)
    <3>1. buffers'[b] = buf
      BY <1>1, <1>6, <2>2, <2>5 DEF stamp
    <3> QED
      BY <1>4, <2>3, <2>5, <3>1 DEF Buffered
  <2> QED
    BY <2>4, <2>5
<1> QED
  BY <1>5, <1>6

(* While a file is culled and assembled nothing is taken from it.           *)
LEMMA CullTook ==
  ASSUME PageInv, TookInv, CullStep
  PROVE  TookInv'
<1>1. classes' = classes /\ buffers' = buffers /\ CullNext
  BY DEF CullStep, hydrateVars
<1>2. pc = "cull" /\ (pc' = "cull" \/ pc' = "assemble")
  BY <1>1 DEF CullNext, CullCopy, CullMatch, CullResume, CullEnd, Start
<1>3. OnceInv'
  BY <1>1 DEF TookInv, OnceInv
<1> QED
  BY <1>1, <1>2, <1>3 DEF TookInv, BufferInv, FailedInv

LEMMA AssembleTook ==
  ASSUME PageInv, TookInv, AssembleStep
  PROVE  TookInv'
<1>1. classes' = classes /\ buffers' = buffers /\ AssembleNext /\ faulted' = (pc' = "failed")
  BY DEF AssembleStep, hydrateVars
<1>2. pc \in {"assemble", "imports"} /\ pc' \in {"assemble", "imports", "body", "failed"}
  BY <1>1 DEF AssembleNext, AssembleRef, AssembleRefFails, AssembleValue, AssembleCopy, AssembleBodyEnds,
              Import, ImportFails, ImportCopy, CopyNoMemory, AssembleEnd, Start, Fail
<1>3. OnceInv'
  BY <1>1 DEF TookInv, OnceInv
<1>4. BufferInv'
  BY <1>1, <1>2 DEF TookInv, BufferInv
<1>5. FailedInv'
  BY <1>1 DEF FailedInv
<1> QED
  BY <1>3, <1>4, <1>5 DEF TookInv

LEMMA ServeAgainTook ==
  ASSUME PageInv, TookInv, ServeAgain
  PROVE  TookInv'
<1>1. classes' = <<>> /\ buffers' = [b \in DOMAIN Tag |-> Empty] /\ pc' = "assemble"
  BY DEF ServeAgain, Start
<1>2. OnceInv'
  <2>1. Len(<<>>) = 0 /\ 1 .. 0 = {} /\ ToSet(<<>>) = {}
    BY DEF ToSet
  <2> QED
    BY <1>1, <2>1, FS_EmptySet DEF OnceInv
<1>3. BufferInv' /\ FailedInv'
  BY <1>1 DEF BufferInv, FailedInv
<1> QED
  BY <1>2, <1>3 DEF TookInv

(* The blocks written into the page are those whose buffer holds a rule.    *)
LEMMA WriteServes ==
  ASSUME RulesInv, buffers' = buffers,
         style' = [i \in {j \in DOMAIN Blocks : buffers[Blocks[j]].len # 0} |->
                     [block |-> Blocks[i], rules |-> Copied(Blocks[i])]],
         NEW b \in DOMAIN Tag, b # "tiny"
  PROVE  Served(b)' = Range(buffers'[b].rules)
<1>1. PICK written : written = {j \in DOMAIN Blocks : buffers[Blocks[j]].len # 0}
  OBVIOUS
<1>2. PICK st : st = style'
  OBVIOUS
<1>3. /\ DOMAIN st = written
      /\ \A i \in written : st[i].block = Blocks[i] /\ st[i].rules = Copied(Blocks[i])
  BY <1>1, <1>2
<1>4. PICK i \in DOMAIN Blocks : Blocks[i] = b /\ \A j \in DOMAIN Blocks : Blocks[j] = b => j = i
  <2>1. DOMAIN Blocks = 1 .. 7
    BY DEF Blocks
  <2>2. /\ Blocks[1] = "global" /\ Blocks[2] = "tiny" /\ Blocks[3] = "small" /\ Blocks[4] = "medium"
        /\ Blocks[5] = "large" /\ Blocks[6] = "giant" /\ Blocks[7] = "dark"
    BY DEF Blocks
  <2>3. b \in {"global", "tiny", "small", "medium", "large", "giant", "dark"}
    BY DEF Tag
  <2>4. 1 .. 7 = {1, 2, 3, 4, 5, 6, 7}
    OBVIOUS
  <2>5. \A j, k \in 1 .. 7 : Blocks[j] = Blocks[k] => j = k
    BY <2>2, <2>4
  <2>6. \E k \in 1 .. 7 : Blocks[k] = b
    BY <2>2, <2>3, <2>4
  <2> QED
    BY <2>1, <2>5, <2>6
<1>5. Copied(b) = buffers[b].rules
  BY DEF Copied
<1>6. Served(b)' = UNION {Range(st[k].rules) : k \in {j \in written : st[j].block = b}}
  <2>1. Served(b)' = UNION {Range(style'[k].rules) : k \in {j \in DOMAIN style' : style'[j].block = b}}
    BY Zenon DEF Served
  <2>2. Served(b)' = UNION {Range(st[k].rules) : k \in {j \in DOMAIN st : st[j].block = b}}
    BY <1>2, <2>1
  <2>3. {j \in DOMAIN st : st[j].block = b} = {j \in written : st[j].block = b}
    BY <1>3
  <2> QED
    BY <2>2, <2>3
<1>7. CASE buffers[b].len = 0
  <2>1. {j \in written : st[j].block = b} = {}
    BY <1>1, <1>3, <1>4, <1>7
  <2>2. Range(buffers[b].rules) = {}
    <3>1. buffers[b].rules = <<>>
      BY <1>7 DEF RulesInv, Filling
    <3> QED
      BY <3>1 DEF Range
  <2> QED
    BY <1>6, <2>1, <2>2
<1>8. CASE buffers[b].len # 0
  <2>1. i \in written
    BY <1>1, <1>4, <1>8
  <2>2. {j \in written : st[j].block = b} = {i}
    BY <1>1, <1>3, <1>4, <2>1
  <2>3. st[i].rules = buffers[b].rules
    BY <1>3, <1>4, <1>5, <2>1
  <2> QED
    BY <1>6, <2>2, <2>3
<1> QED
  BY <1>7, <1>8

LEMMA HydrateTook ==
  ASSUME PageInv, TookInv, HydrateStep
  PROVE  TookInv'
<1>1. (HydrateNext /\ faulted' = faulted) \/ (WriteNoMemory /\ faulted' = TRUE)
  BY DEF HydrateStep
<1>2. /\ current \in Texts /\ classes \in Seq(Texts) /\ buffers \in [DOMAIN Tag -> Buffers] /\ RulesInv
      /\ index \in Nat \ {0}
  BY DEF PageInv, ClassInv, RulesInv, TextInv
<1>3. OnceInv /\ BufferInv /\ FailedInv
  BY DEF TookInv
<1>4. PICK N : N = Len(classes) /\ N \in Nat
  BY <1>2, ElementIs
<1>5. ASSUME pc \in {"body", "tags", "script"}, pc' \in {"body", "tags", "script"}, buffers' = buffers,
             classes' = classes \/ TakeClass
      PROVE  TookInv'
  <2>1. OnceInv'
    <3>1. CASE classes' = classes
      BY <1>3, <3>1 DEF OnceInv
    <3>2. CASE TakeClass
      BY <1>2, <1>3, <3>2, TakeClassOnce
    <3> QED
      BY <1>5, <3>1, <3>2
  <2>2. BufferInv' /\ FailedInv'
    BY <1>3, <1>5 DEF BufferInv, FailedInv
  <2> QED
    BY <2>1, <2>2 DEF TookInv
<1>6. CASE FindBody \/ TagOpens \/ TagCloses \/ QuoteOpens \/ QuoteCloses \/ ClassEnds \/ ClassGoesOn
             \/ OtherOfTags \/ ScriptByte
  <2>1. pc \in {"body", "tags", "script"} /\ pc' \in {"body", "tags", "script"} /\ buffers' = buffers
    BY <1>6 DEF FindBody, TagOpens, TagCloses, QuoteOpens, QuoteCloses, ClassEnds, ClassGoesOn, OtherOfTags,
                ScriptByte, InTags, InScript
  <2>2. classes' = classes \/ TakeClass
    BY <1>6 DEF FindBody, TagOpens, TagCloses, QuoteOpens, QuoteCloses, ClassEnds, ClassGoesOn, OtherOfTags,
                ScriptByte, Skip
  <2> QED
    BY <1>5, <2>1, <2>2
<1>7. ASSUME pc' = "failed", classes' = classes, file' = file,
             faulted' \/ Full \/ (classes # <<>> /\ StylePlaces = {})
      PROVE  TookInv'
  <2>1. OnceInv'
    BY <1>3, <1>7 DEF OnceInv
  <2>2. BufferInv'
    BY <1>7 DEF BufferInv
  <2>3. FailedInv'
    <3>1. (Full' <=> Full) /\ StylePlaces' = StylePlaces
      BY <1>7 DEF Full, StylePlaces
    <3> QED
      BY <1>7, <3>1 DEF FailedInv
  <2> QED
    BY <2>1, <2>2, <2>3 DEF TookInv
<1>8. CASE ExtractFails
  BY <1>7, <1>8 DEF ExtractFails, Fail, hydrateVars
<1>9. CASE WriteFails
  BY <1>7, <1>9 DEF WriteFails, Fail, hydrateVars
<1>13. CASE WriteNoMemory /\ faulted' = TRUE
  BY <1>7, <1>13 DEF WriteNoMemory, Fail, hydrateVars
<1>10. CASE ExtractEnd
  <2>1. pc \in {"body", "tags", "script"} /\ pc' = "hydrate" /\ index' = 1 /\ classes' = classes /\ buffers' = buffers
    BY <1>10 DEF ExtractEnd, Start, Skip
  <2>2. \A b \in DOMAIN Tag : buffers[b] = Empty
    BY <1>3, <2>1 DEF BufferInv
  <2>3. \A b \in DOMAIN Tag : Buffered(b, 0)'
    BY <2>1, <2>2, BufferedNone, BufferedSame
  <2>4. index' - 1 = 0 /\ index' \in 1 .. Len(classes') + 1
    BY <1>4, <2>1
  <2>5. BufferInv'
    BY <2>1, <2>3, <2>4 DEF BufferInv
  <2>6. OnceInv' /\ FailedInv'
    BY <1>3, <2>1 DEF OnceInv, FailedInv
  <2> QED
    BY <2>5, <2>6 DEF TookInv
<1>11. CASE HydrateClass
  <2>1. /\ pc = "hydrate" /\ pc' = "hydrate" /\ index <= N /\ index' = index + 1 /\ classes' = classes
        /\ buffers' = [b \in DOMAIN buffers |->
                         IF StampedFor(b, classes[index]) THEN stamp(buffers[b], RuleOf(classes[index]))
                         ELSE buffers[b]]
    BY <1>4, <1>11 DEF HydrateClass, Skip, StampedFor, RuleOf
  <2>2. PICK n \in Nat : index = n + 1
    BY <1>2
  <2>3. \A b \in DOMAIN Tag : Buffered(b, n)
    <3>1. index - 1 = n
      BY <2>2
    <3> QED
      BY <1>3, <2>1, <3>1 DEF BufferInv
  <2>4. RuleOf(classes[n + 1]) \in Rules
    <3>1. classes[n + 1] \in Texts
      BY <1>2, <1>4, <2>1, <2>2, ElementIs
    <3>2. Prefix(classes[n + 1]) \in Texts /\ Name(classes[n + 1]) \in Texts /\ <<>> \in Texts
      BY <3>1, NamesAre DEF Texts
    <3> QED
      BY <3>2 DEF RuleOf, Rule, Rules
  <2>5. ASSUME NEW b \in DOMAIN Tag PROVE Buffered(b, n + 1)'
    <3>1. /\ buffers[b] \in Buffers
          /\ buffers'[b] = IF StampedFor(b, classes[n + 1]) THEN stamp(buffers[b], RuleOf(classes[n + 1]))
                           ELSE buffers[b]
      BY <1>2, <2>1, <2>2
    <3> QED
      BY <2>1, <2>3, <2>4, <3>1, BufferedNext
  <2>6. index' - 1 = n + 1 /\ index' \in 1 .. Len(classes') + 1
    BY <1>4, <2>1, <2>2
  <2>7. BufferInv'
    BY <2>1, <2>5, <2>6 DEF BufferInv
  <2>8. OnceInv' /\ FailedInv'
    BY <1>3, <2>1 DEF OnceInv, FailedInv
  <2> QED
    BY <2>7, <2>8 DEF TookInv
<1>12. CASE Write
  <2>1. /\ pc = "hydrate" /\ pc' = "done" /\ index > N /\ classes' = classes /\ buffers' = buffers
        /\ style' = [i \in {j \in DOMAIN Blocks : buffers[Blocks[j]].len # 0} |->
                       [block |-> Blocks[i], rules |-> Copied(Blocks[i])]]
    BY <1>4, <1>12 DEF Write, Skip
  <2>2. index - 1 = N
    BY <1>3, <1>4, <2>1 DEF BufferInv
  <2>3. \A b \in DOMAIN Tag : Buffered(b, N)'
    BY <1>3, <2>1, <2>2, BufferedSame DEF BufferInv
  <2>4. \A b \in DOMAIN Tag : b # "tiny" => Served(b)' = Range(buffers'[b].rules)
    BY <1>2, <2>1, WriteServes
  <2>5. BufferInv'
    BY <1>4, <2>1, <2>3, <2>4 DEF BufferInv
  <2>6. OnceInv' /\ FailedInv'
    BY <1>3, <2>1 DEF OnceInv, FailedInv
  <2> QED
    BY <2>5, <2>6 DEF TookInv
<1> QED
  BY <1>1, <1>6, <1>8, <1>9, <1>10, <1>11, <1>12, <1>13 DEF HydrateNext

LEMMA BegunTook ==
  ASSUME Init
  PROVE  TookInv
<1>1. classes = <<>> /\ buffers = [b \in DOMAIN Tag |-> Empty] /\ pc \in {"cull", "assemble"}
  BY DEF Init, HydrateInit
<1>2. OnceInv
  <2>1. Len(<<>>) = 0 /\ 1 .. 0 = {} /\ ToSet(<<>>) = {}
    BY DEF ToSet
  <2> QED
    BY <1>1, <2>1, FS_EmptySet DEF OnceInv
<1> QED
  BY <1>1, <1>2 DEF TookInv, BufferInv, FailedInv

LEMMA TookStays == Spec => []TookInv
<1>1. Init => TookInv
  BY BegunTook
<1>2. PageInv /\ TookInv /\ [Next]_vars => TookInv'
  <2> SUFFICES ASSUME PageInv, TookInv, [Next]_vars PROVE TookInv'
    OBVIOUS
  <2>1. CASE UNCHANGED vars
    <3>1. UNCHANGED <<pc, file, index, classes, buffers, style, faulted>>
      BY <2>1 DEF vars, textVars, hydrateVars, requestVars
    <3>2. OnceInv' /\ FailedInv'
      BY <3>1 DEF TookInv, OnceInv, FailedInv, Full, StylePlaces
    <3>3. BufferInv'
      <4>1. \A b, n : Buffered(b, n)' <=> Buffered(b, n)
        BY <3>1, BufferedSame
      <4>2. \A b : Served(b)' = Served(b)
        BY <3>1 DEF Served
      <4> QED
        BY <3>1, <4>1, <4>2 DEF TookInv, BufferInv
    <3> QED
      BY <3>2, <3>3 DEF TookInv
  <2> QED
    BY <2>1, CullTook, AssembleTook, HydrateTook, ServeAgainTook DEF Next
<1> QED
  BY <1>1, <1>2, PageStays, PTL DEF Spec

(* Whatever the page, the tables and the sizes: no block has a rule but     *)
(* those of the classes in the array that are for it, and it has them all   *)
(* unless its buffer has no more than 64 bytes left; a request that fails   *)
(* has met a file it cannot read or memory it cannot get, an array full of  *)
(* different classes, or no style tag for its classes; and a request that   *)
(* begins again finds nothing of the one before (hydrate.c:12-36, 203-398,  *)
(* utility.c:7-8, serve.c:26-45).                                           *)
THEOREM ServesAsTaken == Spec => []ServesWhatItTook
<1>1. PageInv /\ TookInv => ServesWhatItTook
  <2> SUFFICES ASSUME PageInv, TookInv PROVE ServesWhatItTook
    OBVIOUS
  <2>1. classes \in Seq(Texts) /\ Len(classes) < MaxClasses /\ MaxClasses \in Nat
    BY TransformsAssumption DEF PageInv, ClassInv
  <2>2. PICK N : N = Len(classes) /\ N \in Nat
    BY <2>1, ElementIs
  <2>3. ASSUME pc = "done", NEW b \in DOMAIN Tag \ {"tiny"}
        PROVE  LET due == {Rule(Prefix(c), Name(c)) : c \in Taken(b)} IN
                 /\ Served(b) \subseteq due
                 /\ buffers[b].len < Room => Served(b) = due
    <3>1. Buffered(b, N) /\ Served(b) = Range(buffers[b].rules)
      BY <2>2, <2>3 DEF TookInv, BufferInv
    <3>2. TakenOf(b, N) = Taken(b)
      <4>1. ToSet(classes) = {classes[k] : k \in 1 .. N}
        BY <2>1, <2>2, RangeIs
      <4> QED
        BY <4>1 DEF TakenOf, Taken, StampedFor
    <3>3. DueOf(b, N) = {Rule(Prefix(c), Name(c)) : c \in Taken(b)}
      BY <3>2 DEF DueOf, RuleOf
    <3> QED
      BY <3>1, <3>2, <3>3 DEF Buffered
  <2>4. ASSUME pc = "failed"
        PROVE  \/ faulted
               \/ Cardinality(ToSet(classes)) + 1 = MaxClasses
               \/ classes # <<>> /\ StylePlaces = {}
    <3>1. Full => N + 1 = MaxClasses
      BY <2>1, <2>2 DEF Full
    <3>2. Cardinality(ToSet(classes)) = N
      BY <2>2 DEF TookInv, OnceInv
    <3> QED
      BY <2>4, <3>1, <3>2 DEF TookInv, FailedInv
  <2> QED
    BY <2>3, <2>4 DEF ServesWhatItTook
<1> QED
  BY <1>1, PageStays, TookStays, PTL

=============================================================================
