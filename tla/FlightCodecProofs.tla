-------------------------- MODULE FlightCodecProofs --------------------------
(***************************************************************************)
(* Theorems about FlightCodec for any flights and any room for the answer: *)
(* first what the arithmetic of the codec computes, then the bytes of a    *)
(* row and what is read of them, then the answer as a whole.               *)
(***************************************************************************)
EXTENDS FlightCodec, DataInduction, FiniteSetTheorems, SequenceTheorems

------------------------------------------------------------------------------
(* Numbers and their digits.                                                *)

Shift(base, n, digit) == n * base + digit

LEMMA ShiftType ==
  ASSUME NEW base \in Nat, NEW n \in Nat, NEW digit \in Nat
  PROVE  Shift(base, n, digit) \in Nat
<1>1. n * base \in Nat
  OBVIOUS
<1> QED
  BY <1>1 DEF Shift

LEMMA ShiftZero ==
  ASSUME NEW base \in Nat, NEW digit \in Nat
  PROVE  Shift(base, 0, digit) = digit
  BY DEF Shift

LEMMA DigitType ==
  ASSUME NEW d \in Seq(Nat), NEW i \in 1 .. Len(d)
  PROVE  d[i] \in Nat
  OBVIOUS

(* The run of InBase over the digits.                                       *)
LEMMA InBaseIs ==
  ASSUME NEW base \in Nat, NEW N \in Nat, NEW d \in Seq(Nat), Len(d) = N
  PROVE  \E u \in [0 .. N -> Nat] :
           /\ u[0] = 0
           /\ \A n \in 1 .. N : u[n] = Shift(base, u[n - 1], d[n])
           /\ InBase(base, d) = u[N]
<1> DEFINE step == [x \in Nat \X (1 .. N) |-> Shift(base, x[1], d[x[2]])]
           Runs(g) == g = [i \in 0 .. N |-> IF i = 0 THEN 0 ELSE Shift(base, g[i - 1], d[i])]
<1>0. \A i \in 1 .. N : d[i] \in Nat
  OBVIOUS
<1>1. Automaton(N, Nat, 0, step)
  <2>1. \A x \in Nat \X (1 .. N) : Shift(base, x[1], d[x[2]]) \in Nat
    BY <1>0, ShiftType
  <2> QED
    BY <2>1 DEF Automaton
<1>2. PICK f \in [0 .. N -> Nat] : f[0] = 0 /\ \A n \in 1 .. N : f[n] = step[<<f[n - 1], n>>]
  <2> HIDE DEF step
  <2>1. \E f : AutomatonRun(f, N, Nat, 0, step)
    BY <1>1, RunExists, Zenon
  <2> QED
    BY <2>1 DEF AutomatonRun
<1>3. \A n \in 1 .. N : f[n] = Shift(base, f[n - 1], d[n])
  <2> TAKE n \in 1 .. N
  <2>1. f[n - 1] \in Nat
    BY <1>2
  <2>2. PICK x : x = <<f[n - 1], n>>
    OBVIOUS
  <2>3. x \in Nat \X (1 .. N) /\ x[1] = f[n - 1] /\ x[2] = n
    BY <2>1, <2>2
  <2>4. step[x] = Shift(base, x[1], d[x[2]])
    BY <2>3
  <2> QED
    BY <1>2, <2>2, <2>3, <2>4
<1> HIDE DEF step
<1>4. Runs(f)
  BY <1>2, <1>3
<1>5. InBase(base, d) = (CHOOSE g : Runs(g))[N]
  BY DEF InBase, Shift
<1>6. Runs(CHOOSE g : Runs(g))
  <2> HIDE DEF Runs
  <2> QED
    BY <1>4, Zenon
<1>7. PICK g : g = (CHOOSE h : Runs(h))
  OBVIOUS
<1>8. g = [i \in 0 .. N |-> IF i = 0 THEN 0 ELSE Shift(base, g[i - 1], d[i])]
  BY <1>6, <1>7
<1>9. g[0] = 0 /\ \A n \in 1 .. N : g[n] = Shift(base, g[n - 1], d[n])
  BY <1>8
<1>10. 0 .. N \subseteq {n \in 0 .. N : g[n] \in Nat}
  <2> DEFINE S == {n \in 0 .. N : g[n] \in Nat}
  <2>1. 0 \in S
    BY <1>9
  <2>2. ASSUME NEW n \in 0 .. N - 1, n \in S PROVE n + 1 \in S
    <3>1. n + 1 \in 1 .. N /\ g[n] \in Nat /\ d[n + 1] \in Nat
      BY <1>0, <2>2
    <3>2. g[n + 1] = Shift(base, g[n], d[n + 1])
      BY <1>9, <3>1
    <3>4. Shift(base, g[n], d[n + 1]) \in Nat
      BY <3>1, ShiftType
    <3> QED
      BY <3>1, <3>2, <3>4
  <2> HIDE DEF S
  <2>3. 0 .. N \subseteq S
    BY <2>1, <2>2, InductionUpTo
  <2> QED
    BY <2>3 DEF S
<1>11. g \in [0 .. N -> Nat]
  BY <1>8, <1>10
<1>12. InBase(base, d) = g[N]
  BY <1>5, <1>7
<1> QED
  BY <1>9, <1>11, <1>12

LEMMA InBaseType ==
  ASSUME NEW base \in Nat, NEW d \in Seq(Nat)
  PROVE  InBase(base, d) \in Nat
<1>1. PICK N \in Nat : N = Len(d)
  OBVIOUS
<1>2. PICK u \in [0 .. N -> Nat] : InBase(base, d) = u[N]
  BY <1>1, InBaseIs
<1> QED
  BY <1>2

(* Zeros ahead do not count.                                                *)
LEMMA DropZeros ==
  ASSUME NEW base \in Nat, NEW N \in Nat, NEW d \in Seq(Nat), Len(d) = N,
         NEW k \in 0 .. N, \A i \in 1 .. k : d[i] = 0
  PROVE  InBase(base, SubSeq(d, k + 1, N)) = InBase(base, d)
<1>1. PICK u \in [0 .. N -> Nat] :
        /\ u[0] = 0
        /\ \A n \in 1 .. N : u[n] = Shift(base, u[n - 1], d[n])
        /\ InBase(base, d) = u[N]
  BY InBaseIs
<1>2. PICK e : e = SubSeq(d, k + 1, N)
  OBVIOUS
<1>3. e \in Seq(Nat) /\ Len(e) = N - k /\ \A i \in 1 .. N - k : e[i] = d[k + i]
  <2>1. \A i \in k + 1 .. N : d[i] \in Nat
    OBVIOUS
  <2>2. /\ e \in Seq(Nat)
        /\ Len(e) = IF k + 1 <= N THEN N - (k + 1) + 1 ELSE 0
        /\ \A i \in 1 .. N - (k + 1) + 1 : e[i] = d[k + 1 + i - 1]
    BY <1>2, <2>1, SubSeqProperties
  <2> QED
    BY <2>2
<1>4. PICK v \in [0 .. N - k -> Nat] :
        /\ v[0] = 0
        /\ \A n \in 1 .. N - k : v[n] = Shift(base, v[n - 1], e[n])
        /\ InBase(base, e) = v[N - k]
  <2>1. PICK M : M = N - k
    OBVIOUS
  <2>2. M \in Nat
    BY ONLY <2>1
  <2>3. Len(e) = M /\ e \in Seq(Nat)
    BY <1>3, <2>1
  <2>4. \E v \in [0 .. M -> Nat] :
          /\ v[0] = 0
          /\ \A n \in 1 .. M : v[n] = Shift(base, v[n - 1], e[n])
          /\ InBase(base, e) = v[M]
    BY ONLY <2>2, <2>3, InBaseIs
  <2> QED
    BY <2>1, <2>4, Zenon
<1>5. 0 .. k \subseteq {n \in 0 .. k : u[n] = 0}
  <2> DEFINE S == {n \in 0 .. k : u[n] = 0}
  <2>1. 0 \in S
    BY <1>1
  <2>2. ASSUME NEW n \in 0 .. k - 1, n \in S PROVE n + 1 \in S
    <3>1. u[n + 1] = Shift(base, u[n], d[n + 1]) /\ d[n + 1] = 0 /\ u[n] = 0
      BY <1>1, <2>2
    <3> QED
      BY <3>1, ShiftZero
  <2> HIDE DEF S
  <2>3. k \in Nat
    OBVIOUS
  <2>4. 0 .. k \subseteq S
    BY <2>1, <2>2, <2>3, InductionUpTo
  <2> QED
    BY <2>4 DEF S
<1>6. 0 .. N - k \subseteq {n \in 0 .. N - k : v[n] = u[k + n]}
  <2> DEFINE S == {n \in 0 .. N - k : v[n] = u[k + n]}
  <2>1. 0 \in S
    BY <1>4, <1>5
  <2>2. ASSUME NEW n \in 0 .. N - k - 1, n \in S PROVE n + 1 \in S
    <3>0. n + 1 \in 1 .. N - k /\ (n + 1) - 1 = n /\ k + (n + 1) = k + n + 1
      OBVIOUS
    <3>5. PICK m \in 1 .. N - k : m = n + 1
      BY <3>0
    <3>6. v[m] = Shift(base, v[m - 1], e[m]) /\ e[m] = d[k + m]
      BY <1>3, <1>4
    <3>7. m - 1 = n /\ k + m = k + n + 1
      BY <3>5
    <3>1. v[n + 1] = Shift(base, v[n], e[n + 1]) /\ e[n + 1] = d[k + n + 1]
      BY <3>5, <3>6, <3>7
    <3>2. u[k + n + 1] = Shift(base, u[k + n], d[k + n + 1])
      BY <1>1
    <3>3. v[n] = u[k + n]
      BY <2>2
    <3>4. v[n + 1] = u[k + (n + 1)]
      BY <3>1, <3>2, <3>3
    <3> QED
      BY <3>4
  <2> HIDE DEF S
  <2>3. N - k \in Nat
    OBVIOUS
  <2>4. 0 .. N - k \subseteq S
    BY <2>1, <2>2, <2>3, InductionUpTo
  <2> QED
    BY <2>4 DEF S
<1>7. v[N - k] = u[N]
  BY <1>6
<1> QED
  BY <1>1, <1>2, <1>4, <1>7

(* The number of a few digits, written out.                                 *)
LEMMA TwoDigits ==
  ASSUME NEW base \in Nat, NEW d \in Seq(Nat), Len(d) = 2
  PROVE  InBase(base, d) = d[1] * base + d[2]
<1>1. PICK u \in [0 .. 2 -> Nat] :
        /\ u[0] = 0
        /\ \A n \in 1 .. 2 : u[n] = Shift(base, u[n - 1], d[n])
        /\ InBase(base, d) = u[2]
  BY InBaseIs
<1>2. u[1] = Shift(base, u[0], d[1]) /\ u[2] = Shift(base, u[1], d[2]) /\ d[1] \in Nat
  BY <1>1
<1>3. u[1] = d[1]
  BY <1>1, <1>2, ShiftZero
<1> QED
  BY <1>1, <1>2, <1>3 DEF Shift

LEMMA FourDigits ==
  ASSUME NEW base \in Nat, NEW d \in Seq(Nat), Len(d) = 4
  PROVE  InBase(base, d) = ((d[1] * base + d[2]) * base + d[3]) * base + d[4]
<1>1. PICK u \in [0 .. 4 -> Nat] :
        /\ u[0] = 0
        /\ \A n \in 1 .. 4 : u[n] = Shift(base, u[n - 1], d[n])
        /\ InBase(base, d) = u[4]
  BY InBaseIs
<1>2. /\ u[1] = Shift(base, u[0], d[1]) /\ u[2] = Shift(base, u[1], d[2]) /\ d[1] \in Nat
      /\ u[3] = Shift(base, u[2], d[3]) /\ u[4] = Shift(base, u[3], d[4])
  BY <1>1, SMTT(30)
<1>3. u[1] = d[1]
  BY <1>1, <1>2, ShiftZero
<1> QED
  BY <1>1, <1>2, <1>3 DEF Shift

LEMMA OneDigit ==
  ASSUME NEW base \in Nat, NEW d \in Seq(Nat), Len(d) = 1
  PROVE  InBase(base, d) = d[1]
<1>1. PICK u \in [0 .. 1 -> Nat] :
        /\ u[0] = 0
        /\ \A n \in 1 .. 1 : u[n] = Shift(base, u[n - 1], d[n])
        /\ InBase(base, d) = u[1]
  BY InBaseIs
<1>2. u[1] = Shift(base, u[0], d[1]) /\ d[1] \in Nat
  <2>1. PICK n \in 1 .. 1 : n = 1 /\ n - 1 = 0
    OBVIOUS
  <2>2. u[n] = Shift(base, u[n - 1], d[n])
    BY <1>1, <2>1, Zenon
  <2>3. d[1] \in Nat
    BY <2>1, DigitType
  <2> QED
    BY <2>1, <2>2, <2>3, Zenon
<1> QED
  BY <1>1, <1>2, ShiftZero

LEMMA NoDigit ==
  ASSUME NEW base \in Nat
  PROVE  InBase(base, <<>>) = 0
<1>1. PICK d \in Seq(Nat) : d = <<>> /\ Len(d) = 0
  BY EmptySeq
<1>2. PICK N \in Nat : N = 0
  OBVIOUS
<1>3. Len(d) = N
  BY <1>1, <1>2
<1>4. PICK u \in [0 .. N -> Nat] :
        /\ u[0] = 0
        /\ \A n \in 1 .. N : u[n] = Shift(base, u[n - 1], d[n])
        /\ InBase(base, d) = u[N]
  BY <1>3, InBaseIs, Zenon
<1> QED
  BY <1>1, <1>2, <1>4

(* The number of eight digits of which the first four are 0.                *)
LEMMA EightDigits ==
  ASSUME NEW base \in Nat, NEW d \in Seq(Nat), Len(d) = 8, \A i \in 1 .. 4 : d[i] = 0
  PROVE  InBase(base, d) = ((d[5] * base + d[6]) * base + d[7]) * base + d[8]
<1>1. PICK e : e = SubSeq(d, 5, 8)
  OBVIOUS
<1>2. e \in Seq(Nat) /\ Len(e) = 4 /\ e[1] = d[5] /\ e[2] = d[6] /\ e[3] = d[7] /\ e[4] = d[8]
  <2>1. \A i \in 5 .. 8 : d[i] \in Nat
    <3>1. \A i \in 1 .. Len(d) : d[i] \in Nat
      BY DigitType, Zenon
    <3> QED
      BY <3>1
  <2>2. /\ e \in Seq(Nat)
        /\ Len(e) = IF 5 <= 8 THEN 8 - 5 + 1 ELSE 0
        /\ \A i \in 1 .. 8 - 5 + 1 : e[i] = d[5 + i - 1]
    BY <1>1, <2>1, SubSeqProperties
  <2> QED
    BY <2>2
<1>3. InBase(base, e) = InBase(base, d)
  <2>1. PICK k, N : k = 4 /\ N = 8 /\ N \in Nat /\ k \in 0 .. N /\ Len(d) = N /\ k + 1 = 5
    OBVIOUS
  <2>2. \A i \in 1 .. k : d[i] = 0
    BY <2>1
  <2>3. InBase(base, SubSeq(d, k + 1, N)) = InBase(base, d)
    BY <2>1, <2>2, DropZeros
  <2> QED
    BY <1>1, <2>1, <2>3
<1>4. InBase(base, e) = ((e[1] * base + e[2]) * base + e[3]) * base + e[4]
  BY <1>2, FourDigits
<1> QED
  BY <1>2, <1>3, <1>4

(* A number and its bytes.                                                  *)
Narrow(n) == n <= 2147483647

LEMMA Powers == 256 ^ 0 = 1 /\ 256 ^ 1 = 256 /\ 256 ^ 2 = 65536 /\ 256 ^ 3 = 16777216
  BY SMT

LEMMA SmallPowers == 256 ^ 0 = 1 /\ 256 ^ 1 = 256
  BY SMT

LEMMA ByteOfIs ==
  ASSUME NEW n \in Nat, NEW size \in Nat, NEW i \in Nat, NEW k \in 0 .. 3, k = size - i
  PROVE  ByteOf(n, i, size) = (n \div 256 ^ k) % 256
<1>1. ~ (size - i > 3)
  OBVIOUS
<1>2. ByteOf(n, i, size) = (n \div 256 ^ (size - i)) % 256
  BY <1>1, Zenon DEF ByteOf
<1> QED
  BY <1>2

LEMMA HighByteOf ==
  ASSUME NEW n \in Nat, NEW size \in Nat, NEW i \in Nat, size - i > 3
  PROVE  ByteOf(n, i, size) = 0
  BY Zenon DEF ByteOf

LEMMA LowByteOf ==
  ASSUME NEW n \in Nat, NEW size \in Nat
  PROVE  ByteOf(n, size, size) = n % 256
<1>1. PICK k \in 0 .. 3 : k = size - size /\ k = 0
  OBVIOUS
<1>2. ByteOf(n, size, size) = (n \div 256 ^ k) % 256
  BY <1>1, ByteOfIs
<1>3. n \div 1 = n
  OBVIOUS
<1> QED
  BY <1>1, <1>2, <1>3, SmallPowers

LEMMA ByteOfType ==
  ASSUME NEW n \in Nat, NEW size \in {1, 2, 4, 8}, NEW i \in 1 .. size
  PROVE  ByteOf(n, i, size) \in 0 .. 255
<1>0. size \in Nat /\ i \in Nat /\ size - i \in Nat
  OBVIOUS
<1>1. CASE size - i > 3
  <2>1. ByteOf(n, i, size) = 0
    BY <1>0, <1>1, HighByteOf
  <2> QED
    BY <2>1
<1>2. CASE size - i <= 3
  <2>1. PICK k \in 0 .. 3 : k = size - i
    BY <1>0, <1>2
  <2>2. ByteOf(n, i, size) = (n \div 256 ^ k) % 256
    <3>1. ~ (size - i > 3)
      BY <1>0, <1>2
    <3>2. ByteOf(n, i, size) = (n \div 256 ^ (size - i)) % 256
      BY <3>1, Zenon DEF ByteOf
    <3> QED
      BY <2>1, <3>2
  <2>3. 256 ^ k \in Nat \ {0}
    <3>1. k = 0 \/ k = 1 \/ k = 2 \/ k = 3
      OBVIOUS
    <3>2. CASE k = 0
      BY <3>2, SmallPowers
    <3>3. CASE k = 1
      BY <3>3, SmallPowers
    <3>4. CASE k = 2
      BY <3>4, Powers, SMT
    <3>5. CASE k = 3
      BY <3>5, Powers, SMT
    <3> QED
      BY <3>1, <3>2, <3>3, <3>4, <3>5, Zenon
  <2>4. (n \div 256 ^ k) % 256 \in 0 .. 255
    BY <2>3
  <2> QED
    BY <2>2, <2>4
<1> QED
  BY <1>0, <1>1, <1>2

LEMMA FourBytes ==
  ASSUME NEW n \in Nat, Narrow(n)
  PROVE  ((((n \div 256 ^ 3) % 256) * 256 + ((n \div 256 ^ 2) % 256)) * 256 + ((n \div 256) % 256)) * 256
           + (n % 256) = n
  BY Powers, SMT DEF Narrow

LEMMA TwoBytes ==
  ASSUME NEW n \in Nat
  PROVE  ((n \div 256) % 256) * 256 + (n % 256) = n % 256 ^ 2
  BY Powers, SMT

ColumnOf(n, size) == [i \in 1 .. size |-> ByteOf(n, i, size)]

Byte == 0 .. 255
Wide(n, size) == IF size <= 2 THEN n % 256 ^ size ELSE n

LEMMA NumberOfColumn ==
  ASSUME NEW n \in Nat, NEW size \in {1, 2, 4, 8}, size > 2 => Narrow(n)
  PROVE  /\ ColumnOf(n, size) \in Seq(Nat) /\ Len(ColumnOf(n, size)) = size
         /\ \A i \in 1 .. size : ColumnOf(n, size)[i] \in Byte
         /\ Number(ColumnOf(n, size)) = Wide(n, size)
<1>1. PICK d : d = ColumnOf(n, size)
  OBVIOUS
<1>2. \A i \in 1 .. size : ByteOf(n, i, size) \in 0 .. 255
  BY ByteOfType, ZenonT(60)
<1>3. d = [i \in 1 .. size |-> ByteOf(n, i, size)]
  BY <1>1 DEF ColumnOf
<1>4. \A i \in 1 .. size : d[i] = ByteOf(n, i, size) /\ d[i] \in 0 .. 255
  BY <1>2, <1>3
<1>5. d \in Seq(Nat) /\ Len(d) = size
  <2>1. \A i \in 1 .. size : ByteOf(n, i, size) \in Nat
    BY <1>2
  <2> QED
    BY <1>3, <2>1
<1>6. CASE size = 1
  <2>1. d[1] = n % 256
    BY <1>4, <1>6, LowByteOf
  <2>2. Number(d) = d[1]
    BY <1>5, <1>6, OneDigit DEF Number
  <2> QED
    BY <1>1, <1>4, <1>5, <1>6, <2>1, <2>2, SmallPowers DEF Byte, Wide
<1>7. CASE size = 2
  <2>1. ByteOf(n, 1, 2) = (n \div 256 ^ 1) % 256 /\ ByteOf(n, 2, 2) = n % 256
    <3>1. 1 \in 0 .. 3 /\ 1 = 2 - 1
      OBVIOUS
    <3> QED
      BY <3>1, ByteOfIs, LowByteOf
  <2>2. d[1] = (n \div 256) % 256 /\ d[2] = n % 256
    BY <1>4, <1>7, <2>1, SmallPowers
  <2>3. Number(d) = d[1] * 256 + d[2]
    BY <1>5, <1>7, TwoDigits DEF Number
  <2>4. Number(d) = n % 256 ^ 2
    BY <2>2, <2>3, TwoBytes
  <2> QED
    BY <1>1, <1>4, <1>5, <1>7, <2>4 DEF Byte, Wide
<1>8. CASE size = 4
  <2>1. /\ ByteOf(n, 1, 4) = (n \div 256 ^ 3) % 256 /\ ByteOf(n, 2, 4) = (n \div 256 ^ 2) % 256
        /\ ByteOf(n, 3, 4) = (n \div 256 ^ 1) % 256 /\ ByteOf(n, 4, 4) = n % 256
    <3>1. 3 \in 0 .. 3 /\ 2 \in 0 .. 3 /\ 1 \in 0 .. 3 /\ 3 = 4 - 1 /\ 2 = 4 - 2 /\ 1 = 4 - 3
      OBVIOUS
    <3> QED
      BY <3>1, ByteOfIs, LowByteOf
  <2>2. /\ d[1] = (n \div 256 ^ 3) % 256 /\ d[2] = (n \div 256 ^ 2) % 256
        /\ d[3] = (n \div 256) % 256 /\ d[4] = n % 256
    BY <1>4, <1>8, <2>1, SmallPowers
  <2>3. Number(d) = ((d[1] * 256 + d[2]) * 256 + d[3]) * 256 + d[4]
    BY <1>5, <1>8, FourDigits DEF Number
  <2>4. Number(d) = n
    BY <1>8, <2>2, <2>3, FourBytes
  <2> QED
    BY <1>1, <1>4, <1>5, <1>8, <2>4 DEF Byte, Wide
<1>9. CASE size = 8
  <2>1. /\ ByteOf(n, 5, 8) = (n \div 256 ^ 3) % 256 /\ ByteOf(n, 6, 8) = (n \div 256 ^ 2) % 256
        /\ ByteOf(n, 7, 8) = (n \div 256 ^ 1) % 256 /\ ByteOf(n, 8, 8) = n % 256
    <3>1. 3 \in 0 .. 3 /\ 2 \in 0 .. 3 /\ 1 \in 0 .. 3 /\ 3 = 8 - 5 /\ 2 = 8 - 6 /\ 1 = 8 - 7
      OBVIOUS
    <3> QED
      BY <3>1, ByteOfIs, LowByteOf
  <2>2. /\ d[5] = (n \div 256 ^ 3) % 256 /\ d[6] = (n \div 256 ^ 2) % 256
        /\ d[7] = (n \div 256) % 256 /\ d[8] = n % 256
    BY <1>4, <1>9, <2>1, SmallPowers
  <2>3. \A i \in 1 .. 4 : d[i] = 0
    <3>1. \A i \in 1 .. 4 : ByteOf(n, i, 8) = 0
      BY HighByteOf
    <3> QED
      BY <1>4, <1>9, <3>1
  <2>4. Number(d) = ((d[5] * 256 + d[6]) * 256 + d[7]) * 256 + d[8]
    <3>1. 256 \in Nat /\ Len(d) = 8 /\ d \in Seq(Nat)
      BY <1>5, <1>9
    <3>2. InBase(256, d) = ((d[5] * 256 + d[6]) * 256 + d[7]) * 256 + d[8]
      BY <2>3, <3>1, EightDigits, ZenonT(60)
    <3> QED
      BY <3>2 DEF Number
  <2>5. Number(d) = n
    BY <1>9, <2>2, <2>4, FourBytes
  <2> QED
    BY <1>1, <1>4, <1>5, <1>9, <2>5 DEF Byte, Wide
<1> QED
  BY <1>6, <1>7, <1>8, <1>9

------------------------------------------------------------------------------
(* Parts put one behind the other.                                          *)

Agrees(s, w, n) ==
  /\ s \in Seq(Nat) /\ Len(s) = n
  /\ \A i \in 1 .. n : s[i] = w[i]

Continues(t, w, n, m) ==
  /\ t \in Seq(Nat) /\ Len(t) = m
  /\ \A i \in 1 .. m : t[i] = w[n + i]

LEMMA Extended ==
  ASSUME NEW w, NEW s, NEW t, NEW n \in Nat, NEW m \in Nat, Agrees(s, w, n), Continues(t, w, n, m)
  PROVE  Agrees(s \o t, w, n + m)
<1>1. /\ s \in Seq(Nat) /\ Len(s) = n /\ \A i \in 1 .. n : s[i] = w[i]
      /\ t \in Seq(Nat) /\ Len(t) = m /\ \A i \in 1 .. m : t[i] = w[n + i]
  BY DEF Agrees, Continues
<1>2. PICK r : r = s \o t
  OBVIOUS
<1>3. /\ r \in Seq(Nat) /\ Len(r) = n + m
      /\ \A i \in 1 .. n + m : r[i] = IF i <= n THEN s[i] ELSE t[i - n]
  <2>1. /\ s \o t \in Seq(Nat) /\ Len(s \o t) = Len(s) + Len(t)
        /\ \A i \in 1 .. Len(s) + Len(t) : (s \o t)[i] = IF i <= Len(s) THEN s[i] ELSE t[i - Len(s)]
    BY <1>1, ConcatProperties, Zenon
  <2> QED
    BY <1>1, <1>2, <2>1
<1>4. ASSUME NEW i \in 1 .. n + m PROVE r[i] = w[i]
  <2>1. CASE i <= n
    BY <1>1, <1>3, <2>1
  <2>2. CASE i > n
    <3>1. i - n \in 1 .. m /\ n + (i - n) = i
      BY <2>2
    <3>2. t[i - n] = w[n + (i - n)]
      BY <1>1, <3>1
    <3> QED
      BY <1>3, <2>2, <3>1, <3>2
  <2> QED
    BY <2>1, <2>2
<1> QED
  BY <1>2, <1>3, <1>4 DEF Agrees

(* Where each part of some lengths ends, counted from 0.                    *)
Ends(e, len, N) ==
  /\ e \in [0 .. N -> Nat]
  /\ e[0] = 0
  /\ \A n \in 1 .. N : e[n] = e[n - 1] + len[n]

LEMMA EndsExist ==
  ASSUME NEW N \in Nat, NEW len, \A n \in 1 .. N : len[n] \in Nat
  PROVE  \E e : Ends(e, len, N)
<1> DEFINE step == [x \in Nat \X (1 .. N) |-> x[1] + len[x[2]]]
<1>1. Automaton(N, Nat, 0, step)
  BY DEF Automaton
<1>2. PICK f \in [0 .. N -> Nat] : f[0] = 0 /\ \A n \in 1 .. N : f[n] = step[<<f[n - 1], n>>]
  <2> HIDE DEF step
  <2>1. \E f : AutomatonRun(f, N, Nat, 0, step)
    BY <1>1, RunExists, Zenon
  <2> QED
    BY <2>1 DEF AutomatonRun
<1>3. \A n \in 1 .. N : f[n] = f[n - 1] + len[n]
  <2> TAKE n \in 1 .. N
  <2>1. f[n - 1] \in Nat
    BY <1>2
  <2>2. PICK x : x = <<f[n - 1], n>>
    OBVIOUS
  <2>3. x \in Nat \X (1 .. N) /\ x[1] = f[n - 1] /\ x[2] = n
    BY <2>1, <2>2
  <2>4. step[x] = x[1] + len[x[2]]
    BY <2>3
  <2> QED
    BY <1>2, <2>2, <2>3, <2>4
<1> QED
  BY <1>2, <1>3 DEF Ends

LEMMA EndsGrow ==
  ASSUME NEW N \in Nat, NEW len, NEW e, Ends(e, len, N), \A n \in 1 .. N : len[n] \in Nat,
         NEW m \in 0 .. N, NEW k \in 0 .. m
  PROVE  e[k] <= e[m]
<1> DEFINE S == {n \in 0 .. N : \A j \in 0 .. n : e[j] <= e[n]}
<1>0. e \in [0 .. N -> Nat] /\ \A n \in 1 .. N : e[n] = e[n - 1] + len[n]
  BY DEF Ends
<1>1. 0 \in S
  BY <1>0
<1>2. ASSUME NEW n \in 0 .. N - 1, n \in S PROVE n + 1 \in S
  <2>1. e[n + 1] = e[n] + len[n + 1] /\ len[n + 1] \in Nat /\ e[n] \in Nat
    BY <1>0
  <2>2. ASSUME NEW j \in 0 .. n + 1 PROVE e[j] <= e[n + 1]
    <3>1. CASE j = n + 1
      BY <1>0, <3>1
    <3>2. CASE j \in 0 .. n
      <4>1. e[j] <= e[n] /\ e[j] \in Nat
        BY <1>0, <1>2, <3>2
      <4> QED
        BY <2>1, <4>1
    <3> QED
      BY <3>1, <3>2
  <2> QED
    BY <2>2
<1> HIDE DEF S
<1>3. 0 .. N \subseteq S
  BY <1>1, <1>2, InductionUpTo
<1> QED
  BY <1>3 DEF S

LEMMA StartsIs ==
  ASSUME NEW start \in Nat, NEW N \in Nat, NEW len \in Seq(Nat), Len(len) = N, NEW e, Ends(e, len, N)
  PROVE  Starts(start, len) = [i \in 1 .. N |-> start + e[i - 1]]
<1> DEFINE Runs(g) == g = [i \in 1 .. N |-> IF i = 1 THEN start ELSE g[i - 1] + len[i - 1]]
           f == [i \in 1 .. N |-> start + e[i - 1]]
<1>0. e \in [0 .. N -> Nat] /\ e[0] = 0 /\ \A n \in 1 .. N : e[n] = e[n - 1] + len[n]
  BY DEF Ends
<1>1. Runs(f)
  <2>1. ASSUME NEW i \in 1 .. N PROVE f[i] = IF i = 1 THEN start ELSE f[i - 1] + len[i - 1]
    <3>1. CASE i = 1
      BY <1>0, <3>1
    <3>2. CASE i # 1
      <4>1. PICK n \in 1 .. N : n = i - 1 /\ i \in 2 .. N
        BY <3>2
      <4>2. e[n] = e[n - 1] + len[n] /\ e[n - 1] \in Nat /\ len[n] \in Nat
        BY <1>0, <4>1, SMTT(30)
      <4>3. f[i] = start + e[n] /\ f[n] = start + e[n - 1]
        BY <4>1
      <4> QED
        BY <3>2, <4>1, <4>2, <4>3
    <3> QED
      BY <3>1, <3>2
  <2> QED
    BY <2>1
<1> HIDE DEF f
<1>2. Starts(start, len) = CHOOSE g : Runs(g)
  BY DEF Starts
<1>3. Runs(Starts(start, len))
  <2> HIDE DEF Runs
  <2> QED
    BY <1>1, <1>2, Zenon
<1>4. PICK g : g = Starts(start, len)
  OBVIOUS
<1>5. g = [i \in 1 .. N |-> IF i = 1 THEN start ELSE g[i - 1] + len[i - 1]]
  BY <1>3, <1>4
<1>6. CASE N = 0
  BY <1>4, <1>5, <1>6 DEF f
<1>7. CASE N # 0
  <2> DEFINE S == {n \in 0 .. N - 1 : g[n + 1] = start + e[n]}
  <2>1. 0 \in S
    BY <1>0, <1>5, <1>7
  <2>2. ASSUME NEW n \in 0 .. (N - 1) - 1, n \in S PROVE n + 1 \in S
    <3>1. PICK i \in 1 .. N : i = n + 2 /\ i # 1 /\ i - 1 = n + 1 /\ n + 1 \in 1 .. N /\ (n + 1) - 1 = n
      OBVIOUS
    <3>2. g[i] = g[n + 1] + len[n + 1]
      BY <1>5, <3>1
    <3>3. e[n + 1] = e[n] + len[n + 1] /\ e[n] \in Nat /\ len[n + 1] \in Nat
      BY <1>0, <3>1, SMTT(30)
    <3>4. g[n + 1] = start + e[n]
      BY <2>2
    <3>5. g[(n + 1) + 1] = start + e[n + 1]
      BY <3>1, <3>2, <3>3, <3>4
    <3> QED
      BY <3>1, <3>5
  <2> HIDE DEF S
  <2>3. N - 1 \in Nat
    BY <1>7
  <2>4. 0 .. N - 1 \subseteq S
    BY <2>1, <2>2, <2>3, InductionUpTo
  <2>5. ASSUME NEW i \in 1 .. N PROVE g[i] = start + e[i - 1]
    <3>1. PICK n \in 0 .. N - 1 : n = i - 1 /\ n + 1 = i
      OBVIOUS
    <3>2. g[n + 1] = start + e[n]
      BY <2>4 DEF S
    <3> QED
      BY <3>1, <3>2
  <2> QED
    BY <1>4, <1>5, <2>5
<1> QED
  BY <1>6, <1>7

LEMMA ConcatIs ==
  ASSUME NEW S, NEW s \in Seq(S), NEW q \in Seq(S), NEW t, t = s \o q
  PROVE  /\ t \in Seq(S) /\ Len(t) = Len(s) + Len(q)
         /\ \A j \in 1 .. Len(s) + Len(q) : t[j] = IF j <= Len(s) THEN s[j] ELSE q[j - Len(s)]
  BY ConcatProperties

LEMMA Within ==
  ASSUME NEW a \in Nat, NEW b \in Nat, NEW c \in Nat, NEW d \in Nat, NEW l \in Nat, NEW j \in 1 .. l,
         b = a + l, b <= c
  PROVE  a + j \in 1 .. c + d /\ a + j <= c
  OBVIOUS

LEMMA Behind ==
  ASSUME NEW a \in Nat, NEW l \in Nat, NEW j \in 1 .. l
  PROVE  a + j \in 1 .. a + l /\ ~ (a + j <= a) /\ (a + j) - a = j
  OBVIOUS

(* The pieces of a flattened sequence lie between the ends.                 *)
Pieced(flat, S, seqs, len, e, N) ==
  /\ flat \in Seq(S) /\ Len(flat) = e[N]
  /\ \A n \in 1 .. N : \A j \in 1 .. len[n] : flat[e[n - 1] + j] = seqs[n][j]

LEMMA FlattenIs ==
  ASSUME NEW S, NEW N \in Nat \ {0}, NEW seqs \in Seq(Seq(S)), Len(seqs) = N,
         NEW len, \A n \in 1 .. N : len[n] = Len(seqs[n]), NEW e, Ends(e, len, N)
  PROVE  Pieced(FlattenSeq(seqs), S, seqs, len, e, N)
<1> DEFINE Runs(g) == g = [i \in 1 .. N |-> IF i = 1 THEN seqs[i] ELSE g[i - 1] \o seqs[i]]
           step == [x \in Seq(S) \X (1 .. N) |-> x[1] \o seqs[x[2]]]
<1>0. /\ e \in [0 .. N -> Nat] /\ e[0] = 0 /\ \A n \in 1 .. N : e[n] = e[n - 1] + len[n]
      /\ \A n \in 1 .. N : seqs[n] \in Seq(S) /\ len[n] \in Nat
  BY DEF Ends
<1>1. Automaton(N, Seq(S), <<>>, step)
  <2>1. \A x \in Seq(S) \X (1 .. N) : x[1] \o seqs[x[2]] \in Seq(S)
    BY <1>0
  <2>2. <<>> \in Seq(S)
    OBVIOUS
  <2> QED
    BY <2>1, <2>2 DEF Automaton
<1>2. PICK r \in [0 .. N -> Seq(S)] : r[0] = <<>> /\ \A n \in 1 .. N : r[n] = step[<<r[n - 1], n>>]
  <2> HIDE DEF step
  <2>1. \E f : AutomatonRun(f, N, Seq(S), <<>>, step)
    BY <1>1, RunExists, Zenon
  <2> QED
    BY <2>1 DEF AutomatonRun
<1>3. \A n \in 1 .. N : r[n] = r[n - 1] \o seqs[n]
  <2> TAKE n \in 1 .. N
  <2>1. r[n - 1] \in Seq(S)
    BY <1>2
  <2>2. PICK x : x = <<r[n - 1], n>>
    OBVIOUS
  <2>3. x \in Seq(S) \X (1 .. N) /\ x[1] = r[n - 1] /\ x[2] = n
    BY <2>1, <2>2
  <2>4. step[x] = x[1] \o seqs[x[2]]
    BY <2>3
  <2> QED
    BY <1>2, <2>2, <2>3, <2>4
<1> HIDE DEF step
<1> DEFINE f == [i \in 1 .. N |-> r[i]]
<1>4. Runs(f)
  <2>1. r[1] = seqs[1]
    <3>1. 1 \in 1 .. N /\ 1 - 1 = 0
      OBVIOUS
    <3>2. r[1] = r[0] \o seqs[1]
      BY <1>3, <3>1
    <3> QED
      BY <1>0, <1>2, <3>1, <3>2, ConcatEmptySeq
  <2>2. ASSUME NEW i \in 1 .. N PROVE f[i] = IF i = 1 THEN seqs[i] ELSE f[i - 1] \o seqs[i]
    <3>1. CASE i = 1
      BY <2>1, <3>1
    <3>2. CASE i # 1
      <4>1. i - 1 \in 1 .. N
        BY <3>2
      <4>2. f[i] = r[i] /\ f[i - 1] = r[i - 1]
        BY <4>1
      <4> QED
        BY <1>3, <3>2, <4>2
    <3> QED
      BY <3>1, <3>2
  <2> QED
    BY <2>2
<1> HIDE DEF f
<1>5. FlattenSeq(seqs) = (CHOOSE g : Runs(g))[N]
  BY DEF FlattenSeq
<1>6. Runs(CHOOSE g : Runs(g))
  <2> HIDE DEF Runs
  <2> QED
    BY <1>4, Zenon
<1>7. PICK g : g = (CHOOSE h : Runs(h)) /\ Runs(g)
  <2> HIDE DEF Runs
  <2> QED
    BY <1>6, Zenon
<1>8. g = [i \in 1 .. N |-> IF i = 1 THEN seqs[i] ELSE g[i - 1] \o seqs[i]]
  BY <1>7
<1>9. FlattenSeq(seqs) = g[N]
  <2> HIDE DEF Runs
  <2> QED
    BY <1>5, <1>7, Zenon
<1> HIDE DEF Runs
<1> DEFINE Laid(s, n) == /\ s \in Seq(S) /\ Len(s) = e[n]
                         /\ \A k \in 1 .. n : \A j \in 1 .. len[k] : s[e[k - 1] + j] = seqs[k][j]
           T == {n \in 0 .. N - 1 : Laid(g[n + 1], n + 1)}
<1>10. 0 \in T
  <2>1. g[1] = seqs[1] /\ e[1] = len[1] /\ len[1] = Len(seqs[1])
    <3>1. 1 \in 1 .. N /\ 1 - 1 = 0
      OBVIOUS
    <3>2. e[1] = e[0] + len[1]
      BY <1>0, <3>1
    <3>3. g[1] = seqs[1]
      BY <1>8, <3>1
    <3> QED
      BY <1>0, <3>1, <3>2, <3>3
  <2>2. \A k \in 1 .. 1 : \A j \in 1 .. len[k] : g[1][e[k - 1] + j] = seqs[k][j]
    BY <1>0, <2>1
  <2> QED
    BY <1>0, <2>1, <2>2
<1>11. ASSUME NEW n \in 0 .. (N - 1) - 1, n \in T PROVE n + 1 \in T
  <2>1. PICK i \in 1 .. N : i = n + 2 /\ i # 1 /\ i - 1 = n + 1
    OBVIOUS
  <2>2. PICK s : s = g[n + 1]
    OBVIOUS
  <2>3. Laid(s, i - 1)
    BY <1>11, <2>1, <2>2
  <2>4. g[i] = s \o seqs[i]
    BY <1>8, <2>1, <2>2
  <2>5. PICK t : t = s \o seqs[i]
    OBVIOUS
  <2>6. /\ t \in Seq(S) /\ Len(t) = Len(s) + Len(seqs[i])
        /\ \A j \in 1 .. Len(s) + Len(seqs[i]) : t[j] = IF j <= Len(s) THEN s[j] ELSE seqs[i][j - Len(s)]
    <3>1. s \in Seq(S) /\ seqs[i] \in Seq(S)
      BY <1>0, <2>3
    <3> HIDE DEF Laid, T
    <3> QED
      BY ONLY <2>5, <3>1, ConcatIs
  <2>7. Len(s) = e[i - 1] /\ Len(seqs[i]) = len[i] /\ e[i] = e[i - 1] + len[i] /\ e[i - 1] \in Nat /\ len[i] \in Nat
    <3>1. Len(s) = e[i - 1]
      BY <2>3
    <3> HIDE DEF Laid, T
    <3>2. i - 1 \in 0 .. N /\ i \in 1 .. N
      OBVIOUS
    <3>3. e[i - 1] \in Nat /\ e[i] = e[i - 1] + len[i]
      BY <1>0, <3>2
    <3>4. len[i] \in Nat /\ len[i] = Len(seqs[i])
      BY <1>0, <3>2
    <3> QED
      BY <3>1, <3>3, <3>4
  <2>8. ASSUME NEW k \in 1 .. i, NEW j \in 1 .. len[k] PROVE t[e[k - 1] + j] = seqs[k][j]
    <3>1. CASE k = i
      <4>3. PICK a \in Nat, l \in Nat : a = e[i - 1] /\ a = Len(s) /\ l = len[i] /\ l = Len(seqs[i])
        BY <2>7, Zenon
      <4>4. j \in 1 .. l
        BY <3>1, <4>3, Zenon
      <4>5. a + j \in 1 .. a + l /\ ~ (a + j <= a) /\ (a + j) - a = j
        BY <4>4, Behind
      <4>1. e[i - 1] + j \in 1 .. Len(s) + Len(seqs[i]) /\ ~ (e[i - 1] + j <= Len(s))
        BY <4>3, <4>5, Zenon
      <4>2. (e[i - 1] + j) - Len(s) = j
        BY <4>3, <4>5, Zenon
      <4> QED
        BY <2>6, <3>1, <4>1, <4>2
    <3>2. CASE k # i
      <4>1. k \in 1 .. i - 1 /\ k \in 1 .. N /\ k - 1 \in 0 .. N
        BY <3>2
      <4>2. s[e[k - 1] + j] = seqs[k][j]
        BY <2>3, <4>1
      <4>3. e[k] <= e[i - 1] /\ e[k] = e[k - 1] + len[k] /\ e[k - 1] \in Nat /\ len[k] \in Nat
        <5>1. e[k] <= e[i - 1]
          <6>1. i - 1 \in 0 .. N /\ k \in 0 .. i - 1 /\ N \in Nat
            BY <4>1
          <6>2. \A x \in 1 .. N : len[x] \in Nat
            BY <1>0
          <6> HIDE DEF Laid, T
          <6> QED
            BY <6>1, <6>2, EndsGrow, Zenon
        <5> QED
          BY <1>0, <4>1, <5>1
      <4>4. e[k - 1] + j \in 1 .. Len(s) + Len(seqs[i]) /\ e[k - 1] + j <= Len(s)
        <5> HIDE DEF Laid, T
        <5>1. e[k - 1] \in Nat /\ e[k] \in Nat /\ e[i - 1] \in Nat /\ len[i] \in Nat /\ len[k] \in Nat
          <6>1. e[k] \in Nat
            BY <1>0, <4>1, SMTT(30)
          <6> QED
            BY <2>7, <4>3, <6>1, Zenon
        <5>2. e[k] = e[k - 1] + len[k] /\ e[k] <= e[i - 1]
          BY <4>3
        <5>3. e[k - 1] + j \in 1 .. e[i - 1] + len[i] /\ e[k - 1] + j <= e[i - 1]
          BY <5>1, <5>2, Within, Zenon
        <5> QED
          BY <2>7, <5>3
      <4> QED
        BY <2>6, <4>2, <4>4
    <3> QED
      BY <3>1, <3>2
  <2>9. Laid(g[i], i)
    BY <2>4, <2>5, <2>6, <2>7, <2>8
  <2>10. i = (n + 1) + 1 /\ n + 1 \in 0 .. N - 1
    BY <2>1
  <2> QED
    BY <2>9, <2>10
<1>12. Laid(g[N], N)
  <2> HIDE DEF Laid, T
  <2>1. N - 1 \in Nat /\ (N - 1) + 1 = N /\ N - 1 \in 0 .. N - 1
    OBVIOUS
  <2>2. 0 .. N - 1 \subseteq T
    BY <1>10, <1>11, <2>1, InductionUpTo
  <2>3. Laid(g[(N - 1) + 1], (N - 1) + 1)
    BY <2>1, <2>2 DEF T
  <2> QED
    BY <2>1, <2>3
<1> QED
  BY <1>9, <1>12 DEF Pieced

------------------------------------------------------------------------------
(* The fields of a flight, and the columns that a posted flight leaves.     *)

Width == [f \in 1 .. 29 |-> IF f <= 2 THEN 8 ELSE IF f = 29 THEN 4 ELSE IF f \in {15, 16} THEN 1 ELSE 2]
Place == [f \in 1 .. 29 |-> IF f <= 2 THEN 24 + 8 * f ELSE IF f <= 15 THEN 42 + 2 * f
                              ELSE IF f = 16 THEN 73 ELSE 40 + 2 * f]

LEMMA SizeAgrees == Agrees(Size, Width, 29)
<1>0. PICK t : t = Twos
  OBVIOUS
<1>1. t \in Seq(Nat) /\ Len(t) = 5 /\ t[1] = 2 /\ t[2] = 2 /\ t[3] = 2 /\ t[4] = 2 /\ t[5] = 2
  BY <1>0 DEF Twos
<1>2. \A i \in 1 .. 5 : t[i] = 2
  <2>1. \A i \in 1 .. 5 : i = 1 \/ i = 2 \/ i = 3 \/ i = 4 \/ i = 5
    OBVIOUS
  <2> QED
    BY <1>1, <2>1, Zenon
<1>3. \A n \in {2, 9, 16, 23} : Continues(t, Width, n, 5)
  <2>1. ASSUME NEW n \in {2, 9, 16, 23}, NEW i \in 1 .. 5 PROVE t[i] = Width[n + i]
    <3>1. n + i \in 3 .. 7 \cup 10 .. 14 \cup 17 .. 21 \cup 24 .. 28
      OBVIOUS
    <3>2. Width[n + i] = 2
      <4>1. n + i \in 1 .. 29 /\ ~ (n + i <= 2) /\ n + i # 29 /\ n + i \notin {15, 16}
        BY <3>1
      <4> QED
        BY <4>1, Zenon DEF Width
    <3> QED
      BY <1>2, <3>2
  <2> QED
    BY <1>1, <2>1 DEF Continues
<1>4. Agrees(<<8, 8>>, Width, 2)
  BY DEF Agrees, Width
<1>5. Continues(<<2, 2>>, Width, 7, 2) /\ Continues(<<2, 2>>, Width, 21, 2)
  BY DEF Continues, Width
<1>6. Continues(<<1, 1>>, Width, 14, 2)
  BY DEF Continues, Width
<1>7. Continues(<<4>>, Width, 28, 1)
  BY DEF Continues, Width
<1> DEFINE a1 == <<8, 8>> \o t
           a2 == a1 \o <<2, 2>>
           a3 == a2 \o t
           a4 == a3 \o <<1, 1>>
           a5 == a4 \o t
           a6 == a5 \o <<2, 2>>
           a7 == a6 \o t
           a8 == a7 \o <<4>>
<1>8. Size = a8
  BY <1>0 DEF Size
<1>9. Agrees(a1, Width, 7)
  <2>1. Agrees(a1, Width, 2 + 5)
    BY <1>3, <1>4, Extended
  <2> QED
    BY <2>1
<1> HIDE DEF a1
<1>10. Agrees(a2, Width, 9)
  <2>1. Agrees(a2, Width, 7 + 2)
    BY <1>5, <1>9, Extended
  <2> QED
    BY <2>1
<1> HIDE DEF a2
<1>11. Agrees(a3, Width, 14)
  <2>1. Agrees(a3, Width, 9 + 5)
    BY <1>3, <1>10, Extended
  <2> QED
    BY <2>1
<1> HIDE DEF a3
<1>12. Agrees(a4, Width, 16)
  <2>1. Agrees(a4, Width, 14 + 2)
    BY <1>6, <1>11, Extended
  <2> QED
    BY <2>1
<1> HIDE DEF a4
<1>13. Agrees(a5, Width, 21)
  <2>1. Agrees(a5, Width, 16 + 5)
    BY <1>3, <1>12, Extended
  <2> QED
    BY <2>1
<1> HIDE DEF a5
<1>14. Agrees(a6, Width, 23)
  <2>1. Agrees(a6, Width, 21 + 2)
    BY <1>5, <1>13, Extended
  <2> QED
    BY <2>1
<1> HIDE DEF a6
<1>15. Agrees(a7, Width, 28)
  <2>1. Agrees(a7, Width, 23 + 5)
    BY <1>3, <1>14, Extended
  <2> QED
    BY <2>1
<1> HIDE DEF a7
<1>16. Agrees(a8, Width, 29)
  <2>1. Agrees(a8, Width, 28 + 1)
    BY <1>7, <1>15, Extended
  <2> QED
    BY <2>1
<1> QED
  BY <1>8, <1>16

LEMMA PostedAtAgrees == Agrees(PostedAt, Place, 29)
<1> DEFINE Five(from) == [i \in 1 .. 5 |-> from + 2 * (i - 1)]
<1>3. /\ Continues(Five(48), Place, 2, 5) /\ Continues(Five(62), Place, 9, 5)
      /\ Continues(Five(74), Place, 16, 5) /\ Continues(Five(88), Place, 23, 5)
  <2>1. ASSUME NEW n \in {2, 9, 16, 23}, NEW from \in Nat, from = IF n <= 9 THEN 44 + 2 * n ELSE 42 + 2 * n
        PROVE  Continues(Five(from), Place, n, 5)
    <3>1. ASSUME NEW i \in 1 .. 5 PROVE from + 2 * (i - 1) = Place[n + i]
      <4>1. n + i \in 1 .. 29 /\ ~ (n + i <= 2) /\ n + i # 16 /\ (n + i <= 15 <=> n <= 9)
        OBVIOUS
      <4>2. Place[n + i] = IF n <= 9 THEN 42 + 2 * (n + i) ELSE 40 + 2 * (n + i)
        BY <4>1 DEF Place
      <4> QED
        BY <2>1, <4>2
    <3>2. PICK t : t = Five(from)
      OBVIOUS
    <3>3. t \in Seq(Nat) /\ Len(t) = 5 /\ \A i \in 1 .. 5 : t[i] = from + 2 * (i - 1)
      <4>1. \A i \in 1 .. 5 : from + 2 * (i - 1) \in Nat
        OBVIOUS
      <4> QED
        BY <3>2, <4>1
    <3> QED
      BY <3>1, <3>2, <3>3 DEF Continues
  <2> HIDE DEF Five
  <2>2. /\ 48 = (IF 2 <= 9 THEN 44 + 2 * 2 ELSE 42 + 2 * 2) /\ 62 = (IF 9 <= 9 THEN 44 + 2 * 9 ELSE 42 + 2 * 9)
        /\ 74 = (IF 16 <= 9 THEN 44 + 2 * 16 ELSE 42 + 2 * 16) /\ 88 = (IF 23 <= 9 THEN 44 + 2 * 23 ELSE 42 + 2 * 23)
    OBVIOUS
  <2> QED
    BY <2>1, <2>2
<1>4. Agrees(<<32, 40>>, Place, 2)
  BY DEF Agrees, Place
<1>5. Continues(<<58, 60>>, Place, 7, 2) /\ Continues(<<84, 86>>, Place, 21, 2)
  BY DEF Continues, Place
<1>6. Continues(<<72, 73>>, Place, 14, 2)
  BY DEF Continues, Place
<1>7. Continues(<<98>>, Place, 28, 1)
  BY DEF Continues, Place
<1> DEFINE a1 == <<32, 40>> \o Five(48)
           a2 == a1 \o <<58, 60>>
           a3 == a2 \o Five(62)
           a4 == a3 \o <<72, 73>>
           a5 == a4 \o Five(74)
           a6 == a5 \o <<84, 86>>
           a7 == a6 \o Five(88)
           a8 == a7 \o <<98>>
<1>8. PostedAt = a8
  BY DEF PostedAt
<1> HIDE DEF Five
<1>9. Agrees(a1, Place, 7)
  <2>1. Agrees(a1, Place, 2 + 5)
    BY <1>3, <1>4, Extended
  <2> QED
    BY <2>1
<1> HIDE DEF a1
<1>10. Agrees(a2, Place, 9)
  <2>1. Agrees(a2, Place, 7 + 2)
    BY <1>5, <1>9, Extended
  <2> QED
    BY <2>1
<1> HIDE DEF a2
<1>11. Agrees(a3, Place, 14)
  <2>1. Agrees(a3, Place, 9 + 5)
    BY <1>3, <1>10, Extended
  <2> QED
    BY <2>1
<1> HIDE DEF a3
<1>12. Agrees(a4, Place, 16)
  <2>1. Agrees(a4, Place, 14 + 2)
    BY <1>6, <1>11, Extended
  <2> QED
    BY <2>1
<1> HIDE DEF a4
<1>13. Agrees(a5, Place, 21)
  <2>1. Agrees(a5, Place, 16 + 5)
    BY <1>3, <1>12, Extended
  <2> QED
    BY <2>1
<1> HIDE DEF a5
<1>14. Agrees(a6, Place, 23)
  <2>1. Agrees(a6, Place, 21 + 2)
    BY <1>5, <1>13, Extended
  <2> QED
    BY <2>1
<1> HIDE DEF a6
<1>15. Agrees(a7, Place, 28)
  <2>1. Agrees(a7, Place, 23 + 5)
    BY <1>3, <1>14, Extended
  <2> QED
    BY <2>1
<1> HIDE DEF a7
<1>16. Agrees(a8, Place, 29)
  <2>1. Agrees(a8, Place, 28 + 1)
    BY <1>7, <1>15, Extended
  <2> QED
    BY <2>1
<1> QED
  BY <1>8, <1>16

LEMMA FieldsAre ==
  /\ Field = 1 .. 29
  /\ Size \in Seq(Nat) /\ Len(Size) = 29
  /\ \A f \in 1 .. 29 : Size[f] = Width[f] /\ PostedAt[f] = Place[f]
<1>1. Size \in Seq(Nat) /\ Len(Size) = 29 /\ \A f \in 1 .. 29 : Size[f] = Width[f]
  BY SizeAgrees DEF Agrees
<1>2. \A f \in 1 .. 29 : PostedAt[f] = Place[f]
  BY PostedAtAgrees DEF Agrees
<1>3. Field = 1 .. 29
  BY <1>1 DEF Field
<1> QED
  BY <1>1, <1>2, <1>3

LEMMA WidthIs ==
  ASSUME NEW f \in 1 .. 29
  PROVE  /\ Width[f] \in {1, 2, 4, 8}
         /\ Width[f] = IF f <= 2 THEN 8 ELSE IF f = 29 THEN 4 ELSE IF f \in {15, 16} THEN 1 ELSE 2
  BY DEF Width

LEMMA PlaceIs ==
  ASSUME NEW f \in 1 .. 29
  PROVE  /\ Place[f] \in 32 .. 98
         /\ Place[f] = IF f <= 2 THEN 24 + 8 * f ELSE IF f <= 15 THEN 42 + 2 * f
                       ELSE IF f = 16 THEN 73 ELSE 40 + 2 * f
  BY DEF Place

LEMMA FieldIs ==
  ASSUME NEW f \in 1 .. 29
  PROVE  /\ f \in Field /\ Size[f] = Width[f] /\ PostedAt[f] = Place[f]
         /\ Width[f] \in Nat /\ Place[f] \in 32 .. 98 /\ Place[f] \in Nat /\ Size[f] \in {1, 2, 4, 8}
<1>1. f \in Field /\ Size[f] = Width[f] /\ PostedAt[f] = Place[f]
  BY FieldsAre, Zenon
<1>2. Width[f] \in {1, 2, 4, 8}
  BY WidthIs
<1>3. Place[f] \in 32 .. 98
  BY PlaceIs
<1> QED
  BY <1>1, <1>2, <1>3

LEMMA PlacesApart ==
  ASSUME NEW f \in 1 .. 29, NEW g \in 1 .. 29, f < g
  PROVE  Place[f] + Width[f] <= Place[g]
<1>1. PICK a \in Nat : a = Place[f]
  BY PlaceIs
<1>2. PICK w \in Nat : w = Width[f]
  BY WidthIs
<1>3. PICK b \in Nat : b = Place[g]
  BY PlaceIs
<1>4. a = IF f <= 2 THEN 24 + 8 * f ELSE IF f <= 15 THEN 42 + 2 * f ELSE IF f = 16 THEN 73 ELSE 40 + 2 * f
  BY <1>1, PlaceIs
<1>5. b = IF g <= 2 THEN 24 + 8 * g ELSE IF g <= 15 THEN 42 + 2 * g ELSE IF g = 16 THEN 73 ELSE 40 + 2 * g
  BY <1>3, PlaceIs
<1>6. w = IF f <= 2 THEN 8 ELSE IF f = 29 THEN 4 ELSE IF f \in {15, 16} THEN 1 ELSE 2
  BY <1>2, WidthIs
<1>7. a + w <= b
  BY <1>4, <1>5, <1>6
<1> QED
  BY <1>1, <1>2, <1>3, <1>7

LEMMA PlacesTouch ==
  ASSUME NEW f \in 1 .. 28
  PROVE  Place[f] + Width[f] = Place[f + 1]
<1>0. f \in 1 .. 29 /\ f + 1 \in 1 .. 29
  OBVIOUS
<1>1. PICK a \in Nat : a = Place[f]
  BY <1>0, PlaceIs
<1>2. PICK w \in Nat : w = Width[f]
  BY <1>0, WidthIs
<1>3. PICK g \in 1 .. 29 : g = f + 1
  BY <1>0
<1>4. PICK b \in Nat : b = Place[g]
  BY PlaceIs
<1>5. a = IF f <= 2 THEN 24 + 8 * f ELSE IF f <= 15 THEN 42 + 2 * f ELSE IF f = 16 THEN 73 ELSE 40 + 2 * f
  BY <1>0, <1>1, PlaceIs
<1>6. b = IF g <= 2 THEN 24 + 8 * g ELSE IF g <= 15 THEN 42 + 2 * g ELSE IF g = 16 THEN 73 ELSE 40 + 2 * g
  BY <1>4, PlaceIs
<1>7. w = IF f <= 2 THEN 8 ELSE IF f = 29 THEN 4 ELSE IF f \in {15, 16} THEN 1 ELSE 2
  BY <1>0, <1>2, WidthIs
<1>8. a + w = b
  BY <1>3, <1>5, <1>6, <1>7
<1> QED
  BY <1>1, <1>2, <1>3, <1>4, <1>8

(* The parts of a row at their widest end as the bytes of the wire do.      *)
Widest == [n \in 0 .. 29 |-> IF n = 29 THEN 70 ELSE Place[n + 1] - 32]

LEMMA WidestEnds == Ends(Widest, Size, 29)
<1>1. ASSUME NEW n \in 0 .. 29 PROVE Widest[n] \in Nat
  <2>1. n # 29 => Place[n + 1] \in 32 .. 98
    BY PlaceIs
  <2> QED
    BY <2>1 DEF Widest
<1>2. Widest[0] = 0
  <2>1. Place[1] = 32
    BY PlaceIs
  <2> QED
    BY <2>1 DEF Widest
<1>3. ASSUME NEW n \in 1 .. 29 PROVE Widest[n] = Widest[n - 1] + Size[n]
  <2>1. Widest[n - 1] = Place[n] - 32
    BY DEF Widest
  <2>2. Size[n] = Width[n] /\ Place[n] \in Nat /\ Width[n] \in Nat
    BY FieldIs
  <2>3. CASE n = 29
    <3>1. Place[29] = 98 /\ Width[29] = 4
      BY PlaceIs, WidthIs
    <3> QED
      BY <2>1, <2>2, <2>3, <3>1 DEF Widest
  <2>4. CASE n # 29
    <3>1. n \in 1 .. 28
      BY <2>4
    <3>2. Place[n] + Width[n] = Place[n + 1]
      BY <3>1, PlacesTouch
    <3>3. Widest[n] = Place[n + 1] - 32
      BY <3>1 DEF Widest
    <3> QED
      BY <2>1, <2>2, <3>2, <3>3
  <2> QED
    BY <2>3, <2>4
<1>4. Widest \in [0 .. 29 -> Nat]
  BY <1>1 DEF Widest
<1> QED
  BY <1>2, <1>3, <1>4 DEF Ends

LEMMA StartsOfSize ==
  ASSUME NEW f \in 1 .. 29
  PROVE  Starts(32, Size)[f] = Place[f]
<1>1. Starts(32, Size) = [i \in 1 .. 29 |-> 32 + Widest[i - 1]]
  <2>1. 29 \in Nat /\ 32 \in Nat /\ Size \in Seq(Nat) /\ Len(Size) = 29
    BY FieldsAre
  <2> QED
    BY <2>1, WidestEnds, StartsIs, ZenonT(60)
<1>2. Widest[f - 1] = Place[f] - 32
  BY DEF Widest
<1>3. Place[f] \in Nat
  BY PlaceIs
<1> QED
  BY <1>1, <1>2, <1>3

(* What parse_flight() makes of what postFlight() posts.                    *)
Row(flown) == Parsed(Posted(flown))

LEMMA RowIs ==
  ASSUME NEW flown \in [1 .. 29 -> Nat]
  PROVE  Row(flown) = [f \in 1 .. 29 |-> ColumnOf(flown[f], Size[f])]
<1>1. ASSUME NEW f \in 1 .. 29, NEW i \in 1 .. Size[f]
      PROVE  Posted(flown)[Starts(32, Size)[f] + i - 1] = ByteOf(flown[f], i, Size[f])
  <2>1. Size[f] = Width[f] /\ Width[f] \in Nat /\ Place[f] \in 32 .. 98 /\ PostedAt[f] = Place[f]
    BY FieldIs
  <2>2. PICK k : k = Starts(32, Size)[f] + i - 1
    OBVIOUS
  <2>3. k = Place[f] + i - 1 /\ k \in Nat
    BY <2>1, <2>2, StartsOfSize
  <2>4. k \in 32 .. 101
    <3>1. f # 29 => Width[f] <= 8 /\ (Place[f] > 48 => Width[f] <= 2) /\ Place[f] + Width[f] <= 98
      <4>1. f # 29 => Place[f] + Width[f] <= Place[29]
        BY PlacesApart
      <4>2. Place[29] = 98
        BY PlaceIs
      <4>3. f # 29 => Width[f] <= 8 /\ (Place[f] > 48 => Width[f] <= 2)
        BY WidthIs, PlaceIs
      <4> QED
        BY <4>1, <4>2, <4>3
    <3>2. f = 29 => Place[f] + Width[f] = 102
      BY WidthIs, PlaceIs
    <3> QED
      BY <2>1, <2>3, <3>1, <3>2, SMTT(30)
  <2>5. ASSUME NEW g \in Field PROVE (PostedAt[g] <= k /\ k < PostedAt[g] + Size[g]) <=> g = f
    <3>0. g \in 1 .. 29
      BY FieldsAre
    <3>1. g \in 1 .. 29 /\ PostedAt[g] = Place[g] /\ Size[g] = Width[g] /\ Place[g] \in Nat /\ Width[g] \in Nat
      BY <3>0, FieldIs
    <3>2. CASE g = f
      BY <2>1, <2>3, <3>1, <3>2
    <3>3. CASE g < f
      <4>1. Place[g] + Width[g] <= Place[f]
        BY <3>1, <3>3, PlacesApart
      <4> QED
        BY <2>1, <2>3, <3>1, <3>3, <4>1
    <3>4. CASE f < g
      <4>1. Place[f] + Width[f] <= Place[g]
        BY <3>1, <3>4, PlacesApart
      <4> QED
        BY <2>1, <2>3, <3>1, <3>4, <4>1
    <3> QED
      BY <3>1, <3>2, <3>3, <3>4
  <2>6. f \in Field
    BY FieldsAre
  <2>7. (CHOOSE g \in Field : PostedAt[g] <= k /\ k < PostedAt[g] + Size[g]) = f
    BY <2>5, <2>6
  <2>8. Posted(flown)[k] = ByteOf(flown[f], k - PostedAt[f] + 1, Size[f])
    BY <2>4, <2>7 DEF Posted
  <2>9. k - PostedAt[f] + 1 = i
    BY <2>1, <2>3
  <2> QED
    BY <2>2, <2>8, <2>9
<1>2. Row(flown) = [f \in 1 .. 29 |-> [i \in 1 .. Size[f] |-> Posted(flown)[Starts(32, Size)[f] + i - 1]]]
  BY FieldsAre DEF Row, Parsed
<1>3. ASSUME NEW f \in 1 .. 29
      PROVE  [i \in 1 .. Size[f] |-> Posted(flown)[Starts(32, Size)[f] + i - 1]] = ColumnOf(flown[f], Size[f])
  BY <1>1 DEF ColumnOf
<1> QED
  BY <1>2, <1>3

Postable == {flown \in [1 .. 29 -> Nat] : \A f \in {1, 2, 29} : Narrow(flown[f])}

LEMMA FlownIs ==
  ASSUME NEW h \in Hashes
  PROVE  Flown[h] \in Postable
<1>1. Flown[h] \in [1 .. 29 -> Nat]
  BY FlightCodecAssumption, SMT
<1>2. \A f \in {1, 2, 29} : Narrow(Flown[h][f])
  BY FlightCodecAssumption, SMT DEF Narrow
<1> QED
  BY <1>1, <1>2, Zenon DEF Postable

LEMMA ColumnIs ==
  ASSUME NEW flown \in Postable, NEW f \in 1 .. 29, NEW col, col = Row(flown)[f]
  PROVE  /\ col = ColumnOf(flown[f], Size[f]) /\ flown[f] \in Nat
         /\ col \in Seq(Nat) /\ Len(col) = Size[f] /\ \A i \in 1 .. Size[f] : col[i] \in Byte
         /\ Number(col) = Wide(flown[f], Size[f])
<1>1. flown \in [1 .. 29 -> Nat] /\ \A g \in {1, 2, 29} : Narrow(flown[g])
  BY Zenon DEF Postable
<1>2. col = ColumnOf(flown[f], Size[f])
  BY <1>1, RowIs
<1>3. flown[f] \in Nat
  BY <1>1
<1>4. Size[f] > 2 => f \in {1, 2, 29}
  BY FieldIs, WidthIs
<1>5. Size[f] \in {1, 2, 4, 8} /\ (Size[f] > 2 => Narrow(flown[f]))
  BY <1>1, <1>4, FieldIs
<1>6. PICK size : size = Size[f]
  OBVIOUS
<1>7. PICK n \in Nat : n = flown[f]
  BY <1>3
<1>8. size \in {1, 2, 4, 8} /\ (size > 2 => Narrow(n))
  BY <1>5, <1>6, <1>7
<1>9. col = ColumnOf(n, size)
  BY <1>2, <1>6, <1>7
<1>10. /\ ColumnOf(n, size) \in Seq(Nat) /\ Len(ColumnOf(n, size)) = size
       /\ \A i \in 1 .. size : ColumnOf(n, size)[i] \in Byte
       /\ Number(ColumnOf(n, size)) = Wide(n, size)
  <2>1. size \in {1, 2, 4, 8}
    BY <1>8
  <2>2. size > 2 => Narrow(n)
    BY <1>8
  <2> QED
    BY <2>1, <2>2, NumberOfColumn, Zenon
<1>11. /\ col \in Seq(Nat) /\ Len(col) = size /\ \A i \in 1 .. size : col[i] \in Byte
       /\ Number(col) = Wide(n, size)
  BY <1>9, <1>10, Zenon
<1> QED
  BY <1>2, <1>3, <1>6, <1>7, <1>11, Zenon

LEMMA SizedIs ==
  ASSUME NEW f \in 1 .. 29
  PROVE  f \in Range(Sized) <=> f \notin {15, 16, 22, 23}
<1>1. DOMAIN Sized = 1 .. 25 /\ \A i \in 1 .. 25 : Sized[i] = IF i <= 14 THEN i ELSE IF i <= 19 THEN i + 2 ELSE i + 4
  BY DEF Sized
<1>2. ASSUME f \notin {15, 16, 22, 23} PROVE \E i \in 1 .. 25 : Sized[i] = f
  <2>1. PICK i \in 1 .. 25 : i = IF f <= 14 THEN f ELSE IF f <= 21 THEN f - 2 ELSE f - 4
    BY <1>2
  <2>2. Sized[i] = f
    BY <1>1, <1>2, <2>1
  <2> QED
    BY <2>2
<1>3. ASSUME NEW i \in 1 .. 25 PROVE Sized[i] \notin {15, 16, 22, 23}
  BY <1>1
<1> QED
  BY <1>1, <1>2, <1>3 DEF Range

LEMMA LengthsAre ==
  ASSUME NEW row, NEW f \in 1 .. 29
  PROVE  Lengths(row)[f] = IF f \notin {15, 16, 22, 23} THEN Significant(f, row[f]) ELSE Size[f]
  BY FieldsAre, SizedIs DEF Lengths

LEMMA BinsAre ==
  ASSUME NEW f \in Bins
  PROVE  f \in 1 .. 29 /\ Size[f] = 2 /\ f \notin {15, 16, 22, 23}
<1>1. f \in 1 .. 29 /\ f \notin {1, 2, 15, 16, 22, 23, 29} /\ ~ (f <= 2)
  BY DEF Bins
<1>2. Width[f] = 2
  BY <1>1, WidthIs
<1> QED
  BY <1>1, <1>2, FieldIs

LEMMA LeastIs ==
  ASSUME NEW T, T \subseteq Nat, T # {}
  PROVE  Min(T) \in T /\ \A y \in T : Min(T) <= y
  BY LeastNumber, Zenon DEF Min

LEMMA LeastOfTwo ==
  ASSUME NEW T, T \subseteq 1 .. 2, NEW m \in T, \A y \in T : m <= y
  PROVE  m \in 1 .. 2 /\ (m = 1 <=> 1 \in T)
  OBVIOUS

(* Of a number the bytes ahead of its significant ones are 0.               *)
LEMMA SignificantIs ==
  ASSUME NEW f \in 1 .. 29, NEW col \in Seq(Nat), Len(col) = Size[f]
  PROVE  /\ Significant(f, col) \in 0 .. Size[f]
         /\ f \notin Bins => \A i \in 1 .. Size[f] - Significant(f, col) : col[i] = 0
         /\ f \in Bins => (Significant(f, col) = 2 <=> col[2] # 0)
<1> DEFINE host == IF f \in Bins THEN Reverse(col) ELSE col
           used == {i \in 1 .. Size[f] : host[i] # 0}
<1>1. Significant(f, col) = IF used = {} THEN 0 ELSE Size[f] + 1 - Min(used)
  BY DEF Significant
<1>2. Size[f] \in Nat /\ used \subseteq Nat
  <2>1. Size[f] \in Nat
    BY FieldIs
  <2>2. used \subseteq 1 .. Size[f]
    OBVIOUS
  <2> HIDE DEF used
  <2> QED
    BY <2>1, <2>2
<1>3. used # {} => Min(used) \in used /\ \A y \in used : Min(used) <= y
  <2> HIDE DEF used
  <2> QED
    BY <1>2, LeastIs
<1>4. PICK m : m = Min(used)
  OBVIOUS
<1>5. Significant(f, col) \in 0 .. Size[f]
  BY <1>1, <1>2, <1>3, <1>4
<1>6. ASSUME f \notin Bins, NEW i \in 1 .. Size[f] - Significant(f, col) PROVE col[i] = 0
  <2>1. i \in 1 .. Size[f]
    BY <1>2, <1>5
  <2>2. CASE used = {}
    BY <1>6, <2>1, <2>2
  <2>3. CASE used # {}
    <3>1. m \in 1 .. Size[f] /\ i < m
      BY <1>1, <1>2, <1>3, <1>4, <2>3, SMTT(30)
    <3>2. i \notin used
      BY <1>3, <1>4, <2>3, <3>1
    <3> QED
      BY <1>6, <2>1, <3>2
  <2> QED
    BY <2>2, <2>3
<1>7. ASSUME f \in Bins PROVE Significant(f, col) = 2 <=> col[2] # 0
  <2>1. Size[f] = 2
    BY <1>7, BinsAre
  <2>2. host[1] = col[2] /\ 1 \in 1 .. 2
    BY <1>7, <2>1 DEF Reverse
  <2>3. 1 \in used <=> col[2] # 0
    BY <2>1, <2>2
  <2>0. used \subseteq 1 .. 2
    BY <2>1
  <2> HIDE DEF used
  <2>4. used # {} => m \in 1 .. 2 /\ (m = 1 <=> 1 \in used)
    <3>1. used # {} => m \in used /\ \A y \in used : m <= y
      BY <1>3, <1>4, Zenon
    <3> QED
      BY <2>0, <3>1, LeastOfTwo, Zenon
  <2>5. Significant(f, col) = 2 <=> used # {} /\ m = 1
    BY <1>1, <1>4, <2>1, <2>4
  <2> QED
    BY <2>3, <2>4, <2>5
<1> QED
  BY <1>5, <1>6, <1>7

(* What a row has of a column, and the number that is read of it.           *)
Written(f, row) == SubSeq(row[f], Size[f] - Lengths(row)[f] + 1, Size[f])

Part(w, len, f) ==
  /\ len \in 0 .. Size[f] /\ w \in Seq(Byte) /\ Len(w) = len
  /\ f \in {15, 16, 22, 23} => len = Size[f]

LEMMA WrittenType ==
  ASSUME NEW flown \in Postable, NEW f \in 1 .. 29, NEW len, len = Lengths(Row(flown))[f],
         NEW w, w = Written(f, Row(flown))
  PROVE  Part(w, len, f)
<1>1. PICK col : col = Row(flown)[f]
  OBVIOUS
<1>2. col \in Seq(Nat) /\ Len(col) = Size[f] /\ \A i \in 1 .. Size[f] : col[i] \in Byte
  BY <1>1, ColumnIs, Zenon
<1>3. len = IF f \notin {15, 16, 22, 23} THEN Significant(f, col) ELSE Size[f]
  BY <1>1, LengthsAre
<1>4. Significant(f, col) \in 0 .. Size[f] /\ Size[f] \in Nat
  BY <1>2, SignificantIs, FieldIs
<1>5. len \in 0 .. Size[f]
  BY <1>3, <1>4
<1>6. PICK m \in Int, n \in Nat : m = Size[f] - len + 1 /\ n = Size[f]
  BY <1>4, <1>5
<1>7. w = SubSeq(col, m, n)
  BY <1>1, <1>6 DEF Written
<1>8. \A i \in m .. n : col[i] \in Byte
  BY <1>2, <1>5, <1>6
<1>9. w \in Seq(Byte) /\ Len(w) = IF m <= n THEN n - m + 1 ELSE 0
  <2>1. \A S : (\A i \in m .. n : col[i] \in S) =>
                  SubSeq(col, m, n) \in Seq(S) /\ Len(SubSeq(col, m, n)) = IF m <= n THEN n - m + 1 ELSE 0
    BY SubSeqProperties
  <2>2. SubSeq(col, m, n) \in Seq(Byte) /\ Len(SubSeq(col, m, n)) = IF m <= n THEN n - m + 1 ELSE 0
    BY <1>8, <2>1
  <2> QED
    BY <1>7, <2>2, Zenon
<1>10. Len(w) = len
  <2>1. n \in Nat /\ len \in 0 .. n /\ m = n - len + 1
    BY <1>4, <1>5, <1>6
  <2>2. Len(w) = IF m <= n THEN n - m + 1 ELSE 0
    BY <1>9
  <2> QED
    BY ONLY <2>1, <2>2
<1> QED
  BY <1>3, <1>5, <1>9, <1>10 DEF Part

LEMMA LowByteOfTwo ==
  ASSUME NEW n \in Nat
  PROVE  (n % 256 ^ 2) % 256 = n % 256
  BY Powers, SMT

LEMMA WrittenShown ==
  ASSUME NEW flown \in Postable, NEW f \in 1 .. 29
  PROVE  /\ Number(Written(f, Row(flown))) = Kept(f, flown[f])
         /\ f \notin Bins => Number(Written(f, Row(flown))) = Number(Row(flown)[f])
<1>1. PICK col : col = Row(flown)[f]
  OBVIOUS
<1>2. /\ col = ColumnOf(flown[f], Size[f]) /\ flown[f] \in Nat
      /\ col \in Seq(Nat) /\ Len(col) = Size[f]
      /\ Number(col) = Wide(flown[f], Size[f])
  BY <1>1, ColumnIs, Zenon
<1>3. PICK len : len = Lengths(Row(flown))[f]
  OBVIOUS
<1>4. len \in 0 .. Size[f] /\ Size[f] \in Nat
  BY <1>3, WrittenType, FieldIs DEF Part
<1>5. PICK k \in Nat, N \in Nat : k = Size[f] - len /\ N = Size[f] /\ k \in 0 .. N
  BY <1>4
<1>6. Written(f, Row(flown)) = SubSeq(col, k + 1, N)
  BY <1>1, <1>3, <1>5 DEF Written
<1>7. len = IF f \notin {15, 16, 22, 23} THEN Significant(f, col) ELSE Size[f]
  BY <1>1, <1>3, LengthsAre
<1>8. CASE f \notin Bins
  <2>1. \A i \in 1 .. k : col[i] = 0
    <3>1. CASE f \in {15, 16, 22, 23}
      BY <1>4, <1>5, <1>7, <3>1
    <3>2. CASE f \notin {15, 16, 22, 23}
      <4>1. \A i \in 1 .. Size[f] - Significant(f, col) : col[i] = 0
        BY <1>2, <1>8, SignificantIs
      <4> QED
        BY <1>5, <1>7, <3>2, <4>1
    <3> QED
      BY <3>1, <3>2
  <2>2. Len(col) = N /\ 256 \in Nat
    BY <1>2, <1>5
  <2>3. InBase(256, SubSeq(col, k + 1, N)) = InBase(256, col)
    <3>1. PICK base \in Nat : base = 256
      BY <2>2
    <3>3. col \in Seq(Nat) /\ Len(col) = N /\ k \in 0 .. N
      BY <1>2, <1>5
    <3>2. InBase(base, SubSeq(col, k + 1, N)) = InBase(base, col)
      BY ONLY <2>1, <3>1, <3>3, DropZeros
    <3> QED
      BY <3>1, <3>2
  <2>4. Number(Written(f, Row(flown))) = Number(col)
    BY <1>6, <2>3 DEF Number
  <2>5. Kept(f, flown[f]) = Number(col)
    BY <1>2, <1>8 DEF Kept, Wide
  <2> QED
    BY <1>1, <2>4, <2>5
<1>9. CASE f \in Bins
  <2>1. Size[f] = 2 /\ f \notin {15, 16, 22, 23} /\ N = 2
    BY <1>5, <1>9, BinsAre
  <2>2. len = 2 <=> col[2] # 0
    BY <1>2, <1>7, <1>9, <2>1, SignificantIs
  <2>3. PICK n \in Nat : n = flown[f]
    BY <1>2
  <2>4. col[2] = n % 256 /\ col[1] \in Nat /\ col[2] \in Nat
    <3>1. col[2] = ByteOf(n, 2, 2)
      BY <1>2, <2>1, <2>3 DEF ColumnOf
    <3>2. ByteOf(n, 2, 2) = n % 256
      BY LowByteOf
    <3>3. col \in Seq(Nat) /\ Len(col) = 2
      BY <1>2, <2>1
    <3> QED
      BY <3>1, <3>2, <3>3
  <2>5. Number(col) = n % 256 ^ 2
    BY <1>2, <2>1, <2>3 DEF Wide
  <2>6. Kept(f, n) = IF col[2] = 0 THEN 0 ELSE n % 256 ^ 2
    <3>1. Kept(f, n) = IF (n % 256 ^ 2) % 256 = 0 THEN 0 ELSE n % 256 ^ 2
      BY <1>9, <2>1 DEF Kept
    <3>2. (n % 256 ^ 2) % 256 = n % 256
      BY LowByteOfTwo
    <3> QED
      BY <2>4, <3>1, <3>2
  <2>7. CASE col[2] # 0
    <3>1. k = 0
      BY <1>5, <2>1, <2>2, <2>7
    <3>2. SubSeq(col, 1, 2) = col
      BY <1>2, <2>1, SubSeqFull
    <3>3. Written(f, Row(flown)) = col
      BY <1>6, <2>1, <3>1, <3>2
    <3> QED
      BY <1>9, <2>3, <2>5, <2>6, <2>7, <3>3
  <2>8. CASE col[2] = 0
    <3>1. k = 1 \/ k = 2
      BY <1>4, <1>5, <2>1, <2>2, <2>8
    <3>2. CASE k = 2
      <4>1. SubSeq(col, 3, 2) = <<>>
        BY SubSeqEmpty
      <4>2. Written(f, Row(flown)) = <<>>
        BY <1>6, <2>1, <3>2, <4>1
      <4>3. Number(<<>>) = 0
        BY NoDigit DEF Number
      <4> QED
        BY <1>9, <2>3, <2>6, <2>8, <4>2, <4>3
    <3>3. CASE k = 1
      <4>1. PICK w : w = SubSeq(col, 2, 2)
        OBVIOUS
      <4>2. w \in Seq(Nat) /\ Len(w) = 1 /\ w[1] = col[2]
        <5>1. \A i \in 2 .. 2 : col[i] \in Nat
          BY <2>4
        <5>2. /\ w \in Seq(Nat) /\ Len(w) = IF 2 <= 2 THEN 2 - 2 + 1 ELSE 0
              /\ \A i \in 1 .. 2 - 2 + 1 : w[i] = col[2 + i - 1]
          BY <4>1, <5>1, SubSeqProperties
        <5> QED
          BY <5>2
      <4>3. Number(w) = 0
        <5>1. InBase(256, w) = w[1]
          BY <4>2, OneDigit
        <5> QED
          BY <2>8, <4>2, <5>1 DEF Number
      <4>4. Written(f, Row(flown)) = w
        BY <1>6, <2>1, <3>3, <4>1
      <4> QED
        BY <1>9, <2>3, <2>6, <2>8, <4>3, <4>4
    <3> QED
      BY <3>1, <3>2, <3>3
  <2> QED
    BY <2>7, <2>8
<1> QED
  BY <1>8, <1>9

------------------------------------------------------------------------------
(* The lengths ahead of a row, and what is read of them.                    *)

Lens == {len \in [1 .. 29 -> Nat] :
           /\ \A f \in 1 .. 29 : len[f] <= Width[f]
           /\ \A f \in {15, 16, 22, 23} : len[f] = Width[f]}

LEMMA LengthsType ==
  ASSUME NEW flown \in Postable
  PROVE  Lengths(Row(flown)) \in Lens
<1>1. PICK len : len = Lengths(Row(flown))
  OBVIOUS
<1>2. ASSUME NEW f \in 1 .. 29
      PROVE  len[f] \in Nat /\ len[f] <= Width[f] /\ (f \in {15, 16, 22, 23} => len[f] = Width[f])
  <2>1. len[f] \in 0 .. Size[f] /\ (f \in {15, 16, 22, 23} => len[f] = Size[f])
    BY <1>1, WrittenType DEF Part
  <2>2. Size[f] = Width[f] /\ Width[f] \in Nat
    BY FieldIs
  <2> QED
    BY <2>1, <2>2
<1>3. len = [f \in 1 .. 29 |-> len[f]]
  BY <1>1, FieldsAre DEF Lengths
<1>4. len \in [1 .. 29 -> Nat]
  BY <1>2, <1>3
<1>5. \A f \in 1 .. 29 : len[f] <= Width[f]
  BY <1>2
<1>6. \A f \in {15, 16, 22, 23} : len[f] = Width[f]
  <2>1. \A f \in {15, 16, 22, 23} : f \in 1 .. 29
    OBVIOUS
  <2> QED
    BY <1>2, <2>1
<1> QED
  BY <1>1, <1>4, <1>5, <1>6, Zenon DEF Lens

LEMMA LensAre ==
  ASSUME NEW len \in Lens, NEW f \in 1 .. 29
  PROVE  /\ len[f] \in Nat /\ len[f] <= Width[f]
         /\ f \in {15, 16, 22, 23} => len[f] = Width[f]
  BY DEF Lens

(* The digits to the base of 4 of the lengths.                              *)
Digits(len) ==
  [i \in 1 .. 28 |->
     IF i = 1 THEN len[1] \div 4 ELSE IF i = 2 THEN len[1] % 4
     ELSE IF i = 3 THEN len[2] \div 4 ELSE IF i = 4 THEN len[2] % 4
     ELSE IF i <= 26 THEN len[Sized[i - 2]]
     ELSE IF i = 27 THEN (2 * len[29]) \div 4 ELSE (2 * len[29]) % 4]

LEMMA SizedField ==
  ASSUME NEW i \in 3 .. 24
  PROVE  /\ Sized[i] \in 3 .. 28 /\ Sized[i] = IF i <= 14 THEN i ELSE IF i <= 19 THEN i + 2 ELSE i + 4
         /\ Width[Sized[i]] = 2
<1>1. Sized[i] = IF i <= 14 THEN i ELSE IF i <= 19 THEN i + 2 ELSE i + 4
  BY DEF Sized
<1>2. Sized[i] \in 3 .. 28 /\ Sized[i] \notin {15, 16}
  BY <1>1
<1>3. PICK f \in 1 .. 29 : f = Sized[i] /\ ~ (f <= 2) /\ f # 29 /\ f \notin {15, 16}
  BY <1>2
<1>4. Width[f] = 2
  BY <1>3, WidthIs
<1> QED
  BY <1>1, <1>2, <1>3, <1>4

LEMMA LargeLens ==
  ASSUME NEW len \in Lens
  PROVE  len[1] \in 0 .. 8 /\ len[2] \in 0 .. 8 /\ len[29] \in 0 .. 4
<1>1. Width[1] = 8 /\ Width[2] = 8 /\ Width[29] = 4
  BY WidthIs
<1>2. len[1] \in Nat /\ len[1] <= Width[1] /\ len[2] \in Nat /\ len[2] <= Width[2]
  BY LensAre
<1>3. len[29] \in Nat /\ len[29] <= Width[29]
  BY LensAre
<1> QED
  BY <1>1, <1>2, <1>3

LEMMA LeadingIs ==
  ASSUME NEW len \in Lens
  PROVE  Agrees(Leading(len), Digits(len), 28) /\ \A i \in 1 .. 28 : Digits(len)[i] \in 0 .. 3
<1>1. len[1] \in 0 .. 8 /\ len[2] \in 0 .. 8 /\ len[29] \in 0 .. 4
  BY LargeLens
<1>2. ASSUME NEW i \in 3 .. 24 PROVE len[Sized[i]] \in 0 .. 2
  <2>1. PICK f \in 1 .. 29 : f = Sized[i] /\ Width[f] = 2
    BY SizedField
  <2>2. len[f] \in Nat /\ len[f] <= Width[f]
    BY LensAre
  <2> QED
    BY <2>1, <2>2
<1>3. PICK a, b, c, d, x, y \in 0 .. 3 :
        /\ a = len[1] \div 4 /\ b = len[1] % 4 /\ c = len[2] \div 4 /\ d = len[2] % 4
        /\ x = (2 * len[29]) \div 4 /\ y = (2 * len[29]) % 4
  <2>1. \A n \in 0 .. 8 : n \div 4 \in 0 .. 3 /\ n % 4 \in 0 .. 3
    OBVIOUS
  <2>2. 2 * len[29] \in 0 .. 8
    BY <1>1
  <2> QED
    BY <1>1, <2>1, <2>2
<1>4. PICK w : w = Digits(len)
  OBVIOUS
<1>5. w[1] = a /\ w[2] = b /\ w[3] = c /\ w[4] = d /\ w[27] = x /\ w[28] = y
  BY <1>3, <1>4 DEF Digits
<1>6. ASSUME NEW i \in 5 .. 26 PROVE w[i] = len[Sized[i - 2]] /\ w[i] \in 0 .. 3
  <2>1. w[i] = len[Sized[i - 2]]
    BY <1>4 DEF Digits
  <2>2. i - 2 \in 3 .. 24
    OBVIOUS
  <2>3. len[Sized[i - 2]] \in 0 .. 2
    BY <1>2, <2>2
  <2> QED
    BY <2>1, <2>3
<1>7. \A i \in 1 .. 28 : w[i] \in 0 .. 3
  <2> TAKE i \in 1 .. 28
  <2>1. i = 1 \/ i = 2 \/ i = 3 \/ i = 4 \/ i \in 5 .. 26 \/ i = 27 \/ i = 28
    OBVIOUS
  <2> QED
    BY <1>5, <1>6, <2>1
<1>8. Nibble(len[1]) = <<a, b>> /\ Nibble(len[2]) = <<c, d>> /\ Nibble(2 * len[29]) = <<x, y>>
  BY <1>3 DEF Nibble
<1>9. PICK t : t = [i \in 1 .. 22 |-> len[Sized[i + 2]]]
  OBVIOUS
<1>10. Continues(t, w, 4, 22)
  <2>1. ASSUME NEW i \in 1 .. 22 PROVE len[Sized[i + 2]] \in Nat /\ len[Sized[i + 2]] = w[4 + i]
    <3>1. i + 2 \in 3 .. 24 /\ 4 + i \in 5 .. 26 /\ (4 + i) - 2 = i + 2
      OBVIOUS
    <3>2. len[Sized[i + 2]] \in 0 .. 2
      BY <1>2, <3>1
    <3>3. w[4 + i] = len[Sized[(4 + i) - 2]]
      BY <1>6, <3>1
    <3> QED
      BY <3>1, <3>2, <3>3
  <2>2. t \in Seq(Nat) /\ Len(t) = 22
    BY <1>9, <2>1
  <2> QED
    BY <1>9, <2>1, <2>2 DEF Continues
<1> DEFINE a1 == <<a, b>>
           a2 == a1 \o <<c, d>>
           a3 == a2 \o t
           a4 == a3 \o <<x, y>>
<1>11. Leading(len) = a4
  BY <1>8, <1>9 DEF Leading
<1>12. Agrees(a1, w, 2)
  BY <1>5 DEF Agrees
<1>13. Continues(<<c, d>>, w, 2, 2) /\ Continues(<<x, y>>, w, 26, 2)
  BY <1>5 DEF Continues
<1> HIDE DEF a1
<1>14. Agrees(a2, w, 4)
  <2>1. Agrees(a2, w, 2 + 2)
    BY <1>12, <1>13, Extended
  <2> QED
    BY <2>1
<1> HIDE DEF a2
<1>15. Agrees(a3, w, 26)
  <2>1. Agrees(a3, w, 4 + 22)
    BY <1>10, <1>14, Extended
  <2> QED
    BY <2>1
<1> HIDE DEF a3
<1>16. Agrees(a4, w, 28)
  <2>1. Agrees(a4, w, 26 + 2)
    BY <1>13, <1>15, Extended
  <2> QED
    BY <2>1
<1> QED
  BY <1>4, <1>7, <1>11, <1>16

LEMMA FourPowers == 4 ^ 0 = 1 /\ 4 ^ 1 = 4 /\ 4 ^ 2 = 16 /\ 4 ^ 3 = 64
  BY SMT

LEMMA PackedIs ==
  ASSUME NEW a \in 0 .. 3, NEW b \in 0 .. 3, NEW c \in 0 .. 3, NEW d \in 0 .. 3,
         NEW n, n = ((a * 4 + b) * 4 + c) * 4 + d
  PROVE  /\ n \in 0 .. 255
         /\ (n \div 64) % 4 = a /\ (n \div 16) % 4 = b /\ (n \div 4) % 4 = c /\ (n \div 1) % 4 = d
  BY SMT

LEMMA PieceIs ==
  ASSUME NEW S, NEW s \in Seq(S), NEW m \in Nat \ {0}, NEW n \in Nat, n <= Len(s), m <= n + 1, NEW t, t = SubSeq(s, m, n)
  PROVE  t \in Seq(S) /\ Len(t) = n - m + 1 /\ \A i \in 1 .. n - m + 1 : t[i] = s[m + i - 1]
<1>1. \A i \in m .. n : s[i] \in S
  <2>1. \A i \in 1 .. Len(s) : s[i] \in S
    BY ElementOfSeq
  <2> QED
    BY <2>1
<1>2. /\ t \in Seq(S) /\ Len(t) = IF m <= n THEN n - m + 1 ELSE 0
      /\ \A i \in 1 .. n - m + 1 : t[i] = s[m + i - 1]
  BY <1>1, SubSeqProperties
<1> QED
  BY <1>2

LEMMA LeadingByteIs ==
  ASSUME NEW pairs \in Seq(0 .. 3), Len(pairs) = 28, NEW b \in 1 .. 7
  PROVE  LeadingBytes(pairs)[b]
           = ((pairs[4 * b - 3] * 4 + pairs[4 * b - 2]) * 4 + pairs[4 * b - 1]) * 4 + pairs[4 * b]
<1>1. PICK m \in Nat \ {0}, n \in Nat : m = 4 * b - 3 /\ n = 4 * b
  OBVIOUS
<1>2. PICK t : t = SubSeq(pairs, m, n)
  OBVIOUS
<1>3. n <= Len(pairs) /\ m <= n + 1 /\ n - m + 1 = 4
  BY <1>1
<1>4. t \in Seq(0 .. 3) /\ Len(t) = n - m + 1 /\ \A i \in 1 .. n - m + 1 : t[i] = pairs[m + i - 1]
  <2>1. PICK S : S = 0 .. 3
    OBVIOUS
  <2>2. pairs \in Seq(S)
    BY <2>1
  <2>3. t \in Seq(S) /\ Len(t) = n - m + 1 /\ \A i \in 1 .. n - m + 1 : t[i] = pairs[m + i - 1]
    BY ONLY <1>2, <1>3, <2>2, PieceIs
  <2> QED
    BY <2>1, <2>3, Zenon
<1>5. Len(t) = 4 /\ t[1] = pairs[m] /\ t[2] = pairs[m + 1] /\ t[3] = pairs[m + 2] /\ t[4] = pairs[m + 3]
  BY <1>3, <1>4
<1>6. t \in Seq(Nat)
  <2>1. 0 .. 3 \subseteq Nat
    OBVIOUS
  <2> QED
    BY <1>4, <2>1, SeqMonotonic
<1>7. InBase(4, t) = ((t[1] * 4 + t[2]) * 4 + t[3]) * 4 + t[4]
  BY <1>5, <1>6, FourDigits
<1>8. m + 1 = 4 * b - 2 /\ m + 2 = 4 * b - 1 /\ m + 3 = 4 * b
  BY <1>1
<1>9. LeadingBytes(pairs)[b] = InBase(4, t)
  BY <1>1, <1>2 DEF LeadingBytes
<1> QED
  BY <1>1, <1>5, <1>7, <1>8, <1>9

(* The pairs that are read of the leading bytes are those that were put in. *)
LEMMA PairsBack ==
  ASSUME NEW pairs \in Seq(0 .. 3), Len(pairs) = 28, NEW i \in 1 .. 28
  PROVE  Pairs(LeadingBytes(pairs))[i] = pairs[i]
<1>1. PICK b \in 1 .. 7, r \in 0 .. 3 : b = (i + 3) \div 4 /\ r = (i - 1) % 4 /\ i = 4 * b - 3 + r
  <2>1. (i + 3) \div 4 \in 1 .. 7 /\ (i - 1) % 4 \in 0 .. 3
    BY SMT
  <2>2. i = 4 * ((i + 3) \div 4) - 3 + ((i - 1) % 4)
    BY SMT
  <2> QED
    BY <2>1, <2>2
<1>2. PICK n : n = LeadingBytes(pairs)[b]
  OBVIOUS
<1>3. Pairs(LeadingBytes(pairs))[i] = (n \div 4 ^ (3 - r)) % 4
  BY <1>1, <1>2 DEF Pairs
<1>4. \A k \in 1 .. 28 : pairs[k] \in 0 .. 3
  BY ElementOfSeq
<1>5. PICK c, d, e, f \in 0 .. 3 : c = pairs[4 * b - 3] /\ d = pairs[4 * b - 2] /\ e = pairs[4 * b - 1] /\ f = pairs[4 * b]
  <2>1. 4 * b - 3 \in 1 .. 28 /\ 4 * b - 2 \in 1 .. 28 /\ 4 * b - 1 \in 1 .. 28 /\ 4 * b \in 1 .. 28
    OBVIOUS
  <2> QED
    BY <1>4, <2>1, Zenon
<1>6. n = ((c * 4 + d) * 4 + e) * 4 + f
  BY <1>2, <1>5, LeadingByteIs
<1>7. /\ (n \div 64) % 4 = c /\ (n \div 16) % 4 = d /\ (n \div 4) % 4 = e /\ (n \div 1) % 4 = f
  BY ONLY <1>6, SMT
<1>8. CASE r = 0
  <2>1. 3 - r = 3 /\ i = 4 * b - 3
    BY <1>1, <1>8
  <2>2. 4 ^ (3 - r) = 64
    BY <2>1, FourPowers, Zenon
  <2>3. Pairs(LeadingBytes(pairs))[i] = (n \div 64) % 4
    BY <1>3, <2>2, Zenon
  <2> QED
    BY <1>5, <1>7, <2>1, <2>3, Zenon
<1>9. CASE r = 1
  <2>1. 3 - r = 2 /\ i = 4 * b - 2
    BY <1>1, <1>9
  <2>2. 4 ^ (3 - r) = 16
    BY <2>1, FourPowers, Zenon
  <2>3. Pairs(LeadingBytes(pairs))[i] = (n \div 16) % 4
    BY <1>3, <2>2, Zenon
  <2> QED
    BY <1>5, <1>7, <2>1, <2>3, Zenon
<1>10. CASE r = 2
  <2>1. 3 - r = 1 /\ i = 4 * b - 1
    BY <1>1, <1>10
  <2>2. 4 ^ (3 - r) = 4
    BY <2>1, FourPowers, Zenon
  <2>3. Pairs(LeadingBytes(pairs))[i] = (n \div 4) % 4
    BY <1>3, <2>2, Zenon
  <2> QED
    BY <1>5, <1>7, <2>1, <2>3, Zenon
<1>11. CASE r = 3
  <2>1. 3 - r = 0 /\ i = 4 * b
    BY <1>1, <1>11
  <2>2. 4 ^ (3 - r) = 1
    BY <2>1, FourPowers, Zenon
  <2>3. Pairs(LeadingBytes(pairs))[i] = (n \div 1) % 4
    BY <1>3, <2>2, Zenon
  <2> QED
    BY <1>5, <1>7, <2>1, <2>3, Zenon
<1> QED
  BY <1>8, <1>9, <1>10, <1>11

LEMMA DivMod ==
  /\ \A n \in 0 .. 8 : (n \div 4) * 4 + (n % 4) = n
  /\ \A n \in 0 .. 4 : (((2 * n) \div 4) * 4 + ((2 * n) % 4)) \div 2 = n
<1>1. ASSUME NEW n \in 0 .. 8 PROVE (n \div 4) * 4 + (n % 4) = n
  BY SMT
<1>2. ASSUME NEW n \in 0 .. 4 PROVE (((2 * n) \div 4) * 4 + ((2 * n) % 4)) \div 2 = n
  <2>1. ((2 * n) \div 4) * 4 + ((2 * n) % 4) = 2 * n
    BY SMT
  <2>2. (2 * n) \div 2 = n
    BY SMT
  <2> QED
    BY <2>1, <2>2, Zenon
<1> QED
  BY <1>1, <1>2, Zenon

LEMMA PieceOfNumbers ==
  ASSUME NEW s \in Seq(Nat), NEW m \in Nat \ {0}, NEW n \in Nat, n <= Len(s), m <= n + 1, NEW t, t = SubSeq(s, m, n)
  PROVE  t \in Seq(Nat) /\ Len(t) = n - m + 1 /\ \A i \in 1 .. n - m + 1 : t[i] = s[m + i - 1]
<1>1. PICK S : S = Nat
  OBVIOUS
<1>2. s \in Seq(S)
  BY <1>1
<1>3. t \in Seq(S) /\ Len(t) = n - m + 1 /\ \A i \in 1 .. n - m + 1 : t[i] = s[m + i - 1]
  BY <1>2, PieceIs
<1> QED
  BY <1>1, <1>3, Zenon

LEMMA PairNumber ==
  ASSUME NEW s \in Seq(Nat), NEW m \in Nat \ {0}, NEW n \in Nat, n <= Len(s), n = m + 1
  PROVE  InBase(4, SubSeq(s, m, n)) = s[m] * 4 + s[n]
<1>1. PICK t : t = SubSeq(s, m, n)
  OBVIOUS
<1>2. m <= n + 1 /\ n - m + 1 = 2
  OBVIOUS
<1>3. t \in Seq(Nat) /\ Len(t) = n - m + 1 /\ \A i \in 1 .. n - m + 1 : t[i] = s[m + i - 1]
  BY <1>1, <1>2, PieceOfNumbers
<1>4. Len(t) = 2 /\ t[1] = s[m] /\ t[2] = s[n]
  <2>1. 1 \in 1 .. 2 /\ 2 \in 1 .. 2 /\ m + 1 - 1 = m /\ m + 2 - 1 = n
    OBVIOUS
  <2>2. t[1] = s[m + 1 - 1] /\ t[2] = s[m + 2 - 1] /\ Len(t) = 2
    BY <1>2, <1>3, <2>1, Zenon
  <2> QED
    BY <2>1, <2>2, Zenon
<1>5. 4 \in Nat
  OBVIOUS
<1>6. InBase(4, t) = t[1] * 4 + t[2]
  BY <1>3, <1>4, <1>5, TwoDigits, Zenon
<1> QED
  BY <1>1, <1>4, <1>6

(* parseFlights() reads the lengths that find_flights() wrote.              *)
LEMMA LengthsBack ==
  ASSUME NEW len \in Lens
  PROVE  LengthsRead(LeadingBytes(Leading(len))) = len
<1>1. PICK P : P = Leading(len)
  OBVIOUS
<1>2. PICK w : w = Digits(len)
  OBVIOUS
<1>3. P \in Seq(Nat) /\ Len(P) = 28 /\ \A i \in 1 .. 28 : P[i] = w[i] /\ w[i] \in 0 .. 3
  BY <1>1, <1>2, LeadingIs DEF Agrees
<1>4. P \in Seq(0 .. 3)
  <2>1. \A i \in 1 .. 28 : P[i] \in 0 .. 3
    BY <1>3
  <2>2. P = [i \in 1 .. 28 |-> P[i]]
    BY <1>3
  <2> QED
    BY <2>1, <2>2
<1>5. PICK pairs : pairs = Pairs(LeadingBytes(P))
  OBVIOUS
<1>6. \A i \in 1 .. 28 : pairs[i] = w[i] /\ pairs[i] \in Nat
  <2>1. \A i \in 1 .. 28 : pairs[i] = P[i]
    BY <1>3, <1>4, <1>5, PairsBack, Zenon
  <2>2. ASSUME NEW i \in 1 .. 28 PROVE pairs[i] = w[i] /\ pairs[i] \in Nat
    <3>1. P[i] = w[i] /\ w[i] \in 0 .. 3 /\ pairs[i] = P[i]
      BY <1>3, <2>1
    <3> QED
      BY ONLY <3>1
  <2> QED
    BY <2>2, Zenon
<1>7. pairs \in Seq(Nat) /\ Len(pairs) = 28
  <2>1. pairs = [i \in 1 .. 28 |-> pairs[i]]
    BY <1>5 DEF Pairs
  <2> QED
    BY <1>6, <2>1
<1>8. PICK short : short = [i \in 1 .. 22 |-> pairs[i + 4]]
  OBVIOUS
<1>9. short \in Seq(Nat) /\ Len(short) = 22
  <2>1. \A i \in 1 .. 22 : pairs[i + 4] \in Nat
    BY <1>6
  <2> QED
    BY <1>8, <2>1
<1>10. \A i \in 1 .. 22 : short[i] = len[Sized[i + 2]]
  <2> TAKE i \in 1 .. 22
  <2>1. PICK k \in 5 .. 26 : k = i + 4 /\ k - 2 = i + 2
    OBVIOUS
  <2>2. short[i] = w[k]
    BY <1>6, <1>8, <2>1
  <2>3. w[k] = len[Sized[k - 2]]
    BY <1>2 DEF Digits
  <2> QED
    BY <2>1, <2>2, <2>3
<1>11. ASSUME NEW m \in {1, 13, 18}, NEW n \in {12, 17, 22}, n = IF m = 1 THEN 12 ELSE m + 4,
              NEW from \in {2, 16, 23}, from = IF m = 1 THEN 2 ELSE IF m = 13 THEN 16 ELSE 23
       PROVE  Continues(SubSeq(short, m, n), len, from, n - m + 1)
  <2>1. PICK t : t = SubSeq(short, m, n)
    OBVIOUS
  <2>2. m \in Nat \ {0} /\ n \in Nat /\ n <= Len(short) /\ m <= n + 1
    BY <1>9, <1>11
  <2>3. t \in Seq(Nat) /\ Len(t) = n - m + 1 /\ \A i \in 1 .. n - m + 1 : t[i] = short[m + i - 1]
    <3>1. PICK p \in Nat \ {0}, q \in Nat : p = m /\ q = n
      BY <2>2
    <3>2. q <= Len(short) /\ p <= q + 1 /\ t = SubSeq(short, p, q) /\ short \in Seq(Nat)
      BY <1>9, <2>1, <2>2, <3>1
    <3>3. t \in Seq(Nat) /\ Len(t) = q - p + 1 /\ \A i \in 1 .. q - p + 1 : t[i] = short[p + i - 1]
      BY ONLY <3>2, PieceOfNumbers
    <3> QED
      BY <3>1, <3>3, Zenon
  <2>4. ASSUME NEW i \in 1 .. n - m + 1 PROVE t[i] = len[from + i]
    <3>1. PICK k \in 1 .. 22 : k = m + i - 1
      BY <1>11
    <3>2. k + 2 \in 3 .. 24
      OBVIOUS
    <3>3. Sized[k + 2] = IF k + 2 <= 14 THEN k + 2 ELSE IF k + 2 <= 19 THEN k + 2 + 2 ELSE k + 2 + 4
      BY <3>2, SizedField
    <3>4. Sized[k + 2] = from + i
      BY <1>11, <3>1, <3>3
    <3> QED
      BY <1>10, <2>3, <3>1, <3>4
  <2> QED
    BY <2>1, <2>3, <2>4 DEF Continues
<1>12. /\ Continues(SubSeq(short, 1, 12), len, 2, 12)
       /\ Continues(SubSeq(short, 13, 17), len, 16, 5)
       /\ Continues(SubSeq(short, 18, 22), len, 23, 5)
  <2>1. 12 - 1 + 1 = 12 /\ 17 - 13 + 1 = 5 /\ 22 - 18 + 1 = 5 /\ 17 = 13 + 4 /\ 22 = 18 + 4
    OBVIOUS
  <2> QED
    BY <1>11, <2>1
<1>13. PICK a, b, c \in Nat : a = len[1] /\ b = len[2] /\ c = len[29]
  BY LensAre
<1>14. /\ InBase(4, SubSeq(pairs, 1, 2)) = a /\ InBase(4, SubSeq(pairs, 3, 4)) = b
       /\ InBase(4, SubSeq(pairs, 27, 28)) \div 2 = c
  <2>1. a \in 0 .. 8 /\ b \in 0 .. 8 /\ c \in 0 .. 4
    BY <1>13, LargeLens
  <2>2. /\ InBase(4, SubSeq(pairs, 1, 2)) = pairs[1] * 4 + pairs[2]
        /\ InBase(4, SubSeq(pairs, 3, 4)) = pairs[3] * 4 + pairs[4]
        /\ InBase(4, SubSeq(pairs, 27, 28)) = pairs[27] * 4 + pairs[28]
    <3>1. /\ 1 \in Nat \ {0} /\ 2 \in Nat /\ 2 <= Len(pairs) /\ 2 = 1 + 1
          /\ 3 \in Nat \ {0} /\ 4 \in Nat /\ 4 <= Len(pairs) /\ 4 = 3 + 1
          /\ 27 \in Nat \ {0} /\ 28 \in Nat /\ 28 <= Len(pairs) /\ 28 = 27 + 1
      BY <1>7
    <3> QED
      BY <1>7, <3>1, PairNumber, Zenon
  <2>3. /\ pairs[1] = a \div 4 /\ pairs[2] = a % 4 /\ pairs[3] = b \div 4 /\ pairs[4] = b % 4
        /\ pairs[27] = (2 * c) \div 4 /\ pairs[28] = (2 * c) % 4
    BY <1>2, <1>6, <1>13 DEF Digits
  <2> QED
    BY <2>1, <2>2, <2>3, DivMod
<1>15. len[15] = 1 /\ len[16] = 1 /\ len[22] = 2 /\ len[23] = 2
  <2>1. Width[15] = 1 /\ Width[16] = 1 /\ Width[22] = 2 /\ Width[23] = 2
    BY WidthIs
  <2> QED
    BY <2>1, LensAre
<1> DEFINE a1 == <<a, b>>
           a2 == a1 \o SubSeq(short, 1, 12)
           a3 == a2 \o <<1, 1>>
           a4 == a3 \o SubSeq(short, 13, 17)
           a5 == a4 \o <<2, 2>>
           a6 == a5 \o SubSeq(short, 18, 22)
           a7 == a6 \o <<c>>
<1>16. LengthsRead(LeadingBytes(P)) = a7
  BY <1>5, <1>8, <1>14 DEF LengthsRead
<1>17. Agrees(a1, len, 2)
  BY <1>13 DEF Agrees
<1>18. Continues(<<1, 1>>, len, 14, 2) /\ Continues(<<2, 2>>, len, 21, 2)
  BY <1>15 DEF Continues
<1>19. Continues(<<c>>, len, 28, 1)
  BY <1>13 DEF Continues
<1> HIDE DEF a1
<1>20. Agrees(a2, len, 14)
  <2>1. Agrees(a2, len, 2 + 12)
    BY <1>12, <1>17, Extended
  <2> QED
    BY <2>1
<1> HIDE DEF a2
<1>21. Agrees(a3, len, 16)
  <2>1. Agrees(a3, len, 14 + 2)
    BY <1>18, <1>20, Extended
  <2> QED
    BY <2>1
<1> HIDE DEF a3
<1>22. Agrees(a4, len, 21)
  <2>1. Agrees(a4, len, 16 + 5)
    BY <1>12, <1>21, Extended
  <2> QED
    BY <2>1
<1> HIDE DEF a4
<1>23. Agrees(a5, len, 23)
  <2>1. Agrees(a5, len, 21 + 2)
    BY <1>18, <1>22, Extended
  <2> QED
    BY <2>1
<1> HIDE DEF a5
<1>24. Agrees(a6, len, 28)
  <2>1. Agrees(a6, len, 23 + 5)
    BY <1>12, <1>23, Extended
  <2> QED
    BY <2>1
<1> HIDE DEF a6
<1>25. Agrees(a7, len, 29)
  <2>1. Agrees(a7, len, 28 + 1)
    BY <1>19, <1>24, Extended
  <2> QED
    BY <2>1
<1> HIDE DEF a7
<1>26. a7 = len
  <2>1. a7 \in Seq(Nat) /\ Len(a7) = 29 /\ \A i \in 1 .. 29 : a7[i] = len[i]
    BY <1>25 DEF Agrees
  <2>2. len = [i \in 1 .. 29 |-> len[i]]
    BY DEF Lens
  <2>3. a7 = [i \in 1 .. 29 |-> a7[i]]
    BY <2>1
  <2> QED
    BY <2>1, <2>2, <2>3
<1> QED
  BY <1>1, <1>16, <1>26

------------------------------------------------------------------------------
(* A row of an answer.                                                      *)

LEMMA EndsBelow ==
  ASSUME NEW len \in Lens, NEW e, Ends(e, len, 29), NEW n \in 0 .. 29
  PROVE  e[n] <= Widest[n]
<1> DEFINE S == {k \in 0 .. 29 : e[k] <= Widest[k]}
<1>1. /\ e \in [0 .. 29 -> Nat] /\ e[0] = 0 /\ \A k \in 1 .. 29 : e[k] = e[k - 1] + len[k]
      /\ Widest \in [0 .. 29 -> Nat] /\ Widest[0] = 0 /\ \A k \in 1 .. 29 : Widest[k] = Widest[k - 1] + Size[k]
  BY WidestEnds DEF Ends
<1>2. 0 \in S
  BY <1>1
<1>3. ASSUME NEW k \in 0 .. 29 - 1, k \in S PROVE k + 1 \in S
  <2>1. PICK f \in 1 .. 29 : f = k + 1 /\ f - 1 = k
    OBVIOUS
  <2>2. e[f] = e[k] + len[f] /\ Widest[f] = Widest[k] + Size[f] /\ e[k] \in Nat /\ Widest[k] \in Nat
    BY <1>1, <2>1
  <2>3. len[f] \in Nat /\ len[f] <= Size[f] /\ Size[f] \in Nat
    BY LensAre, FieldIs
  <2>4. e[k] <= Widest[k]
    BY <1>3
  <2>5. e[f] <= Widest[f]
    BY <2>2, <2>3, <2>4
  <2> QED
    BY <2>1, <2>5
<1> HIDE DEF S
<1>4. 29 \in Nat
  OBVIOUS
<1>5. 0 .. 29 \subseteq S
  BY <1>2, <1>3, <1>4, InductionUpTo
<1> QED
  BY <1>5 DEF S

LEMMA LeadingBytesType ==
  ASSUME NEW pairs \in Seq(0 .. 3), Len(pairs) = 28
  PROVE  LeadingBytes(pairs) \in Seq(Byte) /\ Len(LeadingBytes(pairs)) = 7
<1>1. ASSUME NEW b \in 1 .. 7 PROVE LeadingBytes(pairs)[b] \in Byte
  <2>1. \A k \in 1 .. 28 : pairs[k] \in 0 .. 3
    BY ElementOfSeq
  <2>2. 4 * b - 3 \in 1 .. 28 /\ 4 * b - 2 \in 1 .. 28 /\ 4 * b - 1 \in 1 .. 28 /\ 4 * b \in 1 .. 28
    OBVIOUS
  <2>3. PICK c, d, e, f \in 0 .. 3 : c = pairs[4 * b - 3] /\ d = pairs[4 * b - 2] /\ e = pairs[4 * b - 1] /\ f = pairs[4 * b]
    BY <2>1, <2>2, Zenon
  <2>4. LeadingBytes(pairs)[b] = ((c * 4 + d) * 4 + e) * 4 + f
    BY <2>3, LeadingByteIs
  <2>5. ((c * 4 + d) * 4 + e) * 4 + f \in 0 .. 255
    BY ONLY SMT
  <2> QED
    BY <2>4, <2>5, Zenon DEF Byte
<1>2. PICK t : t = LeadingBytes(pairs)
  OBVIOUS
<1>3. t = [b \in 1 .. 7 |-> t[b]]
  BY <1>2 DEF LeadingBytes
<1>4. \A b \in 1 .. 7 : t[b] \in Byte
  BY <1>1, <1>2
<1>5. t \in Seq(Byte) /\ Len(t) = 7
  BY <1>3, <1>4
<1> QED
  BY <1>2, <1>5

RowLaid(r, row, e) ==
  /\ r \in Seq(Byte) /\ Len(r) = 7 + e[29] /\ Len(r) \in 7 .. 77
  /\ \A b \in 1 .. 7 : r[b] = LeadingBytes(Leading(Lengths(row)))[b]
  /\ \A f \in 1 .. 29 : \A j \in 1 .. Lengths(row)[f] : r[7 + e[f - 1] + j] = Written(f, row)[j]

LEMMA RowBytesAre ==
  ASSUME NEW flown \in Postable, NEW e, Ends(e, Lengths(Row(flown)), 29)
  PROVE  RowLaid(RowBytes(Row(flown)), Row(flown), e)
<1>1. PICK row : row = Row(flown)
  OBVIOUS
<1>2. PICK len \in Lens : len = Lengths(row)
  BY <1>1, LengthsType
<1>3. PICK ahead : ahead = LeadingBytes(Leading(len))
  OBVIOUS
<1>4. ahead \in Seq(Byte) /\ Len(ahead) = 7
  <2>1. PICK P : P = Leading(len)
    OBVIOUS
  <2>2. Agrees(P, Digits(len), 28) /\ \A i \in 1 .. 28 : Digits(len)[i] \in 0 .. 3
    BY <2>1, LeadingIs, Zenon
  <2>3. Len(P) = 28 /\ P \in Seq(Nat) /\ \A i \in 1 .. 28 : P[i] \in 0 .. 3
    BY <2>2 DEF Agrees
  <2>4. P = [i \in 1 .. 28 |-> P[i]]
    BY <2>3
  <2>5. P \in Seq(0 .. 3)
    BY <2>3, <2>4
  <2> QED
    BY <1>3, <2>1, <2>3, <2>5, LeadingBytesType, Zenon
<1>5. PICK seqs : seqs = [f \in 1 .. 29 |-> Written(f, row)]
  OBVIOUS
<1>6. ASSUME NEW f \in 1 .. 29 PROVE Written(f, row) \in Seq(Byte) /\ len[f] = Len(Written(f, row)) /\ len[f] \in Nat
  <2>1. Written(f, row) \in Seq(Byte) /\ len[f] = Len(Written(f, row))
    <3>1. PICK w, l : w = Written(f, row) /\ l = len[f]
      OBVIOUS
    <3>2. w = Written(f, Row(flown)) /\ l = Lengths(Row(flown))[f]
      BY <1>1, <1>2, <3>1, Zenon
    <3>3. w \in Seq(Byte) /\ Len(w) = l
      <4>1. Part(w, l, f)
        BY <3>2, WrittenType, Zenon
      <4> QED
        BY <4>1, Zenon DEF Part
    <3> QED
      BY <3>1, <3>3, Zenon
  <2>2. len[f] \in Nat
    BY LensAre
  <2> QED
    BY <2>1, <2>2
<1>7. seqs \in Seq(Seq(Byte)) /\ Len(seqs) = 29
  BY <1>5, <1>6
<1>8. \A f \in 1 .. 29 : len[f] = Len(seqs[f])
  BY <1>5, <1>6
<1>9. PICK flat : flat = FlattenSeq(seqs)
  OBVIOUS
<1>10. /\ flat \in Seq(Byte) /\ Len(flat) = e[29]
       /\ \A f \in 1 .. 29 : \A j \in 1 .. len[f] : flat[e[f - 1] + j] = seqs[f][j]
  <2>1. PICK N \in Nat \ {0} : N = 29
    OBVIOUS
  <2>2. /\ Ends(e, len, N) /\ seqs \in Seq(Seq(Byte)) /\ Len(seqs) = N
        /\ \A n \in 1 .. N : len[n] = Len(seqs[n])
    BY <1>1, <1>2, <1>7, <1>8, <2>1
  <2>3. Pieced(FlattenSeq(seqs), Byte, seqs, len, e, N)
    BY <2>2, FlattenIs, Zenon
  <2> QED
    BY <1>9, <2>1, <2>3, Zenon DEF Pieced
<1>11. PICK r : r = ahead \o flat
  OBVIOUS
<1>12. RowBytes(row) = r
  BY <1>2, <1>3, <1>5, <1>9, <1>11, FieldsAre DEF RowBytes, Written
<1>13. /\ r \in Seq(Byte) /\ Len(r) = Len(ahead) + Len(flat)
       /\ \A j \in 1 .. Len(ahead) + Len(flat) : r[j] = IF j <= Len(ahead) THEN ahead[j] ELSE flat[j - Len(ahead)]
  <2>1. PICK S : S = Byte
    OBVIOUS
  <2>2. ahead \in Seq(S) /\ flat \in Seq(S)
    BY <1>4, <1>10, <2>1
  <2>3. /\ r \in Seq(S) /\ Len(r) = Len(ahead) + Len(flat)
        /\ \A j \in 1 .. Len(ahead) + Len(flat) : r[j] = IF j <= Len(ahead) THEN ahead[j] ELSE flat[j - Len(ahead)]
    BY ONLY <1>11, <2>2, ConcatIs
  <2> QED
    BY <2>1, <2>3, Zenon
<1>14. e \in [0 .. 29 -> Nat] /\ \A f \in 1 .. 29 : e[f] = e[f - 1] + len[f]
  BY <1>1, <1>2 DEF Ends
<1>15. e[29] \in 0 .. 70
  <2>1. Ends(e, len, 29) /\ 29 \in 0 .. 29
    BY <1>1, <1>2
  <2>2. e[29] <= Widest[29]
    BY <2>1, EndsBelow
  <2>3. Widest[29] = 70
    BY DEF Widest
  <2> QED
    BY <1>14, <2>2, <2>3
<1>16. Len(r) = 7 + e[29] /\ Len(r) \in 7 .. 77
  <2>1. Len(r) = 7 + e[29]
    BY <1>4, <1>10, <1>13
  <2>2. PICK n \in 0 .. 70 : n = e[29]
    BY <1>15
  <2>3. PICK m : m = Len(r)
    OBVIOUS
  <2>4. m = 7 + n
    BY <2>1, <2>2, <2>3
  <2>5. m \in 7 .. 77
    BY ONLY <2>4
  <2> QED
    BY <2>1, <2>3, <2>5, Zenon
<1>17. \A b \in 1 .. 7 : r[b] = ahead[b]
  BY <1>4, <1>13, <1>16
<1>18. ASSUME NEW f \in 1 .. 29, NEW j \in 1 .. len[f] PROVE r[7 + e[f - 1] + j] = Written(f, row)[j]
  <2>1. e[f] <= e[29]
    <3>1. 29 \in Nat /\ 29 \in 0 .. 29 /\ f \in 0 .. 29 /\ Ends(e, len, 29)
      BY <1>1, <1>2
    <3>2. \A n \in 1 .. 29 : len[n] \in Nat
      BY <1>6
    <3> QED
      BY <3>1, <3>2, EndsGrow, Zenon
  <2>2. e[f] = e[f - 1] + len[f] /\ e[f - 1] \in Nat /\ e[f] \in Nat /\ len[f] \in Nat /\ e[29] \in Nat
    <3>1. f - 1 \in 0 .. 29 /\ f \in 0 .. 29 /\ 29 \in 0 .. 29
      OBVIOUS
    <3> QED
      BY <1>6, <1>14, <3>1
  <2>3. PICK k \in Nat : k = 7 + e[f - 1] + j /\ k <= 7 + e[29] /\ k > 7 /\ k - 7 = e[f - 1] + j
    BY <2>1, <2>2
  <2>4. r[k] = flat[k - 7]
    <3>1. Len(ahead) = 7 /\ Len(flat) = e[29]
      BY <1>4, <1>10
    <3>2. PICK E \in Nat : E = e[29]
      BY <2>2, Zenon
    <3>3. k <= 7 + E /\ k > 7
      BY <2>3, <3>2, Zenon
    <3>4. k \in 1 .. 7 + E /\ ~ (k <= 7)
      BY ONLY <3>3
    <3>5. r[k] = IF k <= 7 THEN ahead[k] ELSE flat[k - 7]
      BY <1>13, <3>1, <3>2, <3>4, Zenon
    <3> QED
      BY <3>4, <3>5, Zenon
  <2>5. flat[e[f - 1] + j] = seqs[f][j]
    BY <1>10
  <2> QED
    BY <1>5, <2>3, <2>4, <2>5
<1> QED
  BY <1>1, <1>2, <1>3, <1>12, <1>13, <1>16, <1>17, <1>18 DEF RowLaid

(* A sequence is the function of its places. *)
LEMMA Listed ==
  ASSUME NEW S, NEW s \in Seq(S)
  PROVE  s = [i \in 1 .. Len(s) |-> s[i]]
OBVIOUS

(* parseFlights() makes of the bytes of a row the numbers that were posted, *)
(* and steps behind its last byte.                                          *)
ReadsRow(bytes, from, flown) ==
  LET len == LengthsRead(SubSeq(bytes, from + 1, from + 7))
      at == Starts(from + 8, len)
  IN  /\ at[29] + len[29] - 1 = from + Len(RowBytes(Row(flown)))
      /\ \A f \in 1 .. 29 : Number(SubSeq(bytes, at[f], at[f] + len[f] - 1)) = Kept(f, flown[f])

HasAt(bytes, from, r) ==
  /\ from + Len(r) <= Len(bytes)
  /\ \A j \in 1 .. Len(r) : bytes[from + j] = r[j]

LEMMA RowIsRead ==
  ASSUME NEW flown \in Postable, NEW bytes \in Seq(Byte), NEW from \in Nat,
         HasAt(bytes, from, RowBytes(Row(flown)))
  PROVE  ReadsRow(bytes, from, flown)
<1>1. PICK row : row = Row(flown)
  OBVIOUS
<1>2. PICK len \in Lens : len = Lengths(row)
  BY <1>1, LengthsType
<1>3. PICK r : r = RowBytes(row)
  OBVIOUS
<1>4. \A n \in 1 .. 29 : len[n] \in Nat
  BY LensAre
<1>5. PICK e : Ends(e, len, 29)
  <2>1. 29 \in Nat
    OBVIOUS
  <2> QED
    BY <1>4, <2>1, EndsExist
<1>6. RowLaid(r, row, e)
  BY <1>1, <1>2, <1>3, <1>5, RowBytesAre
<1>7. /\ r \in Seq(Byte) /\ Len(r) = 7 + e[29] /\ Len(r) \in 7 .. 77
      /\ \A b \in 1 .. 7 : r[b] = LeadingBytes(Leading(len))[b]
      /\ \A f \in 1 .. 29 : \A j \in 1 .. len[f] : r[7 + e[f - 1] + j] = Written(f, row)[j]
  BY <1>2, <1>6 DEF RowLaid
<1>8. /\ from + Len(r) <= Len(bytes)
      /\ \A j \in 1 .. Len(r) : bytes[from + j] = r[j]
  BY <1>1, <1>3 DEF HasAt
<1>15. PICK L \in Nat, R \in 7 .. 77, E \in Nat : L = Len(bytes) /\ R = Len(r) /\ E = e[29] /\ R = 7 + E /\ from + R <= L
  <2>1. e[29] \in Nat
    BY <1>5 DEF Ends
  <2>2. Len(r) = 7 + e[29] /\ Len(r) \in 7 .. 77 /\ Len(bytes) \in Nat /\ from + Len(r) <= Len(bytes)
    BY <1>7, <1>8
  <2> QED
    BY <2>1, <2>2, Zenon
<1>16. /\ \A b \in 1 .. 7 : r[b] = LeadingBytes(Leading(len))[b]
       /\ \A f \in 1 .. 29 : \A j \in 1 .. len[f] : r[7 + e[f - 1] + j] = Written(f, row)[j]
       /\ \A j \in 1 .. R : bytes[from + j] = r[j]
  BY <1>7, <1>8, <1>15
<1>9. LengthsRead(SubSeq(bytes, from + 1, from + 7)) = len
  <2>1. PICK ahead : ahead = SubSeq(bytes, from + 1, from + 7)
    OBVIOUS
  <2>2. PICK m \in Nat \ {0}, n \in Nat : m = from + 1 /\ n = from + 7
    OBVIOUS
  <2>3. n <= Len(bytes) /\ m <= n + 1 /\ ahead = SubSeq(bytes, m, n)
    <3>1. n <= L /\ m <= n + 1
      BY <1>15, <2>2
    <3> QED
      BY <1>15, <2>1, <2>2, <3>1
  <2>4. ahead \in Seq(Byte) /\ Len(ahead) = n - m + 1 /\ \A i \in 1 .. n - m + 1 : ahead[i] = bytes[m + i - 1]
    BY ONLY <2>3, PieceIs
  <2>5. Len(ahead) = 7 /\ \A i \in 1 .. 7 : ahead[i] = r[i]
    <3>1. n - m + 1 = 7 /\ \A i \in 1 .. 7 : m + i - 1 = from + i
      BY <2>2
    <3>2. ASSUME NEW i \in 1 .. 7 PROVE bytes[from + i] = r[i]
      <4>1. i \in 1 .. R
        OBVIOUS
      <4> QED
        BY <1>16, <4>1
    <3> QED
      BY <2>4, <3>1, <3>2
  <2>6. ahead = LeadingBytes(Leading(len))
    <3>1. ahead = [i \in 1 .. 7 |-> ahead[i]]
      <4>1. PICK S : S = Byte
        OBVIOUS
      <4>2. ahead \in Seq(S)
        BY <2>4, <4>1
      <4>3. ahead = [i \in 1 .. Len(ahead) |-> ahead[i]]
        BY ONLY <4>2, Listed
      <4> QED
        BY <2>5, <4>3
    <3>2. PICK lead : lead = LeadingBytes(Leading(len))
      OBVIOUS
    <3>3. lead = [i \in 1 .. 7 |-> lead[i]]
      BY <3>2 DEF LeadingBytes
    <3>4. \A i \in 1 .. 7 : ahead[i] = lead[i]
      BY <1>16, <2>5, <3>2
    <3> QED
      BY <3>1, <3>2, <3>3, <3>4
  <2> QED
    BY <2>1, <2>6, LengthsBack
<1>10. PICK at : at = Starts(from + 8, len)
  OBVIOUS
<1>11. \A f \in 1 .. 29 : at[f] = from + 8 + e[f - 1]
  <2>1. PICK start \in Nat, N \in Nat : start = from + 8 /\ N = 29
    OBVIOUS
  <2>2. len \in Seq(Nat) /\ Len(len) = N
    <3>1. len = [i \in 1 .. 29 |-> len[i]]
      BY DEF Lens
    <3>2. PICK g : g = [i \in 1 .. 29 |-> len[i]]
      OBVIOUS
    <3>3. g \in Seq(Nat) /\ Len(g) = 29
      BY <1>4, <3>2
    <3> QED
      BY <2>1, <3>1, <3>2, <3>3, Zenon
  <2>3. Ends(e, len, N)
    BY <1>5, <2>1
  <2>4. Starts(start, len) = [i \in 1 .. N |-> start + e[i - 1]]
    BY <2>2, <2>3, StartsIs
  <2> QED
    BY <1>10, <2>1, <2>4
<1>12. e \in [0 .. 29 -> Nat] /\ \A f \in 1 .. 29 : e[f] = e[f - 1] + len[f]
  BY <1>5 DEF Ends
<1>13. at[29] + len[29] - 1 = from + Len(r)
  <2>1. at[29] = from + 8 + e[28] /\ e[29] = e[28] + len[29] /\ e[28] \in Nat /\ len[29] \in Nat
    <3>1. 29 \in 1 .. 29 /\ 29 - 1 = 28 /\ 28 \in 0 .. 29
      OBVIOUS
    <3> QED
      BY <1>4, <1>11, <1>12, <3>1
  <2>2. PICK a, l \in Nat : a = e[28] /\ l = len[29]
    BY <2>1
  <2>3. at[29] = from + 8 + a /\ E = a + l
    BY <1>15, <2>1, <2>2
  <2>4. at[29] + l - 1 = from + R
    BY <1>15, <2>3
  <2> QED
    BY <1>15, <2>2, <2>4
<1>14. ASSUME NEW f \in 1 .. 29
       PROVE  Number(SubSeq(bytes, at[f], at[f] + len[f] - 1)) = Kept(f, flown[f])
  <2>1. e[f] = e[f - 1] + len[f] /\ e[f - 1] \in Nat /\ e[f] \in Nat /\ len[f] \in Nat /\ e[29] \in Nat
    <3>1. f - 1 \in 0 .. 29 /\ f \in 0 .. 29 /\ 29 \in 0 .. 29
      OBVIOUS
    <3> QED
      BY <1>4, <1>12, <3>1
  <2>2. e[f] <= e[29]
    <3>1. 29 \in Nat /\ 29 \in 0 .. 29 /\ f \in 0 .. 29
      OBVIOUS
    <3> QED
      BY <1>4, <1>5, <3>1, EndsGrow, Zenon
  <2>13. PICK a, b, l \in Nat : a = e[f - 1] /\ b = e[f] /\ l = len[f] /\ b = a + l /\ b <= E
    BY <1>15, <2>1, <2>2
  <2>3. PICK m \in Nat \ {0}, n \in Nat : m = from + 8 + a /\ n = m + l - 1
    OBVIOUS
  <2>14. at[f] = m /\ at[f] + len[f] - 1 = n
    <3>1. at[f] = from + 8 + a
      BY <1>11, <2>13
    <3> QED
      BY <2>3, <2>13, <3>1
  <2>4. n - m + 1 = l /\ m <= n + 1 /\ n = from + 7 + b
    <3>1. m = from + 8 + a /\ n = m + l - 1 /\ b = a + l
      BY <2>3, <2>13
    <3> QED
      BY ONLY <3>1
  <2>5. n <= Len(bytes)
    <3>1. n = from + 7 + b /\ b <= E /\ R = 7 + E /\ from + R <= L
      BY <1>15, <2>4, <2>13
    <3>2. n <= L
      BY ONLY <3>1
    <3> QED
      BY <1>15, <3>2
  <2>6. PICK t : t = SubSeq(bytes, m, n)
    OBVIOUS
  <2>7. t \in Seq(Byte) /\ Len(t) = n - m + 1 /\ \A i \in 1 .. n - m + 1 : t[i] = bytes[m + i - 1]
    <3>1. m <= n + 1
      BY <2>4
    <3> QED
      BY ONLY <2>5, <2>6, <3>1, PieceIs
  <2>8. PICK w : w = Written(f, row)
    OBVIOUS
  <2>9. w \in Seq(Byte) /\ Len(w) = len[f]
    <3>1. w = Written(f, Row(flown)) /\ len[f] = Lengths(Row(flown))[f]
      BY <1>1, <1>2, <2>8
    <3>2. Part(w, len[f], f)
      BY <3>1, WrittenType, Zenon
    <3> QED
      BY <3>2, Zenon DEF Part
  <2>10. ASSUME NEW j \in 1 .. len[f] PROVE t[j] = w[j]
    <3>1. PICK k \in 1 .. Len(r) : k = 7 + e[f - 1] + j /\ from + k = m + j - 1
      <4>1. PICK k \in Nat : k = 7 + a + j
        BY <2>13
      <4>2. j <= l /\ j >= 1
        BY <2>13
      <4>3. /\ k = 7 + a + j /\ j <= l /\ j >= 1 /\ j \in Int
            /\ R = 7 + E /\ b = a + l /\ b <= E /\ m = from + 8 + a
        BY <1>15, <2>3, <2>13, <4>1, <4>2
      <4>4. k \in 1 .. R /\ from + k = m + j - 1
        BY ONLY <4>3
      <4> QED
        BY <1>15, <2>13, <4>1, <4>4
    <3>2. t[j] = bytes[from + k]
      BY <2>4, <2>7, <2>13, <3>1
    <3>3. bytes[from + k] = r[k]
      BY <1>8
    <3>4. r[k] = w[j]
      BY <1>16, <2>8, <3>1
    <3> QED
      BY <3>2, <3>3, <3>4
  <2>11. t = w
    <3>1. t = [j \in 1 .. len[f] |-> t[j]]
      <4>1. PICK S : S = Byte
        OBVIOUS
      <4>2. t \in Seq(S) /\ Len(t) = len[f]
        BY <2>4, <2>7, <2>13, <4>1, Zenon
      <4>3. t = [j \in 1 .. Len(t) |-> t[j]]
        BY ONLY <4>2, Listed
      <4> QED
        BY <4>2, <4>3, Zenon
    <3>2. w = [j \in 1 .. len[f] |-> w[j]]
      BY <2>9
    <3> QED
      BY <2>10, <3>1, <3>2
  <2>12. Number(w) = Kept(f, flown[f])
    BY <1>1, <2>8, WrittenShown
  <2> QED
    BY <2>6, <2>11, <2>12, <2>14
<1> QED
  BY <1>1, <1>3, <1>9, <1>10, <1>13, <1>14 DEF ReadsRow

------------------------------------------------------------------------------
(* The inductive invariant: the table and the rows of the statement hold    *)
(* the columns that the posted numbers make, each written row is in the     *)
(* body where the one before it ends, and the page has read whole rows.     *)

Stored(columns) ==
  /\ IsFiniteSet(DOMAIN columns) /\ DOMAIN columns \subseteq Hashes
  /\ \A h \in DOMAIN columns : columns[h] = Row(Flown[h]) /\ Valid(columns[h])

Yielded(listed) ==
  /\ Len(listed) \in Nat
  /\ \A i \in 1 .. Len(listed) :
       /\ listed[i].hash \in Hashes
       /\ listed[i].row = Row(Flown[listed[i].hash]) /\ Valid(listed[i].row)

(* The first n rows lie in the bytes, the k-th of them up to e[k]. *)
LaidOut(bytes, listed, n, e) ==
  /\ e \in [0 .. n -> Nat] /\ e[0] = 0 /\ e[n] = Len(bytes)
  /\ \A k \in 1 .. n :
       /\ e[k] = e[k - 1] + Len(RowBytes(listed[k].row))
       /\ HasAt(bytes, e[k - 1], RowBytes(listed[k].row))

ReadBack(read, listed) ==
  /\ read \in Seq([1 .. 29 -> Nat])
  /\ \A i \in 1 .. Len(read) : \A f \in 1 .. 29 : read[i][f] = Kept(f, Flown[listed[i].hash][f])

Answered ==
  /\ pc \in {"idle", "rows", "sent", "parse", "shown", "failed"}
  /\ status \in {0, 200, 206, 500}
  /\ pc = "rows" => flights = <<>> /\ status = 0
  /\ status = 200 => rows = Len(order)
  /\ status = 206 => rows < Len(order) /\ ~ Fits(Len(body))
  /\ pc = "sent" => status # 0
  /\ pc \in {"parse", "shown"} => status \in {200, 206}
  /\ pc = "shown" => Len(flights) = rows
  /\ pc = "failed" => status = 500

Progress ==
  /\ room \in Rooms
  /\ rows \in 0 .. Len(order)
  /\ body \in Seq(Byte) /\ Len(body) <= room + 41
  /\ Len(flights) <= rows
  /\ \E e : LaidOut(body, order, rows, e) /\ offset = e[Len(flights)]

CodecInv ==
  /\ Stored(table) /\ Yielded(order) /\ ReadBack(flights, order)
  /\ Progress /\ Answered

LEMMA RowBytesType ==
  ASSUME NEW h \in Hashes
  PROVE  RowBytes(Row(Flown[h])) \in Seq(Byte) /\ Len(RowBytes(Row(Flown[h]))) \in 7 .. 77
<1>1. PICK flown \in Postable : flown = Flown[h]
  BY FlownIs
<1>2. PICK len \in Lens : len = Lengths(Row(flown))
  BY LengthsType
<1>3. PICK e : Ends(e, len, 29)
  <2>1. 29 \in Nat /\ \A n \in 1 .. 29 : len[n] \in Nat
    BY LensAre
  <2> QED
    BY <2>1, EndsExist
<1>4. RowLaid(RowBytes(Row(flown)), Row(flown), e)
  BY <1>2, <1>3, RowBytesAre
<1> QED
  BY <1>1, <1>4 DEF RowLaid

(* The bytes of each of the rows of a statement. *)
LEMMA YieldedBytes ==
  ASSUME NEW listed, Yielded(listed), NEW i \in 1 .. Len(listed)
  PROVE  RowBytes(listed[i].row) \in Seq(Byte) /\ Len(RowBytes(listed[i].row)) \in 7 .. 77
<1>1. listed[i].hash \in Hashes /\ listed[i].row = Row(Flown[listed[i].hash])
  BY DEF Yielded
<1> QED
  BY <1>1, RowBytesType

LEMMA HasAtAppend ==
  ASSUME NEW bytes \in Seq(Byte), NEW t \in Seq(Byte), NEW r \in Seq(Byte), NEW from \in Nat,
         HasAt(bytes, from, r)
  PROVE  HasAt(bytes \o t, from, r)
<1>1. from + Len(r) <= Len(bytes) /\ \A j \in 1 .. Len(r) : bytes[from + j] = r[j]
  BY DEF HasAt
<1>2. PICK S : S = Byte
  OBVIOUS
<1>3. PICK a, m, n \in Nat : a = Len(bytes) /\ m = Len(t) /\ n = Len(r)
  OBVIOUS
<1>4. PICK w : w = bytes \o t
  OBVIOUS
<1>5. Len(w) = a + m /\ \A j \in 1 .. a + m : w[j] = IF j <= a THEN bytes[j] ELSE t[j - a]
  <2>1. bytes \in Seq(S) /\ t \in Seq(S)
    BY <1>2
  <2> QED
    BY ONLY <1>3, <1>4, <2>1, ConcatIs
<1>6. from + n <= a
  BY <1>1, <1>3
<1>7. ASSUME NEW j \in 1 .. n PROVE w[from + j] = r[j]
  <2>1. from + j \in 1 .. a + m /\ from + j <= a
    BY ONLY <1>6
  <2> QED
    BY <1>1, <1>3, <1>5, <2>1
<1>8. from + n <= a + m
  BY ONLY <1>6
<1> QED
  BY <1>3, <1>4, <1>5, <1>7, <1>8 DEF HasAt

LEMMA HasAtEnd ==
  ASSUME NEW bytes \in Seq(Byte), NEW t \in Seq(Byte)
  PROVE  HasAt(bytes \o t, Len(bytes), t)
<1>2. PICK S : S = Byte
  OBVIOUS
<1>3. PICK a, m \in Nat : a = Len(bytes) /\ m = Len(t)
  OBVIOUS
<1>4. PICK w : w = bytes \o t
  OBVIOUS
<1>5. Len(w) = a + m /\ \A j \in 1 .. a + m : w[j] = IF j <= a THEN bytes[j] ELSE t[j - a]
  <2>1. bytes \in Seq(S) /\ t \in Seq(S)
    BY <1>2
  <2> QED
    BY ONLY <1>3, <1>4, <2>1, ConcatIs
<1>7. ASSUME NEW j \in 1 .. m PROVE w[a + j] = t[j]
  <2>1. a + j \in 1 .. a + m /\ ~ (a + j <= a) /\ a + j - a = j
    OBVIOUS
  <2> QED
    BY <1>5, <2>1
<1> QED
  BY <1>3, <1>4, <1>5, <1>7 DEF HasAt

(* The rows before the k-th end before it. *)
LEMMA LaidOutGrows ==
  ASSUME NEW listed, Yielded(listed), NEW n \in 0 .. Len(listed), NEW bytes, NEW e,
         LaidOut(bytes, listed, n, e), NEW k \in 0 .. n
  PROVE  e[k] \in Nat /\ e[k] <= e[n] /\ (k < n => e[k] + 7 <= e[n])
<1>1. /\ e \in [0 .. n -> Nat] /\ e[0] = 0
      /\ \A i \in 1 .. n : e[i] = e[i - 1] + Len(RowBytes(listed[i].row))
  BY DEF LaidOut
<1>2. PICK N \in Nat : N = Len(listed)
  BY DEF Yielded
<1>3. n \in Nat /\ n <= N
  BY <1>2
<1>4. PICK len : len = [i \in 1 .. n |-> Len(RowBytes(listed[i].row))]
  OBVIOUS
<1>5. ASSUME NEW i \in 1 .. n PROVE len[i] = Len(RowBytes(listed[i].row)) /\ len[i] \in 7 .. 77
  <2>1. i \in 1 .. Len(listed)
    BY <1>2, <1>3
  <2>2. Len(RowBytes(listed[i].row)) \in 7 .. 77
    BY <2>1, YieldedBytes
  <2> QED
    BY <1>4, <2>2
<1>6. Ends(e, len, n)
  BY <1>1, <1>5 DEF Ends
<1>7. \A i \in 1 .. n : len[i] \in Nat
  BY <1>5
<1>8. n \in 0 .. n
  BY <1>3
<1>9. \A i \in 0 .. n : e[i] <= e[n]
  BY <1>3, <1>6, <1>7, <1>8, EndsGrow
<1>10. ASSUME k < n PROVE e[k] + 7 <= e[n]
  <2>1. PICK i \in 1 .. n : i = k + 1 /\ i - 1 = k
    BY <1>3, <1>10
  <2>2. e[i] = e[k] + len[i] /\ len[i] \in 7 .. 77 /\ e[i] <= e[n] /\ i \in 0 .. n
    BY <1>1, <1>5, <1>9, <2>1, SMTT(30)
  <2>3. e[k] \in Nat /\ e[n] \in Nat /\ e[i] \in Nat
    BY <1>1, <1>8, <2>2
  <2>4. PICK a \in Nat, b \in Nat, c \in Nat, l \in 7 .. 77 : a = e[k] /\ b = e[i] /\ c = e[n] /\ l = len[i]
    BY <2>2, <2>3, Zenon
  <2>5. b = a + l /\ b <= c
    BY <2>2, <2>4, Zenon
  <2>6. a + 7 <= c
    BY ONLY <2>5
  <2> QED
    BY <2>4, <2>6, Zenon
<1> QED
  BY <1>1, <1>9, <1>10

(* WriteRow: the next row behind the others. *)
LEMMA LaidOutNext ==
  ASSUME NEW listed, Yielded(listed), NEW n \in 0 .. Len(listed), n < Len(listed),
         NEW bytes \in Seq(Byte), NEW e, LaidOut(bytes, listed, n, e),
         NEW r, r = RowBytes(listed[n + 1].row)
  PROVE  \E g : LaidOut(bytes \o r, listed, n + 1, g) /\ g[0] = e[0]
<1>1. /\ e \in [0 .. n -> Nat] /\ e[0] = 0 /\ e[n] = Len(bytes)
      /\ \A k \in 1 .. n : /\ e[k] = e[k - 1] + Len(RowBytes(listed[k].row))
                           /\ HasAt(bytes, e[k - 1], RowBytes(listed[k].row))
  BY DEF LaidOut
<1>2. PICK N \in Nat : N = Len(listed)
  BY DEF Yielded
<1>3. PICK m \in Nat : m = n + 1 /\ n \in Nat /\ m \in 1 .. N
  BY <1>2
<1>4. r \in Seq(Byte)
  BY <1>2, <1>3, YieldedBytes
<1>5. PICK a, b \in Nat : a = Len(bytes) /\ b = Len(r)
  BY <1>4
<1>6. PICK w : w = bytes \o r
  OBVIOUS
<1>7. Len(w) = a + b
  <2>1. PICK S : S = Byte
    OBVIOUS
  <2>2. bytes \in Seq(S) /\ r \in Seq(S)
    BY <1>4, <2>1
  <2> QED
    BY ONLY <1>5, <1>6, <2>2, ConcatIs
<1>8. PICK g : g = [k \in 0 .. m |-> IF k <= n THEN e[k] ELSE a + b]
  OBVIOUS
<1>9. g \in [0 .. m -> Nat] /\ g[0] = 0 /\ g[m] = a + b /\ \A k \in 0 .. n : g[k] = e[k]
  <2>1. \A k \in 0 .. m : k <= n => k \in 0 .. n
    BY <1>3
  <2>2. ASSUME NEW k \in 0 .. m PROVE (IF k <= n THEN e[k] ELSE a + b) \in Nat
    BY <1>1, <2>1
  <2>3. m \in 0 .. m /\ ~ (m <= n) /\ 0 \in 0 .. m /\ 0 <= n /\ \A k \in 0 .. n : k \in 0 .. m /\ k <= n
    BY <1>3
  <2> QED
    BY <1>1, <1>8, <2>2, <2>3
<1>10. ASSUME NEW k \in 1 .. m
       PROVE  g[k] = g[k - 1] + Len(RowBytes(listed[k].row)) /\ HasAt(w, g[k - 1], RowBytes(listed[k].row))
  <2>1. CASE k <= n
    <3>1. k \in 1 .. n /\ k \in 0 .. n /\ k - 1 \in 0 .. n
      BY <1>3, <2>1
    <3>2. g[k] = e[k] /\ g[k - 1] = e[k - 1] /\ e[k - 1] \in Nat
      BY <1>1, <1>9, <3>1
    <3>3. RowBytes(listed[k].row) \in Seq(Byte)
      <4>1. k \in 1 .. Len(listed)
        BY <1>2, <1>3
      <4> QED
        BY <4>1, YieldedBytes
    <3>4. HasAt(bytes, e[k - 1], RowBytes(listed[k].row))
      BY <1>1, <3>1
    <3>5. HasAt(w, e[k - 1], RowBytes(listed[k].row))
      BY <1>4, <1>6, <3>2, <3>3, <3>4, HasAtAppend
    <3> QED
      BY <1>1, <3>1, <3>2, <3>5
  <2>2. CASE ~ (k <= n)
    <3>1. k = m /\ k - 1 = n /\ n \in 0 .. n
      BY <1>3, <2>2
    <3>2. g[k] = a + b /\ g[k - 1] = a
      BY <1>1, <1>5, <1>9, <3>1
    <3>3. RowBytes(listed[k].row) = r
      BY <1>3, <3>1
    <3>4. HasAt(w, a, r)
      BY <1>4, <1>5, <1>6, HasAtEnd
    <3> QED
      BY <1>5, <3>2, <3>3, <3>4
  <2> QED
    BY <2>1, <2>2
<1>11. LaidOut(w, listed, m, g)
  BY <1>7, <1>9, <1>10 DEF LaidOut
<1> QED
  BY <1>1, <1>3, <1>6, <1>9, <1>11

(* ReadFlight: at the end of a row the next row is read. *)
LEMMA NextIsRead ==
  ASSUME NEW listed, Yielded(listed), NEW n \in 0 .. Len(listed),
         NEW bytes \in Seq(Byte), NEW e, LaidOut(bytes, listed, n, e),
         NEW k \in 0 .. n, e[k] < Len(bytes)
  PROVE  /\ k < n
         /\ e[k] \in Nat /\ e[k] + 7 <= Len(bytes) /\ e[k + 1] <= Len(bytes)
         /\ listed[k + 1].hash \in Hashes
         /\ ReadsRow(bytes, e[k], Flown[listed[k + 1].hash])
         /\ e[k] + Len(RowBytes(Row(Flown[listed[k + 1].hash]))) = e[k + 1]
<1>1. /\ e \in [0 .. n -> Nat] /\ e[n] = Len(bytes)
      /\ \A i \in 1 .. n : /\ e[i] = e[i - 1] + Len(RowBytes(listed[i].row))
                           /\ HasAt(bytes, e[i - 1], RowBytes(listed[i].row))
  BY DEF LaidOut
<1>2. PICK N \in Nat : N = Len(listed)
  BY DEF Yielded
<1>3. n \in Nat /\ n <= N /\ k \in Nat
  BY <1>2
<1>4. k < n
  <2>1. k # n
    <3>1. e[k] \in Nat /\ e[n] \in Nat
      BY <1>1, <1>3
    <3> QED
      BY <1>1, <3>1
  <2> QED
    BY <1>3, <2>1
<1>5. PICK i \in 1 .. n : i = k + 1 /\ i - 1 = k /\ i \in 1 .. N /\ i \in 0 .. n
  BY <1>3, <1>4
<1>6. e[k] \in Nat /\ e[k] + 7 <= Len(bytes)
  BY <1>1, <1>4, LaidOutGrows
<1>7. e[i] <= Len(bytes)
  BY <1>1, <1>5, LaidOutGrows
<1>8. PICK h \in Hashes : h = listed[i].hash /\ listed[i].row = Row(Flown[h])
  BY <1>2, <1>5 DEF Yielded
<1>9. HasAt(bytes, e[k], RowBytes(Row(Flown[h]))) /\ e[i] = e[k] + Len(RowBytes(Row(Flown[h])))
  BY <1>1, <1>5, <1>8
<1>10. ReadsRow(bytes, e[k], Flown[h])
  <2>1. PICK flown \in Postable, from \in Nat : flown = Flown[h] /\ from = e[k]
    BY <1>6, FlownIs
  <2>2. HasAt(bytes, from, RowBytes(Row(flown)))
    BY <1>9, <2>1
  <2> QED
    BY <2>1, <2>2, RowIsRead
<1> QED
  BY <1>4, <1>5, <1>6, <1>7, <1>8, <1>9, <1>10

LEMMA KeptType ==
  ASSUME NEW flown \in Postable, NEW f \in 1 .. 29
  PROVE  Kept(f, flown[f]) \in Nat
<1>1. PICK n \in Nat : n = flown[f]
  BY DEF Postable
<1>2. ASSUME Size[f] <= 2 PROVE n % 256 ^ Size[f] \in Nat
  <2>1. Size[f] \in {1, 2}
    <3>1. Size[f] \in {1, 2, 4, 8}
      BY FieldIs, Zenon
    <3> QED
      BY <1>2, <3>1
  <2>2. PICK p : p = 256 ^ Size[f]
    OBVIOUS
  <2>3. p \in Nat \ {0}
    <3>1. PICK q, r : q = 256 ^ 1 /\ r = 256 ^ 2
      OBVIOUS
    <3>2. p \in {q, r}
      BY <2>1, <2>2, <3>1, Zenon
    <3>3. q \in Nat \ {0} /\ r \in Nat \ {0}
      BY <3>1, Powers, SMT
    <3> QED
      BY <3>2, <3>3
  <2>4. n % p \in Nat
    BY <2>3
  <2> QED
    BY <2>2, <2>4, Zenon
<1>3. (IF Size[f] <= 2 THEN n % 256 ^ Size[f] ELSE n) \in Nat
  BY <1>2
<1> QED
  BY <1>1, <1>3 DEF Kept

(* Reading on: one flight more. *)
LEMMA ReadBackNext ==
  ASSUME NEW listed, NEW read, ReadBack(read, listed), NEW h \in Hashes,
         h = listed[Len(read) + 1].hash,
         NEW flight, flight = [f \in 1 .. 29 |-> Kept(f, Flown[h][f])]
  PROVE  ReadBack(Append(read, flight), listed) /\ Len(Append(read, flight)) = Len(read) + 1
<1>1. PICK S : S = [1 .. 29 -> Nat]
  OBVIOUS
<1>2. flight \in S
  <2>1. PICK flown \in Postable : flown = Flown[h]
    BY FlownIs, Zenon
  <2>2. \A f \in 1 .. 29 : Kept(f, flown[f]) \in Nat
    BY KeptType, Zenon
  <2>3. flight = [f \in 1 .. 29 |-> Kept(f, flown[f])]
    BY <2>1, Zenon
  <2> QED
    BY <1>1, <2>2, <2>3, Zenon
<1>3. read \in Seq(S) /\ \A i \in 1 .. Len(read) : \A f \in 1 .. 29 : read[i][f] = Kept(f, Flown[listed[i].hash][f])
  BY <1>1, Zenon DEF ReadBack
<1>w. PICK w : w = Append(read, flight)
  OBVIOUS
<1>4. PICK m \in Nat : m = Len(read) /\ w = Append(read, flight)
  <2>1. Len(read) \in Nat
    BY ONLY <1>3, LenProperties
  <2> QED
    BY <1>w, <2>1, Zenon
<1>5. w \in Seq(S) /\ Len(w) = m + 1 /\ w[m + 1] = flight /\ \A i \in 1 .. m : w[i] = read[i]
  BY ONLY <1>2, <1>3, <1>4, AppendProperties
<1>6. ASSUME NEW i \in 1 .. m + 1, NEW f \in 1 .. 29
      PROVE  w[i][f] = Kept(f, Flown[listed[i].hash][f])
  <2>1. CASE i <= m
    <3>1. i \in 1 .. m
      BY <2>1
    <3> QED
      BY <1>3, <1>4, <1>5, <3>1, ZenonT(60)
  <2>2. CASE ~ (i <= m)
    <3>1. i = m + 1
      BY <2>2
    <3>2. w[i] = flight /\ listed[i].hash = h
      BY <1>4, <1>5, <3>1, Zenon
    <3>3. flight[f] = Kept(f, Flown[h][f])
      BY Zenon
    <3> QED
      BY <3>2, <3>3, Zenon
  <2> QED
    BY <2>1, <2>2
<1> QED
  <2>1. Len(w) = m + 1 /\ w \in Seq([1 .. 29 -> Nat])
    BY <1>1, <1>5, Zenon
  <2>2. \A i \in 1 .. Len(w) : \A f \in 1 .. 29 : w[i][f] = Kept(f, Flown[listed[i].hash][f])
    BY <1>6, <2>1, Zenon
  <2>3. ReadBack(w, listed)
    BY <2>1, <2>2, Zenon DEF ReadBack
  <2> QED
    BY <1>4, <2>1, <2>3, Zenon

------------------------------------------------------------------------------

LEMMA CodecInit == Init => CodecInv
<1> SUFFICES ASSUME Init PROVE CodecInv
  OBVIOUS
<1>1. Stored(table)
  <2>1. DOMAIN table = {}
    BY DEF Init
  <2>2. IsFiniteSet({})
    BY FS_EmptySet
  <2> QED
    BY <2>1, <2>2 DEF Stored
<1>2. Yielded(order)
  BY DEF Init, Yielded
<1>3. ReadBack(flights, order)
  BY DEF Init, ReadBack
<1>4. LaidOut(body, order, rows, [k \in 0 .. 0 |-> 0])
  BY DEF Init, LaidOut
<1>5. Progress
  <2>1. room \in Nat /\ room \in Rooms
    BY FlightCodecAssumption DEF Init
  <2>2. body = <<>> /\ rows = 0 /\ order = <<>> /\ flights = <<>> /\ offset = 0
    BY DEF Init
  <2>3. offset = [k \in 0 .. 0 |-> 0][Len(flights)]
    BY <2>2
  <2> QED
    BY <1>4, <2>1, <2>2, <2>3 DEF Progress
<1>6. Answered
  BY DEF Init, Answered
<1> QED
  BY <1>1, <1>2, <1>3, <1>5, <1>6 DEF CodecInv

(* A flight comes into the table as the columns that its numbers make. *)
LEMMA PostKeeps ==
  ASSUME CodecInv, NEW h \in Hashes, Post(h)
  PROVE  CodecInv'
<1>1. Stored(table)'
  <2>1. PICK flight : flight = Parsed(Posted(Flown[h]))
    OBVIOUS
  <2>2. /\ Valid(flight) /\ flight = Row(Flown[h])
        /\ table' = [k \in DOMAIN table \cup {h} |-> IF k = h THEN flight ELSE table[k]]
    BY <2>1 DEF Post, Row
  <2>3. /\ IsFiniteSet(DOMAIN table) /\ DOMAIN table \subseteq Hashes
        /\ \A k \in DOMAIN table : table[k] = Row(Flown[k]) /\ Valid(table[k])
    BY DEF CodecInv, Stored
  <2>4. PICK new : new = table' /\ DOMAIN new = DOMAIN table \cup {h}
    BY <2>2
  <2>5. IsFiniteSet(DOMAIN new) /\ DOMAIN new \subseteq Hashes
    BY <2>3, <2>4, FS_AddElement
  <2>6. ASSUME NEW k \in DOMAIN new PROVE new[k] = Row(Flown[k]) /\ Valid(new[k])
    <3>1. CASE k = h
      BY <2>2, <2>4, <3>1
    <3>2. CASE k # h
      BY <2>2, <2>3, <2>4, <3>2
    <3> QED
      BY <3>1, <3>2
  <2>7. Stored(new)
    BY <2>5, <2>6 DEF Stored
  <2> QED
    BY <2>4, <2>7
<1>2. UNCHANGED <<room, pc, order, rows, body, status, offset, flights>>
  BY DEF Post
<1>3. Yielded(order)' /\ ReadBack(flights, order)'
  BY <1>2 DEF CodecInv
<1>4. Progress' /\ Answered'
  BY <1>2 DEF CodecInv, Progress, Answered, Fits
<1> QED
  BY <1>1, <1>3, <1>4 DEF CodecInv

(* The statement yields each row of the table once. *)
LEMMA QueryKeeps ==
  ASSUME CodecInv, Query
  PROVE  CodecInv'
<1>1. PICK s \in SetToSeqs(DOMAIN table) :
        order' = [i \in 1 .. Len(s) |-> [hash |-> s[i], row |-> table[s[i]]]]
  BY DEF Query
<1>2. /\ IsFiniteSet(DOMAIN table) /\ DOMAIN table \subseteq Hashes
      /\ \A h \in DOMAIN table : table[h] = Row(Flown[h]) /\ Valid(table[h])
  BY DEF CodecInv, Stored
<1>3. PICK c \in Nat : c = Cardinality(DOMAIN table)
  BY <1>2, FS_CardinalityType
<1>4. s \in [1 .. c -> DOMAIN table]
  BY <1>1, <1>3 DEF SetToSeqs
<1>5. Len(s) = c
  BY <1>4
<1>6. PICK new : new = order' /\ new = [i \in 1 .. c |-> [hash |-> s[i], row |-> table[s[i]]]]
  BY <1>1, <1>5
<1>7. Len(new) = c
  BY <1>6
<1>8. Yielded(new)
  <2>1. ASSUME NEW i \in 1 .. c
        PROVE  /\ new[i].hash \in Hashes
               /\ new[i].row = Row(Flown[new[i].hash]) /\ Valid(new[i].row)
    <3>1. s[i] \in DOMAIN table /\ new[i].hash = s[i] /\ new[i].row = table[s[i]]
      BY <1>4, <1>6
    <3> QED
      BY <1>2, <3>1
  <2> QED
    BY <1>7, <2>1 DEF Yielded
<1>9. /\ pc' = "rows" /\ rows' = 0 /\ body' = <<>> /\ status' = 0 /\ offset' = 0 /\ flights' = <<>>
      /\ room' = room /\ table' = table
  BY DEF Query
<1>10. Stored(table)' /\ Yielded(order)'
  BY <1>6, <1>8, <1>9 DEF CodecInv
<1>11. ReadBack(flights, order)'
  BY <1>9 DEF ReadBack
<1>12. LaidOut(body, order, rows, [k \in 0 .. 0 |-> 0])'
  BY <1>9 DEF LaidOut
<1>13. Progress'
  <2>1. room' \in Nat /\ room' \in Rooms
    BY <1>9, FlightCodecAssumption DEF CodecInv, Progress
  <2>2. offset' = [k \in 0 .. 0 |-> 0][Len(flights')]
    BY <1>9
  <2>3. rows' \in 0 .. Len(order')
    BY <1>6, <1>7, <1>9
  <2>4. body' \in Seq(Byte) /\ Len(body') <= room' + 41 /\ Len(flights') <= rows'
    BY <1>9, <2>1
  <2> QED
    BY <1>12, <2>1, <2>2, <2>3, <2>4 DEF Progress
<1>14. Answered'
  BY <1>9 DEF Answered
<1> QED
  BY <1>10, <1>11, <1>13, <1>14 DEF CodecInv

(* A row goes behind the others, within 41 bytes of the room. *)
LEMMA WriteKeeps ==
  ASSUME CodecInv, WriteRow
  PROVE  CodecInv'
<1>1. /\ pc = "rows" /\ rows < Len(order) /\ Len(body) + 8 + 8 + 10 + 10 <= room
      /\ body' = body \o RowBytes(order[rows + 1].row) /\ rows' = rows + 1
      /\ UNCHANGED <<room, table, pc, order, status, offset, flights>>
  BY DEF WriteRow, Fits
<1>2. PICK e : LaidOut(body, order, rows, e) /\ offset = e[Len(flights)]
  BY DEF CodecInv, Progress
<1>listed. PICK listed : listed = order
  OBVIOUS
<1>3. PICK bytes \in Seq(Byte) : bytes = body /\ listed = order /\ Yielded(listed)
  BY <1>listed DEF CodecInv, Progress
<1>4. PICK N \in Nat, n \in 0 .. Len(listed) : N = Len(listed) /\ n = rows /\ n < N /\ n \in Nat
  <2>1. Len(listed) \in Nat
    BY <1>3 DEF Yielded
  <2> QED
    BY <1>1, <1>3, <2>1 DEF CodecInv, Progress
<1>5. PICK r : r = RowBytes(listed[n + 1].row)
  OBVIOUS
<1>6. PICK g : LaidOut(bytes \o r, listed, n + 1, g) /\ g[0] = e[0]
  BY <1>2, <1>3, <1>4, <1>5, LaidOutNext
<1>7. r \in Seq(Byte) /\ Len(r) \in 7 .. 77
  <2>1. PICK i \in 1 .. N : i = n + 1
    BY <1>4
  <2>2. RowBytes(listed[i].row) \in Seq(Byte) /\ Len(RowBytes(listed[i].row)) \in 7 .. 77
    BY <1>3, <1>4, YieldedBytes, Zenon
  <2> QED
    BY <1>5, <2>1, <2>2, Zenon
<1>8. PICK space \in Nat, a \in Nat, b \in 7 .. 77 :
        space = room /\ a = Len(body) /\ b = Len(r) /\ a + 36 <= space
  <2>1. room \in Nat
    BY FlightCodecAssumption DEF CodecInv, Progress
  <2>2. Len(body) \in Nat
    BY <1>3
  <2>3. PICK space \in Nat, a \in Nat, b \in 7 .. 77 : space = room /\ a = Len(body) /\ b = Len(r)
    BY <1>7, <2>1, <2>2, Zenon
  <2>4. a + 8 + 8 + 10 + 10 <= space
    BY <1>1, <2>3, Zenon
  <2>5. a + 36 <= space
    BY ONLY <2>4
  <2> QED
    BY <2>3, <2>5, Zenon
<1>9. PICK w : w = bytes \o r
  OBVIOUS
<1>10. w \in Seq(Byte) /\ Len(w) = a + b
  <2>1. PICK S : S = Byte
    OBVIOUS
  <2>2. bytes \in Seq(S) /\ r \in Seq(S)
    BY <1>7, <2>1
  <2>3. w \in Seq(S) /\ Len(w) = Len(bytes) + Len(r)
    BY ONLY <1>9, <2>2, ConcatIs
  <2> QED
    BY <1>3, <1>8, <2>1, <2>3
<1>11. body' = w /\ order' = listed /\ rows' = n + 1
  BY <1>1, <1>3, <1>4, <1>5, <1>9
<1>12. flights = <<>>
  BY <1>1 DEF CodecInv, Answered
<1>13. Progress'
  <2>1. room' \in Rooms
    BY <1>1 DEF CodecInv, Progress
  <2>2. Len(body') <= room' + 41
    <3>2. a + 36 <= space
      BY <1>8, Zenon
    <3>1. a + b <= space + 41
      BY ONLY <3>2
    <3> QED
      BY <1>1, <1>8, <1>10, <1>11, <3>1
  <2>3. rows' \in 0 .. Len(order') /\ Len(flights') <= rows'
    <3>1. n + 1 \in 0 .. N /\ Len(flights') = 0
      BY <1>1, <1>4, <1>12
    <3> QED
      BY <1>4, <1>11, <3>1
  <2>4. LaidOut(body, order, rows, g)'
    BY <1>6, <1>9, <1>11
  <2>5. offset' = g[Len(flights')]
    <3>1. Len(flights) = 0
      BY <1>12
    <3> QED
      BY <1>1, <1>2, <1>6, <3>1
  <2>6. body' \in Seq(Byte)
    BY <1>10, <1>11
  <2> QED
    BY <2>1, <2>2, <2>3, <2>4, <2>5, <2>6 DEF Progress
<1>14. Answered'
  <2>1. status = 0
    BY <1>1 DEF CodecInv, Answered
  <2> QED
    BY <1>1, <1>12, <2>1 DEF Answered
<1>15. Stored(table)' /\ Yielded(order)' /\ ReadBack(flights, order)'
  BY <1>1 DEF CodecInv
<1> QED
  BY <1>13, <1>14, <1>15 DEF CodecInv

(* What the steps leave alone that only move the request on. *)
LEMMA OnlyMoves ==
  ASSUME CodecInv, UNCHANGED <<room, table, order, rows, body, offset, flights>>, Answered'
  PROVE  CodecInv'
<1>1. Progress'
  BY DEF CodecInv, Progress
<1>2. Stored(table)' /\ Yielded(order)' /\ ReadBack(flights, order)'
  BY DEF CodecInv
<1> QED
  BY <1>1, <1>2 DEF CodecInv

(* The answer is sent with the status that fits its rows. *)
LEMMA RespondKeeps ==
  ASSUME CodecInv, NoRoom \/ Done \/ StepFails
  PROVE  CodecInv'
<1>1. /\ pc' = "sent" /\ status' \in {200, 206, 500}
      /\ UNCHANGED <<room, table, order, rows, body, offset, flights>>
  BY DEF NoRoom, Done, StepFails, Respond, Cut
<1>2. /\ status' = 200 => rows = Len(order)
      /\ status' = 206 => rows < Len(order) /\ ~ Fits(Len(body))
  BY DEF NoRoom, Done, StepFails, Respond, Cut
<1>3. Answered'
  <2>1. status' # 0
    BY <1>1
  <2>2. Fits(Len(body))' = Fits(Len(body))
    BY <1>1 DEF Fits
  <2> QED
    BY <1>1, <1>2, <2>1, <2>2 DEF Answered
<1> QED
  BY <1>1, <1>3, OnlyMoves

(* The page begins, throws or is loaded again. *)
LEMMA PageKeeps ==
  ASSUME CodecInv, Begin \/ Throw \/ Reload
  PROVE  CodecInv'
<1>1. UNCHANGED <<room, table, order, rows, body, status, offset, flights>>
  BY DEF Begin, Throw, Reload
<1>2. Answered
  BY DEF CodecInv
<1>3. Answered'
  <2>1. Fits(Len(body))' = Fits(Len(body))
    BY <1>1 DEF Fits
  <2>2. CASE Begin
    <3>1. pc = "sent" /\ status \in 200 .. 299 /\ pc' = "parse"
      BY <2>2 DEF Begin
    <3>2. status \in {200, 206}
      BY <1>2, <3>1 DEF Answered
    <3> QED
      BY <1>1, <1>2, <2>1, <3>1, <3>2 DEF Answered
  <2>3. CASE Throw
    <3>1. pc = "sent" /\ status \notin 200 .. 299 /\ pc' = "failed"
      BY <2>3 DEF Throw
    <3>2. status = 500
      BY <1>2, <3>1 DEF Answered
    <3> QED
      BY <1>1, <1>2, <2>1, <3>1, <3>2 DEF Answered
  <2>4. CASE Reload
    <3>1. pc' = "idle"
      BY <2>4 DEF Reload
    <3> QED
      BY <1>1, <1>2, <2>1, <3>1 DEF Answered
  <2> QED
    BY <2>2, <2>3, <2>4
<1> QED
  BY <1>1, <1>3, OnlyMoves

(* The page reads a row wherever one begins, and comes to the next.         *)
LEMMA ReadKeeps ==
  ASSUME CodecInv, ReadFlight
  PROVE  CodecInv'
<1>1. PICK e : LaidOut(body, order, rows, e) /\ offset = e[Len(flights)]
  BY DEF CodecInv, Progress
<1>listed. PICK listed : listed = order
  OBVIOUS
<1>2. PICK bytes \in Seq(Byte) : bytes = body /\ listed = order /\ Yielded(listed)
  BY <1>listed DEF CodecInv, Progress
<1>3. PICK n \in Nat, k \in Nat :
        n = rows /\ k = Len(flights) /\ n \in 0 .. Len(listed) /\ k \in 0 .. n
  <2>1. Len(listed) \in Nat
    BY <1>2 DEF Yielded
  <2>2. Len(flights) \in Nat
    BY DEF CodecInv, ReadBack
  <2> QED
    BY <1>2, <2>1, <2>2 DEF CodecInv, Progress
<1>4. PICK at, len, from :
        /\ len = LengthsRead(SubSeq(bytes, from + 1, from + 7)) /\ at = Starts(from + 8, len)
        /\ from = offset /\ from = e[k]
  BY <1>1, <1>3
<1>5. /\ pc = "parse" /\ from < Len(bytes)
      /\ IF Len(bytes) - from >= 7 /\ at[29] + len[29] - 1 <= Len(bytes)
         THEN /\ flights' = Append(flights, [f \in Field |-> Number(SubSeq(bytes, at[f], at[f] + len[f] - 1))])
              /\ offset' = at[29] + len[29] - 1
              /\ UNCHANGED pc
         ELSE /\ pc' = "failed"
              /\ UNCHANGED <<offset, flights>>
      /\ UNCHANGED <<room, table, order, rows, body, status>>
  BY <1>2, <1>4 DEF ReadFlight
<1>6. LaidOut(bytes, listed, n, e) /\ e[k] < Len(bytes)
  BY <1>1, <1>2, <1>3, <1>4, <1>5
<1>7. PICK h : h = listed[k + 1].hash
  OBVIOUS
<1>8. /\ k < n /\ from \in Nat /\ from + 7 <= Len(bytes) /\ e[k + 1] <= Len(bytes)
      /\ h \in Hashes
      /\ ReadsRow(bytes, from, Flown[h])
      /\ from + Len(RowBytes(Row(Flown[h]))) = e[k + 1]
  <2>1. /\ k < n
        /\ e[k] \in Nat /\ e[k] + 7 <= Len(bytes) /\ e[k + 1] <= Len(bytes)
        /\ listed[k + 1].hash \in Hashes
        /\ ReadsRow(bytes, e[k], Flown[listed[k + 1].hash])
        /\ e[k] + Len(RowBytes(Row(Flown[listed[k + 1].hash]))) = e[k + 1]
    BY ONLY <1>2, <1>3, <1>6, NextIsRead, SMTT(30)
  <2> QED
    BY <1>4, <1>7, <2>1, Zenon
<1>9. /\ at[29] + len[29] - 1 = e[k + 1]
      /\ \A f \in 1 .. 29 : Number(SubSeq(bytes, at[f], at[f] + len[f] - 1)) = Kept(f, Flown[h][f])
  BY <1>4, <1>8 DEF ReadsRow
<1>10. Len(bytes) - from >= 7 /\ at[29] + len[29] - 1 <= Len(bytes)
  <2>1. PICK L \in Nat, i \in Nat : L = Len(bytes) /\ i = from
    BY <1>8
  <2>2. i + 7 <= L
    BY <1>8, <2>1, Zenon
  <2>3. L - i >= 7
    BY ONLY <2>2
  <2> QED
    BY <1>8, <1>9, <2>1, <2>3, Zenon
<1>11. PICK flight : flight = [f \in 1 .. 29 |-> Kept(f, Flown[h][f])]
  OBVIOUS
<1>12. flight = [f \in Field |-> Number(SubSeq(bytes, at[f], at[f] + len[f] - 1))]
  BY <1>9, <1>11, FieldsAre
<1>13. flights' = Append(flights, flight) /\ offset' = e[k + 1] /\ pc' = pc
  <2>1. /\ flights' = Append(flights, [f \in Field |-> Number(SubSeq(bytes, at[f], at[f] + len[f] - 1))])
        /\ offset' = at[29] + len[29] - 1
        /\ UNCHANGED pc
    BY <1>5, <1>10, Zenon
  <2> QED
    BY <1>9, <1>12, <2>1, Zenon
<1>14. ReadBack(flights', listed) /\ Len(flights') = k + 1
  <2>1. PICK read : read = flights /\ ReadBack(read, listed) /\ k = Len(read)
    BY <1>2, <1>3 DEF CodecInv
  <2>2. ReadBack(Append(read, flight), listed) /\ Len(Append(read, flight)) = Len(read) + 1
    <3>1. h \in Hashes /\ h = listed[Len(read) + 1].hash
      BY <1>7, <1>8, <2>1, Zenon
    <3> QED
      BY <1>11, <2>1, <3>1, ReadBackNext, Zenon
  <2> QED
    BY <1>13, <2>1, <2>2
<1>15. UNCHANGED <<room, table, order, rows, body, status>>
  BY <1>5
<1>16. Progress'
  <2>1. LaidOut(body, order, rows, e)'
    BY <1>1, <1>15
  <2>2. offset' = e[Len(flights')]
    BY <1>13, <1>14
  <2>3. Len(flights') <= rows'
    BY <1>3, <1>8, <1>14, <1>15
  <2> QED
    BY <1>15, <2>1, <2>2, <2>3 DEF CodecInv, Progress
<1>17. Answered'
  <2>1. Fits(Len(body))' = Fits(Len(body))
    BY <1>15 DEF Fits
  <2>2. pc' = "parse"
    BY <1>5, <1>13
  <2> QED
    BY <1>5, <1>15, <2>1, <2>2 DEF CodecInv, Answered
<1> QED
  BY <1>2, <1>14, <1>15, <1>16, <1>17 DEF CodecInv

(* The page has read to the end: each row that was written.                 *)
LEMMA AllReadKeeps ==
  ASSUME CodecInv, AllRead
  PROVE  CodecInv'
<1>1. PICK e : LaidOut(body, order, rows, e) /\ offset = e[Len(flights)]
  BY DEF CodecInv, Progress
<1>listed. PICK listed : listed = order
  OBVIOUS
<1>2. PICK bytes \in Seq(Byte) : bytes = body /\ listed = order /\ Yielded(listed)
  BY <1>listed DEF CodecInv, Progress
<1>3. PICK n \in Nat, k \in Nat :
        n = rows /\ k = Len(flights) /\ n \in 0 .. Len(listed) /\ k \in 0 .. n
  <2>1. Len(listed) \in Nat
    BY <1>2 DEF Yielded
  <2>2. Len(flights) \in Nat
    BY DEF CodecInv, ReadBack
  <2> QED
    BY <1>2, <2>1, <2>2 DEF CodecInv, Progress
<1>4. /\ pc = "parse" /\ e[k] >= Len(bytes) /\ pc' = "shown"
      /\ UNCHANGED <<room, table, order, rows, body, status, offset, flights>>
  BY <1>1, <1>2, <1>3 DEF AllRead
<1>5. LaidOut(bytes, listed, n, e)
  BY <1>1, <1>2, <1>3
<1>6. e[k] \in Nat /\ (k < n => e[k] + 7 <= e[n]) /\ e[n] = Len(bytes)
  <2>1. e[k] \in Nat /\ (k < n => e[k] + 7 <= e[n])
    BY ONLY <1>2, <1>3, <1>5, LaidOutGrows
  <2> QED
    BY <1>5, <2>1 DEF LaidOut
<1>7. k = n
  BY <1>3, <1>4, <1>6
<1>8. Answered'
  <2>1. Fits(Len(body))' = Fits(Len(body))
    BY <1>4 DEF Fits
  <2>2. Len(flights) = rows
    BY <1>3, <1>7
  <2> QED
    BY <1>4, <2>1, <2>2 DEF CodecInv, Answered
<1> QED
  BY <1>4, <1>8, OnlyMoves

LEMMA CodecKept == Spec => []CodecInv
<1>1. ASSUME CodecInv, [Next]_vars PROVE CodecInv'
  <2>1. CASE \E h \in Hashes : Post(h)
    BY <1>1, <2>1, PostKeeps
  <2>2. CASE Query
    BY <1>1, <2>2, QueryKeeps
  <2>3. CASE WriteRow
    BY <1>1, <2>3, WriteKeeps
  <2>4. CASE NoRoom \/ Done \/ StepFails
    BY <1>1, <2>4, RespondKeeps
  <2>5. CASE Begin \/ Throw \/ Reload
    BY <1>1, <2>5, PageKeeps
  <2>6. CASE ReadFlight
    BY <1>1, <2>6, ReadKeeps
  <2>7. CASE AllRead
    BY <1>1, <2>7, AllReadKeeps
  <2>8. CASE UNCHANGED vars
    <3>1. UNCHANGED <<room, table, pc, order, rows, body, status, offset, flights>>
      BY <2>8 DEF vars
    <3>2. Answered'
      BY <1>1, <3>1 DEF CodecInv, Answered, Fits
    <3> QED
      BY <1>1, <3>1, <3>2, OnlyMoves
  <2> QED
    BY <1>1, <2>1, <2>2, <2>3, <2>4, <2>5, <2>6, <2>7, <2>8 DEF Next
<1> QED
  BY <1>1, CodecInit, PTL DEF Spec

LEMMA TypedStates == CodecInv => TypeOK
<1> SUFFICES ASSUME CodecInv PROVE TypeOK
  OBVIOUS
<1>1. ASSUME NEW h \in DOMAIN table, NEW f \in 1 .. 29
      PROVE  table[h][f] \in ByteSeq(Size[f])
  <2>1. h \in Hashes /\ table[h] = Row(Flown[h])
    BY DEF CodecInv, Stored
  <2>col. PICK col : col = table[h][f]
    OBVIOUS
  <2>2. PICK flown \in Postable : flown = Flown[h] /\ col = Row(flown)[f] /\ col = table[h][f]
    BY <2>col, <2>1, FlownIs
  <2>3. col = ColumnOf(flown[f], Size[f]) /\ \A i \in 1 .. Size[f] : col[i] \in Byte
    BY <2>2, ColumnIs
  <2>4. col = [i \in 1 .. Size[f] |-> col[i]]
    BY <2>3 DEF ColumnOf
  <2>5. col \in [1 .. Size[f] -> Byte]
    BY <2>3, <2>4
  <2> QED
    BY <2>2, <2>5 DEF ByteSeq, Byte
<1>2. DOMAIN table \subseteq Hashes
  BY DEF CodecInv, Stored
<1>3. offset \in 0 .. Len(body)
  <2>1. PICK e : LaidOut(body, order, rows, e) /\ offset = e[Len(flights)]
    BY DEF CodecInv, Progress
  <2>2. PICK bytes, listed : bytes = body /\ listed = order /\ Yielded(listed) /\ bytes \in Seq(Byte)
    BY DEF CodecInv, Progress
  <2>3. PICK n \in Nat, k \in Nat :
          n = rows /\ k = Len(flights) /\ n \in 0 .. Len(listed) /\ k \in 0 .. n
    <3>1. Len(listed) \in Nat
      BY <2>2 DEF Yielded
    <3>2. Len(flights) \in Nat
      BY DEF CodecInv, ReadBack
    <3> QED
      BY <2>2, <3>1, <3>2 DEF CodecInv, Progress
  <2>4. LaidOut(bytes, listed, n, e)
    BY <2>1, <2>2, <2>3
  <2>5. e[k] \in Nat /\ e[k] <= e[n]
    BY <2>2, <2>3, <2>4, LaidOutGrows
  <2>6. e[n] = Len(bytes)
    BY <2>4 DEF LaidOut
  <2>7. Len(bytes) \in Nat
    BY <2>2
  <2> QED
    BY <2>1, <2>2, <2>3, <2>5, <2>6, <2>7
<1>4. /\ room \in Rooms /\ rows \in 0 .. Len(order)
      /\ body \in Seq(0 .. 255) /\ Len(body) <= room + 41
  BY DEF CodecInv, Progress, Byte
<1>5. /\ pc \in {"idle", "rows", "sent", "parse", "shown", "failed"}
      /\ status \in {0, 200, 206, 500}
  BY DEF CodecInv, Answered
<1> QED
  BY <1>1, <1>2, <1>3, <1>4, <1>5, FieldsAre DEF TypeOK

(* What validate_flight() lets through. *)
MayBe(starts, ends, least, most, average, fastest) ==
  ends - starts \in Lasting /\ least <= most /\ average <= fastest

LEMMA ValidIs ==
  ASSUME NEW row, Valid(row)
  PROVE  MayBe(Number(row[1]), Number(row[2]), Number(row[8]), Number(row[9]), Number(row[22]), Number(row[23]))
<1>1. PICK n : n = [f \in {1, 2, 8, 9, 22, 23} |-> Number(row[f])]
  OBVIOUS
<1>2. MayBe(n[1], n[2], n[8], n[9], n[22], n[23])
  BY <1>1, Zenon DEF Valid, MayBe, StartsAt, EndsAt, AltitudeMin, AltitudeMax, SpeedAvg, SpeedMax
<1>3. /\ n[1] = Number(row[1]) /\ n[2] = Number(row[2]) /\ n[8] = Number(row[8])
      /\ n[9] = Number(row[9]) /\ n[22] = Number(row[22]) /\ n[23] = Number(row[23])
  BY <1>1
<1> QED
  BY <1>2, <1>3, Zenon

ShowsFlight(shown, posted) ==
  /\ \A f \in 1 .. 29 : shown[f] = Kept(f, posted[f])
  /\ MayBe(shown[1], shown[2], shown[8], shown[9], shown[22], shown[23])

LEMMA ShownStates == CodecInv => ShownAsPosted
<1> SUFFICES ASSUME CodecInv PROVE ShownAsPosted
  OBVIOUS
<1>1. Len(flights) <= rows /\ Len(flights) \in Nat /\ rows \in 0 .. Len(order) /\ Len(order) \in Nat
  BY DEF CodecInv, Progress, ReadBack, Yielded
<1>2. ASSUME NEW i \in 1 .. Len(flights)
      PROVE  ShowsFlight(flights[i], Flown[order[i].hash])
  <2>1. i \in 1 .. Len(order)
    BY <1>1
  <2>row. PICK row : row = order[i].row
    OBVIOUS
  <2>2. PICK h \in Hashes : h = order[i].hash /\ row = order[i].row /\ row = Row(Flown[h]) /\ Valid(row)
    BY <2>row, <2>1, Zenon DEF CodecInv, Yielded
  <2>3. PICK shown : shown = flights[i] /\ \A f \in 1 .. 29 : shown[f] = Kept(f, Flown[h][f])
    BY <2>2, Zenon DEF CodecInv, ReadBack
  <2>4. ASSUME NEW f \in {1, 2, 8, 9, 22, 23} PROVE shown[f] = Number(row[f])
    <3>1. f \in 1 .. 29 /\ f \notin Bins
      BY DEF Bins
    <3>2. PICK flown \in Postable : flown = Flown[h]
      BY FlownIs, Zenon
    <3>3. Number(Written(f, Row(flown))) = Kept(f, flown[f]) /\ Number(Written(f, Row(flown))) = Number(Row(flown)[f])
      BY <3>1, WrittenShown, Zenon
    <3> QED
      BY <2>2, <2>3, <3>1, <3>2, <3>3, Zenon
  <2>5. MayBe(Number(row[1]), Number(row[2]), Number(row[8]), Number(row[9]), Number(row[22]), Number(row[23]))
    BY <2>2, ValidIs, Zenon
  <2>6. MayBe(shown[1], shown[2], shown[8], shown[9], shown[22], shown[23])
    <3>1. /\ shown[1] = Number(row[1]) /\ shown[2] = Number(row[2]) /\ shown[8] = Number(row[8])
          /\ shown[9] = Number(row[9]) /\ shown[22] = Number(row[22]) /\ shown[23] = Number(row[23])
      BY <2>4, Zenon
    <3> QED
      BY <2>5, <3>1, Zenon
  <2> QED
    BY <2>2, <2>3, <2>6, Zenon DEF ShowsFlight
<1>3. ASSUME NEW i \in 1 .. Len(flights)
      PROVE  LET shown == flights[i] IN
               /\ \A f \in 1 .. 29 : shown[f] = Kept(f, Flown[order[i].hash][f])
               /\ shown[EndsAt] - shown[StartsAt] \in Lasting
               /\ shown[AltitudeMin] <= shown[AltitudeMax]
               /\ shown[SpeedAvg] <= shown[SpeedMax]
  BY <1>2, Zenon DEF ShowsFlight, MayBe, StartsAt, EndsAt, AltitudeMin, AltitudeMax, SpeedAvg, SpeedMax
<1> QED
  BY <1>1, <1>3, FieldsAre, Zenon DEF ShownAsPosted

LEMMA WholeStates == CodecInv => WholeOrMarked
<1> SUFFICES ASSUME CodecInv PROVE WholeOrMarked
  OBVIOUS
<1>1. Answered
  BY DEF CodecInv
<1>2. /\ room \in Nat /\ Len(body) \in Nat
      /\ rows \in 0 .. Len(order) /\ Len(order) \in Nat
  BY FlightCodecAssumption DEF CodecInv, Progress, Yielded
<1>3. ASSUME pc = "shown"
      PROVE  /\ Len(flights) = rows
             /\ status = 200 <=> rows = Len(order)
             /\ rows < Len(order) => Len(body) > room - 36
  <2>1. Len(flights) = rows /\ status \in {200, 206}
    BY <1>1, <1>3 DEF Answered
  <2>2. status = 200 => rows = Len(order)
    BY <1>1 DEF Answered
  <2>3. status = 206 => rows < Len(order) /\ Len(body) > room - 36
    BY <1>1, <1>2 DEF Answered, Fits
  <2> QED
    BY <1>2, <2>1, <2>2, <2>3
<1>4. pc = "failed" => status = 500
  BY <1>1 DEF Answered
<1> QED
  BY <1>3, <1>4 DEF WholeOrMarked

------------------------------------------------------------------------------

(* The columns of the table and the answer stay bytes, and an answer ends   *)
(* at most 41 bytes behind the room of its body, whatever the numbers of    *)
(* the flights and however much room there is.                              *)
THEOREM CodecTyped == Spec => []TypeOK
BY CodecKept, TypedStates, PTL

(* Whatever numbers were posted, each number that the page shows is the one *)
(* its column keeps of the posted one, and the shown flights may be.        *)
THEOREM ShowsWhatWasPosted == Spec => []ShownAsPosted
BY CodecKept, ShownStates, PTL

(* A page that is shown has each row of the answer and is marked when it is *)
(* a part; it fails only after the statement did: no row makes it read past *)
(* the end.                                                                 *)
THEOREM WholeOrMarkedAlways == Spec => []WholeOrMarked
BY CodecKept, WholeStates, PTL
=============================================================================
