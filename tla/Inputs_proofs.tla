---------------------------- MODULE Inputs_proofs ----------------------------
(* Proofs about Inputs, for lines, texts, records, commands and sequences of packets of any length. *)
EXTENDS Inputs, FiniteSetTheorems, SequenceTheorems, TLAPS

-----------------------------------------------------------------------------
(* Induction. The theorems of the library about it are schemes; this one is about a *)
(* set, so that it can be cited.                                                    *)

\* A set of numbers with 0 and the successor of every member has all of them: the
\* successor would be an injection of the members up to a missing n into themselves
\* that misses 0, and a finite set has none.
LEMMA SetInduction ==
  ASSUME NEW S \in SUBSET Nat, 0 \in S, \A n \in S : n + 1 \in S
  PROVE  S = Nat
<1>1. SUFFICES ASSUME NEW n \in Nat, n \notin S PROVE FALSE
  OBVIOUS
<1> DEFINE A == S \cap (0 .. n)
           f == [k \in A |-> k + 1]
<1>2. IsFiniteSet(A)
  <2>1. IsFiniteSet(0 .. n)
    BY FS_Interval
  <2>2. QED
    BY <2>1, FS_Subset
<1>3. f \in [A -> A]
  <2>1. ASSUME NEW k \in A PROVE k + 1 \in A
    <3>1. k \in S /\ k \in Nat /\ k <= n /\ k # n
      BY <1>1
    <3>2. QED
      BY <3>1
  <2>2. QED
    BY <2>1
<1>4. f \in Injection(A, A)
  BY <1>3 DEF Injection, IsInjective
<1>5. f \in Surjection(A, A)
  BY <1>2, <1>4, FS_Injection
<1>6. 0 \in A
  OBVIOUS
<1>7. PICK k \in A : f[k] = 0
  BY <1>5, <1>6 DEF Surjection
<1>8. QED
  BY <1>7

-----------------------------------------------------------------------------
(* FlattenSeq.                                                                *)

\* How FlattenSeq gets at its result, step by step.
Flattening(seqs, f) ==
  f = [i \in 1 .. Len(seqs) |-> IF i = 1 THEN seqs[i] ELSE f[i - 1] \o seqs[i]]

\* FlattenSeq's equation has a solution.
LEMMA FlatteningExists ==
  ASSUME NEW seqs, Len(seqs) \in Nat \ {0}
  PROVE  \E f : Flattening(seqs, f)
<1> DEFINE Step(f, i) == IF i = 1 THEN seqs[i] ELSE f[i - 1] \o seqs[i]
           Upto(k) == \E f : f = [i \in 1 .. k |-> Step(f, i)]
           T == {k \in Nat : Upto(k)}
<1>1. 0 \in T
  <2>1. [i \in 1 .. 0 |-> seqs[i]] = [i \in 1 .. 0 |-> Step([j \in 1 .. 0 |-> seqs[j]], i)]
    OBVIOUS
  <2>2. Upto(0)
    BY <2>1
  <2>3. QED
    BY <2>2
<1>2. ASSUME NEW k \in T PROVE k + 1 \in T
  <2>1. PICK f : f = [i \in 1 .. k |-> Step(f, i)]
    OBVIOUS
  <2> DEFINE g == [i \in 1 .. k + 1 |-> IF i <= k THEN f[i] ELSE Step(f, i)]
  <2>2. ASSUME NEW i \in 1 .. k + 1 PROVE g[i] = Step(g, i)
    <3>1. i = 1 \/ (i - 1 \in 1 .. k /\ g[i - 1] = f[i - 1])
      OBVIOUS
    <3>2. Step(g, i) = Step(f, i)
      BY <3>1
    <3>3. g[i] = IF i <= k THEN f[i] ELSE Step(f, i)
      OBVIOUS
    <3>4. i <= k => f[i] = Step(f, i)
      <4>1. i <= k => i \in 1 .. k
        OBVIOUS
      <4> HIDE DEF Step
      <4>2. QED
        BY <2>1, <4>1
    <3>5. QED
      BY <3>2, <3>3, <3>4
  <2>3. g = [i \in 1 .. k + 1 |-> g[i]]
    OBVIOUS
  <2>4. g = [i \in 1 .. k + 1 |-> Step(g, i)]
    <3> HIDE DEF g, Step
    <3>1. QED
      BY <2>2, <2>3
  <2>5. Upto(k + 1)
    <3> HIDE DEF g, Step
    <3>1. QED
      BY <2>4
  <2>6. k + 1 \in Nat
    OBVIOUS
  <2>7. QED
    BY <2>5, <2>6
<1>3. T = Nat
  <2> HIDE DEF Upto
  <2>1. QED
    BY <1>1, <1>2, SetInduction
<1>4. QED
  BY <1>3 DEF Flattening

\* The result of FlattenSeq is the last step.
LEMMA FlattenSteps ==
  ASSUME NEW seqs, Len(seqs) \in Nat \ {0}
  PROVE  \E f : Flattening(seqs, f) /\ FlattenSeq(seqs) = f[Len(seqs)]
<1> DEFINE flatten[i \in 1 .. Len(seqs)] == IF i = 1 THEN seqs[i] ELSE flatten[i - 1] \o seqs[i]
<1>1. flatten = CHOOSE f : Flattening(seqs, f)
  BY DEF Flattening
<1>2. FlattenSeq(seqs) = flatten[Len(seqs)]
  BY DEF FlattenSeq
<1> HIDE DEF flatten
<1>3. Flattening(seqs, flatten)
  BY <1>1, FlatteningExists
<1>4. QED
  BY <1>2, <1>3


\* FlattenSeq splits into the first sequence and the rest, wherever one begins: R[i] is
\* what follows the first i - 1 of them.
LEMMA FlattenRest ==
  ASSUME NEW S, NEW seqs \in Seq(Seq(S)), seqs # <<>>
  PROVE  \E R \in [1 .. Len(seqs) + 1 -> Seq(S)] :
           /\ R[1] = FlattenSeq(seqs) /\ R[Len(seqs) + 1] = <<>>
           /\ \A i \in 1 .. Len(seqs) : R[i] = seqs[i] \o R[i + 1]
<1>0. Len(seqs) \in Nat \ {0} /\ \A i \in 1 .. Len(seqs) : seqs[i] \in Seq(S)
  BY EmptySeq, LenProperties, ElementOfSeq
<1>1. PICK f : Flattening(seqs, f) /\ FlattenSeq(seqs) = f[Len(seqs)]
  BY <1>0, FlattenSteps
<1>2. \A i \in 1 .. Len(seqs) : f[i] = IF i = 1 THEN seqs[i] ELSE f[i - 1] \o seqs[i]
  BY <1>1 DEF Flattening
<1> DEFINE Splits(k, R) ==
             /\ R \in [1 .. k + 1 -> Seq(S)]
             /\ R[1] = f[k] /\ R[k + 1] = <<>>
             /\ \A i \in 1 .. k : R[i] = seqs[i] \o R[i + 1]
           T == {k \in Nat : k + 1 \in 1 .. Len(seqs) => \E R : Splits(k + 1, R)}
<1>3. 0 \in T
  <2>1. ASSUME 1 \in 1 .. Len(seqs) PROVE \E R : Splits(1, R)
    <3> DEFINE R == [i \in 1 .. 2 |-> IF i = 1 THEN seqs[1] ELSE <<>>]
    <3>1. seqs[1] \in Seq(S) /\ <<>> \in Seq(S) /\ seqs[1] = seqs[1] \o <<>>
      BY <1>0, ConcatEmptySeq
    <3>2. f[1] = seqs[1]
      BY <1>0, <1>2
    <3>3. R \in [1 .. 1 + 1 -> Seq(S)] /\ R[1] = seqs[1] /\ R[1 + 1] = <<>>
      BY <3>1
    <3> HIDE DEF R
    <3>4. \A i \in 1 .. 1 : R[i] = seqs[i] \o R[i + 1]
      <4>1. \A i \in 1 .. 1 : i = 1
        OBVIOUS
      <4>2. QED
        BY <3>1, <3>3, <4>1
    <3>5. QED
      BY <3>2, <3>3, <3>4
  <2>2. 0 + 1 = 1
    OBVIOUS
  <2> HIDE DEF Splits
  <2>3. QED
    BY <2>1, <2>2
<1>4. ASSUME NEW k \in T PROVE k + 1 \in T
  <2> DEFINE m == k + 1
  <2>1. ASSUME m + 1 \in 1 .. Len(seqs) PROVE \E R : Splits(m + 1, R)
    <3>1. k \in Nat /\ m \in 1 .. Len(seqs) /\ m \in Nat
      BY <1>0, <2>1
    <3>2. PICK R : Splits(m, R)
      <4> HIDE DEF Splits
      <4>1. QED
        BY <3>1
    <3> HIDE DEF m
    <3> DEFINE x == seqs[m + 1]
               Q == [i \in 1 .. m + 2 |-> IF i = m + 2 THEN <<>> ELSE R[i] \o x]
    <3>2a. x \in Seq(S) /\ <<>> \in Seq(S)
      BY <1>0, <2>1 DEF m
    <3>3. x \in Seq(S) /\ <<>> \in Seq(S) /\ \A i \in 1 .. m + 1 : R[i] \in Seq(S)
      <4> HIDE DEF x, Q
      <4>1. QED
        BY <3>2, <3>2a
    <3>4. Q \in [1 .. m + 2 -> Seq(S)]
      <4>1. \A i \in 1 .. m + 1 : R[i] \o x \in Seq(S)
        BY <3>3, ConcatProperties
      <4>2. \A i \in 1 .. m + 2 : i # m + 2 => i \in 1 .. m + 1
        BY <3>1
      <4>3. QED
        BY <3>3, <4>1, <4>2
    <3>5. /\ \A i \in 1 .. m + 1 : Q[i] = R[i] \o x
          /\ Q[m + 2] = <<>>
      <4>1. m + 2 \in 1 .. m + 2 /\ \A i \in 1 .. m + 1 : i \in 1 .. m + 2 /\ i # m + 2
        BY <3>1
      <4> HIDE DEF x
      <4>2. QED
        BY <4>1
    <3>6. Q[1] = f[m + 1]
      <4>1. f[m + 1] = f[m] \o x
        <5>1. m + 1 # 1 /\ (m + 1) - 1 = m
          BY <3>1
        <5>2. QED
          BY <1>2, <2>1, <5>1
      <4>2. 1 \in 1 .. m + 1
        BY <3>1
      <4>3. QED
        BY <3>2, <3>5, <4>1, <4>2
    <3>7. ASSUME NEW i \in 1 .. m + 1 PROVE Q[i] = seqs[i] \o Q[i + 1]
      <4>1. CASE i = m + 1
        <5>0. i + 1 = m + 2 /\ i \in 1 .. m + 1
          BY <3>1, <4>1
        <5>1. Q[i] = <<>> \o x /\ Q[i + 1] = <<>> /\ seqs[i] = x
          <6>1. seqs[i] = x
            BY <4>1
          <6> HIDE DEF Q, x
          <6>2. QED
            BY <3>2, <3>5, <4>1, <5>0, <6>1
        <5>2. <<>> \o x = x /\ x \o <<>> = x
          BY <3>3, ConcatEmptySeq
        <5>3. QED
          BY <5>1, <5>2
      <4>2. CASE i \in 1 .. m
        <5>1. i + 1 \in 1 .. m + 1 /\ i \in 1 .. Len(seqs)
          BY <1>0, <3>1, <4>2
        <5>2. R[i] = seqs[i] \o R[i + 1] /\ R[i + 1] \in Seq(S) /\ seqs[i] \in Seq(S)
          BY <1>0, <3>2, <3>3, <4>2, <5>1
        <5>3. (seqs[i] \o R[i + 1]) \o x = seqs[i] \o (R[i + 1] \o x)
          <6>1. \A a, b, c \in Seq(S) : (a \o b) \o c = a \o (b \o c)
            BY ConcatAssociative
          <6> HIDE DEF x, Q
          <6>2. QED
            BY <3>3, <5>2, <6>1
        <5>4. Q[i] = R[i] \o x /\ Q[i + 1] = R[i + 1] \o x
          <6>1. i \in 1 .. m + 1
            OBVIOUS
          <6> HIDE DEF Q, x
          <6>2. QED
            BY <3>5, <5>1, <6>1
        <5>5. QED
          <6> HIDE DEF Q, x
          <6>1. QED
            BY <5>2, <5>3, <5>4
      <4>3. i = m + 1 \/ i \in 1 .. m
        BY <3>1
      <4>4. QED
        BY <4>1, <4>2, <4>3
    <3>8. m + 1 + 1 = m + 2
      BY <3>1
    <3> HIDE DEF Q, x
    <3>9. QED
      BY <3>4, <3>5, <3>6, <3>7, <3>8
  <2>2. k + 1 \in Nat
    OBVIOUS
  <2> HIDE DEF Splits
  <2>3. QED
    BY <2>1, <2>2
<1>5. T = Nat
  <2> HIDE DEF Splits
  <2>1. QED
    BY <1>3, <1>4, SetInduction
<1>6. \E R : Splits(Len(seqs), R)
  <2>1. PICK k \in Nat : k + 1 = Len(seqs)
    <3>1. Len(seqs) - 1 \in Nat /\ (Len(seqs) - 1) + 1 = Len(seqs)
      BY <1>0
    <3>2. QED
      BY <3>1
  <2>2. k + 1 \in 1 .. Len(seqs)
    BY <1>0, <2>1
  <2> HIDE DEF Splits
  <2>3. QED
    BY <1>5, <2>1, <2>2
<1>7. QED
  BY <1>1, <1>6

-----------------------------------------------------------------------------
(* The command line.                                                          *)

\* A sequence of one element, and what follows it.
LEMMA OneElement ==
  ASSUME NEW S, NEW a \in Seq(S), Len(a) = 1
  PROVE  /\ a[1] \in S /\ a = <<a[1]>>
         /\ \A b \in Seq(S) :
              /\ Len(a \o b) = Len(b) + 1 /\ (a \o b)[1] = a[1]
              /\ \A j \in 1 .. Len(b) : (a \o b)[j + 1] = b[j]
<1>1. a[1] \in S /\ a = <<a[1]>>
  <2>1. a[1] \in S
    BY ElementOfSeq
  <2>2. <<a[1]>> \in Seq(S) /\ Len(<<a[1]>>) = 1 /\ <<a[1]>>[1] = a[1]
    BY <2>1
  <2>3. \A b, c \in Seq(S) : Len(b) = Len(c) /\ (\A i \in 1 .. Len(b) : b[i] = c[i]) => b = c
    BY SeqEqual
  <2>4. \A i \in 1 .. Len(a) : i = 1
    OBVIOUS
  <2>5. QED
    BY <2>1, <2>2, <2>3, <2>4
<1>2. ASSUME NEW b \in Seq(S)
      PROVE  /\ Len(a \o b) = Len(b) + 1 /\ (a \o b)[1] = a[1]
             /\ \A j \in 1 .. Len(b) : (a \o b)[j + 1] = b[j]
  <2>1. /\ Len(a \o b) = Len(a) + Len(b)
        /\ \A j \in 1 .. Len(a) + Len(b) :
             (a \o b)[j] = IF j <= Len(a) THEN a[j] ELSE b[j - Len(a)]
    BY ConcatProperties
  <2>2. Len(b) \in Nat
    OBVIOUS
  <2>3. /\ 1 \in 1 .. 1 + Len(b)
        /\ \A j \in 1 .. Len(b) : j + 1 \in 1 .. 1 + Len(b) /\ ~(j + 1 <= 1) /\ (j + 1) - 1 = j
    BY <2>2
  <2>4. \A j \in 1 .. Len(b) : (a \o b)[j + 1] = b[j]
    BY <2>1, <2>3
  <2>5. QED
    BY <2>1, <2>2, <2>3, <2>4
<1>3. QED
  BY <1>1, <1>2

\* Arguments of one word each make a line with one word per argument.
LEMMA LineOfWords ==
  ASSUME NEW S, NEW argv \in Seq(Seq(S)), argv # <<>>,
         \A i \in 1 .. Len(argv) : Len(argv[i]) = 1
  PROVE  /\ FlattenSeq(argv) \in Seq(S) /\ Len(FlattenSeq(argv)) = Len(argv)
         /\ Len(argv) \in 1 .. Len(argv)
         /\ \A i \in 1 .. Len(argv) : FlattenSeq(argv)[i] = argv[i][1]
<1> DEFINE n == Len(argv)
<1>1. n \in Nat \ {0} /\ \A i \in 1 .. n : argv[i] \in Seq(S)
  BY EmptySeq, LenProperties, ElementOfSeq
<1>2. PICK R \in [1 .. n + 1 -> Seq(S)] :
        /\ R[1] = FlattenSeq(argv) /\ R[n + 1] = <<>>
        /\ \A i \in 1 .. n : R[i] = argv[i] \o R[i + 1]
  BY FlattenRest
<1> HIDE DEF n
<1> DEFINE Words(k) == Len(R[n + 1 - k]) = k /\ \A j \in 1 .. k : R[n + 1 - k][j] = argv[n - k + j][1]
           T == {k \in Nat : k <= n => Words(k)}
<1>3. 0 \in T
  BY <1>1, <1>2
<1>4. ASSUME NEW k \in T PROVE k + 1 \in T
  <2>1. SUFFICES ASSUME k + 1 <= n PROVE Words(k + 1)
    OBVIOUS
  <2>2. k \in Nat /\ Words(k)
    BY <1>1, <2>1
  <2> DEFINE i == n - k
  <2>3. i \in 1 .. n /\ i + 1 \in 1 .. n + 1 /\ i = n + 1 - (k + 1) /\ i + 1 = n + 1 - k
    BY <1>1, <2>1, <2>2
  <2> HIDE DEF i
  <2>4. R[i] = argv[i] \o R[i + 1] /\ argv[i] \in Seq(S) /\ R[i + 1] \in Seq(S) /\ Len(argv[i]) = 1
    BY <1>1, <1>2, <2>3 DEF n
  <2>5. Len(R[i + 1]) = k /\ \A j \in 1 .. k : R[i + 1][j] = argv[i + j][1]
    BY <1>1, <2>2, <2>3
  <2>6. /\ Len(R[i]) = k + 1 /\ R[i][1] = argv[i][1]
        /\ \A j \in 1 .. k : R[i][j + 1] = R[i + 1][j]
    <3>1. \A a, b \in Seq(S) : Len(a) = 1 =>
            /\ Len(a \o b) = Len(b) + 1 /\ (a \o b)[1] = a[1]
            /\ \A j \in 1 .. Len(b) : (a \o b)[j + 1] = b[j]
      BY OneElement
    <3>2. /\ Len(argv[i] \o R[i + 1]) = Len(R[i + 1]) + 1 /\ (argv[i] \o R[i + 1])[1] = argv[i][1]
          /\ \A j \in 1 .. Len(R[i + 1]) : (argv[i] \o R[i + 1])[j + 1] = R[i + 1][j]
      BY <2>4, <3>1
    <3>3. QED
      BY <2>4, <2>5, <3>2
  <2>7. ASSUME NEW j \in 1 .. k + 1 PROVE R[i][j] = argv[i + j - 1][1]
    <3>1. CASE j = 1
      BY <2>3, <2>6, <3>1
    <3>2. CASE j # 1
      <4>1. j - 1 \in 1 .. k /\ i + (j - 1) = i + j - 1 /\ (j - 1) + 1 = j
        BY <2>2, <2>3, <3>2
      <4>2. QED
        BY <2>5, <2>6, <4>1
    <3>3. QED
      BY <3>1, <3>2
  <2>8. \A j \in 1 .. k + 1 : n - (k + 1) + j = i + j - 1
    BY <1>1, <2>2, <2>3
  <2>9. QED
    BY <2>3, <2>6, <2>7, <2>8
<1>5. n \in T
  <2> HIDE DEF Words
  <2>1. QED
    BY <1>1, <1>3, <1>4, SetInduction
<1>6. Words(n)
  BY <1>1, <1>5
<1>7. n + 1 - n = 1 /\ \A j \in 1 .. n : n - n + j = j
  BY <1>1
<1>8. QED
  BY <1>1, <1>2, <1>6, <1>7 DEF n

\* A line whose arguments have no blank, the last of them not empty, is the same line
\* to the daemon that gets it as one string: nothing is lost, joined or moved
\* (CmdLineParser::GetCmdLine and SetCmdLine).
THEOREM LineArrivesAsSent ==
  ASSUME NEW S, NEW argv \in Seq(Seq(S)), argv # <<>>,
         \A i \in 1 .. Len(argv) : Len(argv[i]) = 1,
         argv[Len(argv)] # <<"">>
  PROVE  SetCmdLine(GetCmdLine(argv)) = argv
<1> DEFINE line == GetCmdLine(argv)
           n == Len(argv)
<1>1. n \in Nat \ {0} /\ \A i \in 1 .. n : argv[i] \in Seq(S)
  BY EmptySeq, LenProperties, ElementOfSeq
<1>2. line \in Seq(S) /\ Len(line) = n /\ n \in 1 .. n /\ \A i \in 1 .. n : line[i] = argv[i][1]
  BY LineOfWords DEF GetCmdLine
<1> HIDE DEF line
<1>3. \A i \in 1 .. n : argv[i] = <<line[i]>>
  <2>1. \A a \in Seq(S) : Len(a) = 1 => a = <<a[1]>>
    BY OneElement
  <2>2. \A i \in 1 .. n : argv[i] = <<argv[i][1]>>
    BY <1>1, <2>1
  <2>3. QED
    BY <1>2, <2>2
<1>4. Last(line) # ""
  <2>1. argv[n] # <<"">>
    OBVIOUS
  <2> HIDE DEF n
  <2>2. n \in 1 .. n
    BY <1>2
  <2>3. line[n] # ""
    BY <1>3, <2>1, <2>2
  <2>4. QED
    BY <1>2, <2>3 DEF Last
<1>5. SetCmdLine(line) = [i \in DOMAIN line |-> <<line[i]>>]
  BY <1>4 DEF SetCmdLine
<1>6. DOMAIN line = 1 .. n /\ argv = [i \in 1 .. n |-> argv[i]]
  <2>1. \A a \in Seq(S) : DOMAIN a = 1 .. Len(a)
    BY LenProperties
  <2>2. argv \in [1 .. n -> Seq(S)]
    BY LenProperties
  <2>3. QED
    BY <1>1, <1>2, <2>1, <2>2
<1>7. SetCmdLine(line) = [i \in 1 .. n |-> argv[i]]
  BY <1>3, <1>5, <1>6
<1>8. QED
  BY <1>6, <1>7 DEF line

\* So both understand the same by it, whatever it says.
THEOREM ForwardedMeansTheSame ==
  ASSUME NEW S, NEW argv \in Seq(Seq(S)), argv # <<>>,
         \A i \in 1 .. Len(argv) : Len(argv[i]) = 1,
         argv[Len(argv)] # <<"">>
  PROVE  Understand(SetCmdLine(GetCmdLine(argv))) = Understand(argv)
BY LineArrivesAsSent

-----------------------------------------------------------------------------
(* Integers on the wire.                                                      *)

\* A number, the highest of its four bytes, which carries the sign, and the others.
LEMMA Digits ==
  ASSUME NEW i \in Int32
  PROVE  \E p, q, r, t \in Byte :
           /\ (i \div (256 ^ 3)) % 256 = p /\ (i \div (256 ^ 2)) % 256 = q
           /\ (i \div (256 ^ 1)) % 256 = r /\ (i \div (256 ^ 0)) % 256 = t
           /\ i = (IF p >= 128 THEN p - 256 ELSE p) * (256 ^ 3) + q * (256 ^ 2) + r * 256 + t
<1>1. 256 ^ 3 = 16777216 /\ 256 ^ 2 = 65536 /\ 256 ^ 1 = 256 /\ 256 ^ 0 = 1 /\ 2 ^ 30 = 1073741824
  BY SMT
<1>2. i \in Int /\ -2147483648 <= i /\ i <= 2147483647
  BY <1>1, SMT DEF Int32
<1> DEFINE a == i \div 16777216
           b == i \div 65536
           c == i \div 256
<1>3. a \in Int /\ b \in Int /\ c \in Int
  BY <1>2, SMT
<1>4. /\ i = c * 256 + (i % 256) /\ c = b * 256 + (c % 256) /\ b = a * 256 + (b % 256)
  <2>1. \A n \in Int : n = (n \div 256) * 256 + (n % 256)
    BY SMT
  <2>2. b = c \div 256
    BY <1>2, SMT
  <2>3. a = b \div 256
    BY <1>2, SMT
  <2>4. QED
    BY <1>2, <1>3, <2>1, <2>2, <2>3, SMT
<1>5. -128 <= a /\ a <= 127
  <2>1. -128 <= a
    BY <1>2, SMT
  <2>2. a <= 127
    BY <1>2, SMT
  <2>3. QED
    BY <2>1, <2>2, SMT
<1>6. \A n \in Int : n % 256 \in Byte
  BY SMT DEF Byte
<1>7. a = IF a % 256 >= 128 THEN (a % 256) - 256 ELSE a % 256
  <2>1. \A n \in Int : -128 <= n /\ n < 0 => n % 256 = n + 256
    BY SMT
  <2>2. \A n \in Int : 0 <= n /\ n < 128 => n % 256 = n
    BY SMT
  <2> HIDE DEF a
  <2>3. a < 0 \/ a >= 0
    BY <1>3, SMT
  <2>4. QED
    BY <1>3, <1>5, <2>1, <2>2, <2>3, SMT
<1>8. i = a * 16777216 + (b % 256) * 65536 + (c % 256) * 256 + (i % 256)
  <2> DEFINE p == b % 256
             q == c % 256
             r == i % 256
  <2>1. p \in Int /\ q \in Int /\ r \in Int
    BY <1>2, <1>3, SMT
  <2>2. i = c * 256 + r /\ c = b * 256 + q /\ b = a * 256 + p
    BY <1>4, SMT
  <2> HIDE DEF p, q, r, a, b, c
  <2>3. i = a * 16777216 + p * 65536 + q * 256 + r
    BY <1>2, <1>3, <2>1, <2>2, SMT
  <2>4. QED
    BY <2>3, SMT DEF p, q, r
<1>9. i \div 1 = i
  BY <1>2, SMT
<1>10. /\ i \div (256 ^ 3) = a /\ i \div (256 ^ 2) = b
       /\ i \div (256 ^ 1) = c /\ i \div (256 ^ 0) = i
  BY <1>1, <1>9, SMT
<1>11. i = (IF a % 256 >= 128 THEN (a % 256) - 256 ELSE a % 256) * (256 ^ 3)
             + (b % 256) * (256 ^ 2) + (c % 256) * 256 + (i % 256)
  <2> HIDE DEF b, c
  <2> DEFINE top == IF a % 256 >= 128 THEN (a % 256) - 256 ELSE a % 256
  <2>1. a = top
    BY <1>7, SMT
  <2> HIDE DEF top, a
  <2>2. i = top * (256 ^ 3) + (b % 256) * (256 ^ 2) + (c % 256) * 256 + (i % 256)
    BY <1>1, <1>8, <2>1, SMT
  <2>3. QED
    BY <2>2, SMT DEF top
<1>12. a % 256 \in Byte /\ b % 256 \in Byte /\ c % 256 \in Byte /\ i % 256 \in Byte
  BY <1>2, <1>3, <1>6, SMT
<1> DEFINE p == a % 256
           q == b % 256
           r == c % 256
           t == i % 256
<1>13. /\ (i \div (256 ^ 3)) % 256 = p /\ (i \div (256 ^ 2)) % 256 = q
       /\ (i \div (256 ^ 1)) % 256 = r /\ (i \div (256 ^ 0)) % 256 = t
  <2> HIDE DEF a, b, c
  <2>1. QED
    BY <1>10, Zenon
<1> HIDE DEF a, b, c
<1>14. i = (IF p >= 128 THEN p - 256 ELSE p) * (256 ^ 3) + q * (256 ^ 2) + r * 256 + t
  BY <1>11, Zenon
<1>15. p \in Byte /\ q \in Byte /\ r \in Byte /\ t \in Byte
  BY <1>12, Zenon
<1> HIDE DEF p, q, r, t
<1> USE <1>15
<1> WITNESS p \in Byte, q \in Byte, r \in Byte, t \in Byte
<1>16. QED
  BY <1>13, <1>14, Zenon

\* The four bytes of an int are a sequence.
LEMMA FourElements ==
  ASSUME NEW S, NEW w \in [1 .. 4 -> S]
  PROVE  w \in Seq(S) /\ Len(w) = 4
<1>1. Seq(S) = UNION {[1 .. n -> S] : n \in Nat}
  BY SeqDef
<1>2. [1 .. 4 -> S] \in {[1 .. n -> S] : n \in Nat}
  OBVIOUS
<1>3. w \in Seq(S)
  BY <1>1, <1>2, Zenon
<1>4. DOMAIN w = 1 .. 4 /\ DOMAIN w = 1 .. Len(w) /\ Len(w) \in Nat
  BY <1>3, LenProperties
<1>5. QED
  BY <1>3, <1>4

\* An int is written as four bytes, and they are that int to the reader.
LEMMA IntIsReadBack ==
  ASSUME NEW i \in Int32
  PROVE  WriteInt(i) \in Seq(Byte) /\ Len(WriteInt(i)) = 4 /\ IntAt(WriteInt(i)) = i
<1> DEFINE w == WriteInt(i)
<1>1. PICK p, q, r, t \in Byte :
           /\ (i \div (256 ^ 3)) % 256 = p /\ (i \div (256 ^ 2)) % 256 = q
           /\ (i \div (256 ^ 1)) % 256 = r /\ (i \div (256 ^ 0)) % 256 = t
           /\ i = (IF p >= 128 THEN p - 256 ELSE p) * (256 ^ 3) + q * (256 ^ 2) + r * 256 + t
  BY Digits
<1>2. w = [k \in 1 .. 4 |-> (i \div (256 ^ (4 - k))) % 256]
  BY DEF WriteInt
<1>3. 4 - 1 = 3 /\ 4 - 2 = 2 /\ 4 - 3 = 1 /\ 4 - 4 = 0
  BY SMT
<1>4. 1 \in 1 .. 4 /\ 2 \in 1 .. 4 /\ 3 \in 1 .. 4 /\ 4 \in 1 .. 4
  BY SMT
<1> HIDE DEF w
<1>5. /\ w[1] = (i \div (256 ^ 3)) % 256 /\ w[2] = (i \div (256 ^ 2)) % 256
      /\ w[3] = (i \div (256 ^ 1)) % 256 /\ w[4] = (i \div (256 ^ 0)) % 256
  BY <1>2, <1>3, <1>4, Zenon
<1>6. w[1] = p /\ w[2] = q /\ w[3] = r /\ w[4] = t
  BY <1>1, <1>5, Zenon
<1>7. \A k \in 1 .. 4 : w[k] \in Byte
  <2>1. \A k \in 1 .. 4 : k = 1 \/ k = 2 \/ k = 3 \/ k = 4
    BY SMT
  <2>2. w[1] \in Byte /\ w[2] \in Byte /\ w[3] \in Byte /\ w[4] \in Byte
    BY <1>6, Zenon
  <2>3. QED
    BY <2>1, <2>2, Zenon
<1>8. w \in [1 .. 4 -> Byte]
  <2>1. w = [k \in 1 .. 4 |-> w[k]]
    BY <1>2, SMT
  <2>2. QED
    BY <1>7, <2>1, SMT
<1>9. w \in Seq(Byte) /\ Len(w) = 4
  BY <1>8, FourElements
<1>10. IntAt(w) = i
  <2>1. i = (IF p >= 128 THEN p - 256 ELSE p) * (256 ^ 3) + q * (256 ^ 2) + r * 256 + t
    BY <1>1, Zenon
  <2>2. QED
    BY <1>6, <2>1, SMT DEF IntAt
<1>11. QED
  BY <1>9, <1>10, Zenon DEF w

-----------------------------------------------------------------------------
(* Fields.                                                                    *)

\* A sequence after which another comes is found again, and so is what follows it.
LEMMA TakeAndDrop ==
  ASSUME NEW S, NEW a \in Seq(S), NEW b \in Seq(S)
  PROVE  /\ a \o b \in Seq(S) /\ Len(a \o b) = Len(a) + Len(b)
         /\ SubSeq(a \o b, 1, Len(a)) = a
         /\ SubSeq(a \o b, Len(a) + 1, Len(a \o b)) = b
<1> DEFINE s == a \o b
           m == Len(a)
           n == Len(b)
<1>1. /\ s \in Seq(S) /\ Len(s) = m + n /\ m \in Nat /\ n \in Nat
      /\ \A i \in 1 .. m + n : s[i] = IF i <= m THEN a[i] ELSE b[i - m]
  BY ConcatProperties, LenProperties
<1> HIDE DEF s, m, n
<1>2. \A i \in 1 .. m + n : s[i] \in S
  BY <1>1, ElementOfSeq
<1>3. SubSeq(s, 1, m) = a
  <2>1. \A i \in 1 .. m : s[i] \in S /\ s[i] = a[i]
    BY <1>1, <1>2
  <2>2. /\ SubSeq(s, 1, m) \in Seq(S)
        /\ Len(SubSeq(s, 1, m)) = IF 1 <= m THEN m - 1 + 1 ELSE 0
        /\ \A i \in 1 .. m - 1 + 1 : SubSeq(s, 1, m)[i] = s[1 + i - 1]
    BY <1>1, <2>1, SubSeqProperties
  <2>3. Len(SubSeq(s, 1, m)) = m /\ \A i \in 1 .. m : SubSeq(s, 1, m)[i] = a[i]
    <3>1. m - 1 + 1 = m /\ (IF 1 <= m THEN m - 1 + 1 ELSE 0) = m
      BY <1>1
    <3>2. \A i \in 1 .. m : 1 + i - 1 = i
      OBVIOUS
    <3>3. QED
      BY <2>1, <2>2, <3>1, <3>2
  <2>4. Len(a) = m
    BY DEF m
  <2>5. QED
    BY <2>2, <2>3, <2>4, SeqEqual
<1>4. SubSeq(s, m + 1, m + n) = b
  <2>1. \A i \in m + 1 .. m + n : s[i] \in S
    BY <1>1, <1>2
  <2>2. /\ SubSeq(s, m + 1, m + n) \in Seq(S)
        /\ Len(SubSeq(s, m + 1, m + n)) = IF m + 1 <= m + n THEN (m + n) - (m + 1) + 1 ELSE 0
        /\ \A i \in 1 .. (m + n) - (m + 1) + 1 : SubSeq(s, m + 1, m + n)[i] = s[(m + 1) + i - 1]
    <3>1. m + 1 \in Int /\ m + n \in Int
      BY <1>1
    <3>2. QED
      BY <2>1, <3>1, SubSeqProperties
  <2>3. Len(SubSeq(s, m + 1, m + n)) = n /\ \A i \in 1 .. n : SubSeq(s, m + 1, m + n)[i] = b[i]
    <3>1. (m + n) - (m + 1) + 1 = n /\ (IF m + 1 <= m + n THEN (m + n) - (m + 1) + 1 ELSE 0) = n
      BY <1>1
    <3>2. \A i \in 1 .. n : (m + 1) + i - 1 = m + i /\ m + i \in 1 .. m + n /\ ~(m + i <= m) /\ (m + i) - m = i
      BY <1>1
    <3>3. \A i \in 1 .. n : SubSeq(s, m + 1, m + n)[i] = s[m + i]
      BY <2>2, <3>1, <3>2
    <3>4. \A i \in 1 .. n : s[m + i] = b[i]
      BY <1>1, <3>2
    <3>5. QED
      BY <2>2, <3>1, <3>3, <3>4
  <2>4. Len(b) = n
    BY DEF n
  <2>5. QED
    BY <2>2, <2>3, <2>4, SeqEqual
<1>5. QED
  BY <1>1, <1>3, <1>4 DEF s, m, n

\* What is there is read, and the stream is after it.
LEMMA BytesAreReadBack ==
  ASSUME NEW S, NEW bytes \in Seq(S), NEW rest \in Seq(S)
  PROVE  /\ Skip(Stream(bytes \o rest), Len(bytes)) = Stream(rest)
         /\ ReadBytes(Stream(bytes \o rest), Len(bytes)) = [stream |-> Stream(rest), value |-> bytes]
<1> DEFINE all == bytes \o rest
           n == Len(bytes)
<1>1. /\ all \in Seq(S) /\ Len(all) = n + Len(rest)
      /\ SubSeq(all, 1, n) = bytes /\ SubSeq(all, n + 1, Len(all)) = rest
  BY TakeAndDrop
<1>2. n >= 0 /\ Len(all) >= n
  BY <1>1, LenProperties
<1> HIDE DEF all, n
<1>3. Stream(all).good /\ Stream(all).left = all
  BY DEF Stream
<1>4. Skip(Stream(all), n) = Stream(rest)
  <2>1. Skip(Stream(all), n) = [Stream(all) EXCEPT !.left = SubSeq(@, n + 1, Len(@))]
    BY <1>2, <1>3 DEF Skip
  <2>2. QED
    BY <1>1, <2>1 DEF Stream
<1>5. Stream(rest).good
  BY DEF Stream
<1>6. ReadBytes(Stream(all), n) = [stream |-> Stream(rest), value |-> bytes]
  BY <1>1, <1>3, <1>4, <1>5 DEF ReadBytes
<1>7. QED
  BY <1>4, <1>6 DEF all, n

\* An int that is followed by anything is read back.
LEMMA IntFieldIsReadBack ==
  ASSUME NEW i \in Int32, NEW rest \in Seq(Byte)
  PROVE  ReadInt(Stream(WriteInt(i) \o rest)) = [stream |-> Stream(rest), value |-> i]
<1>1. WriteInt(i) \in Seq(Byte) /\ Len(WriteInt(i)) = 4 /\ IntAt(WriteInt(i)) = i
  BY IntIsReadBack
<1> DEFINE w == WriteInt(i)
           read == ReadBytes(Stream(w \o rest), 4)
<1>2. read = [stream |-> Stream(rest), value |-> w]
  BY <1>1, BytesAreReadBack
<1>3. ReadInt(Stream(w \o rest)) = AsInt(read)
  BY DEF ReadInt
<1> HIDE DEF w, read
<1>4. IntAt(w) = i
  BY <1>1 DEF w
<1>5. Stream(rest).good
  BY DEF Stream
<1>6. AsInt(read) = [stream |-> Stream(rest), value |-> i]
  BY <1>2, <1>4, <1>5, SMT DEF AsInt
<1>7. QED
  BY <1>3, <1>6 DEF w

\* The padding is bytes that are zero.
LEMMA ZeroPadding ==
  ASSUME NEW n \in Nat
  PROVE  /\ Zeros(n) \in Seq(Byte) /\ Len(Zeros(n)) = n
         /\ \A i \in 1 .. n : Zeros(n)[i] = 0
<1>1. Zeros(n) = [i \in 1 .. n |-> 0]
  BY DEF Zeros
<1>2. 0 \in Byte
  BY DEF Byte
<1>3. Zeros(n) \in [1 .. n -> Byte]
  BY <1>1, <1>2
<1>4. Seq(Byte) = UNION {[1 .. m -> Byte] : m \in Nat}
  BY SeqDef
<1>5. Zeros(n) \in Seq(Byte)
  BY <1>3, <1>4, Zenon
<1>6. DOMAIN Zeros(n) = 1 .. n /\ DOMAIN Zeros(n) = 1 .. Len(Zeros(n)) /\ Len(Zeros(n)) \in Nat
  BY <1>1, <1>5, LenProperties
<1>7. QED
  BY <1>1, <1>5, <1>6

\* The padding makes the length of a text a multiple of the alignment.
LEMMA Padding ==
  ASSUME NEW S, NEW text \in Seq(S)
  PROVE  Pad(text) \in 0 .. 3 /\ (Len(text) + Pad(text)) % 4 = 0
<1>1. Pad(text) = (4 - (Len(text) % 4)) % 4
  BY DEF Pad, alignment
<1>2. \A n \in Nat : (4 - (n % 4)) % 4 \in 0 .. 3 /\ (n + ((4 - (n % 4)) % 4)) % 4 = 0
  BY SMT
<1>3. Len(text) \in Nat
  BY LenProperties
<1>4. QED
  BY <1>1, <1>2, <1>3

\* A text ends where its padding begins.
LEMMA TextIsUnpadded ==
  ASSUME NEW text \in Text, NEW n \in Nat
  PROVE  text \o Zeros(n) \in Seq(Byte) /\ Unpadded(text \o Zeros(n)) = text
<1> DEFINE z == Zeros(n)
           all == text \o z
           m == Len(text)
           Chars == {0} \cup {i \in DOMAIN all : all[i] # 0}
<1>1. z \in Seq(Byte) /\ Len(z) = n /\ \A i \in 1 .. n : z[i] = 0
  BY ZeroPadding
<1>2. text \in Seq(Byte) /\ m \in Nat /\ \A i \in 1 .. m : text[i] \in 1 .. 255
  <2>1. \A i \in 1 .. m : text[i] \in 1 .. 255
    BY ElementOfSeq DEF Text
  <2>2. text \in [1 .. m -> 1 .. 255] /\ m \in Nat
    BY LenProperties DEF Text
  <2>3. text \in [1 .. m -> Byte]
    BY <2>2 DEF Byte
  <2>4. Seq(Byte) = UNION {[1 .. k -> Byte] : k \in Nat}
    BY SeqDef
  <2>5. text \in Seq(Byte)
    BY <2>2, <2>3, <2>4, Zenon
  <2>6. QED
    BY <2>1, <2>2, <2>5
<1> HIDE DEF z
<1>3. /\ all \in Seq(Byte) /\ Len(all) = m + n /\ SubSeq(all, 1, m) = text
      /\ \A i \in 1 .. m + n : all[i] = IF i <= m THEN text[i] ELSE z[i - m]
  <2>1. all \in Seq(Byte) /\ Len(all) = Len(text) + Len(z) /\ SubSeq(all, 1, Len(text)) = text
    <3>1. text \in Seq(Byte) /\ z \in Seq(Byte)
      BY <1>1, <1>2
    <3>2. \A a, b \in Seq(Byte) :
            a \o b \in Seq(Byte) /\ Len(a \o b) = Len(a) + Len(b) /\ SubSeq(a \o b, 1, Len(a)) = a
      BY TakeAndDrop
    <3>3. QED
      BY <3>1, <3>2
  <2>2. \A i \in 1 .. Len(text) + Len(z) : all[i] = IF i <= Len(text) THEN text[i] ELSE z[i - Len(text)]
    BY <1>1, <1>2, ConcatProperties
  <2>3. QED
    BY <1>1, <2>1, <2>2
<1>4. DOMAIN all = 1 .. m + n
  BY <1>3, LenProperties
<1> HIDE DEF all, m
<1>5. \A i \in 1 .. m + n : all[i] # 0 <=> i <= m
  <2>1. \A i \in 1 .. m + n : i <= m => i \in 1 .. m
    BY <1>1, <1>2
  <2>2. \A i \in 1 .. m + n : ~(i <= m) => i - m \in 1 .. n
    BY <1>1, <1>2
  <2>3. \A i \in 1 .. m + n : i <= m => all[i] \in 1 .. 255
    BY <1>2, <1>3, <2>1
  <2>4. \A i \in 1 .. m + n : ~(i <= m) => all[i] = 0
    BY <1>1, <1>3, <2>2
  <2>5. 0 \notin 1 .. 255
    OBVIOUS
  <2>6. QED
    BY <2>3, <2>4, <2>5
<1>6. Chars = 0 .. m
  <2>1. ASSUME NEW i PROVE i \in Chars <=> i \in 0 .. m
    <3>1. i \in Chars <=> (i = 0 \/ (i \in 1 .. m + n /\ all[i] # 0))
      BY <1>4
    <3> HIDE DEF Chars
    <3>2. i \in Chars <=> (i = 0 \/ (i \in 1 .. m + n /\ i <= m))
      BY <1>5, <3>1
    <3>3. i \in 0 .. m <=> (i = 0 \/ (i \in 1 .. m + n /\ i <= m))
      BY <1>2
    <3>4. QED
      BY <3>2, <3>3
  <2> HIDE DEF Chars
  <2>2. QED
    BY <2>1
<1>7. Max(0 .. m) = m
  <2>1. m \in 0 .. m /\ \A y \in 0 .. m : m >= y
    BY <1>2
  <2>2. \A x \in 0 .. m : (\A y \in 0 .. m : x >= y) => x = m
    BY <1>2, <2>1
  <2>3. QED
    BY <2>1, <2>2 DEF Max
<1>8. Unpadded(all) = SubSeq(all, 1, Max(Chars))
  BY DEF Unpadded
<1> HIDE DEF Chars
<1>9. Unpadded(all) = text
  BY <1>3, <1>6, <1>7, <1>8
<1>10. QED
  BY <1>3, <1>9 DEF all, z

Kinds == {"int", "date", "text"}

\* A date that is followed by anything is read back.
LEMMA DateFieldIsReadBack ==
  ASSUME NEW date \in Seq(Byte), Len(date) = date_t, NEW rest \in Seq(Byte)
  PROVE  /\ FixedText(date, date_t) = date
         /\ ReadBytes(Stream(date \o rest), date_t) = [stream |-> Stream(rest), value |-> date]
<1>1. Zeros(date_t) \in Seq(Byte)
  BY ZeroPadding DEF date_t
<1>2. SubSeq(date \o Zeros(date_t), 1, Len(date)) = date
  BY <1>1, TakeAndDrop
<1>3. FixedText(date, date_t) = date
  BY <1>2 DEF FixedText
<1>4. ReadBytes(Stream(date \o rest), Len(date)) = [stream |-> Stream(rest), value |-> date]
  BY BytesAreReadBack
<1>5. QED
  BY <1>3, <1>4

\* A text, its length in front, is read back without its padding.
LEMMA TextFieldIsReadBack ==
  ASSUME NEW text \in Text, Len(text) + Pad(text) \in Int32, NEW rest \in Seq(Byte)
  PROVE  LET sent == WriteInt(Len(text) + Pad(text)) \o text \o Zeros(Pad(text))
         IN  /\ sent \in Seq(Byte) /\ Len(sent) = 4 + Len(text) + Pad(text)
             /\ ReadText(ReadInt(Stream(sent \o rest))) = [stream |-> Stream(rest), value |-> text]
<1> DEFINE n == Len(text) + Pad(text)
           w == WriteInt(n)
           z == Zeros(Pad(text))
           padded == text \o z
<1>1. w \in Seq(Byte) /\ Len(w) = 4
  BY IntIsReadBack
<1>2. Pad(text) \in Nat
  BY Padding DEF Text
<1>3. padded \in Seq(Byte) /\ Unpadded(padded) = text
  BY <1>2, TextIsUnpadded
<1>4. z \in Seq(Byte) /\ Len(z) = Pad(text)
  BY <1>2, ZeroPadding
<1>5. text \in Seq(Byte)
  <2>1. text \o Zeros(0) \in Seq(Byte)
    BY TextIsUnpadded
  <2>2. SubSeq(text \o Zeros(0), 1, Len(text)) = text
    <3>1. Zeros(0) = <<>>
      BY EmptySeq, ZeroPadding
    <3>2. QED
      BY <3>1, ConcatEmptySeq, SubSeqFull DEF Text
  <2>3. QED
    BY <2>1, <2>2
<1>6. Len(padded) = n
  BY <1>4, <1>5, ConcatProperties
<1>7. /\ (w \o text) \o z = w \o padded /\ (w \o padded) \o rest = w \o (padded \o rest)
      /\ padded \o rest \in Seq(Byte) /\ w \o padded \in Seq(Byte)
      /\ Len(w \o padded) = 4 + n
  <2>1. \A a, b, c \in Seq(Byte) : (a \o b) \o c = a \o (b \o c)
    BY ConcatAssociative
  <2>2. \A a, b \in Seq(Byte) : a \o b \in Seq(Byte) /\ Len(a \o b) = Len(a) + Len(b)
    BY ConcatProperties
  <2>3. (w \o text) \o z = w \o padded
    BY <1>1, <1>4, <1>5, <2>1
  <2> HIDE DEF w, padded, z, n
  <2>4. QED
    BY <1>1, <1>3, <1>6, <2>1, <2>2, <2>3
<1>8. ReadInt(Stream(w \o (padded \o rest))) = [stream |-> Stream(padded \o rest), value |-> n]
  BY <1>7, IntFieldIsReadBack
<1>9. ReadBytes(Stream(padded \o rest), n) = [stream |-> Stream(rest), value |-> padded]
  BY <1>3, <1>6, BytesAreReadBack
<1>10. Len(w \o padded) = 4 + Len(text) + Pad(text)
  <2>1. Len(text) \in Nat
    BY <1>5, LenProperties
  <2>2. 4 + n = 4 + Len(text) + Pad(text)
    BY <1>2, <2>1
  <2>3. QED
    BY <1>7, <2>2
<1> HIDE DEF n, w, z, padded
<1>11. ReadText([stream |-> Stream(padded \o rest), value |-> n]) = [stream |-> Stream(rest), value |-> text]
  BY <1>3, <1>9 DEF ReadText
<1>12. QED
  BY <1>7, <1>8, <1>10, <1>11 DEF n, w, z, padded

\* A field is as long as size() says, a multiple of the alignment and at least a word,
\* and the reader gets its value back and is then where the next field starts.
THEOREM FieldIsReadBack ==
  ASSUME NEW kind \in Kinds, NEW value \in Sendable(kind), NEW rest \in Seq(Byte)
  PROVE  /\ WriteField(kind, value) \in Seq(Byte)
         /\ Len(WriteField(kind, value)) = SizeOfField(kind, value)
         /\ SizeOfField(kind, value) >= 4 /\ SizeOfField(kind, value) % alignment = 0
         /\ ReadField(kind, Stream(WriteField(kind, value) \o rest))
              = [stream |-> Stream(rest), value |-> value]
<1>1. CASE kind = "int"
  <2>1. value \in Int32
    BY <1>1 DEF Sendable
  <2>2. WriteField(kind, value) = WriteInt(value) /\ SizeOfField(kind, value) = 4
    BY <1>1 DEF WriteField, SizeOfField
  <2>3. \A s : ReadField(kind, s) = ReadInt(s)
    BY <1>1 DEF ReadField
  <2>4. 4 >= 4 /\ 4 % alignment = 0
    BY DEF alignment
  <2>5. QED
    BY <2>1, <2>2, <2>3, <2>4, IntIsReadBack, IntFieldIsReadBack
<1>2. CASE kind = "date"
  <2>1. value \in Seq(Byte) /\ Len(value) = date_t
    BY <1>2 DEF Sendable
  <2>2. WriteField(kind, value) = value /\ SizeOfField(kind, value) = date_t
    BY <1>2, <2>1, EmptySeq, DateFieldIsReadBack DEF WriteField, SizeOfField
  <2>3. \A s : ReadField(kind, s) = ReadBytes(s, date_t)
    BY <1>2 DEF ReadField
  <2>4. date_t >= 4 /\ date_t % alignment = 0
    BY DEF alignment, date_t
  <2>5. QED
    BY <2>1, <2>2, <2>3, <2>4, DateFieldIsReadBack
<1>3. CASE kind = "text"
  <2>1. value \in Text /\ Len(value) + Pad(value) \in Int32
    BY <1>3 DEF Sendable
  <2>2. /\ WriteField(kind, value) = WriteInt(Len(value) + Pad(value)) \o value \o Zeros(Pad(value))
        /\ SizeOfField(kind, value) = 4 + Len(value) + Pad(value)
    BY <1>3 DEF WriteField, SizeOfField
  <2>3. \A s : ReadField(kind, s) = ReadText(ReadInt(s))
    BY <1>3 DEF ReadField
  <2>4. 4 + Len(value) + Pad(value) >= 4 /\ (4 + Len(value) + Pad(value)) % alignment = 0
    <3> DEFINE m == Len(value)
               p == Pad(value)
    <3>1. p \in 0 .. 3 /\ (m + p) % 4 = 0 /\ m \in Nat
      BY <2>1, Padding, LenProperties DEF Text
    <3> HIDE DEF m, p
    <3>2. \A i, j \in Nat : (i + j) % 4 = 0 => 4 + i + j >= 4 /\ (4 + i + j) % 4 = 0
      BY SMT
    <3>3. p \in Nat
      BY <3>1
    <3>4. 4 + m + p >= 4 /\ (4 + m + p) % 4 = 0
      BY <3>1, <3>2, <3>3
    <3>5. QED
      BY <3>4 DEF alignment, m, p
  <2>5. QED
    BY <2>1, <2>2, <2>3, <2>4, TextFieldIsReadBack
<1>4. QED
  BY <1>1, <1>2, <1>3 DEF Kinds

-----------------------------------------------------------------------------
(* Fields and records, one after the other.                                   *)

\* FlattenRest for no sequences, too.
LEMMA Splitting ==
  ASSUME NEW S, NEW seqs \in Seq(Seq(S))
  PROVE  /\ FlattenSeq(seqs) \in Seq(S)
         /\ \E R \in [1 .. Len(seqs) + 1 -> Seq(S)] :
              /\ R[1] = FlattenSeq(seqs) /\ R[Len(seqs) + 1] = <<>>
              /\ \A i \in 1 .. Len(seqs) : R[i] = seqs[i] \o R[i + 1]
<1>1. CASE seqs # <<>>
  <2>1. PICK R \in [1 .. Len(seqs) + 1 -> Seq(S)] :
          /\ R[1] = FlattenSeq(seqs) /\ R[Len(seqs) + 1] = <<>>
          /\ \A i \in 1 .. Len(seqs) : R[i] = seqs[i] \o R[i + 1]
    BY <1>1, FlattenRest
  <2>2. 1 \in 1 .. Len(seqs) + 1
    BY LenProperties
  <2>3. FlattenSeq(seqs) \in Seq(S)
    BY <2>1, <2>2
  <2>4. QED
    BY <2>1, <2>3
<1>2. CASE seqs = <<>>
  <2>1. Len(seqs) = 0 /\ <<>> \in Seq(S)
    BY <1>2, EmptySeq
  <2>2. FlattenSeq(seqs) = <<>>
    BY <1>2, <2>1 DEF FlattenSeq
  <2> DEFINE R == [i \in 1 .. 0 + 1 |-> <<>>]
  <2>3. /\ R \in [1 .. 0 + 1 -> Seq(S)] /\ R[1] = <<>> /\ R[0 + 1] = <<>>
        /\ \A i \in 1 .. 0 : R[i] = seqs[i] \o R[i + 1]
    BY <2>1
  <2> HIDE DEF R
  <2>4. QED
    BY <2>1, <2>2, <2>3
<1>3. QED
  BY <1>1, <1>2

\* The sum of the lengths is the length of the whole.
Totalling(sizes, f) ==
  f = [i \in 0 .. Len(sizes) |-> IF i = 0 THEN 0 ELSE f[i - 1] + sizes[i]]

\* The lengths of the parts add up to the length of the whole.
LEMMA TotalOfLengths ==
  ASSUME NEW S, NEW seqs \in Seq(Seq(S))
  PROVE  \A sizes : Len(sizes) = Len(seqs) /\ (\A i \in 1 .. Len(seqs) : sizes[i] = Len(seqs[i]))
           => Total(sizes) = Len(FlattenSeq(seqs))
<1> DEFINE n == Len(seqs)
<1>1. n \in Nat /\ \A i \in 1 .. n : seqs[i] \in Seq(S)
  BY LenProperties, ElementOfSeq
<1>2. PICK R \in [1 .. n + 1 -> Seq(S)] :
        /\ R[1] = FlattenSeq(seqs) /\ R[n + 1] = <<>>
        /\ \A i \in 1 .. n : R[i] = seqs[i] \o R[i + 1]
  BY Splitting
<1> SUFFICES ASSUME NEW sizes, Len(sizes) = n, \A i \in 1 .. n : sizes[i] = Len(seqs[i])
             PROVE  Total(sizes) = Len(FlattenSeq(seqs))
  OBVIOUS
<1>3. Len(sizes) = n /\ \A i \in 1 .. n : sizes[i] = Len(seqs[i])
  OBVIOUS
<1> HIDE DEF n
<1>4. \A i \in 1 .. n : Len(R[i]) = sizes[i] + Len(R[i + 1]) /\ sizes[i] \in Nat
  <2>1. \A a, b \in Seq(S) : Len(a \o b) = Len(a) + Len(b) /\ Len(a) \in Nat
    BY ConcatProperties, LenProperties
  <2>2. \A i \in 1 .. n : seqs[i] \in Seq(S) /\ R[i + 1] \in Seq(S)
    BY <1>1, <1>2
  <2>3. QED
    BY <1>2, <1>3, <2>1, <2>2
<1>5. \A i \in 1 .. n + 1 : Len(R[i]) \in Nat
  BY <1>2, LenProperties
<1> DEFINE sum(i) == Len(R[1]) - Len(R[i + 1])
           g == [i \in 0 .. n |-> sum(i)]
<1>6. sum(0) = 0 /\ \A i \in 1 .. n : sum(i) = sum(i - 1) + sizes[i]
  <2>1. 1 \in 1 .. n + 1 /\ 0 + 1 = 1
    BY <1>1
  <2>2. \A i \in 1 .. n : i \in 1 .. n + 1 /\ i + 1 \in 1 .. n + 1 /\ (i - 1) + 1 = i
    BY <1>1
  <2>3. \A i \in 1 .. n : sum(i - 1) = Len(R[1]) - Len(R[i])
    BY <2>2
  <2>4. sum(0) = 0
    BY <1>5, <2>1
  <2>5. ASSUME NEW i \in 1 .. n PROVE sum(i) = sum(i - 1) + sizes[i]
    <3> DEFINE x == Len(R[1])
               y == Len(R[i])
               z == Len(R[i + 1])
    <3>1. x \in Nat /\ y \in Nat /\ z \in Nat /\ y = sizes[i] + z /\ sizes[i] \in Nat
      BY <1>4, <1>5, <2>1, <2>2
    <3>2. sum(i - 1) = x - y /\ sum(i) = x - z
      BY <2>3
    <3> HIDE DEF sum, x, y, z
    <3>3. QED
      BY <3>1, <3>2
  <2>6. QED
    BY <2>4, <2>5
<1> HIDE DEF sum
<1>7. Totalling(sizes, g)
  <2>1. \A i \in 0 .. n : g[i] = IF i = 0 THEN 0 ELSE g[i - 1] + sizes[i]
    <3>1. \A i \in 0 .. n : i = 0 \/ (i \in 1 .. n /\ i - 1 \in 0 .. n)
      BY <1>1
    <3>2. QED
      BY <1>6, <3>1
  <2>2. g = [i \in 0 .. n |-> g[i]]
    OBVIOUS
  <2> HIDE DEF g
  <2>3. g = [i \in 0 .. n |-> IF i = 0 THEN 0 ELSE g[i - 1] + sizes[i]]
    BY <2>1, <2>2
  <2>4. QED
    BY <1>3, <2>3 DEF Totalling
<1> DEFINE total[i \in 0 .. Len(sizes)] == IF i = 0 THEN 0 ELSE total[i - 1] + sizes[i]
<1>8. total = CHOOSE f : Totalling(sizes, f)
  BY DEF Totalling
<1>9. Total(sizes) = total[Len(sizes)]
  BY DEF Total
<1> HIDE DEF total
<1>10. Totalling(sizes, total)
  BY <1>7, <1>8
<1>11. \A i \in 0 .. n : total[i] = IF i = 0 THEN 0 ELSE total[i - 1] + sizes[i]
  BY <1>3, <1>10 DEF Totalling
<1> DEFINE T == {k \in Nat : k <= n => total[k] = sum(k)}
<1>12. 0 \in T
  BY <1>1, <1>6, <1>11
<1>13. ASSUME NEW k \in T PROVE k + 1 \in T
  <2>1. k + 1 <= n => k + 1 \in 0 .. n /\ k + 1 \in 1 .. n /\ k + 1 # 0 /\ (k + 1) - 1 = k /\ k <= n
    BY <1>1
  <2>2. QED
    BY <1>6, <1>11, <2>1
<1>14. T = Nat
  BY <1>12, <1>13, SetInduction
<1>15. total[n] = sum(n)
  <2>1. n \in T
    BY <1>1, <1>14, Zenon
  <2>2. n <= n
    BY <1>1
  <2>3. QED
    BY <2>1, <2>2, Zenon
<1>16. sum(n) = Len(R[1])
  <2>1. Len(R[n + 1]) = 0
    BY <1>2, EmptySeq
  <2>2. 1 \in 1 .. n + 1
    BY <1>1
  <2>3. QED
    BY <1>5, <2>1, <2>2 DEF sum
<1>17. QED
  BY <1>2, <1>3, <1>9, <1>15, <1>16

\* Sequences of whole words make whole words, and at least one word each.
LEMMA WholeWords ==
  ASSUME NEW S, NEW seqs \in Seq(Seq(S)),
         \A i \in 1 .. Len(seqs) : Len(seqs[i]) >= 4 /\ Len(seqs[i]) % 4 = 0
  PROVE  Len(FlattenSeq(seqs)) >= 4 * Len(seqs) /\ Len(FlattenSeq(seqs)) % 4 = 0
<1> DEFINE n == Len(seqs)
<1>1. n \in Nat /\ \A i \in 1 .. n : seqs[i] \in Seq(S)
  BY LenProperties, ElementOfSeq
<1>2. PICK R \in [1 .. n + 1 -> Seq(S)] :
        /\ R[1] = FlattenSeq(seqs) /\ R[n + 1] = <<>>
        /\ \A i \in 1 .. n : R[i] = seqs[i] \o R[i + 1]
  BY Splitting
<1>3. \A i \in 1 .. n : Len(seqs[i]) >= 4 /\ Len(seqs[i]) % 4 = 0
  OBVIOUS
<1> HIDE DEF n
<1>4. \A i \in 1 .. n : Len(R[i]) = Len(seqs[i]) + Len(R[i + 1]) /\ Len(seqs[i]) \in Nat /\ Len(R[i + 1]) \in Nat
  <2>1. \A a, b \in Seq(S) : Len(a \o b) = Len(a) + Len(b) /\ Len(a) \in Nat /\ Len(b) \in Nat
    BY ConcatProperties, LenProperties
  <2>2. \A i \in 1 .. n : seqs[i] \in Seq(S) /\ R[i + 1] \in Seq(S)
    BY <1>1, <1>2
  <2>3. QED
    BY <1>2, <2>1, <2>2
<1> DEFINE Words(k) == Len(R[n + 1 - k]) >= 4 * k /\ Len(R[n + 1 - k]) % 4 = 0
           T == {k \in Nat : k <= n => Words(k)}
<1>5. 0 \in T
  <2>1. n + 1 - 0 = n + 1 /\ Len(R[n + 1]) = 0
    BY <1>1, <1>2, EmptySeq
  <2>2. 0 >= 4 * 0 /\ 0 % 4 = 0
    OBVIOUS
  <2>3. Words(0)
    BY <2>1, <2>2
  <2> HIDE DEF Words
  <2>4. QED
    BY <2>3
<1>6. ASSUME NEW k \in T PROVE k + 1 \in T
  <2>1. SUFFICES ASSUME k + 1 <= n PROVE Words(k + 1)
    <3> HIDE DEF Words
    <3>1. QED
      OBVIOUS
  <2>2. k \in Nat /\ Words(k)
    <3> HIDE DEF Words
    <3>1. QED
      BY <1>1, <2>1
  <2> DEFINE i == n - k
  <2>3. i \in 1 .. n /\ i = n + 1 - (k + 1) /\ i + 1 = n + 1 - k
    BY <1>1, <2>1, <2>2
  <2> HIDE DEF i
  <2> DEFINE a == Len(seqs[i])
             b == Len(R[i + 1])
  <2>4. Len(R[i]) = a + b /\ a \in Nat /\ b \in Nat /\ a >= 4 /\ a % 4 = 0 /\ b >= 4 * k /\ b % 4 = 0
    BY <1>3, <1>4, <2>2, <2>3
  <2> HIDE DEF a, b
  <2>5. a + b >= 4 * (k + 1)
    BY <2>2, <2>4
  <2>6. (a + b) % 4 = 0
    <3>1. \A p \in Nat : p % 4 = 0 => p \div 4 \in Nat /\ p = 4 * (p \div 4)
      BY SMT
    <3>2. PICK p, q \in Nat : a = 4 * p /\ b = 4 * q
      BY <2>4, <3>1, Zenon
    <3>3. \A m \in Nat : (4 * m) % 4 = 0
      BY SMT
    <3>4. a + b = 4 * (p + q) /\ p + q \in Nat
      BY <3>2
    <3>5. QED
      BY <3>3, <3>4, Zenon
  <2>7. QED
    BY <2>3, <2>4, <2>5, <2>6
<1>7. n \in T
  <2> HIDE DEF Words
  <2>1. T \in SUBSET Nat
    OBVIOUS
  <2>2. T = Nat
    <3> HIDE DEF T
    <3>1. QED
      BY <1>5, <1>6, <2>1, SetInduction
  <2>3. QED
    BY <1>1, <2>2
<1>8. Words(n)
  <2> HIDE DEF Words
  <2>1. QED
    BY <1>1, <1>7
<1>9. n + 1 - n = 1
  BY <1>1
<1>10. QED
  BY <1>2, <1>8, <1>9 DEF n

\* A function on 1 .. n is a sequence.
LEMMA FunctionIsSeq ==
  ASSUME NEW S, NEW n \in Nat, NEW f \in [1 .. n -> S]
  PROVE  f \in Seq(S) /\ Len(f) = n
<1>1. Seq(S) = UNION {[1 .. m -> S] : m \in Nat}
  BY SeqDef
<1>2. f \in Seq(S)
  BY <1>1, Zenon
<1>3. DOMAIN f = 1 .. n /\ DOMAIN f = 1 .. Len(f) /\ Len(f) \in Nat
  BY <1>2, LenProperties
<1>4. QED
  BY <1>2, <1>3

\* Prefixes grow by one element at a time.
LEMMA TakeOneMore ==
  ASSUME NEW S, NEW s \in Seq(S)
  PROVE  /\ SubSeq(s, 1, 0) = <<>> /\ SubSeq(s, 1, Len(s)) = s
         /\ \A i \in 1 .. Len(s) : Append(SubSeq(s, 1, i - 1), s[i]) = SubSeq(s, 1, i)
<1>1. SubSeq(s, 1, 0) = <<>> /\ SubSeq(s, 1, Len(s)) = s
  BY SubSeqEmpty, SubSeqFull
<1>2. ASSUME NEW i \in 1 .. Len(s) PROVE Append(SubSeq(s, 1, i - 1), s[i]) = SubSeq(s, 1, i)
  <2>1. Len(s) \in Nat /\ 1 \in 1 .. Len(s) /\ i \in 1 .. Len(s)
    BY LenProperties
  <2>2. SubSeq(s, 1, i) = SubSeq(s, 1, i - 1) \o <<s[i]>>
    BY <2>1, SubSeqRecursiveSecond
  <2>3. SubSeq(s, 1, i - 1) \in Seq(S) /\ s[i] \in S
    <3>1. \A j \in 1 .. i - 1 : s[j] \in S
      BY <2>1, ElementOfSeq
    <3>2. 1 \in Int /\ i - 1 \in Int
      OBVIOUS
    <3>3. SubSeq(s, 1, i - 1) \in Seq(S)
      BY <3>1, <3>2, SubSeqProperties
    <3>4. QED
      BY <3>3, ElementOfSeq
  <2>4. \A t \in Seq(S), e \in S : Append(t, e) = t \o <<e>>
    BY AppendIsConcat
  <2>5. QED
    BY <2>2, <2>3, <2>4, Zenon
<1>3. QED
  BY <1>1, <1>2

\* The items that a record with these fields can be.
Items(fields) ==
  {item \in Seq(UNION {Sendable(kind) : kind \in Kinds}) :
     Len(item) = Len(fields) /\ \A i \in 1 .. Len(fields) : item[i] \in Sendable(fields[i])}

\* What an item is on the wire: the fields one after the other, in whole words, and
\* as long as size() says.
LEMMA WrittenItem ==
  ASSUME NEW fields \in Seq(Kinds), fields # <<>>, NEW item \in Items(fields)
  PROVE  /\ WriteItem(fields, item) \in Seq(Byte)
         /\ Len(WriteItem(fields, item)) = SizeOf(fields, item)
         /\ SizeOf(fields, item) >= 4 /\ SizeOf(fields, item) % 4 = 0
         /\ [i \in DOMAIN fields |-> WriteField(fields[i], item[i])] \in Seq(Seq(Byte))
         /\ Len([i \in DOMAIN fields |-> WriteField(fields[i], item[i])]) = Len(fields)
<1> DEFINE n == Len(fields)
           parts == [i \in 1 .. n |-> WriteField(fields[i], item[i])]
           sizes == [i \in 1 .. n |-> SizeOfField(fields[i], item[i])]
<1>1. n \in Nat /\ n # 0 /\ DOMAIN fields = 1 .. n
  BY EmptySeq, LenProperties
<1>2. \A i \in 1 .. n : fields[i] \in Kinds /\ item[i] \in Sendable(fields[i])
  BY ElementOfSeq DEF Items
<1>3. \A i \in 1 .. n :
        /\ WriteField(fields[i], item[i]) \in Seq(Byte)
        /\ Len(WriteField(fields[i], item[i])) = SizeOfField(fields[i], item[i])
        /\ SizeOfField(fields[i], item[i]) >= 4 /\ SizeOfField(fields[i], item[i]) % 4 = 0
  <2>1. <<>> \in Seq(Byte)
    BY EmptySeq
  <2>2. \A kind \in Kinds : \A value \in Sendable(kind) :
          /\ WriteField(kind, value) \in Seq(Byte)
          /\ Len(WriteField(kind, value)) = SizeOfField(kind, value)
          /\ SizeOfField(kind, value) >= 4 /\ SizeOfField(kind, value) % 4 = 0
    BY <2>1, FieldIsReadBack DEF alignment
  <2>3. QED
    BY <1>2, <2>2
<1>4. parts \in [1 .. n -> Seq(Byte)]
  BY <1>3
<1>5. /\ WriteItem(fields, item) = FlattenSeq(parts) /\ SizeOf(fields, item) = Total(sizes)
      /\ parts = [i \in DOMAIN fields |-> WriteField(fields[i], item[i])]
  BY <1>1 DEF WriteItem, SizeOf
<1>6. \A i \in 1 .. n : sizes[i] = Len(parts[i]) /\ Len(parts[i]) >= 4 /\ Len(parts[i]) % 4 = 0
  BY <1>3
<1>7. sizes \in [1 .. n -> Nat]
  <2>1. \A i \in 1 .. n : Len(parts[i]) \in Nat
    BY <1>4, LenProperties
  <2>2. sizes = [i \in 1 .. n |-> sizes[i]]
    OBVIOUS
  <2> HIDE DEF sizes, parts
  <2>3. QED
    BY <1>6, <2>1, <2>2
<1> HIDE DEF n, parts, sizes
<1>8. parts \in Seq(Seq(Byte)) /\ Len(parts) = n
  BY <1>1, <1>4, FunctionIsSeq
<1>9. Len(sizes) = n
  BY <1>1, <1>7, FunctionIsSeq
<1>10. FlattenSeq(parts) \in Seq(Byte)
  BY <1>8, Splitting
<1>11. Total(sizes) = Len(FlattenSeq(parts))
  <2>1. \A z : Len(z) = Len(parts) /\ (\A i \in 1 .. Len(parts) : z[i] = Len(parts[i]))
          => Total(z) = Len(FlattenSeq(parts))
    BY <1>8, TotalOfLengths
  <2>2. QED
    BY <1>6, <1>8, <1>9, <2>1
<1>12. Len(FlattenSeq(parts)) >= 4 * n /\ Len(FlattenSeq(parts)) % 4 = 0
  BY <1>6, <1>8, WholeWords
<1>13. 4 * n >= 4 /\ Len(FlattenSeq(parts)) \in Nat
  BY <1>1, <1>10, LenProperties
<1>14. Len(FlattenSeq(parts)) >= 4
  BY <1>1, <1>12, <1>13
<1>15. QED
  BY <1>5, <1>8, <1>10, <1>11, <1>12, <1>14 DEF n

\* Joining bytes is associative.
LEMMA Associative == \A a, b, c \in Seq(Byte) : (a \o b) \o c = a \o (b \o c)
BY ConcatAssociative

\* How ReadItem gets at its result, field by field.
ReadingItem(fields, stream, f) ==
  f = [i \in 0 .. Len(fields) |->
         IF i = 0 THEN [stream |-> stream, value |-> <<>>] ELSE ReadNext(fields[i], f[i - 1])]

\* The reader of an item gets the item back, and is after it.
LEMMA ItemIsReadBack ==
  ASSUME NEW fields \in Seq(Kinds), fields # <<>>, NEW item \in Items(fields), NEW rest \in Seq(Byte)
  PROVE  ReadItem(fields, Stream(WriteItem(fields, item) \o rest))
           = [stream |-> Stream(rest), value |-> item]
<1> DEFINE n == Len(fields)
           parts == [i \in DOMAIN fields |-> WriteField(fields[i], item[i])]
           stream == Stream(WriteItem(fields, item) \o rest)
<1>1. n \in Nat /\ n # 0 /\ DOMAIN fields = 1 .. n
  BY EmptySeq, LenProperties
<1>2. \A i \in 1 .. n : fields[i] \in Kinds /\ item[i] \in Sendable(fields[i])
  BY ElementOfSeq DEF Items
<1>3. parts \in Seq(Seq(Byte)) /\ Len(parts) = n
  BY WrittenItem
<1>4. PICK R \in [1 .. Len(parts) + 1 -> Seq(Byte)] :
        /\ R[1] = FlattenSeq(parts) /\ R[Len(parts) + 1] = <<>>
        /\ \A i \in 1 .. Len(parts) : R[i] = parts[i] \o R[i + 1]
  <2> HIDE DEF n, parts, stream
  <2>1. QED
    BY <1>3, Splitting
<1>5. WriteItem(fields, item) = R[1]
  BY <1>4 DEF WriteItem
<1>6. \A i \in 1 .. n : parts[i] = WriteField(fields[i], item[i])
  BY <1>1
<1>7. item \in Seq(UNION {Sendable(kind) : kind \in Kinds}) /\ Len(item) = n
  BY DEF Items
<1> HIDE DEF n, parts, stream
<1> DEFINE at(i) == [stream |-> Stream(R[i + 1] \o rest), value |-> SubSeq(item, 1, i)]
           g == [i \in 0 .. n |-> at(i)]
<1>8. /\ SubSeq(item, 1, 0) = <<>> /\ SubSeq(item, 1, n) = item
      /\ \A i \in 1 .. n : Append(SubSeq(item, 1, i - 1), item[i]) = SubSeq(item, 1, i)
  BY <1>7, TakeOneMore
<1>9. /\ at(0) = [stream |-> stream, value |-> <<>>]
      /\ at(n) = [stream |-> Stream(rest), value |-> item]
  <2>1. 0 + 1 = 1
    OBVIOUS
  <2>2. R[n + 1] \o rest = rest
    BY <1>3, <1>4, ConcatEmptySeq
  <2>3. QED
    BY <1>5, <1>8, <2>1, <2>2 DEF stream
<1>10. ASSUME NEW i \in 1 .. n PROVE at(i) = ReadNext(fields[i], at(i - 1))
  <2> DEFINE w == WriteField(fields[i], item[i])
             more == R[i + 1] \o rest
  <2>1. R[i + 1] \in Seq(Byte) /\ w \in Seq(Byte) /\ R[i] = w \o R[i + 1] /\ more \in Seq(Byte)
    <3>1. i + 1 \in 1 .. n + 1
      BY <1>1
    <3>2. R[i + 1] \in Seq(Byte)
      BY <1>3, <1>4, <3>1
    <3>3. w \in Seq(Byte)
      BY <1>3, <1>6, ElementOfSeq
    <3>4. R[i] = w \o R[i + 1]
      BY <1>3, <1>4, <1>6
    <3>5. QED
      BY <3>2, <3>3, <3>4, ConcatProperties
  <2>2. R[i] \o rest = w \o more
    <3>1. (w \o R[i + 1]) \o rest = w \o (R[i + 1] \o rest)
      <4>1. w \in Seq(Byte) /\ R[i + 1] \in Seq(Byte) /\ rest \in Seq(Byte)
        BY <2>1
      <4> HIDE DEF w
      <4>2. QED
        BY <4>1, Associative
    <3>2. R[i] = w \o R[i + 1]
      BY <2>1
    <3> HIDE DEF w
    <3>3. QED
      BY <3>1, <3>2
  <2>3. ReadField(fields[i], Stream(w \o more)) = [stream |-> Stream(more), value |-> item[i]]
    <3> HIDE DEF more
    <3>1. QED
      BY <1>2, <2>1, FieldIsReadBack
  <2>4. (i - 1) + 1 = i
    OBVIOUS
  <2>5. at(i - 1) = [stream |-> Stream(w \o more), value |-> SubSeq(item, 1, i - 1)]
    BY <2>2, <2>4
  <2> HIDE DEF w
  <2>6. ReadNext(fields[i], [stream |-> Stream(w \o more), value |-> SubSeq(item, 1, i - 1)])
          = [stream |-> Stream(more), value |-> Append(SubSeq(item, 1, i - 1), item[i])]
    <3> DEFINE before == [stream |-> Stream(w \o more), value |-> SubSeq(item, 1, i - 1)]
               field  == [stream |-> Stream(more), value |-> item[i]]
    <3>1. /\ before.stream = Stream(w \o more) /\ before.value = SubSeq(item, 1, i - 1)
          /\ field.stream = Stream(more) /\ field.value = item[i]
      OBVIOUS
    <3>2. ReadField(fields[i], Stream(w \o more)) = field
      BY <2>3
    <3> HIDE DEF more, before, field
    <3>3. ReadNext(fields[i], before) = AddTo(before, field)
      BY <3>1, <3>2, Zenon DEF ReadNext
    <3>4. AddTo(before, field) = [stream |-> Stream(more), value |-> Append(SubSeq(item, 1, i - 1), item[i])]
      BY <3>1, Zenon DEF AddTo
    <3>5. QED
      BY <3>3, <3>4, Zenon DEF before
  <2>7. QED
    BY <1>8, <2>5, <2>6
<1> HIDE DEF at
<1>11. ReadingItem(fields, stream, g)
  <2>1. \A i \in 0 .. n : g[i] = IF i = 0 THEN [stream |-> stream, value |-> <<>>] ELSE ReadNext(fields[i], g[i - 1])
    <3>1. \A i \in 0 .. n : i = 0 \/ (i \in 1 .. n /\ i - 1 \in 0 .. n)
      BY <1>1
    <3>2. \A i \in 0 .. n : g[i] = at(i)
      OBVIOUS
    <3> HIDE DEF g
    <3>3. QED
      BY <1>9, <1>10, <3>1, <3>2
  <2>2. g = [i \in 0 .. n |-> g[i]]
    OBVIOUS
  <2> HIDE DEF g
  <2>3. g = [i \in 0 .. n |-> IF i = 0 THEN [stream |-> stream, value |-> <<>>] ELSE ReadNext(fields[i], g[i - 1])]
    BY <2>1, <2>2
  <2>4. QED
    BY <2>3 DEF ReadingItem, n
<1> DEFINE read[i \in 0 .. Len(fields)] ==
             IF i = 0 THEN [stream |-> stream, value |-> <<>>] ELSE ReadNext(fields[i], read[i - 1])
<1>12. read = CHOOSE f : ReadingItem(fields, stream, f)
  BY DEF ReadingItem
<1>13. ReadItem(fields, stream) = read[Len(fields)]
  BY DEF ReadItem
<1> HIDE DEF read
<1>14. ReadingItem(fields, stream, read)
  BY <1>11, <1>12
<1>15. \A i \in 0 .. n : read[i] = IF i = 0 THEN [stream |-> stream, value |-> <<>>] ELSE ReadNext(fields[i], read[i - 1])
  BY <1>14 DEF ReadingItem, n
<1> DEFINE T == {k \in Nat : k <= n => read[k] = at(k)}
<1>16. 0 \in T
  BY <1>1, <1>9, <1>15
<1>17. ASSUME NEW k \in T PROVE k + 1 \in T
  <2>1. k + 1 <= n => k + 1 \in 0 .. n /\ k + 1 \in 1 .. n /\ k + 1 # 0 /\ (k + 1) - 1 = k /\ k <= n
    BY <1>1
  <2>2. QED
    BY <1>10, <1>15, <2>1
<1>18. read[n] = at(n)
  <2>1. T = Nat
    BY <1>16, <1>17, SetInduction
  <2>2. n \in T
    BY <1>1, <2>1, Zenon
  <2>3. n <= n
    BY <1>1
  <2>4. QED
    BY <2>2, <2>3, Zenon
<1>19. QED
  BY <1>9, <1>13, <1>18 DEF n, stream

-----------------------------------------------------------------------------
(* Records and packets.                                                       *)

\* The end marks are four bytes each.
LEMMA Marks == eor \in Seq(Byte) /\ Len(eor) = 4 /\ eoc \in Seq(Byte) /\ Len(eoc) = 4
<1>1. 36 \in Byte /\ 47 \in Byte /\ 128 \in Byte
  BY DEF Byte
<1>2. eor \in Seq(Byte) /\ Len(eor) = 4
  BY <1>1 DEF eor
<1>3. eoc \in Seq(Byte) /\ Len(eoc) = 4
  BY <1>1 DEF eoc
<1>4. QED
  BY <1>2, <1>3

\* A mark is taken when it comes, and another one is not.
LEMMA MarkIsExpected ==
  ASSUME NEW mark \in Seq(Byte), Len(mark) = 4, NEW rest \in Seq(Byte)
  PROVE  /\ Skip(Stream(mark \o rest), 4) = Stream(rest)
         /\ Expect(mark, Stream(mark \o rest)) = Stream(rest)
         /\ \A other : other # mark => Expect(other, Stream(mark \o rest)) = Failed
<1> DEFINE all == mark \o rest
<1>1. Skip(Stream(all), 4) = Stream(rest)
  BY BytesAreReadBack
<1>2. SubSeq(all, 1, 4) = mark
  <2>1. SubSeq(mark \o rest, 1, Len(mark)) = mark
    BY TakeAndDrop
  <2>2. QED
    BY <2>1
<1> HIDE DEF all
<1>3. Stream(all).left = all /\ Stream(rest).good
  BY DEF Stream
<1>4. Expect(mark, Stream(all)) = Stream(rest)
  BY <1>1, <1>2, <1>3 DEF Expect
<1>5. \A other : other # mark => Expect(other, Stream(all)) = Failed
  BY <1>2, <1>3 DEF Expect
<1>6. QED
  BY <1>1, <1>4, <1>5 DEF all

\* What ends a record.
End(eors) == IF eors THEN eor ELSE <<>>

\* What ends a record is a mark or nothing.
LEMMA EndOfRecord ==
  ASSUME NEW eors \in BOOLEAN
  PROVE  End(eors) \in Seq(Byte) /\ Len(End(eors)) \in {0, 4}
<1>1. CASE eors = TRUE
  BY <1>1, Marks DEF End
<1>2. CASE eors = FALSE
  BY <1>2, EmptySeq DEF End
<1>3. QED
  BY <1>1, <1>2

\* A record with its end is read back, and added to what was read.
LEMMA RecordIsReadBack ==
  ASSUME NEW fields \in Seq(Kinds), fields # <<>>, NEW eors \in BOOLEAN,
         NEW item \in Items(fields), NEW rest \in Seq(Byte), NEW items
  PROVE  ReadRecord(fields, eors,
             [stream |-> Stream((WriteItem(fields, item) \o End(eors)) \o rest), value |-> items])
           = [stream |-> Stream(rest), value |-> Append(items, item)]
<1> DEFINE w == WriteItem(fields, item)
           more == End(eors) \o rest
           before == [stream |-> Stream(w \o more), value |-> items]
           read == [stream |-> Stream(more), value |-> item]
           next == AddTo(before, ReadItem(fields, before.stream))
<1>1. w \in Seq(Byte)
  BY WrittenItem
<1>2. End(eors) \in Seq(Byte)
  BY EndOfRecord
<1>3. more \in Seq(Byte)
  BY <1>2, ConcatProperties
<1>4. ReadItem(fields, Stream(w \o more)) = read
  BY <1>3, ItemIsReadBack
<1>5. (w \o End(eors)) \o rest = w \o more
  <2> HIDE DEF w
  <2>1. QED
    BY <1>1, <1>2, Associative
<1>6. ReadRecord(fields, eors, before) = IF eors THEN [next EXCEPT !.stream = Expect(eor, @)] ELSE next
  BY DEF ReadRecord
<1>7. /\ before.stream = Stream(w \o more) /\ before.value = items
      /\ read.stream = Stream(more) /\ read.value = item
  OBVIOUS
<1> HIDE DEF w, more, before, read
<1>8. next = [stream |-> Stream(more), value |-> Append(items, item)]
  BY <1>4, <1>7, Zenon DEF AddTo
<1> HIDE DEF next
<1>9. CASE eors = TRUE
  <2>1. more = eor \o rest
    BY <1>9 DEF more, End
  <2>2. Expect(eor, Stream(more)) = Stream(rest)
    BY <2>1, Marks, MarkIsExpected
  <2>3. [next EXCEPT !.stream = Expect(eor, @)] = [stream |-> Stream(rest), value |-> Append(items, item)]
    <3>1. next.stream = Stream(more)
      BY <1>8
    <3>2. [next EXCEPT !.stream = Expect(eor, @)] = [next EXCEPT !.stream = Expect(eor, Stream(more))]
      BY <3>1
    <3>3. [[stream |-> Stream(more), value |-> Append(items, item)] EXCEPT !.stream = Stream(rest)]
            = [stream |-> Stream(rest), value |-> Append(items, item)]
      OBVIOUS
    <3>4. QED
      BY <1>8, <2>2, <3>2, <3>3, Zenon
  <2>4. QED
    BY <1>5, <1>6, <1>9, <2>3 DEF before, w
<1>10. CASE eors = FALSE
  <2>1. more = rest
    BY <1>10, ConcatEmptySeq DEF more, End
  <2>2. QED
    BY <1>5, <1>6, <1>8, <1>10, <2>1 DEF before, w
<1>11. QED
  BY <1>9, <1>10

\* What records are on the wire: the size in front is the length of what follows it,
\* and no record is shorter than a word.
Written(fields, eors, items) ==
  [i \in 1 .. Len(items) |-> WriteItem(fields, items[i]) \o End(eors)]

\* The records of a packet are whole words, with their size in front.
LEMMA WrittenRecords ==
  ASSUME NEW fields \in Seq(Kinds), fields # <<>>, NEW eors \in BOOLEAN, NEW items \in Seq(Items(fields))
  PROVE  LET parts == Written(fields, eors, items)
             size  == Len(FlattenSeq(parts))
         IN  /\ parts \in Seq(Seq(Byte)) /\ Len(parts) = Len(items)
             /\ \A i \in 1 .. Len(items) : Len(parts[i]) >= 4
             /\ write_packet(fields, items, eors) = WriteInt(size) \o FlattenSeq(parts)
             /\ size \in Nat /\ size >= 4 * Len(items) /\ size % 4 = 0
<1> DEFINE n == Len(items)
           parts == Written(fields, eors, items)
           sizes == [i \in 1 .. n |-> SizeOf(fields, items[i]) + Len(End(eors))]
<1>1. n \in Nat /\ DOMAIN items = 1 .. n
  BY LenProperties
<1>2. End(eors) \in Seq(Byte) /\ Len(End(eors)) \in {0, 4}
  BY EndOfRecord
<1>3. ASSUME NEW i \in 1 .. n
      PROVE  /\ parts[i] = WriteItem(fields, items[i]) \o End(eors)
             /\ parts[i] \in Seq(Byte) /\ Len(parts[i]) = sizes[i]
             /\ Len(parts[i]) >= 4 /\ Len(parts[i]) % 4 = 0
  <2> DEFINE w == WriteItem(fields, items[i])
             l == Len(w)
  <2>1. items[i] \in Items(fields)
    BY ElementOfSeq
  <2>2. w \in Seq(Byte) /\ l = SizeOf(fields, items[i]) /\ l >= 4 /\ l % 4 = 0
    BY <2>1, WrittenItem
  <2>3. l \in Nat
    BY <2>2, LenProperties
  <2>4. parts[i] = w \o End(eors)
    BY DEF Written
  <2>5. sizes[i] = l + Len(End(eors))
    BY <2>2
  <2> HIDE DEF w, parts, sizes
  <2>6. w \o End(eors) \in Seq(Byte) /\ Len(w \o End(eors)) = l + Len(End(eors))
    BY <1>2, <2>2, ConcatProperties
  <2> HIDE DEF l
  <2>7. l + Len(End(eors)) >= 4 /\ (l + Len(End(eors))) % 4 = 0
    <3>1. CASE Len(End(eors)) = 0
      BY <2>2, <2>3, <3>1
    <3>2. CASE Len(End(eors)) = 4
      <4>1. \A p \in Nat : p >= 4 /\ p % 4 = 0 => p + 4 >= 4 /\ (p + 4) % 4 = 0
        BY SMT
      <4>2. QED
        BY <2>2, <2>3, <3>2, <4>1
    <3>3. QED
      BY <1>2, <3>1, <3>2
  <2>8. QED
    BY <2>4, <2>5, <2>6, <2>7 DEF w
<1>4. parts = [i \in 1 .. n |-> parts[i]] /\ sizes = [i \in 1 .. n |-> sizes[i]]
  BY DEF Written
<1>5. write_packet(fields, items, eors) = WriteInt(Total(sizes)) \o FlattenSeq(parts)
  BY <1>1 DEF write_packet, Written, End
<1> HIDE DEF n, parts, sizes
<1>6. parts \in [1 .. n -> Seq(Byte)]
  BY <1>3, <1>4
<1>7. parts \in Seq(Seq(Byte)) /\ Len(parts) = n
  BY <1>1, <1>6, FunctionIsSeq
<1>8. Len(sizes) = n
  <2>1. \A i \in 1 .. n : sizes[i] \in Nat
    BY <1>3, LenProperties
  <2>2. sizes \in [1 .. n -> Nat]
    BY <1>4, <2>1
  <2>3. QED
    BY <1>1, <2>2, FunctionIsSeq
<1>9. Total(sizes) = Len(FlattenSeq(parts))
  <2>1. \A z : Len(z) = Len(parts) /\ (\A i \in 1 .. Len(parts) : z[i] = Len(parts[i]))
          => Total(z) = Len(FlattenSeq(parts))
    BY <1>7, TotalOfLengths
  <2>2. QED
    BY <1>3, <1>7, <1>8, <2>1
<1>10. Len(FlattenSeq(parts)) >= 4 * n /\ Len(FlattenSeq(parts)) % 4 = 0
  BY <1>3, <1>7, WholeWords
<1>11. Len(FlattenSeq(parts)) \in Nat
  BY <1>7, Splitting, LenProperties
<1>12. QED
  BY <1>3, <1>5, <1>7, <1>9, <1>10, <1>11 DEF n, parts

\* How ReadRecords gets at its result, record by record.
ReadingRecords(fields, eors, size, left, f) ==
  f = [i \in 0 .. size.value \div 4 |->
         IF i = 0 THEN [size EXCEPT !.value = <<>>] ELSE ReadUpTo(left, fields, eors, f[i - 1])]

\* The records are read until nothing is left of the size, and no further.
LEMMA RecordsAreReadBack ==
  ASSUME NEW fields \in Seq(Kinds), fields # <<>>, NEW eors \in BOOLEAN,
         NEW items \in Seq(Items(fields)), NEW rest \in Seq(Byte)
  PROVE  LET flat == FlattenSeq(Written(fields, eors, items))
         IN  ReadRecords(fields, eors, [stream |-> Stream(flat \o rest), value |-> Len(flat)])
               = [stream |-> Stream(rest), value |-> items]
<1> DEFINE n == Len(items)
           parts == Written(fields, eors, items)
           flat == FlattenSeq(parts)
           size == [stream |-> Stream(flat \o rest), value |-> Len(flat)]
           left == Len(size.stream.left) - size.value
           last == Len(flat) \div 4
<1>1. /\ parts \in Seq(Seq(Byte)) /\ Len(parts) = n /\ n \in Nat
      /\ \A i \in 1 .. n : Len(parts[i]) >= 4
      /\ Len(flat) \in Nat /\ Len(flat) >= 4 * n /\ Len(flat) % 4 = 0
  BY WrittenRecords, LenProperties
<1>2. \A i \in 1 .. n : items[i] \in Items(fields) /\ parts[i] = WriteItem(fields, items[i]) \o End(eors)
  BY ElementOfSeq DEF Written
<1>3. PICK R \in [1 .. Len(parts) + 1 -> Seq(Byte)] :
        /\ R[1] = flat /\ R[Len(parts) + 1] = <<>>
        /\ \A i \in 1 .. Len(parts) : R[i] = parts[i] \o R[i + 1]
  <2> HIDE DEF n, parts
  <2>1. QED
    BY <1>1, Splitting
<1>4. /\ flat \in Seq(Byte)
      /\ size.stream = Stream(flat \o rest) /\ size.stream.good /\ size.stream.left = flat \o rest
      /\ size.value = Len(flat)
  <2>1. flat \in Seq(Byte)
    BY <1>1, Splitting
  <2> HIDE DEF flat
  <2>2. QED
    BY <2>1 DEF Stream
<1>5. left = Len(rest) /\ Len(rest) \in Nat
  <2>1. Len(flat \o rest) = Len(flat) + Len(rest) /\ Len(flat) \in Nat /\ Len(rest) \in Nat
    BY <1>4, ConcatProperties, LenProperties
  <2> HIDE DEF flat, size
  <2>2. left = (Len(flat) + Len(rest)) - Len(flat)
    BY <1>4, <2>1
  <2> HIDE DEF left
  <2>3. QED
    BY <2>1, <2>2
<1>6. last \in Nat /\ n <= last
  <2> HIDE DEF n, flat
  <2>1. QED
    BY <1>1
<1>7. [size EXCEPT !.value = <<>>] = [stream |-> Stream(flat \o rest), value |-> <<>>]
  <2> HIDE DEF flat
  <2>1. QED
    OBVIOUS
<1> DEFINE at(i) == [stream |-> Stream(R[i + 1] \o rest), value |-> SubSeq(items, 1, i)]
<1>8. /\ SubSeq(items, 1, 0) = <<>> /\ SubSeq(items, 1, n) = items
      /\ \A i \in 1 .. n : Append(SubSeq(items, 1, i - 1), items[i]) = SubSeq(items, 1, i)
  BY TakeOneMore
<1>9. /\ at(0) = [stream |-> Stream(flat \o rest), value |-> <<>>]
      /\ at(n) = [stream |-> Stream(rest), value |-> items]
  <2>1. 0 + 1 = 1
    OBVIOUS
  <2>2. R[n + 1] \o rest = rest
    BY <1>1, <1>3, ConcatEmptySeq
  <2>3. SubSeq(items, 1, 0) = <<>> /\ SubSeq(items, 1, n) = items
    BY <1>8
  <2> HIDE DEF n, flat
  <2>4. QED
    BY <1>3, <2>1, <2>2, <2>3
<1>10. ASSUME NEW i \in 1 .. n PROVE at(i) = ReadUpTo(left, fields, eors, at(i - 1))
  <2> DEFINE w == WriteItem(fields, items[i]) \o End(eors)
             more == R[i + 1] \o rest
  <2>1. i \in 1 .. Len(parts) /\ i + 1 \in 1 .. Len(parts) + 1 /\ (i - 1) + 1 = i
    BY <1>1
  <2>2. R[i + 1] \in Seq(Byte) /\ w \in Seq(Byte) /\ R[i] = w \o R[i + 1] /\ Len(w) >= 4
    <3>1. R[i + 1] \in Seq(Byte)
      BY <1>3, <2>1
    <3>2. parts[i] \in Seq(Byte)
      BY <1>1, <2>1, ElementOfSeq
    <3>3. parts[i] = w
      BY <1>2
    <3>4. R[i] = parts[i] \o R[i + 1]
      BY <1>3, <2>1
    <3>5. Len(parts[i]) >= 4
      BY <1>1
    <3> HIDE DEF w, parts
    <3>6. QED
      BY <3>1, <3>2, <3>3, <3>4, <3>5
  <2>3. more \in Seq(Byte)
    BY <2>2, ConcatProperties
  <2> HIDE DEF w, parts, n
  <2>4. R[i] \o rest = w \o more
    <3>1. (w \o R[i + 1]) \o rest = w \o (R[i + 1] \o rest)
      BY <2>2, Associative
    <3>2. QED
      BY <2>2, <3>1
  <2>5. at(i - 1) = [stream |-> Stream(w \o more), value |-> SubSeq(items, 1, i - 1)]
    BY <2>1, <2>4
  <2>6. Len(w \o more) > Len(rest)
    <3>1. Len(w \o more) = Len(w) + Len(more) /\ Len(more) = Len(R[i + 1]) + Len(rest)
      BY <2>2, <2>3, ConcatProperties
    <3>2. Len(w) \in Nat /\ Len(R[i + 1]) \in Nat
      BY <2>2, LenProperties
    <3> HIDE DEF more
    <3>3. QED
      BY <1>5, <2>2, <3>1, <3>2
  <2>7. Len(w \o more) \in Nat
    BY <2>2, <2>3, ConcatProperties, LenProperties
  <2> DEFINE before == [stream |-> Stream(w \o more), value |-> SubSeq(items, 1, i - 1)]
  <2>8. before.stream.good /\ before.stream.left = w \o more
    <3> HIDE DEF w, more
    <3>1. QED
      BY DEF Stream
  <2>9. ReadRecord(fields, eors, before) = [stream |-> Stream(more), value |-> Append(SubSeq(items, 1, i - 1), items[i])]
    <3>1. items[i] \in Items(fields)
      BY <1>2 DEF n
    <3> HIDE DEF more
    <3>2. \A item \in Items(fields), r \in Seq(Byte) : \A s :
            ReadRecord(fields, eors, [stream |-> Stream((WriteItem(fields, item) \o End(eors)) \o r), value |-> s])
              = [stream |-> Stream(r), value |-> Append(s, item)]
      BY RecordIsReadBack
    <3>3. QED
      BY <2>3, <3>1, <3>2, Zenon DEF w
  <2> HIDE DEF before, left, more
  <2>10. ~(~before.stream.good \/ Len(before.stream.left) <= left)
    BY <1>5, <2>6, <2>7, <2>8
  <2>11. ReadUpTo(left, fields, eors, before) = ReadRecord(fields, eors, before)
    BY <2>10, Zenon DEF ReadUpTo
  <2>12. Append(SubSeq(items, 1, i - 1), items[i]) = SubSeq(items, 1, i)
    BY <1>8 DEF n
  <2>13. at(i - 1) = before
    BY <2>5 DEF before
  <2>14. at(i) = [stream |-> Stream(more), value |-> SubSeq(items, 1, i)]
    BY DEF more
  <2> HIDE DEF at
  <2>15. QED
    BY <2>9, <2>11, <2>12, <2>13, <2>14, Zenon
<1>11. at(n) = ReadUpTo(left, fields, eors, at(n))
  <2> DEFINE final == [stream |-> Stream(rest), value |-> items]
  <2>1. final.stream.left = rest /\ final.stream.good
    BY DEF Stream
  <2>2. at(n) = final
    BY <1>9
  <2> HIDE DEF final, at, left
  <2>3. Len(final.stream.left) <= left
    BY <1>5, <2>1
  <2>4. ReadUpTo(left, fields, eors, final) = final
    BY <2>3, Zenon DEF ReadUpTo
  <2>5. QED
    BY <2>2, <2>4, Zenon
<1> HIDE DEF n, parts, flat, left, at, last
<1> DEFINE g == [i \in 0 .. last |-> IF i <= n THEN at(i) ELSE at(n)]
<1>12. /\ \A i \in 0 .. last : g[i] = IF i = 0 THEN [size EXCEPT !.value = <<>>] ELSE ReadUpTo(left, fields, eors, g[i - 1])
       /\ g[last] = at(n)
  <2>1. \A i \in 0 .. last : i = 0 \/ (i - 1 \in 0 .. last /\ (i <= n => i \in 1 .. n) /\ (i <= n => i - 1 <= n))
    BY <1>1, <1>6
  <2>2. g[0] = at(0)
    BY <1>1, <1>6
  <2>3. ASSUME NEW i \in 0 .. last, i # 0 PROVE g[i] = ReadUpTo(left, fields, eors, g[i - 1])
    <3>1. CASE i <= n
      BY <1>10, <2>1, <2>3, <3>1
    <3>2. CASE i > n /\ i - 1 <= n
      <4>1. i - 1 = n
        BY <1>1, <3>2
      <4>2. g[i - 1] = at(n) /\ g[i] = at(n)
        BY <1>1, <2>1, <2>3, <3>2, <4>1
      <4>3. QED
        BY <1>11, <4>2
    <3>3. CASE i > n /\ i - 1 > n
      <4>1. ~(i <= n) /\ ~(i - 1 <= n)
        BY <1>1, <3>3
      <4>2. g[i - 1] = at(n) /\ g[i] = at(n)
        BY <2>1, <2>3, <4>1
      <4>3. QED
        BY <1>11, <4>2
    <3>4. QED
      BY <1>1, <3>1, <3>2, <3>3
  <2>4. g[last] = at(n)
    <3>1. last \in 0 .. last /\ (last <= n => last = n)
      BY <1>1, <1>6
    <3>2. QED
      BY <3>1
  <2>5. [size EXCEPT !.value = <<>>] = at(0)
    BY <1>7, <1>9
  <2> HIDE DEF g, size
  <2>6. QED
    BY <2>2, <2>3, <2>4, <2>5
<1> HIDE DEF size
<1>13. ReadingRecords(fields, eors, size, left, g)
  <2>1. g = [i \in 0 .. last |-> g[i]]
    OBVIOUS
  <2> HIDE DEF g
  <2>2. g = [i \in 0 .. last |-> IF i = 0 THEN [size EXCEPT !.value = <<>>] ELSE ReadUpTo(left, fields, eors, g[i - 1])]
    BY <1>12, <2>1
  <2>3. last = size.value \div 4
    BY <1>4 DEF last
  <2>4. QED
    BY <2>2, <2>3 DEF ReadingRecords
<1> DEFINE read[i \in 0 .. size.value \div 4] ==
             IF i = 0 THEN [size EXCEPT !.value = <<>>] ELSE ReadUpTo(left, fields, eors, read[i - 1])
<1>14. read = CHOOSE f : ReadingRecords(fields, eors, size, left, f)
  BY DEF ReadingRecords
<1>15. ReadRecords(fields, eors, size)
         = IF size.stream.good /\ size.value >= 0 /\ size.value % alignment = 0
           THEN Whole(read[size.value \div 4], left)
           ELSE [stream |-> Failed, value |-> <<>>]
  BY DEF ReadRecords, left
<1> HIDE DEF read
<1>16. ReadingRecords(fields, eors, size, left, read)
  BY <1>13, <1>14
<1>17. last = size.value \div 4
  BY <1>4 DEF last
<1>18. \A i \in 0 .. last : read[i] = IF i = 0 THEN [size EXCEPT !.value = <<>>] ELSE ReadUpTo(left, fields, eors, read[i - 1])
  BY <1>16, <1>17 DEF ReadingRecords
<1> HIDE DEF g
<1> DEFINE T == {k \in Nat : k <= last => read[k] = g[k]}
<1>19. 0 \in T
  BY <1>6, <1>12, <1>18
<1>20. ASSUME NEW k \in T PROVE k + 1 \in T
  <2>1. k + 1 <= last => k + 1 \in 0 .. last /\ k + 1 # 0 /\ (k + 1) - 1 = k /\ k <= last
    BY <1>6
  <2>2. QED
    BY <1>12, <1>18, <2>1
<1>21. read[last] = at(n)
  <2>1. T = Nat
    BY <1>19, <1>20, SetInduction
  <2>2. last \in T
    BY <1>6, <2>1, Zenon
  <2>3. last <= last
    BY <1>6
  <2>4. QED
    BY <1>12, <2>2, <2>3, Zenon
<1>22. Whole(at(n), left) = [stream |-> Stream(rest), value |-> items]
  <2> DEFINE final == [stream |-> Stream(rest), value |-> items]
  <2>1. final.stream.left = rest /\ final.stream.good
    BY DEF Stream
  <2> HIDE DEF final
  <2>2. Whole(final, left) = final
    BY <1>5, <2>1, Zenon DEF Whole
  <2>3. QED
    BY <1>9, <2>2 DEF final
<1>23. size.stream.good /\ size.value >= 0 /\ size.value % alignment = 0
  BY <1>1, <1>4 DEF alignment
<1>24. ReadRecords(fields, eors, size) = [stream |-> Stream(rest), value |-> items]
  BY <1>15, <1>17, <1>21, <1>22, <1>23, Zenon
<1>25. QED
  BY <1>24 DEF size, flat, parts

-----------------------------------------------------------------------------
(* Commands.                                                                  *)

Types == {"wrp", "wre", "rdp", "rde", "rds"}

\* An RDE is read as the command that has the same records.
LEMMA Tables ==
  /\ DOMAIN Mark = Types
  /\ \A t \in Types :
       /\ Mark[t] \in Seq(Byte) /\ Len(Mark[t]) = 4
       /\ \A u \in Types : Mark[u] = Mark[t] => u = t
       /\ Fields[t] \in Seq(Kinds) /\ Fields[t] # <<>> /\ UseEors[t] \in BOOLEAN
       /\ Fields[Made[t]] = Fields[t] /\ UseEors[Made[t]] = UseEors[t]
<1>1. /\ DOMAIN Mark = Types
      /\ Mark["wrp"] = <<87, 82, 80, 0>> /\ Mark["wre"] = <<87, 82, 69, 0>>
      /\ Mark["rdp"] = <<82, 68, 80, 0>> /\ Mark["rde"] = <<82, 68, 69, 0>>
      /\ Mark["rds"] = <<82, 68, 83, 0>>
  BY DEF Mark, Types
<1>2. /\ Fields["wrp"] = sample_t /\ Fields["wre"] = event_t
      /\ Fields["rdp"] = channel_t /\ Fields["rde"] = channel_t /\ Fields["rds"] = vstring_t
  BY DEF Fields
<1>3. /\ UseEors["wrp"] = TRUE /\ UseEors["wre"] = TRUE
      /\ UseEors["rdp"] = FALSE /\ UseEors["rde"] = FALSE /\ UseEors["rds"] = TRUE
  BY DEF UseEors
<1>4. /\ Made["wrp"] = "wrp" /\ Made["wre"] = "wre"
      /\ Made["rdp"] = "rdp" /\ Made["rde"] = "rdp" /\ Made["rds"] = "rds"
  BY DEF Made
<1>5. /\ sample_t \in Seq(Kinds) /\ sample_t # <<>> /\ event_t \in Seq(Kinds) /\ event_t # <<>>
      /\ channel_t \in Seq(Kinds) /\ channel_t # <<>> /\ vstring_t \in Seq(Kinds) /\ vstring_t # <<>>
  BY DEF sample_t, event_t, channel_t, vstring_t, Kinds
<1>6. \A t \in Types : Mark[t] \in Seq(Byte) /\ Len(Mark[t]) = 4
  <2>1. \A i, j, k \in Byte : <<i, j, k, 0>> \in Seq(Byte) /\ Len(<<i, j, k, 0>>) = 4
    BY DEF Byte
  <2>2. /\ 87 \in Byte /\ 82 \in Byte /\ 80 \in Byte /\ 69 \in Byte /\ 68 \in Byte /\ 83 \in Byte
    BY DEF Byte
  <2>3. Mark["wrp"] \in Seq(Byte) /\ Len(Mark["wrp"]) = 4
    BY <1>1, <2>1, <2>2, SMT
  <2>4. Mark["wre"] \in Seq(Byte) /\ Len(Mark["wre"]) = 4
    BY <1>1, <2>1, <2>2, SMT
  <2>5. Mark["rdp"] \in Seq(Byte) /\ Len(Mark["rdp"]) = 4
    BY <1>1, <2>1, <2>2, SMT
  <2>6. Mark["rde"] \in Seq(Byte) /\ Len(Mark["rde"]) = 4
    BY <1>1, <2>1, <2>2, SMT
  <2>7. Mark["rds"] \in Seq(Byte) /\ Len(Mark["rds"]) = 4
    BY <1>1, <2>1, <2>2, SMT
  <2>8. QED
    BY <2>3, <2>4, <2>5, <2>6, <2>7 DEF Types
<1>7. \A t, u \in Types : Mark[u] = Mark[t] => u = t
  BY <1>1 DEF Types
<1>8. \A t \in Types : /\ Fields[t] \in Seq(Kinds) /\ Fields[t] # <<>> /\ UseEors[t] \in BOOLEAN
                       /\ Fields[Made[t]] = Fields[t] /\ UseEors[Made[t]] = UseEors[t]
  BY <1>2, <1>3, <1>4, <1>5 DEF Types
<1>9. QED
  BY <1>1, <1>6, <1>7, <1>8

\* The commands that can be sent: of a known type, with items of its records, and no
\* larger than an int holds.
Sent ==
  {cmd \in [type : Types, items : UNION {Seq(Items(Fields[t])) : t \in Types}] :
     /\ cmd.items \in Seq(Items(Fields[cmd.type]))
     /\ Len(FlattenSeq(Written(Fields[cmd.type], UseEors[cmd.type], cmd.items))) \in Int32}

\* A packet of records is read back, and nothing behind it is touched.
LEMMA PacketIsReadBack ==
  ASSUME NEW fields \in Seq(Kinds), fields # <<>>, NEW eors \in BOOLEAN,
         NEW items \in Seq(Items(fields)), NEW rest \in Seq(Byte),
         Len(FlattenSeq(Written(fields, eors, items))) \in Int32
  PROVE  /\ write_packet(fields, items, eors) \in Seq(Byte)
         /\ read_packet(fields, eors, Stream(write_packet(fields, items, eors) \o rest))
              = [stream |-> Stream(rest), value |-> items]
<1> DEFINE flat == FlattenSeq(Written(fields, eors, items))
           size == Len(flat)
           w == WriteInt(size)
           packet == write_packet(fields, items, eors)
<1>1. packet = w \o flat /\ Written(fields, eors, items) \in Seq(Seq(Byte))
  BY WrittenRecords
<1>2. flat \in Seq(Byte)
  BY <1>1, Splitting
<1>3. ReadRecords(fields, eors, [stream |-> Stream(flat \o rest), value |-> size])
        = [stream |-> Stream(rest), value |-> items]
  BY RecordsAreReadBack
<1>4. size \in Int32
  OBVIOUS
<1> HIDE DEF flat, packet, size
<1>5. w \in Seq(Byte)
  BY <1>4, IntIsReadBack
<1> HIDE DEF w
<1>6. packet \in Seq(Byte) /\ flat \o rest \in Seq(Byte)
  BY <1>1, <1>2, <1>5, ConcatProperties
<1>7. packet \o rest = w \o (flat \o rest)
  BY <1>1, <1>2, <1>5, Associative
<1>8. ReadInt(Stream(w \o (flat \o rest))) = [stream |-> Stream(flat \o rest), value |-> size]
  <2>1. \A i \in Int32, r \in Seq(Byte) :
          ReadInt(Stream(WriteInt(i) \o r)) = [stream |-> Stream(r), value |-> i]
    BY IntFieldIsReadBack
  <2>2. QED
    BY <1>4, <1>6, <2>1 DEF w
<1>9. read_packet(fields, eors, Stream(packet \o rest)) = [stream |-> Stream(rest), value |-> items]
  BY <1>3, <1>7, <1>8, Zenon DEF read_packet
<1>10. QED
  BY <1>6, <1>9 DEF packet

\* The mark tells which command it is.
LEMMA KnownMark ==
  ASSUME NEW t \in Types, NEW rest \in Seq(Byte)
  PROVE  bin_read(Stream(Mark[t] \o rest)) = ReadCommand(Made[t], Stream(rest))
<1> DEFINE mark == Mark[t]
           stream == Stream(mark \o rest)
<1>1. DOMAIN Mark = Types /\ mark \in Seq(Byte) /\ Len(mark) = 4 /\ \A u \in Types : Mark[u] = mark => u = t
  BY Tables
<1> HIDE DEF mark
<1>2. /\ Skip(stream, 4) = Stream(rest) /\ Expect(mark, stream) = Stream(rest)
      /\ \A other : other # mark => Expect(other, stream) = Failed
  BY <1>1, MarkIsExpected
<1> HIDE DEF stream
<1>3. {u \in DOMAIN Mark : Expect(Mark[u], stream).good} = {t}
  <2>1. Stream(rest).good /\ ~Failed.good
    BY DEF Stream, Failed
  <2>2. \A u \in Types : Expect(Mark[u], stream).good <=> u = t
    <3>1. \A u \in Types : u = t => Mark[u] = mark
      BY DEF mark
    <3>2. \A u \in Types : u # t => Mark[u] # mark
      BY <1>1
    <3>3. QED
      BY <1>2, <2>1, <3>1, <3>2, Zenon
  <2>3. QED
    BY <1>1, <2>2
<1>4. bin_read(stream) = ReadCommand(Made[t], Skip(stream, 4))
  <2>1. (CHOOSE u \in {t} : TRUE) = t /\ {t} # {}
    OBVIOUS
  <2>2. QED
    BY <1>3, <2>1, Zenon DEF bin_read
<1>5. QED
  BY <1>2, <1>4 DEF stream, mark

\* A command that is sent is read as it was, whatever its records are and whatever
\* follows it, and the next one is read from where it starts (bin_write and bin_read).
THEOREM CommandIsReadBack ==
  ASSUME NEW cmd \in Sent, NEW rest \in Seq(Byte)
  PROVE  bin_read(Stream(bin_write(cmd) \o rest))
           = [stream |-> Stream(rest), cmd |-> [type |-> Made[cmd.type], items |-> cmd.items]]
<1> DEFINE t == cmd.type
           mark == Mark[t]
           packet == write_packet(Fields[t], cmd.items, UseEors[t])
           behind == eoc \o rest
           stream == Stream(mark \o (packet \o behind))
<1>1. /\ t \in Types /\ cmd.items \in Seq(Items(Fields[t]))
      /\ Len(FlattenSeq(Written(Fields[t], UseEors[t], cmd.items))) \in Int32
  BY DEF Sent
<1>2. /\ DOMAIN Mark = Types /\ mark \in Seq(Byte) /\ Len(mark) = 4
      /\ \A u \in Types : Mark[u] = mark => u = t
      /\ Fields[t] \in Seq(Kinds) /\ Fields[t] # <<>> /\ UseEors[t] \in BOOLEAN
      /\ Fields[Made[t]] = Fields[t] /\ UseEors[Made[t]] = UseEors[t]
  BY <1>1, Tables
<1>3. eoc \in Seq(Byte) /\ Len(eoc) = 4 /\ behind \in Seq(Byte)
  BY Marks, ConcatProperties
<1>4. /\ packet \in Seq(Byte)
      /\ read_packet(Fields[t], UseEors[t], Stream(packet \o behind))
           = [stream |-> Stream(behind), value |-> cmd.items]
  <2> HIDE DEF behind
  <2>1. QED
    BY <1>1, <1>2, <1>3, PacketIsReadBack
<1>5. bin_write(cmd) = (mark \o packet) \o eoc
  BY DEF bin_write
<1> HIDE DEF t, mark, packet
<1>6. bin_write(cmd) \o rest = mark \o (packet \o behind)
  <2>1. mark \o packet \in Seq(Byte)
    BY <1>2, <1>4, ConcatProperties
  <2>2. ((mark \o packet) \o eoc) \o rest = (mark \o packet) \o behind
    <3> DEFINE a == mark \o packet
    <3>1. a \in Seq(Byte) /\ eoc \in Seq(Byte)
      BY <1>3, <2>1
    <3> HIDE DEF a
    <3>2. (a \o eoc) \o rest = a \o (eoc \o rest)
      BY <3>1, Associative
    <3>3. QED
      BY <3>2 DEF a
  <2> HIDE DEF behind
  <2>3. (mark \o packet) \o behind = mark \o (packet \o behind)
    BY <1>2, <1>3, <1>4, Associative
  <2>4. QED
    BY <1>5, <2>2, <2>3
<1>7. packet \o behind \in Seq(Byte)
  BY <1>3, <1>4, ConcatProperties
<1>8. bin_read(stream) = ReadCommand(Made[t], Stream(packet \o behind))
  <2>1. t \in Types
    BY <1>1 DEF t
  <2> HIDE DEF behind
  <2>2. QED
    BY <1>7, <2>1, KnownMark DEF mark
<1>9. Expect(eoc, Stream(behind)) = Stream(rest)
  BY <1>3, MarkIsExpected
<1> HIDE DEF behind, stream
<1>10. ReadCommand(Made[t], Stream(packet \o behind)) = Ended(Made[t], [stream |-> Stream(behind), value |-> cmd.items])
  BY <1>2, <1>4, Zenon DEF ReadCommand
<1>11. Ended(Made[t], [stream |-> Stream(behind), value |-> cmd.items])
         = [stream |-> Stream(rest), cmd |-> [type |-> Made[t], items |-> cmd.items]]
  BY <1>9 DEF Ended
<1>12. QED
  BY <1>6, <1>8, <1>10, <1>11 DEF stream, t

\* A command is sent as bytes.
LEMMA SentIsBytes ==
  ASSUME NEW cmd \in Sent
  PROVE  bin_write(cmd) \in Seq(Byte)
<1> DEFINE t == cmd.type
           packet == write_packet(Fields[t], cmd.items, UseEors[t])
<1>1. /\ t \in Types /\ cmd.items \in Seq(Items(Fields[t]))
      /\ Len(FlattenSeq(Written(Fields[t], UseEors[t], cmd.items))) \in Int32
  BY DEF Sent
<1>2. /\ Mark[t] \in Seq(Byte) /\ Fields[t] \in Seq(Kinds) /\ Fields[t] # <<>> /\ UseEors[t] \in BOOLEAN
  BY <1>1, Tables
<1>3. packet \in Seq(Byte) /\ eoc \in Seq(Byte)
  <2>1. <<>> \in Seq(Byte)
    BY EmptySeq
  <2>2. packet \in Seq(Byte)
    BY <1>1, <1>2, <2>1, PacketIsReadBack
  <2>3. QED
    BY <2>2, Marks
<1>4. bin_write(cmd) = (Mark[t] \o packet) \o eoc
  BY DEF bin_write
<1> HIDE DEF t, packet
<1>5. QED
  BY <1>2, <1>3, <1>4, ConcatProperties

-----------------------------------------------------------------------------
(* Commands that are cut off. A read of whatever bytes there are leaves a     *)
(* stream, which holds no less than nothing; the size of a packet tells that  *)
(* this is too much.                                                          *)

Streams == [good : BOOLEAN, left : Seq(Byte)]

\* Whatever the number of bytes, reading them leaves a stream.
LEMMA SkipLeavesStream ==
  ASSUME NEW stream \in Streams, NEW n \in Int
  PROVE  /\ Skip(stream, n) \in Streams
         /\ ReadBytes(stream, n) \in [stream : Streams, value : Seq(Byte)]
         /\ ReadBytes(stream, n).stream.good => n >= 0 /\ Len(ReadBytes(stream, n).value) = n
<1> DEFINE left == stream.left
           l == Len(left)
<1>1. stream.good \in BOOLEAN /\ left \in Seq(Byte) /\ stream = [good |-> stream.good, left |-> left]
  BY DEF Streams
<1>2. l \in Nat /\ \A i \in 1 .. l : left[i] \in Byte
  BY <1>1, LenProperties, ElementOfSeq
<1>3. Failed \in Streams /\ <<>> \in Seq(Byte) /\ Failed.good = FALSE
  BY EmptySeq DEF Failed, Streams
<1>4. CASE stream.good /\ n >= 0 /\ l >= n
  <2>1. /\ SubSeq(left, n + 1, l) \in Seq(Byte)
        /\ SubSeq(left, 1, n) \in Seq(Byte) /\ Len(SubSeq(left, 1, n)) = n
    <3> HIDE DEF left, l
    <3>1. n + 1 \in Int /\ l \in Int /\ 1 \in Int /\ (\A i \in n + 1 .. l : left[i] \in Byte) /\ (\A i \in 1 .. n : left[i] \in Byte)
      BY <1>2, <1>4
    <3>2. SubSeq(left, n + 1, l) \in Seq(Byte)
      BY <3>1, SubSeqProperties
    <3>3. /\ SubSeq(left, 1, n) \in Seq(Byte)
          /\ Len(SubSeq(left, 1, n)) = IF 1 <= n THEN n - 1 + 1 ELSE 0
      BY <3>1, SubSeqProperties
    <3>4. QED
      BY <1>4, <3>2, <3>3
  <2>2. Skip(stream, n) = [stream EXCEPT !.left = SubSeq(@, n + 1, Len(@))]
    BY <1>4 DEF Skip
  <2>3. Skip(stream, n) = [good |-> TRUE, left |-> SubSeq(left, n + 1, l)]
    <3>1. stream = [good |-> TRUE, left |-> left]
      BY <1>1, <1>4
    <3> HIDE DEF left
    <3>2. \A g, y, x : [[good |-> g, left |-> y] EXCEPT !.left = x] = [good |-> g, left |-> x]
      OBVIOUS
    <3>3. Skip(stream, n) = [stream EXCEPT !.left = SubSeq(left, n + 1, l)]
      BY <2>2, Zenon DEF left, l
    <3>4. QED
      BY <3>1, <3>2, <3>3, Zenon
  <2> DEFINE after == Skip(stream, n)
  <2>4. after \in Streams /\ after.good
    <3> HIDE DEF left, l
    <3>1. QED
      BY <2>1, <2>3 DEF Streams
  <2>5. ReadBytes(stream, n) = [stream |-> after, value |-> SubSeq(left, 1, n)]
    BY <2>4 DEF ReadBytes
  <2> HIDE DEF left, l, after
  <2>6. ReadBytes(stream, n).stream = after /\ ReadBytes(stream, n).value = SubSeq(left, 1, n)
    BY <2>5
  <2>7. QED
    BY <1>4, <2>1, <2>4, <2>5, <2>6 DEF after
<1>5. CASE ~(stream.good /\ n >= 0 /\ l >= n)
  <2>1. Skip(stream, n) = Failed
    BY <1>5 DEF Skip
  <2>2. ReadBytes(stream, n) = [stream |-> Failed, value |-> <<>>]
    BY <1>3, <2>1 DEF ReadBytes
  <2> HIDE DEF left, l
  <2>3. QED
    BY <1>3, <2>1, <2>2
<1>6. QED
  BY <1>4, <1>5

\* Reading a mark leaves a stream.
LEMMA MarkLeavesStream ==
  ASSUME NEW stream \in Streams, NEW mark
  PROVE  Expect(mark, stream) \in Streams
<1>1. Skip(stream, 4) \in Streams /\ Failed \in Streams
  <2>1. \A n \in Int : Skip(stream, n) \in Streams
    BY SkipLeavesStream
  <2>2. 4 \in Int /\ Failed \in Streams
    BY EmptySeq DEF Failed, Streams
  <2>3. QED
    BY <2>1, <2>2
<1>2. QED
  BY <1>1, Zenon DEF Expect

\* Reading a field leaves a stream.
LEMMA FieldLeavesStream ==
  ASSUME NEW kind \in Kinds, NEW stream \in Streams
  PROVE  ReadField(kind, stream).stream \in Streams
<1>1. ReadInt(stream).stream \in Streams /\ ReadInt(stream).value \in Int
  <2> DEFINE read == ReadBytes(stream, 4)
             v == IF read.stream.good THEN IntAt(read.value) ELSE -1
  <2>1. /\ read \in [stream : Streams, value : Seq(Byte)]
        /\ read.stream.good => Len(read.value) = 4
    <3>1. \A n \in Int : /\ ReadBytes(stream, n) \in [stream : Streams, value : Seq(Byte)]
                         /\ ReadBytes(stream, n).stream.good => Len(ReadBytes(stream, n).value) = n
      BY SkipLeavesStream
    <3>2. 4 \in Int
      OBVIOUS
    <3>3. QED
      BY <3>1, <3>2
  <2>2. ReadInt(stream) = [read EXCEPT !.value = v]
    BY DEF ReadInt, AsInt
  <2>3. read.stream.good => IntAt(read.value) \in Int
    <3>1. SUFFICES ASSUME read.stream.good PROVE IntAt(read.value) \in Int
      OBVIOUS
    <3> DEFINE b == read.value
    <3>2. b \in Seq(Byte) /\ Len(b) = 4
      BY <2>1, <3>1
    <3> HIDE DEF b
    <3>3. b[1] \in Byte /\ b[2] \in Byte /\ b[3] \in Byte /\ b[4] \in Byte
      <4>1. 1 \in 1 .. 4 /\ 2 \in 1 .. 4 /\ 3 \in 1 .. 4 /\ 4 \in 1 .. 4
        OBVIOUS
      <4>2. \A i \in 1 .. 4 : b[i] \in Byte
        BY <3>2, ElementOfSeq
      <4>3. QED
        BY <4>1, <4>2, Zenon
    <3>4. 256 ^ 3 \in Int /\ 256 ^ 2 \in Int
      BY SMT
    <3>5. IntAt(b) \in Int
      <4> DEFINE p == b[1]
                 q == b[2]
                 r == b[3]
                 t == b[4]
                 top == IF p >= 128 THEN p - 256 ELSE p
      <4>1. p \in Int /\ q \in Int /\ r \in Int /\ t \in Int
        BY <3>3, SMT DEF Byte
      <4>2. IntAt(b) = top * (256 ^ 3) + q * (256 ^ 2) + r * 256 + t
        BY Zenon DEF IntAt
      <4> HIDE DEF p, q, r, t
      <4>3. top \in Int
        BY <4>1, SMT
      <4> HIDE DEF top
      <4>4. QED
        BY <3>4, <4>1, <4>2, <4>3, SMT
    <3>6. QED
      BY <3>5 DEF b
  <2> HIDE DEF read
  <2>4. v \in Int
    BY <2>3
  <2> HIDE DEF v
  <2>5. \A s, y, x : [[stream |-> s, value |-> y] EXCEPT !.value = x] = [stream |-> s, value |-> x]
    OBVIOUS
  <2>6. read = [stream |-> read.stream, value |-> read.value] /\ read.stream \in Streams
    BY <2>1
  <2>7. ReadInt(stream) = [stream |-> read.stream, value |-> v]
    BY <2>2, <2>5, <2>6, Zenon
  <2>8. QED
    BY <2>4, <2>6, <2>7
<1>2. ReadText(ReadInt(stream)).stream \in Streams
  <2> DEFINE length == ReadInt(stream)
             read == ReadBytes(length.stream, length.value)
  <2>1. read \in [stream : Streams, value : Seq(Byte)]
    <3> HIDE DEF length
    <3>1. QED
      BY <1>1, SkipLeavesStream DEF length
  <2>2. ReadText(length) = [read EXCEPT !.value = Unpadded(read.value)]
    BY DEF ReadText
  <2> HIDE DEF read, length
  <2>3. \A s, y, x : [[stream |-> s, value |-> y] EXCEPT !.value = x] = [stream |-> s, value |-> x]
    OBVIOUS
  <2>4. read = [stream |-> read.stream, value |-> read.value] /\ read.stream \in Streams
    BY <2>1
  <2>5. ReadText(length) = [stream |-> read.stream, value |-> Unpadded(read.value)]
    BY <2>2, <2>3, <2>4, Zenon
  <2>6. ReadText(length).stream \in Streams
    BY <2>4, <2>5
  <2>7. QED
    BY <2>6 DEF length
<1>3. ReadBytes(stream, date_t).stream \in Streams
  BY SkipLeavesStream DEF date_t
<1>4. CASE kind = "int"
  BY <1>1, <1>4 DEF ReadField
<1>5. CASE kind = "date"
  BY <1>3, <1>5 DEF ReadField
<1>6. CASE kind = "text"
  BY <1>2, <1>6 DEF ReadField
<1>7. QED
  BY <1>4, <1>5, <1>6 DEF Kinds

\* ReadItem's equation has a solution.
LEMMA ReadingItemExists ==
  ASSUME NEW fields, NEW stream, Len(fields) \in Nat
  PROVE  \E f : ReadingItem(fields, stream, f)
<1> DEFINE first == [stream |-> stream, value |-> <<>>]
           Step(f, i) == IF i = 0 THEN first ELSE ReadNext(fields[i], f[i - 1])
           Upto(k) == \E f : f = [i \in 0 .. k |-> Step(f, i)]
           T == {k \in Nat : Upto(k)}
<1> HIDE DEF first
<1>1. 0 \in T
  <2> DEFINE f == [i \in 0 .. 0 |-> first]
  <2>1. \A i \in 0 .. 0 : Step(f, i) = first
    OBVIOUS
  <2> HIDE DEF Step
  <2>2. f = [i \in 0 .. 0 |-> Step(f, i)]
    BY <2>1
  <2> HIDE DEF f
  <2>3. QED
    BY <2>2
<1>2. ASSUME NEW k \in T PROVE k + 1 \in T
  <2>1. PICK f : f = [i \in 0 .. k |-> Step(f, i)]
    OBVIOUS
  <2> DEFINE g == [i \in 0 .. k + 1 |-> IF i <= k THEN f[i] ELSE Step(f, i)]
  <2>2. ASSUME NEW i \in 0 .. k + 1 PROVE g[i] = Step(g, i)
    <3>1. i = 0 \/ (i - 1 \in 0 .. k /\ g[i - 1] = f[i - 1])
      OBVIOUS
    <3>2. Step(g, i) = Step(f, i)
      BY <3>1
    <3>3. g[i] = IF i <= k THEN f[i] ELSE Step(f, i)
      OBVIOUS
    <3>4. i <= k => f[i] = Step(f, i)
      <4>1. i <= k => i \in 0 .. k
        OBVIOUS
      <4> HIDE DEF Step
      <4>2. QED
        BY <2>1, <4>1
    <3>5. QED
      BY <3>2, <3>3, <3>4
  <2>3. g = [i \in 0 .. k + 1 |-> g[i]]
    OBVIOUS
  <2> HIDE DEF g, Step
  <2>4. g = [i \in 0 .. k + 1 |-> Step(g, i)]
    BY <2>2, <2>3
  <2>5. Upto(k + 1) /\ k + 1 \in Nat
    BY <2>4
  <2>6. QED
    BY <2>5
<1>3. T = Nat
  <2> HIDE DEF Upto
  <2>1. QED
    BY <1>1, <1>2, SetInduction
<1>4. QED
  BY <1>3 DEF ReadingItem, first

\* Reading an item leaves a stream.
LEMMA ItemLeavesStream ==
  ASSUME NEW fields \in Seq(Kinds), NEW stream \in Streams
  PROVE  ReadItem(fields, stream).stream \in Streams
<1> DEFINE n == Len(fields)
<1>1. n \in Nat /\ \A i \in 1 .. n : fields[i] \in Kinds
  BY LenProperties, ElementOfSeq
<1> DEFINE read[i \in 0 .. Len(fields)] ==
             IF i = 0 THEN [stream |-> stream, value |-> <<>>] ELSE ReadNext(fields[i], read[i - 1])
<1>2. read = CHOOSE f : ReadingItem(fields, stream, f)
  BY DEF ReadingItem
<1>3. ReadItem(fields, stream) = read[Len(fields)]
  BY DEF ReadItem
<1> HIDE DEF read
<1>4. ReadingItem(fields, stream, read)
  BY <1>1, <1>2, ReadingItemExists
<1>5. \A i \in 0 .. n : read[i] = IF i = 0 THEN [stream |-> stream, value |-> <<>>] ELSE ReadNext(fields[i], read[i - 1])
  BY <1>4 DEF ReadingItem
<1> HIDE DEF n
<1> DEFINE T == {k \in Nat : k <= n => read[k].stream \in Streams}
<1>6. 0 \in T
  BY <1>1, <1>5
<1>7. ASSUME NEW k \in T PROVE k + 1 \in T
  <2>1. SUFFICES ASSUME k + 1 <= n PROVE read[k + 1].stream \in Streams
    OBVIOUS
  <2>2. k + 1 \in 0 .. n /\ k + 1 \in 1 .. n /\ k + 1 # 0 /\ (k + 1) - 1 = k /\ k <= n
    BY <1>1, <2>1
  <2>3. read[k + 1] = ReadNext(fields[k + 1], read[k])
    BY <1>5, <2>2
  <2>4. read[k].stream \in Streams
    BY <2>2
  <2>5. ReadNext(fields[k + 1], read[k]).stream = ReadField(fields[k + 1], read[k].stream).stream
    BY DEF ReadNext, AddTo
  <2>6. ReadField(fields[k + 1], read[k].stream).stream \in Streams
    BY <1>1, <2>2, <2>4, FieldLeavesStream
  <2>7. QED
    BY <2>3, <2>5, <2>6
<1>8. read[n].stream \in Streams
  <2>1. T = Nat
    BY <1>6, <1>7, SetInduction
  <2>2. n \in T
    BY <1>1, <2>1, Zenon
  <2>3. n <= n
    BY <1>1
  <2>4. QED
    BY <2>2, <2>3, Zenon
<1>9. QED
  BY <1>3, <1>8 DEF n

\* Reading a record leaves a stream.
LEMMA RecordLeavesStream ==
  ASSUME NEW fields \in Seq(Kinds), NEW eors \in BOOLEAN, NEW left, NEW read, read.stream \in Streams
  PROVE  ReadUpTo(left, fields, eors, read).stream \in Streams
<1> DEFINE next == AddTo(read, ReadItem(fields, read.stream))
<1>1. next.stream \in Streams
  <2>1. next.stream = ReadItem(fields, read.stream).stream
    BY DEF AddTo
  <2> HIDE DEF next
  <2>2. QED
    BY <2>1, ItemLeavesStream
<1> DEFINE s == next.stream
           v == next.value
           marked == Expect(eor, s)
<1>2. next = [stream |-> s, value |-> v]
  BY DEF AddTo
<1>3. ReadRecord(fields, eors, read) = IF eors THEN [next EXCEPT !.stream = marked] ELSE next
  BY DEF ReadRecord
<1> HIDE DEF next, s, v
<1>4. marked \in Streams
  BY <1>1, MarkLeavesStream DEF s
<1> HIDE DEF marked
<1>5. \A q, r, x : [[stream |-> q, value |-> r] EXCEPT !.stream = x] = [stream |-> x, value |-> r]
  OBVIOUS
<1>6. [next EXCEPT !.stream = marked] = [stream |-> marked, value |-> v]
  BY <1>2, <1>5, Zenon
<1>7. [stream |-> marked, value |-> v].stream \in Streams
  BY <1>4
<1>8. ReadRecord(fields, eors, read).stream \in Streams
  BY <1>1, <1>3, <1>6, <1>7, Zenon
<1>9. QED
  BY <1>8, Zenon DEF ReadUpTo

\* The equation of the reader of records has a solution.
LEMMA ReadingRecordsExists ==
  ASSUME NEW fields, NEW eors, NEW size, NEW left, size.value \div 4 \in Nat
  PROVE  \E f : ReadingRecords(fields, eors, size, left, f)
<1> DEFINE first == [size EXCEPT !.value = <<>>]
           Step(f, i) == IF i = 0 THEN first ELSE ReadUpTo(left, fields, eors, f[i - 1])
           Upto(k) == \E f : f = [i \in 0 .. k |-> Step(f, i)]
           T == {k \in Nat : Upto(k)}
<1> HIDE DEF first
<1>1. 0 \in T
  <2> DEFINE f == [i \in 0 .. 0 |-> first]
  <2>1. \A i \in 0 .. 0 : Step(f, i) = first
    OBVIOUS
  <2> HIDE DEF Step
  <2>2. f = [i \in 0 .. 0 |-> Step(f, i)]
    BY <2>1
  <2> HIDE DEF f
  <2>3. QED
    BY <2>2
<1>2. ASSUME NEW k \in T PROVE k + 1 \in T
  <2>1. PICK f : f = [i \in 0 .. k |-> Step(f, i)]
    OBVIOUS
  <2> DEFINE g == [i \in 0 .. k + 1 |-> IF i <= k THEN f[i] ELSE Step(f, i)]
  <2>2. ASSUME NEW i \in 0 .. k + 1 PROVE g[i] = Step(g, i)
    <3>1. i = 0 \/ (i - 1 \in 0 .. k /\ g[i - 1] = f[i - 1])
      OBVIOUS
    <3>2. Step(g, i) = Step(f, i)
      BY <3>1
    <3>3. g[i] = IF i <= k THEN f[i] ELSE Step(f, i)
      OBVIOUS
    <3>4. i <= k => f[i] = Step(f, i)
      <4>1. i <= k => i \in 0 .. k
        OBVIOUS
      <4> HIDE DEF Step
      <4>2. QED
        BY <2>1, <4>1
    <3>5. QED
      BY <3>2, <3>3, <3>4
  <2>3. g = [i \in 0 .. k + 1 |-> g[i]]
    OBVIOUS
  <2> HIDE DEF g, Step
  <2>4. g = [i \in 0 .. k + 1 |-> Step(g, i)]
    BY <2>2, <2>3
  <2>5. Upto(k + 1) /\ k + 1 \in Nat
    BY <2>4
  <2>6. QED
    BY <2>5
<1>3. T = Nat
  <2> HIDE DEF Upto
  <2>1. QED
    BY <1>1, <1>2, SetInduction
<1>4. QED
  BY <1>3 DEF ReadingRecords, first

\* A packet whose size is more than there is does not end where its size says.
LEMMA LargerThanTheRest ==
  ASSUME NEW fields \in Seq(Kinds), NEW eors \in BOOLEAN, NEW stream \in Streams, NEW n \in Nat,
         Len(stream.left) < n
  PROVE  ReadRecords(fields, eors, [stream |-> stream, value |-> n]).stream = Failed
<1> DEFINE size == [stream |-> stream, value |-> n]
           left == Len(size.stream.left) - size.value
           last == size.value \div 4
<1>1. size.stream = stream /\ size.value = n /\ last = n \div 4 /\ last \in Nat /\ left = Len(stream.left) - n
  OBVIOUS
<1>2. stream.left \in Seq(Byte)
  BY DEF Streams
<1>3. left < 0 /\ left \in Int
  BY <1>1, <1>2, LenProperties
<1>4. [size EXCEPT !.value = <<>>].stream \in Streams
  <2>1. \A s, v, x : [[stream |-> s, value |-> v] EXCEPT !.value = x] = [stream |-> s, value |-> x]
    OBVIOUS
  <2>2. [size EXCEPT !.value = <<>>] = [stream |-> stream, value |-> <<>>]
    BY <2>1, Zenon
  <2>3. QED
    BY <2>2
<1> DEFINE read[i \in 0 .. size.value \div 4] ==
             IF i = 0 THEN [size EXCEPT !.value = <<>>] ELSE ReadUpTo(left, fields, eors, read[i - 1])
<1>5. read = CHOOSE f : ReadingRecords(fields, eors, size, left, f)
  BY DEF ReadingRecords
<1>6. ReadRecords(fields, eors, size)
        = IF size.stream.good /\ size.value >= 0 /\ size.value % alignment = 0
          THEN Whole(read[size.value \div 4], left)
          ELSE [stream |-> Failed, value |-> <<>>]
  BY DEF ReadRecords
<1> HIDE DEF read, left, size, last
<1>7. ReadingRecords(fields, eors, size, left, read)
  <2>1. size.value \div 4 \in Nat
    BY <1>1
  <2>2. QED
    BY <1>5, <2>1, ReadingRecordsExists
<1>8. last = size.value \div 4
  BY <1>1
<1>9. \A i \in 0 .. last : read[i] = IF i = 0 THEN [size EXCEPT !.value = <<>>] ELSE ReadUpTo(left, fields, eors, read[i - 1])
  BY <1>7, <1>8 DEF ReadingRecords
<1> DEFINE T == {k \in Nat : k <= last => read[k].stream \in Streams}
<1>10. 0 \in T
  <2>1. read[0] = [size EXCEPT !.value = <<>>]
    <3>1. 0 \in 0 .. last
      BY <1>1
    <3>2. QED
      BY <1>9, <3>1, Zenon
  <2>2. read[0].stream \in Streams
    BY <1>4, <2>1, Zenon
  <2>3. QED
    BY <2>2
<1>11. ASSUME NEW k \in T PROVE k + 1 \in T
  <2>1. SUFFICES ASSUME k + 1 <= last PROVE read[k + 1].stream \in Streams
    OBVIOUS
  <2>2. k + 1 \in 0 .. last /\ k + 1 # 0 /\ (k + 1) - 1 = k /\ k <= last
    BY <1>1, <2>1
  <2>3. read[k + 1] = ReadUpTo(left, fields, eors, read[k])
    BY <1>9, <2>2
  <2>4. read[k].stream \in Streams
    BY <2>2
  <2>5. QED
    BY <2>3, <2>4, RecordLeavesStream
<1>12. read[last].stream \in Streams
  <2>1. T = Nat
    BY <1>10, <1>11, SetInduction
  <2>2. last \in T
    BY <1>1, <2>1, Zenon
  <2>3. last <= last
    BY <1>1
  <2>4. QED
    BY <2>2, <2>3, Zenon
<1>13. Len(read[last].stream.left) # left
  <2> DEFINE s == read[last].stream
  <2>1. s \in Streams
    BY <1>12
  <2> HIDE DEF s
  <2>2. s.left \in Seq(Byte)
    BY <2>1 DEF Streams
  <2>3. Len(s.left) \in Nat
    BY <2>2, LenProperties
  <2>4. Len(s.left) # left
    BY <1>3, <2>3
  <2>5. QED
    BY <2>4 DEF s
<1>14. Whole(read[last], left) = [stream |-> Failed, value |-> <<>>]
  BY <1>13, Zenon DEF Whole
<1>15. ReadRecords(fields, eors, size) = [stream |-> Failed, value |-> <<>>]
  BY <1>6, <1>8, <1>14, Zenon
<1>16. QED
  BY <1>15 DEF size

\* A prefix that reaches into the second part.
LEMMA PrefixOfConcat ==
  ASSUME NEW S, NEW a \in Seq(S), NEW b \in Seq(S), NEW m \in 0 .. Len(b)
  PROVE  /\ SubSeq(a \o b, 1, Len(a) + m) = a \o SubSeq(b, 1, m)
         /\ SubSeq(b, 1, m) \in Seq(S) /\ Len(SubSeq(b, 1, m)) = m
<1> DEFINE n == Len(b)
           p == SubSeq(b, 1, m)
           q == SubSeq(b, m + 1, n)
<1>1. n \in Nat /\ m \in Nat /\ m <= n /\ \A i \in 1 .. n : b[i] \in S
  BY LenProperties, ElementOfSeq
<1>2. p \in Seq(S) /\ q \in Seq(S) /\ Len(p) = m
  <2> HIDE DEF n
  <2>1. 1 \in Int /\ m \in Int /\ m + 1 \in Int /\ n \in Int
    BY <1>1
  <2>2. (\A i \in 1 .. m : b[i] \in S) /\ (\A i \in m + 1 .. n : b[i] \in S)
    BY <1>1
  <2>3. p \in Seq(S) /\ Len(p) = IF 1 <= m THEN m - 1 + 1 ELSE 0
    BY <2>1, <2>2, SubSeqProperties
  <2>4. q \in Seq(S)
    BY <2>1, <2>2, SubSeqProperties
  <2>5. QED
    BY <1>1, <2>3, <2>4
<1>3. b = p \o q
  <2>1. /\ 1 \in 1 .. n + 1 /\ m \in 1 - 1 .. n /\ n \in m .. n
    BY <1>1
  <2>2. p \o q = SubSeq(b, 1, n)
    BY <2>1, ConcatAdjacentSubSeq
  <2>3. SubSeq(b, 1, n) = b
    BY SubSeqFull
  <2>4. QED
    BY <2>2, <2>3
<1> HIDE DEF n, p, q
<1>4. (a \o p) \o q = a \o (p \o q) /\ a \o p \in Seq(S) /\ Len(a \o p) = Len(a) + m
  <2>1. (a \o p) \o q = a \o (p \o q)
    BY <1>2, ConcatAssociative
  <2>2. a \o p \in Seq(S) /\ Len(a \o p) = Len(a) + m
    BY <1>2, ConcatProperties
  <2>3. QED
    BY <2>1, <2>2
<1>5. SubSeq((a \o p) \o q, 1, Len(a \o p)) = a \o p
  <2>1. a \o p \in Seq(S)
    BY <1>4
  <2> DEFINE c == a \o p
  <2>2. c \in Seq(S)
    BY <2>1
  <2> HIDE DEF c
  <2>3. SubSeq(c \o q, 1, Len(c)) = c
    BY <1>2, <2>2, TakeAndDrop
  <2>4. QED
    BY <2>3 DEF c
<1>6. SubSeq(a \o b, 1, Len(a) + m) = a \o p
  BY <1>3, <1>4, <1>5
<1>7. QED
  BY <1>2, <1>6 DEF p

\* A command that ends before its end mark does, anywhere after its size, is refused:
\* the gateway makes nothing of a part of a record (bin_read on a connection that was
\* closed).
THEOREM CutCommandIsRefused ==
  ASSUME NEW cmd \in Sent, NEW length \in 8 .. Len(bin_write(cmd)) - 1
  PROVE  ~bin_read(Stream(SubSeq(bin_write(cmd), 1, length))).stream.good
<1> DEFINE t == cmd.type
           fields == Fields[t]
           eors == UseEors[t]
           parts == Written(fields, eors, cmd.items)
           flat == FlattenSeq(parts)
           n == Len(flat)
           w == WriteInt(n)
           head == Mark[t] \o w
           tail == flat \o eoc
           m == length - 8
           cut == SubSeq(tail, 1, m)
           read == ReadRecords(fields, eors, [stream |-> Stream(cut), value |-> n])
<1>1. t \in Types /\ cmd.items \in Seq(Items(fields)) /\ n \in Int32
  BY DEF Sent
<1>2. /\ Mark[t] \in Seq(Byte) /\ Len(Mark[t]) = 4
      /\ fields \in Seq(Kinds) /\ fields # <<>> /\ eors \in BOOLEAN
      /\ Fields[Made[t]] = fields /\ UseEors[Made[t]] = eors
  BY <1>1, Tables
<1>3. /\ parts \in Seq(Seq(Byte)) /\ n \in Nat
      /\ bin_write(cmd) = (Mark[t] \o (w \o flat)) \o eoc
  <2>1. bin_write(cmd) = (Mark[t] \o write_packet(fields, cmd.items, eors)) \o eoc
    BY DEF bin_write
  <2> HIDE DEF t, fields, eors
  <2>2. write_packet(fields, cmd.items, eors) = w \o flat /\ parts \in Seq(Seq(Byte)) /\ n \in Nat
    BY <1>1, <1>2, WrittenRecords
  <2>3. QED
    BY <2>1, <2>2
<1> HIDE DEF t, fields, eors, parts
<1>4. flat \in Seq(Byte) /\ eoc \in Seq(Byte) /\ Len(eoc) = 4
  BY <1>3, Splitting, Marks
<1>5. w \in Seq(Byte) /\ Len(w) = 4
  <2> HIDE DEF n
  <2>1. QED
    BY <1>1, IntIsReadBack
<1>6. tail \in Seq(Byte) /\ Len(tail) = n + 4 /\ head \in Seq(Byte) /\ Len(head) = 8
  <2> HIDE DEF w, flat
  <2>1. tail \in Seq(Byte) /\ Len(tail) = Len(flat) + Len(eoc)
    BY <1>4, ConcatProperties
  <2>2. head \in Seq(Byte) /\ Len(head) = Len(Mark[t]) + Len(w)
    BY <1>2, <1>5, ConcatProperties
  <2>3. QED
    BY <1>2, <1>4, <1>5, <2>1, <2>2
<1> HIDE DEF w, flat, n
<1>7. bin_write(cmd) = head \o tail /\ \A c \in Seq(Byte) : head \o c = Mark[t] \o (w \o c)
  <2> DEFINE a == Mark[t]
  <2>1. a \in Seq(Byte) /\ w \in Seq(Byte) /\ flat \in Seq(Byte) /\ eoc \in Seq(Byte)
    BY <1>2, <1>4, <1>5
  <2> HIDE DEF a
  <2>2. \A c \in Seq(Byte) : (a \o w) \o c = a \o (w \o c)
    BY <2>1, Associative
  <2>3. (a \o (w \o flat)) \o eoc = ((a \o w) \o flat) \o eoc
    BY <2>1, <2>2
  <2>4. ((a \o w) \o flat) \o eoc = (a \o w) \o (flat \o eoc)
    <3> DEFINE b == a \o w
    <3>1. b \in Seq(Byte)
      BY <2>1, ConcatProperties
    <3> HIDE DEF b
    <3>2. (b \o flat) \o eoc = b \o (flat \o eoc)
      BY <2>1, <3>1, Associative
    <3>3. QED
      BY <3>2 DEF b
  <2>5. QED
    BY <1>3, <2>2, <2>3, <2>4 DEF a
<1> HIDE DEF head, tail
<1>8. m \in 0 .. n + 3 /\ length = Len(head) + m
  <2>1. Len(bin_write(cmd)) = 8 + (n + 4)
    <3>1. Len(head \o tail) = Len(head) + Len(tail)
      BY <1>6, ConcatProperties
    <3>2. QED
      BY <1>6, <1>7, <3>1
  <2>2. QED
    BY <1>3, <1>6, <2>1
<1> HIDE DEF m
<1>9. /\ SubSeq(bin_write(cmd), 1, length) = head \o cut
      /\ cut \in Seq(Byte) /\ Len(cut) = m
  <2>1. m \in 0 .. Len(tail)
    BY <1>3, <1>6, <1>8
  <2>2. SubSeq(head \o tail, 1, Len(head) + m) = head \o cut /\ cut \in Seq(Byte) /\ Len(cut) = m
    <3>1. \A a, b \in Seq(Byte) : \A j \in 0 .. Len(b) :
            /\ SubSeq(a \o b, 1, Len(a) + j) = a \o SubSeq(b, 1, j)
            /\ SubSeq(b, 1, j) \in Seq(Byte) /\ Len(SubSeq(b, 1, j)) = j
      BY PrefixOfConcat
    <3>2. head \in Seq(Byte) /\ tail \in Seq(Byte)
      BY <1>6
    <3>3. QED
      BY <2>1, <3>1, <3>2, Zenon
  <2>3. QED
    BY <1>7, <1>8, <2>2
<1>10. read.stream = Failed \/ \E short \in Seq(Byte) : Len(short) < 4 /\ read.stream = Stream(short)
  <2>1. CASE m < n
    <3> HIDE DEF cut
    <3>1. Stream(cut) \in Streams /\ Stream(cut).left = cut
      BY <1>9 DEF Stream, Streams
    <3>2. Len(Stream(cut).left) < n
      BY <1>9, <2>1, <3>1
    <3>3. QED
      BY <1>2, <1>3, <3>1, <3>2, LargerThanTheRest
  <2>2. CASE m >= n
    <3> DEFINE k == m - n
               short == SubSeq(eoc, 1, k)
    <3>1. k \in 0 .. 3 /\ k \in 0 .. Len(eoc) /\ m = n + k
      BY <1>3, <1>4, <1>8, <2>2
    <3> HIDE DEF k
    <3>2. SubSeq(flat \o eoc, 1, Len(flat) + k) = flat \o short /\ short \in Seq(Byte) /\ Len(short) = k
      <4>1. \A a, b \in Seq(Byte) : \A j \in 0 .. Len(b) :
              /\ SubSeq(a \o b, 1, Len(a) + j) = a \o SubSeq(b, 1, j)
              /\ SubSeq(b, 1, j) \in Seq(Byte) /\ Len(SubSeq(b, 1, j)) = j
        BY PrefixOfConcat
      <4>2. flat \in Seq(Byte) /\ eoc \in Seq(Byte) /\ k \in 0 .. Len(eoc)
        BY <1>4, <3>1
      <4>3. QED
        BY <4>1, <4>2, Zenon
    <3>3. cut = flat \o short
      BY <3>1, <3>2 DEF tail, n
    <3> HIDE DEF short, cut
    <3>4. ReadRecords(fields, eors, [stream |-> Stream(flat \o short), value |-> Len(flat)])
            = [stream |-> Stream(short), value |-> cmd.items]
      BY <1>1, <1>2, <3>2, RecordsAreReadBack DEF flat, parts
    <3>5. read.stream = Stream(short)
      BY <3>3, <3>4 DEF n
    <3>6. Len(short) < 4
      BY <3>1, <3>2
    <3> HIDE DEF read
    <3>7. QED
      BY <3>2, <3>5, <3>6
  <2>3. m < n \/ m >= n
    BY <1>3, <1>8
  <2>4. QED
    BY <2>1, <2>2, <2>3
<1>11. Expect(eoc, read.stream) = Failed
  <2>1. ~Skip(Failed, 4).good
    BY DEF Skip, Failed
  <2>2. ASSUME NEW short \in Seq(Byte), Len(short) < 4 PROVE ~Skip(Stream(short), 4).good
    <3>1. Stream(short).left = short /\ ~(Len(short) >= 4)
      BY <2>2, LenProperties DEF Stream
    <3>2. Skip(Stream(short), 4) = Failed
      BY <3>1, Zenon DEF Skip
    <3>3. QED
      BY <3>2 DEF Failed
  <2> HIDE DEF read
  <2>3. ~Skip(read.stream, 4).good
    BY <1>10, <2>1, <2>2, Zenon
  <2>4. QED
    BY <2>3, Zenon DEF Expect
<1>12. bin_read(Stream(head \o cut)) = Ended(Made[t], read)
  <2> HIDE DEF cut
  <2>1. head \o cut = Mark[t] \o (w \o cut) /\ w \o cut \in Seq(Byte)
    BY <1>5, <1>7, <1>9, ConcatProperties
  <2>2. bin_read(Stream(Mark[t] \o (w \o cut))) = ReadCommand(Made[t], Stream(w \o cut))
    BY <1>1, <2>1, KnownMark
  <2>3. ReadInt(Stream(w \o cut)) = [stream |-> Stream(cut), value |-> n]
    BY <1>1, <1>9, IntFieldIsReadBack DEF w
  <2>4. ReadCommand(Made[t], Stream(w \o cut)) = Ended(Made[t], read)
    BY <1>2, <2>3, Zenon DEF ReadCommand, read_packet
  <2>5. QED
    BY <2>1, <2>2, <2>4
<1>13. ~Ended(Made[t], read).stream.good
  <2> HIDE DEF read
  <2>1. Ended(Made[t], read).stream = Failed
    BY <1>11 DEF Ended
  <2>2. QED
    BY <2>1 DEF Failed
<1>14. QED
  BY <1>9, <1>12, <1>13

-----------------------------------------------------------------------------
(* The station's clock.                                                       *)

Packets == Seq([mode : 0 .. 6, minute : Int, local : Int])

Reporting(limit, packets, f) ==
  f = [n \in 0 .. Len(packets) |->
         IF n = 0 THEN [reported |-> FALSE, events |-> <<>>]
         ELSE CheckAndReportTimeDiviation(limit, f[n - 1], packets[n])]

\* The equation of ClockReports has a solution.
LEMMA ReportingExists ==
  ASSUME NEW limit, NEW packets, Len(packets) \in Nat
  PROVE  \E f : Reporting(limit, packets, f)
<1> DEFINE first == [reported |-> FALSE, events |-> <<>>]
           Step(f, i) == IF i = 0 THEN first ELSE CheckAndReportTimeDiviation(limit, f[i - 1], packets[i])
           Upto(k) == \E f : f = [i \in 0 .. k |-> Step(f, i)]
           T == {k \in Nat : Upto(k)}
<1> HIDE DEF first
<1>1. 0 \in T
  <2> DEFINE f == [i \in 0 .. 0 |-> first]
  <2>1. \A i \in 0 .. 0 : Step(f, i) = first
    OBVIOUS
  <2> HIDE DEF Step
  <2>2. f = [i \in 0 .. 0 |-> Step(f, i)]
    BY <2>1
  <2> HIDE DEF f
  <2>3. QED
    BY <2>2
<1>2. ASSUME NEW k \in T PROVE k + 1 \in T
  <2>1. PICK f : f = [i \in 0 .. k |-> Step(f, i)]
    OBVIOUS
  <2> DEFINE g == [i \in 0 .. k + 1 |-> IF i <= k THEN f[i] ELSE Step(f, i)]
  <2>2. ASSUME NEW i \in 0 .. k + 1 PROVE g[i] = Step(g, i)
    <3>1. i = 0 \/ (i - 1 \in 0 .. k /\ g[i - 1] = f[i - 1])
      OBVIOUS
    <3>2. Step(g, i) = Step(f, i)
      BY <3>1
    <3>3. g[i] = IF i <= k THEN f[i] ELSE Step(f, i)
      OBVIOUS
    <3>4. i <= k => f[i] = Step(f, i)
      <4>1. i <= k => i \in 0 .. k
        OBVIOUS
      <4> HIDE DEF Step
      <4>2. QED
        BY <2>1, <4>1
    <3>5. QED
      BY <3>2, <3>3, <3>4
  <2>3. g = [i \in 0 .. k + 1 |-> g[i]]
    OBVIOUS
  <2> HIDE DEF g, Step
  <2>4. g = [i \in 0 .. k + 1 |-> Step(g, i)]
    BY <2>2, <2>3
  <2>5. Upto(k + 1) /\ k + 1 \in Nat
    BY <2>4
  <2>6. QED
    BY <2>5
<1>3. T = Nat
  <2> HIDE DEF Upto
  <2>1. QED
    BY <1>1, <1>2, SetInduction
<1>4. QED
  BY <1>3 DEF Reporting, first

\* The packets with a time, and whether that is too far from the computer's.
Timed(packets) == {i \in DOMAIN packets : packets[i].mode = 0}
Far(limit, packets, i) == Distance(packets[i].local, 60 * packets[i].minute) > limit

\* The clock was wrong when it was last seen, up to the n-th packet.
Wrong(limit, packets, n) ==
  \E j \in Timed(packets) : /\ j <= n /\ Far(limit, packets, j)
                            /\ \A k \in Timed(packets) : j < k /\ k <= n => Far(limit, packets, k)

\* It goes wrong with the i-th packet.
Begins(limit, packets, i) ==
  /\ Far(limit, packets, i)
  /\ \A j \in Timed(packets) : j < i =>
       \/ ~Far(limit, packets, j)
       \/ \E k \in Timed(packets) : j < k /\ k < i /\ ~Far(limit, packets, k)

Begun(limit, packets, n) == {i \in Timed(packets) : i <= n /\ Begins(limit, packets, i)}

\* What one more packet changes: nothing without a time; with one it says whether the
\* clock is wrong, and the clock goes wrong with it if it was not wrong before.
LEMMA OneMorePacket ==
  ASSUME NEW limit \in Int, NEW packets \in Packets, NEW n \in Nat, n + 1 \in DOMAIN packets
  PROVE  LET wrong(k) == Wrong(limit, packets, k)
             begun(k) == Begun(limit, packets, k)
             m == n + 1
         IN  /\ m \notin Timed(packets) => (wrong(m) <=> wrong(n)) /\ begun(m) = begun(n)
             /\ m \in Timed(packets) =>
                  /\ wrong(m) <=> Far(limit, packets, m)
                  /\ begun(m) = IF Far(limit, packets, m) /\ ~wrong(n) THEN begun(n) \cup {m} ELSE begun(n)
<1> DEFINE m == n + 1
           T == Timed(packets)
           far(i) == Far(limit, packets, i)
           begins(i) == Begins(limit, packets, i)
<1>1. T \subseteq Nat
  <2>1. DOMAIN packets = 1 .. Len(packets) /\ Len(packets) \in Nat
    BY LenProperties DEF Packets
  <2>2. QED
    BY <2>1 DEF Timed
<1>2. \A k : Wrong(limit, packets, k)
               <=> \E j \in T : j <= k /\ far(j) /\ \A l \in T : j < l /\ l <= k => far(l)
  BY DEF Wrong
<1>3. \A k : Begun(limit, packets, k) = {i \in T : i <= k /\ begins(i)}
  BY DEF Begun
<1>4. begins(m) <=> far(m) /\ \A j \in T : j < m => ~far(j) \/ \E k \in T : j < k /\ k < m /\ ~far(k)
  BY DEF Begins
<1> HIDE DEF T, far, begins
<1>5. \A j \in T : (j <= m <=> j <= n \/ j = m) /\ (j < m <=> j <= n) /\ (j <= n => j # m)
  BY <1>1
<1>6. CASE m \notin T
  <2>1. \A j \in T : j <= m <=> j <= n
    BY <1>5, <1>6
  <2> HIDE DEF m
  <2>2. Wrong(limit, packets, m) <=> Wrong(limit, packets, n)
    BY <1>2, <2>1
  <2>3. Begun(limit, packets, m) = Begun(limit, packets, n)
    BY <1>3, <2>1
  <2>4. QED
    BY <1>6, <2>2, <2>3 DEF T, m
<1>7. CASE m \in T
  <2>1. Wrong(limit, packets, m) <=> far(m)
    <3>1. far(m) => Wrong(limit, packets, m)
      <4>1. \A l \in T : ~(m < l /\ l <= m)
        BY <1>1, <1>7
      <4>2. m <= m
        BY <1>1, <1>7
      <4> HIDE DEF m
      <4>3. QED
        BY <1>2, <1>7, <4>1, <4>2
    <3>2. ASSUME Wrong(limit, packets, m) PROVE far(m)
      <4>1. PICK j \in T : j <= m /\ far(j) /\ \A l \in T : j < l /\ l <= m => far(l)
        BY <1>2, <3>2
      <4>2. j = m \/ (j < m /\ m <= m)
        BY <1>1, <1>7, <4>1
      <4> HIDE DEF m
      <4>3. QED
        BY <1>7, <4>1, <4>2
    <3>3. QED
      BY <3>1, <3>2
  <2>2. begins(m) <=> far(m) /\ ~Wrong(limit, packets, n)
    <3> HIDE DEF m
    <3>1. \A j \in T : (j < m <=> j <= n)
      BY <1>5
    <3>2. (\A j \in T : j < m => ~far(j) \/ \E k \in T : j < k /\ k < m /\ ~far(k))
            <=> ~Wrong(limit, packets, n)
      BY <1>2, <3>1
    <3>3. QED
      BY <1>4, <3>2
  <2>3. Begun(limit, packets, m) = IF begins(m) THEN Begun(limit, packets, n) \cup {m} ELSE Begun(limit, packets, n)
    <3> HIDE DEF m
    <3>1. QED
      BY <1>3, <1>5, <1>7
  <2>4. QED
    BY <1>7, <2>1, <2>2, <2>3 DEF T, m, far
<1>8. QED
  BY <1>6, <1>7 DEF T, m

\* As many events as times that the clock goes wrong.
LEMMA EventsAreCounted ==
  ASSUME NEW limit \in Int, NEW packets \in Packets
  PROVE  Len(ClockReports(limit, packets).events) = Cardinality(Begun(limit, packets, Len(packets)))
<1> DEFINE n == Len(packets)
           begun(k) == Begun(limit, packets, k)
           wrong(k) == Wrong(limit, packets, k)
           first == [reported |-> FALSE, events |-> <<>>]
<1> DEFINE after[k \in 0 .. Len(packets)] ==
             IF k = 0 THEN [reported |-> FALSE, events |-> <<>>]
             ELSE CheckAndReportTimeDiviation(limit, after[k - 1], packets[k])
<1>1. n \in Nat /\ DOMAIN packets = 1 .. n
      /\ \A i \in 1 .. n : packets[i] \in [mode : 0 .. 6, minute : Int, local : Int]
  BY LenProperties, ElementOfSeq DEF Packets
<1>2. ClockReports(limit, packets) = after[n]
  BY DEF ClockReports
<1>3. after = CHOOSE f : Reporting(limit, packets, f)
  BY DEF Reporting
<1> HIDE DEF after
<1>4. Reporting(limit, packets, after)
  BY <1>1, <1>3, ReportingExists
<1>5. \A k \in 0 .. n : after[k] = IF k = 0 THEN first ELSE CheckAndReportTimeDiviation(limit, after[k - 1], packets[k])
  BY <1>4 DEF Reporting
<1> HIDE DEF n
<1> DEFINE Good(k) ==
             /\ after[k] = [reported |-> after[k].reported, events |-> after[k].events]
             /\ after[k].reported <=> wrong(k)
             /\ after[k].events \in Seq(Int)
             /\ IsFiniteSet(begun(k)) /\ Len(after[k].events) = Cardinality(begun(k))
           T == {k \in Nat : k <= n => Good(k)}
<1>6. 0 \in T
  <2>1. after[0] = first
    BY <1>1, <1>5
  <2>2. Timed(packets) \subseteq Nat \ {0}
    BY <1>1 DEF Timed
  <2>3. begun(0) = {} /\ ~wrong(0)
    BY <2>2 DEF Begun, Wrong
  <2>4. <<>> \in Seq(Int) /\ Len(<<>>) = 0
    BY EmptySeq
  <2> HIDE DEF begun, wrong
  <2>5. after[0].reported = FALSE /\ after[0].events = <<>> /\ after[0] = first
    BY <2>1
  <2>6. IsFiniteSet(begun(0)) /\ Cardinality(begun(0)) = 0
    BY <2>3, FS_EmptySet, Zenon
  <2>7. after[0] = [reported |-> after[0].reported, events |-> after[0].events]
    BY <2>5
  <2>8. (after[0].reported <=> wrong(0)) /\ after[0].events \in Seq(Int) /\ Len(after[0].events) = 0
    BY <2>3, <2>4, <2>5
  <2>9. Good(0)
    BY <2>6, <2>7, <2>8
  <2> HIDE DEF Good
  <2>10. QED
    BY <2>9
<1>7. ASSUME NEW k \in T, k + 1 <= n PROVE Good(k + 1)
  <2> DEFINE m == k + 1
             state == after[k]
             packet == packets[m]
             distance == Distance(packet.local, 60 * packet.minute)
             far == Far(limit, packets, m)
  <2>1. k \in Nat /\ k <= n /\ m \in 1 .. n /\ m \in 0 .. n /\ m # 0 /\ m - 1 = k
    <3> HIDE DEF Good
    <3>1. k \in Nat /\ k + 1 <= n
      BY <1>7
    <3> HIDE DEF T
    <3>2. QED
      BY <1>1, <3>1
  <2>2. /\ state = [reported |-> state.reported, events |-> state.events]
        /\ state.reported <=> wrong(k)
        /\ state.events \in Seq(Int)
        /\ IsFiniteSet(begun(k)) /\ Len(state.events) = Cardinality(begun(k))
    BY <1>7, <2>1
  <2>3. after[m] = CheckAndReportTimeDiviation(limit, state, packet)
    BY <1>5, <2>1
  <2>4. /\ m \notin Timed(packets) => (wrong(m) <=> wrong(k)) /\ begun(m) = begun(k)
        /\ m \in Timed(packets) =>
             /\ wrong(m) <=> far
             /\ begun(m) = IF far /\ ~wrong(k) THEN begun(k) \cup {m} ELSE begun(k)
    BY <1>1, <2>1, OneMorePacket
  <2>5. m \in Timed(packets) <=> packet.mode = 0
    BY <1>1, <2>1 DEF Timed
  <2>6. far <=> distance > limit
    BY DEF Far
  <2>7. distance \in Int /\ distance \div 60 \in Int
    <3>1. packet.local \in Int /\ packet.minute \in Int
      BY <1>1, <2>1
    <3>2. \A x, y \in Int : Distance(x, 60 * y) \in Int
      BY DEF Distance
    <3>3. distance \in Int
      BY <3>1, <3>2
    <3>4. \A x \in Int : x \div 60 \in Int
      OBVIOUS
    <3> HIDE DEF distance
    <3>5. QED
      BY <3>3, <3>4
  <2>8. m \notin begun(k)
    BY <2>1 DEF Begun
  <2>9. CheckAndReportTimeDiviation(limit, state, packet)
          = IF packet.mode # 0 THEN state
            ELSE [reported |-> far,
                  events |-> IF far /\ ~state.reported THEN Append(state.events, distance \div 60) ELSE state.events]
    BY DEF CheckAndReportTimeDiviation, Far
  <2>10. \A e \in Seq(Int), i \in Int : Append(e, i) \in Seq(Int) /\ Len(Append(e, i)) = Len(e) + 1
    BY AppendProperties
  <2> HIDE DEF begun, wrong, far, distance, packet, m
  <2>11. CASE packet.mode # 0
    <3>1. after[m] = state /\ (wrong(m) <=> wrong(k)) /\ begun(m) = begun(k)
      BY <2>3, <2>4, <2>5, <2>9, <2>11
    <3> HIDE DEF state
    <3>2. QED
      BY <2>2, <3>1 DEF m
  <2>12. CASE packet.mode = 0 /\ far /\ ~state.reported
    <3> DEFINE e == Append(state.events, distance \div 60)
    <3>1. after[m] = [reported |-> far, events |-> e]
      BY <2>3, <2>9, <2>12
    <3>2. wrong(m) /\ begun(m) = begun(k) \cup {m}
      BY <2>2, <2>4, <2>5, <2>12
    <3>3. e \in Seq(Int) /\ Len(e) = Len(state.events) + 1
      BY <2>2, <2>7, <2>10
    <3>4. IsFiniteSet(begun(m)) /\ Cardinality(begun(m)) = Cardinality(begun(k)) + 1
      BY <2>2, <2>8, <3>2, FS_AddElement
    <3> HIDE DEF e
    <3>5. after[m].reported = far /\ after[m].events = e
      BY <3>1
    <3>6. QED
      BY <2>2, <2>12, <3>1, <3>2, <3>3, <3>4, <3>5 DEF m
  <2>13. CASE packet.mode = 0 /\ ~(far /\ ~state.reported)
    <3>1. after[m] = [reported |-> far, events |-> state.events]
      BY <2>3, <2>9, <2>13
    <3>2. (wrong(m) <=> far) /\ begun(m) = begun(k)
      BY <2>2, <2>4, <2>5, <2>13
    <3>3. after[m].reported = far /\ after[m].events = state.events
      BY <3>1
    <3> HIDE DEF state
    <3>4. QED
      BY <2>2, <3>1, <3>2, <3>3 DEF m
  <2>14. QED
    BY <2>11, <2>12, <2>13
<1>8. T = Nat
  <2>1. T \in SUBSET Nat
    OBVIOUS
  <2>2. \A k \in T : k + 1 \in T
    <3> HIDE DEF Good
    <3>1. QED
      BY <1>7
  <2> HIDE DEF T
  <2>3. QED
    BY <1>6, <2>1, <2>2, SetInduction
<1>9. Good(n)
  <2> HIDE DEF Good
  <2>1. n \in T /\ n <= n
    BY <1>1, <1>8
  <2>2. QED
    BY <2>1
<1>10. QED
  BY <1>2, <1>9 DEF n

-----------------------------------------------------------------------------
(* What Parse makes of a line, and what the daemon makes of the client's. *)

\* How Parse gets at its result, turn by turn.
Parsing(argv, f) ==
  f = [n \in 0 .. Len(argv) |->
         IF n <= 1 THEN Untyped ELSE Turn(f[n - 1], Token(argv[n]), argv[n])]

\* The equation of Parse has a solution.
LEMMA ParsingExists ==
  ASSUME NEW argv, Len(argv) \in Nat
  PROVE  \E f : Parsing(argv, f)
<1> DEFINE Step(f, i) == IF i <= 1 THEN Untyped ELSE Turn(f[i - 1], Token(argv[i]), argv[i])
           Upto(k) == \E f : f = [i \in 0 .. k |-> Step(f, i)]
           T == {k \in Nat : Upto(k)}
<1>1. 0 \in T
  <2> DEFINE f == [i \in 0 .. 0 |-> Untyped]
  <2>1. \A i \in 0 .. 0 : Step(f, i) = Untyped
    <3>1. \A i \in 0 .. 0 : i <= 1
      OBVIOUS
    <3> HIDE DEF f
    <3>2. QED
      BY <3>1
  <2> HIDE DEF Step
  <2>2. f = [i \in 0 .. 0 |-> Step(f, i)]
    BY <2>1
  <2> HIDE DEF f
  <2>3. QED
    BY <2>2
<1>2. ASSUME NEW k \in T PROVE k + 1 \in T
  <2>1. PICK f : f = [i \in 0 .. k |-> Step(f, i)]
    OBVIOUS
  <2> DEFINE g == [i \in 0 .. k + 1 |-> IF i <= k THEN f[i] ELSE Step(f, i)]
  <2>2. ASSUME NEW i \in 0 .. k + 1 PROVE g[i] = Step(g, i)
    <3>1. i <= 1 \/ (i - 1 \in 0 .. k /\ g[i - 1] = f[i - 1])
      OBVIOUS
    <3>2. Step(g, i) = Step(f, i)
      <4> HIDE DEF g
      <4>1. QED
        BY <3>1
    <3>3. g[i] = IF i <= k THEN f[i] ELSE Step(f, i)
      OBVIOUS
    <3>4. i <= k => f[i] = Step(f, i)
      <4>1. i <= k => i \in 0 .. k
        OBVIOUS
      <4> HIDE DEF Step
      <4>2. QED
        BY <2>1, <4>1
    <3> HIDE DEF g, Step
    <3>5. QED
      BY <3>2, <3>3, <3>4
  <2>3. g = [i \in 0 .. k + 1 |-> g[i]]
    OBVIOUS
  <2> HIDE DEF g, Step
  <2>4. g = [i \in 0 .. k + 1 |-> Step(g, i)]
    BY <2>2, <2>3
  <2>5. Upto(k + 1) /\ k + 1 \in Nat
    BY <2>4
  <2>6. QED
    BY <2>5
<1>3. T = Nat
  <2> HIDE DEF Upto
  <2>1. QED
    BY <1>1, <1>2, SetInduction
<1>4. QED
  BY <1>3 DEF Parsing

\* Parse is the last turn of such a solution.
LEMMA ParsingSteps ==
  ASSUME NEW argv, Len(argv) \in Nat
  PROVE  \E f : Parsing(argv, f) /\ Parse(argv) = Turn(f[Len(argv)], "end", Blank)
<1> DEFINE parsed[n \in 0 .. Len(argv)] ==
             IF n <= 1 THEN Untyped ELSE Turn(parsed[n - 1], Token(argv[n]), argv[n])
<1>1. parsed = CHOOSE f : Parsing(argv, f)
  BY DEF Parsing
<1>2. Parse(argv) = Turn(parsed[Len(argv)], "end", Blank)
  BY DEF Parse
<1> HIDE DEF parsed
<1>3. Parsing(argv, parsed)
  BY <1>1, ParsingExists
<1>4. QED
  BY <1>2, <1>3

\* The texts of a -cmd, the device's id at k.
CommandAt(argv, k) ==
  /\ k \in 3 .. Len(argv) - 5
  /\ Token(argv[2]) = "-cmd" /\ \A i \in 3 .. k - 1 : Token(argv[i]) \in Options
  /\ \A i \in k .. k + 4 : Token(argv[i]) = "arg"
  /\ Token(argv[k + 5]) = "-sp"

\* States of a line before, up to and after the id of a command.
AfterId == {"sp", "spPath", "aName", "aValue", "aList"}
UptoId == {"devId", "type", "msg", "src", "id"}
Started == {"aFirst", "p", "exit", "t", "d", "r", "rDevId"}

\* As far as the argument n.
CommandUpto(argv, n, parsed, k) ==
  /\ k \in 3 .. n
  /\ Token(argv[2]) = "-cmd" /\ \A i \in 3 .. k - 1 : Token(argv[i]) \in Options
  /\ \A i \in k .. k + 4 : i <= n => Token(argv[i]) = "arg"
  /\ k + 5 <= n => Token(argv[k + 5]) = "-sp"
  /\ k + 1 <= n => parsed.field["cmdType"] = argv[k + 1]
  /\ k + 2 <= n => parsed.field["message"] = argv[k + 2]
  /\ parsed.state = "devId" => n = k
  /\ parsed.state = "type" => n = k + 1
  /\ parsed.state = "msg" => n = k + 2
  /\ parsed.state = "src" => n = k + 3
  /\ parsed.state = "id" => n = k + 4
  /\ parsed.state \in AfterId => n >= k + 5

\* What is known after the argument n.
Known(argv, n, parsed) ==
  \/ parsed.state = "reject"
  \/ n <= 1 /\ parsed.state = "first" /\ parsed.type = "none"
  \/ /\ n >= 2 /\ Token(argv[2]) = "-cmd" /\ parsed.state = "cmd"
     /\ parsed.type # "CMD_COMMAND" /\ \A i \in 3 .. n : Token(argv[i]) \in Options
  \/ /\ n >= 2 /\ parsed.state \in UptoId \cup AfterId /\ parsed.type = "CMD_COMMAND"
     /\ \E k \in 3 .. n : CommandUpto(argv, n, parsed, k)
  \/ /\ n >= 2 /\ Token(argv[2]) \in Options \ {"-cmd"}
     /\ parsed.state \in Started \cup AfterId /\ parsed.type # "CMD_COMMAND"

\* A token of an argument is an option or "arg".
LEMMA TokenIsOption == \A arg : Token(arg) \in Options \cup {"arg"}
BY DEF Token

\* What a turn makes of each part.
LEMMA Turned ==
  ASSUME NEW parsed, NEW token, NEW arg
  PROVE  /\ Turn(parsed, token, arg).state = NextState(parsed.state, token)
         /\ Turn(parsed, token, arg).type = CommandType(parsed.state, token, parsed.type)
         /\ \A text \in Texts : Turn(parsed, token, arg).field[text] =
              IF token = "arg" /\ Field(parsed.state) = text THEN arg ELSE parsed.field[text]
BY DEF Turn

\* Where a token leads from each state.
Leads(state, token, to) ==
  /\ state = "reject" => to = "reject"
  /\ state = "first" /\ token = "-cmd" => to = "cmd"
  /\ state = "first" /\ token # "-cmd" => to \in Started \cup {"reject"}
  /\ state = "first" /\ token = "arg" => to = "reject"
  /\ state = "cmd" => to = IF token = "arg" THEN "devId" ELSE "cmd"
  /\ state = "devId" => to = IF token = "arg" THEN "type" ELSE "reject"
  /\ state = "type" => to = IF token = "arg" THEN "msg" ELSE "reject"
  /\ state = "msg" => to = IF token = "arg" THEN "src" ELSE "reject"
  /\ state = "src" => to = IF token = "arg" THEN "id" ELSE "reject"
  /\ state = "id" => to = IF token = "-sp" THEN "sp" ELSE "reject"
  /\ state \in AfterId => to \in AfterId \cup {"reject"}
  /\ state \in Started => to \in Started \cup AfterId \cup {"reject"}

\* The tables lead where Leads says.
LEMMA NextStates ==
  ASSUME NEW state, NEW token \in Options \cup {"arg"}
  PROVE  Leads(state, token, NextState(state, token))
BY DEF Leads, NextState, FirstStates, CommandStates, ListStates, PathStates, Options, AfterId, Started

\* The type of a command, too.
Gives(state, token, type, to) ==
  /\ state = "cmd" => to = IF token = "arg" THEN "CMD_COMMAND" ELSE "CMD_LIST_COMMANDS"
  /\ state \in {"first"} \cup UptoId \cup AfterId => to = type
  /\ state \in Started /\ type # "CMD_COMMAND" => to # "CMD_COMMAND"

\* The states give what Gives says.
LEMMA CommandTypes ==
  ASSUME NEW state, NEW token, NEW type
  PROVE  Gives(state, token, type, CommandType(state, token, type))
BY DEF Gives, CommandType, UptoId, AfterId, Started

\* One more argument keeps what is known.
LEMMA KnownStep ==
  ASSUME NEW argv, NEW n \in Nat \ {0}, NEW parsed, Known(argv, n, parsed)
  PROVE  Known(argv, n + 1, Turn(parsed, Token(argv[n + 1]), argv[n + 1]))
<1> DEFINE token == Token(argv[n + 1])
           next == Turn(parsed, token, argv[n + 1])
<1>0. /\ Known(argv, n, parsed) /\ token = Token(argv[n + 1]) /\ n + 1 \in Nat
      /\ Turn(parsed, Token(argv[n + 1]), argv[n + 1]) = next
  OBVIOUS
<1> SUFFICES Known(argv, n + 1, next)
  BY <1>0
<1> HIDE DEF next, token
<1>1. token \in Options \cup {"arg"} /\ "arg" \notin Options /\ "-cmd" \in Options
  BY <1>0, TokenIsOption DEF Options
<1>2. Leads(parsed.state, token, next.state)
  <2>1. next.state = NextState(parsed.state, token)
    BY <1>0, Turned, Zenon
  <2>2. \A state : \A to \in Options \cup {"arg"} : Leads(state, to, NextState(state, to))
    BY NextStates
  <2>3. QED
    BY <1>1, <2>1, <2>2, Zenon
<1>20. Gives(parsed.state, token, parsed.type, next.type)
  <2>1. next.type = CommandType(parsed.state, token, parsed.type)
    BY <1>0, Turned, Zenon
  <2>2. QED
    BY <2>1, CommandTypes, Zenon
<1>3. \A text \in {"cmdType", "message"} : next.field[text] =
        IF token = "arg" /\ Field(parsed.state) = text THEN argv[n + 1] ELSE parsed.field[text]
  BY <1>0, Turned DEF Texts
<1>10. /\ Field("devId") = "cmdType" /\ Field("type") = "message"
      /\ \A state \in {"msg", "src", "id"} \cup AfterId : Field(state) \notin {"cmdType", "message"}
  BY DEF Field, AfterId
<1>4. \A i \in 3 .. n + 1 : i \in 3 .. n \/ i = n + 1
  OBVIOUS
<1>5. CASE parsed.state = "reject"
  BY <1>2, <1>5 DEF Leads, Known
<1>6. CASE n <= 1 /\ parsed.state = "first" /\ parsed.type = "none"
  <2>1. n + 1 = 2 /\ \A i \in 3 .. n + 1 : FALSE
    BY <1>6
  <2>2. next.type = "none"
    BY <1>20, <1>6 DEF Gives
  <2>3. CASE token = "-cmd"
    <3>1. next.state = "cmd"
      BY <1>2, <1>6, <2>3 DEF Leads
    <3>2. Token(argv[2]) = "-cmd"
      BY <1>0, <2>1, <2>3
    <3>3. QED
      BY <2>1, <2>2, <3>1, <3>2 DEF Known
  <2>4. CASE token # "-cmd"
    <3>1. next.state \in Started \cup {"reject"}
      BY <1>2, <1>6, <2>4 DEF Leads
    <3>2. token = "arg" => next.state = "reject"
      BY <1>2, <1>6, <2>4 DEF Leads
    <3>3. token # "arg" => Token(argv[2]) \in Options \ {"-cmd"}
      BY <1>0, <1>1, <2>1, <2>4
    <3>4. QED
      BY <2>1, <2>2, <3>1, <3>2, <3>3 DEF Known
  <2>5. QED
    BY <2>3, <2>4
<1>7. CASE /\ n >= 2 /\ Token(argv[2]) = "-cmd" /\ parsed.state = "cmd"
           /\ parsed.type # "CMD_COMMAND" /\ \A i \in 3 .. n : Token(argv[i]) \in Options
  <2>1. CASE token = "arg"
    <3>1. next.state = "devId" /\ next.type = "CMD_COMMAND"
      BY <1>2, <1>20, <1>7, <2>1 DEF Leads, Gives
    <3>2. Token(argv[n + 1]) = "arg" /\ n + 1 \in 3 .. n + 1 /\ (n + 1) - 1 = n
      BY <1>0, <1>7, <2>1
    <3>3. CommandUpto(argv, n + 1, next, n + 1)
      BY <1>7, <3>1, <3>2 DEF CommandUpto, AfterId
    <3>4. n + 1 >= 2 /\ next.state \in UptoId \cup AfterId
      BY <1>7, <3>1 DEF UptoId
    <3>5. QED
      BY <3>1, <3>2, <3>3, <3>4, Zenon DEF Known
  <2>2. CASE token # "arg"
    <3>1. next.state = "cmd" /\ next.type = "CMD_LIST_COMMANDS"
      BY <1>2, <1>20, <1>7, <2>2 DEF Leads, Gives
    <3>2. n + 1 >= 2 /\ \A i \in 3 .. n + 1 : Token(argv[i]) \in Options
      BY <1>0, <1>1, <1>4, <1>7, <2>2
    <3>3. QED
      BY <1>7, <3>1, <3>2 DEF Known
  <2>3. QED
    BY <2>1, <2>2
<1>8. CASE /\ n >= 2 /\ parsed.state \in UptoId \cup AfterId /\ parsed.type = "CMD_COMMAND"
           /\ \E k \in 3 .. n : CommandUpto(argv, n, parsed, k)
  <2>1. PICK k \in 3 .. n : CommandUpto(argv, n, parsed, k)
    BY <1>8
  <2>2. next.type = "CMD_COMMAND"
    BY <1>20, <1>8 DEF Gives
  <2>3. next.state \in UptoId \cup AfterId \cup {"reject"}
    BY <1>2, <1>8 DEF Leads, UptoId, AfterId
  <2>4. SUFFICES ASSUME next.state # "reject" PROVE CommandUpto(argv, n + 1, next, k)
    <3>1. k \in 3 .. n + 1 /\ n + 1 >= 2
      BY <1>8, <2>1
    <3>2. QED
      BY <2>2, <2>3, <3>1, Zenon DEF Known
  <2>5. /\ k \in Nat /\ 3 <= k /\ k <= n /\ k \in 3 .. n + 1
        /\ Token(argv[2]) = "-cmd" /\ \A i \in 3 .. k - 1 : Token(argv[i]) \in Options
        /\ \A i \in k .. k + 4 : i <= n => Token(argv[i]) = "arg"
        /\ k + 5 <= n => Token(argv[k + 5]) = "-sp"
        /\ k + 1 <= n => parsed.field["cmdType"] = argv[k + 1]
        /\ k + 2 <= n => parsed.field["message"] = argv[k + 2]
    BY <2>1 DEF CommandUpto
  <2>6. CASE parsed.state = "devId"
    <3>1. n = k
      BY <2>1, <2>6 DEF CommandUpto
    <3>2. next.state = "type" /\ token = "arg"
      BY <1>2, <2>4, <2>6 DEF Leads
    <3>3. next.field["cmdType"] = argv[n + 1]
      BY <1>3, <1>10, <2>6, <3>2
    <3>4. QED
      BY <1>0, <2>5, <3>1, <3>2, <3>3 DEF CommandUpto, AfterId
  <2>7. CASE parsed.state = "type"
    <3>1. n = k + 1
      BY <2>1, <2>7 DEF CommandUpto
    <3>2. next.state = "msg" /\ token = "arg"
      BY <1>2, <2>4, <2>7 DEF Leads
    <3>3. next.field["message"] = argv[n + 1] /\ next.field["cmdType"] = parsed.field["cmdType"]
      BY <1>3, <1>10, <2>7, <3>2
    <3>4. QED
      BY <1>0, <2>5, <3>1, <3>2, <3>3 DEF CommandUpto, AfterId
  <2>8. CASE parsed.state \in {"msg", "src", "id"} \cup AfterId
    <3>1. next.field["cmdType"] = parsed.field["cmdType"] /\ next.field["message"] = parsed.field["message"]
      BY <1>3, <1>10, <2>8
    <3>2. CASE parsed.state = "msg"
      <4>1. n = k + 2 /\ next.state = "src" /\ token = "arg"
        BY <1>2, <2>1, <2>4, <3>2 DEF Leads, CommandUpto
      <4>2. QED
        BY <1>0, <2>5, <3>1, <4>1 DEF CommandUpto, AfterId
    <3>3. CASE parsed.state = "src"
      <4>1. n = k + 3 /\ next.state = "id" /\ token = "arg"
        BY <1>2, <2>1, <2>4, <3>3 DEF Leads, CommandUpto
      <4>2. QED
        BY <1>0, <2>5, <3>1, <4>1 DEF CommandUpto, AfterId
    <3>4. CASE parsed.state = "id"
      <4>1. n = k + 4 /\ next.state = "sp" /\ token = "-sp"
        BY <1>2, <2>1, <2>4, <3>4 DEF Leads, CommandUpto
      <4>2. QED
        BY <1>0, <2>5, <3>1, <4>1 DEF CommandUpto, AfterId
    <3>5. CASE parsed.state \in AfterId
      <4>1. n >= k + 5 /\ next.state \in AfterId
        BY <1>2, <2>1, <2>4, <3>5 DEF Leads, CommandUpto
      <4>2. next.state \notin UptoId
        BY <4>1 DEF AfterId, UptoId
      <4>3. QED
        BY <1>0, <2>5, <3>1, <4>1, <4>2 DEF CommandUpto, UptoId
    <3>6. QED
      BY <2>8, <3>2, <3>3, <3>4, <3>5
  <2>9. QED
    BY <1>8, <2>6, <2>7, <2>8 DEF UptoId
<1>9. CASE /\ n >= 2 /\ Token(argv[2]) \in Options \ {"-cmd"}
           /\ parsed.state \in Started \cup AfterId /\ parsed.type # "CMD_COMMAND"
  <2>1. next.state \in Started \cup AfterId \cup {"reject"}
    BY <1>2, <1>9 DEF Leads
  <2>2. next.type # "CMD_COMMAND"
    BY <1>20, <1>9 DEF Gives
  <2>3. QED
    BY <1>9, <2>1, <2>2 DEF Known
<1>11. QED
  BY <1>0, <1>5, <1>6, <1>7, <1>8, <1>9 DEF Known

\* What is known after the last argument.
LEMMA KnownAtEnd ==
  ASSUME NEW argv, Len(argv) \in Nat
  PROVE  \E parsed : Known(argv, Len(argv), parsed) /\ Parse(argv) = Turn(parsed, "end", Blank)
<1>1. PICK f : Parsing(argv, f) /\ Parse(argv) = Turn(f[Len(argv)], "end", Blank)
  BY ParsingSteps, Zenon
<1>2. \A n \in 0 .. Len(argv) :
        f[n] = IF n <= 1 THEN Untyped ELSE Turn(f[n - 1], Token(argv[n]), argv[n])
  BY <1>1 DEF Parsing
<1> DEFINE T == {n \in Nat : n <= Len(argv) => Known(argv, n, f[n])}
<1>3. Untyped.state = "first" /\ Untyped.type = "none"
  BY DEF Untyped
<1>4. 0 \in T
  <2>1. 0 \in 0 .. Len(argv) /\ 0 <= 1
    OBVIOUS
  <2>2. f[0] = Untyped
    BY <1>2, <2>1
  <2>3. QED
    BY <1>3, <2>1, <2>2 DEF Known
<1>5. ASSUME NEW n \in T PROVE n + 1 \in T
  <2>1. SUFFICES ASSUME n + 1 <= Len(argv) PROVE Known(argv, n + 1, f[n + 1])
    OBVIOUS
  <2>2. n \in Nat /\ n + 1 \in 0 .. Len(argv) /\ n <= Len(argv) /\ (n + 1) - 1 = n
    BY <2>1
  <2>3. CASE n = 0
    <3>1. f[n + 1] = Untyped /\ n + 1 <= 1
      BY <1>2, <2>2, <2>3
    <3>2. QED
      BY <1>3, <3>1 DEF Known
  <2>4. CASE n # 0
    <3>1. f[n + 1] = Turn(f[n], Token(argv[n + 1]), argv[n + 1])
      <4>1. ~(n + 1 <= 1)
        BY <2>2, <2>4
      <4>2. QED
        BY <1>2, <2>2, <4>1
    <3>2. n \in Nat \ {0} /\ Known(argv, n, f[n])
      BY <2>2, <2>4
    <3>3. QED
      BY <3>1, <3>2, KnownStep, Zenon
  <2>5. QED
    BY <2>3, <2>4
<1>6. T = Nat
  <2>1. T \in SUBSET Nat
    OBVIOUS
  <2> HIDE DEF T
  <2>2. QED
    BY <1>4, <1>5, <2>1, SetInduction
<1>7. Known(argv, Len(argv), f[Len(argv)])
  <2>1. Len(argv) \in T /\ Len(argv) <= Len(argv)
    BY <1>6
  <2>2. QED
    BY <2>1
<1>8. QED
  BY <1>1, <1>7, Zenon

\* What a line that the parser accepts looks like: a -cmd that is not the one that lists
\* the commands has the five texts where they belong, then -sp.
THEOREM AcceptedLine ==
  ASSUME NEW argv, Len(argv) \in Nat, Parse(argv).state = "accept"
  PROVE  /\ Len(argv) >= 2 /\ Token(argv[2]) \in Options
         /\ Token(argv[2]) = "-cmd" /\ Parse(argv).type # "CMD_COMMAND" =>
              \A i \in 3 .. Len(argv) : Token(argv[i]) \in Options
         /\ Parse(argv).type = "CMD_COMMAND" =>
              \E k : /\ CommandAt(argv, k)
                     /\ Parse(argv).field["cmdType"] = argv[k + 1]
                     /\ Parse(argv).field["message"] = argv[k + 2]
<1> DEFINE n == Len(argv)
           final == Parse(argv)
<1>1. PICK parsed : Known(argv, n, parsed) /\ final = Turn(parsed, "end", Blank)
  BY KnownAtEnd
<1>2. n \in Nat /\ final.state = "accept"
  OBVIOUS
<1> SUFFICES /\ n >= 2 /\ Token(argv[2]) \in Options
             /\ Token(argv[2]) = "-cmd" /\ final.type # "CMD_COMMAND" =>
                  \A i \in 3 .. n : Token(argv[i]) \in Options
             /\ final.type = "CMD_COMMAND" =>
                  \E k : /\ CommandAt(argv, k)
                         /\ final.field["cmdType"] = argv[k + 1]
                         /\ final.field["message"] = argv[k + 2]
  OBVIOUS
<1> HIDE DEF n, final
<1>3. NextState(parsed.state, "end") = "accept"
  BY <1>1, <1>2, Turned, Zenon
<1>4. parsed.state \in {"aFirst", "p", "cmd", "d", "aList", "exit"}
  BY <1>3 DEF NextState, FirstStates, CommandStates, ListStates, PathStates
<1>5. final.type = CommandType(parsed.state, "end", parsed.type)
  BY <1>1, Turned, Zenon
<1>6. final.field["cmdType"] = parsed.field["cmdType"] /\ final.field["message"] = parsed.field["message"]
  <2>1. \A text \in Texts : final.field[text] = parsed.field[text]
    <3>1. \A text \in Texts : Turn(parsed, "end", Blank).field[text] = parsed.field[text]
      BY DEF Turn
    <3>2. QED
      BY <1>1, <3>1
  <2>2. "cmdType" \in Texts /\ "message" \in Texts
    BY DEF Texts
  <2>3. QED
    BY <2>1, <2>2
<1>7. "-cmd" \in Options
  BY DEF Options
<1>8. CASE /\ n >= 2 /\ Token(argv[2]) = "-cmd" /\ parsed.state = "cmd"
           /\ parsed.type # "CMD_COMMAND" /\ \A i \in 3 .. n : Token(argv[i]) \in Options
  <2>1. final.type # "CMD_COMMAND"
    BY <1>5, <1>8 DEF CommandType
  <2>2. QED
    BY <1>7, <1>8, <2>1
<1>9. CASE /\ n >= 2 /\ parsed.state \in UptoId \cup AfterId /\ parsed.type = "CMD_COMMAND"
           /\ \E k \in 3 .. n : CommandUpto(argv, n, parsed, k)
  <2>1. parsed.state = "aList"
    BY <1>4, <1>9 DEF UptoId, AfterId
  <2>2. final.type = "CMD_COMMAND"
    BY <1>5, <1>9, <2>1, CommandTypes DEF Gives, AfterId
  <2>3. PICK k \in 3 .. n : CommandUpto(argv, n, parsed, k)
    BY <1>9
  <2>4. n >= k + 5 /\ k \in Nat
    BY <2>1, <2>3 DEF CommandUpto, AfterId
  <2>5. /\ Token(argv[2]) = "-cmd" /\ \A i \in 3 .. k - 1 : Token(argv[i]) \in Options
        /\ \A i \in k .. k + 4 : Token(argv[i]) = "arg"
        /\ Token(argv[k + 5]) = "-sp"
        /\ parsed.field["cmdType"] = argv[k + 1] /\ parsed.field["message"] = argv[k + 2]
    BY <1>2, <2>3, <2>4 DEF CommandUpto
  <2>6. k \in 3 .. n - 5
    BY <1>2, <2>3, <2>4
  <2>7. CommandAt(argv, k)
    BY <2>5, <2>6 DEF CommandAt, n
  <2>8. QED
    BY <1>6, <1>7, <1>9, <2>2, <2>5, <2>7
<1>10. CASE /\ n >= 2 /\ Token(argv[2]) \in Options \ {"-cmd"}
            /\ parsed.state \in Started \cup AfterId /\ parsed.type # "CMD_COMMAND"
  <2>1. final.type # "CMD_COMMAND"
    BY <1>5, <1>10, CommandTypes DEF Gives, AfterId
  <2>2. QED
    BY <1>10, <2>1
<1>11. QED
  BY <1>1, <1>4, <1>8, <1>9, <1>10 DEF Known

\* Arithmetic of places in a line.
LEMMA MoreThanOne == \A x \in Nat \ {0} : x # 1 => x > 1 /\ 2 \in 1 .. x
OBVIOUS

\* A place between two boundaries is within the part that they bound.
LEMMA PlaceWithin ==
  \A q, l, x \in Nat : q < x /\ x <= q + l => x - q \in 1 .. l /\ q + (x - q) = x
OBVIOUS

\* Five lengths that never reach the sixth place are all 1.
LEMMA FiveSingles ==
  ASSUME NEW c \in Nat, NEW Q \in [0 .. 5 -> Nat], NEW L \in [0 .. 4 -> Nat],
         Q[0] = c - 1, \A i \in 0 .. 4 : L[i] >= 1 /\ Q[i + 1] = Q[i] + L[i],
         \A i \in 0 .. 4 : ~(Q[i] < c + 5 /\ c + 5 <= Q[i + 1])
  PROVE  L[0] = 1 /\ L[1] = 1 /\ L[2] = 1
<1>1. /\ Q[0] \in Nat /\ Q[1] \in Nat /\ Q[2] \in Nat /\ Q[3] \in Nat /\ Q[4] \in Nat /\ Q[5] \in Nat
      /\ L[0] \in Nat /\ L[1] \in Nat /\ L[2] \in Nat /\ L[3] \in Nat /\ L[4] \in Nat
  OBVIOUS
<1>2. 0 + 1 = 1 /\ 1 + 1 = 2 /\ 2 + 1 = 3 /\ 3 + 1 = 4 /\ 4 + 1 = 5
  OBVIOUS
<1>3. /\ Q[1] = Q[0] + L[0] /\ Q[2] = Q[1] + L[1] /\ Q[3] = Q[2] + L[2]
      /\ Q[4] = Q[3] + L[3] /\ Q[5] = Q[4] + L[4]
      /\ L[0] >= 1 /\ L[1] >= 1 /\ L[2] >= 1 /\ L[3] >= 1 /\ L[4] >= 1
  BY <1>2
<1>4. /\ ~(Q[0] < c + 5 /\ c + 5 <= Q[1]) /\ ~(Q[1] < c + 5 /\ c + 5 <= Q[2])
      /\ ~(Q[2] < c + 5 /\ c + 5 <= Q[3]) /\ ~(Q[3] < c + 5 /\ c + 5 <= Q[4])
      /\ ~(Q[4] < c + 5 /\ c + 5 <= Q[5])
  BY <1>2
<1>5. QED
  BY <1>1, <1>3, <1>4

\* Places in two parts of a line.
LEMMA Sums ==
  \A a, b, c \in Nat :
    /\ \A j \in 1 .. a : j \in 1 .. a + b
    /\ \A j \in 1 .. b : a + j \in 1 .. a + b /\ (c + a) + j = c + (a + j)
OBVIOUS

\* Where the arguments begin in the line that they are joined to.
LEMMA Places ==
  ASSUME NEW S, NEW argv \in Seq(Seq(S))
  PROVE  /\ FlattenSeq(argv) \in Seq(S)
         /\ \E P \in [1 .. Len(argv) + 1 -> Nat] :
              /\ P[1] = 0 /\ P[Len(argv) + 1] = Len(FlattenSeq(argv))
              /\ \A i \in 1 .. Len(argv) :
                   /\ P[i + 1] = P[i] + Len(argv[i])
                   /\ \A j \in 1 .. Len(argv[i]) : FlattenSeq(argv)[P[i] + j] = argv[i][j]
<1> DEFINE n == Len(argv)
           line == FlattenSeq(argv)
<1>1. n \in Nat /\ \A i \in 1 .. n : argv[i] \in Seq(S)
  BY LenProperties, ElementOfSeq
<1>2. PICK R \in [1 .. n + 1 -> Seq(S)] :
        /\ R[1] = line /\ R[n + 1] = <<>>
        /\ \A i \in 1 .. n : R[i] = argv[i] \o R[i + 1]
  BY Splitting
<1> SUFFICES /\ line \in Seq(S)
             /\ \E P \in [1 .. n + 1 -> Nat] :
                  /\ P[1] = 0 /\ P[n + 1] = Len(line)
                  /\ \A i \in 1 .. n :
                       /\ P[i + 1] = P[i] + Len(argv[i])
                       /\ \A j \in 1 .. Len(argv[i]) : line[P[i] + j] = argv[i][j]
  OBVIOUS
<1> HIDE DEF n, line
<1>3. \A i \in 1 .. n + 1 : R[i] \in Seq(S) /\ Len(R[i]) \in Nat
  BY <1>2, LenProperties
<1>4. \A i \in 1 .. n :
        /\ Len(argv[i]) \in Nat /\ Len(R[i]) = Len(argv[i]) + Len(R[i + 1])
        /\ \A j \in 1 .. Len(argv[i]) : R[i][j] = argv[i][j]
        /\ \A j \in 1 .. Len(R[i + 1]) : R[i][Len(argv[i]) + j] = R[i + 1][j]
  <2>1. \A a, b \in Seq(S) :
          /\ Len(a) \in Nat /\ Len(b) \in Nat /\ Len(a \o b) = Len(a) + Len(b)
          /\ \A j \in 1 .. Len(a) + Len(b) :
               (a \o b)[j] = IF j <= Len(a) THEN a[j] ELSE b[j - Len(a)]
    BY ConcatProperties, LenProperties
  <2>2. ASSUME NEW a \in Seq(S), NEW b \in Seq(S)
        PROVE  /\ Len(a) \in Nat /\ Len(a \o b) = Len(a) + Len(b)
               /\ \A j \in 1 .. Len(a) : (a \o b)[j] = a[j]
               /\ \A j \in 1 .. Len(b) : (a \o b)[Len(a) + j] = b[j]
    <3>1. /\ Len(a) \in Nat /\ Len(b) \in Nat /\ Len(a \o b) = Len(a) + Len(b)
          /\ \A j \in 1 .. Len(a) + Len(b) :
               (a \o b)[j] = IF j <= Len(a) THEN a[j] ELSE b[j - Len(a)]
      BY <2>1
    <3>2. \A j \in 1 .. Len(a) : j \in 1 .. Len(a) + Len(b) /\ j <= Len(a)
      BY <3>1
    <3>3. \A j \in 1 .. Len(b) : Len(a) + j \in 1 .. Len(a) + Len(b) /\ ~(Len(a) + j <= Len(a)) /\ (Len(a) + j) - Len(a) = j
      BY <3>1
    <3>4. QED
      BY <3>1, <3>2, <3>3
  <2>3. ASSUME NEW i \in 1 .. n
        PROVE  argv[i] \in Seq(S) /\ R[i + 1] \in Seq(S) /\ R[i] = argv[i] \o R[i + 1]
    <3>1. i + 1 \in 1 .. n + 1
      BY <1>1
    <3>2. QED
      BY <1>1, <1>2, <1>3, <3>1
  <2>4. \A i \in 1 .. n :
          /\ Len(argv[i]) \in Nat /\ Len(argv[i] \o R[i + 1]) = Len(argv[i]) + Len(R[i + 1])
          /\ \A j \in 1 .. Len(argv[i]) : (argv[i] \o R[i + 1])[j] = argv[i][j]
          /\ \A j \in 1 .. Len(R[i + 1]) : (argv[i] \o R[i + 1])[Len(argv[i]) + j] = R[i + 1][j]
    BY <2>2, <2>3, Zenon
  <2>5. QED
    BY <2>3, <2>4, Zenon
<1> DEFINE P == [i \in 1 .. n + 1 |-> Len(line) - Len(R[i])]
           Place(i) == P[i] \in Nat /\ \A j \in 1 .. Len(R[i]) : line[P[i] + j] = R[i][j]
           T == {k \in Nat : k <= n => Place(k + 1)}
<1>5. \A i \in 1 .. n + 1 : P[i] = Len(line) - Len(R[i])
  OBVIOUS
<1>6. P[1] = 0 /\ P[n + 1] = Len(line)
  <2>1. 1 \in 1 .. n + 1 /\ n + 1 \in 1 .. n + 1 /\ Len(R[n + 1]) = 0
    BY <1>1, <1>2, EmptySeq
  <2>2. QED
    BY <1>2, <1>3, <1>5, <2>1
<1>7. \A i \in 1 .. n : P[i + 1] = P[i] + Len(argv[i])
  <2>1. \A i \in 1 .. n : i \in 1 .. n + 1 /\ i + 1 \in 1 .. n + 1
    BY <1>1
  <2>2. Len(line) \in Nat
    <3>1. 1 \in 1 .. n + 1
      BY <1>1
    <3>2. QED
      BY <1>2, <1>3, <3>1
  <2> HIDE DEF P
  <2>3. ASSUME NEW i \in 1 .. n PROVE P[i + 1] = P[i] + Len(argv[i])
    <3>1. P[i] = Len(line) - Len(R[i]) /\ P[i + 1] = Len(line) - Len(R[i + 1])
      BY <1>5, <2>1
    <3>2. Len(R[i]) = Len(argv[i]) + Len(R[i + 1]) /\ Len(argv[i]) \in Nat /\ Len(R[i + 1]) \in Nat
      BY <1>3, <1>4, <2>1
    <3>3. QED
      BY <2>2, <3>1, <3>2
  <2>4. QED
    BY <2>3
<1> HIDE DEF P
<1>8. 0 \in T
  <2>1. 0 + 1 = 1 /\ 1 \in 1 .. n + 1
    BY <1>1
  <2>2. \A j \in 1 .. Len(R[1]) : 0 + j = j
    BY <1>3, <2>1
  <2>3. Place(1)
    BY <1>2, <1>6, <2>2
  <2> HIDE DEF Place
  <2>4. QED
    BY <2>1, <2>3
<1>9. ASSUME NEW k \in T PROVE k + 1 \in T
  <2>1. SUFFICES ASSUME k + 1 <= n PROVE Place((k + 1) + 1)
    <3> HIDE DEF Place
    <3>1. QED
      OBVIOUS
  <2> DEFINE i == k + 1
  <2>2. Place(k + 1)
    <3> HIDE DEF Place
    <3>1. k \in Nat /\ k <= n
      BY <1>1, <2>1
    <3>2. QED
      BY <3>1
  <2>3. Place(i) /\ i \in 1 .. n /\ i \in 1 .. n + 1 /\ i + 1 \in 1 .. n + 1
    BY <1>1, <2>1, <2>2
  <2>4. SUFFICES Place(i + 1)
    OBVIOUS
  <2> HIDE DEF i
  <2>5. P[i + 1] = P[i] + Len(argv[i]) /\ P[i] \in Nat /\ Len(argv[i]) \in Nat
    BY <1>4, <1>7, <2>3
  <2>6. ASSUME NEW j \in 1 .. Len(R[i + 1]) PROVE line[P[i + 1] + j] = R[i + 1][j]
    <3>0. Len(R[i + 1]) \in Nat
      BY <1>3, <2>3
    <3>1. Len(R[i + 1]) \in Nat /\ Len(R[i]) = Len(argv[i]) + Len(R[i + 1])
      BY <1>4, <2>3, <3>0
    <3>2. Len(argv[i]) + j \in 1 .. Len(R[i]) /\ P[i + 1] + j = P[i] + (Len(argv[i]) + j)
      <4>1. /\ Len(argv[i]) + j \in 1 .. Len(argv[i]) + Len(R[i + 1])
            /\ (P[i] + Len(argv[i])) + j = P[i] + (Len(argv[i]) + j)
        BY <2>5, <3>0, Sums, Zenon
      <4>2. QED
        BY <2>5, <3>1, <4>1, Zenon
    <3>3. line[P[i] + (Len(argv[i]) + j)] = R[i][Len(argv[i]) + j]
      BY <2>3, <3>2
    <3>4. R[i][Len(argv[i]) + j] = R[i + 1][j]
      BY <1>4, <2>3
    <3>5. QED
      BY <3>2, <3>3, <3>4
  <2>7. P[i + 1] \in Nat
    BY <2>5
  <2>8. QED
    BY <2>6, <2>7
<1>10. T = Nat
  <2>1. T \in SUBSET Nat
    OBVIOUS
  <2> HIDE DEF T
  <2>2. QED
    BY <1>8, <1>9, <2>1, SetInduction
<1>11. \A i \in 1 .. n + 1 : Place(i)
  <2>1. ASSUME NEW i \in 1 .. n + 1 PROVE Place(i)
    <3>0. i - 1 \in Nat /\ i - 1 <= n /\ (i - 1) + 1 = i
      BY <1>1
    <3>1. i - 1 \in T
      BY <1>10, <3>0, Zenon
    <3> HIDE DEF Place
    <3>2. QED
      BY <3>0, <3>1
  <2> HIDE DEF Place
  <2>2. QED
    BY <2>1
<1>12. P \in [1 .. n + 1 -> Nat]
  <2>1. \A i \in 1 .. n + 1 : P[i] \in Nat
    BY <1>11
  <2>2. P = [i \in 1 .. n + 1 |-> P[i]]
    BY DEF P
  <2>3. QED
    BY <2>1, <2>2
<1>13. ASSUME NEW i \in 1 .. n, NEW j \in 1 .. Len(argv[i]) PROVE line[P[i] + j] = argv[i][j]
  <2>1. i \in 1 .. n + 1 /\ i + 1 \in 1 .. n + 1
    BY <1>1
  <2>2. j \in 1 .. Len(R[i])
    <3>1. Len(R[i + 1]) \in Nat
      BY <1>3, <2>1
    <3>2. Len(R[i]) = Len(argv[i]) + Len(R[i + 1]) /\ Len(argv[i]) \in Nat
      BY <1>4
    <3>3. QED
      BY <3>1, <3>2, Sums, Zenon
  <2>3. line[P[i] + j] = R[i][j]
    BY <1>11, <2>1, <2>2
  <2>4. R[i][j] = argv[i][j]
    BY <1>4
  <2>5. QED
    BY <2>3, <2>4
<1>14. line \in Seq(S)
  <2>1. 1 \in 1 .. n + 1
    BY <1>1
  <2>2. QED
    BY <1>2, <1>3, <2>1
<1>15. QED
  BY <1>6, <1>7, <1>12, <1>13, <1>14

\* The daemon gets the words of the line as arguments of one word each.
LEMMA Delivered ==
  ASSUME NEW S, NEW line \in Seq(S)
  PROVE  /\ Len(SetCmdLine(line)) \in Nat /\ Len(SetCmdLine(line)) <= Len(line)
         /\ \A i \in 1 .. Len(SetCmdLine(line)) : SetCmdLine(line)[i] = <<line[i]>>
<1>1. \/ SetCmdLine(line) = [i \in DOMAIN line |-> <<line[i]>>]
      \/ line # <<>> /\ SetCmdLine(line) = [i \in DOMAIN Front(line) |-> <<Front(line)[i]>>]
  BY Zenon DEF SetCmdLine
<1>2. DOMAIN line = 1 .. Len(line) /\ Len(line) \in Nat
  BY LenProperties
<1>5. ASSUME NEW m \in Nat, m <= Len(line), SetCmdLine(line) = [i \in 1 .. m |-> <<line[i]>>]
      PROVE  /\ Len(SetCmdLine(line)) \in Nat /\ Len(SetCmdLine(line)) <= Len(line)
             /\ \A i \in 1 .. Len(SetCmdLine(line)) : SetCmdLine(line)[i] = <<line[i]>>
  <2> DEFINE f == [i \in 1 .. m |-> <<line[i]>>]
  <2>1. \A i \in 1 .. m : f[i] = <<line[i]>>
    OBVIOUS
  <2>2. Len(f) = m
    OBVIOUS
  <2>3. SetCmdLine(line) = f
    BY <1>5
  <2> HIDE DEF f
  <2>4. Len(SetCmdLine(line)) = m /\ \A i \in 1 .. m : SetCmdLine(line)[i] = <<line[i]>>
    BY <2>1, <2>2, <2>3
  <2>5. QED
    BY <1>5, <2>4
<1>6. CASE SetCmdLine(line) = [i \in DOMAIN line |-> <<line[i]>>]
  <2>1. Len(line) \in Nat /\ Len(line) <= Len(line)
    BY <1>2
  <2>2. SetCmdLine(line) = [i \in 1 .. Len(line) |-> <<line[i]>>]
    BY <1>2, <1>6
  <2>3. QED
    BY <1>5, <2>1, <2>2
<1>7. CASE line # <<>> /\ SetCmdLine(line) = [i \in DOMAIN Front(line) |-> <<Front(line)[i]>>]
  <2>1. Len(line) \in Nat \ {0}
    BY <1>7, EmptySeq, LenProperties
  <2>2. /\ DOMAIN Front(line) = 1 .. Len(line) - 1
        /\ \A i \in 1 .. Len(line) - 1 : Front(line)[i] = line[i]
    BY <2>1 DEF Front
  <2>3. SetCmdLine(line) = [i \in 1 .. Len(line) - 1 |-> <<line[i]>>]
    BY <1>7, <2>2
  <2>4. Len(line) - 1 \in Nat /\ Len(line) - 1 <= Len(line)
    BY <2>1
  <2>5. QED
    BY <1>5, <2>3, <2>4
<1>8. QED
  BY <1>1, <1>6, <1>7

\* The token of an argument of one word, and of one that hides no option.
LEMMA TokenOfWord ==
  ASSUME NEW arg
  PROVE  /\ Token(arg) # "arg" => Len(arg) = 1 /\ arg[1] = Token(arg) /\ arg[1] \in Options
         /\ Token(arg) = "arg" /\ Len(arg) = 1 => arg[1] \notin Options
BY DEF Token, Options

\* The token of a word that was split off.
LEMMA TokenOfDelivered ==
  ASSUME NEW word
  PROVE  /\ Token(<<word>>) = "arg" => word \notin Options
         /\ Token(<<word>>) # "arg" => word = Token(<<word>>) /\ word \in Options
<1>1. Len(<<word>>) = 1 /\ <<word>>[1] = word
  OBVIOUS
<1>2. QED
  BY <1>1, TokenOfWord

\* A command of the daemon that gets the line is the client's command: when no argument
\* before the -sp hides an option, its five texts can only be the client's.
THEOREM DaemonSeesTheCommand ==
  ASSUME NEW argv \in Seq(Seq(STRING) \ {<<>>}) \ {<<>>}, NEW got,
         got = SetCmdLine(GetCmdLine(argv)),
         \A i \in 1 .. Len(argv) : HidesOption(argv[i]) =>
           i # 1 /\ \A j \in 1 .. Len(argv) : argv[j] = <<"-sp">> => j < i,
         Parse(argv).state = "accept", Parse(got).state = "accept",
         Parse(got).type = "CMD_COMMAND"
  PROVE  /\ Parse(argv).type = "CMD_COMMAND"
         /\ Parse(got).field["cmdType"] = Parse(argv).field["cmdType"]
         /\ Parse(got).field["message"] = Parse(argv).field["message"]
<1> DEFINE n == Len(argv)
           m == Len(got)
           line == FlattenSeq(argv)
<1>0. argv \in Seq(Seq(STRING)) /\ argv # <<>>
  <2>1. Seq(STRING) \ {<<>>} \subseteq Seq(STRING)
    OBVIOUS
  <2>2. QED
    BY <2>1, SeqMonotonic
<1>1. /\ n \in Nat \ {0}
      /\ \A i \in 1 .. n : argv[i] \in Seq(STRING) /\ Len(argv[i]) \in Nat \ {0} /\ DOMAIN argv[i] = 1 .. Len(argv[i])
  <2>1. n \in Nat \ {0}
    BY <1>0, EmptySeq, LenProperties
  <2>2. \A i \in 1 .. n : argv[i] \in Seq(STRING) \ {<<>>}
    BY ElementOfSeq
  <2>3. \A a \in Seq(STRING) \ {<<>>} : Len(a) \in Nat \ {0} /\ DOMAIN a = 1 .. Len(a)
    BY EmptySeq, LenProperties
  <2>4. QED
    BY <2>1, <2>2, <2>3
<1>2. PICK P \in [1 .. n + 1 -> Nat] :
        /\ P[1] = 0 /\ P[n + 1] = Len(line)
        /\ \A i \in 1 .. n :
             /\ P[i + 1] = P[i] + Len(argv[i])
             /\ \A j \in 1 .. Len(argv[i]) : line[P[i] + j] = argv[i][j]
  BY <1>0, Places
<1>3. line \in Seq(STRING) /\ Len(line) \in Nat
  BY <1>0, Places, LenProperties
<1>4. m \in Nat /\ m <= Len(line) /\ \A i \in 1 .. m : got[i] = <<line[i]>>
  BY <1>3, Delivered DEF GetCmdLine
<1>5. /\ \A i \in 1 .. n : HidesOption(argv[i]) =>
           i # 1 /\ \A j \in 1 .. n : argv[j] = <<"-sp">> => j < i
      /\ Parse(argv).state = "accept" /\ Parse(got).state = "accept"
      /\ Parse(got).type = "CMD_COMMAND"
  OBVIOUS
<1>6. PICK k : /\ CommandAt(got, k)
               /\ Parse(got).field["cmdType"] = got[k + 1]
               /\ Parse(got).field["message"] = got[k + 2]
  BY <1>4, <1>5, AcceptedLine, Zenon
<1>7. /\ n >= 2 /\ Token(argv[2]) \in Options
      /\ Token(argv[2]) = "-cmd" /\ Parse(argv).type # "CMD_COMMAND" =>
           \A i \in 3 .. n : Token(argv[i]) \in Options
      /\ Parse(argv).type = "CMD_COMMAND" =>
           \E c : /\ CommandAt(argv, c)
                  /\ Parse(argv).field["cmdType"] = argv[c + 1]
                  /\ Parse(argv).field["message"] = argv[c + 2]
  <2>1. n \in Nat
    BY <1>1
  <2>2. QED
    BY <1>5, <2>1, AcceptedLine, Zenon
<1> HIDE DEF n, m, line
<1>8. /\ k \in Nat /\ 3 <= k /\ k + 5 <= m
      /\ Token(got[2]) = "-cmd" /\ \A i \in 3 .. k - 1 : Token(got[i]) \in Options
      /\ \A i \in k .. k + 4 : Token(got[i]) = "arg"
      /\ Token(got[k + 5]) = "-sp"
  BY <1>4, <1>6 DEF CommandAt, m
<1>9. "-cmd" \in Options /\ "-sp" \in Options /\ "arg" \notin Options
  BY DEF Options
\* What the daemon's tokens say of the words.
<1>10. /\ line[2] = "-cmd" /\ \A i \in 3 .. k - 1 : line[i] \in Options
       /\ \A i \in k .. k + 4 : line[i] \notin Options
       /\ line[k + 5] = "-sp"
  <2>1. ASSUME NEW i \in 1 .. m
        PROVE  /\ Token(got[i]) = "arg" => line[i] \notin Options
               /\ Token(got[i]) # "arg" => line[i] = Token(got[i]) /\ line[i] \in Options
    <3>1. got[i] = <<line[i]>>
      BY <1>4
    <3>2. QED
      BY <3>1, TokenOfDelivered
  <2>2. 2 \in 1 .. m /\ k + 5 \in 1 .. m /\ (\A i \in 3 .. k - 1 : i \in 1 .. m) /\ \A i \in k .. k + 4 : i \in 1 .. m
    BY <1>4, <1>8
  <2>3. line[2] = "-cmd" /\ line[k + 5] = "-sp"
    <3>1. Token(got[2]) # "arg" /\ Token(got[k + 5]) # "arg"
      BY <1>8
    <3>2. QED
      BY <1>8, <2>1, <2>2, <3>1, Zenon
  <2>4. \A i \in 3 .. k - 1 : line[i] \in Options
    BY <1>8, <1>9, <2>1, <2>2
  <2>5. \A i \in k .. k + 4 : line[i] \notin Options
    BY <1>8, <2>1, <2>2
  <2>6. QED
    BY <2>3, <2>4, <2>5
\* What the client's tokens say of them.
<1>11. ASSUME NEW i \in 1 .. n, Token(argv[i]) # "arg"
       PROVE  Len(argv[i]) = 1 /\ line[P[i] + 1] = Token(argv[i]) /\ Token(argv[i]) \in Options
  <2>1. Len(argv[i]) = 1 /\ argv[i][1] = Token(argv[i]) /\ argv[i][1] \in Options
    BY <1>11, TokenOfWord
  <2>2. line[P[i] + 1] = argv[i][1]
    <3>1. 1 \in 1 .. Len(argv[i])
      BY <2>1
    <3>2. QED
      BY <1>2, <3>1
  <2>3. QED
    BY <2>1, <2>2
<1>12. ASSUME NEW c \in 1 .. n + 1, \A i \in 1 .. c - 1 : Len(argv[i]) = 1
       PROVE  \A i \in 1 .. c : P[i] = i - 1
  <2> DEFINE T == {i \in Nat : i + 1 <= c => P[i + 1] = i}
  <2>1. 0 \in T
    BY <1>2
  <2>2. ASSUME NEW i \in T PROVE i + 1 \in T
    <3>1. SUFFICES ASSUME (i + 1) + 1 <= c PROVE P[(i + 1) + 1] = i + 1
      OBVIOUS
    <3>2. i \in Nat /\ i + 1 <= c /\ i + 1 \in 1 .. n /\ i + 1 \in 1 .. c - 1
      BY <1>1, <3>1
    <3>3. P[i + 1] = i
      BY <3>2
    <3>4. P[(i + 1) + 1] = P[i + 1] + Len(argv[i + 1]) /\ Len(argv[i + 1]) = 1
      BY <1>2, <1>12, <3>2
    <3>5. QED
      BY <3>2, <3>3, <3>4
  <2>3. T = Nat
    <3>1. T \in SUBSET Nat
      OBVIOUS
    <3> HIDE DEF T
    <3>2. QED
      BY <2>1, <2>2, <3>1, SetInduction
  <2>4. ASSUME NEW i \in 1 .. c PROVE P[i] = i - 1
    <3>1. i - 1 \in Nat /\ (i - 1) + 1 = i /\ i <= c
      BY <1>1
    <3>2. i - 1 \in T
      BY <2>3, <3>1, Zenon
    <3>3. QED
      BY <3>1, <3>2
  <2>5. QED
    BY <2>4
\* The program is one word, and then comes the -cmd.
<1>13. Len(argv[1]) = 1
  <2>1. SUFFICES ASSUME Len(argv[1]) # 1 PROVE FALSE
    OBVIOUS
  <2>2. 1 \in 1 .. n /\ 2 \in 1 .. Len(argv[1]) /\ Len(argv[1]) > 1 /\ DOMAIN argv[1] = 1 .. Len(argv[1])
    <3>1. 1 \in 1 .. n
      BY <1>1
    <3>2. Len(argv[1]) \in Nat \ {0} /\ DOMAIN argv[1] = 1 .. Len(argv[1])
      BY <1>1, <3>1
    <3>3. QED
      BY <2>1, <3>1, <3>2, MoreThanOne, Zenon
  <2>3. argv[1][2] = line[2]
    <3>1. line[P[1] + 2] = argv[1][2] /\ P[1] = 0
      BY <1>2, <2>2
    <3>2. QED
      BY <3>1
  <2>4. HidesOption(argv[1])
    BY <1>9, <1>10, <2>2, <2>3 DEF HidesOption
  <2>5. QED
    BY <1>5, <2>2, <2>4
<1>14. P[2] = 1 /\ Token(argv[2]) = "-cmd" /\ Len(argv[2]) = 1
  <2>1. 1 \in 1 .. n /\ 2 \in 1 .. n
    BY <1>1, <1>7
  <2>2. P[1 + 1] = P[1] + Len(argv[1])
    BY <1>2, <2>1
  <2>3. P[2] = 1
    BY <1>2, <1>13, <2>2
  <2>4. Len(argv[2]) = 1 /\ line[P[2] + 1] = Token(argv[2])
    BY <1>7, <1>9, <1>11, <2>1
  <2>5. QED
    BY <1>10, <2>3, <2>4
\* A -cmd that lists the commands has no text for the daemon to take as one.
<1>15. Parse(argv).type = "CMD_COMMAND"
  <2>1. SUFFICES ASSUME Parse(argv).type # "CMD_COMMAND" PROVE FALSE
    OBVIOUS
  <2>2. \A i \in 3 .. n : Token(argv[i]) \in Options
    BY <1>7, <1>14, <2>1
  <2>3. ASSUME NEW i \in 3 .. n
        PROVE  Len(argv[i]) = 1 /\ line[P[i] + 1] \in Options
    <3>1. i \in 1 .. n /\ Token(argv[i]) # "arg"
      BY <1>9, <2>2
    <3>2. QED
      BY <1>9, <1>11, <3>1
  <2>4. \A i \in 1 .. n : Len(argv[i]) = 1
    <3>1. \A i \in 1 .. n : i = 1 \/ i = 2 \/ i \in 3 .. n
      BY <1>1
    <3>2. QED
      BY <1>13, <1>14, <2>3, <3>1
  <2>5. \A i \in 1 .. n + 1 : P[i] = i - 1
    <3>1. n + 1 \in 1 .. n + 1 /\ (n + 1) - 1 = n
      BY <1>1
    <3>2. \A i \in 1 .. (n + 1) - 1 : Len(argv[i]) = 1
      BY <2>4, <3>1
    <3>3. QED
      BY <1>12, <3>1, <3>2
  <2>6. Len(line) = n
    BY <1>1, <1>2, <2>5
  <2>7. k \in 3 .. n /\ k \in 1 .. n + 1 /\ k \in k .. k + 4 /\ (k - 1) + 1 = k
    BY <1>1, <1>4, <1>8, <2>6
  <2>8. line[k] \in Options
    BY <2>3, <2>5, <2>7
  <2>9. QED
    BY <1>10, <2>7, <2>8
<1>16. PICK c : /\ CommandAt(argv, c)
                /\ Parse(argv).field["cmdType"] = argv[c + 1]
                /\ Parse(argv).field["message"] = argv[c + 2]
  BY <1>7, <1>15
<1>17. /\ c \in Nat /\ 3 <= c /\ c + 5 <= n
       /\ \A i \in 3 .. c - 1 : Token(argv[i]) \in Options
       /\ \A i \in c .. c + 4 : Token(argv[i]) = "arg"
       /\ Token(argv[c + 5]) = "-sp"
  BY <1>1, <1>16 DEF CommandAt, n
<1>18. c \in Nat /\ 3 <= c /\ c + 5 <= n /\ n \in Nat
  BY <1>1, <1>17
<1>19. \A i \in 1 .. c : P[i] = i - 1
  <2>1. \A i \in 1 .. c - 1 : i \in 1 .. n /\ (i = 1 \/ i = 2 \/ i \in 3 .. c - 1)
    BY <1>18
  <2>2. ASSUME NEW i \in 3 .. c - 1 PROVE Len(argv[i]) = 1
    <3>1. i \in 1 .. n
      BY <1>18
    <3>2. Token(argv[i]) # "arg"
      BY <1>9, <1>17
    <3>3. QED
      BY <1>11, <3>1, <3>2
  <2>3. \A i \in 1 .. c - 1 : Len(argv[i]) = 1
    BY <1>13, <1>14, <2>1, <2>2
  <2>4. c \in 1 .. n + 1
    BY <1>1, <1>17
  <2>5. QED
    BY <1>12, <2>3, <2>4
<1>20. argv[c + 5] = <<"-sp">>
  <2>1. c + 5 \in 1 .. n
    BY <1>18
  <2>2. Len(argv[c + 5]) = 1 /\ argv[c + 5][1] = "-sp"
    BY <1>17, TokenOfWord
  <2>3. argv[c + 5] \in Seq(STRING)
    BY <1>1, <2>1
  <2>4. \A a \in Seq(STRING) : Len(a) = 1 => a = <<a[1]>>
    BY OneElement
  <2>5. QED
    BY <2>2, <2>3, <2>4
\* The words of the five texts are no options.
<1>21. ASSUME NEW i \in c .. c + 4, NEW j \in 1 .. Len(argv[i])
       PROVE  argv[i][j] \notin Options
  <2>1. i \in 1 .. n /\ c + 5 \in 1 .. n /\ ~(c + 5 < i)
    BY <1>18
  <2>2. Len(argv[i]) \in Nat \ {0} /\ DOMAIN argv[i] = 1 .. Len(argv[i])
    BY <1>1, <2>1
  <2>3. CASE Len(argv[i]) = 1
    <3>1. j = 1
      BY <2>3
    <3>2. argv[i][1] \notin Options
      BY <1>17, <2>3, TokenOfWord
    <3>3. QED
      BY <3>1, <3>2
  <2>4. CASE Len(argv[i]) # 1
    <3>1. ~HidesOption(argv[i])
      BY <1>5, <1>20, <2>1
    <3>2. Len(argv[i]) > 1
      BY <2>2, <2>4, MoreThanOne, Zenon
    <3>3. QED
      BY <2>2, <3>1, <3>2 DEF HidesOption
  <2>5. QED
    BY <2>3, <2>4
\* So the daemon finds the first of them where the client has it,
<1>22. k = c
  <2>1. c \in 1 .. c /\ c \in 1 .. n /\ 1 \in 1 .. Len(argv[c]) /\ c \in c .. c + 4 /\ (c - 1) + 1 = c
    <3>1. c \in 1 .. n
      BY <1>18
    <3>2. Len(argv[c]) \in Nat \ {0}
      BY <1>1, <3>1
    <3>3. QED
      BY <1>18, <3>1, <3>2
  <2>2. line[c] = argv[c][1]
    BY <1>2, <1>19, <2>1
  <2>3. line[c] \notin Options
    BY <1>21, <2>1, <2>2
  <2>4. ~(c < k)
    <3>1. c < k => c \in 3 .. k - 1
      BY <1>8, <1>17
    <3>2. QED
      BY <1>10, <2>3, <3>1
  <2>5. ~(k < c)
    <3>1. SUFFICES ASSUME k < c PROVE FALSE
      OBVIOUS
    <3>2. k \in 3 .. c - 1 /\ k \in 1 .. c /\ k \in 1 .. n /\ (k - 1) + 1 = k /\ k \in k .. k + 4
      BY <1>1, <1>8, <1>17, <3>1
    <3>3. Token(argv[k]) \in Options
      BY <1>17, <3>2
    <3>4. line[P[k] + 1] = Token(argv[k])
      BY <1>9, <1>11, <3>2, <3>3
    <3>5. line[k] = Token(argv[k])
      BY <1>19, <3>2, <3>4
    <3>6. QED
      BY <1>10, <3>2, <3>3, <3>5
  <2>6. QED
    BY <1>8, <1>17, <2>4, <2>5
\* and they are one word each: a sixth word would be where the daemon has its -sp.
<1>23. Len(argv[c]) = 1 /\ Len(argv[c + 1]) = 1 /\ Len(argv[c + 2]) = 1
  <2> DEFINE L == [i \in 0 .. 4 |-> Len(argv[c + i])]
             Q == [i \in 0 .. 5 |-> P[c + i]]
  <2>1. ASSUME NEW i \in 0 .. 4
        PROVE  /\ L[i] \in Nat /\ L[i] >= 1 /\ Q[i + 1] = Q[i] + L[i]
               /\ ~(Q[i] < c + 5 /\ c + 5 <= Q[i + 1])
    <3>1. c + i \in 1 .. n /\ c + i \in c .. c + 4 /\ (c + i) + 1 = c + (i + 1)
      BY <1>18
    <3>2. L[i] = Len(argv[c + i]) /\ Q[i] = P[c + i] /\ Q[i + 1] = P[c + (i + 1)]
      OBVIOUS
    <3>3. P[(c + i) + 1] = P[c + i] + Len(argv[c + i]) /\ P[c + i] \in Nat
      <4>1. c + i \in 1 .. n + 1
        BY <1>18
      <4>2. P[c + i] \in Nat
        BY <1>2, <4>1
      <4>3. QED
        BY <1>2, <3>1, <4>2
    <3>4. Len(argv[c + i]) \in Nat \ {0}
      BY <1>1, <3>1
    <3> HIDE DEF L, Q
    <3>5. L[i] \in Nat /\ L[i] >= 1 /\ Q[i] \in Nat /\ Q[i + 1] = Q[i] + L[i]
      BY <3>1, <3>2, <3>3, <3>4
    <3>6. ~(Q[i] < c + 5 /\ c + 5 <= Q[i + 1])
      <4>1. SUFFICES ASSUME Q[i] < c + 5, c + 5 <= Q[i] + L[i] PROVE FALSE
        BY <3>5
      <4> DEFINE j == (c + 5) - Q[i]
      <4>2. j \in 1 .. L[i] /\ Q[i] + j = c + 5
        <5>1. c + 5 \in Nat
          BY <1>18
        <5>2. QED
          BY <3>5, <4>1, <5>1, PlaceWithin, Zenon
      <4> HIDE DEF j
      <4>3. line[P[c + i] + j] = argv[c + i][j]
        BY <1>2, <3>1, <3>2, <4>2
      <4>4. argv[c + i][j] \notin Options
        BY <1>21, <3>1, <3>2, <4>2
      <4>5. line[c + 5] \in Options
        BY <1>9, <1>10, <1>22
      <4>6. QED
        BY <3>2, <4>2, <4>3, <4>4, <4>5
    <3>7. QED
      BY <3>5, <3>6
  <2>2. Q[0] = c - 1 /\ L[0] = Len(argv[c]) /\ L[1] = Len(argv[c + 1]) /\ L[2] = Len(argv[c + 2])
    <3>1. c \in 1 .. c /\ c + 0 = c
      BY <1>18
    <3>2. P[c] = c - 1
      BY <1>19, <3>1
    <3>3. Q[0] = P[c + 0] /\ L[0] = Len(argv[c + 0]) /\ L[1] = Len(argv[c + 1]) /\ L[2] = Len(argv[c + 2])
      OBVIOUS
    <3> HIDE DEF L, Q
    <3>4. QED
      BY <3>1, <3>2, <3>3
  <2>3. L \in [0 .. 4 -> Nat] /\ Q \in [0 .. 5 -> Nat]
    <3>1. \A i \in 0 .. 5 : c + i \in 1 .. n + 1
      BY <1>18
    <3>2. \A i \in 0 .. 5 : P[c + i] \in Nat
      BY <1>2, <3>1
    <3>3. \A i \in 0 .. 4 : Len(argv[c + i]) \in Nat
      <4>1. \A i \in 0 .. 4 : c + i \in 1 .. n
        BY <1>18
      <4>2. QED
        BY <1>1, <4>1
    <3>4. QED
      BY <3>2, <3>3
  <2> HIDE DEF L, Q
  <2>4. L[0] = 1 /\ L[1] = 1 /\ L[2] = 1
    <3>1. c \in Nat
      BY <1>18
    <3>2. QED
      BY <2>1, <2>2, <2>3, <3>1, FiveSingles, Zenon
  <2>5. QED
    BY <2>2, <2>4
<1>24. \A i \in {c + 1, c + 2} : got[i] = argv[i]
  <2>1. P[c] = c - 1 /\ P[c + 1] = c /\ P[c + 2] = c + 1
    <3>1. c \in 1 .. c /\ c \in 1 .. n /\ c + 1 \in 1 .. n /\ (c + 1) + 1 = c + 2
      BY <1>1, <1>17
    <3>2. P[c] = c - 1
      BY <1>19, <3>1
    <3>3. P[c + 1] = c
      <4>1. P[c + 1] = P[c] + 1
        BY <1>2, <1>23, <3>1
      <4>2. QED
        BY <1>18, <3>2, <4>1
    <3>4. P[c + 2] = P[c + 1] + Len(argv[c + 1])
      BY <1>2, <3>1
    <3>5. QED
      BY <1>18, <1>23, <3>2, <3>3, <3>4
  <2>2. ASSUME NEW i \in {c + 1, c + 2} PROVE got[i] = argv[i]
    <3>1. i \in 1 .. n /\ i \in 1 .. m /\ P[i] + 1 = i /\ Len(argv[i]) = 1
      <4>1. k + 5 <= m /\ m \in Nat
        BY <1>4, <1>8
      <4>2. i \in 1 .. n /\ i \in 1 .. m
        BY <1>22, <1>18, <4>1
      <4>3. P[i] + 1 = i
        BY <1>18, <2>1
      <4>4. Len(argv[i]) = 1
        BY <1>23
      <4>5. QED
        BY <4>2, <4>3, <4>4
    <3>2. 1 \in 1 .. Len(argv[i])
      BY <3>1
    <3>3. line[i] = argv[i][1]
      BY <1>2, <3>1, <3>2
    <3>4. got[i] = <<line[i]>>
      BY <1>4, <3>1
    <3>5. \A a \in Seq(STRING) : Len(a) = 1 => a = <<a[1]>>
      BY OneElement
    <3>6. argv[i] = <<argv[i][1]>>
      BY <1>1, <3>1, <3>5
    <3>7. QED
      BY <3>3, <3>4, <3>6
  <2>3. QED
    BY <2>2
<1>25. QED
  BY <1>6, <1>15, <1>16, <1>22, <1>24

\* What comes first of the three results of CreateExternalCommand stays first.
LEMMA ResultFirst ==
  ASSUME NEW result, NEW x,
         \/ result = <<"assert">> \/ result = <<"crash">>
         \/ \E a, b : result = <<"external", a, b>>
  PROVE  (result \o <<x>>)[1] = result[1]
<1>1. CASE result = <<"assert">>
  BY <1>1
<1>2. CASE result = <<"crash">>
  BY <1>2
<1>3. CASE \E a, b : result = <<"external", a, b>>
  <2>1. PICK a, b : result = <<"external", a, b>>
    BY <1>3
  <2>2. QED
    BY <2>1
<1>4. QED
  BY <1>1, <1>2, <1>3

\* Only the command's type and its message decide.
LEMMA ExternalResult ==
  /\ \A cmd : \/ CreateExternalCommand(cmd) = <<"assert">> \/ CreateExternalCommand(cmd) = <<"crash">>
             \/ \E a, b : CreateExternalCommand(cmd) = <<"external", a, b>>
  /\ \A cmd, other :
       /\ cmd.field["cmdType"] = other.field["cmdType"]
       /\ cmd.field["message"] = other.field["message"]
       => CreateExternalCommand(cmd) = CreateExternalCommand(other)
<1>1. ASSUME NEW type, NEW params
      PROVE  \/ ExternalCommand(type, params) = <<"assert">> \/ ExternalCommand(type, params) = <<"crash">>
             \/ \E a, b : ExternalCommand(type, params) = <<"external", a, b>>
  <2> DEFINE wrong == type \notin DOMAIN ExternalCommands \/ Len(params) # ExternalCommands[type].arguments
             missing == Strtol(<<params[1]>>) \notin DOMAIN ExternalCommands[type].choices
             request == ExternalCommands[type].choices[Strtol(<<params[1]>>)]
             value == IF Len(params) > 1 THEN Strtol(<<params[2]>>) % 65536 ELSE 0
  <2>1. ExternalCommand(type, params) =
          IF wrong THEN <<"assert">> ELSE IF missing THEN <<"crash">> ELSE <<"external", request, value>>
    BY DEF ExternalCommand
  <2> HIDE DEF wrong, missing, request, value
  <2>2. QED
    BY <2>1, Zenon
<1>2. ASSUME NEW cmd, NEW other,
             cmd.field["cmdType"] = other.field["cmdType"],
             cmd.field["message"] = other.field["message"]
      PROVE  CreateExternalCommand(cmd) = CreateExternalCommand(other)
  BY <1>2, Zenon DEF CreateExternalCommand
<1>3. ASSUME NEW cmd
      PROVE  \/ CreateExternalCommand(cmd) = <<"assert">> \/ CreateExternalCommand(cmd) = <<"crash">>
             \/ \E a, b : CreateExternalCommand(cmd) = <<"external", a, b>>
  <2> DEFINE type == Strtol(cmd.field["cmdType"])
             params == Split(cmd.field["message"])
  <2>1. CreateExternalCommand(cmd) = ExternalCommand(type, params)
    BY DEF CreateExternalCommand
  <2> HIDE DEF type, params
  <2>2. QED
    BY <1>1, <2>1, Zenon
<1>4. QED
  BY <1>2, <1>3, Zenon

\* Only a -cmd can end in an assertion or in a template that is not there.
LEMMA OthersDoNotAbort ==
  ASSUME NEW cmd
  PROVE  /\ cmd.type # "CMD_COMMAND" => CreateCommand(cmd)[1] \notin {"assert", "crash"}
         /\ cmd.type = "CMD_COMMAND" => CreateCommand(cmd)[1] = CreateExternalCommand(cmd)[1]
<1>1. CommonCommand(cmd)[1] \notin {"assert", "crash"}
  BY DEF CommonCommand
<1>2. CASE cmd.type = "CMD_COMMAND"
  <2>1. CreateCommand(cmd) = CreateExternalCommand(cmd) \o <<Port(cmd)>>
    BY <1>2, Zenon DEF CreateCommand
  <2>2. (CreateExternalCommand(cmd) \o <<Port(cmd)>>)[1] = CreateExternalCommand(cmd)[1]
    BY ExternalResult, ResultFirst, Zenon
  <2>3. QED
    BY <1>2, <2>1, <2>2, Zenon
<1>3. CASE cmd.type = "CMD_GET_MESUREMENTS"
  BY <1>3 DEF CreateCommand
<1>4. CASE cmd.type = "CMD_TEST_DEVICE"
  BY <1>4 DEF CreateCommand
<1>5. CASE cmd.type \notin {"CMD_COMMAND", "CMD_GET_MESUREMENTS", "CMD_TEST_DEVICE"}
  BY <1>1, <1>5 DEF CreateCommand
<1>6. QED
  BY <1>2, <1>3, <1>4, <1>5

\* What the daemon makes of a line that the client made a command of.
THEOREM DaemonDoesNotAbort ==
  ASSUME NEW argv \in Seq(Seq(STRING) \ {<<>>}) \ {<<>>},
         \A i \in 1 .. Len(argv) : HidesOption(argv[i]) =>
           i # 1 /\ \A j \in 1 .. Len(argv) : argv[j] = <<"-sp">> => j < i,
         Understand(argv)[1] \notin {"refused", "assert", "crash"}
  PROVE  Understand(SetCmdLine(GetCmdLine(argv)))[1] \notin {"assert", "crash"}
<1> DEFINE got == SetCmdLine(GetCmdLine(argv))
           cmd == Parse(argv)
           other == Parse(got)
<1>1. /\ \A i \in 1 .. Len(argv) : HidesOption(argv[i]) =>
           i # 1 /\ \A j \in 1 .. Len(argv) : argv[j] = <<"-sp">> => j < i
      /\ cmd = Parse(argv) /\ other = Parse(got) /\ got = SetCmdLine(GetCmdLine(argv))
  OBVIOUS
<1>2. Understand(argv) = IF Compile(cmd) THEN CreateCommand(cmd) ELSE <<"refused">>
  BY Zenon DEF Understand
<1>3. Understand(got) = IF Compile(other) THEN CreateCommand(other) ELSE <<"refused">>
  BY Zenon DEF Understand
<1>4. (Compile(cmd) => cmd.state = "accept") /\ (Compile(other) => other.state = "accept")
  BY Zenon DEF Compile
<1> SUFFICES Understand(got)[1] \notin {"assert", "crash"}
  OBVIOUS
<1>5. Understand(argv)[1] \notin {"refused", "assert", "crash"}
  OBVIOUS
<1> HIDE DEF got, cmd, other
<1>6. Compile(cmd)
  BY <1>2, <1>5
<1>7. CASE Compile(other) /\ other.type = "CMD_COMMAND"
  <2>1. /\ cmd.type = "CMD_COMMAND"
        /\ other.field["cmdType"] = cmd.field["cmdType"]
        /\ other.field["message"] = cmd.field["message"]
    BY <1>1, <1>4, <1>6, <1>7, DaemonSeesTheCommand, Zenon
  <2>2. CreateExternalCommand(other) = CreateExternalCommand(cmd)
    BY <2>1, ExternalResult, Zenon
  <2>3. Understand(argv) = CreateCommand(cmd) /\ Understand(got) = CreateCommand(other)
    BY <1>2, <1>3, <1>6, <1>7, Zenon
  <2>4. CreateCommand(cmd)[1] = CreateCommand(other)[1]
    BY <1>7, <2>1, <2>2, OthersDoNotAbort, Zenon
  <2>5. QED
    BY <1>5, <2>3, <2>4
<1>8. CASE Compile(other) /\ other.type # "CMD_COMMAND"
  BY <1>3, <1>8, OthersDoNotAbort, Zenon
<1>9. CASE ~Compile(other)
  BY <1>3, <1>9
<1>10. QED
  BY <1>7, <1>8, <1>9

-----------------------------------------------------------------------------
(* The tables, the rows of a filter, and the records of a packet.            *)

\* The indices of the channels, one by one, for a look at every row of the table.
LEMMA EachSensor ==
  \A i \in 1 .. 53 :
    \/ i = 1 \/ i = 2 \/ i = 3 \/ i = 4 \/ i = 5 \/ i = 6 \/ i = 7 \/ i = 8 \/ i = 9
    \/ i = 10 \/ i = 11 \/ i = 12 \/ i = 13 \/ i = 14 \/ i = 15 \/ i = 16 \/ i = 17 \/ i = 18
    \/ i = 19 \/ i = 20 \/ i = 21 \/ i = 22 \/ i = 23 \/ i = 24 \/ i = 25 \/ i = 26 \/ i = 27
    \/ i = 28 \/ i = 29 \/ i = 30 \/ i = 31 \/ i = 32 \/ i = 33 \/ i = 34 \/ i = 35 \/ i = 36
    \/ i = 37 \/ i = 38 \/ i = 39 \/ i = 40 \/ i = 41 \/ i = 42 \/ i = 43 \/ i = 44 \/ i = 45
    \/ i = 46 \/ i = 47 \/ i = 48 \/ i = 49 \/ i = 50 \/ i = 51 \/ i = 52 \/ i = 53
OBVIOUS

\* The rows of the channels.
LEMMA SensorRows ==
  /\ DOMAIN Sensor = 1 .. 53
  /\ \A i \in 1 .. 53 :
       /\ Sensor[i][2] \in Int /\ Sensor[i][3] \in 0 .. 6
       /\ Sensor[i][4] \in Nat /\ Sensor[i][5] \in Nat \ {0}
<1>1. DOMAIN Sensor = 1 .. 53
  BY SMT DEF Sensor
<1>2. \A i \in 1 .. 53 :
        /\ Sensor[i][2] \in Int /\ Sensor[i][3] \in 0 .. 6
        /\ Sensor[i][4] \in Nat /\ Sensor[i][5] \in Nat \ {0}
  BY EachSensor, SMTT(30) DEF Sensor
<1>3. QED
  BY <1>1, <1>2

\* No parameter has two channels, and no two channels of a mode share a byte.
LEMMA SensorsApart ==
  \A i, j \in 1 .. 53 : i # j =>
    /\ Sensor[i][2] # Sensor[j][2]
    /\ Sensor[i][3] = Sensor[j][3] =>
         \/ Sensor[i][4] + Sensor[i][5] <= Sensor[j][4]
         \/ Sensor[j][4] + Sensor[j][5] <= Sensor[i][4]
<1>1. \A i, j \in 1 .. 53 : i # j => Sensor[i][2] # Sensor[j][2]
  BY EachSensor, SMTT(60) DEF Sensor
<1>2. \A i, j \in 1 .. 53 : i # j /\ Sensor[i][3] = Sensor[j][3] =>
        \/ Sensor[i][4] + Sensor[i][5] <= Sensor[j][4]
        \/ Sensor[j][4] + Sensor[j][5] <= Sensor[i][4]
  BY EachSensor, SMTT(60) DEF Sensor
<1>3. QED
  BY <1>1, <1>2

\* How long the packets of the modes are.
LEMMA SizesOfModes ==
  /\ ModeSize(0) = 39 /\ ModeSize(1) = 4 /\ ModeSize(2) = 31 /\ ModeSize(3) = 17
  /\ ModeSize(4) = 12 /\ ModeSize(5) = 17 /\ ModeSize(6) = 18
BY SMT DEF ModeSize, m_ackParams

\* The places lie inside the packets, and none is a byte of the clock.
LEMMA SensorsInside ==
  \A i \in 1 .. 53 :
    /\ Sensor[i][4] + Sensor[i][5] <= ModeSize(Sensor[i][3])
    /\ Sensor[i][3] = 0 => Sensor[i][4] + Sensor[i][5] <= 19 \/ 24 < Sensor[i][4]
<1>1. \A i \in 1 .. 53 :
        /\ Sensor[i][3] = 0 => Sensor[i][4] + Sensor[i][5] <= 39
        /\ Sensor[i][3] = 2 => Sensor[i][4] + Sensor[i][5] <= 31
        /\ Sensor[i][3] = 3 => Sensor[i][4] + Sensor[i][5] <= 17
        /\ Sensor[i][3] = 5 => Sensor[i][4] + Sensor[i][5] <= 17
        /\ Sensor[i][3] \in {0, 2, 3, 5}
  BY EachSensor, SMTT(60) DEF Sensor
<1>2. \A i \in 1 .. 53 :
        Sensor[i][3] = 0 => Sensor[i][4] + Sensor[i][5] <= 19 \/ 24 < Sensor[i][4]
  BY EachSensor, SMTT(60) DEF Sensor
<1>3. QED
  BY <1>1, <1>2, SizesOfModes

\* The indices of the settings, one by one.
LEMMA EachSetting ==
  \A i \in 1 .. 44 :
    \/ i = 1 \/ i = 2 \/ i = 3 \/ i = 4 \/ i = 5 \/ i = 6 \/ i = 7 \/ i = 8 \/ i = 9
    \/ i = 10 \/ i = 11 \/ i = 12 \/ i = 13 \/ i = 14 \/ i = 15 \/ i = 16 \/ i = 17 \/ i = 18
    \/ i = 19 \/ i = 20 \/ i = 21 \/ i = 22 \/ i = 23 \/ i = 24 \/ i = 25 \/ i = 26 \/ i = 27
    \/ i = 28 \/ i = 29 \/ i = 30 \/ i = 31 \/ i = 32 \/ i = 33 \/ i = 34 \/ i = 35 \/ i = 36
    \/ i = 37 \/ i = 38 \/ i = 39 \/ i = 40 \/ i = 41 \/ i = 42 \/ i = 43 \/ i = 44
OBVIOUS

\* The bytes of the settings packet have one setting each; the hidden setting has the
\* one that the mode cycle writes.
LEMMA SettingsRows ==
  /\ DOMAIN all_Settings = 1 .. 44
  /\ \A i \in 1 .. 44 : all_Settings[i][2] \in Int /\ all_Settings[i][3] \in Nat \ {0}
  /\ \A i \in 1 .. 44 : all_Settings[i][2] # -1 =>
       /\ 0 <= all_Settings[i][2] /\ all_Settings[i][2] + all_Settings[i][3] <= 47
       /\ all_Settings[i][1] = 45 =>
            all_Settings[i][2] = 22 /\ all_Settings[i][3] = 1
       /\ all_Settings[i][1] # 45 =>
            all_Settings[i][2] + all_Settings[i][3] <= 22 \/ 22 < all_Settings[i][2]
  /\ \A i, j \in 1 .. 44 :
       i # j /\ all_Settings[i][2] # -1 /\ all_Settings[j][2] # -1 =>
         \/ all_Settings[i][2] + all_Settings[i][3] <= all_Settings[j][2]
         \/ all_Settings[j][2] + all_Settings[j][3] <= all_Settings[i][2]
<1>1. DOMAIN all_Settings = 1 .. 44
  BY SMT DEF all_Settings
<1>2. \A i \in 1 .. 44 : all_Settings[i][2] \in Int /\ all_Settings[i][3] \in Nat \ {0}
  BY EachSetting, SMTT(30) DEF all_Settings
<1>3. \A i \in 1 .. 44 : all_Settings[i][2] # -1 =>
        /\ 0 <= all_Settings[i][2] /\ all_Settings[i][2] + all_Settings[i][3] <= 47
        /\ all_Settings[i][1] = 45 =>
             all_Settings[i][2] = 22 /\ all_Settings[i][3] = 1
        /\ all_Settings[i][1] # 45 =>
             all_Settings[i][2] + all_Settings[i][3] <= 22 \/ 22 < all_Settings[i][2]
  BY EachSetting, SMTT(60) DEF all_Settings
<1>4. \A i, j \in 1 .. 44 :
        i # j /\ all_Settings[i][2] # -1 /\ all_Settings[j][2] # -1 =>
          \/ all_Settings[i][2] + all_Settings[i][3] <= all_Settings[j][2]
          \/ all_Settings[j][2] + all_Settings[j][3] <= all_Settings[i][2]
  BY EachSetting, SMTT(60) DEF all_Settings
<1>5. QED
  BY <1>1, <1>2, <1>3, <1>4

\* A parameter has one channel or none.
LEMMA Found ==
  ASSUME NEW param
  PROVE  \/ FindGarameter(param) = <<>> /\ \A i \in 1 .. 53 : Sensor[i][2] # param
         \/ \E i \in 1 .. 53 : Sensor[i][2] = param /\ FindGarameter(param) = <<Sensor[i]>>
<1> DEFINE rows == {i \in DOMAIN Sensor : Sensor[i][2] = param}
           first == CHOOSE i \in rows : \A j \in rows : i <= j
<1>1. FindGarameter(param) = IF rows = {} THEN <<>> ELSE <<Sensor[first]>>
  BY Zenon DEF FindGarameter
<1>2. ASSUME NEW k \in rows PROVE first \in rows
  <2>1. \A j \in rows : j = k
    BY SensorRows, SensorsApart
  <2>2. k <= k
    BY SensorRows
  <2>3. \E i \in rows : \A j \in rows : i <= j
    BY <2>1, <2>2
  <2> HIDE DEF rows
  <2>4. QED
    BY <2>3
<1>3. \A i \in 1 .. 53 : Sensor[i][2] = param <=> i \in rows
  BY SensorRows
<1>4. rows \subseteq 1 .. 53
  BY SensorRows
<1> HIDE DEF rows, first
<1>5. QED
  BY <1>1, <1>2, <1>3, <1>4

\* A row of the filter with the channel i, which has its parameter, as a row of the table.
RowOf(wanted, i) ==
  [channel |-> wanted.channel, param |-> wanted.param,
   mode |-> Sensor[i][3], offset |-> Sensor[i][4], size |-> Sensor[i][5]]

OffsetRows == [channel : Int, param : Int, mode : 0 .. 6, offset : Nat, size : Nat \ {0}]

Wanted(filter, k, i) == i \in 1 .. 53 /\ Sensor[i][2] = filter[k].param

\* The table of offsets after one start: each row of the filter adds one row or none,
\* and P[k] is how many there were before row k of the filter.
LEMMA TableOfFilter ==
  ASSUME NEW filter \in Seq([channel : Int, param : Int])
  PROVE  LET table == CreateOffsetTable(<<>>, filter)
         IN  /\ table \in Seq(OffsetRows)
             /\ \E P \in [1 .. Len(filter) + 1 -> Nat] :
                  /\ P[1] = 0 /\ P[Len(filter) + 1] = Len(table)
                  /\ \A k \in 1 .. Len(filter) :
                       \/ P[k + 1] = P[k] /\ \A i : ~Wanted(filter, k, i)
                       \/ /\ P[k + 1] = P[k] + 1
                          /\ \E i : Wanted(filter, k, i) /\ table[P[k] + 1] = RowOf(filter[k], i)
<1> DEFINE n == Len(filter)
           entry(k) ==
             LET found == FindGarameter(filter[k].param)
             IN  [x \in DOMAIN found |->
                    [channel |-> filter[k].channel, param |-> filter[k].param,
                     mode |-> found[x][3], offset |-> found[x][4], size |-> found[x][5]]]
           parts == [k \in 1 .. n |-> entry(k)]
           table == CreateOffsetTable(<<>>, filter)
<1>1. n \in Nat /\ DOMAIN filter = 1 .. n /\ \A k \in 1 .. n : filter[k] \in [channel : Int, param : Int]
  BY LenProperties, ElementOfSeq
<1>2. table = <<>> \o FlattenSeq(parts)
  <2>1. table = <<>> \o FlattenSeq([k \in DOMAIN filter |-> entry(k)])
    BY Zenon DEF CreateOffsetTable
  <2>2. QED
    BY <1>1, <2>1, Zenon
<1>3. ASSUME NEW k \in 1 .. n, NEW found, found = FindGarameter(filter[k].param)
      PROVE  \/ entry(k) = <<>> /\ \A i : ~Wanted(filter, k, i)
             \/ \E i : Wanted(filter, k, i) /\ entry(k) = <<RowOf(filter[k], i)>>
  <2>1. CASE found = <<>> /\ \A i \in 1 .. 53 : Sensor[i][2] # filter[k].param
    <3>1. DOMAIN <<>> = {}
      OBVIOUS
    <3>2. entry(k) = <<>>
      BY <1>3, <2>1, <3>1
    <3>3. QED
      BY <2>1, <3>2 DEF Wanted
  <2>2. ASSUME NEW i \in 1 .. 53, Sensor[i][2] = filter[k].param, found = <<Sensor[i]>>
        PROVE  entry(k) = <<RowOf(filter[k], i)>>
    <3>1. \A e : DOMAIN <<e>> = 1 .. 1 /\ <<e>>[1] = e
      OBVIOUS
    <3>2. \A e : [x \in 1 .. 1 |-> e] = <<e>>
      OBVIOUS
    <3>3. entry(k) = [x \in 1 .. 1 |-> RowOf(filter[k], i)]
      <4>1. entry(k) = [x \in DOMAIN found |->
                    [channel |-> filter[k].channel, param |-> filter[k].param,
                     mode |-> found[x][3], offset |-> found[x][4], size |-> found[x][5]]]
        BY <1>3, Zenon
      <4>2. DOMAIN found = 1 .. 1 /\ \A x \in 1 .. 1 : x = 1
        BY <2>2, <3>1
      <4>3. found[1] = Sensor[i]
        BY <2>2, <3>1
      <4> HIDE DEF entry
      <4>4. QED
        BY <4>1, <4>2, <4>3 DEF RowOf
    <3> HIDE DEF entry
    <3>4. QED
      BY <3>2, <3>3, Zenon
  <2>3. QED
    <3> HIDE DEF entry
    <3>1. QED
      BY <1>3, <2>1, <2>2, Found, Zenon DEF Wanted
<1>4. \A k \in 1 .. n : \/ parts[k] = <<>> /\ \A i : ~Wanted(filter, k, i)
                        \/ \E i : Wanted(filter, k, i) /\ parts[k] = <<RowOf(filter[k], i)>>
  <2>1. \A k \in 1 .. n : parts[k] = entry(k)
    OBVIOUS
  <2> HIDE DEF entry, parts
  <2>2. QED
    BY <1>3, <2>1
<1>5. \A k \in 1 .. n : \A i : Wanted(filter, k, i) => RowOf(filter[k], i) \in OffsetRows
  BY <1>1, SensorRows DEF Wanted, RowOf, OffsetRows
<1>6. parts \in Seq(Seq(OffsetRows)) /\ Len(parts) = n
  <2>1. <<>> \in Seq(OffsetRows) /\ \A e \in OffsetRows : <<e>> \in Seq(OffsetRows)
    OBVIOUS
  <2>2. \A k \in 1 .. n : parts[k] \in Seq(OffsetRows)
    <3> HIDE DEF parts
    <3>1. QED
      BY <1>4, <1>5, <2>1
  <2>3. parts \in [1 .. n -> Seq(OffsetRows)]
    <3>1. parts = [k \in 1 .. n |-> parts[k]]
      BY Zenon
    <3> HIDE DEF parts
    <3>2. QED
      BY <2>2, <3>1
  <2> HIDE DEF parts
  <2>4. QED
    BY <1>1, <2>3, FunctionIsSeq
<1> SUFFICES /\ table \in Seq(OffsetRows)
             /\ \E P \in [1 .. n + 1 -> Nat] :
                  /\ P[1] = 0 /\ P[n + 1] = Len(table)
                  /\ \A k \in 1 .. n :
                       \/ P[k + 1] = P[k] /\ \A i : ~Wanted(filter, k, i)
                       \/ /\ P[k + 1] = P[k] + 1
                          /\ \E i : Wanted(filter, k, i) /\ table[P[k] + 1] = RowOf(filter[k], i)
  OBVIOUS
<1> HIDE DEF n, parts, table
<1>7. FlattenSeq(parts) \in Seq(OffsetRows) /\ table = FlattenSeq(parts)
  <2>1. FlattenSeq(parts) \in Seq(OffsetRows)
    BY <1>6, Places
  <2>2. QED
    BY <1>2, <2>1, ConcatEmptySeq
<1>8. PICK P \in [1 .. n + 1 -> Nat] :
        /\ P[1] = 0 /\ P[n + 1] = Len(table)
        /\ \A k \in 1 .. n :
             /\ P[k + 1] = P[k] + Len(parts[k])
             /\ \A j \in 1 .. Len(parts[k]) : table[P[k] + j] = parts[k][j]
  <2>1. \E P \in [1 .. Len(parts) + 1 -> Nat] :
          /\ P[1] = 0 /\ P[Len(parts) + 1] = Len(FlattenSeq(parts))
          /\ \A k \in 1 .. Len(parts) :
               /\ P[k + 1] = P[k] + Len(parts[k])
               /\ \A j \in 1 .. Len(parts[k]) : FlattenSeq(parts)[P[k] + j] = parts[k][j]
    BY <1>6, Places, Zenon
  <2>2. QED
    BY <1>6, <1>7, <2>1, Zenon
<1>9. ASSUME NEW k \in 1 .. n
      PROVE  \/ P[k + 1] = P[k] /\ \A i : ~Wanted(filter, k, i)
             \/ /\ P[k + 1] = P[k] + 1
                /\ \E i : Wanted(filter, k, i) /\ table[P[k] + 1] = RowOf(filter[k], i)
  <2>1. k \in 1 .. n + 1 /\ P[k] \in Nat
    BY <1>1
  <2>2. Len(<<>>) = 0 /\ \A e : Len(<<e>>) = 1 /\ <<e>>[1] = e
    OBVIOUS
  <2>3. CASE parts[k] = <<>> /\ \A i : ~Wanted(filter, k, i)
    BY <1>8, <2>1, <2>2, <2>3
  <2>4. ASSUME NEW i, Wanted(filter, k, i), parts[k] = <<RowOf(filter[k], i)>>
        PROVE  P[k + 1] = P[k] + 1 /\ table[P[k] + 1] = RowOf(filter[k], i)
    <3>1. Len(parts[k]) = 1 /\ parts[k][1] = RowOf(filter[k], i) /\ 1 \in 1 .. 1
      BY <2>2, <2>4
    <3>2. QED
      BY <1>8, <3>1, Zenon
  <2>5. QED
    BY <1>4, <2>3, <2>4, Zenon
<1>10. QED
  BY <1>7, <1>8, <1>9, Zenon

\* The record that a row of the table makes of a packet.
RecordOf(entry, data) ==
  DBDataPacket(entry.channel, entry.param, Value(data, entry.offset, entry.size))

\* One row after the other, as ReportDataPacket meets them.
RecordNext(table, mode, data, n, before) ==
  IF table[n].mode # mode THEN before ELSE Append(before, RecordOf(table[n], data))

Recording(table, mode, data, f) ==
  f = [n \in 0 .. Len(table) |->
         IF n = 0 THEN <<>> ELSE RecordNext(table, mode, data, n, f[n - 1])]

\* The equation of ReportDataPacket has a solution.
LEMMA RecordingExists ==
  ASSUME NEW table, NEW mode, NEW data, Len(table) \in Nat
  PROVE  \E f : Recording(table, mode, data, f)
<1> DEFINE Step(f, i) == IF i = 0 THEN <<>> ELSE RecordNext(table, mode, data, i, f[i - 1])
           Upto(k) == \E f : f = [i \in 0 .. k |-> Step(f, i)]
           T == {k \in Nat : Upto(k)}
<1>1. 0 \in T
  <2> DEFINE f == [i \in 0 .. 0 |-> <<>>]
  <2>1. \A i \in 0 .. 0 : Step(f, i) = <<>>
    <3>1. \A i \in 0 .. 0 : i = 0
      OBVIOUS
    <3> HIDE DEF f
    <3>2. QED
      BY <3>1
  <2> HIDE DEF Step
  <2>2. f = [i \in 0 .. 0 |-> Step(f, i)]
    BY <2>1
  <2> HIDE DEF f
  <2>3. QED
    BY <2>2
<1>2. ASSUME NEW k \in T PROVE k + 1 \in T
  <2>1. PICK f : f = [i \in 0 .. k |-> Step(f, i)]
    OBVIOUS
  <2> DEFINE g == [i \in 0 .. k + 1 |-> IF i <= k THEN f[i] ELSE Step(f, i)]
  <2>2. ASSUME NEW i \in 0 .. k + 1 PROVE g[i] = Step(g, i)
    <3>1. i = 0 \/ (i - 1 \in 0 .. k /\ g[i - 1] = f[i - 1])
      OBVIOUS
    <3>2. Step(g, i) = Step(f, i)
      <4> HIDE DEF g
      <4>1. QED
        BY <3>1
    <3>3. g[i] = IF i <= k THEN f[i] ELSE Step(f, i)
      OBVIOUS
    <3>4. i <= k => f[i] = Step(f, i)
      <4>1. i <= k => i \in 0 .. k
        OBVIOUS
      <4> HIDE DEF Step
      <4>2. QED
        BY <2>1, <4>1
    <3> HIDE DEF g, Step
    <3>5. QED
      BY <3>2, <3>3, <3>4
  <2>3. g = [i \in 0 .. k + 1 |-> g[i]]
    OBVIOUS
  <2> HIDE DEF g, Step
  <2>4. g = [i \in 0 .. k + 1 |-> Step(g, i)]
    BY <2>2, <2>3
  <2>5. Upto(k + 1) /\ k + 1 \in Nat
    BY <2>4
  <2>6. QED
    BY <2>5
<1>3. T = Nat
  <2> HIDE DEF Upto
  <2>1. QED
    BY <1>1, <1>2, SetInduction
<1>4. QED
  BY <1>3 DEF Recording

\* ReportDataPacket goes from row to row, adding a record or not.
LEMMA RecordingSteps ==
  ASSUME NEW table, NEW mode, NEW data, Len(table) \in Nat
  PROVE  \E f : /\ f[0] = <<>> /\ ReportDataPacket(table, mode, data) = f[Len(table)]
                /\ \A n \in 1 .. Len(table) :
                     /\ table[n].mode # mode => f[n] = f[n - 1]
                     /\ table[n].mode = mode => f[n] = Append(f[n - 1], RecordOf(table[n], data))
<1> DEFINE records[n \in 0 .. Len(table)] ==
             IF n = 0 THEN <<>>
             ELSE IF table[n].mode # mode THEN records[n - 1]
             ELSE Append(records[n - 1],
                         DBDataPacket(table[n].channel, table[n].param,
                                      Value(data, table[n].offset, table[n].size)))
<1>1. records = CHOOSE f : Recording(table, mode, data, f)
  BY DEF Recording, RecordNext, RecordOf
<1>2. ReportDataPacket(table, mode, data) = records[Len(table)]
  BY DEF ReportDataPacket
<1> HIDE DEF records
<1>3. Recording(table, mode, data, records)
  BY <1>1, RecordingExists
<1>4. records[0] = <<>>
  BY <1>3 DEF Recording
<1>5. ASSUME NEW n \in 1 .. Len(table)
      PROVE  records[n] = RecordNext(table, mode, data, n, records[n - 1])
  <2>1. n \in 0 .. Len(table) /\ n # 0
    OBVIOUS
  <2>2. QED
    BY <1>3, <2>1 DEF Recording
<1>6. QED
  BY <1>2, <1>4, <1>5 DEF RecordNext

\* Counting the members of a set of numbers up to one of them.
Counts(n, W, c) ==
  /\ c \in [0 .. n -> Nat] /\ c[0] = 0 /\ c[n] = Cardinality(W)
  /\ \A k \in 0 .. n : c[k] = Cardinality({j \in W : j <= k})
  /\ \A k \in 0 .. n - 1 :
       /\ k + 1 \in W => c[k + 1] = c[k] + 1
       /\ k + 1 \notin W => c[k + 1] = c[k]
  /\ \A k \in W, m \in 0 .. n : k <= m => c[k] \in 1 .. c[m]

LEMMA CountedUpto ==
  ASSUME NEW n \in Nat, NEW W \in SUBSET (1 .. n)
  PROVE  \E c : Counts(n, W, c)
<1> DEFINE U(k) == {j \in W : j <= k}
           c == [k \in 0 .. n |-> Cardinality(U(k))]
<1>0. \A k : U(k) \subseteq W /\ \A j : j \in U(k) <=> j \in W /\ j <= k
  OBVIOUS
<1>20. \A j \in W : j \in 1 .. n /\ j \in Nat /\ 1 <= j /\ j <= n
  OBVIOUS
<1>1. \A k \in 0 .. n : IsFiniteSet(U(k)) /\ Cardinality(U(k)) \in Nat
  <2>1. IsFiniteSet(1 .. n)
    BY FS_Interval
  <2>2. \A k \in 0 .. n : U(k) \subseteq 1 .. n
    OBVIOUS
  <2> HIDE DEF U
  <2>3. QED
    BY <2>1, <2>2, FS_Subset, FS_CardinalityType
<1>2. U(0) = {} /\ U(n) = W
  <2> HIDE DEF U
  <2>1. \A j \in W : ~(j <= 0) /\ j <= n
    BY <1>20
  <2>2. QED
    BY <1>0, <2>1
<1>3. ASSUME NEW k \in 0 .. n - 1
      PROVE  /\ k + 1 \in W => Cardinality(U(k + 1)) = Cardinality(U(k)) + 1
             /\ k + 1 \notin W => U(k + 1) = U(k)
  <2> HIDE DEF U
  <2>5. \A j \in W : (j <= k + 1 <=> j <= k \/ j = k + 1)
    BY <1>20
  <2>6. ~(k + 1 <= k) /\ k + 1 <= k + 1
    OBVIOUS
  <2>1. k + 1 \notin W => U(k + 1) = U(k)
    BY <1>0, <2>5
  <2>2. k + 1 \in W => U(k + 1) = U(k) \cup {k + 1} /\ k + 1 \notin U(k)
    BY <1>0, <2>5, <2>6
  <2>3. k \in 0 .. n
    OBVIOUS
  <2>4. QED
    BY <1>1, <2>1, <2>2, <2>3, FS_AddElement
<1>4. ASSUME NEW k \in W, NEW m \in 0 .. n, k <= m
      PROVE  Cardinality(U(k)) \in 1 .. Cardinality(U(m))
  <2> HIDE DEF U
  <2>7. k \in 0 .. n /\ k <= k /\ \A j \in W : j <= k => j <= m
    BY <1>4, <1>20
  <2>1. U(k) \subseteq U(m) /\ k \in U(k) /\ k \in 0 .. n
    BY <1>0, <2>7
  <2>2. Cardinality(U(k)) <= Cardinality(U(m))
    BY <1>1, <2>1, FS_Subset
  <2>3. Cardinality(U(k)) # 0
    BY <1>1, <2>1, FS_EmptySet
  <2>4. Cardinality(U(k)) \in Nat /\ Cardinality(U(m)) \in Nat
    BY <1>1, <2>1
  <2>5. \A x, y \in Nat : x <= y /\ x # 0 => x \in 1 .. y
    OBVIOUS
  <2>6. QED
    BY <2>2, <2>3, <2>4, <2>5
<1>5. \A k \in 0 .. n : c[k] = Cardinality(U(k))
  OBVIOUS
<1>6. c \in [0 .. n -> Nat]
  BY <1>1
<1>7. /\ 0 \in 0 .. n /\ n \in 0 .. n /\ \A k \in W : k \in 0 .. n
      /\ \A k \in 0 .. n - 1 : k \in 0 .. n /\ k + 1 \in 0 .. n
  OBVIOUS
<1>8. Cardinality(U(0)) = 0
  BY <1>2, FS_EmptySet
<1> SUFFICES /\ c[0] = 0 /\ c[n] = Cardinality(W)
             /\ \A k \in 0 .. n - 1 :
                  /\ k + 1 \in W => c[k + 1] = c[k] + 1
                  /\ k + 1 \notin W => c[k + 1] = c[k]
             /\ \A k \in W, m \in 0 .. n : k <= m => c[k] \in 1 .. c[m]
  <2>1. \A k \in 0 .. n : c[k] = Cardinality({j \in W : j <= k})
    OBVIOUS
  <2> HIDE DEF c, U
  <2>2. QED
    BY <1>6, <2>1 DEF Counts
<1> HIDE DEF c, U
<1>9. c[0] = 0 /\ c[n] = Cardinality(W)
  BY <1>2, <1>5, <1>7, <1>8
<1>10. \A k \in 0 .. n - 1 :
         /\ k + 1 \in W => c[k + 1] = c[k] + 1
         /\ k + 1 \notin W => c[k + 1] = c[k]
  BY <1>3, <1>5, <1>7
<1>11. \A k \in W, m \in 0 .. n : k <= m => c[k] \in 1 .. c[m]
  BY <1>4, <1>5, <1>7
<1>12. QED
  BY <1>9, <1>10, <1>11

\* What never falls is nowhere above its end.
LEMMA NeverAboveEnd ==
  ASSUME NEW n \in Nat, NEW P \in [1 .. n + 1 -> Nat], \A k \in 1 .. n : P[k] <= P[k + 1]
  PROVE  \A k \in 1 .. n + 1 : P[k] <= P[n + 1]
<1> DEFINE T == {d \in Nat : d <= n => P[n + 1 - d] <= P[n + 1]}
<1>0. \A k \in 1 .. n + 1 : P[k] \in Nat
  OBVIOUS
<1>1. 0 \in T
  <2>1. n + 1 - 0 = n + 1 /\ n + 1 \in 1 .. n + 1
    OBVIOUS
  <2>2. P[n + 1] <= P[n + 1]
    BY <1>0, <2>1
  <2>3. QED
    BY <2>1, <2>2
<1>2. ASSUME NEW d \in T PROVE d + 1 \in T
  <2>1. SUFFICES ASSUME d + 1 <= n PROVE P[n + 1 - (d + 1)] <= P[n + 1]
    OBVIOUS
  <2>2. /\ n + 1 - (d + 1) = n - d /\ n - d \in 1 .. n /\ (n - d) + 1 = n + 1 - d /\ d <= n
        /\ n - d \in 1 .. n + 1 /\ n + 1 - d \in 1 .. n + 1 /\ n + 1 \in 1 .. n + 1
    BY <2>1
  <2>3. P[n - d] <= P[n + 1 - d] /\ P[n + 1 - d] <= P[n + 1]
    BY <2>2
  <2>4. \A a, b, c \in Nat : a <= b /\ b <= c => a <= c
    OBVIOUS
  <2>5. QED
    BY <1>0, <2>2, <2>3, <2>4, Zenon
<1>3. T = Nat
  <2>1. T \in SUBSET Nat
    OBVIOUS
  <2> HIDE DEF T
  <2>2. QED
    BY <1>1, <1>2, <2>1, SetInduction
<1>4. ASSUME NEW k \in 1 .. n + 1 PROVE P[k] <= P[n + 1]
  <2>1. n + 1 - k \in Nat /\ n + 1 - k <= n /\ n + 1 - (n + 1 - k) = k
    OBVIOUS
  <2>2. n + 1 - k \in T
    BY <1>3, <2>1, Zenon
  <2>3. QED
    BY <2>1, <2>2
<1>5. QED
  BY <1>4

\* What is recorded of the row k.
RecordOfRow(filter, data, k, i) ==
  DBDataPacket(filter[k].channel, filter[k].param, Value(data, Sensor[i][4], Sensor[i][5]))

\* The records are of the rows W of the filter, one of each, in order.
RecordsOf(filter, mode, data, W, records) ==
  /\ Len(records) = Cardinality(W)
  /\ \A k \in W : \E i \in Channels(filter, mode, k) :
       records[Cardinality({j \in W : j <= k})] = RecordOfRow(filter, data, k, i)

\* Every row of the filter that wants a parameter of the mode is recorded once, in order,
\* and nothing else is.
LEMMA WantedIsRecorded ==
  ASSUME NEW filter \in Seq([channel : Int, param : Int]), NEW mode, NEW data,
         NEW W, W = {k \in 1 .. Len(filter) : Channels(filter, mode, k) # {}},
         NEW records, records = ReportDataPacket(CreateOffsetTable(<<>>, filter), mode, data)
  PROVE  RecordsOf(filter, mode, data, W, records)
<1> DEFINE n == Len(filter)
           table == CreateOffsetTable(<<>>, filter)
           size == Len(table)
           S == {RecordOf(table[x], data) : x \in 1 .. size}
           Good(k, record) ==
             \E i \in Channels(filter, mode, k) : record = RecordOfRow(filter, data, k, i)
<1>1. n \in Nat /\ W \in SUBSET (1 .. n)
  BY LenProperties
<1>2. table \in Seq(OffsetRows) /\ size \in Nat
  BY TableOfFilter, LenProperties
<1>3. PICK P \in [1 .. n + 1 -> Nat] :
        /\ P[1] = 0 /\ P[n + 1] = size
        /\ \A k \in 1 .. n :
             \/ P[k + 1] = P[k] /\ \A i : ~Wanted(filter, k, i)
             \/ /\ P[k + 1] = P[k] + 1
                /\ \E i : Wanted(filter, k, i) /\ table[P[k] + 1] = RowOf(filter[k], i)
  BY TableOfFilter
<1>4. PICK f : /\ f[0] = <<>> /\ records = f[size]
               /\ \A x \in 1 .. size :
                    /\ table[x].mode # mode => f[x] = f[x - 1]
                    /\ table[x].mode = mode => f[x] = Append(f[x - 1], RecordOf(table[x], data))
  BY <1>2, RecordingSteps
<1>20. PICK c : Counts(n, W, c)
  <2> HIDE DEF n
  <2>1. QED
    BY <1>1, CountedUpto
<1>5. /\ c \in [0 .. n -> Nat] /\ c[0] = 0 /\ c[n] = Cardinality(W)
      /\ \A k \in 0 .. n : c[k] = Cardinality({j \in W : j <= k})
      /\ \A k \in 0 .. n - 1 :
           /\ k + 1 \in W => c[k + 1] = c[k] + 1
           /\ k + 1 \notin W => c[k + 1] = c[k]
      /\ \A k \in W, m \in 0 .. n : k <= m => c[k] \in 1 .. c[m]
  <2> HIDE DEF n
  <2>1. QED
    BY <1>20, Zenon DEF Counts
<1>6. \A k \in 1 .. n : k \in W <=> \E i : Wanted(filter, k, i) /\ Sensor[i][3] = mode
  BY SensorRows DEF Wanted, Channels
<1> SUFFICES Len(records) = Cardinality(W) /\ \A k \in W : Good(k, records[c[k]])
  <2>1. \A k \in W : c[k] = Cardinality({j \in W : j <= k})
    <3> HIDE DEF n
    <3>1. \A k \in W : k \in 1 .. n
      BY <1>1, Zenon
    <3>2. \A k \in 1 .. n : k \in 0 .. n
      BY <1>1
    <3>3. QED
      BY <1>5, <3>1, <3>2, Zenon
  <2>2. QED
    BY <2>1, Zenon DEF RecordsOf
<1>7. \A x \in 1 .. size : RecordOf(table[x], data) \in S
  OBVIOUS
<1>8. \A k \in 1 .. n : \A i : Wanted(filter, k, i) /\ Sensor[i][3] = mode =>
        Good(k, RecordOf(RowOf(filter[k], i), data))
  BY SensorRows DEF Wanted, Channels, RecordOf, RowOf, RecordOfRow
<1>9. \A k \in 1 .. n : \A i : Wanted(filter, k, i) => RowOf(filter[k], i).mode = Sensor[i][3]
  BY DEF RowOf
\* A parameter that is found twice is the same row.
<1>10. \A k \in 1 .. n : \A i, j : Wanted(filter, k, i) /\ Wanted(filter, k, j) => i = j
  BY SensorsApart DEF Wanted
<1> HIDE DEF n, table, size, S, Good
<1>11. \A k \in 1 .. n + 1 : P[k] \in Nat /\ P[k] <= size
  <2>1. \A k \in 1 .. n : P[k] <= P[k + 1]
    <3>1. \A k \in 1 .. n : P[k + 1] = P[k] \/ P[k + 1] = P[k] + 1
      BY <1>3
    <3>2. \A k \in 1 .. n : P[k] \in Nat
      BY <1>1
    <3>3. QED
      BY <3>1, <3>2
  <2>2. \A k \in 1 .. n + 1 : P[k] <= P[n + 1]
    BY <1>1, <2>1, NeverAboveEnd
  <2>3. QED
    BY <1>3, <2>2
<1> DEFINE Done(k, now) ==
             /\ now \in Seq(S) /\ Len(now) = c[k]
             /\ \A w \in W : w <= k => Good(w, now[c[w]])
           T == {k \in Nat : k <= n => Done(k, f[P[k + 1]])}
<1>12. 0 \in T
  <2>1. 0 + 1 = 1 /\ \A w \in W : ~(w <= 0)
    BY <1>1
  <2>2. <<>> \in Seq(S) /\ Len(<<>>) = 0
    OBVIOUS
  <2>3. QED
    BY <1>3, <1>4, <1>5, <2>1, <2>2
\* The rows up to k are recorded, and one more is looked at.
<1>13. ASSUME NEW k \in T, k + 1 <= n PROVE Done(k + 1, f[P[(k + 1) + 1]])
  <2> DEFINE m == k + 1
             x == P[m]
             before == f[x]
  <2>1. k \in 0 .. n /\ k \in 0 .. n - 1 /\ m \in 1 .. n /\ m \in 1 .. n + 1 /\ m + 1 \in 1 .. n + 1 /\ m \in 0 .. n /\ k <= n
    BY <1>1, <1>13
  <2>2. Done(k, before)
    BY <2>1
  <2>3. x \in Nat /\ P[m + 1] \in Nat /\ P[m + 1] <= size /\ c[k] \in Nat /\ c[m] \in Nat
    BY <1>5, <1>11, <2>1
  <2>4. (m \in W => c[m] = c[k] + 1) /\ (m \notin W => c[m] = c[k])
    BY <1>5, <2>1
  <2>5. \A w \in W : w <= m => w <= k \/ w = m
    BY <1>1
  <2>6. \A w \in W : w <= k => c[w] \in 1 .. c[k]
    BY <1>5, <2>1
  <2>7. \/ P[m + 1] = x /\ \A i : ~Wanted(filter, m, i)
        \/ /\ P[m + 1] = x + 1
           /\ \E i : Wanted(filter, m, i) /\ table[x + 1] = RowOf(filter[m], i)
    BY <1>3, <2>1
  <2> SUFFICES Done(m, f[P[m + 1]])
    OBVIOUS
  <2> HIDE DEF m, x
  <2>8. ASSUME m \notin W, f[P[m + 1]] = before PROVE Done(m, f[P[m + 1]])
    <3>1. \A w \in W : w <= m => w <= k
      BY <2>5, <2>8
    <3> HIDE DEF before
    <3>2. QED
      BY <2>2, <2>4, <2>8, <3>1
  <2>9. CASE P[m + 1] = x /\ \A i : ~Wanted(filter, m, i)
    BY <1>6, <2>1, <2>8, <2>9
  <2>10. ASSUME NEW i, P[m + 1] = x + 1, Wanted(filter, m, i), table[x + 1] = RowOf(filter[m], i)
         PROVE  Done(m, f[P[m + 1]])
    <3>1. x + 1 \in 1 .. size /\ (x + 1) - 1 = x
      <4>1. x + 1 <= size
        BY <2>3, <2>10, Zenon
      <4>2. x \in Nat /\ size \in Nat
        BY <1>2, <2>3
      <4>3. QED
        BY <4>1, <4>2
    <3>2. table[x + 1].mode = Sensor[i][3] /\ RecordOf(table[x + 1], data) \in S
      BY <1>7, <1>9, <2>1, <2>10, <3>1
    <3>3. m \in W <=> Sensor[i][3] = mode
      BY <1>6, <1>10, <2>1, <2>10, Zenon
    <3>4. CASE Sensor[i][3] # mode
      <4>1. f[x + 1] = f[(x + 1) - 1]
        BY <1>4, <3>1, <3>2, <3>4, Zenon
      <4>2. f[P[m + 1]] = before
        BY <2>10, <3>1, <4>1
      <4>3. QED
        BY <2>8, <3>3, <3>4, <4>2
    <3>5. CASE Sensor[i][3] = mode
      <4> DEFINE record == RecordOf(table[x + 1], data)
                 after == Append(before, record)
      <4>1. f[x + 1] = Append(f[(x + 1) - 1], record)
        BY <1>4, <3>1, <3>2, <3>5, Zenon
      <4>2. f[P[m + 1]] = after
        BY <2>10, <3>1, <4>1
      <4>3. Good(m, record) /\ record \in S
        BY <1>8, <2>1, <2>10, <3>2, <3>5
      <4> HIDE DEF record, before
      <4>4. before \in Seq(S) /\ Len(before) = c[k]
        BY <2>2
      <4>5. /\ after \in Seq(S) /\ Len(after) = c[k] + 1
            /\ \A y \in 1 .. c[k] : after[y] = before[y]
            /\ after[c[k] + 1] = record
        BY <4>3, <4>4, AppendProperties
      <4> HIDE DEF after
      <4>6. c[m] = c[k] + 1
        BY <2>4, <3>3, <3>5
      <4>7. ASSUME NEW w \in W, w <= m PROVE Good(w, after[c[w]])
        <5>1. CASE w <= k
          <6>1. after[c[w]] = before[c[w]]
            BY <2>6, <4>5, <5>1
          <6>2. Good(w, before[c[w]])
            BY <2>2, <5>1
          <6>3. QED
            BY <6>1, <6>2
        <5>2. CASE w = m
          BY <4>3, <4>5, <4>6, <5>2
        <5>3. QED
          BY <2>5, <4>7, <5>1, <5>2
      <4>8. QED
        BY <4>2, <4>5, <4>6, <4>7
    <3>6. QED
      BY <3>4, <3>5
  <2>11. QED
    BY <2>7, <2>9, <2>10, Zenon
<1>14. T = Nat
  <2>1. ASSUME NEW k \in T PROVE k + 1 \in T
    <3> HIDE DEF Done
    <3>1. QED
      BY <1>13
  <2> HIDE DEF T
  <2>2. T \in SUBSET Nat
    BY DEF T
  <2>3. QED
    BY <1>12, <2>1, <2>2, SetInduction
<1>15. Done(n, f[P[n + 1]])
  <2>1. n <= n
    BY <1>1
  <2>2. n \in T
    BY <1>1, <1>14, Zenon
  <2> HIDE DEF Done
  <2>3. QED
    BY <2>1, <2>2
<1>16. QED
  <2>3. \A w \in W : w \in 1 .. n
    BY <1>1, Zenon
  <2>1. \A w \in W : w <= n
    BY <1>1, <2>3
  <2>2. QED
    BY <1>3, <1>4, <1>5, <1>15, <2>1

\* Every row of the table comes from a row of the filter, and has the place of the
\* channel with its parameter.
LEMMA RowsOfTable ==
  ASSUME NEW filter \in Seq([channel : Int, param : Int]),
         NEW table, table = CreateOffsetTable(<<>>, filter)
  PROVE  /\ Len(table) \in Nat /\ DOMAIN table = 1 .. Len(table)
         /\ \A x \in 1 .. Len(table) : \E k \in 1 .. Len(filter) : \E i :
              Wanted(filter, k, i) /\ table[x] = RowOf(filter[k], i)
<1> DEFINE n == Len(filter)
           size == Len(table)
           From(x) == \E k \in 1 .. n : \E i : Wanted(filter, k, i) /\ table[x] = RowOf(filter[k], i)
<1>1. n \in Nat
  BY LenProperties
<1>2. size \in Nat /\ DOMAIN table = 1 .. size
  BY TableOfFilter, LenProperties
<1>3. PICK P \in [1 .. n + 1 -> Nat] :
        /\ P[1] = 0 /\ P[n + 1] = size
        /\ \A k \in 1 .. n :
             \/ P[k + 1] = P[k] /\ \A i : ~Wanted(filter, k, i)
             \/ /\ P[k + 1] = P[k] + 1
                /\ \E i : Wanted(filter, k, i) /\ table[P[k] + 1] = RowOf(filter[k], i)
  BY TableOfFilter
<1>4. ASSUME NEW k \in 1 .. n, P[k + 1] = P[k] + 1 PROVE From(P[k] + 1)
  <2>1. P[k] \in Nat
    <3> HIDE DEF n
    <3>1. k \in 1 .. n + 1
      BY <1>1
    <3>2. QED
      BY <3>1
  <2>2. P[k + 1] # P[k]
    BY <1>4, <2>1
  <2>3. \E i : Wanted(filter, k, i) /\ table[P[k] + 1] = RowOf(filter[k], i)
    BY <1>3, <2>2, Zenon
  <2>4. QED
    BY <2>3
<1> HIDE DEF n, size, From
<1> DEFINE Done(end) == \A x \in 1 .. end : From(x)
           T == {k \in Nat : k <= n => Done(P[k + 1])}
<1>5. \A k \in 1 .. n + 1 : P[k] \in Nat
  OBVIOUS
<1>6. 0 \in T
  <2>1. 0 + 1 = 1 /\ \A x \in 1 .. 0 : From(x)
    OBVIOUS
  <2>2. QED
    BY <1>3, <2>1
<1>7. ASSUME NEW k \in T PROVE k + 1 \in T
  <2> DEFINE m == k + 1
  <2>1. SUFFICES ASSUME m <= n PROVE Done(P[m + 1])
    OBVIOUS
  <2>2. Done(P[m]) /\ m \in 1 .. n /\ m \in 1 .. n + 1 /\ m + 1 \in 1 .. n + 1
    BY <1>1, <2>1
  <2> HIDE DEF m
  <2>3. P[m] \in Nat /\ (P[m + 1] = P[m] \/ P[m + 1] = P[m] + 1)
    BY <1>3, <1>5, <2>2
  <2>4. CASE P[m + 1] = P[m]
    BY <2>2, <2>4
  <2>5. CASE P[m + 1] = P[m] + 1
    <3>1. From(P[m] + 1)
      BY <1>4, <2>2, <2>5
    <3>2. \A x \in 1 .. P[m] + 1 : x \in 1 .. P[m] \/ x = P[m] + 1
      BY <2>3
    <3>3. QED
      BY <2>2, <2>5, <3>1, <3>2
  <2>6. QED
    BY <2>3, <2>4, <2>5
<1>8. T = Nat
  <2>1. T \in SUBSET Nat
    OBVIOUS
  <2> HIDE DEF T
  <2>2. QED
    BY <1>6, <1>7, <2>1, SetInduction
<1>9. Done(P[n + 1])
  <2>1. n <= n
    BY <1>1
  <2>2. n \in T
    BY <1>1, <1>8, Zenon
  <2>3. QED
    BY <2>1, <2>2
<1>10. QED
  BY <1>2, <1>3, <1>9 DEF From, n, size

\* The parameters of a packet that the table has lie inside it and share no byte.
LEMMA RowsApart ==
  ASSUME NEW filter \in Seq([channel : Int, param : Int]), NEW mode \in 0 .. 6
  PROVE  PlacesApart(filter, mode)
<1> DEFINE table == CreateOffsetTable(<<>>, filter)
           bytes(x) == table[x].offset .. table[x].offset + table[x].size - 1
           clock == IF mode = 0 THEN ClockBytes ELSE {}
<1>1. SUFFICES ASSUME NEW x \in DOMAIN table, NEW y \in DOMAIN table,
                      table[x].mode = mode, table[y].mode = mode
               PROVE  /\ bytes(x) \subseteq (0 .. ModeSize(mode) - 1) \ clock
                      /\ table[x].param # table[y].param => bytes(x) \cap bytes(y) = {}
  BY Zenon DEF PlacesApart
<1>2. table = CreateOffsetTable(<<>>, filter)
  OBVIOUS
<1> HIDE DEF table
<1>12. /\ x \in DOMAIN table /\ y \in DOMAIN table /\ DOMAIN table = 1 .. Len(table)
       /\ \A z \in 1 .. Len(table) : \E k \in 1 .. Len(filter) : \E i :
            Wanted(filter, k, i) /\ table[z] = RowOf(filter[k], i)
  BY <1>2, RowsOfTable
<1>3. PICK k \in 1 .. Len(filter) : \E i : Wanted(filter, k, i) /\ table[x] = RowOf(filter[k], i)
  BY <1>12, Zenon
<1>4. PICK i : Wanted(filter, k, i) /\ table[x] = RowOf(filter[k], i)
  BY <1>3
<1>5. PICK l \in 1 .. Len(filter) : \E j : Wanted(filter, l, j) /\ table[y] = RowOf(filter[l], j)
  BY <1>12, Zenon
<1>6. PICK j : Wanted(filter, l, j) /\ table[y] = RowOf(filter[l], j)
  BY <1>5
<1>7. /\ i \in 1 .. 53 /\ j \in 1 .. 53 /\ Sensor[i][3] = mode /\ Sensor[j][3] = mode
      /\ bytes(x) = Sensor[i][4] .. Sensor[i][4] + Sensor[i][5] - 1
      /\ bytes(y) = Sensor[j][4] .. Sensor[j][4] + Sensor[j][5] - 1
      /\ table[x].param = Sensor[i][2] /\ table[y].param = Sensor[j][2]
  BY <1>1, <1>4, <1>6 DEF Wanted, RowOf
<1>8. /\ Sensor[i][4] \in Nat /\ Sensor[i][5] \in Nat /\ Sensor[j][4] \in Nat /\ Sensor[j][5] \in Nat
      /\ Sensor[i][4] + Sensor[i][5] <= ModeSize(mode) /\ ModeSize(mode) \in Nat
      /\ mode = 0 => Sensor[i][4] + Sensor[i][5] <= 19 \/ 24 < Sensor[i][4]
      /\ i # j => \/ Sensor[i][4] + Sensor[i][5] <= Sensor[j][4]
                  \/ Sensor[j][4] + Sensor[j][5] <= Sensor[i][4]
  <2>1. ModeSize(mode) \in Nat
    <3>1. mode = 0 \/ mode = 1 \/ mode = 2 \/ mode = 3 \/ mode = 4 \/ mode = 5 \/ mode = 6
      OBVIOUS
    <3>2. 39 \in Nat /\ 4 \in Nat /\ 31 \in Nat /\ 17 \in Nat /\ 12 \in Nat /\ 18 \in Nat
      OBVIOUS
    <3>3. QED
      BY <3>1, <3>2, SizesOfModes, Zenon
  <2>2. QED
    BY <1>7, <2>1, SensorRows, SensorsApart, SensorsInside
<1>9. bytes(x) \subseteq (0 .. ModeSize(mode) - 1) \ clock
  <2>1. mode # 0 => clock = {}
    OBVIOUS
  <2>2. mode = 0 => clock = 19 .. 24
    BY DEF ClockBytes
  <2> HIDE DEF bytes, clock
  <2>3. \A a, b, c \in Nat : a + b <= c => a .. a + b - 1 \subseteq 0 .. c - 1
    OBVIOUS
  <2>4. \A a, b \in Nat : a + b <= 19 \/ 24 < a => (a .. a + b - 1) \cap (19 .. 24) = {}
    OBVIOUS
  <2>5. bytes(x) \subseteq 0 .. ModeSize(mode) - 1
    BY <1>7, <1>8, <2>3, Zenon
  <2>6. mode = 0 => bytes(x) \cap (19 .. 24) = {}
    BY <1>7, <1>8, <2>4, Zenon
  <2>7. QED
    BY <2>1, <2>2, <2>5, <2>6
<1>10. ASSUME i # j PROVE bytes(x) \cap bytes(y) = {}
  <2> HIDE DEF bytes
  <2>1. \A a, b, c, d \in Nat : a + b <= c \/ c + d <= a => (a .. a + b - 1) \cap (c .. c + d - 1) = {}
    OBVIOUS
  <2>2. QED
    BY <1>7, <1>8, <1>10, <2>1, Zenon
<1>11. QED
  BY <1>7, <1>9, <1>10

\* The settings packet.
LEMMA SettingsLieApart == SettingsApart
<1> DEFINE bytes(i) == all_Settings[i][2] .. all_Settings[i][2] + all_Settings[i][3] - 1
           placed == {i \in DOMAIN all_Settings : all_Settings[i][2] # -1}
<1>1. m_ackParams[3][3] - 2 = 46
  BY SMT DEF m_ackParams
<1>2. \A i \in placed : i \in 1 .. 44 /\ all_Settings[i][2] # -1
  BY SettingsRows
<1>3. \A i \in placed :
        /\ all_Settings[i][2] \in Int /\ all_Settings[i][3] \in Nat \ {0}
        /\ 0 <= all_Settings[i][2] /\ all_Settings[i][2] + all_Settings[i][3] <= 47
        /\ all_Settings[i][1] = 45 =>
             all_Settings[i][2] = 22 /\ all_Settings[i][3] = 1
        /\ all_Settings[i][1] # 45 =>
             all_Settings[i][2] + all_Settings[i][3] <= 22 \/ 22 < all_Settings[i][2]
  BY <1>2, SettingsRows
<1>4. \A i, j \in placed : i # j =>
        \/ all_Settings[i][2] + all_Settings[i][3] <= all_Settings[j][2]
        \/ all_Settings[j][2] + all_Settings[j][3] <= all_Settings[i][2]
  BY <1>2, SettingsRows
<1> HIDE DEF placed
<1>5. ASSUME NEW i \in placed
      PROVE  /\ bytes(i) \subseteq 0 .. 46
             /\ WRITE_MODE_OFFSET \in bytes(i) <=> all_Settings[i][1] \in Hidden
  <2>1. bytes(i) \subseteq 0 .. 46
    BY <1>3
  <2>2. 22 \in bytes(i) <=> all_Settings[i][1] = 45
    BY <1>3
  <2> HIDE DEF bytes
  <2>3. QED
    BY <2>1, <2>2 DEF WRITE_MODE_OFFSET, Hidden
<1>6. ASSUME NEW i \in placed, NEW j \in placed, i # j
      PROVE  bytes(i) \cap bytes(j) = {}
  <2>1. \A a, b, c, d \in Int : a + b <= c \/ c + d <= a => (a .. a + b - 1) \cap (c .. c + d - 1) = {}
    OBVIOUS
  <2>2. /\ all_Settings[i][2] \in Int /\ all_Settings[i][3] \in Int
        /\ all_Settings[j][2] \in Int /\ all_Settings[j][3] \in Int
    BY <1>3
  <2>3. QED
    BY <1>4, <1>6, <2>1, <2>2, Zenon
<1>7. /\ \A i \in placed : bytes(i) \subseteq 0 .. m_ackParams[3][3] - 2
      /\ \A i, j \in placed : i # j => bytes(i) \cap bytes(j) = {}
      /\ \A i \in placed : WRITE_MODE_OFFSET \in bytes(i) <=> all_Settings[i][1] \in Hidden
  <2> HIDE DEF bytes
  <2>1. QED
    BY <1>1, <1>5, <1>6
<1>8. QED
  BY <1>7, Zenon DEF SettingsApart, placed

\* What becomes of a packet, for every filter, mode and data.
THEOREM PacketIsRecorded ==
  ASSUME NEW filter \in Seq([channel : Int, param : Int]), NEW mode \in 0 .. 6, NEW data
  PROVE  EveryRowRecorded(filter, mode, data) /\ PlacesApart(filter, mode) /\ SettingsApart
<1> DEFINE records == ReportDataPacket(CreateOffsetTable(<<>>, filter), mode, data)
           wanted == {k \in DOMAIN filter : Channels(filter, mode, k) # {}}
<1>1. wanted = {k \in 1 .. Len(filter) : Channels(filter, mode, k) # {}}
  BY LenProperties
<1>2. records = ReportDataPacket(CreateOffsetTable(<<>>, filter), mode, data)
  OBVIOUS
<1> HIDE DEF wanted, records
<1>3. RecordsOf(filter, mode, data, wanted, records)
  BY <1>1, <1>2, WantedIsRecorded, Zenon
<1>4. EveryRowRecorded(filter, mode, data)
  BY <1>3, Zenon DEF EveryRowRecorded, RecordsOf, RecordOfRow, wanted, records
<1>5. QED
  BY <1>4, RowsApart, SettingsLieApart

-----------------------------------------------------------------------------
(* Frames. *)

\* The items of two sequences in a row.
LEMMA AfterBoth ==
  ASSUME NEW s \in Seq(Int), NEW t \in Seq(Int)
  PROVE  /\ s \o t \in Seq(Int) /\ Len(s \o t) = Len(s) + Len(t)
         /\ \A i \in 1 .. Len(s) : (s \o t)[i] = s[i]
         /\ \A i \in 1 .. Len(t) : (s \o t)[Len(s) + i] = t[i]
  BY LenProperties, ConcatProperties

\* A part of a sequence, which may be empty.
LEMMA PartOf ==
  ASSUME NEW s \in Seq(Int), NEW m \in Nat \ {0}, NEW n \in Nat, m <= n + 1, n <= Len(s)
  PROVE  /\ SubSeq(s, m, n) \in Seq(Int) /\ Len(SubSeq(s, m, n)) = n - m + 1
         /\ \A i \in 1 .. n - m + 1 : SubSeq(s, m, n)[i] = s[m + i - 1]
  BY LenProperties, SubSeqProperties

\* The two bytes of a number.
LEMMA TwoDigits ==
  ASSUME NEW n \in Nat
  PROVE  n \div 256 \in Int /\ n % 256 \in Int /\ 256 * (n \div 256) + (n % 256) = n
<1> DEFINE high == n \div 256
           low  == n % 256
<1>1. \A i \in Int : i = (i \div 256) * 256 + (i % 256)
  BY SMT
<1>2. n \in Int /\ high \in Int /\ low \in Int
  OBVIOUS
<1>3. n = high * 256 + low
  BY <1>1, <1>2, Zenon
<1>4. 256 * high + low = n
  <2> HIDE DEF high, low
  <2>1. QED
    BY <1>2, <1>3
<1>5. QED
  BY <1>2, <1>4, Zenon

\* The parts of a frame, and where they are.
IsFrame(frame, cmd, data, size, body, crc) ==
  /\ size \in Nat \ {0}
  /\ body \in Seq(Int) /\ Len(body) = size + 3
  /\ frame \in Seq(Int) /\ Len(frame) = size + 5
  /\ frame[1] = KSU_ADDRESS /\ 256 * frame[2] + frame[3] = size /\ frame[4] = cmd
  /\ \A i \in 1 .. size + 3 : frame[i] = body[i]
  /\ \A i \in 1 .. Len(data) : frame[i + 4] = data[i]
  /\ 256 * frame[size + 4] + frame[size + 5] = crc

\* A packet is made into such a frame.
LEMMA FrameParts ==
  ASSUME NEW cmd \in Int, NEW data \in Seq(Int), Checksum(Body(cmd, data)) \in Nat
  PROVE  \E size, body, crc, frame :
           /\ size = Len(data) + 1 /\ body = Body(cmd, data) /\ crc = Checksum(body)
           /\ frame = CreateRawPacket(cmd, data)
           /\ IsFrame(frame, cmd, data, size, body, crc)
<1> DEFINE size  == Len(data) + 1
           body  == Body(cmd, data)
           crc   == Checksum(body)
           frame == CreateRawPacket(cmd, data)
           head  == <<KSU_ADDRESS, size \div 256, size % 256, cmd>>
           tail  == <<crc \div 256, crc % 256>>
<1>1. crc \in Nat
  OBVIOUS
<1>2. body = head \o data
  BY DEF Body
<1>3. frame = body \o tail
  BY DEF CreateRawPacket
<1>4. /\ size = Len(data) + 1 /\ body = Body(cmd, data) /\ crc = Checksum(body)
      /\ frame = CreateRawPacket(cmd, data)
  OBVIOUS
<1> HIDE DEF size, body, crc, frame
<1>5. Len(data) \in Nat /\ size \in Nat \ {0} /\ size = Len(data) + 1
  BY <1>4, LenProperties
<1>6. /\ size \div 256 \in Int /\ size % 256 \in Int /\ 256 * (size \div 256) + (size % 256) = size
      /\ crc \div 256 \in Int /\ crc % 256 \in Int /\ 256 * (crc \div 256) + (crc % 256) = crc
  <2>1. size \in Nat /\ crc \in Nat
    BY <1>1, <1>5
  <2>2. QED
    BY <2>1, TwoDigits
<1>7. /\ head \in Seq(Int) /\ Len(head) = 4
      /\ head[1] = KSU_ADDRESS /\ 256 * head[2] + head[3] = size /\ head[4] = cmd
  BY <1>6 DEF KSU_ADDRESS
<1>8. tail \in Seq(Int) /\ Len(tail) = 2 /\ 256 * tail[1] + tail[2] = crc
  BY <1>6
<1> HIDE DEF head, tail
<1>9. /\ body \in Seq(Int) /\ Len(body) = size + 3
      /\ \A i \in 1 .. 4 : body[i] = head[i]
      /\ \A i \in 1 .. Len(data) : body[i + 4] = data[i]
  <2>1. /\ head \o data \in Seq(Int) /\ Len(head \o data) = Len(head) + Len(data)
        /\ \A i \in 1 .. Len(head) : (head \o data)[i] = head[i]
        /\ \A i \in 1 .. Len(data) : (head \o data)[Len(head) + i] = data[i]
    BY <1>7, AfterBoth
  <2>2. 4 + Len(data) = size + 3 /\ \A i \in 1 .. Len(data) : 4 + i = i + 4
    BY <1>5
  <2>3. /\ body \in Seq(Int) /\ Len(body) = 4 + Len(data)
        /\ \A i \in 1 .. 4 : body[i] = head[i]
        /\ \A i \in 1 .. Len(data) : body[4 + i] = data[i]
    BY <1>7, <1>2, <2>1, Zenon
  <2>4. \A i \in 1 .. Len(data) : body[i + 4] = data[i]
    BY <2>2, <2>3, Zenon
  <2>5. QED
    BY <2>2, <2>3, <2>4, Zenon
<1>10. /\ frame \in Seq(Int) /\ Len(frame) = size + 5
       /\ \A i \in 1 .. size + 3 : frame[i] = body[i]
       /\ frame[size + 4] = tail[1] /\ frame[size + 5] = tail[2]
  <2>1. /\ body \o tail \in Seq(Int) /\ Len(body \o tail) = Len(body) + Len(tail)
        /\ \A i \in 1 .. Len(body) : (body \o tail)[i] = body[i]
        /\ \A i \in 1 .. Len(tail) : (body \o tail)[Len(body) + i] = tail[i]
    BY <1>8, <1>9, AfterBoth
  <2>2. /\ body \o tail \in Seq(Int) /\ Len(body \o tail) = size + 3 + 2
        /\ \A i \in 1 .. size + 3 : (body \o tail)[i] = body[i]
        /\ \A i \in 1 .. 2 : (body \o tail)[size + 3 + i] = tail[i]
    BY <1>8, <1>9, <2>1, Zenon
  <2>3. size + 3 + 1 = size + 4 /\ size + 3 + 2 = size + 5
    BY <1>5
  <2>4. 1 \in 1 .. 2 /\ 2 \in 1 .. 2
    OBVIOUS
  <2>5. QED
    BY <1>3, <2>2, <2>3, <2>4
<1>11. \A i \in 1 .. 4 : i \in 1 .. size + 3
  BY <1>5
<1>12. frame[1] = head[1] /\ frame[2] = head[2] /\ frame[3] = head[3] /\ frame[4] = head[4]
  <2>1. \A i \in 1 .. 4 : frame[i] = head[i]
    BY <1>9, <1>10, <1>11, Zenon
  <2>2. {1, 2, 3, 4} \subseteq 1 .. 4
    OBVIOUS
  <2>3. QED
    BY <2>1, <2>2
<1>13. \A i \in 1 .. Len(data) : i + 4 \in 1 .. size + 3
  BY <1>5
<1>14. 256 * frame[2] + frame[3] = 256 * head[2] + head[3]
  BY <1>12, Zenon
<1>15. 256 * frame[size + 4] + frame[size + 5] = 256 * tail[1] + tail[2]
  BY <1>10, Zenon
<1>16. \A i \in 1 .. Len(data) : frame[i + 4] = data[i]
  BY <1>9, <1>10, <1>13
<1>17. frame[1] = KSU_ADDRESS /\ frame[4] = cmd
  BY <1>7, <1>12, Zenon
<1>18. 256 * frame[2] + frame[3] = size /\ 256 * frame[size + 4] + frame[size + 5] = crc
  BY <1>7, <1>8, <1>14, <1>15, Zenon
<1>19. IsFrame(frame, cmd, data, size, body, crc)
  BY <1>5, <1>9, <1>10, <1>16, <1>17, <1>18, Zenon DEF IsFrame
<1>20. QED
  BY <1>4, <1>19, Zenon

\* What comes between two others, and what is left from there.
IsBetween(bytes, rest, before, frame, after) ==
  /\ bytes \in Seq(Int) /\ Len(bytes) = Len(before) + Len(frame) + Len(after)
  /\ \A i \in 1 .. Len(before) : bytes[i] = before[i]
  /\ \A i \in 1 .. Len(frame) : bytes[Len(before) + i] = frame[i]
  /\ rest \in Seq(Int) /\ Len(rest) = Len(frame) + Len(after)
  /\ \A i \in 1 .. Len(frame) : rest[i] = frame[i]

\* So it is when they follow one another.
LEMMA Between ==
  ASSUME NEW before \in Seq(Int), NEW frame \in Seq(Int), NEW after \in Seq(Int)
  PROVE  \E bytes, rest :
           /\ bytes = before \o frame \o after /\ rest = SubSeq(bytes, Len(before) + 1, Len(bytes))
           /\ IsBetween(bytes, rest, before, frame, after)
<1> DEFINE bytes == before \o frame \o after
           rest  == SubSeq(bytes, Len(before) + 1, Len(bytes))
<1>1. Len(before) \in Nat /\ Len(frame) \in Nat /\ Len(after) \in Nat
  BY LenProperties
<1> DEFINE first == before \o frame
<1>2. /\ first \in Seq(Int) /\ Len(first) = Len(before) + Len(frame)
      /\ \A i \in 1 .. Len(before) : first[i] = before[i]
      /\ \A i \in 1 .. Len(frame) : first[Len(before) + i] = frame[i]
  BY AfterBoth
<1>3. bytes = first \o after
  OBVIOUS
<1>4. bytes = before \o frame \o after /\ rest = SubSeq(bytes, Len(before) + 1, Len(bytes))
  OBVIOUS
<1> HIDE DEF first, bytes
<1>5. /\ bytes \in Seq(Int) /\ Len(bytes) = Len(before) + Len(frame) + Len(after)
      /\ \A i \in 1 .. Len(before) + Len(frame) : bytes[i] = first[i]
  <2>1. /\ first \o after \in Seq(Int) /\ Len(first \o after) = Len(first) + Len(after)
        /\ \A i \in 1 .. Len(first) : (first \o after)[i] = first[i]
    BY <1>2, AfterBoth
  <2>2. QED
    BY <1>2, <1>3, <2>1, Zenon
<1>6. /\ \A i \in 1 .. Len(before) : i \in 1 .. Len(before) + Len(frame)
      /\ \A i \in 1 .. Len(frame) : Len(before) + i \in 1 .. Len(before) + Len(frame)
      /\ \A i \in 1 .. Len(frame) : i \in 1 .. Len(frame) + Len(after)
  BY <1>1
<1>7. /\ rest \in Seq(Int) /\ Len(rest) = Len(frame) + Len(after)
      /\ \A i \in 1 .. Len(frame) + Len(after) : rest[i] = bytes[Len(before) + i]
  <2> DEFINE m == Len(before) + 1
             n == Len(bytes)
  <2>1. m \in 1 .. n + 1 /\ n \in Nat /\ n - m + 1 = Len(frame) + Len(after) /\ n <= Len(bytes)
    BY <1>1, <1>5
  <2>2. \A i \in 1 .. n - m + 1 : m + i - 1 = Len(before) + i /\ m + i - 1 \in 1 .. n
    BY <1>1, <2>1
  <2> HIDE DEF m, n
  <2>3. /\ SubSeq(bytes, m, n) \in Seq(Int) /\ Len(SubSeq(bytes, m, n)) = n - m + 1
        /\ \A i \in 1 .. n - m + 1 : SubSeq(bytes, m, n)[i] = bytes[m + i - 1]
    BY <1>5, <2>1, PartOf
  <2>4. QED
    BY <2>1, <2>2, <2>3 DEF m, n
<1> HIDE DEF rest
<1>8. /\ \A i \in 1 .. Len(before) : bytes[i] = before[i]
      /\ \A i \in 1 .. Len(frame) : bytes[Len(before) + i] = frame[i]
      /\ \A i \in 1 .. Len(frame) : rest[i] = frame[i]
  BY <1>2, <1>5, <1>6, <1>7
<1>9. IsBetween(bytes, rest, before, frame, after)
  BY <1>5, <1>7, <1>8, Zenon DEF IsBetween
<1>10. QED
  BY <1>4, <1>9, Zenon

\* Where a frame begins: at the first address.
LEMMA FirstAddress ==
  ASSUME NEW bytes \in Seq(Int), NEW n \in 1 .. Len(bytes), bytes[n] = KSU_ADDRESS,
         \A i \in 1 .. n - 1 : bytes[i] # KSU_ADDRESS
  PROVE  LET found == {i \in DOMAIN bytes : bytes[i] = KSU_ADDRESS}
         IN  found # {} /\ (CHOOSE i \in found : \A j \in found : i <= j) = n
<1> DEFINE found == {i \in DOMAIN bytes : bytes[i] = KSU_ADDRESS}
<1>1. DOMAIN bytes = 1 .. Len(bytes) /\ Len(bytes) \in Nat
  BY LenProperties
<1>2. n \in found /\ \A j \in found : j \in Nat /\ n <= j
  BY <1>1
<1> HIDE DEF found
<1> DEFINE start == CHOOSE i \in found : \A j \in found : i <= j
<1>3. start \in found /\ \A j \in found : start <= j
  BY <1>2, Zenon
<1>4. start \in Nat /\ n <= start /\ start <= n /\ n \in Nat
  BY <1>2, <1>3
<1> HIDE DEF start
<1>5. start = n
  BY <1>4
<1>6. QED
  BY <1>2, <1>5 DEF start, found

\* ReadPacket makes of a frame, wherever it is, what CreateRawPacket made it of.
THEOREM FrameIsRead ==
  ASSUME NEW cmd \in Int, NEW data \in Seq(Int), NEW before \in Seq(Int), NEW after \in Seq(Int),
         Checksum(Body(cmd, data)) \in Nat,
         isLengthMatches(cmd, Len(data) + 1) # "none",
         \A i \in DOMAIN before : before[i] # KSU_ADDRESS
  PROVE  ReadPacket(before \o CreateRawPacket(cmd, data) \o after) =
           [type |-> isLengthMatches(cmd, Len(data) + 1), cmd |-> cmd, data |-> data]
<1>1. /\ Len(data) \in Nat /\ Len(before) \in Nat /\ Len(after) \in Nat
      /\ DOMAIN before = 1 .. Len(before)
  BY LenProperties
<1>2. PICK size, body, crc, raw :
        /\ size = Len(data) + 1 /\ body = Body(cmd, data) /\ crc = Checksum(body)
        /\ raw = CreateRawPacket(cmd, data)
        /\ IsFrame(raw, cmd, data, size, body, crc)
  BY FrameParts, Zenon
<1>3. /\ size \in Nat \ {0}
      /\ body \in Seq(Int) /\ Len(body) = size + 3
      /\ raw \in Seq(Int) /\ Len(raw) = size + 5
      /\ raw[1] = KSU_ADDRESS /\ 256 * raw[2] + raw[3] = size /\ raw[4] = cmd
      /\ \A i \in 1 .. size + 3 : raw[i] = body[i]
      /\ \A i \in 1 .. Len(data) : raw[i + 4] = data[i]
      /\ 256 * raw[size + 4] + raw[size + 5] = crc
  BY <1>2 DEF IsFrame
<1>4. raw \in Seq(Int)
  BY <1>3
<1>5. PICK bytes, rest :
        /\ bytes = before \o raw \o after /\ rest = SubSeq(bytes, Len(before) + 1, Len(bytes))
        /\ IsBetween(bytes, rest, before, raw, after)
  BY <1>4, Between, Zenon
<1>6. /\ bytes \in Seq(Int) /\ Len(bytes) = Len(before) + Len(raw) + Len(after)
      /\ \A i \in 1 .. Len(before) : bytes[i] = before[i]
      /\ \A i \in 1 .. Len(raw) : bytes[Len(before) + i] = raw[i]
      /\ rest \in Seq(Int) /\ Len(rest) = Len(raw) + Len(after)
      /\ \A i \in 1 .. Len(raw) : rest[i] = raw[i]
  BY <1>5 DEF IsBetween
<1>7. size \in Nat \ {0} /\ size = Len(data) + 1 /\ Len(raw) = size + 5 /\ Len(rest) = size + 5 + Len(after)
  BY <1>2, <1>3, <1>5, <1>6, Zenon
<1>8. bytes \in Seq(Int) /\ rest \in Seq(Int) /\ Len(bytes) = Len(before) + (size + 5) + Len(after)
  BY <1>5, <1>6, <1>7, Zenon
<1> DEFINE found == {i \in DOMAIN bytes : bytes[i] = KSU_ADDRESS}
           start == CHOOSE i \in found : \A j \in found : i <= j
<1>9. found # {} /\ start = Len(before) + 1
  <2> DEFINE n == Len(before) + 1
  <2>1. n \in 1 .. Len(bytes) /\ 1 \in 1 .. size + 5 /\ n - 1 = Len(before)
    <3>1. 1 \in 1 .. size + 5 /\ n - 1 = Len(before)
      BY <1>1, <1>7
    <3>2. n \in 1 .. Len(before) + (size + 5) + Len(after)
      BY <1>1, <1>7
    <3>3. QED
      BY <1>8, <3>1, <3>2, Zenon
  <2>2. bytes[n] = KSU_ADDRESS
    BY <1>2, <1>3, <1>5, <1>6, <1>7, <2>1, Zenon
  <2>3. \A i \in 1 .. n - 1 : bytes[i] # KSU_ADDRESS
    BY <1>1, <1>5, <1>6, <2>1, <2>2, Zenon
  <2> HIDE DEF n
  <2>4. QED
    BY <1>8, <2>1, <2>2, <2>3, FirstAddress DEF n
<1>10. /\ rest[2] = raw[2] /\ rest[3] = raw[3] /\ rest[4] = cmd
       /\ rest[size + 4] = raw[size + 4] /\ rest[size + 5] = raw[size + 5]
  <2>1. 2 \in 1 .. size + 5 /\ 3 \in 1 .. size + 5 /\ 4 \in 1 .. size + 5 /\ size + 4 \in 1 .. size + 5 /\ size + 5 \in 1 .. size + 5
    BY <1>7
  <2>2. QED
    BY <1>2, <1>3, <1>5, <1>6, <1>7, <2>1, Zenon
<1>11. 256 * rest[2] + rest[3] = size /\ 256 * rest[size + 4] + rest[size + 5] = crc
  BY <1>2, <1>3, <1>10, Zenon
<1>12. SubSeq(rest, 1, size + 3) = body
  <2> DEFINE n == size + 3
             part == SubSeq(rest, 1, n)
  <2>1. n \in Nat /\ 1 \in Nat \ {0} /\ 1 <= n + 1 /\ n <= Len(rest) /\ n - 1 + 1 = n
    BY <1>1, <1>7
  <2>2. \A i \in 1 .. n : 1 + i - 1 = i /\ i \in 1 .. size + 5
    BY <1>7
  <2>3. body \in Seq(Int) /\ Len(body) = n /\ \A i \in 1 .. n : raw[i] = body[i]
    BY <1>2, <1>3, Zenon
  <2> HIDE DEF n
  <2>4. part \in Seq(Int) /\ Len(part) = n - 1 + 1 /\ \A i \in 1 .. n - 1 + 1 : part[i] = rest[1 + i - 1]
    BY <1>8, <2>1, PartOf
  <2> HIDE DEF part
  <2>5. part \in Seq(Int) /\ Len(part) = n /\ \A i \in 1 .. n : part[i] = rest[i]
    BY <2>1, <2>2, <2>4, Zenon
  <2>6. \A i \in 1 .. n : part[i] = body[i]
    BY <1>5, <1>6, <1>7, <2>2, <2>3, <2>5, Zenon
  <2>7. part = body
    BY <2>3, <2>5, <2>6, SeqEqual
  <2>8. QED
    BY <2>7 DEF part, n
<1>13. SubSeq(rest, 5, size + 3) = data
  <2> DEFINE n == size + 3
             part == SubSeq(rest, 5, n)
  <2>1. n \in Nat /\ 5 \in Nat \ {0} /\ 5 <= n + 1 /\ n <= Len(rest) /\ n - 5 + 1 = Len(data)
    BY <1>1, <1>7
  <2>2. \A i \in 1 .. Len(data) : 5 + i - 1 = i + 4 /\ i + 4 \in 1 .. size + 5
    BY <1>1, <1>7
  <2> HIDE DEF n
  <2>4. part \in Seq(Int) /\ Len(part) = n - 5 + 1 /\ \A i \in 1 .. n - 5 + 1 : part[i] = rest[5 + i - 1]
    BY <1>8, <2>1, PartOf
  <2> HIDE DEF part
  <2>5. part \in Seq(Int) /\ Len(part) = Len(data) /\ \A i \in 1 .. Len(data) : part[i] = rest[i + 4]
    BY <2>1, <2>2, <2>4, Zenon
  <2>6. \A i \in 1 .. Len(data) : part[i] = data[i]
    <3>1. ASSUME NEW i \in 1 .. Len(data) PROVE rest[i + 4] = raw[i + 4]
      <4>1. i + 4 \in 1 .. Len(raw)
        BY <1>7, <2>2, Zenon
      <4>2. QED
        BY <1>6, <4>1, Zenon
    <3>2. ASSUME NEW i \in 1 .. Len(data) PROVE raw[i + 4] = data[i]
      BY <1>3, Zenon
    <3>3. QED
      BY <2>5, <3>1, <3>2, Zenon
  <2>7. part = data
    BY <2>5, <2>6, SeqEqual
  <2>8. QED
    BY <2>7 DEF part, n
<1>14. ~(Len(rest) < 4) /\ ~(Len(rest) < size + 5) /\ size + 5 - 1 = size + 4
  BY <1>1, <1>7
<1>15. ReadFrame(rest) = [type |-> isLengthMatches(cmd, size), cmd |-> cmd, data |-> data]
  <2> DEFINE length == 256 * rest[2] + rest[3]
             type   == isLengthMatches(rest[4], length)
             sum    == Checksum(SubSeq(rest, 1, length + 3))
  <2>1. ReadFrame(rest) =
          IF Len(rest) < 4 \/ type = "none" \/ Len(rest) < length + 5 THEN [type |-> "error"]
          ELSE IF 256 * rest[length + 4] + rest[length + 5] # sum THEN [type |-> "error"]
          ELSE [type |-> type, cmd |-> rest[4], data |-> SubSeq(rest, 5, length + 3)]
    BY DEF ReadFrame
  <2>2. length = size
    BY <1>11, Zenon
  <2> HIDE DEF length
  <2>3. type = isLengthMatches(cmd, size) /\ sum = crc
    BY <1>2, <1>10, <1>12, <2>2, Zenon
  <2> HIDE DEF type, sum
  <2>4. type # "none" /\ 256 * rest[length + 4] + rest[length + 5] = sum
    BY <1>7, <1>11, <2>2, <2>3, Zenon
  <2>5. ~(Len(rest) < 4 \/ type = "none" \/ Len(rest) < length + 5)
    BY <1>14, <2>2, <2>4, Zenon
  <2>6. rest[4] = cmd /\ SubSeq(rest, 5, length + 3) = data
    BY <1>10, <1>13, <2>2, Zenon
  <2>7. QED
    BY <2>1, <2>3, <2>4, <2>5, <2>6, Zenon
<1>16. ReadPacket(bytes) = IF found = {} THEN [type |-> "error"] ELSE ReadFrame(SubSeq(bytes, start, Len(bytes)))
  BY DEF ReadPacket
<1> HIDE DEF found, start
<1>17. ReadPacket(bytes) = ReadFrame(rest)
  BY <1>5, <1>9, <1>16, Zenon
<1>18. QED
  BY <1>2, <1>5, <1>15, <1>17, Zenon

-----------------------------------------------------------------------------
(* The specification. *)

\* What may be chosen: only this matters of an input, since it never changes.
Chosen ==
  /\ input.kind = "line" => input.argv \in Lines
  /\ input.kind \in {"commands", "cut"} => input.first \in Commands
  /\ input.kind = "commands" => input.second \in Commands
  /\ input.kind = "cut" => input.length \in 8 .. Len(bin_write(input.first)) - 1
  /\ input.kind = "packet" =>
       input.filter \in Filters /\ input.mode \in 0 .. 6 /\ input.data \in Contents
  /\ input.kind = "frame" =>
       /\ input.packet \in Outgoing /\ input.before \in Noises /\ input.after \in Noises
       /\ isLengthMatches(input.packet.cmd, Len(input.packet.data) + 1) # "none"
       /\ KSU_ADDRESS \notin ToSet(input.before)
  /\ input.kind = "clock" =>
       input.packets \in Arrivals /\ \E sync_time \in SyncTimes : input.limit = TimeLimit(sync_time)

\* The input is one of those there are to choose from.
LEMMA InputIsChosen == Spec => []Chosen
<1>1. Init => Chosen
  BY DEF Init, Chosen
<1>2. Chosen /\ [Next]_input => Chosen'
  <2> SUFFICES ASSUME Chosen, [Next]_input PROVE Chosen'
    OBVIOUS
  <2>1. CASE ChooseLine
    BY <2>1 DEF ChooseLine, Chosen
  <2>2. CASE ChooseCommands
    BY <2>2 DEF ChooseCommands, Chosen
  <2>3. CASE ChooseCut
    BY <2>3 DEF ChooseCut, Chosen
  <2>4. CASE ChooseClock
    BY <2>4 DEF ChooseClock, Chosen
  <2>5. CASE ChoosePacket
    BY <2>5 DEF ChoosePacket, Chosen
  <2>6. CASE ChooseFrame
    BY <2>6 DEF ChooseFrame, Chosen
  <2>7. CASE UNCHANGED input
    BY <2>7 DEF Chosen
  <2>8. QED
    BY <2>1, <2>2, <2>3, <2>4, <2>5, <2>6, <2>7 DEF Next
<1>3. QED
  BY <1>1, <1>2, PTL DEF Spec

\* A line means the same to the daemon as to the client, whichever lines there are
\* (CmdLineParser::GetCmdLine and SetCmdLine).
THEOREM LinesMeanTheSame == Spec => []ForwardedIsSame
<1>1. \A argv \in Lines : argv \in Seq(Seq(STRING)) /\ argv # <<>> /\ DOMAIN argv = 1 .. Len(argv)
  <2>1. \A argv \in Seq(Seq(STRING)) : DOMAIN argv = 1 .. Len(argv)
    BY LenProperties
  <2>2. Seq(Seq(STRING) \ {<<>>}) \subseteq Seq(Seq(STRING))
    <3>1. Seq(STRING) \ {<<>>} \subseteq Seq(STRING)
      OBVIOUS
    <3>2. QED
      BY <3>1, SeqMonotonic
  <2>3. QED
    BY <2>1, <2>2, LinesAssumption
<1>2. ASSUME NEW argv \in Lines, \A i \in DOMAIN argv : Len(argv[i]) = 1, Last(argv) # <<"">>
      PROVE  Understand(SetCmdLine(GetCmdLine(argv))) = Understand(argv)
  <2>1. argv[Len(argv)] # <<"">>
    BY <1>2, Zenon DEF Last
  <2>2. argv \in Seq(Seq(STRING)) /\ argv # <<>> /\ \A i \in 1 .. Len(argv) : Len(argv[i]) = 1
    BY <1>1, <1>2, Zenon
  <2>3. QED
    BY <2>1, <2>2, ForwardedMeansTheSame, Zenon
<1>3. Chosen => ForwardedIsSame
  BY <1>2, Zenon DEF Chosen, ForwardedIsSame
<1>4. QED
  BY <1>3, InputIsChosen, PTL

\* No line that the client made a command of ends the daemon, whichever lines there are
\* (Adapter::Run, CmdLineParser and RitexDevice::CreateExternalCommand).
THEOREM NoLineAborts == Spec => []LineNeverAbortsDaemon
<1>1. \A argv \in Lines :
        argv \in Seq(Seq(STRING) \ {<<>>}) \ {<<>>} /\ DOMAIN argv = 1 .. Len(argv)
  <2>1. \A argv \in Seq(Seq(STRING) \ {<<>>}) : DOMAIN argv = 1 .. Len(argv)
    BY LenProperties
  <2>2. QED
    BY <2>1, LinesAssumption
<1>2. ASSUME NEW argv \in Lines,
             Understand(argv)[1] \notin {"refused", "assert", "crash"},
             \A i \in DOMAIN argv : HidesOption(argv[i]) =>
               i # 1 /\ \A j \in DOMAIN argv : argv[j] = <<"-sp">> => j < i
      PROVE  Understand(SetCmdLine(GetCmdLine(argv)))[1] \notin {"assert", "crash"}
  <2>1. \A i \in 1 .. Len(argv) : HidesOption(argv[i]) =>
          i # 1 /\ \A j \in 1 .. Len(argv) : argv[j] = <<"-sp">> => j < i
    BY <1>1, <1>2, Zenon
  <2>2. QED
    BY <1>1, <1>2, <2>1, DaemonDoesNotAbort, Zenon
<1>3. Chosen => LineNeverAbortsDaemon
  BY <1>2, Zenon DEF Chosen, LineNeverAbortsDaemon
<1>4. QED
  BY <1>3, InputIsChosen, PTL

\* What is less than an int is an int.
LEMMA SmallerIsInt32 == \A i \in Int32, k \in Nat : k <= i => k \in Int32
BY SMT DEF Int32

\* The commands of the loggers are of those that can be sent.
LEMMA CommandsAreSent ==
  ASSUME NEW cmd \in Commands
  PROVE  cmd \in Sent /\ cmd = [type |-> Made[cmd.type], items |-> cmd.items]
<1> DEFINE t == cmd.type
           items == cmd.items
           values == UNION {Sendable(kind) : kind \in Kinds}
<1>1. /\ cmd = [type |-> t, items |-> items]
      /\ t \in DOMAIN Mark /\ Made[t] = t
      /\ Len(items) \in Nat /\ items = [i \in 1 .. Len(items) |-> items[i]]
      /\ \A i \in 1 .. Len(items) : IsItem(Fields[t], items[i])
      /\ Len(bin_write(cmd)) \in Int32
  BY CommandsAssumption
<1> HIDE DEF t, items
<1>2. t \in Types /\ Fields[t] \in Seq(Kinds) /\ Fields[t] # <<>> /\ UseEors[t] \in BOOLEAN
      /\ Mark[t] \in Seq(Byte) /\ Len(Mark[t]) = 4
  BY <1>1, Tables
<1>3. ASSUME NEW item, IsItem(Fields[t], item) PROVE item \in Items(Fields[t])
  <2> DEFINE fields == Fields[t]
             n == Len(fields)
  <2>1. n \in Nat /\ \A i \in 1 .. n : fields[i] \in Kinds
    BY <1>2, LenProperties, ElementOfSeq
  <2>2. item = [i \in 1 .. n |-> item[i]] /\ \A i \in 1 .. n : item[i] \in Sendable(fields[i])
    BY <1>3 DEF IsItem
  <2> HIDE DEF fields, n
  <2>3. \A i \in 1 .. n : item[i] \in values
    BY <2>1, <2>2
  <2> HIDE DEF values
  <2>4. item \in [1 .. n -> values]
    BY <2>2, <2>3
  <2>5. item \in Seq(values) /\ Len(item) = n
    BY <2>1, <2>4, FunctionIsSeq
  <2>6. QED
    BY <2>2, <2>5 DEF Items, values, fields, n
<1>4. items \in Seq(Items(Fields[t]))
  <2> DEFINE n == Len(items)
             set == Items(Fields[t])
  <2>1. n \in Nat /\ items = [i \in 1 .. n |-> items[i]] /\ \A i \in 1 .. n : items[i] \in set
    BY <1>1, <1>3
  <2> HIDE DEF n, set
  <2>2. items \in [1 .. n -> set]
    BY <2>1
  <2>3. QED
    BY <2>1, <2>2, FunctionIsSeq DEF set
<1>5. Len(FlattenSeq(Written(Fields[t], UseEors[t], items))) \in Int32
  <2> DEFINE flat == FlattenSeq(Written(Fields[t], UseEors[t], items))
             w == WriteInt(Len(flat))
  <2>1. /\ Written(Fields[t], UseEors[t], items) \in Seq(Seq(Byte))
        /\ write_packet(Fields[t], items, UseEors[t]) = w \o flat
        /\ Len(flat) \in Nat
    BY <1>2, <1>4, WrittenRecords
  <2>2. flat \in Seq(Byte)
    BY <2>1, Splitting
  <2>3. w \in Seq(Byte)
    <3> DEFINE k == Len(flat)
    <3>1. k \in Nat
      BY <2>1
    <3> HIDE DEF k
    <3>2. \A j \in 1 .. 4 : (k \div (256 ^ (4 - j))) % 256 \in Byte
      <4>1. /\ 256 ^ 0 \in Nat \ {0} /\ 256 ^ 1 \in Nat \ {0}
            /\ 256 ^ 2 \in Nat \ {0} /\ 256 ^ 3 \in Nat \ {0}
        BY SMT
      <4>2. \A m \in Nat \ {0} : (k \div m) % 256 \in Byte
        BY <3>1, SMT DEF Byte
      <4>3. \A j \in 1 .. 4 : 256 ^ (4 - j) \in Nat \ {0}
        <5>1. \A j \in 1 .. 4 : 4 - j \in {0, 1, 2, 3}
          BY SMT
        <5>2. \A m \in {0, 1, 2, 3} : 256 ^ m \in Nat \ {0}
          BY <4>1, Zenon
        <5>3. QED
          BY <5>1, <5>2, Zenon
      <4>4. QED
        BY <4>2, <4>3, Zenon
    <3>3. w \in [1 .. 4 -> Byte]
      BY <3>2 DEF WriteInt, k
    <3>4. QED
      BY <3>3, FunctionIsSeq
  <2>4. bin_write(cmd) = (Mark[t] \o (w \o flat)) \o eoc
    BY <2>1 DEF bin_write, t, items
  <2>5. eoc \in Seq(Byte) /\ Len(eoc) = 4
    BY Marks
  <2> HIDE DEF flat, w
  <2>6. Len(flat) <= Len(bin_write(cmd))
    <3> DEFINE a == w \o flat
               b == Mark[t] \o a
    <3>1. a \in Seq(Byte) /\ Len(a) = Len(w) + Len(flat) /\ Len(w) \in Nat
      BY <2>2, <2>3, ConcatProperties, LenProperties
    <3>2. bin_write(cmd) = b \o eoc
      BY <2>4
    <3> HIDE DEF a
    <3>3. \A p, q \in Seq(Byte) : p \o q \in Seq(Byte) /\ Len(p \o q) = Len(p) + Len(q)
      BY ConcatProperties
    <3>4. Len(bin_write(cmd)) = 4 + Len(a) + 4
      <4> DEFINE mark == Mark[t]
      <4>1. mark \in Seq(Byte) /\ Len(mark) = 4
        BY <1>2
      <4> HIDE DEF mark
      <4>2. mark \o a \in Seq(Byte) /\ Len(mark \o a) = 4 + Len(a)
        BY <3>1, <3>3, <4>1
      <4>3. b = mark \o a
        BY DEF mark
      <4> HIDE DEF b
      <4>4. b \in Seq(Byte) /\ Len(b) = 4 + Len(a)
        BY <4>2, <4>3
      <4>5. Len(b \o eoc) = Len(b) + Len(eoc)
        BY <2>5, <3>3, <4>4
      <4>6. QED
        BY <2>5, <3>2, <4>4, <4>5
    <3>5. QED
      BY <2>1, <3>1, <3>4
  <2>7. QED
    BY <1>1, <2>1, <2>6, SmallerIsInt32 DEF flat
<1>6. cmd \in Sent
  <2>1. items \in UNION {Seq(Items(Fields[u])) : u \in Types}
    BY <1>2, <1>4
  <2>2. cmd.type = t /\ cmd.items = items
    BY DEF t, items
  <2>3. cmd \in [type : Types, items : UNION {Seq(Items(Fields[u])) : u \in Types}]
    BY <1>1, <1>2, <2>1
  <2>4. QED
    BY <1>4, <1>5, <2>2, <2>3 DEF Sent
<1>7. QED
  BY <1>1, <1>6 DEF t, items

\* Whichever commands the loggers send, and however many records and characters there
\* are in them: two of them are read as they were, and one that is cut off is refused
\* (bin_write and bin_read).
THEOREM SentIsRead == Spec => []GatewayReadsWhatWasSent
<1>1. ASSUME NEW first \in Commands, NEW second \in Commands
      PROVE  Rest(bin_read(Stream(bin_write(first) \o bin_write(second))))
               = [first |-> first, second |-> [stream |-> Stream(<<>>), cmd |-> second]]
  <2> DEFINE a == bin_write(first)
             b == bin_write(second)
  <2>1. /\ first \in Sent /\ first = [type |-> Made[first.type], items |-> first.items]
        /\ second \in Sent /\ second = [type |-> Made[second.type], items |-> second.items]
    BY CommandsAreSent
  <2>2. b \in Seq(Byte) /\ <<>> \in Seq(Byte) /\ b \o <<>> = b
    <3>1. b \in Seq(Byte)
      BY <2>1, SentIsBytes
    <3> HIDE DEF b
    <3>2. QED
      BY <3>1, EmptySeq, ConcatEmptySeq
  <2>3. bin_read(Stream(a \o b)) = [stream |-> Stream(b), cmd |-> first]
    <3>1. \A rest \in Seq(Byte) :
            bin_read(Stream(a \o rest))
              = [stream |-> Stream(rest), cmd |-> [type |-> Made[first.type], items |-> first.items]]
      BY <2>1, CommandIsReadBack
    <3> HIDE DEF a, b
    <3>2. QED
      BY <2>1, <2>2, <3>1, Zenon
  <2>4. bin_read(Stream(b)) = [stream |-> Stream(<<>>), cmd |-> second]
    <3>1. \A rest \in Seq(Byte) :
            bin_read(Stream(b \o rest))
              = [stream |-> Stream(rest), cmd |-> [type |-> Made[second.type], items |-> second.items]]
      BY <2>1, CommandIsReadBack
    <3> HIDE DEF a, b
    <3>2. QED
      BY <2>1, <2>2, <3>1, Zenon
  <2> HIDE DEF a, b
  <2>5. Rest([stream |-> Stream(b), cmd |-> first])
          = [first |-> first, second |-> bin_read(Stream(b))]
    BY DEF Rest
  <2>6. QED
    BY <2>3, <2>4, <2>5, Zenon DEF a, b
<1>2. ASSUME NEW first \in Commands, NEW length \in 8 .. Len(bin_write(first)) - 1
      PROVE  ~bin_read(Stream(SubSeq(bin_write(first), 1, length))).stream.good
  BY CommandsAreSent, CutCommandIsRefused
<1>3. Chosen => GatewayReadsWhatWasSent
  BY <1>1, <1>2, Zenon DEF Chosen, GatewayReadsWhatWasSent
<1>4. QED
  BY <1>3, InputIsChosen, PTL

\* Whichever packets are sent, whatever is on the line around them, and whatever the
\* checksum is (DataPacket::CreateRawPacket and ComTrafficProcessor::ReadPacket).
THEOREM FramesAreRead == Spec => []FrameIsReadBack
<1>1. Byte \subseteq Int
  BY DEF Byte
<1>2. Seq(Byte) \subseteq Seq(Int)
  BY <1>1, SeqMonotonic
<1>3. \A packet \in Outgoing :
        packet.cmd \in Int /\ packet.data \in Seq(Int) /\ Checksum(Body(packet.cmd, packet.data)) \in Nat
  BY <1>1, <1>2, FramesAssumption, Zenon
<1>4. \A noise \in Noises : noise \in Seq(Int)
  BY <1>2, FramesAssumption, Zenon
<1>5. ASSUME Chosen, input.kind = "frame"
      PROVE  ReadPacket(input.before \o CreateRawPacket(input.packet.cmd, input.packet.data) \o input.after) =
               [type |-> isLengthMatches(input.packet.cmd, Len(input.packet.data) + 1),
                cmd |-> input.packet.cmd, data |-> input.packet.data]
  <2>1. /\ input.packet \in Outgoing /\ input.before \in Noises /\ input.after \in Noises
        /\ isLengthMatches(input.packet.cmd, Len(input.packet.data) + 1) # "none"
        /\ KSU_ADDRESS \notin ToSet(input.before)
    BY <1>5, Zenon DEF Chosen
  <2>2. \A i \in DOMAIN input.before : input.before[i] # KSU_ADDRESS
    BY <2>1 DEF ToSet
  <2>3. QED
    BY <1>3, <1>4, <2>1, <2>2, FrameIsRead, Zenon
<1>6. Chosen => FrameIsReadBack
  BY <1>5, Zenon DEF FrameIsReadBack
<1>7. QED
  BY <1>6, InputIsChosen, PTL

\* Whatever the database asks for and whatever a packet has in it (RitexDevice's
\* tables, CreateOffsetTable and ReportDataPacket).
THEOREM PacketsAreRecorded == Spec => []RecordedOnce
<1>1. \A filter \in Filters : filter \in Seq([channel : Int, param : Int])
  BY ContentsAssumption
<1>2. ASSUME Chosen, input.kind = "packet"
      PROVE  /\ EveryRowRecorded(input.filter, input.mode, input.data)
             /\ PlacesApart(input.filter, input.mode) /\ SettingsApart
  <2>1. input.filter \in Filters /\ input.mode \in 0 .. 6
    BY <1>2 DEF Chosen
  <2>2. QED
    BY <1>1, <2>1, PacketIsRecorded
<1>3. Chosen => RecordedOnce
  BY <1>2 DEF RecordedOnce
<1>4. QED
  BY <1>3, InputIsChosen, PTL

\* Whenever the packets come and whatever they say: as many reports of a wrong clock as
\* times that it goes wrong (RitexDevice::CheckAndReportTimeDiviation).
THEOREM ReportedOnce == Spec => []DeviationReportedOnce
<1>1. ASSUME NEW packets \in Arrivals, NEW sync_time \in SyncTimes
      PROVE  LET limit == TimeLimit(sync_time)
             IN  Len(ClockReports(limit, packets).events) = Cardinality({i \in Timed(packets) : Begins(limit, packets, i)})
  <2> DEFINE limit == TimeLimit(sync_time)
  <2>1. limit \in Int /\ packets \in Packets
    BY ArrivalsAssumption DEF TimeLimit, Packets
  <2> HIDE DEF limit
  <2>2. Len(ClockReports(limit, packets).events) = Cardinality(Begun(limit, packets, Len(packets)))
    BY <2>1, EventsAreCounted
  <2>3. \A i \in Timed(packets) : i <= Len(packets)
    <3>1. DOMAIN packets = 1 .. Len(packets) /\ Len(packets) \in Nat
      BY <2>1, LenProperties DEF Packets
    <3>2. QED
      BY <3>1 DEF Timed
  <2>4. Begun(limit, packets, Len(packets)) = {i \in Timed(packets) : Begins(limit, packets, i)}
    BY <2>3 DEF Begun
  <2>5. QED
    BY <2>2, <2>4 DEF limit
<1>2. Chosen => DeviationReportedOnce
  <2> SUFFICES ASSUME Chosen, input.kind = "clock" PROVE DeviationReportedOnce
    BY DEF DeviationReportedOnce
  <2>1. PICK sync_time \in SyncTimes : input.limit = TimeLimit(sync_time)
    BY DEF Chosen
  <2>2. input.packets \in Arrivals
    BY DEF Chosen
  <2>3. Len(ClockReports(input.limit, input.packets).events)
          = Cardinality({i \in Timed(input.packets) : Begins(input.limit, input.packets, i)})
    BY <1>1, <2>1, <2>2
  <2>4. QED
    BY <2>3 DEF DeviationReportedOnce, Timed, Begins, Far
<1>3. QED
  BY <1>2, InputIsChosen, PTL
=============================================================================
