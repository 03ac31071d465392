----------------------------- MODULE TextProofs -----------------------------
(***************************************************************************)
(* The work on the text of a meeting, for inputs of any length: the        *)
(* cutting of a transcript, the calls it takes and the topics that come of *)
(* it (LlmClient), the attempts of a transcription (WhisperEngine), the    *)
(* cutting of a segment between its speakers (Speakers), with the facts    *)
(* about loops, sums and lists they rest on, and the dates of the spoken   *)
(* deadlines (Deadlines).                                                  *)
(***************************************************************************)
EXTENDS LlmClient, WhisperEngine, Speakers, Deadlines, SequenceTheorems, FiniteSetTheorems, TLAPS

-----------------------------------------------------------------------------
(* Induction, recursion and finite sums.                                   *)

(* Numbers have a least one.                                                 *)
LEMMA Least ==
  ASSUME NEW T, T \subseteq Nat, T # {}
  PROVE  \E x \in T : \A y \in T : x <= y
<1>1. IsWellFoundedOn(OpToRel(<, Nat), Nat)
  BY NatLessThanWellFounded, Zenon
<1>2. PICK x \in T : \A y \in T : ~(<<y, x>> \in OpToRel(<, Nat))
  BY <1>1, WFMin, Zenon
<1>3. ASSUME NEW y \in T PROVE x <= y
  <2>1. x \in Nat /\ y \in Nat
    OBVIOUS
  <2>2. y < x => <<y, x>> \in OpToRel(<, Nat)
    BY <2>1 DEF OpToRel
  <2>3. ~(y < x)
    BY <1>2, <2>2, Zenon
  <2>. QED BY <2>1, <2>3
<1>. QED BY <1>3

(* A set of numbers that has 0 and the next of each of its members is Nat.   *)
LEMMA Induction ==
  ASSUME NEW S \in SUBSET Nat, 0 \in S, \A n \in S : n + 1 \in S
  PROVE  S = Nat
<1>. DEFINE T == Nat \ S
<1>. SUFFICES ASSUME T # {} PROVE FALSE
  OBVIOUS
<1>1. PICK x \in T : \A y \in T : x <= y
  <2>1. T \subseteq Nat
    OBVIOUS
  <2>. HIDE DEF T
  <2>. QED BY <2>1, Least
<1>2. x # 0 /\ x - 1 \in Nat /\ x - 1 \notin T
  BY <1>1
<1>. QED BY <1>2

(* The least and the greatest of some numbers.                               *)
LEMMA MinOf ==
  ASSUME NEW n \in Int, NEW S \in SUBSET (1..n), S # {}
  PROVE  Min(S) \in S /\ \A x \in S : Min(S) <= x
<1>1. PICK x \in S : \A y \in S : x <= y
  <2>1. S \subseteq Nat
    OBVIOUS
  <2>. QED BY <2>1, Least
<1>. QED BY <1>1 DEF Min

LEMMA MaxOf ==
  ASSUME NEW n \in Int, NEW S \in SUBSET (1..n), S # {}
  PROVE  Max(S) \in S /\ \A x \in S : x <= Max(S)
<1>. DEFINE M == {k \in 1..n : \E x \in S : k = n + 1 - x}
<1>1. M \in SUBSET (1..n) /\ M # {}
  <2>1. PICK x \in S : TRUE
    OBVIOUS
  <2>2. n + 1 - x \in M
    OBVIOUS
  <2>. QED BY <2>2
<1>2. PICK k \in M : \A y \in M : k <= y
  <2>. HIDE DEF M
  <2>. QED BY <1>1, MinOf
<1>3. PICK x \in S : k = n + 1 - x
  OBVIOUS
<1>4. ASSUME NEW y \in S PROVE y <= x
  <2>1. n + 1 - y \in M
    OBVIOUS
  <2>2. k <= n + 1 - y
    BY <1>2, <2>1
  <2>. QED BY <1>3, <2>2
<1>. QED BY <1>4 DEF Max

(* The values of a loop over a..b: the first, and each next by a step from   *)
(* the one before.                                                           *)
IsRun(f, base, step, a, b) ==
    \A i \in a..b : f[i] = IF i = a THEN base ELSE step[i][f[i - 1]]

(* Such a loop has values.                                                   *)
LEMMA Recursion ==
  ASSUME NEW V, NEW base \in V, NEW step,
         NEW a \in Int, NEW b \in Int,
         \A i \in a..b : \A v \in V : step[i][v] \in V
  PROVE  \E f \in [a..b -> V] : IsRun(f, base, step, a, b)
<1>. DEFINE Is(f, n) == \A i \in a..n : f[i] = IF i = a THEN base ELSE step[i][f[i - 1]]
            Good(n) == \E f \in [a..n -> V] : Is(f, n)
            S == {k \in Nat : \A n \in Int : n = a + k - 1 /\ n <= b => Good(n)}
<1>0. ASSUME NEW n \in Int, n < a PROVE Good(n)
  <2>1. /\ [i \in a..n |-> base] \in [a..n -> V]
        /\ Is([i \in a..n |-> base], n)
    BY <1>0
  <2>. QED BY <2>1
<1>1. 0 \in S
  <2>. HIDE DEF Good
  <2>. QED BY <1>0
<1>2. ASSUME NEW n \in a..b, Good(n - 1) PROVE Good(n)
  <2>1. PICK f \in [a..(n - 1) -> V] : Is(f, n - 1)
    BY <1>2
  <2>. DEFINE v == IF n = a THEN base ELSE step[n][f[n - 1]]
              g == [i \in a..n |-> IF i = n THEN v ELSE f[i]]
  <2>2. v \in V
    OBVIOUS
  <2>3. g \in [a..n -> V]
    BY <2>2
  <2>4. ASSUME NEW i \in a..n PROVE g[i] = IF i = a THEN base ELSE step[i][g[i - 1]]
    <3>1. CASE i = n
      BY <3>1
    <3>2. CASE i # n
      <4>1. i \in a..(n - 1) /\ g[i] = f[i]
        BY <3>2
      <4>2. i # a => g[i - 1] = f[i - 1]
        BY <4>1
      <4>. QED BY <4>1, <4>2, <2>1
    <3>. QED BY <3>1, <3>2
  <2>. QED BY <2>3, <2>4
<1>3. ASSUME NEW k \in S PROVE k + 1 \in S
  <2>. HIDE DEF Good
  <2>. SUFFICES ASSUME NEW n \in Int, n = a + k, n <= b PROVE Good(n)
    OBVIOUS
  <2>1. Good(n - 1)
    OBVIOUS
  <2>. QED BY <2>1, <1>2
<1>4. S = Nat
  <2>. HIDE DEF S
  <2>1. S \in SUBSET Nat
    BY DEF S
  <2>. QED BY <1>1, <1>3, <2>1, Induction
<1>5. Good(b)
  <2>. HIDE DEF Good
  <2>1. CASE a <= b
    <3>1. b - a + 1 \in S
      <4>. HIDE DEF S
      <4>. QED BY <1>4, <2>1
    <3>2. b = a + (b - a + 1) - 1
      OBVIOUS
    <3>3. \A k \in S : \A n \in Int : n = a + k - 1 /\ n <= b => Good(n)
      OBVIOUS
    <3>. HIDE DEF S
    <3>. QED BY <3>1, <3>2, <3>3
  <2>. QED BY <1>0, <2>1
<1>6. PICK f \in [a..b -> V] : Is(f, b)
  BY <1>5
<1>7. IsRun(f, base, step, a, b)
  BY <1>6 DEF IsRun
<1>. QED BY <1>7

(* A sum over a finite set of indices is an integer. *)
LEMMA SumIsInt ==
  ASSUME NEW fun, NEW S, IsFiniteSet(S), \A i \in S : fun[i] \in Int
  PROVE  FoldFunctionOnSet(+, 0, fun, S) \in Int
<1>. DEFINE One(s) == CHOOSE x \in s : TRUE
            Upto(k) == {s \in SUBSET S : Cardinality(s) <= k}
            Is(f, D) == \A s \in D : f[s] = IF s = {} THEN 0 ELSE fun[One(s)] + f[s \ {One(s)}]
            Good(k) == \E f \in [Upto(k) -> Int] : Is(f, Upto(k))
            N == {k \in Nat : Good(k)}
<1>1. ASSUME NEW s \in SUBSET S, s # {}
      PROVE  /\ One(s) \in s /\ fun[One(s)] \in Int
             /\ IsFiniteSet(s) /\ s \ {One(s)} \in SUBSET S
             /\ Cardinality(s) \in Nat
             /\ Cardinality(s \ {One(s)}) = Cardinality(s) - 1
  <2>1. One(s) \in s
    BY <1>1
  <2>2. IsFiniteSet(s)
    BY FS_Subset
  <2>3. Cardinality(s) \in Nat /\ Cardinality(s \ {One(s)}) = Cardinality(s) - 1
    <3>. HIDE DEF One
    <3>. QED BY <2>1, <2>2, FS_CardinalityType, FS_RemoveElement
  <2>. QED BY <2>1, <2>2, <2>3
<1>2. ASSUME NEW s \in SUBSET S PROVE Cardinality(s) \in Nat /\ (Cardinality(s) = 0 <=> s = {})
  <2>1. IsFiniteSet(s)
    BY FS_Subset
  <2>. QED BY <2>1, FS_EmptySet, FS_CardinalityType
<1>3. 0 \in N
  <2>1. Upto(0) = {{}}
    BY <1>2
  <2>2. [s \in {{}} |-> 0] \in [{{}} -> Int] /\ Is([s \in {{}} |-> 0], {{}})
    OBVIOUS
  <2>. HIDE DEF Upto, Is
  <2>. QED BY <2>1, <2>2
<1>4. ASSUME NEW k \in N PROVE k + 1 \in N
  <2>1. PICK f \in [Upto(k) -> Int] : Is(f, Upto(k))
    OBVIOUS
  <2>. DEFINE g == [s \in Upto(k + 1) |-> IF s = {} THEN 0 ELSE fun[One(s)] + f[s \ {One(s)}]]
  <2>2. ASSUME NEW s \in Upto(k + 1), s # {}
        PROVE  s \ {One(s)} \in Upto(k)
    <3>1. s \in SUBSET S
      OBVIOUS
    <3>2. /\ s \ {One(s)} \in SUBSET S
          /\ Cardinality(s) \in Nat /\ Cardinality(s \ {One(s)}) = Cardinality(s) - 1
      BY <1>1, <3>1, <2>2
    <3>. HIDE DEF One
    <3>. QED BY <3>2
  <2>3. g \in [Upto(k + 1) -> Int]
    <3>1. ASSUME NEW s \in Upto(k + 1), s # {} PROVE fun[One(s)] + f[s \ {One(s)}] \in Int
      <4>1. s \in SUBSET S
        OBVIOUS
      <4>2. fun[One(s)] \in Int
        BY <1>1, <3>1, <4>1
      <4>3. f[s \ {One(s)}] \in Int
        BY <2>1, <2>2, <3>1
      <4>. QED BY <4>2, <4>3
    <3>. HIDE DEF One, Upto
    <3>. QED BY <3>1
  <2>4. ASSUME NEW s \in Upto(k) PROVE g[s] = f[s]
    <3>1. s \in Upto(k + 1)
      BY <1>2
    <3>2. g[s] = IF s = {} THEN 0 ELSE fun[One(s)] + f[s \ {One(s)}]
      BY <3>1
    <3>. HIDE DEF One, Upto, g
    <3>. QED BY <2>1, <3>2
  <2>5. Is(g, Upto(k + 1))
    <3>1. ASSUME NEW s \in Upto(k + 1)
          PROVE  g[s] = IF s = {} THEN 0 ELSE fun[One(s)] + g[s \ {One(s)}]
      <4>1. g[s] = IF s = {} THEN 0 ELSE fun[One(s)] + f[s \ {One(s)}]
        OBVIOUS
      <4>. HIDE DEF One, Upto, g
      <4>. QED BY <4>1, <2>2, <2>4
    <3>. HIDE DEF One, Upto, g
    <3>. QED BY <3>1
  <2>6. k + 1 \in Nat
    OBVIOUS
  <2>. HIDE DEF g, Upto, Is
  <2>. QED BY <2>3, <2>5, <2>6
<1>5. N = Nat
  <2>. HIDE DEF N
  <2>1. N \in SUBSET Nat
    BY DEF N
  <2>. QED BY <1>3, <1>4, <2>1, Induction
<1>6. Upto(Cardinality(S)) = SUBSET S
  <2>1. \A s \in SUBSET S : Cardinality(s) <= Cardinality(S)
    BY FS_Subset
  <2>. QED BY <2>1
<1>7. \E f \in [SUBSET S -> Int] : Is(f, SUBSET S)
  <2>1. Cardinality(S) \in N
    <3>. HIDE DEF N
    <3>. QED BY <1>5, <1>2
  <2>2. Good(Cardinality(S))
    BY <2>1
  <2>. HIDE DEF Upto, Is
  <2>. QED BY <2>2, <1>6
<1>. DEFINE iter == CHOOSE iter : iter = [s \in SUBSET S |->
                      IF s = {} THEN 0 ELSE fun[One(s)] + iter[s \ {One(s)}]]
<1>8. PICK f \in [SUBSET S -> Int] : Is(f, SUBSET S)
  BY <1>7
<1>9. \E h : h = [s \in SUBSET S |-> IF s = {} THEN 0 ELSE fun[One(s)] + h[s \ {One(s)}]]
  <2>1. f = [s \in SUBSET S |-> IF s = {} THEN 0 ELSE fun[One(s)] + f[s \ {One(s)}]]
    BY <1>8
  <2>. QED BY <2>1
<1>10. iter = [s \in SUBSET S |-> IF s = {} THEN 0 ELSE fun[One(s)] + iter[s \ {One(s)}]]
  BY <1>9
<1>11. \A s \in SUBSET S : iter[s] \in Int
  <2>. DEFINE M == {k \in Nat : \A s \in SUBSET S : Cardinality(s) = k => iter[s] \in Int}
  <2>1. ASSUME NEW s \in SUBSET S
        PROVE  iter[s] = IF s = {} THEN 0 ELSE fun[One(s)] + iter[s \ {One(s)}]
    <3>. HIDE DEF One, iter
    <3>. QED BY <1>10
  <2>. HIDE DEF iter
  <2>2. 0 \in M
    <3>2. ASSUME NEW s \in SUBSET S, Cardinality(s) = 0 PROVE iter[s] \in Int
      <4>1. s = {}
        BY <1>2, <3>2
      <4>2. iter[s] = 0
        BY <2>1, <4>1
      <4>. QED BY <4>2
    <3>. QED BY <3>2
  <2>3. ASSUME NEW k \in M PROVE k + 1 \in M
    <3>. SUFFICES ASSUME NEW s \in SUBSET S, Cardinality(s) = k + 1 PROVE iter[s] \in Int
      OBVIOUS
    <3>1. s # {}
      BY <1>2
    <3>2. s \ {One(s)} \in SUBSET S /\ Cardinality(s \ {One(s)}) = k /\ fun[One(s)] \in Int
      <4>. HIDE DEF One
      <4>. QED BY <1>1, <3>1
    <3>3. iter[s \ {One(s)}] \in Int
      <4>. HIDE DEF One
      <4>. QED BY <3>2
    <3>4. iter[s] = fun[One(s)] + iter[s \ {One(s)}]
      BY <2>1, <3>1
    <3>. HIDE DEF One, M
    <3>. QED BY <3>2, <3>3, <3>4
  <2>4. M = Nat
    <3>. HIDE DEF M
    <3>1. M \in SUBSET Nat
      BY DEF M
    <3>. QED BY <2>2, <2>3, <3>1, Induction
  <2>5. ASSUME NEW s \in SUBSET S PROVE iter[s] \in Int
    <3>1. Cardinality(s) \in M
      <4>. HIDE DEF M
      <4>. QED BY <2>4, <1>2
    <3>. QED BY <3>1
  <2>. QED BY <2>5
<1>12. FoldFunctionOnSet(+, 0, fun, S) = iter[S]
  BY DEF FoldFunctionOnSet, MapThenFoldSet
<1>. HIDE DEF iter
<1>. QED BY <1>11, <1>12

-----------------------------------------------------------------------------
(* chunk_transcript.                                                       *)

(* The texts within the lines from a to b.                                   *)
Within(a, b) == {t \in (a..b) \X (a..b) : t[1] <= t[2]}

(* What the loop has after line i: texts that follow each other from line a  *)
(* to line i, none of several lines as long as the limit.                    *)
Cut(s, a, i, chars) ==
    /\ s \in Seq(Within(a, i))
    /\ Consecutive(s, a, i)
    /\ \A k \in DOMAIN s : s[k][1] < s[k][2] => Size(s[k]) < chars

LEMMA SumType ==
  ASSUME NEW from \in 1..Len(lines), NEW to \in 1..Len(lines), lines \in Seq(Nat)
  PROVE  Sum(from, to) \in Int
<1>1. IsFiniteSet(from..to)
  BY FS_Interval
<1>2. \A i \in from..to : lines[i] \in Int
  OBVIOUS
<1>. QED BY <1>1, <1>2, SumIsInt DEF Sum

(* The loop of chunk_transcript over the lines from a to b.                  *)
IsLoop(f, a, b, chars) ==
    f = [i \in a..b |->
           IF i = a THEN <<<<i, i>>>>
           ELSE LET from == Last(f[i - 1])[1] IN
                IF Sum(from, i) + (i - from + 1) > chars
                THEN Append(f[i - 1], <<i, i>>)
                ELSE Append(Front(f[i - 1]), <<from, i>>)]

LEMMA ChunksLoop ==
  ASSUME NEW t, NEW chars, NEW f, IsLoop(f, t[1], t[2], chars)
  PROVE  \E g : IsLoop(g, t[1], t[2], chars) /\ Chunks(t, chars) = g[t[2]]
BY DEF Chunks, IsLoop

(* A line that starts another chunk.                                         *)
LEMMA CutNext ==
  ASSUME NEW a \in Int, NEW i \in Int, a < i, NEW chars,
         NEW s, Cut(s, a, i - 1, chars)
  PROVE  Cut(Append(s, <<i, i>>), a, i, chars)
<1>. DEFINE S == Within(a, i)
            u == Append(s, <<i, i>>)
<1>1. s \in Seq(Within(a, i - 1)) /\ Consecutive(s, a, i - 1)
  BY DEF Cut
<1>2. s \in Seq(S)
  <2>1. Within(a, i - 1) \subseteq S
    BY DEF Within
  <2>. QED BY <1>1, <2>1, SeqMonotonic
<1>3. <<i, i>> \in S
  BY DEF Within
<1>4. s # <<>> /\ s[1][1] = a /\ s[Len(s)][2] = i - 1
      /\ \A k \in 1..(Len(s) - 1) : s[k + 1][1] = s[k][2] + 1
  BY <1>1 DEF Consecutive
<1>5. Len(s) \in Nat /\ Len(s) > 0 /\ DOMAIN s = 1..Len(s)
  <2>. HIDE DEF S
  <2>. QED BY <1>2, <1>4
<1>6. /\ u \in Seq(S) /\ u # <<>> /\ Len(u) = Len(s) + 1 /\ DOMAIN u = 1..Len(u)
      /\ \A k \in 1..Len(s) : u[k] = s[k]
      /\ u[Len(s) + 1] = <<i, i>>
  <2>. HIDE DEF S
  <2>. QED BY <1>2, <1>3, AppendProperties, LenProperties
<1>. HIDE DEF u
<1>7. Consecutive(u, a, i)
  <2>1. u[1][1] = a /\ u[Len(u)][2] = i
    BY <1>4, <1>5, <1>6
  <2>2. ASSUME NEW k \in 1..Len(s) PROVE u[k + 1][1] = u[k][2] + 1
    <3>1. u[k] = s[k]
      BY <1>6
    <3>2. CASE k < Len(s)
      <4>1. k \in 1..(Len(s) - 1) /\ k + 1 \in 1..Len(s)
        BY <3>2, <1>5
      <4>2. u[k + 1] = s[k + 1]
        BY <4>1, <1>6
      <4>. QED BY <3>1, <4>1, <4>2, <1>4
    <3>3. CASE k = Len(s)
      <4>1. u[k + 1] = <<i, i>> /\ s[k][2] = i - 1
        BY <3>3, <1>4, <1>6
      <4>. QED BY <3>1, <4>1
    <3>4. k < Len(s) \/ k = Len(s)
      <4>1. Len(s) \in Int /\ k \in Int /\ k <= Len(s)
        BY <1>5
      <4>. QED BY <4>1
    <3>. QED BY <3>2, <3>3, <3>4
  <2>3. Len(u) - 1 = Len(s)
    BY <1>5, <1>6
  <2>. QED BY <2>1, <2>2, <2>3, <1>6 DEF Consecutive
<1>8. ASSUME NEW k \in DOMAIN u, u[k][1] < u[k][2] PROVE Size(u[k]) < chars
  <2>1. CASE k \in 1..Len(s)
    <3>1. u[k] = s[k]
      BY <1>6, <2>1
    <3>2. \A j \in DOMAIN s : s[j][1] < s[j][2] => Size(s[j]) < chars
      BY DEF Cut
    <3>. QED BY <3>1, <3>2, <2>1, <1>5, <1>8
  <2>2. CASE k = Len(s) + 1
    BY <2>2, <1>6, <1>8
  <2>. QED BY <2>1, <2>2, <1>5, <1>6
<1>9. \A k \in DOMAIN u : u[k][1] < u[k][2] => Size(u[k]) < chars
  BY <1>8
<1>. QED BY <1>6, <1>7, <1>9 DEF Cut, u

(* A line that goes on the last chunk.                                       *)
LEMMA CutLonger ==
  ASSUME NEW a \in Int, NEW i \in Int, a < i, NEW chars,
         NEW s, Cut(s, a, i - 1, chars),
         NEW from, from = Last(s)[1], Size(<<from, i>>) < chars
  PROVE  Cut(Append(Front(s), <<from, i>>), a, i, chars)
<1>. DEFINE S == Within(a, i)
            w == Front(s)
            u == Append(w, <<from, i>>)
            n == Len(s)
<1>1. s \in Seq(Within(a, i - 1)) /\ Consecutive(s, a, i - 1)
  BY DEF Cut
<1>2. s \in Seq(S)
  <2>1. Within(a, i - 1) \subseteq S
    BY DEF Within
  <2>. QED BY <1>1, <2>1, SeqMonotonic
<1>4. s # <<>> /\ s[1][1] = a /\ s[n][2] = i - 1
      /\ \A k \in 1..(n - 1) : s[k + 1][1] = s[k][2] + 1
  BY <1>1 DEF Consecutive
<1>5. n \in Nat /\ n > 0 /\ DOMAIN s = 1..n
  <2>. HIDE DEF S
  <2>. QED BY <1>2, <1>4
<1>3. <<from, i>> \in S
  <2>1. s[n] \in Within(a, i - 1)
    BY <1>1, <1>5, ElementOfSeq
  <2>2. from = s[n][1]
    BY DEF Last
  <2>. QED BY <2>1, <2>2 DEF Within
<1>6. /\ w \in Seq(S) /\ Len(w) = n - 1 /\ \A k \in 1..(n - 1) : w[k] = s[k]
  <2>1. \A k \in 1..(n - 1) : s[k] \in S
    <3>. HIDE DEF S
    <3>. QED BY <1>2, <1>5, ElementOfSeq
  <2>. HIDE DEF S
  <2>2. /\ w \in Seq(S) /\ Len(w) = IF 1 <= n - 1 THEN n - 1 - 1 + 1 ELSE 0
        /\ \A k \in 1..(n - 1 - 1 + 1) : w[k] = s[1 + k - 1]
    BY <2>1, <1>5, SubSeqProperties DEF Front
  <2>3. n - 1 - 1 + 1 = n - 1 /\ (1 <= n - 1 \/ n - 1 = 0)
    BY <1>5
  <2>4. \A k \in 1..(n - 1) : s[1 + k - 1] = s[k]
    BY <1>5
  <2>5. Len(w) = n - 1
    BY <2>2, <2>3
  <2>6. \A k \in 1..(n - 1) : w[k] = s[1 + k - 1]
    BY <2>2, <2>3
  <2>. HIDE DEF w
  <2>. QED BY <2>2, <2>4, <2>5, <2>6
<1>. HIDE DEF w
<1>7. /\ u \in Seq(S) /\ u # <<>> /\ Len(u) = n /\ DOMAIN u = 1..n
      /\ \A k \in 1..(n - 1) : u[k] = s[k]
      /\ u[n] = <<from, i>>
  <2>. HIDE DEF S
  <2>1. /\ u \in Seq(S) /\ u # <<>> /\ Len(u) = Len(w) + 1
        /\ \A k \in 1..Len(w) : u[k] = w[k]
        /\ u[Len(w) + 1] = <<from, i>>
    BY <1>6, <1>3, AppendProperties
  <2>2. DOMAIN u = 1..Len(u)
    BY <2>1, LenProperties
  <2>. HIDE DEF u
  <2>3. Len(u) = n /\ Len(w) + 1 = n /\ 1..Len(w) = 1..(n - 1)
    BY <2>1, <1>5, <1>6
  <2>. QED BY <2>1, <2>2, <2>3, <1>6
<1>. HIDE DEF u
<1>8. Consecutive(u, a, i)
  <2>0. u[n][1] = s[n][1] /\ u[n][2] = i
    BY <1>7 DEF Last
  <2>1. u[1][1] = a
    BY <2>0, <1>4, <1>5, <1>7
  <2>2. ASSUME NEW k \in 1..(n - 1) PROVE u[k + 1][1] = u[k][2] + 1
    <3>1. u[k] = s[k] /\ s[k + 1][1] = s[k][2] + 1
      BY <1>4, <1>7
    <3>2. u[k + 1][1] = s[k + 1][1]
      BY <2>0, <1>5, <1>7
    <3>. QED BY <3>1, <3>2
  <2>. QED BY <2>0, <2>1, <2>2, <1>7 DEF Consecutive
<1>9. ASSUME NEW k \in DOMAIN u, u[k][1] < u[k][2] PROVE Size(u[k]) < chars
  <2>1. CASE k \in 1..(n - 1)
    <3>1. u[k] = s[k]
      BY <1>7, <2>1
    <3>2. \A j \in DOMAIN s : s[j][1] < s[j][2] => Size(s[j]) < chars
      BY DEF Cut
    <3>. QED BY <3>1, <3>2, <2>1, <1>5, <1>9
  <2>2. CASE k = n
    BY <2>2, <1>7
  <2>. QED BY <2>1, <2>2, <1>5, <1>7
<1>10. \A k \in DOMAIN u : u[k][1] < u[k][2] => Size(u[k]) < chars
  BY <1>9
<1>. QED BY <1>7, <1>8, <1>10 DEF Cut, u, w

(* The first line.                                                           *)
LEMMA CutFirst ==
  ASSUME NEW a \in Int, NEW chars
  PROVE  Cut(<<<<a, a>>>>, a, a, chars)
<1>. DEFINE s == <<<<a, a>>>>
<1>1. s \in Seq(Within(a, a)) /\ Len(s) = 1 /\ s[1] = <<a, a>> /\ s # <<>> /\ DOMAIN s = 1..1
  BY DEF Within
<1>. HIDE DEF s
<1>2. \A k \in DOMAIN s : s[k] = <<a, a>>
  BY <1>1
<1>3. Consecutive(s, a, a)
  BY <1>1 DEF Consecutive
<1>4. \A k \in DOMAIN s : s[k][1] < s[k][2] => Size(s[k]) < chars
  BY <1>2
<1>. QED BY <1>1, <1>3, <1>4 DEF Cut, s

(* The loop has a value for every line.                                      *)
LEMMA ChunksDefined ==
  ASSUME NEW a \in Int, NEW b \in Int, NEW chars
  PROVE  \E f : IsLoop(f, a, b, chars)
<1>. DEFINE P == Int \X Int
            V == Seq(P) \ {<<>>}
            next(v, i) == IF Sum(Last(v)[1], i) + (i - Last(v)[1] + 1) > chars
                          THEN Append(v, <<i, i>>)
                          ELSE Append(Front(v), <<Last(v)[1], i>>)
            step == [i \in a..b |-> [v \in V |-> next(v, i)]]
<1>1. <<<<a, a>>>> \in V
  OBVIOUS
<1>2. ASSUME NEW i \in a..b, NEW v \in V PROVE next(v, i) \in V
  <2>1. Len(v) \in Nat /\ Len(v) > 0 /\ v \in Seq(P)
    <3>. HIDE DEF P
    <3>. QED OBVIOUS
  <2>2. Last(v) \in P
    <3>1. Len(v) \in 1..Len(v)
      BY <2>1
    <3>. HIDE DEF P
    <3>. QED BY <2>1, <3>1, ElementOfSeq DEF Last
  <2>3. <<i, i>> \in P /\ <<Last(v)[1], i>> \in P
    BY <2>2
  <2>4. Front(v) \in Seq(P)
    <3>1. \A k \in 1..(Len(v) - 1) : v[k] \in P
      <4>. HIDE DEF P
      <4>. QED BY <2>1, ElementOfSeq
    <3>2. Len(v) - 1 \in Int
      BY <2>1
    <3>. HIDE DEF P
    <3>. QED BY <3>1, <3>2, SubSeqProperties DEF Front
  <2>5. Append(v, <<i, i>>) \in V
    <3>. HIDE DEF P
    <3>. QED BY <2>1, <2>3, AppendProperties
  <2>6. Append(Front(v), <<Last(v)[1], i>>) \in V
    <3>. DEFINE w == Front(v)
                e == <<Last(v)[1], i>>
    <3>1. w \in Seq(P) /\ e \in P
      BY <2>3, <2>4
    <3>. HIDE DEF P, w, e
    <3>2. Append(w, e) \in Seq(P) /\ Append(w, e) # <<>>
      BY <3>1, AppendProperties
    <3>. QED BY <3>2 DEF w, e
  <2>. QED BY <2>5, <2>6
<1>3. \A i \in a..b : \A v \in V : step[i][v] \in V
  <2>. HIDE DEF V, next
  <2>. QED BY <1>2
<1>4. PICK f \in [a..b -> V] :
         \A i \in a..b : f[i] = IF i = a THEN <<<<a, a>>>> ELSE step[i][f[i - 1]]
  <2>. DEFINE base == <<<<a, a>>>>
  <2>1. base \in V
    BY <1>1
  <2>2. PICK st : st = step
    OBVIOUS
  <2>3. \A i \in a..b : \A v \in V : st[i][v] \in V
    <3>. HIDE DEF V, step
    <3>. QED BY <1>3, <2>2
  <2>. HIDE DEF V, base, step
  <2>4. \E f \in [a..b -> V] : IsRun(f, base, st, a, b)
    BY <2>1, <2>3, Recursion
  <2>. QED BY <2>2, <2>4 DEF base, IsRun
<1>5. ASSUME NEW i \in a..b PROVE f[i] = IF i = a THEN <<<<i, i>>>> ELSE next(f[i - 1], i)
  <2>1. i # a => step[i][f[i - 1]] = next(f[i - 1], i)
    <3>. SUFFICES ASSUME i # a PROVE step[i][f[i - 1]] = next(f[i - 1], i)
      OBVIOUS
    <3>1. i - 1 \in a..b
      OBVIOUS
    <3>2. f[i - 1] \in V
      <4>. HIDE DEF V
      <4>. QED BY <3>1
    <3>. HIDE DEF V, next
    <3>. QED BY <3>2
  <2>. HIDE DEF V, next, step
  <2>. QED BY <1>4, <2>1
<1>6. f = [i \in a..b |-> IF i = a THEN <<<<i, i>>>> ELSE next(f[i - 1], i)]
  <2>. HIDE DEF V, next, step
  <2>. QED BY <1>5
<1>. QED BY <1>6 DEF IsLoop

(* The chunks of a text follow each other over its lines, and none of        *)
(* several lines is as long as the limit.                                    *)
LEMMA ChunksCut ==
  ASSUME lines \in Seq(Nat), NEW t \in Text, NEW chars \in Int
  PROVE  Cut(Chunks(t, chars), t[1], t[2], chars)
<1>. DEFINE a == t[1]
            b == t[2]
<1>1. a \in 1..Len(lines) /\ b \in 1..Len(lines) /\ a <= b
  BY DEF Text
<1>2. Len(lines) \in Nat /\ a \in Int /\ b \in Int
  <2>1. Len(lines) \in Nat
    OBVIOUS
  <2>. HIDE DEF a, b
  <2>. QED BY <2>1, <1>1
<1>3. PICK g : IsLoop(g, a, b, chars) /\ Chunks(t, chars) = g[b]
  <2>1. PICK f : IsLoop(f, a, b, chars)
    <3>. HIDE DEF a, b
    <3>. QED BY <1>2, ChunksDefined
  <2>. QED BY <2>1, ChunksLoop
<1>. HIDE DEF a, b
<1>4. ASSUME NEW i \in a..b, i # a, Cut(g[i - 1], a, i - 1, chars)
      PROVE  Cut(g[i], a, i, chars)
  <2>. DEFINE s == g[i - 1]
              from == Last(s)[1]
  <2>1. g[i] = IF Sum(from, i) + (i - from + 1) > chars
               THEN Append(s, <<i, i>>) ELSE Append(Front(s), <<from, i>>)
    BY <1>3, <1>4 DEF IsLoop
  <2>2. i \in Int /\ a < i /\ i \in 1..Len(lines)
    BY <1>1, <1>2, <1>4
  <2>3. from \in 1..Len(lines) /\ from \in Int
    <3>1. s \in Seq(Within(a, i - 1)) /\ s # <<>>
      BY <1>4 DEF Cut, Consecutive
    <3>2. Len(s) \in 1..Len(s)
      <4>. HIDE DEF s
      <4>. QED BY <3>1, EmptySeq
    <3>3. s[Len(s)] \in Within(a, i - 1)
      <4>. HIDE DEF s
      <4>. QED BY <3>1, <3>2, ElementOfSeq
    <3>. HIDE DEF s
    <3>4. from \in a..(i - 1)
      BY <3>3 DEF Within, Last
    <3>. HIDE DEF from
    <3>. QED BY <3>4, <2>2, <1>1, <1>2
  <2>4. CASE Sum(from, i) + (i - from + 1) > chars
    <3>1. Cut(Append(s, <<i, i>>), a, i, chars)
      <4>. HIDE DEF s
      <4>1. Cut(s, a, i - 1, chars)
        BY <1>4 DEF s
      <4>. QED BY <4>1, <2>2, <1>2, CutNext
    <3>. HIDE DEF s, from
    <3>. QED BY <3>1, <2>1, <2>4
  <2>5. CASE ~(Sum(from, i) + (i - from + 1) > chars)
    <3>1. Sum(from, i) \in Int
      <4>. HIDE DEF from
      <4>. QED BY <2>2, <2>3, SumType
    <3>2. Size(<<from, i>>) < chars
      <4>. HIDE DEF from, s
      <4>1. Size(<<from, i>>) = Sum(from, i) + (i - from)
        BY DEF Size
      <4>. QED BY <4>1, <3>1, <2>2, <2>3, <2>5
    <3>3. Cut(s, a, i - 1, chars) /\ from = Last(s)[1]
      BY <1>4
    <3>. HIDE DEF s, from
    <3>4. Cut(Append(Front(s), <<from, i>>), a, i, chars)
      BY <3>2, <3>3, <2>2, <1>2, CutLonger
    <3>. QED BY <3>4, <2>1, <2>5
  <2>. QED BY <2>4, <2>5
<1>5. Cut(g[a], a, a, chars)
  <2>1. g[a] = <<<<a, a>>>>
    BY <1>1, <1>2, <1>3 DEF IsLoop
  <2>. QED BY <2>1, <1>2, CutFirst
<1>6. \A i \in a..b : Cut(g[i], a, i, chars)
  <2>. DEFINE N == {k \in Nat : \A i \in a..b : i = a + k => Cut(g[i], a, i, chars)}
  <2>1. 0 \in N
    BY <1>2, <1>5
  <2>2. ASSUME NEW k \in N PROVE k + 1 \in N
    <3>. SUFFICES ASSUME NEW i \in a..b, i = a + (k + 1) PROVE Cut(g[i], a, i, chars)
      OBVIOUS
    <3>1. i - 1 \in a..b /\ i - 1 = a + k /\ i # a
      BY <1>2
    <3>2. Cut(g[i - 1], a, i - 1, chars)
      BY <3>1
    <3>. HIDE DEF N
    <3>. QED BY <3>1, <3>2, <1>4
  <2>3. N = Nat
    <3>. HIDE DEF N
    <3>1. N \in SUBSET Nat
      BY DEF N
    <3>. QED BY <2>1, <2>2, <3>1, Induction
  <2>4. ASSUME NEW i \in a..b PROVE Cut(g[i], a, i, chars)
    <3>1. i - a \in N /\ i = a + (i - a)
      <4>1. i - a \in Nat /\ i = a + (i - a)
        BY <1>2
      <4>. HIDE DEF N
      <4>. QED BY <4>1, <2>3
    <3>2. \A k \in N : i = a + k => Cut(g[i], a, i, chars)
      OBVIOUS
    <3>. HIDE DEF N
    <3>. QED BY <3>1, <3>2
  <2>. QED BY <2>4
<1>7. Cut(g[b], a, b, chars)
  <2>1. b \in a..b
    BY <1>1, <1>2
  <2>. QED BY <2>1, <1>6
<1>8. Cut(Chunks(t, chars), a, b, chars)
  BY <1>7, <1>3
<1>. QED BY <1>8 DEF a, b

-----------------------------------------------------------------------------
(* Cutting again.                                                          *)

LEMMA SizeType ==
  ASSUME lines \in Seq(Nat), NEW t \in Text
  PROVE  Size(t) \in Int
<1>1. t[1] \in 1..Len(lines) /\ t[2] \in 1..Len(lines)
  BY DEF Text
<1>2. Sum(t[1], t[2]) \in Int
  BY <1>1, SumType
<1>3. t[1] \in Int /\ t[2] \in Int
  <2>1. Len(lines) \in Nat
    OBVIOUS
  <2>. QED BY <1>1, <2>1
<1>. QED BY <1>2, <1>3 DEF Size

(* A text that may be cut is cut into shorter ones, and only a line is left  *)
(* as it is.                                                                 *)
LEMMA HalvesCut ==
  ASSUME lines \in Seq(Nat), NEW t \in Text, Size(t) > MinChunk
  PROVE  \E c \in Int : /\ c < Size(t) /\ Cut(Halves(t), t[1], t[2], c)
                        /\ Len(Halves(t)) < 2 => t[1] = t[2]
<1>. DEFINE c == Larger(Size(t) \div 2 + Slack, MinChunk \div 2)
<1>1. Size(t) \in Int
  BY SizeType
<1>2. c \in Int /\ c < Size(t)
  <2>1. /\ MinChunk \in Int /\ Slack \in Int /\ MinChunk > 0 /\ MinChunk >= 2 * Slack
    BY SizesAssumption
  <2>. QED BY <1>1, <2>1 DEF Larger
<1>3. Cut(Halves(t), t[1], t[2], c)
  <2>. HIDE DEF c
  <2>1. Cut(Chunks(t, c), t[1], t[2], c)
    BY <1>2, ChunksCut
  <2>. QED BY <2>1 DEF Halves, c
<1>4. ASSUME Len(Halves(t)) < 2 PROVE t[1] = t[2]
  <2>. DEFINE h == Halves(t)
  <2>. HIDE DEF c, h
  <2>1. /\ h \in Seq(Within(t[1], t[2])) /\ h # <<>>
        /\ h[1][1] = t[1] /\ h[Len(h)][2] = t[2]
        /\ \A k \in DOMAIN h : h[k][1] < h[k][2] => Size(h[k]) < c
    BY <1>3 DEF Cut, Consecutive, h
  <2>2. Len(h) = 1 /\ DOMAIN h = 1..1
    <3>1. Len(h) \in Nat \ {0} /\ DOMAIN h = 1..Len(h)
      BY <2>1, EmptySeq, LenProperties
    <3>2. Len(h) < 2
      BY <1>4 DEF h
    <3>. QED BY <3>1, <3>2
  <2>3. Size(h[1]) = Size(t)
    BY <2>1, <2>2 DEF Size
  <2>4. t[1] < t[2] => Size(t) < c
    BY <2>1, <2>2, <2>3
  <2>5. t[1] \in Int /\ t[2] \in Int /\ t[1] <= t[2]
    <3>1. Len(lines) \in Nat
      OBVIOUS
    <3>. QED BY <3>1 DEF Text
  <2>. QED BY <1>1, <1>2, <2>4, <2>5
<1>. QED BY <1>2, <1>3, <1>4

(* The texts of a text are texts.                                            *)
LEMMA WithinText ==
  ASSUME lines \in Seq(Nat), NEW t \in Text
  PROVE  Within(t[1], t[2]) \subseteq Text
<1>1. Len(lines) \in Nat /\ t[1] \in 1..Len(lines) /\ t[2] \in 1..Len(lines)
  BY DEF Text
<1>2. t[1]..t[2] \subseteq 1..Len(lines)
  BY <1>1
<1>. QED BY <1>2 DEF Text, Within

(* One text of a sequence is replaced by the texts it is cut into.           *)
LEMMA Replaced ==
  ASSUME NEW T, NEW p \in Seq(T), NEW w \in Seq(T), w # <<>>, NEW h \in Seq(T),
         NEW a, NEW b, Consecutive(p \o w, a, b),
         Consecutive(h, Head(w)[1], Head(w)[2])
  PROVE  Consecutive(p \o (h \o Tail(w)), a, b)
<1>. DEFINE n == Len(p)
            m == Len(h)
            l == Len(w)
            x == Tail(w)
            y == h \o x
            u == p \o w
            v == p \o y
<1>1. n \in Nat /\ m \in Nat /\ l \in Nat /\ l > 0 /\ Head(w) = w[1]
  BY LenProperties, EmptySeq
<1>2. x \in Seq(T) /\ Len(x) = l - 1 /\ \A k \in 1..(l - 1) : x[k] = w[k + 1]
  <2>1. x \in Seq(T) /\ Len(x) = l - 1 /\ \A k \in 1..Len(x) : x[k] = w[k + 1]
    BY HeadTailProperties
  <2>. HIDE DEF x, l
  <2>. QED BY <2>1
<1>3. y \in Seq(T) /\ Len(y) = m + l - 1
      /\ (\A k \in 1..m : y[k] = h[k])
      /\ \A k \in (m + 1)..(m + l - 1) : y[k] = w[k - m + 1]
  <2>1. y \in Seq(T) /\ Len(y) = m + Len(x)
        /\ \A k \in 1..(m + Len(x)) : y[k] = IF k <= m THEN h[k] ELSE x[k - m]
    <3>. HIDE DEF x
    <3>. QED BY <1>2, ConcatProperties
  <2>. HIDE DEF x, y, m, l
  <2>2. \A k \in 1..m : y[k] = h[k]
    BY <1>1, <1>2, <2>1
  <2>3. ASSUME NEW k \in (m + 1)..(m + l - 1) PROVE y[k] = w[k - m + 1]
    <3>1. y[k] = x[k - m]
      BY <1>1, <1>2, <2>1
    <3>2. k - m \in 1..(l - 1)
      BY <1>1
    <3>. QED BY <3>1, <3>2, <1>2
  <2>. QED BY <1>1, <1>2, <2>1, <2>2, <2>3
<1>4. u \in Seq(T) /\ Len(u) = n + l
      /\ (\A k \in 1..n : u[k] = p[k])
      /\ \A k \in (n + 1)..(n + l) : u[k] = w[k - n]
  <2>1. u \in Seq(T) /\ Len(u) = n + l
        /\ \A k \in 1..(n + l) : u[k] = IF k <= n THEN p[k] ELSE w[k - n]
    BY ConcatProperties
  <2>. HIDE DEF u, n, l
  <2>. QED BY SMTT(40), <2>1, <1>1
<1>5. v \in Seq(T) /\ Len(v) = n + m + l - 1
      /\ (\A k \in 1..n : v[k] = p[k])
      /\ (\A k \in (n + 1)..(n + m) : v[k] = h[k - n])
      /\ \A k \in (n + m + 1)..(n + m + l - 1) : v[k] = w[k - n - m + 1]
  <2>. HIDE DEF y
  <2>1. v \in Seq(T) /\ Len(v) = n + Len(y)
        /\ \A k \in 1..(n + Len(y)) : v[k] = IF k <= n THEN p[k] ELSE y[k - n]
    BY <1>3, ConcatProperties
  <2>. HIDE DEF v, n, m, l
  <2>2. Len(v) = n + m + l - 1
    BY <2>1, <1>1, <1>3
  <2>3. \A k \in 1..n : v[k] = p[k]
    BY <2>1, <1>1, <1>3
  <2>4. ASSUME NEW k \in (n + 1)..(n + m + l - 1) PROVE v[k] = y[k - n]
    BY <2>1, <1>1, <1>3
  <2>5. ASSUME NEW k \in (n + 1)..(n + m) PROVE v[k] = h[k - n]
    <3>1. k \in (n + 1)..(n + m + l - 1) /\ k - n \in 1..m
      BY <1>1
    <3>. QED BY <3>1, <2>4, <1>3
  <2>6. ASSUME NEW k \in (n + m + 1)..(n + m + l - 1) PROVE v[k] = w[k - n - m + 1]
    <3>1. k \in (n + 1)..(n + m + l - 1) /\ k - n \in (m + 1)..(m + l - 1)
      BY <1>1
    <3>2. y[k - n] = w[k - n - m + 1]
      BY <3>1, <1>3
    <3>. QED BY <3>1, <3>2, <2>4
  <2>. QED BY <2>1, <2>2, <2>3, <2>5, <2>6
<1>6. /\ u[1][1] = a /\ u[n + l][2] = b
      /\ \A k \in 1..(n + l - 1) : u[k + 1][1] = u[k][2] + 1
  BY <1>4 DEF Consecutive
<1>7. /\ m > 0 /\ h[1][1] = w[1][1] /\ h[m][2] = w[1][2]
      /\ \A k \in 1..(m - 1) : h[k + 1][1] = h[k][2] + 1
  <2>1. h # <<>> /\ h[1][1] = w[1][1] /\ h[m][2] = w[1][2]
        /\ \A k \in 1..(m - 1) : h[k + 1][1] = h[k][2] + 1
    BY <1>1 DEF Consecutive
  <2>2. m \in Nat \ {0}
    BY <2>1, EmptySeq
  <2>. QED BY <2>1, <2>2
<1>. HIDE DEF n, m, l, u, v, x, y
<1>8. u[n + 1] = w[1]
  BY <1>1, <1>4
<1>9. v[n + 1] = h[1] /\ v[n + m] = h[m]
  BY <1>1, <1>5, <1>7
<1>10. v # <<>> /\ v[1][1] = a
  <2>1. v # <<>>
    BY <1>1, <1>5, <1>7, EmptySeq
  <2>2. CASE n = 0
    <3>1. n + 1 = 1
      BY <2>2
    <3>. QED BY <2>1, <3>1, <1>6, <1>7, <1>8, <1>9
  <2>3. CASE n # 0
    <3>1. v[1] = u[1]
      BY <2>3, <1>1, <1>4, <1>5
    <3>. QED BY <2>1, <3>1, <1>6
  <2>. QED BY <2>2, <2>3
<1>11. v[n + m + l - 1][2] = b
  <2>1. CASE l = 1
    <3>1. n + m + l - 1 = n + m /\ n + l = n + 1
      BY <2>1, <1>1
    <3>. QED BY <3>1, <1>6, <1>7, <1>8, <1>9
  <2>2. CASE l > 1
    <3>1. v[n + m + l - 1] = w[l]
      <4>1. n + m + l - 1 \in (n + m + 1)..(n + m + l - 1)
            /\ n + m + l - 1 - n - m + 1 = l
        BY <2>2, <1>1
      <4>. QED BY <4>1, <1>5, <1>1
    <3>2. u[n + l] = w[l]
      <4>1. n + l \in (n + 1)..(n + l) /\ n + l - n = l
        BY <1>1
      <4>. QED BY <4>1, <1>4, <1>1
    <3>. QED BY <3>1, <3>2, <1>6
  <2>. QED BY <2>1, <2>2, <1>1
<1>12. ASSUME NEW i \in 2..l PROVE v[n + m + i - 1] = w[i] /\ u[n + i] = w[i]
  <2>1. n + m + i - 1 \in (n + m + 1)..(n + m + l - 1) /\ n + m + i - 1 - n - m + 1 = i
    BY <1>1
  <2>2. n + i \in (n + 1)..(n + l) /\ n + i - n = i
    BY <1>1
  <2>. QED BY <2>1, <2>2, <1>1, <1>4, <1>5
<1>13. ASSUME NEW k \in 1..(n + m + l - 2) PROVE v[k + 1][1] = v[k][2] + 1
  <2>1. CASE k < n
    <3>1. k \in 1..n /\ k + 1 \in 1..n /\ k \in 1..(n + l - 1)
      BY <2>1, <1>1
    <3>2. v[k] = u[k] /\ v[k + 1] = u[k + 1]
      BY <3>1, <1>4, <1>5
    <3>. QED BY <3>1, <3>2, <1>6
  <2>2. CASE k = n
    <3>1. k \in 1..n /\ k \in 1..(n + l - 1)
      BY <2>2, <1>1
    <3>2. v[k] = u[k] /\ v[k + 1] = h[1] /\ u[k + 1] = w[1]
      BY <3>1, <2>2, <1>4, <1>5, <1>8, <1>9
    <3>. QED BY <3>1, <3>2, <1>6, <1>7
  <2>3. CASE k > n /\ k < n + m
    <3>1. k \in (n + 1)..(n + m) /\ k + 1 \in (n + 1)..(n + m)
          /\ k - n \in 1..(m - 1) /\ k + 1 - n = k - n + 1
      BY <2>3, <1>1
    <3>2. v[k] = h[k - n] /\ v[k + 1] = h[k - n + 1]
      BY <3>1, <1>5, <1>1
    <3>. QED BY <3>1, <3>2, <1>7
  <2>4. CASE k = n + m
    <3>1. l > 1 /\ 2 \in 2..l /\ n + 1 \in 1..(n + l - 1)
      BY <2>4, <1>1
    <3>2. u[n + 2][1] = u[n + 1][2] + 1
      <4>1. n + 1 + 1 = n + 2
        BY <1>1
      <4>. QED BY <3>1, <4>1, <1>6
    <3>3. v[k + 1] = w[2] /\ u[n + 2] = w[2]
      <4>1. v[n + m + 2 - 1] = w[2] /\ u[n + 2] = w[2]
        BY <3>1, <1>12
      <4>2. n + m + 2 - 1 = k + 1
        BY <2>4, <1>1
      <4>. QED BY <4>1, <4>2
    <3>. QED BY <3>2, <3>3, <2>4, <1>7, <1>8, <1>9
  <2>5. CASE k > n + m
    <3>1. PICK i \in Int : i = k - n - m + 1
      BY <1>1
    <3>2. /\ i \in 2..l /\ i + 1 \in 2..l /\ n + i \in 1..(n + l - 1)
          /\ n + m + i - 1 = k /\ n + m + (i + 1) - 1 = k + 1
          /\ n + i + 1 = n + (i + 1)
      BY <2>5, <3>1, <1>1
    <3>3. v[k] = w[i] /\ u[n + i] = w[i]
      BY <3>2, <1>12
    <3>4. v[k + 1] = w[i + 1] /\ u[n + (i + 1)] = w[i + 1]
      <4>1. PICK e \in 2..l : e = i + 1
        BY <3>2
      <4>2. v[n + m + e - 1] = w[e] /\ u[n + e] = w[e]
        BY <1>12
      <4>. QED BY <4>1, <4>2, <3>2
    <3>5. u[n + i + 1][1] = u[n + i][2] + 1
      BY <3>2, <1>6
    <3>. QED BY <3>2, <3>3, <3>4, <3>5
  <2>. QED BY <2>1, <2>2, <2>3, <2>4, <2>5, <1>1
<1>14. Consecutive(v, a, b)
  <2>1. Len(v) = n + m + l - 1 /\ 1..(Len(v) - 1) = 1..(n + m + l - 2)
    BY <1>1, <1>5
  <2>. QED BY <2>1, <1>10, <1>11, <1>13 DEF Consecutive
<1>. QED BY <1>14 DEF v, y, x

(* A text that has been extracted goes from the end of one sequence ...      *)
LEMMA Moved ==
  ASSUME NEW T, NEW p \in Seq(T), NEW w \in Seq(T), w # <<>>
  PROVE  Append(p, Head(w)) \o Tail(w) = p \o w
<1>. DEFINE x == Tail(w)
            e == Head(w)
<1>1. e \in T /\ x \in Seq(T) /\ Len(x) = Len(w) - 1
      /\ (\A k \in 1..Len(x) : x[k] = w[k + 1]) /\ e = w[1]
  BY HeadTailProperties, EmptySeq
<1>. HIDE DEF x, e
<1>2. <<e>> \in Seq(T) /\ Len(<<e>>) = 1 /\ <<e>>[1] = e
  BY <1>1
<1>3. w = <<e>> \o x
  <2>1. <<e>> \o x \in Seq(T) /\ Len(<<e>> \o x) = 1 + Len(x)
        /\ \A k \in 1..(1 + Len(x)) : (<<e>> \o x)[k] = IF k <= 1 THEN <<e>>[k] ELSE x[k - 1]
    BY <1>1, <1>2, ConcatProperties
  <2>2. Len(w) \in Nat /\ Len(w) > 0
    BY EmptySeq, LenProperties
  <2>3. ASSUME NEW k \in 1..Len(w) PROVE w[k] = (<<e>> \o x)[k]
    <3>1. k \in 1..(1 + Len(x))
      BY <1>1, <2>2
    <3>2. CASE k = 1
      BY <3>1, <3>2, <2>1, <1>1, <1>2
    <3>3. CASE k > 1
      <4>1. k - 1 \in 1..Len(x) /\ k - 1 + 1 = k
        BY <3>3, <1>1, <2>2
      <4>2. x[k - 1] = w[k]
        BY <4>1, <1>1
      <4>. QED BY <3>1, <3>3, <4>2, <2>1
    <3>4. k = 1 \/ k > 1
      BY <2>2
    <3>. QED BY <3>2, <3>3, <3>4
  <2>4. Len(w) = Len(<<e>> \o x)
    BY <1>1, <2>1, <2>2
  <2>. QED BY <2>1, <2>3, <2>4, SeqEqual
<1>4. Append(p, e) = p \o <<e>>
  BY <1>1, AppendIsConcat
<1>5. (p \o <<e>>) \o x = p \o (<<e>> \o x)
  BY SMTT(40), <1>1, <1>2, ConcatAssociative
<1>6. Append(p, e) \o x = p \o w
  BY <1>3, <1>4, <1>5
<1>. QED BY <1>6 DEF x, e

(* ... to the end of the other.                                              *)
TextsOf(ps) == [k \in DOMAIN ps |-> ps[k].text]

LEMMA TextsOfType ==
  ASSUME NEW T, NEW A, NEW ps \in Seq([text : T, answer : A])
  PROVE  TextsOf(ps) \in Seq(T) /\ Len(TextsOf(ps)) = Len(ps)
<1>. DEFINE P == [text : T, answer : A]
<1>1. Len(ps) \in Nat /\ DOMAIN ps = 1..Len(ps) /\ \A k \in 1..Len(ps) : ps[k] \in P
  <2>1. ps \in Seq(P)
    OBVIOUS
  <2>. HIDE DEF P
  <2>. QED BY <2>1, LenProperties, ElementOfSeq
<1>2. TextsOf(ps) = [k \in 1..Len(ps) |-> ps[k].text]
  BY <1>1 DEF TextsOf
<1>3. \A k \in 1..Len(ps) : ps[k].text \in T
  BY <1>1
<1>. QED BY <1>1, <1>2, <1>3

LEMMA TextsOfAppend ==
  ASSUME NEW T, NEW A, NEW ps \in Seq([text : T, answer : A]),
         NEW r \in [text : T, answer : A]
  PROVE  TextsOf(Append(ps, r)) = Append(TextsOf(ps), r.text)
<1>. DEFINE P == [text : T, answer : A]
            n == Len(ps)
            x == TextsOf(Append(ps, r))
            y == Append(TextsOf(ps), r.text)
            q == Append(ps, r)
<1>1. /\ n \in Nat /\ DOMAIN ps = 1..n
      /\ q \in Seq(P) /\ Len(q) = n + 1 /\ DOMAIN q = 1..(n + 1)
      /\ (\A k \in 1..n : q[k] = ps[k]) /\ q[n + 1] = r
  <2>1. ps \in Seq(P) /\ r \in P
    OBVIOUS
  <2>. HIDE DEF P
  <2>. QED BY <2>1, LenProperties, AppendProperties
<1>2. TextsOf(ps) \in Seq(T) /\ Len(TextsOf(ps)) = n
  BY TextsOfType
<1>3. r.text \in T
  OBVIOUS
<1>4. /\ y \in Seq(T) /\ Len(y) = n + 1
      /\ (\A k \in 1..n : y[k] = TextsOf(ps)[k]) /\ y[n + 1] = r.text
  BY <1>2, <1>3, AppendProperties
<1>5. x \in Seq(T) /\ Len(x) = n + 1
  BY <1>1, TextsOfType
<1>6. ASSUME NEW k \in 1..(n + 1) PROVE x[k] = y[k]
  <2>1. x[k] = q[k].text
    BY <1>1 DEF TextsOf
  <2>2. CASE k \in 1..n
    <3>1. TextsOf(ps)[k] = ps[k].text
      BY <1>1, <2>2 DEF TextsOf
    <3>. HIDE DEF x, y, q
    <3>. QED BY <2>1, <2>2, <3>1, <1>1, <1>4
  <2>3. CASE k = n + 1
    <3>. HIDE DEF x, y, q
    <3>. QED BY <2>1, <2>3, <1>1, <1>4
  <2>4. k \in 1..n \/ k = n + 1
    BY <1>1
  <2>. QED BY <2>2, <2>3, <2>4
<1>. HIDE DEF x, y
<1>7. x = y
  BY <1>4, <1>5, <1>6, SeqEqual
<1>. QED BY <1>7 DEF x, y

-----------------------------------------------------------------------------
(* The invariant.                                                          *)

Inv ==
    /\ TypeOK
    /\ stage = "chunks" => work # <<>>
    /\ reason # "none" => stage = "failed"
    /\ TranscriptCovered
    /\ SplitBeforeGivingUp

(* The parts of the invariant that speak of sizes, with what they read as    *)
(* parameters: what they say of a state and of the next one.                 *)
SizeOf(l, t) == FoldFunctionOnSet(+, 0, l, t[1]..t[2]) + (t[2] - t[1])
Short(l, w) == \A k \in DOMAIN w : w[k][1] < w[k][2] => SizeOf(l, w[k]) < ChunkChars
GivenUp(l, t) == SizeOf(l, t) <= MinChunk \/ t[1] = t[2]
TextIn(n) == {t \in (1..n) \X (1..n) : t[1] <= t[2]}

LEMMA SizeIs == \A t : Size(t) = SizeOf(lines, t)
BY DEF Size, Sum, SizeOf

SaysWhat ==
  /\ Text = TextIn(Len(lines))
  /\ TranscriptCovered <=> Consecutive(TextsOf(parts) \o work, 1, Len(lines))
  /\ SplitBeforeGivingUp <=> /\ Short(lines, work)
                             /\ reason = "size" => GivenUp(lines, Head(work))

LEMMA Unfolded == SaysWhat
BY SizeIs DEF SaysWhat, Text, TextIn, TranscriptCovered, TextsOf, SplitBeforeGivingUp, Short, GivenUp

LEMMA UnfoldedNext ==
  /\ Text' = TextIn(Len(lines'))
  /\ TranscriptCovered' <=> Consecutive(TextsOf(parts') \o work', 1, Len(lines'))
  /\ SplitBeforeGivingUp' <=> /\ Short(lines', work')
                              /\ reason' = "size" => GivenUp(lines', Head(work'))
<1>1. SaysWhat'
  BY Unfolded, PTL
<1>. QED BY <1>1 DEF SaysWhat

LEMMA LinesType ==
  ASSUME TypeOK
  PROVE  /\ lines \in Seq(Nat) /\ Len(lines) \in Nat /\ Len(lines) > 0
         /\ Whole \in Text
<1>1. lines \in Seq(Nat) /\ lines # <<>>
  BY TranscriptsAssumption DEF TypeOK
<1>2. Len(lines) \in Nat /\ Len(lines) > 0
  BY <1>1
<1>. QED BY <1>1, <1>2 DEF Whole, Text

LEMMA InitInv == Init => Inv
<1>. SUFFICES ASSUME Init PROVE Inv
  OBVIOUS
<1>1. lines \in Seq(Nat) /\ lines # <<>> /\ Len(lines) \in Nat /\ Len(lines) > 0
  BY TranscriptsAssumption, EmptySeq DEF Init
<1>2. Whole \in Text /\ Whole[1] = 1 /\ Whole[2] = Len(lines)
  BY <1>1 DEF Whole, Text
<1>3. Cut(work, 1, Len(lines), ChunkChars)
  <2>1. ChunkChars \in Int
    BY SizesAssumption
  <2>2. Cut(Chunks(Whole, ChunkChars), Whole[1], Whole[2], ChunkChars)
    BY <1>1, <1>2, <2>1, ChunksCut
  <2>. QED BY <2>2, <1>2 DEF Init
<1>4. work \in Seq(Text) /\ work # <<>> /\ Consecutive(work, 1, Len(lines))
  <2>1. Within(Whole[1], Whole[2]) \subseteq Text
    BY <1>1, <1>2, WithinText
  <2>2. Within(1, Len(lines)) \subseteq Text
    BY <2>1, <1>2
  <2>3. work \in Seq(Within(1, Len(lines))) /\ Consecutive(work, 1, Len(lines))
    BY <1>3 DEF Cut
  <2>. QED BY <2>2, <2>3, SeqMonotonic DEF Consecutive
<1>5. parts = <<>> /\ reason = "none"
  BY DEF Init
<1>6. TextsOf(parts) \o work = work
  <2>1. TextsOf(parts) = <<>>
    BY <1>5 DEF TextsOf
  <2>. QED BY <2>1, <1>4, ConcatEmptySeq
<1>7. TranscriptCovered
  BY <1>4, <1>6, Unfolded DEF SaysWhat
<1>8. SplitBeforeGivingUp
  BY <1>3, <1>5 DEF SplitBeforeGivingUp, Cut
<1>9. TypeOK
  <2>1. parts \in Seq([text : Text, answer : Answers])
    BY <1>5
  <2>2. attempt \in 0..MaxRetries
    BY SizesAssumption DEF Init
  <2>. QED BY <2>1, <2>2, <1>4, <1>5 DEF Init, TypeOK
<1>. QED BY <1>4, <1>5, <1>7, <1>8, <1>9 DEF Inv

(* A step that leaves the texts alone.                                       *)
LEMMA Kept ==
  ASSUME Inv, UNCHANGED <<lines, limit, work, parts>>,
         stage' \in {"chunks", "merge", "done", "failed"},
         stage' = "chunks" => stage = "chunks",
         attempt' \in 0..MaxRetries, corrected' \in BOOLEAN, schemaOk' \in BOOLEAN,
         reason' \in {"none", "service", "size", "malformed", "unusable"},
         reason' # "none" => stage' = "failed",
         reason' = "size" => reason = "size" \/ GivenUp(lines, Head(work))
  PROVE  Inv'
<1>1. TypeOK /\ TranscriptCovered /\ SplitBeforeGivingUp
  BY DEF Inv
<1>2. Text' = Text
  BY UnfoldedNext, Unfolded DEF SaysWhat
<1>3. TypeOK'
  BY <1>1, <1>2 DEF TypeOK
<1>4. TranscriptCovered'
  BY <1>1, UnfoldedNext, Unfolded DEF SaysWhat
<1>5. SplitBeforeGivingUp'
  BY <1>1, UnfoldedNext, Unfolded DEF SaysWhat
<1>6. stage' = "chunks" => work' # <<>>
  BY DEF Inv
<1>. QED BY <1>3, <1>4, <1>5, <1>6 DEF Inv

LEMMA KeepsOnFinish ==
  ASSUME Inv, NEW r, Finish(r), stage = "merge" PROVE Inv'
<1>1. reason = "none" /\ TypeOK
  BY DEF Inv
<1>2. /\ UNCHANGED <<lines, limit, work, parts>> /\ stage' = "done"
      /\ attempt' = 0 /\ corrected' = FALSE /\ schemaOk' = schemaOk /\ reason' = "none"
  BY <1>1 DEF Finish, NewCall
<1>3. attempt' \in 0..MaxRetries
  BY <1>2, SizesAssumption
<1>4. corrected' \in BOOLEAN /\ schemaOk' \in BOOLEAN
  BY <1>1, <1>2 DEF TypeOK
<1>. QED BY <1>2, <1>3, <1>4, Kept

LEMMA KeepsOnFail ==
  ASSUME Inv, NEW why \in {"service", "size", "malformed", "unusable"}, Fail(why),
         why = "size" => GivenUp(lines, Head(work))
  PROVE  Inv'
<1>1. TypeOK
  BY DEF Inv
<1>2. /\ UNCHANGED <<lines, limit, work, parts>> /\ stage' = "failed"
      /\ attempt' = 0 /\ corrected' = FALSE /\ schemaOk' = schemaOk /\ reason' = why
  BY DEF Fail, NewCall
<1>3. attempt' \in 0..MaxRetries
  BY <1>2, SizesAssumption
<1>4. corrected' \in BOOLEAN /\ schemaOk' \in BOOLEAN
  BY <1>1, <1>2 DEF TypeOK
<1>. QED BY <1>2, <1>3, <1>4, Kept

LEMMA KeepsOnRaise ==
  ASSUME Inv, NEW why \in {"service", "unusable"}, Raise(why) PROVE Inv'
<1>1. CASE stage = "merge"
  <2>1. \E r : Finish(r)
    BY <1>1 DEF Raise, FinishWith
  <2>. QED BY <1>1, <2>1, KeepsOnFinish
<1>2. CASE stage # "merge"
  <2>1. Fail(why)
    BY <1>2 DEF Raise
  <2>. QED BY <2>1, KeepsOnFail
<1>. QED BY <1>1, <1>2

LEMMA KeepsOnAgain ==
  ASSUME Inv, Again, attempt < MaxRetries PROVE Inv'
<1>1. TypeOK
  BY DEF Inv
<1>2. /\ UNCHANGED <<lines, limit, work, parts>> /\ stage' = stage
      /\ attempt' = attempt + 1 /\ corrected' = corrected /\ schemaOk' = schemaOk
      /\ reason' = reason
  BY DEF Again
<1>3. attempt' \in 0..MaxRetries /\ corrected' \in BOOLEAN /\ schemaOk' \in BOOLEAN
  BY <1>1, <1>2, SizesAssumption DEF TypeOK
<1>4. /\ stage' \in {"chunks", "merge", "done", "failed"}
      /\ reason' \in {"none", "service", "size", "malformed", "unusable"}
      /\ reason' # "none" => stage' = "failed"
  BY <1>2 DEF Inv, TypeOK
<1>. QED BY <1>2, <1>3, <1>4, Kept

LEMMA KeepsOnCall ==
  ASSUME Inv, NoAnswer \/ Busy \/ Refused \/ NoMessage
  PROVE  Inv'
<1>1. CASE NoAnswer \/ Busy
  <2>1. CASE attempt < MaxRetries
    BY <1>1, <2>1, KeepsOnAgain DEF NoAnswer, Busy
  <2>2. CASE ~(attempt < MaxRetries)
    BY <1>1, <2>2, KeepsOnRaise DEF NoAnswer, Busy
  <2>. QED BY <2>1, <2>2
<1>2. CASE Refused
  BY <1>2, KeepsOnRaise DEF Refused
<1>3. CASE NoMessage
  BY <1>3, KeepsOnFail DEF NoMessage
<1>. QED BY <1>1, <1>2, <1>3

LEMMA KeepsOnSchema ==
  ASSUME Inv, SchemaRefused PROVE Inv'
<1>1. TypeOK /\ stage = "chunks" /\ reason = "none"
  BY DEF Inv, SchemaRefused
<1>2. /\ UNCHANGED <<lines, limit, work, parts>> /\ schemaOk' = FALSE
      /\ \/ attempt < MaxRetries /\ attempt' = attempt + 1
            /\ stage' = stage /\ reason' = reason /\ corrected' = corrected
         \/ stage' = "failed" /\ reason' = "service" /\ attempt' = 0 /\ corrected' = FALSE
  BY DEF SchemaRefused
<1>3. attempt' \in 0..MaxRetries
  BY <1>1, <1>2, SizesAssumption DEF TypeOK
<1>4. corrected' \in BOOLEAN /\ schemaOk' \in BOOLEAN
  BY <1>1, <1>2 DEF TypeOK
<1>. QED BY <1>1, <1>2, <1>3, <1>4, Kept

LEMMA KeepsOnUnusable ==
  ASSUME Inv, Unusable PROVE Inv'
<1>1. CASE stage = "merge" \/ corrected
  BY <1>1, KeepsOnRaise DEF Unusable
<1>2. CASE ~(stage = "merge" \/ corrected)
  <2>1. TypeOK
    BY DEF Inv
  <2>2. /\ UNCHANGED <<lines, limit, work, parts>> /\ stage' = stage
        /\ attempt' = 0 /\ corrected' = TRUE /\ schemaOk' = schemaOk /\ reason' = reason
    BY <1>2 DEF Unusable
  <2>3. attempt' \in 0..MaxRetries /\ corrected' \in BOOLEAN /\ schemaOk' \in BOOLEAN
    BY <2>1, <2>2, SizesAssumption DEF TypeOK
  <2>4. /\ stage' \in {"chunks", "merge", "done", "failed"}
        /\ reason' \in {"none", "service", "size", "malformed", "unusable"}
        /\ reason' # "none" => stage' = "failed"
    BY <2>2 DEF Inv, TypeOK
  <2>. QED BY <2>2, <2>3, <2>4, Kept
<1>. QED BY <1>1, <1>2

LEMMA KeepsOnTooLarge ==
  ASSUME Inv, TooLarge PROVE Inv'
<1>1. CASE stage = "merge" /\ Raise("size")
  <2>1. \E r : Finish(r)
    BY <1>1 DEF Raise, FinishWith
  <2>. QED BY <1>1, <2>1, KeepsOnFinish
<1>2. CASE stage = "chunks"
  <2>. DEFINE cut == ~(Size(Head(work)) <= MinChunk \/ Len(Halves(Head(work))) < 2)
  <2>1. work # <<>> /\ TypeOK /\ reason = "none" /\ TranscriptCovered /\ SplitBeforeGivingUp
    BY <1>2 DEF Inv
  <2>2. lines \in Seq(Nat) /\ work \in Seq(Text) /\ Head(work) \in Text
        /\ Tail(work) \in Seq(Text)
    BY <2>1, LinesType, HeadTailProperties DEF TypeOK
  <2>3. PICK t \in Text : t = Head(work)
    BY <2>2
  <2>4. Size(t) \in Int /\ MinChunk \in Int
    BY <2>2, SizeType, SizesAssumption
  <2>5. CASE ~cut
    <3>1. Fail("size")
      BY <1>2, <2>5 DEF TooLarge
    <3>2. Size(t) <= MinChunk \/ t[1] = t[2]
      <4>1. CASE Size(t) > MinChunk
        <5>1. Len(Halves(t)) < 2
          BY <2>3, <2>4, <2>5, <4>1
        <5>. QED BY <2>2, <4>1, <5>1, HalvesCut
      <4>. QED BY <2>4, <4>1
    <3>3. GivenUp(lines, Head(work))
      BY <2>3, <3>2, SizeIs DEF GivenUp
    <3>. QED BY <3>1, <3>3, KeepsOnFail
  <2>6. CASE cut
    <3>1. /\ work' = Halves(t) \o Tail(work)
          /\ attempt' = 0 /\ corrected' = FALSE
          /\ UNCHANGED <<lines, limit, stage, parts, result, reason, schemaOk>>
      BY <1>2, <2>3, <2>6 DEF TooLarge, NewCall
    <3>2. Size(t) > MinChunk
      BY <2>3, <2>4, <2>6
    <3>3. PICK c \in Int : c < Size(t) /\ Cut(Halves(t), t[1], t[2], c)
      BY <2>2, <3>2, HalvesCut
    <3>4. /\ Halves(t) \in Seq(Within(t[1], t[2])) /\ Consecutive(Halves(t), t[1], t[2])
          /\ \A k \in DOMAIN Halves(t) :
                Halves(t)[k][1] < Halves(t)[k][2] => Size(Halves(t)[k]) < c
      BY <3>3 DEF Cut
    <3>5. Halves(t) \in Seq(Text)
      BY <2>2, <3>4, WithinText, SeqMonotonic
    <3>6. work' \in Seq(Text) /\ work' # <<>>
      <4>1. Halves(t) # <<>>
        BY <3>4 DEF Consecutive
      <4>2. PICK h \in Seq(Text) : h = Halves(t)
        BY <3>5
      <4>3. PICK x \in Seq(Text) : x = Tail(work)
        BY <2>2
      <4>4. h \o x \in Seq(Text) /\ h \o x # <<>>
        BY <4>1, <4>2, ConcatProperties, ConcatEqualIffEmpty
      <4>. QED BY <3>1, <4>2, <4>3, <4>4
    <3>7. Consecutive(TextsOf(parts) \o work', 1, Len(lines))
      <4>1. Consecutive(TextsOf(parts) \o work, 1, Len(lines))
        BY <2>1, Unfolded DEF SaysWhat
      <4>2. TextsOf(parts) \in Seq(Text)
        BY <2>1, TextsOfType DEF TypeOK
      <4>3. Consecutive(TextsOf(parts) \o (Halves(t) \o Tail(work)), 1, Len(lines))
        BY <2>1, <2>2, <2>3, <3>4, <3>5, <4>1, <4>2, Replaced
      <4>. QED BY <3>1, <4>3
    <3>8. Short(lines, work')
      <4>1. Short(lines, work)
        BY <2>1, Unfolded DEF SaysWhat
      <4>2. ASSUME NEW k \in DOMAIN Halves(t), Halves(t)[k][1] < Halves(t)[k][2]
            PROVE  SizeOf(lines, Halves(t)[k]) < ChunkChars
        <5>1. Halves(t)[k] \in Within(t[1], t[2])
          <6>1. DOMAIN Halves(t) = 1..Len(Halves(t))
            BY <3>4, LenProperties
          <6>. QED BY <3>4, <6>1, ElementOfSeq
        <5>2. PICK e \in Text : e = Halves(t)[k]
          BY <5>1, <2>2, WithinText
        <5>3. Len(lines) \in Nat /\ t[1] < t[2]
          <6>1. Len(lines) \in Nat /\ t[1] \in Int /\ t[2] \in Int
            BY <2>2 DEF Text
          <6>2. e[1] \in t[1]..t[2] /\ e[2] \in t[1]..t[2] /\ e[1] < e[2]
            BY <4>2, <5>1, <5>2 DEF Within
          <6>. QED BY <6>1, <6>2
        <5>4. 1 \in DOMAIN work /\ work[1] = t
          BY <2>1, <2>2, <2>3, EmptySeq, LenProperties
        <5>5. Size(t) < ChunkChars
          <6>1. SizeOf(lines, t) < ChunkChars
            BY <4>1, <5>3, <5>4 DEF Short
          <6>. QED BY <6>1, SizeIs
        <5>6. Size(e) < c
          BY <3>4, <4>2, <5>2
        <5>7. Size(e) \in Int /\ ChunkChars \in Int
          BY <2>2, SizeType, SizesAssumption
        <5>8. Size(e) < ChunkChars
          BY <5>5, <5>6, <5>7, <2>4, <3>3
        <5>. QED BY <5>2, <5>8, SizeIs
      <4>3. PICK h \in Seq(Text) : h = Halves(t)
        BY <3>5
      <4>4. PICK x \in Seq(Text) : x = Tail(work) /\ Len(x) = Len(work) - 1
                                   /\ \A k \in 1..Len(x) : x[k] = work[k + 1]
        BY <2>1, <2>2, HeadTailProperties
      <4>5. Short(lines, h \o x)
        <5>1. /\ h \o x \in Seq(Text) /\ Len(h \o x) = Len(h) + Len(x)
              /\ \A k \in 1..(Len(h) + Len(x)) :
                    (h \o x)[k] = IF k <= Len(h) THEN h[k] ELSE x[k - Len(h)]
          BY ConcatProperties
        <5>2. Len(h) \in Nat /\ DOMAIN h = 1..Len(h) /\ Len(x) \in Nat
              /\ DOMAIN (h \o x) = 1..(Len(h) + Len(x))
              /\ Len(work) \in Nat /\ DOMAIN work = 1..Len(work)
          BY <2>2, <5>1, LenProperties
        <5>. SUFFICES ASSUME NEW k \in 1..(Len(h) + Len(x)),
                             (h \o x)[k][1] < (h \o x)[k][2]
                      PROVE  SizeOf(lines, (h \o x)[k]) < ChunkChars
          BY <5>2 DEF Short
        <5>3. CASE k <= Len(h)
          <6>1. k \in DOMAIN h /\ (h \o x)[k] = h[k]
            BY <5>1, <5>2, <5>3
          <6>. QED BY <6>1, <4>2, <4>3
        <5>4. CASE k > Len(h)
          <6>1. PICK j \in 1..Len(x) : j = k - Len(h)
            BY <5>2, <5>4
          <6>2. (h \o x)[k] = x[j]
            BY <5>1, <5>2, <5>4, <6>1
          <6>3. x[j] = work[j + 1] /\ j + 1 \in DOMAIN work
            BY <4>4, <5>2, <6>1
          <6>. QED BY <6>2, <6>3, <4>1 DEF Short
        <5>. QED BY <5>3, <5>4, <5>2
      <4>. QED BY <3>1, <4>3, <4>4, <4>5
    <3>9. Text' = Text
      BY <3>1, UnfoldedNext, Unfolded DEF SaysWhat
    <3>10. TypeOK'
      <4>1. attempt' \in 0..MaxRetries
        BY <3>1, SizesAssumption
      <4>. QED BY <2>1, <3>1, <3>6, <3>9, <4>1 DEF TypeOK
    <3>11. TranscriptCovered'
      BY <3>1, <3>7, UnfoldedNext
    <3>12. SplitBeforeGivingUp'
      BY <2>1, <3>1, <3>8, UnfoldedNext
    <3>. QED BY <2>1, <3>1, <3>6, <3>10, <3>11, <3>12 DEF Inv
  <2>. QED BY <2>5, <2>6
<1>. QED BY <1>1, <1>2 DEF TooLarge

LEMMA KeepsOnExtracted ==
  ASSUME Inv, NEW a \in Answers, Extracted(a) PROVE Inv'
<1>1. /\ stage = "chunks" /\ work # <<>> /\ TypeOK /\ reason = "none"
      /\ TranscriptCovered /\ SplitBeforeGivingUp
  BY DEF Inv, Extracted
<1>2. /\ parts' = Append(parts, [text |-> Head(work), answer |-> a])
      /\ work' = Tail(work)
      /\ attempt' = 0 /\ corrected' = FALSE
      /\ UNCHANGED <<lines, limit, schemaOk, reason>>
  BY DEF Extracted, NewCall
<1>3. stage' \in {"chunks", "merge", "done"} /\ (stage' = "chunks" => work' # <<>>)
  BY <1>1 DEF Extracted
<1>4. work \in Seq(Text) /\ Head(work) \in Text /\ Tail(work) \in Seq(Text)
      /\ parts \in Seq([text : Text, answer : Answers])
  BY <1>1, HeadTailProperties DEF TypeOK
<1>5. PICK r \in [text : Text, answer : Answers] : r = [text |-> Head(work), answer |-> a]
  BY <1>4
<1>6. parts' = Append(parts, r) /\ r.text = Head(work)
  BY <1>2, <1>5
<1>7. Text' = Text
  BY <1>2, UnfoldedNext, Unfolded DEF SaysWhat
<1>8. TypeOK'
  <2>1. parts' \in Seq([text : Text, answer : Answers])
    <3>1. Append(parts, r) \in Seq([text : Text, answer : Answers])
      BY <1>4, AppendProperties
    <3>. QED BY <1>6, <3>1
  <2>2. attempt' \in 0..MaxRetries
    BY <1>2, SizesAssumption
  <2>3. corrected' \in BOOLEAN /\ schemaOk' \in BOOLEAN
    BY <1>1, <1>2 DEF TypeOK
  <2>4. lines' \in Transcripts /\ limit' \in Limits /\ work' \in Seq(Text)
        /\ reason' \in {"none", "service", "size", "malformed", "unusable"}
    BY <1>1, <1>2, <1>4 DEF TypeOK
  <2>. QED BY <1>3, <1>7, <2>1, <2>2, <2>3, <2>4 DEF TypeOK
<1>9. TranscriptCovered'
  <2>1. TextsOf(parts') = Append(TextsOf(parts), Head(work))
    BY <1>4, <1>6, TextsOfAppend
  <2>2. TextsOf(parts) \in Seq(Text)
    BY <1>4, TextsOfType
  <2>3. TextsOf(parts') \o work' = TextsOf(parts) \o work
    BY <1>1, <1>2, <1>4, <2>1, <2>2, Moved
  <2>4. Consecutive(TextsOf(parts) \o work, 1, Len(lines))
    BY <1>1, Unfolded DEF SaysWhat
  <2>. QED BY <1>2, <2>3, <2>4, UnfoldedNext
<1>10. SplitBeforeGivingUp'
  <2>1. Short(lines, work)
    BY <1>1, Unfolded DEF SaysWhat
  <2>2. PICK x \in Seq(Text) : x = Tail(work) /\ Len(x) = Len(work) - 1
                               /\ \A k \in 1..Len(x) : x[k] = work[k + 1]
    BY <1>1, <1>4, HeadTailProperties
  <2>3. Short(lines, x)
    <3>1. Len(x) \in Nat /\ DOMAIN x = 1..Len(x)
          /\ Len(work) \in Nat /\ DOMAIN work = 1..Len(work)
      BY <1>4, LenProperties
    <3>2. ASSUME NEW k \in 1..Len(x) PROVE x[k] = work[k + 1] /\ k + 1 \in DOMAIN work
      BY <2>2, <3>1
    <3>. QED BY <2>1, <3>1, <3>2 DEF Short
  <2>. QED BY <1>1, <1>2, <2>2, <2>3, UnfoldedNext
<1>. QED BY <1>1, <1>2, <1>3, <1>8, <1>9, <1>10 DEF Inv

LEMMA KeepsOnStutter ==
  ASSUME Inv, UNCHANGED vars PROVE Inv'
<1>1. TypeOK
  BY DEF Inv
<1>2. UNCHANGED <<lines, limit, stage, work, parts, attempt, corrected, schemaOk, reason>>
  BY DEF vars, callVars
<1>3. attempt' \in 0..MaxRetries /\ corrected' \in BOOLEAN /\ schemaOk' \in BOOLEAN
  BY <1>1, <1>2 DEF TypeOK
<1>4. /\ stage' \in {"chunks", "merge", "done", "failed"}
      /\ reason' \in {"none", "service", "size", "malformed", "unusable"}
      /\ reason' # "none" => stage' = "failed"
  BY <1>2 DEF Inv, TypeOK
<1>. QED BY <1>2, <1>3, <1>4, Kept

LEMMA NextInv == Inv /\ [Next]_vars => Inv'
<1>. SUFFICES ASSUME Inv, [Next]_vars PROVE Inv'
  OBVIOUS
<1>1. CASE NoAnswer \/ Busy \/ Refused \/ NoMessage
  BY <1>1, KeepsOnCall
<1>2. CASE SchemaRefused
  BY <1>2, KeepsOnSchema
<1>3. CASE TooLarge
  BY <1>3, KeepsOnTooLarge
<1>4. CASE Unusable
  BY <1>4, KeepsOnUnusable
<1>5. ASSUME NEW a \in Answers, Extracted(a) PROVE Inv'
  BY <1>5, KeepsOnExtracted
<1>6. ASSUME NEW m \in Merges, Merged(m) PROVE Inv'
  <2>1. stage = "merge" /\ \E r : Finish(r)
    BY <1>6 DEF Merged, FinishWith
  <2>. QED BY <2>1, KeepsOnFinish
<1>7. CASE UNCHANGED vars
  BY <1>7, KeepsOnStutter
<1>. QED BY <1>1, <1>2, <1>3, <1>4, <1>5, <1>6, <1>7 DEF Next

LEMMA Invariance == Spec => []Inv
BY InitInv, NextInv, PTL DEF Spec

(* Every variable of the client has its type.                                *)
THEOREM ClientTypes == Spec => []TypeOK
<1>1. Inv => TypeOK
  BY DEF Inv
<1>. QED BY <1>1, Invariance, PTL

(* However often and wherever the texts are cut again, what has been         *)
(* extracted and what is still to extract is the transcript, every line once *)
(* and in order (chunk_transcript, _extract_fitting).                        *)
THEOREM CoverTheorem == Spec => []TranscriptCovered
<1>1. Inv => TranscriptCovered
  BY DEF Inv
<1>. QED BY <1>1, Invariance, PTL

(* Only a single line makes a request of CHUNK_CHARS characters or more, and *)
(* the size of a text ends an extraction only when the text is small or one  *)
(* line: cutting in two always makes the texts shorter (_extract_fitting).   *)
THEOREM SplitTheorem == Spec => []SplitBeforeGivingUp
<1>1. Inv => SplitBeforeGivingUp
  BY DEF Inv
<1>. QED BY <1>1, Invariance, PTL

-----------------------------------------------------------------------------
(* The topics of the parts become the topics of the meeting.               *)

\* The loop of FlattenSeq.
IsFlat(f, ss) == f = [i \in 1..Len(ss) |-> IF i = 1 THEN ss[i] ELSE f[i - 1] \o ss[i]]

LEMMA FlattenLoop ==
  ASSUME NEW ss, Len(ss) # 0, NEW f, IsFlat(f, ss)
  PROVE  \E g : IsFlat(g, ss) /\ FlattenSeq(ss) = g[Len(ss)]
BY DEF FlattenSeq, IsFlat

(* Sequences over V one after the other are a sequence over V.               *)
LEMMA FlattenType ==
  ASSUME NEW V, NEW ss \in Seq(Seq(V))
  PROVE  /\ FlattenSeq(ss) \in Seq(V)
         /\ Len(ss) = 1 => FlattenSeq(ss) = ss[1]
<1>1. Len(ss) \in Nat /\ \A i \in 1..Len(ss) : ss[i] \in Seq(V)
  OBVIOUS
<1>2. CASE Len(ss) = 0
  <2>1. ss = <<>>
    BY <1>2
  <2>2. FlattenSeq(ss) = <<>>
    BY <2>1 DEF FlattenSeq
  <2>. QED BY <1>2, <2>2
<1>3. CASE Len(ss) # 0
  <2>0. PICK n \in Int : n = Len(ss)
    BY <1>1
  <2>. DEFINE step == [i \in 1..n |-> [v \in Seq(V) |-> v \o ss[i]]]
  <2>1. n \in Nat /\ n > 0 /\ ss[1] \in Seq(V)
    BY <1>1, <1>3, <2>0
  <2>2. ASSUME NEW i \in 1..n, NEW v \in Seq(V) PROVE step[i][v] = v \o ss[i] /\ step[i][v] \in Seq(V)
    <3>1. ss[i] \in Seq(V)
      BY <1>1, <2>0
    <3>. QED BY <3>1
  <2>3. PICK f \in [1..n -> Seq(V)] : IsRun(f, ss[1], step, 1, n)
    <3>1. \A i \in 1..n : \A v \in Seq(V) : step[i][v] \in Seq(V)
      BY <2>2
    <3>2. 1 \in Int
      OBVIOUS
    <3>. HIDE DEF step
    <3>. QED BY <2>1, <3>1, <3>2, Recursion
  <2>4. IsFlat(f, ss)
    <3>1. ASSUME NEW i \in 1..n PROVE f[i] = IF i = 1 THEN ss[i] ELSE f[i - 1] \o ss[i]
      <4>1. f[i] = IF i = 1 THEN ss[1] ELSE step[i][f[i - 1]]
        BY <2>3 DEF IsRun
      <4>2. CASE i = 1
        BY <4>1, <4>2
      <4>3. CASE i # 1
        <5>1. i - 1 \in 1..n /\ f[i - 1] \in Seq(V)
          <6>1. i - 1 \in 1..n
            BY <4>3
          <6>. HIDE DEF step
          <6>. QED BY <6>1, <2>3
        <5>. HIDE DEF step
        <5>. QED BY <4>1, <4>3, <5>1, <2>2
      <4>. QED BY <4>2, <4>3
    <3>. HIDE DEF step
    <3>2. f = [i \in 1..n |-> IF i = 1 THEN ss[i] ELSE f[i - 1] \o ss[i]]
      BY <2>3, <3>1
    <3>. QED BY <2>0, <3>2 DEF IsFlat
  <2>5. PICK g : IsFlat(g, ss) /\ FlattenSeq(ss) = g[n]
    BY <1>3, <2>0, <2>4, FlattenLoop
  <2>6. ASSUME NEW i \in 1..n PROVE g[i] = IF i = 1 THEN ss[i] ELSE g[i - 1] \o ss[i]
    BY <2>0, <2>5 DEF IsFlat
  <2>. DEFINE K == {k \in Nat : k \in 1..n => g[k] \in Seq(V)}
  <2>7. K = Nat
    <3>1. 0 \in K
      OBVIOUS
    <3>2. ASSUME NEW k \in K PROVE k + 1 \in K
      <4>. SUFFICES ASSUME k + 1 \in 1..n PROVE g[k + 1] \in Seq(V)
        OBVIOUS
      <4>1. ss[k + 1] \in Seq(V)
        BY <1>1, <2>0
      <4>2. CASE k = 0
        BY <4>1, <4>2, <2>6
      <4>3. CASE k # 0
        <5>1. k \in 1..n /\ g[k] \in Seq(V)
          BY <4>3, <2>1
        <5>2. g[k + 1] = g[k] \o ss[k + 1]
          <6>1. PICK i \in 1..n : i = k + 1
            OBVIOUS
          <6>2. i # 1 /\ i - 1 = k
            BY <4>3, <6>1
          <6>3. g[i] = g[i - 1] \o ss[i]
            BY <2>6, <6>2
          <6>. QED BY <6>1, <6>2, <6>3
        <5>. QED BY <4>1, <5>1, <5>2
      <4>. QED BY <4>2, <4>3
    <3>3. K \in SUBSET Nat
      OBVIOUS
    <3>. HIDE DEF K
    <3>. QED BY <3>1, <3>2, <3>3, Induction
  <2>8. n \in K /\ n \in 1..n
    <3>. HIDE DEF K
    <3>. QED BY <2>1, <2>7
  <2>9. g[n] \in Seq(V) /\ (n = 1 => g[n] = ss[1])
    BY <2>6, <2>8
  <2>. QED BY <2>0, <2>5, <2>9
<1>. QED BY <1>2, <1>3

(* The topics that answers may hold.                                         *)
SomeTopics == UNION {ToSet(a.topics) : a \in Answers}

LEMMA AnswerTopics ==
  /\ \A a \in Answers : a.topics \in Seq(SomeTopics)
  /\ \A t \in SomeTopics : t.time \in Nat \cup {None}
<1>1. ASSUME NEW a \in Answers PROVE a.topics \in Seq(SomeTopics)
  <2>1. a.topics \in Seq(ToSet(a.topics)) /\ ToSet(a.topics) \subseteq SomeTopics
    BY AnswersAssumption DEF SomeTopics
  <2>. QED BY <2>1, SeqMonotonic
<1>2. ASSUME NEW t \in SomeTopics PROVE t.time \in Nat \cup {None}
  BY AnswersAssumption DEF SomeTopics
<1>. QED BY <1>1, <1>2

LEMMA AllTopicsType ==
  ASSUME NEW W, NEW ps \in Seq([text : W, answer : Answers])
  PROVE  /\ AllTopics(ps) \in Seq(SomeTopics)
         /\ Len(ps) = 1 => AllTopics(ps) = ps[1].answer.topics
<1>. DEFINE ss == [k \in DOMAIN ps |-> ps[k].answer.topics]
<1>0. DOMAIN ps = 1..Len(ps) /\ Len(ps) \in Nat
  OBVIOUS
<1>1. ASSUME NEW k \in DOMAIN ps PROVE ps[k].answer.topics \in Seq(SomeTopics)
  <2>1. ps[k] \in [text : W, answer : Answers]
    <3>. DEFINE R == [text : W, answer : Answers]
    <3>. HIDE DEF R, ss
    <3>1. ps \in Seq(R)
      BY DEF R
    <3>2. ps[k] \in R
      BY <1>0, <3>1
    <3>. QED BY <3>2 DEF R
  <2>2. ps[k].answer \in Answers
    BY <2>1
  <2>. QED BY <2>2, AnswerTopics
<1>2. DOMAIN ps = 1..Len(ps) /\ Len(ps) \in Nat
  OBVIOUS
<1>3. ss \in Seq(Seq(SomeTopics)) /\ Len(ss) = Len(ps)
  BY <1>1, <1>2
<1>4. Len(ps) = 1 => ss[1] = ps[1].answer.topics
  BY <1>2
<1>5. AllTopics(ps) = FlattenSeq(ss)
  BY DEF AllTopics
<1>. HIDE DEF ss
<1>. QED BY <1>3, <1>4, <1>5, FlattenType

-----------------------------------------------------------------------------
(* Lists of topics in order.                                               *)

\* Entries of a list: no two stand at one place.
Entries(list) ==
    /\ IsFiniteSet(list)
    /\ \A x \in list : x.at \in Nat /\ x.time \in Nat \cup {None}
    /\ \A x, y \in list : x.at = y.at => x = y

LEMMA BeforeIsOrder ==
  ASSUME NEW list, Entries(list), NEW x \in list, NEW y \in list, NEW z \in list
  PROVE  /\ Before(x, x)
         /\ Before(x, y) \/ Before(y, x)
         /\ Before(x, y) /\ Before(y, x) => x = y
         /\ Before(x, y) /\ Before(y, z) => Before(x, z)
<1>1. None \notin Nat
  BY AnswersAssumption
<1>2. /\ x.at \in Nat /\ x.time \in Nat \cup {None}
      /\ y.at \in Nat /\ y.time \in Nat \cup {None}
      /\ z.at \in Nat /\ z.time \in Nat \cup {None}
      /\ x.at = y.at => x = y
  BY DEF Entries
<1>3. \A u, v : Before(u, v) <=> \/ u.time # None /\ (v.time = None \/ u.time < v.time)
                                 \/ u.time = v.time /\ u.at <= v.at
  BY DEF Before, Earlier
<1>4. Before(x, x) /\ (Before(x, y) \/ Before(y, x))
  BY <1>1, <1>2, <1>3
<1>5. Before(x, y) /\ Before(y, x) => x.at = y.at
  BY <1>1, <1>2, <1>3
<1>6. Before(x, y) /\ Before(y, z) => Before(x, z)
  BY <1>1, <1>2, <1>3
<1>. QED BY <1>2, <1>4, <1>5, <1>6

(* Each number up to their number is the rank of one entry.                  *)
LEMMA RankOfOne ==
  ASSUME NEW list, Entries(list)
  PROVE  LET n == Cardinality(list)
             rank(x) == Cardinality({y \in list : Before(y, x)})
         IN  /\ n \in Nat
             /\ \A x \in list : rank(x) \in 1..n
             /\ \A x, y \in list : rank(x) = rank(y) => x = y
             /\ \A k \in 1..n : \E x \in list : rank(x) = k
<1>. DEFINE n == Cardinality(list)
            down(x) == {y \in list : Before(y, x)}
            rank(x) == Cardinality(down(x))
            r == [x \in list |-> rank(x)]
<1>1. IsFiniteSet(list) /\ n \in Nat
  BY FS_CardinalityType DEF Entries
<1>2. ASSUME NEW x \in list
      PROVE  IsFiniteSet(down(x)) /\ rank(x) \in 1..n
  <2>1. down(x) \in SUBSET list
    OBVIOUS
  <2>2. IsFiniteSet(down(x)) /\ rank(x) <= n
    <3>. HIDE DEF down
    <3>. QED BY <1>1, <2>1, FS_Subset
  <2>3. rank(x) \in Nat
    <3>. HIDE DEF down
    <3>. QED BY <2>2, FS_CardinalityType
  <2>4. x \in down(x)
    BY BeforeIsOrder
  <2>5. rank(x) # 0
    <3>. HIDE DEF down
    <3>. QED BY <2>2, <2>4, FS_EmptySet
  <2>. HIDE DEF down
  <2>. QED BY <1>1, <2>2, <2>3, <2>5
<1>3. ASSUME NEW x \in list, NEW y \in list, Before(x, y), x # y
      PROVE  rank(x) # rank(y)
  <2>1. down(x) \in SUBSET down(y)
    BY <1>3, BeforeIsOrder
  <2>2. y \in down(y) /\ y \notin down(x)
    BY <1>3, BeforeIsOrder
  <2>3. IsFiniteSet(down(y))
    <3>. HIDE DEF down
    <3>. QED BY <1>2
  <2>. HIDE DEF down
  <2>. QED BY <2>1, <2>2, <2>3, FS_Subset
<1>4. ASSUME NEW x \in list, NEW y \in list, rank(x) = rank(y)
      PROVE  x = y
  <2>1. Before(x, y) \/ Before(y, x)
    BY BeforeIsOrder
  <2>. HIDE DEF rank
  <2>. QED BY <1>3, <1>4, <2>1
<1>5. r \in Injection(list, 1..n)
  <2>1. r \in [list -> 1..n]
    <3>. HIDE DEF rank, n
    <3>. QED BY <1>2
  <2>2. \A x, y \in list : r[x] = r[y] => x = y
    <3>. HIDE DEF rank
    <3>. QED BY <1>4
  <2>. HIDE DEF r
  <2>. QED BY <2>1, <2>2 DEF Injection, IsInjective
<1>6. IsFiniteSet(1..n) /\ Cardinality(1..n) = n
  <2>. HIDE DEF n
  <2>1. 1 \in Int /\ n \in Int
    BY <1>1
  <2>. QED BY <1>1, <2>1, FS_Interval
<1>7. r \in Surjection(list, 1..n)
  <2>. HIDE DEF r
  <2>. QED BY <1>5, <1>6, FS_Injection
<1>8. \A k \in 1..n : \E x \in list : rank(x) = k
  <2>1. \A k \in 1..n : \E x \in list : r[x] = k
    <3>. HIDE DEF r
    <3>. QED BY <1>7 DEF Surjection
  <2>. HIDE DEF rank, n
  <2>. QED BY <2>1
<1>. HIDE DEF rank
<1>9. \A x \in list : rank(x) \in 1..n
  BY <1>2
<1>10. \A x, y \in list : rank(x) = rank(y) => x = y
  BY <1>4
<1>. QED BY <1>1, <1>8, <1>9, <1>10 DEF rank

(* A list in order has the topic of every entry once.                        *)
LEMMA InOrderIs ==
  ASSUME NEW list, Entries(list)
  PROVE  \E n \in Nat : \E p \in [1..n -> list] :
            /\ \A j, k \in 1..n : p[j] = p[k] => j = k
            /\ \A x \in list : \E k \in 1..n : p[k] = x
            /\ InOrder(list) = [k \in 1..n |-> p[k].topic]
<1>. DEFINE n == Cardinality(list)
            rank(x) == Cardinality({y \in list : Before(y, x)})
            p == [k \in 1..n |-> CHOOSE x \in list : rank(x) = k]
<1>1. /\ n \in Nat
      /\ \A x \in list : rank(x) \in 1..n
      /\ \A x, y \in list : rank(x) = rank(y) => x = y
      /\ \A k \in 1..n : \E x \in list : rank(x) = k
  BY RankOfOne
<1>. HIDE DEF n, rank
<1>2. ASSUME NEW k \in 1..n PROVE p[k] \in list /\ rank(p[k]) = k
  BY <1>1
<1>3. p \in [1..n -> list]
  BY <1>1
<1>4. ASSUME NEW j \in 1..n, NEW k \in 1..n, p[j] = p[k] PROVE j = k
  <2>. HIDE DEF p
  <2>. QED BY <1>2, <1>4
<1>5. ASSUME NEW x \in list PROVE \E k \in 1..n : p[k] = x
  <2>1. rank(x) \in 1..n
    BY <1>1
  <2>. HIDE DEF p
  <2>2. p[rank(x)] = x
    BY <1>1, <1>2, <2>1
  <2>. QED BY <2>1, <2>2
<1>6. InOrder(list) = [k \in 1..n |-> p[k].topic]
  BY DEF InOrder, n, rank
<1>. HIDE DEF p
<1>7. /\ \A j, k \in 1..n : p[j] = p[k] => j = k
      /\ \A x \in list : \E k \in 1..n : p[k] = x
  BY <1>4, <1>5
<1>8. n \in Nat
  BY <1>1
<1>. QED BY <1>3, <1>6, <1>7, <1>8, ZenonT(60)

(* What TopicsKept says of the topics a meeting has, of those its parts have.*)
Keeps(kept, said) ==
    /\ UNION {kept[k].members : k \in DOMAIN kept} = DOMAIN said
    /\ \A j, k \in DOMAIN kept : j # k => kept[j].members \cap kept[k].members = {}
    /\ \A k \in DOMAIN kept : \E i \in kept[k].members : kept[k].time = said[i].time
    /\ \/ \A k \in DOMAIN kept : \A i \in kept[k].members :
            kept[k].time # None \/ said[i].time = None
       \/ kept = InOrder(PlainTopics(said))

(* A topic that has a time of one of its parts, and one if any part has one. *)
Told(topic, said) == \E i \in topic.members : topic.time = said[i].time
Timed(topic, said) == \A i \in topic.members : topic.time # None \/ said[i].time = None

(* Every topic of the parts is in one entry.                                 *)
Parted(list, said) ==
    /\ \A x \in list : x.topic.members \subseteq DOMAIN said /\ Told(x.topic, said)
    /\ \A i \in DOMAIN said : \E x \in list : i \in x.topic.members
    /\ \A x, y \in list : x # y => x.topic.members \cap y.topic.members = {}

LEMMA KeepsInOrder ==
  ASSUME NEW list, NEW said, Entries(list), Parted(list, said),
         (\A x \in list : Timed(x.topic, said)) \/ list = PlainTopics(said)
  PROVE  Keeps(InOrder(list), said)
<1>0. PICK n \in Nat : \E p \in [1..n -> list] :
          /\ \A j, k \in 1..n : p[j] = p[k] => j = k
          /\ \A x \in list : \E k \in 1..n : p[k] = x
          /\ InOrder(list) = [k \in 1..n |-> p[k].topic]
  BY InOrderIs, SMTT(60)
<1>1. PICK p \in [1..n -> list] :
          /\ \A j, k \in 1..n : p[j] = p[k] => j = k
          /\ \A x \in list : \E k \in 1..n : p[k] = x
          /\ InOrder(list) = [k \in 1..n |-> p[k].topic]
  BY <1>0
<1>. DEFINE kept == InOrder(list)
<1>2. DOMAIN kept = 1..n /\ \A k \in 1..n : kept[k] = p[k].topic /\ p[k] \in list
  BY <1>1
<1>. HIDE DEF kept
<1>3. ASSUME NEW i \in DOMAIN said PROVE \E k \in DOMAIN kept : i \in kept[k].members
  <2>1. PICK x \in list : i \in x.topic.members
    BY DEF Parted
  <2>2. PICK k \in 1..n : p[k] = x
    BY <1>1
  <2>. QED BY <1>2, <2>1, <2>2
<1>4. ASSUME NEW k \in DOMAIN kept PROVE kept[k].members \subseteq DOMAIN said
  BY <1>2 DEF Parted
<1>5. UNION {kept[k].members : k \in DOMAIN kept} = DOMAIN said
  BY <1>3, <1>4
<1>6. ASSUME NEW j \in DOMAIN kept, NEW k \in DOMAIN kept, j # k
      PROVE  kept[j].members \cap kept[k].members = {}
  <2>1. p[j] # p[k] /\ p[j] \in list /\ p[k] \in list
    BY <1>1, <1>2, <1>6
  <2>2. kept[j] = p[j].topic /\ kept[k] = p[k].topic
    BY <1>2
  <2>. QED BY <2>1, <2>2 DEF Parted
<1>7. ASSUME NEW k \in DOMAIN kept PROVE \E i \in kept[k].members : kept[k].time = said[i].time
  <2>1. p[k] \in list /\ kept[k] = p[k].topic
    BY <1>2
  <2>2. Told(p[k].topic, said)
    BY <2>1 DEF Parted
  <2>. QED BY <2>1, <2>2 DEF Told
<1>8. CASE list = PlainTopics(said)
  <2>1. kept = InOrder(PlainTopics(said))
    BY <1>8 DEF kept
  <2>2. Keeps(kept, said)
    BY <1>5, <1>6, <1>7, <2>1 DEF Keeps
  <2>. QED BY <2>2 DEF kept
<1>9. CASE \A x \in list : Timed(x.topic, said)
  <2>1. ASSUME NEW k \in DOMAIN kept, NEW i \in kept[k].members
        PROVE  kept[k].time # None \/ said[i].time = None
    <3>1. p[k] \in list /\ kept[k] = p[k].topic
      BY <1>2
    <3>2. Timed(p[k].topic, said)
      BY <1>9, <3>1
    <3>. QED BY <3>1, <3>2 DEF Timed
  <2>2. Keeps(kept, said)
    BY <1>5, <1>6, <1>7, <2>1 DEF Keeps
  <2>. QED BY <2>2 DEF kept
<1>. QED BY <1>8, <1>9

-----------------------------------------------------------------------------
(* The topics as they are, the plain lists, and the joined topics.         *)

LEMMA KeepsAsTheyAre ==
  ASSUME NEW said PROVE Keeps(AsTheyAre(said), said)
<1>. DEFINE kept == AsTheyAre(said)
<1>1. DOMAIN kept = DOMAIN said
      /\ \A k \in DOMAIN said : kept[k].members = {k} /\ kept[k].time = said[k].time
  BY DEF AsTheyAre, Alone
<1>. HIDE DEF kept
<1>2. UNION {kept[k].members : k \in DOMAIN kept} = DOMAIN said
  BY <1>1
<1>3. \A j, k \in DOMAIN kept : j # k => kept[j].members \cap kept[k].members = {}
  BY <1>1
<1>4. \A k \in DOMAIN kept : \E i \in kept[k].members : kept[k].time = said[i].time
  BY <1>1
<1>5. \A k \in DOMAIN kept : \A i \in kept[k].members :
          kept[k].time # None \/ said[i].time = None
  BY <1>1
<1>6. Keeps(kept, said)
  BY <1>2, <1>3, <1>4, <1>5 DEF Keeps
<1>. QED BY <1>6 DEF kept

(* What is made of each of finitely many topics is finite.                   *)
LEMMA ImageFinite ==
  ASSUME NEW said \in Seq(SomeTopics), NEW f, NEW list,
         \A i \in DOMAIN said : f[i] \in list,
         \A x \in list : \E i \in DOMAIN said : f[i] = x
  PROVE  IsFiniteSet(list)
<1>. DEFINE g == [i \in DOMAIN said |-> f[i]]
<1>1. g \in Surjection(DOMAIN said, list)
  BY DEF Surjection
<1>2. IsFiniteSet(DOMAIN said)
  <2>1. DOMAIN said = 1..Len(said) /\ 1 \in Int /\ Len(said) \in Int
    OBVIOUS
  <2>. QED BY <2>1, FS_Interval
<1>. HIDE DEF g
<1>. QED BY <1>1, <1>2, FS_Surjection

(* Of some times, at least one: the earliest is one of them, and none only   *)
(* when all are.                                                             *)
LEMMA EarliestIs ==
  ASSUME NEW times \in SUBSET (Nat \cup {None}), times # {}
  PROVE  /\ Earliest(times) \in times
         /\ Earliest(times) = None => times \subseteq {None}
<1>0. None \notin Nat
  BY AnswersAssumption
<1>1. CASE times \subseteq {None}
  BY <1>1 DEF Earliest
<1>2. CASE ~(times \subseteq {None})
  <2>. DEFINE T == times \ {None}
  <2>1. T \subseteq Nat /\ T # {}
    BY <1>2
  <2>2. PICK s \in T : \A t \in T : s <= t
    <3>. HIDE DEF T
    <3>. QED BY <2>1, Least
  <2>3. ASSUME NEW t \in times PROVE ~Earlier(t, s)
    <3>1. CASE t = None
      BY <3>1 DEF Earlier
    <3>2. CASE t # None
      <4>1. t \in T /\ s \in Nat /\ t \in Nat /\ s # None
        BY <2>1, <3>2
      <4>2. s <= t
        <5>. HIDE DEF T
        <5>. QED BY <2>2, <4>1
      <4>. QED BY <4>1, <4>2 DEF Earlier
    <3>. QED BY <3>1, <3>2
  <2>4. Earliest(times) \in T
    BY <1>2, <2>2, <2>3 DEF Earliest
  <2>. QED BY <1>2, <2>4
<1>. QED BY <1>1, <1>2

\* The topics of a title.
Same(said, title) == {i \in DOMAIN said : said[i].title = title}
PlainEntry(said, title) ==
    [at |-> Min(Same(said, title)), time |-> None,
     topic |-> [title |-> title, status |-> said[Max(Same(said, title))].status,
                time |-> said[Max(Same(said, title))].time, members |-> Same(said, title)]]

LEMMA PlainTopicsIs ==
  ASSUME NEW said PROVE PlainTopics(said) = {PlainEntry(said, said[i].title) : i \in DOMAIN said}
BY DEF PlainTopics, PlainEntry, Same

LEMMA KeepsPlain ==
  ASSUME NEW said \in Seq(SomeTopics) PROVE Keeps(InOrder(PlainTopics(said)), said)
<1>. DEFINE n == Len(said)
            e == [i \in DOMAIN said |-> PlainEntry(said, said[i].title)]
            list == PlainTopics(said)
<1>1. n \in Int /\ DOMAIN said = 1..n
  OBVIOUS
<1>2. ASSUME NEW i \in DOMAIN said
      PROVE  LET same == Same(said, said[i].title)
             IN  /\ i \in same /\ same \subseteq DOMAIN said
                 /\ Min(same) \in same /\ Max(same) \in same
  <2>1. i \in Same(said, said[i].title) /\ Same(said, said[i].title) \in SUBSET (1..n)
    BY <1>1 DEF Same
  <2>. HIDE DEF n
  <2>. QED BY <1>1, <2>1, MinOf, MaxOf
<1>3. list = {e[i] : i \in DOMAIN said}
  BY PlainTopicsIs
<1>4. ASSUME NEW i \in DOMAIN said
      PROVE  /\ e[i].at \in Nat /\ e[i].time = None
             /\ e[i].topic.members = Same(said, said[i].title)
             /\ i \in e[i].topic.members /\ e[i].topic.members \subseteq DOMAIN said
             /\ said[e[i].at].title = said[i].title
             /\ Told(e[i].topic, said)
  <2>1. /\ e[i].at = Min(Same(said, said[i].title)) /\ e[i].time = None
        /\ e[i].topic.members = Same(said, said[i].title)
        /\ e[i].topic.time = said[Max(Same(said, said[i].title))].time
    BY DEF PlainEntry
  <2>2. e[i].at \in Same(said, said[i].title)
    BY <1>2, <2>1
  <2>3. e[i].at \in Nat /\ said[e[i].at].title = said[i].title
    BY <1>1, <2>2 DEF Same
  <2>4. Told(e[i].topic, said)
    <3>. HIDE DEF e
    <3>. QED BY <1>2, <2>1 DEF Told
  <2>. HIDE DEF e
  <2>. QED BY <1>2, <2>1, <2>3, <2>4
<1>5. ASSUME NEW i \in DOMAIN said, NEW j \in DOMAIN said, said[i].title = said[j].title
      PROVE  e[i] = e[j]
  BY <1>5
<1>. HIDE DEF e, list
<1>6. Entries(list)
  <2>1. IsFiniteSet(list)
    BY <1>3, ImageFinite
  <2>2. \A x \in list : x.at \in Nat /\ x.time \in Nat \cup {None}
    BY <1>3, <1>4
  <2>3. ASSUME NEW i \in DOMAIN said, NEW j \in DOMAIN said, e[i].at = e[j].at PROVE e[i] = e[j]
    BY <2>3, <1>4, <1>5
  <2>4. \A x, y \in list : x.at = y.at => x = y
    BY <1>3, <2>3
  <2>. QED BY <2>1, <2>2, <2>4 DEF Entries
<1>7. Parted(list, said)
  <2>1. \A x \in list : x.topic.members \subseteq DOMAIN said /\ Told(x.topic, said)
    BY <1>3, <1>4
  <2>2. \A i \in DOMAIN said : \E x \in list : i \in x.topic.members
    BY <1>3, <1>4
  <2>3. ASSUME NEW i \in DOMAIN said, NEW j \in DOMAIN said, e[i] # e[j]
        PROVE  e[i].topic.members \cap e[j].topic.members = {}
    BY <2>3, <1>4, <1>5 DEF Same
  <2>4. \A x, y \in list : x # y => x.topic.members \cap y.topic.members = {}
    BY <1>3, <2>3
  <2>. QED BY <2>1, <2>2, <2>4 DEF Parted
<1>8. Keeps(InOrder(list), said)
  BY <1>6, <1>7, KeepsInOrder DEF list
<1>. QED BY <1>8 DEF list

(* A topic goes to a group, or to a place of its own after the groups.       *)
LEMMA PlaceIs ==
  ASSUME NEW groups, Len(groups) \in Nat, DOMAIN groups = 1..Len(groups), NEW i \in Nat, i > 0
  PROVE  Place(groups, i) \in DOMAIN groups \cup {Len(groups) + i}
<1>. DEFINE S == {g \in DOMAIN groups : Contains(groups[g].members, i)} \cup {Len(groups) + i}
<1>1. PICK n \in Int : n = Len(groups) + i
  OBVIOUS
<1>2. S \in SUBSET (1..n) /\ S # {} /\ S \subseteq DOMAIN groups \cup {Len(groups) + i}
  BY <1>1
<1>3. Place(groups, i) = Min(S)
  BY DEF Place
<1>. HIDE DEF S
<1>. QED BY <1>2, <1>3, MinOf

LEMMA KeepsJoined ==
  ASSUME NEW said \in Seq(SomeTopics),
         NEW groups, Len(groups) \in Nat, DOMAIN groups = 1..Len(groups)
  PROVE  Keeps(InOrder(JoinTopics(said, groups)), said)
<1>. DEFINE e == [i \in DOMAIN said |-> Entry(said, groups, Place(groups, i))]
            list == JoinTopics(said, groups)
            those(h) == {i \in DOMAIN said : Place(groups, i) = h}
<1>1. Len(said) \in Int /\ DOMAIN said = 1..Len(said)
  OBVIOUS
<1>2. \A i \in DOMAIN said : /\ i \in Nat /\ i > 0 /\ said[i].time \in Nat \cup {None}
                             /\ Place(groups, i) \in DOMAIN groups \cup {Len(groups) + i}
  <2>1. ASSUME NEW i \in DOMAIN said PROVE i \in Nat /\ i > 0 /\ said[i] \in SomeTopics
    BY <1>1
  <2>. QED BY <2>1, AnswerTopics, PlaceIs
<1>3. list = {e[i] : i \in DOMAIN said}
  BY DEF JoinTopics
<1>4. ASSUME NEW i \in DOMAIN said
      PROVE  /\ e[i].at = Place(groups, i) /\ e[i].time = e[i].topic.time
             /\ e[i].topic.members = those(Place(groups, i))
             /\ e[i].topic.time \in {said[k].time : k \in those(Place(groups, i))}
             /\ \/ e[i].topic.time # None
                \/ \A k \in those(Place(groups, i)) : said[k].time = None
  <2>. DEFINE h == Place(groups, i)
              members == those(h)
              topic == IF h \in DOMAIN groups THEN Join(said, members, groups[h])
                                              ELSE Alone(said, h - Len(groups))
  <2>1. e[i] = [at |-> h, time |-> topic.time, topic |-> topic]
    BY DEF Entry
  <2>2. i \in members /\ members \subseteq DOMAIN said
    OBVIOUS
  <2>3. CASE h \in DOMAIN groups
    <3>. DEFINE times == {said[k].time : k \in members}
    <3>1. topic.members = members /\ topic.time = Earliest(times)
      BY <2>3 DEF Join
    <3>2. times \in SUBSET (Nat \cup {None}) /\ times # {}
      BY <1>2, <2>2
    <3>3. Earliest(times) \in times /\ (Earliest(times) = None => times \subseteq {None})
      <4>. HIDE DEF times
      <4>. QED BY <3>2, EarliestIs
    <3>4. times \subseteq {None} => \A k \in members : said[k].time = None
      OBVIOUS
    <3>. HIDE DEF topic, members, times, e
    <3>5. e[i].at = h /\ e[i].time = topic.time /\ e[i].topic = topic
      BY <2>1
    <3>6. /\ e[i].topic.members = members /\ e[i].topic.time \in times
          /\ e[i].topic.time # None \/ \A k \in members : said[k].time = None
      BY <3>1, <3>3, <3>4, <3>5
    <3>. HIDE DEF those, h
    <3>. QED BY <3>5, <3>6 DEF members, times, h
  <2>4. CASE h \notin DOMAIN groups
    <3>1. h = Len(groups) + i /\ h - Len(groups) = i
      BY <1>2, <2>4
    <3>2. topic.members = {i} /\ topic.time = said[i].time
      BY <2>4, <3>1 DEF Alone
    <3>3. ASSUME NEW k \in members PROVE k = i
      <4>1. k \in DOMAIN said /\ Place(groups, k) = h
        OBVIOUS
      <4>2. h = Len(groups) + k /\ k \in Nat /\ i \in Nat
        BY <1>2, <2>4, <4>1
      <4>. QED BY <3>1, <4>2
    <3>4. members = {i}
      BY <2>2, <3>3
    <3>. HIDE DEF topic, members, e
    <3>5. e[i].at = h /\ e[i].time = topic.time /\ e[i].topic = topic
      BY <2>1
    <3>. QED BY <3>2, <3>4, <3>5 DEF members
  <2>. QED BY <2>3, <2>4
<1>5. ASSUME NEW i \in DOMAIN said, NEW j \in DOMAIN said, Place(groups, i) = Place(groups, j)
      PROVE  e[i] = e[j]
  BY <1>5
<1>6. \A i \in DOMAIN said : i \in those(Place(groups, i)) /\ those(Place(groups, i)) \subseteq DOMAIN said
  OBVIOUS
<1>. HIDE DEF e, list
<1>7. Entries(list)
  <2>1. IsFiniteSet(list)
    BY <1>3, ImageFinite
  <2>2. ASSUME NEW i \in DOMAIN said PROVE e[i].at \in Nat /\ e[i].time \in Nat \cup {None}
    <3>1. Place(groups, i) \in Nat
      BY <1>2
    <3>2. \A k \in those(Place(groups, i)) : said[k].time \in Nat \cup {None}
      BY <1>2
    <3>. HIDE DEF those
    <3>. QED BY <1>4, <3>1, <3>2
  <2>3. \A x \in list : x.at \in Nat /\ x.time \in Nat \cup {None}
    BY <1>3, <2>2
  <2>4. ASSUME NEW i \in DOMAIN said, NEW j \in DOMAIN said, e[i].at = e[j].at PROVE e[i] = e[j]
    BY <2>4, <1>4, <1>5
  <2>5. \A x, y \in list : x.at = y.at => x = y
    BY <1>3, <2>4
  <2>. QED BY <2>1, <2>3, <2>5 DEF Entries
<1>8. Parted(list, said)
  <2>1. ASSUME NEW i \in DOMAIN said
        PROVE  e[i].topic.members \subseteq DOMAIN said /\ i \in e[i].topic.members
               /\ Told(e[i].topic, said)
    <3>. HIDE DEF those
    <3>. QED BY <1>4, <1>6 DEF Told
  <2>2. ASSUME NEW i \in DOMAIN said, NEW j \in DOMAIN said, e[i] # e[j]
        PROVE  e[i].topic.members \cap e[j].topic.members = {}
    <3>1. Place(groups, i) # Place(groups, j)
      BY <1>5, <2>2
    <3>2. those(Place(groups, i)) \cap those(Place(groups, j)) = {}
      BY <3>1
    <3>. QED BY <1>4, <3>2
  <2>3. \A x \in list : x.topic.members \subseteq DOMAIN said /\ Told(x.topic, said)
    BY <1>3, <2>1
  <2>4. \A i \in DOMAIN said : \E x \in list : i \in x.topic.members
    BY <1>3, <2>1
  <2>5. \A x, y \in list : x # y => x.topic.members \cap y.topic.members = {}
    BY <1>3, <2>2
  <2>. QED BY <2>3, <2>4, <2>5 DEF Parted
<1>9. \A x \in list : Timed(x.topic, said)
  <2>1. ASSUME NEW i \in DOMAIN said PROVE Timed(e[i].topic, said)
    <3>. HIDE DEF those
    <3>. QED BY <1>4 DEF Timed
  <2>. QED BY <1>3, <2>1
<1>10. Keeps(InOrder(list), said)
  BY <1>7, <1>8, <1>9, KeepsInOrder
<1>. QED BY <1>10 DEF list

-----------------------------------------------------------------------------
(* The invariant about the topics.                                         *)

TopicsInv == stage = "done" => Keeps(result.topics, AllTopics(parts))

LEMMA TopicsKeptIs == TopicsKept <=> TopicsInv
BY DEF TopicsKept, TopicsInv, Keeps

LEMMA TopicsInvNext ==
  TopicsInv' <=> (stage' = "done" => Keeps(result'.topics, AllTopics(parts')))
BY DEF TopicsInv, Keeps, AllTopics

(* A list of topics of the parts becomes the result.                         *)
LEMMA TopicsOnFinish ==
  ASSUME NEW decisions, NEW list, FinishWith(decisions, list),
         Keeps(InOrder(list), AllTopics(parts))
  PROVE  TopicsInv'
<1>1. result'.topics = InOrder(list) /\ parts' = parts
  BY DEF FinishWith, Finish
<1>. QED BY <1>1, TopicsInvNext

LEMMA TopicsOnRaise ==
  ASSUME TypeOK, NEW why, Raise(why) PROVE TopicsInv'
<1>1. CASE stage = "merge"
  <2>1. FinishWith(AllDecisions(parts), PlainTopics(AllTopics(parts)))
    BY <1>1 DEF Raise
  <2>2. AllTopics(parts) \in Seq(SomeTopics)
    BY AllTopicsType DEF TypeOK
  <2>. QED BY <2>1, <2>2, KeepsPlain, TopicsOnFinish
<1>2. CASE stage # "merge"
  <2>1. stage' = "failed"
    BY <1>2 DEF Raise, Fail
  <2>. QED BY <2>1, TopicsInvNext
<1>. QED BY <1>1, <1>2

LEMMA TopicsOnMerged ==
  ASSUME TypeOK, NEW m \in Merges, Merged(m) PROVE TopicsInv'
<1>1. FinishWith(Pick(AllDecisions(parts), m.decisions), JoinTopics(AllTopics(parts), m.groups))
  BY DEF Merged
<1>2. AllTopics(parts) \in Seq(SomeTopics)
  BY AllTopicsType DEF TypeOK
<1>3. Len(m.groups) \in Nat /\ DOMAIN m.groups = 1..Len(m.groups)
  BY MergesAssumption, LenProperties
<1>. QED BY <1>1, <1>2, <1>3, KeepsJoined, TopicsOnFinish

LEMMA TopicsOnExtracted ==
  ASSUME Inv, NEW a \in Answers, Extracted(a) PROVE TopicsInv'
<1>. SUFFICES ASSUME stage' = "done" PROVE Keeps(result'.topics, AllTopics(parts'))
  BY TopicsInvNext
<1>1. TypeOK /\ stage = "chunks" /\ work # <<>>
  BY DEF Inv, Extracted
<1>2. PICK x : x = [text |-> Head(work), answer |-> a]
  OBVIOUS
<1>3. parts' = Append(parts, x)
  BY <1>2 DEF Extracted
<1>4. parts \in Seq([text : Text, answer : Answers]) /\ x \in [text : Text, answer : Answers]
  <2>1. Head(work) \in Text
    BY <1>1, HeadTailProperties DEF TypeOK
  <2>. QED BY <1>1, <1>2, <2>1 DEF TypeOK
<1>. DEFINE P == [text : Text, answer : Answers]
<1>5. /\ parts' \in Seq(P) /\ Len(parts') = Len(parts) + 1 /\ Len(parts) \in Nat
      /\ parts'[Len(parts) + 1] = x
  <2>1. parts \in Seq(P) /\ x \in P
    BY <1>4
  <2>. HIDE DEF P
  <2>. QED BY <1>3, <2>1, AppendProperties
<1>6. CASE Len(parts') = 1
  <2>1. result'.topics = AsTheyAre(a.topics)
    BY <1>1, <1>6 DEF Extracted
  <2>2. AllTopics(parts') = parts'[1].answer.topics
    BY <1>5, <1>6, AllTopicsType
  <2>3. parts'[1].answer.topics = a.topics
    <3>1. parts'[1] = x
      BY <1>5, <1>6
    <3>2. x.answer = a
      BY <1>2
    <3>. QED BY <3>1, <3>2
  <2>. QED BY <2>1, <2>2, <2>3, KeepsAsTheyAre
<1>7. CASE Len(parts') # 1
  <2>1. result'.topics = AsTheyAre(AllTopics(parts'))
    BY <1>1, <1>7 DEF Extracted
  <2>. QED BY <2>1, KeepsAsTheyAre
<1>. QED BY <1>6, <1>7

LEMMA TopicsNext == Inv /\ TopicsInv /\ [Next]_vars => TopicsInv'
<1>. SUFFICES ASSUME Inv, TopicsInv, [Next]_vars PROVE TopicsInv'
  OBVIOUS
<1>1. TypeOK
  BY DEF Inv
<1>2. CASE NoAnswer \/ Busy \/ Refused
  <2>1. stage \in {"chunks", "merge"} /\ (Again \/ Raise("service"))
    BY <1>2 DEF NoAnswer, Busy, Refused, Calling
  <2>2. CASE Again
    BY <2>1, <2>2, TopicsInvNext DEF Again
  <2>. QED BY <1>1, <2>1, <2>2, TopicsOnRaise
<1>3. CASE SchemaRefused
  <2>1. stage' # "done"
    BY <1>3 DEF SchemaRefused
  <2>. QED BY <2>1, TopicsInvNext
<1>4. CASE TooLarge
  <2>1. CASE stage = "merge"
    BY <1>1, <1>4, <2>1, TopicsOnRaise DEF TooLarge
  <2>2. CASE stage # "merge"
    <3>1. stage' # "done"
      BY <1>4, <2>2 DEF TooLarge, Fail
    <3>. QED BY <3>1, TopicsInvNext
  <2>. QED BY <2>1, <2>2
<1>5. CASE NoMessage
  <2>1. stage' = "failed"
    BY <1>5 DEF NoMessage, Fail
  <2>. QED BY <2>1, TopicsInvNext
<1>6. CASE Unusable
  <2>1. CASE stage = "merge" \/ corrected
    BY <1>1, <1>6, <2>1, TopicsOnRaise DEF Unusable
  <2>2. CASE ~(stage = "merge" \/ corrected)
    <3>1. stage' \in {"chunks", "merge"}
      BY <1>6, <2>2 DEF Unusable, Calling
    <3>. QED BY <3>1, TopicsInvNext
  <2>. QED BY <2>1, <2>2
<1>7. ASSUME NEW a \in Answers, Extracted(a) PROVE TopicsInv'
  BY <1>7, TopicsOnExtracted
<1>8. ASSUME NEW m \in Merges, Merged(m) PROVE TopicsInv'
  BY <1>1, <1>8, TopicsOnMerged
<1>9. CASE UNCHANGED vars
  <2>1. stage' = stage /\ parts' = parts /\ result' = result
    BY <1>9 DEF vars
  <2>. QED BY <2>1, TopicsInvNext DEF TopicsInv
<1>. QED BY <1>2, <1>3, <1>4, <1>5, <1>6, <1>7, <1>8, <1>9 DEF Next

(* Every topic of every part is in exactly one topic of the meeting, with a  *)
(* time of one of them, whichever numbers the service answers with when it   *)
(* joins them and however many parts there are; only the plain lists may     *)
(* drop a time (_join_topics, _merge_parts).                                 *)
THEOREM TopicsTheorem == Spec => []TopicsKept
<1>1. Init => TopicsInv
  BY DEF Init, TopicsInv
<1>2. TopicsInv => TopicsKept
  BY TopicsKeptIs
<1>. QED BY <1>1, <1>2, Invariance, TopicsNext, PTL DEF Spec

-----------------------------------------------------------------------------
(* How many calls are left.                                                *)

(* The lines still to extract, and the texts they can be cut into, counted   *)
(* so that a cut leaves fewer and so does an answer; joining is one more.    *)
LinesLeft == IF work = <<>> THEN 0 ELSE Len(lines) - work[1][1] + 1
TextsLeft == 2 * LinesLeft - Len(work) + IF Calling THEN 1 ELSE 0

(* Each of them takes two rounds of MaxRetries + 1 calls at most.            *)
CallsOf(texts, again, tried) ==
    (2 * texts + IF again THEN 0 ELSE 1) * (MaxRetries + 1) + MaxRetries - tried
CallsLeft == CallsOf(TextsLeft, corrected, attempt)

LEMMA TimesMore ==
  ASSUME NEW x \in Int, NEW y \in Int, x < y, NEW k \in Nat
  PROVE  x * k + k <= y * k
<1>1. PICK d \in Nat : y = x + 1 + d
  <2>1. y - x - 1 \in Nat
    OBVIOUS
  <2>. QED BY <2>1
<1>2. y * k = x * k + k + d * k
  BY <1>1
<1>3. d * k >= 0
  OBVIOUS
<1>4. x * k \in Int /\ d * k \in Int
  OBVIOUS
<1>. QED BY <1>2, <1>3, <1>4

LEMMA FewerCalls ==
  ASSUME NEW t \in Int, NEW t1 \in Int, NEW c \in BOOLEAN, NEW c1 \in BOOLEAN,
         NEW a \in 0..MaxRetries, NEW a1 \in 0..MaxRetries
  PROVE  /\ t >= 0 => CallsOf(t, c, a) \in Nat
         /\ t1 < t => CallsOf(t1, c1, a1) < CallsOf(t, c, a)
         /\ ~c /\ c1 => CallsOf(t, c1, a1) < CallsOf(t, c, a)
         /\ a1 = a + 1 => CallsOf(t, c, a1) < CallsOf(t, c, a)
<1>. DEFINE x(s, b) == 2 * s + IF b THEN 0 ELSE 1
<1>1. PICK k \in Nat : k = MaxRetries + 1
  BY SizesAssumption
<1>2. MaxRetries \in Nat /\ a \in Int /\ a1 \in Int /\ 0 <= a /\ a <= MaxRetries
      /\ 0 <= a1 /\ a1 <= MaxRetries
  BY SizesAssumption
<1>3. \A s \in Int : \A b \in BOOLEAN : x(s, b) \in Int /\ x(s, b) * k \in Int
  OBVIOUS
<1>4. \A s, b, n : CallsOf(s, b, n) = x(s, b) * k + MaxRetries - n
  BY <1>1 DEF CallsOf
<1>5. t >= 0 => x(t, c) >= 0
  OBVIOUS
<1>6. t1 < t => x(t1, c1) < x(t, c)
  OBVIOUS
<1>7. ~c /\ c1 => x(t, c1) < x(t, c)
  OBVIOUS
<1>. HIDE DEF x
<1>8. t >= 0 => x(t, c) * k >= 0
  <2>1. \A i \in Int : i >= 0 => i * k >= 0
    OBVIOUS
  <2>. QED BY <1>3, <1>5, <2>1
<1>9. t1 < t => x(t1, c1) * k + k <= x(t, c) * k
  BY <1>3, <1>6, TimesMore
<1>10. ~c /\ c1 => x(t, c1) * k + k <= x(t, c) * k
  BY <1>3, <1>7, TimesMore
<1>11. \A i, j \in Int : i + k <= j => i + MaxRetries - a1 < j + MaxRetries - a
  BY <1>1, <1>2
<1>12. t >= 0 => CallsOf(t, c, a) \in Nat
  BY <1>2, <1>3, <1>4, <1>8
<1>13. t1 < t => CallsOf(t1, c1, a1) < CallsOf(t, c, a)
  BY <1>3, <1>4, <1>9, <1>11
<1>14. ~c /\ c1 => CallsOf(t, c1, a1) < CallsOf(t, c, a)
  BY <1>3, <1>4, <1>10, <1>11
<1>15. a1 = a + 1 => CallsOf(t, c, a1) < CallsOf(t, c, a)
  BY <1>2, <1>3, <1>4
<1>. QED BY <1>12, <1>13, <1>14, <1>15

(* The end of texts that follow each other follows too.                      *)
LEMMA ConsecutiveEnd ==
  ASSUME NEW T, NEW p \in Seq(T), NEW w \in Seq(T), w # <<>>, NEW a, NEW b,
         Consecutive(p \o w, a, b)
  PROVE  Consecutive(w, w[1][1], b)
<1>. DEFINE n == Len(p)
            u == p \o w
<1>1. n \in Nat /\ Len(w) \in Nat /\ Len(w) > 0 /\ Len(u) = n + Len(w)
      /\ \A k \in 1..Len(w) : u[n + k] = w[k]
  <2>1. n \in Nat /\ Len(w) \in Nat /\ Len(w) > 0
    BY EmptySeq, LenProperties
  <2>2. Len(u) = n + Len(w)
        /\ \A k \in 1..(n + Len(w)) : u[k] = IF k <= n THEN p[k] ELSE w[k - n]
    BY ConcatProperties
  <2>3. ASSUME NEW k \in 1..Len(w) PROVE u[n + k] = w[k]
    <3>. HIDE DEF n, u
    <3>1. PICK j \in 1..(n + Len(w)) : j = n + k
      BY <2>1
    <3>2. ~(j <= n) /\ j - n = k
      BY <2>1, <3>1
    <3>. QED BY <2>2, <3>1, <3>2
  <2>. QED BY <2>1, <2>2, <2>3
<1>2. u[Len(u)][2] = b /\ \A k \in 1..(Len(u) - 1) : u[k + 1][1] = u[k][2] + 1
  BY DEF Consecutive
<1>. HIDE DEF n, u
<1>3. w[Len(w)][2] = b
  <2>1. Len(w) \in 1..Len(w) /\ u[n + Len(w)] = w[Len(w)]
    BY <1>1
  <2>. QED BY <1>1, <1>2, <2>1
<1>4. ASSUME NEW k \in 1..(Len(w) - 1) PROVE w[k + 1][1] = w[k][2] + 1
  <2>1. k \in 1..Len(w) /\ k + 1 \in 1..Len(w) /\ n + k \in 1..(Len(u) - 1)
        /\ n + (k + 1) = (n + k) + 1
    BY <1>1
  <2>2. u[(n + k) + 1][1] = u[n + k][2] + 1
    BY <1>2, <2>1
  <2>3. u[n + k] = w[k] /\ u[n + (k + 1)] = w[k + 1]
    BY <1>1, <2>1
  <2>. QED BY <2>1, <2>2, <2>3
<1>. QED BY <1>3, <1>4 DEF Consecutive

(* Texts that follow each other have a line each.                            *)
LEMMA AsManyLines ==
  ASSUME NEW n \in Nat, NEW w \in Seq(TextIn(n)), w # <<>>, NEW b, Consecutive(w, w[1][1], b)
  PROVE  Len(w) <= n - w[1][1] + 1
<1>1. Len(w) \in Nat /\ Len(w) > 0 /\ DOMAIN w = 1..Len(w)
  BY EmptySeq, LenProperties
<1>2. ASSUME NEW k \in 1..Len(w)
      PROVE  w[k][1] \in 1..n /\ w[k][2] \in 1..n /\ w[k][1] <= w[k][2]
  <2>1. w[k] \in TextIn(n)
    BY <1>1, ElementOfSeq
  <2>. QED BY <2>1 DEF TextIn
<1>0. \A q, r, s, k \in Int : q <= r /\ q >= s + k => r + 1 >= s + (k + 1)
  OBVIOUS
<1>. DEFINE N == {k \in Nat : \A j \in 1..Len(w) : j = k + 1 => w[j][1] >= w[1][1] + k}
<1>3. 0 \in N
  BY <1>1, <1>2
<1>4. ASSUME NEW k \in N PROVE k + 1 \in N
  <2>. SUFFICES ASSUME NEW i \in 1..Len(w), i = (k + 1) + 1 PROVE w[i][1] >= w[1][1] + (k + 1)
    OBVIOUS
  <2>1. PICK j \in 1..(Len(w) - 1) : j = k + 1
    BY <1>1
  <2>2. j \in 1..Len(w) /\ j + 1 \in 1..Len(w) /\ j + 1 = i /\ 1 \in 1..Len(w)
    BY <1>1, <2>1
  <2>3. w[j + 1][1] = w[j][2] + 1
    BY DEF Consecutive
  <2>4. w[j][1] >= w[1][1] + k
    BY <2>1, <2>2
  <2>5. w[j][1] \in Int /\ w[j][2] \in Int /\ w[j][1] <= w[j][2] /\ w[1][1] \in Int
        /\ k \in Nat
    BY <1>2, <2>2
  <2>6. w[j + 1][1] >= w[1][1] + (k + 1)
    <3>. HIDE DEF N
    <3>1. PICK q \in Int, r \in Int, s \in Int :
              q = w[j][1] /\ r = w[j][2] /\ s = w[1][1] /\ q <= r
      BY <2>5
    <3>2. w[j + 1][1] = r + 1 /\ q >= s + k
      BY <2>3, <2>4, <3>1
    <3>3. r + 1 >= s + (k + 1)
      <4>1. k \in Int
        BY <2>5
      <4>. QED BY <1>0, <3>1, <3>2, <4>1
    <3>. QED BY <3>1, <3>2, <3>3
  <2>. QED BY <2>2, <2>6
<1>5. N = Nat
  <2>1. N \in SUBSET Nat
    OBVIOUS
  <2>. HIDE DEF N
  <2>. QED BY <1>3, <1>4, <2>1, Induction
<1>. HIDE DEF N
<1>6. PICK m \in Nat : m = Len(w) - 1
  <2>1. Len(w) - 1 \in Nat
    BY <1>1
  <2>. QED BY <2>1
<1>7. Len(w) \in 1..Len(w) /\ 1 \in 1..Len(w) /\ m + 1 = Len(w)
  BY <1>1, <1>6
<1>8. m \in N
  BY <1>5
<1>9. w[Len(w)][1] >= w[1][1] + m
  BY <1>7, <1>8 DEF N
<1>10. w[Len(w)][1] \in 1..n /\ w[1][1] \in 1..n
  BY <1>2, <1>7
<1>. QED BY <1>1, <1>6, <1>9, <1>10

(* What is still to extract, in a reachable state.                           *)
LEMMA WorkLeft ==
  ASSUME Inv
  PROVE  /\ work \in Seq(Text) /\ Len(work) \in Nat /\ Len(lines) \in Nat
         /\ Text = TextIn(Len(lines))
         /\ work # <<>> => /\ Consecutive(work, work[1][1], Len(lines))
                           /\ work[1] = Head(work) /\ Head(work) \in Text
                           /\ Len(work) > 0 /\ Len(work) <= Len(lines) - work[1][1] + 1
         /\ LinesLeft \in Int /\ LinesLeft >= Len(work)
<1>1. TypeOK /\ TranscriptCovered
  BY DEF Inv
<1>2. /\ work \in Seq(Text) /\ Len(work) \in Nat /\ Len(lines) \in Nat
      /\ Text = TextIn(Len(lines))
  BY <1>1, LinesType, LenProperties, Unfolded DEF TypeOK, SaysWhat
<1>3. ASSUME work # <<>>
      PROVE  /\ Consecutive(work, work[1][1], Len(lines))
             /\ work[1] = Head(work) /\ Head(work) \in Text
             /\ Len(work) > 0 /\ Len(work) <= Len(lines) - work[1][1] + 1
  <2>1. TextsOf(parts) \in Seq(Text)
    BY <1>1, TextsOfType DEF TypeOK
  <2>2. Consecutive(TextsOf(parts) \o work, 1, Len(lines))
    BY <1>1, Unfolded DEF SaysWhat
  <2>3. Consecutive(work, work[1][1], Len(lines))
    BY <1>2, <1>3, <2>1, <2>2, ConsecutiveEnd
  <2>4. Head(work) = work[1] /\ Head(work) \in Text /\ Len(work) > 0
    BY <1>2, <1>3, HeadTailProperties, EmptySeq, LenProperties
  <2>5. Len(work) <= Len(lines) - work[1][1] + 1
    BY <1>2, <1>3, <2>3, AsManyLines
  <2>. QED BY <2>3, <2>4, <2>5
<1>4. LinesLeft \in Int /\ LinesLeft >= Len(work)
  <2>1. CASE work = <<>>
    <3>1. Len(work) = 0
      BY <2>1, EmptySeq
    <3>. QED BY <2>1, <3>1 DEF LinesLeft
  <2>2. CASE work # <<>>
    <3>1. Head(work)[1] \in Int
      BY <1>2, <1>3, <2>2 DEF TextIn
    <3>. QED BY <1>2, <1>3, <2>2, <3>1 DEF LinesLeft
  <2>. QED BY <2>1, <2>2
<1>. QED BY <1>2, <1>3, <1>4

LEMMA TextsLeftType == Inv => TextsLeft \in Nat
<1>. SUFFICES ASSUME Inv PROVE TextsLeft \in Nat
  OBVIOUS
<1>1. LinesLeft \in Int /\ Len(work) \in Nat /\ LinesLeft >= Len(work)
  BY WorkLeft
<1>2. 2 * LinesLeft - Len(work) \in Nat
  BY <1>1
<1>. QED BY <1>2 DEF TextsLeft

LEMMA TextsLeftNext == Inv' => TextsLeft' \in Nat
<1>. DEFINE Typed == TextsLeft \in Nat
<1>1. Inv => Typed
  BY TextsLeftType
<1>. HIDE DEF Typed
<1>2. Inv' => Typed'
  BY <1>1, PTL
<1>. QED BY <1>2 DEF Typed

(* A step that ends the calls.                                               *)
LEMMA NoCallsLeft ==
  ASSUME Inv, Calling, UNCHANGED <<lines, work>>, stage' \in {"done", "failed"}
  PROVE  TextsLeft' = TextsLeft - 1
<1>1. LinesLeft \in Int /\ Len(work) \in Nat
  BY WorkLeft
<1>2. LinesLeft' = LinesLeft
  BY DEF LinesLeft
<1>3. ~Calling'
  BY DEF Calling
<1>. QED BY <1>1, <1>2, <1>3 DEF TextsLeft

LEMMA SameTextsLeft ==
  ASSUME UNCHANGED <<lines, work, stage>>
  PROVE  TextsLeft' = TextsLeft
BY DEF TextsLeft, LinesLeft, Calling

(* A cut: as many lines, and more texts.                                     *)
LEMMA CutLeaves ==
  ASSUME Inv, stage = "chunks", UNCHANGED <<lines, stage>>,
         NEW h \in Seq(Text), Consecutive(h, Head(work)[1], Head(work)[2]), Len(h) >= 2,
         work' = h \o Tail(work)
  PROVE  TextsLeft' < TextsLeft
<1>1. work # <<>>
  BY DEF Inv
<1>2. /\ work \in Seq(Text) /\ Len(work) \in Nat /\ work[1] = Head(work)
      /\ Len(lines) \in Int /\ Len(work) > 0 /\ LinesLeft \in Int
      /\ Text = TextIn(Len(lines)) /\ Head(work) \in Text
  BY <1>1, WorkLeft
<1>3. PICK x \in Seq(Text) : x = Tail(work) /\ Len(x) = Len(work) - 1
  BY <1>1, <1>2, HeadTailProperties
<1>4. /\ h \o x \in Seq(Text) /\ Len(h \o x) = Len(h) + Len(x)
      /\ \A k \in 1..(Len(h) + Len(x)) : (h \o x)[k] = IF k <= Len(h) THEN h[k] ELSE x[k - Len(h)]
  BY ConcatProperties
<1>5. Len(h) \in Nat /\ Len(x) \in Nat
  BY LenProperties
<1>6. (h \o x)[1] = h[1] /\ Len(h \o x) > Len(work)
  <2>1. 1 \in 1..(Len(h) + Len(x)) /\ 1 <= Len(h)
    BY <1>5
  <2>2. Len(h \o x) > Len(work)
    BY <1>2, <1>3, <1>4, <1>5
  <2>. QED BY <1>4, <2>1, <2>2
<1>7. work' = h \o x /\ h[1][1] = work[1][1]
  BY <1>2, <1>3 DEF Consecutive
<1>8. h \o x # <<>>
  BY <1>2, <1>4, <1>5, <1>6, EmptySeq
<1>9. LinesLeft' = LinesLeft
  BY <1>1, <1>6, <1>7, <1>8 DEF LinesLeft
<1>10. Len(work') \in Int /\ Len(work') > Len(work)
  BY <1>4, <1>5, <1>6, <1>7
<1>11. /\ TextsLeft = 2 * LinesLeft - Len(work) + 1
       /\ TextsLeft' = 2 * LinesLeft' - Len(work') + 1
  BY DEF TextsLeft, Calling
<1>12. LinesLeft' = LinesLeft /\ LinesLeft \in Int /\ Len(work) \in Int
  BY <1>2, <1>9
<1>13. \A l, m, n \in Int : n > m => 2 * l - n + 1 < 2 * l - m + 1
  OBVIOUS
<1>. QED BY <1>10, <1>11, <1>12, <1>13

(* An answer: fewer lines.                                                   *)
LEMMA AnswerLeaves ==
  ASSUME Inv, NEW a \in Answers, Extracted(a)
  PROVE  TextsLeft' < TextsLeft
<1>1. work # <<>> /\ stage = "chunks"
  BY DEF Inv, Extracted
<1>2. /\ work \in Seq(Text) /\ Len(work) \in Nat /\ work[1] = Head(work)
      /\ Len(lines) \in Nat /\ Len(work) > 0 /\ Len(work) <= Len(lines) - work[1][1] + 1
      /\ Text = TextIn(Len(lines)) /\ Head(work) \in Text
      /\ Consecutive(work, work[1][1], Len(lines))
  BY <1>1, WorkLeft
<1>3. /\ work' = Tail(work) /\ lines' = lines
      /\ work' # <<>> => stage' = stage
  BY DEF Extracted
<1>4. PICK x \in Seq(Text) : x = Tail(work) /\ Len(x) = Len(work) - 1
                             /\ \A k \in 1..Len(x) : x[k] = work[k + 1]
  <2>1. work \in Seq(Text) /\ work # <<>>
    BY <1>1, <1>2
  <2>. QED BY <2>1, HeadTailProperties
<1>5. work[1][1] \in Int /\ work[1][2] \in Int /\ work[1][1] <= work[1][2]
  BY <1>2 DEF TextIn
<1>6. TextsLeft = 2 * (Len(lines) - work[1][1] + 1) - Len(work) + 1
  BY <1>1 DEF TextsLeft, LinesLeft, Calling
<1>7. CASE x = <<>>
  <2>1. LinesLeft' = 0 /\ Len(work') = 0
    BY <1>3, <1>4, <1>7, EmptySeq DEF LinesLeft
  <2>2. TextsLeft' \in {0, 1}
    BY <2>1 DEF TextsLeft
  <2>. QED BY <1>2, <1>5, <1>6, <2>2
<1>8. CASE x # <<>>
  <2>1. Len(x) \in Nat /\ Len(x) > 0 /\ 1 \in 1..Len(x)
    BY <1>8, EmptySeq, LenProperties
  <2>2. x[1] = work[2]
    BY <1>4, <2>1
  <2>3. work[2][1] = work[1][2] + 1
    <3>1. 1 \in 1..(Len(work) - 1)
      BY <1>2, <1>4, <2>1
    <3>2. work[1 + 1][1] = work[1][2] + 1
      BY <1>2, <3>1 DEF Consecutive
    <3>. QED BY <3>2
  <2>4. LinesLeft' = Len(lines) - work[2][1] + 1
    BY <1>3, <1>4, <1>8, <2>2 DEF LinesLeft
  <2>5. Calling'
    BY <1>1, <1>3, <1>4, <1>8 DEF Calling
  <2>6. TextsLeft' = 2 * (Len(lines) - work[2][1] + 1) - Len(x) + 1
    BY <1>3, <1>4, <2>4, <2>5 DEF TextsLeft
  <2>7. \A n, l, p, q \in Int : p <= q =>
            2 * (n - (q + 1) + 1) - (l - 1) + 1 < 2 * (n - p + 1) - l + 1
    OBVIOUS
  <2>8. Len(lines) \in Int /\ Len(work) \in Int /\ Len(x) = Len(work) - 1
    BY <1>2, <1>4
  <2>. QED BY <1>5, <1>6, <2>3, <2>6, <2>7, <2>8
<1>. QED BY <1>7, <1>8

(* A round starts anew with one text less; or the same text has fewer tries. *)
LEMMA CallsFewer ==
  ASSUME Inv, TextsLeft' \in Int, corrected' \in BOOLEAN, attempt' \in 0..MaxRetries,
         \/ TextsLeft' < TextsLeft
         \/ TextsLeft' = TextsLeft /\ ~corrected /\ corrected'
         \/ TextsLeft' = TextsLeft /\ corrected' = corrected /\ attempt' = attempt + 1
  PROVE  CallsLeft' < CallsLeft
<1>1. TextsLeft \in Nat /\ corrected \in BOOLEAN /\ attempt \in 0..MaxRetries
  BY TextsLeftType DEF Inv, TypeOK
<1>. DEFINE t == TextsLeft
            t1 == TextsLeft'
            c1 == corrected'
            a1 == attempt'
<1>2. CallsLeft = CallsOf(t, corrected, attempt) /\ CallsLeft' = CallsOf(t1, c1, a1)
  BY DEF CallsLeft
<1>3. t \in Int /\ t1 \in Int /\ c1 \in BOOLEAN /\ a1 \in 0..MaxRetries
  BY <1>1
<1>. HIDE DEF t, t1, c1, a1
<1>4. CASE TextsLeft' < TextsLeft
  <2>1. t1 < t
    BY <1>4 DEF t, t1
  <2>. QED BY <1>1, <1>2, <1>3, <2>1, FewerCalls
<1>5. CASE TextsLeft' = TextsLeft /\ ~corrected /\ corrected'
  <2>1. t1 = t /\ ~corrected /\ c1
    BY <1>5, Zenon DEF t, t1, c1
  <2>. QED BY <1>1, <1>2, <1>3, <2>1, FewerCalls
<1>6. CASE TextsLeft' = TextsLeft /\ corrected' = corrected /\ attempt' = attempt + 1
  <2>1. t1 = t /\ c1 = corrected /\ a1 = attempt + 1
    BY <1>6 DEF t, t1, c1, a1
  <2>. QED BY <1>1, <1>2, <1>3, <2>1, FewerCalls
<1>. QED BY <1>4, <1>5, <1>6

LEMMA EndsCalls ==
  ASSUME Inv, Calling, UNCHANGED <<lines, work>>, stage' \in {"done", "failed"},
         attempt' = 0, corrected' = FALSE
  PROVE  CallsLeft' < CallsLeft
<1>1. TextsLeft \in Nat /\ TextsLeft' = TextsLeft - 1
  BY TextsLeftType, NoCallsLeft
<1>2. attempt' \in 0..MaxRetries
  BY SizesAssumption
<1>3. corrected' \in BOOLEAN
  OBVIOUS
<1>4. TextsLeft' \in Int /\ TextsLeft' < TextsLeft
  BY <1>1
<1>. QED BY <1>2, <1>3, <1>4, CallsFewer

LEMMA OnceMore ==
  ASSUME Inv, UNCHANGED <<lines, work, stage, corrected>>, attempt < MaxRetries,
         attempt' = attempt + 1
  PROVE  CallsLeft' < CallsLeft
<1>1. TextsLeft \in Nat /\ TextsLeft' = TextsLeft
  BY TextsLeftType, SameTextsLeft
<1>2. attempt' \in 0..MaxRetries /\ corrected' \in BOOLEAN
  BY SizesAssumption DEF Inv, TypeOK
<1>. QED BY <1>1, <1>2, CallsFewer

LEMMA RaiseEnds ==
  ASSUME Inv, Calling, NEW why, Raise(why)
  PROVE  CallsLeft' < CallsLeft
<1>1. \/ \E r : Finish(r) \/ Fail(why)
  BY DEF Raise, FinishWith
<1>2. /\ UNCHANGED <<lines, work>> /\ stage' \in {"done", "failed"}
      /\ attempt' = 0 /\ corrected' = FALSE
  BY <1>1 DEF Finish, Fail, NewCall
<1>. QED BY <1>2, EndsCalls

LEMMA TooLargeFewer ==
  ASSUME Inv, TooLarge PROVE CallsLeft' < CallsLeft
<1>1. CASE stage = "merge" /\ Raise("size")
  BY <1>1, RaiseEnds DEF Calling
<1>2. CASE stage = "chunks"
  <2>1. work # <<>> /\ TypeOK /\ lines \in Seq(Nat) /\ Len(work) \in Nat
    BY <1>2, LinesType, WorkLeft DEF Inv
  <2>2. PICK t \in Text : t = Head(work)
    BY <2>1, WorkLeft
  <2>3. Size(t) \in Int /\ MinChunk \in Int
    BY <2>1, SizeType, SizesAssumption
  <2>4. CASE Size(t) <= MinChunk \/ Len(Halves(t)) < 2
    <3>1. Fail("size")
      BY <1>2, <2>2, <2>4 DEF TooLarge
    <3>2. /\ UNCHANGED <<lines, work>> /\ stage' \in {"done", "failed"}
          /\ attempt' = 0 /\ corrected' = FALSE
      BY <3>1 DEF Fail, NewCall
    <3>. QED BY <1>2, <3>2, EndsCalls DEF Calling
  <2>5. CASE ~(Size(t) <= MinChunk \/ Len(Halves(t)) < 2)
    <3>1. /\ work' = Halves(t) \o Tail(work)
          /\ attempt' = 0 /\ corrected' = FALSE
          /\ UNCHANGED <<lines, stage>>
      BY <1>2, <2>2, <2>5 DEF TooLarge, NewCall
    <3>2. Size(t) > MinChunk
      BY <2>3, <2>5
    <3>3. PICK c \in Int : Cut(Halves(t), t[1], t[2], c)
      BY <2>1, <3>2, HalvesCut
    <3>4. Halves(t) \in Seq(Text) /\ Consecutive(Halves(t), t[1], t[2])
      BY <2>1, <3>3, WithinText, SeqMonotonic DEF Cut
    <3>5. PICK h \in Seq(Text) : h = Halves(t)
      BY <3>4
    <3>6. Len(h) >= 2
      BY <2>5, <3>5, LenProperties
    <3>7. TextsLeft' < TextsLeft
      BY <1>2, <2>2, <3>1, <3>4, <3>5, <3>6, CutLeaves
    <3>8. TextsLeft' \in Int
      <4>1. Inv'
        BY KeepsOnTooLarge
      <4>2. TextsLeft' \in Nat
        BY <4>1, TextsLeftNext
      <4>. QED BY <4>2
    <3>9. attempt' \in 0..MaxRetries
      BY <3>1, SizesAssumption
    <3>10. corrected' \in BOOLEAN
      BY <3>1
    <3>. QED BY <3>7, <3>8, <3>9, <3>10, CallsFewer
  <2>. QED BY <2>4, <2>5
<1>. QED BY <1>1, <1>2 DEF TooLarge

LEMMA StepFewer ==
  ASSUME Inv, Next PROVE CallsLeft' < CallsLeft
<1>1. CASE NoAnswer \/ Busy
  <2>1. CASE attempt < MaxRetries
    BY <1>1, <2>1, OnceMore DEF NoAnswer, Busy, Again
  <2>2. CASE ~(attempt < MaxRetries)
    BY <1>1, <2>2, RaiseEnds DEF NoAnswer, Busy
  <2>. QED BY <2>1, <2>2
<1>2. CASE Refused
  BY <1>2, RaiseEnds DEF Refused
<1>3. CASE SchemaRefused
  <2>1. CASE attempt < MaxRetries
    BY <1>3, <2>1, OnceMore DEF SchemaRefused
  <2>2. CASE ~(attempt < MaxRetries)
    BY <1>3, <2>2, EndsCalls DEF SchemaRefused, Calling
  <2>. QED BY <2>1, <2>2
<1>4. CASE TooLarge
  BY <1>4, TooLargeFewer
<1>5. CASE NoMessage
  BY <1>5, EndsCalls DEF NoMessage, Fail, NewCall
<1>6. CASE Unusable
  <2>1. CASE stage = "merge" \/ corrected
    BY <1>6, <2>1, RaiseEnds DEF Unusable
  <2>2. CASE ~(stage = "merge" \/ corrected)
    <3>1. UNCHANGED <<lines, work, stage>> /\ corrected' = TRUE /\ attempt' = 0 /\ ~corrected
      BY <1>6, <2>2 DEF Unusable
    <3>2. TextsLeft \in Nat /\ TextsLeft' = TextsLeft
      BY <3>1, TextsLeftType, SameTextsLeft
    <3>3. attempt' \in 0..MaxRetries
      BY <3>1, SizesAssumption
    <3>. QED BY <3>1, <3>2, <3>3, CallsFewer
  <2>. QED BY <2>1, <2>2
<1>7. ASSUME NEW a \in Answers, Extracted(a) PROVE CallsLeft' < CallsLeft
  <2>1. TextsLeft' < TextsLeft
    BY <1>7, AnswerLeaves
  <2>2. Inv'
    BY <1>7, KeepsOnExtracted
  <2>3. TextsLeft' \in Nat
    BY <2>2, TextsLeftNext
  <2>4. attempt' = 0 /\ corrected' = FALSE
    BY <1>7 DEF Extracted, NewCall
  <2>5. attempt' \in 0..MaxRetries
    BY <2>4, SizesAssumption
  <2>6. corrected' \in BOOLEAN
    BY <2>4
  <2>7. TextsLeft' \in Int
    BY <2>3
  <2>. QED BY <2>1, <2>5, <2>6, <2>7, CallsFewer
<1>8. ASSUME NEW m \in Merges, Merged(m) PROVE CallsLeft' < CallsLeft
  <2>1. stage = "merge" /\ \E r : Finish(r)
    BY <1>8 DEF Merged, FinishWith
  <2>. QED BY <2>1, EndsCalls DEF Finish, NewCall, Calling
<1>. QED BY <1>1, <1>2, <1>3, <1>4, <1>5, <1>6, <1>7, <1>8 DEF Next

(* Whatever the service answers, every call leaves fewer calls to come, a    *)
(* natural number that the transcript and MAX_RETRIES set at the start: the  *)
(* retries, corrections and cuts of _chat, _extract_chunk and                *)
(* _extract_fitting cannot go on for ever.                                   *)
THEOREM CallsRunOut == Spec => [](CallsLeft \in Nat) /\ [][CallsLeft' < CallsLeft]_vars
<1>1. Inv => CallsLeft \in Nat
  <2>. SUFFICES ASSUME Inv PROVE CallsLeft \in Nat
    OBVIOUS
  <2>1. TextsLeft \in Nat /\ corrected \in BOOLEAN /\ attempt \in 0..MaxRetries
    BY TextsLeftType DEF Inv, TypeOK
  <2>. QED BY <2>1, FewerCalls DEF CallsLeft
<1>2. Inv /\ [Next]_vars => [CallsLeft' < CallsLeft]_vars
  BY StepFewer
<1>. QED BY <1>1, <1>2, Invariance, PTL DEF Spec

-----------------------------------------------------------------------------
(* The attempts of a transcription (WhisperEngine).                        *)

(* How much lighter a setting can get.                                       *)
Heavy(setting) == IF setting = "gpu" THEN 2 ELSE IF setting = "gpu8" THEN 1 ELSE 0
AttemptsLeft ==
    CASE call = "load" -> 2 * Heavy(Picked) + 2
      [] call = "run" -> 2 * Heavy(current) + 1
      [] OTHER -> 0

WhisperInv ==
    /\ choice \in Settings /\ current \in Settings
    /\ fallback \in {<<>>, <<"cpu">>, <<"gpu8", "cpu">>}
    /\ call \in {"none", "load", "run"}

LEMMA LadderIs ==
  ASSUME NEW s \in Settings
  PROVE  /\ Ladder(s) \in {<<>>, <<"cpu">>, <<"gpu8", "cpu">>}
         /\ Ladder(s) # <<>> => Heavy(Head(Ladder(s))) < Heavy(s)
<1>1. CASE s = "gpu"
  BY <1>1 DEF Ladder, Heavy
<1>2. CASE s = "gpu8"
  BY <1>2 DEF Ladder, Heavy
<1>3. CASE s = "cpu"
  BY <1>3 DEF Ladder, Heavy
<1>. QED BY <1>1, <1>2, <1>3 DEF Settings

LEMMA PickedIs ==
  ASSUME WhisperInv
  PROVE  /\ Picked \in Settings /\ Popped \in {<<>>, <<"cpu">>, <<"gpu8", "cpu">>}
         /\ Heavy(Picked) \in 0..2 /\ Heavy(current) \in 0..2
<1>1. CASE fallback = <<>>
  BY <1>1 DEF WhisperInv, Picked, Popped, Settings, Heavy
<1>2. CASE fallback = <<"cpu">>
  <2>1. fallback # <<>> /\ Head(fallback) = "cpu" /\ Tail(fallback) = <<>>
    BY <1>2
  <2>. QED BY <2>1 DEF WhisperInv, Picked, Popped, Settings, Heavy
<1>3. CASE fallback = <<"gpu8", "cpu">>
  <2>1. fallback # <<>> /\ Head(fallback) = "gpu8" /\ Tail(fallback) = <<"cpu">>
    BY <1>3
  <2>. QED BY <2>1 DEF WhisperInv, Picked, Popped, Settings, Heavy
<1>. QED BY <1>1, <1>2, <1>3 DEF WhisperInv

LEMMA AttemptsType == WhisperInv => AttemptsLeft \in 0..6
BY PickedIs DEF AttemptsLeft

(* An attempt out of memory goes on lighter, or not at all.                  *)
LEMMA DegradeFewer ==
  ASSUME WhisperInv, NEW s \in Settings, Degrade(s), choice' = choice, current' \in Settings,
         (call = "load" /\ s = Picked) \/ (call = "run" /\ s = current)
  PROVE  WhisperInv' /\ AttemptsLeft' < AttemptsLeft
<1>1. AttemptsLeft \in Int /\ AttemptsLeft >= 2 * Heavy(s) + 1 /\ Heavy(s) \in 0..2
  BY PickedIs DEF AttemptsLeft
<1>2. CASE Ladder(s) = <<>>
  <2>1. call' = "none" /\ fallback' \in {<<>>, <<"cpu">>, <<"gpu8", "cpu">>}
    BY <1>2, PickedIs DEF Degrade, WhisperInv
  <2>2. AttemptsLeft' = 0
    BY <2>1 DEF AttemptsLeft
  <2>3. WhisperInv'
    BY <2>1 DEF WhisperInv
  <2>. QED BY <1>1, <2>2, <2>3
<1>3. CASE Ladder(s) # <<>>
  <2>1. call' = "load" /\ fallback' = Ladder(s)
    BY <1>3 DEF Degrade
  <2>2. WhisperInv'
    BY <2>1, LadderIs DEF WhisperInv
  <2>3. Picked' = Head(Ladder(s))
    BY <1>3, <2>1 DEF Picked
  <2>4. AttemptsLeft' = 2 * Heavy(Head(Ladder(s))) + 2
    BY <2>1, <2>3 DEF AttemptsLeft, Heavy
  <2>5. Heavy(Head(Ladder(s))) < Heavy(s) /\ Heavy(Head(Ladder(s))) \in Int
    BY <1>3, LadderIs DEF Heavy
  <2>. QED BY <1>1, <2>2, <2>4, <2>5
<1>. QED BY <1>2, <1>3

LEMMA AttemptFewer ==
  ASSUME WhisperInv, Attempt
  PROVE  WhisperInv' /\ AttemptsLeft' < AttemptsLeft
<1>1. CASE Loaded
  <2>1. /\ call = "load" /\ call' = "run" /\ choice' = choice
        /\ current' = Picked /\ fallback' = Popped
    BY <1>1 DEF Loaded
  <2>2. WhisperInv'
    BY <2>1, PickedIs DEF WhisperInv
  <2>3. AttemptsLeft = 2 * Heavy(Picked) + 2
    BY <2>1 DEF AttemptsLeft
  <2>4. AttemptsLeft' = 2 * Heavy(Picked) + 1
    BY <2>1 DEF AttemptsLeft, Heavy
  <2>. QED BY <2>2, <2>3, <2>4, PickedIs
<1>2. CASE LoadOutOfMemory
  <2>1. call = "load" /\ current' = Picked /\ Degrade(Picked) /\ choice' = choice
    BY <1>2 DEF LoadOutOfMemory
  <2>2. PICK s \in Settings : s = Picked
    BY PickedIs
  <2>3. Degrade(s) /\ current' \in Settings
    BY <2>1, <2>2 DEF Degrade
  <2>4. call = "load" /\ s = Picked /\ choice' = choice
    BY <2>1, <2>2
  <2>. QED BY <2>3, <2>4, DegradeFewer
<1>3. CASE RunOutOfMemory
  <2>1. call = "run" /\ current' = current /\ Degrade(current) /\ choice' = choice
    BY <1>3 DEF RunOutOfMemory
  <2>2. current \in Settings
    BY DEF WhisperInv
  <2>. QED BY <2>1, <2>2, DegradeFewer
<1>4. CASE LoadFails \/ Returned
  <2>1. /\ call \in {"load", "run"} /\ call' = "none" /\ choice' = choice
        /\ current' \in Settings /\ fallback' \in {<<>>, <<"cpu">>, <<"gpu8", "cpu">>}
    BY <1>4, PickedIs DEF LoadFails, Returned, WhisperInv
  <2>2. WhisperInv' /\ AttemptsLeft' = 0
    BY <2>1 DEF WhisperInv, AttemptsLeft
  <2>3. AttemptsLeft > 0
    BY <2>1, PickedIs DEF AttemptsLeft
  <2>. QED BY <2>2, <2>3
<1>. QED BY <1>1, <1>2, <1>3, <1>4 DEF Attempt

LEMMA WhisperStep == WhisperInv /\ [WhisperNext]_whisperVars => WhisperInv'
<1>. SUFFICES ASSUME WhisperInv, [WhisperNext]_whisperVars PROVE WhisperInv'
  OBVIOUS
<1>1. CASE Attempt
  BY <1>1, AttemptFewer
<1>2. CASE Transcribe \/ Release \/ UNCHANGED whisperVars
  BY <1>2 DEF Transcribe, Release, whisperVars, WhisperInv
<1>. QED BY <1>1, <1>2 DEF WhisperNext

(* Whenever memory runs out, and whatever earlier recordings left in the     *)
(* list of settings, a transcription takes six loads and runs at most: each  *)
(* leaves fewer (transcribe calls itself, whisper.py:79-85).                 *)
THEOREM AttemptsRunOut ==
  WhisperSpec => /\ [](AttemptsLeft \in 0..6)
                 /\ [][call # "none" => AttemptsLeft' < AttemptsLeft]_whisperVars
<1>1. WhisperInit => WhisperInv
  BY SettingsAssumption DEF WhisperInit, WhisperInv, Settings
<1>2. WhisperInv => AttemptsLeft \in 0..6
  BY AttemptsType
<1>3. WhisperInv /\ [WhisperNext]_whisperVars
        => [call # "none" => AttemptsLeft' < AttemptsLeft]_whisperVars
  <2>. SUFFICES ASSUME WhisperInv, WhisperNext, call # "none"
                PROVE  AttemptsLeft' < AttemptsLeft
    OBVIOUS
  <2>1. Attempt
    BY DEF WhisperNext, Transcribe, Release
  <2>. QED BY <2>1, AttemptFewer
<1>. QED BY <1>1, <1>2, <1>3, WhisperStep, PTL DEF WhisperSpec

-----------------------------------------------------------------------------
(* The segments of Speakers: sets of indexes, and what their first and last  *)
(* members are.                                                              *)

(* The last index of the piece that starts at i.                             *)
LEMMA EndOfIs ==
  ASSUME NEW n \in Nat, NEW S \in SUBSET (1..n), NEW i \in 1..n
  PROVE  /\ EndOf(i, S, n) \in i..n
         /\ \A j \in S : j > i => EndOf(i, S, n) < j
         /\ EndOf(i, S, n) = n \/ EndOf(i, S, n) + 1 \in S
<1>. DEFINE later == {j \in S : j > i}
<1>1. CASE later = {}
  <2>1. EndOf(i, S, n) = n
    BY <1>1 DEF EndOf
  <2>. QED BY <1>1, <2>1
<1>2. CASE later # {}
  <2>1. later \in SUBSET (1..n)
    OBVIOUS
  <2>2. PICK m \in later : m = Min(later) /\ \A x \in later : m <= x
    <3>1. n \in Int
      OBVIOUS
    <3>. HIDE DEF later
    <3>. QED BY <1>2, <2>1, <3>1, MinOf
  <2>3. EndOf(i, S, n) = m - 1
    BY <1>2, <2>2 DEF EndOf
  <2>. QED BY <2>2, <2>3
<1>. QED BY <1>1, <1>2

(* Fewer pieces are longer ones.                                             *)
LEMMA EndOfLonger ==
  ASSUME NEW n \in Nat, NEW S \in SUBSET (1..n), NEW T \in SUBSET S, NEW i \in 1..n
  PROVE  EndOf(i, S, n) <= EndOf(i, T, n)
<1>1. EndOf(i, S, n) \in i..n /\ \A j \in S : j > i => EndOf(i, S, n) < j
  BY EndOfIs
<1>2. EndOf(i, T, n) \in i..n /\ (EndOf(i, T, n) = n \/ EndOf(i, T, n) + 1 \in T)
  <2>1. T \in SUBSET (1..n)
    OBVIOUS
  <2>. QED BY <2>1, EndOfIs
<1>. QED BY <1>1, <1>2

(* A segment: words one after the other.                                     *)
Segment ==
    /\ words \in Seq([from : Int, to : Int, glued : BOOLEAN]) /\ words # <<>>
    /\ \A i \in 2..Len(words) : /\ words[i - 1].from <= words[i].from
                                /\ words[i - 1].to <= words[i].to

LEMMA SegmentType ==
  ASSUME Segment
  PROVE  /\ Len(words) \in Nat /\ Len(words) > 0
         /\ \A i \in 1..Len(words) : words[i].from \in Int /\ words[i].to \in Int
<1>1. Len(words) \in Nat /\ Len(words) > 0
  BY EmptySeq, LenProperties DEF Segment
<1>2. ASSUME NEW i \in 1..Len(words) PROVE words[i].from \in Int /\ words[i].to \in Int
  <2>1. words[i] \in [from : Int, to : Int, glued : BOOLEAN]
    BY <1>1, ElementOfSeq DEF Segment
  <2>. QED BY <2>1
<1>. QED BY <1>1, <1>2

LEMMA WordsOrdered ==
  ASSUME Segment, NEW i \in 1..Len(words), NEW j \in 1..Len(words), i <= j
  PROVE  words[i].from <= words[j].from /\ words[i].to <= words[j].to
<1>. DEFINE Ordered(a, b) == words[a].from <= words[b].from /\ words[a].to <= words[b].to
            N == {k \in Nat : \A a, b \in 1..Len(words) : b = a + k => Ordered(a, b)}
<1>1. /\ Len(words) \in Nat
      /\ \A a \in 1..Len(words) : words[a].from \in Int /\ words[a].to \in Int
  BY SegmentType
<1>2. 0 \in N
  BY <1>1
<1>3. ASSUME NEW k \in N PROVE k + 1 \in N
  <2>. SUFFICES ASSUME NEW a \in 1..Len(words), NEW b \in 1..Len(words), b = a + (k + 1)
                PROVE  Ordered(a, b)
    OBVIOUS
  <2>1. b - 1 \in 1..Len(words) /\ b - 1 = a + k /\ b \in 2..Len(words)
    BY <1>1
  <2>2. Ordered(a, b - 1)
    BY <2>1
  <2>3. Ordered(b - 1, b)
    BY <2>1 DEF Segment
  <2>4. /\ words[a].from \in Int /\ words[b - 1].from \in Int /\ words[b].from \in Int
        /\ words[a].to \in Int /\ words[b - 1].to \in Int /\ words[b].to \in Int
    BY <1>1, <2>1
  <2>5. words[a].from <= words[b].from
    BY SMTT(40), <2>2, <2>3, <2>4
  <2>6. words[a].to <= words[b].to
    BY SMTT(40), <2>2, <2>3, <2>4
  <2>. QED BY <2>5, <2>6
<1>4. N = Nat
  <2>1. N \in SUBSET Nat
    OBVIOUS
  <2>. HIDE DEF N
  <2>. QED BY <1>2, <1>3, <2>1, Induction
<1>5. j - i \in N /\ j = i + (j - i)
  <2>1. j - i \in Nat /\ j = i + (j - i)
    BY <1>1
  <2>. HIDE DEF N
  <2>. QED BY <2>1, <1>4
<1>6. \A k \in N : j = i + k => Ordered(i, j)
  OBVIOUS
<1>7. Ordered(i, j)
  <2>. HIDE DEF N, Ordered
  <2>. QED BY <1>5, <1>6
<1>. QED BY <1>7

(* A run of words is as long as a part of it at least.                       *)
LEMMA SolidLonger ==
  ASSUME Segment,
         NEW i \in 1..Len(words), NEW j \in 1..Len(words), i <= j,
         NEW k \in 1..Len(words), NEW l \in 1..Len(words), k <= l,
         Solid(j, k)
  PROVE  Solid(i, l)
<1>1. /\ Len(words) \in Nat
      /\ \A a \in 1..Len(words) : words[a].from \in Int /\ words[a].to \in Int
  BY SegmentType
<1>2. words[i].from <= words[j].from
  BY WordsOrdered
<1>3. words[k].to <= words[l].to
  BY WordsOrdered
<1>4. /\ words[i].from \in Int /\ words[j].from \in Int
      /\ words[k].to \in Int /\ words[l].to \in Int
  BY <1>1
<1>5. MinRunWords \in Nat /\ MinRunTime \in Nat
  BY TimesAssumption
<1>6. k - j + 1 >= MinRunWords /\ words[k].to - words[j].from >= MinRunTime
  BY DEF Solid
<1>7. l - i + 1 >= MinRunWords
  BY <1>1, <1>5, <1>6
<1>8. words[l].to - words[i].from >= MinRunTime
  <2>1. PICK f \in Int, g \in Int : f = words[i].from /\ g = words[j].from
    BY <1>4
  <2>2. PICK u \in Int, v \in Int : u = words[k].to /\ v = words[l].to
    BY <1>4
  <2>3. f <= g /\ u <= v /\ u - g >= MinRunTime
    BY <1>2, <1>3, <1>6, <2>1, <2>2
  <2>4. v - f >= MinRunTime
    BY <1>5, <2>3
  <2>. QED BY <2>1, <2>2, <2>4
<1>. QED BY <1>7, <1>8 DEF Solid

-----------------------------------------------------------------------------
(* Where the pieces of a segment start.                                      *)

(* The first word starts one, and all the others are as long as a real turn. *)
Cuts(starts) ==
    /\ starts \in SUBSET (1..Len(words)) /\ 1 \in starts
    /\ \A i \in starts : i # 1 => Solid(i, EndOf(i, starts, Len(words)))

(* There is one piece, or all are as long as a real turn.                    *)
Turned(starts) ==
    /\ Cuts(starts)
    /\ starts # {1} => Solid(1, EndOf(1, starts, Len(words)))

LEMMA FewerCuts ==
  ASSUME Segment, NEW S, Cuts(S), NEW T \in SUBSET S, 1 \in T
  PROVE  Cuts(T)
<1>. DEFINE n == Len(words)
<1>1. n \in Nat /\ S \in SUBSET (1..n) /\ T \in SUBSET (1..n)
  BY SegmentType DEF Cuts
<1>2. ASSUME NEW i \in T, i # 1 PROVE Solid(i, EndOf(i, T, n))
  <2>1. i \in 1..n /\ Solid(i, EndOf(i, S, n))
    BY <1>1, <1>2 DEF Cuts
  <2>2. EndOf(i, S, n) \in i..n /\ EndOf(i, T, n) \in i..n
    BY <1>1, <2>1, EndOfIs
  <2>3. EndOf(i, S, n) <= EndOf(i, T, n)
    BY <1>1, <2>1, EndOfLonger
  <2>4. EndOf(i, S, n) \in 1..n /\ EndOf(i, T, n) \in 1..n /\ i <= i
    BY <1>1, <2>1, <2>2
  <2>. QED BY <2>1, <2>3, <2>4, SolidLonger
<1>. QED BY <1>1, <1>2 DEF Cuts

LEMMA FewerTurns ==
  ASSUME Segment, NEW S, Turned(S), NEW T \in SUBSET S, 1 \in T
  PROVE  Turned(T)
<1>. DEFINE n == Len(words)
<1>1. /\ n \in Nat /\ n > 0 /\ 1 \in 1..n
      /\ S \in SUBSET (1..n) /\ T \in SUBSET (1..n)
  BY SegmentType DEF Turned, Cuts
<1>2. Cuts(T)
  BY FewerCuts DEF Turned
<1>3. ASSUME T # {1} PROVE Solid(1, EndOf(1, T, n))
  <2>1. Solid(1, EndOf(1, S, n))
    BY <1>3 DEF Turned
  <2>2. EndOf(1, S, n) \in 1..n /\ EndOf(1, T, n) \in 1..n
    BY <1>1, EndOfIs
  <2>3. EndOf(1, S, n) <= EndOf(1, T, n)
    BY <1>1, EndOfLonger
  <2>4. 1 <= 1
    OBVIOUS
  <2>. QED BY <1>1, <2>1, <2>2, <2>3, <2>4, SolidLonger
<1>. QED BY <1>2, <1>3 DEF Turned

(* The loop that folds short runs into what is before them.                  *)
Runs(labels) == {i \in 1..Len(words) : i = 1 \/ labels[i] # labels[i - 1]}

Starts(i, before, labels) ==
    /\ i \in Runs(labels) /\ Solid(i, EndOf(i, Runs(labels), Len(words)))
    /\ labels[before] # labels[i]

IsFold(f, labels) ==
    f = [i \in 1..Len(words) |->
           IF i = 1 THEN 1 ELSE IF Starts(i, f[i - 1], labels) THEN i ELSE f[i - 1]]

LEMMA FoldLoop ==
  ASSUME NEW labels, NEW f, IsFold(f, labels)
  PROVE  \E g : /\ IsFold(g, labels)
                /\ MergedRuns(labels) = {i \in 1..Len(words) : g[i] = i}
BY DEF MergedRuns, IsFold, Starts, Runs

LEMMA FoldDefined ==
  ASSUME Segment, NEW labels
  PROVE  \E f : IsFold(f, labels)
<1>1. Len(words) \in Nat /\ Len(words) > 0
  BY SegmentType
<1>2. PICK n \in Nat : n = Len(words)
  BY <1>1
<1>. DEFINE V == 1..n
            next(i, v) == IF Starts(i, v, labels) THEN i ELSE v
            step == [i \in 1..n |-> [v \in V |-> next(i, v)]]
<1>3. 1 \in V /\ 1 \in Int /\ n \in Int
  BY <1>1, <1>2
<1>4. PICK st : st = step
  OBVIOUS
<1>5. \A i \in 1..n : \A v \in V : st[i][v] = next(i, v)
  BY <1>4
<1>6. \A i \in 1..n : \A v \in V : st[i][v] \in V
  BY <1>5
<1>7. PICK f \in [1..n -> V] : IsRun(f, 1, st, 1, n)
  <2>. HIDE DEF V, next, step
  <2>. QED BY <1>3, <1>6, Recursion
<1>8. ASSUME NEW i \in 1..n PROVE f[i] = IF i = 1 THEN 1 ELSE next(i, f[i - 1])
  <2>1. f[i] = IF i = 1 THEN 1 ELSE st[i][f[i - 1]]
    BY <1>7 DEF IsRun
  <2>2. i # 1 => f[i - 1] \in V
    OBVIOUS
  <2>. HIDE DEF V, next, step
  <2>. QED BY <2>1, <2>2, <1>5
<1>9. f = [i \in 1..n |-> IF i = 1 THEN 1 ELSE next(i, f[i - 1])]
  <2>. HIDE DEF next, step
  <2>. QED BY <1>8
<1>10. IsFold(f, labels)
  BY <1>2, <1>9 DEF IsFold
<1>. QED BY <1>10

LEMMA MergedRunsCut ==
  ASSUME Segment, NEW labels
  PROVE  Cuts(MergedRuns(labels))
<1>1. Len(words) \in Nat /\ Len(words) > 0
  BY SegmentType
<1>2. PICK n \in Nat : n = Len(words) /\ n > 0
  BY <1>1
<1>3. PICK g : IsFold(g, labels) /\ MergedRuns(labels) = {i \in 1..Len(words) : g[i] = i}
  BY FoldDefined, FoldLoop
<1>4. PICK S : S = MergedRuns(labels)
  OBVIOUS
<1>5. \A i \in 1..n :
         g[i] = IF i = 1 THEN 1 ELSE IF Starts(i, g[i - 1], labels) THEN i ELSE g[i - 1]
  BY <1>2, <1>3 DEF IsFold
<1>6. \A i \in 1..n : g[i] \in 1..i
  <2>. DEFINE N == {k \in Nat : \A i \in 1..n : i = 1 + k => g[i] \in 1..i}
  <2>1. 0 \in N
    BY <1>2, <1>5
  <2>2. ASSUME NEW k \in N PROVE k + 1 \in N
    <3>1. ASSUME NEW i \in 1..n, i = 1 + (k + 1) PROVE g[i] \in 1..i
      <4>1. i - 1 \in 1..n /\ i - 1 = 1 + k /\ i # 1
        BY <3>1
      <4>2. g[i - 1] \in 1..(i - 1)
        BY <4>1
      <4>3. g[i] = i \/ g[i] = g[i - 1]
        <5>. HIDE DEF N
        <5>. QED BY <1>5, <4>1
      <4>4. i \in 1..i /\ 1..(i - 1) \subseteq 1..i
        BY <3>1
      <4>. HIDE DEF N
      <4>. QED BY <4>2, <4>3, <4>4
    <3>. QED BY <3>1
  <2>3. N = Nat
    <3>1. N \in SUBSET Nat
      OBVIOUS
    <3>. HIDE DEF N
    <3>. QED BY <2>1, <2>2, <3>1, Induction
  <2>4. ASSUME NEW i \in 1..n PROVE g[i] \in 1..i
    <3>1. i - 1 \in Nat /\ i = 1 + (i - 1)
      OBVIOUS
    <3>2. i - 1 \in N
      <4>. HIDE DEF N
      <4>. QED BY <3>1, <2>3
    <3>3. \A k \in N : i = 1 + k => g[i] \in 1..i
      OBVIOUS
    <3>. HIDE DEF N
    <3>. QED BY <3>1, <3>2, <3>3
  <2>. QED BY <2>4
<1>7. S \in SUBSET (1..n) /\ \A i \in S : g[i] = i
  BY <1>2, <1>3, <1>4
<1>8. 1 \in S
  <2>1. 1 \in 1..n
    BY <1>2
  <2>2. g[1] = 1
    BY <1>5, <2>1
  <2>. QED BY <2>1, <2>2, <1>2, <1>3, <1>4
<1>9. ASSUME NEW i \in S, i # 1
      PROVE  i \in Runs(labels) /\ Solid(i, EndOf(i, Runs(labels), n))
  <2>1. i \in 1..n /\ i - 1 \in 1..n /\ g[i] = i
    BY <1>7, <1>9
  <2>2. g[i - 1] \in 1..(i - 1)
    BY <1>6, <2>1
  <2>3. g[i - 1] # i
    BY <2>1, <2>2
  <2>4. Starts(i, g[i - 1], labels)
    BY <1>5, <1>9, <2>1, <2>3
  <2>. QED BY <2>4, <1>2 DEF Starts
<1>10. Runs(labels) \in SUBSET (1..n) /\ S \in SUBSET Runs(labels)
  <2>1. Runs(labels) \in SUBSET (1..n) /\ 1 \in Runs(labels)
    BY <1>2 DEF Runs
  <2>. QED BY <2>1, <1>9
<1>11. ASSUME NEW i \in S, i # 1 PROVE Solid(i, EndOf(i, S, n))
  <2>1. Solid(i, EndOf(i, Runs(labels), n)) /\ i \in 1..n
    BY <1>7, <1>9, <1>11
  <2>2. EndOf(i, Runs(labels), n) \in i..n /\ EndOf(i, S, n) \in i..n
    BY <1>7, <1>10, <2>1, EndOfIs
  <2>3. EndOf(i, Runs(labels), n) <= EndOf(i, S, n)
    BY <1>10, <2>1, EndOfLonger
  <2>4. EndOf(i, Runs(labels), n) \in 1..n /\ EndOf(i, S, n) \in 1..n /\ i <= i
    BY <2>1, <2>2
  <2>. QED BY <1>2, <2>1, <2>3, <2>4, SolidLonger
<1>. QED BY <1>2, <1>4, <1>7, <1>8, <1>11 DEF Cuts

(* A first piece that is too short gets the real turn after it.              *)
LEMMA HeadMergedTurns ==
  ASSUME Segment, NEW S, Cuts(S)
  PROVE  Turned(HeadMerged(S))
<1>. DEFINE rest == S \ {1}
<1>1. PICK n \in Nat : n = Len(words) /\ n > 0
  BY SegmentType
<1>2. S \in SUBSET (1..n) /\ 1 \in S /\ 1 \in 1..n
      /\ \A i \in S : i # 1 => Solid(i, EndOf(i, S, n))
  BY <1>1 DEF Cuts
<1>3. CASE rest = {}
  <2>1. HeadMerged(S) = S /\ S = {1}
    BY <1>2, <1>3 DEF HeadMerged
  <2>. QED BY <2>1 DEF Turned
<1>4. CASE rest # {}
  <2>1. PICK m \in rest : m = Min(rest) /\ \A x \in rest : m <= x
    <3>1. rest \in SUBSET (1..n) /\ n \in Int
      BY <1>2
    <3>. HIDE DEF rest
    <3>. QED BY <1>4, <3>1, MinOf
  <2>2. m \in 1..n /\ m \in S /\ m # 1 /\ m > 1 /\ \A x \in S : x = 1 \/ m <= x
    BY <1>2, <2>1
  <2>3. CASE Solid(1, m - 1)
    <3>1. HeadMerged(S) = S
      BY <1>4, <2>1, <2>3 DEF HeadMerged
    <3>2. EndOf(1, S, n) = m - 1
      <4>1. EndOf(1, S, n) \in 1..n /\ (\A j \in S : j > 1 => EndOf(1, S, n) < j)
            /\ (EndOf(1, S, n) = n \/ EndOf(1, S, n) + 1 \in S)
        BY <1>2, EndOfIs
      <4>2. EndOf(1, S, n) < m
        BY <2>2, <4>1
      <4>3. EndOf(1, S, n) # n
        BY <2>2, <4>1, <4>2
      <4>4. EndOf(1, S, n) + 1 \in S /\ EndOf(1, S, n) + 1 # 1
        BY <4>1, <4>3
      <4>5. m <= EndOf(1, S, n) + 1
        BY <2>2, <4>4
      <4>. QED BY <2>2, <4>1, <4>2, <4>5
    <3>. QED BY <1>1, <2>3, <3>1, <3>2 DEF Turned
  <2>4. CASE ~Solid(1, m - 1)
    <3>1. PICK T \in SUBSET S : T = S \ {m}
      OBVIOUS
    <3>2. HeadMerged(S) = T
      BY <1>4, <2>1, <2>4, <3>1 DEF HeadMerged
    <3>3. 1 \in T /\ T \in SUBSET (1..n)
      BY <1>2, <2>2, <3>1
    <3>4. Cuts(T)
      BY <3>3, FewerCuts
    <3>5. EndOf(m, S, n) <= EndOf(1, T, n)
      <4>1. /\ EndOf(m, S, n) \in m..n /\ \A j \in S : j > m => EndOf(m, S, n) < j
        BY <1>2, <2>2, EndOfIs
      <4>2. EndOf(1, T, n) \in 1..n /\ (EndOf(1, T, n) = n \/ EndOf(1, T, n) + 1 \in T)
        BY <1>2, <3>3, EndOfIs
      <4>3. CASE EndOf(1, T, n) + 1 \in T
        <5>1. EndOf(1, T, n) + 1 > m
          BY <2>2, <3>1, <4>2, <4>3
        <5>. QED BY <3>1, <4>1, <4>2, <4>3, <5>1
      <4>. QED BY <4>1, <4>2, <4>3
    <3>6. Solid(1, EndOf(1, T, n))
      <4>1. Solid(m, EndOf(m, S, n))
        BY <1>2, <2>2
      <4>2. EndOf(m, S, n) \in m..n /\ EndOf(1, T, n) \in 1..n
        BY <1>2, <2>2, <3>3, EndOfIs
      <4>3. EndOf(m, S, n) \in 1..n /\ 1 <= m
        BY <2>2, <4>2
      <4>. QED BY <1>1, <1>2, <2>2, <3>5, <4>1, <4>2, <4>3, SolidLonger
    <3>. QED BY <1>1, <3>2, <3>4, <3>6 DEF Turned
  <2>. QED BY <2>3, <2>4
<1>. QED BY <1>3, <1>4

(* The last of the starts up to an index.                                    *)
LastStart(S, i) == Max({j \in S : j <= i})

LEMMA LastStartIs ==
  ASSUME NEW n \in Nat, NEW S \in SUBSET (1..n), 1 \in S, NEW i \in 1..n
  PROVE  /\ LastStart(S, i) \in S /\ LastStart(S, i) <= i
         /\ \A j \in S : j <= i => j <= LastStart(S, i)
<1>. DEFINE T == {j \in S : j <= i}
<1>1. T \in SUBSET (1..n) /\ T # {} /\ n \in Int
  <2>1. 1 \in T
    OBVIOUS
  <2>2. T # {}
    <3>. HIDE DEF T
    <3>. QED BY <2>1
  <2>3. T \in SUBSET (1..n)
    OBVIOUS
  <2>4. n \in Int
    OBVIOUS
  <2>. QED BY <2>2, <2>3, <2>4
<1>2. Max(T) \in T /\ \A x \in T : x <= Max(T)
  <2>. HIDE DEF T
  <2>. QED BY <1>1, MaxOf
<1>. QED BY <1>2 DEF LastStart

Joins(T, S, labels) ==
    /\ T \in SUBSET S /\ 1 \in T
    /\ \A i \in S : labels[i] = labels[LastStart(T, i)]

(* Where pieces are joined, they have one label: a start has the label of    *)
(* the start that is left of it.                                             *)
LEMMA JoinedLabels ==
  ASSUME NEW n \in Nat, NEW S \in SUBSET (1..n), 1 \in S, NEW labels,
         NEW T, T = JoinedPieces(S, labels)
  PROVE  Joins(T, S, labels)
<1>1. T \in SUBSET S /\ 1 \in T /\ T \in SUBSET (1..n)
  BY DEF JoinedPieces
<1>2. ASSUME NEW i \in S, i # 1
      PROVE  \E p \in S : /\ p < i /\ \A j \in S : j < i => j <= p
                          /\ i \in T <=> labels[p] # labels[i]
  <2>. DEFINE before == {j \in S : j < i}
  <2>1. before \in SUBSET (1..n) /\ before # {} /\ n \in Int
    <3>1. 1 \in before
      BY <1>2
    <3>2. before # {}
      <4>. HIDE DEF before
      <4>. QED BY <3>1
    <3>3. before \in SUBSET (1..n)
      OBVIOUS
    <3>4. n \in Int
      OBVIOUS
    <3>. QED BY <3>2, <3>3, <3>4
  <2>2. Max(before) \in before /\ \A x \in before : x <= Max(before)
    <3>. HIDE DEF before
    <3>. QED BY <2>1, MaxOf
  <2>3. i \in T <=> labels[Max(before)] # labels[i]
    BY <1>2 DEF JoinedPieces
  <2>. HIDE DEF before
  <2>4. Max(before) \in S /\ Max(before) < i /\ \A j \in S : j < i => j <= Max(before)
    BY <2>2 DEF before
  <2>. QED BY <2>3, <2>4
<1>3. \A i \in 1..n : /\ LastStart(T, i) \in T /\ LastStart(T, i) <= i
                      /\ \A j \in T : j <= i => j <= LastStart(T, i)
  BY <1>1, LastStartIs
<1>. DEFINE Bad == {i \in S : labels[i] # labels[LastStart(T, i)]}
<1>4. ASSUME Bad # {} PROVE FALSE
  <2>1. PICK i \in Bad : \A x \in Bad : i <= x
    <3>1. Bad \subseteq Nat
      <4>1. Bad \subseteq S
        OBVIOUS
      <4>2. S \subseteq Nat
        OBVIOUS
      <4>. HIDE DEF Bad
      <4>. QED BY <4>1, <4>2
    <3>. HIDE DEF Bad
    <3>. QED BY <1>4, <3>1, Least
  <2>2. i \in S /\ i \in 1..n /\ labels[i] # labels[LastStart(T, i)]
    OBVIOUS
  <2>3. i \notin T
    <3>1. i \in T => LastStart(T, i) = i
      BY <1>1, <1>3, <2>2
    <3>. QED BY <2>2, <3>1
  <2>4. PICK p \in S : p < i /\ (\A j \in S : j < i => j <= p) /\ labels[p] = labels[i]
    <3>1. i # 1
      BY <1>1, <2>3
    <3>. QED BY <1>2, <2>2, <2>3, <3>1
  <2>5. p \notin Bad
    <3>. HIDE DEF Bad
    <3>1. p \in 1..n
      OBVIOUS
    <3>. QED BY <2>1, <2>2, <2>4, <3>1
  <2>6. labels[p] = labels[LastStart(T, p)]
    BY <2>5
  <2>7. LastStart(T, p) = LastStart(T, i)
    <3>1. p \in 1..n
      OBVIOUS
    <3>2. /\ LastStart(T, p) \in T /\ LastStart(T, p) <= p
          /\ \A j \in T : j <= p => j <= LastStart(T, p)
      BY <1>3, <3>1
    <3>3. /\ LastStart(T, i) \in T /\ LastStart(T, i) <= i
          /\ \A j \in T : j <= i => j <= LastStart(T, i)
      BY <1>3, <2>2
    <3>4. LastStart(T, i) # i
      BY <2>3, <3>3
    <3>5. LastStart(T, i) <= p
      BY <1>1, <2>2, <2>4, <3>3, <3>4
    <3>6. LastStart(T, i) <= LastStart(T, p)
      BY <3>2, <3>3, <3>5
    <3>7. LastStart(T, p) <= LastStart(T, i)
      BY <1>1, <2>2, <2>4, <3>1, <3>2, <3>3
    <3>8. LastStart(T, i) \in 1..n /\ LastStart(T, p) \in 1..n
      BY <1>1, <3>2, <3>3
    <3>. QED BY <3>6, <3>7, <3>8
  <2>. QED BY <2>2, <2>4, <2>6, <2>7
<1>. QED BY <1>1, <1>4 DEF Joins

-----------------------------------------------------------------------------
(* The pieces of a segment.                                                  *)

WellCut(pieces) ==
    /\ \A i \in 1..Len(words) :
          \E p \in pieces : /\ i \in p.first..p.last
                            /\ \A q \in pieces : i \in q.first..q.last => q = p
    /\ \A p, q \in pieces : p # q =>
          /\ Solid(p.first, p.last)
          /\ q.first = p.last + 1 => q.who # p.who

Joined0(labels) == JoinedPieces(HeadMerged(MergedRuns(labels)), labels)

PiecesFrom(starts, labels) == {Piece(i, EndOf(i, starts, Len(words)), labels[i]) : i \in starts}

LEMMA LabelSegmentIs ==
  \/ \E who : LabelSegment = {Piece(1, Len(words), who)}
  \/ \E labels : LabelSegment = PiecesFrom(Joined0(labels), labels)
BY DEF LabelSegment, PiecesFrom, Joined0

LEMMA OnePiece ==
  ASSUME Segment, NEW who
  PROVE  WellCut({Piece(1, Len(words), who)})
<1>1. Piece(1, Len(words), who).first = 1 /\ Piece(1, Len(words), who).last = Len(words)
  BY DEF Piece
<1>2. PICK p : p = Piece(1, Len(words), who)
  OBVIOUS
<1>3. WellCut({p})
  BY <1>1, <1>2 DEF WellCut
<1>. QED BY <1>2, <1>3

LEMMA ManyPieces ==
  ASSUME Segment, NEW labels
  PROVE  WellCut(PiecesFrom(Joined0(labels), labels))
<1>1. PICK n \in Nat : n = Len(words) /\ n > 0
  BY SegmentType
<1>2. PICK S : S = HeadMerged(MergedRuns(labels))
  OBVIOUS
<1>3. Turned(S)
  BY <1>2, MergedRunsCut, HeadMergedTurns
<1>4. S \in SUBSET (1..n) /\ 1 \in S
  BY <1>1, <1>3 DEF Turned, Cuts
<1>5. PICK T : T = JoinedPieces(S, labels)
  OBVIOUS
<1>6. /\ T \in SUBSET S /\ 1 \in T
      /\ \A i \in S : labels[i] = labels[LastStart(T, i)]
  <2>1. Joins(JoinedPieces(S, labels), S, labels)
    BY <1>1, <1>4, JoinedLabels
  <2>. QED BY <1>5, <2>1 DEF Joins
<1>7. Turned(T) /\ T \in SUBSET (1..n)
  BY <1>3, <1>4, <1>6, FewerTurns
<1>8. PICK last \in [T -> 1..n] : \A i \in T : last[i] = EndOf(i, T, n)
  <2>1. \A i \in T : EndOf(i, T, n) \in 1..n
    BY <1>7, EndOfIs
  <2>2. [i \in T |-> EndOf(i, T, n)] \in [T -> 1..n]
    BY <2>1
  <2>. QED BY <2>2
<1>9. ASSUME NEW i \in T
      PROVE  /\ last[i] \in i..n /\ (\A j \in T : j > i => last[i] < j)
             /\ (last[i] = n \/ last[i] + 1 \in T)
  BY <1>7, <1>8, EndOfIs
<1>10. PICK pieces : pieces = PiecesFrom(T, labels)
  OBVIOUS
<1>11. \A p \in pieces : \E i \in T :
          p = Piece(i, last[i], labels[i]) /\ p.first = i /\ p.last = last[i] /\ p.who = labels[i]
  BY <1>1, <1>8, <1>10 DEF PiecesFrom, Piece
<1>12. \A i \in T : \E p \in pieces : p = Piece(i, last[i], labels[i])
                                      /\ p.first = i /\ p.last = last[i] /\ p.who = labels[i]
  <2>1. TAKE i \in T
  <2>2. Piece(i, last[i], labels[i]) \in pieces
    BY <1>1, <1>8, <1>10 DEF PiecesFrom
  <2>. QED BY <2>2 DEF Piece
<1>13. ASSUME NEW w \in 1..n
       PROVE  \E p \in pieces : /\ w \in p.first..p.last
                                /\ \A q \in pieces : w \in q.first..q.last => q = p
  <2>1. PICK i \in T : i <= w /\ \A j \in T : j <= w => j <= i
    <3>1. /\ LastStart(T, w) \in T /\ LastStart(T, w) <= w
          /\ \A j \in T : j <= w => j <= LastStart(T, w)
      BY <1>6, <1>7, LastStartIs
    <3>. QED BY <3>1
  <2>2. i \in 1..n /\ last[i] \in 1..n
    BY <1>7
  <2>3. w <= last[i]
    <3>1. CASE last[i] = n
      BY <3>1
    <3>2. CASE last[i] + 1 \in T
      <4>1. last[i] >= i
        BY <1>9, <2>2
      <4>. QED BY <2>1, <2>2, <3>2, <4>1
    <3>. QED BY <1>9, <3>1, <3>2
  <2>4. PICK p \in pieces : p = Piece(i, last[i], labels[i]) /\ p.first = i /\ p.last = last[i]
    BY <1>12
  <2>5. w \in p.first..p.last
    BY <2>1, <2>2, <2>3, <2>4
  <2>6. ASSUME NEW q \in pieces, w \in q.first..q.last PROVE q = p
    <3>1. PICK j \in T : q = Piece(j, last[j], labels[j]) /\ q.first = j /\ q.last = last[j]
      BY <1>11
    <3>2. j \in 1..n /\ last[j] \in 1..n /\ j <= w /\ w <= last[j]
      BY <1>7, <2>6, <3>1
    <3>3. j <= i
      BY <2>1, <3>2
    <3>4. ~(i > j)
      BY <1>9, <2>1, <2>2, <3>2
    <3>5. j = i
      BY <2>2, <3>2, <3>3, <3>4
    <3>. QED BY <2>4, <3>1, <3>5
  <2>. QED BY <2>5, <2>6
<1>14. ASSUME NEW p \in pieces, NEW q \in pieces, p # q
       PROVE  Solid(p.first, p.last) /\ (q.first = p.last + 1 => q.who # p.who)
  <2>1. PICK i \in T : p = Piece(i, last[i], labels[i]) /\ p.first = i /\ p.last = last[i]
                       /\ p.who = labels[i]
    BY <1>11
  <2>2. PICK j \in T : q = Piece(j, last[j], labels[j]) /\ q.first = j /\ q.last = last[j]
                       /\ q.who = labels[j]
    BY <1>11
  <2>3. i # j
    BY <1>14, <2>1, <2>2
  <2>4. Solid(i, last[i])
    <3>1. T # {1}
      BY <2>3
    <3>2. \A k \in T : Solid(k, EndOf(k, T, n))
      BY <1>1, <1>7, <3>1 DEF Turned, Cuts
    <3>. QED BY <1>8, <3>2
  <2>5. ASSUME j = last[i] + 1 PROVE labels[j] # labels[i]
    <3>1. i \in 1..n /\ j \in 1..n /\ last[i] \in i..n /\ i < j
      BY <1>7, <1>9, <2>5
    <3>. DEFINE before == {k \in S : k < j}
    <3>2. before \in SUBSET (1..n)
      BY <1>4
    <3>3. before # {}
      <4>1. i \in before
        BY <1>6, <3>1
      <4>. HIDE DEF before
      <4>. QED BY <4>1
    <3>4. Max(before) \in before /\ \A x \in before : x <= Max(before)
      <4>1. n \in Int
        OBVIOUS
      <4>. HIDE DEF before
      <4>. QED BY <3>2, <3>3, <4>1, MaxOf
    <3>5. PICK m \in S : m = Max(before) /\ m < j /\ \A x \in S : x < j => x <= m
      BY <3>4
    <3>6. labels[m] # labels[j]
      <4>1. j # 1
        BY <3>1
      <4>. QED BY <1>5, <3>5, <4>1 DEF JoinedPieces
    <3>7. labels[m] = labels[LastStart(T, m)]
      BY <1>6
    <3>8. LastStart(T, m) = i
      <4>1. m \in 1..n
        BY <1>4
      <4>2. PICK l \in T : l = LastStart(T, m) /\ l <= m /\ \A x \in T : x <= m => x <= l
        BY <1>6, <1>7, <4>1, LastStartIs
      <4>3. l \in 1..n
        BY <1>7
      <4>4. i <= l
        BY <1>6, <3>1, <3>5, <4>2
      <4>5. ~(l > i)
        BY <1>9, <2>5, <3>1, <3>5, <4>1, <4>2, <4>3
      <4>. QED BY <3>1, <4>2, <4>3, <4>4, <4>5
    <3>. QED BY <3>6, <3>7, <3>8
  <2>. QED BY <2>1, <2>2, <2>4, <2>5
<1>15. WellCut(pieces)
  BY <1>1, <1>13, <1>14 DEF WellCut
<1>16. Joined0(labels) = T
  BY <1>2, <1>5 DEF Joined0
<1>17. pieces = PiecesFrom(Joined0(labels), labels)
  BY <1>10, <1>16
<1>. QED BY <1>15, <1>17

LEMMA SegmentsCut == Segment => CutAtRealTurns
<1>1. Segment => WellCut(LabelSegment)
  BY LabelSegmentIs, OnePiece, ManyPieces
<1>2. WellCut(LabelSegment) => CutAtRealTurns
  BY DEF WellCut, CutAtRealTurns
<1>. QED BY <1>1, <1>2

\* The words of the segment are those the recogniser gave.
Recognised == words \in Utterances

(* A segment that is cut is cut at real turns, whatever words were recognised *)
(* and whatever turns were found (label_segments): every word is in exactly  *)
(* one piece, no piece of several is shorter than a real turn, and two that  *)
(* follow each other are of different people.                                *)
THEOREM CutTheorem == SpeakersSpec => []CutAtRealTurns
<1>1. SpeakersInit => Recognised
  BY DEF SpeakersInit, Recognised
<1>2. Recognised /\ [UNCHANGED <<words, turns, rows>>]_<<words, turns, rows>> => Recognised'
  BY DEF Recognised
<1>3. Recognised => CutAtRealTurns
  BY UtterancesAssumption, SegmentsCut DEF Recognised, Segment
<1>. QED BY <1>1, <1>2, <1>3, PTL DEF SpeakersSpec

-----------------------------------------------------------------------------
(* Deadlines: the calendar.                                                *)

LEMMA NumberOf ==
  ASSUME NEW k \in Int
  PROVE  Number(YearOf(k), MonthOf(k)) = k /\ MonthOf(k) \in 1..12
BY YearsAssumption DEF Number, YearOf, MonthOf

LEMMA MonthNumber ==
  ASSUME NEW y \in Int, NEW m \in 1..12
  PROVE  Number(y, m) \in Int /\ YearOf(Number(y, m)) = y /\ MonthOf(Number(y, m)) = m
BY YearsAssumption DEF Number, YearOf, MonthOf

LEMMA MonthDaysIs == \A y, m : MonthDays(y, m) \in 28..31
BY DEF MonthDays

(* The number of the month after the last.                                   *)
End == 12 * (LastYear - FirstYear) + 12

LEMMA EndIs == End \in Nat /\ End > 0 /\ Months = 0..(End - 1) /\ Number(LastYear + 1, 1) = End
BY YearsAssumption DEF End, Months, Number

IsCalendar(f) ==
    f = [k \in 0..End |-> IF k = 0 THEN 0 ELSE f[k - 1] + MonthDays(YearOf(k - 1), MonthOf(k - 1))]

LEMMA CalendarExists == \E f : IsCalendar(f)
<1>. DEFINE days(k) == MonthDays(YearOf(k - 1), MonthOf(k - 1))
            step == [k \in 0..End |-> [v \in Nat |-> v + days(k)]]
<1>1. End \in Nat
  BY EndIs
<1>2. PICK st : st = step
  OBVIOUS
<1>3. \A k \in 0..End : days(k) \in 28..31
  BY MonthDaysIs
<1>4. \A k \in 0..End : \A v \in Nat : st[k][v] = v + days(k) /\ st[k][v] \in Nat
  <2>. HIDE DEF days
  <2>. QED BY <1>2, <1>3
<1>5. PICK f \in [0..End -> Nat] : IsRun(f, 0, st, 0, End)
  <2>. HIDE DEF step, days
  <2>1. \E f \in [0..End -> Nat] : IsRun(f, 0, st, 0, End)
    <3>1. \A k \in 0..End : \A v \in Nat : st[k][v] \in Nat
      BY <1>4
    <3>2. End \in Int /\ 0 \in Int /\ 0 \in Nat
      BY <1>1
    <3>. QED BY <3>1, <3>2, Recursion
  <2>. QED BY <2>1
<1>6. ASSUME NEW k \in 0..End PROVE f[k] = IF k = 0 THEN 0 ELSE f[k - 1] + days(k)
  <2>1. k # 0 => k - 1 \in 0..End
    BY <1>1
  <2>2. f[k] = IF k = 0 THEN 0 ELSE st[k][f[k - 1]]
    BY <1>5 DEF IsRun
  <2>. HIDE DEF days, step
  <2>. QED BY <1>4, <2>1, <2>2
<1>7. f = [k \in 0..End |-> IF k = 0 THEN 0 ELSE f[k - 1] + days(k)]
  <2>. HIDE DEF days, step
  <2>. QED BY <1>6
<1>. QED BY <1>7 DEF IsCalendar

LEMMA BeginIs ==
  /\ Begin \in [0..End -> Nat] /\ Begin[0] = 0
  /\ \A k \in Months : Begin[k + 1] = Begin[k] + MonthDays(YearOf(k), MonthOf(k))
<1>1. IsCalendar(Begin)
  <2>1. PICK f : IsCalendar(f)
    BY CalendarExists
  <2>. QED BY <2>1 DEF Begin, IsCalendar, End
<1>2. \A k \in 0..End :
        Begin[k] = IF k = 0 THEN 0 ELSE Begin[k - 1] + MonthDays(YearOf(k - 1), MonthOf(k - 1))
  BY <1>1 DEF IsCalendar
<1>3. ASSUME NEW k \in Months
      PROVE  Begin[k + 1] = Begin[k] + MonthDays(YearOf(k), MonthOf(k))
  <2>1. k + 1 \in 0..End /\ k + 1 # 0 /\ (k + 1) - 1 = k
    BY EndIs
  <2>. QED BY <1>2, <2>1
<1>. DEFINE N == {k \in Nat : k <= End => Begin[k] \in Nat}
<1>4. N = Nat
  <2>1. 0 \in N
    BY <1>2, EndIs
  <2>2. ASSUME NEW k \in N PROVE k + 1 \in N
    <3>. SUFFICES ASSUME k + 1 <= End PROVE Begin[k + 1] \in Nat
      OBVIOUS
    <3>1. k \in Months /\ Begin[k] \in Nat
      BY EndIs
    <3>. QED BY <1>3, <3>1, MonthDaysIs
  <2>3. N \in SUBSET Nat
    OBVIOUS
  <2>. HIDE DEF N
  <2>. QED BY <2>1, <2>2, <2>3, Induction
<1>5. \A k \in 0..End : Begin[k] \in Nat
  BY <1>4
<1>6. Begin \in [0..End -> Nat]
  BY <1>1, <1>5 DEF IsCalendar
<1>7. Begin[0] = 0
  BY <1>2, EndIs
<1>. QED BY <1>3, <1>6, <1>7

(* Months have 28 to 31 days.                                                *)
LEMMA BeginGrows ==
  ASSUME NEW j \in 0..End, NEW k \in 0..End, j <= k
  PROVE  Begin[j] + 28 * (k - j) <= Begin[k] /\ Begin[k] <= Begin[j] + 31 * (k - j)
<1>. DEFINE Grows(a, b) == Begin[a] + 28 * (b - a) <= Begin[b] /\ Begin[b] <= Begin[a] + 31 * (b - a)
            N == {n \in Nat : \A a, b \in 0..End : b = a + n => Grows(a, b)}
<1>1. \A a \in 0..End : Begin[a] \in Nat
  BY BeginIs
<1>2. 0 \in N
  BY <1>1
<1>3. ASSUME NEW n \in N PROVE n + 1 \in N
  <2>. SUFFICES ASSUME NEW a \in 0..End, NEW b \in 0..End, b = a + (n + 1) PROVE Grows(a, b)
    OBVIOUS
  <2>1. b - 1 \in 0..End /\ b - 1 = a + n /\ b - 1 \in Months
    BY EndIs
  <2>2. Grows(a, b - 1)
    BY <2>1
  <2>3. Begin[b] = Begin[b - 1] + MonthDays(YearOf(b - 1), MonthOf(b - 1))
    <3>1. b = (b - 1) + 1
      OBVIOUS
    <3>. QED BY <2>1, <3>1, BeginIs
  <2>4. PICK d \in 28..31 : d = MonthDays(YearOf(b - 1), MonthOf(b - 1))
    BY MonthDaysIs
  <2>5. Begin[a] \in Nat /\ Begin[b - 1] \in Nat
    BY <1>1, <2>1
  <2>. QED BY <2>1, <2>2, <2>3, <2>4, <2>5
<1>4. N = Nat
  <2>1. N \in SUBSET Nat
    OBVIOUS
  <2>. HIDE DEF N
  <2>. QED BY <1>2, <1>3, <2>1, Induction
<1>5. k - j \in Nat /\ k = j + (k - j)
  BY EndIs
<1>6. k - j \in N
  <2>. HIDE DEF N
  <2>. QED BY <1>4, <1>5
<1>. QED BY <1>5, <1>6

LEMMA CalendarIs ==
  /\ Calendar = 0..(Begin[End] - 1) /\ Begin[End] \in Nat
  /\ \A day \in Calendar : day \in Nat
<1>1. End \in 0..End
  BY EndIs
<1>. QED BY <1>1, BeginIs, EndIs DEF Calendar

(* Every day is in one month.                                                *)
LEMMA DayHasMonth ==
  ASSUME NEW day \in Calendar
  PROVE  \E k \in Months : Begin[k] <= day /\ day < Begin[k + 1]
<1>. DEFINE S == {k \in 1..End : Begin[k] > day}
<1>0. day \in Nat /\ day < Begin[End] /\ End \in Nat /\ End > 0
  BY CalendarIs, EndIs
<1>1. S \in SUBSET (1..End) /\ S # {}
  <2>1. End \in S
    BY <1>0
  <2>. QED BY <2>1
<1>2. PICK j \in S : \A x \in S : j <= x
  <2>1. End \in Int
    BY <1>0
  <2>. HIDE DEF S
  <2>. QED BY <1>1, <2>1, MinOf
<1>3. j \in 1..End /\ Begin[j] > day /\ j - 1 \in Months /\ j - 1 \in 0..End
  BY <1>0, EndIs
<1>4. Begin[j - 1] \in Nat
  BY <1>3, BeginIs
<1>5. Begin[j - 1] <= day
  <2>1. CASE j = 1
    <3>1. j - 1 = 0
      BY <2>1
    <3>. QED BY <1>0, <3>1, BeginIs
  <2>2. CASE j # 1
    <3>1. j - 1 \in 1..End /\ ~(j <= j - 1)
      BY <1>3, <2>2
    <3>2. j - 1 \notin S
      <4>. HIDE DEF S
      <4>. QED BY <1>2, <3>1
    <3>3. ~(Begin[j - 1] > day)
      BY <3>1, <3>2
    <3>. QED BY <1>0, <1>4, <3>3
  <2>. QED BY <2>1, <2>2
<1>6. (j - 1) + 1 = j
  BY <1>3
<1>. QED BY <1>3, <1>5, <1>6

LEMMA MonthAtIs ==
  ASSUME NEW day \in Calendar
  PROVE  /\ MonthAt[day] \in Months
         /\ Begin[MonthAt[day]] <= day /\ day < Begin[MonthAt[day] + 1]
<1>1. \E k \in Months : day \in Begin[k]..(Begin[k + 1] - 1)
  <2>1. PICK k \in Months : Begin[k] <= day /\ day < Begin[k + 1]
    BY DayHasMonth
  <2>2. Begin[k] \in Nat /\ Begin[k + 1] \in Nat /\ day \in Nat
    BY BeginIs, EndIs, CalendarIs
  <2>. QED BY <2>1, <2>2
<1>2. MonthAt[day] \in Months /\ day \in Begin[MonthAt[day]]..(Begin[MonthAt[day] + 1] - 1)
  BY <1>1 DEF MonthAt
<1>3. Begin[MonthAt[day]] \in Nat /\ Begin[MonthAt[day] + 1] \in Nat /\ day \in Nat
  BY SMTT(30), <1>2, BeginIs, EndIs, CalendarIs
<1>. QED BY <1>2, <1>3

LEMMA MonthAtOnly ==
  ASSUME NEW day \in Calendar, NEW k \in Months, Begin[k] <= day, day < Begin[k + 1]
  PROVE  MonthAt[day] = k
<1>1. PICK j \in Months : j = MonthAt[day] /\ Begin[j] <= day /\ day < Begin[j + 1]
  BY MonthAtIs
<1>2. /\ j \in 0..End /\ j + 1 \in 0..End /\ k \in 0..End /\ k + 1 \in 0..End
      /\ j \in Int /\ k \in Int /\ day \in Int
  BY EndIs, CalendarIs
<1>3. Begin[j] \in Int /\ Begin[j + 1] \in Int /\ Begin[k] \in Int /\ Begin[k + 1] \in Int
  BY <1>2, BeginIs
<1>4. ~(j + 1 <= k)
  <2>. SUFFICES ASSUME j + 1 <= k PROVE FALSE
    OBVIOUS
  <2>1. Begin[j + 1] + 28 * (k - (j + 1)) <= Begin[k]
    BY <1>2, BeginGrows
  <2>. QED BY <1>1, <1>2, <1>3, <2>1
<1>5. ~(k + 1 <= j)
  <2>. SUFFICES ASSUME k + 1 <= j PROVE FALSE
    OBVIOUS
  <2>1. Begin[k + 1] + 28 * (j - (k + 1)) <= Begin[j]
    BY <1>2, BeginGrows
  <2>. QED BY <1>1, <1>2, <1>3, <2>1
<1>. QED BY <1>1, <1>2, <1>4, <1>5

(* A later day is in no earlier month.                                       *)
LEMMA MonthAtGrows ==
  ASSUME NEW a \in Calendar, NEW b \in Calendar, a <= b
  PROVE  MonthAt[a] <= MonthAt[b]
<1>1. PICK j \in Months : j = MonthAt[a] /\ Begin[j] <= a
  BY MonthAtIs
<1>2. PICK k \in Months : k = MonthAt[b] /\ b < Begin[k + 1]
  BY MonthAtIs
<1>3. /\ j \in 0..End /\ k + 1 \in 0..End /\ j \in Int /\ k \in Int /\ a \in Int /\ b \in Int
  BY EndIs, CalendarIs
<1>4. Begin[j] \in Int /\ Begin[k + 1] \in Int
  BY <1>3, BeginIs
<1>5. ~(k + 1 <= j)
  <2>. SUFFICES ASSUME k + 1 <= j PROVE FALSE
    OBVIOUS
  <2>1. Begin[k + 1] + 28 * (j - (k + 1)) <= Begin[j]
    BY <1>3, BeginGrows
  <2>. QED BY <1>1, <1>2, <1>3, <1>4, <2>1
<1>. QED BY <1>1, <1>2, <1>3, <1>5

LEMMA SameMonthIs ==
  ASSUME NEW a \in Calendar, NEW b \in Calendar
  PROVE  SameMonth(a, b) <=> MonthAt[a] = MonthAt[b]
<1>1. MonthAt[a] \in Int /\ MonthAt[b] \in Int
  BY MonthAtIs, EndIs
<1>. QED BY <1>1, NumberOf DEF SameMonth, Year, Month

(* The days of a month.                                                      *)
LEMMA DateIs ==
  ASSUME NEW k \in Months, NEW n \in 1..MonthDays(YearOf(k), MonthOf(k))
  PROVE  /\ Begin[k] + n - 1 \in Calendar /\ MonthAt[Begin[k] + n - 1] = k
         /\ Begin[k] + n - 1 < Begin[k + 1]
<1>1. PICK days \in 28..31 : days = MonthDays(YearOf(k), MonthOf(k))
  BY MonthDaysIs
<1>2. k \in 0..End /\ k + 1 \in 0..End /\ End \in 0..End /\ k + 1 <= End /\ k \in Int
  BY EndIs
<1>3. Begin[k] \in Nat /\ Begin[k + 1] \in Nat /\ Begin[k + 1] = Begin[k] + days
  BY <1>1, <1>2, BeginIs
<1>4. Begin[k + 1] <= Begin[End]
  <2>1. Begin[k + 1] + 28 * (End - (k + 1)) <= Begin[End]
    BY <1>2, BeginGrows
  <2>. QED BY SMTT(30), <1>2, <1>3, <2>1, CalendarIs
<1>5. PICK day \in Int : day = Begin[k] + n - 1 /\ n \in 1..days
  BY <1>1, <1>3
<1>6. day \in Calendar /\ Begin[k] <= day /\ day < Begin[k + 1]
  BY SMTT(30), <1>3, <1>4, <1>5, CalendarIs
<1>. QED BY <1>5, <1>6, MonthAtOnly

(* The day of the meeting is more than a year before the calendar ends.      *)
LEMMA TodayIs ==
  ASSUME today \in Days
  PROVE  /\ today \in Calendar /\ today \in Nat
         /\ (today..(today + 400)) \subseteq Calendar
         /\ Begin[End] > today + 400
         /\ MonthAt[today] \in Months /\ MonthAt[today] + 12 < End
<1>1. today \in Nat /\ today + 400 \in Calendar
  BY DaysAssumption
<1>2. Begin[End] > today + 400 /\ today \in Calendar /\ (today..(today + 400)) \subseteq Calendar
  BY <1>1, CalendarIs
<1>3. PICK k \in Months : k = MonthAt[today] /\ Begin[k] <= today
  BY <1>2, MonthAtIs
<1>4. k \in 0..End /\ End \in 0..End /\ k <= End /\ k \in Int /\ Begin[k] \in Int
  BY <1>3, BeginIs, EndIs
<1>5. Begin[End] <= Begin[k] + 31 * (End - k)
  BY <1>4, BeginGrows
<1>6. k + 12 < End
  <2>1. PICK e \in Int : e = Begin[End]
    BY CalendarIs
  <2>2. PICK b \in Int : b = Begin[k]
    BY <1>4
  <2>3. e <= b + 31 * (End - k) /\ e > today + 400 /\ b <= today
    BY <1>2, <1>3, <1>5, <2>1, <2>2
  <2>4. k \in Int /\ End \in Int /\ today \in Int
    BY <1>1, <1>4
  <2>. HIDE <2>1, <2>2
  <2>. QED BY <2>3, <2>4
<1>. QED BY <1>1, <1>2, <1>3, <1>6

-----------------------------------------------------------------------------
(* Deadlines: what the phrases mean.                                       *)

LEMMA MinIs ==
  ASSUME NEW S \in SUBSET Int, NEW x \in S, \A l \in S : x <= l
  PROVE  Min(S) = x
<1>1. Min(S) \in S /\ Min(S) <= x
  BY DEF Min
<1>2. x <= Min(S) /\ x \in Int /\ Min(S) \in Int
  BY <1>1
<1>. QED BY <1>1, <1>2

LEMMA WeekdayIs ==
  ASSUME NEW day \in Int
  PROVE  /\ Weekday(day) \in 0..6
         /\ \A d \in Int : Weekday(day + d) = (Weekday(day) + d) % 7
BY YearsAssumption DEF Weekday

(* Monday is as many days ago as the number of the weekday.                  *)
LEMMA MondayIs ==
  ASSUME NEW day \in Int
  PROVE  MondayOf(day) = day - Weekday(day)
<1>1. PICK n \in 0..6 : n = Weekday(day)
  BY WeekdayIs
<1>2. ASSUME NEW d \in (day - 6)..day PROVE Weekday(d) = 0 <=> d = day - n
  <2>1. PICK e \in 0..6 : d = day - e
    <3>1. day - d \in 0..6 /\ d = day - (day - d)
      OBVIOUS
    <3>. QED BY <3>1
  <2>2. Weekday(d) = (n - e) % 7
    <3>1. -e \in Int /\ d = day + (-e) /\ n + (-e) = n - e
      BY <2>1
    <3>. QED BY <1>1, <3>1, WeekdayIs
  <2>3. (n - e) % 7 = 0 <=> n = e
    OBVIOUS
  <2>. QED BY <2>1, <2>2, <2>3
<1>3. day - n \in (day - 6)..day
  OBVIOUS
<1>4. MondayOf(day) = day - n
  BY <1>2, <1>3 DEF MondayOf
<1>. QED BY <1>1, <1>4

(* The next such weekday is within a week, and no earlier day is one.        *)
LEMMA NextWeekdayIs ==
  ASSUME today \in Days, NEW w \in 0..6
  PROVE  /\ NextWeekday(today, w) \in Int /\ NextWeekday(today, w) >= today
         /\ NextWeekday(today, w) = Min({l \in Later : Weekday(l) = w})
<1>0. today \in Int
  BY TodayIs
<1>1. PICK n \in 0..6 : n = Weekday(today)
  BY <1>0, WeekdayIs
<1>2. PICK delta \in 1..7 : NextWeekday(today, w) = today + delta /\ (n + delta) % 7 = w
  <2>1. PICK e \in 0..6 : e = (w - n) % 7
    OBVIOUS
  <2>2. (n + e) % 7 = w /\ (n + 7) % 7 = n /\ (e = 0 => n = w)
    BY <2>1
  <2>3. NextWeekday(today, w) = today + (IF e = 0 THEN 7 ELSE e)
    BY <1>1, <2>1 DEF NextWeekday
  <2>. QED BY <2>2, <2>3
<1>3. ASSUME NEW l \in Later PROVE l \in Int /\ (Weekday(l) = w => today + delta <= l)
  <2>1. l \in Int /\ l - today \in Int /\ l - today >= 1 /\ l = today + (l - today)
    BY <1>0 DEF Later
  <2>2. Weekday(l) = (n + (l - today)) % 7
    BY <1>0, <1>1, <2>1, WeekdayIs
  <2>3. PICK e \in Int : e = l - today /\ e >= 1
    BY <2>1
  <2>4. (n + e) % 7 = w => delta <= e
    <3>. SUFFICES ASSUME (n + e) % 7 = w, e < delta PROVE FALSE
      BY <2>3
    <3>1. e \in 1..6 /\ (n + e) % 7 = (n + delta) % 7 /\ e < delta
      BY <1>2, <2>3
    <3>. QED BY ONLY <3>1, n \in 0..6, delta \in 1..7
  <2>. QED BY <1>0, <2>1, <2>2, <2>3, <2>4
<1>4. today + delta \in Later /\ Weekday(today + delta) = w
  <2>1. today + delta \in Later
    BY <1>0 DEF Later
  <2>2. Weekday(today + delta) = (n + delta) % 7
    BY <1>0, <1>1, WeekdayIs
  <2>. QED BY <1>2, <2>1, <2>2
<1>. DEFINE S == {l \in Later : Weekday(l) = w}
<1>5. S \in SUBSET Int /\ today + delta \in S /\ \A l \in S : today + delta <= l
  BY <1>3, <1>4
<1>6. Min(S) = today + delta
  <2>. HIDE DEF S
  <2>. QED BY <1>5, MinIs
<1>. QED BY <1>0, <1>2, <1>6

(* The days of the week that begins after today.                             *)
LEMMA NextWeekIs ==
  ASSUME today \in Days, NEW w \in 0..6
  PROVE  /\ NextMonday(today) + w \in Int /\ NextMonday(today) + w >= today
         /\ Weekday(NextMonday(today) + w) = w
         /\ MondayOf(NextMonday(today) + w) = MondayOf(today) + 7
<1>0. today \in Int
  BY TodayIs
<1>1. PICK n \in 0..6 : n = Weekday(today)
  BY <1>0, WeekdayIs
<1>2. PICK d \in Int : d = NextMonday(today) + w /\ d = today + (7 - n + w) /\ d >= today
  BY <1>0, <1>1 DEF NextMonday
<1>3. Weekday(d) = w
  <2>1. Weekday(d) = (n + (7 - n + w)) % 7
    BY <1>0, <1>1, <1>2, WeekdayIs
  <2>2. (n + (7 - n + w)) % 7 = w
    OBVIOUS
  <2>. QED BY <2>1, <2>2
<1>4. MondayOf(d) = MondayOf(today) + 7
  <2>1. MondayOf(d) = d - w /\ MondayOf(today) = today - n
    BY <1>0, <1>1, <1>2, <1>3, MondayIs
  <2>. QED BY <1>0, <1>2, <2>1
<1>. QED BY <1>2, <1>3, <1>4

ThisWeek == IF Weekday(today) <= 4 THEN today + 4 - Weekday(today) ELSE today

LEMMA ThisWeekIs ==
  ASSUME today \in Days
  PROVE  /\ ThisWeek >= today
         /\ MondayOf(ThisWeek) = MondayOf(today) /\ (Weekday(ThisWeek) = 4 \/ ThisWeek = today)
<1>0. today \in Int
  BY TodayIs
<1>1. PICK n \in 0..6 : n = Weekday(today)
  BY <1>0, WeekdayIs
<1>2. CASE n <= 4
  <2>1. PICK d \in Int : d = ThisWeek /\ d = today + (4 - n) /\ d >= today
    BY <1>0, <1>1, <1>2 DEF ThisWeek
  <2>2. Weekday(d) = (n + (4 - n)) % 7
    BY <1>0, <1>1, <2>1, WeekdayIs
  <2>3. (n + (4 - n)) % 7 = 4
    OBVIOUS
  <2>4. MondayOf(d) = d - 4 /\ MondayOf(today) = today - n
    BY <1>0, <1>1, <2>1, <2>2, <2>3, MondayIs
  <2>. QED BY <1>0, <2>1, <2>2, <2>3, <2>4
<1>3. CASE ~(n <= 4)
  BY <1>0, <1>1, <1>3 DEF ThisWeek
<1>. QED BY <1>2, <1>3

(* The last day of a month, and the first of the next.                       *)
LEMMA LastIs ==
  ASSUME NEW k \in Months, k + 1 \in Months, NEW y, NEW m, y = YearOf(k), m = MonthOf(k)
  PROVE  /\ LastOf(y, m) = Begin[k + 1] - 1 /\ LastOf(y, m) \in Int
         /\ LastOf(y, m) \in Calendar /\ MonthAt[LastOf(y, m)] = k
         /\ LastOf(y, m) + 1 \in Calendar /\ MonthAt[LastOf(y, m) + 1] = k + 1
<1>0. k \in Int /\ k \in 0..End /\ k + 1 \in 0..End
  BY EndIs
<1>1. PICK days \in 28..31 : days = MonthDays(YearOf(k), MonthOf(k))
  BY MonthDaysIs
<1>2. Begin[k] \in Int /\ Begin[k + 1] \in Int /\ Begin[k + 1] = Begin[k] + days
  BY <1>0, <1>1, BeginIs
<1>3. LastOf(y, m) = Begin[k] + days - 1
  <2>1. Number(y, m) = k
    BY <1>0, NumberOf
  <2>. QED BY <1>1, <2>1 DEF LastOf
<1>4. Begin[k] + days - 1 \in Calendar /\ MonthAt[Begin[k] + days - 1] = k
  <2>1. days \in 1..MonthDays(YearOf(k), MonthOf(k))
    BY <1>1
  <2>. QED BY <2>1, DateIs
<1>5. Begin[k + 1] + 1 - 1 \in Calendar /\ MonthAt[Begin[k + 1] + 1 - 1] = k + 1
  <2>1. 1 \in 1..MonthDays(YearOf(k + 1), MonthOf(k + 1))
    BY MonthDaysIs
  <2>. QED BY <2>1, DateIs
<1>6. Begin[k] + days - 1 = Begin[k + 1] - 1 /\ Begin[k] + days - 1 + 1 = Begin[k + 1] + 1 - 1
      /\ Begin[k] + days - 1 \in Int
  BY <1>2
<1>. QED BY <1>3, <1>4, <1>5, <1>6

LEMMA EndOfMonthIs ==
  ASSUME today \in Days, NEW d, d = LastOf(Year(today), Month(today))
  PROVE  d >= today /\ SameMonth(d, today) /\ ~SameMonth(d + 1, today)
<1>1. PICK k \in Months : k = MonthAt[today] /\ k + 12 < End
  BY TodayIs
<1>2. k + 1 \in Months /\ k \in Int
  BY <1>1, EndIs
<1>3. /\ d = Begin[k + 1] - 1 /\ d \in Calendar /\ MonthAt[d] = k
      /\ d + 1 \in Calendar /\ MonthAt[d + 1] = k + 1
  BY <1>1, <1>2, LastIs DEF Year, Month
<1>4. d >= today
  <2>1. today < Begin[k + 1] /\ today \in Int
    BY <1>1, TodayIs, MonthAtIs
  <2>2. k + 1 \in 0..End
    BY <1>2, EndIs
  <2>3. Begin[k + 1] \in Int
    BY <2>2, BeginIs
  <2>. QED BY <1>3, <2>1, <2>3
<1>5. SameMonth(d, today) /\ ~SameMonth(d + 1, today)
  <2>1. k + 1 # k
    BY <1>2
  <2>. QED BY <1>1, <1>3, <2>1, TodayIs, SameMonthIs
<1>. QED BY <1>4, <1>5

LEMMA NextMonthIs ==
  ASSUME today \in Days, NEW d,
         d = LastOf(IF Month(today) = 12 THEN Year(today) + 1 ELSE Year(today), (Month(today) % 12) + 1)
  PROVE  /\ d >= today
         /\ ~SameMonth(d, today) /\ ~SameMonth(d, d + 1)
         /\ \A b \in today..d : SameMonth(b, today) \/ SameMonth(b, d)
<1>1. PICK k \in Months : k = MonthAt[today] /\ k + 12 < End
  BY TodayIs
<1>2. k + 1 \in Months /\ k + 2 \in Months /\ k \in Int /\ (k + 1) + 1 = k + 2
  BY <1>1, EndIs
<1>3. /\ (IF Month(today) = 12 THEN Year(today) + 1 ELSE Year(today)) = YearOf(k + 1)
      /\ (Month(today) % 12) + 1 = MonthOf(k + 1)
  <2>1. Month(today) = (k % 12) + 1 /\ Year(today) = FirstYear + k \div 12
    BY <1>1 DEF Year, Month, YearOf, MonthOf
  <2>2. CASE k % 12 = 11
    <3>1. (k + 1) \div 12 = k \div 12 + 1 /\ (k + 1) % 12 = 0 /\ k \div 12 \in Int
      BY <1>2, <2>2
    <3>. QED BY <2>1, <2>2, <3>1, YearsAssumption DEF YearOf, MonthOf
  <2>3. CASE k % 12 # 11
    <3>1. (k + 1) \div 12 = k \div 12 /\ (k + 1) % 12 = (k % 12) + 1 /\ k % 12 \in 0..10
      BY <1>2, <2>3
    <3>2. ((k % 12) + 1) % 12 = (k % 12) + 1
      BY <3>1
    <3>. QED BY <2>1, <3>1, <3>2 DEF YearOf, MonthOf
  <2>. QED BY <2>2, <2>3
<1>4. /\ d = Begin[k + 2] - 1 /\ d \in Int /\ d \in Calendar /\ MonthAt[d] = k + 1
      /\ d + 1 \in Calendar /\ MonthAt[d + 1] = k + 2
  BY <1>2, <1>3, LastIs
<1>5. d >= today
  <2>1. today < Begin[k + 1] /\ today \in Int
    BY <1>1, TodayIs, MonthAtIs
  <2>2. k + 1 \in 0..End /\ k + 2 \in 0..End /\ k + 1 <= k + 2
    BY <1>2, EndIs
  <2>3. Begin[k + 1] \in Int /\ Begin[k + 2] \in Int
    BY <2>2, BeginIs
  <2>4. Begin[k + 1] + 28 * ((k + 2) - (k + 1)) <= Begin[k + 2]
    BY <2>2, BeginGrows
  <2>. QED BY <1>2, <1>4, <2>1, <2>3, <2>4
<1>6. ~SameMonth(d, today) /\ ~SameMonth(d, d + 1)
  <2>1. k + 1 # k /\ k + 1 # k + 2
    BY <1>2
  <2>. QED BY <1>1, <1>4, <2>1, TodayIs, SameMonthIs
<1>7. ASSUME NEW b \in today..d PROVE SameMonth(b, today) \/ SameMonth(b, d)
  <2>1. b \in Calendar /\ today <= b /\ b <= d
    BY <1>4, TodayIs, CalendarIs
  <2>2. PICK j \in Months : j = MonthAt[b] /\ k <= j /\ j <= k + 1
    BY <1>1, <1>4, <2>1, TodayIs, MonthAtIs, MonthAtGrows
  <2>3. j = k \/ j = k + 1
    BY <1>2, <2>2, EndIs
  <2>. QED BY <1>1, <1>4, <2>1, <2>2, <2>3, TodayIs, SameMonthIs
<1>. QED BY <1>5, <1>6, <1>7

(* The n-th of the month q, when it is not over and no earlier month from    *)
(* today's on has the same name and an n-th that is to come.                 *)
LEMMA FirstSuchDay ==
  ASSUME today \in Days, NEW q \in Months, NEW n \in 1..MonthDays(YearOf(q), MonthOf(q)),
         NEW d \in Int, d = Begin[q] + n - 1, today <= d, d <= today + 400,
         \A j \in Months : MonthAt[today] <= j /\ MonthOf(j) = MonthOf(q)
                           => q <= j \/ Begin[j] + n - 1 < today
  PROVE  d = Min({l \in Later \cup {today} : Month(l) = MonthOf(q) /\ DayOfMonth(l) = n})
<1>. DEFINE S == {l \in Later \cup {today} : Month(l) = MonthOf(q) /\ DayOfMonth(l) = n}
<1>0. today \in Int /\ n \in Int /\ q \in 0..End
  <2>1. n \in Int
    BY MonthDaysIs
  <2>. QED BY <2>1, TodayIs, EndIs
<1>1. Begin[q] \in Int
  BY <1>0, BeginIs
<1>2. d \in S
  <2>1. MonthAt[d] = q
    BY DateIs
  <2>2. Month(d) = MonthOf(q) /\ DayOfMonth(d) = n
    BY <1>0, <1>1, <2>1 DEF Month, DayOfMonth
  <2>3. d \in Later \cup {today}
    BY <1>0 DEF Later
  <2>. QED BY <2>2, <2>3
<1>3. ASSUME NEW l \in S PROVE l \in Int /\ d <= l
  <2>1. l \in Int /\ today <= l /\ l \in Calendar
    <3>1. l \in Int /\ today <= l /\ l \in today..(today + 400)
      BY <1>0 DEF Later
    <3>. QED BY <3>1, TodayIs
  <2>2. PICK j \in Months : j = MonthAt[l] /\ MonthAt[today] <= j
    BY <2>1, TodayIs, MonthAtIs, MonthAtGrows
  <2>3. j \in 0..End
    BY <2>2, EndIs
  <2>4. Begin[j] \in Int
    BY <2>3, BeginIs
  <2>5. l = Begin[j] + n - 1 /\ MonthOf(j) = MonthOf(q)
    <3>1. l - Begin[j] + 1 = n /\ MonthOf(j) = MonthOf(q)
      BY <2>2 DEF Month, DayOfMonth
    <3>. QED BY <1>0, <2>1, <2>4, <3>1
  <2>6. q <= j
    <3>1. ~(Begin[j] + n - 1 < today)
      BY <1>0, <2>1, <2>5
    <3>. QED BY <2>2, <2>5, <3>1
  <2>7. Begin[q] + 28 * (j - q) <= Begin[j]
    BY <1>0, <2>3, <2>6, BeginGrows
  <2>. QED BY <1>0, <1>1, <2>1, <2>3, <2>4, <2>5, <2>6, <2>7
<1>4. S \in SUBSET Int
  BY <1>3
<1>5. Min(S) = d
  <2>1. \A l \in S : d <= l
    BY <1>3
  <2>. HIDE DEF S
  <2>. QED BY <1>2, <1>4, <2>1, MinIs
<1>. QED BY <1>5

(* SafeDate is the day of its month, or no date.                             *)
LEMMA SafeDateIs ==
  ASSUME NEW q \in Months, NEW y, NEW m, NEW n \in Nat, y = YearOf(q), m = MonthOf(q),
         SafeDate(y, m, n) # Unresolved
  PROVE  /\ n \in 1..MonthDays(YearOf(q), MonthOf(q)) /\ SafeDate(y, m, n) = Begin[q] + n - 1
         /\ SafeDate(y, m, n) \in Int /\ SafeDate(y, m, n) \in Calendar /\ MonthAt[SafeDate(y, m, n)] = q
         /\ SafeDate(y, m, n) < Begin[q + 1]
<1>1. Number(y, m) = q /\ q \in 0..End
  BY NumberOf, EndIs
<1>2. n \in 1..MonthDays(y, m) /\ SafeDate(y, m, n) = Begin[q] + n - 1
  BY <1>1 DEF SafeDate
<1>3. Begin[q] \in Int
  BY <1>1, BeginIs
<1>. QED BY <1>2, <1>3, DateIs

MonthDay(m, n) ==
    LET thisYear == SafeDate(Year(today), m, n)
    IN  IF thisYear # Unresolved /\ thisYear < today THEN SafeDate(Year(today) + 1, m, n) ELSE thisYear

LEMMA MonthDayIs ==
  ASSUME today \in Days, NEW m \in 1..12, NEW n \in Nat, MonthDay(m, n) # Unresolved
  PROVE  /\ MonthDay(m, n) >= today
         /\ MonthDay(m, n) = Min({l \in Later \cup {today} : Month(l) = m /\ DayOfMonth(l) = n})
<1>1. PICK k \in Months : k = MonthAt[today] /\ k + 12 < End
                          /\ Begin[k] <= today /\ today < Begin[k + 1]
  BY TodayIs, MonthAtIs
<1>2. k \in Int /\ k \in 0..End /\ k + 1 \in 0..End /\ today \in Int /\ End \in Int
  BY <1>1, EndIs, TodayIs
<1>3. Begin[k] \in Int /\ Begin[k + 1] \in Int
  BY <1>2, BeginIs
\* The month with that name of this year, and of the next one.
<1>4. PICK q \in Months : /\ YearOf(q) = Year(today) /\ MonthOf(q) = m /\ q <= k + 11 /\ k <= q + 11
                          /\ \A j \in Int : MonthOf(j) = m => j % 12 = q % 12
  <2>1. PICK q \in Int : q = 12 * (k \div 12) + (m - 1)
    BY <1>2
  <2>2. q \div 12 = k \div 12 /\ q % 12 = m - 1 /\ q <= k + 11 /\ k <= q + 11
    BY <1>2, <2>1
  <2>3. q \in Months
    <3>1. PICK s \in Int : s = LastYear - FirstYear
      BY YearsAssumption
    <3>2. k \in 0..(12 * s + 11)
      BY <3>1 DEF Months
    <3>3. q \in 0..(12 * s + 11)
      BY <2>1, <3>2
    <3>. QED BY <3>1, <3>3 DEF Months
  <2>4. YearOf(q) = Year(today) /\ MonthOf(q) = m
    BY <1>1, <2>2 DEF Year, YearOf, MonthOf
  <2>5. \A j \in Int : MonthOf(j) = m => j % 12 = q % 12
    BY <2>2 DEF MonthOf
  <2>. QED BY <2>2, <2>3, <2>4, <2>5
<1>5. q \in Int /\ q \in 0..End
  BY EndIs
<1>6. Begin[q] \in Int
  BY <1>5, BeginIs
<1>7. PICK this : this = SafeDate(Year(today), m, n)
  OBVIOUS
<1>8. this # Unresolved
      => /\ n \in 1..MonthDays(YearOf(q), MonthOf(q)) /\ this = Begin[q] + n - 1
         /\ this \in Int /\ this \in Calendar /\ MonthAt[this] = q /\ this < Begin[q + 1]
  BY <1>4, <1>7, SafeDateIs
<1>9. CASE ~(this # Unresolved /\ this < today)
  <2>1. this = MonthDay(m, n) /\ this # Unresolved
    BY <1>7, <1>9 DEF MonthDay
  <2>2. this \in Int /\ this \in Calendar /\ today <= this
    BY <1>2, <1>8, <1>9, <2>1
  <2>3. k <= q
    BY <1>1, <1>8, <2>1, <2>2, TodayIs, MonthAtGrows
  <2>4. this <= today + 400
    <3>1. q + 1 \in 0..End /\ k <= q + 1
      BY <1>2, <1>5, <2>3, EndIs
    <3>2. Begin[q + 1] \in Int /\ Begin[q + 1] <= Begin[k] + 31 * ((q + 1) - k)
      BY <1>2, <3>1, BeginIs, BeginGrows
    <3>3. this < Begin[q + 1]
      BY <1>8, <2>1
    <3>. QED BY <1>1, <1>2, <1>3, <1>4, <1>5, <2>2, <3>2, <3>3
  <2>5. ASSUME NEW j \in Months, MonthAt[today] <= j, MonthOf(j) = MonthOf(q) PROVE q <= j
    <3>1. j \in Int /\ k <= j /\ j % 12 = q % 12
      BY <1>1, <1>4, <2>5, EndIs
    <3>. QED BY <1>2, <1>4, <1>5, <3>1
  <2>6. this = Min({l \in Later \cup {today} : Month(l) = MonthOf(q) /\ DayOfMonth(l) = n})
    BY <1>8, <2>1, <2>2, <2>4, <2>5, FirstSuchDay
  <2>. QED BY <1>4, <2>1, <2>2, <2>6
<1>10. CASE this # Unresolved /\ this < today
  <2>1. PICK d : d = SafeDate(Year(today) + 1, m, n) /\ d = MonthDay(m, n) /\ d # Unresolved
    BY <1>7, <1>10 DEF MonthDay
  <2>2. q <= k
    BY <1>1, <1>2, <1>8, <1>10, TodayIs, MonthAtGrows
  <2>3. q + 12 \in Months /\ q + 12 \in 0..End
    BY <1>1, <1>2, <1>5, <2>2, EndIs
  <2>4. YearOf(q + 12) = Year(today) + 1 /\ MonthOf(q + 12) = m
    <3>1. (q + 12) \div 12 = q \div 12 + 1 /\ (q + 12) % 12 = q % 12 /\ q \div 12 \in Int
      BY <1>5
    <3>. QED BY <1>4, <3>1, YearsAssumption DEF YearOf, MonthOf
  <2>5. /\ n \in 1..MonthDays(YearOf(q + 12), MonthOf(q + 12)) /\ d = Begin[q + 12] + n - 1
        /\ d \in Int
    BY <2>1, <2>3, <2>4, SafeDateIs
  <2>6. Begin[q + 12] \in Int /\ Begin[q + 12] <= Begin[q] + 31 * ((q + 12) - q)
    <3>1. q <= q + 12
      BY <1>5
    <3>2. Begin[q + 12] \in Int
      BY <2>3, BeginIs
    <3>3. Begin[q + 12] <= Begin[q] + 31 * ((q + 12) - q)
      BY <1>5, <2>3, <3>1, BeginGrows
    <3>. QED BY <3>2, <3>3
  <2>7. Begin[k + 1] <= Begin[q + 12]
    <3>1. k + 1 <= q + 12
      BY <1>2, <1>4, <1>5
    <3>2. Begin[k + 1] + 28 * ((q + 12) - (k + 1)) <= Begin[q + 12]
      BY <1>2, <2>3, <3>1, BeginGrows
    <3>. QED BY <1>2, <1>3, <1>5, <2>6, <3>1, <3>2
  <2>8. today <= d /\ d <= today + 400
    BY <1>1, <1>2, <1>3, <1>5, <1>6, <1>8, <1>10, <2>5, <2>6, <2>7
  <2>9. ASSUME NEW j \in Months, MonthAt[today] <= j, MonthOf(j) = MonthOf(q + 12)
        PROVE  q + 12 <= j \/ Begin[j] + n - 1 < today
    <3>1. j \in Int /\ q <= j /\ j % 12 = q % 12
      <4>1. j \in Int /\ k <= j /\ MonthOf(j) = m
        BY <1>1, <2>4, <2>9, EndIs
      <4>2. j % 12 = q % 12
        BY <1>4, <4>1
      <4>. QED BY <1>2, <1>5, <2>2, <4>1, <4>2
    <3>2. j = q \/ q + 12 <= j
      BY <1>5, <3>1
    <3>3. Begin[q] + n - 1 < today
      BY <1>8, <1>10
    <3>. QED BY <3>2, <3>3
  <2>10. d = Min({l \in Later \cup {today} : Month(l) = MonthOf(q + 12) /\ DayOfMonth(l) = n})
    BY <2>3, <2>5, <2>8, <2>9, FirstSuchDay
  <2>. QED BY <2>1, <2>4, <2>8, <2>10
<1>. QED BY <1>9, <1>10

\* The meeting is on a day of the calendar, and the phrase is one that is understood.
Asked == phrase \in Phrases /\ today \in Days

LEMMA AskedMeans == Asked => DeadlineIsTheDay
<1>. SUFFICES ASSUME phrase \in Phrases, today \in Days PROVE DeadlineIsTheDay
  BY DEF Asked
<1>. DEFINE D == Resolve(phrase, today)
<1>0. today \in Int
  BY TodayIs
<1>1. CASE phrase.kind = "iso"
  BY <1>1 DEF DeadlineIsTheDay
<1>2. CASE phrase.kind = "today" \/ phrase.kind \in {"in days", "in weeks"}
  <2>1. D >= today
    <3>1. CASE phrase.kind = "today"
      BY <1>0, <3>1 DEF Resolve
    <3>2. CASE phrase.kind \in {"in days", "in weeks"}
      <4>1. phrase.number \in Nat
        BY <3>2, PhrasesAssumption
      <4>2. D = today + phrase.number \/ D = today + 7 * phrase.number
        BY <3>2 DEF Resolve
      <4>. QED BY <1>0, <4>1, <4>2
    <3>. QED BY <1>2, <3>1, <3>2
  <2>. QED BY <1>2, <2>1 DEF DeadlineIsTheDay
<1>3. CASE phrase.kind = "weekday"
  <2>1. phrase.weekday \in 0..6 /\ D = NextWeekday(today, phrase.weekday)
    BY <1>3, PhrasesAssumption DEF Resolve
  <2>2. D >= today /\ D = Min({l \in Later : Weekday(l) = phrase.weekday})
    BY <2>1, NextWeekdayIs
  <2>. HIDE DEF D
  <2>. QED BY <1>3, <2>2 DEF DeadlineIsTheDay, D
<1>4. CASE phrase.kind = "weekday next week"
  <2>1. phrase.weekday \in 0..6 /\ D = NextMonday(today) + phrase.weekday
    BY <1>4, PhrasesAssumption DEF Resolve
  <2>2. D >= today /\ Weekday(D) = phrase.weekday /\ MondayOf(D) = MondayOf(today) + 7
    BY <2>1, NextWeekIs
  <2>. QED BY <1>4, <2>2 DEF DeadlineIsTheDay
<1>5. CASE phrase.kind = "next week"
  <2>1. D = NextMonday(today) + 4
    BY <1>5 DEF Resolve
  <2>2. D >= today /\ Weekday(D) = 4 /\ MondayOf(D) = MondayOf(today) + 7
    BY <2>1, NextWeekIs
  <2>. QED BY <1>5, <2>2 DEF DeadlineIsTheDay
<1>6. CASE phrase.kind = "this week"
  <2>1. D = ThisWeek
    BY <1>6 DEF Resolve, ThisWeek
  <2>2. D >= today /\ MondayOf(D) = MondayOf(today) /\ (Weekday(D) = 4 \/ D = today)
    BY <2>1, ThisWeekIs
  <2>. QED BY <1>6, <2>2 DEF DeadlineIsTheDay
<1>7. CASE phrase.kind = "end of month"
  <2>1. D = LastOf(Year(today), Month(today))
    BY <1>7 DEF Resolve
  <2>2. D >= today /\ SameMonth(D, today) /\ ~SameMonth(D + 1, today)
    BY <2>1, EndOfMonthIs
  <2>. QED BY <1>7, <2>2 DEF DeadlineIsTheDay
<1>8. CASE phrase.kind = "next month"
  <2>1. D = LastOf(IF Month(today) = 12 THEN Year(today) + 1 ELSE Year(today), (Month(today) % 12) + 1)
    BY <1>8 DEF Resolve
  <2>2. /\ D >= today /\ ~SameMonth(D, today) /\ ~SameMonth(D, D + 1)
        /\ \A b \in today..D : SameMonth(b, today) \/ SameMonth(b, D)
    BY <2>1, NextMonthIs
  <2>. QED BY <1>8, <2>2 DEF DeadlineIsTheDay
<1>9. CASE phrase.kind = "month day"
  <2>1. phrase.month \in 1..12 /\ phrase.day \in Nat /\ D = MonthDay(phrase.month, phrase.day)
    BY <1>9, PhrasesAssumption DEF Resolve, MonthDay
  <2>2. D # Unresolved
        => /\ D >= today
           /\ D = Min({l \in Later \cup {today} : Month(l) = phrase.month /\ DayOfMonth(l) = phrase.day})
    BY <2>1, MonthDayIs
  <2>. QED BY <1>9, <2>2 DEF DeadlineIsTheDay
<1>. QED BY <1>1, <1>2, <1>3, <1>4, <1>5, <1>6, <1>7, <1>8, <1>9, PhrasesAssumption

(* Whatever the day of the meeting, the date of a phrase is the one a         *)
(* calendar shows (resolve_deadline): the first such weekday after it, the   *)
(* last day of the month, the next day with that day and month, and never    *)
(* a day that is over.                                                       *)
THEOREM DeadlineTheorem == DeadlinesSpec => []DeadlineIsTheDay
<1>1. DeadlinesInit => Asked
  BY DEF DeadlinesInit, Asked
<1>2. Asked /\ [UNCHANGED <<phrase, today>>]_<<phrase, today>> => Asked'
  BY DEF Asked
<1>. QED BY <1>1, <1>2, AskedMeans, PTL DEF DeadlinesSpec
=============================================================================
