------------------------ MODULE EncodingBufferProofs ------------------------
(***************************************************************************)
(* Proofs about the encoding buffer, for every number of buffers, lists    *)
(* and IOVecs, arrays of any capacity and every bound.                     *)
(***************************************************************************)
EXTENDS EncodingBuffer, FiniteSetTheorems, SequenceTheorems,
        WellFoundedInduction, NaturalsInduction, TLAPS

----------------------------------------------------------------------------
(* Loops over a sequence *)

(* Induction on a number: a set that holds 0, and with every number the    *)
(* next one, holds all.                                                    *)
LEMMA Induction ==
    ASSUME NEW S, 0 \in S, \A n \in Nat : n \in S => n + 1 \in S
    PROVE  Nat \subseteq S
<1> DEFINE T == Nat \ S
<1> SUFFICES ASSUME T # {} PROVE FALSE
  OBVIOUS
<1>1. PICK m \in T : \A k \in T : <<k, m>> \notin OpToRel(<, Nat)
  BY WFMin, NatLessThanWellFounded, Zenon
<1>2. \A k \in T : ~(k < m)
  BY <1>1 DEF OpToRel
<1>3. m \in Nat /\ m # 0 /\ m - 1 \in Nat
  OBVIOUS
<1>4. m - 1 \in S
  BY <1>2, <1>3
<1>5. QED BY <1>3, <1>4

(* A loop of n rounds: what is there before the first and after each.      *)
Rounds(f, n, first, step) ==
    f[0] = first /\ \A i \in 1..n : f[i] = step[<<i, f[i - 1]>>]

LEMMA LoopEnds ==
    ASSUME NEW S, NEW first \in S, NEW n \in Nat, NEW step \in [Nat \X S -> S]
    PROVE  \E f \in [0..n -> S] : Rounds(f, n, first, step)
<1> DEFINE T == {m \in Nat : \E f \in [0..m -> S] : Rounds(f, m, first, step)}
<1>1. 0 \in T
  <2> DEFINE f == [i \in 0..0 |-> first]
  <2>1. f \in [0..0 -> S] /\ Rounds(f, 0, first, step)
    BY DEF Rounds
  <2>2. QED BY <2>1
<1>2. ASSUME NEW m \in Nat, m \in T PROVE m + 1 \in T
  <2>1. PICK f \in [0..m -> S] : Rounds(f, m, first, step)
    BY <1>2
  <2>2. PICK next \in S : next = step[<<m + 1, f[m]>>]
    OBVIOUS
  <2> DEFINE g == [i \in 0..(m + 1) |-> IF i = m + 1 THEN next ELSE f[i]]
  <2>3. g \in [0..(m + 1) -> S] /\ g[0] = first
    BY <2>1 DEF Rounds
  <2>4. ASSUME NEW i \in 1..(m + 1) PROVE g[i] = step[<<i, g[i - 1]>>]
    <3>1. g[i - 1] = f[i - 1]
      OBVIOUS
    <3>2. CASE i = m + 1
      <4>1. g[i] = next /\ i - 1 = m
        BY <3>2
      <4>2. step[<<i, f[i - 1]>>] = step[<<m + 1, f[m]>>]
        BY <3>2, <4>1
      <4>3. QED BY <2>2, <3>1, <4>1, <4>2
    <3>3. CASE i # m + 1
      <4>1. i \in 1..m /\ g[i] = f[i]
        BY <3>3
      <4>2. QED BY <2>1, <3>1, <4>1 DEF Rounds
    <3>4. QED BY <3>2, <3>3
  <2> HIDE DEF g
  <2>5. Rounds(g, m + 1, first, step)
    BY <2>3, <2>4 DEF Rounds
  <2>6. QED BY <2>3, <2>5
<1>3. n \in T
  <2> HIDE DEF T
  <2>1. QED BY <1>1, <1>2, Induction
<1>4. QED BY <1>3

(* Two accounts of one loop agree.                                         *)
LEMMA LoopUnique ==
    ASSUME NEW first, NEW n \in Nat, NEW step, NEW f, NEW g,
           Rounds(f, n, first, step), Rounds(g, n, first, step)
    PROVE  \A i \in 0..n : f[i] = g[i]
<1> DEFINE S == {i \in Nat : i <= n => f[i] = g[i]}
<1>1. 0 \in S
  BY DEF Rounds
<1>2. ASSUME NEW i \in Nat, i \in S PROVE i + 1 \in S
  <2> SUFFICES ASSUME i + 1 <= n PROVE f[i + 1] = g[i + 1]
    OBVIOUS
  <2>1. i + 1 \in 1..n /\ (i + 1) - 1 = i /\ f[i] = g[i]
    BY <1>2
  <2>2. /\ f[i + 1] = step[<<i + 1, f[(i + 1) - 1]>>]
        /\ g[i + 1] = step[<<i + 1, g[(i + 1) - 1]>>]
    BY <2>1 DEF Rounds
  <2>3. QED BY <2>1, <2>2
<1>3. Nat \subseteq S
  <2> HIDE DEF S
  <2>1. QED BY <1>1, <1>2, Induction
<1>4. QED BY <1>3

----------------------------------------------------------------------------
(* Flattening *)

(* f[i] is the concatenation of the first i of seqs.                       *)
Concatenates(f, seqs) ==
    /\ f[0] = <<>>
    /\ \A i \in 1..Len(seqs) : f[i] = f[i - 1] \o seqs[i]

LEMMA Concatenations ==
    ASSUME NEW S, NEW seqs \in Seq(Seq(S))
    PROVE  \E f \in [0..Len(seqs) -> Seq(S)] : Concatenates(f, seqs)
<1> DEFINE n == Len(seqs)
           step == [p \in Nat \X Seq(S) |->
                      IF p[1] \in 1..n THEN p[2] \o seqs[p[1]] ELSE p[2]]
<1>1. n \in Nat /\ \A i \in 1..n : seqs[i] \in Seq(S)
  BY ElementOfSeq, LenProperties
<1>2. \A s \in Seq(S) : \A i \in 1..n : s \o seqs[i] \in Seq(S)
  BY <1>1, ConcatProperties
<1>3. step \in [Nat \X Seq(S) -> Seq(S)]
  BY <1>2
<1>4. ASSUME NEW i \in 1..n, NEW s \in Seq(S) PROVE step[<<i, s>>] = s \o seqs[i]
  <2> DEFINE p == <<i, s>>
  <2>1. p \in Nat \X Seq(S) /\ p[1] = i /\ p[2] = s
    BY <1>1
  <2> HIDE DEF p
  <2>2. step[p] = s \o seqs[i]
    BY <2>1
  <2>3. QED BY <2>2 DEF p
<1> HIDE DEF step
<1>5. <<>> \in Seq(S)
  OBVIOUS
<1>6. PICK f \in [0..n -> Seq(S)] : Rounds(f, n, <<>>, step)
  BY <1>1, <1>3, <1>5, LoopEnds
<1>7. ASSUME NEW i \in 1..n PROVE f[i] = f[i - 1] \o seqs[i]
  <2>0. i - 1 \in 0..n
    BY <1>1
  <2>1. f[i - 1] \in Seq(S)
    BY ONLY <2>0, f \in [0..n -> Seq(S)]
  <2>2. QED BY <1>4, <1>6, <2>1 DEF Rounds
<1>8. QED BY <1>6, <1>7 DEF Rounds, Concatenates

LEMMA FlattenIs ==
    ASSUME NEW S, NEW seqs \in Seq(Seq(S)), NEW f \in [0..Len(seqs) -> Seq(S)],
           Concatenates(f, seqs)
    PROVE  FlattenSeq(seqs) = f[Len(seqs)]
<1>n. PICK n \in Nat : n = Len(seqs)
  OBVIOUS
<1>1. CASE n = 0
  <2>1. seqs = <<>>
    BY <1>n, <1>1, EmptySeq
  <2>2. QED BY <1>n, <1>1, <2>1 DEF FlattenSeq, Concatenates
<1>2. CASE n # 0
  <2> DEFINE Step(g) == g = [i \in 1..n |->
                               IF i = 1 THEN seqs[i] ELSE g[i - 1] \o seqs[i]]
             flatten == CHOOSE g : Step(g)
             part == [i \in 1..n |-> f[i]]
  <2>1. FlattenSeq(seqs) = flatten[n]
    BY <1>n, <1>2 DEF FlattenSeq
  <2>2. \A i \in 1..n : part[i] = IF i = 1 THEN seqs[i] ELSE part[i - 1] \o seqs[i]
    <3> TAKE i \in 1..n
    <3>1. f[i] = f[i - 1] \o seqs[i]
      BY <1>n DEF Concatenates
    <3>2. CASE i = 1
      <4>1. f[i - 1] = <<>> /\ seqs[i] \in Seq(S)
        BY <1>n, <3>2, ElementOfSeq DEF Concatenates
      <4>2. <<>> \o seqs[i] = seqs[i]
        BY <4>1, ConcatEmptySeq
      <4>3. QED BY <3>1, <3>2, <4>1, <4>2
    <3>3. CASE i # 1
      <4>1. i - 1 \in 1..n
        BY <3>3
      <4>2. QED BY <3>1, <3>3, <4>1
    <3>4. QED BY <3>2, <3>3
  <2>3. Step(part)
    BY <2>2
  <2>4. Step(flatten)
    BY <2>3
  <2> HIDE DEF flatten
  <2>5. \A i \in 1..n : flatten[i] = IF i = 1 THEN seqs[i] ELSE flatten[i - 1] \o seqs[i]
    BY <2>4
  <2> DEFINE T == {i \in Nat : i + 1 <= n => flatten[i + 1] = part[i + 1]}
  <2>6. 0 \in T
    <3>1. 1 \in 1..n /\ 0 + 1 = 1
      BY <1>2
    <3> HIDE DEF part
    <3>2. flatten[1] = seqs[1] /\ part[1] = seqs[1]
      BY <2>2, <2>5, <3>1
    <3>3. QED BY <3>1, <3>2
  <2>7. ASSUME NEW i \in Nat, i \in T PROVE i + 1 \in T
    <3> SUFFICES ASSUME (i + 1) + 1 <= n
                 PROVE  flatten[(i + 1) + 1] = part[(i + 1) + 1]
      OBVIOUS
    <3> DEFINE j == (i + 1) + 1
    <3>1. j \in 1..n /\ j # 1 /\ j - 1 = i + 1 /\ i + 1 <= n
      OBVIOUS
    <3>2. flatten[i + 1] = part[i + 1]
      BY <2>7, <3>1
    <3> HIDE DEF j, part
    <3>3. flatten[j] = flatten[j - 1] \o seqs[j] /\ part[j] = part[j - 1] \o seqs[j]
      BY <2>2, <2>5, <3>1
    <3>4. flatten[j] = part[j]
      BY <3>1, <3>2, <3>3
    <3>5. QED BY <3>4 DEF j
  <2> HIDE DEF T
  <2>8. Nat \subseteq T
    BY <2>6, <2>7, Induction
  <2>9. n - 1 \in T /\ (n - 1) + 1 = n
    BY <1>2, <2>8
  <2>10. QED BY <1>n, <1>2, <2>1, <2>9 DEF T
<1>3. QED BY <1>1, <1>2

LEMMA FlattenType ==
    ASSUME NEW S, NEW seqs \in Seq(Seq(S))
    PROVE  FlattenSeq(seqs) \in Seq(S)
<1>1. PICK f \in [0..Len(seqs) -> Seq(S)] : Concatenates(f, seqs)
  BY Concatenations
<1>2. Len(seqs) \in 0..Len(seqs)
  BY LenProperties
<1>3. QED BY <1>1, <1>2, FlattenIs

LEMMA FlattenEmpty == FlattenSeq(<<>>) = <<>>
BY DEF FlattenSeq

Associate(s, t, u) == (s \o t) \o u = s \o (t \o u)

LEMMA Associates ==
    ASSUME NEW S, NEW s \in Seq(S), NEW t \in Seq(S), NEW u \in Seq(S)
    PROVE  Associate(s, t, u)
BY ConcatAssociative, SMT DEF Associate

LEMMA FlattenAppend ==
    ASSUME NEW S, NEW seqs \in Seq(Seq(S)), NEW last \in Seq(S)
    PROVE  FlattenSeq(Append(seqs, last)) = FlattenSeq(seqs) \o last
<1>n. PICK n \in Nat : n = Len(seqs)
  OBVIOUS
<1>1. PICK f \in [0..n -> Seq(S)] : Concatenates(f, seqs)
  BY <1>n, Concatenations
<1>2. PICK whole \in Seq(S) : whole = f[n] \o last
  <2>1. n \in 0..n /\ f[n] \in Seq(S)
    OBVIOUS
  <2>2. QED BY <2>1, ConcatProperties
<1> DEFINE g == [i \in 0..(n + 1) |-> IF i = n + 1 THEN whole ELSE f[i]]
           more == Append(seqs, last)
<1>3. /\ more \in Seq(Seq(S)) /\ Len(more) = n + 1
      /\ \A i \in 1..n : more[i] = seqs[i]
      /\ more[n + 1] = last
  BY <1>n, AppendProperties
<1> HIDE DEF more
<1>4. g \in [0..(n + 1) -> Seq(S)] /\ g[n + 1] = whole
  BY <1>2
<1>5. Concatenates(g, more)
  <2>1. g[0] = <<>>
    BY <1>1 DEF Concatenates
  <2>2. ASSUME NEW i \in 1..(n + 1) PROVE g[i] = g[i - 1] \o more[i]
    <3>1. g[i - 1] = f[i - 1]
      OBVIOUS
    <3>2. CASE i = n + 1
      <4>1. i - 1 = n /\ g[i] = whole
        BY <3>2
      <4>2. g[i - 1] = f[n] /\ more[i] = last
        BY <1>3, <3>1, <3>2, <4>1
      <4>3. QED BY ONLY <1>2, <4>1, <4>2
    <3>3. CASE i # n + 1
      <4>1. i \in 1..n /\ g[i] = f[i]
        BY <3>3
      <4>2. QED BY <1>n, <1>1, <1>3, <3>1, <4>1 DEF Concatenates
    <3>4. QED BY <3>2, <3>3
  <2> HIDE DEF g
  <2>3. QED BY <1>3, <2>1, <2>2 DEF Concatenates
<1> HIDE DEF g
<1>6. FlattenSeq(more) = whole
  BY <1>3, <1>4, <1>5, FlattenIs
<1>7. FlattenSeq(seqs) = f[n]
  BY <1>n, <1>1, FlattenIs
<1>8. QED BY <1>2, <1>6, <1>7 DEF more

LEMMA FlattenCons ==
    ASSUME NEW S, NEW seqs \in Seq(Seq(S)), NEW head \in Seq(S)
    PROVE  FlattenSeq(<<head>> \o seqs) = head \o FlattenSeq(seqs)
<1>n. PICK n \in Nat : n = Len(seqs)
  OBVIOUS
<1>1. PICK f \in [0..n -> Seq(S)] : Concatenates(f, seqs)
  BY <1>n, Concatenations
<1> DEFINE g == [i \in 0..(n + 1) |-> IF i = 0 THEN <<>> ELSE head \o f[i - 1]]
           more == <<head>> \o seqs
<1>2. /\ more \in Seq(Seq(S)) /\ Len(more) = n + 1 /\ more[1] = head
      /\ \A i \in 2..(n + 1) : more[i] = seqs[i - 1]
  <2>1. <<head>> \in Seq(Seq(S)) /\ Len(<<head>>) = 1 /\ <<head>>[1] = head
    OBVIOUS
  <2>2. /\ more \in Seq(Seq(S)) /\ Len(more) = Len(<<head>>) + Len(seqs)
        /\ \A i \in 1..(Len(<<head>>) + Len(seqs)) :
              more[i] = IF i <= Len(<<head>>) THEN <<head>>[i] ELSE seqs[i - Len(<<head>>)]
    BY ONLY <2>1, seqs \in Seq(Seq(S)), ConcatProperties
  <2> HIDE DEF more
  <2>3. QED BY <1>n, <2>1, <2>2
<1> HIDE DEF more
<1>3. \A i \in 0..n : f[i] \in Seq(S) /\ head \o f[i] \in Seq(S)
  BY ConcatProperties
<1>4. g \in [0..(n + 1) -> Seq(S)] /\ g[n + 1] = head \o f[n]
  <2>1. (n + 1) - 1 = n /\ n + 1 # 0
    OBVIOUS
  <2>2. \A i \in 1..(n + 1) : head \o f[i - 1] \in Seq(S)
    BY <1>3
  <2>3. QED BY <2>1, <2>2
<1>5. Concatenates(g, more)
  <2>1. g[0] = <<>>
    OBVIOUS
  <2>2. ASSUME NEW i \in 1..(n + 1) PROVE g[i] = g[i - 1] \o more[i]
    <3>1. CASE i = 1
      <4>1. g[i] = head \o f[0] /\ g[i - 1] = <<>> /\ f[0] = <<>>
        BY <1>1, <3>1 DEF Concatenates
      <4>2. head \o <<>> = head /\ <<>> \o head = head
        BY ConcatEmptySeq
      <4>3. QED BY <1>2, <3>1, <4>1, <4>2
    <3>2. CASE i # 1
      <4>1. i \in 2..(n + 1) /\ i - 1 \in 1..n /\ i - 1 \in 0..(n + 1) /\ i - 1 # 0
            /\ (i - 1) - 1 \in 0..n
        BY <3>2
      <4>2. g[i] = head \o f[i - 1] /\ g[i - 1] = head \o f[(i - 1) - 1]
        <5>1. g[i] = head \o f[i - 1]
          <6>1. i \in 0..(n + 1) /\ i # 0
            OBVIOUS
          <6>2. QED BY <6>1
        <5>2. PICK j \in 0..(n + 1) : j = i - 1 /\ j # 0
          BY <4>1
        <5>3. g[j] = head \o f[j - 1]
          BY <5>2
        <5>4. QED BY <5>1, <5>2, <5>3
      <4>3. f[i - 1] = f[(i - 1) - 1] \o seqs[i - 1]
        BY <1>n, <1>1, <4>1 DEF Concatenates
      <4>4. PICK a \in Seq(S), b \in Seq(S) : a = f[(i - 1) - 1] /\ b = seqs[i - 1]
        BY <1>n, <4>1, ElementOfSeq
      <4>5. (head \o a) \o b = head \o (a \o b)
        <5>1. Associate(head, a, b)
          BY Associates
        <5>2. QED BY ONLY <5>1 DEF Associate
      <4>6. QED BY ONLY <1>2, <4>1, <4>2, <4>3, <4>4, <4>5
    <3>3. QED BY <3>1, <3>2
  <2> HIDE DEF g
  <2>3. QED BY <1>2, <2>1, <2>2 DEF Concatenates
<1> HIDE DEF g
<1>6. FlattenSeq(more) = head \o f[n]
  BY <1>2, <1>4, <1>5, FlattenIs
<1>7. FlattenSeq(seqs) = f[n]
  BY <1>n, <1>1, FlattenIs
<1>8. QED BY <1>6, <1>7 DEF more

----------------------------------------------------------------------------
(* The bytes of a sequence of entries *)

SumsTo(f, entries) ==
    f[0] = 0 /\ \A i \in 1..Len(entries) : f[i] = f[i - 1] + entries[i].length

LEMMA EntryOf ==
    ASSUME NEW entries \in Seq(EntryType), NEW i \in 1..Len(entries)
    PROVE  /\ entries[i] \in EntryType
           /\ entries[i].buffer \in Buffer /\ entries[i].base \in Nat
           /\ entries[i].length \in Nat
<1>1. entries[i] \in EntryType
  BY ElementOfSeq
<1>2. QED BY <1>1 DEF EntryType

LEMMA Sums ==
    ASSUME NEW entries \in Seq(EntryType)
    PROVE  \E f \in [0..Len(entries) -> Nat] : SumsTo(f, entries)
<1>n. PICK n \in Nat : n = Len(entries)
  OBVIOUS
<1> DEFINE step == [p \in Nat \X Nat |->
                      IF p[1] \in 1..n THEN p[2] + entries[p[1]].length ELSE p[2]]
<1>1. \A i \in 1..n : entries[i].length \in Nat
  BY <1>n, EntryOf
<1>2. step \in [Nat \X Nat -> Nat]
  BY <1>1
<1>3. ASSUME NEW i \in 1..n, NEW k \in Nat PROVE step[<<i, k>>] = k + entries[i].length
  <2> DEFINE p == <<i, k>>
  <2>1. p \in Nat \X Nat /\ p[1] = i /\ p[2] = k
    OBVIOUS
  <2> HIDE DEF p
  <2>2. step[p] = k + entries[i].length
    BY <2>1
  <2>3. QED BY <2>2 DEF p
<1> HIDE DEF step
<1>4. PICK f \in [0..n -> Nat] : Rounds(f, n, 0, step)
  BY <1>2, LoopEnds
<1>5. ASSUME NEW i \in 1..n PROVE f[i] = f[i - 1] + entries[i].length
  <2>1. i - 1 \in 0..n
    OBVIOUS
  <2>2. f[i - 1] \in Nat
    BY <2>1
  <2>3. QED BY <1>3, <1>4, <2>2 DEF Rounds
<1>6. QED BY <1>n, <1>4, <1>5 DEF Rounds, SumsTo

LEMMA BytesIs ==
    ASSUME NEW entries \in Seq(EntryType), NEW f \in [0..Len(entries) -> Nat],
           SumsTo(f, entries)
    PROVE  Bytes(entries) = f[Len(entries)]
<1>n. PICK n \in Nat : n = Len(entries)
  OBVIOUS
<1> DEFINE Step(g) == g = [i \in 0..n |-> IF i = 0 THEN 0 ELSE g[i - 1] + entries[i].length]
           sum == CHOOSE g : Step(g)
<1>1. Bytes(entries) = sum[n]
  BY <1>n DEF Bytes
<1>2. Step(f)
  <2>1. ASSUME NEW i \in 0..n
        PROVE  f[i] = IF i = 0 THEN 0 ELSE f[i - 1] + entries[i].length
    <3>1. i # 0 => i \in 1..n
      OBVIOUS
    <3>2. QED BY <1>n, <3>1 DEF SumsTo
  <2>2. f = [i \in 0..n |-> f[i]]
    BY <1>n
  <2>3. QED BY <2>1, <2>2
<1>3. Step(sum)
  BY <1>2
<1> HIDE DEF sum
<1>4. \A i \in 0..n : sum[i] = IF i = 0 THEN 0 ELSE sum[i - 1] + entries[i].length
  BY <1>3
<1> DEFINE T == {i \in Nat : i <= n => sum[i] = f[i]}
<1>5. 0 \in T
  BY <1>4 DEF SumsTo
<1>6. ASSUME NEW i \in Nat, i \in T PROVE i + 1 \in T
  <2> SUFFICES ASSUME i + 1 <= n PROVE sum[i + 1] = f[i + 1]
    OBVIOUS
  <2>1. i + 1 \in 0..n /\ i + 1 # 0 /\ (i + 1) - 1 = i /\ i + 1 \in 1..n
    OBVIOUS
  <2>2. sum[i + 1] = sum[i] + entries[i + 1].length
    BY <1>4, <2>1
  <2>3. f[i + 1] = f[i] + entries[i + 1].length
    BY <1>n, <2>1 DEF SumsTo
  <2>4. QED BY <1>6, <2>2, <2>3
<1> HIDE DEF T
<1>7. Nat \subseteq T
  BY <1>5, <1>6, Induction
<1>8. QED BY <1>n, <1>1, <1>7 DEF T

LEMMA BytesType ==
    ASSUME NEW entries \in Seq(EntryType)
    PROVE  Bytes(entries) \in Nat
<1>1. PICK f \in [0..Len(entries) -> Nat] : SumsTo(f, entries)
  BY Sums
<1>2. Len(entries) \in 0..Len(entries)
  BY LenProperties
<1>3. QED BY <1>1, <1>2, BytesIs

LEMMA BytesEmpty == Bytes(<<>>) = 0
<1>1. <<>> \in Seq(EntryType) /\ Len(<<>>) = 0
  BY EmptySeq
<1>2. PICK f \in [0..Len(<<>>) -> Nat] : SumsTo(f, <<>>)
  BY <1>1, Sums
<1>3. QED BY <1>1, <1>2, BytesIs DEF SumsTo

LEMMA BytesConcat ==
    ASSUME NEW a \in Seq(EntryType), NEW b \in Seq(EntryType)
    PROVE  a \o b \in Seq(EntryType) /\ Bytes(a \o b) = Bytes(a) + Bytes(b)
<1>n. PICK m \in Nat, n \in Nat : m = Len(a) /\ n = Len(b)
  OBVIOUS
<1>1. PICK f \in [0..m -> Nat] : SumsTo(f, a)
  BY <1>n, Sums
<1>2. PICK g \in [0..n -> Nat] : SumsTo(g, b)
  BY <1>n, Sums
<1> DEFINE c == a \o b
           h == [i \in 0..(m + n) |-> IF i <= m THEN f[i] ELSE f[m] + g[i - m]]
<1>3. /\ c \in Seq(EntryType) /\ Len(c) = m + n
      /\ \A i \in 1..(m + n) : c[i] = IF i <= m THEN a[i] ELSE b[i - m]
  BY <1>n, ConcatProperties
<1> HIDE DEF c
<1>4. f[m] \in Nat /\ g[n] \in Nat
  BY m \in 0..m, n \in 0..n
<1>5. h \in [0..(m + n) -> Nat]
  <2>1. ASSUME NEW i \in 0..(m + n)
        PROVE  (IF i <= m THEN f[i] ELSE f[m] + g[i - m]) \in Nat
    <3>1. CASE i <= m
      BY <3>1, i \in 0..m
    <3>2. CASE ~(i <= m)
      <4>1. i - m \in 0..n
        BY <3>2
      <4>2. g[i - m] \in Nat
        BY <4>1
      <4>3. QED BY <1>4, <3>2, <4>2
    <3>3. QED BY <3>1, <3>2
  <2>2. QED BY <2>1
<1>6. g[0] = 0
  BY <1>2 DEF SumsTo
<1>7. \A i \in 0..n : h[m + i] = f[m] + g[i]
  <2> TAKE i \in 0..n
  <2>1. CASE i = 0
    BY <1>4, <1>6, <2>1
  <2>2. CASE i # 0
    <3>1. m + i \in 0..(m + n) /\ ~(m + i <= m) /\ (m + i) - m = i
      BY <2>2
    <3>2. QED BY <3>1
  <2>3. QED BY <2>1, <2>2
<1>8. \A i \in 0..m : h[i] = f[i]
  OBVIOUS
<1> HIDE DEF h
<1>9. SumsTo(h, c)
  <2>1. h[0] = 0
    BY <1>1, <1>8 DEF SumsTo
  <2>2. ASSUME NEW i \in 1..(m + n) PROVE h[i] = h[i - 1] + c[i].length
    <3>1. CASE i <= m
      <4>1. i \in 1..m /\ i - 1 \in 0..m /\ i \in 0..m
        BY <3>1
      <4>2. f[i] = f[i - 1] + a[i].length
        BY <1>n, <1>1, <4>1 DEF SumsTo
      <4>3. QED BY <1>3, <1>8, <3>1, <4>1, <4>2
    <3>2. CASE ~(i <= m)
      <4> DEFINE j == i - m
      <4>1. j \in 1..n /\ j - 1 \in 0..n /\ j \in 0..n /\ m + j = i /\ m + (j - 1) = i - 1
        BY <3>2
      <4>2. g[j] = g[j - 1] + b[j].length
        BY <1>n, <1>2, <4>1 DEF SumsTo
      <4>3. c[i] = b[j]
        BY <1>3, <3>2
      <4> HIDE DEF j
      <4>4. h[m + j] = f[m] + g[j] /\ h[m + (j - 1)] = f[m] + g[j - 1]
        BY <1>7, <4>1
      <4>5. g[j - 1] \in Nat /\ b[j].length \in Nat
        BY <1>n, <4>1, EntryOf
      <4>6. h[i] = f[m] + g[j] /\ h[i - 1] = f[m] + g[j - 1]
        BY ONLY <4>1, <4>4
      <4>7. g[j] = g[j - 1] + b[j].length /\ c[i].length = b[j].length
        BY ONLY <4>2, <4>3
      <4>8. PICK x \in Nat, y \in Nat, z \in Nat :
               x = f[m] /\ y = g[j - 1] /\ z = b[j].length
        BY ONLY <1>4, <4>5
      <4>9. h[i] = x + (y + z) /\ h[i - 1] = x + y /\ c[i].length = z
        BY ONLY <4>6, <4>7, <4>8
      <4>10. x + (y + z) = (x + y) + z
        BY ONLY x \in Nat, y \in Nat, z \in Nat
      <4>11. QED BY ONLY <4>9, <4>10
    <3>3. QED BY <3>1, <3>2
  <2>3. QED BY <1>3, <2>1, <2>2 DEF SumsTo
<1>10. Bytes(c) = h[m + n]
  BY <1>3, <1>5, <1>9, BytesIs
<1>11. Bytes(a) = f[m] /\ Bytes(b) = g[n]
  BY <1>n, <1>1, <1>2, BytesIs
<1>12. h[m + n] = f[m] + g[n]
  BY <1>7
<1>13. QED BY <1>3, <1>10, <1>11, <1>12 DEF c

LEMMA BytesOne ==
    ASSUME NEW e \in EntryType
    PROVE  <<e>> \in Seq(EntryType) /\ Bytes(<<e>>) = e.length
<1>1. <<e>> \in Seq(EntryType) /\ Len(<<e>>) = 1 /\ <<e>>[1] = e
  OBVIOUS
<1>2. PICK one \in Seq(EntryType) : one = <<e>> /\ Len(one) = 1 /\ one[1] = e
  BY <1>1
<1>3. PICK f \in [0..1 -> Nat] : SumsTo(f, one)
  BY <1>2, Sums
<1>4. f[0] = 0 /\ f[1] = f[0] + e.length /\ e.length \in Nat
  BY <1>2, <1>3 DEF SumsTo, EntryType
<1>5. Bytes(one) = f[1]
  BY <1>2, <1>3, BytesIs
<1>6. QED BY <1>1, <1>2, <1>4, <1>5

----------------------------------------------------------------------------
(* How often a sequence of entries names a buffer *)

LEMMA UsesType ==
    ASSUME NEW entries \in Seq(EntryType), NEW b
    PROVE  IsFiniteSet(Naming(entries, b)) /\ Uses(entries, b) \in Nat
<1>1. IsFiniteSet(1..Len(entries))
  BY LenProperties, FS_Interval
<1>2. Naming(entries, b) \subseteq 1..Len(entries)
  BY LenProperties DEF Naming
<1>3. IsFiniteSet(Naming(entries, b))
  BY <1>1, <1>2, FS_Subset
<1>4. QED BY <1>3, FS_CardinalityType DEF Uses

LEMMA UsesEmpty == \A b : Naming(<<>>, b) = {} /\ Uses(<<>>, b) = 0
<1> TAKE b
<1>1. Naming(<<>>, b) = {}
  BY DEF Naming
<1>2. QED BY <1>1, FS_EmptySet DEF Uses

One(b, x) == IF b = x THEN 1 ELSE 0

LEMMA UsesAppend ==
    ASSUME NEW entries \in Seq(EntryType), NEW e \in EntryType, NEW b
    PROVE  Uses(entries \o <<e>>, b) = Uses(entries, b) + One(e.buffer, b)
<1>n. PICK n \in Nat : n = Len(entries) /\ DOMAIN entries = 1..n
  BY LenProperties
<1> DEFINE more == entries \o <<e>>
<1>1. /\ DOMAIN more = 1..(n + 1) /\ more[n + 1] = e
      /\ \A i \in 1..n : more[i] = entries[i]
  <2>0. <<e>> \in Seq(EntryType) /\ Len(<<e>>) = 1 /\ <<e>>[1] = e
    OBVIOUS
  <2>1. PICK one \in Seq(EntryType) : one = <<e>> /\ Len(one) = 1 /\ one[1] = e
    BY <2>0
  <2> DEFINE c == entries \o one
  <2>2. /\ c \in Seq(EntryType) /\ Len(c) = Len(entries) + Len(one)
        /\ \A i \in 1..(Len(entries) + Len(one)) :
              c[i] = IF i <= Len(entries) THEN entries[i] ELSE one[i - Len(entries)]
    BY ConcatProperties
  <2> HIDE DEF c
  <2>3. DOMAIN c = 1..(n + 1)
    BY <1>n, <2>1, <2>2, LenProperties
  <2>4. c[n + 1] = e /\ \A i \in 1..n : c[i] = entries[i]
    BY <1>n, <2>1, <2>2
  <2>5. more = c
    BY <2>1 DEF c
  <2>6. QED BY <2>3, <2>4, <2>5
<1> HIDE DEF more
<1>2. Naming(more, b) = IF e.buffer = b THEN Naming(entries, b) \cup {n + 1}
                        ELSE Naming(entries, b)
  <2>1. Naming(more, b) = {i \in 1..(n + 1) : more[i].buffer = b}
    BY <1>1 DEF Naming
  <2>2. Naming(entries, b) = {i \in 1..n : entries[i].buffer = b}
    BY <1>n DEF Naming
  <2>3. {i \in 1..(n + 1) : more[i].buffer = b}
           = {i \in 1..n : entries[i].buffer = b} \cup {i \in {n + 1} : e.buffer = b}
    <3>1. \A i : i \in 1..(n + 1) <=> i \in 1..n \/ i = n + 1
      OBVIOUS
    <3>2. n + 1 \notin 1..n
      OBVIOUS
    <3>3. QED BY <1>1, <3>1, <3>2, Zenon
  <2>4. QED BY <2>1, <2>2, <2>3
<1>3. n + 1 \notin Naming(entries, b)
  BY <1>n DEF Naming
<1>4. IsFiniteSet(Naming(entries, b)) /\ Uses(entries, b) \in Nat
  BY UsesType
<1>5. Cardinality(Naming(entries, b) \cup {n + 1}) = Uses(entries, b) + 1
  BY <1>3, <1>4, FS_AddElement DEF Uses
<1>6. QED BY <1>2, <1>4, <1>5 DEF Uses, One, more

LEMMA UsesCons ==
    ASSUME NEW entries \in Seq(EntryType), NEW e \in EntryType, NEW b
    PROVE  Uses(<<e>> \o entries, b) = Uses(entries, b) + One(e.buffer, b)
<1>n. PICK n \in Nat : n = Len(entries) /\ DOMAIN entries = 1..n
  BY LenProperties
<1> DEFINE more == <<e>> \o entries
           old == Naming(entries, b)
           moved == {i \in 2..(n + 1) : entries[i - 1].buffer = b}
<1>1. /\ DOMAIN more = 1..(n + 1) /\ more[1] = e
      /\ \A i \in 2..(n + 1) : more[i] = entries[i - 1]
  <2>0. <<e>> \in Seq(EntryType) /\ Len(<<e>>) = 1 /\ <<e>>[1] = e
    OBVIOUS
  <2>1. PICK one \in Seq(EntryType) : one = <<e>> /\ Len(one) = 1 /\ one[1] = e
    BY <2>0
  <2> DEFINE c == one \o entries
  <2>2. /\ c \in Seq(EntryType) /\ Len(c) = Len(one) + Len(entries)
        /\ \A i \in 1..(Len(one) + Len(entries)) :
              c[i] = IF i <= Len(one) THEN one[i] ELSE entries[i - Len(one)]
    BY ConcatProperties
  <2> HIDE DEF c
  <2>3. DOMAIN c = 1..(n + 1)
    BY <1>n, <2>1, <2>2, LenProperties
  <2>4. c[1] = e /\ \A i \in 2..(n + 1) : c[i] = entries[i - 1]
    BY <1>n, <2>1, <2>2
  <2>5. more = c
    BY <2>1 DEF c
  <2>6. QED BY <2>3, <2>4, <2>5
<1> HIDE DEF more
<1>2. Naming(more, b) = IF e.buffer = b THEN moved \cup {1} ELSE moved
  <2>1. Naming(more, b) = {i \in 1..(n + 1) : more[i].buffer = b}
    BY <1>1 DEF Naming
  <2>2. {i \in 1..(n + 1) : more[i].buffer = b}
           = moved \cup {i \in {1} : e.buffer = b}
    <3>1. \A i : i \in 1..(n + 1) <=> i \in 2..(n + 1) \/ i = 1
      OBVIOUS
    <3>2. 1 \notin 2..(n + 1)
      OBVIOUS
    <3>3. QED BY <1>1, <3>1, <3>2, Zenon
  <2> HIDE DEF moved
  <2>3. QED BY <2>1, <2>2
<1>3. IsFiniteSet(old) /\ Uses(entries, b) \in Nat /\ Cardinality(old) = Uses(entries, b)
  BY UsesType DEF Uses
<1>4. ExistsBijection(old, moved)
  <2> DEFINE f == [i \in old |-> i + 1]
  <2>1. old = {i \in 1..n : entries[i].buffer = b}
    BY <1>n DEF Naming
  <2>2. \A i \in old : i \in Int /\ i + 1 \in moved
    BY <2>1
  <2>3. f \in [old -> moved]
    BY <2>2
  <2>4. \A i, j \in old : f[i] = f[j] => i = j
    BY <2>2
  <2>5. \A j \in moved : j - 1 \in old /\ f[j - 1] = j
    BY <2>1
  <2> HIDE DEF f, old, moved
  <2>6. f \in Bijection(old, moved)
    BY <2>3, <2>4, <2>5 DEF Bijection, Injection, Surjection, IsInjective
  <2>7. QED BY <2>6 DEF ExistsBijection
<1> HIDE DEF old
<1>5. IsFiniteSet(moved) /\ Cardinality(moved) = Uses(entries, b)
  BY <1>3, <1>4, FS_Bijection
<1>6. 1 \notin moved
  OBVIOUS
<1> HIDE DEF moved
<1>7. Cardinality(moved \cup {1}) = Uses(entries, b) + 1
  BY <1>5, <1>6, FS_AddElement
<1>8. QED BY <1>2, <1>3, <1>5, <1>7 DEF Uses, One, more

----------------------------------------------------------------------------
(* The arrays of a list *)

Parts(arrays) == [i \in DOMAIN arrays |-> arrays[i].entries]
Flat(arrays) == FlattenSeq(Parts(arrays))

LEMMA ArrayOf ==
    ASSUME NEW arrays \in Seq(ArrayType), NEW i \in 1..Len(arrays)
    PROVE  /\ arrays[i] \in ArrayType
           /\ arrays[i].capacity \in Nat /\ arrays[i].bytes \in Nat
           /\ arrays[i].entries \in Seq(EntryType)
<1>1. arrays[i] \in ArrayType
  BY ElementOfSeq
<1>2. QED BY <1>1 DEF ArrayType

LEMMA PartsType ==
    ASSUME NEW arrays \in Seq(ArrayType)
    PROVE  /\ Parts(arrays) \in Seq(Seq(EntryType))
           /\ Len(Parts(arrays)) = Len(arrays)
           /\ Flat(arrays) \in Seq(EntryType)
<1>n. PICK n \in Nat : n = Len(arrays) /\ DOMAIN arrays = 1..n
  BY LenProperties
<1>1. \A i \in 1..n : arrays[i].entries \in Seq(EntryType)
  BY <1>n, ArrayOf
<1>2. Parts(arrays) = [i \in 1..n |-> arrays[i].entries]
  BY <1>n DEF Parts
<1>3. Parts(arrays) \in [1..n -> Seq(EntryType)]
  BY <1>1, <1>2
<1>4. Parts(arrays) \in Seq(Seq(EntryType)) /\ Len(Parts(arrays)) = n
  <2>1. PICK parts \in [1..n -> Seq(EntryType)] : parts = Parts(arrays)
    BY <1>3
  <2>2. parts \in Seq(Seq(EntryType)) /\ Len(parts) = n
    OBVIOUS
  <2>3. QED BY <2>1, <2>2
<1>5. QED BY <1>n, <1>4, FlattenType DEF Flat

(* Two lists of arrays that differ in the last, or in the first, only.     *)
SameBut(arrays, more, k) ==
    /\ Len(more) = Len(arrays)
    /\ \A i \in 1..Len(arrays) : i # k => more[i] = arrays[i]

Before(flat, arrays) == Flat(arrays) = flat \o arrays[Len(arrays)].entries
Behind(flat, arrays) == Flat(arrays) = arrays[1].entries \o flat

LEMMA FlatBefore ==
    ASSUME NEW front \in Seq(ArrayType), NEW arrays \in Seq(ArrayType),
           Len(arrays) = Len(front) + 1,
           \A i \in 1..Len(front) : arrays[i] = front[i]
    PROVE  Before(Flat(front), arrays)
<1>n. PICK n \in Nat : n = Len(front)
  OBVIOUS
<1> DEFINE last == arrays[n + 1].entries
<1>1. last \in Seq(EntryType)
  BY <1>n, ArrayOf
<1>2. /\ Parts(front) \in Seq(Seq(EntryType)) /\ Len(Parts(front)) = n
      /\ Parts(arrays) \in Seq(Seq(EntryType)) /\ Len(Parts(arrays)) = n + 1
  BY <1>n, PartsType
<1>3. DOMAIN front = 1..n /\ DOMAIN arrays = 1..(n + 1)
  BY <1>n, LenProperties
<1>4. /\ \A i \in 1..n : Parts(arrays)[i] = Parts(front)[i]
      /\ Parts(arrays)[n + 1] = last
  BY <1>n, <1>3 DEF Parts
<1>5. PICK p \in Seq(Seq(EntryType)), q \in Seq(Seq(EntryType)) :
         p = Parts(front) /\ q = Parts(arrays)
  BY <1>2
<1> HIDE DEF last
<1>6. q = Append(p, last)
  <2>1. PICK r \in Seq(Seq(EntryType)) : r = Append(p, last)
    BY <1>1, AppendProperties
  <2>2. Len(r) = n + 1 /\ \A i \in 1..(n + 1) : r[i] = q[i]
    BY <1>1, <1>2, <1>4, <1>5, <2>1, AppendProperties
  <2>3. Len(q) = Len(r)
    BY <1>2, <1>5, <2>2
  <2>4. q = r
    BY <1>2, <1>5, <2>2, <2>3, SeqEqual
  <2>5. QED BY <2>1, <2>4
<1>7. FlattenSeq(q) = FlattenSeq(p) \o last
  BY <1>1, <1>6, FlattenAppend
<1>8. QED BY <1>n, <1>5, <1>7 DEF Before, Flat, last

LEMMA FlatBehind ==
    ASSUME NEW rest \in Seq(ArrayType), NEW arrays \in Seq(ArrayType),
           Len(arrays) = Len(rest) + 1,
           \A i \in 1..Len(rest) : arrays[i + 1] = rest[i]
    PROVE  Behind(Flat(rest), arrays)
<1>n. PICK n \in Nat : n = Len(rest)
  OBVIOUS
<1> DEFINE first == arrays[1].entries
<1>1. first \in Seq(EntryType)
  BY <1>n, ArrayOf
<1>2. /\ Parts(rest) \in Seq(Seq(EntryType)) /\ Len(Parts(rest)) = n
      /\ Parts(arrays) \in Seq(Seq(EntryType)) /\ Len(Parts(arrays)) = n + 1
  BY <1>n, PartsType
<1>3. DOMAIN rest = 1..n /\ DOMAIN arrays = 1..(n + 1)
  BY <1>n, LenProperties
<1>4. /\ \A i \in 1..n : Parts(arrays)[i + 1] = Parts(rest)[i]
      /\ Parts(arrays)[1] = first
  BY <1>n, <1>3 DEF Parts
<1>5. PICK p \in Seq(Seq(EntryType)), q \in Seq(Seq(EntryType)) :
         p = Parts(rest) /\ q = Parts(arrays)
  BY <1>2
<1> HIDE DEF first
<1>6. q = <<first>> \o p
  <2>0. /\ <<first>> \in Seq(Seq(EntryType)) /\ Len(<<first>>) = 1
        /\ <<first>>[1] = first
    BY <1>1
  <2>1. PICK one \in Seq(Seq(EntryType)) :
           one = <<first>> /\ Len(one) = 1 /\ one[1] = first
    BY <2>0
  <2>2. PICK r \in Seq(Seq(EntryType)) : r = one \o p
    BY ConcatProperties
  <2>3. Len(r) = Len(one) + Len(p)
        /\ \A i \in 1..(Len(one) + Len(p)) :
              r[i] = IF i <= Len(one) THEN one[i] ELSE p[i - Len(one)]
    BY ONLY <2>2, one \in Seq(Seq(EntryType)), p \in Seq(Seq(EntryType)), ConcatProperties
  <2>4. Len(p) = n /\ Len(q) = n + 1
    BY <1>2, <1>5
  <2>5. ASSUME NEW i \in 1..(n + 1) PROVE r[i] = q[i]
    <3>1. CASE i = 1
      BY <1>4, <1>5, <2>1, <2>3, <2>4, <3>1
    <3>2. CASE i # 1
      <4>1. i - 1 \in 1..n /\ (i - 1) + 1 = i
        BY <3>2
      <4>2. q[i] = p[i - 1]
        BY <1>4, <1>5, <4>1
      <4>3. QED BY <2>1, <2>3, <2>4, <3>2, <4>2
    <3>3. QED BY <3>1, <3>2
  <2>6. Len(r) = Len(q) /\ Len(q) = n + 1
    BY <2>1, <2>3, <2>4
  <2>7. q = r
    BY <2>5, <2>6, SeqEqual
  <2>8. QED BY <2>1, <2>2, <2>7
<1>7. FlattenSeq(q) = first \o FlattenSeq(p)
  BY <1>1, <1>6, FlattenCons
<1>8. QED BY <1>5, <1>7 DEF Behind, Flat, first

LEMMA FlatLast ==
    ASSUME NEW arrays \in Seq(ArrayType), NEW more \in Seq(ArrayType),
           arrays # <<>>, SameBut(arrays, more, Len(arrays))
    PROVE  \E flat \in Seq(EntryType) : Before(flat, arrays) /\ Before(flat, more)
<1>n. PICK n \in Nat : n + 1 = Len(arrays) /\ Len(more) = n + 1
  <2>1. Len(arrays) \in Nat /\ Len(arrays) # 0
    BY EmptySeq
  <2>2. QED BY <2>1 DEF SameBut
<1>1. PICK front \in Seq(ArrayType) :
         Len(front) = n /\ \A i \in 1..n : front[i] = arrays[i]
  <2> DEFINE front == [i \in 1..n |-> arrays[i]]
  <2>1. front \in [1..n -> ArrayType]
    BY <1>n, ArrayOf
  <2>2. front \in Seq(ArrayType) /\ Len(front) = n
    BY <2>1
  <2>3. QED BY <2>2
<1>2. \A i \in 1..n : more[i] = arrays[i]
  BY <1>n DEF SameBut
<1>3. Before(Flat(front), arrays) /\ Before(Flat(front), more)
  BY <1>n, <1>1, <1>2, FlatBefore
<1>4. QED BY <1>3, PartsType

LEMMA FlatFirst ==
    ASSUME NEW arrays \in Seq(ArrayType), NEW more \in Seq(ArrayType),
           arrays # <<>>, SameBut(arrays, more, 1)
    PROVE  \E flat \in Seq(EntryType) : Behind(flat, arrays) /\ Behind(flat, more)
<1>n. PICK n \in Nat : n + 1 = Len(arrays) /\ Len(more) = n + 1
  <2>1. Len(arrays) \in Nat /\ Len(arrays) # 0
    BY EmptySeq
  <2>2. QED BY <2>1 DEF SameBut
<1>1. PICK rest \in Seq(ArrayType) :
         Len(rest) = n /\ \A i \in 1..n : rest[i] = arrays[i + 1]
  <2> DEFINE rest == [i \in 1..n |-> arrays[i + 1]]
  <2>1. rest \in [1..n -> ArrayType]
    BY <1>n, ArrayOf
  <2>2. rest \in Seq(ArrayType) /\ Len(rest) = n
    BY <2>1
  <2>3. QED BY <2>2
<1>2. \A i \in 1..n : more[i + 1] = arrays[i + 1]
  BY <1>n DEF SameBut
<1>3. Behind(Flat(rest), arrays) /\ Behind(Flat(rest), more)
  BY <1>n, <1>1, <1>2, FlatBehind
<1>4. QED BY <1>3, PartsType

----------------------------------------------------------------------------
(* What an insertion makes of a list *)

Counted(arrays) ==
    \A i \in 1..Len(arrays) :
        Len(arrays[i].entries) <= arrays[i].capacity /\ arrays[i].bytes = Bytes(arrays[i].entries)

(* What Accounted says of one list.                                        *)
Sound(list) ==
    /\ list \in ListType
    /\ \A i \in DOMAIN list.arrays :
          LET array == list.arrays[i]
          IN Len(array.entries) <= array.capacity /\ array.bytes = Bytes(array.entries)
    /\ list.totalCount = Len(Entries(list))
    /\ list.totalBytes = Bytes(Entries(list))

LEMMA ListParts ==
    ASSUME NEW list \in ListType
    PROVE  /\ list.references \in Nat \ {0} /\ list.arrays \in Seq(ArrayType)
           /\ list.totalCount \in Nat /\ list.totalBytes \in Nat
           /\ Entries(list) = Flat(list.arrays)
           /\ Entries(list) \in Seq(EntryType)
<1>1. /\ list.references \in Nat \ {0} /\ list.arrays \in Seq(ArrayType)
      /\ list.totalCount \in Nat /\ list.totalBytes \in Nat
  BY DEF ListType
<1>2. Entries(list) = Flat(list.arrays)
  BY DEF Entries, Flat, Parts
<1>3. Flat(list.arrays) \in Seq(EntryType)
  BY <1>1, PartsType
<1>4. QED BY <1>1, <1>2, <1>3

LEMMA SoundIs ==
    ASSUME NEW list \in ListType
    PROVE  Sound(list) <=> /\ Counted(list.arrays)
                           /\ list.totalCount = Len(Flat(list.arrays))
                           /\ list.totalBytes = Bytes(Flat(list.arrays))
<1>1. list.arrays \in Seq(ArrayType) /\ Entries(list) = Flat(list.arrays)
  BY ListParts
<1>2. DOMAIN list.arrays = 1..Len(list.arrays)
  BY <1>1, LenProperties
<1>3. QED BY <1>1, <1>2 DEF Sound, Counted

LEMMA NewArrayShape ==
    /\ NewArray(DefaultCapacity) \in ArrayType
    /\ NewArray(DefaultCapacity).entries = <<>>
    /\ ~Full(NewArray(DefaultCapacity))
    /\ Counted(<<NewArray(DefaultCapacity)>>)
<1> DEFINE new == NewArray(DefaultCapacity)
<1>1. /\ new.entries = <<>> /\ new.capacity = DefaultCapacity /\ new.bytes = 0
      /\ new = [capacity |-> DefaultCapacity, entries |-> <<>>, bytes |-> 0]
  BY DEF NewArray
<1>2. DefaultCapacity \in Nat \ {0} /\ <<>> \in Seq(EntryType) /\ Len(<<>>) = 0
  BY EncodingAssumption
<1>3. new \in ArrayType
  BY <1>1, <1>2 DEF ArrayType
<1>4. ~Full(new)
  BY <1>1, <1>2 DEF Full
<1> HIDE DEF new
<1>5. Len(<<new>>) = 1 /\ <<new>>[1] = new
  OBVIOUS
<1>6. Counted(<<new>>)
  BY <1>1, <1>2, <1>5, BytesEmpty DEF Counted
<1>7. QED BY <1>1, <1>3, <1>4, <1>6 DEF new

(* The array there is room in, at the tail and at the head.                *)
LEMMA TailShape ==
    ASSUME NEW arrays \in Seq(ArrayType), Counted(arrays)
    PROVE  LET tail == TailWithRoom(arrays)
           IN /\ tail \in Seq(ArrayType) /\ Counted(tail) /\ tail # <<>>
              /\ ~Full(tail[Len(tail)]) /\ Last(tail) = tail[Len(tail)]
              /\ Flat(tail) = Flat(arrays)
<1>n. PICK n \in Nat : n = Len(arrays)
  OBVIOUS
<1>1. CASE arrays = <<>> \/ Full(Last(arrays))
  <2>1. PICK new \in ArrayType : /\ new = NewArray(DefaultCapacity) /\ new.entries = <<>>
                                 /\ ~Full(new) /\ Counted(<<new>>)
    BY NewArrayShape
  <2>2. PICK tail \in Seq(ArrayType) : tail = Append(arrays, new)
    BY <2>1, AppendProperties
  <2>3. TailWithRoom(arrays) = tail
    BY <1>1, <2>1, <2>2 DEF TailWithRoom
  <2>4. /\ tail # <<>> /\ Len(tail) = n + 1 /\ tail[n + 1] = new
        /\ \A i \in 1..n : tail[i] = arrays[i]
    BY <1>n, <2>2, AppendProperties
  <2>5. Last(tail) = new
    BY <2>4 DEF Last
  <2>6. Len(<<new>>) = 1 /\ <<new>>[1] = new
    OBVIOUS
  <2>7. Len(new.entries) <= new.capacity /\ new.bytes = Bytes(new.entries)
    BY <2>1, <2>6 DEF Counted
  <2>8. Counted(tail)
    BY <1>n, <2>4, <2>7 DEF Counted
  <2>9. Flat(tail) = Flat(arrays)
    <3>1. Before(Flat(arrays), tail)
      BY <1>n, <2>4, FlatBefore
    <3>2. Flat(tail) = Flat(arrays) \o <<>>
      BY <2>1, <2>4, <3>1 DEF Before
    <3>3. PICK flat \in Seq(EntryType) : flat = Flat(arrays)
      BY PartsType
    <3>4. flat \o <<>> = flat
      BY ConcatEmptySeq
    <3>5. QED BY <3>2, <3>3, <3>4
  <2>10. QED BY <2>1, <2>3, <2>4, <2>5, <2>8, <2>9
<1>2. CASE ~(arrays = <<>> \/ Full(Last(arrays)))
  <2>1. TailWithRoom(arrays) = arrays
    BY <1>2 DEF TailWithRoom
  <2>2. Last(arrays) = arrays[Len(arrays)]
    BY DEF Last
  <2>3. QED BY <1>2, <2>1, <2>2
<1>3. QED BY <1>1, <1>2

LEMMA HeadShape ==
    ASSUME NEW arrays \in Seq(ArrayType), Counted(arrays), arrays # <<>>
    PROVE  LET heads == HeadWithRoom(arrays)
           IN /\ heads \in Seq(ArrayType) /\ Counted(heads) /\ heads # <<>>
              /\ ~Full(heads[1]) /\ Head(heads) = heads[1]
              /\ Flat(heads) = Flat(arrays)
              /\ heads[1].entries = <<>> \/ heads = arrays
<1>n. PICK n \in Nat : n = Len(arrays) /\ n > 0
  BY EmptySeq
<1>1. CASE Full(Head(arrays))
  <2>1. PICK new \in ArrayType : /\ new = NewArray(DefaultCapacity) /\ new.entries = <<>>
                                 /\ ~Full(new) /\ Counted(<<new>>)
    BY NewArrayShape
  <2>2. <<new>> \in Seq(ArrayType) /\ Len(<<new>>) = 1 /\ <<new>>[1] = new
    OBVIOUS
  <2>3. PICK one \in Seq(ArrayType) : one = <<new>> /\ Len(one) = 1 /\ one[1] = new
    BY <2>2
  <2>4. PICK heads \in Seq(ArrayType) : heads = one \o arrays
    BY ConcatProperties
  <2>5. /\ Len(heads) = Len(one) + Len(arrays)
        /\ \A i \in 1..(Len(one) + Len(arrays)) :
              heads[i] = IF i <= Len(one) THEN one[i] ELSE arrays[i - Len(one)]
    BY ONLY <2>4, one \in Seq(ArrayType), arrays \in Seq(ArrayType), ConcatProperties
  <2>6. HeadWithRoom(arrays) = heads
    BY <1>1, <2>1, <2>3, <2>4 DEF HeadWithRoom
  <2>7. /\ Len(heads) = n + 1 /\ heads[1] = new
        /\ \A i \in 2..(n + 1) : heads[i] = arrays[i - 1]
    BY <1>n, <2>3, <2>5
  <2>8. Len(new.entries) <= new.capacity /\ new.bytes = Bytes(new.entries)
    BY <2>1, <2>2 DEF Counted
  <2>9. Counted(heads)
    <3>1. ASSUME NEW i \in 1..(n + 1)
          PROVE  /\ Len(heads[i].entries) <= heads[i].capacity
                 /\ heads[i].bytes = Bytes(heads[i].entries)
      <4>1. CASE i = 1
        BY <2>7, <2>8, <4>1
      <4>2. CASE i # 1
        <5>1. i - 1 \in 1..n /\ i \in 2..(n + 1)
          BY <4>2
        <5>2. heads[i] = arrays[i - 1]
          BY <2>7, <5>1
        <5>3. QED BY <1>n, <5>1, <5>2 DEF Counted
      <4>3. QED BY <4>1, <4>2
    <3>2. QED BY <2>7, <3>1 DEF Counted
  <2>10. Flat(heads) = Flat(arrays)
    <3>1. \A i \in 1..n : heads[i + 1] = arrays[i]
      BY <2>7
    <3>2. Behind(Flat(arrays), heads)
      BY <1>n, <2>7, <3>1, FlatBehind
    <3>3. Flat(heads) = <<>> \o Flat(arrays)
      BY <2>1, <2>7, <3>2 DEF Behind
    <3>4. PICK flat \in Seq(EntryType) : flat = Flat(arrays)
      BY PartsType
    <3>5. <<>> \o flat = flat
      BY ConcatEmptySeq
    <3>6. QED BY <3>3, <3>4, <3>5
  <2>11. heads # <<>> /\ Head(heads) = heads[1]
    BY <2>7
  <2>12. QED BY <2>1, <2>6, <2>7, <2>9, <2>10, <2>11
<1>2. CASE ~Full(Head(arrays))
  <2>1. HeadWithRoom(arrays) = arrays
    BY <1>2 DEF HeadWithRoom
  <2>2. Head(arrays) = arrays[1]
    BY <1>n
  <2>3. QED BY <1>2, <2>1, <2>2
<1>3. QED BY <1>1, <1>2

(* One entry more in array k, and what the list counts then.               *)
LEMMA GrownShape ==
    ASSUME NEW list \in ListType, NEW arrays \in Seq(ArrayType), Counted(arrays),
           NEW k \in 1..Len(arrays), ~Full(arrays[k]), NEW e \in EntryType,
           NEW entries \in Seq(EntryType),
           Len(entries) = Len(arrays[k].entries) + 1,
           Bytes(entries) = Bytes(arrays[k].entries) + e.length
    PROVE  LET grown == Grown(list, arrays, k, entries, e)
           IN /\ grown \in ListType /\ Counted(grown.arrays)
              /\ SameBut(arrays, grown.arrays, k)
              /\ grown.arrays[k].entries = entries
              /\ grown.references = list.references
              /\ grown.totalCount = list.totalCount + 1
              /\ grown.totalBytes = list.totalBytes + e.length
<1>n. PICK n \in Nat : n = Len(arrays) /\ DOMAIN arrays = 1..n
  BY LenProperties
<1>1. /\ arrays[k] \in ArrayType /\ arrays[k].capacity \in Nat
      /\ arrays[k].bytes \in Nat /\ arrays[k].entries \in Seq(EntryType)
  BY ArrayOf
<1>2. e.length \in Nat
  BY DEF EntryType
<1>3. /\ list.references \in Nat \ {0} /\ list.totalCount \in Nat /\ list.totalBytes \in Nat
  BY ListParts
<1> DEFINE array == [arrays[k] EXCEPT !.entries = entries, !.bytes = @ + e.length]
           more == [arrays EXCEPT ![k].entries = entries, ![k].bytes = @ + e.length]
           grown == Grown(list, arrays, k, entries, e)
<1>4. /\ array \in ArrayType /\ array.capacity = arrays[k].capacity
      /\ array.entries = entries /\ array.bytes = arrays[k].bytes + e.length
  <2>1. PICK a : a = arrays[k]
    OBVIOUS
  <2>2. a = [capacity |-> a.capacity, entries |-> a.entries, bytes |-> a.bytes]
    BY <1>1, <2>1 DEF ArrayType
  <2>3. array = [capacity |-> a.capacity, entries |-> entries, bytes |-> a.bytes + e.length]
    <3>1. array = [a EXCEPT !.entries = entries, !.bytes = @ + e.length]
      BY ONLY <2>1
    <3> HIDE DEF array
    <3>2. QED BY ONLY <2>2, <3>1
  <2>4. a.capacity \in Nat /\ a.bytes + e.length \in Nat
    BY <1>1, <1>2, <2>1
  <2> HIDE DEF array
  <2>5. array \in ArrayType
    BY ONLY <2>3, <2>4, entries \in Seq(EntryType) DEF ArrayType
  <2>6. QED BY ONLY <2>1, <2>3, <2>5
<1>5. /\ \A i \in 1..n : i # k => more[i] = arrays[i]
      /\ more[k] = array
      /\ DOMAIN more = 1..n
  <2>1. DOMAIN more = 1..n
    BY <1>n
  <2>2. \A i \in 1..n : i # k => more[i] = arrays[i]
    BY <1>n
  <2>3. more[k] = array
    BY <1>n, <1>1 DEF ArrayType
  <2>4. QED BY <2>1, <2>2, <2>3
<1>6. /\ grown.arrays = more /\ grown.references = list.references
      /\ grown.totalCount = list.totalCount + 1
      /\ grown.totalBytes = list.totalBytes + e.length
      /\ grown = [references |-> list.references, arrays |-> more,
                  totalCount |-> list.totalCount + 1,
                  totalBytes |-> list.totalBytes + e.length]
  <2>1. list = [references |-> list.references, arrays |-> list.arrays,
                totalCount |-> list.totalCount, totalBytes |-> list.totalBytes]
    BY DEF ListType
  <2>2. grown = [references |-> list.references, arrays |-> more,
                 totalCount |-> list.totalCount + 1,
                 totalBytes |-> list.totalBytes + e.length]
    <3>1. grown = [list EXCEPT !.arrays = more, !.totalCount = @ + 1,
                               !.totalBytes = @ + e.length]
      BY DEF Grown
    <3> HIDE DEF more, grown
    <3>2. QED BY ONLY <2>1, <3>1
  <2> HIDE DEF more, grown
  <2>3. QED BY ONLY <2>2
<1>6a. more = [i \in 1..n |-> more[i]]
  BY <1>n
<1> HIDE DEF array, more, grown
<1>7. more \in Seq(ArrayType) /\ Len(more) = n
  <2>1. \A i \in 1..n : arrays[i] \in ArrayType
    BY <1>n, ArrayOf
  <2>2. \A i \in 1..n : more[i] \in ArrayType
    BY <1>4, <1>5, <2>1
  <2>3. PICK m \in [1..n -> ArrayType] : m = more
    BY <1>6a, <2>2
  <2>4. m \in Seq(ArrayType) /\ Len(m) = n
    OBVIOUS
  <2>5. QED BY <2>3, <2>4
<1>8. grown \in ListType
  BY <1>2, <1>3, <1>6, <1>7 DEF ListType
<1>9. SameBut(arrays, more, k)
  BY <1>n, <1>5, <1>7 DEF SameBut
<1>10. Len(array.entries) <= array.capacity /\ array.bytes = Bytes(array.entries)
  <2>1. Len(arrays[k].entries) <= arrays[k].capacity /\ arrays[k].bytes = Bytes(arrays[k].entries)
    BY DEF Counted
  <2>2. Len(arrays[k].entries) # arrays[k].capacity
    BY DEF Full
  <2>3. Len(arrays[k].entries) \in Nat
    BY <1>1, LenProperties
  <2>4. QED BY <1>1, <1>4, <2>1, <2>2, <2>3
<1>11. Counted(more)
  BY <1>n, <1>5, <1>7, <1>10 DEF Counted
<1>12. QED BY <1>4, <1>5, <1>6, <1>8, <1>9, <1>11 DEF grown

(* One more entry at the end, or at the front, of a sequence of entries.   *)
Behindmost(entries, old, e) == entries = old \o <<e>>
Foremost(entries, old, e) == entries = <<e>> \o old

LEMMA OneMore ==
    ASSUME NEW entries \in Seq(EntryType), NEW old \in Seq(EntryType), NEW e \in EntryType,
           Behindmost(entries, old, e) \/ Foremost(entries, old, e)
    PROVE  /\ Len(entries) = Len(old) + 1
           /\ Bytes(entries) = Bytes(old) + e.length
           /\ \A b : Uses(entries, b) = Uses(old, b) + One(e.buffer, b)
<1>0. /\ <<e>> \in Seq(EntryType) /\ Len(<<e>>) = 1 /\ Bytes(<<e>>) = e.length
      /\ e.length \in Nat /\ Bytes(old) \in Nat
  BY BytesOne, BytesType DEF EntryType
<1>1. PICK one \in Seq(EntryType) : one = <<e>> /\ Len(one) = 1 /\ Bytes(one) = e.length
  BY <1>0
<1>2. CASE Behindmost(entries, old, e)
  <2>1. entries = old \o one
    BY <1>1, <1>2 DEF Behindmost
  <2>2. Bytes(entries) = Bytes(old) + Bytes(one)
    BY <2>1, BytesConcat
  <2>3. Len(entries) = Len(old) + Len(one)
    BY ONLY <2>1, one \in Seq(EntryType), old \in Seq(EntryType), ConcatProperties
  <2>4. \A b : Uses(entries, b) = Uses(old, b) + One(e.buffer, b)
    BY <1>2, UsesAppend DEF Behindmost
  <2>5. QED BY <1>1, <2>2, <2>3, <2>4
<1>3. CASE Foremost(entries, old, e)
  <2>1. entries = one \o old
    BY <1>1, <1>3 DEF Foremost
  <2>2. Bytes(entries) = Bytes(one) + Bytes(old)
    BY <2>1, BytesConcat
  <2>3. Len(entries) = Len(one) + Len(old)
    BY ONLY <2>1, one \in Seq(EntryType), old \in Seq(EntryType), ConcatProperties
  <2>4. \A b : Uses(entries, b) = Uses(old, b) + One(e.buffer, b)
    BY <1>3, UsesCons DEF Foremost
  <2>5. Len(old) \in Nat
    BY LenProperties
  <2>6. QED BY <1>0, <1>1, <2>2, <2>3, <2>4, <2>5
<1>4. QED BY <1>2, <1>3

LEMMA AddAtEnd ==
    ASSUME NEW old \in Seq(EntryType), NEW e \in EntryType
    PROVE  /\ Append(old, e) \in Seq(EntryType)
           /\ Behindmost(Append(old, e), old, e)
<1>1. Append(old, e) \in Seq(EntryType)
  BY AppendProperties
<1>2. Append(old, e) = old \o <<e>>
  BY AppendIsConcat
<1>3. QED BY <1>1, <1>2 DEF Behindmost

(* Where the loop moves at most one entry, it makes room.                  *)
LEMMA ShiftedShape ==
    ASSUME NEW old \in Seq(EntryType), Len(old) <= 1, NEW e \in EntryType
    PROVE  /\ Shifted(old, e) \in Seq(EntryType)
           /\ Foremost(Shifted(old, e), old, e)
<1>n. PICK n \in Nat : n = Len(old) /\ n <= 1
  OBVIOUS
<1>1. PICK shifted : shifted = Shifted(old, e)
  OBVIOUS
<1>2. shifted = [i \in 1..(n + 1) |-> IF i = 1 THEN e ELSE old[1]]
  BY <1>n, <1>1 DEF Shifted
<1>3. n = 1 => old[1] \in EntryType
  <2> SUFFICES ASSUME n = 1 PROVE old[1] \in EntryType
    OBVIOUS
  <2>1. 1 \in 1..Len(old)
    BY <1>n
  <2>2. QED BY <2>1, EntryOf
<1>4. shifted \in [1..(n + 1) -> EntryType]
  <2>1. \A i \in 1..(n + 1) : i # 1 => n = 1
    BY <1>n
  <2>2. \A i \in 1..(n + 1) : (IF i = 1 THEN e ELSE old[1]) \in EntryType
    BY <1>3, <2>1
  <2>3. QED BY <1>2, <2>2
<1>5. shifted \in Seq(EntryType) /\ Len(shifted) = n + 1
  <2>1. PICK m \in [1..(n + 1) -> EntryType] : m = shifted
    BY <1>4
  <2>2. m \in Seq(EntryType) /\ Len(m) = n + 1
    OBVIOUS
  <2>3. QED BY <2>1, <2>2
<1>6. <<e>> \in Seq(EntryType) /\ Len(<<e>>) = 1 /\ <<e>>[1] = e
  OBVIOUS
<1>7. PICK one \in Seq(EntryType) : one = <<e>> /\ Len(one) = 1 /\ one[1] = e
  BY <1>6
<1>8. PICK r \in Seq(EntryType) : r = one \o old
  BY ConcatProperties
<1>9. Len(r) = Len(one) + Len(old)
      /\ \A i \in 1..(Len(one) + Len(old)) :
            r[i] = IF i <= Len(one) THEN one[i] ELSE old[i - Len(one)]
  BY ONLY <1>8, one \in Seq(EntryType), old \in Seq(EntryType), ConcatProperties
<1>10. ASSUME NEW i \in 1..(n + 1) PROVE r[i] = shifted[i]
  <2>1. CASE i = 1
    BY <1>2, <1>7, <1>9, <2>1, <1>n
  <2>2. CASE i # 1
    <3>1. i = 2 /\ i - 1 = 1
      BY <1>n, <2>2
    <3>2. QED BY <1>2, <1>7, <1>9, <1>n, <2>2, <3>1
  <2>3. QED BY <2>1, <2>2
<1>11. r = shifted
  BY <1>n, <1>5, <1>7, <1>9, <1>10, SeqEqual
<1>12. QED BY <1>1, <1>5, <1>7, <1>8, <1>11 DEF Foremost

(* What an insertion keeps of a list and adds to it.                       *)
Keeps(list, more, e) ==
    /\ Sound(more)
    /\ more.references = list.references
    /\ Entries(more) \in Seq(EntryType)
    /\ \A b : Uses(Entries(more), b) = Uses(Entries(list), b) + One(e.buffer, b)

LEMMA GrownKeeps ==
    ASSUME NEW list \in ListType, Sound(list), NEW e \in EntryType,
           NEW more \in ListType, Counted(more.arrays),
           more.references = list.references,
           more.totalCount = list.totalCount + 1,
           more.totalBytes = list.totalBytes + e.length,
           \/ Behindmost(Entries(more), Entries(list), e)
           \/ Foremost(Entries(more), Entries(list), e)
    PROVE  Keeps(list, more, e)
<1>1. /\ Entries(list) \in Seq(EntryType) /\ Entries(list) = Flat(list.arrays)
      /\ Entries(more) \in Seq(EntryType) /\ Entries(more) = Flat(more.arrays)
  BY ListParts
<1>2. /\ Len(Entries(more)) = Len(Entries(list)) + 1
      /\ Bytes(Entries(more)) = Bytes(Entries(list)) + e.length
      /\ \A b : Uses(Entries(more), b) = Uses(Entries(list), b) + One(e.buffer, b)
  BY <1>1, OneMore
<1>3. list.totalCount = Len(Entries(list)) /\ list.totalBytes = Bytes(Entries(list))
  BY DEF Sound
<1>4. Sound(more)
  BY <1>1, <1>2, <1>3, SoundIs
<1>5. QED BY <1>1, <1>2, <1>4 DEF Keeps

LEMMA AppendedShape ==
    ASSUME NEW list \in ListType, Sound(list), NEW e \in EntryType
    PROVE  /\ Appended(list, e) \in ListType
           /\ Behindmost(Entries(Appended(list, e)), Entries(list), e)
           /\ Keeps(list, Appended(list, e), e)
<1>1. list.arrays \in Seq(ArrayType) /\ Counted(list.arrays)
  BY ListParts, SoundIs
<1>2. PICK tail : tail = TailWithRoom(list.arrays)
  OBVIOUS
<1>3. /\ tail \in Seq(ArrayType) /\ Counted(tail) /\ tail # <<>>
      /\ ~Full(tail[Len(tail)]) /\ Last(tail) = tail[Len(tail)]
      /\ Flat(tail) = Flat(list.arrays)
  BY <1>1, <1>2, TailShape
<1>4. PICK n \in Nat : n = Len(tail) /\ n \in 1..Len(tail)
  <2>1. Len(tail) \in Nat /\ Len(tail) # 0
    BY <1>3, EmptySeq
  <2>2. QED BY <2>1
<1>5. PICK old \in Seq(EntryType) : old = tail[n].entries
  BY <1>3, <1>4, ArrayOf
<1>6. PICK entries \in Seq(EntryType) :
         entries = Append(old, e) /\ Behindmost(entries, old, e)
  BY AddAtEnd
<1>7. PICK grown : grown = Grown(list, tail, n, entries, e)
  OBVIOUS
<1>8. Appended(list, e) = grown
  BY <1>2, <1>3, <1>4, <1>5, <1>6, <1>7 DEF Appended
<1>9. Len(entries) = Len(old) + 1 /\ Bytes(entries) = Bytes(old) + e.length
  BY <1>6, OneMore
<1>10. /\ grown \in ListType /\ Counted(grown.arrays)
       /\ SameBut(tail, grown.arrays, n)
       /\ grown.arrays[n].entries = entries
       /\ grown.references = list.references
       /\ grown.totalCount = list.totalCount + 1
       /\ grown.totalBytes = list.totalBytes + e.length
  BY <1>3, <1>4, <1>5, <1>7, <1>9, GrownShape
<1>11. grown.arrays \in Seq(ArrayType) /\ Len(grown.arrays) = n
  BY <1>4, <1>10, ListParts DEF SameBut
<1>12. PICK flat \in Seq(EntryType) : Before(flat, tail) /\ Before(flat, grown.arrays)
  BY <1>3, <1>4, <1>10, <1>11, FlatLast
<1>13. Flat(tail) = flat \o old /\ Flat(grown.arrays) = flat \o entries
  BY <1>4, <1>5, <1>10, <1>11, <1>12 DEF Before
<1>14. <<e>> \in Seq(EntryType)
  OBVIOUS
<1>15. PICK one \in Seq(EntryType) : one = <<e>>
  BY <1>14
<1>16. Associate(flat, old, one)
  BY Associates
<1>17. Flat(grown.arrays) = Flat(tail) \o <<e>>
  BY ONLY <1>6, <1>13, <1>15, <1>16 DEF Associate, Behindmost
<1>18. Entries(grown) = Flat(grown.arrays) /\ Entries(list) = Flat(list.arrays)
  BY <1>10, ListParts
<1>19. Behindmost(Entries(grown), Entries(list), e)
  BY ONLY <1>3, <1>17, <1>18 DEF Behindmost
<1>20. QED BY <1>8, <1>10, <1>19, GrownKeeps

LEMMA PrependedShape ==
    ASSUME NEW list \in ListType, Sound(list), NEW e \in EntryType,
           list.arrays # <<>>, ShiftsRight(list)
    PROVE  /\ Prepended(list, e) \in ListType
           /\ Foremost(Entries(Prepended(list, e)), Entries(list), e)
           /\ Keeps(list, Prepended(list, e), e)
<1>1. list.arrays \in Seq(ArrayType) /\ Counted(list.arrays)
  BY ListParts, SoundIs
<1>2. PICK heads : heads = HeadWithRoom(list.arrays)
  OBVIOUS
<1>3. /\ heads \in Seq(ArrayType) /\ Counted(heads) /\ heads # <<>>
      /\ ~Full(heads[1]) /\ Head(heads) = heads[1]
      /\ Flat(heads) = Flat(list.arrays)
      /\ heads[1].entries = <<>> \/ heads = list.arrays
  BY <1>1, <1>2, HeadShape
<1>4. 1 \in 1..Len(heads)
  <2>1. Len(heads) \in Nat /\ Len(heads) # 0
    BY <1>3, EmptySeq
  <2>2. QED BY <2>1
<1>5. PICK old \in Seq(EntryType) : old = heads[1].entries
  BY <1>3, <1>4, ArrayOf
<1>6. Len(old) <= 1
  <2>1. CASE heads[1].entries = <<>>
    BY <1>5, <2>1
  <2>2. CASE heads = list.arrays
    BY <1>3, <1>5, <2>2 DEF ShiftsRight
  <2>3. QED BY <1>3, <2>1, <2>2
<1>7. PICK entries \in Seq(EntryType) :
         entries = Shifted(old, e) /\ Foremost(entries, old, e)
  BY <1>6, ShiftedShape
<1>8. PICK grown : grown = Grown(list, heads, 1, entries, e)
  OBVIOUS
<1>9. Prepended(list, e) = grown
  BY <1>2, <1>3, <1>5, <1>7, <1>8 DEF Prepended
<1>10. Len(entries) = Len(old) + 1 /\ Bytes(entries) = Bytes(old) + e.length
  BY <1>7, OneMore
<1>11. /\ grown \in ListType /\ Counted(grown.arrays)
       /\ SameBut(heads, grown.arrays, 1)
       /\ grown.arrays[1].entries = entries
       /\ grown.references = list.references
       /\ grown.totalCount = list.totalCount + 1
       /\ grown.totalBytes = list.totalBytes + e.length
  BY <1>3, <1>4, <1>5, <1>8, <1>10, GrownShape
<1>12. grown.arrays \in Seq(ArrayType)
  BY <1>11, ListParts
<1>13. PICK flat \in Seq(EntryType) : Behind(flat, heads) /\ Behind(flat, grown.arrays)
  BY <1>3, <1>11, <1>12, FlatFirst
<1>14. Flat(heads) = old \o flat /\ Flat(grown.arrays) = entries \o flat
  BY <1>5, <1>11, <1>13 DEF Behind
<1>15. <<e>> \in Seq(EntryType)
  OBVIOUS
<1>16. PICK one \in Seq(EntryType) : one = <<e>>
  BY <1>15
<1>17. Associate(one, old, flat)
  BY Associates
<1>18. Flat(grown.arrays) = <<e>> \o Flat(heads)
  BY ONLY <1>7, <1>14, <1>16, <1>17 DEF Associate, Foremost
<1>19. Entries(grown) = Flat(grown.arrays) /\ Entries(list) = Flat(list.arrays)
  BY <1>11, ListParts
<1>20. Foremost(Entries(grown), Entries(list), e)
  BY ONLY <1>3, <1>18, <1>19 DEF Foremost
<1>21. QED BY <1>9, <1>11, <1>20, GrownKeeps

----------------------------------------------------------------------------
(* What a slice selects *)

Account == [offset : Nat, length : Nat, position : Nat, entries : Seq(EntryType)]

(* The two ways of Look, the one that takes and the one that passes by.    *)
Takes(acc, e) ==
    /\ acc.length # 0
    /\ acc.offset - acc.position >= 0
    /\ acc.offset < acc.position + e.length

TakenOf(acc, e) == Taken(e, acc.offset - acc.position, acc.length)
Piece(acc, e) ==
    [buffer |-> e.buffer, base |-> e.base + (acc.offset - acc.position),
     length |-> TakenOf(acc, e)]

LEMMA TakenType ==
    ASSUME NEW acc \in Account, NEW e \in EntryType, Takes(acc, e)
    PROVE  /\ TakenOf(acc, e) \in Nat /\ TakenOf(acc, e) <= acc.length
           /\ TakenOf(acc, e) <= e.length - (acc.offset - acc.position)
           /\ TakenOf(acc, e) \in {acc.length, e.length - (acc.offset - acc.position)}
           /\ Piece(acc, e) \in EntryType
<1>1. /\ acc.offset \in Nat /\ acc.length \in Nat /\ acc.position \in Nat
      /\ e.length \in Nat /\ e.base \in Nat /\ e.buffer \in Buffer
  BY DEF Account, EntryType
<1>2. /\ TakenOf(acc, e) \in Nat /\ TakenOf(acc, e) <= acc.length
      /\ TakenOf(acc, e) <= e.length - (acc.offset - acc.position)
      /\ TakenOf(acc, e) \in {acc.length, e.length - (acc.offset - acc.position)}
  BY <1>1 DEF Takes, TakenOf, Taken
<1>3. e.base + (acc.offset - acc.position) \in Nat
  BY <1>1 DEF Takes
<1>4. Piece(acc, e) \in EntryType
  BY <1>1, <1>2, <1>3 DEF Piece, EntryType
<1>5. QED BY <1>2, <1>4

LEMMA LookTakes ==
    ASSUME NEW acc \in Account, NEW e \in EntryType, Takes(acc, e)
    PROVE  Look(acc, e) = [offset   |-> acc.offset + TakenOf(acc, e),
                           length   |-> acc.length - TakenOf(acc, e),
                           position |-> acc.position + e.length,
                           entries  |-> Append(acc.entries, Piece(acc, e))]
BY DEF Look, Takes, TakenOf, Piece

LEMMA LookPasses ==
    ASSUME NEW acc \in Account, NEW e \in EntryType, ~Takes(acc, e)
    PROVE  Look(acc, e) = IF acc.length = 0 THEN acc
                          ELSE [offset |-> acc.offset, length |-> acc.length,
                                position |-> acc.position + e.length,
                                entries |-> acc.entries]
<1>1. acc = [offset |-> acc.offset, length |-> acc.length,
             position |-> acc.position, entries |-> acc.entries]
  BY DEF Account
<1>2. [acc EXCEPT !.position = @ + e.length]
        = [offset |-> acc.offset, length |-> acc.length,
           position |-> acc.position + e.length, entries |-> acc.entries]
  BY ONLY <1>1
<1>3. QED BY <1>2 DEF Look, Takes

LEMMA LookType ==
    ASSUME NEW acc \in Account, NEW e \in EntryType
    PROVE  Look(acc, e) \in Account /\ Len(Look(acc, e).entries) <= Len(acc.entries) + 1
<1>1. /\ acc.offset \in Nat /\ acc.length \in Nat /\ acc.position \in Nat
      /\ acc.entries \in Seq(EntryType) /\ e.length \in Nat
  BY DEF Account, EntryType
<1>2. Len(acc.entries) \in Nat
  BY <1>1, LenProperties
<1>3. PICK after : after = Look(acc, e)
  OBVIOUS
<1>4. CASE Takes(acc, e)
  <2>1. TakenOf(acc, e) \in Nat /\ TakenOf(acc, e) <= acc.length /\ Piece(acc, e) \in EntryType
    BY <1>4, TakenType
  <2>2. PICK entries \in Seq(EntryType) :
           entries = Append(acc.entries, Piece(acc, e)) /\ Len(entries) = Len(acc.entries) + 1
    <3>1. PICK old \in Seq(EntryType), piece \in EntryType :
             old = acc.entries /\ piece = Piece(acc, e)
      BY <1>1, <2>1
    <3>2. Append(old, piece) \in Seq(EntryType) /\ Len(Append(old, piece)) = Len(old) + 1
      BY AppendProperties
    <3>3. QED BY <3>1, <3>2
  <2>3. after = [offset   |-> acc.offset + TakenOf(acc, e),
                 length   |-> acc.length - TakenOf(acc, e),
                 position |-> acc.position + e.length,
                 entries  |-> entries]
    BY <1>3, <1>4, <2>2, LookTakes
  <2>4. after \in Account /\ after.entries = entries
    BY <1>1, <2>1, <2>3 DEF Account
  <2>5. QED BY <1>2, <1>3, <2>2, <2>4
<1>5. CASE ~Takes(acc, e)
  <2>1. after = IF acc.length = 0 THEN acc
                ELSE [offset |-> acc.offset, length |-> acc.length,
                      position |-> acc.position + e.length,
                      entries |-> acc.entries]
    BY <1>3, <1>5, LookPasses
  <2>2. after \in Account /\ after.entries = acc.entries
    BY <1>1, <2>1 DEF Account
  <2>3. QED BY <1>2, <1>3, <2>2
<1>6. QED BY <1>4, <1>5

(* What the walk knows before the first entry, and after each.             *)
AtFirst(offset, length) ==
    [offset |-> offset, length |-> length, position |-> 0, entries |-> <<>>]

Looked(f, entries, offset, length) ==
    /\ f[0] = AtFirst(offset, length)
    /\ \A i \in 1..Len(entries) : f[i] = Look(f[i - 1], entries[i])

LEMMA Looks ==
    ASSUME NEW entries \in Seq(EntryType), NEW offset \in Nat, NEW length \in Nat
    PROVE  \E f \in [0..Len(entries) -> Account] : Looked(f, entries, offset, length)
<1>n. PICK n \in Nat : n = Len(entries)
  OBVIOUS
<1> DEFINE step == [p \in Nat \X Account |->
                      IF p[1] \in 1..n THEN Look(p[2], entries[p[1]]) ELSE p[2]]
<1>1. \A i \in 1..n : entries[i] \in EntryType
  BY <1>n, EntryOf
<1>2. \A i \in 1..n : \A acc \in Account : Look(acc, entries[i]) \in Account
  BY <1>1, LookType
<1>3. step \in [Nat \X Account -> Account]
  BY <1>2
<1>4. ASSUME NEW i \in 1..n, NEW acc \in Account PROVE step[<<i, acc>>] = Look(acc, entries[i])
  <2> DEFINE p == <<i, acc>>
  <2>1. p \in Nat \X Account /\ p[1] = i /\ p[2] = acc
    OBVIOUS
  <2> HIDE DEF p
  <2>2. step[p] = Look(acc, entries[i])
    BY <2>1
  <2>3. QED BY <2>2 DEF p
<1> HIDE DEF step
<1>5. AtFirst(offset, length) \in Account
  BY DEF AtFirst, Account
<1>6. PICK f \in [0..n -> Account] : Rounds(f, n, AtFirst(offset, length), step)
  BY <1>3, <1>5, LoopEnds
<1>7. ASSUME NEW i \in 1..n PROVE f[i] = Look(f[i - 1], entries[i])
  <2>1. i - 1 \in 0..n
    OBVIOUS
  <2>2. f[i - 1] \in Account
    BY <2>1
  <2>3. QED BY <1>4, <1>6, <2>2 DEF Rounds
<1>8. QED BY <1>n, <1>6, <1>7 DEF Rounds, Looked

LEMMA SelectedIs ==
    ASSUME NEW entries \in Seq(EntryType), NEW offset \in Nat, NEW length \in Nat,
           NEW f \in [0..Len(entries) -> Account], Looked(f, entries, offset, length)
    PROVE  Selected(entries, offset, length) = f[Len(entries)].entries
<1>n. PICK n \in Nat : n = Len(entries)
  OBVIOUS
<1> DEFINE Step(g) == g = [i \in 0..n |-> IF i = 0 THEN AtFirst(offset, length)
                                          ELSE Look(g[i - 1], entries[i])]
           looked == CHOOSE g : Step(g)
<1>1. Selected(entries, offset, length) = looked[n].entries
  BY <1>n DEF Selected, AtFirst
<1>2. Step(f)
  <2>1. ASSUME NEW i \in 0..n
        PROVE  f[i] = IF i = 0 THEN AtFirst(offset, length) ELSE Look(f[i - 1], entries[i])
    <3>1. i # 0 => i \in 1..n
      OBVIOUS
    <3>2. QED BY <1>n, <3>1 DEF Looked
  <2>2. f = [i \in 0..n |-> f[i]]
    BY <1>n
  <2>3. QED BY <2>1, <2>2
<1>3. Step(looked)
  BY <1>2
<1> HIDE DEF looked
<1>4. \A i \in 0..n : looked[i] = IF i = 0 THEN AtFirst(offset, length)
                                  ELSE Look(looked[i - 1], entries[i])
  BY <1>3
<1> DEFINE T == {i \in Nat : i <= n => looked[i] = f[i]}
<1>5. 0 \in T
  BY <1>4 DEF Looked
<1>6. ASSUME NEW i \in Nat, i \in T PROVE i + 1 \in T
  <2> SUFFICES ASSUME i + 1 <= n PROVE looked[i + 1] = f[i + 1]
    OBVIOUS
  <2>1. i + 1 \in 0..n /\ i + 1 # 0 /\ (i + 1) - 1 = i /\ i + 1 \in 1..n
    OBVIOUS
  <2>2. looked[i + 1] = Look(looked[i], entries[i + 1])
    BY <1>4, <2>1
  <2>3. f[i + 1] = Look(f[i], entries[i + 1])
    BY <1>n, <2>1 DEF Looked
  <2>4. QED BY <1>6, <2>2, <2>3
<1> HIDE DEF T
<1>7. Nat \subseteq T
  BY <1>5, <1>6, Induction
<1>8. QED BY <1>n, <1>1, <1>7 DEF T

LEMMA SelectedShape ==
    ASSUME NEW entries \in Seq(EntryType), NEW offset \in Nat, NEW length \in Nat
    PROVE  /\ Selected(entries, offset, length) \in Seq(EntryType)
           /\ Len(Selected(entries, offset, length)) <= Len(entries)
<1>n. PICK n \in Nat : n = Len(entries)
  OBVIOUS
<1>1. PICK f \in [0..n -> Account] : Looked(f, entries, offset, length)
  BY <1>n, Looks
<1> DEFINE T == {i \in Nat : i <= n => f[i] \in Account /\ Len(f[i].entries) <= i}
<1>2. 0 \in T
  <2>1. AtFirst(offset, length) \in Account /\ AtFirst(offset, length).entries = <<>>
    BY DEF AtFirst, Account
  <2>2. QED BY <1>1, <2>1 DEF Looked
<1>3. ASSUME NEW i \in Nat, i \in T PROVE i + 1 \in T
  <2> SUFFICES ASSUME i + 1 <= n
               PROVE  f[i + 1] \in Account /\ Len(f[i + 1].entries) <= i + 1
    OBVIOUS
  <2>1. i + 1 \in 1..n /\ (i + 1) - 1 = i /\ i <= n
    OBVIOUS
  <2>2. PICK acc \in Account : acc = f[i] /\ Len(acc.entries) <= i
    BY <1>3, <2>1
  <2>3. PICK e \in EntryType : e = entries[i + 1]
    BY <1>n, <2>1, EntryOf
  <2>4. f[i + 1] = Look(acc, e)
    BY <1>n, <1>1, <2>1, <2>2, <2>3 DEF Looked
  <2>5. Look(acc, e) \in Account /\ Len(Look(acc, e).entries) <= Len(acc.entries) + 1
    BY LookType
  <2>6. Look(acc, e).entries \in Seq(EntryType) /\ acc.entries \in Seq(EntryType)
    BY <2>5 DEF Account
  <2>7. Len(Look(acc, e).entries) \in Nat /\ Len(acc.entries) \in Nat
    BY <2>6, LenProperties
  <2>8. QED BY <2>2, <2>4, <2>5, <2>7
<1> HIDE DEF T
<1>4. Nat \subseteq T
  BY <1>2, <1>3, Induction
<1>5. f[n] \in Account /\ Len(f[n].entries) <= n
  BY <1>4 DEF T
<1>6. f[n].entries \in Seq(EntryType)
  BY <1>5 DEF Account
<1>7. QED BY <1>n, <1>1, <1>5, <1>6, SelectedIs

LEMMA SliceShape ==
    ASSUME NEW list \in ListType, Sound(list), NEW offset \in Nat, NEW length \in Nat
    PROVE  LET slice == SliceOf(list, offset, length)
           IN /\ slice \in ListType /\ Sound(slice) /\ slice.references = 1
              /\ Entries(slice) = Selected(Entries(list), offset, length)
<1>1. Entries(list) \in Seq(EntryType) /\ list.totalCount \in Nat
  BY ListParts
<1>2. PICK entries \in Seq(EntryType) :
         /\ entries = Selected(Entries(list), offset, length)
         /\ Len(entries) <= Len(Entries(list))
  BY <1>1, SelectedShape
<1>3. Bytes(entries) \in Nat /\ Len(entries) \in Nat
  BY BytesType, LenProperties
<1>4. PICK array : array = [capacity |-> list.totalCount, entries |-> entries,
                            bytes |-> Bytes(entries)]
  OBVIOUS
<1>5. /\ array \in ArrayType /\ array.entries = entries
      /\ array.capacity = list.totalCount /\ array.bytes = Bytes(entries)
  BY <1>1, <1>3, <1>4 DEF ArrayType
<1>6. <<array>> \in Seq(ArrayType) /\ Len(<<array>>) = 1 /\ <<array>>[1] = array
  BY <1>5
<1>7. PICK arrays \in Seq(ArrayType) :
         arrays = <<array>> /\ Len(arrays) = 1 /\ arrays[1] = array
  BY <1>6
<1>8. PICK slice : slice = SliceOf(list, offset, length)
  OBVIOUS
<1>9. slice = [references |-> 1, arrays |-> arrays,
               totalCount |-> Len(entries), totalBytes |-> Bytes(entries)]
  BY <1>2, <1>4, <1>7, <1>8 DEF SliceOf
<1>10. /\ slice \in ListType /\ slice.arrays = arrays /\ slice.references = 1
       /\ slice.totalCount = Len(entries) /\ slice.totalBytes = Bytes(entries)
  BY <1>3, <1>9 DEF ListType
<1>11. Flat(arrays) = entries
  <2>1. <<>> \in Seq(ArrayType) /\ Len(<<>>) = 0
    OBVIOUS
  <2>2. PICK none \in Seq(ArrayType) : none = <<>> /\ Len(none) = 0
    BY <2>1
  <2>3. Before(Flat(none), arrays)
    <3>1. Len(arrays) = Len(none) + 1 /\ \A i \in 1..Len(none) : arrays[i] = none[i]
      BY <1>7, <2>2
    <3>2. QED BY <3>1, FlatBefore
  <2>4. Flat(none) = <<>>
    <3>1. Parts(none) = <<>>
      BY <2>2 DEF Parts
    <3>2. QED BY <3>1, FlattenEmpty DEF Flat
  <2>5. Flat(arrays) = <<>> \o entries
    BY <1>5, <1>7, <2>3, <2>4 DEF Before
  <2>6. <<>> \o entries = entries
    BY ConcatEmptySeq
  <2>7. QED BY <2>5, <2>6
<1>12. Counted(arrays)
  <2>1. list.totalCount = Len(Entries(list))
    BY DEF Sound
  <2>2. QED BY <1>2, <1>5, <1>7, <2>1 DEF Counted
<1>13. Entries(slice) = entries
  BY <1>10, <1>11, ListParts
<1>14. Sound(slice)
  BY <1>10, <1>11, <1>12, SoundIs
<1>15. QED BY <1>2, <1>8, <1>10, <1>13, <1>14

----------------------------------------------------------------------------
(* Counting over all lists and all IOVecs *)

PlacesIn(all, b) ==
    UNION {{l} \X Naming(Entries(all[l]), b) : l \in {k \in List : all[k] # NoList}}

UsesIn(list, b) == IF list = NoList THEN 0 ELSE Uses(Entries(list), b)

LEMMA PlacesAreIn == \A b : Places(b) = PlacesIn(lists, b)
BY DEF Places, PlacesIn, Live

(* When one list changes, the places that name b change by its uses of b.  *)
LEMMA OneListCounts ==
    ASSUME NEW all \in [List -> ListType \cup {NoList}], NEW l \in List,
           NEW new \in ListType \cup {NoList}, NEW b,
           IsFiniteSet(PlacesIn(all, b))
    PROVE  /\ IsFiniteSet(PlacesIn([all EXCEPT ![l] = new], b))
           /\ Cardinality(PlacesIn([all EXCEPT ![l] = new], b)) =
                 Cardinality(PlacesIn(all, b)) - UsesIn(all[l], b) + UsesIn(new, b)
           /\ Cardinality(PlacesIn(all, b)) \in Nat
           /\ UsesIn(all[l], b) \in 0..Cardinality(PlacesIn(all, b))
           /\ UsesIn(new, b) \in Nat
<1> DEFINE Of(list) == IF list = NoList THEN {} ELSE {l} \X Naming(Entries(list), b)
           rest == UNION {{k} \X Naming(Entries(all[k]), b) :
                            k \in {k \in List \ {l} : all[k] # NoList}}
           next == [all EXCEPT ![l] = new]
<1>1. PlacesIn(all, b) = rest \cup Of(all[l])
  BY DEF PlacesIn
<1>2. PlacesIn(next, b) = rest \cup Of(new)
  <2>1. next[l] = new /\ \A k \in List \ {l} : next[k] = all[k]
    OBVIOUS
  <2> HIDE DEF next
  <2>2. QED BY <2>1 DEF PlacesIn
<1>3. \A list : rest \cap Of(list) = {}
  OBVIOUS
<1>4. ASSUME NEW list \in ListType \cup {NoList}
      PROVE  IsFiniteSet(Of(list)) /\ Cardinality(Of(list)) = UsesIn(list, b)
             /\ UsesIn(list, b) \in Nat
  <2>1. CASE list = NoList
    BY <2>1, FS_EmptySet DEF UsesIn
  <2>2. CASE list # NoList
    <3>1. Entries(list) \in Seq(EntryType)
      BY <2>2, ListParts
    <3>2. PICK named : named = Naming(Entries(list), b)
      OBVIOUS
    <3>3. IsFiniteSet(named) /\ Cardinality(named) \in Nat
          /\ Cardinality(named) = Uses(Entries(list), b)
      BY <3>1, <3>2, UsesType DEF Uses
    <3>4. IsFiniteSet({l}) /\ Cardinality({l}) = 1
      BY FS_Singleton
    <3>5. /\ IsFiniteSet({l} \X named)
          /\ Cardinality({l} \X named) = 1 * Cardinality(named)
      BY <3>3, <3>4, FS_Product
    <3>6. QED BY <2>2, <3>2, <3>3, <3>5 DEF UsesIn
  <2>3. QED BY <2>1, <2>2
<1> HIDE DEF rest, Of, next
<1>5. IsFiniteSet(rest)
  <2>1. rest \in SUBSET PlacesIn(all, b)
    BY <1>1
  <2>2. QED BY <2>1, FS_Subset
<1>6. ASSUME NEW list \in ListType \cup {NoList}
      PROVE  /\ IsFiniteSet(rest \cup Of(list))
             /\ Cardinality(rest \cup Of(list)) = Cardinality(rest) + UsesIn(list, b)
             /\ UsesIn(list, b) \in Nat /\ Cardinality(rest) \in Nat
  <2>1. Cardinality(rest \cap Of(list)) = 0
    BY <1>3, FS_EmptySet
  <2>2. /\ IsFiniteSet(rest \cup Of(list))
        /\ Cardinality(rest \cup Of(list)) =
              Cardinality(rest) + Cardinality(Of(list)) - Cardinality(rest \cap Of(list))
    BY <1>4, <1>5, FS_Union
  <2>3. Cardinality(rest) \in Nat
    BY <1>5, FS_CardinalityType
  <2>4. QED BY <1>4, <2>1, <2>2, <2>3
<1>7. all[l] \in ListType \cup {NoList}
  OBVIOUS
<1>8. /\ IsFiniteSet(PlacesIn(next, b))
      /\ Cardinality(PlacesIn(next, b)) = Cardinality(rest) + UsesIn(new, b)
      /\ UsesIn(new, b) \in Nat
  BY <1>2, <1>6
<1>9. /\ Cardinality(PlacesIn(all, b)) = Cardinality(rest) + UsesIn(all[l], b)
      /\ UsesIn(all[l], b) \in Nat /\ Cardinality(rest) \in Nat
  BY <1>1, <1>6, <1>7
<1>10. QED BY <1>8, <1>9 DEF next

UsersIn(all, l) == {v \in IOVec : all[v] # NoIOVec /\ all[v].encodingBuffer = l}
LiveIn(all) == {v \in IOVec : all[v] # NoIOVec}

(* One IOVec more, and one less, for list l.                               *)
JoinedBy(all, next, v, l) ==
    /\ all[v] = NoIOVec /\ next[v] # NoIOVec /\ next[v].encodingBuffer = l
    /\ \A w \in IOVec \ {v} : next[w] = all[w]

LEMMA OneVecMore ==
    ASSUME NEW all, NEW next, NEW v \in IOVec, NEW l \in List,
           JoinedBy(all, next, v, l), IsFiniteSet(LiveIn(all))
    PROVE  /\ IsFiniteSet(LiveIn(next))
           /\ \A k \in List \ {l} : UsersIn(next, k) = UsersIn(all, k)
           /\ Cardinality(UsersIn(next, l)) = Cardinality(UsersIn(all, l)) + 1
<1>1. /\ all[v] = NoIOVec /\ next[v] # NoIOVec /\ next[v].encodingBuffer = l
      /\ \A w \in IOVec \ {v} : next[w] = all[w]
  BY DEF JoinedBy
<1>2. LiveIn(next) = LiveIn(all) \cup {v}
  BY <1>1 DEF LiveIn
<1>3. IsFiniteSet(LiveIn(next))
  BY <1>2, FS_AddElement
<1>4. \A k \in List \ {l} : UsersIn(next, k) = UsersIn(all, k)
  BY <1>1 DEF UsersIn
<1>5. UsersIn(next, l) = UsersIn(all, l) \cup {v} /\ v \notin UsersIn(all, l)
  BY <1>1 DEF UsersIn
<1>6. IsFiniteSet(UsersIn(all, l))
  <2>1. UsersIn(all, l) \in SUBSET LiveIn(all)
    BY DEF UsersIn, LiveIn
  <2>2. QED BY <2>1, FS_Subset
<1>7. Cardinality(UsersIn(next, l)) = Cardinality(UsersIn(all, l)) + 1
  BY <1>5, <1>6, FS_AddElement
<1>8. QED BY <1>3, <1>4, <1>7

LEMMA OneVecLess ==
    ASSUME NEW all, DOMAIN all = IOVec, NEW v \in IOVec, all[v] # NoIOVec,
           IsFiniteSet(LiveIn(all))
    PROVE  LET next == [all EXCEPT ![v] = NoIOVec]
               l == all[v].encodingBuffer
           IN /\ IsFiniteSet(LiveIn(next))
              /\ \A k \in List \ {l} : UsersIn(next, k) = UsersIn(all, k)
              /\ Cardinality(UsersIn(next, l)) = Cardinality(UsersIn(all, l)) - 1
              /\ Cardinality(UsersIn(all, l)) \in Nat \ {0}
<1> DEFINE next == [all EXCEPT ![v] = NoIOVec]
<1>l. PICK l : l = all[v].encodingBuffer
  OBVIOUS
<1>1. next[v] = NoIOVec /\ \A w \in IOVec \ {v} : next[w] = all[w]
  OBVIOUS
<1> HIDE DEF next
<1>2. LiveIn(next) \in SUBSET LiveIn(all)
  BY <1>1 DEF LiveIn
<1>3. IsFiniteSet(LiveIn(next))
  BY <1>2, FS_Subset
<1>4. \A k \in List \ {l} : UsersIn(next, k) = UsersIn(all, k)
  BY <1>l, <1>1 DEF UsersIn
<1>5. UsersIn(next, l) = UsersIn(all, l) \ {v} /\ v \in UsersIn(all, l)
  BY <1>l, <1>1 DEF UsersIn
<1>6. IsFiniteSet(UsersIn(all, l))
  <2>1. UsersIn(all, l) \in SUBSET LiveIn(all)
    BY DEF UsersIn, LiveIn
  <2>2. QED BY <2>1, FS_Subset
<1>7. Cardinality(UsersIn(next, l)) = Cardinality(UsersIn(all, l)) - 1
  BY <1>5, <1>6, FS_RemoveElement
<1>8. Cardinality(UsersIn(all, l)) \in Nat \ {0}
  BY <1>5, <1>6, FS_CardinalityType, FS_EmptySet
<1>9. QED BY <1>l, <1>3, <1>4, <1>7, <1>8 DEF next

----------------------------------------------------------------------------
(* The inductive invariant *)

EncodingTypeOK ==
    /\ lists \in [List -> ListType \cup {NoList}]
    /\ vecs \in [IOVec -> VecType \cup {NoIOVec}]
    /\ handles \in [List -> Nat]
    /\ held \in [Buffer -> Nat]
    /\ position \in [Buffer -> Nat]
    /\ \A b \in Buffer : position[b] <= lengthOf[b]

BufferCounts ==
    /\ references \in [Buffer -> Nat]
    /\ \A b \in Buffer :
          /\ IsFiniteSet(Places(b))
          /\ references[b] = held[b] + Cardinality(Places(b))

Users(l) == handles[l] + Cardinality(UsersIn(vecs, l))

UsersExact(l) == IF l \in Live THEN lists[l].references = Users(l) ELSE Users(l) = 0

ListCounts == IsFiniteSet(LiveVec) /\ \A l \in List : UsersExact(l)

EncodingInv == EncodingTypeOK /\ Accounted /\ BufferCounts /\ ListCounts

LEMMA AccountedIs == Accounted <=> \A l \in Live : Sound(lists[l])
BY DEF Accounted, Sound

LEMMA CountsAreExact == BufferCounts /\ ListCounts => EncodingReferencesExact
<1>1. \A l \in List :
         {v \in LiveVec : vecs[v].encodingBuffer = l} = UsersIn(vecs, l)
  BY DEF LiveVec, UsersIn
<1>2. QED
  BY <1>1 DEF BufferCounts, ListCounts, EncodingReferencesExact, UsersExact, Users

(* What holds of any list there is.                                        *)
LEMMA LiveList ==
    ASSUME EncodingInv, NEW l \in Live
    PROVE  /\ l \in List /\ lists[l] \in ListType /\ Sound(lists[l])
           /\ Entries(lists[l]) \in Seq(EntryType)
<1>1. Sound(lists[l])
  BY AccountedIs DEF EncodingInv
<1>2. lists[l] \in ListType /\ l \in List
  BY <1>1 DEF Sound, Live
<1>3. QED BY <1>1, <1>2, ListParts

LEMMA UsersType ==
    ASSUME EncodingInv, NEW l \in List
    PROVE  /\ handles[l] \in Nat /\ Cardinality(UsersIn(vecs, l)) \in Nat
           /\ handles[l] > 0 => l \in Live
           /\ l \in Live => lists[l].references = Users(l)
           /\ l \notin Live => handles[l] = 0 /\ Cardinality(UsersIn(vecs, l)) = 0
<1>1. handles[l] \in Nat
  BY DEF EncodingInv, EncodingTypeOK
<1>2. Cardinality(UsersIn(vecs, l)) \in Nat
  <2>1. UsersIn(vecs, l) \in SUBSET LiveVec
    BY DEF UsersIn, LiveVec
  <2>2. QED BY <2>1, FS_Subset, FS_CardinalityType DEF EncodingInv, ListCounts
<1>3. UsersExact(l)
  BY DEF EncodingInv, ListCounts
<1>4. QED BY <1>1, <1>2, <1>3 DEF UsersExact, Users

(* The buffers' counts stay exact when one list changes, what the client   *)
(* holds, and the counts by as much.                                       *)
LEMMA OneListChanged ==
    ASSUME EncodingInv, NEW l \in List, NEW new, new = NoList \/ Sound(new),
           lists' = [lists EXCEPT ![l] = new],
           held' \in [Buffer -> Nat], references' \in [Buffer -> Int],
           \A b \in Buffer :
              references'[b] - held'[b] =
                 references[b] - held[b] + UsesIn(new, b) - UsesIn(lists[l], b)
    PROVE  /\ lists' \in [List -> ListType \cup {NoList}]
           /\ Accounted' /\ BufferCounts'
<1>1. new \in ListType \cup {NoList} /\ lists \in [List -> ListType \cup {NoList}]
  BY DEF EncodingInv, EncodingTypeOK, Sound
<1>2. lists' \in [List -> ListType \cup {NoList}]
  BY <1>1
<1>3. Accounted'
  <2>1. \A k \in Live : Sound(lists[k])
    BY AccountedIs DEF EncodingInv
  <2>2. \A k \in Live' : Sound(lists'[k])
    BY <1>1, <2>1 DEF Live
  <2>3. QED BY <2>2 DEF Accounted, Sound
<1>4. ASSUME NEW b \in Buffer
      PROVE  /\ IsFiniteSet(Places(b)') /\ references'[b] \in Nat
             /\ references'[b] = held'[b] + Cardinality(Places(b)')
  <2>1. /\ IsFiniteSet(PlacesIn(lists, b))
        /\ references[b] = held[b] + Cardinality(PlacesIn(lists, b))
        /\ references[b] \in Nat /\ held[b] \in Nat
    BY PlacesAreIn DEF EncodingInv, BufferCounts, EncodingTypeOK
  <2>2. /\ IsFiniteSet(PlacesIn([lists EXCEPT ![l] = new], b))
        /\ Cardinality(PlacesIn([lists EXCEPT ![l] = new], b)) =
              Cardinality(PlacesIn(lists, b)) - UsesIn(lists[l], b) + UsesIn(new, b)
        /\ Cardinality(PlacesIn(lists, b)) \in Nat
        /\ UsesIn(lists[l], b) \in 0..Cardinality(PlacesIn(lists, b))
        /\ UsesIn(new, b) \in Nat
    BY <1>1, <2>1, OneListCounts, Zenon
  <2>3. /\ IsFiniteSet(PlacesIn(lists', b))
        /\ Cardinality(PlacesIn(lists', b)) =
              Cardinality(PlacesIn(lists, b)) - UsesIn(lists[l], b) + UsesIn(new, b)
    BY <2>2, Zenon
  <2>4. Places(b)' = PlacesIn(lists', b)
    BY DEF Places, PlacesIn, Live
  <2>5. references'[b] \in Int /\ held'[b] \in Nat
    OBVIOUS
  <2>6. references'[b] - held'[b] =
           references[b] - held[b] + UsesIn(new, b) - UsesIn(lists[l], b)
    OBVIOUS
  <2>7. PICK p \in Nat, q \in Nat, u \in Nat, w \in Nat :
           /\ p = Cardinality(PlacesIn(lists, b)) /\ u = UsesIn(lists[l], b)
           /\ w = UsesIn(new, b) /\ q = Cardinality(PlacesIn(lists', b))
    BY <2>2, <2>3, FS_CardinalityType
  <2>8. references'[b] = held'[b] + q
    BY ONLY <2>1, <2>3, <2>5, <2>6, <2>7
  <2>9. QED BY <2>3, <2>4, <2>5, <2>7, <2>8
<1>5. references' \in [Buffer -> Nat]
  BY <1>4
<1>6. BufferCounts'
  BY <1>4, <1>5 DEF BufferCounts
<1>7. QED BY <1>2, <1>3, <1>6

(* The users of one list change.                                           *)
LEMMA OneUsersChanged ==
    ASSUME EncodingInv, NEW l \in List,
           \A k \in List \ {l} : /\ lists'[k] = lists[k] /\ handles'[k] = handles[k]
                                 /\ UsersIn(vecs', k) = UsersIn(vecs, k),
           IsFiniteSet(LiveIn(vecs')),
           IF lists'[l] # NoList
           THEN lists'[l].references = handles'[l] + Cardinality(UsersIn(vecs', l))
           ELSE handles'[l] + Cardinality(UsersIn(vecs', l)) = 0
    PROVE  ListCounts'
<1>1. LiveVec' = LiveIn(vecs')
  BY DEF LiveVec, LiveIn
<1>2. ASSUME NEW k \in List
      PROVE  IF lists'[k] # NoList
             THEN lists'[k].references = handles'[k] + Cardinality(UsersIn(vecs', k))
             ELSE handles'[k] + Cardinality(UsersIn(vecs', k)) = 0
  <2>1. CASE k = l
    BY <2>1
  <2>2. CASE k # l
    <3>1. UsersExact(k)
      BY DEF EncodingInv, ListCounts
    <3>2. QED BY <2>2, <3>1 DEF UsersExact, Users, Live
  <2>3. QED BY <2>1, <2>2
<1>3. ASSUME NEW k \in List PROVE UsersExact(k)'
  <2>1. k \in Live' <=> lists'[k] # NoList
    BY DEF Live
  <2>2. Users(k)' = handles'[k] + Cardinality(UsersIn(vecs', k))
    BY DEF Users, UsersIn
  <2>3. QED BY <1>2, <2>1, <2>2 DEF UsersExact
<1>4. QED BY <1>1, <1>3 DEF ListCounts

----------------------------------------------------------------------------
(* The steps *)

LEMMA EmptyListShape ==
    /\ EmptyList \in ListType /\ Sound(EmptyList) /\ EmptyList.references = 1
    /\ \A b : UsesIn(EmptyList, b) = 0
    /\ Entries(EmptyList) = <<>>
<1>1. PICK none \in Seq(ArrayType) : none = <<>> /\ Len(none) = 0
  <2>1. <<>> \in Seq(ArrayType) /\ Len(<<>>) = 0
    OBVIOUS
  <2>2. QED BY <2>1
<1>2. EmptyList = [references |-> 1, arrays |-> none, totalCount |-> 0, totalBytes |-> 0]
  BY <1>1 DEF EmptyList
<1>3. /\ EmptyList \in ListType /\ EmptyList.arrays = none /\ EmptyList.references = 1
      /\ EmptyList.totalCount = 0 /\ EmptyList.totalBytes = 0
  BY <1>2 DEF ListType
<1>4. Flat(none) = <<>>
  <2>1. Parts(none) = <<>>
    BY <1>1 DEF Parts
  <2>2. QED BY <2>1, FlattenEmpty DEF Flat
<1>5. Entries(EmptyList) = <<>>
  BY <1>3, <1>4, ListParts
<1>6. Counted(none)
  BY <1>1 DEF Counted
<1>7. Len(<<>>) = 0
  OBVIOUS
<1>8. Sound(EmptyList)
  BY <1>3, <1>4, <1>6, <1>7, BytesEmpty, SoundIs
<1>9. \A b : UsesIn(EmptyList, b) = 0
  <2>1. EmptyList # NoList
    BY <1>3, NoneAssumption
  <2>2. QED BY <1>5, <2>1, UsesEmpty DEF UsesIn
<1>10. QED BY <1>3, <1>5, <1>8, <1>9

(* A list with another number of references, and nothing else changed.     *)
LEMMA Rereferenced ==
    ASSUME NEW list \in ListType, Sound(list), NEW k \in Nat \ {0}
    PROVE  LET new == [list EXCEPT !.references = k]
           IN /\ new \in ListType /\ Sound(new) /\ new.references = k
              /\ Entries(new) = Entries(list)
              /\ new # NoList
              /\ \A b : UsesIn(new, b) = UsesIn(list, b)
<1>1. PICK new : new = [list EXCEPT !.references = k]
  OBVIOUS
<1>2. /\ list.arrays \in Seq(ArrayType)
      /\ list.totalCount \in Nat /\ list.totalBytes \in Nat
  BY ListParts
<1>3. new = [references |-> k, arrays |-> list.arrays,
             totalCount |-> list.totalCount, totalBytes |-> list.totalBytes]
  BY <1>1 DEF ListType
<1>4. /\ new \in ListType /\ new.references = k /\ new.arrays = list.arrays
      /\ new.totalCount = list.totalCount /\ new.totalBytes = list.totalBytes
  BY <1>2, <1>3 DEF ListType
<1>5. Entries(new) = Entries(list)
  BY <1>4, ListParts
<1>6. Sound(new)
  BY <1>4, <1>5 DEF Sound
<1>7. new # NoList /\ list # NoList
  BY <1>4, NoneAssumption
<1>8. \A b : UsesIn(new, b) = UsesIn(list, b)
  BY <1>5, <1>7 DEF UsesIn
<1>9. QED BY <1>1, <1>4, <1>5, <1>6, <1>7, <1>8

LEMMA CreateKeeps ==
    ASSUME EncodingInv, NEW l \in List, Create(l)
    PROVE  EncodingInv'
<1>1. /\ l \notin Live /\ lists' = [lists EXCEPT ![l] = EmptyList]
      /\ handles' = [handles EXCEPT ![l] = 1]
      /\ vecs' = vecs /\ references' = references /\ held' = held /\ position' = position
  BY DEF Create, bufferVars
<1>2. /\ DOMAIN lists = List /\ DOMAIN handles = List
      /\ held \in [Buffer -> Nat] /\ references \in [Buffer -> Nat]
  BY DEF EncodingInv, EncodingTypeOK, BufferCounts
<1>3. \A b \in Buffer : UsesIn(EmptyList, b) = 0 /\ UsesIn(lists[l], b) = 0
  BY <1>1, EmptyListShape DEF UsesIn, Live
<1>4. Sound(EmptyList) /\ EmptyList.references = 1 /\ EmptyList # NoList
  BY EmptyListShape, NoneAssumption
<1>5. /\ lists' \in [List -> ListType \cup {NoList}] /\ Accounted' /\ BufferCounts'
  <2>1. \A b \in Buffer :
           references'[b] - held'[b] =
              references[b] - held[b] + UsesIn(EmptyList, b) - UsesIn(lists[l], b)
    BY <1>1, <1>2, <1>3
  <2>2. held' \in [Buffer -> Nat] /\ references' \in [Buffer -> Int]
    BY <1>1, <1>2
  <2>3. QED BY <1>1, <1>4, <2>1, <2>2, OneListChanged
<1>6. ListCounts'
  <2>1. \A k \in List \ {l} : /\ lists'[k] = lists[k] /\ handles'[k] = handles[k]
                              /\ UsersIn(vecs', k) = UsersIn(vecs, k)
    BY <1>1, <1>2
  <2>2. IsFiniteSet(LiveIn(vecs'))
    BY <1>1 DEF EncodingInv, ListCounts, LiveVec, LiveIn
  <2>3. Cardinality(UsersIn(vecs', l)) = 0
    BY <1>1, UsersType
  <2>4. lists'[l] = EmptyList /\ handles'[l] = 1
    BY <1>1, <1>2
  <2>5. QED BY <1>4, <2>1, <2>2, <2>3, <2>4, OneUsersChanged
<1>7. EncodingTypeOK'
  BY <1>1, <1>5 DEF EncodingInv, EncodingTypeOK
<1>8. QED BY <1>5, <1>6, <1>7 DEF EncodingInv

LEMMA AcquireKeeps ==
    ASSUME EncodingInv, NEW l \in List, Acquire(l)
    PROVE  EncodingInv'
<1>1. PICK n \in Nat : /\ n = lists[l].references
                       /\ l \in Live /\ lists[l] \in ListType /\ Sound(lists[l])
  BY UsersType, LiveList, ListParts DEF Acquire
<1>2. PICK new : /\ new = [lists[l] EXCEPT !.references = n + 1]
                 /\ Sound(new) /\ new.references = n + 1 /\ new # NoList
                 /\ \A b : UsesIn(new, b) = UsesIn(lists[l], b)
  <2>1. PICK old \in ListType, m \in Nat \ {0} : old = lists[l] /\ m = n + 1 /\ Sound(old)
    BY <1>1
  <2>2. PICK new : new = [old EXCEPT !.references = m]
    OBVIOUS
  <2>3. /\ Sound(new) /\ new.references = m /\ new # NoList
        /\ \A b : UsesIn(new, b) = UsesIn(old, b)
    BY <2>1, <2>2, Rereferenced
  <2>4. QED BY <2>1, <2>2, <2>3
<1>3. /\ lists' = [lists EXCEPT ![l] = new]
      /\ handles' = [handles EXCEPT ![l] = @ + 1]
      /\ vecs' = vecs /\ references' = references /\ held' = held /\ position' = position
  BY <1>1, <1>2 DEF Acquire, bufferVars
<1>4. /\ DOMAIN lists = List /\ handles \in [List -> Nat]
      /\ held \in [Buffer -> Nat] /\ references \in [Buffer -> Nat]
  BY DEF EncodingInv, EncodingTypeOK, BufferCounts
<1>5. /\ lists' \in [List -> ListType \cup {NoList}] /\ Accounted' /\ BufferCounts'
  <2>1. \A b \in Buffer : UsesIn(lists[l], b) \in Nat
    BY <1>1, LiveList, UsesType, NoneAssumption DEF UsesIn
  <2>2. \A b \in Buffer :
           references'[b] - held'[b] =
              references[b] - held[b] + UsesIn(new, b) - UsesIn(lists[l], b)
    BY <1>2, <1>3, <1>4, <2>1
  <2>3. held' \in [Buffer -> Nat] /\ references' \in [Buffer -> Int]
    BY <1>3, <1>4
  <2>4. QED BY <1>2, <1>3, <2>2, <2>3, OneListChanged
<1>6. ListCounts'
  <2>1. \A k \in List \ {l} : /\ lists'[k] = lists[k] /\ handles'[k] = handles[k]
                              /\ UsersIn(vecs', k) = UsersIn(vecs, k)
    BY <1>3, <1>4
  <2>2. IsFiniteSet(LiveIn(vecs'))
    BY <1>3 DEF EncodingInv, ListCounts, LiveVec, LiveIn
  <2>3. /\ n = handles[l] + Cardinality(UsersIn(vecs, l))
        /\ handles[l] \in Nat /\ Cardinality(UsersIn(vecs, l)) \in Nat
    BY <1>1, UsersType DEF Users
  <2>4. /\ lists'[l] = new /\ handles'[l] = handles[l] + 1
        /\ UsersIn(vecs', l) = UsersIn(vecs, l)
    BY <1>3, <1>4
  <2>5. lists'[l].references = handles'[l] + Cardinality(UsersIn(vecs', l))
    <3>1. new.references = (handles[l] + 1) + Cardinality(UsersIn(vecs, l))
      BY <1>2, <2>3
    <3>2. QED BY <2>4, <3>1
  <2>6. QED BY <1>2, <2>1, <2>2, <2>4, <2>5, OneUsersChanged
<1>7. EncodingTypeOK'
  BY <1>3, <1>4, <1>5 DEF EncodingInv, EncodingTypeOK
<1>8. QED BY <1>5, <1>6, <1>7 DEF EncodingInv

(* A reference to a list given up: the last one gives up its buffers.      *)
LEMMA ReleaseListKeeps ==
    ASSUME EncodingInv, NEW l \in Live, ReleaseList(l)
    PROVE  /\ held' = held /\ position' = position
           /\ lists' \in [List -> ListType \cup {NoList}] /\ Accounted' /\ BufferCounts'
           /\ \A k \in List \ {l} : lists'[k] = lists[k]
           /\ IF lists'[l] # NoList
              THEN lists'[l].references = lists[l].references - 1
              ELSE lists[l].references = 1
<1>1. PICK n \in Nat \ {0} : /\ n = lists[l].references /\ l \in List
                             /\ lists[l] \in ListType /\ Sound(lists[l])
                             /\ Entries(lists[l]) \in Seq(EntryType)
                             /\ lists[l] # NoList
  BY LiveList, ListParts DEF Live
<1>2. /\ DOMAIN lists = List
      /\ held \in [Buffer -> Nat] /\ references \in [Buffer -> Nat]
  BY DEF EncodingInv, EncodingTypeOK, BufferCounts
<1>3. \A b : UsesIn(lists[l], b) = Uses(Entries(lists[l]), b) /\ UsesIn(lists[l], b) \in Nat
  BY <1>1, UsesType DEF UsesIn
<1>4. CASE n > 1
  <2>1. PICK new : /\ new = [lists[l] EXCEPT !.references = n - 1]
                   /\ Sound(new) /\ new.references = n - 1 /\ new # NoList
                   /\ \A b : UsesIn(new, b) = UsesIn(lists[l], b)
    <3>1. PICK old \in ListType, m \in Nat \ {0} : old = lists[l] /\ m = n - 1 /\ Sound(old)
      <4>1. n - 1 \in Nat \ {0}
        BY <1>4
      <4>2. QED BY <1>1, <4>1
    <3>2. PICK new : new = [old EXCEPT !.references = m]
      OBVIOUS
    <3>3. /\ Sound(new) /\ new.references = m /\ new # NoList
          /\ \A b : UsesIn(new, b) = UsesIn(old, b)
      BY <3>1, <3>2, Rereferenced
    <3>4. QED BY <3>1, <3>2, <3>3
  <2>2. /\ lists' = [lists EXCEPT ![l] = new]
        /\ references' = references /\ held' = held /\ position' = position
    BY <1>1, <1>4, <2>1 DEF ReleaseList, bufferVars
  <2>3. \A b \in Buffer :
           references'[b] - held'[b] =
              references[b] - held[b] + UsesIn(new, b) - UsesIn(lists[l], b)
    BY <1>2, <1>3, <2>1, <2>2
  <2>4. held' \in [Buffer -> Nat] /\ references' \in [Buffer -> Int]
    BY <1>2, <2>2
  <2>5. lists' \in [List -> ListType \cup {NoList}] /\ Accounted' /\ BufferCounts'
    BY <1>1, <2>1, <2>2, <2>3, <2>4, OneListChanged
  <2>6. lists'[l] = new /\ \A k \in List \ {l} : lists'[k] = lists[k]
    BY <1>1, <1>2, <2>2
  <2>7. QED BY <1>1, <2>1, <2>2, <2>5, <2>6
<1>5. CASE ~(n > 1)
  <2>1. /\ lists' = [lists EXCEPT ![l] = NoList]
        /\ references' = [b \in Buffer |-> references[b] - Uses(Entries(lists[l]), b)]
        /\ held' = held /\ position' = position
    BY <1>1, <1>5 DEF ReleaseList, FinalReferences
  <2>2. \A b \in Buffer :
           references'[b] - held'[b] =
              references[b] - held[b] + UsesIn(NoList, b) - UsesIn(lists[l], b)
    <3>1. \A b \in Buffer : UsesIn(NoList, b) = 0
      BY DEF UsesIn
    <3>2. QED BY <1>2, <1>3, <2>1, <3>1
  <2>3. held' \in [Buffer -> Nat] /\ references' \in [Buffer -> Int]
    BY <1>2, <1>3, <2>1
  <2>4. lists' \in [List -> ListType \cup {NoList}] /\ Accounted' /\ BufferCounts'
    BY <1>1, <2>1, <2>2, <2>3, OneListChanged
  <2>5. lists'[l] = NoList /\ \A k \in List \ {l} : lists'[k] = lists[k]
    BY <1>1, <1>2, <2>1
  <2>6. n = 1
    BY <1>5
  <2>7. QED BY <1>1, <2>1, <2>4, <2>5, <2>6
<1>6. QED BY <1>4, <1>5

LEMMA ReleaseKeeps ==
    ASSUME EncodingInv, NEW l \in List, Release(l)
    PROVE  EncodingInv'
<1>1. /\ handles[l] > 0 /\ ReleaseList(l)
      /\ handles' = [handles EXCEPT ![l] = @ - 1] /\ vecs' = vecs
  BY DEF Release
<1>2. /\ l \in Live /\ lists[l].references = handles[l] + Cardinality(UsersIn(vecs, l))
      /\ handles[l] \in Nat /\ Cardinality(UsersIn(vecs, l)) \in Nat
  BY <1>1, UsersType DEF Users
<1>3. /\ held' = held /\ position' = position
      /\ lists' \in [List -> ListType \cup {NoList}] /\ Accounted' /\ BufferCounts'
      /\ \A k \in List \ {l} : lists'[k] = lists[k]
      /\ IF lists'[l] # NoList
         THEN lists'[l].references = lists[l].references - 1
         ELSE lists[l].references = 1
  BY <1>1, <1>2, ReleaseListKeeps
<1>4. handles \in [List -> Nat]
  BY DEF EncodingInv, EncodingTypeOK
<1>5. ListCounts'
  <2>1. \A k \in List \ {l} : /\ lists'[k] = lists[k] /\ handles'[k] = handles[k]
                              /\ UsersIn(vecs', k) = UsersIn(vecs, k)
    BY <1>1, <1>3, <1>4
  <2>2. IsFiniteSet(LiveIn(vecs'))
    BY <1>1 DEF EncodingInv, ListCounts, LiveVec, LiveIn
  <2>3. handles'[l] = handles[l] - 1 /\ UsersIn(vecs', l) = UsersIn(vecs, l)
    BY <1>1, <1>4
  <2>4. IF lists'[l] # NoList
        THEN lists'[l].references = handles'[l] + Cardinality(UsersIn(vecs', l))
        ELSE handles'[l] + Cardinality(UsersIn(vecs', l)) = 0
    BY <1>1, <1>2, <1>3, <2>3
  <2>5. QED BY <2>1, <2>2, <2>4, OneUsersChanged
<1>6. EncodingTypeOK'
  BY <1>1, <1>3, <1>4 DEF EncodingInv, EncodingTypeOK
<1>7. QED BY <1>3, <1>5, <1>6 DEF EncodingInv

LEMMA IOVecReleaseKeeps ==
    ASSUME EncodingInv, NEW v \in IOVec, IOVecRelease(v)
    PROVE  EncodingInv'
<1>1. PICK l : l = vecs[v].encodingBuffer
  OBVIOUS
<1>2. /\ v \in LiveVec /\ ReleaseList(l) /\ vecs' = [vecs EXCEPT ![v] = NoIOVec]
      /\ handles' = handles
  BY <1>1 DEF IOVecRelease
<1>3. /\ vecs \in [IOVec -> VecType \cup {NoIOVec}] /\ vecs[v] # NoIOVec
      /\ handles \in [List -> Nat] /\ IsFiniteSet(LiveIn(vecs))
  BY <1>2 DEF EncodingInv, EncodingTypeOK, LiveVec, ListCounts, LiveIn
<1>4. l \in List
  BY <1>1, <1>3 DEF VecType
<1>5. /\ IsFiniteSet(LiveIn(vecs'))
      /\ \A k \in List \ {l} : UsersIn(vecs', k) = UsersIn(vecs, k)
      /\ Cardinality(UsersIn(vecs', l)) = Cardinality(UsersIn(vecs, l)) - 1
      /\ Cardinality(UsersIn(vecs, l)) \in Nat \ {0}
  BY <1>1, <1>2, <1>3, OneVecLess
<1>6. /\ l \in Live /\ lists[l].references = handles[l] + Cardinality(UsersIn(vecs, l))
      /\ handles[l] \in Nat
  BY <1>4, <1>5, UsersType DEF Users
<1>7. /\ held' = held /\ position' = position
      /\ lists' \in [List -> ListType \cup {NoList}] /\ Accounted' /\ BufferCounts'
      /\ \A k \in List \ {l} : lists'[k] = lists[k]
      /\ IF lists'[l] # NoList
         THEN lists'[l].references = lists[l].references - 1
         ELSE lists[l].references = 1
  BY <1>2, <1>6, ReleaseListKeeps
<1>8. ListCounts'
  <2>1. \A k \in List \ {l} : /\ lists'[k] = lists[k] /\ handles'[k] = handles[k]
                              /\ UsersIn(vecs', k) = UsersIn(vecs, k)
    BY <1>2, <1>5, <1>7
  <2>2. PICK u \in Nat \ {0}, w \in Nat : /\ u = Cardinality(UsersIn(vecs, l))
                                         /\ w = Cardinality(UsersIn(vecs', l)) /\ w = u - 1
    BY <1>5
  <2>3. IF lists'[l] # NoList
        THEN lists'[l].references = handles'[l] + Cardinality(UsersIn(vecs', l))
        ELSE handles'[l] + Cardinality(UsersIn(vecs', l)) = 0
    BY <1>2, <1>6, <1>7, <2>2
  <2>4. QED BY <1>4, <1>5, <2>1, <2>3, OneUsersChanged
<1>9. EncodingTypeOK'
  BY <1>2, <1>3, <1>7 DEF EncodingInv, EncodingTypeOK
<1>10. QED BY <1>7, <1>8, <1>9 DEF EncodingInv

LEMMA EntryForType ==
    ASSUME EncodingInv, NEW b \in Buffer
    PROVE  EntryFor(b) \in EntryType /\ EntryFor(b).buffer = b
<1>1. /\ position[b] \in Nat /\ lengthOf[b] \in Nat /\ position[b] <= lengthOf[b]
  BY EncodingAssumption DEF EncodingInv, EncodingTypeOK
<1>2. lengthOf[b] - position[b] \in Nat
  BY <1>1
<1>3. QED BY <1>1, <1>2 DEF EntryFor, EntryType

LEMMA InsertKeeps ==
    ASSUME EncodingInv, NEW l \in List, NEW b \in Buffer, NEW new,
           Insert(l, b, new), Keeps(lists[l], new, EntryFor(b))
    PROVE  EncodingInv'
<1>1. /\ handles[l] > 0 /\ lists' = [lists EXCEPT ![l] = new]
      /\ references' = [references EXCEPT ![b] = @ + 1]
      /\ vecs' = vecs /\ handles' = handles /\ held' = held /\ position' = position
  BY DEF Insert
<1>2. /\ l \in Live /\ lists[l] \in ListType /\ Entries(lists[l]) \in Seq(EntryType)
      /\ lists[l].references = handles[l] + Cardinality(UsersIn(vecs, l))
  BY <1>1, UsersType, LiveList DEF Users
<1>3. /\ Sound(new) /\ new \in ListType /\ new.references = lists[l].references
      /\ \A c : Uses(Entries(new), c) = Uses(Entries(lists[l]), c) + One(b, c)
  BY EntryForType DEF Keeps, Sound
<1>4. new # NoList /\ lists[l] # NoList
  BY <1>2, <1>3, NoneAssumption
<1>5. /\ lists \in [List -> ListType \cup {NoList}]
      /\ held \in [Buffer -> Nat] /\ references \in [Buffer -> Nat]
  BY DEF EncodingInv, EncodingTypeOK, BufferCounts
<1>6. /\ lists' \in [List -> ListType \cup {NoList}] /\ Accounted' /\ BufferCounts'
  <2>1. \A c \in Buffer : references'[c] = references[c] + One(b, c)
    BY <1>1, <1>5 DEF One
  <2>2. \A c \in Buffer : /\ UsesIn(new, c) = UsesIn(lists[l], c) + One(b, c)
                          /\ UsesIn(lists[l], c) \in Nat /\ One(b, c) \in Nat
    BY <1>2, <1>3, <1>4, UsesType DEF UsesIn, One
  <2>3. \A c \in Buffer :
           references'[c] - held'[c] =
              references[c] - held[c] + UsesIn(new, c) - UsesIn(lists[l], c)
    BY <1>1, <1>5, <2>1, <2>2
  <2>4. held' \in [Buffer -> Nat] /\ references' \in [Buffer -> Int]
    BY <1>1, <1>5
  <2>5. QED BY <1>1, <1>3, <2>3, <2>4, OneListChanged
<1>7. ListCounts'
  <2>1. \A k \in List \ {l} : /\ lists'[k] = lists[k] /\ handles'[k] = handles[k]
                              /\ UsersIn(vecs', k) = UsersIn(vecs, k)
    BY <1>1, <1>5
  <2>2. IsFiniteSet(LiveIn(vecs'))
    BY <1>1 DEF EncodingInv, ListCounts, LiveVec, LiveIn
  <2>3. lists'[l] = new /\ handles'[l] = handles[l] /\ UsersIn(vecs', l) = UsersIn(vecs, l)
    BY <1>1, <1>5
  <2>4. lists'[l].references = handles'[l] + Cardinality(UsersIn(vecs', l))
    BY <1>2, <1>3, <2>3
  <2>5. QED BY <1>4, <2>1, <2>2, <2>3, <2>4, OneUsersChanged
<1>8. EncodingTypeOK'
  BY <1>1, <1>6 DEF EncodingInv, EncodingTypeOK
<1>9. QED BY <1>6, <1>7, <1>8 DEF EncodingInv

LEMMA AppendKeeps ==
    ASSUME EncodingInv, NEW l \in List, NEW b \in Buffer, AppendBuffer(l, b)
    PROVE  EncodingInv'
<1>1. PICK new : new = Appended(lists[l], EntryFor(b)) /\ Insert(l, b, new)
  BY DEF AppendBuffer
<1>2. l \in Live
  BY <1>1, UsersType DEF Insert
<1>3. Keeps(lists[l], new, EntryFor(b))
  BY <1>1, <1>2, LiveList, EntryForType, AppendedShape
<1>4. QED BY <1>1, <1>3, InsertKeeps

LEMMA PrependKeeps ==
    ASSUME EncodingInv, NEW l \in Live, NEW b \in Buffer,
           lists[l].arrays # <<>>, ShiftsRight(lists[l]), PrependBuffer(l, b)
    PROVE  EncodingInv'
<1>1. PICK new : new = Prepended(lists[l], EntryFor(b)) /\ Insert(l, b, new)
  BY DEF PrependBuffer
<1>2. Keeps(lists[l], new, EntryFor(b)) /\ l \in List
  BY <1>1, LiveList, EntryForType, PrependedShape
<1>3. QED BY <1>1, <1>2, InsertKeeps

LEMMA SliceKeeps ==
    ASSUME EncodingInv, NEW l \in List, NEW slice \in List,
           NEW offset \in Nat, NEW length \in Nat, Slice(l, slice, offset, length)
    PROVE  EncodingInv'
<1>1. PICK new : /\ new = SliceOf(lists[l], offset, length)
                 /\ lists' = [lists EXCEPT ![slice] = new]
                 /\ references' = [b \in Buffer |-> references[b] + Uses(Entries(new), b)]
  BY DEF Slice
<1>2. /\ handles[l] > 0 /\ slice \notin Live
      /\ handles' = [handles EXCEPT ![slice] = 1]
      /\ vecs' = vecs /\ held' = held /\ position' = position
  BY DEF Slice
<1>3. l \in Live
  BY <1>2, UsersType
<1>4. new \in ListType /\ Sound(new) /\ new.references = 1
  BY <1>1, <1>3, LiveList, SliceShape
<1>5. new # NoList /\ Entries(new) \in Seq(EntryType)
  BY <1>4, NoneAssumption, ListParts
<1>6. /\ DOMAIN lists = List /\ handles \in [List -> Nat]
      /\ held \in [Buffer -> Nat] /\ references \in [Buffer -> Nat]
  BY DEF EncodingInv, EncodingTypeOK, BufferCounts
<1>7. \A b \in Buffer : /\ UsesIn(new, b) = Uses(Entries(new), b) /\ UsesIn(new, b) \in Nat
                        /\ UsesIn(lists[slice], b) = 0
  BY <1>2, <1>5, UsesType DEF UsesIn, Live
<1>8. /\ lists' \in [List -> ListType \cup {NoList}] /\ Accounted' /\ BufferCounts'
  <2>1. \A b \in Buffer :
           references'[b] - held'[b] =
              references[b] - held[b] + UsesIn(new, b) - UsesIn(lists[slice], b)
    BY <1>1, <1>2, <1>6, <1>7
  <2>2. held' \in [Buffer -> Nat] /\ references' \in [Buffer -> Int]
    BY <1>1, <1>2, <1>6, <1>7
  <2>3. QED BY <1>1, <1>4, <2>1, <2>2, OneListChanged
<1>9. ListCounts'
  <2>1. \A k \in List \ {slice} : /\ lists'[k] = lists[k] /\ handles'[k] = handles[k]
                                  /\ UsersIn(vecs', k) = UsersIn(vecs, k)
    BY <1>1, <1>2, <1>6
  <2>2. IsFiniteSet(LiveIn(vecs'))
    BY <1>2 DEF EncodingInv, ListCounts, LiveVec, LiveIn
  <2>3. Cardinality(UsersIn(vecs', slice)) = 0
    BY <1>2, UsersType
  <2>4. lists'[slice] = new /\ handles'[slice] = 1
    BY <1>1, <1>2, <1>6
  <2>5. QED BY <1>4, <1>5, <2>1, <2>2, <2>3, <2>4, OneUsersChanged
<1>10. EncodingTypeOK'
  BY <1>2, <1>6, <1>8 DEF EncodingInv, EncodingTypeOK
<1>11. QED BY <1>8, <1>9, <1>10 DEF EncodingInv

LEMMA CreateIOVecKeeps ==
    ASSUME EncodingInv, NEW l \in List, NEW v \in IOVec, CreateIOVec(l, v)
    PROVE  EncodingInv'
<1>1. PICK n \in Nat : /\ n = lists[l].references
                       /\ l \in Live /\ lists[l] \in ListType /\ Sound(lists[l])
                       /\ Entries(lists[l]) \in Seq(EntryType)
                       /\ lists[l].totalCount \in Nat
  BY UsersType, LiveList, ListParts DEF CreateIOVec
<1>2. PICK new : /\ new = [lists[l] EXCEPT !.references = n + 1]
                 /\ Sound(new) /\ new.references = n + 1 /\ new # NoList
                 /\ \A b : UsesIn(new, b) = UsesIn(lists[l], b)
  <2>1. PICK old \in ListType, m \in Nat \ {0} : old = lists[l] /\ m = n + 1 /\ Sound(old)
    BY <1>1
  <2>2. PICK new : new = [old EXCEPT !.references = m]
    OBVIOUS
  <2>3. /\ Sound(new) /\ new.references = m /\ new # NoList
        /\ \A b : UsesIn(new, b) = UsesIn(old, b)
    BY <2>1, <2>2, Rereferenced
  <2>4. QED BY <2>1, <2>2, <2>3
<1>3. PICK vec : vec = [encodingBuffer |-> l, iovcnt |-> lists[l].totalCount,
                        iov |-> Entries(lists[l])]
  OBVIOUS
<1>4. vec \in VecType /\ vec.encodingBuffer = l
  BY <1>1, <1>3 DEF VecType
<1>5. /\ v \notin LiveVec
      /\ lists' = [lists EXCEPT ![l] = new] /\ vecs' = [vecs EXCEPT ![v] = vec]
      /\ handles' = handles
      /\ references' = references /\ held' = held /\ position' = position
  BY <1>1, <1>2, <1>3 DEF CreateIOVec, bufferVars
<1>6. /\ DOMAIN lists = List /\ handles \in [List -> Nat]
      /\ vecs \in [IOVec -> VecType \cup {NoIOVec}] /\ IsFiniteSet(LiveIn(vecs))
      /\ held \in [Buffer -> Nat] /\ references \in [Buffer -> Nat]
  BY DEF EncodingInv, EncodingTypeOK, BufferCounts, ListCounts, LiveVec, LiveIn
<1>7. /\ lists' \in [List -> ListType \cup {NoList}] /\ Accounted' /\ BufferCounts'
  <2>1. \A b \in Buffer : UsesIn(lists[l], b) \in Nat
    BY <1>1, UsesType DEF UsesIn
  <2>2. \A b \in Buffer :
           references'[b] - held'[b] =
              references[b] - held[b] + UsesIn(new, b) - UsesIn(lists[l], b)
    BY <1>2, <1>5, <1>6, <2>1
  <2>3. held' \in [Buffer -> Nat] /\ references' \in [Buffer -> Int]
    BY <1>5, <1>6
  <2>4. QED BY <1>2, <1>5, <2>2, <2>3, OneListChanged
<1>8. /\ IsFiniteSet(LiveIn(vecs'))
      /\ \A k \in List \ {l} : UsersIn(vecs', k) = UsersIn(vecs, k)
      /\ Cardinality(UsersIn(vecs', l)) = Cardinality(UsersIn(vecs, l)) + 1
  <2>1. vecs[v] = NoIOVec /\ DOMAIN vecs = IOVec
    BY <1>5, <1>6 DEF LiveVec
  <2>2. JoinedBy(vecs, vecs', v, l)
    BY <1>4, <1>5, <2>1, NoneAssumption DEF JoinedBy
  <2>3. QED BY <1>6, <2>2, OneVecMore
<1>9. ListCounts'
  <2>1. \A k \in List \ {l} : /\ lists'[k] = lists[k] /\ handles'[k] = handles[k]
                              /\ UsersIn(vecs', k) = UsersIn(vecs, k)
    BY <1>5, <1>6, <1>8
  <2>2. /\ n = handles[l] + Cardinality(UsersIn(vecs, l))
        /\ handles[l] \in Nat /\ Cardinality(UsersIn(vecs, l)) \in Nat
    BY <1>1, UsersType DEF Users
  <2>3. lists'[l] = new /\ handles'[l] = handles[l]
    BY <1>5, <1>6
  <2>4. lists'[l].references = handles'[l] + Cardinality(UsersIn(vecs', l))
    <3>1. new.references = handles[l] + (Cardinality(UsersIn(vecs, l)) + 1)
      BY <1>2, <2>2
    <3>2. QED BY <1>8, <2>3, <3>1
  <2>5. QED BY <1>2, <1>8, <2>1, <2>3, <2>4, OneUsersChanged
<1>10. EncodingTypeOK'
  <2>1. vecs' \in [IOVec -> VecType \cup {NoIOVec}]
    BY <1>4, <1>5, <1>6
  <2>2. QED BY <1>5, <1>6, <1>7, <2>1 DEF EncodingInv, EncodingTypeOK
<1>11. QED BY <1>7, <1>9, <1>10 DEF EncodingInv

(* A step that leaves the lists, their handles and the IOVecs alone.       *)
LEMMA ListsAlone ==
    ASSUME EncodingInv, UNCHANGED <<lists, vecs, handles>>
    PROVE  Accounted' /\ ListCounts' /\ \A b : Places(b)' = Places(b)
<1>1. Accounted' /\ \A b : Places(b)' = Places(b)
  BY DEF EncodingInv, Accounted, Live, Places
<1>2. ListCounts'
  BY DEF EncodingInv, ListCounts, UsersExact, Users, UsersIn, Live, LiveVec
<1>3. QED BY <1>1, <1>2

LEMMA ReadBufferKeeps ==
    ASSUME EncodingInv, NEW b \in Buffer, ReadBuffer(b)
    PROVE  EncodingInv'
<1>1. /\ position[b] < lengthOf[b] /\ position' = [position EXCEPT ![b] = @ + 1]
      /\ lists' = lists /\ vecs' = vecs /\ handles' = handles
      /\ references' = references /\ held' = held
  BY DEF ReadBuffer
<1>2. Accounted' /\ ListCounts' /\ \A c : Places(c)' = Places(c)
  BY <1>1, ListsAlone
<1>3. BufferCounts'
  BY <1>1, <1>2 DEF EncodingInv, BufferCounts
<1>4. EncodingTypeOK'
  <2>1. /\ position \in [Buffer -> Nat] /\ lengthOf \in [Buffer -> Nat]
        /\ \A c \in Buffer : position[c] <= lengthOf[c]
    BY EncodingAssumption DEF EncodingInv, EncodingTypeOK
  <2>2. position' \in [Buffer -> Nat] /\ \A c \in Buffer : position'[c] <= lengthOf[c]
    BY <1>1, <2>1
  <2>3. QED BY <1>1, <2>2 DEF EncodingInv, EncodingTypeOK
<1>5. QED BY <1>2, <1>3, <1>4 DEF EncodingInv

LEMMA ReleaseBufferKeeps ==
    ASSUME EncodingInv, NEW b \in Buffer, ReleaseBuffer(b)
    PROVE  EncodingInv'
<1>1. /\ held[b] > 0 /\ held' = [held EXCEPT ![b] = @ - 1]
      /\ references' = [references EXCEPT ![b] = @ - 1]
      /\ lists' = lists /\ vecs' = vecs /\ handles' = handles /\ position' = position
  BY DEF ReleaseBuffer
<1>2. Accounted' /\ ListCounts' /\ \A c : Places(c)' = Places(c)
  BY <1>1, ListsAlone
<1>3. held \in [Buffer -> Nat] /\ references \in [Buffer -> Nat]
  BY DEF EncodingInv, EncodingTypeOK, BufferCounts
<1>4. held' \in [Buffer -> Nat]
  BY <1>1, <1>3
<1>5. BufferCounts'
  <2>1. ASSUME NEW c \in Buffer
        PROVE  /\ IsFiniteSet(Places(c)) /\ references'[c] \in Nat
               /\ references'[c] = held'[c] + Cardinality(Places(c))
    <3>1. PICK n \in Nat : /\ n = Cardinality(Places(c)) /\ IsFiniteSet(Places(c))
                           /\ references[c] = held[c] + n
      BY FS_CardinalityType DEF EncodingInv, BufferCounts
    <3>2. QED BY <1>1, <1>3, <3>1
  <2>2. references' \in [Buffer -> Nat]
    BY <1>1, <1>3, <2>1
  <2>3. QED BY <1>2, <2>1, <2>2 DEF BufferCounts
<1>6. EncodingTypeOK'
  BY <1>1, <1>4 DEF EncodingInv, EncodingTypeOK
<1>7. QED BY <1>2, <1>5, <1>6 DEF EncodingInv

LEMMA InitHolds == Init => EncodingInv
<1> SUFFICES ASSUME Init PROVE EncodingInv
  OBVIOUS
<1>1. Live = {} /\ LiveVec = {}
  BY DEF Init, Live, LiveVec
<1>2. EncodingTypeOK
  BY EncodingAssumption DEF Init, EncodingTypeOK
<1>3. Accounted
  BY <1>1 DEF Accounted
<1>4. BufferCounts
  <2>1. \A b \in Buffer : Places(b) = {}
    BY <1>1 DEF Places
  <2>2. QED BY <2>1, FS_EmptySet DEF Init, BufferCounts
<1>5. ListCounts
  <2>1. \A l \in List : UsersIn(vecs, l) = {} /\ handles[l] = 0
    BY DEF Init, UsersIn
  <2>2. QED BY <1>1, <2>1, FS_EmptySet DEF ListCounts, UsersExact, Users
<1>6. QED BY <1>2, <1>3, <1>4, <1>5 DEF EncodingInv

LEMMA StepHolds == EncodingInv /\ [CarefulNext]_encodingVars => EncodingInv'
<1> SUFFICES ASSUME EncodingInv, [CarefulNext]_encodingVars PROVE EncodingInv'
  OBVIOUS
<1>1. CASE ListStep
  <2>1. CASE \E l \in List : Create(l) \/ Acquire(l) \/ Release(l)
    BY <2>1, CreateKeeps, AcquireKeeps, ReleaseKeeps
  <2>2. CASE \E l \in List, b \in Buffer : AppendBuffer(l, b)
    BY <2>2, AppendKeeps
  <2>3. CASE \E l, slice \in List :
                \E offset, length \in 0..(MaxEntries + 1) : Slice(l, slice, offset, length)
    <3>1. \A n \in 0..(MaxEntries + 1) : n \in Nat
      OBVIOUS
    <3>2. QED BY <2>3, <3>1, SliceKeeps
  <2>4. CASE \E l \in List, v \in IOVec : CreateIOVec(l, v)
    BY <2>4, CreateIOVecKeeps
  <2>5. CASE \E v \in IOVec : IOVecRelease(v)
    BY <2>5, IOVecReleaseKeeps
  <2>6. QED BY <1>1, <2>1, <2>2, <2>3, <2>4, <2>5 DEF ListStep
<1>2. CASE BufferStep
  BY <1>2, ReadBufferKeeps, ReleaseBufferKeeps DEF BufferStep
<1>3. CASE \E l \in List, b \in Buffer :
              l \in Live /\ lists[l].arrays # <<>> /\ ShiftsRight(lists[l]) /\ PrependBuffer(l, b)
  BY <1>3, PrependKeeps
<1>4. CASE UNCHANGED encodingVars
  <2>1. /\ lists' = lists /\ vecs' = vecs /\ handles' = handles
        /\ references' = references /\ held' = held /\ position' = position
    BY <1>4 DEF encodingVars, bufferVars
  <2>2. Accounted' /\ ListCounts' /\ \A c : Places(c)' = Places(c)
    BY <2>1, ListsAlone
  <2>3. BufferCounts' /\ EncodingTypeOK'
    BY <2>1, <2>2 DEF EncodingInv, BufferCounts, EncodingTypeOK
  <2>4. QED BY <2>2, <2>3 DEF EncodingInv
<1>5. QED BY <1>1, <1>2, <1>3, <1>4 DEF CarefulNext

(* What the list's counts rest on: types, and everything counted.          *)
THEOREM EncodingInvHolds == CarefulSpec => []EncodingInv
<1>1. Init => EncodingInv
  BY InitHolds
<1>2. EncodingInv /\ [CarefulNext]_encodingVars => EncodingInv'
  BY StepHolds
<1>3. QED BY <1>1, <1>2, PTL DEF CarefulSpec

(* Every list counts its entries and their bytes rightly, in each array    *)
(* and in all, and no array holds more than it has room for, so that       *)
(* CreateIOVec fills exactly the array it allocated (Accounted).           *)
THEOREM ListsAreAccounted == CarefulSpec => []Accounted
<1>1. EncodingInv => Accounted
  BY DEF EncodingInv
<1>2. QED BY <1>1, EncodingInvHolds, PTL

(* The counts of buffers and lists are exactly those of their users: of    *)
(* the client, of every entry of a list or of a slice, and of the IOVecs   *)
(* (EncodingReferencesExact).                                              *)
THEOREM EncodingReferencesAreExact == CarefulSpec => []EncodingReferencesExact
<1>1. EncodingInv => EncodingReferencesExact
  BY CountsAreExact DEF EncodingInv
<1>2. QED BY <1>1, EncodingInvHolds, PTL

----------------------------------------------------------------------------
(* The bytes a sequence of entries points at *)

Cell == Buffer \X Nat

Run(e) == [k \in 1..e.length |-> <<e.buffer, e.base + k - 1>>]
Runs(entries) == [i \in DOMAIN entries |-> Run(entries[i])]

LEMMA BytesAtIs == \A entries : BytesAt(entries) = FlattenSeq(Runs(entries))
BY DEF BytesAt, Runs, Run

LEMMA RunType ==
    ASSUME NEW e \in EntryType
    PROVE  /\ Run(e) \in Seq(Cell) /\ Len(Run(e)) = e.length
           /\ \A k \in 1..e.length : Run(e)[k] = <<e.buffer, e.base + k - 1>>
<1>1. e.buffer \in Buffer /\ e.base \in Nat /\ e.length \in Nat
  BY DEF EntryType
<1>2. \A k \in 1..e.length : e.base + k - 1 \in Nat
  BY <1>1
<1>3. \A k \in 1..e.length : <<e.buffer, e.base + k - 1>> \in Cell
  BY <1>1, <1>2 DEF Cell
<1>4. PICK n \in Nat : n = e.length
  BY <1>1
<1>5. PICK r \in [1..n -> Cell] : r = Run(e) /\ \A k \in 1..n : r[k] = <<e.buffer, e.base + k - 1>>
  <2> DEFINE r == [k \in 1..n |-> <<e.buffer, e.base + k - 1>>]
  <2>1. r = Run(e)
    BY <1>4 DEF Run
  <2>2. r \in [1..n -> Cell] /\ \A k \in 1..n : r[k] = <<e.buffer, e.base + k - 1>>
    BY <1>3, <1>4
  <2> HIDE DEF r
  <2>3. QED BY <2>1, <2>2
<1>6. r \in Seq(Cell) /\ Len(r) = n
  OBVIOUS
<1>7. QED BY <1>4, <1>5, <1>6

LEMMA RunsType ==
    ASSUME NEW entries \in Seq(EntryType)
    PROVE  /\ Runs(entries) \in Seq(Seq(Cell)) /\ Len(Runs(entries)) = Len(entries)
           /\ \A i \in 1..Len(entries) : Runs(entries)[i] = Run(entries[i])
           /\ BytesAt(entries) \in Seq(Cell)
<1>n. PICK n \in Nat : n = Len(entries) /\ DOMAIN entries = 1..n
  BY LenProperties
<1>1. \A i \in 1..n : Run(entries[i]) \in Seq(Cell)
  BY <1>n, EntryOf, RunType
<1>2. PICK r \in [1..n -> Seq(Cell)] : r = Runs(entries) /\ \A i \in 1..n : r[i] = Run(entries[i])
  <2> DEFINE r == [i \in 1..n |-> Run(entries[i])]
  <2>1. r = Runs(entries)
    BY <1>n DEF Runs
  <2>2. r \in [1..n -> Seq(Cell)] /\ \A i \in 1..n : r[i] = Run(entries[i])
    BY <1>1
  <2> HIDE DEF r
  <2>3. QED BY <2>1, <2>2
<1>3. r \in Seq(Seq(Cell)) /\ Len(r) = n
  OBVIOUS
<1>4. BytesAt(entries) \in Seq(Cell)
  BY <1>2, <1>3, BytesAtIs, FlattenType
<1>5. QED BY <1>n, <1>2, <1>3, <1>4

LEMMA BytesAtEmpty == BytesAt(<<>>) = <<>>
<1>1. Runs(<<>>) = <<>>
  BY DEF Runs
<1>2. QED BY <1>1, BytesAtIs, FlattenEmpty

AddsRun(entries, old, e) == BytesAt(entries) = BytesAt(old) \o Run(e)
LeadsRun(entries, old, e) == BytesAt(entries) = Run(e) \o BytesAt(old)

LEMMA BytesAtEnd ==
    ASSUME NEW old \in Seq(EntryType), NEW e \in EntryType
    PROVE  AddsRun(Append(old, e), old, e)
<1>n. PICK n \in Nat : n = Len(old)
  OBVIOUS
<1>1. PICK entries \in Seq(EntryType) :
         /\ entries = Append(old, e) /\ Len(entries) = n + 1 /\ entries[n + 1] = e
         /\ \A i \in 1..n : entries[i] = old[i]
  <2>1. /\ Append(old, e) \in Seq(EntryType) /\ Len(Append(old, e)) = n + 1
        /\ Append(old, e)[n + 1] = e
        /\ \A i \in 1..n : Append(old, e)[i] = old[i]
    BY <1>n, AppendProperties
  <2>2. QED BY <2>1
<1>2. PICK run \in Seq(Cell) : run = Run(e)
  BY RunType
<1>3. PICK p \in Seq(Seq(Cell)), q \in Seq(Seq(Cell)) :
         /\ p = Runs(old) /\ q = Runs(entries)
         /\ Len(p) = n /\ Len(q) = n + 1
         /\ \A i \in 1..n : p[i] = Run(old[i])
         /\ \A i \in 1..(n + 1) : q[i] = Run(entries[i])
  BY <1>n, <1>1, RunsType
<1>4. q = Append(p, run)
  <2>1. PICK r \in Seq(Seq(Cell)) :
           /\ r = Append(p, run) /\ Len(r) = n + 1 /\ r[n + 1] = run
           /\ \A i \in 1..n : r[i] = p[i]
    <3>1. /\ Append(p, run) \in Seq(Seq(Cell)) /\ Len(Append(p, run)) = n + 1
          /\ Append(p, run)[n + 1] = run
          /\ \A i \in 1..n : Append(p, run)[i] = p[i]
      BY <1>3, AppendProperties
    <3>2. QED BY <3>1
  <2>2. \A i \in 1..(n + 1) : q[i] = r[i]
    BY <1>1, <1>2, <1>3, <2>1
  <2>3. q = r
    BY <1>3, <2>1, <2>2, SeqEqual
  <2>4. QED BY <2>1, <2>3
<1>5. FlattenSeq(q) = FlattenSeq(p) \o run
  BY <1>4, FlattenAppend
<1>6. QED BY <1>1, <1>2, <1>3, <1>5, BytesAtIs DEF AddsRun

LEMMA BytesAtFront ==
    ASSUME NEW entries \in Seq(EntryType), NEW old \in Seq(EntryType), NEW e \in EntryType,
           Foremost(entries, old, e)
    PROVE  LeadsRun(entries, old, e)
<1>n. PICK n \in Nat : n = Len(old)
  OBVIOUS
<1>1. /\ Len(entries) = n + 1 /\ entries[1] = e
      /\ \A i \in 1..n : entries[i + 1] = old[i]
  <2>0. <<e>> \in Seq(EntryType) /\ Len(<<e>>) = 1 /\ <<e>>[1] = e
    OBVIOUS
  <2>1. PICK one \in Seq(EntryType) : one = <<e>> /\ Len(one) = 1 /\ one[1] = e
    BY <2>0
  <2>2. entries = one \o old
    BY <2>1 DEF Foremost
  <2>3. /\ Len(entries) = Len(one) + Len(old)
        /\ \A i \in 1..(Len(one) + Len(old)) :
              entries[i] = IF i <= Len(one) THEN one[i] ELSE old[i - Len(one)]
    BY ONLY <2>2, one \in Seq(EntryType), old \in Seq(EntryType), ConcatProperties
  <2>4. \A i \in 1..n : i + 1 \in 1..(1 + n) /\ ~(i + 1 <= 1) /\ (i + 1) - 1 = i
    OBVIOUS
  <2>5. QED BY <1>n, <2>1, <2>3, <2>4
<1>2. PICK run \in Seq(Cell) : run = Run(e)
  BY RunType
<1>3. PICK p \in Seq(Seq(Cell)), q \in Seq(Seq(Cell)) :
         /\ p = Runs(old) /\ q = Runs(entries)
         /\ Len(p) = n /\ Len(q) = n + 1
         /\ \A i \in 1..n : p[i] = Run(old[i])
         /\ \A i \in 1..(n + 1) : q[i] = Run(entries[i])
  BY <1>n, <1>1, RunsType
<1>4. q = <<run>> \o p
  <2>0. <<run>> \in Seq(Seq(Cell)) /\ Len(<<run>>) = 1 /\ <<run>>[1] = run
    OBVIOUS
  <2>1. PICK one \in Seq(Seq(Cell)) : one = <<run>> /\ Len(one) = 1 /\ one[1] = run
    BY <2>0
  <2>2. PICK r \in Seq(Seq(Cell)) : r = one \o p
    BY ConcatProperties
  <2>3. /\ Len(r) = Len(one) + Len(p)
        /\ \A i \in 1..(Len(one) + Len(p)) :
              r[i] = IF i <= Len(one) THEN one[i] ELSE p[i - Len(one)]
    BY ONLY <2>2, one \in Seq(Seq(Cell)), p \in Seq(Seq(Cell)), ConcatProperties
  <2>4. ASSUME NEW i \in 1..(n + 1) PROVE r[i] = q[i]
    <3>1. CASE i = 1
      BY <1>1, <1>2, <1>3, <2>1, <2>3, <3>1
    <3>2. CASE i # 1
      <4>1. i - 1 \in 1..n /\ (i - 1) + 1 = i
        BY <3>2
      <4>2. entries[i] = old[i - 1]
        BY <1>1, <4>1
      <4>3. r[i] = p[i - 1]
        BY <1>3, <2>1, <2>3, <3>2
      <4>4. QED BY <1>3, <4>1, <4>2, <4>3
    <3>3. QED BY <3>1, <3>2
  <2>5. Len(r) = Len(q) /\ Len(q) = n + 1
    BY <1>3, <2>1, <2>3
  <2>6. q = r
    BY <2>4, <2>5, SeqEqual
  <2>7. QED BY <2>1, <2>2, <2>6
<1>5. FlattenSeq(q) = run \o FlattenSeq(p)
  BY <1>4, FlattenCons
<1>6. QED BY <1>2, <1>3, <1>5, BytesAtIs DEF LeadsRun

----------------------------------------------------------------------------
(* Slices select the bytes asked for *)

(* selected is the t elements of whole behind the first o.                 *)
Selects(selected, whole, o, t) ==
    /\ selected \in Seq(Cell) /\ Len(selected) = t
    /\ t = 0 \/ o + t <= Len(whole)
    /\ \A j \in 1..t : selected[j] = whole[o + j]

(* Where the walk stands when it has seen entries of m bytes.              *)
Reached(acc, o, n, m) ==
    /\ acc.length <= n /\ acc.offset = o + (n - acc.length)
    /\ acc.length # 0 => /\ acc.position = m
                         /\ acc.offset = IF m <= o THEN o ELSE m
    /\ acc.length = 0 => n = 0 \/ o + n <= m
    /\ Len(acc.entries) > 0 => acc.length < n

(* `more' is `whole' and a run behind it.                                  *)
Extends(more, whole, run) ==
    /\ Len(more) = Len(whole) + Len(run)
    /\ \A j \in 1..Len(whole) : more[j] = whole[j]
    /\ \A j \in 1..Len(run) : more[Len(whole) + j] = run[j]

LEMMA ConcatExtends ==
    ASSUME NEW s \in Seq(Cell), NEW t \in Seq(Cell)
    PROVE  s \o t \in Seq(Cell) /\ Extends(s \o t, s, t)
<1>n. PICK m \in Nat, n \in Nat : m = Len(s) /\ n = Len(t)
  OBVIOUS
<1>1. PICK r \in Seq(Cell) : r = s \o t
  BY ConcatProperties
<1>2. Len(r) = m + n /\ \A j \in 1..(m + n) : r[j] = IF j <= m THEN s[j] ELSE t[j - m]
  BY ONLY <1>1, <1>n, s \in Seq(Cell), t \in Seq(Cell), ConcatProperties
<1>3. \A j \in 1..m : r[j] = s[j]
  BY <1>2
<1>4. ASSUME NEW j \in 1..n PROVE r[m + j] = t[j]
  <2>1. PICK i \in 1..(m + n) : i = m + j /\ ~(i <= m) /\ i - m = j
    OBVIOUS
  <2>2. QED BY <1>2, <2>1
<1>5. Extends(r, s, t)
  BY <1>n, <1>2, <1>3, <1>4 DEF Extends
<1>6. QED BY <1>1, <1>5

LEMMA PassesBy ==
    ASSUME NEW acc \in Account, NEW e \in EntryType, ~Takes(acc, e),
           NEW whole \in Seq(Cell), NEW more \in Seq(Cell), Extends(more, whole, Run(e)),
           NEW o \in Nat, NEW n \in Nat, Reached(acc, o, n, Len(whole)),
           Selects(BytesAt(acc.entries), whole, o, n - acc.length)
    PROVE  /\ Reached(Look(acc, e), o, n, Len(more))
           /\ Selects(BytesAt(Look(acc, e).entries), more, o, n - Look(acc, e).length)
<1>1. PICK m \in Nat, k \in Nat : /\ m = Len(whole) /\ k = e.length /\ Len(Run(e)) = k
                                  /\ Len(more) = m + k
  <2>1. Len(whole) \in Nat /\ e.length \in Nat /\ Len(Run(e)) = e.length
    BY RunType DEF EntryType
  <2>2. QED BY <2>1 DEF Extends
<1>2. PICK after : after = Look(acc, e)
  OBVIOUS
<1>3. /\ acc.offset \in Nat /\ acc.length \in Nat /\ acc.position \in Nat
      /\ acc.entries \in Seq(EntryType)
  BY DEF Account
<1>4. after = IF acc.length = 0 THEN acc
              ELSE [offset |-> acc.offset, length |-> acc.length,
                    position |-> acc.position + e.length,
                    entries |-> acc.entries]
  BY <1>2, LookPasses
<1>5. /\ after.offset = acc.offset /\ after.length = acc.length
      /\ after.entries = acc.entries
      /\ acc.length # 0 => after.position = acc.position + k
  BY <1>1, <1>4
<1>6. Reached(acc, o, n, m)
  BY <1>1
<1>7. acc.length # 0 => acc.offset = IF m + k <= o THEN o ELSE m + k
  <2> SUFFICES ASSUME acc.length # 0 PROVE acc.offset = IF m + k <= o THEN o ELSE m + k
    OBVIOUS
  <2>1. acc.position = m /\ acc.offset = IF m <= o THEN o ELSE m
    BY <1>6 DEF Reached
  <2>2. ~(acc.offset - m >= 0 /\ acc.offset < m + k)
    BY <1>1, <2>1 DEF Takes
  <2>3. QED BY <1>3, <2>1, <2>2
<1>8. Reached(after, o, n, m + k)
  <2>1. /\ acc.length <= n /\ acc.offset = o + (n - acc.length)
        /\ acc.length # 0 => acc.position = m
        /\ acc.length = 0 => n = 0 \/ o + n <= m
        /\ Len(acc.entries) > 0 => acc.length < n
    BY <1>6 DEF Reached
  <2>2. acc.length = 0 => n = 0 \/ o + n <= m + k
    BY <2>1
  <2>3. QED BY <1>5, <1>7, <2>1, <2>2 DEF Reached
<1>9. PICK s, t : s = BytesAt(acc.entries) /\ t = n - acc.length
  OBVIOUS
<1>10. Selects(s, more, o, t)
  <2>1. /\ s \in Seq(Cell) /\ Len(s) = t /\ (t = 0 \/ o + t <= m)
        /\ \A j \in 1..t : s[j] = whole[o + j]
    BY <1>1, <1>9 DEF Selects
  <2>2. t \in Nat
    BY <1>3, <1>6, <1>9 DEF Reached
  <2>3. s \in Seq(Cell) /\ Len(s) = t
    BY <1>9 DEF Selects
  <2>4. \A j \in 1..m : more[j] = whole[j]
    BY <1>1 DEF Extends
  <2>5. t = 0 \/ o + t <= m
    BY <1>1, <1>9 DEF Selects
  <2>6. ASSUME NEW j \in 1..t PROVE s[j] = more[o + j]
    <3>1. o + j \in 1..m
      BY <2>2, <2>5
    <3>2. s[j] = whole[o + j]
      BY <1>9 DEF Selects
    <3>3. QED BY <2>4, <3>1, <3>2
  <2>7. t = 0 \/ o + t <= m + k
    BY <2>2, <2>5
  <2>8. QED BY <1>1, <2>3, <2>6, <2>7 DEF Selects
<1>11. BytesAt(after.entries) = s /\ n - after.length = t
  BY <1>5, <1>9
<1>12. QED BY <1>1, <1>2, <1>8, <1>10, <1>11

LEMMA TakesPart ==
    ASSUME NEW acc \in Account, NEW e \in EntryType, Takes(acc, e),
           NEW whole \in Seq(Cell), NEW more \in Seq(Cell), Extends(more, whole, Run(e)),
           NEW o \in Nat, NEW n \in Nat, Reached(acc, o, n, Len(whole)),
           Selects(BytesAt(acc.entries), whole, o, n - acc.length)
    PROVE  /\ Reached(Look(acc, e), o, n, Len(more))
           /\ Selects(BytesAt(Look(acc, e).entries), more, o, n - Look(acc, e).length)
<1>1. PICK m \in Nat, k \in Nat : /\ m = Len(whole) /\ k = e.length /\ Len(Run(e)) = k
                                  /\ Len(more) = m + k
  <2>1. Len(whole) \in Nat /\ e.length \in Nat /\ Len(Run(e)) = e.length
    BY RunType DEF EntryType
  <2>2. QED BY <2>1 DEF Extends
<1>2. PICK after : after = Look(acc, e)
  OBVIOUS
<1>3. /\ acc.offset \in Nat /\ acc.length \in Nat /\ acc.position \in Nat
      /\ acc.entries \in Seq(EntryType)
  BY DEF Account
<1>4. PICK taken \in Nat : /\ taken = TakenOf(acc, e) /\ taken <= acc.length
                           /\ taken <= k - (acc.offset - acc.position)
                           /\ \/ taken = acc.length
                              \/ taken = k - (acc.offset - acc.position)
  BY <1>1, TakenType
<1>5. PICK piece \in EntryType : piece = Piece(acc, e)
  BY TakenType
<1>6. /\ acc.length # 0 /\ acc.offset - m >= 0 /\ acc.offset < m + k
      /\ acc.position = m /\ acc.offset = IF m <= o THEN o ELSE m
      /\ acc.length <= n /\ acc.offset = o + (n - acc.length)
  BY <1>1 DEF Takes, Reached
<1>7. PICK skipped \in Nat : skipped = acc.offset - m
  BY <1>3, <1>6
<1>8. /\ piece.buffer = e.buffer /\ piece.base = e.base + skipped
      /\ piece.length = taken
  BY <1>4, <1>5, <1>6, <1>7 DEF Piece
<1>9. PICK entries \in Seq(EntryType) :
         /\ entries = Append(acc.entries, piece) /\ AddsRun(entries, acc.entries, piece)
         /\ Len(entries) > 0
  <2>1. PICK old \in Seq(EntryType) : old = acc.entries
    BY <1>3
  <2>2. Append(old, piece) \in Seq(EntryType) /\ Len(Append(old, piece)) = Len(old) + 1
    BY AppendProperties
  <2>3. AddsRun(Append(old, piece), old, piece)
    BY BytesAtEnd
  <2>4. PICK entries \in Seq(EntryType) : entries = Append(old, piece)
    BY <2>2
  <2>5. Len(entries) > 0 /\ AddsRun(entries, old, piece)
    BY <2>2, <2>3, <2>4, LenProperties
  <2>6. QED BY <2>1, <2>4, <2>5
<1>10. after = [offset   |-> acc.offset + taken,
                length   |-> acc.length - taken,
                position |-> acc.position + e.length,
                entries  |-> entries]
  BY <1>2, <1>4, <1>5, <1>9, LookTakes
<1>11. /\ after.offset = acc.offset + taken /\ after.length = acc.length - taken
       /\ after.position = m + k /\ after.entries = entries
  BY <1>1, <1>6, <1>10
<1>a. PICK off \in Nat, len \in Nat : off = acc.offset /\ len = acc.length
  BY <1>3
<1>b. /\ len # 0 /\ off < m + k /\ off = (IF m <= o THEN o ELSE m)
      /\ len <= n /\ off = o + (n - len) /\ skipped = off - m /\ taken <= len
  BY <1>4, <1>6, <1>7, <1>a
<1>c. taken <= k - skipped /\ (taken = len \/ taken = k - skipped)
  BY <1>4, <1>6, <1>7, <1>a
<1>12. taken > 0 /\ (taken = acc.length \/ taken = k - skipped) /\ taken <= k - skipped
  <2>1. taken > 0
    BY ONLY <1>b, <1>c, m \in Nat, k \in Nat, off \in Nat, len \in Nat, skipped \in Nat
  <2>2. QED BY <1>a, <1>c, <2>1
<1>13. Reached(after, o, n, m + k)
  <2>1. after.length <= n /\ after.offset = o + (n - after.length)
    <3>1. len - taken <= n /\ off + taken = o + (n - (len - taken))
      BY ONLY <1>b, off \in Nat, len \in Nat, taken \in Nat, o \in Nat, n \in Nat
    <3>2. QED BY ONLY <1>a, <1>11, <3>1
  <2>2. after.length # 0 => after.offset = IF m + k <= o THEN o ELSE m + k
    <3>1. len - taken # 0 => off + taken = IF m + k <= o THEN o ELSE m + k
      BY ONLY <1>b, <1>c, m \in Nat, k \in Nat, off \in Nat, len \in Nat,
              skipped \in Nat, taken \in Nat, o \in Nat
    <3>2. QED BY <1>a, <1>11, <3>1
  <2>3. after.length = 0 => n = 0 \/ o + n <= m + k
    <3>1. len - taken = 0 => o + n <= m + k
      BY ONLY <1>b, <1>c, m \in Nat, k \in Nat, off \in Nat, len \in Nat,
              skipped \in Nat, taken \in Nat, o \in Nat, n \in Nat
    <3>2. QED BY <1>a, <1>11, <3>1
  <2>4. after.length < n
    BY <1>3, <1>6, <1>11, <1>12
  <2>5. QED BY <1>11, <2>1, <2>2, <2>3, <2>4 DEF Reached
<1>14. PICK s \in Seq(Cell), t \in Nat : s = BytesAt(acc.entries) /\ t = n - acc.length
  BY <1>3, <1>6, RunsType
<1>15. /\ s \in Seq(Cell) /\ Len(s) = t
       /\ t = 0 \/ o + t <= m
       /\ \A j \in 1..t : s[j] = whole[o + j]
  BY <1>1, <1>14 DEF Selects
<1>16. PICK run \in Seq(Cell) :
          /\ run = Run(piece) /\ Len(run) = taken
          /\ \A j \in 1..taken : run[j] = <<e.buffer, (e.base + skipped) + j - 1>>
  BY <1>8, RunType
<1>17. PICK selected \in Seq(Cell) : selected = s \o run /\ Extends(selected, s, run)
  BY <1>15, ConcatExtends
<1>18. BytesAt(entries) = selected
  BY <1>9, <1>14, <1>16, <1>17 DEF AddsRun
<1>19. \A j \in 1..k : more[m + j] = <<e.buffer, e.base + j - 1>>
  BY <1>1, RunType DEF Extends
<1>20. \A j \in 1..m : more[j] = whole[j]
  BY <1>1 DEF Extends
<1>21. /\ Len(selected) = t + taken
       /\ \A j \in 1..t : selected[j] = s[j]
       /\ \A j \in 1..taken : selected[t + j] = run[j]
  BY <1>15, <1>16, <1>17 DEF Extends
<1>22. o + t = m + skipped
  <2>1. t = n - len
    BY ONLY <1>a, <1>14
  <2>2. QED BY ONLY <1>b, <2>1, m \in Nat, off \in Nat, len \in Nat, o \in Nat,
               n \in Nat, t \in Nat, skipped \in Nat
<1>23. ASSUME NEW j \in 1..(t + taken) PROVE selected[j] = more[o + j]
  <2>1. CASE j <= t
    <3>1. j \in 1..t /\ o + j \in 1..m
      BY <1>15, <2>1
    <3>2. QED BY <1>15, <1>20, <1>21, <3>1
  <2>2. CASE ~(j <= t)
    <3>1. PICK i \in 1..taken : j = t + i
      <4>1. j - t \in 1..taken /\ t + (j - t) = j
        BY <2>2
      <4>2. QED BY <4>1
    <3>2. skipped + i \in 1..k /\ o + j = m + (skipped + i)
      BY <1>12, <1>22, <3>1
    <3>3. selected[j] = <<e.buffer, (e.base + skipped) + i - 1>>
      BY <1>16, <1>21, <3>1
    <3>4. more[m + (skipped + i)] = <<e.buffer, e.base + (skipped + i) - 1>>
      BY <1>19, <3>2
    <3>5. (e.base + skipped) + i - 1 = e.base + (skipped + i) - 1
      <4>1. e.base \in Nat
        BY DEF EntryType
      <4>2. QED BY <4>1
    <3>6. QED BY <3>2, <3>3, <3>4, <3>5
  <2>3. QED BY <2>1, <2>2
<1>24. o + (t + taken) <= m + k
  BY <1>12, <1>22
<1>25. Selects(selected, more, o, t + taken)
  BY <1>1, <1>21, <1>23, <1>24 DEF Selects
<1>26. n - after.length = t + taken
  BY <1>3, <1>11, <1>14
<1>27. QED BY <1>1, <1>2, <1>11, <1>13, <1>18, <1>25, <1>26

(* The bytes of the interval of n behind the first o, as far as they go.   *)
EndOf(whole, o, n) == IF o + n > Len(whole) THEN Len(whole) ELSE o + n

LEMMA SelectedBytes ==
    ASSUME NEW entries \in Seq(EntryType), NEW o \in Nat, NEW n \in Nat
    PROVE  \E t \in Nat :
              /\ Selects(BytesAt(Selected(entries, o, n)), BytesAt(entries), o, t)
              /\ t > 0 => EndOf(BytesAt(entries), o, n) = o + t
              /\ t = 0 => EndOf(BytesAt(entries), o, n) <= o
              /\ Len(Selected(entries, o, n)) > 0 => t > 0
<1>n. PICK c \in Nat : c = Len(entries)
  OBVIOUS
<1>1. PICK g \in [0..c -> Account] : Looked(g, entries, o, n)
  BY <1>n, Looks
<1>2. PICK runs \in Seq(Seq(Cell)) :
         /\ runs = Runs(entries) /\ Len(runs) = c
         /\ \A i \in 1..c : runs[i] = Run(entries[i])
  BY <1>n, RunsType
<1>3. PICK f \in [0..c -> Seq(Cell)] : Concatenates(f, runs)
  BY <1>2, Concatenations
<1> DEFINE At(i) == /\ Reached(g[i], o, n, Len(f[i]))
                    /\ Selects(BytesAt(g[i].entries), f[i], o, n - g[i].length)
           T == {i \in Nat : i <= c => At(i)}
<1>4. 0 \in T
  <2>1. PICK none \in Seq(Cell) : none = <<>> /\ Len(none) = 0
    <3>1. <<>> \in Seq(Cell) /\ Len(<<>>) = 0
      OBVIOUS
    <3>2. QED BY <3>1
  <2>2. PICK acc : acc = g[0]
    OBVIOUS
  <2>3. /\ acc.offset = o /\ acc.length = n /\ acc.position = 0 /\ acc.entries = <<>>
    BY <1>1, <2>2 DEF Looked, AtFirst
  <2>4. f[0] = none
    BY <1>3, <2>1 DEF Concatenates
  <2>5. Reached(acc, o, n, 0)
    BY <2>3 DEF Reached
  <2>6. BytesAt(acc.entries) = none
    BY <2>1, <2>3, BytesAtEmpty
  <2>7. Selects(none, none, o, 0)
    BY <2>1 DEF Selects
  <2>8. n - acc.length = 0
    BY <2>3
  <2>9. At(0)
    BY <2>1, <2>2, <2>4, <2>5, <2>6, <2>7, <2>8
  <2> HIDE DEF At
  <2>10. QED BY <2>9
<1>5. ASSUME NEW i \in Nat, i \in T PROVE i + 1 \in T
  <2> SUFFICES ASSUME i + 1 <= c PROVE At(i + 1)
    OBVIOUS
  <2>1. i + 1 \in 1..c /\ (i + 1) - 1 = i /\ i <= c /\ i \in 0..c
    OBVIOUS
  <2>2. PICK acc \in Account, whole \in Seq(Cell) : acc = g[i] /\ whole = f[i]
    BY <2>1
  <2>3. /\ Reached(acc, o, n, Len(whole))
        /\ Selects(BytesAt(acc.entries), whole, o, n - acc.length)
    BY <1>5, <2>1, <2>2
  <2>4. PICK e \in EntryType : e = entries[i + 1]
    BY <1>n, <2>1, EntryOf
  <2>5. g[i + 1] = Look(acc, e)
    BY <1>n, <1>1, <2>1, <2>2, <2>4 DEF Looked
  <2>6. PICK run \in Seq(Cell) : run = Run(e)
    BY RunType
  <2>7. PICK more \in Seq(Cell) : more = whole \o run /\ Extends(more, whole, run)
    BY ConcatExtends
  <2>8. f[i + 1] = more
    <3>1. f[i + 1] = f[(i + 1) - 1] \o runs[i + 1]
      BY <1>2, <1>3, <2>1 DEF Concatenates
    <3>2. runs[i + 1] = run
      BY <1>2, <2>1, <2>4, <2>6
    <3>3. f[(i + 1) - 1] = whole
      BY <2>1, <2>2
    <3>4. QED BY ONLY <2>7, <3>1, <3>2, <3>3
  <2>9. /\ Reached(Look(acc, e), o, n, Len(more))
        /\ Selects(BytesAt(Look(acc, e).entries), more, o, n - Look(acc, e).length)
    <3>1. CASE Takes(acc, e)
      BY <2>3, <2>6, <2>7, <3>1, TakesPart
    <3>2. CASE ~Takes(acc, e)
      BY <2>3, <2>6, <2>7, <3>2, PassesBy
    <3>3. QED BY <3>1, <3>2
  <2>10. QED BY <2>5, <2>8, <2>9
<1> HIDE DEF T
<1>6. Nat \subseteq T
  BY <1>4, <1>5, Induction
<1>7. At(c)
  BY <1>6 DEF T
<1>8. PICK acc \in Account, whole \in Seq(Cell) : acc = g[c] /\ whole = f[c]
  BY c \in 0..c
<1>9. Selected(entries, o, n) = acc.entries /\ BytesAt(entries) = whole
  <2>1. Selected(entries, o, n) = acc.entries
    BY <1>n, <1>1, <1>8, SelectedIs
  <2>2. FlattenSeq(runs) = whole
    BY <1>2, <1>3, <1>8, FlattenIs
  <2>3. QED BY <1>2, <2>1, <2>2, BytesAtIs
<1>10. PICK m \in Nat, off \in Nat, len \in Nat :
          m = Len(whole) /\ off = acc.offset /\ len = acc.length
  BY LenProperties DEF Account
<1>11. /\ len <= n /\ off = o + (n - len)
       /\ len # 0 => off = IF m <= o THEN o ELSE m
       /\ len = 0 => n = 0 \/ o + n <= m
       /\ Len(acc.entries) > 0 => len < n
  BY <1>7, <1>8, <1>10 DEF Reached
<1>12. PICK t \in Nat : t = n - len
  BY <1>11
<1>13. Selects(BytesAt(acc.entries), whole, o, t)
  BY <1>7, <1>8, <1>10, <1>12
<1>14. /\ t > 0 => (IF o + n > m THEN m ELSE o + n) = o + t
       /\ t = 0 => (IF o + n > m THEN m ELSE o + n) <= o
  BY ONLY <1>11, <1>12, o \in Nat, n \in Nat, m \in Nat, off \in Nat, len \in Nat, t \in Nat
<1>15. Len(acc.entries) > 0 => t > 0
  BY <1>11, <1>12
<1>16. EndOf(whole, o, n) = IF o + n > m THEN m ELSE o + n
  BY <1>10 DEF EndOf
<1>17. QED BY <1>9, <1>13, <1>14, <1>15, <1>16

LEMMA SelectsIsSubSeq ==
    ASSUME NEW whole \in Seq(Cell), NEW s, NEW o \in Nat, NEW t \in Nat, NEW end \in Int,
           Selects(s, whole, o, t), t > 0 => end = o + t, t = 0 => end <= o
    PROVE  s = SubSeq(whole, o + 1, end)
<1>1. PICK r \in Seq(Cell) : r = s
  BY DEF Selects
<1>2. Len(r) = t /\ (t = 0 \/ o + t <= Len(whole)) /\ \A j \in 1..t : r[j] = whole[o + j]
  BY <1>1 DEF Selects
<1>3. CASE t = 0
  <2>1. SubSeq(whole, o + 1, end) = <<>>
    <3>1. end < o + 1
      BY <1>3
    <3>2. QED BY <3>1, SubSeqEmpty
  <2>2. r = <<>>
    BY <1>2, <1>3, EmptySeq
  <2>3. QED BY <1>1, <2>1, <2>2
<1>4. CASE t > 0
  <2>1. end = o + t /\ Len(whole) \in Nat /\ o + t <= Len(whole)
    BY <1>2, <1>4
  <2>2. \A j \in (o + 1)..end : whole[j] \in Cell
    <3>1. \A j \in (o + 1)..end : j \in 1..Len(whole)
      BY <2>1
    <3>2. QED BY <3>1, ElementOfSeq
  <2>3. PICK cut : cut = SubSeq(whole, o + 1, end)
    OBVIOUS
  <2>4. /\ cut \in Seq(Cell)
        /\ Len(cut) = IF o + 1 <= end THEN end - (o + 1) + 1 ELSE 0
        /\ \A i \in 1..(end - (o + 1) + 1) : cut[i] = whole[(o + 1) + i - 1]
    <3>1. PICK first \in Int : first = o + 1
      OBVIOUS
    <3>2. \A j \in first..end : whole[j] \in Cell
      BY <2>2, <3>1
    <3>3. /\ SubSeq(whole, first, end) \in Seq(Cell)
          /\ Len(SubSeq(whole, first, end)) = IF first <= end THEN end - first + 1 ELSE 0
          /\ \A i \in 1..(end - first + 1) : SubSeq(whole, first, end)[i] = whole[first + i - 1]
      BY ONLY first \in Int, end \in Int, <3>2, SubSeqProperties
    <3>4. QED BY ONLY <2>3, <3>1, <3>3
  <2>5. Len(cut) = t
    BY <1>4, <2>1, <2>4
  <2>6. ASSUME NEW i \in 1..t PROVE r[i] = cut[i]
    <3>1. i \in 1..(end - (o + 1) + 1) /\ (o + 1) + i - 1 = o + i
      BY <2>1
    <3>2. QED BY <1>2, <2>4, <3>1
  <2>7. r = cut
    BY <1>2, <2>4, <2>5, <2>6, SeqEqual
  <2>8. QED BY <1>1, <2>3, <2>7
<1>5. QED BY <1>3, <1>4

LEMMA SlicesSelect == EncodingInv => SliceSelectsBytes
<1> SUFFICES ASSUME EncodingInv, NEW l \in Live,
                    NEW o \in 0..(Len(ListBytes[l]) + 1),
                    NEW n \in 0..(Len(ListBytes[l]) + 1)
             PROVE  BytesAt(Selected(Entries(lists[l]), o, n)) =
                       SubSeq(ListBytes[l], o + 1, EndOf(ListBytes[l], o, n))
  BY DEF SliceSelectsBytes, EndOf
<1>1. PICK entries \in Seq(EntryType) : entries = Entries(lists[l])
  BY LiveList
<1>2. PICK whole \in Seq(Cell) : whole = BytesAt(entries)
  BY RunsType
<1>3. ListBytes[l] = whole
  BY <1>1, <1>2 DEF ListBytes, Live
<1>4. o \in Nat /\ n \in Nat
  OBVIOUS
<1>5. PICK t \in Nat :
         /\ Selects(BytesAt(Selected(entries, o, n)), whole, o, t)
         /\ t > 0 => EndOf(whole, o, n) = o + t
         /\ t = 0 => EndOf(whole, o, n) <= o
  BY <1>2, <1>4, SelectedBytes
<1>6. EndOf(whole, o, n) \in Int
  BY <1>4, LenProperties DEF EndOf
<1>7. BytesAt(Selected(entries, o, n)) = SubSeq(whole, o + 1, EndOf(whole, o, n))
  BY <1>4, <1>5, <1>6, SelectsIsSubSeq
<1>8. QED BY <1>1, <1>3, <1>7

(* A slice is exactly the bytes asked for, as far as the list goes,        *)
(* however the entries are cut and whether or not some are empty           *)
(* (SliceSelectsBytes).                                                    *)
THEOREM SlicesSelectBytes == CarefulSpec => []SliceSelectsBytes
BY EncodingInvHolds, SlicesSelect, PTL

----------------------------------------------------------------------------
(* The lists implement ByteLists *)

BytesOfList(list) == IF list = NoList THEN NoList ELSE BytesAt(Entries(list))

LEMMA ListBytesIs ==
    /\ ListBytes = [l \in List |-> BytesOfList(lists[l])]
    /\ ListBytes' = [l \in List |-> BytesOfList(lists'[l])]
<1>1. \A l \in List : /\ l \in Live <=> lists[l] # NoList
                      /\ l \in Live' <=> lists'[l] # NoList
  BY DEF Live
<1>2. ListBytes = [l \in List |-> BytesOfList(lists[l])]
  BY <1>1 DEF ListBytes, BytesOfList
<1>3. ListBytes' = [l \in List |-> BytesOfList(lists'[l])]
  BY <1>1 DEF ListBytes, BytesOfList
<1>4. QED BY <1>2, <1>3

LEMMA BytesOfListType ==
    ASSUME NEW list \in ListType
    PROVE  /\ BytesOfList(list) = BytesAt(Entries(list))
           /\ BytesOfList(list) \in Seq(Cell) /\ BytesOfList(list) # NoList
<1>1. list # NoList /\ Entries(list) \in Seq(EntryType)
  BY NoneAssumption, ListParts
<1>2. BytesAt(Entries(list)) \in Seq(Cell)
  BY <1>1, RunsType
<1>3. BytesAt(Entries(list)) # NoList
  BY <1>2, NoneAssumption DEF Cell
<1>4. QED BY <1>1, <1>2, <1>3 DEF BytesOfList

LEMMA ExistsIsLive ==
    ASSUME EncodingInv
    PROVE  Bytewise!Exists = Live
<1>1. \A l \in List : ListBytes[l] = BytesOfList(lists[l])
  BY ListBytesIs
<1>2. \A l \in Live : BytesOfList(lists[l]) # NoList
  BY LiveList, BytesOfListType
<1>3. \A l \in List : l \notin Live => BytesOfList(lists[l]) = NoList
  BY DEF Live, BytesOfList
<1>4. QED BY <1>1, <1>2, <1>3 DEF Bytewise!Exists, Live

(* When one list becomes `list', its bytes do, and the others stay.        *)
LEMMA BecomesBytes ==
    ASSUME EncodingInv, NEW l \in List, NEW list, lists' = [lists EXCEPT ![l] = list]
    PROVE  ListBytes' = [ListBytes EXCEPT ![l] = BytesOfList(list)]
<1>1. DOMAIN lists = List
  BY DEF EncodingInv, EncodingTypeOK
<1>2. lists'[l] = list /\ \A k \in List \ {l} : lists'[k] = lists[k]
  BY <1>1
<1>3. \A k \in List : BytesOfList(lists'[k]) =
                         IF k = l THEN BytesOfList(list) ELSE BytesOfList(lists[k])
  BY <1>2
<1>4. [ListBytes EXCEPT ![l] = BytesOfList(list)] =
         [k \in List |-> IF k = l THEN BytesOfList(list) ELSE BytesOfList(lists[k])]
  BY ListBytesIs
<1>5. ListBytes' = [k \in List |-> IF k = l THEN BytesOfList(list) ELSE BytesOfList(lists[k])]
  BY <1>3, ListBytesIs
<1>6. QED BY <1>4, <1>5

LEMMA SameBytes ==
    ASSUME \A l \in List : BytesOfList(lists'[l]) = BytesOfList(lists[l])
    PROVE  ListBytes' = ListBytes
BY ListBytesIs

(* No list and no IOVec changes but those that go.                         *)
LEMMA Forgets ==
    ASSUME \A l \in List : BytesOfList(lists'[l]) \in {BytesOfList(lists[l]), NoList},
           \A v \in IOVec : vecs'[v] \in {vecs[v], NoIOVec},
           position' = position
    PROVE  Bytewise!Forget
<1>1. /\ DOMAIN ListBytes' = List
      /\ \A l \in List : ListBytes'[l] \in {ListBytes[l], NoList}
  BY ListBytesIs
<1>2. /\ DOMAIN VecBytes' = IOVec
      /\ \A v \in IOVec : VecBytes'[v] \in {VecBytes[v], NoIOVec}
  BY DEF VecBytes, LiveVec
<1>3. QED BY <1>1, <1>2 DEF Bytewise!Forget

LEMMA VecBytesStay == vecs' = vecs => VecBytes' = VecBytes
BY DEF VecBytes, LiveVec

LEMMA CreateIsNew ==
    ASSUME EncodingInv, NEW l \in List, Create(l)
    PROVE  Bytewise!New(l)
<1>1. /\ l \notin Live /\ lists' = [lists EXCEPT ![l] = EmptyList]
      /\ vecs' = vecs /\ position' = position
  BY DEF Create, bufferVars
<1>2. BytesOfList(EmptyList) = <<>>
  BY EmptyListShape, BytesOfListType, BytesAtEmpty
<1>3. ListBytes' = [ListBytes EXCEPT ![l] = <<>>]
  BY <1>1, <1>2, BecomesBytes
<1>4. VecBytes' = VecBytes
  BY <1>1, VecBytesStay
<1>5. QED
  BY <1>1, <1>3, <1>4, ExistsIsLive DEF Bytewise!New, Bytewise!Become

LEMMA AcquireIsNothing ==
    ASSUME EncodingInv, NEW l \in List, Acquire(l)
    PROVE  UNCHANGED <<ListBytes, VecBytes, position>>
<1>1. PICK n \in Nat : /\ n = lists[l].references /\ lists[l] \in ListType /\ Sound(lists[l])
  BY UsersType, LiveList, ListParts DEF Acquire
<1>2. PICK old \in ListType, m \in Nat \ {0} : old = lists[l] /\ m = n + 1 /\ Sound(old)
  BY <1>1
<1>3. PICK new : new = [old EXCEPT !.references = m]
  OBVIOUS
<1>4. new \in ListType /\ Entries(new) = Entries(old)
  BY <1>2, <1>3, Rereferenced
<1>5. BytesOfList(new) = BytesOfList(lists[l])
  BY <1>2, <1>4, BytesOfListType
<1>6. lists' = [lists EXCEPT ![l] = new] /\ vecs' = vecs /\ position' = position
  BY <1>1, <1>2, <1>3 DEF Acquire, bufferVars
<1>7. \A k \in List : BytesOfList(lists'[k]) = BytesOfList(lists[k])
  BY <1>5, <1>6 DEF EncodingInv, EncodingTypeOK
<1>8. QED BY <1>6, <1>7, SameBytes, VecBytesStay

(* Giving up a reference, a list stays what it was or goes.                *)
LEMMA ReleasedBytes ==
    ASSUME EncodingInv, NEW l \in Live, ReleaseList(l)
    PROVE  /\ \A k \in List : BytesOfList(lists'[k]) \in {BytesOfList(lists[k]), NoList}
           /\ position' = position
<1>1. PICK n \in Nat \ {0} : /\ n = lists[l].references /\ l \in List
                             /\ lists[l] \in ListType /\ Sound(lists[l])
                             /\ DOMAIN lists = List
  BY LiveList, ListParts DEF EncodingInv, EncodingTypeOK
<1>2. CASE n > 1
  <2>1. PICK old \in ListType, m \in Nat \ {0} : old = lists[l] /\ m = n - 1 /\ Sound(old)
    <3>1. n - 1 \in Nat \ {0}
      BY <1>2
    <3>2. QED BY <1>1, <3>1
  <2>2. PICK new : new = [old EXCEPT !.references = m]
    OBVIOUS
  <2>3. new \in ListType /\ Entries(new) = Entries(old)
    BY <2>1, <2>2, Rereferenced
  <2>4. BytesOfList(new) = BytesOfList(lists[l])
    BY <2>1, <2>3, BytesOfListType
  <2>5. lists' = [lists EXCEPT ![l] = new] /\ position' = position
    BY <1>1, <1>2, <2>1, <2>2 DEF ReleaseList, bufferVars
  <2>6. QED BY <1>1, <2>4, <2>5
<1>3. CASE ~(n > 1)
  <2>1. lists' = [lists EXCEPT ![l] = NoList] /\ position' = position
    BY <1>1, <1>3 DEF ReleaseList
  <2>2. BytesOfList(NoList) = NoList
    BY DEF BytesOfList
  <2>3. QED BY <1>1, <2>1, <2>2
<1>4. QED BY <1>2, <1>3

LEMMA ReleaseForgets ==
    ASSUME EncodingInv, NEW l \in List, Release(l)
    PROVE  Bytewise!Forget
<1>1. l \in Live /\ ReleaseList(l) /\ vecs' = vecs
  BY UsersType DEF Release
<1>2. QED BY <1>1, ReleasedBytes, Forgets

LEMMA IOVecReleaseForgets ==
    ASSUME EncodingInv, NEW v \in IOVec, IOVecRelease(v)
    PROVE  Bytewise!Forget
<1>1. PICK l : l = vecs[v].encodingBuffer
  OBVIOUS
<1>2. v \in LiveVec /\ ReleaseList(l) /\ vecs' = [vecs EXCEPT ![v] = NoIOVec]
  BY <1>1 DEF IOVecRelease
<1>3. /\ vecs \in [IOVec -> VecType \cup {NoIOVec}] /\ vecs[v] # NoIOVec
      /\ IsFiniteSet(LiveIn(vecs))
  BY <1>2 DEF EncodingInv, EncodingTypeOK, LiveVec, ListCounts, LiveIn
<1>4. l \in List
  BY <1>1, <1>3 DEF VecType
<1>5. l \in Live
  BY <1>1, <1>3, <1>4, OneVecLess, UsersType
<1>6. \A w \in IOVec : vecs'[w] \in {vecs[w], NoIOVec}
  BY <1>2, <1>3
<1>7. QED BY <1>2, <1>5, <1>6, ReleasedBytes, Forgets

LEMMA BytesOfIsRun ==
    ASSUME NEW b \in Buffer
    PROVE  Bytewise!BytesOf(b) = Run(EntryFor(b))
BY DEF Bytewise!BytesOf, Run, EntryFor

LEMMA AppendIsInsertTail ==
    ASSUME EncodingInv, NEW l \in List, NEW b \in Buffer, AppendBuffer(l, b)
    PROVE  Bytewise!InsertTail(l, b)
<1>1. PICK e \in EntryType : e = EntryFor(b)
  BY EntryForType
<1>2. PICK new : new = Appended(lists[l], e) /\ Insert(l, b, new)
  BY <1>1 DEF AppendBuffer
<1>3. PICK old \in Seq(EntryType) : /\ old = Entries(lists[l]) /\ l \in Live
                                    /\ lists[l] \in ListType /\ Sound(lists[l])
  BY <1>2, UsersType, LiveList DEF Insert
<1>4. new \in ListType /\ Behindmost(Entries(new), old, e)
  BY <1>2, <1>3, AppendedShape
<1>5. Entries(new) = Append(old, e)
  <2>1. Append(old, e) = old \o <<e>>
    BY AppendIsConcat
  <2>2. QED BY ONLY <1>4, <2>1 DEF Behindmost
<1>6. BytesAt(Entries(new)) = BytesAt(old) \o Run(e)
  BY <1>5, BytesAtEnd DEF AddsRun
<1>7. BytesOfList(new) = BytesAt(Entries(new)) /\ BytesOfList(lists[l]) = BytesAt(old)
  BY <1>3, <1>4, BytesOfListType
<1>8. lists' = [lists EXCEPT ![l] = new] /\ vecs' = vecs /\ position' = position
  BY <1>2 DEF Insert
<1>9. ListBytes' = [ListBytes EXCEPT ![l] = BytesOfList(new)]
  BY <1>8, BecomesBytes
<1>10. ListBytes[l] = BytesAt(old)
  BY <1>7, ListBytesIs
<1>11. BytesOfList(new) = ListBytes[l] \o Bytewise!BytesOf(b)
  BY ONLY <1>1, <1>6, <1>7, <1>10, BytesOfIsRun, b \in Buffer
<1>12. VecBytes' = VecBytes
  BY <1>8, VecBytesStay
<1>13. l \in Bytewise!Exists
  BY <1>3, ExistsIsLive
<1>14. ListBytes' = [ListBytes EXCEPT ![l] = ListBytes[l] \o Bytewise!BytesOf(b)]
  BY ONLY <1>9, <1>11
<1>15. QED
  BY ONLY <1>8, <1>12, <1>13, <1>14 DEF Bytewise!InsertTail, Bytewise!Become

LEMMA PrependIsInsertHead ==
    ASSUME EncodingInv, NEW l \in Live, NEW b \in Buffer,
           lists[l].arrays # <<>>, ShiftsRight(lists[l]), PrependBuffer(l, b)
    PROVE  Bytewise!InsertHead(l, b)
<1>1. PICK e \in EntryType : e = EntryFor(b)
  BY EntryForType
<1>2. PICK new : new = Prepended(lists[l], e) /\ Insert(l, b, new)
  BY <1>1 DEF PrependBuffer
<1>3. PICK old \in Seq(EntryType) : /\ old = Entries(lists[l]) /\ l \in List
                                    /\ lists[l] \in ListType /\ Sound(lists[l])
  BY LiveList
<1>4. new \in ListType /\ Foremost(Entries(new), old, e)
  BY <1>2, <1>3, PrependedShape
<1>5. PICK entries \in Seq(EntryType) : entries = Entries(new) /\ Foremost(entries, old, e)
  BY <1>4, ListParts
<1>6. BytesAt(entries) = Run(e) \o BytesAt(old)
  BY <1>5, BytesAtFront DEF LeadsRun
<1>7. BytesOfList(new) = BytesAt(entries) /\ BytesOfList(lists[l]) = BytesAt(old)
  BY <1>3, <1>4, <1>5, BytesOfListType
<1>8. lists' = [lists EXCEPT ![l] = new] /\ vecs' = vecs /\ position' = position
  BY <1>2 DEF Insert
<1>9. ListBytes' = [ListBytes EXCEPT ![l] = BytesOfList(new)]
  BY <1>3, <1>8, BecomesBytes
<1>10. ListBytes[l] = BytesAt(old)
  BY <1>3, <1>7, ListBytesIs
<1>11. BytesOfList(new) = Bytewise!BytesOf(b) \o ListBytes[l]
  BY ONLY <1>1, <1>6, <1>7, <1>10, BytesOfIsRun, b \in Buffer
<1>12. VecBytes' = VecBytes
  BY <1>8, VecBytesStay
<1>13. l \in Bytewise!Exists
  BY ExistsIsLive
<1>14. ListBytes' = [ListBytes EXCEPT ![l] = Bytewise!BytesOf(b) \o ListBytes[l]]
  BY ONLY <1>9, <1>11
<1>15. QED
  BY ONLY <1>8, <1>12, <1>13, <1>14 DEF Bytewise!InsertHead, Bytewise!Become

\* SelectsIsSubSeq for a stretch that is not empty, between two positions by name.
IsCut(s, whole, first, last) == s = SubSeq(whole, first, last)

LEMMA SelectsIsCut ==
    ASSUME NEW whole \in Seq(Cell), NEW s, NEW o \in Nat, NEW t \in Nat,
           NEW first \in Int, NEW last \in Int,
           Selects(s, whole, o, t), t > 0, first = o + 1, last = o + t
    PROVE  IsCut(s, whole, first, last)
<1>1. s = SubSeq(whole, o + 1, last)
  <2>1. (t > 0 => last = o + t) /\ (t = 0 => last <= o)
    OBVIOUS
  <2>2. QED BY ONLY <2>1, SelectsIsSubSeq, Selects(s, whole, o, t), whole \in Seq(Cell),
                    o \in Nat, t \in Nat, last \in Int
<1>2. QED BY ONLY <1>1, first = o + 1 DEF IsCut

LEMMA SliceIsCut ==
    ASSUME EncodingInv, NEW l \in List, NEW slice \in List,
           NEW offset \in Nat, NEW length \in Nat, Slice(l, slice, offset, length)
    PROVE  Bytewise!Cut(l, slice)
<1>1. PICK new : /\ new = SliceOf(lists[l], offset, length)
                 /\ new.totalCount > 0
                 /\ lists' = [lists EXCEPT ![slice] = new]
  BY DEF Slice
<1>2. /\ handles[l] > 0 /\ slice \notin Live /\ vecs' = vecs /\ position' = position
  BY DEF Slice
<1>3. PICK old \in Seq(EntryType) : /\ old = Entries(lists[l]) /\ l \in Live
                                    /\ lists[l] \in ListType /\ Sound(lists[l])
  BY <1>2, UsersType, LiveList
<1>4. /\ new \in ListType /\ Sound(new)
      /\ Entries(new) = Selected(old, offset, length)
  BY <1>1, <1>3, SliceShape
<1>5. Len(Selected(old, offset, length)) > 0
  BY <1>1, <1>4 DEF Sound
<1>6. PICK whole \in Seq(Cell) : whole = BytesAt(old)
  BY RunsType
<1>7. PICK t \in Nat : t > 0 /\ Selects(BytesAt(Selected(old, offset, length)), whole, offset, t)
  BY <1>5, <1>6, SelectedBytes
<1>8. PICK first \in Int, last \in Int : first = offset + 1 /\ last = offset + t
  OBVIOUS
<1>9. BytesAt(Selected(old, offset, length)) = SubSeq(whole, first, last)
  <2>1. PICK bytes : bytes = BytesAt(Selected(old, offset, length))
    OBVIOUS
  <2>2. Selects(bytes, whole, offset, t) /\ t > 0 /\ last = offset + t
    BY <1>7, <1>8, <2>1
  <2>3. IsCut(bytes, whole, first, last)
    BY ONLY <1>8, <2>2, SelectsIsCut, whole \in Seq(Cell), offset \in Nat,
            t \in Nat, first \in Int, last \in Int
  <2>4. QED BY ONLY <2>1, <2>3 DEF IsCut
<1>10. first \in DOMAIN whole /\ last \in DOMAIN whole /\ first <= last
  <2>1. offset + t <= Len(whole) /\ Len(whole) \in Nat /\ DOMAIN whole = 1..Len(whole)
    BY <1>7, LenProperties DEF Selects
  <2>2. QED BY <1>7, <1>8, <2>1
<1>11. BytesOfList(new) = SubSeq(whole, first, last) /\ BytesOfList(lists[l]) = whole
  <2>1. BytesOfList(new) = BytesAt(Entries(new)) /\ BytesOfList(lists[l]) = BytesAt(Entries(lists[l]))
    BY <1>3, <1>4, BytesOfListType
  <2>2. QED BY ONLY <1>3, <1>4, <1>6, <1>9, <2>1
<1>12. ListBytes[l] = whole
  BY <1>11, ListBytesIs
<1>13. ListBytes' = [ListBytes EXCEPT ![slice] = BytesOfList(new)]
  BY <1>1, BecomesBytes
<1>14. ListBytes' = [ListBytes EXCEPT ![slice] = SubSeq(ListBytes[l], first, last)]
  BY ONLY <1>11, <1>12, <1>13
<1>15. VecBytes' = VecBytes
  BY <1>2, VecBytesStay
<1>16. l \in Bytewise!Exists /\ slice \notin Bytewise!Exists
  BY <1>2, <1>3, ExistsIsLive
<1>17. first \in DOMAIN ListBytes[l] /\ last \in DOMAIN ListBytes[l] /\ first <= last
  BY <1>10, <1>12
<1>18. QED
  BY ONLY <1>2, <1>14, <1>15, <1>16, <1>17 DEF Bytewise!Cut, Bytewise!Become

LEMMA CreateIOVecIsGather ==
    ASSUME EncodingInv, NEW l \in List, NEW v \in IOVec, CreateIOVec(l, v)
    PROVE  Bytewise!Gather(v, l)
<1>1. PICK n \in Nat : /\ n = lists[l].references
                       /\ l \in Live /\ lists[l] \in ListType /\ Sound(lists[l])
                       /\ Entries(lists[l]) \in Seq(EntryType)
                       /\ lists[l].totalCount \in Nat
  BY UsersType, LiveList, ListParts DEF CreateIOVec
<1>2. PICK old \in ListType, m \in Nat \ {0} : old = lists[l] /\ m = n + 1 /\ Sound(old)
  BY <1>1
<1>3. PICK new : new = [old EXCEPT !.references = m]
  OBVIOUS
<1>4. new \in ListType /\ Entries(new) = Entries(old)
  BY <1>2, <1>3, Rereferenced
<1>5. BytesOfList(new) = BytesOfList(lists[l])
  BY <1>2, <1>4, BytesOfListType
<1>6. PICK vec : vec = [encodingBuffer |-> l, iovcnt |-> lists[l].totalCount,
                        iov |-> Entries(lists[l])]
  OBVIOUS
<1>7. vec \in VecType /\ vec.iov = Entries(lists[l])
  BY <1>1, <1>6 DEF VecType
<1>8. /\ v \notin LiveVec /\ position' = position
      /\ lists' = [lists EXCEPT ![l] = new] /\ vecs' = [vecs EXCEPT ![v] = vec]
  BY <1>1, <1>2, <1>3, <1>6 DEF CreateIOVec, bufferVars
<1>9. ListBytes' = ListBytes
  <2>1. \A k \in List : BytesOfList(lists'[k]) = BytesOfList(lists[k])
    BY <1>5, <1>8 DEF EncodingInv, EncodingTypeOK
  <2>2. QED BY <2>1, SameBytes
<1>10. ListBytes[l] = BytesAt(vec.iov)
  BY <1>1, <1>7, BytesOfListType, ListBytesIs
<1>11. VecBytes[v] = NoIOVec
  BY <1>8 DEF VecBytes
<1>12. VecBytes' = [VecBytes EXCEPT ![v] = BytesAt(vec.iov)]
  <2>1. DOMAIN vecs = IOVec
    BY DEF EncodingInv, EncodingTypeOK
  <2>2. vecs'[v] = vec /\ vec # NoIOVec /\ \A w \in IOVec \ {v} : vecs'[w] = vecs[w]
    BY <1>7, <1>8, <2>1, NoneAssumption
  <2>3. VecBytes' = [w \in IOVec |-> IF vecs'[w] # NoIOVec THEN BytesAt(vecs'[w].iov) ELSE NoIOVec]
    BY DEF VecBytes, LiveVec
  <2>4. VecBytes = [w \in IOVec |-> IF vecs[w] # NoIOVec THEN BytesAt(vecs[w].iov) ELSE NoIOVec]
    BY DEF VecBytes, LiveVec
  <2>5. \A w \in IOVec :
           (IF vecs'[w] # NoIOVec THEN BytesAt(vecs'[w].iov) ELSE NoIOVec) =
           IF w = v THEN BytesAt(vec.iov)
           ELSE IF vecs[w] # NoIOVec THEN BytesAt(vecs[w].iov) ELSE NoIOVec
    BY <2>2
  <2>6. VecBytes' = [w \in IOVec |->
                       IF w = v THEN BytesAt(vec.iov)
                       ELSE IF vecs[w] # NoIOVec THEN BytesAt(vecs[w].iov) ELSE NoIOVec]
    BY <2>3, <2>5
  <2>7. [VecBytes EXCEPT ![v] = BytesAt(vec.iov)] =
           [w \in IOVec |->
              IF w = v THEN BytesAt(vec.iov)
              ELSE IF vecs[w] # NoIOVec THEN BytesAt(vecs[w].iov) ELSE NoIOVec]
    BY <2>4
  <2>8. QED BY <2>6, <2>7
<1>13. l \in Bytewise!Exists
  BY <1>1, ExistsIsLive
<1>14. VecBytes' = [VecBytes EXCEPT ![v] = ListBytes[l]]
  BY ONLY <1>10, <1>12
<1>15. QED
  BY ONLY <1>8, <1>9, <1>11, <1>13, <1>14 DEF Bytewise!Gather

LEMMA ReadBufferIsRead ==
    ASSUME NEW b \in Buffer, ReadBuffer(b)
    PROVE  Bytewise!Read(b)
<1>1. /\ position[b] < lengthOf[b] /\ position' = [position EXCEPT ![b] = @ + 1]
      /\ lists' = lists /\ vecs' = vecs
  BY DEF ReadBuffer
<1>2. ListBytes' = ListBytes
  BY <1>1, SameBytes
<1>3. VecBytes' = VecBytes
  BY <1>1, VecBytesStay
<1>4. QED BY ONLY <1>1, <1>2, <1>3 DEF Bytewise!Read

LEMMA NothingMoves ==
    ASSUME lists' = lists, vecs' = vecs, position' = position
    PROVE  UNCHANGED <<ListBytes, VecBytes, position>>
BY SameBytes, VecBytesStay

LEMMA InitialBytes == Init => Bytewise!ByteInit
<1> SUFFICES ASSUME Init PROVE Bytewise!ByteInit
  OBVIOUS
<1>1. \A l \in List : BytesOfList(lists[l]) = NoList
  BY DEF Init, BytesOfList
<1>2. ListBytes = [l \in List |-> NoList]
  BY <1>1, ListBytesIs
<1>3. VecBytes = [v \in IOVec |-> NoIOVec]
  BY DEF Init, VecBytes, LiveVec
<1>4. QED BY <1>2, <1>3 DEF Init, Bytewise!ByteInit

LEMMA StepOfBytes ==
    EncodingInv /\ [CarefulNext]_encodingVars => [Bytewise!ByteNext]_(Bytewise!byteVars)
<1> SUFFICES ASSUME EncodingInv, [CarefulNext]_encodingVars
             PROVE  Bytewise!ByteNext \/ UNCHANGED <<ListBytes, VecBytes, position>>
  BY DEF Bytewise!byteVars
<1>1. CASE ListStep
  <2>1. CASE \E l \in List : Create(l) \/ Acquire(l) \/ Release(l)
    BY <2>1, CreateIsNew, AcquireIsNothing, ReleaseForgets DEF Bytewise!ByteNext
  <2>2. CASE \E l \in List, b \in Buffer : AppendBuffer(l, b)
    BY <2>2, AppendIsInsertTail DEF Bytewise!ByteNext
  <2>3. CASE \E l, slice \in List :
                \E offset, length \in 0..(MaxEntries + 1) : Slice(l, slice, offset, length)
    <3>1. \A n \in 0..(MaxEntries + 1) : n \in Nat
      OBVIOUS
    <3>2. QED BY <2>3, <3>1, SliceIsCut DEF Bytewise!ByteNext
  <2>4. CASE \E l \in List, v \in IOVec : CreateIOVec(l, v)
    BY <2>4, CreateIOVecIsGather DEF Bytewise!ByteNext
  <2>5. CASE \E v \in IOVec : IOVecRelease(v)
    BY <2>5, IOVecReleaseForgets DEF Bytewise!ByteNext
  <2>6. QED BY <1>1, <2>1, <2>2, <2>3, <2>4, <2>5 DEF ListStep
<1>2. CASE \E b \in Buffer : ReadBuffer(b)
  BY <1>2, ReadBufferIsRead DEF Bytewise!ByteNext
<1>3. CASE \E b \in Buffer : ReleaseBuffer(b)
  <2>1. lists' = lists /\ vecs' = vecs /\ position' = position
    BY <1>3 DEF ReleaseBuffer
  <2>2. QED BY <2>1, NothingMoves
<1>4. CASE \E l \in List, b \in Buffer :
              l \in Live /\ lists[l].arrays # <<>> /\ ShiftsRight(lists[l]) /\ PrependBuffer(l, b)
  BY <1>4, PrependIsInsertHead DEF Bytewise!ByteNext
<1>5. CASE UNCHANGED encodingVars
  BY <1>5, NothingMoves DEF encodingVars, bufferVars
<1>6. QED BY <1>1, <1>2, <1>3, <1>4, <1>5 DEF CarefulNext, BufferStep

(* An encoding buffer reads as the concatenation of its buffers, a slice   *)
(* is a part of its source, and an IOVec gathers what its list held when   *)
(* it was made, whatever is inserted after that (ImplementsByteLists).     *)
THEOREM BuffersImplementByteLists == CarefulSpec => ImplementsByteLists
<1>1. Init => Bytewise!ByteInit
  BY InitialBytes
<1>2. EncodingInv /\ [CarefulNext]_encodingVars => [Bytewise!ByteNext]_(Bytewise!byteVars)
  BY StepOfBytes
<1>3. QED
  BY <1>1, <1>2, EncodingInvHolds, PTL
  DEF CarefulSpec, ImplementsByteLists, Bytewise!ByteSpec
=============================================================================
