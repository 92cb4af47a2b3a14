--------------------------- MODULE McpServerProofs ---------------------------
(***************************************************************************)
(* Proofs about FkPaths and McpServer, for any stores, keys and joins, any *)
(* calls and any writes of other processes between two reads of a call.    *)
(***************************************************************************)
EXTENDS McpServer, FiniteSetTheorems, SequenceTheorems, TLAPS

LEMMA LeastNatural ==
    ASSUME NEW S, S \subseteq Nat, S # {}
    PROVE  \E n \in S : \A m \in S : n <= m
<1> DEFINE R == {pair \in Nat \X Nat : pair[1] < pair[2]}
<1>1. IsWellFoundedOn(R, Nat)
  BY NatLessThanWellFounded DEF OpToRel
<1>2. \A x, y \in Nat : <<x, y>> \in R <=> x < y
  OBVIOUS
<1> HIDE DEF R
<1>3. PICK x \in S : \A y \in S : <<y, x>> \notin R
  BY <1>1, WFMin
<1>4. \A y \in S : y \in Nat /\ x \in Nat /\ ~(y < x)
  BY <1>2, <1>3
<1>5. QED
  BY <1>4

\* What holds of 0 and of n + 1 when it holds of n holds up to N.
LEMMA UpTo ==
    ASSUME NEW N \in Nat, NEW S, 0 \in S,
           \A n \in 0 .. N - 1 : n \in S => n + 1 \in S
    PROVE  \A n \in 0 .. N : n \in S
<1> DEFINE Bad == {n \in 0 .. N : n \notin S}
<1>1. SUFFICES ASSUME Bad # {} PROVE FALSE
  OBVIOUS
<1>2. PICK n \in Bad : \A m \in Bad : n <= m
  <2>1. Bad \subseteq Nat
    OBVIOUS
  <2> HIDE DEF Bad
  <2>2. QED
    BY <1>1, <2>1, LeastNatural
<1>3. n # 0 /\ n \in 0 .. N
  BY <1>2
<1>4. n - 1 \in 0 .. N - 1 /\ n - 1 \notin Bad
  BY <1>2, <1>3
<1>5. n - 1 \in S
  BY <1>4
<1>6. QED
  BY <1>2, <1>3, <1>4, <1>5
-----------------------------------------------------------------------------
(* Sorting *)

InOrderOf(S, before) ==
    {s \in [1..Cardinality(S) -> S] :
        \A i, j \in DOMAIN s : i < j => <<s[i], s[j]>> \in before}

\* Every part that has a member has a first one.
HasFirsts(S, before) ==
    \A T \in SUBSET S : T # {} => \E x \in T : \A y \in T \ {x} : <<x, y>> \in before

\* A finite set whose parts have first members can be listed in order.
LEMMA OrderExists ==
    ASSUME NEW S, IsFiniteSet(S), NEW before, HasFirsts(S, before)
    PROVE  InOrderOf(S, before) # {}
<1> DEFINE Bad == {n \in Nat : \E T \in SUBSET S : Cardinality(T) = n /\ InOrderOf(T, before) = {}}
<1>1. SUFFICES ASSUME InOrderOf(S, before) = {} PROVE FALSE
  OBVIOUS
<1>2. Cardinality(S) \in Bad
  BY <1>1, FS_CardinalityType
<1>3. PICK n \in Bad : \A m \in Bad : n <= m
  <2>1. Bad \subseteq Nat
    OBVIOUS
  <2> HIDE DEF Bad
  <2>2. QED
    BY <1>2, <2>1, LeastNatural
<1>4. PICK T \in SUBSET S : Cardinality(T) = n /\ InOrderOf(T, before) = {}
  BY <1>3
<1>5. IsFiniteSet(T)
  BY FS_Subset
<1>6. T # {}
  <2>1. ASSUME T = {} PROVE FALSE
    <3>1. n = 0
      BY <1>4, <2>1, FS_EmptySet
    <3>2. [i \in 1..0 |-> 0] \in InOrderOf(T, before)
      BY <1>4, <2>1, <3>1 DEF InOrderOf
    <3>3. QED
      BY <1>4, <3>2
  <2>2. QED
    BY <2>1
<1>7. PICK x \in T : \A y \in T \ {x} : <<x, y>> \in before
  BY <1>6 DEF HasFirsts
<1> DEFINE U == T \ {x}
<1>8. n \in Nat /\ n # 0 /\ Cardinality(U) = n - 1
  <2>1. Cardinality(U) = n - 1
    BY <1>4, <1>5, FS_RemoveElement
  <2>2. n # 0
    BY <1>4, <1>5, <1>6, FS_EmptySet
  <2>3. QED
    BY <1>3, <2>1, <2>2
<1>9. InOrderOf(U, before) # {}
  <2>1. U \in SUBSET S /\ n - 1 \in Nat /\ ~(n <= n - 1)
    BY <1>8
  <2>2. n - 1 \notin Bad
    BY <1>3, <2>1
  <2> HIDE DEF U
  <2>3. QED
    BY <1>8, <2>1, <2>2
<1>10. PICK s : s \in InOrderOf(U, before)
  BY <1>9
<1> DEFINE t == [i \in 1..n |-> IF i = 1 THEN x ELSE s[i - 1]]
<1>11. /\ s \in [1..(n - 1) -> U]
       /\ \A i, j \in 1..(n - 1) : i < j => <<s[i], s[j]>> \in before
  BY <1>8, <1>10 DEF InOrderOf
<1>12. ASSUME NEW i \in 1..n
       PROVE  t[i] \in T /\ (i # 1 => i - 1 \in 1..(n - 1) /\ t[i] = s[i - 1] /\ t[i] \in U)
  BY <1>8, <1>11
<1>13. ASSUME NEW i \in 1..n, NEW j \in 1..n, i < j
       PROVE  <<t[i], t[j]>> \in before
  <2>1. j # 1 /\ t[j] = s[j - 1] /\ t[j] \in U /\ j - 1 \in 1..(n - 1)
    BY <1>8, <1>12, <1>13
  <2>2. CASE i = 1
    <3>1. t[i] = x
      BY <2>2
    <3> HIDE DEF t
    <3>2. QED
      BY <1>7, <2>1, <3>1
  <2>3. CASE i # 1
    <3>1. t[i] = s[i - 1] /\ i - 1 \in 1..(n - 1) /\ i - 1 < j - 1
      BY <1>12, <1>13, <2>3, <1>8
    <3> HIDE DEF t
    <3>2. QED
      BY <1>11, <2>1, <3>1
  <2>4. QED
    BY <2>2, <2>3
<1>14. t \in [1..n -> T]
  <2>1. t = [i \in 1..n |-> t[i]]
    OBVIOUS
  <2> HIDE DEF t
  <2>2. QED
    BY <1>12, <2>1
<1> HIDE DEF t
<1>15. t \in InOrderOf(T, before)
  BY <1>4, <1>13, <1>14 DEF InOrderOf
<1>16. QED
  BY <1>4, <1>15

Members(s) == {s[i] : i \in 1..Len(s)}

\* The sequence holds every member of the set once.
Lists(s, S) ==
    /\ s \in Seq(S) /\ Len(s) = Cardinality(S) /\ Cardinality(S) \in Nat
    /\ S = Members(s)

LEMMA InOrderLists ==
    ASSUME NEW S, IsFiniteSet(S), NEW before, HasFirsts(S, before),
           \A x \in S : <<x, x>> \notin before
    PROVE  LET s == InOrder(S, before)
           IN  Lists(s, S)
<1> DEFINE s == InOrder(S, before)
           n == Cardinality(S)
<1>1. n \in Nat
  BY FS_CardinalityType
<1>2. s \in InOrderOf(S, before)
  <2>1. InOrderOf(S, before) # {}
    BY OrderExists
  <2>2. \E f \in [1..Cardinality(S) -> S] :
            \A i, j \in DOMAIN f : i < j => <<f[i], f[j]>> \in before
    BY <2>1 DEF InOrderOf
  <2>3. /\ s \in [1..Cardinality(S) -> S]
        /\ \A i, j \in DOMAIN s : i < j => <<s[i], s[j]>> \in before
    BY <2>2 DEF InOrder
  <2>4. QED
    BY <2>3 DEF InOrderOf
<1>3. s \in [1..n -> S] /\ \A i, j \in 1..n : i < j => <<s[i], s[j]>> \in before
  BY <1>2 DEF InOrderOf
<1> HIDE DEF s
<1>4. s \in Seq(S) /\ Len(s) = n /\ DOMAIN s = 1..n
  BY <1>1, <1>3
<1> HIDE DEF n
<1>5. s \in Injection(1..n, S)
  <2>1. ASSUME NEW i \in 1..n, NEW j \in 1..n, s[i] = s[j], i # j PROVE FALSE
    <3>1. s[i] \in S /\ (i < j \/ j < i)
      BY <1>1, <1>3, <2>1
    <3>2. QED
      BY <1>3, <2>1, <3>1
  <2>2. QED
    BY <1>3, <2>1 DEF Injection, IsInjective
<1>6. Cardinality(1..n) = n
  BY <1>1, FS_Interval
<1>7. s \in Surjection(1..n, S)
  BY <1>5, <1>6, FS_Injection DEF n
<1>8. \A x \in S : \E i \in 1..n : s[i] = x
  BY <1>7 DEF Surjection
<1>9. S = {s[i] : i \in 1..n}
  BY <1>3, <1>8
<1>10. QED
  BY <1>1, <1>4, <1>9 DEF s, n, Lists, Members

LEMMA AscendingLists ==
    ASSUME NEW S, IsFiniteSet(S), S \subseteq Nat
    PROVE  Lists(Ascending(S), S)
<1> DEFINE before == {p \in S \X S : p[1] < p[2]}
<1>1. \A x, y \in S : <<x, y>> \in before <=> x < y
  OBVIOUS
<1>2. Ascending(S) = InOrder(S, before)
  BY DEF Ascending
<1> HIDE DEF before
<1>3. HasFirsts(S, before)
  <2>1. SUFFICES ASSUME NEW T \in SUBSET S, T # {}
                 PROVE  \E x \in T : \A y \in T \ {x} : <<x, y>> \in before
    BY DEF HasFirsts
  <2>2. PICK x \in T : \A y \in T : x <= y
    BY <2>1, LeastNatural
  <2>3. ASSUME NEW y \in T \ {x} PROVE <<x, y>> \in before
    <3>1. x \in S /\ y \in S /\ x <= y /\ x # y
      BY <2>2
    <3>2. x < y
      BY <3>1
    <3>3. QED
      BY <1>1, <3>1, <3>2
  <2>4. QED
    BY <2>3
<1>4. \A x \in S : <<x, x>> \notin before
  BY <1>1
<1>5. Lists(InOrder(S, before), S)
  BY <1>3, <1>4, InOrderLists
<1>6. QED
  BY <1>2, <1>5

AreKeys(S) == \A fk \in S : fk.name \in Nat /\ fk.owner \in Nat /\ fk.ref \in Nat

\* Among keys of different names or owners one comes before all others.
LEMMA FirstOfKeys ==
    ASSUME NEW S, AreKeys(S), OnePerName(S), S # {}
    PROVE  \E x \in S : \A y \in S \ {x} : Before(x, y)
<1> DEFINE Names == {fk.name : fk \in S}
<1>1. PICK n \in Names : \A m \in Names : n <= m
  <2>1. Names \subseteq Nat /\ Names # {}
    BY DEF AreKeys
  <2> HIDE DEF Names
  <2>2. QED
    BY <2>1, LeastNatural
<1> DEFINE Owners == {fk.owner : fk \in {g \in S : g.name = n}}
<1>2. PICK o \in Owners : \A m \in Owners : o <= m
  <2>1. Owners \subseteq Nat /\ Owners # {}
    BY <1>1 DEF AreKeys
  <2> HIDE DEF Owners
  <2>2. QED
    BY <2>1, LeastNatural
<1>3. PICK x \in S : x.name = n /\ x.owner = o
  BY <1>2
<1>4. ASSUME NEW y \in S \ {x} PROVE Before(x, y)
  <2>1. /\ x.name \in Nat /\ y.name \in Nat /\ x.owner \in Nat /\ y.owner \in Nat
        /\ x.name <= y.name /\ (y.name = x.name => x.owner <= y.owner)
    BY <1>1, <1>2, <1>3 DEF AreKeys
  <2>2. x.name # y.name \/ x.owner # y.owner
    BY DEF OnePerName
  <2>3. QED
    BY <2>1, <2>2 DEF Before
<1>5. QED
  BY <1>4

LEMMA KeySeqLists ==
    ASSUME NEW S, IsFiniteSet(S), AreKeys(S), OnePerName(S)
    PROVE  Lists(KeySeq(S), S)
<1> DEFINE before == {p \in S \X S : Before(p[1], p[2])}
<1>1. \A x, y \in S : <<x, y>> \in before <=> Before(x, y)
  OBVIOUS
<1>2. KeySeq(S) = InOrder(S, before)
  BY DEF KeySeq
<1> HIDE DEF before
<1>3. HasFirsts(S, before)
  <2>1. SUFFICES ASSUME NEW T \in SUBSET S, T # {}
                 PROVE  \E x \in T : \A y \in T \ {x} : <<x, y>> \in before
    BY DEF HasFirsts
  <2>2. AreKeys(T) /\ OnePerName(T)
    BY DEF AreKeys, OnePerName
  <2>3. PICK x \in T : \A y \in T \ {x} : Before(x, y)
    BY <2>1, <2>2, FirstOfKeys
  <2>4. QED
    BY <1>1, <2>3
<1>4. \A x \in S : <<x, x>> \notin before
  <2>1. \A x \in S : ~Before(x, x)
    BY DEF AreKeys, Before
  <2>2. QED
    BY <1>1, <2>1
<1>5. QED
  BY <1>2, <1>3, <1>4, InOrderLists

-----------------------------------------------------------------------------
(* Flattening *)

LEMMA MembersOfConcat ==
    ASSUME NEW A, NEW s \in Seq(A), NEW t \in Seq(A)
    PROVE  s \o t \in Seq(A) /\ Members(s \o t) = Members(s) \cup Members(t)
<1>1. /\ s \o t \in Seq(A) /\ Len(s \o t) = Len(s) + Len(t)
      /\ \A i \in 1..Len(s) : (s \o t)[i] = s[i]
      /\ \A i \in 1..Len(t) : (s \o t)[Len(s) + i] = t[i]
      /\ Len(s) \in Nat /\ Len(t) \in Nat
  OBVIOUS
<1> DEFINE u == s \o t
<1> HIDE DEF u
<1>2. ASSUME NEW i \in 1..Len(u) PROVE u[i] \in Members(s) \cup Members(t)
  <2>1. CASE i \in 1..Len(s)
    BY <1>1, <2>1 DEF Members, u
  <2>2. CASE i \notin 1..Len(s)
    <3>1. i - Len(s) \in 1..Len(t) /\ Len(s) + (i - Len(s)) = i
      BY <1>1, <2>2 DEF u
    <3>2. u[i] = t[i - Len(s)]
      BY <1>1, <3>1 DEF u
    <3>3. QED
      BY <3>1, <3>2 DEF Members
  <2>3. QED
    BY <2>1, <2>2
<1>3. ASSUME NEW i \in 1..Len(s) PROVE s[i] \in Members(u)
  <2>1. i \in 1..Len(u) /\ u[i] = s[i]
    BY <1>1 DEF u
  <2>2. QED
    BY <2>1 DEF Members
<1>4. ASSUME NEW i \in 1..Len(t) PROVE t[i] \in Members(u)
  <2>1. Len(s) + i \in 1..Len(u) /\ u[Len(s) + i] = t[i]
    BY <1>1 DEF u
  <2>2. QED
    BY <2>1 DEF Members
<1>5. Members(u) = Members(s) \cup Members(t)
  BY <1>2, <1>3, <1>4 DEF Members
<1>6. QED
  BY <1>1, <1>5 DEF u

Flattens(f, n, seqs) ==
    f = [i \in 1..n |-> IF i = 1 THEN seqs[i] ELSE f[i - 1] \o seqs[i]]

LEMMA FlattensExists ==
    ASSUME NEW seqs, NEW N \in Nat
    PROVE  \E f : Flattens(f, N, seqs)
<1> DEFINE S == {n \in Nat : \E f : Flattens(f, n, seqs)}
<1>1. 0 \in S
  <2>1. Flattens([i \in 1..0 |-> 0], 0, seqs)
    BY DEF Flattens
  <2>2. QED
    BY <2>1
<1>2. ASSUME NEW n \in 0..N - 1, n \in S PROVE n + 1 \in S
  <2>1. PICK f : Flattens(f, n, seqs)
    BY <1>2
  <2> DEFINE g == [i \in 1..n + 1 |-> IF i = n + 1 THEN (IF n = 0 THEN seqs[1] ELSE f[n] \o seqs[n + 1])
                                      ELSE f[i]]
  <2>2. ASSUME NEW i \in 1..n + 1
        PROVE  g[i] = IF i = 1 THEN seqs[i] ELSE g[i - 1] \o seqs[i]
    <3>1. CASE i = n + 1
      <4>1. ASSUME i # 1
            PROVE  n # 0 /\ i - 1 = n /\ g[i - 1] = f[n] /\ g[i] = f[n] \o seqs[n + 1]
        <5>1. n # 0 /\ i - 1 = n /\ n \in 1..n + 1 /\ n # n + 1 /\ n + 1 \in 1..n + 1
          BY <3>1, <4>1
        <5>2. g[n] = f[n] /\ g[n + 1] = f[n] \o seqs[n + 1]
          BY <5>1
        <5> HIDE DEF g
        <5>3. QED
          BY <3>1, <5>1, <5>2
      <4>2. i = 1 => n = 0 /\ g[i] = seqs[1]
        BY <3>1
      <4> HIDE DEF g
      <4>3. QED
        BY <3>1, <4>1, <4>2
    <3>2. CASE i # n + 1
      <4>1. i \in 1..n /\ g[i] = f[i] /\ (i # 1 => i - 1 \in 1..n /\ g[i - 1] = f[i - 1])
        BY <3>2
      <4>2. f[i] = IF i = 1 THEN seqs[i] ELSE f[i - 1] \o seqs[i]
        BY <2>1, <4>1 DEF Flattens
      <4> HIDE DEF g
      <4>3. QED
        BY <4>1, <4>2
    <3>3. QED
      BY <3>1, <3>2
  <2>3. g = [i \in 1..n + 1 |-> g[i]]
    OBVIOUS
  <2> HIDE DEF g
  <2>4. Flattens(g, n + 1, seqs)
    BY <2>2, <2>3 DEF Flattens
  <2>5. QED
    BY <2>4
<1> HIDE DEF S
<1>3. N \in S
  BY <1>1, <1>2, UpTo
<1>4. QED
  BY <1>3 DEF S

\* A flattened sequence has the members of its parts.
LEMMA FlattenMembers ==
    ASSUME NEW A, NEW seqs \in Seq(Seq(A))
    PROVE  /\ FlattenSeq(seqs) \in Seq(A)
           /\ Members(FlattenSeq(seqs)) = UNION {Members(seqs[i]) : i \in 1..Len(seqs)}
<1> DEFINE N == Len(seqs)
<1>n. N \in Nat /\ \A i \in 1..N : seqs[i] \in Seq(A)
  OBVIOUS
<1>1. CASE N = 0
  <2>1. seqs = <<>> /\ FlattenSeq(seqs) = <<>>
    BY <1>1 DEF FlattenSeq
  <2>2. Members(FlattenSeq(seqs)) = {}
    BY <2>1 DEF Members
  <2>3. UNION {Members(seqs[i]) : i \in 1..Len(seqs)} = {}
    BY <1>1
  <2>4. <<>> \in Seq(A)
    OBVIOUS
  <2>5. FlattenSeq(seqs) \in Seq(A)
    BY <2>1, <2>4
  <2>6. QED
    BY <2>2, <2>3, <2>5
<1>2. CASE N # 0
  <2> DEFINE f == CHOOSE f : Flattens(f, N, seqs)
  <2>1. FlattenSeq(seqs) = f[N]
    BY <1>2 DEF FlattenSeq, Flattens
  <2>2. Flattens(f, N, seqs)
    BY <1>n, FlattensExists
  <2> HIDE DEF f, N
  <2>3. \A i \in 1..N : f[i] = IF i = 1 THEN seqs[i] ELSE f[i - 1] \o seqs[i]
    BY <2>2 DEF Flattens
  <2> DEFINE Part(n) == UNION {Members(seqs[i]) : i \in 1..n}
             S == {n \in Nat : n # 0 => f[n] \in Seq(A) /\ Members(f[n]) = Part(n)}
  <2>4. 0 \in S
    OBVIOUS
  <2>5. ASSUME NEW n \in 0..N - 1, n \in S PROVE n + 1 \in S
    <3>1. n + 1 \in 1..N /\ n \in Nat
      BY <1>n
    <3>2. seqs[n + 1] \in Seq(A)
      BY <1>n, <3>1
    <3>3. Part(n + 1) = Part(n) \cup Members(seqs[n + 1])
      <4>1. 1..(n + 1) = (1..n) \cup {n + 1}
        BY <3>1
      <4>2. QED
        BY <4>1
    <3>4. CASE n = 0
      <4>1. f[n + 1] = seqs[n + 1]
        BY <2>3, <3>1, <3>4
      <4>2. Part(n) = {}
        BY <3>4
      <4> HIDE DEF Part
      <4>3. QED
        BY <3>1, <3>2, <3>3, <4>1, <4>2
    <3>5. CASE n # 0
      <4>0. n + 1 # 1 /\ (n + 1) - 1 = n
        BY <3>1, <3>5
      <4>1. f[n + 1] = f[n] \o seqs[n + 1]
        <5>1. f[n + 1] = IF n + 1 = 1 THEN seqs[n + 1] ELSE f[(n + 1) - 1] \o seqs[n + 1]
          BY <2>3, <3>1
        <5>2. QED
          BY <4>0, <5>1
      <4>2. f[n] \in Seq(A) /\ Members(f[n]) = Part(n)
        BY <2>5, <3>5
      <4> HIDE DEF Part
      <4>3. /\ f[n] \o seqs[n + 1] \in Seq(A)
            /\ Members(f[n] \o seqs[n + 1]) = Members(f[n]) \cup Members(seqs[n + 1])
        BY <3>2, <4>2, MembersOfConcat
      <4>4. f[n + 1] \in Seq(A) /\ Members(f[n + 1]) = Part(n + 1)
        BY <3>3, <4>1, <4>2, <4>3
      <4>5. QED
        BY <3>1, <4>4
    <3>6. QED
      BY <3>4, <3>5
  <2>6. N \in S
    <3> HIDE DEF S
    <3>1. N \in Nat
      BY <1>n
    <3>2. \A n \in 0..N : n \in S
      BY <2>4, <2>5, <3>1, UpTo
    <3>3. QED
      BY <3>1, <3>2
  <2>7. QED
    BY <1>2, <2>1, <2>6 DEF N
<1>3. QED
  BY <1>1, <1>2

-----------------------------------------------------------------------------
(* The tables within k hops *)

AreBalls(f, n, graph, start) ==
    f = [i \in 0..n |-> IF i = 0 THEN {start}
                        ELSE f[i - 1] \cup UNION {Neighbours(graph, m) : m \in f[i - 1]}]

LEMMA BallsExist ==
    ASSUME NEW graph, NEW start, NEW N \in Nat
    PROVE  \E f : AreBalls(f, N, graph, start)
<1> DEFINE Wider(B) == B \cup UNION {Neighbours(graph, m) : m \in B}
           S == {n \in Nat : \E f : AreBalls(f, n, graph, start)}
<1>1. 0 \in S
  <2>1. AreBalls([i \in 0..0 |-> {start}], 0, graph, start)
    BY DEF AreBalls
  <2>2. QED
    BY <2>1
<1>2. ASSUME NEW n \in 0..N - 1, n \in S PROVE n + 1 \in S
  <2>1. PICK f : AreBalls(f, n, graph, start)
    BY <1>2
  <2> DEFINE g == [i \in 0..n + 1 |-> IF i = n + 1 THEN Wider(f[n]) ELSE f[i]]
  <2>2. ASSUME NEW i \in 0..n + 1
        PROVE  g[i] = IF i = 0 THEN {start} ELSE Wider(g[i - 1])
    <3>1. CASE i = n + 1
      <4>1. i # 0 /\ i - 1 = n /\ n \in 0..n + 1 /\ n # n + 1
        BY <3>1
      <4>2. g[i - 1] = f[n] /\ g[i] = Wider(f[n])
        BY <3>1, <4>1
      <4> HIDE DEF g, Wider
      <4>3. QED
        BY <4>1, <4>2
    <3>2. CASE i # n + 1
      <4>1. i \in 0..n /\ g[i] = f[i] /\ (i # 0 => i - 1 \in 0..n /\ g[i - 1] = f[i - 1])
        BY <3>2
      <4>2. f[i] = IF i = 0 THEN {start} ELSE Wider(f[i - 1])
        BY <2>1, <4>1 DEF AreBalls
      <4> HIDE DEF g, Wider
      <4>3. QED
        BY <4>1, <4>2
    <3>3. QED
      BY <3>1, <3>2
  <2>3. g = [i \in 0..n + 1 |-> g[i]]
    OBVIOUS
  <2> HIDE DEF g
  <2>4. AreBalls(g, n + 1, graph, start)
    BY <2>2, <2>3 DEF AreBalls
  <2>5. QED
    BY <2>4
<1> HIDE DEF S
<1>3. N \in S
  BY <1>1, <1>2, UpTo
<1>4. QED
  BY <1>3 DEF S

\* The balls of two recursions agree where both are defined.
LEMMA BallsAgree ==
    ASSUME NEW graph, NEW start, NEW f, NEW g, NEW n \in Nat, NEW k \in 0..n,
           AreBalls(f, k, graph, start), AreBalls(g, n, graph, start)
    PROVE  f[k] = g[k]
<1> DEFINE S == {i \in Nat : i \in 0..k => f[i] = g[i]}
<1>1. \A i \in 0..k : f[i] = IF i = 0 THEN {start}
                             ELSE f[i - 1] \cup UNION {Neighbours(graph, m) : m \in f[i - 1]}
  BY DEF AreBalls
<1>2. \A i \in 0..n : g[i] = IF i = 0 THEN {start}
                             ELSE g[i - 1] \cup UNION {Neighbours(graph, m) : m \in g[i - 1]}
  BY DEF AreBalls
<1>3. 0 \in S
  <2>1. 0 \in 0..k /\ 0 \in 0..n
    OBVIOUS
  <2>2. f[0] = {start}
    BY <1>1, <2>1
  <2>3. g[0] = {start}
    BY <1>2, <2>1
  <2>4. QED
    BY <2>2, <2>3
<1>4. ASSUME NEW i \in 0..k - 1, i \in S PROVE i + 1 \in S
  <2>1. i + 1 \in 0..k /\ i + 1 \in 0..n /\ i + 1 # 0 /\ (i + 1) - 1 = i /\ i \in 0..k
    OBVIOUS
  <2>2. f[i] = g[i]
    BY <1>4, <2>1
  <2>3. f[i + 1] = f[i] \cup UNION {Neighbours(graph, m) : m \in f[i]}
    BY <1>1, <2>1
  <2>4. g[i + 1] = g[i] \cup UNION {Neighbours(graph, m) : m \in g[i]}
    BY <1>2, <2>1
  <2>5. f[i + 1] = g[i + 1]
    BY <2>2, <2>3, <2>4
  <2>6. QED
    BY <2>1, <2>5
<1>5. k \in S
  <2> HIDE DEF S
  <2>1. QED
    BY <1>3, <1>4, UpTo
<1>6. QED
  BY <1>5

LEMMA BallSteps ==
    ASSUME NEW graph, NEW start, NEW k \in Nat
    PROVE  /\ Ball(graph, start, 0) = {start}
           /\ Ball(graph, start, k + 1) = Ball(graph, start, k) \cup
                  UNION {Neighbours(graph, m) : m \in Ball(graph, start, k)}
<1> DEFINE b(n) == CHOOSE f : AreBalls(f, n, graph, start)
<1>1. ASSUME NEW n \in Nat PROVE Ball(graph, start, n) = b(n)[n] /\ AreBalls(b(n), n, graph, start)
  <2>1. Ball(graph, start, n) = b(n)[n]
    BY DEF Ball, AreBalls
  <2>2. \E f : AreBalls(f, n, graph, start)
    BY BallsExist
  <2>3. AreBalls(b(n), n, graph, start)
    BY <2>2
  <2>4. QED
    BY <2>1, <2>3
<1> HIDE DEF b
<1>2. Ball(graph, start, 0) = {start}
  BY <1>1 DEF AreBalls
<1>3. b(k + 1)[k + 1] = b(k + 1)[k] \cup UNION {Neighbours(graph, m) : m \in b(k + 1)[k]}
  <2>1. AreBalls(b(k + 1), k + 1, graph, start)
    BY <1>1
  <2>2. k + 1 \in 0..k + 1 /\ k + 1 # 0 /\ (k + 1) - 1 = k
    OBVIOUS
  <2>3. QED
    BY <2>1, <2>2 DEF AreBalls
<1>4. b(k + 1)[k] = Ball(graph, start, k)
  <2>1. AreBalls(b(k), k, graph, start) /\ AreBalls(b(k + 1), k + 1, graph, start)
    BY <1>1
  <2>2. k + 1 \in Nat /\ k \in 0..k + 1
    OBVIOUS
  <2>3. b(k)[k] = b(k + 1)[k]
    BY <2>1, <2>2, BallsAgree
  <2>4. QED
    BY <1>1, <2>3
<1>5. Ball(graph, start, k + 1) = b(k + 1)[k + 1]
  BY <1>1
<1>6. QED
  BY <1>2, <1>3, <1>4, <1>5

LEMMA BallsGrow ==
    ASSUME NEW graph, NEW start, NEW i \in Nat, NEW j \in Nat, i <= j
    PROVE  Ball(graph, start, i) \subseteq Ball(graph, start, j)
<1> DEFINE S == {d \in Nat : Ball(graph, start, i) \subseteq Ball(graph, start, i + d)}
<1>1. 0 \in S
  OBVIOUS
<1>2. ASSUME NEW d \in 0..(j - i) - 1, d \in S PROVE d + 1 \in S
  <2>1. i + d \in Nat /\ i + (d + 1) = (i + d) + 1
    OBVIOUS
  <2>2. Ball(graph, start, i + d) \subseteq Ball(graph, start, (i + d) + 1)
    BY <2>1, BallSteps
  <2>3. QED
    BY <1>2, <2>1, <2>2
<1>3. j - i \in S
  <2> HIDE DEF S
  <2>1. j - i \in Nat
    OBVIOUS
  <2>2. QED
    BY <1>1, <1>2, <2>1, UpTo
<1>4. QED
  BY <1>3

-----------------------------------------------------------------------------
(* The breadth-first search *)

IsGraph(graph) == IsFiniteSet(graph) /\ AreKeys(graph) /\ OnePerName(graph)
TablesOf(graph, start) == {start} \cup UNION {{fk.owner, fk.ref} : fk \in graph}
Edges(graph) == {_edge_from_seed(fk, left) : fk \in graph, left \in Nat}

Visited(st) == DOMAIN st.route
Depth(st, m) == Len(st.route[m])

TypedSearch(graph, start, hops, st) ==
    /\ st.frontier \in Seq(Visited(st)) /\ Visited(st) \subseteq TablesOf(graph, start)
    /\ start \in Visited(st) /\ st.route[start] = <<>>
    /\ \A m \in Visited(st) : st.route[m] \in Seq(Edges(graph)) /\ Depth(st, m) <= hops

\* Every table but the start was reached by a walk.
Walked(graph, start, st) ==
    \A m \in Visited(st) \ {start} : Depth(st, m) # 0 /\ IsWalk(graph, start, m, st.route[m])

\* No table can be reached by fewer keys.
NotNearer(graph, start, st) ==
    \A m \in Visited(st) \ {start} : m \notin Ball(graph, start, Depth(st, m) - 1)

\* The depths in the frontier do not decrease, and differ by one at most.
Queued(st) ==
    \A i, j \in 1..Len(st.frontier) :
        /\ i < j => Depth(st, st.frontier[i]) <= Depth(st, st.frontier[j])
        /\ Depth(st, st.frontier[j]) <= Depth(st, st.frontier[i]) + 1

\* The neighbours of a popped table within the bound were visited.
Expanded(graph, hops, st) ==
    \A m \in Visited(st) \ Members(st.frontier) :
        Depth(st, m) >= hops \/ Neighbours(graph, m) \subseteq Visited(st)

\* Everything as near as the head of the frontier was visited.
Closed(graph, start, st) ==
    st.frontier # <<>> => Ball(graph, start, Depth(st, Head(st.frontier))) \subseteq Visited(st)

SearchInv(graph, start, hops, st) ==
    /\ TypedSearch(graph, start, hops, st) /\ Walked(graph, start, st) /\ NotNearer(graph, start, st)
    /\ Queued(st) /\ Expanded(graph, hops, st) /\ Closed(graph, start, st)

FoundBy(graph, hops, st) ==
    IF Depth(st, Head(st.frontier)) >= hops THEN {}
    ELSE Neighbours(graph, Head(st.frontier)) \ Visited(st)

LEMMA TablesAreFinite ==
    ASSUME NEW graph, NEW start \in Nat, IsGraph(graph)
    PROVE  IsFiniteSet(TablesOf(graph, start)) /\ TablesOf(graph, start) \subseteq Nat
<1> DEFINE O == {fk.owner : fk \in graph}
           R == {fk.ref : fk \in graph}
           o == [fk \in graph |-> fk.owner]
           r == [fk \in graph |-> fk.ref]
<1>1. IsFiniteSet(graph)
  BY DEF IsGraph
<1>2. IsFiniteSet(O)
  <2>1. o \in Surjection(graph, O)
    BY DEF Surjection
  <2> HIDE DEF o, O
  <2>2. QED
    BY <1>1, <2>1, FS_Surjection
<1>3. IsFiniteSet(R)
  <2>1. r \in Surjection(graph, R)
    BY DEF Surjection
  <2> HIDE DEF r, R
  <2>2. QED
    BY <1>1, <2>1, FS_Surjection
<1>4. TablesOf(graph, start) = (O \cup R) \cup {start}
  BY DEF TablesOf
<1>5. O \subseteq Nat /\ R \subseteq Nat
  BY DEF IsGraph, AreKeys
<1> HIDE DEF O, R
<1>6. IsFiniteSet(O \cup R)
  BY <1>2, <1>3, FS_Union
<1>7. IsFiniteSet((O \cup R) \cup {start})
  BY <1>6, FS_AddElement
<1>8. QED
  BY <1>4, <1>5, <1>7

\* A table's neighbour is at the other end of the key the search takes.
LEMMA FirstKeyFacts ==
    ASSUME NEW graph, IsGraph(graph), NEW n, NEW m \in Neighbours(graph, n)
    PROVE  LET fk == FirstKey(graph, n, m)
           IN  fk \in graph /\ n \in {fk.owner, fk.ref} /\ OtherEnd(fk, n) = m
<1> DEFINE keys == {fk \in Touching(graph, n) : OtherEnd(fk, n) = m}
<1>1. keys # {} /\ keys \subseteq graph
  BY DEF Neighbours, Touching
<1>2. AreKeys(keys) /\ OnePerName(keys)
  BY <1>1 DEF IsGraph, AreKeys, OnePerName
<1>3. \E x \in keys : \A y \in keys \ {x} : Before(x, y)
  <2> HIDE DEF keys
  <2>1. QED
    BY <1>1, <1>2, FirstOfKeys
<1>4. FirstKey(graph, n, m) \in keys
  BY <1>3 DEF FirstKey
<1>5. QED
  BY <1>4 DEF Touching

\* One edge of a walk: a stored key, with its columns on their own sides.
IsStep(graph, e) ==
    \E fk \in graph :
        /\ e.fk = fk.name
        /\ \/ /\ e.left = fk.owner /\ e.leftCols = fk.ownerCols
              /\ e.right = fk.ref /\ e.rightCols = fk.refCols
           \/ /\ e.left = fk.ref /\ e.leftCols = fk.refCols
              /\ e.right = fk.owner /\ e.rightCols = fk.ownerCols

LEMMA EdgeFacts ==
    ASSUME NEW graph, IsGraph(graph), NEW n, NEW m \in Neighbours(graph, n)
    PROVE  LET e == _edge_from_seed(FirstKey(graph, n, m), n)
           IN  e \in Edges(graph) /\ e.left = n /\ e.right = m /\ IsStep(graph, e)
<1> DEFINE fk == FirstKey(graph, n, m)
           e == _edge_from_seed(fk, n)
<1>1. fk \in graph /\ n \in {fk.owner, fk.ref} /\ OtherEnd(fk, n) = m
  BY FirstKeyFacts
<1> HIDE DEF fk
<1>2. n \in Nat
  BY <1>1 DEF IsGraph, AreKeys
<1>3. e \in Edges(graph)
  BY <1>1, <1>2 DEF Edges
<1>4. e.left = n /\ e.right = m
  BY <1>1 DEF _edge_from_seed, OtherEnd
<1>5. IsStep(graph, e)
  BY <1>1 DEF _edge_from_seed, IsStep
<1>6. QED
  BY <1>3, <1>4, <1>5 DEF fk

LEMMA NeighboursAreTables ==
    ASSUME NEW graph, NEW start, NEW n
    PROVE  Neighbours(graph, n) \subseteq TablesOf(graph, start)
BY DEF Neighbours, Touching, OtherEnd, TablesOf

\* What one turn of the loop does.
Popped(graph, hops, st, st2) ==
    LET n == Head(st.frontier)
        new == FoundBy(graph, hops, st)
    IN  /\ n \in Visited(st) /\ n = st.frontier[1] /\ Depth(st, n) \in Nat
        /\ new \cap Visited(st) = {} /\ new \subseteq Neighbours(graph, n)
        /\ Depth(st, n) < hops \/ new = {}
        /\ Depth(st, n) >= hops \/ Neighbours(graph, n) \subseteq Visited(st) \cup new
        /\ Visited(st2) = Visited(st) \cup new
        /\ \A m \in Visited(st) : st2.route[m] = st.route[m]
        /\ \A m \in new :
               st2.route[m] = Append(st.route[n], _edge_from_seed(FirstKey(graph, n, m), n))
        /\ st2.frontier \in Seq(Visited(st2))
        /\ Len(st2.frontier) = Len(st.frontier) - 1 + Cardinality(new)
        /\ Cardinality(new) \in Nat /\ Len(st.frontier) \in Nat \ {0} /\ IsFiniteSet(new)
        /\ \A i \in 1..(Len(st.frontier) - 1) : st2.frontier[i] = st.frontier[i + 1]
        /\ \A i \in Len(st.frontier)..Len(st2.frontier) : st2.frontier[i] \in new
        /\ Members(st2.frontier) \cup {n} = Members(st.frontier) \cup new \cup {n}

LEMMA PopFacts ==
    ASSUME NEW graph, NEW start \in Nat, NEW hops \in Nat, NEW st, IsGraph(graph),
           TypedSearch(graph, start, hops, st), st.frontier # <<>>
    PROVE  Popped(graph, hops, st, Pop(graph, hops, st))
<1> DEFINE n == Head(st.frontier)
           new == FoundBy(graph, hops, st)
           st2 == Pop(graph, hops, st)
           rest == Tail(st.frontier)
           tail == Ascending(new)
           V == Visited(st)
<1>1. /\ n \in V /\ n = st.frontier[1] /\ Len(st.frontier) \in Nat \ {0}
      /\ rest \in Seq(V) /\ Len(rest) = Len(st.frontier) - 1
      /\ \A i \in 1..Len(rest) : rest[i] = st.frontier[i + 1]
  <2>1. st.frontier \in Seq(V)
    BY DEF TypedSearch
  <2> DEFINE q == st.frontier
  <2> HIDE DEF q, V
  <2>2. QED
    BY <2>1 DEF q
<1>2. Depth(st, n) \in Nat
  <2>1. st.route[n] \in Seq(Edges(graph))
    BY <1>1 DEF TypedSearch
  <2>2. QED
    BY <2>1 DEF Depth
<1>3. /\ new \cap V = {} /\ new \subseteq Neighbours(graph, n)
      /\ Depth(st, n) < hops \/ new = {}
      /\ Depth(st, n) >= hops \/ Neighbours(graph, n) \subseteq V \cup new
  <2>1. CASE Depth(st, n) >= hops
    BY <1>2, <2>1 DEF FoundBy
  <2>2. CASE ~(Depth(st, n) >= hops)
    BY <1>2, <2>2 DEF FoundBy
  <2>3. QED
    BY <2>1, <2>2
<1>4. IsFiniteSet(new) /\ new \subseteq Nat
  <2>1. new \subseteq TablesOf(graph, start)
    BY <1>3, NeighboursAreTables
  <2>2. QED
    BY <2>1, TablesAreFinite, FS_Subset
<1>5. Lists(tail, new)
  BY <1>4, AscendingLists
<1>6. st2 = [frontier |-> rest \o tail, route |-> Extended(graph, st.route, n, new)]
  BY DEF Pop, FoundBy, Depth, Visited
<1>7. /\ Visited(st2) = V \cup new
      /\ \A m \in V : st2.route[m] = st.route[m]
      /\ \A m \in new :
             st2.route[m] = Append(st.route[n], _edge_from_seed(FirstKey(graph, n, m), n))
  <2>1. st2.route = Extended(graph, st.route, n, new)
    BY <1>6
  <2> HIDE DEF st2, new, n
  <2>2. QED
    BY <1>3, <2>1 DEF Extended, Visited
<1>8. st2.frontier = rest \o tail
  BY <1>6
<1>9. tail \in Seq(new) /\ Len(tail) = Cardinality(new) /\ Cardinality(new) \in Nat /\ Members(tail) = new
  BY <1>5 DEF Lists
<1> HIDE DEF st2, new, tail, rest, n
<1>10. rest \in Seq(V \cup new) /\ tail \in Seq(V \cup new)
  BY <1>1, <1>9, SeqMonotonic
<1> HIDE DEF V
<1>11. /\ rest \o tail \in Seq(V \cup new) /\ Len(rest \o tail) = Len(rest) + Len(tail)
       /\ \A i \in 1..Len(rest) : (rest \o tail)[i] = rest[i]
       /\ \A i \in (Len(rest) + 1)..(Len(rest) + Len(tail)) : (rest \o tail)[i] = tail[i - Len(rest)]
       /\ Members(rest \o tail) = Members(rest) \cup Members(tail)
       /\ Len(rest) \in Nat /\ Len(tail) \in Nat
  <2>1. Members(rest \o tail) = Members(rest) \cup Members(tail)
    BY <1>10, MembersOfConcat
  <2>2. QED
    BY <1>10, <2>1
<1>12. Members(st.frontier) = {n} \cup Members(rest)
  <2>1. ASSUME NEW i \in 1..Len(st.frontier) PROVE st.frontier[i] \in {n} \cup Members(rest)
    <3>1. CASE i = 1
      BY <1>1, <3>1
    <3>2. CASE i # 1
      <4>1. i - 1 \in 1..Len(rest) /\ (i - 1) + 1 = i
        BY <1>1, <3>2
      <4>2. st.frontier[i] = rest[i - 1]
        BY <1>1, <4>1
      <4>3. QED
        BY <4>1, <4>2 DEF Members
    <3>3. QED
      BY <3>1, <3>2
  <2>2. ASSUME NEW i \in 1..Len(rest) PROVE rest[i] \in Members(st.frontier)
    <3>1. i + 1 \in 1..Len(st.frontier)
      BY <1>1
    <3>2. QED
      BY <1>1, <3>1 DEF Members
  <2>3. n \in Members(st.frontier)
    <3>1. 1 \in 1..Len(st.frontier)
      BY <1>1
    <3>2. QED
      BY <1>1, <3>1 DEF Members
  <2>4. QED
    BY <2>1, <2>2, <2>3 DEF Members
<1>13. \A i \in Len(st.frontier)..Len(st2.frontier) : st2.frontier[i] \in new
  <2>1. SUFFICES ASSUME NEW i \in Len(st.frontier)..Len(st2.frontier) PROVE st2.frontier[i] \in new
    OBVIOUS
  <2>2. i \in (Len(rest) + 1)..(Len(rest) + Len(tail)) /\ i - Len(rest) \in 1..Len(tail)
    BY <1>1, <1>8, <1>11
  <2>3. st2.frontier[i] = tail[i - Len(rest)]
    BY <1>8, <1>11, <2>2
  <2>4. tail[i - Len(rest)] \in new
    BY <1>9, <2>2
  <2>5. QED
    BY <2>3, <2>4
<1>14. /\ \A i \in 1..(Len(st.frontier) - 1) : st2.frontier[i] = st.frontier[i + 1]
       /\ st2.frontier \in Seq(V \cup new)
       /\ Len(st2.frontier) = Len(st.frontier) - 1 + Cardinality(new)
  BY <1>1, <1>8, <1>9, <1>11
<1>15. Members(st2.frontier) \cup {n} = Members(st.frontier) \cup new \cup {n}
  BY <1>8, <1>9, <1>11, <1>12
<1> USE DEF V
<1>16. QED
  BY <1>1, <1>2, <1>3, <1>4, <1>7, <1>9, <1>13, <1>14, <1>15 DEF Popped, n, new, st2

LEMMA PopTyped ==
    ASSUME NEW graph, NEW start \in Nat, NEW hops \in Nat, NEW st, NEW st2, IsGraph(graph),
           TypedSearch(graph, start, hops, st), Popped(graph, hops, st, st2)
    PROVE  /\ TypedSearch(graph, start, hops, st2)
           /\ \A m \in FoundBy(graph, hops, st) : Depth(st2, m) = Depth(st, Head(st.frontier)) + 1
           /\ \A m \in Visited(st) : Depth(st2, m) = Depth(st, m) /\ Depth(st, m) \in Nat
<1> DEFINE n == Head(st.frontier)
           new == FoundBy(graph, hops, st)
<1>1. st2.frontier \in Seq(Visited(st2)) /\ Visited(st2) = Visited(st) \cup new
  BY DEF Popped
<1>2. /\ Visited(st) \subseteq TablesOf(graph, start) /\ start \in Visited(st)
      /\ st.route[start] = <<>>
      /\ \A m \in Visited(st) : st.route[m] \in Seq(Edges(graph)) /\ Depth(st, m) <= hops
  BY DEF TypedSearch
<1>3. new \subseteq Neighbours(graph, n) /\ n \in Visited(st) /\ (new # {} => Depth(st, n) < hops)
  BY DEF Popped
<1>4. new \subseteq TablesOf(graph, start)
  BY <1>3, NeighboursAreTables
<1>5. \A m \in Visited(st) : st2.route[m] = st.route[m]
  BY DEF Popped
<1>6. ASSUME NEW m \in new
      PROVE  /\ st2.route[m] \in Seq(Edges(graph)) /\ Depth(st2, m) = Depth(st, n) + 1
             /\ Depth(st2, m) <= hops
  <2> DEFINE e == _edge_from_seed(FirstKey(graph, n, m), n)
  <2>1. st2.route[m] = Append(st.route[n], e)
    BY DEF Popped
  <2>2. e \in Edges(graph)
    BY <1>3, EdgeFacts
  <2>3. st.route[n] \in Seq(Edges(graph)) /\ Depth(st, n) < hops
    BY <1>2, <1>3
  <2> HIDE DEF e, n
  <2>4. QED
    BY <2>1, <2>2, <2>3 DEF Depth
<1>7. ASSUME NEW m \in Visited(st) PROVE Depth(st2, m) = Depth(st, m) /\ Depth(st, m) \in Nat
  <2>1. st.route[m] \in Seq(Edges(graph))
    BY <1>2
  <2>2. Len(st.route[m]) \in Nat
    BY <2>1
  <2>3. QED
    BY <1>5, <2>2 DEF Depth
<1> HIDE DEF n, new
<1>8. ASSUME NEW m \in Visited(st2)
      PROVE  st2.route[m] \in Seq(Edges(graph)) /\ Depth(st2, m) <= hops
  <2>1. CASE m \in new
    BY <1>6, <2>1
  <2>2. CASE m \in Visited(st)
    BY <1>2, <1>5, <1>7, <2>2
  <2>3. QED
    BY <1>1, <2>1, <2>2
<1>9. TypedSearch(graph, start, hops, st2)
  <2>1. start \in Visited(st2) /\ st2.route[start] = <<>>
    BY <1>1, <1>2, <1>5
  <2>2. Visited(st2) \subseteq TablesOf(graph, start)
    BY <1>1, <1>2, <1>4
  <2>3. QED
    BY <1>1, <1>8, <2>1, <2>2 DEF TypedSearch
<1>10. QED
  BY <1>6, <1>7, <1>9 DEF n, new

\* A walk and one more key is a walk.
LEMMA LongerWalk ==
    ASSUME NEW graph, IsGraph(graph), NEW start, NEW n, NEW m \in Neighbours(graph, n),
           NEW r \in Seq(Edges(graph)),
           (r = <<>> /\ n = start) \/ (Len(r) # 0 /\ IsWalk(graph, start, n, r))
    PROVE  IsWalk(graph, start, m, Append(r, _edge_from_seed(FirstKey(graph, n, m), n)))
<1> DEFINE e == _edge_from_seed(FirstKey(graph, n, m), n)
           t == Append(r, e)
           k == Len(r)
<1>1. e \in Edges(graph) /\ e.left = n /\ e.right = m /\ IsStep(graph, e)
  BY EdgeFacts
<1> HIDE DEF e
<1>2. /\ k \in Nat /\ Len(t) = k + 1 /\ t[k + 1] = e /\ DOMAIN t = 1..k + 1
      /\ \A i \in 1..k : t[i] = r[i]
  BY <1>1
<1>3. k # 0 => /\ r[1].left = start /\ r[k].right = n
               /\ \A i \in 1..(k - 1) : r[i].right = r[i + 1].left
               /\ \A i \in 1..k : IsStep(graph, r[i])
  <2>1. DOMAIN r = 1..k
    OBVIOUS
  <2>2. ASSUME k # 0 PROVE IsWalk(graph, start, n, r)
    BY <2>2
  <2>3. QED
    BY <2>1, <2>2 DEF IsWalk, IsStep
<1>4. k = 0 => n = start
  OBVIOUS
<1> HIDE DEF t, k
<1>5. t[1].left = start
  <2>1. CASE k = 0
    BY <1>1, <1>2, <1>4, <2>1
  <2>2. CASE k # 0
    <3>1. 1 \in 1..k
      BY <1>2, <2>2
    <3>2. QED
      BY <1>2, <1>3, <2>2, <3>1
  <2>3. QED
    BY <2>1, <2>2
<1>6. t[Len(t)].right = m
  BY <1>1, <1>2
<1>7. ASSUME NEW i \in 1..(Len(t) - 1) PROVE t[i].right = t[i + 1].left
  <2>1. i \in 1..k /\ k # 0
    BY <1>2
  <2>2. CASE i = k
    BY <1>1, <1>2, <1>3, <2>1, <2>2
  <2>3. CASE i # k
    <3>1. i \in 1..(k - 1) /\ i + 1 \in 1..k
      BY <1>2, <2>1, <2>3
    <3>2. QED
      BY <1>2, <1>3, <2>1, <3>1
  <2>4. QED
    BY <2>2, <2>3
<1>8. ASSUME NEW i \in DOMAIN t PROVE IsStep(graph, t[i])
  <2>1. CASE i = k + 1
    BY <1>1, <1>2, <2>1
  <2>2. CASE i # k + 1
    <3>1. i \in 1..k /\ k # 0
      BY <1>2, <2>2
    <3>2. QED
      BY <1>2, <1>3, <3>1
  <2>3. QED
    BY <2>1, <2>2
<1>9. IsWalk(graph, start, m, t)
  BY <1>5, <1>6, <1>7, <1>8 DEF IsWalk, IsStep
<1>10. QED
  BY <1>9 DEF t, e

LEMMA PopWalks ==
    ASSUME NEW graph, NEW start \in Nat, NEW hops \in Nat, NEW st, NEW st2, IsGraph(graph),
           SearchInv(graph, start, hops, st), Popped(graph, hops, st, st2)
    PROVE  Walked(graph, start, st2) /\ NotNearer(graph, start, st2)
<1> DEFINE n == Head(st.frontier)
           new == FoundBy(graph, hops, st)
<1>1. TypedSearch(graph, start, hops, st) /\ Walked(graph, start, st) /\ NotNearer(graph, start, st)
  BY DEF SearchInv
<1>2. /\ \A m \in new : Depth(st2, m) = Depth(st, n) + 1
      /\ \A m \in Visited(st) : Depth(st2, m) = Depth(st, m) /\ Depth(st, m) \in Nat
  BY <1>1, PopTyped
<1>3. /\ Visited(st2) = Visited(st) \cup new /\ n \in Visited(st) /\ new \cap Visited(st) = {}
      /\ new \subseteq Neighbours(graph, n)
      /\ \A m \in Visited(st) : st2.route[m] = st.route[m]
      /\ \A m \in new :
             st2.route[m] = Append(st.route[n], _edge_from_seed(FirstKey(graph, n, m), n))
  BY DEF Popped
<1>4. st.route[n] \in Seq(Edges(graph)) /\ st.route[start] = <<>> /\ Depth(st, n) \in Nat
  BY <1>1, <1>2, <1>3 DEF TypedSearch
<1>5. Ball(graph, start, Depth(st, n)) \subseteq Visited(st)
  <2>1. st.frontier # <<>>
    <3>1. Len(st.frontier) # 0
      BY DEF Popped
    <3>2. QED
      BY <3>1
  <2>2. QED
    BY <2>1 DEF SearchInv, Closed
<1> HIDE DEF n, new
<1>6. ASSUME NEW m \in Visited(st2) \ {start}
      PROVE  /\ Depth(st2, m) # 0 /\ IsWalk(graph, start, m, st2.route[m])
             /\ m \notin Ball(graph, start, Depth(st2, m) - 1)
  <2>1. CASE m \in new
    <3>1. (st.route[n] = <<>> /\ n = start)
          \/ (Len(st.route[n]) # 0 /\ IsWalk(graph, start, n, st.route[n]))
      BY <1>1, <1>3, <1>4 DEF Walked, Depth
    <3>2. m \in Neighbours(graph, n)
      BY <1>3, <2>1
    <3>3. IsWalk(graph, start, m, st2.route[m])
      <4> DEFINE r == st.route[n]
      <4>1. r \in Seq(Edges(graph))
        BY <1>4
      <4>2. (r = <<>> /\ n = start) \/ (Len(r) # 0 /\ IsWalk(graph, start, n, r))
        BY <3>1
      <4>3. st2.route[m] = Append(r, _edge_from_seed(FirstKey(graph, n, m), n))
        BY <1>3, <2>1
      <4> HIDE DEF r
      <4>4. IsWalk(graph, start, m, Append(r, _edge_from_seed(FirstKey(graph, n, m), n)))
        BY <3>2, <4>1, <4>2, LongerWalk
      <4>5. QED
        BY <4>3, <4>4
    <3>4. Depth(st2, m) - 1 = Depth(st, n) /\ Depth(st2, m) # 0
      BY <1>2, <1>4, <2>1
    <3>5. m \notin Ball(graph, start, Depth(st, n))
      BY <1>3, <1>5, <2>1
    <3>6. QED
      BY <3>3, <3>4, <3>5
  <2>2. CASE m \in Visited(st)
    BY <1>1, <1>2, <1>3, <2>2 DEF Walked, NotNearer
  <2>3. QED
    BY <1>3, <2>1, <2>2
<1>7. QED
  BY <1>6 DEF Walked, NotNearer

LEMMA PopQueues ==
    ASSUME NEW graph, NEW start \in Nat, NEW hops \in Nat, NEW st, NEW st2, IsGraph(graph),
           SearchInv(graph, start, hops, st), Popped(graph, hops, st, st2)
    PROVE  /\ Queued(st2)
           /\ \A i \in 1..Len(st2.frontier) :
                  Depth(st2, st2.frontier[i]) \in
                      {Depth(st, Head(st.frontier)), Depth(st, Head(st.frontier)) + 1}
<1> DEFINE n == Head(st.frontier)
           new == FoundBy(graph, hops, st)
           D == Depth(st, n)
           q == st.frontier
           q2 == st2.frontier
           d(i) == Depth(st, q[i])
           d2(i) == Depth(st2, q2[i])
<1>1. TypedSearch(graph, start, hops, st) /\ Queued(st)
  BY DEF SearchInv
<1>2. /\ \A m \in new : Depth(st2, m) = D + 1
      /\ \A m \in Visited(st) : Depth(st2, m) = Depth(st, m) /\ Depth(st, m) \in Nat
  BY <1>1, PopTyped
<1>3. /\ n \in Visited(st) /\ n = q[1] /\ Len(q) \in Nat \ {0}
      /\ Len(q2) = Len(q) - 1 + Cardinality(new) /\ Cardinality(new) \in Nat
      /\ \A i \in 1..(Len(q) - 1) : q2[i] = q[i + 1]
      /\ \A i \in Len(q)..Len(q2) : q2[i] \in new
  BY DEF Popped
<1>4. q \in Seq(Visited(st))
  BY <1>1 DEF TypedSearch
<1>5. D \in Nat
  BY <1>2, <1>3
<1>6. \A i, j \in 1..Len(q) : (i < j => d(i) <= d(j)) /\ d(j) <= d(i) + 1
  BY <1>1 DEF Queued
<1>7. \A i \in 1..Len(q) : q[i] \in Visited(st)
  BY <1>4
<1> HIDE DEF n, new, q, q2
<1>8. ASSUME NEW i \in 1..Len(q)
      PROVE  d(i) \in {D, D + 1}
  <2>1. d(i) \in Nat /\ d(1) = D /\ 1 \in 1..Len(q)
    BY <1>2, <1>3, <1>7
  <2>2. i # 1 => d(1) <= d(i)
    BY <1>3, <1>6, <2>1
  <2>3. d(i) <= d(1) + 1
    BY <1>6, <2>1
  <2> HIDE DEF d, D
  <2>4. QED
    BY <1>5, <2>1, <2>2, <2>3
<1>9. ASSUME NEW i \in 1..(Len(q) - 1)
      PROVE  i + 1 \in 1..Len(q) /\ d2(i) = d(i + 1) /\ d2(i) \in {D, D + 1}
  <2>1. i + 1 \in 1..Len(q) /\ q2[i] = q[i + 1]
    BY <1>3
  <2>2. d2(i) = d(i + 1)
    BY <1>2, <1>7, <2>1
  <2>3. QED
    BY <1>8, <2>1, <2>2
<1>10. ASSUME NEW i \in Len(q)..Len(q2) PROVE d2(i) = D + 1
  BY <1>2, <1>3
<1>11. ASSUME NEW i \in 1..Len(q2)
       PROVE  (i \in 1..(Len(q) - 1) \/ i \in Len(q)..Len(q2)) /\ i \in Nat
  BY <1>3
<1> HIDE DEF d2, d, D
<1>12. \A i \in 1..Len(q2) : d2(i) \in {D, D + 1}
  BY <1>9, <1>10, <1>11
<1>13. ASSUME NEW i \in 1..Len(q2), NEW j \in 1..Len(q2)
       PROVE  (i < j => d2(i) <= d2(j)) /\ d2(j) <= d2(i) + 1
  <2>1. d2(i) \in {D, D + 1} /\ d2(j) \in {D, D + 1}
    BY <1>12
  <2>2. d2(j) <= d2(i) + 1
    BY <1>5, <2>1
  <2>3. ASSUME i < j PROVE d2(i) <= d2(j)
    <3>1. CASE j \in Len(q)..Len(q2)
      BY <1>5, <1>10, <2>1, <3>1
    <3>2. CASE j \in 1..(Len(q) - 1)
      <4>1. i \in 1..(Len(q) - 1) /\ i + 1 < j + 1
        BY <1>3, <2>3, <3>2
      <4>2. d(i + 1) <= d(j + 1)
        BY <1>6, <1>9, <3>2, <4>1
      <4>3. QED
        BY <1>9, <3>2, <4>1, <4>2
    <3>3. QED
      BY <1>11, <3>1, <3>2
  <2>4. QED
    BY <2>2, <2>3
<1>14. QED
  BY <1>12, <1>13 DEF Queued, d2, D, q2, n

LEMMA PopCloses ==
    ASSUME NEW graph, NEW start \in Nat, NEW hops \in Nat, NEW st, NEW st2, IsGraph(graph),
           SearchInv(graph, start, hops, st), Popped(graph, hops, st, st2)
    PROVE  SearchInv(graph, start, hops, st2)
<1> DEFINE n == Head(st.frontier)
           new == FoundBy(graph, hops, st)
           D == Depth(st, n)
<1>1. /\ TypedSearch(graph, start, hops, st) /\ NotNearer(graph, start, st)
      /\ Expanded(graph, hops, st)
  BY DEF SearchInv
<1>2. /\ TypedSearch(graph, start, hops, st2)
      /\ \A m \in new : Depth(st2, m) = D + 1
      /\ \A m \in Visited(st) : Depth(st2, m) = Depth(st, m) /\ Depth(st, m) \in Nat
  BY <1>1, PopTyped
<1>3. Walked(graph, start, st2) /\ NotNearer(graph, start, st2)
  BY PopWalks
<1>4. Queued(st2) /\ \A i \in 1..Len(st2.frontier) : Depth(st2, st2.frontier[i]) \in {D, D + 1}
  BY PopQueues
<1>5. /\ Visited(st2) = Visited(st) \cup new /\ n \in Visited(st) /\ D \in Nat
      /\ D >= hops \/ Neighbours(graph, n) \subseteq Visited(st) \cup new
      /\ Members(st2.frontier) \cup {n} = Members(st.frontier) \cup new \cup {n}
      /\ Len(st.frontier) # 0
  BY DEF Popped
<1>6. Ball(graph, start, D) \subseteq Visited(st)
  <2>1. st.frontier # <<>>
    BY <1>5
  <2>2. QED
    BY <2>1 DEF SearchInv, Closed
<1> HIDE DEF new, D
<1>7. Expanded(graph, hops, st2)
  <2>1. SUFFICES ASSUME NEW m \in Visited(st2) \ Members(st2.frontier)
                 PROVE  Depth(st2, m) >= hops \/ Neighbours(graph, m) \subseteq Visited(st2)
    BY DEF Expanded
  <2>2. CASE m = n
    BY <1>2, <1>5, <2>2 DEF D
  <2>3. CASE m # n
    <3>1. m \notin Members(st.frontier) /\ m \in Visited(st)
      BY <1>5, <2>3
    <3>2. QED
      BY <1>1, <1>2, <1>5, <3>1 DEF Expanded
  <2>4. QED
    BY <2>2, <2>3
<1>8. Closed(graph, start, st2)
  <2>1. SUFFICES ASSUME st2.frontier # <<>>
                 PROVE  Ball(graph, start, Depth(st2, Head(st2.frontier))) \subseteq Visited(st2)
    BY DEF Closed
  <2> DEFINE h == Head(st2.frontier)
  <2>2. h = st2.frontier[1] /\ 1 \in 1..Len(st2.frontier) /\ h \in Visited(st2)
    <3> DEFINE q == st2.frontier
    <3>1. q \in Seq(Visited(st2)) /\ q # <<>>
      BY <1>2, <2>1 DEF TypedSearch
    <3> HIDE DEF q
    <3>2. Head(q) = q[1] /\ 1 \in 1..Len(q) /\ Head(q) \in Visited(st2)
      BY <3>1
    <3>3. QED
      BY <3>2 DEF q
  <2> HIDE DEF h
  <2>3. Depth(st2, h) \in {D, D + 1} /\ Depth(st2, h) <= hops
    BY <1>2, <1>4, <2>2 DEF TypedSearch
  <2>4. CASE Depth(st2, h) = D
    BY <1>5, <1>6, <2>4 DEF h
  <2>5. CASE Depth(st2, h) = D + 1
    <3>1. ASSUME NEW m \in Ball(graph, start, D) PROVE Neighbours(graph, m) \subseteq Visited(st2)
      <4>1. m \in Visited(st) /\ m \in Visited(st2) /\ Depth(st, m) \in Nat
        BY <1>2, <1>5, <1>6
      <4>2. Depth(st, m) <= D
        <5>1. CASE m = start
          <6>1. st.route[start] = <<>>
            BY <1>1 DEF TypedSearch
          <6>2. Depth(st, start) = 0
            BY <6>1 DEF Depth
          <6>3. QED
            BY <1>5, <5>1, <6>2
        <5>2. CASE m # start
          <6>1. m \notin Ball(graph, start, Depth(st, m) - 1)
            BY <1>1, <4>1, <5>2 DEF NotNearer
          <6>2. ASSUME Depth(st, m) > D PROVE FALSE
            <7>1. Depth(st, m) - 1 \in Nat /\ D <= Depth(st, m) - 1
              BY <1>5, <4>1, <6>2
            <7>2. Ball(graph, start, D) \subseteq Ball(graph, start, Depth(st, m) - 1)
              BY <1>5, <7>1, BallsGrow
            <7>3. QED
              BY <6>1, <7>2
          <6>3. QED
            BY <1>5, <4>1, <6>2
        <5>3. QED
          BY <5>1, <5>2
      <4>3. Depth(st2, m) = Depth(st, m) /\ ~(Depth(st2, m) >= hops)
        BY <1>2, <1>5, <2>3, <2>5, <4>1, <4>2
      <4>4. m \notin Members(st2.frontier)
        <5>1. ASSUME NEW j \in 1..Len(st2.frontier), st2.frontier[j] = m PROVE FALSE
          <6>1. D + 1 <= Depth(st2, m)
            <7>1. CASE j = 1
              BY <1>5, <2>2, <2>5, <5>1, <7>1
            <7>2. CASE j # 1
              <8>1. 1 < j
                BY <7>2
              <8>2. Depth(st2, st2.frontier[1]) <= Depth(st2, st2.frontier[j])
                BY <1>4, <2>2, <8>1 DEF Queued
              <8>3. QED
                BY <2>2, <2>5, <5>1, <8>2
            <7>3. QED
              BY <7>1, <7>2
          <6>2. QED
            BY <1>5, <4>1, <4>2, <4>3, <6>1
        <5>2. QED
          BY <5>1 DEF Members
      <4>5. QED
        BY <1>7, <4>1, <4>3, <4>4 DEF Expanded
    <3>2. Ball(graph, start, D + 1) = Ball(graph, start, D) \cup
              UNION {Neighbours(graph, m) : m \in Ball(graph, start, D)}
      BY <1>5, BallSteps
    <3>3. Ball(graph, start, D + 1) \subseteq Visited(st2)
      BY <1>5, <1>6, <3>1, <3>2
    <3>4. QED
      BY <2>5, <3>3 DEF h
  <2>6. QED
    BY <2>3, <2>4, <2>5
<1>9. QED
  BY <1>2, <1>3, <1>4, <1>7, <1>8 DEF SearchInv

FirstTurn(start) == [frontier |-> <<start>>, route |-> [m \in {start} |-> <<>>]]
Turn(graph, hops, st) == IF st.frontier = <<>> THEN st ELSE Pop(graph, hops, st)

LEMMA FirstTurnInv ==
    ASSUME NEW graph, NEW start \in Nat, NEW hops \in Nat
    PROVE  SearchInv(graph, start, hops, FirstTurn(start))
<1> DEFINE st == FirstTurn(start)
<1>1. /\ Visited(st) = {start} /\ st.frontier = <<start>> /\ st.route[start] = <<>>
      /\ Depth(st, start) = 0
  BY DEF FirstTurn, Visited, Depth
<1> HIDE DEF st
<1>2. st.frontier \in Seq(Visited(st)) /\ Members(st.frontier) = {start} /\ Head(st.frontier) = start
      /\ Len(st.frontier) = 1 /\ st.frontier[1] = start
  BY <1>1 DEF Members
<1>3. TypedSearch(graph, start, hops, st)
  <2>1. <<>> \in Seq(Edges(graph))
    OBVIOUS
  <2>2. \A m \in Visited(st) : st.route[m] \in Seq(Edges(graph)) /\ Depth(st, m) <= hops
    <3>1. st.route[start] \in Seq(Edges(graph)) /\ Depth(st, start) <= hops
      BY <1>1, <2>1
    <3>2. QED
      BY <1>1, <3>1
  <2>3. Visited(st) \subseteq TablesOf(graph, start)
    BY <1>1 DEF TablesOf
  <2>4. QED
    BY <1>1, <1>2, <2>2, <2>3 DEF TypedSearch
<1>4. Queued(st)
  <2>1. \A i \in 1..1 : i = 1
    OBVIOUS
  <2>2. QED
    BY <1>1, <1>2, <2>1 DEF Queued
<1>5. Closed(graph, start, st)
  BY <1>1, <1>2, BallSteps DEF Closed
<1>6. Walked(graph, start, st) /\ NotNearer(graph, start, st) /\ Expanded(graph, hops, st)
  BY <1>1, <1>2 DEF Walked, NotNearer, Expanded
<1>7. QED
  BY <1>3, <1>4, <1>5, <1>6 DEF SearchInv, st

\* When the frontier is empty, everything within the bound was visited.
LEMMA EmptyFrontier ==
    ASSUME NEW graph, NEW start \in Nat, NEW hops \in Nat, NEW st, IsGraph(graph),
           SearchInv(graph, start, hops, st), st.frontier = <<>>
    PROVE  Ball(graph, start, hops) \subseteq Visited(st)
<1> DEFINE S == {k \in Nat : Ball(graph, start, k) \subseteq Visited(st)}
<1>1. /\ TypedSearch(graph, start, hops, st) /\ NotNearer(graph, start, st)
      /\ Expanded(graph, hops, st)
  BY DEF SearchInv
<1>2. 0 \in S
  BY <1>1, BallSteps DEF TypedSearch
<1>3. ASSUME NEW k \in 0..hops - 1, k \in S PROVE k + 1 \in S
  <2>1. ASSUME NEW m \in Ball(graph, start, k) PROVE Neighbours(graph, m) \subseteq Visited(st)
    <3>1. m \in Visited(st) /\ k \in Nat /\ k < hops
      BY <1>3
    <3>2. st.route[m] \in Seq(Edges(graph)) /\ st.route[start] = <<>>
      BY <1>1, <3>1 DEF TypedSearch
    <3>3. Depth(st, m) \in Nat /\ Depth(st, start) = 0
      BY <3>2 DEF Depth
    <3>4. Depth(st, m) <= k
      <4>1. CASE m = start
        BY <3>1, <3>3, <4>1
      <4>2. CASE m # start
        <5>1. m \notin Ball(graph, start, Depth(st, m) - 1)
          BY <1>1, <3>1, <4>2 DEF NotNearer
        <5>2. ASSUME Depth(st, m) > k PROVE FALSE
          <6>1. Depth(st, m) - 1 \in Nat /\ k <= Depth(st, m) - 1
            BY <3>1, <3>3, <5>2
          <6>2. Ball(graph, start, k) \subseteq Ball(graph, start, Depth(st, m) - 1)
            BY <3>1, <6>1, BallsGrow
          <6>3. QED
            BY <5>1, <6>2
        <5>3. QED
          BY <3>1, <3>3, <5>2
      <4>3. QED
        BY <4>1, <4>2
    <3>5. ~(Depth(st, m) >= hops)
      BY <3>1, <3>3, <3>4
    <3>6. m \notin Members(st.frontier)
      BY DEF Members
    <3>7. QED
      BY <1>1, <3>1, <3>5, <3>6 DEF Expanded
  <2>2. Ball(graph, start, k + 1) = Ball(graph, start, k) \cup
            UNION {Neighbours(graph, m) : m \in Ball(graph, start, k)}
    BY BallSteps
  <2>3. Ball(graph, start, k) \subseteq Visited(st) /\ k + 1 \in Nat
    BY <1>3
  <2>4. Ball(graph, start, k + 1) \subseteq Visited(st)
    BY <2>1, <2>2, <2>3
  <2>5. QED
    BY <2>3, <2>4
<1>4. hops \in S
  <2> HIDE DEF S
  <2>1. \A k \in 0..hops : k \in S
    BY <1>2, <1>3, UpTo
  <2>2. QED
    BY <2>1
<1>5. QED
  BY <1>4

AreTurns(f, n, graph, start, hops) ==
    f = [k \in 0..n |-> IF k = 0 THEN FirstTurn(start) ELSE Turn(graph, hops, f[k - 1])]

LEMMA TurnsExist ==
    ASSUME NEW graph, NEW start, NEW hops, NEW N \in Nat
    PROVE  \E f : AreTurns(f, N, graph, start, hops)
<1> DEFINE S == {n \in Nat : \E f : AreTurns(f, n, graph, start, hops)}
<1>1. 0 \in S
  <2>1. AreTurns([i \in 0..0 |-> FirstTurn(start)], 0, graph, start, hops)
    BY DEF AreTurns
  <2>2. QED
    BY <2>1
<1>2. ASSUME NEW n \in 0..N - 1, n \in S PROVE n + 1 \in S
  <2>1. PICK f : AreTurns(f, n, graph, start, hops)
    BY <1>2
  <2> DEFINE g == [i \in 0..n + 1 |-> IF i = n + 1 THEN Turn(graph, hops, f[n]) ELSE f[i]]
  <2>2. ASSUME NEW i \in 0..n + 1
        PROVE  g[i] = IF i = 0 THEN FirstTurn(start) ELSE Turn(graph, hops, g[i - 1])
    <3>1. CASE i = n + 1
      <4>1. i # 0 /\ i - 1 = n /\ n \in 0..n + 1 /\ n # n + 1
        BY <3>1
      <4>2. g[i - 1] = f[n] /\ g[i] = Turn(graph, hops, f[n])
        BY <3>1, <4>1
      <4> HIDE DEF g
      <4>3. QED
        BY <4>1, <4>2
    <3>2. CASE i # n + 1
      <4>1. i \in 0..n /\ g[i] = f[i] /\ (i # 0 => i - 1 \in 0..n /\ g[i - 1] = f[i - 1])
        BY <3>2
      <4>2. f[i] = IF i = 0 THEN FirstTurn(start) ELSE Turn(graph, hops, f[i - 1])
        BY <2>1, <4>1 DEF AreTurns
      <4> HIDE DEF g
      <4>3. QED
        BY <4>1, <4>2
    <3>3. QED
      BY <3>1, <3>2
  <2>3. g = [i \in 0..n + 1 |-> g[i]]
    OBVIOUS
  <2> HIDE DEF g
  <2>4. AreTurns(g, n + 1, graph, start, hops)
    BY <2>2, <2>3 DEF AreTurns
  <2>5. QED
    BY <2>4
<1> HIDE DEF S
<1>3. N \in S
  BY <1>1, <1>2, UpTo
<1>4. QED
  BY <1>3 DEF S

EndOfSearch(graph, start, hops, st) == SearchInv(graph, start, hops, st) /\ st.frontier = <<>>

\* The search ends: every turn but the idle ones pops one of the tables.
LEMMA SearchEnds ==
    ASSUME NEW graph, NEW start \in Nat, NEW hops \in Nat, IsGraph(graph), NEW f, NEW N,
           N = Cardinality(TablesOf(graph, start)), AreTurns(f, N, graph, start, hops)
    PROVE  EndOfSearch(graph, start, hops, f[N])
<1> SUFFICES N \in Nat /\ SearchInv(graph, start, hops, f[N]) /\ f[N].frontier = <<>>
  BY DEF EndOfSearch
<1> DEFINE T == TablesOf(graph, start)
           Counted(k) == \/ f[k].frontier = <<>>
                         \/ Cardinality(Visited(f[k])) = k + Len(f[k].frontier)
           S == {k \in Nat : SearchInv(graph, start, hops, f[k]) /\ Counted(k)}
<1>1. IsFiniteSet(T) /\ N \in Nat
  BY TablesAreFinite, FS_CardinalityType
<1>2. \A k \in 0..N : f[k] = IF k = 0 THEN FirstTurn(start) ELSE Turn(graph, hops, f[k - 1])
  BY DEF AreTurns
<1>3. 0 \in S
  <2>1. f[0] = FirstTurn(start)
    BY <1>1, <1>2
  <2>2. Visited(FirstTurn(start)) = {start} /\ Len(FirstTurn(start).frontier) = 1
    BY DEF FirstTurn, Visited
  <2>3. Cardinality({start}) = 1
    BY FS_Singleton
  <2>4. Counted(0)
    BY <2>1, <2>2, <2>3
  <2>5. SearchInv(graph, start, hops, f[0])
    BY <2>1, FirstTurnInv
  <2> HIDE DEF Counted
  <2>6. QED
    BY <2>4, <2>5
<1>4. ASSUME NEW k \in 0..N - 1, k \in S PROVE k + 1 \in S
  <2>1. k \in Nat /\ k + 1 \in 0..N /\ k + 1 # 0 /\ (k + 1) - 1 = k
    BY <1>1
  <2>2. f[k + 1] = Turn(graph, hops, f[k])
    BY <1>2, <2>1
  <2>3. SearchInv(graph, start, hops, f[k]) /\ Counted(k)
    BY <1>4
  <2>4. CASE f[k].frontier = <<>>
    <3>1. f[k + 1] = f[k]
      BY <2>2, <2>4 DEF Turn
    <3>2. QED
      BY <2>1, <2>3, <2>4, <3>1
  <2>5. CASE f[k].frontier # <<>>
    <3> DEFINE st == f[k]
               st2 == f[k + 1]
               new == FoundBy(graph, hops, st)
    <3>1. st2 = Pop(graph, hops, st)
      BY <2>2, <2>5 DEF Turn
    <3>2. TypedSearch(graph, start, hops, st)
      BY <2>3 DEF SearchInv
    <3>3. Popped(graph, hops, st, st2)
      BY <2>5, <3>1, <3>2, PopFacts
    <3> HIDE DEF st, st2
    <3>4. SearchInv(graph, start, hops, st2)
      BY <2>3, <3>3, PopCloses DEF st
    <3>5. /\ Visited(st2) = Visited(st) \cup new /\ new \cap Visited(st) = {}
          /\ Len(st2.frontier) = Len(st.frontier) - 1 + Cardinality(new)
          /\ Cardinality(new) \in Nat /\ Len(st.frontier) \in Nat \ {0} /\ IsFiniteSet(new)
      BY <3>3 DEF Popped
    <3> HIDE DEF new
    <3>6. IsFiniteSet(Visited(st))
      BY <1>1, <3>2, FS_Subset DEF TypedSearch
    <3>7. Cardinality(Visited(st) \cap new) = 0
      <4>1. Visited(st) \cap new = {}
        BY <3>5
      <4>2. QED
        BY <4>1, FS_EmptySet
    <3>8. Cardinality(Visited(st2)) = Cardinality(Visited(st)) + Cardinality(new)
      <4>1. Cardinality(Visited(st) \cup new) =
              Cardinality(Visited(st)) + Cardinality(new) - Cardinality(Visited(st) \cap new)
        BY <3>5, <3>6, FS_Union
      <4>2. Cardinality(Visited(st)) \in Nat
        BY <3>6, FS_CardinalityType
      <4>3. QED
        BY <3>5, <3>7, <4>1, <4>2
    <3>9. Cardinality(Visited(st)) = k + Len(st.frontier)
      BY <2>3, <2>5 DEF st
    <3>10. Cardinality(Visited(st2)) = (k + 1) + Len(st2.frontier)
      <4> DEFINE a == Len(st.frontier)
                 b == Cardinality(new)
                 c == Len(st2.frontier)
      <4>1. c = a - 1 + b /\ b \in Nat /\ a \in Nat
        BY <3>5
      <4>2. Cardinality(Visited(st2)) = (k + a) + b
        BY <3>8, <3>9
      <4> HIDE DEF a, b, c
      <4>3. (k + a) + b = (k + 1) + c
        BY <2>1, <4>1
      <4>4. QED
        BY <4>2, <4>3 DEF c
    <3>11. Counted(k + 1) /\ SearchInv(graph, start, hops, f[k + 1])
      BY <3>4, <3>10 DEF st2
    <3> HIDE DEF Counted
    <3>12. QED
      BY <2>1, <3>11
  <2>6. QED
    BY <2>4, <2>5
<1>5. SearchInv(graph, start, hops, f[N]) /\ Counted(N)
  <2>1. N \in S
    <3> HIDE DEF S
    <3>1. \A k \in 0..N : k \in S
      BY <1>1, <1>3, <1>4, UpTo
    <3>2. QED
      BY <1>1, <3>1
  <2>2. QED
    BY <2>1
<1>6. f[N].frontier = <<>>
  <2> DEFINE st == f[N]
  <2>1. TypedSearch(graph, start, hops, st)
    BY <1>5 DEF SearchInv
  <2>2. Counted(N)
    BY <1>5
  <2> HIDE DEF st
  <2>3. Cardinality(Visited(st)) <= N
    BY <1>1, <2>1, FS_Subset DEF TypedSearch
  <2>4. st.frontier \in Seq(Visited(st))
    BY <2>1 DEF TypedSearch
  <2>5. Len(st.frontier) \in Nat /\ (Len(st.frontier) = 0 => st.frontier = <<>>)
    BY <2>4
  <2>6. st.frontier = <<>> \/ Cardinality(Visited(st)) = N + Len(st.frontier)
    BY <2>2 DEF st
  <2>7. st.frontier = <<>>
    BY <1>1, <2>3, <2>5, <2>6
  <2>8. QED
    BY <2>7 DEF st
<1>7. QED
  BY <1>1, <1>5, <1>6

\* What _bfs_shortest_path answers: a shortest path within the bound, or none if there
\* is none, for any graph of stored keys and any two tables.
THEOREM SearchIsShortest ==
    ASSUME NEW graph, NEW start \in Nat, NEW end, start # end, NEW hops \in Nat, IsGraph(graph)
    PROVE  /\ IsShortestPath(graph, start, end, hops, _bfs_shortest_path(graph, start, end, hops))
           /\ _bfs_shortest_path(graph, start, end, hops) \in Seq(Edges(graph))
<1> DEFINE N == Cardinality(TablesOf(graph, start))
           f == CHOOSE f : AreTurns(f, N, graph, start, hops)
           path == _bfs_shortest_path(graph, start, end, hops)
<1>1. path = IF end \in DOMAIN f[N].route THEN f[N].route[end] ELSE NoPath
  BY DEF _bfs_shortest_path, AreTurns, Turn, FirstTurn, TablesOf
<1>2. N \in Nat
  BY TablesAreFinite, FS_CardinalityType
<1> HIDE DEF path
<1>3. AreTurns(f, N, graph, start, hops)
  <2> HIDE DEF N
  <2>1. \E g : AreTurns(g, N, graph, start, hops)
    BY <1>2, TurnsExist
  <2>2. QED
    BY <2>1
<1> DEFINE st == f[N]
<1> HIDE DEF f, st
<1>4. SearchInv(graph, start, hops, st) /\ st.frontier = <<>>
  <2>1. N = Cardinality(TablesOf(graph, start))
    OBVIOUS
  <2> HIDE DEF N
  <2>2. EndOfSearch(graph, start, hops, f[N])
    BY <1>3, <2>1, SearchEnds
  <2>3. QED
    BY <2>2 DEF st, EndOfSearch
<1>5. path = IF end \in Visited(st) THEN st.route[end] ELSE NoPath
  BY <1>1 DEF Visited, st
<1> HIDE DEF st, N
<1>6. CASE end \in Visited(st)
  <2>1. st.route[end] \in Seq(Edges(graph)) /\ Depth(st, end) <= hops
    BY <1>4, <1>6 DEF SearchInv, TypedSearch
  <2>2. /\ Depth(st, end) # 0 /\ IsWalk(graph, start, end, st.route[end])
        /\ end \notin Ball(graph, start, Depth(st, end) - 1)
    BY <1>4, <1>6 DEF SearchInv, Walked, NotNearer
  <2>3. path = st.route[end] /\ Depth(st, end) = Len(path)
    BY <1>5, <1>6 DEF Depth
  <2>4. path # NoPath
    BY <2>2, <2>3 DEF NoPath
  <2>5. QED
    BY <2>1, <2>2, <2>3, <2>4 DEF IsShortestPath, path
<1>7. CASE end \notin Visited(st)
  <2>1. path = NoPath
    BY <1>5, <1>7
  <2>2. end \notin Ball(graph, start, hops)
    BY <1>4, <1>7, EmptyFrontier
  <2>3. NoPath \in Seq(Edges(graph))
    BY DEF NoPath
  <2>4. QED
    BY <2>1, <2>2, <2>3 DEF IsShortestPath, path
<1>8. QED
  BY <1>6, <1>7

-----------------------------------------------------------------------------
(* Lookups *)

LookupSet == [of : Tables, on : Tables \cup {Absent}, cols : SUBSET Cols]
\* A lookup on the table it is about; one of a table by its quoted name.
Straight == {l \in LookupSet : l.on = l.of}
Bent == {l \in LookupSet : l.on \in {l.of, Absent}}

KeySets == {S \in SUBSET Keys : IsFiniteSet(S) /\ OnePerName(S)}

\* The names a sequence of lookups is about.
Names(s) == UNION {{l.of} \X l.cols : l \in Members(s)}

LEMMA KeySetFacts ==
    ASSUME NEW S \in KeySets
    PROVE  IsGraph(S) /\ \A T \in SUBSET S : T \in KeySets
<1>1. AreKeys(S)
  BY ServerAssumption DEF KeySets, AreKeys
<1>2. ASSUME NEW T \in SUBSET S PROVE T \in KeySets
  <2>1. IsFiniteSet(T)
    BY FS_Subset DEF KeySets
  <2>2. QED
    BY <2>1 DEF KeySets, OnePerName
<1>3. QED
  BY <1>1, <1>2 DEF IsGraph, KeySets

LEMMA LookFacts ==
    ASSUME NEW t \in Tables, NEW names \in Seq(Cols)
    PROVE  /\ Look(t, names) \in Straight /\ Look(t, names).of = t
           /\ Look(t, names).cols = ToSet(names)
<1>1. ToSet(names) \subseteq Cols
  BY DEF ToSet
<1>2. QED
  BY <1>1 DEF Look, Straight, LookupSet

LEMMA StraightIsBent == Straight \subseteq Bent
BY DEF Straight, Bent

\* Both ends of every key of the set are looked up, each on its own table.
LEMMA LookupsOfFacts ==
    ASSUME NEW S \in KeySets
    PROVE  /\ LookupsOf(S) \in Seq(Straight)
           /\ Names(LookupsOf(S)) = UNION {KeyColumns(fk) : fk \in S}
<1> DEFINE ks == KeySeq(S)
           n == Len(ks)
           seqs == [i \in DOMAIN ks |-> key_lookups(ks[i])]
<1>1. Lists(ks, S)
  BY KeySetFacts, KeySeqLists DEF IsGraph
<1>2. ks \in Seq(S) /\ S = Members(ks)
  BY <1>1 DEF Lists
<1>3. LookupsOf(S) = FlattenSeq(seqs)
  BY DEF LookupsOf
<1> HIDE DEF ks
<1>4. DOMAIN ks = 1..n /\ n \in Nat /\ \A i \in 1..n : ks[i] \in S
  BY <1>2
<1>5. ASSUME NEW fk \in S
      PROVE  /\ key_lookups(fk) \in Seq(Straight)
             /\ Members(key_lookups(fk)) = {Look(fk.owner, fk.ownerCols), Look(fk.ref, fk.refCols)}
             /\ UNION {{l.of} \X l.cols : l \in Members(key_lookups(fk))} = KeyColumns(fk)
  <2> DEFINE a == Look(fk.owner, fk.ownerCols)
             b == Look(fk.ref, fk.refCols)
  <2>1. fk \in Keys
    BY DEF KeySets
  <2>2. /\ fk.owner \in Tables /\ fk.ref \in Tables
        /\ fk.ownerCols \in Seq(Cols) /\ fk.refCols \in Seq(Cols)
    BY <2>1, ServerAssumption
  <2>3. /\ a \in Straight /\ a.of = fk.owner /\ a.cols = ToSet(fk.ownerCols)
        /\ b \in Straight /\ b.of = fk.ref /\ b.cols = ToSet(fk.refCols)
    BY <2>2, LookFacts
  <2>4. key_lookups(fk) = <<a, b>>
    BY DEF key_lookups
  <2> HIDE DEF a, b
  <2>5. <<a, b>> \in Seq(Straight) /\ Members(<<a, b>>) = {a, b}
    <3>1. 1..2 = {1, 2}
      OBVIOUS
    <3>2. Len(<<a, b>>) = 2 /\ <<a, b>>[1] = a /\ <<a, b>>[2] = b
      OBVIOUS
    <3>3. Members(<<a, b>>) = {a, b}
      BY <3>1, <3>2 DEF Members
    <3>4. QED
      BY <2>3, <3>3
  <2>6. UNION {{l.of} \X l.cols : l \in {a, b}} = KeyColumns(fk)
    BY <2>3 DEF KeyColumns
  <2>7. QED
    BY <2>4, <2>5, <2>6 DEF a, b
<1>6. seqs \in Seq(Seq(Straight)) /\ Len(seqs) = n /\ \A i \in 1..n : seqs[i] = key_lookups(ks[i])
  <2>1. seqs \in [1..n -> Seq(Straight)]
    BY <1>4, <1>5
  <2>2. \A i \in 1..n : seqs[i] = key_lookups(ks[i])
    BY <1>4
  <2> HIDE DEF seqs, n
  <2>3. QED
    BY <1>4, <2>1, <2>2
<1> HIDE DEF seqs, n
<1>7. /\ FlattenSeq(seqs) \in Seq(Straight)
      /\ Members(FlattenSeq(seqs)) = UNION {Members(seqs[i]) : i \in 1..Len(seqs)}
  BY <1>6, FlattenMembers
<1>8. Members(FlattenSeq(seqs)) = UNION {Members(key_lookups(fk)) : fk \in S}
  <2>1. \A i \in 1..n : ks[i] \in S /\ Members(seqs[i]) = Members(key_lookups(ks[i]))
    BY <1>4, <1>6
  <2>2. \A fk \in S : \E i \in 1..n : fk = ks[i]
    BY <1>2 DEF Members, n
  <2>3. QED
    BY <1>6, <1>7, <2>1, <2>2
<1>9. Names(FlattenSeq(seqs)) = UNION {KeyColumns(fk) : fk \in S}
  <2>1. \A fk \in S : KeyColumns(fk) = UNION {{l.of} \X l.cols : l \in Members(key_lookups(fk))}
    BY <1>5
  <2>2. Names(FlattenSeq(seqs)) =
          UNION {{l.of} \X l.cols : l \in UNION {Members(key_lookups(fk)) : fk \in S}}
    BY <1>8 DEF Names
  <2>3. QED
    BY <2>1, <2>2
<1>10. QED
  BY <1>3, <1>7, <1>9

\* The edges of a path over stored keys are looked up on the tables of their sides.
LEMMA EdgeLookupsFacts ==
    ASSUME NEW S \in KeySets, NEW edges \in Seq(Edges(S))
    PROVE  EdgeLookups(edges) \in Seq(Straight)
<1> DEFINE n == Len(edges)
           pair(e) == <<Look(e.left, e.leftCols), Look(e.right, e.rightCols)>>
           seqs == [i \in DOMAIN edges |-> pair(edges[i])]
<1>1. EdgeLookups(edges) = FlattenSeq(seqs)
  BY DEF EdgeLookups
<1>2. DOMAIN edges = 1..n /\ n \in Nat /\ \A i \in 1..n : edges[i] \in Edges(S)
  OBVIOUS
<1>3. ASSUME NEW e \in Edges(S) PROVE pair(e) \in Seq(Straight)
  <2>1. PICK fk \in S, left \in Nat : e = _edge_from_seed(fk, left)
    BY DEF Edges
  <2>2. fk \in Keys
    BY DEF KeySets
  <2>3. /\ fk.owner \in Tables /\ fk.ref \in Tables
        /\ fk.ownerCols \in Seq(Cols) /\ fk.refCols \in Seq(Cols)
    BY <2>2, ServerAssumption
  <2>4. /\ e.left \in Tables /\ e.right \in Tables
        /\ e.leftCols \in Seq(Cols) /\ e.rightCols \in Seq(Cols)
    BY <2>1, <2>3 DEF _edge_from_seed
  <2>5. Look(e.left, e.leftCols) \in Straight /\ Look(e.right, e.rightCols) \in Straight
    BY <2>4, LookFacts
  <2>6. QED
    BY <2>5
<1>4. seqs \in Seq(Seq(Straight))
  <2> HIDE DEF pair
  <2>1. seqs \in [1..n -> Seq(Straight)]
    BY <1>2, <1>3
  <2> HIDE DEF seqs, n
  <2>2. QED
    BY <1>2, <2>1
<1> HIDE DEF seqs
<1>5. QED
  BY <1>1, <1>4, FlattenMembers

LEMMA HitLookupsFacts ==
    ASSUME NEW T \in SUBSET Tables, IsFiniteSet(T), NEW h \in [T -> Cols]
    PROVE  HitLookups(h) \in Seq(Straight) /\ (T # {} => HitLookups(h) # <<>>)
<1> DEFINE seq == Ascending(T)
           n == Len(seq)
           looks == [i \in DOMAIN seq |-> Look(seq[i], <<h[seq[i]]>>)]
<1>1. Lists(seq, T)
  BY ServerAssumption, AscendingLists
<1>2. HitLookups(h) = looks
  BY DEF HitLookups
<1> HIDE DEF seq
<1>3. /\ seq \in Seq(T) /\ n \in Nat /\ DOMAIN seq = 1..n /\ T = Members(seq)
      /\ \A i \in 1..n : seq[i] \in T
  BY <1>1 DEF Lists
<1>4. ASSUME NEW i \in 1..n PROVE Look(seq[i], <<h[seq[i]]>>) \in Straight
  <2>1. seq[i] \in T /\ seq[i] \in Tables /\ h[seq[i]] \in Cols
    BY <1>3
  <2>2. <<h[seq[i]]>> \in Seq(Cols)
    BY <2>1
  <2>3. QED
    BY <2>1, <2>2, LookFacts
<1>5. looks \in [1..n -> Straight]
  BY <1>3, <1>4
<1> HIDE DEF looks, n
<1>6. looks \in Seq(Straight) /\ Len(looks) = n
  BY <1>3, <1>5
<1>7. ASSUME T # {} PROVE looks # <<>>
  <2>1. n # 0
    BY <1>3, <1>7 DEF Members, n
  <2>2. QED
    BY <1>6, <2>1
<1>8. QED
  BY <1>2, <1>6, <1>7

LEMMA AsSpelledFacts ==
    ASSUME NEW s \in Seq(Straight)
    PROVE  /\ AsSpelled(s) \in Seq(Bent)
           /\ call.args # "quoted" => AsSpelled(s) = s
           /\ s # <<>> => AsSpelled(s) # <<>>
<1>1. CASE call.args # "quoted"
  <2>1. AsSpelled(s) = s
    BY <1>1 DEF AsSpelled
  <2>2. s \in Seq(Bent)
    BY StraightIsBent, SeqMonotonic
  <2>3. QED
    BY <2>1, <2>2
<1>2. CASE call.args = "quoted"
  <2> DEFINE u == [i \in DOMAIN s |-> IF s[i].on = got.at THEN [s[i] EXCEPT !.on = Absent] ELSE s[i]]
             n == Len(s)
  <2>1. AsSpelled(s) = u
    BY <1>2 DEF AsSpelled
  <2>2. DOMAIN s = 1..n /\ n \in Nat /\ \A i \in 1..n : s[i] \in Straight
    OBVIOUS
  <2>3. ASSUME NEW l \in Straight PROVE [l EXCEPT !.on = Absent] \in Bent /\ l \in Bent
    BY DEF Straight, Bent, LookupSet
  <2>4. u \in [1..n -> Bent]
    BY <2>2, <2>3
  <2>5. s # <<>> => n # 0
    BY <2>2
  <2> HIDE DEF u, n
  <2>6. u \in Seq(Bent) /\ Len(u) = n
    BY <2>2, <2>4
  <2>7. QED
    BY <1>2, <2>1, <2>5, <2>6
<1>3. QED
  BY <1>1, <1>2

\* The pairs suggest_joins searches: finitely many, of different tables.
LEMMA AskedPairsFacts ==
    ASSUME NEW tables \in Seq(Tables)
    PROVE  /\ IsFiniteSet(AskedPairs(tables))
           /\ \A p \in AskedPairs(tables) : p \in Tables \X Tables /\ p[1] # p[2]
<1> DEFINE n == Len(tables)
           D == (1..n) \X (1..n)
           f == [d \in D |-> <<tables[d[1]], tables[d[2]]>>]
<1>1. DOMAIN tables = 1..n /\ n \in Nat /\ \A i \in 1..n : tables[i] \in Tables
  OBVIOUS
<1>2. IsFiniteSet(D)
  <2>1. IsFiniteSet(1..n)
    BY <1>1, FS_Interval
  <2>2. QED
    BY <2>1, FS_Product
<1>3. IsFiniteSet(Pairs(tables))
  <2>1. Pairs(tables) = {<<tables[i], tables[j]>> : i \in 1..n, j \in 1..n}
    BY <1>1 DEF Pairs
  <2>2. f \in Surjection(D, Pairs(tables))
    <3>1. \A d \in D : f[d] \in Pairs(tables)
      BY <2>1
    <3>2. \A p \in Pairs(tables) : \E d \in D : f[d] = p
      <4>1. SUFFICES ASSUME NEW p \in Pairs(tables) PROVE \E d \in D : f[d] = p
        OBVIOUS
      <4>2. PICK i \in 1..n, j \in 1..n : p = <<tables[i], tables[j]>>
        BY <2>1
      <4>3. <<i, j>> \in D /\ f[<<i, j>>] = <<tables[i], tables[j]>>
        OBVIOUS
      <4>4. QED
        BY <4>2, <4>3
    <3>3. f = [d \in D |-> f[d]]
      OBVIOUS
    <3> HIDE DEF f, D
    <3>4. QED
      BY <3>1, <3>2, <3>3 DEF Surjection
  <2> HIDE DEF f, D
  <2>3. QED
    BY <1>2, <2>2, FS_Surjection
<1>4. AskedPairs(tables) \in SUBSET Pairs(tables)
  BY DEF AskedPairs
<1>5. \A p \in AskedPairs(tables) : p \in Tables \X Tables /\ p[1] # p[2]
  BY <1>1 DEF AskedPairs
<1>6. QED
  BY <1>3, <1>4, <1>5, FS_Subset

\* Both sides of every edge of every path.
LEMMA PathLookups ==
    ASSUME NEW S \in KeySets, NEW ps, IsFiniteSet(DOMAIN ps),
           \A p \in DOMAIN ps : ps[p] \in Seq(Edges(S))
    PROVE  LET order == SetToSeq(DOMAIN ps)
           IN  FlattenSeq([i \in DOMAIN order |-> EdgeLookups(ps[order[i]])]) \in Seq(Straight)
<1> DEFINE D == DOMAIN ps
           n == Cardinality(D)
           order == SetToSeq(D)
           seqs == [i \in DOMAIN order |-> EdgeLookups(ps[order[i]])]
<1>1. n \in Nat /\ ExistsBijection(1..n, D)
  BY FS_CardinalityType
<1>2. \E f \in [1..n -> D] : IsInjective(f)
  BY <1>1 DEF ExistsBijection, Bijection, Injection
<1>3. order \in [1..n -> D]
  BY <1>2 DEF SetToSeq
<1> HIDE DEF order, n
<1>4. ASSUME NEW i \in 1..n PROVE EdgeLookups(ps[order[i]]) \in Seq(Straight)
  <2>1. order[i] \in D
    BY <1>3
  <2>2. ps[order[i]] \in Seq(Edges(S))
    BY <2>1
  <2>3. QED
    BY <2>2, EdgeLookupsFacts
<1>5. seqs \in [1..n -> Seq(Straight)]
  BY <1>3, <1>4
<1> HIDE DEF seqs
<1>6. seqs \in Seq(Seq(Straight))
  BY <1>1, <1>5
<1>7. FlattenSeq(seqs) \in Seq(Straight)
  BY <1>6, FlattenMembers
<1>8. QED
  BY <1>7 DEF seqs, order

-----------------------------------------------------------------------------
(* The inductive invariant *)

DescribeTools == {"describe_table", "describe_column", "describe_entity"}
QuotedTable == call.tool = "describe_table" /\ call.args = "quoted"

\* The store, with its foreign keys.
StoreInv ==
    /\ cols \in [Tables -> SUBSET Cols] /\ fks \in KeySets /\ blocked \subseteq AllColumns
    /\ \A fk \in fks : cols[fk.owner] # {}
    /\ bound \in [Entities -> Tables \cup {Absent}]
    /\ joins \subseteq Joins /\ IsFiniteSet(joins) /\ OneOfAName(joins)
    /\ \A e \in Entities : bound[e] # Absent => cols[bound[e]] # {}
    /\ \A j \in joins : bound[j.source] # Absent /\ bound[j.target] # Absent

\* What the tool holds.
GotSet == [at : Tables \cup {Absent}, to : Tables \cup {Absent}, cols : SUBSET Cols,
           fks : KeySets, join : Joins \cup {Absent}, tables : SUBSET Tables]
GotInv == got \in GotSet

\* Which tool is at which place, and what it must have read by then.
CallInv ==
    /\ pc # "idle" => call \in Calls
    /\ pc \in {"present", "columns", "keys"} => call.tool \in DescribeTools
    /\ pc \in {"present", "columns", "keys", "gate", "incoming", "target", "hint"} => got.at \in Tables
    /\ pc \in {"gate", "incoming"} => call.tool = "describe_column"
    /\ pc \in {"entity_b", "joins", "source", "target"} => call.tool = "resolve_join"
    /\ pc \in {"source", "target"} => got.join \in Joins
    /\ pc = "graph" => call.tool = "suggest_joins"
    /\ pc = "hint_entity" => call.tool = "get_metric"
    /\ pc = "lookup" => next \in {"incoming", "complete"}
    /\ pc = "lookup" /\ next = "incoming" => call.tool = "describe_column" /\ got.at \in Tables

TodoInv ==
    /\ todo \in Seq(Bent) /\ (~QuotedTable => todo \in Seq(Straight))
    /\ pc = "lookup" <=> todo # <<>>

\* The reply.
ReplyInv ==
    /\ status \in {"none", "success", "empty", "error", "refused", "internal"}
    /\ pc \in {"record", "reply"} <=> status # "none"
    /\ shown \subseteq AllColumns /\ masked \subseteq AllColumns
    /\ pc = "idle" => shown = {} /\ masked = {}
    /\ row \in {"none", "written", "dropped"} /\ fp \in BOOLEAN /\ (fp => row = "written")

\* The history has the tags of this moment.
HistoryInv == pc # "idle" => blocked \subseteq hot /\ AllColumns \ blocked \subseteq clear

\* Paths are there only once the graph was read.
PathsInv ==
    /\ pc \notin {"lookup", "complete", "incoming", "record", "reply"} => paths = <<>>
    /\ PathsAreShortest

ServerInv ==
    /\ StoreInv /\ GotInv /\ CallInv /\ TodoInv /\ ReplyInv /\ HistoryInv /\ PathsInv
    /\ MaskingFollowsTags

LEMMA GotFields ==
    ASSUME NEW g \in GotSet
    PROVE  /\ g.at \in Tables \cup {Absent} /\ g.cols \subseteq Cols /\ g.fks \in KeySets
           /\ g.join \in Joins \cup {Absent} /\ g.tables \subseteq Tables
           /\ \A t \in Tables : [g EXCEPT !.at = t] \in GotSet /\ [g EXCEPT !.at = t].at = t
                                /\ [g EXCEPT !.at = t].join = g.join
           /\ \A t \in Tables : [g EXCEPT !.to = t] \in GotSet
           /\ \A S \in SUBSET Cols : [g EXCEPT !.cols = S] \in GotSet /\ [g EXCEPT !.cols = S].at = g.at
           /\ \A S \in KeySets : [g EXCEPT !.fks = S] \in GotSet /\ [g EXCEPT !.fks = S].at = g.at
           /\ \A j \in Joins : [g EXCEPT !.join = j] \in GotSet /\ [g EXCEPT !.join = j].join = j
           /\ \A S \in SUBSET Tables : [g EXCEPT !.tables = S] \in GotSet
BY DEF GotSet

LEMMA ReadingKeeps ==
    ASSUME StoreInv, HistoryInv, Reading, pc # "idle"
    PROVE  StoreInv' /\ HistoryInv'
<1>1. /\ cols' = cols /\ fks' = fks /\ blocked' = blocked /\ bound' = bound /\ joins' = joins
      /\ hot' = hot /\ clear' = clear
  BY DEF Reading, store, history
<1>2. QED
  BY <1>1 DEF StoreInv, HistoryInv

LEMMA MalformedNameKeeps ==
    ASSUME ServerInv, MalformedName
    PROVE  ServerInv'
<1> USE DEF ServerInv
<1>0. Reading /\ pc # "idle"
  BY DEF MalformedName, Finish
<1>1. StoreInv' /\ HistoryInv'
  BY <1>0, ReadingKeeps
<1>2. call' = call /\ row' = row /\ fp' = fp /\ hot' = hot /\ clear' = clear
  BY <1>0 DEF Reading, sinks, history
<1>3. GotInv'
  BY <1>2 DEF GotInv, MalformedName, Finish
<1>4. CallInv'
  BY <1>2 DEF CallInv, GotInv, MalformedName, Finish
<1>5. TodoInv'
  BY <1>2 DEF TodoInv, CallInv, QuotedTable, MalformedName, Finish
<1>6. ReplyInv'
  BY <1>2 DEF ReplyInv, TodoInv, MalformedName, Finish
<1>7. PathsInv'
  BY <1>2 DEF PathsInv, PathsAreShortest, CallInv, MalformedName, Finish
<1>8. MaskingFollowsTags'
  BY <1>2 DEF MaskingFollowsTags, MalformedName, Finish
<1>9. QED
  BY <1>1, <1>3, <1>4, <1>5, <1>6, <1>7, <1>8

LEMMA CompleteKeeps ==
    ASSUME ServerInv, Complete
    PROVE  ServerInv'
<1> USE DEF ServerInv
<1>0. Reading /\ pc # "idle"
  BY DEF Complete, Finish
<1>1. StoreInv' /\ HistoryInv'
  BY <1>0, ReadingKeeps
<1>2. call' = call /\ row' = row /\ fp' = fp /\ hot' = hot /\ clear' = clear
  BY <1>0 DEF Reading, sinks, history
<1>3. GotInv'
  BY <1>2 DEF GotInv, Complete, Finish
<1>4. CallInv'
  BY <1>2 DEF CallInv, GotInv, Complete, Finish
<1>5. TodoInv'
  BY <1>2 DEF TodoInv, CallInv, QuotedTable, Complete, Finish
<1>6. ReplyInv'
  BY <1>2 DEF ReplyInv, TodoInv, Complete, Finish
<1>7. PathsInv'
  BY <1>2 DEF PathsInv, PathsAreShortest, CallInv, Complete, Finish
<1>8. MaskingFollowsTags'
  BY <1>2 DEF MaskingFollowsTags, Complete, Finish
<1>9. QED
  BY <1>1, <1>3, <1>4, <1>5, <1>6, <1>7, <1>8

LEMMA ProbeKeeps ==
    ASSUME ServerInv, Probe
    PROVE  ServerInv'
<1> USE DEF ServerInv
<1>0. Reading /\ pc # "idle"
  BY DEF Probe, Finish
<1>1. StoreInv' /\ HistoryInv'
  BY <1>0, ReadingKeeps
<1>2. call' = call /\ row' = row /\ fp' = fp /\ hot' = hot /\ clear' = clear
  BY <1>0 DEF Reading, sinks, history
<1>3. GotInv'
  BY <1>2 DEF GotInv, Probe, Finish
<1>4. CallInv'
  BY <1>2 DEF CallInv, GotInv, Probe, Finish
<1>5. TodoInv'
  BY <1>2 DEF TodoInv, CallInv, QuotedTable, Probe, Finish
<1>6. ReplyInv'
  BY <1>2 DEF ReplyInv, TodoInv, Probe, Finish
<1>7. PathsInv'
  BY <1>2 DEF PathsInv, PathsAreShortest, CallInv, Probe, Finish
<1>8. MaskingFollowsTags'
  BY <1>2 DEF MaskingFollowsTags, Probe, Finish
<1>9. QED
  BY <1>1, <1>3, <1>4, <1>5, <1>6, <1>7, <1>8

LEMMA ListToolKeeps ==
    ASSUME ServerInv, ListTool
    PROVE  ServerInv'
<1> USE DEF ServerInv
<1>0. Reading /\ pc # "idle"
  BY DEF ListTool, Begin, Finish
<1>1. StoreInv' /\ HistoryInv'
  BY <1>0, ReadingKeeps
<1>2. call' = call /\ row' = row /\ fp' = fp /\ hot' = hot /\ clear' = clear
  BY <1>0 DEF Reading, sinks, history
<1>3. GotInv'
  BY <1>2 DEF GotInv, ListTool, Begin, Finish
<1>4. CallInv'
  BY <1>2 DEF CallInv, GotInv, ListTool, Begin, Finish
<1>5. TodoInv'
  BY <1>2 DEF TodoInv, CallInv, QuotedTable, ListTool, Begin, Finish
<1>6. ReplyInv'
  BY <1>2 DEF ReplyInv, TodoInv, ListTool, Begin, Finish
<1>7. PathsInv'
  BY <1>2 DEF PathsInv, PathsAreShortest, CallInv, ListTool, Begin, Finish
<1>8. MaskingFollowsTags'
  BY <1>2 DEF MaskingFollowsTags, ListTool, Begin, Finish
<1>9. QED
  BY <1>1, <1>3, <1>4, <1>5, <1>6, <1>7, <1>8

LEMMA ReadPresentKeeps ==
    ASSUME ServerInv, ReadPresent
    PROVE  ServerInv'
<1> USE DEF ServerInv
<1>0. Reading /\ pc # "idle"
  BY DEF ReadPresent, Finish
<1>1. StoreInv' /\ HistoryInv'
  BY <1>0, ReadingKeeps
<1>2. call' = call /\ row' = row /\ fp' = fp /\ hot' = hot /\ clear' = clear
  BY <1>0 DEF Reading, sinks, history
<1>3. GotInv'
  BY <1>2 DEF GotInv, ReadPresent, Finish
<1>4. CallInv'
  BY <1>2 DEF CallInv, GotInv, ReadPresent, Finish
<1>5. TodoInv'
  BY <1>2 DEF TodoInv, CallInv, QuotedTable, ReadPresent, Finish
<1>6. ReplyInv'
  BY <1>2 DEF ReplyInv, TodoInv, ReadPresent, Finish
<1>7. PathsInv'
  BY <1>2 DEF PathsInv, PathsAreShortest, CallInv, ReadPresent, Finish
<1>8. MaskingFollowsTags'
  BY <1>2 DEF MaskingFollowsTags, ReadPresent, Finish
<1>9. QED
  BY <1>1, <1>3, <1>4, <1>5, <1>6, <1>7, <1>8

LEMMA DescribeTableKeeps ==
    ASSUME ServerInv, DescribeTable
    PROVE  ServerInv'
<1> USE DEF ServerInv
<1>0. Reading /\ pc # "idle"
  BY DEF DescribeTable, Begin, reply, DescribeTools
<1>1. StoreInv' /\ HistoryInv'
  BY <1>0, ReadingKeeps
<1>2. call' = call /\ row' = row /\ fp' = fp /\ hot' = hot /\ clear' = clear
  BY <1>0 DEF Reading, sinks, history
<1>a. got' = [got EXCEPT !.at = call.table] /\ call.table \in Tables
  BY <1>2, ServerAssumption DEF DescribeTable, Begin, CallInv
<1>g. got' \in GotSet /\ got'.at \in Tables
  BY <1>a, GotFields DEF GotInv
<1>3. GotInv'
  BY <1>g DEF GotInv
<1>4. CallInv'
  BY <1>2, <1>g DEF CallInv, GotInv, DescribeTable, Begin, reply, DescribeTools
<1>5. TodoInv'
  BY <1>2, <1>g DEF TodoInv, CallInv, QuotedTable, DescribeTable, Begin, reply, DescribeTools
<1>6. ReplyInv'
  BY <1>2, <1>g DEF ReplyInv, TodoInv, DescribeTable, Begin, reply, DescribeTools
<1>7. PathsInv'
  BY <1>2, <1>g DEF PathsInv, PathsAreShortest, CallInv, DescribeTable, Begin, reply, DescribeTools
<1>8. MaskingFollowsTags'
  BY <1>2, <1>g DEF MaskingFollowsTags, DescribeTable, Begin, reply, DescribeTools
<1>9. QED
  BY <1>1, <1>3, <1>4, <1>5, <1>6, <1>7, <1>8

LEMMA DescribeEntityKeeps ==
    ASSUME ServerInv, DescribeEntity
    PROVE  ServerInv'
<1> USE DEF ServerInv
<1>0. Reading /\ pc # "idle"
  BY DEF DescribeEntity, Begin, Finish, DescribeTools
<1>1. StoreInv' /\ HistoryInv'
  BY <1>0, ReadingKeeps
<1>2. call' = call /\ row' = row /\ fp' = fp /\ hot' = hot /\ clear' = clear
  BY <1>0 DEF Reading, sinks, history
<1>a. \/ got' = got /\ pc' = "record"
      \/ got' = [got EXCEPT !.at = bound[call.entity]] /\ bound[call.entity] \in Tables
  BY <1>2, ServerAssumption DEF DescribeEntity, Begin, Finish, CallInv, StoreInv
<1>g. got' \in GotSet /\ (pc' = "record" \/ got'.at \in Tables)
  <2>1. CASE got' = got /\ pc' = "record"
    BY <2>1 DEF GotInv
  <2>2. CASE got' = [got EXCEPT !.at = bound[call.entity]] /\ bound[call.entity] \in Tables
    <3>1. got' \in GotSet /\ got'.at \in Tables
      BY <2>2, GotFields DEF GotInv
    <3>2. QED
      BY <3>1
  <2>3. QED
    BY <1>a, <2>1, <2>2
<1>3. GotInv'
  BY <1>g DEF GotInv
<1>4. CallInv'
  BY <1>2, <1>g DEF CallInv, GotInv, DescribeEntity, Begin, Finish, DescribeTools
<1>5. TodoInv'
  BY <1>2, <1>g DEF TodoInv, CallInv, QuotedTable, DescribeEntity, Begin, Finish, DescribeTools
<1>6. ReplyInv'
  BY <1>2, <1>g DEF ReplyInv, TodoInv, DescribeEntity, Begin, Finish, DescribeTools
<1>7. PathsInv'
  BY <1>2, <1>g DEF PathsInv, PathsAreShortest, CallInv, DescribeEntity, Begin, Finish, DescribeTools
<1>8. MaskingFollowsTags'
  BY <1>2, <1>g DEF MaskingFollowsTags, DescribeEntity, Begin, Finish, DescribeTools
<1>9. QED
  BY <1>1, <1>3, <1>4, <1>5, <1>6, <1>7, <1>8

LEMMA ReadColumnsKeeps ==
    ASSUME ServerInv, ReadColumns
    PROVE  ServerInv'
<1> USE DEF ServerInv
<1>0. Reading /\ pc # "idle"
  BY DEF ReadColumns, reply, DescribeTools
<1>1. StoreInv' /\ HistoryInv'
  BY <1>0, ReadingKeeps
<1>2. call' = call /\ row' = row /\ fp' = fp /\ hot' = hot /\ clear' = clear
  BY <1>0 DEF Reading, sinks, history
<1>a. got' = [got EXCEPT !.cols = cols[got.at]] /\ cols[got.at] \in SUBSET Cols
  BY <1>2 DEF ReadColumns, CallInv, StoreInv
<1>g. got' \in GotSet /\ got'.at = got.at
  BY <1>a, GotFields DEF GotInv
<1>3. GotInv'
  BY <1>g DEF GotInv
<1>4. CallInv'
  BY <1>2, <1>g DEF CallInv, GotInv, ReadColumns, reply, DescribeTools
<1>5. TodoInv'
  BY <1>2, <1>g DEF TodoInv, CallInv, QuotedTable, ReadColumns, reply, DescribeTools
<1>6. ReplyInv'
  BY <1>2, <1>g DEF ReplyInv, TodoInv, ReadColumns, reply, DescribeTools
<1>7. PathsInv'
  BY <1>2, <1>g DEF PathsInv, PathsAreShortest, CallInv, ReadColumns, reply, DescribeTools
<1>8. MaskingFollowsTags'
  BY <1>2, <1>g DEF MaskingFollowsTags, ReadColumns, reply, DescribeTools
<1>9. QED
  BY <1>1, <1>3, <1>4, <1>5, <1>6, <1>7, <1>8

LEMMA FindRelevantEntitiesKeeps ==
    ASSUME ServerInv, FindRelevantEntities
    PROVE  ServerInv'
<1> USE DEF ServerInv
<1>0. Reading /\ pc # "idle"
  BY DEF FindRelevantEntities, Begin, reply
<1>1. StoreInv' /\ HistoryInv'
  BY <1>0, ReadingKeeps
<1>2. call' = call /\ row' = row /\ fp' = fp /\ hot' = hot /\ clear' = clear
  BY <1>0 DEF Reading, sinks, history
<1>a. got' = [got EXCEPT !.tables = ({bound[e] : e \in Entities} \ {Absent})] /\ ({bound[e] : e \in Entities} \ {Absent}) \in SUBSET Tables
  BY <1>2 DEF FindRelevantEntities, StoreInv
<1>g. got' \in GotSet
  BY <1>a, GotFields DEF GotInv
<1>3. GotInv'
  BY <1>g DEF GotInv
<1>4. CallInv'
  BY <1>2, <1>g DEF CallInv, GotInv, FindRelevantEntities, Begin, reply
<1>5. TodoInv'
  BY <1>2, <1>g DEF TodoInv, CallInv, QuotedTable, FindRelevantEntities, Begin, reply
<1>6. ReplyInv'
  BY <1>2, <1>g DEF ReplyInv, TodoInv, FindRelevantEntities, Begin, reply
<1>7. PathsInv'
  BY <1>2, <1>g DEF PathsInv, PathsAreShortest, CallInv, FindRelevantEntities, Begin, reply
<1>8. MaskingFollowsTags'
  BY <1>2, <1>g DEF MaskingFollowsTags, FindRelevantEntities, Begin, reply
<1>9. QED
  BY <1>1, <1>3, <1>4, <1>5, <1>6, <1>7, <1>8

LEMMA ReadEntityAKeeps ==
    ASSUME ServerInv, ReadEntityA
    PROVE  ServerInv'
<1> USE DEF ServerInv
<1>0. Reading /\ pc # "idle"
  BY DEF ReadEntityA, Begin, Finish
<1>1. StoreInv' /\ HistoryInv'
  BY <1>0, ReadingKeeps
<1>2. call' = call /\ row' = row /\ fp' = fp /\ hot' = hot /\ clear' = clear
  BY <1>0 DEF Reading, sinks, history
<1>3. GotInv'
  BY <1>2, ServerAssumption DEF GotInv, ReadEntityA, Begin, Finish
<1>4. CallInv'
  BY <1>2, ServerAssumption DEF CallInv, GotInv, ReadEntityA, Begin, Finish
<1>5. TodoInv'
  BY <1>2, ServerAssumption DEF TodoInv, CallInv, QuotedTable, ReadEntityA, Begin, Finish
<1>6. ReplyInv'
  BY <1>2, ServerAssumption DEF ReplyInv, TodoInv, ReadEntityA, Begin, Finish
<1>7. PathsInv'
  BY <1>2, ServerAssumption DEF PathsInv, PathsAreShortest, CallInv, ReadEntityA, Begin, Finish
<1>8. MaskingFollowsTags'
  BY <1>2, ServerAssumption DEF MaskingFollowsTags, ReadEntityA, Begin, Finish
<1>9. QED
  BY <1>1, <1>3, <1>4, <1>5, <1>6, <1>7, <1>8

LEMMA ReadEntityBKeeps ==
    ASSUME ServerInv, ReadEntityB
    PROVE  ServerInv'
<1> USE DEF ServerInv
<1>0. Reading /\ pc # "idle"
  BY DEF ReadEntityB, Finish
<1>1. StoreInv' /\ HistoryInv'
  BY <1>0, ReadingKeeps
<1>2. call' = call /\ row' = row /\ fp' = fp /\ hot' = hot /\ clear' = clear
  BY <1>0 DEF Reading, sinks, history
<1>3. GotInv'
  BY <1>2 DEF GotInv, ReadEntityB, Finish
<1>4. CallInv'
  BY <1>2 DEF CallInv, GotInv, ReadEntityB, Finish
<1>5. TodoInv'
  BY <1>2 DEF TodoInv, CallInv, QuotedTable, ReadEntityB, Finish
<1>6. ReplyInv'
  BY <1>2 DEF ReplyInv, TodoInv, ReadEntityB, Finish
<1>7. PathsInv'
  BY <1>2 DEF PathsInv, PathsAreShortest, CallInv, ReadEntityB, Finish
<1>8. MaskingFollowsTags'
  BY <1>2 DEF MaskingFollowsTags, ReadEntityB, Finish
<1>9. QED
  BY <1>1, <1>3, <1>4, <1>5, <1>6, <1>7, <1>8

LEMMA SuggestJoinsKeeps ==
    ASSUME ServerInv, SuggestJoins
    PROVE  ServerInv'
<1> USE DEF ServerInv
<1>0. Reading /\ pc # "idle"
  BY DEF SuggestJoins, Begin, Finish
<1>1. StoreInv' /\ HistoryInv'
  BY <1>0, ReadingKeeps
<1>2. call' = call /\ row' = row /\ fp' = fp /\ hot' = hot /\ clear' = clear
  BY <1>0 DEF Reading, sinks, history
<1>3. GotInv'
  BY <1>2 DEF GotInv, SuggestJoins, Begin, Finish
<1>4. CallInv'
  BY <1>2 DEF CallInv, GotInv, SuggestJoins, Begin, Finish
<1>5. TodoInv'
  BY <1>2 DEF TodoInv, CallInv, QuotedTable, SuggestJoins, Begin, Finish
<1>6. ReplyInv'
  BY <1>2 DEF ReplyInv, TodoInv, SuggestJoins, Begin, Finish
<1>7. PathsInv'
  BY <1>2 DEF PathsInv, PathsAreShortest, CallInv, SuggestJoins, Begin, Finish
<1>8. MaskingFollowsTags'
  BY <1>2 DEF MaskingFollowsTags, SuggestJoins, Begin, Finish
<1>9. QED
  BY <1>1, <1>3, <1>4, <1>5, <1>6, <1>7, <1>8

LEMMA ReadHintEntityKeeps ==
    ASSUME ServerInv, ReadHintEntity
    PROVE  ServerInv'
<1> USE DEF ServerInv
<1>0. Reading /\ pc # "idle"
  BY DEF ReadHintEntity, Finish
<1>1. StoreInv' /\ HistoryInv'
  BY <1>0, ReadingKeeps
<1>2. call' = call /\ row' = row /\ fp' = fp /\ hot' = hot /\ clear' = clear
  BY <1>0 DEF Reading, sinks, history
<1>a. \/ got' = got /\ pc' = "record"
      \/ got' = [got EXCEPT !.at = bound[call.entity]] /\ bound[call.entity] \in Tables
  BY <1>2, ServerAssumption DEF ReadHintEntity, Finish, CallInv, StoreInv
<1>g. got' \in GotSet /\ (pc' = "record" \/ got'.at \in Tables)
  <2>1. CASE got' = got /\ pc' = "record"
    BY <2>1 DEF GotInv
  <2>2. CASE got' = [got EXCEPT !.at = bound[call.entity]] /\ bound[call.entity] \in Tables
    <3>1. got' \in GotSet /\ got'.at \in Tables
      BY <2>2, GotFields DEF GotInv
    <3>2. QED
      BY <3>1
  <2>3. QED
    BY <1>a, <2>1, <2>2
<1>3. GotInv'
  BY <1>g DEF GotInv
<1>4. CallInv'
  BY <1>2, <1>g DEF CallInv, GotInv, ReadHintEntity, Finish
<1>5. TodoInv'
  BY <1>2, <1>g DEF TodoInv, CallInv, QuotedTable, ReadHintEntity, Finish
<1>6. ReplyInv'
  BY <1>2, <1>g DEF ReplyInv, TodoInv, ReadHintEntity, Finish
<1>7. PathsInv'
  BY <1>2, <1>g DEF PathsInv, PathsAreShortest, CallInv, ReadHintEntity, Finish
<1>8. MaskingFollowsTags'
  BY <1>2, <1>g DEF MaskingFollowsTags, ReadHintEntity, Finish
<1>9. QED
  BY <1>1, <1>3, <1>4, <1>5, <1>6, <1>7, <1>8

LEMMA ReadSourceKeeps ==
    ASSUME ServerInv, ReadSource
    PROVE  ServerInv'
<1> USE DEF ServerInv
<1>0. Reading /\ pc # "idle"
  BY DEF ReadSource, Finish
<1>1. StoreInv' /\ HistoryInv'
  BY <1>0, ReadingKeeps
<1>2. call' = call /\ row' = row /\ fp' = fp /\ hot' = hot /\ clear' = clear
  BY <1>0 DEF Reading, sinks, history
<1>a. \/ got' = got /\ pc' = "record"
      \/ got' = [got EXCEPT !.at = bound[got.join.source]] /\ bound[got.join.source] \in Tables
  BY <1>2, ServerAssumption DEF ReadSource, Finish, CallInv, StoreInv
<1>g. got' \in GotSet /\ (pc' = "record" \/ (got'.at \in Tables /\ got'.join = got.join))
  <2>1. CASE got' = got /\ pc' = "record"
    BY <2>1 DEF GotInv
  <2>2. CASE got' = [got EXCEPT !.at = bound[got.join.source]] /\ bound[got.join.source] \in Tables
    <3>1. got' \in GotSet /\ (got'.at \in Tables /\ got'.join = got.join)
      BY <2>2, GotFields DEF GotInv
    <3>2. QED
      BY <3>1
  <2>3. QED
    BY <1>a, <2>1, <2>2
<1>3. GotInv'
  BY <1>g DEF GotInv
<1>4. CallInv'
  BY <1>2, <1>g DEF CallInv, GotInv, ReadSource, Finish
<1>5. TodoInv'
  BY <1>2, <1>g DEF TodoInv, CallInv, QuotedTable, ReadSource, Finish
<1>6. ReplyInv'
  BY <1>2, <1>g DEF ReplyInv, TodoInv, ReadSource, Finish
<1>7. PathsInv'
  BY <1>2, <1>g DEF PathsInv, PathsAreShortest, CallInv, ReadSource, Finish
<1>8. MaskingFollowsTags'
  BY <1>2, <1>g DEF MaskingFollowsTags, ReadSource, Finish
<1>9. QED
  BY <1>1, <1>3, <1>4, <1>5, <1>6, <1>7, <1>8

LEMMA GetMetricKeeps ==
    ASSUME ServerInv, GetMetric
    PROVE  ServerInv'
<1> USE DEF ServerInv
<1>0. Reading /\ pc # "idle"
  BY DEF GetMetric, Begin, Finish
<1>1. StoreInv' /\ HistoryInv'
  BY <1>0, ReadingKeeps
<1>2. call' = call /\ row' = row /\ fp' = fp /\ hot' = hot /\ clear' = clear
  BY <1>0 DEF Reading, sinks, history
<1>a. \/ got' = got /\ pc' = "record"
      \/ got' = [got EXCEPT !.cols = cols[bound[call.entity]]] /\ cols[bound[call.entity]] \in SUBSET Cols
  BY <1>2, ServerAssumption DEF GetMetric, Begin, Finish, CallInv, StoreInv
<1>g. got' \in GotSet /\ (pc' = "record" \/ got'.at = got.at)
  <2>1. CASE got' = got /\ pc' = "record"
    BY <2>1 DEF GotInv
  <2>2. CASE got' = [got EXCEPT !.cols = cols[bound[call.entity]]] /\ cols[bound[call.entity]] \in SUBSET Cols
    <3>1. got' \in GotSet /\ got'.at = got.at
      BY <2>2, GotFields DEF GotInv
    <3>2. QED
      BY <3>1
  <2>3. QED
    BY <1>a, <2>1, <2>2
<1>3. GotInv'
  BY <1>g DEF GotInv
<1>4. CallInv'
  BY <1>2, <1>g DEF CallInv, GotInv, GetMetric, Begin, Finish
<1>5. TodoInv'
  BY <1>2, <1>g DEF TodoInv, CallInv, QuotedTable, GetMetric, Begin, Finish
<1>6. ReplyInv'
  BY <1>2, <1>g DEF ReplyInv, TodoInv, GetMetric, Begin, Finish
<1>7. PathsInv'
  BY <1>2, <1>g DEF PathsInv, PathsAreShortest, CallInv, GetMetric, Begin, Finish
<1>8. MaskingFollowsTags'
  BY <1>2, <1>g DEF MaskingFollowsTags, GetMetric, Begin, Finish
<1>9. QED
  BY <1>1, <1>3, <1>4, <1>5, <1>6, <1>7, <1>8

LEMMA ReadJoinsKeeps ==
    ASSUME ServerInv, ReadJoins
    PROVE  ServerInv'
<1> USE DEF ServerInv
<1>0. Reading /\ pc # "idle"
  BY DEF ReadJoins, Finish
<1>1. StoreInv' /\ HistoryInv'
  BY <1>0, ReadingKeeps
<1>2. call' = call /\ row' = row /\ fp' = fp /\ hot' = hot /\ clear' = clear
  BY <1>0 DEF Reading, sinks, history
<1>a. \/ got' = got /\ pc' = "record"
      \/ \E j \in Joins : got' = [got EXCEPT !.join = j]
  BY <1>2 DEF ReadJoins, Finish, StoreInv, _select_join, Matching
<1>g. got' \in GotSet /\ (pc' = "record" \/ got'.join \in Joins)
  <2>1. CASE got' = got /\ pc' = "record"
    BY <2>1 DEF GotInv
  <2>2. CASE \E j \in Joins : got' = [got EXCEPT !.join = j]
    <3>1. PICK j \in Joins : got' = [got EXCEPT !.join = j]
      BY <2>2
    <3>2. got' \in GotSet /\ got'.join \in Joins
      BY <3>1, GotFields DEF GotInv
    <3>3. QED
      BY <3>2
  <2>3. QED
    BY <1>a, <2>1, <2>2
<1>3. GotInv'
  BY <1>g DEF GotInv
<1>4. CallInv'
  BY <1>2, <1>g DEF CallInv, GotInv, ReadJoins, Finish
<1>5. TodoInv'
  BY <1>2, <1>g DEF TodoInv, CallInv, QuotedTable, ReadJoins, Finish
<1>6. ReplyInv'
  BY <1>2, <1>g DEF ReplyInv, TodoInv, ReadJoins, Finish
<1>7. PathsInv'
  BY <1>2, <1>g DEF PathsInv, PathsAreShortest, CallInv, ReadJoins, Finish
<1>8. MaskingFollowsTags'
  BY <1>2, <1>g DEF MaskingFollowsTags, ReadJoins, Finish
<1>9. QED
  BY <1>1, <1>3, <1>4, <1>5, <1>6, <1>7, <1>8

LEMMA ReadKeysKeeps ==
    ASSUME ServerInv, ReadKeys
    PROVE  ServerInv'
<1> USE DEF ServerInv
<1>0. Reading /\ pc # "idle"
  BY DEF ReadKeys
<1>1. StoreInv' /\ HistoryInv'
  BY <1>0, ReadingKeeps
<1>2. call' = call /\ row' = row /\ fp' = fp /\ hot' = hot /\ clear' = clear
  BY <1>0 DEF Reading, sinks, history
<1> DEFINE own == {fk \in fks : fk.owner = got.at}
           list == <<[of |-> got.at, on |-> got.at, cols |-> got.cols]>>
<1>a. got' = [got EXCEPT !.fks = own] /\ own \in KeySets
  BY KeySetFacts DEF ReadKeys, StoreInv
<1>g. got' \in GotSet /\ got'.at = got.at
  BY <1>a, GotFields DEF GotInv
<1>b. got.at \in Tables /\ got.cols \subseteq Cols
  BY GotFields DEF ReadKeys, CallInv, GotInv
<1>c. list \in Seq(Straight)
  <2>1. [of |-> got.at, on |-> got.at, cols |-> got.cols] \in Straight
    BY <1>b DEF Straight, LookupSet
  <2>2. QED
    BY <2>1
<1>d. LookupsOf(own) \in Seq(Straight)
  BY <1>a, LookupsOfFacts
<1> DEFINE Planned == /\ todo' \in Seq(Bent) /\ (~QuotedTable => todo' \in Seq(Straight))
                      /\ next' = "complete"
                      /\ pc' = IF todo' = <<>> THEN "complete" ELSE "lookup"
<1>p. Planned \/ (pc' = "gate" /\ call.tool = "describe_column" /\ UNCHANGED <<todo, next>>)
  <2>1. CASE call.tool = "describe_table" /\ Plan(AsSpelled(list \o LookupsOf(own)), "complete")
    <3> DEFINE s == list \o LookupsOf(own)
    <3> HIDE DEF list, own
    <3>1. s \in Seq(Straight)
      BY <1>c, <1>d
    <3> HIDE DEF s
    <3>2. AsSpelled(s) \in Seq(Bent) /\ (call.args # "quoted" => AsSpelled(s) = s)
      BY <3>1, AsSpelledFacts
    <3>3. todo' = AsSpelled(s) /\ next' = "complete"
          /\ pc' = IF todo' = <<>> THEN "complete" ELSE "lookup"
      BY <2>1 DEF Plan, s
    <3>4. QED
      BY <2>1, <3>1, <3>2, <3>3 DEF QuotedTable
  <2>2. CASE call.tool = "describe_entity" /\ Plan(list, "complete")
    <3>1. list \in Seq(Bent)
      BY <1>c, StraightIsBent, SeqMonotonic
    <3> HIDE DEF list
    <3>2. QED
      BY <1>c, <2>2, <3>1 DEF Plan
  <2>3. CASE call.tool = "describe_column" /\ pc' = "gate" /\ UNCHANGED <<todo, next>>
    BY <2>3
  <2>4. QED
    BY <2>1, <2>2, <2>3 DEF ReadKeys
<1> HIDE DEF own, list
<1>r. UNCHANGED reply
  BY DEF ReadKeys
<1>3. GotInv'
  BY <1>g DEF GotInv
<1>4. CallInv'
  BY <1>2, <1>b, <1>g, <1>p DEF CallInv, ReadKeys
<1>5. TodoInv'
  BY <1>2, <1>p DEF TodoInv, QuotedTable, ReadKeys
<1>6. ReplyInv'
  BY <1>2, <1>p, <1>r DEF ReplyInv, ReadKeys, reply
<1>7. PathsInv'
  BY <1>2, <1>p, <1>r DEF PathsInv, PathsAreShortest, ReadKeys, reply
<1>8. MaskingFollowsTags'
  BY <1>2, <1>r DEF MaskingFollowsTags, reply
<1>9. QED
  BY <1>1, <1>3, <1>4, <1>5, <1>6, <1>7, <1>8

LEMMA ReadIncomingKeeps ==
    ASSUME ServerInv, ReadIncoming
    PROVE  ServerInv'
<1> USE DEF ServerInv
<1>0. Reading /\ pc # "idle"
  BY DEF ReadIncoming, reply
<1>1. StoreInv' /\ HistoryInv'
  BY <1>0, ReadingKeeps
<1>2. call' = call /\ row' = row /\ fp' = fp /\ hot' = hot /\ clear' = clear
  BY <1>0 DEF Reading, sinks, history
<1> DEFINE incoming == {fk \in fks : fk.ref = got.at /\ call.column \in ToSet(fk.refCols)}
<1>a. LookupsOf(incoming) \in Seq(Straight)
  <2>1. incoming \in KeySets
    BY KeySetFacts DEF StoreInv
  <2>2. QED
    BY <2>1, LookupsOfFacts
<1>b. Plan(LookupsOf(incoming), "complete")
  BY DEF ReadIncoming
<1> HIDE DEF incoming
<1>p. /\ todo' \in Seq(Straight) /\ next' = "complete"
      /\ pc' = IF todo' = <<>> THEN "complete" ELSE "lookup"
  BY <1>a, <1>b DEF Plan
<1>g. got' \in GotSet
  BY DEF ReadIncoming, GotInv
<1>3. GotInv'
  BY <1>g DEF GotInv
<1>4. CallInv'
  BY <1>2, <1>p DEF CallInv, GotInv, ReadIncoming, reply
<1>5. TodoInv'
  <2>1. todo' \in Seq(Bent)
    BY <1>p, StraightIsBent, SeqMonotonic
  <2>2. QED
    BY <1>p, <2>1 DEF TodoInv
<1>6. ReplyInv'
  BY <1>2, <1>p DEF ReplyInv, TodoInv, ReadIncoming, reply
<1>7. PathsInv'
  BY <1>2, <1>p DEF PathsInv, PathsAreShortest, CallInv, ReadIncoming, reply
<1>8. MaskingFollowsTags'
  BY <1>2, <1>p DEF MaskingFollowsTags, ReadIncoming, reply
<1>9. QED
  BY <1>1, <1>3, <1>4, <1>5, <1>6, <1>7, <1>8

LEMMA FindRelevantTablesKeeps ==
    ASSUME ServerInv, FindRelevantTables
    PROVE  ServerInv'
<1> USE DEF ServerInv
<1>0. Reading /\ pc # "idle"
  BY DEF FindRelevantTables, Begin, Finish
<1>1. StoreInv' /\ HistoryInv'
  BY <1>0, ReadingKeeps
<1>2. call' = call /\ row' = row /\ fp' = fp /\ hot' = hot /\ clear' = clear
  BY <1>0 DEF Reading, sinks, history
<1>p. \/ /\ todo' \in Seq(Straight) /\ next' = "complete" /\ status' = status
         /\ pc' = IF todo' = <<>> THEN "complete" ELSE "lookup"
      \/ \E s \in {"empty", "error"} : Finish(s)
  <2>1. ASSUME NEW h \in Hits({t \in Tables : cols[t] # {}}), DOMAIN h # {},
               Plan(HitLookups(h), "complete"), status' = status
        PROVE  /\ todo' \in Seq(Straight) /\ next' = "complete" /\ status' = status
               /\ pc' = IF todo' = <<>> THEN "complete" ELSE "lookup"
    <3>1. PICK T \in SUBSET Tables : IsFiniteSet(T) /\ h \in [T -> Cols]
      BY DEF Hits
    <3>2. HitLookups(h) \in Seq(Straight)
      BY <3>1, HitLookupsFacts
    <3>3. QED
      BY <2>1, <3>2 DEF Plan
  <2>2. QED
    BY <2>1 DEF FindRelevantTables
<1>f. pc = "begin" /\ UNCHANGED <<got, shown, masked, paths>>
  BY DEF FindRelevantTables, Begin
<1>g. got' \in GotSet
  BY <1>f DEF GotInv
<1>3. GotInv'
  BY <1>g DEF GotInv
<1>4. CallInv'
  BY <1>2, <1>f, <1>p DEF CallInv, Finish
<1>5. TodoInv'
  <2>1. todo' \in Seq(Straight) => todo' \in Seq(Bent)
    BY StraightIsBent, SeqMonotonic
  <2>2. QED
    BY <1>2, <1>f, <1>p, <2>1 DEF TodoInv, QuotedTable, Finish
<1>6. ReplyInv'
  BY <1>2, <1>f, <1>p DEF ReplyInv, Finish
<1>7. PathsInv'
  BY <1>2, <1>f, <1>p DEF PathsInv, PathsAreShortest, Finish
<1>8. MaskingFollowsTags'
  BY <1>2, <1>f DEF MaskingFollowsTags
<1>9. QED
  BY <1>1, <1>3, <1>4, <1>5, <1>6, <1>7, <1>8

LEMMA SearchEntitiesKeeps ==
    ASSUME ServerInv, SearchEntities
    PROVE  ServerInv'
<1> USE DEF ServerInv
<1>0. Reading /\ pc # "idle"
  BY DEF SearchEntities, Finish
<1>1. StoreInv' /\ HistoryInv'
  BY <1>0, ReadingKeeps
<1>2. call' = call /\ row' = row /\ fp' = fp /\ hot' = hot /\ clear' = clear
  BY <1>0 DEF Reading, sinks, history
<1>p. \/ /\ todo' \in Seq(Straight) /\ next' = "complete" /\ status' = status
         /\ pc' = IF todo' = <<>> THEN "complete" ELSE "lookup"
      \/ pc' = "probe" /\ UNCHANGED <<todo, next, status>>
      \/ Finish("error")
  <2>1. ASSUME NEW h \in Hits({t \in got.tables : cols[t] # {}}),
               Plan(HitLookups(h), "complete"), status' = status
        PROVE  /\ todo' \in Seq(Straight) /\ next' = "complete" /\ status' = status
               /\ pc' = IF todo' = <<>> THEN "complete" ELSE "lookup"
    <3>1. got.tables \subseteq Tables
      BY GotFields DEF GotInv
    <3>2. PICK T \in SUBSET Tables : IsFiniteSet(T) /\ h \in [T -> Cols]
      BY <3>1 DEF Hits
    <3>3. HitLookups(h) \in Seq(Straight)
      BY <3>2, HitLookupsFacts
    <3>4. QED
      BY <2>1, <3>3 DEF Plan
  <2>2. QED
    BY <2>1 DEF SearchEntities
<1>f. pc = "search" /\ UNCHANGED <<got, shown, masked, paths>>
  BY DEF SearchEntities
<1>g. got' \in GotSet
  BY <1>f DEF GotInv
<1>3. GotInv'
  BY <1>g DEF GotInv
<1>4. CallInv'
  BY <1>2, <1>f, <1>p DEF CallInv, Finish
<1>5. TodoInv'
  <2>1. todo' \in Seq(Straight) => todo' \in Seq(Bent)
    BY StraightIsBent, SeqMonotonic
  <2>2. QED
    BY <1>2, <1>f, <1>p, <2>1 DEF TodoInv, QuotedTable, Finish
<1>6. ReplyInv'
  BY <1>2, <1>f, <1>p DEF ReplyInv, Finish
<1>7. PathsInv'
  BY <1>2, <1>f, <1>p DEF PathsInv, PathsAreShortest, Finish
<1>8. MaskingFollowsTags'
  BY <1>2, <1>f DEF MaskingFollowsTags
<1>9. QED
  BY <1>1, <1>3, <1>4, <1>5, <1>6, <1>7, <1>8

LEMMA GateKeeps ==
    ASSUME ServerInv, Gate
    PROVE  ServerInv'
<1> USE DEF ServerInv
<1>0. Reading /\ pc # "idle"
  BY DEF Gate, Finish
<1>1. StoreInv' /\ HistoryInv'
  BY <1>0, ReadingKeeps
<1>2. call' = call /\ row' = row /\ fp' = fp /\ hot' = hot /\ clear' = clear
  BY <1>0 DEF Reading, sinks, history
<1> DEFINE safe == {c \in got.cols : <<got.at, c>> \notin blocked}
           outgoing == {fk \in got.fks : call.column \in ToSet(fk.ownerCols)}
<1>a. got.at \in Tables /\ got.cols \subseteq Cols /\ got.fks \in KeySets
  BY GotFields DEF Gate, CallInv, GotInv
<1>b. LookupsOf(outgoing) \in Seq(Straight)
  <2>1. outgoing \in KeySets
    BY <1>a, KeySetFacts
  <2>2. QED
    BY <2>1, LookupsOfFacts
<1>c. \A names \in SUBSET safe : {got.at} \X names \subseteq AllColumns \ blocked
  BY <1>a DEF AllColumns
<1>f. pc = "gate" /\ UNCHANGED <<got, masked, paths>>
  BY DEF Gate
<1>s. shown' \subseteq AllColumns \ blocked \/ shown' = shown
  <2>1. \/ \E names \in {{}} \cup {{c} : c \in safe} : shown' = {got.at} \X names
        \/ shown' = shown
        \/ call.column \in safe /\ shown' = {<<got.at, call.column>>}
    BY DEF Gate
  <2>2. CASE \E names \in {{}} \cup {{c} : c \in safe} : shown' = {got.at} \X names
    <3>1. PICK names \in {{}} \cup {{c} : c \in safe} : shown' = {got.at} \X names
      BY <2>2
    <3>2. names \in SUBSET safe
      OBVIOUS
    <3> HIDE DEF safe
    <3>3. QED
      BY <1>c, <3>1, <3>2
  <2>3. CASE call.column \in safe /\ shown' = {<<got.at, call.column>>}
    <3>1. {call.column} \in SUBSET safe /\ shown' = {got.at} \X {call.column}
      BY <2>3
    <3> HIDE DEF safe
    <3>2. QED
      BY <1>c, <3>1
  <2>4. QED
    BY <2>1, <2>2, <2>3
<1>p. \/ /\ todo' \in Seq(Straight) /\ next' = "incoming" /\ status' = status
         /\ pc' = IF todo' = <<>> THEN "incoming" ELSE "lookup"
      \/ \E s \in {"refused", "error"} : Finish(s)
  <2>1. \/ Plan(LookupsOf(outgoing), "incoming") /\ status' = status
        \/ \E s \in {"refused", "error"} : Finish(s)
    BY DEF Gate
  <2> HIDE DEF outgoing
  <2>2. QED
    BY <1>b, <2>1 DEF Plan
<1> HIDE DEF safe, outgoing
<1>g. got' \in GotSet /\ got' = got
  BY <1>f DEF GotInv
<1>3. GotInv'
  BY <1>g DEF GotInv
<1>4. CallInv'
  BY <1>2, <1>a, <1>f, <1>p DEF CallInv, Finish
<1>5. TodoInv'
  <2>1. todo' \in Seq(Straight) => todo' \in Seq(Bent)
    BY StraightIsBent, SeqMonotonic
  <2>2. QED
    BY <1>2, <1>f, <1>p, <2>1 DEF TodoInv, QuotedTable, Finish
<1>6. ReplyInv'
  BY <1>2, <1>f, <1>p, <1>s DEF ReplyInv, Finish
<1>7. PathsInv'
  BY <1>2, <1>f, <1>p DEF PathsInv, PathsAreShortest, Finish
<1>8. MaskingFollowsTags'
  <2>1. AllColumns \ blocked \subseteq clear
    BY <1>0 DEF HistoryInv
  <2>2. QED
    BY <1>2, <1>f, <1>s, <2>1 DEF MaskingFollowsTags
<1>9. QED
  BY <1>1, <1>3, <1>4, <1>5, <1>6, <1>7, <1>8

LEMMA ReadTargetKeeps ==
    ASSUME ServerInv, ReadTarget
    PROVE  ServerInv'
<1> USE DEF ServerInv
<1>0. Reading /\ pc # "idle"
  BY DEF ReadTarget, Finish
<1>1. StoreInv' /\ HistoryInv'
  BY <1>0, ReadingKeeps
<1>2. call' = call /\ row' = row /\ fp' = fp /\ hot' = hot /\ clear' = clear
  BY <1>0 DEF Reading, sinks, history
<1> DEFINE to == bound[got.join.target]
           looks == <<Look(got.at, got.join.sourceCols), Look(to, got.join.targetCols)>>
<1>a. /\ got.at \in Tables /\ got.join \in Joins /\ call \in Calls
      /\ got.join.source \in Entities /\ got.join.target \in Entities
      /\ got.join.sourceCols \in Seq(Cols) /\ got.join.targetCols \in Seq(Cols)
  BY <1>0, ServerAssumption DEF ReadTarget, CallInv
<1>b. to \in Tables \cup {Absent}
  BY <1>a DEF StoreInv
<1>c. to # Absent => looks \in Seq(Straight)
  <2>1. ASSUME to # Absent PROVE looks \in Seq(Straight)
    <3>1. Look(got.at, got.join.sourceCols) \in Straight /\ Look(to, got.join.targetCols) \in Straight
      BY <1>a, <1>b, <2>1, LookFacts
    <3>2. QED
      BY <3>1
  <2>2. QED
    BY <2>1
<1>d. \/ Finish("internal") /\ got' = got
      \/ to # Absent /\ got' = [got EXCEPT !.to = to] /\ Plan(looks, "complete") /\ status' = status
  BY DEF ReadTarget
<1>f. pc = "target" /\ UNCHANGED <<shown, masked, paths>>
  BY DEF ReadTarget
<1> HIDE DEF to, looks
<1>p. \/ /\ todo' \in Seq(Straight) /\ next' = "complete" /\ status' = status
         /\ pc' = IF todo' = <<>> THEN "complete" ELSE "lookup"
      \/ Finish("internal")
  BY <1>c, <1>d DEF Plan
<1>g. got' \in GotSet
  <2>1. CASE got' = got
    BY <2>1 DEF GotInv
  <2>2. CASE to # Absent /\ got' = [got EXCEPT !.to = to]
    <3>1. to \in Tables
      BY <1>b, <2>2
    <3>2. QED
      BY <2>2, <3>1, GotFields DEF GotInv
  <2>3. QED
    BY <1>d, <2>1, <2>2
<1>3. GotInv'
  BY <1>g DEF GotInv
<1>4. CallInv'
  BY <1>2, <1>a, <1>f, <1>p DEF CallInv, Finish
<1>5. TodoInv'
  <2>1. todo' \in Seq(Straight) => todo' \in Seq(Bent)
    BY StraightIsBent, SeqMonotonic
  <2>2. QED
    BY <1>2, <1>f, <1>p, <2>1 DEF TodoInv, QuotedTable, Finish
<1>6. ReplyInv'
  BY <1>2, <1>f, <1>p DEF ReplyInv, Finish
<1>7. PathsInv'
  <2>1. paths = <<>> /\ paths' = <<>>
    BY <1>f DEF PathsInv
  <2>2. QED
    BY <2>1 DEF PathsInv, PathsAreShortest
<1>8. MaskingFollowsTags'
  BY <1>2, <1>f DEF MaskingFollowsTags
<1>9. QED
  BY <1>1, <1>3, <1>4, <1>5, <1>6, <1>7, <1>8

LEMMA ReadGraphKeeps ==
    ASSUME ServerInv, ReadGraph
    PROVE  ServerInv'
<1> USE DEF ServerInv
<1>0. Reading /\ pc # "idle"
  BY DEF ReadGraph
<1>1. StoreInv' /\ HistoryInv'
  BY <1>0, ReadingKeeps
<1>2. call' = call /\ row' = row /\ fp' = fp /\ hot' = hot /\ clear' = clear
  BY <1>0 DEF Reading, sinks, history
<1>a. /\ pc = "graph" /\ UNCHANGED <<status, shown, masked>> /\ got' = [got EXCEPT !.fks = fks]
      /\ paths' = [p \in AskedPairs(call.tables) |-> _bfs_shortest_path(fks, p[1], p[2], MaxHops)]
  BY DEF ReadGraph
<1>b. call \in Calls /\ call.tables \in Seq(Tables)
  BY <1>0, <1>a, ServerAssumption DEF CallInv
<1>c. /\ IsFiniteSet(AskedPairs(call.tables))
      /\ \A p \in AskedPairs(call.tables) : p \in Tables \X Tables /\ p[1] # p[2]
  BY <1>b, AskedPairsFacts
<1>d. fks \in KeySets /\ IsGraph(fks)
  BY KeySetFacts DEF StoreInv
<1>e. ASSUME NEW p \in AskedPairs(call.tables)
      PROVE  /\ IsShortestPath(fks, p[1], p[2], MaxHops, paths'[p])
             /\ paths'[p] \in Seq(Edges(fks))
  <2>1. p[1] \in Nat /\ p[1] # p[2] /\ MaxHops \in Nat
    BY <1>c, ServerAssumption
  <2>2. paths'[p] = _bfs_shortest_path(fks, p[1], p[2], MaxHops)
    BY <1>a
  <2>3. QED
    BY <1>d, <2>1, <2>2, SearchIsShortest
<1>f. DOMAIN paths' = AskedPairs(call.tables)
  BY <1>a
<1>p. /\ todo' \in Seq(Straight) /\ next' = "complete"
      /\ pc' = IF todo' = <<>> THEN "complete" ELSE "lookup"
  <2> DEFINE ps == paths'
             order == SetToSeq(DOMAIN ps)
             looks == FlattenSeq([i \in DOMAIN order |-> EdgeLookups(ps[order[i]])])
  <2>1. Plan(looks, "complete")
    BY DEF ReadGraph
  <2>2. IsFiniteSet(DOMAIN ps) /\ \A p \in DOMAIN ps : ps[p] \in Seq(Edges(fks))
    BY <1>c, <1>e, <1>f
  <2> HIDE DEF ps
  <2>3. looks \in Seq(Straight)
    BY <1>d, <2>2, PathLookups
  <2> HIDE DEF looks
  <2>4. QED
    BY <2>1, <2>3 DEF Plan
<1>g. got' \in GotSet /\ got'.fks = fks
  <2>1. got' \in GotSet
    BY <1>a, <1>d, GotFields DEF GotInv
  <2>2. got'.fks = fks
    BY <1>a DEF GotInv, GotSet
  <2>3. QED
    BY <2>1, <2>2
<1>3. GotInv'
  BY <1>g DEF GotInv
<1>4. CallInv'
  BY <1>0, <1>2, <1>p DEF CallInv
<1>5. TodoInv'
  <2>1. todo' \in Seq(Bent)
    BY <1>p, StraightIsBent, SeqMonotonic
  <2>2. QED
    BY <1>2, <1>p, <2>1 DEF TodoInv
<1>6. ReplyInv'
  BY <1>2, <1>a, <1>p DEF ReplyInv
<1>7. PathsInv'
  <2>1. PathsAreShortest'
    BY <1>e, <1>f, <1>g DEF PathsAreShortest
  <2>2. QED
    BY <1>p, <2>1 DEF PathsInv
<1>8. MaskingFollowsTags'
  BY <1>2, <1>a DEF MaskingFollowsTags
<1>9. QED
  BY <1>1, <1>3, <1>4, <1>5, <1>6, <1>7, <1>8

LEMMA ReadHintKeeps ==
    ASSUME ServerInv, ReadHint
    PROVE  ServerInv'
<1> USE DEF ServerInv
<1>0. Reading /\ pc # "idle"
  BY DEF ReadHint, Finish
<1>1. StoreInv' /\ HistoryInv'
  BY <1>0, ReadingKeeps
<1>2. call' = call /\ row' = row /\ fp' = fp /\ hot' = hot /\ clear' = clear
  BY <1>0 DEF Reading, sinks, history
<1>a. got.at \in Tables /\ got.cols \subseteq Cols
  BY GotFields DEF ReadHint, CallInv, GotInv
<1>b. shown' \subseteq AllColumns \ blocked
  BY <1>a DEF ReadHint, AllColumns
<1>g. got' \in GotSet
  BY DEF ReadHint, GotInv
<1>3. GotInv'
  BY <1>g DEF GotInv
<1>4. CallInv'
  BY <1>2 DEF CallInv, GotInv, ReadHint, Finish
<1>5. TodoInv'
  BY <1>2 DEF TodoInv, CallInv, QuotedTable, ReadHint, Finish
<1>6. ReplyInv'
  BY <1>2, <1>b DEF ReplyInv, ReadHint, Finish
<1>7. PathsInv'
  BY <1>2 DEF PathsInv, PathsAreShortest, CallInv, ReadHint, Finish
<1>8. MaskingFollowsTags'
  <2>1. AllColumns \ blocked \subseteq clear
    BY <1>0 DEF HistoryInv
  <2>2. QED
    BY <1>2, <1>b, <2>1 DEF MaskingFollowsTags, ReadHint
<1>9. QED
  BY <1>1, <1>3, <1>4, <1>5, <1>6, <1>7, <1>8

LEMMA LookupKeeps ==
    ASSUME ServerInv, Lookup
    PROVE  ServerInv'
<1> USE DEF ServerInv
<1>0. Reading /\ pc # "idle"
  BY DEF Lookup
<1>1. StoreInv' /\ HistoryInv'
  BY <1>0, ReadingKeeps
<1>2. call' = call /\ row' = row /\ fp' = fp /\ hot' = hot /\ clear' = clear
  BY <1>0 DEF Reading, sinks, history
<1> DEFINE l == todo[1]
           hidden == {c \in l.cols : <<l.on, c>> \in blocked}
<1>a. /\ pc = "lookup" /\ todo # <<>> /\ todo \in Seq(Bent) /\ (~QuotedTable => todo \in Seq(Straight))
  BY DEF Lookup, TodoInv
<1>b. /\ l \in Bent /\ (~QuotedTable => l \in Straight)
      /\ Tail(todo) \in Seq(Bent) /\ (~QuotedTable => Tail(todo) \in Seq(Straight))
      /\ (Len(todo) = 1 <=> Tail(todo) = <<>>)
  <2>1. l \in Bent /\ Tail(todo) \in Seq(Bent) /\ (Len(todo) = 1 <=> Tail(todo) = <<>>)
    <3>1. l \in Bent
      BY <1>a
    <3>2. Tail(todo) \in Seq(Bent)
      BY <1>a
    <3>3. Len(todo) \in Nat /\ Len(todo) # 0 /\ Len(Tail(todo)) = Len(todo) - 1
      BY <1>a
    <3>4. Len(Tail(todo)) = 0 <=> Tail(todo) = <<>>
      BY <3>2, EmptySeq
    <3>5. QED
      BY <3>1, <3>2, <3>3, <3>4
  <2>2. ASSUME ~QuotedTable PROVE l \in Straight /\ Tail(todo) \in Seq(Straight)
    BY <1>a, <2>2
  <2>3. QED
    BY <2>1, <2>2
<1>c. /\ shown' = shown \cup ({l.of} \X (l.cols \ hidden))
      /\ masked' = masked \cup ({l.of} \X hidden)
      /\ todo' = Tail(todo) /\ pc' = IF Len(todo) = 1 THEN next ELSE "lookup"
      /\ UNCHANGED <<got, next, status, paths>>
  BY DEF Lookup
<1>d. l.of \in Tables /\ l.cols \subseteq Cols /\ l.on \in {l.of, Absent}
  BY <1>b DEF Bent, LookupSet
<1>e. {l.of} \X hidden \subseteq blocked
  <2>1. CASE l.on = l.of
    BY <2>1
  <2>2. CASE l.on = Absent
    <3>1. hidden = {}
      BY <2>2, ServerAssumption DEF StoreInv, AllColumns
    <3>2. QED
      BY <3>1
  <2>3. QED
    BY <1>d, <2>1, <2>2
<1>f. ~QuotedTable => {l.of} \X (l.cols \ hidden) \subseteq AllColumns \ blocked
  <2>1. ASSUME ~QuotedTable PROVE l.on = l.of
    BY <1>b, <2>1 DEF Straight
  <2>2. QED
    BY <1>d, <2>1 DEF AllColumns
<1>h. {l.of} \X (l.cols \ hidden) \subseteq AllColumns /\ {l.of} \X hidden \subseteq AllColumns
  BY <1>d DEF AllColumns
<1> HIDE DEF hidden, l
<1>g. got' \in GotSet
  BY <1>c DEF GotInv
<1>3. GotInv'
  BY <1>g DEF GotInv
<1>4. CallInv'
  BY <1>2, <1>a, <1>c DEF CallInv
<1>5. TodoInv'
  <2>1. QuotedTable' = QuotedTable
    BY <1>2 DEF QuotedTable
  <2>2. next # "lookup"
    BY <1>a DEF CallInv
  <2>3. QED
    BY <1>b, <1>c, <2>1, <2>2 DEF TodoInv
<1>6. ReplyInv'
  <2>1. next \in {"incoming", "complete"} /\ status = "none"
    BY <1>a DEF CallInv, ReplyInv
  <2>2. QED
    BY <1>2, <1>c, <1>h, <2>1 DEF ReplyInv
<1>7. PathsInv'
  <2>1. next \in {"incoming", "complete"}
    BY <1>a DEF CallInv
  <2>2. QED
    BY <1>c, <2>1 DEF PathsInv, PathsAreShortest
<1>8. MaskingFollowsTags'
  <2>1. blocked \subseteq hot /\ AllColumns \ blocked \subseteq clear
    BY <1>0 DEF HistoryInv
  <2>2. masked' \subseteq hot
    BY <1>c, <1>e, <2>1 DEF MaskingFollowsTags
  <2>3. ~QuotedTable => shown' \subseteq clear
    BY <1>c, <1>f, <2>1 DEF MaskingFollowsTags, QuotedTable
  <2>4. QED
    BY <1>2, <2>2, <2>3 DEF MaskingFollowsTags, QuotedTable
<1>9. QED
  BY <1>1, <1>3, <1>4, <1>5, <1>6, <1>7, <1>8

LEMMA OverKeeps ==
    ASSUME ServerInv, Over, UNCHANGED <<store, calls, changes, faults>>
    PROVE  ServerInv'
<1> USE DEF ServerInv
<1>1. cols' = cols /\ fks' = fks /\ blocked' = blocked /\ bound' = bound /\ joins' = joins
  BY DEF store
<1>2. StoreInv'
  BY <1>1 DEF StoreInv
<1>3. GotInv'
  <2>1. {} \in KeySets
    BY FS_EmptySet DEF KeySets, OnePerName
  <2>2. Nothing \in GotSet
    BY <2>1 DEF Nothing, GotSet
  <2>3. QED
    BY <2>2 DEF Over, GotInv
<1>4. CallInv' /\ HistoryInv' /\ ReplyInv'
  BY DEF Over, CallInv, HistoryInv, ReplyInv
<1>5. TodoInv'
  BY DEF Over, TodoInv
<1>6. PathsInv'
  BY DEF Over, PathsInv, PathsAreShortest
<1>7. MaskingFollowsTags'
  BY DEF Over, MaskingFollowsTags
<1>8. QED
  BY <1>2, <1>3, <1>4, <1>5, <1>6, <1>7

LEMMA ArriveKeeps ==
    ASSUME ServerInv, NEW c \in Calls, Arrive(c)
    PROVE  ServerInv'
<1> USE DEF ServerInv
<1>1. /\ cols' = cols /\ fks' = fks /\ blocked' = blocked /\ bound' = bound /\ joins' = joins
      /\ got' = got /\ todo' = todo /\ next' = next /\ status' = status /\ shown' = shown
      /\ masked' = masked /\ paths' = paths /\ row' = row /\ fp' = fp
      /\ pc = "idle" /\ pc' = "dispatch" /\ call' = c
      /\ clear' = AllColumns \ blocked /\ hot' = blocked
  BY DEF Arrive, store, reply, sinks
<1>2. StoreInv'
  BY <1>1 DEF StoreInv
<1>3. GotInv' /\ CallInv' /\ HistoryInv' /\ ReplyInv'
  BY <1>1 DEF GotInv, CallInv, HistoryInv, ReplyInv
<1>4. TodoInv'
  <2>1. todo = <<>>
    BY <1>1 DEF TodoInv
  <2>2. QED
    BY <1>1, <2>1 DEF TodoInv
<1>5. PathsInv'
  BY <1>1 DEF PathsInv, PathsAreShortest
<1>6. MaskingFollowsTags'
  BY <1>1 DEF MaskingFollowsTags, ReplyInv
<1>7. QED
  BY <1>2, <1>3, <1>4, <1>5, <1>6

LEMMA DispatchKeeps ==
    ASSUME ServerInv, Dispatch
    PROVE  ServerInv'
<1> USE DEF ServerInv
<1>1. CASE Over
  <2>1. UNCHANGED <<store, calls, changes, faults>>
    BY DEF Dispatch
  <2>2. QED
    BY <1>1, <2>1, OverKeeps
<1>2. CASE /\ pc' = "begin" \/ (pc' = "record" /\ status' = "error")
           /\ (pc' = "begin" => status' = status)
           /\ UNCHANGED <<call, got, todo, next, shown, masked, paths, sinks, history>>
  <2>1. /\ cols' = cols /\ fks' = fks /\ blocked' = blocked /\ bound' = bound /\ joins' = joins
        /\ call' = call /\ got' = got /\ todo' = todo /\ next' = next /\ shown' = shown
        /\ masked' = masked /\ paths' = paths /\ row' = row /\ fp' = fp /\ clear' = clear
        /\ hot' = hot /\ pc = "dispatch"
    BY <1>2 DEF Dispatch, store, sinks, history
  <2>2. StoreInv'
    BY <2>1 DEF StoreInv
  <2>3. GotInv' /\ CallInv' /\ HistoryInv'
    BY <1>2, <2>1 DEF GotInv, CallInv, HistoryInv
  <2>4. ReplyInv'
    BY <1>2, <2>1 DEF ReplyInv
  <2>5. TodoInv'
    BY <1>2, <2>1 DEF TodoInv, QuotedTable
  <2>6. PathsInv'
    BY <1>2, <2>1 DEF PathsInv, PathsAreShortest
  <2>7. MaskingFollowsTags'
    BY <2>1 DEF MaskingFollowsTags
  <2>8. QED
    BY <2>2, <2>3, <2>4, <2>5, <2>6, <2>7
<1>3. QED
  BY <1>1, <1>2 DEF Dispatch, Finish, reply

LEMMA RecordKeeps ==
    ASSUME ServerInv, Record
    PROVE  ServerInv'
<1> USE DEF ServerInv
<1>1. /\ cols' = cols /\ fks' = fks /\ blocked' = blocked /\ bound' = bound /\ joins' = joins
      /\ call' = call /\ got' = got /\ todo' = todo /\ next' = next /\ shown' = shown
      /\ masked' = masked /\ paths' = paths /\ status' = status /\ clear' = clear
      /\ hot' = hot /\ pc = "record" /\ pc' = "reply"
  BY DEF Record, store, reply, history
<1>2. StoreInv'
  BY <1>1 DEF StoreInv
<1>3. GotInv' /\ CallInv' /\ HistoryInv'
  BY <1>1 DEF GotInv, CallInv, HistoryInv
<1>4. ReplyInv'
  <2>1. row' \in {"none", "written", "dropped"} /\ fp' \in BOOLEAN /\ (fp' => row' = "written")
    BY DEF Record
  <2>2. QED
    BY <1>1, <2>1 DEF ReplyInv
<1>5. TodoInv'
  BY <1>1 DEF TodoInv, QuotedTable
<1>6. PathsInv'
  BY <1>1 DEF PathsInv, PathsAreShortest
<1>7. MaskingFollowsTags'
  BY <1>1 DEF MaskingFollowsTags
<1>8. QED
  BY <1>2, <1>3, <1>4, <1>5, <1>6, <1>7

LEMMA StoreRaisesKeeps ==
    ASSUME ServerInv, StoreRaises
    PROVE  ServerInv'
<1> USE DEF ServerInv
<1>0. cols' = cols /\ fks' = fks /\ blocked' = blocked /\ bound' = bound /\ joins' = joins
  BY DEF StoreRaises, store
<1>1. CASE Over
  <2>1. StoreInv'
    BY <1>0 DEF StoreInv
  <2>2. GotInv'
    <3>1. {} \in KeySets
      BY FS_EmptySet DEF KeySets, OnePerName
    <3>2. Nothing \in GotSet
      BY <3>1 DEF Nothing, GotSet
    <3>3. QED
      BY <1>1, <3>2 DEF Over, GotInv
  <2>3. CallInv' /\ HistoryInv' /\ ReplyInv'
    BY <1>1 DEF Over, CallInv, HistoryInv, ReplyInv
  <2>4. TodoInv'
    BY <1>1 DEF Over, TodoInv
  <2>5. PathsInv'
    BY <1>1 DEF Over, PathsInv, PathsAreShortest
  <2>6. MaskingFollowsTags'
    BY <1>1 DEF Over, MaskingFollowsTags
  <2>7. QED
    BY <2>1, <2>2, <2>3, <2>4, <2>5, <2>6
<1>2. CASE ~Over
  <2>1. /\ pc # "idle" /\ status' = "internal" /\ pc' = "record" /\ shown' = {} /\ masked' = {}
        /\ paths' = <<>> /\ todo' = <<>> /\ call' = call /\ got' = got /\ next' = next
        /\ row' = row /\ fp' = fp /\ clear' = clear /\ hot' = hot
    BY <1>2 DEF StoreRaises, sinks, history
  <2>2. StoreInv'
    BY <1>0 DEF StoreInv
  <2>3. GotInv' /\ CallInv' /\ HistoryInv' /\ ReplyInv'
    BY <1>0, <2>1 DEF GotInv, CallInv, HistoryInv, ReplyInv
  <2>4. TodoInv'
    BY <2>1 DEF TodoInv
  <2>5. PathsInv'
    BY <2>1 DEF PathsInv, PathsAreShortest
  <2>6. MaskingFollowsTags'
    BY <2>1 DEF MaskingFollowsTags
  <2>7. QED
    BY <2>2, <2>3, <2>4, <2>5, <2>6
<1>3. QED
  BY <1>1, <1>2

\* A write of another process: the history keeps up with the tags.
LEMMA ChangeKeeps ==
    ASSUME ServerInv, Change, StoreInv'
    PROVE  ServerInv'
<1> USE DEF ServerInv
<1>1. /\ pc' = pc /\ call' = call /\ got' = got /\ todo' = todo /\ next' = next /\ shown' = shown
      /\ masked' = masked /\ paths' = paths /\ status' = status /\ row' = row /\ fp' = fp
  BY DEF Change, reply, sinks
<1>2. GotInv' /\ CallInv' /\ ReplyInv'
  BY <1>1 DEF GotInv, CallInv, ReplyInv
<1>3. TodoInv'
  BY <1>1 DEF TodoInv, QuotedTable
<1>4. PathsInv'
  BY <1>1 DEF PathsInv, PathsAreShortest
<1>5. CASE pc = "idle"
  <2>1. HistoryInv'
    BY <1>1, <1>5 DEF HistoryInv
  <2>2. MaskingFollowsTags'
    BY <1>1, <1>5 DEF MaskingFollowsTags, ReplyInv
  <2>3. QED
    BY <1>2, <1>3, <1>4, <2>1, <2>2
<1>6. CASE pc # "idle"
  <2>1. clear' = clear \cup (AllColumns \ blocked') /\ hot' = hot \cup blocked'
    BY <1>6 DEF Change
  <2>2. HistoryInv'
    BY <1>1, <2>1 DEF HistoryInv, AllColumns
  <2>3. MaskingFollowsTags'
    BY <1>1, <2>1 DEF MaskingFollowsTags
  <2>4. QED
    BY <1>2, <1>3, <1>4, <2>2, <2>3
<1>7. QED
  BY <1>5, <1>6

LEMMA CascadeFacts ==
    ASSUME StoreInv, NEW t \in Tables, Cascade(t)
    PROVE  /\ bound' \in [Entities -> Tables \cup {Absent}] /\ joins' \subseteq Joins
           /\ IsFiniteSet(joins') /\ OneOfAName(joins')
           /\ \A e \in Entities : bound'[e] # Absent => bound'[e] = bound[e] /\ bound[e] # t
           /\ \A j \in joins' : bound'[j.source] # Absent /\ bound'[j.target] # Absent
<1>1. /\ bound' = [e \in Entities |-> IF bound[e] = t THEN Absent ELSE bound[e]]
      /\ joins' = {j \in joins : t \notin {bound[j.source], bound[j.target]}}
  BY DEF Cascade
<1>2. /\ bound \in [Entities -> Tables \cup {Absent}] /\ joins \subseteq Joins
      /\ \A j \in joins : bound[j.source] # Absent /\ bound[j.target] # Absent
  BY DEF StoreInv
<1>3. \A j \in Joins : j.source \in Entities /\ j.target \in Entities
  BY ServerAssumption
<1>4. joins' \subseteq joins
  BY <1>1
<1>5. IsFiniteSet(joins') /\ OneOfAName(joins')
  BY <1>4, FS_Subset DEF StoreInv, OneOfAName
<1>6. QED
  BY <1>1, <1>2, <1>3, <1>5

LEMMA OtherProcessesKeep ==
    ASSUME ServerInv, OtherProcesses
    PROVE  ServerInv'
<1> USE DEF ServerInv
<1>k. /\ cols \in [Tables -> SUBSET Cols] /\ fks \in KeySets /\ blocked \subseteq AllColumns
      /\ \A fk \in fks : cols[fk.owner] # {} /\ fk.owner \in Tables
      /\ bound \in [Entities -> Tables \cup {Absent}] /\ joins \subseteq Joins
      /\ \A e \in Entities : bound[e] # Absent => cols[bound[e]] # {} /\ bound[e] \in Tables
      /\ \A j \in joins : bound[j.source] # Absent /\ bound[j.target] # Absent
  BY ServerAssumption DEF StoreInv, KeySets
<1>1. ASSUME NEW v \in Versions, IndexWritesTable(v) PROVE ServerInv'
  <2>1. /\ cols' = [cols EXCEPT ![v.table] = v.cols] /\ blocked' = blocked
        /\ fks' = {fk \in fks : fk.owner # v.table} \cup v.fks
        /\ Cascade(v.table) /\ Change
    BY <1>1 DEF IndexWritesTable
  <2>2. /\ v.table \in Tables /\ v.cols \in SUBSET Cols /\ v.cols # {} /\ v.fks \subseteq Keys
        /\ IsFiniteSet(v.fks) /\ OnePerName(v.fks) /\ \A fk \in v.fks : fk.owner = v.table
    <3>1. /\ v.table \in Tables /\ v.cols \in (SUBSET Cols) \ {{}}
          /\ v.fks \subseteq Keys /\ IsFiniteSet(v.fks) /\ OnePerName(v.fks)
      BY ServerAssumption
    <3>2. \A fk \in v.fks : fk.owner = v.table
      BY ServerAssumption
    <3>3. QED
      BY <3>1, <3>2
  <2>3. fks' \in KeySets
    <3> DEFINE rest == {fk \in fks : fk.owner # v.table}
    <3>1. rest \in KeySets
      BY <1>k, KeySetFacts
    <3>2. rest \subseteq Keys /\ IsFiniteSet(rest) /\ OnePerName(rest)
      BY <3>1 DEF KeySets
    <3>3. IsFiniteSet(rest \cup v.fks)
      BY <2>2, <3>2, FS_Union
    <3>4. OnePerName(rest \cup v.fks)
      BY <2>2, <3>2 DEF OnePerName
    <3>5. QED
      BY <2>1, <2>2, <3>2, <3>3, <3>4 DEF KeySets
  <2>4. /\ bound' \in [Entities -> Tables \cup {Absent}] /\ joins' \subseteq Joins
        /\ IsFiniteSet(joins') /\ OneOfAName(joins')
        /\ \A e \in Entities : bound'[e] # Absent => bound'[e] = bound[e] /\ bound[e] # v.table
        /\ \A j \in joins' : bound'[j.source] # Absent /\ bound'[j.target] # Absent
    BY <2>1, <2>2, CascadeFacts
  <2>5. /\ cols' \in [Tables -> SUBSET Cols] /\ cols'[v.table] = v.cols
        /\ \A t \in Tables : t # v.table => cols'[t] = cols[t]
    BY <1>k, <2>1, <2>2
  <2>6. \A fk \in fks' : cols'[fk.owner] # {}
    BY <1>k, <2>1, <2>2, <2>5
  <2>7. \A e \in Entities : bound'[e] # Absent => cols'[bound'[e]] # {}
    BY <1>k, <2>4, <2>5
  <2>8. StoreInv'
    BY <1>k, <2>1, <2>3, <2>4, <2>5, <2>6, <2>7 DEF StoreInv, AllColumns
  <2>9. QED
    BY <2>1, <2>8, ChangeKeeps
<1>2. ASSUME NEW t \in Tables, IndexDeletesTable(t) PROVE ServerInv'
  <2>1. /\ cols' = [cols EXCEPT ![t] = {}] /\ blocked' = blocked
        /\ fks' = {fk \in fks : fk.owner # t} /\ Cascade(t) /\ Change
    BY <1>2 DEF IndexDeletesTable
  <2>2. fks' \in KeySets
    BY <1>k, <2>1, KeySetFacts
  <2>3. /\ bound' \in [Entities -> Tables \cup {Absent}] /\ joins' \subseteq Joins
        /\ IsFiniteSet(joins') /\ OneOfAName(joins')
        /\ \A e \in Entities : bound'[e] # Absent => bound'[e] = bound[e] /\ bound[e] # t
        /\ \A j \in joins' : bound'[j.source] # Absent /\ bound'[j.target] # Absent
    BY <2>1, CascadeFacts
  <2>4. /\ cols' \in [Tables -> SUBSET Cols]
        /\ \A u \in Tables : u # t => cols'[u] = cols[u]
    BY <1>k, <2>1
  <2>5. \A fk \in fks' : cols'[fk.owner] # {}
    BY <1>k, <2>1, <2>4
  <2>6. \A e \in Entities : bound'[e] # Absent => cols'[bound'[e]] # {}
    BY <1>k, <2>3, <2>4
  <2>7. StoreInv'
    BY <1>k, <2>1, <2>2, <2>3, <2>4, <2>5, <2>6 DEF StoreInv, AllColumns
  <2>8. QED
    BY <2>1, <2>7, ChangeKeeps
<1>3. ASSUME NEW t \in Tables, NEW S \in SUBSET Cols, Tagged(t, S) PROVE ServerInv'
  <2>1. /\ blocked' = {b \in blocked : b[1] # t} \cup ({t} \X S)
        /\ UNCHANGED <<cols, fks, bound, joins>> /\ Change
    BY <1>3 DEF Tagged
  <2>2. blocked' \subseteq AllColumns
    BY <1>k, <2>1 DEF AllColumns
  <2>3. StoreInv'
    BY <2>1, <2>2 DEF StoreInv, AllColumns
  <2>4. QED
    BY <2>1, <2>3, ChangeKeeps
<1>4. ASSUME NEW e \in Entities, NEW t \in Tables, EntityApplied(e, t) PROVE ServerInv'
  <2>1. /\ cols[t] # {} /\ bound' = [bound EXCEPT ![e] = t]
        /\ UNCHANGED <<cols, fks, blocked, joins>> /\ Change
    BY <1>4 DEF EntityApplied
  <2>2. /\ bound' \in [Entities -> Tables \cup {Absent}] /\ bound'[e] = t /\ t # Absent
        /\ \A d \in Entities : d # e => bound'[d] = bound[d]
    BY <1>k, <2>1, ServerAssumption
  <2>3. \A d \in Entities : bound'[d] # Absent => cols[bound'[d]] # {}
    BY <1>k, <2>1, <2>2
  <2>4. \A j \in joins : bound'[j.source] # Absent /\ bound'[j.target] # Absent
    <3>1. \A j \in Joins : j.source \in Entities /\ j.target \in Entities
      BY ServerAssumption
    <3>2. QED
      BY <1>k, <2>2, <3>1
  <2>5. StoreInv'
    BY <2>1, <2>2, <2>3, <2>4 DEF StoreInv, AllColumns
  <2>6. QED
    BY <2>1, <2>5, ChangeKeeps
<1>5. ASSUME NEW j \in Joins, JoinApplied(j) PROVE ServerInv'
  <2>1. /\ bound[j.source] # Absent /\ bound[j.target] # Absent
        /\ joins' = {k \in joins : k.name # j.name} \cup {j}
        /\ UNCHANGED <<cols, fks, blocked, bound>> /\ Change
    BY <1>5 DEF JoinApplied
  <2>2. IsFiniteSet(joins')
    <3> DEFINE rest == {k \in joins : k.name # j.name}
    <3>1. IsFiniteSet(rest)
      BY FS_Subset DEF StoreInv
    <3>2. IsFiniteSet(rest \cup {j})
      BY <3>1, FS_AddElement
    <3>3. QED
      BY <2>1, <3>2
  <2>3. OneOfAName(joins')
    BY <2>1 DEF OneOfAName, StoreInv
  <2>4. StoreInv'
    BY <2>1, <2>2, <2>3 DEF StoreInv, AllColumns
  <2>5. QED
    BY <2>1, <2>4, ChangeKeeps
<1>6. QED
  BY <1>1, <1>2, <1>3, <1>4, <1>5 DEF OtherProcesses

LEMMA InitServerInv == Init => ServerInv
<1>1. SUFFICES ASSUME Init PROVE ServerInv
  OBVIOUS
<1>2. PICK s \in Stores : /\ cols = s.cols /\ fks = s.fks /\ blocked = s.blocked
                          /\ bound = s.bound /\ joins = s.joins
  BY <1>1 DEF Init
<1>3. StoreInv
  <2>1. /\ s.cols \in [Tables -> SUBSET Cols] /\ s.blocked \subseteq Tables \X Cols
        /\ s.fks \subseteq Keys /\ IsFiniteSet(s.fks) /\ OnePerName(s.fks)
        /\ \A fk \in s.fks : s.cols[fk.owner] # {}
        /\ s.bound \in [Entities -> Tables \cup {Absent}]
        /\ s.joins \subseteq Joins /\ IsFiniteSet(s.joins) /\ OneOfAName(s.joins)
        /\ \A e \in Entities : s.bound[e] # Absent => s.cols[s.bound[e]] # {}
        /\ \A j \in s.joins : Absent \notin {s.bound[j.source], s.bound[j.target]}
    BY ServerAssumption
  <2>2. QED
    BY <1>2, <2>1 DEF StoreInv, KeySets, AllColumns
<1>4. GotInv
  <2>1. {} \in KeySets
    BY FS_EmptySet DEF KeySets, OnePerName
  <2>2. Nothing \in GotSet
    BY <2>1 DEF Nothing, GotSet
  <2>3. QED
    BY <1>1, <2>2 DEF Init, GotInv
<1>5. CallInv /\ HistoryInv /\ ReplyInv
  BY <1>1 DEF Init, CallInv, HistoryInv, ReplyInv
<1>6. TodoInv
  BY <1>1 DEF Init, TodoInv
<1>7. PathsInv
  BY <1>1 DEF Init, PathsInv, PathsAreShortest
<1>8. MaskingFollowsTags
  BY <1>1 DEF Init, MaskingFollowsTags
<1>9. QED
  BY <1>3, <1>4, <1>5, <1>6, <1>7, <1>8 DEF ServerInv

LEMMA NextServerInv == ServerInv /\ [Next]_vars => ServerInv'
<1> SUFFICES ASSUME ServerInv, [Next]_vars PROVE ServerInv'
  OBVIOUS
<1>1. CASE ToolStep
  <2>1. CASE Reply
    <3>1. Over /\ UNCHANGED <<store, calls, changes, faults>>
      BY <2>1 DEF Reply
    <3>2. QED
      BY <3>1, OverKeeps
  <2>2. QED
    BY <1>1, <2>1, DispatchKeeps, MalformedNameKeeps, LookupKeeps, CompleteKeeps,
       DescribeTableKeeps, DescribeEntityKeeps, ReadPresentKeeps, ReadColumnsKeeps,
       ReadKeysKeeps, GateKeeps, ReadIncomingKeeps, FindRelevantTablesKeeps,
       FindRelevantEntitiesKeeps, SearchEntitiesKeeps, ProbeKeeps, ReadEntityAKeeps,
       ReadEntityBKeeps, ReadJoinsKeeps, ReadSourceKeeps, ReadTargetKeeps,
       SuggestJoinsKeeps, ReadGraphKeeps, GetMetricKeeps, ReadHintEntityKeeps,
       ReadHintKeeps, ListToolKeeps, RecordKeeps DEF ToolStep
<1>2. CASE UNCHANGED vars
  <2>1. /\ cols' = cols /\ fks' = fks /\ blocked' = blocked /\ bound' = bound /\ joins' = joins
        /\ pc' = pc /\ call' = call /\ got' = got /\ todo' = todo /\ next' = next
        /\ shown' = shown /\ masked' = masked /\ paths' = paths /\ status' = status
        /\ row' = row /\ fp' = fp /\ clear' = clear /\ hot' = hot
    BY <1>2 DEF vars, store, reply, sinks, history
  <2>2. StoreInv' /\ GotInv' /\ CallInv' /\ HistoryInv' /\ ReplyInv'
    BY <2>1 DEF ServerInv, StoreInv, GotInv, CallInv, HistoryInv, ReplyInv
  <2>3. TodoInv' /\ PathsInv' /\ MaskingFollowsTags'
    BY <2>1 DEF ServerInv, TodoInv, QuotedTable, PathsInv, PathsAreShortest, MaskingFollowsTags
  <2>4. QED
    BY <2>2, <2>3 DEF ServerInv
<1>3. QED
  BY <1>1, <1>2, ArriveKeeps, StoreRaisesKeeps, OtherProcessesKeep DEF Next

\* The inductive invariant: the store keeps its keys and references, each tool holds what
\* its earlier reads gave it, and every lookup still to make is on the table it is about
\* (or, for describe_table by a quoted name, on none).
THEOREM ServerInvariant == Spec => []ServerInv
BY InitServerInv, NextServerInv, PTL DEF Spec

\* The store keeps its references, and the fields of a call their types, at every moment.
THEOREM ServerTypes == Spec => []TypeOK
<1>1. ServerInv => TypeOK
  BY DEF ServerInv, StoreInv, TodoInv, ReplyInv, KeySets, TypeOK
<1>2. QED
  BY <1>1, ServerInvariant, PTL

\* Whatever other processes write between two reads of a call, on every surface of the
\* server: a name is shown only if it carried no blocked tag at some moment of the call,
\* and masked only if it did.
THEOREM ServerMasking == Spec => []MaskingFollowsTags
<1>1. ServerInv => MaskingFollowsTags
  BY DEF ServerInv
<1>2. QED
  BY <1>1, ServerInvariant, PTL

\* suggest_joins answers every pair with a shortest walk over the keys it read, or with
\* none when there is none within the hop limit.
THEOREM ServerPaths == Spec => []PathsAreShortest
<1>1. ServerInv => PathsAreShortest
  BY DEF ServerInv, PathsInv
<1>2. QED
  BY <1>1, ServerInvariant, PTL

-----------------------------------------------------------------------------
(* Calls nobody disturbs *)

ExactTools == {"describe_table", "describe_column", "describe_entity", "resolve_join",
               "suggest_joins"}
Undisturbed ==
    /\ pc # "idle" /\ quiet /\ call.tool \in ExactTools
    /\ call.args = "ok" \/ (call.args = "quoted" /\ call.tool = "describe_column")

Named == {j \in Matching(call.a, call.b) : call.name \in {Absent, j.name}}
OwnedBy(t) == {fk \in fks : fk.owner = t}
Outgoing == {fk \in OwnedBy(call.table) : call.column \in ToSet(fk.ownerCols)}
Incoming == {fk \in fks : fk.ref = call.table /\ call.column \in ToSet(fk.refCols)}
KeyNames(S) == UNION {KeyColumns(fk) : fk \in S}
JoinNames(j) == ({bound[j.source]} \X ToSet(j.sourceCols)) \cup
                ({bound[j.target]} \X ToSet(j.targetCols))

\* What the store says about the call: whether it succeeds, and the
\* names of the answer by each tool (describe_column reads the keys to its column last).
Succeeds ==
    /\ call.tool = "describe_table" => cols[call.table] # {}
    /\ call.tool = "describe_column" => /\ call.column \in cols[call.table]
                                        /\ <<call.table, call.column>> \notin blocked
    /\ call.tool = "describe_entity" => bound[call.entity] # Absent
    /\ call.tool = "resolve_join" => \E j \in Named : Named = {j}
    /\ call.tool = "suggest_joins" => /\ Cardinality(ToSet(call.tables)) > 1
                                      /\ \A t \in ToSet(call.tables) : cols[t] # {}
FirstNames == {<<call.table, call.column>>} \cup KeyNames(Outgoing)
TableNames == ({call.table} \X cols[call.table]) \cup KeyNames(OwnedBy(call.table))
ColumnNames == FirstNames \cup KeyNames(Incoming)
EntityNames == {bound[call.entity]} \X cols[bound[call.entity]]
JoinedNames == UNION {JoinNames(j) : j \in Named}

\* The names of the reply so far follow the tags of this moment.
Parted == shown \cap blocked = {} /\ masked \subseteq blocked

\* What the tool has read is what the store still has.
AtHome ==
    /\ call.tool \in DescribeTools /\ pc \notin {"dispatch", "begin", "record", "reply"} =>
           IF call.tool = "describe_entity"
             THEN bound[call.entity] # Absent /\ got.at = bound[call.entity]
             ELSE got.at = call.table
    /\ pc \in {"columns", "keys", "gate"} => cols[got.at] # {}
    /\ pc \in {"keys", "gate"} => got.cols = cols[got.at]
    /\ pc = "gate" => got.fks = OwnedBy(got.at)
    /\ pc \in {"source", "target"} => Named = {got.join}
    /\ pc = "target" => got.at = bound[got.join.source]
    /\ pc = "graph" => Succeeds

\* The names shown, masked and still to look up are those of the answer.
Planned == shown \cup masked \cup Names(todo)
Covered ==
    /\ call.tool = "describe_table" => Planned = TableNames
    /\ call.tool = "describe_column" => Planned = ColumnNames
    /\ call.tool = "describe_entity" => Planned = EntityNames
    /\ call.tool = "resolve_join" => Planned = JoinedNames
OnTheWay ==
    /\ pc \notin {"search", "probe", "hint_entity", "hint"}
    /\ pc \notin {"lookup", "incoming", "complete", "record", "reply"} => shown = {} /\ masked = {}
    /\ pc = "complete" \/ (pc = "lookup" /\ next = "complete") => Succeeds /\ Covered
    /\ pc = "incoming" \/ (pc = "lookup" /\ next = "incoming") => Succeeds /\ Planned = FirstNames

\* The answer when it is there.
Answered ==
    \/ status = "internal"
    \/ status = "success" /\ Succeeds /\ Covered
    \/ /\ status \in {"error", "refused"} /\ ~Succeeds
       /\ status = "refused" <=> call.tool = "describe_column" /\ call.column \in cols[call.table]
       /\ masked = {} /\ (shown = {} \/ \E name \in AllColumns : shown = {name})

Exact == Parted /\ AtHome /\ OnTheWay /\ (pc \in {"record", "reply"} => Answered)
ExactInv == Undisturbed => Exact

LEMMA GotReads ==
    ASSUME NEW g \in GotSet
    PROVE  /\ \A t : [g EXCEPT !.at = t].at = t
           /\ \A S : [g EXCEPT !.cols = S].cols = S
           /\ \A S : [g EXCEPT !.fks = S].fks = S /\ [g EXCEPT !.fks = S].cols = g.cols
           /\ \A j : [g EXCEPT !.join = j].join = j
BY DEF GotSet

LEMMA NamesOfConcat ==
    ASSUME NEW T, NEW s \in Seq(T), NEW t \in Seq(T)
    PROVE  Names(s \o t) = Names(s) \cup Names(t)
<1>1. Members(s \o t) = Members(s) \cup Members(t)
  BY MembersOfConcat
<1>2. QED
  BY <1>1 DEF Names

LEMMA NamesOfNone == Names(<<>>) = {}
<1>1. Members(<<>>) = {}
  BY DEF Members
<1>2. QED
  BY <1>1 DEF Names

LEMMA NamesOfOne ==
    ASSUME NEW l
    PROVE  Names(<<l>>) = {l.of} \X l.cols
<1>1. Members(<<l>>) = {l}
  <2>1. Len(<<l>>) = 1 /\ <<l>>[1] = l /\ 1..1 = {1}
    OBVIOUS
  <2>2. QED
    BY <2>1 DEF Members
<1>2. QED
  BY <1>1 DEF Names

LEMMA NamesOfTwo ==
    ASSUME NEW a, NEW b
    PROVE  Names(<<a, b>>) = ({a.of} \X a.cols) \cup ({b.of} \X b.cols)
<1>1. 1..2 = {1, 2}
  OBVIOUS
<1>2. Len(<<a, b>>) = 2 /\ <<a, b>>[1] = a /\ <<a, b>>[2] = b
  OBVIOUS
<1>3. Members(<<a, b>>) = {a, b}
  BY <1>1, <1>2 DEF Members
<1>4. QED
  BY <1>3 DEF Names

LEMMA NamesOfTail ==
    ASSUME NEW T, NEW s \in Seq(T), s # <<>>
    PROVE  Names(s) = ({s[1].of} \X s[1].cols) \cup Names(Tail(s))
<1> DEFINE n == Len(s)
<1>1. n \in Nat /\ n # 0 /\ \A i \in 1..n : s[i] \in T
  OBVIOUS
<1>2. Len(Tail(s)) = n - 1 /\ \A i \in 1..(n - 1) : Tail(s)[i] = s[i + 1]
  OBVIOUS
<1> HIDE DEF n
<1>3. Members(s) = {s[1]} \cup Members(Tail(s))
  <2>1. ASSUME NEW x \in Members(s) PROVE x \in {s[1]} \cup Members(Tail(s))
    <3>1. PICK i \in 1..n : x = s[i]
      BY DEF Members, n
    <3>2. CASE i # 1
      <4>1. i - 1 \in 1..(n - 1) /\ Tail(s)[i - 1] = x
        BY <1>1, <1>2, <3>1, <3>2
      <4>2. QED
        BY <1>2, <4>1 DEF Members
    <3>3. QED
      BY <3>1, <3>2
  <2>2. ASSUME NEW x \in Members(Tail(s)) PROVE x \in Members(s)
    <3>1. PICK i \in 1..(n - 1) : x = Tail(s)[i]
      BY <1>2, <2>2 DEF Members
    <3>2. i + 1 \in 1..n /\ x = s[i + 1]
      BY <1>1, <1>2, <3>1
    <3>3. QED
      BY <3>2 DEF Members, n
  <2>3. s[1] \in Members(s)
    BY <1>1 DEF Members, n
  <2>4. QED
    BY <2>1, <2>2, <2>3
<1>4. QED
  BY <1>3 DEF Names

\* A read leaves what the store says about the call as it was.
LEMMA ReadingSame ==
    ASSUME Reading
    PROVE  /\ cols' = cols /\ fks' = fks /\ blocked' = blocked /\ bound' = bound /\ joins' = joins
           /\ call' = call /\ quiet' = quiet
           /\ Named' = Named /\ Succeeds' = Succeeds /\ FirstNames' = FirstNames
           /\ TableNames' = TableNames /\ ColumnNames' = ColumnNames
           /\ EntityNames' = EntityNames /\ JoinedNames' = JoinedNames
<1>1. /\ cols' = cols /\ fks' = fks /\ blocked' = blocked /\ bound' = bound /\ joins' = joins
      /\ call' = call /\ quiet' = quiet
  BY DEF Reading, store, history
<1>2. Named' = Named
  BY <1>1 DEF Named, Matching
<1>3. Succeeds' = Succeeds
  BY <1>1, <1>2 DEF Succeeds
<1>4. FirstNames' = FirstNames
  BY <1>1 DEF FirstNames, Outgoing, OwnedBy, KeyNames
<1>5. TableNames' = TableNames
  BY <1>1 DEF TableNames, OwnedBy, KeyNames
<1>6. ColumnNames' = ColumnNames
  BY <1>1, <1>4 DEF ColumnNames, Incoming, KeyNames
<1>7. EntityNames' = EntityNames
  BY <1>1 DEF EntityNames
<1>8. JoinedNames' = JoinedNames
  BY <1>1, <1>2 DEF JoinedNames, JoinNames
<1>9. QED
  BY <1>1, <1>2, <1>3, <1>4, <1>5, <1>6, <1>7, <1>8

\* A read of a call nobody disturbs starts from a call nobody disturbed.
LEMMA ReadingExact ==
    ASSUME ServerInv, ExactInv, Reading, pc # "idle", Undisturbed'
    PROVE  Undisturbed /\ Parted /\ AtHome /\ OnTheWay
<1>1. call' = call /\ quiet' = quiet
  BY ReadingSame
<1>2. Undisturbed
  BY <1>1 DEF Undisturbed
<1>3. QED
  BY <1>2 DEF ExactInv, Exact

\* A step from one read to the next that shows nothing yet.
LEMMA StepExact ==
    ASSUME ServerInv, ExactInv, Reading, Undisturbed',
           pc \notin {"idle", "lookup", "incoming", "complete", "record", "reply"},
           pc' \notin {"search", "probe", "hint_entity", "hint"},
           pc' \notin {"lookup", "incoming", "complete", "record", "reply"},
           shown' = shown, masked' = masked, AtHome'
    PROVE  ExactInv'
<1>1. Parted /\ OnTheWay /\ blocked' = blocked
  BY ReadingExact, ReadingSame
<1>2. Parted'
  BY <1>1 DEF Parted
<1>3. OnTheWay'
  BY <1>1 DEF OnTheWay
<1>4. QED
  BY <1>2, <1>3 DEF ExactInv, Exact

\* An early end: an error when the store says so.
LEMMA ErrorExact ==
    ASSUME ServerInv, ExactInv, Reading, Undisturbed',
           pc \notin {"idle", "lookup", "incoming", "complete", "record", "reply"},
           pc' = "record", shown' = shown, masked' = masked,
           \/ status' = "internal"
           \/ /\ status' = "error" /\ ~Succeeds
              /\ call.tool = "describe_column" => call.column \notin cols[call.table]
    PROVE  ExactInv'
<1>1. Parted /\ OnTheWay /\ blocked' = blocked /\ call' = call /\ cols' = cols /\ Succeeds' = Succeeds
  BY ReadingExact, ReadingSame
<1>2. Parted'
  BY <1>1 DEF Parted
<1>3. AtHome' /\ OnTheWay'
  BY DEF AtHome, OnTheWay
<1>4. shown' = {} /\ masked' = {}
  BY <1>1 DEF OnTheWay
<1>5. Answered'
  BY <1>1, <1>4 DEF Answered
<1>6. QED
  BY <1>2, <1>3, <1>5 DEF ExactInv, Exact

\* Other tools, and calls whose arguments are no names.
LEMMA OthersExact ==
    ASSUME ServerInv, ExactInv,
           \/ MalformedName \/ FindRelevantTables \/ FindRelevantEntities \/ SearchEntities
           \/ Probe \/ GetMetric \/ ReadHintEntity \/ ReadHint \/ ListTool
    PROVE  ExactInv'
<1> SUFFICES ASSUME Undisturbed' PROVE FALSE
  BY DEF ExactInv
<1>1. Reading /\ pc # "idle"
  BY DEF MalformedName, FindRelevantTables, FindRelevantEntities, SearchEntities, Probe,
         GetMetric, ReadHintEntity, ReadHint, ListTool, Begin
<1>2. OnTheWay /\ Undisturbed
  BY <1>1, ReadingExact
<1>3. pc \notin {"search", "probe", "hint_entity", "hint"}
  BY <1>2 DEF OnTheWay
<1>4. /\ call.tool \in ExactTools /\ call.args # "malformed"
  BY <1>2 DEF Undisturbed
<1>5. QED
  BY <1>3, <1>4 DEF ExactTools, MalformedName, FindRelevantTables, FindRelevantEntities,
         SearchEntities, Probe, GetMetric, ReadHintEntity, ReadHint, ListTool, Begin

LEMMA DispatchExact ==
    ASSUME ServerInv, ExactInv, Dispatch
    PROVE  ExactInv'
<1> SUFFICES ASSUME Undisturbed' PROVE Exact'
  BY DEF ExactInv
<1>1. ~Over
  BY DEF Over, Undisturbed
<1>2. /\ call' = call /\ quiet' = quiet /\ shown' = shown /\ masked' = masked /\ got' = got
      /\ blocked' = blocked /\ cols' = cols /\ fks' = fks /\ bound' = bound /\ joins' = joins
  BY <1>1 DEF Dispatch, Finish, reply, history, store
<1>3. pc = "dispatch" /\ pc' = "begin"
  BY <1>1, <1>2 DEF Dispatch, Finish, Undisturbed
<1>4. Undisturbed
  BY <1>2, <1>3 DEF Undisturbed
<1>5. Parted /\ OnTheWay
  BY <1>4 DEF ExactInv, Exact
<1>6. Parted'
  BY <1>2, <1>5 DEF Parted
<1>7. OnTheWay' /\ AtHome'
  BY <1>2, <1>3, <1>5 DEF OnTheWay, AtHome
<1>8. QED
  BY <1>3, <1>6, <1>7 DEF Exact

LEMMA DescribeTableExact ==
    ASSUME ServerInv, ExactInv, DescribeTable
    PROVE  ExactInv'
<1> SUFFICES ASSUME Undisturbed' PROVE ExactInv'
  BY DEF ExactInv
<1>1. /\ Reading /\ pc = "begin" /\ pc' = "present" /\ got' = [got EXCEPT !.at = call.table]
      /\ shown' = shown /\ masked' = masked /\ call.tool # "describe_entity"
  BY DEF DescribeTable, Begin, reply
<1>2. got'.at = call.table /\ call' = call
  BY <1>1, GotReads, ReadingSame DEF ServerInv, GotInv
<1>3. AtHome'
  BY <1>1, <1>2 DEF AtHome
<1>4. QED
  BY <1>1, <1>3, StepExact

LEMMA DescribeEntityExact ==
    ASSUME ServerInv, ExactInv, DescribeEntity
    PROVE  ExactInv'
<1> SUFFICES ASSUME Undisturbed' PROVE ExactInv'
  BY DEF ExactInv
<1>1. /\ Reading /\ pc = "begin" /\ shown' = shown /\ masked' = masked
      /\ call.tool = "describe_entity"
  BY DEF DescribeEntity, Begin
<1>2. CASE bound[call.entity] = Absent
  <2>1. pc' = "record" /\ status' = "error"
    BY <1>2 DEF DescribeEntity, Finish
  <2>2. ~Succeeds
    BY <1>1, <1>2 DEF Succeeds
  <2>3. QED
    BY <1>1, <2>1, <2>2, ErrorExact
<1>3. CASE bound[call.entity] # Absent
  <2>1. pc' = "present" /\ got' = [got EXCEPT !.at = bound[call.entity]]
    BY <1>3 DEF DescribeEntity
  <2>2. got'.at = bound[call.entity] /\ call' = call /\ bound' = bound
    BY <1>1, <2>1, GotReads, ReadingSame DEF ServerInv, GotInv
  <2>3. AtHome'
    BY <1>1, <1>3, <2>1, <2>2 DEF AtHome
  <2>4. QED
    BY <1>1, <2>1, <2>3, StepExact
<1>4. QED
  BY <1>2, <1>3

LEMMA ReadPresentExact ==
    ASSUME ServerInv, ExactInv, ReadPresent
    PROVE  ExactInv'
<1> SUFFICES ASSUME Undisturbed' PROVE ExactInv'
  BY DEF ExactInv
<1>1. /\ Reading /\ pc = "present" /\ shown' = shown /\ masked' = masked /\ got' = got
  BY DEF ReadPresent
<1>2. AtHome /\ call' = call /\ cols' = cols /\ bound' = bound
  BY <1>1, ReadingExact, ReadingSame
<1>3. call.tool \in DescribeTools
  BY <1>1 DEF ServerInv, CallInv
<1>4. CASE cols[got.at] = {}
  <2>1. CASE call.tool = "describe_entity"
    <3>1. pc' = "record" /\ status' = "internal"
      BY <1>4, <2>1 DEF ReadPresent, Finish
    <3>2. QED
      BY <1>1, <3>1, ErrorExact
  <2>2. CASE call.tool # "describe_entity"
    <3>1. pc' = "record" /\ status' = "error"
      BY <1>4, <2>2 DEF ReadPresent, Finish
    <3>2. cols[call.table] = {}
      BY <1>1, <1>2, <1>3, <1>4, <2>2 DEF AtHome
    <3>3. ~Succeeds
      BY <1>3, <2>2, <3>2 DEF Succeeds, DescribeTools
    <3>4. QED
      BY <1>1, <3>1, <3>2, <3>3, ErrorExact
  <2>3. QED
    BY <2>1, <2>2
<1>5. CASE cols[got.at] # {}
  <2>1. pc' = "columns"
    BY <1>5 DEF ReadPresent
  <2>2. AtHome'
    BY <1>1, <1>2, <1>5, <2>1 DEF AtHome
  <2>3. QED
    BY <1>1, <2>1, <2>2, StepExact
<1>6. QED
  BY <1>4, <1>5

LEMMA ReadColumnsExact ==
    ASSUME ServerInv, ExactInv, ReadColumns
    PROVE  ExactInv'
<1> SUFFICES ASSUME Undisturbed' PROVE ExactInv'
  BY DEF ExactInv
<1>1. /\ Reading /\ pc = "columns" /\ pc' = "keys" /\ got' = [got EXCEPT !.cols = cols[got.at]]
      /\ shown' = shown /\ masked' = masked
  BY DEF ReadColumns, reply
<1>2. AtHome /\ call' = call /\ cols' = cols /\ bound' = bound
  BY <1>1, ReadingExact, ReadingSame
<1>3. got'.at = got.at /\ got'.cols = cols[got.at]
  BY <1>1 DEF ServerInv, GotInv, GotSet
<1>4. AtHome'
  BY <1>1, <1>2, <1>3 DEF AtHome
<1>5. QED
  BY <1>1, <1>4, StepExact

\* A step to the last lookups: they and what is in the reply make the answer.
LEMMA PlanExact ==
    ASSUME ServerInv, ExactInv, Reading, Undisturbed', pc \notin {"idle", "dispatch", "begin", "record", "reply"},
           Succeeds, Parted', Covered', next' = "complete",
           pc' = IF todo' = <<>> THEN "complete" ELSE "lookup",
           call.tool \in DescribeTools => got'.at = got.at
    PROVE  ExactInv'
<1>1. Succeeds' /\ call' = call /\ bound' = bound
  BY ReadingSame
<1>2. AtHome
  BY ReadingExact
<1>3. OnTheWay'
  BY <1>1 DEF OnTheWay
<1>4. AtHome'
  BY <1>1, <1>2 DEF AtHome
<1>5. QED
  BY <1>3, <1>4 DEF ExactInv, Exact

LEMMA ReadKeysExact ==
    ASSUME ServerInv, ExactInv, ReadKeys
    PROVE  ExactInv'
<1> SUFFICES ASSUME Undisturbed' PROVE ExactInv'
  BY DEF ExactInv
<1> DEFINE own == {fk \in fks : fk.owner = got.at}
           list == <<[of |-> got.at, on |-> got.at, cols |-> got.cols]>>
<1>1. /\ Reading /\ pc = "keys" /\ shown' = shown /\ masked' = masked
      /\ got' = [got EXCEPT !.fks = own]
  BY DEF ReadKeys, reply
<1>2. AtHome /\ OnTheWay /\ Parted /\ Undisturbed
  BY <1>1, ReadingExact
<1>3. /\ call' = call /\ cols' = cols /\ bound' = bound /\ blocked' = blocked /\ fks' = fks
      /\ TableNames' = TableNames /\ EntityNames' = EntityNames
  BY <1>1, ReadingSame
<1>4. got'.at = got.at /\ got'.fks = own /\ got'.cols = got.cols
  BY <1>1 DEF ServerInv, GotInv, GotSet
<1>5. shown = {} /\ masked = {} /\ Parted'
  BY <1>1, <1>2, <1>3 DEF OnTheWay, Parted
<1>6. got.at \in Tables /\ got.cols = cols[got.at] /\ got.cols # {} /\ got.cols \subseteq Cols
  BY <1>1, <1>2 DEF AtHome, ServerInv, CallInv, GotInv, GotSet
<1>7. own = OwnedBy(got.at) /\ own \in KeySets
  BY KeySetFacts DEF OwnedBy, ServerInv, StoreInv
<1>8. list \in Seq(Straight) /\ list # <<>> /\ Names(list) = {got.at} \X cols[got.at]
  <2>1. [of |-> got.at, on |-> got.at, cols |-> got.cols] \in Straight
    BY <1>6 DEF Straight, LookupSet
  <2>2. Names(list) = {got.at} \X got.cols
    BY NamesOfOne
  <2>3. QED
    BY <1>6, <2>1, <2>2
<1> HIDE DEF own, list
<1>9. CASE call.tool = "describe_table"
  <2> DEFINE s == list \o LookupsOf(own)
  <2>1. LookupsOf(own) \in Seq(Straight) /\ Names(LookupsOf(own)) = KeyNames(own)
    BY <1>7, LookupsOfFacts DEF KeyNames
  <2>2. s \in Seq(Straight) /\ Names(s) = ({got.at} \X cols[got.at]) \cup KeyNames(own)
    BY <1>8, <2>1, NamesOfConcat
  <2>3. Plan(AsSpelled(s), "complete")
    BY <1>9 DEF ReadKeys, own, list
  <2> HIDE DEF s
  <2>4. AsSpelled(s) = s
    BY <1>2, <1>9, <2>2, AsSpelledFacts DEF Undisturbed
  <2>5. /\ todo' = s /\ next' = "complete"
        /\ pc' = IF todo' = <<>> THEN "complete" ELSE "lookup"
    BY <2>3, <2>4 DEF Plan
  <2>6. got.at = call.table
    BY <1>1, <1>2, <1>9 DEF AtHome, DescribeTools
  <2>7. Planned' = TableNames
    BY <1>1, <1>5, <1>7, <2>2, <2>5, <2>6 DEF Planned, TableNames
  <2>8. Covered'
    BY <1>3, <1>9, <2>7 DEF Covered
  <2>9. Succeeds
    BY <1>6, <1>9, <2>6 DEF Succeeds
  <2>10. QED
    BY <1>1, <1>4, <1>5, <2>5, <2>8, <2>9, PlanExact
<1>10. CASE call.tool = "describe_entity"
  <2>1. Plan(list, "complete")
    BY <1>10 DEF ReadKeys, list
  <2>2. /\ todo' = list /\ next' = "complete"
        /\ pc' = IF todo' = <<>> THEN "complete" ELSE "lookup"
    BY <2>1 DEF Plan
  <2>3. got.at = bound[call.entity] /\ bound[call.entity] # Absent
    BY <1>1, <1>2, <1>10 DEF AtHome, DescribeTools
  <2>4. Planned' = EntityNames
    BY <1>1, <1>5, <1>8, <2>2, <2>3 DEF Planned, EntityNames
  <2>5. Covered' /\ Succeeds
    BY <1>3, <1>10, <2>3, <2>4 DEF Covered, Succeeds
  <2>6. QED
    BY <1>1, <1>4, <1>5, <2>2, <2>5, PlanExact
<1>11. CASE call.tool = "describe_column"
  <2>1. pc' = "gate"
    BY <1>11 DEF ReadKeys
  <2>2. OwnedBy(got.at)' = OwnedBy(got.at)
    BY <1>3, <1>4 DEF OwnedBy
  <2>3. AtHome'
    BY <1>1, <1>2, <1>3, <1>4, <1>6, <1>7, <1>11, <2>1, <2>2 DEF AtHome
  <2>4. QED
    BY <1>1, <2>1, <2>3, StepExact
<1>12. QED
  BY <1>1, <1>9, <1>10, <1>11 DEF ServerInv, CallInv, DescribeTools

LEMMA GateExact ==
    ASSUME ServerInv, ExactInv, Gate
    PROVE  ExactInv'
<1> SUFFICES ASSUME Undisturbed' PROVE ExactInv'
  BY DEF ExactInv
<1> DEFINE safe == {c \in got.cols : <<got.at, c>> \notin blocked}
           outgoing == {fk \in got.fks : call.column \in ToSet(fk.ownerCols)}
<1>1. Reading /\ pc = "gate" /\ masked' = masked /\ got' = got /\ call.tool = "describe_column"
  BY DEF Gate, ServerInv, CallInv
<1>2. AtHome /\ OnTheWay /\ Parted /\ Undisturbed
  BY <1>1, ReadingExact
<1>3. /\ call' = call /\ cols' = cols /\ bound' = bound /\ blocked' = blocked
      /\ FirstNames' = FirstNames /\ Succeeds' = Succeeds
  BY <1>1, ReadingSame
<1>4. /\ got.at = call.table /\ got.at \in Tables /\ got.cols = cols[call.table]
      /\ got.cols \subseteq Cols /\ got.fks = OwnedBy(call.table)
  BY <1>1, <1>2 DEF AtHome, DescribeTools, ServerInv, CallInv, GotInv, GotSet
<1>5. shown = {} /\ masked = {}
  BY <1>1, <1>2 DEF OnTheWay
<1>6. outgoing = Outgoing
  BY <1>4 DEF Outgoing
<1>7. outgoing \in KeySets
  BY <1>4, KeySetFacts DEF OwnedBy, ServerInv, StoreInv
<1>8. CASE /\ call.column \notin got.cols /\ Finish("error")
           /\ \E names \in {{}} \cup {{c} : c \in safe} : shown' = {got.at} \X names
  <2>1. pc' = "record" /\ status' = "error"
    BY <1>8 DEF Finish
  <2>2. shown' = {} \/ \E c \in safe : shown' = {<<got.at, c>>}
    <3>1. PICK names \in {{}} \cup {{c} : c \in safe} : shown' = {got.at} \X names
      BY <1>8
    <3>2. CASE names = {}
      BY <3>1, <3>2
    <3>3. ASSUME NEW c \in safe, names = {c} PROVE shown' = {<<got.at, c>>}
      BY <3>1, <3>3
    <3>4. QED
      BY <3>1, <3>2, <3>3
  <2>3. Parted'
    BY <1>1, <1>3, <1>5, <2>2 DEF Parted
  <2>4. shown' = {} \/ \E name \in AllColumns : shown' = {name}
    BY <1>4, <2>2 DEF AllColumns
  <2>5. ~Succeeds /\ call.column \notin cols[call.table]
    BY <1>1, <1>4, <1>8 DEF Succeeds
  <2>6. Answered'
    BY <1>1, <1>3, <1>5, <2>1, <2>4, <2>5 DEF Answered, AllColumns
  <2>7. AtHome' /\ OnTheWay'
    BY <2>1 DEF AtHome, OnTheWay
  <2>8. QED
    BY <2>3, <2>6, <2>7 DEF ExactInv, Exact
<1>9. CASE call.column \in got.cols \ safe /\ Finish("refused") /\ shown' = shown
  <2>1. pc' = "record" /\ status' = "refused"
    BY <1>9 DEF Finish
  <2>2. Parted' /\ shown' = {} /\ masked' = {}
    BY <1>1, <1>2, <1>3, <1>5, <1>9 DEF Parted
  <2>3. ~Succeeds /\ call.column \in cols[call.table]
    BY <1>1, <1>4, <1>9 DEF Succeeds
  <2>4. Answered'
    BY <1>1, <1>3, <2>1, <2>2, <2>3 DEF Answered
  <2>5. AtHome' /\ OnTheWay'
    BY <2>1 DEF AtHome, OnTheWay
  <2>6. QED
    BY <2>2, <2>4, <2>5 DEF ExactInv, Exact
<1>10. CASE /\ call.column \in safe /\ Plan(LookupsOf(outgoing), "incoming")
            /\ shown' = {<<got.at, call.column>>}
  <2>1. Names(LookupsOf(outgoing)) = KeyNames(outgoing)
    BY <1>7, LookupsOfFacts DEF KeyNames
  <2>2. /\ todo' = LookupsOf(outgoing) /\ next' = "incoming"
        /\ pc' = IF todo' = <<>> THEN "incoming" ELSE "lookup"
    BY <1>10 DEF Plan
  <2>3. Planned' = FirstNames
    BY <1>1, <1>4, <1>5, <1>6, <1>10, <2>1, <2>2 DEF Planned, FirstNames
  <2>4. Succeeds
    BY <1>1, <1>4, <1>10 DEF Succeeds
  <2>5. Parted'
    BY <1>1, <1>2, <1>3, <1>10 DEF Parted
  <2>6. OnTheWay'
    BY <1>3, <2>2, <2>3, <2>4 DEF OnTheWay
  <2>7. AtHome'
    BY <1>1, <1>3, <1>4, <2>2 DEF AtHome
  <2>8. QED
    BY <2>2, <2>5, <2>6, <2>7 DEF ExactInv, Exact
<1>11. QED
  BY <1>8, <1>9, <1>10 DEF Gate

LEMMA ReadIncomingExact ==
    ASSUME ServerInv, ExactInv, ReadIncoming
    PROVE  ExactInv'
<1> SUFFICES ASSUME Undisturbed' PROVE ExactInv'
  BY DEF ExactInv
<1>1. /\ Reading /\ pc = "incoming" /\ shown' = shown /\ masked' = masked /\ got' = got
      /\ call.tool = "describe_column"
      /\ Plan(LookupsOf({fk \in fks : fk.ref = got.at /\ call.column \in ToSet(fk.refCols)}),
              "complete")
  BY DEF ReadIncoming, reply, ServerInv, CallInv
<1>2. AtHome /\ OnTheWay /\ Parted
  BY <1>1, ReadingExact
<1>3. call' = call /\ blocked' = blocked /\ ColumnNames' = ColumnNames
  BY <1>1, ReadingSame
<1>4. got.at = call.table
  BY <1>1, <1>2 DEF AtHome, DescribeTools
<1>5. /\ todo' = LookupsOf(Incoming) /\ next' = "complete"
      /\ pc' = IF todo' = <<>> THEN "complete" ELSE "lookup"
  BY <1>1, <1>4 DEF Plan, Incoming
<1>6. Incoming \in KeySets
  BY KeySetFacts DEF Incoming, ServerInv, StoreInv
<1>7. Names(LookupsOf(Incoming)) = KeyNames(Incoming)
  BY <1>6, LookupsOfFacts DEF KeyNames
<1>8. shown \cup masked = FirstNames /\ Succeeds
  <2>1. todo = <<>>
    BY <1>1 DEF ServerInv, TodoInv
  <2>2. Planned = FirstNames /\ Succeeds
    BY <1>1, <1>2 DEF OnTheWay
  <2>3. QED
    BY <2>1, <2>2, NamesOfNone DEF Planned
<1>9. Planned' = ColumnNames
  BY <1>1, <1>5, <1>7, <1>8 DEF Planned, ColumnNames
<1>10. Covered' /\ Parted'
  BY <1>1, <1>2, <1>3, <1>9 DEF Covered, Parted
<1>11. QED
  BY <1>1, <1>5, <1>8, <1>10, PlanExact

LEMMA LookupExact ==
    ASSUME ServerInv, ExactInv, Lookup
    PROVE  ExactInv'
<1> SUFFICES ASSUME Undisturbed' PROVE ExactInv'
  BY DEF ExactInv
<1> DEFINE l == todo[1]
           hidden == {c \in l.cols : <<l.on, c>> \in blocked}
<1>1. /\ Reading /\ pc = "lookup" /\ got' = got /\ next' = next
      /\ shown' = shown \cup ({l.of} \X (l.cols \ hidden))
      /\ masked' = masked \cup ({l.of} \X hidden)
      /\ todo' = Tail(todo) /\ pc' = IF Len(todo) = 1 THEN next ELSE "lookup"
  BY DEF Lookup
<1>2. AtHome /\ OnTheWay /\ Parted /\ Undisturbed
  BY <1>1, ReadingExact
<1>3. /\ call' = call /\ blocked' = blocked /\ bound' = bound /\ Succeeds' = Succeeds
      /\ FirstNames' = FirstNames /\ TableNames' = TableNames /\ ColumnNames' = ColumnNames
      /\ EntityNames' = EntityNames /\ JoinedNames' = JoinedNames
  BY <1>1, ReadingSame
<1>4. ~QuotedTable
  BY <1>2 DEF Undisturbed, QuotedTable
<1>5. todo \in Seq(Straight) /\ todo # <<>> /\ next \in {"incoming", "complete"}
  BY <1>1, <1>4 DEF ServerInv, TodoInv, CallInv
<1>6. l \in Straight
  BY <1>5
<1>7. l.on = l.of
  BY <1>6 DEF Straight
<1>8. hidden \subseteq l.cols
  OBVIOUS
<1>9. Parted'
  <2>1. {l.of} \X hidden \subseteq blocked /\ ({l.of} \X (l.cols \ hidden)) \cap blocked = {}
    BY <1>7
  <2> HIDE DEF hidden, l
  <2>2. QED
    BY <1>1, <1>2, <1>3, <2>1 DEF Parted
<1>10. Planned' = Planned
  <2>1. Names(todo) = ({l.of} \X l.cols) \cup Names(Tail(todo))
    BY <1>5, NamesOfTail
  <2>2. Planned' = shown' \cup masked' \cup Names(Tail(todo))
    BY <1>1 DEF Planned
  <2>3. ({l.of} \X (l.cols \ hidden)) \cup ({l.of} \X hidden) = {l.of} \X l.cols
    <3> HIDE DEF hidden, l
    <3>1. QED
      BY <1>8
  <2> HIDE DEF hidden, l
  <2>4. QED
    BY <1>1, <2>1, <2>2, <2>3 DEF Planned
<1>11. Covered' = Covered
  BY <1>3, <1>10 DEF Covered
<1>12. OnTheWay'
  BY <1>1, <1>2, <1>3, <1>5, <1>10, <1>11 DEF OnTheWay
<1>13. AtHome' /\ pc' \notin {"record", "reply"}
  BY <1>1, <1>2, <1>3, <1>5 DEF AtHome
<1>14. QED
  BY <1>9, <1>12, <1>13 DEF ExactInv, Exact

LEMMA CompleteExact ==
    ASSUME ServerInv, ExactInv, Complete
    PROVE  ExactInv'
<1> SUFFICES ASSUME Undisturbed' PROVE ExactInv'
  BY DEF ExactInv
<1>1. /\ Reading /\ pc = "complete" /\ pc' = "record" /\ status' = "success"
      /\ shown' = shown /\ masked' = masked /\ todo' = todo
  BY DEF Complete, Finish
<1>2. OnTheWay /\ Parted
  BY <1>1, ReadingExact
<1>3. /\ call' = call /\ blocked' = blocked /\ Succeeds' = Succeeds
      /\ TableNames' = TableNames /\ ColumnNames' = ColumnNames
      /\ EntityNames' = EntityNames /\ JoinedNames' = JoinedNames
  BY <1>1, ReadingSame
<1>4. Covered /\ Succeeds
  BY <1>1, <1>2 DEF OnTheWay
<1>5. Planned' = Planned
  BY <1>1 DEF Planned
<1>6. Answered'
  BY <1>1, <1>3, <1>4, <1>5 DEF Answered, Covered
<1>7. Parted'
  BY <1>1, <1>2, <1>3 DEF Parted
<1>8. AtHome' /\ OnTheWay'
  BY <1>1 DEF AtHome, OnTheWay
<1>9. QED
  BY <1>6, <1>7, <1>8 DEF ExactInv, Exact

LEMMA ReadEntityAExact ==
    ASSUME ServerInv, ExactInv, ReadEntityA
    PROVE  ExactInv'
<1> SUFFICES ASSUME Undisturbed' PROVE ExactInv'
  BY DEF ExactInv
<1>1. /\ Reading /\ pc = "begin" /\ shown' = shown /\ masked' = masked
      /\ call.tool = "resolve_join"
  BY DEF ReadEntityA, Begin
<1>2. CASE bound[call.a] = Absent
  <2>1. pc' = "record" /\ status' = "error"
    BY <1>2 DEF ReadEntityA, Finish
  <2>2. ~Succeeds
    <3>1. \A j \in Named : j \in joins /\ call.a \in {j.source, j.target}
      BY DEF Named, Matching
    <3>2. \A j \in joins : bound[j.source] # Absent /\ bound[j.target] # Absent
      BY DEF ServerInv, StoreInv
    <3>3. Named = {}
      BY <1>2, <3>1, <3>2
    <3>4. QED
      BY <1>1, <3>3 DEF Succeeds
  <2>3. QED
    BY <1>1, <2>1, <2>2, ErrorExact
<1>3. CASE bound[call.a] # Absent
  <2>1. pc' = "entity_b"
    BY <1>3 DEF ReadEntityA
  <2>2. AtHome'
    BY <1>1, <2>1, ReadingSame DEF AtHome, DescribeTools
  <2>3. QED
    BY <1>1, <2>1, <2>2, StepExact
<1>4. QED
  BY <1>2, <1>3

LEMMA ReadEntityBExact ==
    ASSUME ServerInv, ExactInv, ReadEntityB
    PROVE  ExactInv'
<1> SUFFICES ASSUME Undisturbed' PROVE ExactInv'
  BY DEF ExactInv
<1>1. /\ Reading /\ pc = "entity_b" /\ shown' = shown /\ masked' = masked
      /\ call.tool = "resolve_join"
  BY DEF ReadEntityB, ServerInv, CallInv
<1>2. CASE bound[call.b] = Absent
  <2>1. pc' = "record" /\ status' = "error"
    BY <1>2 DEF ReadEntityB, Finish
  <2>2. ~Succeeds
    <3>1. \A j \in Named : j \in joins /\ call.b \in {j.source, j.target}
      BY DEF Named, Matching
    <3>2. \A j \in joins : bound[j.source] # Absent /\ bound[j.target] # Absent
      BY DEF ServerInv, StoreInv
    <3>3. Named = {}
      BY <1>2, <3>1, <3>2
    <3>4. QED
      BY <1>1, <3>3 DEF Succeeds
  <2>3. QED
    BY <1>1, <2>1, <2>2, ErrorExact
<1>3. CASE bound[call.b] # Absent
  <2>1. pc' = "joins"
    BY <1>3 DEF ReadEntityB
  <2>2. AtHome'
    BY <1>1, <2>1, ReadingSame DEF AtHome, DescribeTools
  <2>3. QED
    BY <1>1, <2>1, <2>2, StepExact
<1>4. QED
  BY <1>2, <1>3

\* Without a name, or with one, a join is chosen exactly when it is the only one asked for.
LEMMA ChosenJoin ==
    ASSUME ServerInv
    PROVE  LET chosen == _select_join(Matching(call.a, call.b), call.name)
           IN  /\ \A j \in chosen : Named = {j}
               /\ chosen = {} => \A j \in Named : Named # {j}
<1> DEFINE chosen == _select_join(Matching(call.a, call.b), call.name)
<1>1. CASE call.name = Absent
  <2>1. Named = Matching(call.a, call.b)
    BY <1>1 DEF Named
  <2>2. chosen = {j \in Matching(call.a, call.b) : Matching(call.a, call.b) = {j}}
    BY <1>1 DEF _select_join
  <2>3. QED
    BY <2>1, <2>2
<1>2. CASE call.name # Absent
  <2>1. chosen = Named
    BY <1>2 DEF _select_join, Named
  <2>2. \A j, k \in Named : j = k
    <3>1. \A j \in Named : j \in joins /\ j.name = call.name
      BY <1>2 DEF Named, Matching
    <3>2. QED
      BY <3>1 DEF ServerInv, StoreInv, OneOfAName
  <2>3. QED
    BY <2>1, <2>2
<1>3. QED
  BY <1>1, <1>2

LEMMA ReadJoinsExact ==
    ASSUME ServerInv, ExactInv, ReadJoins
    PROVE  ExactInv'
<1> SUFFICES ASSUME Undisturbed' PROVE ExactInv'
  BY DEF ExactInv
<1> DEFINE chosen == _select_join(Matching(call.a, call.b), call.name)
<1>1. /\ Reading /\ pc = "joins" /\ shown' = shown /\ masked' = masked
      /\ call.tool = "resolve_join"
  BY DEF ReadJoins, ServerInv, CallInv
<1>2. /\ \A j \in chosen : Named = {j}
      /\ chosen = {} => \A j \in Named : Named # {j}
  BY ChosenJoin
<1> HIDE DEF chosen
<1>3. CASE chosen = {} /\ Finish("error")
  <2>1. pc' = "record" /\ status' = "error"
    BY <1>3 DEF Finish
  <2>2. ~Succeeds
    BY <1>1, <1>2, <1>3 DEF Succeeds
  <2>3. QED
    BY <1>1, <2>1, <2>2, ErrorExact
<1>4. ASSUME NEW j \in chosen, got' = [got EXCEPT !.join = j], pc' = "source" PROVE ExactInv'
  <2>1. Named' = Named /\ call' = call
    BY <1>1, ReadingSame
  <2>2. got'.join = j
    BY <1>4, GotReads DEF ServerInv, GotInv
  <2>3. AtHome'
    BY <1>1, <1>2, <1>4, <2>1, <2>2 DEF AtHome, DescribeTools
  <2>4. QED
    BY <1>1, <1>4, <2>3, StepExact
<1>5. QED
  BY <1>3, <1>4 DEF ReadJoins, chosen

LEMMA ReadSourceExact ==
    ASSUME ServerInv, ExactInv, ReadSource
    PROVE  ExactInv'
<1> SUFFICES ASSUME Undisturbed' PROVE ExactInv'
  BY DEF ExactInv
<1>1. /\ Reading /\ pc = "source" /\ shown' = shown /\ masked' = masked
      /\ call.tool = "resolve_join"
  BY DEF ReadSource, ServerInv, CallInv
<1>2. CASE bound[got.join.source] = Absent
  <2>1. pc' = "record" /\ status' = "internal"
    BY <1>2 DEF ReadSource, Finish
  <2>2. QED
    BY <1>1, <2>1, ErrorExact
<1>3. CASE bound[got.join.source] # Absent
  <2>1. pc' = "target" /\ got' = [got EXCEPT !.at = bound[got.join.source]]
    BY <1>3 DEF ReadSource
  <2>2. got'.at = bound[got.join.source] /\ got'.join = got.join
    BY <2>1 DEF ServerInv, GotInv, GotSet
  <2>3. AtHome /\ call' = call /\ bound' = bound /\ Named' = Named
    BY <1>1, ReadingExact, ReadingSame
  <2>4. AtHome'
    BY <1>1, <2>1, <2>2, <2>3 DEF AtHome, DescribeTools
  <2>5. QED
    BY <1>1, <2>1, <2>4, StepExact
<1>4. QED
  BY <1>2, <1>3

LEMMA ReadTargetExact ==
    ASSUME ServerInv, ExactInv, ReadTarget
    PROVE  ExactInv'
<1> SUFFICES ASSUME Undisturbed' PROVE ExactInv'
  BY DEF ExactInv
<1>1. /\ Reading /\ pc = "target" /\ shown' = shown /\ masked' = masked
      /\ call.tool = "resolve_join"
  BY DEF ReadTarget, ServerInv, CallInv
<1>2. CASE bound[got.join.target] = Absent
  <2>1. pc' = "record" /\ status' = "internal"
    BY <1>2 DEF ReadTarget, Finish
  <2>2. QED
    BY <1>1, <2>1, ErrorExact
<1>3. CASE bound[got.join.target] # Absent
  <2> DEFINE j == got.join
             to == bound[j.target]
             a == Look(got.at, j.sourceCols)
             b == Look(to, j.targetCols)
  <2>1. AtHome /\ OnTheWay /\ Parted
    BY <1>1, ReadingExact
  <2>2. /\ call' = call /\ bound' = bound /\ blocked' = blocked /\ JoinedNames' = JoinedNames
    BY <1>1, ReadingSame
  <2>3. Named = {j} /\ got.at = bound[j.source] /\ shown = {} /\ masked = {}
    BY <1>1, <2>1 DEF AtHome, OnTheWay
  <2>4. /\ todo' = <<a, b>> /\ next' = "complete"
        /\ pc' = IF todo' = <<>> THEN "complete" ELSE "lookup"
    BY <1>3 DEF ReadTarget, Plan
  <2>5. j \in Joins /\ got.at \in Tables
    BY <1>1 DEF ServerInv, CallInv
  <2>6. j.target \in Entities /\ j.sourceCols \in Seq(Cols) /\ j.targetCols \in Seq(Cols)
    BY <2>5, ServerAssumption
  <2>7. to \in Tables
    BY <1>3, <2>6 DEF ServerInv, StoreInv
  <2>8. /\ a \in Straight /\ a.of = got.at /\ a.cols = ToSet(j.sourceCols)
        /\ b \in Straight /\ b.of = to /\ b.cols = ToSet(j.targetCols)
    BY <2>5, <2>6, <2>7, LookFacts
  <2>9. JoinedNames = ({bound[j.source]} \X ToSet(j.sourceCols)) \cup ({to} \X ToSet(j.targetCols))
    BY <2>3 DEF JoinedNames, JoinNames
  <2>10. Names(<<a, b>>) = JoinedNames
    <3> HIDE DEF a, b
    <3>1. Names(<<a, b>>) = ({a.of} \X a.cols) \cup ({b.of} \X b.cols)
      BY NamesOfTwo
    <3>2. QED
      BY <2>3, <2>8, <2>9, <3>1
  <2> HIDE DEF a, b, to
  <2>11. Planned' = JoinedNames
    BY <1>1, <2>3, <2>4, <2>10 DEF Planned
  <2>12. Covered' /\ Parted'
    BY <1>1, <2>1, <2>2, <2>11 DEF Covered, Parted
  <2>13. Succeeds
    BY <1>1, <2>3 DEF Succeeds
  <2>14. QED
    BY <1>1, <2>4, <2>12, <2>13, PlanExact DEF DescribeTools
<1>4. QED
  BY <1>2, <1>3

LEMMA AskedTables ==
    ASSUME NEW tables \in Seq(Tables)
    PROVE  Cardinality(ToSet(tables)) \in Nat
<1> DEFINE n == Len(tables)
           f == [i \in 1..n |-> tables[i]]
<1>1. n \in Nat /\ DOMAIN tables = 1..n
  OBVIOUS
<1>2. IsFiniteSet(1..n)
  BY <1>1, FS_Interval
<1>3. f \in Surjection(1..n, ToSet(tables))
  BY <1>1 DEF Surjection, ToSet
<1>4. IsFiniteSet(ToSet(tables))
  BY <1>2, <1>3, FS_Surjection
<1>5. QED
  BY <1>4, FS_CardinalityType

LEMMA SuggestJoinsExact ==
    ASSUME ServerInv, ExactInv, SuggestJoins
    PROVE  ExactInv'
<1> SUFFICES ASSUME Undisturbed' PROVE ExactInv'
  BY DEF ExactInv
<1> DEFINE asked == ToSet(call.tables)
           Ok == Cardinality(asked) >= 2 /\ \A t \in asked : cols[t] # {}
<1>1. /\ Reading /\ pc = "begin" /\ shown' = shown /\ masked' = masked
      /\ call.tool = "suggest_joins"
  BY DEF SuggestJoins, Begin
<1>2. call.args # "quoted"
  BY <1>1, ReadingExact DEF Undisturbed
<1>3. Cardinality(asked) \in Nat
  <2>1. call \in Calls
    BY <1>1 DEF ServerInv, CallInv
  <2>2. call.tables \in Seq(Tables)
    BY <1>1, <2>1, ServerAssumption
  <2>3. QED
    BY <2>2, AskedTables
<1>4. Ok <=> Succeeds
  <2>1. Cardinality(asked) >= 2 <=> Cardinality(asked) > 1
    BY <1>3
  <2> HIDE DEF asked
  <2>2. QED
    BY <1>1, <2>1 DEF Succeeds, asked
<1>5. CASE Ok
  <2>1. pc' = "graph"
    BY <1>2, <1>5 DEF SuggestJoins
  <2>2. Succeeds' = Succeeds /\ call' = call
    BY <1>1, ReadingSame
  <2>3. AtHome'
    BY <1>1, <1>4, <1>5, <2>1, <2>2 DEF AtHome, DescribeTools
  <2>4. QED
    BY <1>1, <2>1, <2>3, StepExact
<1>6. CASE ~Ok
  <2>1. pc' = "record" /\ status' = "error"
    BY <1>6 DEF SuggestJoins, Finish
  <2> HIDE DEF Ok
  <2>2. QED
    BY <1>1, <1>4, <1>6, <2>1, ErrorExact
<1>7. QED
  BY <1>5, <1>6

LEMMA ReadGraphExact ==
    ASSUME ServerInv, ExactInv, ReadGraph
    PROVE  ExactInv'
<1> SUFFICES ASSUME Undisturbed' PROVE ExactInv'
  BY DEF ExactInv
<1>1. /\ Reading /\ pc = "graph" /\ shown' = shown /\ masked' = masked
      /\ call.tool = "suggest_joins"
  BY DEF ReadGraph, ServerInv, CallInv
<1>2. next' = "complete" /\ pc' = IF todo' = <<>> THEN "complete" ELSE "lookup"
  BY DEF ReadGraph, Plan
<1>3. AtHome /\ Parted /\ call' = call /\ blocked' = blocked
  BY <1>1, ReadingExact, ReadingSame
<1>4. Succeeds /\ Parted' /\ Covered'
  BY <1>1, <1>3 DEF AtHome, Parted, Covered
<1>5. QED
  BY <1>1, <1>2, <1>4, PlanExact DEF DescribeTools

LEMMA RecordExact ==
    ASSUME ServerInv, ExactInv, Record
    PROVE  ExactInv'
<1> SUFFICES ASSUME Undisturbed' PROVE Exact'
  BY DEF ExactInv
<1>1. /\ cols' = cols /\ fks' = fks /\ blocked' = blocked /\ bound' = bound /\ joins' = joins
      /\ call' = call /\ quiet' = quiet /\ todo' = todo /\ shown' = shown /\ masked' = masked
      /\ status' = status /\ pc = "record" /\ pc' = "reply"
  BY DEF Record, store, reply, history
<1>2. Undisturbed
  BY <1>1 DEF Undisturbed
<1>3. Parted /\ Answered
  BY <1>1, <1>2 DEF ExactInv, Exact
<1>4. Parted'
  BY <1>1, <1>3 DEF Parted
<1>5. AtHome' /\ OnTheWay'
  BY <1>1 DEF AtHome, OnTheWay
<1>6. Named' = Named /\ FirstNames' = FirstNames
  BY <1>1 DEF Named, Matching, FirstNames, Outgoing, OwnedBy, KeyNames
<1>7. Succeeds' = Succeeds
  BY <1>1, <1>6 DEF Succeeds
<1>8. /\ TableNames' = TableNames /\ ColumnNames' = ColumnNames
      /\ EntityNames' = EntityNames /\ JoinedNames' = JoinedNames
  BY <1>1, <1>6 DEF TableNames, OwnedBy, KeyNames, ColumnNames, Incoming, EntityNames,
     JoinedNames, JoinNames
<1>9. Planned' = Planned
  BY <1>1 DEF Planned
<1>10. Covered' = Covered
  BY <1>1, <1>8, <1>9 DEF Covered
<1>11. Answered'
  BY <1>1, <1>3, <1>7, <1>10 DEF Answered, AllColumns
<1>12. QED
  BY <1>4, <1>5, <1>11 DEF Exact

LEMMA ArriveExact ==
    ASSUME ServerInv, NEW c \in Calls, Arrive(c)
    PROVE  ExactInv'
<1>1. /\ pc = "idle" /\ pc' = "dispatch" /\ shown' = shown /\ masked' = masked
  BY DEF Arrive, reply
<1>2. shown' = {} /\ masked' = {}
  BY <1>1 DEF ServerInv, ReplyInv
<1>3. Parted' /\ AtHome' /\ OnTheWay'
  BY <1>1, <1>2 DEF Parted, AtHome, OnTheWay
<1>4. QED
  BY <1>1, <1>3 DEF ExactInv, Exact

LEMMA StoreRaisesExact ==
    ASSUME ServerInv, StoreRaises
    PROVE  ExactInv'
<1> SUFFICES ASSUME Undisturbed' PROVE Exact'
  BY DEF ExactInv
<1>1. ~Over
  BY DEF Over, Undisturbed
<1>2. /\ status' = "internal" /\ pc' = "record" /\ shown' = {} /\ masked' = {}
  BY <1>1 DEF StoreRaises
<1>3. Parted' /\ AtHome' /\ OnTheWay' /\ Answered'
  BY <1>2 DEF Parted, AtHome, OnTheWay, Answered
<1>4. QED
  BY <1>3 DEF Exact

\* A write of another process ends the quiet of a call.
LEMMA OtherProcessesExact ==
    ASSUME OtherProcesses
    PROVE  ExactInv'
<1>1. Change
  BY DEF OtherProcesses, IndexWritesTable, IndexDeletesTable, Tagged, EntityApplied, JoinApplied
<1>2. ~Undisturbed'
  BY <1>1 DEF Change, Undisturbed
<1>3. QED
  BY <1>2 DEF ExactInv

LEMMA StutterExact ==
    ASSUME ExactInv, UNCHANGED vars
    PROVE  ExactInv'
<1> SUFFICES ASSUME Undisturbed' PROVE Exact'
  BY DEF ExactInv
<1>1. /\ cols' = cols /\ fks' = fks /\ blocked' = blocked /\ bound' = bound /\ joins' = joins
      /\ pc' = pc /\ call' = call /\ got' = got /\ todo' = todo /\ next' = next
      /\ shown' = shown /\ masked' = masked /\ status' = status /\ quiet' = quiet
  BY DEF vars, store, reply, history
<1>2. Undisturbed
  BY <1>1 DEF Undisturbed
<1>3. Parted /\ AtHome /\ OnTheWay /\ (pc \in {"record", "reply"} => Answered)
  BY <1>2 DEF ExactInv, Exact
<1>4. Named' = Named /\ FirstNames' = FirstNames
  BY <1>1 DEF Named, Matching, FirstNames, Outgoing, OwnedBy, KeyNames
<1>5. Succeeds' = Succeeds
  BY <1>1, <1>4 DEF Succeeds
<1>6. /\ TableNames' = TableNames /\ ColumnNames' = ColumnNames
      /\ EntityNames' = EntityNames /\ JoinedNames' = JoinedNames
  BY <1>1, <1>4 DEF TableNames, OwnedBy, KeyNames, ColumnNames, Incoming, EntityNames,
     JoinedNames, JoinNames
<1>7. Planned' = Planned
  BY <1>1 DEF Planned
<1>8. Covered' = Covered
  BY <1>1, <1>6, <1>7 DEF Covered
<1>9. Parted'
  BY <1>1, <1>3 DEF Parted
<1>10. AtHome'
  BY <1>1, <1>3, <1>4, <1>5 DEF AtHome, OwnedBy
<1>11. OnTheWay'
  BY <1>1, <1>3, <1>4, <1>5, <1>7, <1>8 DEF OnTheWay
<1>12. pc' \in {"record", "reply"} => Answered'
  BY <1>1, <1>3, <1>5, <1>8 DEF Answered, AllColumns
<1>13. QED
  BY <1>9, <1>10, <1>11, <1>12 DEF Exact

LEMMA NextExactInv == ServerInv /\ ExactInv /\ [Next]_vars => ExactInv'
<1> SUFFICES ASSUME ServerInv, ExactInv, [Next]_vars PROVE ExactInv'
  OBVIOUS
<1>1. CASE ToolStep
  <2>1. CASE Reply
    BY <2>1 DEF Reply, Over, ExactInv, Undisturbed
  <2>2. QED
    BY <1>1, <2>1, OthersExact, DispatchExact, LookupExact, CompleteExact, DescribeTableExact,
       DescribeEntityExact, ReadPresentExact, ReadColumnsExact, ReadKeysExact, GateExact,
       ReadIncomingExact, ReadEntityAExact, ReadEntityBExact, ReadJoinsExact, ReadSourceExact,
       ReadTargetExact, SuggestJoinsExact, ReadGraphExact, RecordExact DEF ToolStep
<1>2. QED
  BY <1>1, ArriveExact, StoreRaisesExact, OtherProcessesExact, StutterExact DEF Next

\* The names of a complete answer are those the store says the call involves.
LEMMA ExactAnswers ==
    ASSUME ServerInv, ExactInv, pc = "reply"
    PROVE  QuietReplyIsExact
<1> SUFFICES ASSUME quiet, status # "internal", call.args \in {"ok", "quoted"},
                    call.args = "ok" \/ call.tool = "describe_column",
                    call.tool \in ExactTools
             PROVE  /\ status = Expected(call).status
                    /\ IF status = "success"
                         THEN /\ shown = Expected(call).names \ blocked
                              /\ masked = Expected(call).names \cap blocked
                         ELSE masked = {} /\ Cardinality(shown) <= 1
  BY DEF QuietReplyIsExact, ExactTools
<1> DEFINE e == Expected(call)
<1>1. Parted /\ Answered
  BY DEF Undisturbed, ExactInv, Exact
<1>2. Planned = shown \cup masked
  <2>1. todo = <<>>
    BY DEF ServerInv, TodoInv
  <2>2. QED
    BY <2>1, NamesOfNone DEF Planned
<1>3. \A name : Cardinality({name}) = 1
  BY FS_Singleton
<1>4. Cardinality({}) = 0
  BY FS_EmptySet
<1>5. e.status = IF Succeeds THEN "success"
                 ELSE IF call.tool = "describe_column" /\ call.column \in cols[call.table]
                   THEN "refused" ELSE "error"
  <2>1. CASE call.tool = "describe_table"
    BY <2>1 DEF Expected, Succeeds
  <2>2. CASE call.tool = "describe_column"
    BY <2>2 DEF Expected, Succeeds
  <2>3. CASE call.tool = "describe_entity"
    BY <2>3 DEF Expected, Succeeds
  <2>4. CASE call.tool = "resolve_join"
    <3>1. IsFiniteSet(Named)
      <4>1. Named \subseteq joins /\ IsFiniteSet(joins)
        BY DEF Named, Matching, ServerInv, StoreInv
      <4>2. QED
        BY <4>1, FS_Subset
    <3>2. Cardinality(Named) = 1 <=> \E j \in Named : Named = {j}
      <4>1. Cardinality(Named) = 1 => \E j : Named = {j}
        BY <3>1, FS_Singleton
      <4>2. QED
        BY <4>1, <1>3
    <3>3. e.status = IF Cardinality(Named) = 1 THEN "success" ELSE "error"
      BY <2>4 DEF Expected, Named
    <3>4. QED
      BY <2>4, <3>2, <3>3 DEF Succeeds
  <2>5. CASE call.tool = "suggest_joins"
    BY <2>5 DEF Expected, Succeeds
  <2>6. QED
    BY <2>1, <2>2, <2>3, <2>4, <2>5 DEF ExactTools
<1>6. ASSUME Succeeds, Covered PROVE e.names = shown \cup masked
  <2>1. CASE call.tool = "describe_table"
    <3>1. e.names = TableNames
      BY <2>1 DEF Expected, TableNames, KeyNames, OwnedBy
    <3>2. QED
      BY <1>2, <1>6, <2>1, <3>1 DEF Covered
  <2>2. CASE call.tool = "describe_column"
    <3>1. e.names = ColumnNames
      BY <2>2 DEF Expected, ColumnNames, FirstNames, KeyNames, OwnedBy, Outgoing, Incoming
    <3>2. QED
      BY <1>2, <1>6, <2>2, <3>1 DEF Covered
  <2>3. CASE call.tool = "describe_entity"
    <3>1. e.names = EntityNames
      BY <1>6, <2>3 DEF Expected, EntityNames, Succeeds
    <3>2. QED
      BY <1>2, <1>6, <2>3, <3>1 DEF Covered
  <2>4. CASE call.tool = "resolve_join"
    <3>1. e.names = JoinedNames
      BY <2>4 DEF Expected, JoinedNames, JoinNames, Named
    <3>2. QED
      BY <1>2, <1>6, <2>4, <3>1 DEF Covered
  <2>5. CASE call.tool = "suggest_joins"
    BY <2>5 DEF Expected
  <2>6. QED
    BY <2>1, <2>2, <2>3, <2>4, <2>5 DEF ExactTools
<1> HIDE DEF e
<1>7. CASE status = "success" /\ Succeeds /\ Covered
  <2>1. e.status = "success" /\ e.names = shown \cup masked
    BY <1>5, <1>6, <1>7
  <2>2. shown = e.names \ blocked /\ masked = e.names \cap blocked
    BY <1>1, <2>1 DEF Parted
  <2>3. QED
    BY <1>7, <2>1, <2>2 DEF e
<1>8. CASE /\ status \in {"error", "refused"} /\ ~Succeeds
           /\ status = "refused" <=> call.tool = "describe_column" /\ call.column \in cols[call.table]
           /\ masked = {} /\ (shown = {} \/ \E name \in AllColumns : shown = {name})
  <2>1. status = e.status
    BY <1>5, <1>8
  <2>2. Cardinality(shown) <= 1
    <3>1. Cardinality(shown) = 0 \/ Cardinality(shown) = 1
      BY <1>3, <1>4, <1>8
    <3>2. QED
      BY <3>1
  <2>3. QED
    BY <1>8, <2>1, <2>2 DEF e
<1>9. QED
  BY <1>1, <1>7, <1>8 DEF Answered

\* A call during which nobody wrote to the store and no read raised is answered as from
\* one snapshot: the status and every name the store says it involves, the blocked ones
\* masked and the others shown; an error offers one name at most.
THEOREM ServerExact == Spec => []QuietReplyIsExact
<1>1. Init => ExactInv
  BY DEF Init, ExactInv, Undisturbed
<1>2. ServerInv /\ ExactInv => QuietReplyIsExact
  <2>1. pc # "reply" => QuietReplyIsExact
    BY DEF QuietReplyIsExact
  <2>2. QED
    BY <2>1, ExactAnswers
<1>3. QED
  BY <1>1, <1>2, NextExactInv, ServerInvariant, PTL DEF Spec
=============================================================================
