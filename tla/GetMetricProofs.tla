-------------------------- MODULE GetMetricProofs --------------------------
(***************************************************************************)
(* Proofs about JoinResolver and GetMetric, for any graph of canonical     *)
(* joins, any hop limit, any request, tags and policy.                     *)
(***************************************************************************)
EXTENDS GetMetric, FiniteSetTheorems, WellFoundedInduction, TLAPS

LEMMA LeastNatural ==
    ASSUME NEW S, S \subseteq Nat, S # {}
    PROVE  \E n \in S : \A m \in S : n <= m
<1> DEFINE R == {pair \in Nat \X Nat : pair[1] < pair[2]}
<1>1. IsWellFoundedOn(R, Nat)
  BY NatLessThanWellFounded DEF OpToRel
<1>2. \A x, y \in Nat : <<x, y>> \in R <=> x < y
  OBVIOUS
<1> HIDE DEF R
<1>3. PICK x \in S : \A y \in S : <<y, x>> \notin R
  BY <1>1, WFMin
<1>4. \A y \in S : y \in Nat /\ x \in Nat /\ ~(y < x)
  BY <1>2, <1>3
<1>5. QED
  BY <1>4

\* What holds of 0 and of n + 1 when it holds of n holds up to N.
LEMMA UpTo ==
    ASSUME NEW N \in Nat, NEW S, 0 \in S,
           \A n \in 0 .. N - 1 : n \in S => n + 1 \in S
    PROVE  \A n \in 0 .. N : n \in S
<1> DEFINE Bad == {n \in 0 .. N : n \notin S}
<1>1. SUFFICES ASSUME Bad # {} PROVE FALSE
  OBVIOUS
<1>2. PICK n \in Bad : \A m \in Bad : n <= m
  <2>1. Bad \subseteq Nat
    OBVIOUS
  <2> HIDE DEF Bad
  <2>2. QED
    BY <1>1, <2>1, LeastNatural
<1>3. n # 0 /\ n \in 0 .. N
  BY <1>2
<1>4. n - 1 \in 0 .. N - 1 /\ n - 1 \notin Bad
  BY <1>2, <1>3
<1>5. n - 1 \in S
  BY <1>4
<1>6. QED
  BY <1>2, <1>3, <1>4, <1>5

\* A sequence, of whatever it holds.
Elements(s) == {s[i] : i \in 1 .. Len(s)}
IsSeq(s) == s \in Seq(Elements(s))

LEMMA IsSeqFacts ==
    ASSUME NEW s, IsSeq(s)
    PROVE  Len(s) \in Nat /\ DOMAIN s = 1 .. Len(s)
<1> DEFINE E == Elements(s)
<1>1. s \in Seq(E)
  BY DEF IsSeq
<1> HIDE DEF E
<1>2. QED
  BY <1>1

LEMMA IsSeqAppend ==
    ASSUME NEW s, IsSeq(s), NEW x
    PROVE  LET t == Append(s, x)
           IN  /\ IsSeq(t) /\ Len(t) = Len(s) + 1 /\ t[Len(s) + 1] = x
               /\ \A i \in 1 .. Len(s) : t[i] = s[i]
<1> DEFINE t == Append(s, x)
           E == Elements(s) \cup {x}
           F == Elements(t)
<1>1. s \in Seq(E)
  <2>1. Len(s) \in Nat /\ \A i \in 1 .. Len(s) : s[i] \in E
    BY IsSeqFacts DEF Elements
  <2>2. s \in Seq(Elements(s))
    BY DEF IsSeq
  <2>3. QED
    BY <2>2
<1>2. x \in E
  OBVIOUS
<1> HIDE DEF E
<1>3. /\ t \in Seq(E) /\ Len(t) = Len(s) + 1 /\ t[Len(s) + 1] = x /\ Len(s) \in Nat
      /\ \A i \in 1 .. Len(s) : t[i] = s[i]
  BY <1>1, <1>2
<1> HIDE DEF t
<1>4. \A i \in 1 .. Len(t) : t[i] \in F
  BY DEF Elements
<1> HIDE DEF F
<1>5. t \in Seq(F)
  BY <1>3, <1>4
<1>6. QED
  BY <1>3, <1>5 DEF IsSeq, F, t

-----------------------------------------------------------------------------
(* The breadth-first search. *)

FirstLayer(anchor) == [frontier |-> {<<anchor>>}, visited |-> {anchor}]

AreLayers(f, n, js, anchor) ==
    f = [h \in 0 .. n |-> IF h = 0 THEN FirstLayer(anchor) ELSE NextLayer(js, f[h - 1])]

\* The recursion of the search has a solution: one layer after another.
LEMMA LayersExist ==
    ASSUME NEW js, NEW anchor, NEW N \in Nat
    PROVE  \E f : AreLayers(f, N, js, anchor)
<1> USE DEF AreLayers
<1> DEFINE Solves(f, n) == AreLayers(f, n, js, anchor)
           S == {n \in Nat : \E f : Solves(f, n)}
<1>1. 0 \in S
  <2>1. Solves([h \in 0 .. 0 |-> FirstLayer(anchor)], 0)
    OBVIOUS
  <2>2. QED
    BY <2>1
<1>2. ASSUME NEW n \in 0 .. N - 1, n \in S PROVE n + 1 \in S
  <2>1. PICK f : Solves(f, n)
    BY <1>2
  <2> DEFINE g == [h \in 0 .. n + 1 |-> IF h = n + 1 THEN NextLayer(js, f[n]) ELSE f[h]]
  <2>2. ASSUME NEW h \in 0 .. n + 1
        PROVE  g[h] = IF h = 0 THEN FirstLayer(anchor) ELSE NextLayer(js, g[h - 1])
    <3>1. CASE h = n + 1
      <4>1. h - 1 = n /\ g[h - 1] = f[n] /\ g[h] = NextLayer(js, f[n])
        BY <3>1
      <4>2. QED
        BY <3>1, <4>1
    <3>2. CASE h # n + 1
      <4>1. h \in 0 .. n /\ g[h] = f[h] /\ (h # 0 => h - 1 \in 0 .. n /\ g[h - 1] = f[h - 1])
        BY <3>2
      <4>2. f[h] = IF h = 0 THEN FirstLayer(anchor) ELSE NextLayer(js, f[h - 1])
        BY <2>1, <4>1
      <4> HIDE DEF g
      <4>3. QED
        BY <4>1, <4>2
    <3>3. QED
      BY <3>1, <3>2
  <2>3. g = [h \in 0 .. n + 1 |-> g[h]]
    OBVIOUS
  <2> HIDE DEF g
  <2>4. Solves(g, n + 1)
    BY <2>2, <2>3
  <2>5. QED
    BY <2>4
<1> HIDE DEF S
<1>3. N \in S
  BY <1>1, <1>2, UpTo
<1>4. QED
  BY <1>3 DEF S

LEMMA LayersDef ==
    ASSUME NEW js, NEW anchor
    PROVE  Layers(js, anchor) = [h \in 0 .. MaxHops |->
              IF h = 0 THEN FirstLayer(anchor) ELSE NextLayer(js, Layers(js, anchor)[h - 1])]
<1>1. \E f : AreLayers(f, MaxHops, js, anchor)
  BY LayersExist, MaxHopsAssumption
<1>2. Layers(js, anchor) = CHOOSE f : AreLayers(f, MaxHops, js, anchor)
  BY DEF Layers, FirstLayer, AreLayers
<1>3. AreLayers(Layers(js, anchor), MaxHops, js, anchor)
  BY <1>1, <1>2
<1>4. QED
  BY <1>3 DEF AreLayers

\* A path starts at the anchor and does not come back to it.
LeavesFrom(p, anchor) ==
    /\ IsSeq(p) /\ Len(p) # 0
    /\ p[1] = anchor
    /\ \A i \in 2 .. Len(p) : p[i] # anchor

LEMMA LayersLeave ==
    ASSUME NEW js, NEW anchor, NEW h \in 0 .. MaxHops
    PROVE  /\ anchor \in Layers(js, anchor)[h].visited
           /\ \A p \in Layers(js, anchor)[h].frontier : LeavesFrom(p, anchor) /\ Len(p) = h + 1
<1> DEFINE L == Layers(js, anchor)
           Good(n) == /\ anchor \in L[n].visited
                      /\ \A p \in L[n].frontier : LeavesFrom(p, anchor) /\ Len(p) = n + 1
           S == {n \in Nat : Good(n)}
<1>m. MaxHops \in Nat
  BY MaxHopsAssumption
<1>1. Good(0)
  <2>1. L[0] = FirstLayer(anchor)
    BY <1>m, LayersDef
  <2>2. LeavesFrom(<<anchor>>, anchor) /\ Len(<<anchor>>) = 1
    BY DEF LeavesFrom, IsSeq, Elements
  <2> HIDE DEF L
  <2>3. QED
    BY <2>1, <2>2 DEF FirstLayer
<1>2. ASSUME NEW n \in 0 .. MaxHops - 1, Good(n) PROVE Good(n + 1)
  <2>1. L[n + 1] = NextLayer(js, L[n])
    <3>1. n + 1 \in 0 .. MaxHops /\ n + 1 # 0 /\ (n + 1) - 1 = n
      BY <1>m
    <3>2. L = [k \in 0 .. MaxHops |-> IF k = 0 THEN FirstLayer(anchor) ELSE NextLayer(js, L[k - 1])]
      BY LayersDef
    <3> HIDE DEF L
    <3>3. L[n + 1] = NextLayer(js, L[(n + 1) - 1])
      BY <3>1, <3>2
    <3>4. QED
      BY <3>1, <3>3
  <2> HIDE DEF L
  <2>2. anchor \in L[n + 1].visited
    BY <1>2, <2>1 DEF NextLayer
  <2>3. ASSUME NEW q \in L[n + 1].frontier PROVE LeavesFrom(q, anchor) /\ Len(q) = n + 2
    <3>1. PICK p \in L[n].frontier : \E x \in Neighbors(js, Last(p)) \ L[n].visited : q = Append(p, x)
      BY <2>1 DEF NextLayer
    <3>2. PICK x : x # anchor /\ q = Append(p, x)
      BY <1>2, <3>1
    <3>3. LeavesFrom(p, anchor) /\ Len(p) = n + 1
      BY <1>2
    <3>4. /\ IsSeq(q) /\ Len(q) = Len(p) + 1 /\ q[Len(p) + 1] = x
          /\ \A i \in 1 .. Len(p) : q[i] = p[i]
      BY <3>2, <3>3, IsSeqAppend DEF LeavesFrom
    <3>5. Len(p) \in Nat
      BY <3>3, IsSeqFacts DEF LeavesFrom
    <3>6. QED
      BY <3>2, <3>3, <3>4, <3>5 DEF LeavesFrom
  <2>4. QED
    BY <2>2, <2>3
<1> HIDE DEF Good
<1>3. \A n \in 0 .. MaxHops : n \in S
  <2>1. 0 \in S /\ \A n \in 0 .. MaxHops - 1 : n \in S => n + 1 \in S
    BY <1>1, <1>2, <1>m
  <2> HIDE DEF S
  <2>2. QED
    BY <1>m, <2>1, UpTo
<1>4. QED
  BY <1>3 DEF Good

Found(js, anchor, target, h) == {p \in Layers(js, anchor)[h].frontier : Last(p) = target}

\* What the search returns is what its first layer with the target holds.
LEMMA FirstHit ==
    ASSUME NEW js, NEW anchor, NEW target,
           _structural_shortest_paths(js, anchor, target) # {}
    PROVE  \E h \in 1 .. MaxHops :
              /\ _structural_shortest_paths(js, anchor, target) = Found(js, anchor, target, h)
              /\ \A k \in 1 .. h - 1 : Found(js, anchor, target, k) = {}
<1> DEFINE hits == {h \in 1 .. MaxHops : Found(js, anchor, target, h) # {}}
           first == CHOOSE h \in hits : \A k \in hits : h <= k
<1>1. /\ hits # {}
      /\ _structural_shortest_paths(js, anchor, target) = Found(js, anchor, target, first)
  BY DEF _structural_shortest_paths, Found
<1>2. hits \subseteq Nat
  OBVIOUS
<1>3. first \in hits /\ \A k \in hits : first <= k
  <2> HIDE DEF hits
  <2>1. \E h \in hits : \A k \in hits : h <= k
    BY <1>1, <1>2, LeastNatural
  <2>2. QED
    BY <2>1
<1> HIDE DEF first
<1>4. QED
  BY <1>1, <1>3, MaxHopsAssumption

\* A chain that was found follows a path that leaves the anchor.
Walks(chain, p) ==
    /\ Len(chain) = Len(p) - 1
    /\ \A i \in 1 .. Len(p) - 1 : chain[i].source = p[i] /\ chain[i].target = p[i + 1]

LEMMA ChainWalks ==
    ASSUME NEW js, NEW anchor, NEW target, NEW via,
           _find_canonical_chain(js, anchor, target, via).error = "none"
    PROVE  \E p \in _structural_shortest_paths(js, anchor, target) :
              /\ LeavesFrom(p, anchor) /\ Last(p) = target
              /\ Walks(_find_canonical_chain(js, anchor, target, via).chain, p)
<1> DEFINE structural == _structural_shortest_paths(js, anchor, target)
           feasible == _filter_structural_paths_by_via(js, structural, via)
           path == CHOOSE p \in feasible : TRUE
           choice(i) == HopChoice(js, path[i], path[i + 1], via)
           step(i) == LET j == CHOOSE j \in choice(i) : TRUE
                      IN  [name |-> j.name, source |-> path[i], target |-> path[i + 1],
                           card |-> IF j.source = path[i] THEN j.card ELSE flip_cardinality(j.card)]
           found == [error |-> "none", chain |-> [i \in 1 .. Len(path) - 1 |-> step(i)]]
           result == _find_canonical_chain(js, anchor, target, via)
<1>1. structural # {} /\ feasible # {} /\ result = found
  BY DEF _find_canonical_chain
<1>2. path \in structural
  BY <1>1 DEF _filter_structural_paths_by_via
<1>3. \E h \in 1 .. MaxHops : path \in {p \in Layers(js, anchor)[h].frontier : Last(p) = target}
  <2> HIDE DEF path
  <2>1. PICK h \in 1 .. MaxHops : structural = Found(js, anchor, target, h)
    BY <1>1, FirstHit
  <2> HIDE DEF structural
  <2>2. QED
    BY <1>2, <2>1 DEF Found
<1>4. LeavesFrom(path, anchor) /\ Last(path) = target
  BY <1>3, LayersLeave, MaxHopsAssumption
<1>5. \A i \in 1 .. Len(path) - 1 : step(i).source = path[i] /\ step(i).target = path[i + 1]
  OBVIOUS
<1>6. Walks(result.chain, path)
  <2>1. result.chain = [i \in 1 .. Len(path) - 1 |-> step(i)]
    BY <1>1
  <2>2. Len(path) - 1 \in Nat
    BY <1>4, IsSeqFacts DEF LeavesFrom
  <2> HIDE DEF step, path, result
  <2>3. QED
    BY <1>5, <2>1, <2>2 DEF Walks
<1>7. QED
  BY <1>2, <1>4, <1>6

-----------------------------------------------------------------------------
(* What the search computes. *)

\* A walk of the graph that starts at the anchor.
IsWalk(js, anchor, w) ==
    /\ IsSeq(w) /\ Len(w) # 0
    /\ w[1] = anchor
    /\ \A i \in 1 .. Len(w) - 1 : w[i + 1] \in Neighbors(js, w[i])

Simple(w) == \A i, j \in 1 .. Len(w) : w[i] = w[j] => i = j

LEMMA IsSeqPrefix ==
    ASSUME NEW s, IsSeq(s), NEW n \in 0 .. Len(s)
    PROVE  LET t == SubSeq(s, 1, n)
           IN  /\ IsSeq(t) /\ Len(t) = n
               /\ \A i \in 1 .. n : t[i] = s[i]
<1> DEFINE t == SubSeq(s, 1, n)
           E == Elements(s)
           F == Elements(t)
<1>1. s \in Seq(E) /\ Len(s) \in Nat
  BY IsSeqFacts DEF IsSeq
<1> HIDE DEF E
<1>2. t \in Seq(E) /\ Len(t) = n /\ n \in Nat /\ \A i \in 1 .. n : t[i] = s[i]
  BY <1>1
<1> HIDE DEF t
<1>3. \A i \in 1 .. Len(t) : t[i] \in F
  BY DEF Elements
<1> HIDE DEF F
<1>4. t \in Seq(F)
  BY <1>2, <1>3
<1>5. QED
  BY <1>2, <1>4 DEF IsSeq, F, t

LEMMA SameSeq ==
    ASSUME NEW s, IsSeq(s), NEW t, IsSeq(t), Len(s) = Len(t), \A i \in 1 .. Len(s) : s[i] = t[i]
    PROVE  s = t
<1> DEFINE E == Elements(s)
           F == Elements(t)
<1>1. s \in Seq(E) /\ t \in Seq(F)
  BY DEF IsSeq
<1> HIDE DEF E, F
<1>2. QED
  BY <1>1

\* A prefix of a sequence grows by the next element.
LEMMA PrefixGrows ==
    ASSUME NEW s, IsSeq(s), NEW n \in 0 .. Len(s) - 1
    PROVE  SubSeq(s, 1, n + 1) = Append(SubSeq(s, 1, n), s[n + 1])
<1>0. Len(s) \in Nat
  BY IsSeqFacts
<1>1. PICK t : t = SubSeq(s, 1, n)
  OBVIOUS
<1>2. PICK u : u = SubSeq(s, 1, n + 1)
  OBVIOUS
<1>3. PICK v : v = Append(t, s[n + 1])
  OBVIOUS
<1>4. IsSeq(t) /\ Len(t) = n /\ \A i \in 1 .. n : t[i] = s[i]
  BY <1>0, <1>1, IsSeqPrefix
<1>5. IsSeq(u) /\ Len(u) = n + 1 /\ \A i \in 1 .. n + 1 : u[i] = s[i]
  BY <1>0, <1>2, IsSeqPrefix
<1>6. IsSeq(v) /\ Len(v) = n + 1 /\ v[n + 1] = s[n + 1] /\ \A i \in 1 .. n : v[i] = t[i]
  BY <1>3, <1>4, IsSeqAppend
<1>7. u = v
  BY <1>4, <1>5, <1>6, SameSeq
<1>8. QED
  BY <1>1, <1>2, <1>3, <1>7

LEMMA WholePrefix ==
    ASSUME NEW s, IsSeq(s)
    PROVE  SubSeq(s, 1, Len(s)) = s
<1>0. Len(s) \in Nat
  BY IsSeqFacts
<1>1. PICK t : t = SubSeq(s, 1, Len(s))
  OBVIOUS
<1>2. IsSeq(t) /\ Len(t) = Len(s) /\ \A i \in 1 .. Len(s) : t[i] = s[i]
  BY <1>0, <1>1, IsSeqPrefix
<1>3. QED
  BY <1>1, <1>2, SameSeq

\* Growing a walk by a neighbour of its end.
LEMMA WalkGrows ==
    ASSUME NEW js, NEW anchor, NEW w, IsWalk(js, anchor, w), NEW x \in Neighbors(js, Last(w))
    PROVE  LET t == Append(w, x)
           IN  IsWalk(js, anchor, t) /\ Len(t) = Len(w) + 1 /\ Last(t) = x
<1>0. Len(w) \in Nat \ {0}
  BY IsSeqFacts DEF IsWalk
<1>1. PICK t : t = Append(w, x)
  OBVIOUS
<1>2. IsSeq(t) /\ Len(t) = Len(w) + 1 /\ t[Len(w) + 1] = x /\ \A i \in 1 .. Len(w) : t[i] = w[i]
  BY <1>1, IsSeqAppend DEF IsWalk
<1>3. ASSUME NEW i \in 1 .. Len(t) - 1 PROVE t[i + 1] \in Neighbors(js, t[i])
  <2>1. CASE i = Len(w)
    BY <1>0, <1>2, <2>1 DEF Last
  <2>2. CASE i # Len(w)
    <3>1. i \in 1 .. Len(w) - 1 /\ i + 1 \in 1 .. Len(w) /\ i \in 1 .. Len(w)
      BY <1>0, <1>2, <2>2
    <3>2. QED
      BY <1>2, <3>1 DEF IsWalk
  <2>3. QED
    BY <2>1, <2>2
<1>4. t[1] = anchor
  BY <1>0, <1>2 DEF IsWalk
<1>5. QED
  BY <1>0, <1>1, <1>2, <1>3, <1>4 DEF IsWalk, Last

-----------------------------------------------------------------------------
(* The layers hold the shortest walks. *)

Visited(js, anchor, h) == Layers(js, anchor)[h].visited
Frontier(js, anchor, h) == Layers(js, anchor)[h].frontier

LEMMA LayerZero ==
    ASSUME NEW js, NEW anchor
    PROVE  Frontier(js, anchor, 0) = {<<anchor>>} /\ Visited(js, anchor, 0) = {anchor}
<1> DEFINE L == Layers(js, anchor)
<1>1. L = [k \in 0 .. MaxHops |-> IF k = 0 THEN FirstLayer(anchor) ELSE NextLayer(js, L[k - 1])]
  BY LayersDef
<1> HIDE DEF L
<1>2. L[0] = FirstLayer(anchor)
  BY <1>1, MaxHopsAssumption
<1>3. QED
  BY <1>2 DEF L, FirstLayer, Frontier, Visited

Extends(js, anchor, h, q) ==
    \E p \in Frontier(js, anchor, h) :
        \E x \in Neighbors(js, Last(p)) \ Visited(js, anchor, h) : q = Append(p, x)

LEMMA LayerNext ==
    ASSUME NEW js, NEW anchor, NEW h \in 0 .. MaxHops - 1
    PROVE  /\ \A q : q \in Frontier(js, anchor, h + 1) <=> Extends(js, anchor, h, q)
           /\ Visited(js, anchor, h + 1) =
                 Visited(js, anchor, h) \cup {Last(p) : p \in Frontier(js, anchor, h + 1)}
<1> DEFINE L == Layers(js, anchor)
<1>1. L = [k \in 0 .. MaxHops |-> IF k = 0 THEN FirstLayer(anchor) ELSE NextLayer(js, L[k - 1])]
  BY LayersDef
<1> HIDE DEF L
<1>2. h + 1 \in 0 .. MaxHops /\ h + 1 # 0 /\ (h + 1) - 1 = h
  BY MaxHopsAssumption
<1>3. L[h + 1] = NextLayer(js, L[h])
  BY <1>1, <1>2
<1>4. /\ L[h + 1].frontier = UNION {{Append(p, n) : n \in Neighbors(js, Last(p)) \ L[h].visited} :
                                       p \in L[h].frontier}
      /\ L[h + 1].visited = L[h].visited \cup {Last(p) : p \in L[h + 1].frontier}
  BY <1>3 DEF NextLayer
<1>5. QED
  BY <1>4 DEF L, Frontier, Visited, Extends

LEMMA VisitedGrows ==
    ASSUME NEW js, NEW anchor, NEW k \in 0 .. MaxHops, NEW h \in k .. MaxHops
    PROVE  Visited(js, anchor, k) \subseteq Visited(js, anchor, h)
<1> DEFINE S == {n \in Nat : Visited(js, anchor, k) \subseteq Visited(js, anchor, k + n)}
           N == MaxHops - k
<1>1. N \in Nat
  BY MaxHopsAssumption
<1>2. 0 \in S
  OBVIOUS
<1>3. ASSUME NEW n \in 0 .. N - 1, n \in S PROVE n + 1 \in S
  <2>1. k + n \in 0 .. MaxHops - 1 /\ k + (n + 1) = (k + n) + 1 /\ n + 1 \in Nat
    BY MaxHopsAssumption
  <2>2. Visited(js, anchor, k + n) \subseteq Visited(js, anchor, (k + n) + 1)
    BY <2>1, LayerNext
  <2>3. QED
    BY <1>3, <2>1, <2>2
<1> HIDE DEF S
<1>4. \A n \in 0 .. N : n \in S
  BY <1>1, <1>2, <1>3, UpTo
<1>5. h - k \in 0 .. N /\ k + (h - k) = h
  BY MaxHopsAssumption
<1>6. QED
  BY <1>4, <1>5 DEF S

\* A frontier path is a simple walk of that many hops that ends where no shorter
\* one does; what has been visited ended a path of a frontier.
LEMMA LayersHoldWalks ==
    ASSUME NEW js, NEW anchor, NEW h \in 0 .. MaxHops
    PROVE  /\ \A p \in Frontier(js, anchor, h) :
                 /\ IsWalk(js, anchor, p) /\ Len(p) = h + 1 /\ Simple(p)
                 /\ \A i \in 1 .. Len(p) : p[i] \in Visited(js, anchor, h)
                 /\ h # 0 => Last(p) \notin Visited(js, anchor, h - 1)
           /\ \A e \in Visited(js, anchor, h) :
                 \E k \in 0 .. h : \E p \in Frontier(js, anchor, k) : Last(p) = e
<1> DEFINE F(n) == Frontier(js, anchor, n)
           V(n) == Visited(js, anchor, n)
           GoodPath(p, n) == /\ IsWalk(js, anchor, p) /\ Len(p) = n + 1 /\ Simple(p)
                             /\ \A i \in 1 .. Len(p) : p[i] \in V(n)
                             /\ n # 0 => Last(p) \notin V(n - 1)
           Good(n) == /\ \A p \in F(n) : GoodPath(p, n)
                      /\ \A e \in V(n) : \E k \in 0 .. n : \E p \in F(k) : Last(p) = e
           S == {n \in Nat : Good(n)}
<1>m. MaxHops \in Nat
  BY MaxHopsAssumption
<1>1. Good(0)
  <2>1. F(0) = {<<anchor>>} /\ V(0) = {anchor}
    BY LayerZero
  <2>2. Len(<<anchor>>) = 1 /\ <<anchor>>[1] = anchor /\ Last(<<anchor>>) = anchor
    BY DEF Last
  <2>3. IsWalk(js, anchor, <<anchor>>) /\ Simple(<<anchor>>)
    BY <2>2 DEF IsWalk, Simple, IsSeq, Elements
  <2> HIDE DEF F, V
  <2>4. QED
    BY <2>1, <2>2, <2>3
<1>2. ASSUME NEW n \in 0 .. MaxHops - 1, Good(n) PROVE Good(n + 1)
  <2>0. Visited(js, anchor, n + 1) =
          Visited(js, anchor, n) \cup {Last(p) : p \in Frontier(js, anchor, n + 1)}
    BY LayerNext
  <2>1. V(n) \subseteq V(n + 1) /\ V(n + 1) = V(n) \cup {Last(p) : p \in F(n + 1)}
    BY <2>0
  <2>2. \A q : q \in F(n + 1) <=>
              \E p \in F(n) : \E x \in Neighbors(js, Last(p)) \ V(n) : q = Append(p, x)
    <3>1. \A q : q \in Frontier(js, anchor, n + 1) <=> Extends(js, anchor, n, q)
      BY LayerNext
    <3>2. QED
      BY <3>1, Zenon DEF Extends
  <2>n. n + 1 # 0 /\ (n + 1) - 1 = n
    OBVIOUS
  <2> HIDE DEF F, V
  <2>3. ASSUME NEW q \in F(n + 1) PROVE GoodPath(q, n + 1)
    <3>1. PICK p \in F(n) : \E x \in Neighbors(js, Last(p)) \ V(n) : q = Append(p, x)
      BY <2>2
    <3>2. PICK x \in Neighbors(js, Last(p)) : x \notin V(n) /\ q = Append(p, x)
      BY <3>1
    <3>3. GoodPath(p, n)
      BY <1>2
    <3>4. IsWalk(js, anchor, q) /\ Len(q) = n + 2 /\ Last(q) = x
      BY <3>2, <3>3, WalkGrows
    <3>5. \A i \in 1 .. n + 1 : q[i] = p[i] /\ p[i] \in V(n)
      BY <3>2, <3>3, IsSeqAppend DEF IsWalk
    <3>6. q[n + 2] = x
      BY <3>4 DEF Last
    <3>7. \A i \in 1 .. Len(q) : i \in 1 .. n + 1 \/ i = n + 2
      BY <3>4
    <3>8. Simple(q)
      <4>1. SUFFICES ASSUME NEW i \in 1 .. Len(q), NEW j \in 1 .. Len(q), q[i] = q[j] PROVE i = j
        BY DEF Simple
      <4>2. i \in 1 .. n + 1 => q[i] \in V(n)
        BY <3>5
      <4>3. j \in 1 .. n + 1 => q[j] \in V(n)
        BY <3>5
      <4>4. CASE i \in 1 .. n + 1 /\ j \in 1 .. n + 1
        BY <3>3, <3>5, <4>1, <4>4 DEF Simple
      <4>5. QED
        BY <3>2, <3>6, <3>7, <4>1, <4>2, <4>3, <4>4
    <3>9. x \in V(n + 1)
      BY <2>1, <3>4
    <3>10. \A i \in 1 .. Len(q) : q[i] \in V(n + 1)
      BY <2>1, <3>5, <3>6, <3>7, <3>9
    <3>11. QED
      BY <2>n, <3>2, <3>4, <3>8, <3>10
  <2>4. ASSUME NEW e \in V(n + 1) PROVE \E k \in 0 .. n + 1 : \E p \in F(k) : Last(p) = e
    <3>1. CASE e \in V(n)
      <4>1. PICK k \in 0 .. n : \E p \in F(k) : Last(p) = e
        BY <1>2, <3>1
      <4>2. k \in 0 .. n + 1
        OBVIOUS
      <4>3. QED
        BY <4>1, <4>2
    <3>2. CASE e \notin V(n)
      <4>1. n + 1 \in 0 .. n + 1
        OBVIOUS
      <4>2. QED
        BY <2>1, <3>2, <4>1
    <3>3. QED
      BY <3>1, <3>2
  <2> HIDE DEF GoodPath
  <2>5. QED
    BY <2>3, <2>4
<1> HIDE DEF Good
<1>3. \A n \in 0 .. MaxHops : n \in S
  <2>1. 0 \in S /\ \A n \in 0 .. MaxHops - 1 : n \in S => n + 1 \in S
    BY <1>1, <1>2, <1>m
  <2> HIDE DEF S
  <2>2. QED
    BY <1>m, <2>1, UpTo
<1>4. QED
  BY <1>3 DEF Good

\* A neighbour of what a layer has visited is visited by the next.
LEMMA VisitedClosed ==
    ASSUME NEW js, NEW anchor, NEW h \in 0 .. MaxHops - 1, NEW e \in Visited(js, anchor, h),
           NEW x \in Neighbors(js, e)
    PROVE  x \in Visited(js, anchor, h + 1)
<1>m. MaxHops \in Nat /\ h \in 0 .. MaxHops
  BY MaxHopsAssumption
<1>1. PICK k \in 0 .. h : \E p \in Frontier(js, anchor, k) : Last(p) = e
  BY <1>m, LayersHoldWalks
<1>2. PICK p \in Frontier(js, anchor, k) : Last(p) = e
  BY <1>1
<1>3. k \in 0 .. MaxHops - 1 /\ k + 1 \in 0 .. MaxHops /\ h + 1 \in k + 1 .. MaxHops
      /\ k \in 0 .. MaxHops /\ h + 1 \in k .. MaxHops
  BY <1>m
<1>4. CASE x \in Visited(js, anchor, k)
  BY <1>3, <1>4, VisitedGrows
<1>5. CASE x \notin Visited(js, anchor, k)
  <2>1. PICK q : q = Append(p, x)
    OBVIOUS
  <2>2. Extends(js, anchor, k, q)
    BY <1>2, <1>5, <2>1 DEF Extends
  <2>3. q \in Frontier(js, anchor, k + 1)
    BY <1>3, <2>2, LayerNext
  <2>4. IsWalk(js, anchor, p)
    BY <1>3, LayersHoldWalks
  <2>5. Last(q) = x
    BY <1>2, <2>1, <2>4, WalkGrows
  <2>6. x \in Visited(js, anchor, k + 1)
    BY <1>3, <2>3, <2>5, LayerNext
  <2>7. QED
    BY <1>3, <2>6, VisitedGrows
<1>6. QED
  BY <1>4, <1>5

\* A walk that is at an entity of layer j is m layers on after m hops.
LEMMA WalkStaysVisited ==
    ASSUME NEW js, NEW anchor, NEW w, IsWalk(js, anchor, w), NEW i \in 1 .. Len(w),
           NEW j \in 0 .. MaxHops, w[i] \in Visited(js, anchor, j),
           NEW m \in Nat, i + m <= Len(w), j + m <= MaxHops
    PROVE  w[i + m] \in Visited(js, anchor, j + m)
<1>0. Len(w) \in Nat /\ MaxHops \in Nat
  BY IsSeqFacts, MaxHopsAssumption DEF IsWalk
<1> DEFINE S == {n \in Nat : w[i + n] \in Visited(js, anchor, j + n)}
<1>1. 0 \in S
  BY <1>0
<1>2. ASSUME NEW n \in 0 .. m - 1, n \in S PROVE n + 1 \in S
  <2>1. /\ i + n \in 1 .. Len(w) - 1 /\ j + n \in 0 .. MaxHops - 1
        /\ i + (n + 1) = (i + n) + 1 /\ j + (n + 1) = (j + n) + 1 /\ n + 1 \in Nat
    BY <1>0
  <2>2. w[(i + n) + 1] \in Neighbors(js, w[i + n])
    BY <2>1 DEF IsWalk
  <2>3. w[(i + n) + 1] \in Visited(js, anchor, (j + n) + 1)
    BY <1>2, <2>1, <2>2, VisitedClosed
  <2>4. QED
    BY <2>1, <2>3
<1> HIDE DEF S
<1>3. \A n \in 0 .. m : n \in S
  BY <1>1, <1>2, UpTo
<1>4. m \in S
  BY <1>3
<1>5. QED
  BY <1>4 DEF S

\* A walk to an entity that no earlier layer visited is in the frontier.
LEMMA ShortestInFrontier ==
    ASSUME NEW js, NEW anchor, NEW w, IsWalk(js, anchor, w), NEW h \in 0 .. MaxHops,
           Len(w) = h + 1, h # 0 => Last(w) \notin Visited(js, anchor, h - 1)
    PROVE  w \in Frontier(js, anchor, h)
<1>0. MaxHops \in Nat /\ h \in Nat /\ IsSeq(w)
  BY MaxHopsAssumption DEF IsWalk
<1> DEFINE Prefix(n) == SubSeq(w, 1, n + 1)
           S == {n \in Nat : Prefix(n) \in Frontier(js, anchor, n)}
<1>1. 0 \in S
  <2>1. PICK t : t = SubSeq(w, 1, 0 + 1)
    OBVIOUS
  <2>2. IsSeq(t) /\ Len(t) = 1 /\ t[1] = anchor
    BY <1>0, <2>1, IsSeqPrefix DEF IsWalk
  <2>3. IsSeq(<<anchor>>) /\ Len(<<anchor>>) = 1 /\ <<anchor>>[1] = anchor
    BY DEF IsSeq, Elements
  <2>4. t = <<anchor>>
    BY <2>2, <2>3, SameSeq
  <2>5. Prefix(0) \in Frontier(js, anchor, 0)
    BY <2>1, <2>4, LayerZero
  <2>6. QED
    BY <2>5
<1>2. ASSUME NEW n \in 0 .. h - 1, n \in S PROVE n + 1 \in S
  <2>0. n \in 0 .. MaxHops - 1 /\ n \in 0 .. MaxHops /\ n + 1 \in 1 .. Len(w) - 1
        /\ n + 2 \in 1 .. Len(w) /\ (n + 1) + 1 = n + 2 /\ n + 1 \in Nat /\ n + 1 \in 0 .. Len(w) - 1
        /\ n + 1 \in 0 .. Len(w)
    BY <1>0
  <2>1. PICK p : p = Prefix(n)
    OBVIOUS
  <2>2. p \in Frontier(js, anchor, n)
    BY <1>2, <2>1
  <2>3. IsSeq(p) /\ Len(p) = n + 1 /\ p[n + 1] = w[n + 1]
    <3>1. p = SubSeq(w, 1, n + 1)
      BY <2>1
    <3>2. QED
      BY <1>0, <2>0, <3>1, IsSeqPrefix
  <2>4. Last(p) = w[n + 1]
    BY <2>3 DEF Last
  <2>5. w[n + 2] \in Neighbors(js, Last(p))
    <3>1. w[(n + 1) + 1] \in Neighbors(js, w[n + 1])
      BY <2>0 DEF IsWalk
    <3>2. QED
      BY <2>0, <2>4, <3>1
  <2>6. w[n + 2] \notin Visited(js, anchor, n)
    <3>1. SUFFICES ASSUME w[n + 2] \in Visited(js, anchor, n) PROVE FALSE
      OBVIOUS
    <3> DEFINE m == h - (n + 1)
    <3>2. m \in Nat /\ (n + 2) + m = h + 1 /\ n + m = h - 1 /\ h # 0 /\ h + 1 <= Len(w)
          /\ h - 1 <= MaxHops
      BY <1>0
    <3> HIDE DEF m
    <3>3. w[(n + 2) + m] \in Visited(js, anchor, n + m)
      BY <2>0, <3>1, <3>2, WalkStaysVisited
    <3>4. Last(w) = w[h + 1]
      BY DEF Last
    <3>5. QED
      BY <3>2, <3>3, <3>4
  <2>7. Prefix(n + 1) = Append(p, w[n + 2])
    <3>1. SubSeq(w, 1, (n + 1) + 1) = Append(SubSeq(w, 1, n + 1), w[(n + 1) + 1])
      BY <1>0, <2>0, PrefixGrows
    <3>2. QED
      BY <2>0, <2>1, <3>1
  <2> HIDE DEF Prefix
  <2>8. Extends(js, anchor, n, Prefix(n + 1))
    BY <2>2, <2>5, <2>6, <2>7 DEF Extends
  <2>9. QED
    BY <2>0, <2>8, LayerNext
<1> HIDE DEF S
<1>3. \A n \in 0 .. h : n \in S
  BY <1>0, <1>1, <1>2, UpTo
<1>4. h \in S
  BY <1>0, <1>3
<1>5. SubSeq(w, 1, h + 1) = w
  BY <1>0, WholePrefix
<1>6. QED
  BY <1>4, <1>5 DEF S

\* An entity visited by layer h, other than the anchor, was found in a layer up to h.
LEMMA VisitedFound ==
    ASSUME NEW js, NEW anchor, NEW h \in 0 .. MaxHops, NEW e \in Visited(js, anchor, h), e # anchor
    PROVE  \E k \in 1 .. h : Found(js, anchor, e, k) # {}
<1>1. PICK k \in 0 .. h : \E p \in Frontier(js, anchor, k) : Last(p) = e
  BY LayersHoldWalks
<1>2. PICK p \in Frontier(js, anchor, k) : Last(p) = e
  BY <1>1
<1>3. k # 0
  <2>1. SUFFICES ASSUME k = 0 PROVE FALSE
    OBVIOUS
  <2>2. p = <<anchor>>
    BY <1>2, <2>1, LayerZero
  <2>3. Last(<<anchor>>) = anchor
    BY DEF Last
  <2>4. QED
    BY <1>2, <2>2, <2>3
<1>4. p \in Found(js, anchor, e, k)
  BY <1>2 DEF Found, Frontier
<1>5. QED
  BY <1>3, <1>4

\* The search returns the walks to the target with the fewest hops, all of them
\* and nothing else, when there is one within the limit.
LEMMA SearchFindsShortest ==
    ASSUME NEW js, NEW anchor, NEW target, _structural_shortest_paths(js, anchor, target) # {}
    PROVE  \E h \in 1 .. MaxHops :
              /\ target # anchor
              /\ \A w : w \in _structural_shortest_paths(js, anchor, target) <=>
                           IsWalk(js, anchor, w) /\ Len(w) = h + 1 /\ Last(w) = target
              /\ \A w : w \in _structural_shortest_paths(js, anchor, target) => Simple(w)
              /\ \A w : IsWalk(js, anchor, w) /\ Last(w) = target => Len(w) >= h + 1
<1>m. MaxHops \in Nat
  BY MaxHopsAssumption
<1>1. PICK h \in 1 .. MaxHops :
         /\ _structural_shortest_paths(js, anchor, target) = Found(js, anchor, target, h)
         /\ \A k \in 1 .. h - 1 : Found(js, anchor, target, k) = {}
  BY FirstHit
<1>2. ASSUME NEW w \in Found(js, anchor, target, h)
      PROVE  IsWalk(js, anchor, w) /\ Len(w) = h + 1 /\ Last(w) = target /\ Simple(w)
  <2>1. w \in Frontier(js, anchor, h) /\ Last(w) = target /\ h \in 0 .. MaxHops
    BY <1>m DEF Found, Frontier
  <2>2. QED
    BY <2>1, LayersHoldWalks
<1>3. target # anchor
  <2>1. PICK w : w \in Found(js, anchor, target, h)
    BY <1>1
  <2>2. IsWalk(js, anchor, w) /\ Len(w) = h + 1 /\ Last(w) = target /\ Simple(w)
    BY <1>2, <2>1
  <2>3. w[h + 1] = target /\ w[1] = anchor /\ 1 \in 1 .. Len(w) /\ h + 1 \in 1 .. Len(w) /\ h + 1 # 1
    BY <1>m, <2>2 DEF IsWalk, Last
  <2>4. QED
    BY <2>2, <2>3 DEF Simple
<1>4. target \notin Visited(js, anchor, h - 1)
  <2>1. SUFFICES ASSUME target \in Visited(js, anchor, h - 1) PROVE FALSE
    OBVIOUS
  <2>2. h - 1 \in 0 .. MaxHops
    BY <1>m
  <2>3. QED
    BY <1>1, <1>3, <2>1, <2>2, VisitedFound
<1>5. ASSUME NEW w, IsWalk(js, anchor, w), Len(w) = h + 1, Last(w) = target
      PROVE  w \in Found(js, anchor, target, h)
  <2>1. h \in 0 .. MaxHops
    BY <1>m
  <2>2. w \in Frontier(js, anchor, h)
    BY <1>4, <1>5, <2>1, ShortestInFrontier
  <2>3. QED
    BY <1>5, <2>2 DEF Found, Frontier
<1>6. ASSUME NEW w, IsWalk(js, anchor, w), Last(w) = target PROVE Len(w) >= h + 1
  <2>0. Len(w) \in Nat \ {0}
    BY <1>6, IsSeqFacts DEF IsWalk
  <2>1. SUFFICES ASSUME Len(w) < h + 1 PROVE FALSE
    BY <1>m, <2>0
  <2> DEFINE m == Len(w) - 1
  <2>2. m \in 0 .. h - 1 /\ 1 + m = Len(w) /\ 0 + m = m /\ m <= MaxHops /\ m \in Nat
        /\ h - 1 \in m .. MaxHops /\ m \in 0 .. MaxHops /\ 1 \in 1 .. Len(w) /\ 0 \in 0 .. MaxHops
    BY <1>m, <2>0, <2>1
  <2> HIDE DEF m
  <2>3. w[1] \in Visited(js, anchor, 0)
    BY <1>6, LayerZero DEF IsWalk
  <2>4. w[1 + m] \in Visited(js, anchor, 0 + m)
    BY <1>6, <2>2, <2>3, WalkStaysVisited
  <2>5. target \in Visited(js, anchor, m)
    BY <1>6, <2>2, <2>4 DEF Last
  <2>6. target \in Visited(js, anchor, h - 1)
    BY <2>2, <2>5, VisitedGrows
  <2>7. QED
    BY <1>4, <2>6
<1>7. QED
  BY <1>1, <1>2, <1>3, <1>5, <1>6

-----------------------------------------------------------------------------
(* The reference definition. *)

LEMMA EntitiesFinite ==
    ASSUME NEW js, IsFiniteSet(js)
    PROVE  IsFiniteSet(Entities(js))
<1> DEFINE Ends(j) == {j.source, j.target}
           T == {Ends(j) : j \in js}
           f == [j \in js |-> Ends(j)]
<1>1. f \in Surjection(js, T)
  BY DEF Surjection
<1>2. \A j \in js : IsFiniteSet(Ends(j))
  <2>1. TAKE j \in js
  <2>2. IsFiniteSet({j.source})
    BY FS_Singleton
  <2>3. IsFiniteSet({j.source} \cup {j.target})
    BY <2>2, FS_AddElement
  <2>4. {j.source} \cup {j.target} = Ends(j)
    OBVIOUS
  <2>5. QED
    BY <2>3, <2>4
<1>3. Entities(js) = UNION T
  BY DEF Entities
<1>4. \A t \in T : IsFiniteSet(t)
  BY <1>2
<1> HIDE DEF f, T
<1>5. IsFiniteSet(T)
  BY <1>1, FS_Surjection
<1>6. QED
  BY <1>3, <1>4, <1>5, FS_UNION

Growth(js, S) == UNION {{Append(p, n) : n \in Neighbors(js, Last(p)) \ ToSet(p)} : p \in S}

AreSimple(f, n, js, anchor) ==
    f = [h \in 0 .. n |-> IF h = 0 THEN {<<anchor>>} ELSE Growth(js, f[h - 1])]

LEMMA SimpleExist ==
    ASSUME NEW js, NEW anchor, NEW N \in Nat
    PROVE  \E f : AreSimple(f, N, js, anchor)
<1> USE DEF AreSimple
<1> DEFINE S == {n \in Nat : \E f : AreSimple(f, n, js, anchor)}
<1>1. 0 \in S
  <2>1. AreSimple([h \in 0 .. 0 |-> {<<anchor>>}], 0, js, anchor)
    OBVIOUS
  <2>2. QED
    BY <2>1
<1>2. ASSUME NEW n \in 0 .. N - 1, n \in S PROVE n + 1 \in S
  <2>1. PICK f : AreSimple(f, n, js, anchor)
    BY <1>2
  <2> DEFINE g == [h \in 0 .. n + 1 |-> IF h = n + 1 THEN Growth(js, f[n]) ELSE f[h]]
  <2>2. ASSUME NEW h \in 0 .. n + 1
        PROVE  g[h] = IF h = 0 THEN {<<anchor>>} ELSE Growth(js, g[h - 1])
    <3>1. CASE h = n + 1
      <4>1. h - 1 = n /\ g[h - 1] = f[n] /\ g[h] = Growth(js, f[n])
        BY <3>1
      <4>2. QED
        BY <3>1, <4>1
    <3>2. CASE h # n + 1
      <4>1. h \in 0 .. n /\ g[h] = f[h] /\ (h # 0 => h - 1 \in 0 .. n /\ g[h - 1] = f[h - 1])
        BY <3>2
      <4>2. f[h] = IF h = 0 THEN {<<anchor>>} ELSE Growth(js, f[h - 1])
        BY <2>1, <4>1
      <4> HIDE DEF g
      <4>3. QED
        BY <4>1, <4>2
    <3>3. QED
      BY <3>1, <3>2
  <2>3. g = [h \in 0 .. n + 1 |-> g[h]]
    OBVIOUS
  <2> HIDE DEF g
  <2>4. AreSimple(g, n + 1, js, anchor)
    BY <2>2, <2>3
  <2>5. QED
    BY <2>4
<1> HIDE DEF S
<1>3. N \in S
  BY <1>1, <1>2, UpTo
<1>4. QED
  BY <1>3 DEF S

LEMMA SimpleFromDef ==
    ASSUME NEW js, NEW anchor, Cardinality(Entities(js)) \in Nat
    PROVE  AreSimple(SimpleFrom(js, anchor), Cardinality(Entities(js)), js, anchor)
<1> DEFINE N == Cardinality(Entities(js))
<1>1. \E f : AreSimple(f, N, js, anchor)
  BY SimpleExist
<1>2. SimpleFrom(js, anchor) = CHOOSE f : AreSimple(f, N, js, anchor)
  BY DEF SimpleFrom, AreSimple, Growth
<1>3. QED
  BY <1>1, <1>2

\* A walk without its last hop.
LEMMA WalkShrinks ==
    ASSUME NEW js, NEW anchor, NEW w, IsWalk(js, anchor, w), Len(w) # 1
    PROVE  LET t == SubSeq(w, 1, Len(w) - 1)
           IN  /\ IsWalk(js, anchor, t) /\ Len(t) = Len(w) - 1 /\ \A i \in 1 .. Len(t) : t[i] = w[i]
               /\ Last(w) \in Neighbors(js, Last(t)) /\ w = Append(t, Last(w))
<1>0. IsSeq(w) /\ Len(w) \in Nat /\ Len(w) - 1 \in Nat \ {0}
  BY IsSeqFacts DEF IsWalk
<1>1. PICK n : n = Len(w) - 1
  OBVIOUS
<1>2. n \in Nat \ {0} /\ n + 1 = Len(w) /\ n \in 0 .. Len(w) - 1 /\ n \in 0 .. Len(w)
  BY <1>0, <1>1
<1>3. PICK t : t = SubSeq(w, 1, n)
  OBVIOUS
<1>4. IsSeq(t) /\ Len(t) = n /\ \A i \in 1 .. n : t[i] = w[i]
  BY <1>0, <1>2, <1>3, IsSeqPrefix
<1>5. ASSUME NEW i \in 1 .. n - 1 PROVE t[i + 1] \in Neighbors(js, t[i])
  <2>1. i \in 1 .. Len(w) - 1 /\ i \in 1 .. n /\ i + 1 \in 1 .. n
    BY <1>2
  <2>2. QED
    BY <1>4, <2>1 DEF IsWalk
<1>6. IsWalk(js, anchor, t)
  BY <1>2, <1>4, <1>5 DEF IsWalk
<1>7. Last(t) = w[n] /\ Last(w) = w[n + 1] /\ n \in 1 .. Len(w) - 1
  BY <1>2, <1>4 DEF Last
<1>8. w[n + 1] \in Neighbors(js, w[n])
  BY <1>7 DEF IsWalk
<1>9. w = Append(t, w[n + 1])
  <2>1. SubSeq(w, 1, n + 1) = Append(SubSeq(w, 1, n), w[n + 1])
    BY <1>0, <1>2, PrefixGrows
  <2>2. SubSeq(w, 1, n + 1) = w
    BY <1>0, <1>2, WholePrefix
  <2>3. QED
    BY <1>3, <2>1, <2>2
<1>10. QED
  BY <1>1, <1>3, <1>4, <1>6, <1>7, <1>8, <1>9

Grows(js, S, q) == \E p \in S : \E x \in Neighbors(js, Last(p)) : x \notin ToSet(p) /\ q = Append(p, x)

\* The h-th set holds the simple walks of h hops.
LEMMA SimpleFromHolds ==
    ASSUME NEW js, NEW anchor, Cardinality(Entities(js)) \in Nat,
           NEW h \in 0 .. Cardinality(Entities(js)), NEW w
    PROVE  w \in SimpleFrom(js, anchor)[h] <=> IsWalk(js, anchor, w) /\ Simple(w) /\ Len(w) = h + 1
<1> DEFINE N == Cardinality(Entities(js))
           F == SimpleFrom(js, anchor)
           Fits(v, n) == IsWalk(js, anchor, v) /\ Simple(v) /\ Len(v) = n + 1
           S == {n \in Nat : \A v : v \in F[n] <=> Fits(v, n)}
<1>f. F = [k \in 0 .. N |-> IF k = 0 THEN {<<anchor>>} ELSE Growth(js, F[k - 1])]
  BY SimpleFromDef DEF AreSimple
<1>n. N \in Nat
  OBVIOUS
<1> HIDE DEF F, N
<1>1. 0 \in S
  <2>1. F[0] = {<<anchor>>}
    BY <1>f, <1>n
  <2>2. Len(<<anchor>>) = 1 /\ <<anchor>>[1] = anchor /\ IsSeq(<<anchor>>)
    BY DEF IsSeq, Elements
  <2>3. Fits(<<anchor>>, 0)
    BY <2>2 DEF IsWalk, Simple
  <2>4. ASSUME NEW v, Fits(v, 0) PROVE v = <<anchor>>
    <3>1. IsSeq(v) /\ Len(v) = 1 /\ v[1] = anchor
      BY <2>4 DEF IsWalk
    <3>2. QED
      BY <2>2, <3>1, SameSeq
  <2> HIDE DEF Fits
  <2>5. QED
    BY <2>1, <2>3, <2>4
<1>2. ASSUME NEW n \in 0 .. N - 1, n \in S PROVE n + 1 \in S
  <2>0. n + 1 \in 0 .. N /\ n + 1 # 0 /\ (n + 1) - 1 = n /\ n + 1 \in Nat
    BY <1>n
  <2>1. F[n + 1] = Growth(js, F[n])
    BY <1>f, <2>0
  <2>2. \A v : v \in F[n + 1] <=> Grows(js, F[n], v)
    BY <2>1 DEF Growth, Grows
  <2>3. ASSUME NEW v, Grows(js, F[n], v) PROVE Fits(v, n + 1)
    <3>0. PICK p \in F[n] : \E x \in Neighbors(js, Last(p)) : x \notin ToSet(p) /\ v = Append(p, x)
      BY <2>3 DEF Grows
    <3>1. PICK x \in Neighbors(js, Last(p)) : x \notin ToSet(p) /\ v = Append(p, x)
      BY <3>0
    <3>2. Fits(p, n)
      BY <1>2
    <3>3. IsWalk(js, anchor, v) /\ Len(v) = Len(p) + 1 /\ Last(v) = x
      BY <3>1, <3>2, WalkGrows
    <3>4. \A i \in 1 .. n + 1 : v[i] = p[i] /\ p[i] \in ToSet(p)
      <4>1. IsSeq(p) /\ Len(p) = n + 1
        BY <3>2 DEF IsWalk
      <4>2. DOMAIN p = 1 .. n + 1
        BY <4>1, IsSeqFacts
      <4>3. \A i \in 1 .. n + 1 : v[i] = p[i]
        BY <3>1, <4>1, IsSeqAppend
      <4>4. QED
        BY <4>1, <4>2, <4>3 DEF ToSet
    <3>5. v[n + 2] = x /\ Len(v) = n + 2
      BY <3>2, <3>3 DEF Last
    <3>6. Simple(v)
      <4>1. SUFFICES ASSUME NEW i \in 1 .. Len(v), NEW j \in 1 .. Len(v), v[i] = v[j] PROVE i = j
        BY DEF Simple
      <4>2. \A k \in 1 .. Len(v) : k = n + 2 \/ (k \in 1 .. n + 1 /\ v[k] = p[k] /\ v[k] # x)
        BY <3>1, <3>4, <3>5
      <4>3. CASE i \in 1 .. n + 1 /\ j \in 1 .. n + 1
        BY <3>2, <3>4, <4>1, <4>3 DEF Simple
      <4>4. QED
        BY <3>5, <4>1, <4>2, <4>3
    <3>7. QED
      BY <3>3, <3>5, <3>6
  <2>4. ASSUME NEW v, Fits(v, n + 1) PROVE Grows(js, F[n], v)
    <3>1. PICK t : t = SubSeq(v, 1, Len(v) - 1)
      OBVIOUS
    <3>2. Len(v) = n + 2 /\ Len(v) - 1 = n + 1 /\ Len(v) # 1
      BY <2>4
    <3>3. /\ IsWalk(js, anchor, t) /\ Len(t) = n + 1 /\ \A i \in 1 .. Len(t) : t[i] = v[i]
          /\ Last(v) \in Neighbors(js, Last(t)) /\ v = Append(t, Last(v))
      BY <2>4, <3>1, <3>2, WalkShrinks
    <3>4. Simple(t)
      BY <2>4, <3>2, <3>3 DEF Simple
    <3>5. t \in F[n]
      BY <1>2, <3>3, <3>4
    <3>6. Last(v) \notin ToSet(t)
      <4>1. SUFFICES ASSUME Last(v) \in ToSet(t) PROVE FALSE
        OBVIOUS
      <4>2. DOMAIN t = 1 .. n + 1
        BY <3>3, IsSeqFacts DEF IsWalk
      <4>3. PICK i \in 1 .. n + 1 : v[n + 2] = v[i]
        BY <3>2, <3>3, <4>1, <4>2 DEF ToSet, Last
      <4>4. i \in 1 .. Len(v) /\ n + 2 \in 1 .. Len(v) /\ i # n + 2
        BY <3>2
      <4>5. QED
        BY <2>4, <4>3, <4>4 DEF Simple
    <3>7. QED
      BY <3>3, <3>5, <3>6 DEF Grows
  <2> HIDE DEF Fits
  <2>5. QED
    BY <2>0, <2>2, <2>3, <2>4
<1> HIDE DEF Fits, S
<1>3. h \in S
  <2>1. h \in 0 .. N
    BY DEF N
  <2>2. QED
    BY <1>n, <1>1, <1>2, <2>1, UpTo
<1>4. QED
  BY <1>3 DEF S, Fits, F

\* A simple walk with a hop meets only entities of the graph, each once.
LEMMA SimpleIsShort ==
    ASSUME NEW js, IsFiniteSet(js), NEW anchor, NEW w, IsWalk(js, anchor, w), Simple(w), Len(w) # 1
    PROVE  /\ Cardinality(Entities(js)) \in Nat /\ Len(w) <= Cardinality(Entities(js))
           /\ \A i \in 1 .. Len(w) : w[i] \in Entities(js)
<1>a. Len(w) \in Nat /\ Len(w) # 0
  BY IsSeqFacts DEF IsWalk
<1>0. Len(w) \in Nat /\ Len(w) >= 2
  BY <1>a
<1>1. ASSUME NEW e, NEW x \in Neighbors(js, e) PROVE e \in Entities(js) /\ x \in Entities(js)
  BY <1>1 DEF Neighbors, Between, Entities
<1>2. ASSUME NEW i \in 1 .. Len(w) PROVE w[i] \in Entities(js)
  <2>1. CASE i # Len(w)
    <3>1. i \in 1 .. Len(w) - 1
      BY <1>0, <2>1
    <3>2. QED
      BY <1>1, <3>1 DEF IsWalk
  <2>2. CASE i = Len(w)
    <3>1. i - 1 \in 1 .. Len(w) - 1 /\ (i - 1) + 1 = i
      BY <1>0, <2>2
    <3>2. w[(i - 1) + 1] \in Neighbors(js, w[i - 1])
      BY <3>1 DEF IsWalk
    <3>3. QED
      BY <1>1, <3>1, <3>2
  <2>3. QED
    BY <2>1, <2>2
<1> DEFINE f == [i \in 1 .. Len(w) |-> w[i]]
<1>3. f \in Injection(1 .. Len(w), Entities(js))
  <2>1. f \in [1 .. Len(w) -> Entities(js)]
    BY <1>2
  <2>2. \A i, j \in 1 .. Len(w) : f[i] = f[j] => i = j
    BY DEF Simple
  <2> HIDE DEF f
  <2>3. QED
    BY <2>1, <2>2 DEF Injection, IsInjective
<1>4. IsFiniteSet(Entities(js))
  BY EntitiesFinite
<1> HIDE DEF f
<1>5. Cardinality(1 .. Len(w)) <= Cardinality(Entities(js))
  BY <1>3, <1>4, FS_Injection
<1>6. Cardinality(1 .. Len(w)) = Len(w)
  BY <1>0, FS_Interval
<1>7. Cardinality(Entities(js)) \in Nat
  BY <1>4, FS_CardinalityType
<1>8. QED
  BY <1>2, <1>5, <1>6, <1>7

\* A walk within the hop limit to another entity is met by the search.
LEMMA WalkIsFound ==
    ASSUME NEW js, NEW anchor, NEW w, IsWalk(js, anchor, w), Len(w) <= MaxHops + 1, Last(w) # anchor
    PROVE  _structural_shortest_paths(js, anchor, Last(w)) # {}
<1>m. MaxHops \in Nat
  BY MaxHopsAssumption
<1>0. Len(w) \in Nat \ {0}
  BY IsSeqFacts DEF IsWalk
<1>1. PICK m : m = Len(w) - 1
  OBVIOUS
<1>2. m \in Nat /\ m \in 0 .. MaxHops /\ 1 + m = Len(w) /\ 0 + m = m /\ m <= MaxHops
      /\ 1 \in 1 .. Len(w) /\ 0 \in 0 .. MaxHops
  BY <1>m, <1>0, <1>1
<1>3. w[1] \in Visited(js, anchor, 0)
  BY LayerZero DEF IsWalk
<1>4. w[1 + m] \in Visited(js, anchor, 0 + m)
  BY <1>0, <1>2, <1>3, WalkStaysVisited
<1>5. PICK target : target = Last(w)
  OBVIOUS
<1>6. target \in Visited(js, anchor, m) /\ target # anchor
  BY <1>2, <1>4, <1>5 DEF Last
<1>7. PICK k \in 1 .. m : Found(js, anchor, target, k) # {}
  BY <1>2, <1>6, VisitedFound
<1> DEFINE hits == {h \in 1 .. MaxHops : Found(js, anchor, target, h) # {}}
           first == CHOOSE h \in hits : \A j \in hits : h <= j
<1>8. k \in hits /\ hits \subseteq Nat
  BY <1>m, <1>2, <1>7
<1>9. first \in hits
  <2> HIDE DEF hits
  <2>1. \E h \in hits : \A j \in hits : h <= j
    BY <1>8, LeastNatural
  <2>2. QED
    BY <2>1
<1>10. _structural_shortest_paths(js, anchor, target) = Found(js, anchor, target, first)
  BY <1>8 DEF _structural_shortest_paths, Found
<1> HIDE DEF first
<1>11. QED
  BY <1>5, <1>9, <1>10

\* The breadth-first search of the join graph, layer by layer with whole paths in the
\* frontier, finds exactly the simple paths to the target with the fewest hops, if
\* there is one within max_hops: none is missed, none is added.
THEOREM SearchIsExact ==
    ASSUME NEW js, IsFiniteSet(js), NEW anchor, NEW target
    PROVE  _structural_shortest_paths(js, anchor, target) = ShortestPaths(js, anchor, target)
<1> DEFINE N == Cardinality(Entities(js))
           found == _structural_shortest_paths(js, anchor, target)
           all == {p \in SimplePaths(js, anchor) : Last(p) = target /\ Len(p) > 1}
           Fits(p) == IsWalk(js, anchor, p) /\ Simple(p) /\ Last(p) = target /\ Len(p) # 1
<1>m. MaxHops \in Nat
  BY MaxHopsAssumption
<1>1. N \in Nat
  BY EntitiesFinite, FS_CardinalityType
<1>2. ASSUME NEW p PROVE p \in all <=> Fits(p)
  <2>1. ASSUME p \in all PROVE Fits(p)
    <3>1. PICK h \in 0 .. N : p \in SimpleFrom(js, anchor)[h]
      BY <2>1 DEF SimplePaths
    <3>2. IsWalk(js, anchor, p) /\ Simple(p) /\ Len(p) = h + 1
      BY <1>1, <3>1, SimpleFromHolds
    <3>3. QED
      BY <2>1, <3>2
  <2>2. ASSUME Fits(p) PROVE p \in all
    <3>1. Len(p) \in Nat \ {0} /\ Len(p) <= N
      BY <2>2, SimpleIsShort, IsSeqFacts DEF IsWalk
    <3>2. PICK h : h = Len(p) - 1
      OBVIOUS
    <3>3. h \in 0 .. N /\ Len(p) = h + 1 /\ Len(p) > 1
      BY <1>1, <2>2, <3>1, <3>2
    <3>4. p \in SimpleFrom(js, anchor)[h]
      BY <1>1, <2>2, <3>3, SimpleFromHolds
    <3>5. QED
      BY <2>2, <3>3, <3>4 DEF SimplePaths
  <2>3. QED
    BY <2>1, <2>2
<1>3. ShortestPaths(js, anchor, target) =
         {p \in all : Len(p) <= MaxHops + 1 /\ \A q \in all : Len(p) <= Len(q)}
  BY DEF ShortestPaths
<1> HIDE DEF all
<1>4. CASE found = {}
  <2>1. SUFFICES ASSUME NEW p \in all, Len(p) <= MaxHops + 1 PROVE FALSE
    BY <1>3, <1>4
  <2>2. IsWalk(js, anchor, p) /\ Simple(p) /\ Last(p) = target /\ Len(p) # 1
    BY <1>2
  <2>3. Len(p) \in Nat \ {0} /\ 1 \in 1 .. Len(p) /\ Len(p) \in 1 .. Len(p)
    BY <2>2, IsSeqFacts DEF IsWalk
  <2>4. Last(p) # anchor
    BY <2>2, <2>3 DEF IsWalk, Simple, Last
  <2>5. QED
    BY <1>4, <2>1, <2>2, <2>4, WalkIsFound
<1>5. CASE found # {}
  <2>1. PICK h \in 1 .. MaxHops :
           /\ \A w : w \in found <=> IsWalk(js, anchor, w) /\ Len(w) = h + 1 /\ Last(w) = target
           /\ \A w : w \in found => Simple(w)
           /\ \A w : IsWalk(js, anchor, w) /\ Last(w) = target => Len(w) >= h + 1
    BY <1>5, SearchFindsShortest
  <2>2. h + 1 # 1 /\ h + 1 <= MaxHops + 1 /\ h \in Nat
    BY <1>m
  <2>3. \A p \in all : Len(p) \in Nat
    BY <1>2, IsSeqFacts DEF IsWalk
  <2>4. \A p \in found : p \in all /\ Len(p) = h + 1
    BY <1>2, <2>1, <2>2
  <2>5. \A q \in all : h + 1 <= Len(q)
    BY <1>2, <2>1, <2>2, <2>3
  <2>6. ASSUME NEW p \in all, \A q \in all : Len(p) <= Len(q) PROVE p \in found
    <3>1. PICK q : q \in found
      BY <1>5
    <3>2. Len(p) = h + 1
      BY <2>2, <2>3, <2>4, <2>5, <2>6, <3>1
    <3>3. QED
      BY <1>2, <2>1, <3>2
  <2> HIDE DEF found
  <2>7. QED
    BY <1>3, <2>2, <2>4, <2>5, <2>6 DEF found
<1>6. QED
  BY <1>4, <1>5

-----------------------------------------------------------------------------
(* The chain to an entity, when the graph leaves no choice. *)

LEMMA FunctionIsSeq ==
    ASSUME NEW n \in Nat, NEW f, f = [k \in 1 .. n |-> f[k]]
    PROVE  IsSeq(f) /\ Len(f) = n
<1> DEFINE E == {f[k] : k \in 1 .. n}
<1>1. f \in [1 .. n -> E]
  BY Zenon
<1> HIDE DEF E
<1>2. f \in Seq(E) /\ Len(f) = n
  BY <1>1
<1>3. QED
  BY <1>2 DEF IsSeq, Elements, E

LEMMA FrontierFinite ==
    ASSUME NEW js, IsFiniteSet(js), NEW anchor, NEW h \in 0 .. MaxHops
    PROVE  IsFiniteSet(Frontier(js, anchor, h))
<1>m. MaxHops \in Nat
  BY MaxHopsAssumption
<1> DEFINE S == {n \in Nat : IsFiniteSet(Frontier(js, anchor, n))}
<1>1. 0 \in S
  <2>1. Frontier(js, anchor, 0) = {<<anchor>>}
    BY LayerZero
  <2>2. QED
    BY <2>1, FS_Singleton
<1>2. ASSUME NEW n \in 0 .. MaxHops - 1, n \in S PROVE n + 1 \in S
  <2> DEFINE F == Frontier(js, anchor, n)
             Nexts(p) == Neighbors(js, Last(p)) \ Visited(js, anchor, n)
             Grown(p) == {Append(p, x) : x \in Nexts(p)}
             T == {Grown(p) : p \in F}
  <2>1. ASSUME NEW p PROVE IsFiniteSet(Grown(p))
    <3>1. Nexts(p) \subseteq Entities(js)
      BY DEF Neighbors, Entities
    <3>2. IsFiniteSet(Nexts(p))
      BY <3>1, EntitiesFinite, FS_Subset
    <3> DEFINE A == Nexts(p)
               B == Grown(p)
               f == [x \in A |-> Append(p, x)]
    <3>3. f \in Surjection(A, B)
      <4>1. f \in [A -> B]
        OBVIOUS
      <4>2. \A t \in B : \E x \in A : f[x] = t
        OBVIOUS
      <4> HIDE DEF f, A, B
      <4>3. QED
        BY <4>1, <4>2 DEF Surjection
    <3>4. IsFiniteSet(A)
      BY <3>2
    <3> HIDE DEF f, A, B
    <3>5. IsFiniteSet(B)
      BY <3>3, <3>4, FS_Surjection
    <3>6. QED
      BY <3>5 DEF B
  <2>2. IsFiniteSet(T)
    <3> DEFINE f == [p \in F |-> Grown(p)]
    <3> HIDE DEF Grown
    <3>1. f \in Surjection(F, T)
      BY DEF Surjection
    <3>2. IsFiniteSet(F)
      BY <1>2
    <3> HIDE DEF f, F, T
    <3>3. QED
      BY <3>1, <3>2, FS_Surjection
  <2>3. \A t \in T : IsFiniteSet(t)
    BY <2>1
  <2>4. \A q : q \in Frontier(js, anchor, n + 1) <=> Extends(js, anchor, n, q)
    BY LayerNext
  <2>5. \A q : Extends(js, anchor, n, q) <=> q \in UNION T
    BY DEF Extends
  <2>6. Frontier(js, anchor, n + 1) = UNION T
    <3> HIDE DEF T
    <3>1. QED
      BY <2>4, <2>5
  <2>7. IsFiniteSet(UNION T)
    <3> HIDE DEF T
    <3>1. QED
      BY <2>2, <2>3, FS_UNION
  <2>8. IsFiniteSet(Frontier(js, anchor, n + 1))
    <3> HIDE DEF T
    <3>1. QED
      BY <2>6, <2>7
  <2>9. n + 1 \in Nat
    OBVIOUS
  <2>10. QED
    BY <2>8, <2>9
<1> HIDE DEF S
<1>3. h \in S
  BY <1>m, <1>1, <1>2, UpTo
<1>4. QED
  BY <1>3 DEF S

LEMMA SearchFinite ==
    ASSUME NEW js, IsFiniteSet(js), NEW anchor, NEW target
    PROVE  IsFiniteSet(_structural_shortest_paths(js, anchor, target))
<1> DEFINE found == _structural_shortest_paths(js, anchor, target)
<1>1. CASE found = {}
  BY <1>1, FS_EmptySet
<1>2. CASE found # {}
  <2>1. PICK h \in 1 .. MaxHops : found = Found(js, anchor, target, h)
    BY <1>2, FirstHit
  <2>2. found \subseteq Frontier(js, anchor, h) /\ h \in 0 .. MaxHops
    BY <2>1, MaxHopsAssumption DEF Found, Frontier
  <2> HIDE DEF found
  <2>3. QED
    BY <2>2, FrontierFinite, FS_Subset DEF found
<1>3. QED
  BY <1>1, <1>2

\* A walk to an entity of another one goes on with the rest of that one.
Splice(w, p, a) ==
    [k \in 1 .. Len(w) + (Len(p) - a) |-> IF k <= Len(w) THEN w[k] ELSE p[(k - Len(w)) + a]]

Continues(q, w, p, a) ==
    /\ Len(q) = Len(w) + (Len(p) - a) /\ Last(q) = Last(p)
    /\ \A k \in 1 .. Len(w) : q[k] = w[k]

LEMMA SpliceWalks ==
    ASSUME NEW js, NEW anchor, NEW w, IsWalk(js, anchor, w), NEW p, IsWalk(js, anchor, p),
           NEW a \in 1 .. Len(p), Last(w) = p[a]
    PROVE  IsWalk(js, anchor, Splice(w, p, a)) /\ Continues(Splice(w, p, a), w, p, a)
<1>0. Len(w) \in Nat \ {0} /\ Len(p) \in Nat \ {0} /\ Len(p) - a \in Nat
  BY IsSeqFacts DEF IsWalk
<1>1. PICK q : q = Splice(w, p, a)
  OBVIOUS
<1>2. PICK n : n = Len(w) + (Len(p) - a)
  OBVIOUS
<1>3. n \in Nat /\ n >= Len(w)
  BY <1>0, <1>2
<1>4. q = [k \in 1 .. n |-> q[k]]
  BY <1>1, <1>2 DEF Splice
<1>5. IsSeq(q) /\ Len(q) = n
  BY <1>3, <1>4, FunctionIsSeq
<1>6. \A k \in 1 .. n : q[k] = IF k <= Len(w) THEN w[k] ELSE p[(k - Len(w)) + a]
  BY <1>1, <1>2 DEF Splice
<1>7. \A k \in 1 .. Len(w) : q[k] = w[k]
  BY <1>0, <1>3, <1>6
<1>8. \A k \in Len(w) .. n : q[k] = p[(k - Len(w)) + a] /\ (k - Len(w)) + a \in 1 .. Len(p)
  <2>1. TAKE k \in Len(w) .. n
  <2>2. CASE k = Len(w)
    <3>1. (k - Len(w)) + a = a /\ k \in 1 .. Len(w)
      BY <1>0, <2>2
    <3>2. QED
      BY <1>7, <2>2, <3>1 DEF Last
  <2>3. CASE k # Len(w)
    BY <1>0, <1>2, <1>3, <1>6, <2>3
  <2>4. QED
    BY <2>2, <2>3
<1>9. ASSUME NEW k \in 1 .. n - 1 PROVE q[k + 1] \in Neighbors(js, q[k])
  <2>1. CASE k < Len(w)
    <3>1. k \in 1 .. Len(w) /\ k + 1 \in 1 .. Len(w) /\ k \in 1 .. Len(w) - 1
      BY <1>0, <2>1
    <3>2. QED
      BY <1>7, <3>1 DEF IsWalk
  <2>2. CASE k >= Len(w)
    <3>1. PICK i : i = (k - Len(w)) + a
      OBVIOUS
    <3>2. /\ k \in Len(w) .. n /\ k + 1 \in Len(w) .. n /\ ((k + 1) - Len(w)) + a = i + 1
          /\ i \in 1 .. Len(p) - 1
      BY <1>0, <1>2, <1>3, <2>2, <3>1
    <3>3. q[k] = p[i] /\ q[k + 1] = p[i + 1]
      BY <1>8, <3>1, <3>2
    <3>4. QED
      BY <3>2, <3>3 DEF IsWalk
  <2>3. QED
    BY <1>0, <1>3, <2>1, <2>2
<1>10. q[1] = anchor /\ n # 0
  <2>1. 1 \in 1 .. Len(w) /\ n # 0
    BY <1>0, <1>3
  <2>2. w[1] = anchor
    BY DEF IsWalk
  <2>3. QED
    BY <1>7, <2>1, <2>2
<1>11. IsWalk(js, anchor, q)
  BY <1>5, <1>9, <1>10 DEF IsWalk
<1>12. Last(q) = Last(p)
  <2>1. n \in Len(w) .. n /\ (n - Len(w)) + a = Len(p)
    BY <1>0, <1>2, <1>3
  <2>2. q[n] = p[Len(p)]
    BY <1>8, <2>1
  <2>3. QED
    BY <1>5, <2>2 DEF Last
<1>13. QED
  BY <1>1, <1>2, <1>5, <1>7, <1>11, <1>12 DEF Continues

\* If one path to the target is shortest, its beginnings are the only shortest
\* paths to the entities on the way.
LEMMA UniquePrefix ==
    ASSUME NEW js, NEW anchor, NEW target, NEW p, _structural_shortest_paths(js, anchor, target) = {p},
           NEW i \in 2 .. Len(p)
    PROVE  _structural_shortest_paths(js, anchor, p[i]) = {SubSeq(p, 1, i)}
<1>m. MaxHops \in Nat
  BY MaxHopsAssumption
<1> DEFINE found == _structural_shortest_paths(js, anchor, target)
           there == _structural_shortest_paths(js, anchor, p[i])
<1>1. PICK h \in 1 .. MaxHops :
         /\ \A w : w \in found <=> IsWalk(js, anchor, w) /\ Len(w) = h + 1 /\ Last(w) = target
         /\ \A w : w \in found => Simple(w)
         /\ \A w : IsWalk(js, anchor, w) /\ Last(w) = target => Len(w) >= h + 1
  BY SearchFindsShortest, SMTT(30)
<1>2. IsWalk(js, anchor, p) /\ Len(p) = h + 1 /\ Last(p) = target /\ Simple(p)
  BY <1>1
<1>3. IsSeq(p) /\ i \in 1 .. Len(p) /\ 1 \in 1 .. Len(p) /\ i # 1 /\ i \in 0 .. Len(p) /\ Len(p) \in Nat
      /\ i \in Nat
  BY <1>m, <1>2 DEF IsWalk
<1>4. PICK u : u = SubSeq(p, 1, i)
  OBVIOUS
<1>5. IsSeq(u) /\ Len(u) = i /\ \A k \in 1 .. i : u[k] = p[k]
  BY <1>3, <1>4, IsSeqPrefix
<1>6. IsWalk(js, anchor, u) /\ Last(u) = p[i]
  <2>1. ASSUME NEW k \in 1 .. i - 1 PROVE u[k + 1] \in Neighbors(js, u[k])
    <3>1. k \in 1 .. i /\ k + 1 \in 1 .. i /\ k \in 1 .. Len(p) - 1
      BY <1>3
    <3>2. QED
      BY <1>2, <1>5, <3>1 DEF IsWalk
  <2>2. u[1] = anchor /\ u[i] = p[i]
    BY <1>2, <1>3, <1>5 DEF IsWalk
  <2>3. QED
    BY <1>3, <1>5, <2>1, <2>2 DEF IsWalk, Last
<1>7. p[i] # anchor
  BY <1>2, <1>3 DEF IsWalk, Simple
<1>8. there # {}
  <2>1. Len(u) <= MaxHops + 1
    BY <1>m, <1>2, <1>3, <1>5
  <2>2. QED
    BY <1>6, <1>7, <2>1, WalkIsFound
<1>9. ASSUME NEW w, IsWalk(js, anchor, w), Last(w) = p[i], Len(w) <= i PROVE w = u
  <2>1. PICK q : q = Splice(w, p, i)
    OBVIOUS
  <2>2. /\ IsWalk(js, anchor, q) /\ Len(q) = Len(w) + (Len(p) - i) /\ Last(q) = target
        /\ \A k \in 1 .. Len(w) : q[k] = w[k]
    <3>1. /\ IsWalk(js, anchor, q) /\ Len(q) = Len(w) + (Len(p) - i) /\ Last(q) = Last(p)
          /\ \A k \in 1 .. Len(w) : q[k] = w[k]
      <4>1. IsWalk(js, anchor, w) /\ IsWalk(js, anchor, p) /\ i \in 1 .. Len(p) /\ Last(w) = p[i]
        BY <1>2, <1>3, <1>9
      <4>2. IsWalk(js, anchor, Splice(w, p, i)) /\ Continues(Splice(w, p, i), w, p, i)
        BY <4>1, SpliceWalks
      <4>3. QED
        BY <2>1, <4>2 DEF Continues
    <3>2. QED
      BY <1>2, <3>1
  <2>3. Len(w) \in Nat /\ IsSeq(w)
    BY <1>9, IsSeqFacts DEF IsWalk
  <2>4. Len(q) >= h + 1
    BY <1>1, <2>2
  <2>5. Len(q) = h + 1 /\ Len(w) = i
    BY <1>2, <1>3, <1>9, <2>2, <2>3, <2>4
  <2>6. q = p
    BY <1>1, <2>2, <2>5
  <2>7. QED
    BY <1>5, <2>2, <2>3, <2>5, <2>6, SameSeq
<1>10. PICK k \in 1 .. MaxHops :
         /\ \A w : w \in there <=> IsWalk(js, anchor, w) /\ Len(w) = k + 1 /\ Last(w) = p[i]
         /\ \A w : IsWalk(js, anchor, w) /\ Last(w) = p[i] => Len(w) >= k + 1
  BY <1>8, SearchFindsShortest
<1>11. k + 1 <= i
  BY <1>5, <1>6, <1>10
<1>12. \A w \in there : w = u
  BY <1>9, <1>10, <1>11
<1> HIDE DEF there
<1>13. there = {u}
  BY <1>8, <1>12
<1>14. QED
  BY <1>4, <1>13 DEF there

\* The hop over the only join between two entities, and the chain of such hops.
Hop(js, a, b) ==
    LET j == CHOOSE j \in Between(js, a, b) : TRUE
    IN  [name |-> j.name, source |-> a, target |-> b,
         card |-> IF j.source = a THEN j.card ELSE flip_cardinality(j.card)]

ChainOf(js, p) == [i \in 1 .. Len(p) - 1 |-> Hop(js, p[i], p[i + 1])]

\* One shortest path leads to the target, with one join on each hop.
Forced(js, anchor, target, p) ==
    /\ _structural_shortest_paths(js, anchor, target) = {p}
    /\ {anchor, target} \subseteq Entities(js)
    /\ \A i \in 1 .. Len(p) - 1 : Cardinality(Between(js, p[i], p[i + 1])) = 1

ChainTo(js, anchor, target) == _find_canonical_chain(js, anchor, target, {})

LEMMA ForcedChain ==
    ASSUME NEW js, IsFiniteSet(js), NEW anchor, NEW target, ChainTo(js, anchor, target).error = "none"
    PROVE  \E p : Forced(js, anchor, target, p) /\ ChainTo(js, anchor, target).chain = ChainOf(js, p)
<1> DEFINE structural == _structural_shortest_paths(js, anchor, target)
           feasible == _filter_structural_paths_by_via(js, structural, {})
           path == CHOOSE p \in feasible : TRUE
           choice(i) == HopChoice(js, path[i], path[i + 1], {})
           step(i) == LET j == CHOOSE j \in choice(i) : TRUE
                      IN  [name |-> j.name, source |-> path[i], target |-> path[i + 1],
                           card |-> IF j.source = path[i] THEN j.card ELSE flip_cardinality(j.card)]
           found == [error |-> "none", chain |-> [i \in 1 .. Len(path) - 1 |-> step(i)]]
<1>1. /\ {anchor, target} \subseteq Entities(js)
      /\ structural # {} /\ feasible # {} /\ ~(Cardinality(feasible) > 1)
      /\ ~(\E i \in 1 .. Len(path) - 1 : Cardinality(choice(i)) # 1)
      /\ ChainTo(js, anchor, target) = found
  BY DEF _find_canonical_chain, ChainTo
<1>2. feasible = structural
  BY DEF _filter_structural_paths_by_via
<1>3. structural = {path}
  <2>1. IsFiniteSet(structural)
    BY SearchFinite
  <2>2. path \in structural
    BY <1>1, <1>2
  <2>3. ~(Cardinality(structural) > 1)
    BY <1>1, <1>2
  <2> HIDE DEF structural, path
  <2>4. Cardinality(structural) \in Nat
    BY <2>1, FS_CardinalityType
  <2>5. Cardinality(structural) # 0
    BY <2>1, <2>2, FS_EmptySet
  <2>6. Cardinality(structural) = 1
    BY <2>3, <2>4, <2>5
  <2>7. PICK x : structural = {x}
    BY <2>1, <2>6, FS_Singleton
  <2>8. QED
    BY <2>2, <2>7
<1>4. ASSUME NEW i \in 1 .. Len(path) - 1
      PROVE  Cardinality(Between(js, path[i], path[i + 1])) = 1 /\ choice(i) = Between(js, path[i], path[i + 1])
  <2>1. Cardinality(choice(i)) = 1
    BY <1>1
  <2> HIDE DEF path
  <2>2. CASE Cardinality(Between(js, path[i], path[i + 1])) = 1
    BY <2>2 DEF HopChoice
  <2>3. CASE Cardinality(Between(js, path[i], path[i + 1])) # 1
    <3>1. choice(i) = {}
      BY <2>3 DEF HopChoice
    <3>2. Cardinality(choice(i)) = 0
      BY <3>1, FS_EmptySet
    <3>3. QED
      BY <2>1, <3>2
  <2>4. QED
    BY <2>2, <2>3
<1>5. Forced(js, anchor, target, path)
  BY <1>1, <1>3, <1>4 DEF Forced
<1>6. found.chain = ChainOf(js, path)
  <2>1. ASSUME NEW i \in 1 .. Len(path) - 1 PROVE step(i) = Hop(js, path[i], path[i + 1])
    <3>1. choice(i) = Between(js, path[i], path[i + 1])
      BY <1>4
    <3> HIDE DEF path, choice
    <3>2. QED
      BY <3>1 DEF Hop
  <2> HIDE DEF step, path
  <2>2. QED
    BY <2>1 DEF ChainOf
<1>7. QED
  BY <1>1, <1>5, <1>6

LEMMA ForcedIsFound ==
    ASSUME NEW js, NEW anchor, NEW target, NEW p, Forced(js, anchor, target, p)
    PROVE  ChainTo(js, anchor, target) = [error |-> "none", chain |-> ChainOf(js, p)]
<1> DEFINE structural == _structural_shortest_paths(js, anchor, target)
           feasible == _filter_structural_paths_by_via(js, structural, {})
           path == CHOOSE q \in feasible : TRUE
           choice(i) == HopChoice(js, path[i], path[i + 1], {})
           step(i) == LET j == CHOOSE j \in choice(i) : TRUE
                      IN  [name |-> j.name, source |-> path[i], target |-> path[i + 1],
                           card |-> IF j.source = path[i] THEN j.card ELSE flip_cardinality(j.card)]
           found == [error |-> "none", chain |-> [i \in 1 .. Len(path) - 1 |-> step(i)]]
<1>1. structural = {p} /\ feasible = {p}
  BY DEF _filter_structural_paths_by_via, Forced
<1>2. path = p
  BY <1>1
<1>3. ~(Cardinality(feasible) > 1)
  <2>1. Cardinality({p}) = 1
    BY FS_Singleton
  <2>2. QED
    BY <1>1, <2>1
<1>4. ASSUME NEW i \in 1 .. Len(path) - 1
      PROVE  Cardinality(choice(i)) = 1 /\ choice(i) = Between(js, p[i], p[i + 1])
  BY <1>2, <1>4 DEF HopChoice, Forced
<1>5. ChainTo(js, anchor, target) = found
  <2>1. {anchor, target} \subseteq Entities(js) /\ structural # {} /\ feasible # {}
    BY <1>1 DEF Forced
  <2>2. ~(\E i \in 1 .. Len(path) - 1 : Cardinality(choice(i)) # 1)
    BY <1>4
  <2>3. QED
    BY <1>3, <2>1, <2>2 DEF _find_canonical_chain, ChainTo
<1>6. found.chain = ChainOf(js, p)
  <2>1. ASSUME NEW i \in 1 .. Len(path) - 1 PROVE step(i) = Hop(js, p[i], p[i + 1])
    <3>1. choice(i) = Between(js, p[i], p[i + 1]) /\ path = p
      BY <1>2, <1>4
    <3> HIDE DEF path, choice
    <3>2. QED
      BY <3>1 DEF Hop
  <2> HIDE DEF step, path
  <2>2. QED
    BY <1>2, <2>1 DEF ChainOf
<1>7. QED
  BY <1>5, <1>6

LEMMA ForcedPath ==
    ASSUME NEW js, NEW anchor, NEW target, NEW p, Forced(js, anchor, target, p)
    PROVE  IsWalk(js, anchor, p) /\ Simple(p) /\ IsSeq(p) /\ Len(p) \in Nat /\ Len(p) >= 2
<1> DEFINE found == _structural_shortest_paths(js, anchor, target)
<1>1. found = {p}
  BY DEF Forced
<1>2. PICK h \in 1 .. MaxHops :
         /\ \A w : w \in found <=> IsWalk(js, anchor, w) /\ Len(w) = h + 1 /\ Last(w) = target
         /\ \A w : w \in found => Simple(w)
  BY <1>1, SearchFindsShortest
<1>3. IsWalk(js, anchor, p) /\ Simple(p) /\ Len(p) = h + 1
  BY <1>1, <1>2
<1>4. QED
  BY <1>3, MaxHopsAssumption DEF IsWalk

LEMMA ForcedPrefix ==
    ASSUME NEW js, IsFiniteSet(js), NEW anchor, NEW target, NEW p, Forced(js, anchor, target, p),
           NEW i \in 2 .. Len(p)
    PROVE  Forced(js, anchor, p[i], SubSeq(p, 1, i))
<1>2. IsWalk(js, anchor, p) /\ Simple(p) /\ IsSeq(p) /\ Len(p) \in Nat /\ Len(p) >= 2
  BY ForcedPath
<1>3. Len(p) # 1 /\ i \in 1 .. Len(p) /\ i \in 0 .. Len(p)
  <2>1. PICK n : n = Len(p)
    OBVIOUS
  <2>2. n \in Nat /\ n >= 2 /\ i \in 2 .. n
    BY <1>2, <2>1
  <2>3. n # 1 /\ i \in 1 .. n /\ i \in 0 .. n
    BY <2>2
  <2>4. QED
    BY <2>1, <2>3
<1>4. p[i] \in Entities(js)
  BY <1>2, <1>3, SimpleIsShort
<1>5. PICK u : u = SubSeq(p, 1, i)
  OBVIOUS
<1>6. IsSeq(u) /\ Len(u) = i /\ \A k \in 1 .. i : u[k] = p[k]
  BY <1>2, <1>3, <1>5, IsSeqPrefix
<1>7. _structural_shortest_paths(js, anchor, p[i]) = {u}
  <2>1. _structural_shortest_paths(js, anchor, target) = {p}
    BY DEF Forced
  <2>2. _structural_shortest_paths(js, anchor, p[i]) = {SubSeq(p, 1, i)}
    BY <2>1, UniquePrefix
  <2>3. QED
    BY <1>5, <2>2
<1>8. ASSUME NEW k \in 1 .. Len(u) - 1 PROVE Cardinality(Between(js, u[k], u[k + 1])) = 1
  <2>1. k \in 1 .. i /\ k + 1 \in 1 .. i /\ k \in 1 .. Len(p) - 1
    BY <1>2, <1>3, <1>6
  <2>2. u[k] = p[k] /\ u[k + 1] = p[k + 1]
    BY <1>6, <2>1
  <2>3. QED
    BY <2>1, <2>2 DEF Forced
<1>9. Forced(js, anchor, p[i], u)
  BY <1>4, <1>7, <1>8 DEF Forced
<1>10. QED
  BY <1>5, <1>9

\* A hop the graph leaves no choice about: it ends the chain to its target.
Settled(js, anchor, hop) ==
    /\ ChainTo(js, anchor, hop.target).error = "none"
    /\ hop = Last(ChainTo(js, anchor, hop.target).chain)
    /\ Cardinality(Between(js, hop.source, hop.target)) = 1
    /\ Cardinality(ShortestPaths(js, anchor, hop.target)) = 1

\* Every hop of a chain is settled, and the chain to it is the beginning of that one.
LEMMA ChainIsSettled ==
    ASSUME NEW js, IsFiniteSet(js), NEW anchor, NEW target, ChainTo(js, anchor, target).error = "none",
           NEW hop \in Elements(ChainTo(js, anchor, target).chain)
    PROVE  /\ Settled(js, anchor, hop)
           /\ Elements(ChainTo(js, anchor, hop.target).chain) \subseteq Elements(ChainTo(js, anchor, target).chain)
           /\ hop \in Elements(ChainTo(js, anchor, hop.target).chain)
<1>1. PICK p : Forced(js, anchor, target, p) /\ ChainTo(js, anchor, target).chain = ChainOf(js, p)
  BY ForcedChain
<1>2. IsSeq(p) /\ Len(p) \in Nat /\ Len(p) - 1 \in Nat
  <2>1. IsSeq(p) /\ Len(p) \in Nat /\ Len(p) >= 2
    BY <1>1, ForcedPath
  <2>2. QED
    BY <2>1
<1>3. PICK c : c = ChainOf(js, p)
  OBVIOUS
<1>4. IsSeq(c) /\ Len(c) = Len(p) - 1 /\ \A i \in 1 .. Len(c) : c[i] = Hop(js, p[i], p[i + 1])
  <2>1. c = [i \in 1 .. Len(p) - 1 |-> c[i]]
    BY <1>3 DEF ChainOf
  <2>2. IsSeq(c) /\ Len(c) = Len(p) - 1
    BY <1>2, <2>1, FunctionIsSeq
  <2>3. QED
    BY <1>3, <2>2 DEF ChainOf
<1>5. PICK i \in 1 .. Len(c) : hop = c[i]
  BY <1>1, <1>3 DEF Elements
<1>6. hop.source = p[i] /\ hop.target = p[i + 1]
  <2>1. hop = Hop(js, p[i], p[i + 1])
    BY <1>4, <1>5
  <2>2. \A a, b : Hop(js, a, b).source = a /\ Hop(js, a, b).target = b
    BY DEF Hop
  <2>3. QED
    BY <2>1, <2>2
<1>7. i + 1 \in 2 .. Len(p) /\ i + 1 \in 0 .. Len(p) /\ i \in 1 .. Len(p) - 1 /\ i \in Nat \ {0} /\ (i + 1) - 1 = i
  BY <1>2, <1>4
<1>8. PICK u : u = SubSeq(p, 1, i + 1)
  OBVIOUS
<1>9. IsSeq(u) /\ Len(u) = i + 1 /\ \A k \in 1 .. i + 1 : u[k] = p[k]
  BY <1>2, <1>7, <1>8, IsSeqPrefix
<1>10. Forced(js, anchor, hop.target, u)
  BY <1>1, <1>6, <1>7, <1>8, ForcedPrefix
<1>11. ChainTo(js, anchor, hop.target) = [error |-> "none", chain |-> ChainOf(js, u)]
  BY <1>10, ForcedIsFound
<1>12. PICK d : d = ChainOf(js, u)
  OBVIOUS
<1>13. IsSeq(d) /\ Len(d) = i
  <2>1. d = [k \in 1 .. i |-> d[k]]
    BY <1>7, <1>9, <1>12 DEF ChainOf
  <2>2. QED
    BY <1>7, <2>1, FunctionIsSeq
<1>14. \A k \in 1 .. i : d[k] = c[k] /\ k \in 1 .. Len(c)
  <2>1. TAKE k \in 1 .. i
  <2>2. k \in 1 .. Len(u) - 1 /\ k \in 1 .. i + 1 /\ k + 1 \in 1 .. i + 1 /\ k \in 1 .. Len(c)
    BY <1>4, <1>7, <1>9
  <2>3. d[k] = Hop(js, u[k], u[k + 1])
    BY <1>12, <2>2 DEF ChainOf
  <2>4. QED
    BY <1>4, <1>9, <2>2, <2>3
<1>15. Elements(d) \subseteq Elements(c) /\ hop = d[i] /\ hop \in Elements(d) /\ hop = Last(d)
  <2>1. i \in 1 .. i
    BY <1>7
  <2>2. hop = d[i]
    BY <1>5, <1>14, <2>1
  <2>3. QED
    BY <1>13, <1>14, <2>1, <2>2 DEF Elements, Last
<1>16. Cardinality(Between(js, hop.source, hop.target)) = 1
  BY <1>1, <1>6, <1>7 DEF Forced
<1>17. Cardinality(ShortestPaths(js, anchor, hop.target)) = 1
  <2>1. ShortestPaths(js, anchor, hop.target) = {u}
    BY <1>10, SearchIsExact DEF Forced
  <2>2. QED
    BY <2>1, FS_Singleton
<1>18. ChainTo(js, anchor, hop.target).error = "none" /\ ChainTo(js, anchor, hop.target).chain = d
  BY <1>11, <1>12
<1>19. QED
  BY <1>1, <1>3, <1>15, <1>16, <1>17, <1>18 DEF Settled

LEMMA AnchorHasNoChain ==
    ASSUME NEW js, NEW anchor
    PROVE  ChainTo(js, anchor, anchor).chain = <<>>
<1>1. _structural_shortest_paths(js, anchor, anchor) = {}
  <2>1. SUFFICES ASSUME _structural_shortest_paths(js, anchor, anchor) # {} PROVE FALSE
    OBVIOUS
  <2>2. \E h \in 1 .. MaxHops : anchor # anchor
    BY <2>1, SearchFindsShortest
  <2>3. QED
    BY <2>2
<1>2. QED
  BY <1>1 DEF ChainTo, _find_canonical_chain

-----------------------------------------------------------------------------
(* The plan. *)

\* JoinsAreTopological of any plan.
Topological(plan) ==
    \A i \in 1 .. Len(plan) :
        /\ plan[i].source \in {Anchor} \cup {plan[k].target : k \in 1 .. i - 1}
        /\ plan[i].target \notin {Anchor} \cup {plan[k].target : k \in 1 .. i - 1}

ArePlans(f, n, r, chain) ==
    f = [i \in 0 .. n |->
            IF i = 0 THEN r
            ELSE IF chain[i].target \in Targets(f[i - 1]) THEN f[i - 1]
            ELSE Append(f[i - 1], chain[i])]

LEMMA PlansExist ==
    ASSUME NEW r, NEW chain, NEW N \in Nat
    PROVE  \E f : ArePlans(f, N, r, chain)
<1> USE DEF ArePlans
<1> DEFINE Grow(plan, i) == IF chain[i].target \in Targets(plan) THEN plan ELSE Append(plan, chain[i])
           S == {n \in Nat : \E f : ArePlans(f, n, r, chain)}
<1>1. 0 \in S
  <2>1. ArePlans([i \in 0 .. 0 |-> r], 0, r, chain)
    OBVIOUS
  <2>2. QED
    BY <2>1
<1>2. ASSUME NEW n \in 0 .. N - 1, n \in S PROVE n + 1 \in S
  <2>1. PICK f : ArePlans(f, n, r, chain)
    BY <1>2
  <2>2. f = [i \in 0 .. n |-> IF i = 0 THEN r ELSE Grow(f[i - 1], i)]
    BY <2>1
  <2> DEFINE g == [i \in 0 .. n + 1 |-> IF i = n + 1 THEN Grow(f[n], i) ELSE f[i]]
  <2> HIDE DEF Grow
  <2>3. ASSUME NEW i \in 0 .. n + 1
        PROVE  g[i] = IF i = 0 THEN r ELSE Grow(g[i - 1], i)
    <3>1. CASE i = n + 1
      <4>1. i - 1 = n /\ g[i - 1] = f[n] /\ g[i] = Grow(f[n], i)
        BY <3>1
      <4>2. QED
        BY <3>1, <4>1
    <3>2. CASE i # n + 1
      <4>1. i \in 0 .. n /\ g[i] = f[i] /\ (i # 0 => i - 1 \in 0 .. n /\ g[i - 1] = f[i - 1])
        BY <3>2
      <4>2. f[i] = IF i = 0 THEN r ELSE Grow(f[i - 1], i)
        BY <2>2, <4>1
      <4> HIDE DEF g
      <4>3. QED
        BY <4>1, <4>2
    <3>3. QED
      BY <3>1, <3>2
  <2>4. g = [i \in 0 .. n + 1 |-> g[i]]
    OBVIOUS
  <2> HIDE DEF g
  <2>5. g = [i \in 0 .. n + 1 |-> IF i = 0 THEN r ELSE Grow(g[i - 1], i)]
    BY <2>3, <2>4
  <2>6. ArePlans(g, n + 1, r, chain)
    BY <2>5 DEF Grow
  <2>7. QED
    BY <2>6
<1> HIDE DEF S
<1>3. N \in S
  BY <1>1, <1>2, UpTo
<1>4. QED
  BY <1>3 DEF S

LEMMA ExtendDef ==
    ASSUME NEW chain, Len(chain) \in Nat
    PROVE  \E f : ArePlans(f, Len(chain), resolved, chain) /\ Extend(chain) = f[Len(chain)]
<1> DEFINE f == CHOOSE f : ArePlans(f, Len(chain), resolved, chain)
<1>1. ArePlans(f, Len(chain), resolved, chain)
  BY PlansExist
<1>2. Extend(chain) = f[Len(chain)]
  BY DEF Extend, ArePlans
<1>3. QED
  BY <1>1, <1>2

\* Appending a hop that starts inside the plan and leads out of it.
LEMMA TopologicalAppend ==
    ASSUME NEW plan, IsSeq(plan), Topological(plan), Anchor \notin Targets(plan), NEW hop,
           hop.source \in Targets(plan) \cup {Anchor}, hop.target \notin Targets(plan) \cup {Anchor}
    PROVE  LET t == Append(plan, hop)
           IN  /\ IsSeq(t) /\ Topological(t) /\ Anchor \notin Targets(t)
               /\ Targets(t) = Targets(plan) \cup {hop.target}
<1>1. PICK t : t = Append(plan, hop)
  OBVIOUS
<1>2. /\ IsSeq(t) /\ Len(t) = Len(plan) + 1 /\ t[Len(plan) + 1] = hop
      /\ \A i \in 1 .. Len(plan) : t[i] = plan[i]
  BY <1>1, IsSeqAppend
<1>3. Len(plan) \in Nat
  BY IsSeqFacts
<1>4. Targets(t) = Targets(plan) \cup {hop.target}
  BY <1>2, <1>3 DEF Targets
<1>5. ASSUME NEW i \in 1 .. Len(t)
      PROVE  /\ t[i].source \in {Anchor} \cup {t[k].target : k \in 1 .. i - 1}
             /\ t[i].target \notin {Anchor} \cup {t[k].target : k \in 1 .. i - 1}
  <2>1. {t[k].target : k \in 1 .. i - 1} = {plan[k].target : k \in 1 .. i - 1}
    BY <1>2, <1>3
  <2>2. CASE i \in 1 .. Len(plan)
    BY <1>2, <2>1, <2>2 DEF Topological
  <2>3. CASE i = Len(plan) + 1
    <3>1. i - 1 = Len(plan)
      BY <1>3, <2>3
    <3>2. QED
      BY <1>2, <2>1, <2>3, <3>1 DEF Targets
  <2>4. QED
    BY <1>2, <1>3, <2>2, <2>3
<1>6. Topological(t)
  BY <1>5 DEF Topological
<1>7. QED
  BY <1>1, <1>2, <1>4, <1>6

\* Extending a plan along a chain keeps it in order and reaches the chain's end.
LEMMA ExtendKeepsOrder ==
    ASSUME NEW chain, NEW p, LeavesFrom(p, Anchor), Walks(chain, p),
           IsSeq(resolved), Topological(resolved), Anchor \notin Targets(resolved)
    PROVE  LET plan == Extend(chain)
           IN  /\ IsSeq(plan) /\ Topological(plan) /\ Anchor \notin Targets(plan)
               /\ Last(p) \in Targets(plan) \cup {Anchor}
<1> DEFINE n == Len(chain)
<1>1. n \in Nat /\ n = Len(p) - 1 /\ Len(p) \in Nat
  BY IsSeqFacts DEF LeavesFrom, Walks
<1>2. PICK f : ArePlans(f, n, resolved, chain) /\ Extend(chain) = f[n]
  BY <1>1, ExtendDef
<1> HIDE DEF n
<1> DEFINE Good(i) == /\ IsSeq(f[i]) /\ Topological(f[i]) /\ Anchor \notin Targets(f[i])
                      /\ p[i + 1] \in Targets(f[i]) \cup {Anchor}
           S == {i \in Nat : Good(i)}
<1>3. Good(0)
  <2>1. f[0] = resolved
    BY <1>1, <1>2 DEF ArePlans
  <2>2. QED
    BY <2>1 DEF LeavesFrom
<1>4. ASSUME NEW i \in 0 .. n - 1, Good(i) PROVE Good(i + 1)
  <2>1. i + 1 \in 0 .. n /\ i + 1 # 0 /\ (i + 1) - 1 = i /\ i + 1 \in 1 .. Len(p) - 1
    BY <1>1
  <2>2. f[i + 1] = IF chain[i + 1].target \in Targets(f[i]) THEN f[i] ELSE Append(f[i], chain[i + 1])
    BY <1>2, <2>1 DEF ArePlans
  <2>3. chain[i + 1].source = p[i + 1] /\ chain[i + 1].target = p[(i + 1) + 1]
    BY <2>1 DEF Walks
  <2>4. p[(i + 1) + 1] # Anchor
    BY <1>1, <2>1 DEF LeavesFrom
  <2>5. CASE chain[i + 1].target \in Targets(f[i])
    BY <1>4, <2>2, <2>3, <2>5
  <2>6. CASE chain[i + 1].target \notin Targets(f[i])
    <3>1. f[i + 1] = Append(f[i], chain[i + 1])
      BY <2>2, <2>6
    <3>2. /\ IsSeq(f[i + 1]) /\ Topological(f[i + 1]) /\ Anchor \notin Targets(f[i + 1])
          /\ Targets(f[i + 1]) = Targets(f[i]) \cup {chain[i + 1].target}
      BY <1>4, <2>3, <2>4, <2>6, <3>1, TopologicalAppend
    <3>3. QED
      BY <2>3, <3>2
  <2>7. QED
    BY <2>5, <2>6
<1> HIDE DEF Good
<1>5. n \in S
  <2>1. 0 \in S /\ \A i \in 0 .. n - 1 : i \in S => i + 1 \in S
    BY <1>1, <1>3, <1>4
  <2> HIDE DEF S
  <2>2. \A i \in 0 .. n : i \in S
    BY <1>1, <2>1, UpTo
  <2>3. QED
    BY <1>1, <2>2
<1>6. Last(p) = p[n + 1]
  BY <1>1 DEF Last
<1>7. QED
  BY <1>2, <1>5, <1>6 DEF Good

\* Where every hop is settled, the plan gains all the hops of the chain: one that is
\* skipped is in the plan already.
LEMMA ExtendIsUnion ==
    ASSUME NEW chain, IsSeq(chain), IsSeq(resolved), NEW js,
           \A hop \in Elements(resolved) \cup Elements(chain) : Settled(js, Anchor, hop)
    PROVE  Elements(Extend(chain)) = Elements(resolved) \cup Elements(chain)
<1> DEFINE n == Len(chain)
<1>1. n \in Nat
  BY IsSeqFacts
<1>2. PICK f : ArePlans(f, n, resolved, chain) /\ Extend(chain) = f[n]
  BY <1>1, ExtendDef
<1>3. PICK r : r = resolved
  OBVIOUS
<1> HIDE DEF n
<1> DEFINE Upto(i) == {chain[k] : k \in 1 .. i}
           Good(i) == IsSeq(f[i]) /\ Elements(f[i]) = Elements(r) \cup Upto(i)
           S == {i \in Nat : Good(i)}
<1>4. Good(0)
  <2>1. f[0] = r
    BY <1>1, <1>2, <1>3 DEF ArePlans
  <2>2. Upto(0) = {}
    OBVIOUS
  <2>3. QED
    BY <1>3, <2>1, <2>2
<1>5. ASSUME NEW i \in 0 .. n - 1, Good(i) PROVE Good(i + 1)
  <2>1. i + 1 \in 0 .. n /\ i + 1 # 0 /\ (i + 1) - 1 = i /\ i + 1 \in 1 .. n /\ i + 1 \in 1 .. i + 1
    BY <1>1
  <2>2. f[i + 1] = IF chain[i + 1].target \in Targets(f[i]) THEN f[i] ELSE Append(f[i], chain[i + 1])
    BY <1>2, <2>1 DEF ArePlans
  <2>3. Upto(i + 1) = Upto(i) \cup {chain[i + 1]}
    BY <2>1
  <2>4. chain[i + 1] \in Elements(chain) /\ Upto(i) \subseteq Elements(chain)
    BY <1>1, <2>1 DEF Elements, n
  <2> HIDE DEF Upto
  <2>5. CASE chain[i + 1].target \in Targets(f[i])
    <3>1. PICK hop \in Elements(f[i]) : hop.target = chain[i + 1].target
      BY <2>5 DEF Targets, Elements
    <3>2. Settled(js, Anchor, hop) /\ Settled(js, Anchor, chain[i + 1])
      BY <1>3, <1>5, <2>4, <3>1
    <3>3. hop = chain[i + 1]
      BY <3>1, <3>2 DEF Settled
    <3>4. QED
      BY <1>5, <2>2, <2>3, <2>5, <3>1, <3>3
  <2>6. CASE chain[i + 1].target \notin Targets(f[i])
    <3>1. PICK t : t = Append(f[i], chain[i + 1])
      OBVIOUS
    <3>2. PICK s : s = f[i]
      OBVIOUS
    <3>3. /\ IsSeq(t) /\ Len(t) = Len(s) + 1 /\ t[Len(s) + 1] = chain[i + 1]
          /\ \A k \in 1 .. Len(s) : t[k] = s[k]
      BY <1>5, <3>1, <3>2, IsSeqAppend
    <3>4. Len(s) \in Nat
      BY <1>5, <3>2, IsSeqFacts
    <3>5. Elements(t) = Elements(s) \cup {chain[i + 1]}
      BY <3>3, <3>4 DEF Elements
    <3>6. f[i + 1] = t
      BY <2>2, <2>6, <3>1
    <3>7. QED
      BY <1>5, <2>3, <3>2, <3>3, <3>5, <3>6
  <2>7. QED
    BY <2>5, <2>6
<1> HIDE DEF Good
<1>6. n \in S
  <2>1. 0 \in S /\ \A i \in 0 .. n - 1 : i \in S => i + 1 \in S
    BY <1>1, <1>4, <1>5
  <2> HIDE DEF S
  <2>2. \A i \in 0 .. n : i \in S
    BY <1>1, <2>1, UpTo
  <2>3. QED
    BY <1>1, <2>2
<1>7. Elements(f[n]) = Elements(r) \cup Upto(n)
  BY <1>6 DEF Good
<1>8. Upto(n) = Elements(chain)
  BY DEF Elements, n
<1>9. QED
  BY <1>2, <1>3, <1>7, <1>8

-----------------------------------------------------------------------------
(* The call. *)

PlanInv == IsSeq(resolved) /\ Topological(resolved) /\ Anchor \notin Targets(resolved)

\* A bucket that was not inherited is the metric's own time dimension.
BucketInv == ~inherited => bucket = NoRow \/ (req.localTime /\ bucket = <<Anchor, "ts">>)

\* What the gate let through.
Cleared ==
    /\ looked = Touched
    /\ CategoriesOf(Sampled) = {}
    /\ block = {} \/ \E c \in Touched : tags[c] # NoRow
    /\ Blocked(Touched) = {}

GateInv ==
    /\ pc = "execute" \/ outcome = "released" => Cleared
    /\ pc # "done" => outcome = "none"

IInv == PlanInv /\ BucketInv /\ GateInv

LEMMA ResolveKeepsPlan ==
    ASSUME PlanInv, NEW column, NEW after, _resolve(column, after)
    PROVE  PlanInv'
<1> DEFINE search == _find_canonical_chain(joins, Anchor, column[1], req.via)
<1>1. CASE UNCHANGED resolved
  BY <1>1 DEF PlanInv, IsSeq, Elements, Topological, Targets
<1>2. ASSUME search.error = "none", resolved' = Extend(search.chain) PROVE PlanInv'
  <2>1. PICK p : LeavesFrom(p, Anchor) /\ Walks(search.chain, p)
    BY <1>2, ChainWalks
  <2>2. PICK plan : plan = Extend(search.chain)
    OBVIOUS
  <2> HIDE DEF search
  <2>3. IsSeq(plan) /\ Topological(plan) /\ Anchor \notin Targets(plan)
    BY <2>1, <2>2, ExtendKeepsOrder DEF PlanInv
  <2>4. resolved' = plan
    BY <1>2, <2>2
  <2>5. QED
    BY <2>3, <2>4 DEF PlanInv, IsSeq, Elements, Topological, Targets
<1>3. QED
  BY <1>1, <1>2 DEF _resolve

\* Where _resolve leaves the call.
LEMMA ResolveGoesOn ==
    ASSUME NEW column, NEW after, _resolve(column, after)
    PROVE  \/ pc' = after /\ UNCHANGED outcome
           \/ pc' = "done" /\ outcome' \in {"unknown_via_join", "ambiguous_path", "ambiguous_join",
                                            "unreachable_entity", "unknown_column"}
<1> DEFINE search == _find_canonical_chain(joins, Anchor, column[1], req.via)
<1>1. search.error \in {"none", "unknown_via_join", "ambiguous_path", "ambiguous_join",
                        "unreachable_entity"}
  BY DEF _find_canonical_chain
<1> HIDE DEF search
<1>2. QED
  BY <1>1 DEF _resolve, Refuse, search

LEMMA CallInit ==
    ASSUME Init
    PROVE  IInv
<1>1. IsSeq(<<>>) /\ Topological(<<>>) /\ Targets(<<>>) = {}
  BY DEF IsSeq, Elements, Topological, Targets
<1>2. QED
  BY <1>1 DEF Init, IInv, PlanInv, BucketInv, GateInv

LEMMA CallStep ==
    ASSUME IInv, [Next]_vars
    PROVE  IInv'
<1> USE DEF IInv
<1>p. UNCHANGED resolved => PlanInv'
  BY DEF PlanInv, IsSeq, Elements, Topological, Targets
<1>i. UNCHANGED <<joins, tags, block, req>>
  BY DEF Next, vars, inputs, Begin, ResolveReference, ResolveTime, Gate, Execute
<1>c. UNCHANGED <<resolved, looked>> /\ Cleared => Cleared'
  BY <1>i DEF Cleared, Touched, Measure, GroupBy, OnColumns, CategoriesOf, Sampled, Blocked, Range
<1>1. CASE Begin
  BY <1>p, <1>i, <1>1 DEF Begin, BucketInv, GateInv, Refuse
<1>2. CASE ResolveReference
  <2>1. _resolve(Head(refs), "resolve") /\ pc = "resolve" /\ UNCHANGED <<bucket, inherited>>
    BY <1>2 DEF ResolveReference
  <2>2. PlanInv'
    BY <2>1, ResolveKeepsPlan
  <2>3. GateInv'
    BY <2>1, ResolveGoesOn DEF GateInv
  <2>4. QED
    BY <1>i, <2>1, <2>2, <2>3 DEF BucketInv
<1>3. CASE ResolveTime
  <2>0. pc = "resolve" /\ outcome = "none"
    BY <1>3 DEF ResolveTime, GateInv
  <2>1. ASSUME NEW column, _resolve(column, "gate"), inherited' = TRUE PROVE IInv'
    <3>1. PlanInv'
      BY <2>1, ResolveKeepsPlan
    <3>2. GateInv'
      BY <2>0, <2>1, ResolveGoesOn DEF GateInv
    <3>3. QED
      BY <2>1, <3>1, <3>2 DEF BucketInv
  <2>2. ASSUME UNCHANGED <<resolved, inherited>>,
               (pc' = "gate" /\ UNCHANGED outcome) \/ Refuse("ambiguous_time_dimension"),
               \/ UNCHANGED bucket
               \/ bucket' = NoRow
               \/ req.localTime /\ bucket' = <<Anchor, "ts">>
        PROVE  IInv'
    BY <1>p, <1>i, <2>0, <2>2 DEF BucketInv, GateInv, Refuse
  <2>3. QED
    BY <1>3, <2>1, <2>2 DEF ResolveTime
<1>4. CASE Gate
  <2>1. UNCHANGED <<resolved, bucket, inherited>> /\ pc = "gate"
    BY <1>4 DEF Gate
  <2>2. pc' = "execute" => Cleared'
    <3>1. Touched' = Touched /\ CategoriesOf(Sampled)' = CategoriesOf(Sampled)
          /\ Blocked(Touched)' = Blocked(Touched)
      BY <1>i, <2>1 DEF Touched, Measure, GroupBy, OnColumns, CategoriesOf, Sampled, Blocked, Range
    <3>2. QED
      BY <1>4, <1>i, <3>1 DEF Gate, Cleared, Refuse
  <2>3. GateInv'
    BY <1>4, <2>1, <2>2 DEF Gate, GateInv, Refuse
  <2>4. QED
    BY <1>p, <1>i, <2>1, <2>3 DEF BucketInv
<1>5. CASE Execute
  <2>1. UNCHANGED <<resolved, bucket, inherited, looked>> /\ Cleared /\ pc' = "done"
    BY <1>5 DEF Execute, GateInv
  <2>2. QED
    BY <1>p, <1>i, <1>c, <2>1 DEF BucketInv, GateInv
<1>6. CASE UNCHANGED vars
  <2>1. UNCHANGED <<pc, resolved, bucket, inherited, looked, outcome>>
    BY <1>6 DEF vars
  <2>2. QED
    BY <1>p, <1>i, <1>c, <2>1 DEF BucketInv, GateInv
<1>7. QED
  BY <1>1, <1>2, <1>3, <1>4, <1>5, <1>6 DEF Next

\* The plan under construction, the time bucket and the gate of a get_metric
\* call, whatever the joins, the tags, the policy and the request.
THEOREM MetricCorrect == Spec => []IInv
<1>1. Init => IInv
  BY CallInit
<1>2. IInv /\ [Next]_vars => IInv'
  BY CallStep
<1>3. QED
  BY <1>1, <1>2, PTL DEF Spec

\* The plan resolve_metric_plan builds never makes emit_sql raise: each join
\* starts from the anchor or from an entity joined before, none is joined
\* twice, and no chain leads back to the anchor.
THEOREM PlansAreOrdered == Spec => []JoinsAreTopological
<1>1. IInv => JoinsAreTopological
  BY DEF IInv, PlanInv, Topological, JoinsAreTopological
<1>2. QED
  BY <1>1, MetricCorrect, PTL

\* The PII gate of get_metric: a released result samples no tagged column, its
\* SQL (an inherited time bucket apart) touches no column of a blocked or
\* floor category, and under a policy something it touches was classified.
THEOREM ReleasesAreClean == Spec => []ReleasedIsClean
<1>1. IInv => ReleasedIsClean
  <2>1. SUFFICES ASSUME IInv, outcome = "released" PROVE ReleasedIsClean
    BY DEF ReleasedIsClean
  <2>2. Cleared
    BY <2>1 DEF IInv, GateInv
  <2> DEFINE S == SqlColumns \ (IF inherited THEN {bucket} ELSE {})
  <2>3. S \subseteq Touched
    BY <2>1 DEF SqlColumns, Touched, IInv, BucketInv
  <2>4. CategoriesOf(S) \subseteq CategoriesOf(Touched)
    <3> HIDE DEF S
    <3>1. QED
      BY <2>3 DEF CategoriesOf
  <2>5. CategoriesOf(S) \cap (block \cup FloorCategories) = {}
    <3> HIDE DEF S
    <3>1. QED
      BY <2>2, <2>4 DEF Cleared, Blocked
  <2>6. QED
    BY <2>2, <2>5 DEF Cleared, ReleasedIsClean
<1>2. QED
  BY <1>1, MetricCorrect, PTL

-----------------------------------------------------------------------------
(* The plan without `via`. *)

\* The request and the joins are those of a case.
CaseInv == \E x \in Cases : joins = x.joins /\ req = x.req

AllRefs == req.groupBy \o req.filters

\* What is still to resolve is the end of the references.
RefsInv ==
    /\ pc \in {"start", "resolve"} => ~inherited
    /\ pc = "start" => resolved = <<>>
    /\ pc = "resolve" =>
          /\ refs \in Seq(AnyColumn) /\ Len(refs) <= Len(AllRefs)
          /\ \A i \in 1 .. Len(refs) : refs[i] = AllRefs[(Len(AllRefs) - Len(refs)) + i]

Handled == {AllRefs[i] : i \in 1 .. Len(AllRefs) - Len(refs)}

ChainsTo(js, S) == UNION {Elements(ChainTo(js, Anchor, c[1]).chain) : c \in S}

Final == GroupBy \cup Range(req.filters) \cup (IF inherited THEN {bucket} ELSE {})

ForcedInv ==
    req.via = {} =>
        /\ \A hop \in Elements(resolved) : Settled(joins, Anchor, hop)
        /\ pc = "resolve" => Elements(resolved) = ChainsTo(joins, Handled)
        /\ pc = "gate" => Elements(resolved) = ChainsTo(joins, Final)

UInv == IInv /\ CaseInv /\ RefsInv /\ ForcedInv

LEMMA CaseFacts ==
    ASSUME CaseInv
    PROVE  IsFiniteSet(joins) /\ req.groupBy \in Seq(AnyColumn) /\ req.filters \in Seq(AnyColumn)
BY GetMetricAssumption DEF CaseInv

\* Resolving a column adds the chain to its entity.
LEMMA ResolveAdds ==
    ASSUME CaseInv, PlanInv, req.via = {}, NEW S, Elements(resolved) = ChainsTo(joins, S),
           \A hop \in Elements(resolved) : Settled(joins, Anchor, hop),
           NEW column, NEW after, _resolve(column, after)
    PROVE  /\ \A hop \in Elements(resolved') : Settled(joins, Anchor, hop)
           /\ pc' # "done" => Elements(resolved') = ChainsTo(joins, S \cup {column})
<1> DEFINE e == column[1]
           c == ChainTo(joins, Anchor, e)
<1>0. IsFiniteSet(joins)
  BY CaseFacts
<1>1. ChainsTo(joins, S \cup {column}) = ChainsTo(joins, S) \cup Elements(c.chain)
  BY DEF ChainsTo
<1>2. c = _find_canonical_chain(joins, Anchor, column[1], req.via)
  BY DEF ChainTo
<1>3. CASE e = Anchor
  <2>1. resolved' = resolved
    BY <1>3 DEF _resolve, Joined
  <2>2. c.chain = <<>>
    BY <1>3, AnchorHasNoChain
  <2>3. Elements(<<>>) = {}
    BY DEF Elements
  <2> HIDE DEF c
  <2>4. Elements(c.chain) = {}
    BY <2>2, <2>3
  <2>5. QED
    BY <1>1, <2>1, <2>4
<1>4. CASE e \in Targets(resolved)
  <2>1. resolved' = resolved
    BY <1>4 DEF _resolve, Joined
  <2>2. PICK hop \in Elements(resolved) : hop.target = e
    BY <1>4 DEF Targets, Elements
  <2>3. PICK d \in S : hop \in Elements(ChainTo(joins, Anchor, d[1]).chain)
    BY <2>2 DEF ChainsTo
  <2>4. ChainTo(joins, Anchor, d[1]).error = "none"
    <3>1. SUFFICES ASSUME ChainTo(joins, Anchor, d[1]).error # "none" PROVE FALSE
      OBVIOUS
    <3>2. ChainTo(joins, Anchor, d[1]).chain = <<>>
      BY <3>1 DEF ChainTo, _find_canonical_chain
    <3>3. Elements(<<>>) = {}
      BY DEF Elements
    <3>4. QED
      BY <2>3, <3>2, <3>3
  <2>5. Elements(ChainTo(joins, Anchor, hop.target).chain) \subseteq Elements(ChainTo(joins, Anchor, d[1]).chain)
    BY <1>0, <2>3, <2>4, ChainIsSettled
  <2>6. Elements(ChainTo(joins, Anchor, d[1]).chain) \subseteq ChainsTo(joins, S)
    BY DEF ChainsTo
  <2>7. Elements(c.chain) \subseteq ChainsTo(joins, S)
    BY <2>2, <2>5, <2>6
  <2> HIDE DEF c
  <2>8. QED
    BY <1>1, <2>1, <2>7
<1>5. CASE e # Anchor /\ e \notin Targets(resolved) /\ c.error # "none"
  <2> HIDE DEF c
  <2>1. resolved' = resolved /\ pc' = "done"
    BY <1>2, <1>5 DEF _resolve, Joined, Refuse
  <2>2. QED
    BY <2>1
<1>6. CASE e # Anchor /\ e \notin Targets(resolved) /\ c.error = "none"
  <2>1. resolved' = Extend(c.chain)
    <3> HIDE DEF c
    <3>1. QED
      BY <1>2, <1>6 DEF _resolve, Joined
  <2>2. IsSeq(c.chain)
    <3>1. PICK p : Forced(joins, Anchor, e, p) /\ c.chain = ChainOf(joins, p)
      BY <1>0, <1>6, ForcedChain
    <3>2. Len(p) \in Nat /\ Len(p) >= 2
      BY <3>1, ForcedPath
    <3>3. PICK d : d = ChainOf(joins, p)
      OBVIOUS
    <3>4. PICK m : m = Len(p) - 1
      OBVIOUS
    <3>5. m \in Nat
      BY <3>2, <3>4
    <3>6. d = [i \in 1 .. m |-> d[i]]
      BY <3>3, <3>4 DEF ChainOf
    <3>7. IsSeq(d)
      BY <3>5, <3>6, FunctionIsSeq
    <3>8. QED
      BY <3>1, <3>3, <3>7
  <2>3. \A hop \in Elements(c.chain) : Settled(joins, Anchor, hop)
    BY <1>0, <1>6, ChainIsSettled
  <2> HIDE DEF c
  <2>4. PICK chain : chain = c.chain
    OBVIOUS
  <2>5. \A hop \in Elements(resolved) \cup Elements(chain) : Settled(joins, Anchor, hop)
    BY <2>3, <2>4
  <2>6. Elements(Extend(chain)) = Elements(resolved) \cup Elements(chain)
    BY <2>2, <2>4, <2>5, ExtendIsUnion DEF PlanInv
  <2>7. Elements(resolved') = Elements(resolved) \cup Elements(chain)
    BY <2>1, <2>4, <2>6
  <2>8. QED
    BY <1>1, <2>4, <2>5, <2>7
<1>7. QED
  BY <1>3, <1>4, <1>5, <1>6

LEMMA ForcedInit ==
    ASSUME Init
    PROVE  UInv
<1>1. IInv
  BY CallInit
<1>2. Elements(<<>>) = {}
  BY DEF Elements
<1>3. QED
  BY <1>1, <1>2 DEF Init, UInv, CaseInv, RefsInv, ForcedInv

LEMMA ForcedStep ==
    ASSUME UInv, [Next]_vars
    PROVE  UInv'
<1>1. IInv /\ PlanInv /\ CaseInv /\ RefsInv /\ ForcedInv
  BY DEF UInv, IInv
<1>2. IInv'
  BY <1>1, CallStep
<1>3. UNCHANGED <<joins, req>>
  BY DEF Next, vars, inputs, Begin, ResolveReference, ResolveTime, Gate, Execute
<1>4. CaseInv'
  BY <1>1, <1>3 DEF CaseInv
<1>5. req.groupBy \in Seq(AnyColumn) /\ req.filters \in Seq(AnyColumn)
  BY <1>1, CaseFacts
<1>6. AllRefs \in Seq(AnyColumn) /\ AllRefs' = AllRefs
  BY <1>3, <1>5 DEF AllRefs
<1>7. Elements(<<>>) = {}
  BY DEF Elements
<1> SUFFICES RefsInv' /\ ForcedInv'
  BY <1>2, <1>4 DEF UInv
<1>8. CASE Begin
  <2>1. /\ pc = "start" /\ refs' = AllRefs /\ resolved' = resolved /\ inherited' = inherited
        /\ resolved = <<>> /\ ~inherited
    BY <1>1, <1>8 DEF Begin, AllRefs, RefsInv
  <2>2. pc' \in {"done", "resolve"}
    BY <1>8 DEF Begin, Refuse
  <2>3. RefsInv'
    <3>1. Len(AllRefs) \in Nat /\ Len(AllRefs) - Len(AllRefs) = 0
      BY <1>6
    <3>2. \A i \in 1 .. Len(AllRefs) : AllRefs[i] = AllRefs[(Len(AllRefs) - Len(AllRefs)) + i]
      BY <3>1
    <3>3. Len(AllRefs) <= Len(AllRefs)
      BY <3>1
    <3> HIDE DEF AllRefs
    <3>4. QED
      BY <1>6, <2>1, <2>2, <3>2, <3>3 DEF RefsInv
  <2>4. Handled' = {}
    <3>1. Len(AllRefs) \in Nat
      BY <1>6
    <3>2. 1 .. Len(AllRefs) - Len(AllRefs) = {}
      BY <3>1
    <3>3. QED
      BY <1>6, <2>1, <3>2 DEF Handled
  <2>5. ChainsTo(joins, {}) = {}
    BY DEF ChainsTo
  <2>6. ForcedInv'
    BY <1>3, <1>7, <2>1, <2>2, <2>4, <2>5 DEF ForcedInv
  <2>7. QED
    BY <2>3, <2>6
<1>9. CASE ResolveReference
  <2>1. /\ pc = "resolve" /\ refs # <<>> /\ refs' = Tail(refs) /\ inherited' = inherited /\ ~inherited
        /\ _resolve(Head(refs), "resolve")
    BY <1>1, <1>9 DEF ResolveReference, RefsInv
  <2>2. pc' \in {"resolve", "done"}
    BY <2>1, ResolveGoesOn
  <2>3. /\ refs \in Seq(AnyColumn) /\ Len(refs) <= Len(AllRefs)
        /\ \A i \in 1 .. Len(refs) : refs[i] = AllRefs[(Len(AllRefs) - Len(refs)) + i]
    BY <1>1, <2>1 DEF RefsInv
  <2>4. PICK n : n = Len(AllRefs)
    OBVIOUS
  <2>5. PICK m : m = Len(refs)
    OBVIOUS
  <2>6. n \in Nat /\ m \in Nat /\ m # 0 /\ m <= n
    BY <1>6, <2>1, <2>3, <2>4, <2>5
  <2>7. Tail(refs) \in Seq(AnyColumn) /\ Len(Tail(refs)) = m - 1 /\ Head(refs) = refs[1]
        /\ \A i \in 1 .. m - 1 : Tail(refs)[i] = refs[i + 1]
    BY <2>1, <2>3, <2>5
  <2>8. Head(refs) = AllRefs[(n - m) + 1]
    BY <2>3, <2>4, <2>5, <2>6, <2>7
  <2>9. \A i \in 1 .. m - 1 : Tail(refs)[i] = AllRefs[(n - (m - 1)) + i]
    <3>1. TAKE i \in 1 .. m - 1
    <3>2. i + 1 \in 1 .. m /\ (n - m) + (i + 1) = (n - (m - 1)) + i
      BY <2>6
    <3>3. refs[i + 1] = AllRefs[(n - m) + (i + 1)]
      BY <2>3, <2>4, <2>5, <3>2
    <3>4. QED
      BY <2>7, <3>2, <3>3
  <2>10. m - 1 <= n
    BY <2>6
  <2>11. RefsInv'
    BY <1>6, <2>1, <2>2, <2>4, <2>7, <2>9, <2>10 DEF RefsInv
  <2>12. Handled' = Handled \cup {Head(refs)}
    <3>1. Handled = {AllRefs[i] : i \in 1 .. n - m}
      BY <2>4, <2>5 DEF Handled
    <3>2. Handled' = {AllRefs[i] : i \in 1 .. n - (m - 1)}
      BY <1>6, <2>1, <2>4, <2>7 DEF Handled
    <3>3. 1 .. n - (m - 1) = (1 .. n - m) \cup {(n - m) + 1}
      BY <2>6
    <3>4. QED
      BY <2>8, <3>1, <3>2, <3>3
  <2>13. ForcedInv'
    <3>1. SUFFICES ASSUME req.via = {}
                   PROVE  /\ \A hop \in Elements(resolved') : Settled(joins, Anchor, hop)
                          /\ pc' = "resolve" => Elements(resolved') = ChainsTo(joins, Handled')
      BY <1>3, <2>2 DEF ForcedInv
    <3>2. /\ \A hop \in Elements(resolved) : Settled(joins, Anchor, hop)
          /\ Elements(resolved) = ChainsTo(joins, Handled)
      BY <1>1, <2>1, <3>1 DEF ForcedInv
    <3>3. PICK S : S = Handled
      OBVIOUS
    <3>4. /\ \A hop \in Elements(resolved') : Settled(joins, Anchor, hop)
          /\ pc' # "done" => Elements(resolved') = ChainsTo(joins, S \cup {Head(refs)})
      BY <1>1, <2>1, <3>1, <3>2, <3>3, ResolveAdds
    <3>5. QED
      BY <2>12, <3>3, <3>4
  <2>14. QED
    BY <2>11, <2>13
<1>10. CASE ResolveTime
  <2>1. pc = "resolve" /\ refs = <<>> /\ refs' = refs /\ ~inherited
    BY <1>1, <1>10 DEF ResolveTime, RefsInv
  <2>2. Handled = GroupBy \cup Range(req.filters)
    <3>1. PICK g : g = req.groupBy
      OBVIOUS
    <3>2. PICK f : f = req.filters
      OBVIOUS
    <3>3. g \in Seq(AnyColumn) /\ f \in Seq(AnyColumn)
      BY <1>5, <3>1, <3>2
    <3>4. {(g \o f)[i] : i \in 1 .. Len(g \o f)} = {g[i] : i \in 1 .. Len(g)} \cup {f[i] : i \in 1 .. Len(f)}
      <4>1. Len(g) \in Nat /\ Len(f) \in Nat /\ Len(g \o f) = Len(g) + Len(f)
        BY <3>3
      <4>2. \A i \in 1 .. Len(g) : i \in 1 .. Len(g \o f) /\ (g \o f)[i] = g[i]
        BY <3>3, <4>1
      <4>3. \A i \in 1 .. Len(f) : i + Len(g) \in 1 .. Len(g \o f) /\ (g \o f)[i + Len(g)] = f[i]
        BY <3>3, <4>1
      <4>4. \A i \in 1 .. Len(g \o f) : i \in 1 .. Len(g) \/ \E k \in 1 .. Len(f) : i = k + Len(g)
        <5>1. TAKE i \in 1 .. Len(g \o f)
        <5>2. CASE i > Len(g)
          <6>1. i - Len(g) \in 1 .. Len(f) /\ i = (i - Len(g)) + Len(g)
            BY <4>1, <5>2
          <6>2. QED
            BY <6>1
        <5>3. QED
          BY <4>1, <5>2
      <4>5. QED
        BY <4>2, <4>3, <4>4
    <3>5. DOMAIN g = 1 .. Len(g) /\ DOMAIN f = 1 .. Len(f)
      BY <3>3
    <3>6. Range(g) = {g[i] : i \in 1 .. Len(g)} /\ Range(f) = {f[i] : i \in 1 .. Len(f)}
      BY <3>5 DEF Range
    <3>7. AllRefs = g \o f
      BY <3>1, <3>2 DEF AllRefs
    <3>8. Len(<<>>) = 0 /\ Len(AllRefs) \in Nat
      BY <1>6
    <3>9. Len(AllRefs) - Len(refs) = Len(AllRefs)
      BY <2>1, <3>8
    <3>10. Handled = {(g \o f)[i] : i \in 1 .. Len(g \o f)}
      BY <3>7, <3>9 DEF Handled
    <3>11. GroupBy \cup Range(req.filters) = Range(g) \cup Range(f)
      BY <3>1, <3>2 DEF GroupBy
    <3>12. QED
      BY <3>4, <3>6, <3>10, <3>11
  <2>3. /\ GroupBy' = GroupBy
        /\ pc' \in {"gate", "done"}
        /\ \/ UNCHANGED resolved /\ UNCHANGED inherited
           \/ \E column : _resolve(column, "gate") /\ bucket' = column /\ inherited' = TRUE
    <3>1. GroupBy' = GroupBy
      BY <1>3 DEF GroupBy
    <3>2. \/ pc' \in {"gate", "done"} /\ UNCHANGED <<resolved, inherited>>
          \/ \E column : _resolve(column, "gate") /\ bucket' = column /\ inherited' = TRUE
      BY <1>10 DEF ResolveTime, Refuse
    <3>3. \A column : _resolve(column, "gate") => pc' \in {"gate", "done"}
      BY ResolveGoesOn
    <3>4. QED
      BY <3>1, <3>2, <3>3
  <2>4. RefsInv'
    BY <2>3 DEF RefsInv
  <2>5. ForcedInv'
    <3>1. SUFFICES ASSUME req.via = {}
                   PROVE  /\ \A hop \in Elements(resolved') : Settled(joins, Anchor, hop)
                          /\ pc' = "gate" => Elements(resolved') = ChainsTo(joins, Final')
      BY <1>3, <2>3 DEF ForcedInv
    <3>2. /\ \A hop \in Elements(resolved) : Settled(joins, Anchor, hop)
          /\ Elements(resolved) = ChainsTo(joins, Handled)
      BY <1>1, <2>1, <3>1 DEF ForcedInv
    <3>3. PICK S : S = Handled
      OBVIOUS
    <3>4. Final' = S \cup (IF inherited' THEN {bucket'} ELSE {})
      BY <1>3, <2>2, <2>3, <3>3 DEF Final
    <3>5. CASE UNCHANGED resolved /\ UNCHANGED inherited
      <4>1. Final' = S
        BY <2>1, <3>4, <3>5
      <4>2. QED
        BY <3>2, <3>3, <3>5, <4>1
    <3>6. ASSUME NEW column, _resolve(column, "gate"), bucket' = column, inherited' = TRUE
          PROVE  /\ \A hop \in Elements(resolved') : Settled(joins, Anchor, hop)
                 /\ pc' = "gate" => Elements(resolved') = ChainsTo(joins, Final')
      <4>1. /\ \A hop \in Elements(resolved') : Settled(joins, Anchor, hop)
            /\ pc' # "done" => Elements(resolved') = ChainsTo(joins, S \cup {column})
        BY <1>1, <3>1, <3>2, <3>3, <3>6, ResolveAdds
      <4>2. Final' = S \cup {column}
        BY <3>4, <3>6
      <4>3. QED
        BY <4>1, <4>2
    <3>7. QED
      BY <2>3, <3>5, <3>6
  <2>6. QED
    BY <2>4, <2>5
<1>11. CASE Gate \/ Execute
  <2>1. resolved' = resolved /\ pc' \in {"execute", "done"}
    BY <1>11 DEF Gate, Execute, Refuse
  <2>2. QED
    BY <1>1, <1>3, <2>1 DEF RefsInv, ForcedInv
<1>12. CASE UNCHANGED vars
  <2>1. UNCHANGED <<pc, refs, resolved, bucket, inherited>>
    BY <1>12 DEF vars
  <2>2. RefsInv'
    BY <1>1, <1>6, <2>1 DEF RefsInv
  <2>3. Handled' = Handled /\ Final' = Final
    BY <1>3, <1>6, <2>1 DEF Handled, Final, GroupBy
  <2>4. ForcedInv'
    BY <1>1, <1>3, <2>1, <2>3 DEF ForcedInv
  <2>5. QED
    BY <2>2, <2>4
<1>13. QED
  BY <1>8, <1>9, <1>10, <1>11, <1>12 DEF Next

\* The references still to resolve, the chains joined for those that were, and the
\* absence of any choice in them: the invariant behind the two theorems below.
THEOREM PlanCorrect == Spec => []UInv
<1>1. Init => UInv
  BY ForcedInit
<1>2. UInv /\ [Next]_vars => UInv'
  BY ForcedStep
<1>3. QED
  BY <1>1, <1>2, PTL DEF Spec

\* Without `via`, resolve_metric_plan never picks one of several joins or of several
\* shortest paths, for any graph: each hop of a plan that reaches the gate is the only
\* canonical join between its entities and lies on the only shortest path.
THEOREM NothingIsGuessed == Spec => []NoGuessedJoin
<1>1. UInv => NoGuessedJoin
  <2>1. SUFFICES ASSUME UInv, req.via = {}, NEW i \in 1 .. Len(resolved)
                 PROVE  /\ Cardinality(Between(joins, resolved[i].source, resolved[i].target)) = 1
                        /\ Cardinality(ShortestPaths(joins, Anchor, resolved[i].target)) = 1
    BY DEF NoGuessedJoin
  <2>2. resolved[i] \in Elements(resolved)
    BY DEF Elements
  <2>3. QED
    BY <2>1, <2>2 DEF UInv, ForcedInv, Settled
<1>2. QED
  BY <1>1, PlanCorrect, PTL

\* Without `via`, the plan that reaches the gate holds the chains to the entities the
\* request refers to and nothing else, in whatever order group_by and filters name
\* them: the hops skipped because their entity was joined before are in it already.
THEOREM PlansAreUnions == Spec => []PlanIsUnionOfChains
<1>1. UInv => PlanIsUnionOfChains
  <2>1. SUFFICES ASSUME UInv, pc = "gate", req.via = {} PROVE PlanIsUnionOfChains
    BY DEF PlanIsUnionOfChains
  <2>2. Range(resolved) = Elements(resolved)
    <3>1. DOMAIN resolved = 1 .. Len(resolved)
      BY <2>1, IsSeqFacts DEF UInv, IInv, PlanInv
    <3>2. QED
      BY <3>1 DEF Range, Elements
  <2>3. Elements(resolved) = ChainsTo(joins, Final)
    BY <2>1 DEF UInv, ForcedInv
  <2>4. \A e : Range(ChainTo(joins, Anchor, e).chain) = Elements(ChainTo(joins, Anchor, e).chain)
    <3>1. TAKE e
    <3>2. PICK c : c = ChainTo(joins, Anchor, e)
      OBVIOUS
    <3>3. IsFiniteSet(joins)
      BY <2>1, CaseFacts DEF UInv
    <3>4. CASE c.error # "none"
      <4>1. c.chain = <<>>
        BY <3>2, <3>4 DEF ChainTo, _find_canonical_chain
      <4>2. Range(<<>>) = {} /\ Elements(<<>>) = {}
        BY DEF Range, Elements
      <4>3. QED
        BY <3>2, <4>1, <4>2
    <3>5. CASE c.error = "none"
      <4>1. PICK p : Forced(joins, Anchor, e, p) /\ c.chain = ChainOf(joins, p)
        BY <3>2, <3>3, <3>5, ForcedChain
      <4>2. Len(p) \in Nat /\ Len(p) >= 2
        BY <4>1, ForcedPath
      <4>3. PICK d : d = ChainOf(joins, p)
        OBVIOUS
      <4>4. PICK m : m = Len(p) - 1
        OBVIOUS
      <4>5. m \in Nat
        BY <4>2, <4>4
      <4>6. d = [i \in 1 .. m |-> d[i]]
        BY <4>3, <4>4 DEF ChainOf
      <4>7. Len(d) = m
        BY <4>5, <4>6, FunctionIsSeq
      <4>8. Range(d) = Elements(d)
        BY <4>6, <4>7 DEF Range, Elements
      <4>9. QED
        BY <3>2, <4>1, <4>3, <4>8
    <3>6. QED
      BY <3>4, <3>5
  <2>5. Elements(ChainTo(joins, Anchor, Anchor).chain) = {}
    <3>1. ChainTo(joins, Anchor, Anchor).chain = <<>>
      BY AnchorHasNoChain
    <3>2. Elements(<<>>) = {}
      BY DEF Elements
    <3>3. QED
      BY <3>1, <3>2
  <2>6. Referenced = {c[1] : c \in Final} \ {Anchor}
    BY DEF Referenced, Final
  <2>7. ChainsTo(joins, Final) = UNION {Elements(ChainTo(joins, Anchor, e).chain) : e \in Referenced}
    BY <2>5, <2>6 DEF ChainsTo
  <2>8. UNION {Elements(ChainTo(joins, Anchor, e).chain) : e \in Referenced}
           = UNION {Range(ChainTo(joins, Anchor, e).chain) : e \in Referenced}
    BY <2>4
  <2>9. QED
    BY <2>2, <2>3, <2>7, <2>8 DEF PlanIsUnionOfChains, ChainTo
<1>2. QED
  BY <1>1, PlanCorrect, PTL
=============================================================================
