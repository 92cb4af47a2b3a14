------------------------------- MODULE Merkle -------------------------------
(***************************************************************************)
(* The Merkle tree of audit/merkle.py over the rows of the audit log: the  *)
(* root, the inclusion proof of a leaf and the verification walk that      *)
(* folds a proof back into a root.  A digest is represented by the term    *)
(* it hashes, so two digests are equal exactly when the hashed terms are   *)
(* (no collisions); a pair <<lo, hi>> of positions stands for a slice.     *)
(***************************************************************************)
EXTENDS Integers, Sequences

leaf_hash(leaf) == <<"leaf", leaf>>

NodeHash(left, right) == <<"node", left, right>>

EmptyTreeHash == <<"empty">>

\* The highest set bit of j, found by its bit length.
HighestBit[j \in Nat] == IF j <= 1 THEN j ELSE 2 * HighestBit[j \div 2]

\* The split point k of RFC 6962: the power of two with k < n <= 2k, n >= 2.
LargestPowerOfTwoBelow(n) == HighestBit[n - 1]

Slices(n) == {r \in (1..n) \X (1..n) : r[1] <= r[2]}

\* The root of every slice of the n leaf hashes.
SliceRoots(hashes, n) ==
    LET mth[r \in Slices(n)] ==
          LET k == LargestPowerOfTwoBelow(r[2] - r[1] + 1)
          IN  IF r[1] = r[2]
              THEN hashes[r[1]]
              ELSE NodeHash(mth[<<r[1], r[1] + k - 1>>], mth[<<r[1] + k, r[2]>>])
    IN  mth

RootFromLeafHashes(hashes) ==
    LET n == Len(hashes)
    IN  IF n = 0 THEN EmptyTreeHash ELSE SliceRoots(hashes, n)[<<1, n>>]

\* Fault: the sibling of a leaf in the right subtree is looked for in the
\* right subtree too.
PathFromLeafHashes_sibling(m, hashes) ==
    LET n == Len(hashes)
        root == SliceRoots(hashes, n)
        path[r \in Slices(n)] ==
          LET k == LargestPowerOfTwoBelow(r[2] - r[1] + 1)
          IN  IF r[1] = r[2]
              THEN <<>>
              ELSE IF m + 1 < r[1] + k
                   THEN Append(path[<<r[1], r[1] + k - 1>>], root[<<r[1] + k, r[2]>>])
                   ELSE Append(path[<<r[1] + k, r[2]>>], root[<<r[1] + k, r[2]>>])
    IN  path[<<1, n>>]

\* The siblings of leaf m (counted from 0), from the leaf to the root.
PathFromLeafHashes(m, hashes) ==
    LET n == Len(hashes)
        root == SliceRoots(hashes, n)
        path[r \in Slices(n)] ==
          LET k == LargestPowerOfTwoBelow(r[2] - r[1] + 1)
          IN  IF r[1] = r[2]
              THEN <<>>
              ELSE IF m + 1 < r[1] + k
                   THEN Append(path[<<r[1], r[1] + k - 1>>], root[<<r[1] + k, r[2]>>])
                   ELSE Append(path[<<r[1] + k, r[2]>>], root[<<r[1], r[1] + k - 1>>])
    IN  path[<<1, n>>]

LeafHashes(leaves) == [i \in DOMAIN leaves |-> leaf_hash(leaves[i])]

merkle_root(leaves) == RootFromLeafHashes(LeafHashes(leaves))

inclusion_proof(index, leaves) == PathFromLeafHashes(index, LeafHashes(leaves))

\* What is left of the position of a border node when the levels at which
\* it has no sibling are skipped: its run of trailing zero bits is dropped.
Collapsed[n \in Nat] == IF n % 2 = 1 \/ n = 0 THEN n ELSE Collapsed[n \div 2]

\* One sibling of the verification walk.  A border node has fn = sn, so both
\* drop the same bits.
VerifyStep(walk, sibling) ==
    LET odd    == walk.fn % 2 = 1
        border == ~odd /\ walk.fn = walk.sn
        Up(n)  == (IF border THEN Collapsed[n] ELSE n) \div 2
    IN  [ok |-> walk.ok /\ walk.sn # 0,
         r  |-> IF odd \/ border THEN NodeHash(sibling, walk.r) ELSE NodeHash(walk.r, sibling),
         fn |-> Up(walk.fn),
         sn |-> Up(walk.sn)]

\* The walk holds ok while every sibling found a level to climb to.
verify_inclusion(index, size, leaf, path, root) ==
    /\ 0 <= index /\ index < size
    /\ LET walk[t \in 0..Len(path)] ==
             IF t = 0
             THEN [ok |-> TRUE, r |-> leaf, fn |-> index, sn |-> size - 1]
             ELSE VerifyStep(walk[t - 1], path[t])
           end == walk[Len(path)]
       IN  end.ok /\ end.sn = 0 /\ end.r = root
=============================================================================
