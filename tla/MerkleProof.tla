---------------------------- MODULE MerkleProof ----------------------------
(***************************************************************************)
(* Merkle inclusion proofs (crates/ans-verify/src/scitt/merkle.rs): the    *)
(* walk from a leaf along a path of sibling hashes, against the tree that  *)
(* RFC 9162 defines.  Hashing is a free constructor over its prefix and    *)
(* its input; an input is a tuple, so a leaf may hold the encoding of two  *)
(* hashes.                                                                 *)
(***************************************************************************)
EXTENDS Naturals, Sequences

CONSTANT MaxHashPathLen   \* MAX_HASH_PATH_LEN

LeafHash(bytes)       == <<0, bytes>>
NodeHash(left, right) == <<1, <<left, right>>>>

-----------------------------------------------------------------------------
(* The walk: hash and position of a node, and the last position of its level *)

\* Mutant: a last node at an even position is hashed from the left.
WalkStepOddOnly(s, sibling) ==
    [current   |-> IF s.index % 2 = 1 THEN NodeHash(sibling, s.current)
                   ELSE NodeHash(s.current, sibling),
     index     |-> s.index \div 2,
     remaining |-> s.remaining \div 2]

WalkStep(s, sibling) ==
    [current   |-> IF s.index % 2 = 1 \/ s.index = s.remaining
                   THEN NodeHash(sibling, s.current)
                   ELSE NodeHash(s.current, sibling),
     index     |-> s.index \div 2,
     remaining |-> s.remaining \div 2]

\* walk_inclusion_path: the root, or <<>> for an error.  What is left of the
\* climb has no siblings: the node is the last one at each level up to the root,
\* which it is as soon as it is the last one at this level.
WalkInclusionPath(bytes, leafIndex, treeSize, path) ==
    LET start == [current |-> LeafHash(bytes), index |-> leafIndex,
                  remaining |-> treeSize - 1]
        walk[i \in 0 .. Len(path)] ==
            IF i = 0 THEN start ELSE WalkStep(walk[i - 1], path[i])
        end == walk[Len(path)]
    IN  IF /\ treeSize # 0 /\ leafIndex < treeSize
           /\ Len(path) <= MaxHashPathLen
           /\ end.index = end.remaining
        THEN end.current ELSE <<>>

-----------------------------------------------------------------------------
(* RFC 9162, 2.1.1: the tree over the leaves lo .. hi - 1, whose data are    *)
(* the positions.                                                          *)

PowerOfTwo[i \in Nat] == IF i = 0 THEN 1 ELSE 2 * PowerOfTwo[i - 1]

\* The largest power of two below n.
Split(n) == CHOOSE k \in {PowerOfTwo[i] : i \in 0 .. n} : k < n /\ n <= 2 * k

Tree(n) ==
    LET tree[r \in (0 .. n) \X (0 .. n)] ==
            IF r[2] <= r[1] THEN <<>>
            ELSE IF r[2] = r[1] + 1 THEN LeafHash(<<r[1]>>)
            ELSE LET mid == r[1] + Split(r[2] - r[1])
                 IN  NodeHash(tree[<<r[1], mid>>], tree[<<mid, r[2]>>])
    IN  tree

Root(n) == Tree(n)[<<0, n>>]

\* The hashes of all nodes.
Nodes(n) == {Tree(n)[r] : r \in (0 .. n) \X (0 .. n)} \ {<<>>}

\* 2.1.3.1: the path of leaf m, from the leaf up.
InclusionPath(m, n) ==
    LET path[r \in (0 .. n) \X (0 .. n)] ==
            IF r[2] <= r[1] + 1 THEN <<>>
            ELSE LET mid == r[1] + Split(r[2] - r[1])
                 IN  IF m < mid THEN Append(path[<<r[1], mid>>], Tree(n)[<<mid, r[2]>>])
                     ELSE Append(path[<<mid, r[2]>>], Tree(n)[<<r[1], mid>>])
    IN  path[<<0, n>>]

\* A receipt proves exactly what the log contains.  The path of every leaf leads
\* to the root; and whatever leaf, position and path a receipt claims, it leads
\* to the root of a tree of that size only if the leaf is there and the path is
\* its path: nothing shorter, longer or of another leaf, and no inner node passed
\* off as a leaf.
WalkIsExact(n, index, bytes, paths) ==
    /\ index < n =>
         WalkInclusionPath(<<index>>, index, n, InclusionPath(index, n)) = Root(n)
    /\ n > 0 =>
         \A path \in paths :
            WalkInclusionPath(bytes, index, n, path) = Root(n)
              => index < n /\ bytes = <<index>> /\ path = InclusionPath(index, n)
=============================================================================
