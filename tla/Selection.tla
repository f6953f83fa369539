------------------------------ MODULE Selection ------------------------------
(***************************************************************************)
(* What Rust's filter, filter_map and find keep of a sequence: the elements *)
(* at some of its positions, in order.  It is a recursive function, where   *)
(* SelectSeq would do, so that proofs can unfold it.                        *)
(***************************************************************************)
EXTENDS Naturals, Sequences

Select(s, positions) ==
    LET kept[i \in 0 .. Len(s)] ==
            IF i = 0 THEN <<>>
            ELSE IF i \in positions THEN Append(kept[i - 1], s[i])
            ELSE kept[i - 1]
    IN  kept[Len(s)]

\* All elements but those that are x.
Without(s, x) == Select(s, {i \in DOMAIN s : s[i] # x})
=============================================================================
