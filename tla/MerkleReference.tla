---------------------------- MODULE MerkleReference ----------------------------
(***************************************************************************)
(* What Merkle proof verification promises, stated over the recursive      *)
(* definitions of RFC 9162 (tree hash, audit path, consistency proof)      *)
(* that merkle.rs never computes.                                          *)
(***************************************************************************)
EXTENDS Merkle

Leaf(i) == <<i>>
Foreign(i) == <<MaxSize + 1 + i>>     \* hashes from outside the log

\* The largest power of two smaller than n > 1.
Power[e \in 0..MaxSize] == IF e = 0 THEN 1 ELSE 2 * Power[e - 1]
Split == [n \in 2..MaxSize |->
            CHOOSE k \in 1..(n - 1) : 2 * k >= n /\ \E e \in 0..n : k = Power[e]]

\* Merkle Tree Hash of the n leaves from leaf lo on (section 2.1.1).
MTH[n \in 1..MaxSize] ==
    [lo \in Nat |->
        IF n = 1 THEN Leaf(lo)
        ELSE Node(MTH[Split[n]][lo], MTH[n - Split[n]][lo + Split[n]])]

\* Audit path of leaf m in the tree of n leaves from lo on (2.1.3.1).
Path(m) ==
    LET path[n \in 1..MaxSize] ==
          [lo \in Nat |->
              IF n = 1 THEN << >>
              ELSE LET k == Split[n]
                   IN  IF m < lo + k THEN Append(path[k][lo], MTH[n - k][lo + k])
                                     ELSE Append(path[n - k][lo + k], MTH[k][lo])]
    IN path

\* Consistency proof from the first m leaves, in the tree of n leaves from lo on
\* (2.1.4.1).  The subtree that ends with the first tree is the whole first tree,
\* whose root the verifier has, when it begins where that does.
SubProof(m) ==
    LET sub[n \in 1..MaxSize] ==
          [lo \in Nat |->
              IF n = 1 \/ m = lo + n THEN IF lo = 0 THEN << >> ELSE <<MTH[n][lo]>>
              ELSE LET k == Split[n]
                   IN  IF m <= lo + k THEN Append(sub[k][lo], MTH[n - k][lo + k])
                                      ELSE Append(sub[n - k][lo + k], MTH[k][lo])]
    IN sub

(***************************************************************************)
(* The environment's choices.  At each place of the proof: what an honest  *)
(* log would put there, or a hash that occurs nowhere else.  The walk      *)
(* never branches on a hash, so every other proof is an instance of these. *)
(***************************************************************************)
HonestProof(op, m, n) ==
    IF op = "inclusion" THEN IF m < n THEN Path(m)[n][0] ELSE << >>
    ELSE IF 0 < m /\ m <= n THEN SubProof(m)[n][0] ELSE << >>

HonestGiven(op, m, n) ==
    {Foreign(0)} \cup IF op = "inclusion" THEN {Leaf(m)}
                      ELSE {MTH[k][0] : k \in {m} \ {0}}

HonestOffered(op, m, n, i) ==
    {Foreign(i)} \cup {HonestProof(op, m, n)[j] : j \in {i} \cap DOMAIN HonestProof(op, m, n)}

HonestClaimed(n) == {MTH[k][0] : k \in {n} \ {0}}

-------------------------------------------------------------------------------
(***************************************************************************)
(* What a root commits to, top down.  A hash h is read as the root of n    *)
(* leaves, g as its m-th leaf ("inclusion") or as the root of its first m  *)
(* leaves ("consistency"): the descent goes into the half the m-th leaf is *)
(* in, where the left half, if passed by, is one that both roots have.     *)
(***************************************************************************)
IsNode(h) == Len(h) = 2

Settled(x) == x.n = IF x.op = "inclusion" THEN 1 ELSE x.m
IntoLeft(x) == [x EXCEPT !.h = x.h[1], !.n = Split[x.n]]
IntoRight(x) ==
    [x EXCEPT !.h = x.h[2], !.n = x.n - Split[x.n], !.m = x.m - Split[x.n],
              !.g = IF x.op = "inclusion" THEN x.g ELSE x.g[2]]
Descend(x) ==
    IF Settled(x) \/ ~IsNode(x.h) THEN x
    ELSE IF x.m <= Split[x.n] THEN IntoLeft(x)
    ELSE IF x.op = "inclusion" \/ (IsNode(x.g) /\ x.g[1] = x.h[1]) THEN IntoRight(x)
    ELSE x
Descent(x) == LET at[s \in 0..MaxSize] == IF s = 0 THEN x ELSE Descend(at[s - 1]) IN at
Binds(op, h, n, g, m) ==
    LET down == Descent([op |-> op, h |-> h, n |-> n, g |-> g, m |-> m])
    IN \E s \in 0..(n - 1) : Settled(down[s]) /\ down[s].h = down[s].g

\* An accepted inclusion proof binds: under the root compared with, leaf number
\* leaf_index of tree_size is the leaf given, so no other payload can be proved
\* at that index (verify_inclusion).
InclusionSound ==
    pc = "accepted" /\ req.op = "inclusion"
        => Binds("inclusion", roots[1], req.n, req.given, req.m + 1)

\* An accepted consistency proof binds: the first root is the root of the first
\* leaves under the second one: nothing before was rewritten
\* (verify_consistency; a truncated (1,3) proof was once accepted).
ConsistencySound ==
    pc = "accepted" /\ req.op = "consistency"
        => Binds("consistency", roots[2], req.n, roots[1], req.m)

\* The proofs RFC 9162 generates for the honest log are never rejected.
HonestProofAccepted ==
    pc = "rejected" /\ proof = HonestProof(req.op, req.m, req.n) =>
        /\ req.op = "inclusion" /\ req.m < req.n =>
              ~(req.given = Leaf(req.m) /\ roots = <<MTH[req.n][0]>>)
        /\ req.op = "consistency" /\ 0 < req.m /\ req.m <= req.n =>
              roots # <<MTH[req.m][0], MTH[req.n][0]>>
===============================================================================
