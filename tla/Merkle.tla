-------------------------------- MODULE Merkle --------------------------------
(***************************************************************************)
(* Merkle proof verification of verify-rs/src/merkle.rs: `verify_inclusion`*)
(* and `verify_consistency`, one action per iteration of their loops.      *)
(*                                                                         *)
(* The proof comes from the bundle, so its next element is whatever the    *)
(* environment chooses when the loop asks for one, and it may end at any   *)
(* point.  A root is read when it is compared and chosen there.            *)
(*                                                                         *)
(* Hashes are terms: Node(l, r) is injective and differs from every leaf   *)
(* hash, which is what the 0x00 / 0x01 prefixes and SHA-256 stand for.     *)
(***************************************************************************)
EXTENDS Integers, Sequences

CONSTANTS
    MaxSize,    \* bound: largest tree size and leaf index
    Given(_, _, _),       \* leaf hashes / first roots to verify (op, m, n)
    Offered(_, _, _, _),  \* hashes a bundle's proof may have at place i (op, m, n, i)
    Claimed(_)            \* roots a checkpoint may claim for n leaves, besides the folded one

ASSUME SizeAssumption == MaxSize \in Nat

VARIABLES
    pc,         \* where the verification is
    req,        \* its arguments (op, m, n, given)
    fn, sn,     \* fnn and sn: position and last position at the current level
    fr, sr,     \* running first root; running root (`r` in verify_inclusion)
    proof,      \* history: the proof elements read so far
    roots       \* the roots compared with: <<second>> or <<first, second>>

vars == <<pc, req, fn, sn, fr, sr, proof, roots>>

\* `m` is leaf_index or first, `n` tree_size or second; `given` is leaf_hash or
\* first_root.
Ops == {"inclusion", "consistency"}
Sizes == 0..MaxSize

\* What the environment may choose as the next proof element, and as the root
\* the folded one is compared with.
NextElement == Offered(req.op, req.m, req.n, Len(proof) + 1)
Roots(folded) == Claimed(req.n) \cup {folded}

Node(l, r) == <<l, r>>
lsb(n) == n % 2 = 1

Done == pc \in {"accepted", "rejected"}

Init ==
    /\ pc = "start"
    /\ \E op \in Ops, m \in Sizes, n \in Sizes : \E h \in Given(op, m, n) :
          req = [op |-> op, m |-> m, n |-> n, given |-> h]
    /\ fn = 0 /\ sn = 0
    /\ fr = req.given /\ sr = req.given
    /\ proof = << >>
    /\ roots = << >>

\* Mutant: a shift of one counter is forgotten.
HalveSnOnly ==
    /\ fn' = fn
    /\ sn' = sn \div 2

\* `fnn >>= 1; sn >>= 1`.
Halve ==
    /\ fn' = fn \div 2
    /\ sn' = sn \div 2

Conclude(accepted) == pc' = IF accepted THEN "accepted" ELSE "rejected"

-------------------------------------------------------------------------------
\* Mutant: the range check is left to the loop.
StartInclusionUnchecked ==
    /\ pc = "start" /\ req.op = "inclusion"
    /\ pc' = "fold"
    /\ fn' = req.m
    /\ sn' = req.n - 1
    /\ UNCHANGED <<req, fr, sr, proof, roots>>

\* verify_inclusion up to its loop.  The range check is what keeps
\* `tree_size - 1` from wrapping.
StartInclusion ==
    /\ pc = "start" /\ req.op = "inclusion"
    /\ \/ /\ req.m < req.n
          /\ pc' = "fold"
          /\ fn' = req.m
          /\ sn' = req.n - 1
       \/ /\ req.m >= req.n
          /\ Conclude(FALSE)
          /\ UNCHANGED <<fn, sn>>
    /\ UNCHANGED <<req, fr, sr, proof, roots>>

\* verify_consistency up to its loops: sizes out of range, or equal sizes, where
\* an empty proof and equal roots are all it takes.
StartConsistency ==
    /\ pc = "start" /\ req.op = "consistency"
    /\ \/ /\ req.m > req.n \/ req.m = 0
          /\ Conclude(FALSE)
          /\ UNCHANGED <<fn, sn, proof, roots>>
       \/ /\ req.m = req.n /\ req.m # 0
          /\ \E second \in Roots(req.given), p \in NextElement, empty \in BOOLEAN :
                /\ proof' = IF empty THEN << >> ELSE <<p>>
                /\ roots' = <<req.given, second>>
                /\ Conclude(empty /\ req.given = second)
          /\ UNCHANGED <<fn, sn>>
       \/ /\ 0 < req.m /\ req.m < req.n
          /\ pc' = "strip"
          /\ fn' = req.m - 1
          /\ sn' = req.n - 1
          /\ UNCHANGED <<proof, roots>>
    /\ UNCHANGED <<req, fr, sr>>

\* `while lsb(fnn)`: skip the complete subtree at the right edge of the first tree.
StripOnes ==
    /\ pc = "strip" /\ lsb(fn)
    /\ Halve
    /\ UNCHANGED <<pc, req, fr, sr, proof, roots>>

\* consistency_seed: the first root itself when the whole first tree is that
\* subtree, else the first proof element; no element, no proof.
Seed ==
    /\ pc = "strip" /\ ~lsb(fn)
    /\ \/ /\ fn = 0
          /\ pc' = "fold"
          /\ UNCHANGED <<fr, sr, proof>>
       \/ /\ fn # 0
          /\ \E p \in NextElement :
                /\ fr' = p /\ sr' = p
                /\ proof' = <<p>>
          /\ pc' = "fold"
       \/ /\ fn # 0
          /\ Conclude(FALSE)
          /\ UNCHANGED <<fr, sr, proof>>
    /\ UNCHANGED <<req, fn, sn, roots>>

-------------------------------------------------------------------------------
\* A proof element that comes when the path has already reached the root.
Surplus(p) ==
    /\ sn = 0
    /\ Conclude(FALSE)
    /\ UNCHANGED <<fn, sn, fr, sr>>

\* Mutant: the right edge is not special.
FromLeftOddOnly == lsb(fn)

\* The sibling is on the left: the node is a right child, or the right edge.
FromLeft == lsb(fn) \/ fn = sn

\* One iteration over the proof in verify_inclusion.  At an even right edge the
\* levels without a sibling are skipped first (SkipLevel).
FoldInclusion(p) ==
    /\ pc = "fold" /\ req.op = "inclusion"
    /\ proof' = Append(proof, p)
    /\ \/ Surplus(p)
       \/ /\ sn # 0
          /\ sr' = IF FromLeft THEN Node(p, sr) ELSE Node(sr, p)
          /\ IF FromLeft /\ ~lsb(fn) THEN pc' = "skip" /\ UNCHANGED <<fn, sn>>
                                     ELSE Halve /\ UNCHANGED pc
          /\ UNCHANGED fr
    /\ UNCHANGED <<req, roots>>

\* consistency_step: the same walk for two roots; a sibling on the right is not
\* part of the first tree.
FoldConsistency(p) ==
    /\ pc = "fold" /\ req.op = "consistency"
    /\ proof' = Append(proof, p)
    /\ \/ Surplus(p)
       \/ /\ sn # 0
          /\ sr' = IF FromLeft THEN Node(p, sr) ELSE Node(sr, p)
          /\ fr' = IF FromLeft THEN Node(p, fr) ELSE fr
          /\ IF FromLeft /\ ~lsb(fn) THEN pc' = "skip" /\ UNCHANGED <<fn, sn>>
                                     ELSE Halve /\ UNCHANGED pc
    /\ UNCHANGED <<req, roots>>

\* `while !lsb(fnn) && fnn != 0`.
MoreToSkip == ~lsb(fn) /\ fn # 0

SkipLevel ==
    /\ pc = "skip"
    /\ Halve
    /\ pc' = IF MoreToSkip THEN "skip" ELSE "fold"
    /\ UNCHANGED <<req, fr, sr, proof, roots>>

-------------------------------------------------------------------------------
\* Mutant: the length of the path is judged by fn, as the code once did.
PathCompleteByFn == fn = 0

\* The test both functions make of the path length on their last line.
PathComplete == sn = 0

\* The proof is exhausted in verify_inclusion: the walk must have reached the
\* root, and the root must be the one folded.
EndInclusion ==
    /\ pc = "fold" /\ req.op = "inclusion"
    /\ \E root \in Roots(sr) :
          /\ roots' = <<root>>
          /\ Conclude(PathComplete /\ sr = root)
    /\ UNCHANGED <<req, fn, sn, fr, sr, proof>>

\* The proof is exhausted in verify_consistency.  Where first_root seeded the
\* walk, fr still is first_root; elsewhere this is the first look at it.
EndConsistency ==
    /\ pc = "fold" /\ req.op = "consistency"
    /\ \E second \in Roots(sr), first \in {fr, req.given} :
          /\ roots' = <<first, second>>
          /\ Conclude(PathComplete /\ fr = first /\ sr = second)
    /\ UNCHANGED <<req, fn, sn, fr, sr, proof>>

Next ==
    \/ StartInclusion
    \/ StartConsistency
    \/ StripOnes
    \/ Seed
    \/ \E p \in NextElement : FoldInclusion(p)
    \/ \E p \in NextElement : FoldConsistency(p)
    \/ SkipLevel
    \/ EndInclusion
    \/ EndConsistency

Spec == Init /\ [][Next]_vars /\ WF_vars(Next)

-------------------------------------------------------------------------------
(***************************************************************************)
(* Properties                                                              *)
(***************************************************************************)
Stages == {"start", "strip", "fold", "skip", "accepted", "rejected"}

\* Counters stay natural numbers in the range of the sizes: no `- 1` wraps.
TypeOK ==
    /\ pc \in Stages
    /\ req.op \in Ops /\ req.m \in Sizes /\ req.n \in Sizes
    /\ fn \in Sizes /\ sn \in Sizes

\* The claim the code rests its last test on (comment in verify_consistency): "fn
\* <= sn always and both shift together, so sn == 0 implies fn == 0".  While
\* levels are skipped the two are equal, so the skip loop ends before zero.
FnWithinSn ==
    /\ fn <= sn
    /\ pc = "skip" => fn = sn /\ fn # 0

\* Every verification ends, however the bundle's proof goes on: the loops are
\* bounded by the sizes, not by the proof.
Termination == <>Done
===============================================================================
