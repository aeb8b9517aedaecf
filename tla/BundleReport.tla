----------------------------- MODULE BundleReport -----------------------------
(***************************************************************************)
(* What `verify_bundle` of verify-rs/src/lib.rs promises, without saying   *)
(* how: a bundle is judged once and in one step, a favourable report is    *)
(* given only to one unforked history that ends in the target, it credits  *)
(* checkpoints of that history and no others, and a refused bundle earns   *)
(* no evidence.  Module BundleChain implements it check by check.          *)
(***************************************************************************)
EXTENDS Integers, Sequences, FiniteSets, SequencesExt

VARIABLES
    bundle,     \* the bundle that was handed over: chain, target, sparse, prev, body
    report      \* its BundleFacts, once the verifier returns them

vars == <<bundle, report>>

NoBundle == << >>
Pending == << >>
Genesis == 0

Init == bundle = NoBundle /\ report = Pending

-------------------------------------------------------------------------------
Links(b) == 1..(Len(b.chain) - 1)
BodyAt(b, i) == b.body[b.chain[i]]

\* The chain is complete as far as its profile goes, ends in the target, and every
\* two of its trees are trees of one log that only grew.
History(b) ==
    /\ b.prev[b.chain[1]] = Genesis
    /\ \A i \in Links(b) : b.prev[b.chain[i + 1]] \in IF b.sparse THEN Nat \ {Genesis}
                                                     ELSE {b.chain[i]}
    /\ Last(b.chain) = b.target
    /\ \A i, j \in DOMAIN b.chain :
          /\ i < j => BodyAt(b, i).size <= BodyAt(b, j).size
          /\ BodyAt(b, i).size > 0 /\ BodyAt(b, j).size > 0 =>
                BodyAt(b, i).branch = BodyAt(b, j).branch

Unlinked(b) == {i \in Links(b) : b.prev[b.chain[i + 1]] # b.chain[i]}

\* What a report says of continuity: every gap is counted unless a cover was
\* presented, and a presented cover that is fine leaves none.
ContinuityTold(b, r) ==
    /\ r.continuity_gaps \in 0..Cardinality(Unlinked(b))
    /\ r.continuity_ok => r.continuity_gaps = IF r.continuity_present THEN 0
                                              ELSE Cardinality(Unlinked(b))

-------------------------------------------------------------------------------
Receive ==
    /\ bundle = NoBundle
    /\ bundle' # NoBundle
    /\ UNCHANGED report

Accept ==
    /\ bundle # NoBundle /\ report = Pending
    /\ History(bundle)
    /\ report' # Pending /\ report'.ok
    /\ report'.complete # "false"
    /\ report'.trusted_tst \subseteq Range(bundle.chain)
    /\ report'.chain_sizes = Range(bundle.chain)
    /\ ContinuityTold(bundle, report')
    /\ UNCHANGED bundle

\* The answer about the export manifest is the only thing that survives.
Refuse ==
    /\ bundle # NoBundle /\ report = Pending
    /\ \E complete \in {"none", "true", "false"} :
          report' = [ok |-> FALSE, complete |-> complete, recorder_attested |-> FALSE,
                     trusted_tst |-> {}, chain_sizes |-> {},
                     continuity_present |-> FALSE, continuity_ok |-> FALSE,
                     continuity_gaps |-> 0, origin_attested |-> "none"]
    /\ UNCHANGED bundle

Next == Receive \/ Accept \/ Refuse

Spec == Init /\ [][Next]_vars
===============================================================================
