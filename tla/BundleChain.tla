------------------------------ MODULE BundleChain ------------------------------
(***************************************************************************)
(* The checkpoint chain of a bundle and the facts a verified bundle earns: *)
(* `verify_bundle_facts` and `check_checkpoints_and_entries` of            *)
(* verify-rs/src/lib.rs, after the key log has been replayed.              *)
(*                                                                         *)
(* The checks run in the code's order, which matters: receipts are judged  *)
(* against the chain BEFORE the chain is checked, and facts are collected  *)
(* along the way and thrown away if a later check fails.                   *)
(*                                                                         *)
(* A checkpoint is named by its body hash.  `prev` is its prev_hash: an    *)
(* earlier checkpoint, or Genesis for the empty string.  `branch` stands   *)
(* for the root hash: two non-empty trees have consistent roots iff they   *)
(* lie on one branch (module Merkle).  Signatures, key authority (module   *)
(* KeyAuthority), origins and encodings can make any check fail (Refuse).  *)
(***************************************************************************)
EXTENDS Integers, Sequences, FiniteSets, SequencesExt

CONSTANTS
    NumCps,     \* bound: checkpoints the operator ever signed
    MaxSize,    \* bound: tree size
    MaxTime,    \* bound: instants
    Branches,   \* histories an operator may sign, one honest, others forked
    Skew,       \* RECEIPT_CHECKPOINT_SKEW_S
    MaxRecords, \* MAX_ATTESTATION_RECORDS: timestamp records carried
    MaxAsserted \* bound: continuity assertions carried

ASSUME ChainAssumption ==
    /\ NumCps \in Nat /\ MaxSize \in Nat /\ MaxTime \in Nat
    /\ Skew \in Nat /\ MaxRecords \in Nat /\ MaxAsserted \in Nat

VARIABLES
    prev,       \* checkpoint -> prev_hash
    body,       \* presented checkpoint -> tree size, signed time, branch
    chain,      \* bundle.checkpoint_chain
    target,     \* bundle.target_checkpoint
    sparse,     \* whether the bundle declares the sparse profile
    stage,      \* the check that comes next, or the verdict
    link,       \* position of the last chain link checked
    late,       \* history: an accepted receipt postdates its first covering checkpoint
    asserted,   \* bundle.continuity: none, or a set of assertions
    facts       \* BundleFacts

vars == <<prev, body, chain, target, sparse, stage, link, late, asserted, facts>>

Cps == 1..NumCps
Genesis == 0
Sizes == 0..MaxSize
Times == 0..MaxTime
Body == [size : Sizes, ts : Times, branch : Branches]
Chains == UNION {[1..n -> Cps] : n \in 1..NumCps}

Stages == {"present", "entries", "target", "chain", "head", "attest",
           "continuity", "verified", "refused"}

NoFacts ==
    [ok |-> FALSE, complete |-> "none", recorder_attested |-> FALSE,
     trusted_tst |-> {}, chain_sizes |-> {},
     continuity_present |-> FALSE, continuity_ok |-> FALSE, continuity_gaps |-> 0,
     origin_attested |-> "none"]

Init ==
    /\ prev \in {p \in [Cps -> 0..NumCps] : \A c \in Cps : p[c] < c}
    /\ body = << >>
    /\ chain = << >> /\ target = Genesis /\ sparse = FALSE
    /\ stage = "present"
    /\ link = 0
    /\ late = FALSE
    /\ asserted = {}
    /\ facts = NoFacts

-------------------------------------------------------------------------------
\* A bundle arrives: any sequence of the operator's checkpoints as its chain,
\* any of them as its target, and an export manifest whose answer is recorded
\* before anything else is checked (check_entry_set).
Present ==
    /\ stage = "present"
    /\ \E c \in Chains, t \in Cps, profile \in BOOLEAN, complete \in {"none", "true", "false"} :
          /\ chain' = c /\ target' = t /\ sparse' = profile
          /\ body' \in [Range(c) \cup {t} -> Body]
          /\ facts' = [facts EXCEPT !.complete = complete]
    /\ stage' = "entries"
    /\ UNCHANGED <<prev, link, late, asserted>>

-------------------------------------------------------------------------------
Size(i) == body[chain[i]].size
Deadline(i) == body[chain[i]].ts + Skew

\* Positions a binary search for the first checkpoint with tree_size > leaf may
\* stop at (`partition_point`): the right one on a partitioned chain, any one
\* on a chain whose sizes are out of order.
CoverPoints(leaf) ==
    LET right == {k \in 0..Len(chain) : \A i \in 1..Len(chain) : Size(i) <= leaf <=> i <= k}
    IN  IF right # {} THEN right ELSE 0..Len(chain)

\* The first chain checkpoint that covers the leaf, by definition.
FirstCover(leaf) ==
    {i \in 1..Len(chain) : Size(i) > leaf /\ \A j \in 1..(i - 1) : Size(j) <= leaf}

\* check_entry's deadline: a leaf that no checkpoint covers has none.
AdmittedInTime(ts, k) == k < Len(chain) => ts <= Deadline(k + 1)

\* check_entries accepts one more receipt: in time, and included in the tree the
\* target signs.  A trusted recorder's co-signature is noted on the way.
CheckEntry ==
    /\ stage = "entries"
    /\ \E leaf \in Sizes, ts \in 0..(MaxTime + Skew + 1) :
          /\ leaf < body[target].size
          /\ \E k \in CoverPoints(leaf) : AdmittedInTime(ts, k)
          /\ late' = (late \/ \E i \in FirstCover(leaf) : ts > Deadline(i))
    /\ \E recorder \in BOOLEAN :
          facts' = [facts EXCEPT !.recorder_attested = @ \/ recorder]
    /\ UNCHANGED <<prev, body, chain, target, sparse, stage, link, asserted>>

\* The end of check_entry_set: a manifest that does not hold refuses the bundle.
EntriesDone ==
    /\ stage = "entries"
    /\ facts.complete # "false"
    /\ stage' = "target"
    /\ UNCHANGED <<prev, body, chain, target, sparse, link, late, asserted, facts>>

\* Mutant: the chain is walked from its second checkpoint on.
CheckTargetOnly ==
    /\ stage = "target"
    /\ stage' = "chain"
    /\ link' = 2
    /\ UNCHANGED <<prev, body, chain, target, sparse, late, asserted, facts>>

\* check_target_checkpoint, and the start of check_checkpoint_chain: a presented
\* chain begins with a checkpoint that has no predecessor.
CheckTarget ==
    /\ stage = "target"
    /\ prev[chain[1]] = Genesis
    /\ stage' = "chain"
    /\ link' = 1
    /\ UNCHANGED <<prev, body, chain, target, sparse, late, asserted, facts>>

\* Linked by hash in a dense chain; in a sparse one any predecessor will do, but
\* there is one.
Linked(p, c) == IF sparse THEN prev[c] # Genesis ELSE prev[c] = p

\* Mutant: sizes may fall from one checkpoint to the next.
GrewUnchecked(p, c) == TRUE

Grew(p, c) == body[p].size <= body[c].size

\* check_chain_consistency, made when the earlier tree is not empty.
Consistent(p, c) == body[p].size > 0 => body[p].branch = body[c].branch

\* check_chain_link for the next pair of the chain.
CheckLink ==
    /\ stage = "chain"
    /\ link < Len(chain)
    /\ Linked(chain[link], chain[link + 1])
    /\ Grew(chain[link], chain[link + 1])
    /\ Consistent(chain[link], chain[link + 1])
    /\ link' = link + 1
    /\ UNCHANGED <<prev, body, chain, target, sparse, stage, late, asserted, facts>>

\* The chain is done; check_bundle_origin.
ChainDone ==
    /\ stage = "chain"
    /\ link = Len(chain)
    /\ stage' = "head"
    /\ UNCHANGED <<prev, body, chain, target, sparse, link, late, asserted, facts>>

\* Mutant: it is enough that the chain contains the target.
TargetInChain == target \in Range(chain)

\* chain_head_matches: the target is the last checkpoint of the chain.
HeadMatches == Last(chain) = target

\* The head, then check_lineage, whose answer the chain has no part in (Refuse).
CheckHead ==
    /\ stage = "head"
    /\ HeadMatches
    /\ stage' = "attest"
    /\ UNCHANGED <<prev, body, chain, target, sparse, link, late, asserted, facts>>

\* check_tst_records: one record per checkpoint of the chain, not before the
\* checkpoint's own signed time; a trusted one is noted.
CheckTimestamp ==
    /\ stage = "attest"
    /\ Cardinality(facts.trusted_tst) < MaxRecords
    /\ \E c \in Range(chain) \ facts.trusted_tst, gen_time \in Times :
          /\ gen_time >= body[c].ts
          /\ facts' = [facts EXCEPT !.trusted_tst = @ \cup {c}]
    /\ UNCHANGED <<prev, body, chain, target, sparse, stage, link, late, asserted>>

\* The attestation records are done; chain_sizes is filled in.
AttestDone ==
    /\ stage = "attest"
    /\ stage' = "continuity"
    /\ facts' = [facts EXCEPT !.chain_sizes = Range(chain)]
    /\ UNCHANGED <<prev, body, chain, target, sparse, link, late, asserted>>

-------------------------------------------------------------------------------
(***************************************************************************)
(* Continuity.  `valid` is that the assertion has the declared shape, is   *)
(* consistent with itself and signed by a log key; for version 2 also that *)
(* it names the target and its issuer signed, with the sizes of its ends.  *)
(***************************************************************************)
Assertion == {a \in [from : Cps, to : Cps, v2 : BOOLEAN, valid : BOOLEAN] : a.from # a.to}

AssertionSets == {Range(f) : f \in UNION {[1..n -> Assertion] : n \in 0..MaxAsserted}}

Position(c) == CHOOSE i \in 1..Len(chain) :
                  chain[i] = c /\ \A j \in 1..(i - 1) : chain[j] # c

\* continuity_admissible and continuity_authority: a version 2 assertion is
\* about an interval of this chain.
Admissible(a) ==
    /\ a.valid
    /\ a.v2 => /\ {a.from, a.to} \subseteq Range(chain)
               /\ Position(a.from) < Position(a.to)

\* Mutant: inadmissible assertions are skipped, but still cover.
AllAdmissibleOrSkipped(as) == TRUE

\* One inadmissible assertion makes the whole cover unreadable.
AllAdmissible(as) == \A a \in as : Admissible(a)

\* continuity_gaps: consecutive checkpoints that are neither linked by hash nor
\* covered by an assertion.
Gaps(as) ==
    {i \in 1..(Len(chain) - 1) :
        /\ prev[chain[i + 1]] # chain[i]
        /\ ~\E a \in as : a.from = chain[i] /\ a.to = chain[i + 1]}

Verify(present, ok, gaps) ==
    /\ stage' = "verified"
    /\ \E origin \in {"none", "settled"} :
          facts' = [facts EXCEPT !.ok = TRUE, !.continuity_present = present,
                                 !.continuity_ok = ok, !.continuity_gaps = gaps,
                                 !.origin_attested = origin]

\* assess_continuity, and the verdict; origin_attested is settled only now.
AssessContinuity ==
    /\ stage = "continuity"
    /\ \/ /\ UNCHANGED asserted                     \* no `continuity` member
          /\ Verify(FALSE, TRUE, Cardinality(Gaps({})))
       \/ /\ UNCHANGED asserted                     \* one that is not a list
          /\ Verify(FALSE, FALSE, 0)
       \/ \E as \in AssertionSets :
             /\ asserted' = as
             /\ \/ /\ AllAdmissible(as)
                   /\ Verify(as # {}, as = {} \/ Gaps(as) = {}, Cardinality(Gaps(as)))
                \/ /\ ~AllAdmissible(as)
                   /\ Verify(TRUE, FALSE, 0)
    /\ UNCHANGED <<prev, body, chain, target, sparse, link, late>>

\* Mutant: what was collected before the failure stays.
RefusedFactsKept(f) == [f EXCEPT !.ok = FALSE]

\* The else branch of verify_bundle_facts: evidence goes, the manifest answer stays.
RefusedFacts(f) ==
    [f EXCEPT !.ok = FALSE, !.recorder_attested = FALSE, !.trusted_tst = {}, !.chain_sizes = {}]

\* A check fails, for a reason modelled above or any other.
Refuse ==
    /\ stage \notin {"present", "continuity", "verified", "refused"}
    /\ stage' = "refused"
    /\ facts' = RefusedFacts(facts)
    /\ UNCHANGED <<prev, body, chain, target, sparse, link, late, asserted>>

Next ==
    \/ Present
    \/ CheckEntry
    \/ EntriesDone
    \/ CheckTarget
    \/ CheckLink
    \/ ChainDone
    \/ CheckHead
    \/ CheckTimestamp
    \/ AttestDone
    \/ AssessContinuity
    \/ Refuse

Spec == Init /\ [][Next]_vars

-------------------------------------------------------------------------------
\* Mutant: whichever order the two checkpoints come in.
CoverageUnordered(own, from, to) ==
    IF ~own THEN "other-origin"
    ELSE IF {from, to} \subseteq facts.chain_sizes THEN "covered" ELSE "conflict"

\* acknowledgement_coverage: what a counterparty's statement about the interval
\* between two checkpoint hashes is worth against the verified bundle; `own` is that
\* the statement is about the log the bundle is of.
Coverage(own, from, to) ==
    IF ~own THEN "other-origin"
    ELSE IF ~({from, to} \subseteq facts.chain_sizes) THEN "conflict"
    ELSE IF body[from].size < body[to].size THEN "covered" ELSE "malformed"

-------------------------------------------------------------------------------
(***************************************************************************)
(* Properties                                                              *)
(***************************************************************************)
Verified == stage = "verified"

\* The pipeline's state is well formed, and a link is checked only within the chain.
TypeOK ==
    /\ stage \in Stages
    /\ chain \in Chains \cup {<< >>}
    /\ link \in 0..Len(chain)
    /\ target \in 0..NumCps
    /\ sparse \in BOOLEAN /\ late \in BOOLEAN
    /\ stage # "present" => body \in [Range(chain) \cup {target} -> Body]
    /\ asserted \subseteq Assertion
    /\ facts.trusted_tst \subseteq Range(chain)

\* No receipt of a verified bundle postdates, by more than the skew, the FIRST
\* chain checkpoint that covers its leaf, although the binary search for that
\* checkpoint ran on a chain nobody had checked yet (check_entry).
DeadlineHeld == Verified => ~late

\* A verified chain is one history that only grows up to the target: the
\* consistency proofs that are skipped after an empty tree open no fork.
OneHistory ==
    Verified =>
        /\ \A i, j \in 1..Len(chain) :
              Size(i) > 0 /\ Size(j) > 0 => body[chain[i]].branch = body[chain[j]].branch
        /\ \A i \in 1..Len(chain) : Size(i) <= body[target].size

\* The checkpoints a checkpoint's prev_hash leads back to, and the target's.
Ancestry[c \in 0..NumCps] == IF c = Genesis THEN {} ELSE {c} \cup Ancestry[prev[c]]
History == Ancestry[target]

\* A checkpoint of the target's own history that a verified bundle leaves out is
\* never passed over in silence: the chain is declared sparse, and the result
\* shows a gap, an unreadable cover, or a cover the operator signed for it.
ElisionNeverSilent ==
    Verified /\ ~(History \subseteq Range(chain)) =>
        /\ sparse
        /\ \/ facts.continuity_gaps > 0
           \/ ~facts.continuity_ok
           \/ \E a \in asserted, i \in 1..(Len(chain) - 1) :
                 Admissible(a) /\ a.from = chain[i] /\ a.to = chain[i + 1]

\* The pipeline, seen from outside, judges a bundle in one step (module
\* BundleReport): nothing it collects shows before the last check has passed, and
\* "a rejected bundle earns no recorder or timestamp evidence" (verify_bundle),
\* however far the checks got.
Report == INSTANCE BundleReport WITH
    bundle <- IF stage = "present" THEN << >>
              ELSE [chain |-> chain, target |-> target, sparse |-> sparse,
                    prev |-> prev, body |-> body],
    report <- IF stage \in {"verified", "refused"} THEN facts ELSE << >>
JudgedAtOnce == Report!Spec

\* An acknowledged interval counts as covered only when it is one of this log and its
\* end comes after its start in the verified chain, wherever either checkpoint appears.
CoverageFollowsChain ==
    Verified =>
        \A i, j \in 1..Len(chain), own \in BOOLEAN :
           Coverage(own, chain[i], chain[j]) = "covered" => own /\ i < j
===============================================================================
