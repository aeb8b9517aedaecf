--------------------------- MODULE BundleChainProofs ---------------------------
(***************************************************************************)
(* Proofs about BundleChain, for chains of any length, trees of any size,  *)
(* any number of histories an operator may fork, and any skew.             *)
(***************************************************************************)
EXTENDS BundleChain, SequenceTheorems, FiniteSetTheorems, TLAPS

-------------------------------------------------------------------------------
(***************************************************************************)
(* The inductive invariant.                                                *)
(***************************************************************************)
\* The stages in which the chain is being walked or has been.
Walking == {"chain", "head", "attest", "continuity", "verified"}

FactsType ==
    [ok : BOOLEAN, complete : {"none", "true", "false"}, recorder_attested : BOOLEAN,
     trusted_tst : SUBSET Cps, chain_sizes : SUBSET Cps,
     continuity_present : BOOLEAN, continuity_ok : BOOLEAN, continuity_gaps : Nat,
     origin_attested : {"none", "settled"}]

\* What TypeOK leaves open: the checkpoints' hash links go back, facts have their
\* fields, and once presented the bundle has a chain and a target.
Shaped ==
    /\ prev \in [Cps -> 0..NumCps] /\ \A c \in Cps : prev[c] < c
    /\ facts \in FactsType
    /\ stage = "present" => chain = << >>
    /\ stage # "present" => chain \in Chains /\ target \in Cps

Branch(i) == body[chain[i]].branch

\* The first n checkpoints of the chain grow and lie on one branch; a tree before
\* the first non-empty one lies on any.
OneGrowingHistory(n) ==
    \A i, j \in 1..n : i <= j => Size(i) <= Size(j) /\ (Size(i) > 0 => Branch(i) = Branch(j))

\* The first n checkpoints name each other, without an omission.
Dense(n) == \A i \in 1..(n - 1) : prev[chain[i + 1]] = chain[i]

\* What has been established about the first `link` checkpoints.  The last part is
\* the induction along the chain that history elisions are about.
Walked ==
    stage \in Walking =>
        /\ link \in 1..Len(chain)
        /\ prev[chain[1]] = Genesis
        /\ OneGrowingHistory(link)
        /\ \A i \in 1..(link - 1) : Linked(chain[i], chain[i + 1])
        /\ \A n \in 1..link : Dense(n) => Ancestry[chain[n]] \subseteq Range(chain)

\* What each later stage rests on.
Passed ==
    /\ stage \in Walking \ {"chain"} => link = Len(chain)
    /\ stage \in {"attest", "continuity", "verified"} => Last(chain) = target
    /\ stage \in {"continuity", "verified"} => facts.chain_sizes = Range(chain)
    /\ stage \in Walking \cup {"target"} => facts.complete # "false"

\* Nothing is told before the verdict.
Untold ==
    stage # "verified" =>
        /\ ~facts.ok /\ ~facts.continuity_present /\ ~facts.continuity_ok
        /\ facts.continuity_gaps = 0 /\ facts.origin_attested = "none"

\* A late receipt got past the binary search only on a chain out of order.
LateMeansDisorder ==
    late => \E i, j \in 1..Len(chain) : i < j /\ Size(i) > Size(j)

\* What the continuity of a verified bundle rests on.
ContinuityRead ==
    stage = "verified" =>
        \/ ~facts.continuity_ok
        \/ /\ facts.continuity_gaps = Cardinality(Gaps({}))
           /\ ~facts.continuity_present
        \/ /\ facts.continuity_gaps = 0 /\ facts.continuity_present
           /\ AllAdmissible(asserted) /\ Gaps(asserted) = {}

\* A refused bundle has lost its evidence.
Forfeited ==
    stage = "refused" =>
        ~facts.recorder_attested /\ facts.trusted_tst = {} /\ facts.chain_sizes = {}

ChainInv ==
    /\ TypeOK /\ Shaped /\ Walked /\ Passed /\ Untold
    /\ LateMeansDisorder /\ ContinuityRead /\ Forfeited

-------------------------------------------------------------------------------
(***************************************************************************)
(* Facts about the definitions.                                            *)
(***************************************************************************)
\* A presented chain is a non-empty sequence of checkpoints.
LEMMA ChainIsSeq ==
    ASSUME NEW c \in Chains
    PROVE  /\ c \in Seq(Cps)
           /\ Len(c) \in 1..NumCps
           /\ DOMAIN c = 1..Len(c)
           /\ \A i \in 1..Len(c) : c[i] \in Cps
  <1>1. PICK n \in 1..NumCps : c \in [1..n -> Cps]
    BY DEF Chains
  <1>2. n \in Nat /\ n >= 1
    BY ChainAssumption
  <1>3. c \in Seq(Cps)
    BY <1>1, <1>2, SeqDef
  <1>4. Len(c) = n
    BY <1>1, <1>2, <1>3, LenProperties
  <1> QED
    BY <1>1, <1>2, <1>3, <1>4

\* The sizes and branches of a presented chain.
LEMMA BodyType ==
    ASSUME TypeOK, Shaped, stage # "present", NEW i \in 1..Len(chain)
    PROVE  /\ Len(chain) \in Nat
           /\ chain[i] \in Cps /\ chain[i] \in Range(chain)
           /\ Size(i) \in Nat
           /\ body[target].size \in Nat
  <1>1. chain \in Chains
    BY DEF Shaped
  <1>2. /\ Len(chain) \in 1..NumCps
        /\ DOMAIN chain = 1..Len(chain)
        /\ chain[i] \in Cps
    BY <1>1, ChainIsSeq
  <1>3. chain[i] \in Range(chain)
    BY <1>2 DEF Range
  <1>4. body \in [Range(chain) \cup {target} -> Body]
    BY DEF TypeOK
  <1>5. body[chain[i]] \in Body /\ body[target] \in Body
    BY <1>3, <1>4
  <1> QED
    BY <1>2, <1>3, <1>5, ChainAssumption DEF Size, Body, Sizes

\* The hash links go back, so the ancestry of a checkpoint is what its definition
\* says.  The witness for the recursive function is the least set that holds the
\* checkpoint and is closed under prev_hash.
LEMMA AncestryDef ==
    ASSUME prev \in [Cps -> 0..NumCps]
    PROVE  /\ Ancestry[Genesis] = {}
           /\ \A c \in Cps : Ancestry[c] = {c} \cup Ancestry[prev[c]]
  <1> DEFINE Closed(S) == \A x \in S : x # Genesis => prev[x] \in S
             Reach(c) == {d \in Cps : \A S \in SUBSET (0..NumCps) :
                                         c \in S /\ Closed(S) => d \in S}
             Def(g) == [c \in 0..NumCps |-> IF c = Genesis THEN {} ELSE {c} \cup g[prev[c]]]
             r == [c \in 0..NumCps |-> Reach(c)]
  <1>0. NumCps \in Nat /\ Genesis = 0 /\ Cps = 1..NumCps
    BY ChainAssumption DEF Genesis, Cps
  <1>1. Reach(Genesis) = {}
    <2>1. Closed({Genesis}) /\ {Genesis} \in SUBSET (0..NumCps)
      BY <1>0
    <2>2. \A d \in Cps : d \notin {Genesis}
      BY <1>0
    <2> QED
      BY <2>1, <2>2
  <1>2. ASSUME NEW c \in Cps
        PROVE  Reach(c) = {c} \cup Reach(prev[c])
    <2>0. c \in 0..NumCps /\ c # Genesis /\ prev[c] \in 0..NumCps
      BY <1>0
    <2>1. c \in Reach(c)
      OBVIOUS
    <2>2. ASSUME NEW d \in Reach(prev[c]) PROVE d \in Reach(c)
      BY <2>0
    <2>3. ASSUME NEW d \in Reach(c), d # c PROVE d \in Reach(prev[c])
      <3>1. SUFFICES ASSUME NEW S \in SUBSET (0..NumCps), prev[c] \in S, Closed(S)
                     PROVE  d \in S
        OBVIOUS
      <3>2. Closed(S \cup {c}) /\ S \cup {c} \in SUBSET (0..NumCps)
        BY <3>1, <2>0
      <3> QED
        BY <3>2, <2>3
    <2> QED
      BY <2>1, <2>2, <2>3
  <1>3. r = Def(r)
    <2>1. \A c \in 0..NumCps : c # Genesis => c \in Cps /\ prev[c] \in 0..NumCps
      BY <1>0
    <2>2. \A c \in 0..NumCps :
             Reach(c) = IF c = Genesis THEN {} ELSE {c} \cup Reach(prev[c])
      BY <2>1, <1>1, <1>2
    <2> HIDE DEF Reach
    <2> QED
      BY <2>1, <2>2
  <1>4. Ancestry = Def(Ancestry)
    <2> HIDE DEF r
    <2> QED
      BY <1>3 DEF Ancestry
  <1> HIDE DEF Reach
  <1> QED
    BY <1>4, <1>0

\* On a chain in order the binary search stops at the first covering checkpoint,
\* so a receipt it admits is not late (check_entry, partition_point).
LEMMA SearchFindsFirstCover ==
    ASSUME TypeOK, Shaped, stage # "present",
           ~\E i, j \in 1..Len(chain) : i < j /\ Size(i) > Size(j),
           NEW leaf \in Nat, NEW ts \in Nat,
           NEW k \in CoverPoints(leaf), AdmittedInTime(ts, k),
           NEW f \in FirstCover(leaf)
    PROVE  ts <= Deadline(f)
  <1> DEFINE right == {m \in 0..Len(chain) :
                          \A i \in 1..Len(chain) : Size(i) <= leaf <=> i <= m}
  <1>1. f \in 1..Len(chain) /\ Size(f) > leaf /\ \A j \in 1..(f - 1) : Size(j) <= leaf
    BY DEF FirstCover
  <1>2. Len(chain) \in Nat /\ \A i \in 1..Len(chain) : Size(i) \in Nat
    BY <1>1, BodyType
  <1>3. f - 1 \in right
    <2>1. ASSUME NEW i \in 1..Len(chain) PROVE Size(i) <= leaf <=> i <= f - 1
      <3>1. CASE i < f
        BY <1>1, <1>2, <3>1
      <3>2. CASE i >= f
        <4>1. Size(i) >= Size(f)
          BY <1>1, <1>2, <3>2
        <4> QED
          BY <1>1, <1>2, <3>2, <4>1
      <3> QED
        BY <1>1, <1>2, <3>1, <3>2
    <2> QED
      BY <1>1, <1>2, <2>1
  <1>4. k \in right
    BY <1>3 DEF CoverPoints
  <1>5. k = f - 1
    <2>1. ~(f <= k)
      BY <1>1, <1>2, <1>4
    <2>2. f = 1 \/ f - 1 <= k
      BY <1>1, <1>2, <1>4
    <2> QED
      BY <1>1, <1>2, <1>4, <2>1, <2>2
  <1> QED
    BY <1>1, <1>2, <1>5 DEF AdmittedInTime

-------------------------------------------------------------------------------
(***************************************************************************)
(* The invariant holds initially and every action keeps it.                *)
(***************************************************************************)
\* Before a bundle is presented nothing is claimed about it.
LEMMA ChainInvInit == Init => ChainInv
  <1> SUFFICES ASSUME Init PROVE ChainInv
    OBVIOUS
  <1>1. Len(chain) = 0 /\ Range(chain) = {}
    BY DEF Init, Range
  <1>2. TypeOK
    <2>1. link \in 0..Len(chain) /\ target \in 0..NumCps
      BY <1>1, ChainAssumption DEF Init, Genesis
    <2>2. facts.trusted_tst = {}
      BY DEF Init, NoFacts
    <2> QED
      BY <2>1, <2>2 DEF Init, TypeOK, Stages
  <1>3. Shaped
    BY ChainAssumption DEF Init, Shaped, NoFacts, FactsType, Cps
  <1>4. Walked /\ Passed /\ Forfeited /\ ContinuityRead
    BY DEF Init, Walked, Passed, Forfeited, ContinuityRead, Walking
  <1>5. Untold /\ LateMeansDisorder
    BY DEF Init, Untold, LateMeansDisorder, NoFacts
  <1> QED
    BY <1>2, <1>3, <1>4, <1>5 DEF ChainInv

\* A bundle is presented: nothing about it is known yet.
LEMMA PresentKeeps == ASSUME ChainInv, Present PROVE ChainInv'
  <1>0. /\ TypeOK /\ Shaped /\ Untold /\ ~late /\ facts.trusted_tst = {}
        /\ stage = "present" /\ stage' = "entries" /\ chain = << >>
    <2>1. TypeOK /\ Shaped /\ Untold /\ LateMeansDisorder /\ stage = "present" /\ stage' = "entries"
      BY DEF ChainInv, Present
    <2>2. chain = << >> /\ Len(chain) = 0 /\ Range(chain) = {}
      BY <2>1 DEF Shaped, Range
    <2> QED
      BY <2>1, <2>2 DEF TypeOK, LateMeansDisorder
  <1>1. PICK c \in Chains, t \in Cps, profile \in BOOLEAN, complete \in {"none", "true", "false"} :
           /\ chain' = c /\ target' = t /\ sparse' = profile
           /\ body' \in [Range(c) \cup {t} -> Body]
           /\ facts' = [facts EXCEPT !.complete = complete]
    BY DEF Present
  <1>2. Len(c) \in Nat
    BY ChainIsSeq, ChainAssumption
  <1>3. TypeOK'
    BY <1>0, <1>1, <1>2, ChainAssumption DEF TypeOK, Present, Stages, Shaped, FactsType, Cps
  <1>4. Shaped'
    BY <1>0, <1>1 DEF Shaped, Present, FactsType
  <1>5. Walked' /\ Passed' /\ Forfeited' /\ ContinuityRead'
    BY <1>0 DEF Walked, Passed, Forfeited, ContinuityRead, Walking
  <1>6. Untold' /\ LateMeansDisorder'
    BY <1>0, <1>1 DEF Untold, LateMeansDisorder, Present, Shaped, FactsType
  <1> QED
    BY <1>3, <1>4, <1>5, <1>6 DEF ChainInv

\* After it was presented the bundle itself does not change, and neither does
\* anything that is a matter of the bundle alone.
LEMMA Unmoved ==
    ASSUME UNCHANGED <<prev, body, chain, target, sparse>>
    PROVE  /\ Ancestry' = Ancestry
           /\ \A i : Size(i)' = Size(i) /\ Branch(i)' = Branch(i) /\ Deadline(i)' = Deadline(i)
           /\ \A n : OneGrowingHistory(n)' <=> OneGrowingHistory(n)
           /\ \A n : Dense(n)' <=> Dense(n)
           /\ \A p, c : Linked(p, c)' <=> Linked(p, c)
           /\ \A as : Gaps(as)' = Gaps(as)
           /\ \A as : AllAdmissible(as)' <=> AllAdmissible(as)
  <1>1. Ancestry' = Ancestry
    BY DEF Ancestry
  <1>2. \A i : Size(i)' = Size(i) /\ Branch(i)' = Branch(i) /\ Deadline(i)' = Deadline(i)
    BY DEF Size, Branch, Deadline
  <1>3. \A n : OneGrowingHistory(n)' <=> OneGrowingHistory(n)
    BY DEF OneGrowingHistory, Size, Branch
  <1>4. \A n : Dense(n)' <=> Dense(n)
    BY DEF Dense
  <1>5. \A p, c : Linked(p, c)' <=> Linked(p, c)
    BY DEF Linked
  <1>6. \A as : Gaps(as)' = Gaps(as)
    BY DEF Gaps
  <1>7. \A as : AllAdmissible(as)' <=> AllAdmissible(as)
    BY DEF AllAdmissible, Admissible, Position
  <1> QED
    BY <1>1, <1>2, <1>3, <1>4, <1>5, <1>6, <1>7

\* A step that moves on by one stage without walking a link, without a receipt and
\* without a verdict: what the walk established stays, and what has to be shown
\* is what the new stage rests on.
LEMMA StageKeeps ==
    ASSUME ChainInv,
           UNCHANGED <<prev, body, chain, target, sparse, link, late, asserted>>,
           stage # "present", stage' \in Stages \ {"present", "verified"},
           facts' \in FactsType, facts'.trusted_tst \subseteq Range(chain),
           Walked', Passed', Untold', Forfeited'
    PROVE  ChainInv'
  <1>1. TypeOK'
    BY DEF ChainInv, TypeOK, Stages
  <1>2. Shaped'
    BY DEF ChainInv, Shaped
  <1>3. LateMeansDisorder'
    BY Unmoved DEF ChainInv, LateMeansDisorder
  <1>4. ContinuityRead'
    BY DEF ContinuityRead
  <1> QED
    BY <1>1, <1>2, <1>3, <1>4 DEF ChainInv

\* A receipt is accepted: it is late only if the search was misled by the chain.
LEMMA CheckEntryKeeps == ASSUME ChainInv, CheckEntry PROVE ChainInv'
  <1>0. /\ TypeOK /\ Shaped /\ Untold /\ LateMeansDisorder /\ ~facts.ok
        /\ stage = "entries" /\ stage' = "entries"
        /\ UNCHANGED <<prev, body, chain, target, sparse, link, asserted>>
    BY DEF ChainInv, CheckEntry, Untold
  <1>1. PICK leaf \in Sizes, ts \in 0..(MaxTime + Skew + 1) :
           /\ \E k \in CoverPoints(leaf) : AdmittedInTime(ts, k)
           /\ late' = (late \/ \E i \in FirstCover(leaf) : ts > Deadline(i))
    BY DEF CheckEntry
  <1>2. PICK recorder \in BOOLEAN :
           facts' = [facts EXCEPT !.recorder_attested = @ \/ recorder]
    BY DEF CheckEntry
  <1>3. leaf \in Nat /\ ts \in Nat
    BY ChainAssumption DEF Sizes
  <1>4. LateMeansDisorder'
    <2> SUFFICES ASSUME late', ~\E i, j \in 1..Len(chain) : i < j /\ Size(i) > Size(j)
                 PROVE  FALSE
      BY <1>0, Unmoved DEF LateMeansDisorder
    <2>1. PICK f \in FirstCover(leaf) : ts > Deadline(f)
      BY <1>0, <1>1 DEF LateMeansDisorder
    <2>2. ts <= Deadline(f)
      BY <1>0, <1>1, <1>3, SearchFindsFirstCover
    <2>3. Deadline(f) \in Int
      <3>1. f \in 1..Len(chain)
        BY DEF FirstCover
      <3>2. chain[f] \in Range(chain)
        BY <1>0, <3>1, BodyType
      <3>3. body[chain[f]] \in Body
        BY <1>0, <3>2 DEF TypeOK
      <3> QED
        BY <3>3, ChainAssumption DEF Deadline, Body, Times
    <2> QED
      BY <1>3, <2>1, <2>2, <2>3
  <1>5. facts' \in FactsType /\ facts'.trusted_tst = facts.trusted_tst
    BY <1>0, <1>2 DEF Shaped, FactsType
  <1>6. TypeOK'
    <2>1. late' \in BOOLEAN
      BY <1>1
    <2> QED
      BY <1>0, <1>5, <2>1 DEF TypeOK
  <1>7. Shaped'
    BY <1>0, <1>5 DEF Shaped
  <1>8. Untold'
    BY <1>0, <1>2 DEF Untold, Shaped, FactsType
  <1>9. Walked' /\ Passed' /\ Forfeited' /\ ContinuityRead'
    BY <1>0 DEF Walked, Passed, Forfeited, ContinuityRead, Walking
  <1> QED
    BY <1>4, <1>6, <1>7, <1>8, <1>9 DEF ChainInv

\* The receipts are done: the manifest, if there is one, held.
LEMMA EntriesDoneKeeps == ASSUME ChainInv, EntriesDone PROVE ChainInv'
  <1>1. Walked' /\ Passed' /\ Untold' /\ Forfeited'
    BY DEF ChainInv, EntriesDone, Walked, Passed, Untold, Forfeited, Walking
  <1> QED
    BY <1>1, StageKeeps DEF ChainInv, EntriesDone, Shaped, TypeOK, Stages

\* The walk begins: one checkpoint is trivially in order, and it has no ancestors.
LEMMA CheckTargetKeeps == ASSUME ChainInv, CheckTarget PROVE ChainInv'
  <1>0. /\ TypeOK /\ Shaped /\ Untold /\ Passed /\ LateMeansDisorder
        /\ stage = "target" /\ stage' = "chain" /\ link' = 1 /\ prev[chain[1]] = Genesis
        /\ UNCHANGED <<prev, body, chain, target, sparse, late, asserted, facts>>
    BY DEF ChainInv, CheckTarget
  <1>1. Len(chain) \in Nat /\ 1 \in 1..Len(chain) /\ chain[1] \in Cps
    BY <1>0, ChainIsSeq, ChainAssumption DEF Shaped
  <1>2. Walked'
    <2>1. OneGrowingHistory(1)
      <3>1. Size(1) \in Nat
        BY <1>0, <1>1, BodyType
      <3> QED
        BY <3>1 DEF OneGrowingHistory
    <2>2. Ancestry[chain[1]] \subseteq Range(chain)
      <3>1. Ancestry[chain[1]] = {chain[1]}
        BY <1>0, <1>1, AncestryDef DEF Shaped
      <3> QED
        BY <1>0, <1>1, <3>1, BodyType
    <2> QED
      BY <1>0, <1>1, <2>1, <2>2, Unmoved DEF Walked
  <1>3. TypeOK'
    BY <1>0, <1>1 DEF TypeOK, Stages
  <1>4. Shaped'
    BY <1>0 DEF Shaped
  <1>5. LateMeansDisorder'
    BY <1>0, Unmoved DEF LateMeansDisorder
  <1>6. Passed' /\ Untold' /\ ContinuityRead' /\ Forfeited'
    BY <1>0 DEF Passed, Untold, ContinuityRead, Forfeited, Walking
  <1> QED
    BY <1>2, <1>3, <1>4, <1>5, <1>6 DEF ChainInv

\* One more link: order, branch and ancestry go on from the last checkpoint to the
\* next.  After an empty tree no consistency proof is made, and none is needed:
\* every tree before it is empty as well.
LEMMA CheckLinkKeeps == ASSUME ChainInv, CheckLink PROVE ChainInv'
  <1>0. /\ TypeOK /\ Shaped /\ Untold /\ Passed /\ LateMeansDisorder /\ Walked
        /\ stage = "chain" /\ stage' = "chain" /\ link < Len(chain) /\ link' = link + 1
        /\ Linked(chain[link], chain[link + 1])
        /\ Size(link) <= Size(link + 1)
        /\ Size(link) > 0 => Branch(link) = Branch(link + 1)
        /\ UNCHANGED <<prev, body, chain, target, sparse, late, asserted, facts>>
    BY DEF ChainInv, CheckLink, Grew, Consistent, Size, Branch
  <1>1. /\ Len(chain) \in Nat
        /\ \A i \in 1..Len(chain) : Size(i) \in Nat /\ chain[i] \in Cps /\ chain[i] \in Range(chain)
    BY <1>0, BodyType, ChainIsSeq, ChainAssumption DEF Shaped
  <1>2. /\ link \in 1..Len(chain) /\ prev[chain[1]] = Genesis
        /\ OneGrowingHistory(link)
        /\ \A i \in 1..(link - 1) : Linked(chain[i], chain[i + 1])
        /\ \A n \in 1..link : Dense(n) => Ancestry[chain[n]] \subseteq Range(chain)
    BY <1>0 DEF Walked, Walking
  <1>3. link \in Nat /\ link + 1 \in 1..Len(chain) /\ link >= 1
    BY <1>0, <1>1, <1>2
  <1>4. OneGrowingHistory(link + 1)
    <2> SUFFICES ASSUME NEW i \in 1..(link + 1), NEW j \in 1..(link + 1), i <= j
                 PROVE  Size(i) <= Size(j) /\ (Size(i) > 0 => Branch(i) = Branch(j))
      BY DEF OneGrowingHistory
    <2>1. CASE j <= link
      BY <1>2, <1>3, <2>1 DEF OneGrowingHistory
    <2>2. CASE i = j
      BY <1>1, <1>3, <2>2
    <2>3. CASE j = link + 1 /\ i <= link
      <3>1. Size(i) <= Size(link) /\ (Size(i) > 0 => Branch(i) = Branch(link))
        BY <1>2, <1>3, <2>3 DEF OneGrowingHistory
      <3> QED
        BY <1>0, <1>1, <1>2, <1>3, <2>3, <3>1
    <2> QED
      BY <1>3, <2>1, <2>2, <2>3
  <1>5. \A i \in 1..link : Linked(chain[i], chain[i + 1])
    BY <1>0, <1>2, <1>3
  <1>6. \A n \in 1..(link + 1) : Dense(n) => Ancestry[chain[n]] \subseteq Range(chain)
    <2> SUFFICES ASSUME Dense(link + 1)
                 PROVE  Ancestry[chain[link + 1]] \subseteq Range(chain)
      BY <1>2, <1>3
    <2>1. Dense(link) /\ prev[chain[link + 1]] = chain[link]
      BY <1>3 DEF Dense
    <2>2. Ancestry[chain[link]] \subseteq Range(chain)
      BY <1>2, <1>3, <2>1
    <2>3. Ancestry[chain[link + 1]] = {chain[link + 1]} \cup Ancestry[chain[link]]
      BY <1>0, <1>1, <1>3, <2>1, AncestryDef DEF Shaped
    <2> QED
      BY <1>1, <1>3, <2>2, <2>3
  <1>7. Walked'
    BY <1>0, <1>2, <1>3, <1>4, <1>5, <1>6, Unmoved DEF Walked
  <1>8. TypeOK'
    BY <1>0, <1>1, <1>3 DEF TypeOK
  <1>9. Shaped'
    BY <1>0 DEF Shaped
  <1>10. LateMeansDisorder'
    BY <1>0, Unmoved DEF LateMeansDisorder
  <1>11. Passed' /\ Untold' /\ ContinuityRead' /\ Forfeited'
    BY <1>0 DEF Passed, Untold, ContinuityRead, Forfeited, Walking
  <1> QED
    BY <1>7, <1>8, <1>9, <1>10, <1>11 DEF ChainInv

\* What the walk established stays while later stages are gone through.
LEMMA WalkedStays ==
    ASSUME Walked, stage \in Walking,
           UNCHANGED <<prev, body, chain, target, sparse, link>>
    PROVE  Walked'
  BY Unmoved DEF Walked

\* The walk is over: every link of the chain has been checked.
LEMMA ChainDoneKeeps == ASSUME ChainInv, ChainDone PROVE ChainInv'
  <1>1. Walked'
    BY WalkedStays DEF ChainInv, ChainDone, Walking
  <1>2. Passed' /\ Untold' /\ Forfeited'
    BY DEF ChainInv, ChainDone, Passed, Untold, Forfeited, Walking
  <1> QED
    BY <1>1, <1>2, StageKeeps DEF ChainInv, ChainDone, Shaped, TypeOK, Stages

\* The head matches: the walk ended in the target.
LEMMA CheckHeadKeeps == ASSUME ChainInv, CheckHead PROVE ChainInv'
  <1>1. Walked'
    BY WalkedStays DEF ChainInv, CheckHead, Walking
  <1>2. Passed' /\ Untold' /\ Forfeited'
    BY DEF ChainInv, CheckHead, HeadMatches, Passed, Untold, Forfeited, Walking
  <1> QED
    BY <1>1, <1>2, StageKeeps DEF ChainInv, CheckHead, Shaped, TypeOK, Stages

\* A timestamp record is credited to a checkpoint of the chain.
LEMMA CheckTimestampKeeps == ASSUME ChainInv, CheckTimestamp PROVE ChainInv'
  <1>0. /\ stage = "attest" /\ stage' = "attest" /\ TypeOK /\ Shaped
        /\ UNCHANGED <<prev, body, chain, target, sparse, link, late, asserted>>
    BY DEF ChainInv, CheckTimestamp
  <1>1. PICK c \in Range(chain) : facts' = [facts EXCEPT !.trusted_tst = @ \cup {c}]
    BY DEF CheckTimestamp
  <1>2. c \in Cps
    BY <1>0, <1>1, ChainIsSeq DEF Shaped, Range
  <1>3. facts' \in FactsType /\ facts'.trusted_tst \subseteq Range(chain)
    BY <1>0, <1>1, <1>2 DEF Shaped, TypeOK, FactsType
  <1>4. Walked'
    BY <1>0, WalkedStays DEF ChainInv, Walking
  <1>5. Passed' /\ Untold' /\ Forfeited'
    BY <1>0, <1>1 DEF ChainInv, Shaped, FactsType, Passed, Untold, Forfeited, Walking
  <1> QED
    BY <1>0, <1>3, <1>4, <1>5, StageKeeps DEF Stages

\* The chain's checkpoints become those an acknowledgement may name.
LEMMA AttestDoneKeeps == ASSUME ChainInv, AttestDone PROVE ChainInv'
  <1>0. /\ stage = "attest" /\ stage' = "continuity" /\ TypeOK /\ Shaped
        /\ UNCHANGED <<prev, body, chain, target, sparse, link, late, asserted>>
        /\ facts' = [facts EXCEPT !.chain_sizes = Range(chain)]
    BY DEF ChainInv, AttestDone
  <1>2. Range(chain) \subseteq Cps
    BY <1>0, ChainIsSeq DEF Shaped, Range
  <1>3. facts' \in FactsType /\ facts'.trusted_tst \subseteq Range(chain)
    BY <1>0, <1>2 DEF Shaped, TypeOK, FactsType
  <1>4. Walked'
    BY <1>0, WalkedStays DEF ChainInv, Walking
  <1>5. Passed' /\ Untold' /\ Forfeited'
    BY <1>0 DEF ChainInv, Shaped, FactsType, Passed, Untold, Forfeited, Walking
  <1> QED
    BY <1>0, <1>3, <1>4, <1>5, StageKeeps DEF Stages

\* A refused bundle keeps its answer about the manifest and nothing else.
LEMMA RefuseKeeps == ASSUME ChainInv, Refuse PROVE ChainInv'
  <1>0. /\ stage \notin {"present", "continuity", "verified", "refused"} /\ stage' = "refused"
        /\ TypeOK /\ Shaped
        /\ UNCHANGED <<prev, body, chain, target, sparse, link, late, asserted>>
        /\ facts' = [facts EXCEPT !.ok = FALSE, !.recorder_attested = FALSE,
                                  !.trusted_tst = {}, !.chain_sizes = {}]
    BY DEF ChainInv, Refuse, RefusedFacts
  <1>1. facts' \in FactsType /\ facts'.trusted_tst \subseteq Range(chain)
    BY <1>0 DEF Shaped, FactsType
  <1>2. Untold' /\ Forfeited'
    BY <1>0 DEF ChainInv, Shaped, FactsType, Untold, Forfeited
  <1>3. Walked' /\ Passed'
    BY <1>0 DEF Walked, Passed, Walking
  <1> QED
    BY <1>0, <1>1, <1>2, <1>3, StageKeeps DEF Stages

\* The gaps of a chain are finitely many, and an assertion only ever closes some.
LEMMA GapsFinite ==
    ASSUME TypeOK, Shaped, stage # "present", NEW as
    PROVE  /\ IsFiniteSet(Gaps(as)) /\ Gaps(as) \subseteq Gaps({})
           /\ Cardinality(Gaps(as)) \in Nat /\ Cardinality(Gaps({})) \in Nat
           /\ Cardinality(Gaps(as)) <= Cardinality(Gaps({}))
           /\ Cardinality(Gaps({})) = 0 => Gaps({}) = {}
  <1>1. Len(chain) \in Nat
    BY ChainIsSeq, ChainAssumption DEF Shaped
  <1>2. IsFiniteSet(1..(Len(chain) - 1))
    BY <1>1, FS_Interval
  <1>3. Gaps({}) \subseteq 1..(Len(chain) - 1) /\ Gaps(as) \subseteq Gaps({})
    BY DEF Gaps
  <1>4. IsFiniteSet(Gaps({}))
    BY <1>2, <1>3, FS_Subset
  <1>5. IsFiniteSet(Gaps(as)) /\ Cardinality(Gaps(as)) <= Cardinality(Gaps({}))
    BY <1>3, <1>4, FS_Subset
  <1>6. Cardinality(Gaps(as)) \in Nat /\ Cardinality(Gaps({})) \in Nat
    BY <1>4, <1>5, FS_CardinalityType
  <1>7. Cardinality(Gaps({})) = 0 => Gaps({}) = {}
    BY <1>4, FS_EmptySet
  <1> QED
    BY <1>3, <1>5, <1>6, <1>7, Zenon

\* The verdict: what it says of continuity is what has to be shown.
LEMMA VerifyKeeps ==
    ASSUME ChainInv, stage = "continuity",
           UNCHANGED <<prev, body, chain, target, sparse, link, late>>,
           NEW present \in BOOLEAN, NEW ok \in BOOLEAN, NEW gaps \in Nat,
           Verify(present, ok, gaps),
           asserted' \subseteq Assertion,
           \/ ~ok
           \/ gaps = Cardinality(Gaps({})) /\ ~present
           \/ gaps = 0 /\ present /\ AllAdmissible(asserted') /\ Gaps(asserted') = {}
    PROVE  ChainInv'
  <1>0. TypeOK /\ Shaped /\ Walked /\ Passed /\ LateMeansDisorder /\ stage' = "verified"
    BY DEF ChainInv, Verify
  <1>1. PICK origin \in {"none", "settled"} :
           facts' = [facts EXCEPT !.ok = TRUE, !.continuity_present = present,
                                  !.continuity_ok = ok, !.continuity_gaps = gaps,
                                  !.origin_attested = origin]
    BY DEF Verify
  <1>2. /\ facts' \in FactsType
        /\ facts'.trusted_tst = facts.trusted_tst /\ facts'.chain_sizes = facts.chain_sizes
        /\ facts'.complete = facts.complete
        /\ facts'.continuity_present = present /\ facts'.continuity_ok = ok
        /\ facts'.continuity_gaps = gaps
    BY <1>0, <1>1 DEF Shaped, FactsType
  <1>3. TypeOK'
    BY <1>0, <1>2 DEF TypeOK, Stages
  <1>4. Shaped'
    BY <1>0, <1>2 DEF Shaped
  <1>5. Walked'
    BY <1>0, WalkedStays DEF Walking
  <1>6. Passed'
    BY <1>0, <1>2 DEF Passed, Walking
  <1>7. Untold' /\ Forfeited'
    BY <1>0 DEF Untold, Forfeited
  <1>8. LateMeansDisorder'
    BY <1>0, Unmoved DEF LateMeansDisorder
  <1>9. ContinuityRead'
    <2>1. Gaps({})' = Gaps({})
      BY DEF Gaps
    <2>2. Gaps(asserted)' = Gaps(asserted')
      BY DEF Gaps
    <2>3. AllAdmissible(asserted)' <=> AllAdmissible(asserted')
      BY DEF AllAdmissible, Admissible, Position
    <2> QED
      BY <1>0, <1>2, <2>1, <2>2, <2>3 DEF ContinuityRead
  <1> QED
    BY <1>3, <1>4, <1>5, <1>6, <1>7, <1>8, <1>9 DEF ChainInv

\* The three forms the continuity member takes: absent, unreadable, a list.
LEMMA AssessContinuityKeeps == ASSUME ChainInv, AssessContinuity PROVE ChainInv'
  <1>0. /\ TypeOK /\ Shaped /\ stage = "continuity" /\ asserted \subseteq Assertion
        /\ UNCHANGED <<prev, body, chain, target, sparse, link, late>>
    BY DEF ChainInv, AssessContinuity, TypeOK
  <1>1. ASSUME NEW as PROVE Cardinality(Gaps(as)) \in Nat
    BY <1>0, GapsFinite, Zenon
  <1>2. CASE UNCHANGED asserted /\ Verify(FALSE, TRUE, Cardinality(Gaps({})))
    BY <1>0, <1>1, <1>2, VerifyKeeps
  <1>3. CASE UNCHANGED asserted /\ Verify(FALSE, FALSE, 0)
    BY <1>0, <1>3, VerifyKeeps
  <1>4. ASSUME NEW as \in AssertionSets, asserted' = as,
               \/ /\ AllAdmissible(as)
                  /\ Verify(as # {}, as = {} \/ Gaps(as) = {}, Cardinality(Gaps(as)))
               \/ /\ ~AllAdmissible(as)
                  /\ Verify(TRUE, FALSE, 0)
        PROVE  ChainInv'
    <2>1. asserted' \subseteq Assertion
      <3>1. PICK f \in UNION {[1..n -> Assertion] : n \in 0..MaxAsserted} : as = Range(f)
        BY DEF AssertionSets
      <3>2. Range(f) \subseteq Assertion
        BY <3>1 DEF Range
      <3> QED
        BY <1>4, <3>1, <3>2
    <2>2. CASE ~AllAdmissible(as) /\ Verify(TRUE, FALSE, 0)
      BY <1>0, <2>1, <2>2, VerifyKeeps
    <2>3. CASE as = {} /\ Verify(as # {}, as = {} \/ Gaps(as) = {}, Cardinality(Gaps(as)))
      <3>1. Verify(FALSE, TRUE, Cardinality(Gaps({})))
        BY <2>3 DEF Verify
      <3> QED
        BY <1>0, <1>1, <2>1, <3>1, VerifyKeeps
    <2>4. CASE /\ as # {} /\ AllAdmissible(as) /\ Gaps(as) = {}
               /\ Verify(as # {}, as = {} \/ Gaps(as) = {}, Cardinality(Gaps(as)))
      <3>1. Verify(TRUE, TRUE, 0)
        BY <2>4, FS_EmptySet DEF Verify
      <3> QED
        BY <1>0, <1>4, <2>1, <2>4, <3>1, VerifyKeeps
    <2>5. CASE /\ as # {} /\ Gaps(as) # {}
               /\ Verify(as # {}, as = {} \/ Gaps(as) = {}, Cardinality(Gaps(as)))
      <3>1. Verify(TRUE, FALSE, Cardinality(Gaps(as)))
        BY <2>5 DEF Verify
      <3> QED
        BY <1>0, <1>1, <2>1, <3>1, VerifyKeeps
    <2> QED
      BY <1>4, <2>2, <2>3, <2>4, <2>5
  <1> QED
    BY <1>2, <1>3, <1>4 DEF AssessContinuity

\* ChainInv is inductive.
LEMMA ChainInvStep == ChainInv /\ [Next]_vars => ChainInv'
  <1> SUFFICES ASSUME ChainInv, [Next]_vars PROVE ChainInv'
    OBVIOUS
  <1>1. CASE Next
    BY <1>1, PresentKeeps, CheckEntryKeeps, EntriesDoneKeeps, CheckTargetKeeps,
       CheckLinkKeeps, ChainDoneKeeps, CheckHeadKeeps, CheckTimestampKeeps,
       AttestDoneKeeps, AssessContinuityKeeps, RefuseKeeps DEF Next
  <1>2. CASE UNCHANGED vars
    <2>0. UNCHANGED <<prev, body, chain, target, sparse, link, late, asserted, stage, facts>>
      BY <1>2 DEF vars
    <2>1. TypeOK'
      BY <2>0 DEF ChainInv, TypeOK
    <2>2. Shaped'
      BY <2>0 DEF ChainInv, Shaped
    <2>3. Walked'
      BY <2>0, Unmoved DEF ChainInv, Walked
    <2>4. Passed' /\ Untold' /\ Forfeited'
      BY <2>0 DEF ChainInv, Passed, Untold, Forfeited
    <2>5. LateMeansDisorder'
      BY <2>0, Unmoved DEF ChainInv, LateMeansDisorder
    <2>6. ContinuityRead'
      <3>1. ContinuityRead
        BY DEF ChainInv
      <3>2. Gaps({})' = Gaps({}) /\ Gaps(asserted)' = Gaps(asserted)
        BY <2>0 DEF Gaps
      <3>3. AllAdmissible(asserted)' <=> AllAdmissible(asserted)
        BY <2>0 DEF AllAdmissible, Admissible, Position
      <3> QED
        BY <2>0, <3>1, <3>2, <3>3 DEF ContinuityRead
    <2> QED
      BY <2>1, <2>2, <2>3, <2>4, <2>5, <2>6 DEF ChainInv
  <1> QED
    BY <1>1, <1>2

-------------------------------------------------------------------------------
(***************************************************************************)
(* The theorems.                                                           *)
(***************************************************************************)
\* Every reachable state of the pipeline satisfies the invariant.
THEOREM ChainInvariance == Spec => []ChainInv
  BY ChainInvInit, ChainInvStep, PTL DEF Spec

\* The pipeline's state is well formed at every check, and a link is looked at only
\* within the presented chain (verify_bundle_facts).
THEOREM TypeCorrect == Spec => []TypeOK
  <1>1. ChainInv => TypeOK
    BY DEF ChainInv
  <1> QED
    BY <1>1, ChainInvariance, PTL

\* No receipt of a verified bundle postdates the first checkpoint that covers it,
\* although the search for that checkpoint ran before the chain was checked
\* (check_entry): a chain on which the search went wrong is refused later.
THEOREM DeadlineIsHeld == Spec => []DeadlineHeld
  <1>1. ChainInv => DeadlineHeld
    <2> SUFFICES ASSUME ChainInv, stage = "verified", late PROVE FALSE
      BY DEF DeadlineHeld, Verified
    <2>1. TypeOK /\ Shaped /\ LateMeansDisorder
      BY DEF ChainInv
    <2>2. OneGrowingHistory(Len(chain))
      BY DEF ChainInv, Walked, Passed, Walking
    <2>3. PICK i, j \in 1..Len(chain) : i < j /\ Size(i) > Size(j)
      BY <2>1 DEF LateMeansDisorder
    <2>4. Len(chain) \in Nat /\ Size(i) \in Nat /\ Size(j) \in Nat
      BY <2>1, BodyType
    <2> QED
      BY <2>2, <2>3, <2>4 DEF OneGrowingHistory
  <1> QED
    BY <1>1, ChainInvariance, PTL

\* The last checkpoint of a verified chain is the target, and it is at Len(chain).
LEMMA TargetIsLast ==
    ASSUME ChainInv, stage \in {"attest", "continuity", "verified"}
    PROVE  /\ Len(chain) \in Nat /\ Len(chain) \in 1..Len(chain)
           /\ target = chain[Len(chain)] /\ link = Len(chain)
  BY ChainIsSeq, ChainAssumption DEF ChainInv, Shaped, Passed, Last, Walking

\* A verified chain is one history that only grows (check_chain_link,
\* check_chain_consistency): skipping the consistency proof after an empty tree
\* opens no fork, however long the chain and however many histories were signed.
THEOREM OneHistoryHolds == Spec => []OneHistory
  <1>1. ChainInv => OneHistory
    <2> SUFFICES ASSUME ChainInv, stage = "verified" PROVE OneHistory
      BY DEF OneHistory, Verified
    <2>1. TypeOK /\ Shaped /\ OneGrowingHistory(Len(chain))
      BY TargetIsLast DEF ChainInv, Walked, Walking
    <2>2. \A i \in 1..Len(chain) : Len(chain) \in Nat /\ Size(i) \in Nat
      BY <2>1, BodyType
    <2>3. ASSUME NEW i \in 1..Len(chain), NEW j \in 1..Len(chain), Size(i) > 0, Size(j) > 0
          PROVE  Branch(i) = Branch(j)
      <3>1. i <= j \/ j <= i
        OBVIOUS
      <3> QED
        BY <2>1, <2>3, <3>1 DEF OneGrowingHistory
    <2>4. ASSUME NEW i \in 1..Len(chain) PROVE Size(i) <= body[target].size
      <3>1. Size(i) <= Size(Len(chain))
        BY <2>1, <2>2, TargetIsLast DEF OneGrowingHistory
      <3> QED
        BY <3>1, TargetIsLast DEF Size
    <2> QED
      BY <2>3, <2>4 DEF OneHistory, Branch
  <1> QED
    BY <1>1, ChainInvariance, PTL

\* A dense verified chain holds the whole history of its target.
LEMMA DenseIsComplete ==
    ASSUME ChainInv, stage = "verified", Dense(Len(chain))
    PROVE  History \subseteq Range(chain)
  BY TargetIsLast DEF ChainInv, Walked, Walking, History

\* A checkpoint of the target's history that a verified bundle leaves out is shown
\* (check_chain_link, assess_continuity): a gap, an unreadable cover, or a cover the
\* operator signed.
THEOREM ElisionShows == Spec => []ElisionNeverSilent
  <1>1. ChainInv => ElisionNeverSilent
    <2> SUFFICES ASSUME ChainInv, stage = "verified", ~(History \subseteq Range(chain))
                 PROVE  /\ sparse
                        /\ \/ facts.continuity_gaps > 0
                           \/ ~facts.continuity_ok
                           \/ \E a \in asserted, i \in 1..(Len(chain) - 1) :
                                 Admissible(a) /\ a.from = chain[i] /\ a.to = chain[i + 1]
      BY DEF ElisionNeverSilent, Verified
    <2>1. TypeOK /\ Shaped /\ ContinuityRead /\ ~Dense(Len(chain))
      BY DenseIsComplete DEF ChainInv
    <2>2. sparse
      BY <2>1, TargetIsLast DEF ChainInv, Walked, Walking, Linked, Dense
    <2>3. PICK i \in 1..(Len(chain) - 1) : prev[chain[i + 1]] # chain[i]
      BY <2>1 DEF Dense
    <2>4. i \in Gaps({})
      BY <2>3 DEF Gaps
    <2>5. CASE facts.continuity_gaps = Cardinality(Gaps({}))
      <3>1. /\ Cardinality(Gaps({})) \in Nat
            /\ Cardinality(Gaps({})) = 0 => Gaps({}) = {}
        BY <2>1, GapsFinite, Zenon
      <3>2. Cardinality(Gaps({})) > 0
        BY <2>4, <3>1
      <3> QED
        BY <2>2, <2>5, <3>2
    <2>6. CASE AllAdmissible(asserted) /\ Gaps(asserted) = {}
      <3>1. PICK a \in asserted : a.from = chain[i] /\ a.to = chain[i + 1]
        BY <2>3, <2>6 DEF Gaps
      <3> QED
        BY <2>2, <2>6, <3>1 DEF AllAdmissible
    <2> QED
      BY <2>1, <2>2, <2>5, <2>6 DEF ContinuityRead
  <1> QED
    BY <1>1, ChainInvariance, PTL

\* An acknowledged interval counts as covered only when it is one of this log and its
\* end comes after its start in the verified chain (acknowledgement_coverage).
THEOREM CoverageFollows == Spec => []CoverageFollowsChain
  <1>1. ChainInv => CoverageFollowsChain
    <2> SUFFICES ASSUME ChainInv, stage = "verified",
                        NEW i \in 1..Len(chain), NEW j \in 1..Len(chain), NEW own \in BOOLEAN,
                        Coverage(own, chain[i], chain[j]) = "covered"
                 PROVE  own /\ i < j
      BY DEF CoverageFollowsChain, Verified
    <2>1. TypeOK /\ Shaped /\ OneGrowingHistory(Len(chain))
      BY TargetIsLast DEF ChainInv, Walked, Walking
    <2>2. Size(i) \in Nat /\ Size(j) \in Nat
      BY <2>1, BodyType
    <2>3. own /\ Size(i) < Size(j)
      BY DEF Coverage, Size
    <2>4. j <= i => Size(j) <= Size(i)
      BY <2>1 DEF OneGrowingHistory
    <2> QED
      BY <2>2, <2>3, <2>4
  <1> QED
    BY <1>1, ChainInvariance, PTL

\* A presented bundle and a report are not the empty record that stands for none.
LEMMA RecordsAreNotEmpty ==
    /\ \A c, t, s, p, b : [chain |-> c, target |-> t, sparse |-> s, prev |-> p, body |-> b] # << >>
    /\ \A f \in FactsType : f # << >>
  <1>1. DOMAIN << >> = {}
    OBVIOUS
  <1>2. ASSUME NEW c, NEW t, NEW s, NEW p, NEW b
        PROVE  [chain |-> c, target |-> t, sparse |-> s, prev |-> p, body |-> b] # << >>
    <2>1. "chain" \in DOMAIN [chain |-> c, target |-> t, sparse |-> s, prev |-> p, body |-> b]
      OBVIOUS
    <2> QED
      BY <1>1, <2>1
  <1>3. ASSUME NEW f \in FactsType PROVE f # << >>
    <2>1. "ok" \in DOMAIN f
      BY DEF FactsType
    <2> QED
      BY <1>1, <2>1
  <1> QED
    BY <1>2, <1>3

\* The bundle, as BundleReport sees it once it was presented.
Given == [chain |-> chain, target |-> target, sparse |-> sparse, prev |-> prev, body |-> body]

\* When every check has passed, the bundle is the history the report promises.
LEMMA CheckedIsHistory ==
    ASSUME ChainInv, stage = "continuity"
    PROVE  Report!History(Given)
  <1>0. /\ Given.chain = chain /\ Given.target = target /\ Given.sparse = sparse
        /\ Given.prev = prev /\ Given.body = body
    BY DEF Given
  <1>1. TypeOK /\ Shaped /\ link = Len(chain) /\ Last(chain) = target
    BY DEF ChainInv, Passed, Walking
  <1>2. /\ prev[chain[1]] = Genesis /\ OneGrowingHistory(Len(chain))
        /\ \A i \in 1..(Len(chain) - 1) : Linked(chain[i], chain[i + 1])
    BY <1>1 DEF ChainInv, Walked, Walking
  <1>3. /\ DOMAIN chain = 1..Len(chain) /\ Len(chain) \in Nat
        /\ \A i \in 1..Len(chain) : chain[i] \in Cps
    BY <1>1, ChainIsSeq, ChainAssumption DEF Shaped
  <1>4. ASSUME NEW i \in Report!Links(Given)
        PROVE  prev[chain[i + 1]] \in IF sparse THEN Nat \ {Genesis} ELSE {chain[i]}
    <2>1. i \in 1..(Len(chain) - 1) /\ chain[i + 1] \in Cps
      BY <1>0, <1>3 DEF Report!Links
    <2>2. prev[chain[i + 1]] \in Nat
      BY <1>1, <2>1, ChainAssumption DEF Shaped
    <2> QED
      BY <1>2, <2>1, <2>2 DEF Linked
  <1>5. ASSUME NEW i \in DOMAIN chain, NEW j \in DOMAIN chain
        PROVE  /\ i < j => Size(i) <= Size(j)
               /\ Size(i) > 0 /\ Size(j) > 0 => Branch(i) = Branch(j)
    <2>1. i \in 1..Len(chain) /\ j \in 1..Len(chain) /\ (i <= j \/ j <= i)
      BY <1>3
    <2> QED
      BY <1>2, <2>1 DEF OneGrowingHistory
  <1>6. \A i, j \in DOMAIN Given.chain :
          /\ i < j => Report!BodyAt(Given, i).size <= Report!BodyAt(Given, j).size
          /\ Report!BodyAt(Given, i).size > 0 /\ Report!BodyAt(Given, j).size > 0 =>
                Report!BodyAt(Given, i).branch = Report!BodyAt(Given, j).branch
    BY <1>0, <1>5 DEF Report!BodyAt, Size, Branch
  <1> QED
    BY <1>0, <1>1, <1>2, <1>4, <1>6 DEF Report!History, Report!Genesis, Genesis, Report!Last, Last

\* The verdict tells continuity as the report promises.
LEMMA ContinuityIsTold ==
    ASSUME ChainInv, AssessContinuity
    PROVE  Report!ContinuityTold(Given, facts')
  <1>0. /\ Given.chain = chain /\ Given.prev = prev
    BY DEF Given
  <1>1. Report!Unlinked(Given) = Gaps({})
    BY <1>0 DEF Report!Unlinked, Report!Links, Gaps
  <1>1a. \A S : Report!Cardinality(S) = Cardinality(S)
    BY DEF Report!Cardinality, Cardinality, Report!IsFiniteSet, IsFiniteSet
  <1>2. TypeOK /\ Shaped /\ stage = "continuity"
    BY DEF ChainInv, AssessContinuity
  <1>2a. Cardinality(Gaps({})) \in Nat /\ 0 <= Cardinality(Gaps({}))
    <2>1. Cardinality(Gaps({})) \in Nat
      BY <1>2, GapsFinite, Zenon
    <2> QED
      BY <2>1
  <1>3. ASSUME NEW present \in BOOLEAN, NEW ok \in BOOLEAN, NEW gaps \in Nat,
               Verify(present, ok, gaps), gaps <= Cardinality(Gaps({})),
               ok => gaps = IF present THEN 0 ELSE Cardinality(Gaps({}))
        PROVE  Report!ContinuityTold(Given, facts')
    <2>1. Cardinality(Gaps({})) \in Nat /\ gaps \in 0..Cardinality(Gaps({}))
      BY <1>2, <1>2a, <1>3
    <2>2. /\ facts'.continuity_present = present /\ facts'.continuity_ok = ok
          /\ facts'.continuity_gaps = gaps
      BY <1>2, <1>3 DEF Shaped, FactsType, Verify
    <2> QED
      BY <1>1, <1>1a, <1>3, <2>1, <2>2 DEF Report!ContinuityTold
  <1>4. ASSUME NEW as
        PROVE  /\ Cardinality(Gaps(as)) \in Nat /\ Cardinality(Gaps({})) \in Nat
               /\ Cardinality(Gaps(as)) <= Cardinality(Gaps({}))
    BY <1>2, GapsFinite, Zenon
  <1>5. CASE Verify(FALSE, TRUE, Cardinality(Gaps({})))
    BY <1>3, <1>4, <1>5
  <1>6. CASE Verify(FALSE, FALSE, 0) \/ Verify(TRUE, FALSE, 0)
    BY <1>2a, <1>3, <1>6
  <1>7. ASSUME NEW as,
               Verify(as # {}, as = {} \/ Gaps(as) = {}, Cardinality(Gaps(as)))
        PROVE  Report!ContinuityTold(Given, facts')
    <2>1. CASE as = {}
      <3>1. Verify(FALSE, TRUE, Cardinality(Gaps({})))
        BY <1>7, <2>1 DEF Verify
      <3> QED
        BY <1>5, <3>1
    <2>2. CASE as # {} /\ Gaps(as) = {}
      <3>1. Verify(TRUE, TRUE, 0)
        BY <1>7, <2>2, FS_EmptySet DEF Verify
      <3> QED
        BY <1>2a, <1>3, <3>1
    <2>3. CASE as # {} /\ Gaps(as) # {}
      <3>1. Verify(TRUE, FALSE, Cardinality(Gaps(as)))
        BY <1>7, <2>3 DEF Verify
      <3> QED
        BY <1>3, <1>4, <3>1
    <2> QED
      BY <2>1, <2>2, <2>3
  <1> QED
    BY <1>5, <1>6, <1>7 DEF AssessContinuity

\* Every step of the pipeline is a step of the report or leaves it as it was.
LEMMA StepRefines ==
    ASSUME ChainInv, ChainInv', [Next]_vars
    PROVE  [Report!Next]_(Report!vars)
  <1> USE DEF Report!vars, Report!NoBundle, Report!Pending
  <1>0. Shaped /\ Shaped' /\ Untold /\ TypeOK /\ facts \in FactsType /\ facts' \in FactsType
    BY DEF ChainInv, Shaped
  <1>1. Given # << >> /\ Given' # << >> /\ facts' # << >>
    BY <1>0, RecordsAreNotEmpty DEF Given
  <1>2. CASE Present
    <2>1. Report!Receive
      BY <1>1, <1>2 DEF Present, Report!Receive, Given
    <2> QED
      BY <2>1 DEF Report!Next
  <1>3. CASE AssessContinuity
    <2>1. /\ stage = "continuity" /\ stage' = "verified" /\ Given' = Given
          /\ facts'.ok /\ facts'.complete = facts.complete
          /\ facts'.trusted_tst = facts.trusted_tst /\ facts'.chain_sizes = facts.chain_sizes
      BY <1>0, <1>3 DEF AssessContinuity, Verify, Given, Shaped, FactsType
    <2>2. /\ facts.complete # "false" /\ facts.chain_sizes = Range(chain)
          /\ facts.trusted_tst \subseteq Range(chain) /\ Given.chain = chain
      BY <1>0, <2>1 DEF ChainInv, Passed, Walking, TypeOK, Given
    <2>3. Report!History(Given) /\ Report!ContinuityTold(Given, facts')
      BY <1>3, <2>1, CheckedIsHistory, ContinuityIsTold
    <2>4. Range(chain) = Report!Range(chain)
      BY DEF Range, Report!Range
    <2>5. Report!Accept
      BY <1>1, <2>1, <2>2, <2>3, <2>4 DEF Report!Accept, Given
    <2> QED
      BY <2>5 DEF Report!Next
  <1>4. CASE Refuse
    <2>1. facts' = [ok |-> FALSE, complete |-> facts.complete, recorder_attested |-> FALSE,
                    trusted_tst |-> {}, chain_sizes |-> {},
                    continuity_present |-> FALSE, continuity_ok |-> FALSE,
                    continuity_gaps |-> 0, origin_attested |-> "none"]
      BY <1>0, <1>4 DEF Refuse, RefusedFacts, Untold, FactsType
    <2>2. facts.complete \in {"none", "true", "false"}
      BY <1>0 DEF FactsType
    <2>3. /\ stage \notin {"present", "verified", "refused"} /\ stage' = "refused"
          /\ Given' = Given
      BY <1>4 DEF Refuse, Given
    <2>4. Report!Refuse
      BY <1>1, <2>1, <2>2, <2>3 DEF Report!Refuse, Given
    <2> QED
      BY <2>4 DEF Report!Next
  <1>5. CASE \/ CheckEntry \/ EntriesDone \/ CheckTarget \/ CheckLink \/ ChainDone
             \/ CheckHead \/ CheckTimestamp \/ AttestDone
    <2>1. /\ stage \notin {"present", "verified", "refused"}
          /\ stage' \notin {"present", "verified", "refused"}
          /\ UNCHANGED <<prev, body, chain, target, sparse>>
      BY <1>5 DEF CheckEntry, EntriesDone, CheckTarget, CheckLink, ChainDone, CheckHead,
                  CheckTimestamp, AttestDone
    <2> QED
      BY <2>1
  <1>6. CASE UNCHANGED vars
    BY <1>6 DEF vars
  <1> QED
    BY <1>2, <1>3, <1>4, <1>5, <1>6 DEF Next

\* The pipeline implements BundleReport (verify_bundle): for every length of chain a
\* bundle is judged in one step, a favourable report is about one history that ends
\* in the target, and a refused bundle earns no evidence.
THEOREM JudgedInOneStep == Spec => JudgedAtOnce
  <1>1. Init => Report!Init
    BY DEF Init, Report!Init, Report!NoBundle, Report!Pending
  <1>2. ChainInv /\ ChainInv' /\ [Next]_vars => [Report!Next]_(Report!vars)
    BY StepRefines
  <1> QED
    BY <1>1, <1>2, ChainInvariance, PTL DEF Spec, JudgedAtOnce, Report!Spec
===============================================================================
