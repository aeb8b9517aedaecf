---------------------------- MODULE EntrySetProofs ----------------------------
(***************************************************************************)
(* Proofs about EntrySet, for any set of agents, logs of any length and    *)
(* any number of exports and changes on the way.                           *)
(***************************************************************************)
EXTENDS EntrySet, SequenceTheorems, FiniteSetTheorems, TLAPS

-------------------------------------------------------------------------------
(***************************************************************************)
(* The inductive invariant.                                                *)
(***************************************************************************)
Entry == [agent : Agents \cup {Detector},
          kind  : Lineage \cup {"action", "evd.finding.raised"},
          birth : Nat, rev : Nat, seq : Nat]

\* The receipts of the same agent that come before receipt i in the log.
Earlier(i) == {j \in 1..(i - 1) : log[j].agent = log[i].agent}

\* The log numbers each agent's receipts from 1 on, and lineage is of acting agents.
Counted ==
    /\ log \in Seq(Entry)
    /\ \A i \in 1..Len(log) : log[i].seq = 1 + Cardinality(Earlier(i))
    /\ \A i \in 1..Len(log) : log[i].kind \in Lineage => log[i].agent \in Agents

\* The receipts about findings in the part of the log a target covers.
Findings(target) == {i \in 1..target : log[i].agent = Detector}

\* A signed export covers a part of the log that exists, and every finding in it.
Exported ==
    /\ exports \in Seq([target : Nat, rows : SUBSET Nat])
    /\ \A e \in 1..Len(exports) :
          /\ exports[e].target \in 0..Len(log)
          /\ Findings(exports[e].target) \subseteq exports[e].rows

\* Whatever happened to the bundle, it carries receipts of its target's tree and a
\* manifest that was signed for some export, if any.
Underway ==
    /\ bundle \in [target : Nat, rows : SUBSET Nat, twice : Nat, manifest : Nat]
    /\ bundle.target \in 0..Len(log)
    /\ bundle.rows \subseteq 1..bundle.target
    /\ bundle.manifest \in 0..Len(exports)

EntryInv == Counted /\ Exported /\ Underway

-------------------------------------------------------------------------------
(***************************************************************************)
(* The invariant holds initially and every action keeps it.                *)
(***************************************************************************)
\* Nothing is recorded, exported or on its way.
LEMMA EntryInvInit == Init => EntryInv
  <1> SUFFICES ASSUME Init PROVE EntryInv
    OBVIOUS
  <1>1. Len(log) = 0 /\ Len(exports) = 0
    BY DEF Init
  <1>2. Counted /\ Exported
    BY <1>1 DEF Init, Counted, Exported
  <1>3. Underway
    BY <1>1 DEF Init, Underway, NoBundle, None
  <1> QED
    BY <1>2, <1>3 DEF EntryInv

\* One more receipt: it counts the earlier ones of its agent, and what earlier
\* receipts counted is as it was.
LEMMA RecordKeeps ==
    ASSUME EntryInv, NEW a \in Agents \cup {Detector},
           NEW kind \in Lineage \cup {"action", "evd.finding.raised"},
           kind \in Lineage => a \in Agents, NEW birth \in Nat, NEW rev \in Nat,
           Record(a, kind, birth, rev)
    PROVE  EntryInv'
  <1> DEFINE n == Len(log)
             before == {i \in DOMAIN log : log[i].agent = a}
             entry == [agent |-> a, kind |-> kind, birth |-> birth, rev |-> rev,
                       seq |-> 1 + Cardinality(before)]
  <1>0. /\ Counted /\ Exported /\ Underway
        /\ log' = Append(log, entry) /\ UNCHANGED <<exports, bundle>>
    BY DEF EntryInv, Record
  <1>1. log \in Seq(Entry) /\ n \in Nat /\ DOMAIN log = 1..n
    BY <1>0, LenProperties DEF Counted
  <1>2. Cardinality(before) \in Nat
    <2>1. IsFiniteSet(1..n) /\ before \subseteq 1..n
      BY <1>1, FS_Interval
    <2> HIDE DEF before
    <2> QED
      BY <2>1, FS_Subset, FS_CardinalityType
  <1> HIDE DEF before
  <1>3. entry \in Entry /\ entry.agent = a /\ entry.kind = kind /\ entry.seq = 1 + Cardinality(before)
    BY <1>2 DEF Entry
  <1> HIDE DEF entry
  <1>4. /\ log' \in Seq(Entry) /\ Len(log') = n + 1 /\ log'[n + 1] = entry
        /\ \A i \in 1..n : log'[i] = log[i]
    BY <1>0, <1>1, <1>3
  <1>5. ASSUME NEW i \in 1..n PROVE Earlier(i)' = Earlier(i)
    BY <1>1, <1>4 DEF Earlier
  <1>6. ASSUME NEW i, i = n + 1 PROVE Earlier(i)' = before
    <2>1. Earlier(i)' = {j \in 1..n : log'[j].agent = a}
      BY <1>1, <1>3, <1>4, <1>6 DEF Earlier
    <2> QED
      BY <1>1, <1>4, <2>1 DEF before
  <1>7. Counted'
    <2>1. ASSUME NEW i \in 1..(n + 1)
          PROVE  /\ log'[i].seq = 1 + Cardinality(Earlier(i)')
                 /\ log'[i].kind \in Lineage => log'[i].agent \in Agents
      <3>1. CASE i \in 1..n
        BY <1>0, <1>4, <1>5, <3>1 DEF Counted
      <3>2. CASE i = n + 1
        BY <1>3, <1>4, <1>6, <3>2
      <3> QED
        BY <1>1, <3>1, <3>2
    <2> QED
      BY <1>4, <2>1 DEF Counted
  <1>8. Exported'
    <2>1. ASSUME NEW t \in 0..n PROVE Findings(t)' = Findings(t)
      BY <1>1, <1>4 DEF Findings
    <2>2. \A e \in 1..Len(exports) : /\ exports[e].target \in 0..n
                                     /\ exports[e].target \in 0..(n + 1)
                                     /\ Findings(exports[e].target) \subseteq exports[e].rows
      BY <1>0, <1>1 DEF Exported
    <2> QED
      BY <1>0, <1>4, <2>1, <2>2 DEF Exported
  <1>9. Underway'
    BY <1>0, <1>1, <1>4 DEF Underway
  <1> QED
    BY <1>7, <1>8, <1>9 DEF EntryInv

\* A position in the log is a number.
LEMMA PositionIsNat ==
    ASSUME Counted
    PROVE  DOMAIN log \subseteq Nat
  BY LenProperties DEF Counted

\* An export, signed or not: the rows are of the log as it is, the findings among them.
LEMMA ExportKeeps == ASSUME EntryInv, Export PROVE EntryInv'
  <1>0. Counted /\ Exported /\ Underway /\ UNCHANGED log
    BY DEF EntryInv, Export
  <1>1. PICK S \in SUBSET {i \in DOMAIN log : log[i].kind = "action"}, signed \in BOOLEAN :
          /\ exports' = IF signed
                        THEN Append(exports, [target |-> Len(log), rows |-> S \cup Forced(S)])
                        ELSE exports
          /\ bundle' = [target |-> Len(log), rows |-> S \cup Forced(S), twice |-> None,
                        manifest |-> IF signed THEN Len(exports) + 1 ELSE None]
    BY DEF Export
  <1> DEFINE rows == S \cup Forced(S)
             e == [target |-> Len(log), rows |-> rows]
             Exports == [target : Nat, rows : SUBSET Nat]
  <1>2. Len(log) \in Nat /\ DOMAIN log = 1..Len(log) /\ rows \subseteq 1..Len(log)
    BY <1>0, LenProperties DEF Counted, Forced
  <1>3. Findings(Len(log)) \subseteq rows
    BY <1>2 DEF Findings, Forced
  <1>4. exports \in Seq(Exports) /\ Len(exports) \in Nat
    BY <1>0, LenProperties DEF Exported
  <1> HIDE DEF rows
  <1>5. e \in Exports /\ e.target = Len(log) /\ e.rows = rows
    BY <1>2
  <1>6. \A t : Findings(t)' = Findings(t)
    BY <1>0 DEF Findings
  <1> HIDE DEF e, Exports
  <1>7. Exported' /\ Len(exports') = Len(exports) + IF signed THEN 1 ELSE 0
    <2>1. CASE signed
      <3>1. exports' = Append(exports, e)
        BY <1>1, <2>1 DEF e, rows
      <3>2. /\ exports' \in Seq(Exports) /\ Len(exports') = Len(exports) + 1
            /\ exports'[Len(exports) + 1] = e
            /\ \A x \in 1..Len(exports) : exports'[x] = exports[x]
        BY <1>4, <1>5, <3>1
      <3>3. ASSUME NEW x \in 1..(Len(exports) + 1)
            PROVE  /\ exports'[x].target \in 0..Len(log)
                   /\ Findings(exports'[x].target) \subseteq exports'[x].rows
        <4>1. CASE x \in 1..Len(exports)
          BY <1>0, <3>2, <4>1 DEF Exported
        <4>2. CASE x = Len(exports) + 1
          BY <1>2, <1>3, <1>5, <3>2, <4>2
        <4> QED
          BY <1>4, <4>1, <4>2
      <3> QED
        BY <1>0, <1>6, <2>1, <3>2, <3>3 DEF Exported, Exports
    <2>2. CASE ~signed
      BY <1>0, <1>1, <1>4, <1>6, <2>2 DEF Exported
    <2> QED
      BY <2>1, <2>2
  <1>8. Underway'
    <2>1. bundle' = [target |-> Len(log), rows |-> rows, twice |-> None,
                     manifest |-> IF signed THEN Len(exports) + 1 ELSE None]
      BY <1>1 DEF rows
    <2> QED
      BY <1>0, <1>2, <1>4, <1>7, <2>1 DEF Underway, None
  <1>9. Counted'
    BY <1>0 DEF Counted, Earlier
  <1> QED
    BY <1>7, <1>8, <1>9 DEF EntryInv

\* What happens on the way happens to the bundle alone.
LEMMA ReachKeeps ==
    ASSUME EntryInv, Lose \/ Add \/ Repeat \/ SwapManifest
    PROVE  EntryInv'
  <1>0. Counted /\ Exported /\ Underway /\ UNCHANGED <<log, exports>>
    BY DEF EntryInv, Lose, Add, Repeat, SwapManifest, Reach
  <1>1. Len(log) \in Nat /\ DOMAIN exports = 1..Len(exports) /\ Len(exports) \in Nat
    BY <1>0, LenProperties DEF Counted, Exported
  <1>2. Underway'
    <2>1. CASE Lose
      <3>1. PICK i \in bundle.rows : bundle' = [bundle EXCEPT !.rows = @ \ {i}, !.twice = None]
        BY <2>1 DEF Lose, Reach
      <3>2. /\ bundle' \in [target : Nat, rows : SUBSET Nat, twice : Nat, manifest : Nat]
            /\ bundle'.target = bundle.target /\ bundle'.rows \subseteq bundle.rows
            /\ bundle'.manifest = bundle.manifest
        BY <1>0, <3>1 DEF Underway, None
      <3> QED
        BY <1>0, <3>2 DEF Underway
    <2>2. CASE Add
      BY <1>0, <1>1, <2>2 DEF Add, Reach, Underway
    <2>3. CASE Repeat
      BY <1>0, <1>1, <2>3 DEF Repeat, Reach, Underway
    <2>4. CASE SwapManifest
      BY <1>0, <1>1, <2>4 DEF SwapManifest, Reach, Underway, None
    <2> QED
      BY <2>1, <2>2, <2>3, <2>4
  <1>3. Counted' /\ Exported'
    BY <1>0 DEF Counted, Earlier, Exported, Findings
  <1> QED
    BY <1>2, <1>3 DEF EntryInv

\* EntryInv is inductive.
LEMMA EntryInvStep == EntryInv /\ [Next]_vars => EntryInv'
  <1> SUFFICES ASSUME EntryInv, [Next]_vars PROVE EntryInv'
    OBVIOUS
  <1>0. None \in Nat /\ DOMAIN log \subseteq Nat
    BY PositionIsNat DEF EntryInv, None
  <1>1. CASE Establish \/ Revise
    BY <1>0, <1>1, RecordKeeps DEF Establish, Revise, Establishing, Lineage
  <1>2. CASE Act
    BY <1>0, <1>2, RecordKeeps DEF Act, Lineage
  <1>3. CASE RaiseFinding
    BY <1>0, <1>3, RecordKeeps DEF RaiseFinding, Lineage
  <1>4. CASE Export
    BY <1>4, ExportKeeps
  <1>5. CASE Lose \/ Add \/ Repeat \/ SwapManifest
    BY <1>5, ReachKeeps
  <1>6. CASE UNCHANGED vars
    BY <1>6 DEF vars, EntryInv, Counted, Earlier, Exported, Findings, Underway
  <1> QED
    BY <1>1, <1>2, <1>3, <1>4, <1>5, <1>6 DEF Next

-------------------------------------------------------------------------------
(***************************************************************************)
(* The theorems.                                                           *)
(***************************************************************************)
\* Every reachable state satisfies the invariant.
THEOREM EntryInvariance == Spec => []EntryInv
  BY EntryInvInit, EntryInvStep, PTL DEF Spec

\* A bundle reported complete carries exactly what a signed export of its target
\* selected, the findings included (check_export_manifest), whatever was lost, added
\* or borrowed on the way.
THEOREM CompleteIsGenuineHolds == Spec => []CompleteIsGenuine
  <1>1. EntryInv => CompleteIsGenuine
    <2> SUFFICES ASSUME EntryInv, CheckExportManifest(bundle) = "complete"
                 PROVE  /\ \E e \in DOMAIN exports :
                              exports[e].target = bundle.target /\ exports[e].rows = bundle.rows
                        /\ \A i \in 1..bundle.target : log[i].agent = Detector => i \in bundle.rows
      BY DEF CompleteIsGenuine
    <2>1. /\ bundle.manifest # None
          /\ exports[bundle.manifest].target = bundle.target
          /\ exports[bundle.manifest].rows = bundle.rows
      BY DEF CheckExportManifest
    <2>2. bundle.manifest \in 1..Len(exports) /\ DOMAIN exports = 1..Len(exports)
      BY <2>1, LenProperties DEF EntryInv, Underway, Exported, None
    <2>3. Findings(bundle.target) \subseteq bundle.rows
      BY <2>1, <2>2 DEF EntryInv, Exported
    <2> QED
      BY <2>1, <2>2, <2>3 DEF Findings
  <1> QED
    BY <1>1, EntryInvariance, PTL

\* A set of at most one element that has b in it has nothing else in it.
LEMMA AtMostOne ==
    ASSUME NEW S, IsFiniteSet(S), Cardinality(S) <= 1, NEW b \in S
    PROVE  S = {b}
  <1>1. IsFiniteSet(S \ {b}) /\ Cardinality(S \ {b}) = Cardinality(S) - 1
    BY FS_RemoveElement
  <1>2. Cardinality(S \ {b}) \in Nat /\ Cardinality(S) \in Nat
    BY <1>1, FS_CardinalityType
  <1>3. Cardinality(S \ {b}) = 0
    BY <1>1, <1>2
  <1>4. S \ {b} = {}
    BY <1>1, <1>3, FS_EmptySet
  <1> QED
    BY <1>4

\* No agent launders its past: the log holds nothing of an agent before a birth that
\* a verified bundle carries, and no carried receipt of it claims another birth
\* (check_lineage_established).
THEOREM BornIsFirstHolds == Spec => []BornIsFirst
  <1>1. EntryInv => BornIsFirst
    <2> SUFFICES ASSUME EntryInv, Verified(bundle),
                        NEW b \in bundle.rows, log[b].kind = "lineage.born"
                 PROVE  /\ \A i \in 1..(b - 1) : log[i].agent # log[b].agent
                        /\ \A i \in bundle.rows :
                              log[i].agent = log[b].agent => log[i].birth \in {None, b}
      BY DEF BornIsFirst
    <2> DEFINE a == log[b].agent
               est == Establishments(bundle, a)
    <2>1. Len(log) \in Nat /\ bundle.target \in Nat /\ b \in 1..Len(log) /\ b \in Nat
      BY LenProperties DEF EntryInv, Counted, Underway
    <2>2. a \in Agents
      BY <2>1 DEF EntryInv, Counted, Lineage
    <2>3. b \in est /\ IsFiniteSet(est)
      <3>0. 1 \in Int /\ bundle.target \in Int
        BY <2>1
      <3>1. IsFiniteSet(1..bundle.target)
        BY <3>0, FS_Interval, Zenon
      <3>2. est \subseteq 1..bundle.target
        BY DEF Establishments, Items, EntryInv, Underway
      <3>3. b \in est
        BY DEF Establishments, Items, Establishing
      <3> QED
        BY <3>1, <3>2, <3>3, FS_Subset
    <2>4. CheckAgentLineage(bundle, a)
      BY <2>2 DEF Verified, CheckLineage
    <2>5. est = {b}
      <3>1. Cardinality(est) <= 1
        BY <2>4 DEF CheckAgentLineage
      <3> HIDE DEF est
      <3> QED
        BY <2>3, <3>1, AtMostOne
    <2>6. CheckLineageEstablished(bundle, a, b)
      <3>1. (CHOOSE i \in est : TRUE) = b
        BY <2>5
      <3> QED
        BY <2>3, <2>4, <3>1 DEF CheckAgentLineage
    <2>7. log[b].seq = 1 /\ \A i \in bundle.rows : log[i].agent = a => log[i].birth \in {None, b}
      BY <2>6 DEF CheckLineageEstablished, Items
    <2>8. Earlier(b) = {}
      <3>0. 1 \in Int /\ b - 1 \in Int /\ Earlier(b) \subseteq 1..(b - 1)
        BY <2>1 DEF Earlier
      <3>1. IsFiniteSet(1..(b - 1)) /\ Earlier(b) \subseteq 1..(b - 1)
        BY <3>0, FS_Interval, Zenon
      <3>2. IsFiniteSet(Earlier(b))
        BY <3>1, FS_Subset
      <3>3. Cardinality(Earlier(b)) \in Nat
        BY <3>2, FS_CardinalityType
      <3>4. 1 = 1 + Cardinality(Earlier(b))
        BY <2>1, <2>7 DEF EntryInv, Counted
      <3>5. Cardinality(Earlier(b)) = 0
        BY <3>3, <3>4
      <3> QED
        BY <3>2, <3>5, FS_EmptySet
    <2> QED
      BY <2>7, <2>8 DEF Earlier
  <1> QED
    BY <1>1, EntryInvariance, PTL
===============================================================================
