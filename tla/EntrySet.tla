------------------------------- MODULE EntrySet -------------------------------
(***************************************************************************)
(* Which receipts a bundle carries (check_entry_set and check_lineage of   *)
(* verify-rs/src/lib.rs).  Every receipt in a bundle is signed and proven  *)
(* included on its own; the set of them is not, so receipts can be left    *)
(* out, added or repeated between the export and the verifier without a    *)
(* signature breaking.  The signed export manifest, the per-agent sequence *)
(* numbers and the lineage receipts are what is left to notice it.         *)
(*                                                                         *)
(* `log` is the recorder's log and `exports` the exports it signed, both   *)
(* outside this repository; `bundle` is on its way to the verifier, whose  *)
(* answers are operators over it.  A receipt hash is its leaf.             *)
(***************************************************************************)
EXTENDS Integers, FiniteSets, Sequences

CONSTANTS
    Agents,      \* acting agents
    MaxLog,      \* bound: receipts
    MaxExports   \* bound: signed exports

None == 0
Detector == "_detect"    \* an internal agent, exempt from lineage
Lineage == {"lineage.born", "lineage.adopted", "lineage.revised"}
Establishing == {"lineage.born", "lineage.adopted"}

ASSUME EntrySetAssumption == MaxLog \in Nat /\ MaxExports \in Nat /\ Detector \notin Agents

VARIABLES log, exports, bundle

vars == <<log, exports, bundle>>

-------------------------------------------------------------------------------
(***************************************************************************)
(* The verifier.                                                           *)
(***************************************************************************)
\* Mutant: the manifest has to cover what is carried, no more.
CarriedIsListed(b) ==
    IF b.manifest = None THEN "unclaimed"
    ELSE IF exports[b.manifest].target = b.target /\ b.rows \subseteq exports[b.manifest].rows
         THEN "complete" ELSE "incomplete"
\* No manifest is no claim; one that is there is for this target and this very set.
CheckExportManifest(b) ==
    IF b.manifest = None THEN "unclaimed"
    ELSE IF exports[b.manifest].target = b.target /\ b.rows = exports[b.manifest].rows
         THEN "complete" ELSE "incomplete"

\* The same receipt carried twice is harmless here.
CheckSeqUniqueness(b) ==
    \A i, j \in b.rows : log[i].agent = log[j].agent /\ log[i].seq = log[j].seq => i = j

Items(b, a) == {i \in b.rows : log[i].agent = a}
Valid(b, a) == {i \in Items(b, a) : log[i].kind \in Lineage}
Establishments(b, a) == {i \in Items(b, a) : log[i].kind \in Establishing}

CheckLineageOrphan(b, a) ==
    Valid(b, a) # {} => \A i \in Items(b, a) : log[i].rev \in {None} \cup Valid(b, a)

\* Mutant: born is accepted at any sequence number.
BornAnywhere(b, a, birth) ==
    \A i \in Items(b, a) :
       /\ log[i].birth \in {None, birth}
       /\ log[i].rev \in {None} \cup Valid(b, a)
CheckLineageEstablished(b, a, birth) ==
    /\ log[birth].kind = "lineage.born" => log[birth].seq = 1
    /\ \A i \in Items(b, a) :
          /\ log[i].birth \in {None, birth}
          /\ log[i].rev \in {None} \cup Valid(b, a)

\* A repeated establishment row counts as a second one.
CheckAgentLineage(b, a) ==
    LET est == Establishments(b, a)
    IN /\ Cardinality(est) <= 1 /\ (est # {} => b.twice \notin est)
       /\ IF est = {} THEN CheckLineageOrphan(b, a)
          ELSE CheckLineageEstablished(b, a, CHOOSE i \in est : TRUE)

CheckLineage(b) == \A a \in Agents : CheckAgentLineage(b, a)

CheckEntrySet(b) == CheckExportManifest(b) # "incomplete" /\ CheckSeqUniqueness(b)
Verified(b) == CheckEntrySet(b) /\ CheckLineage(b)

-------------------------------------------------------------------------------
(***************************************************************************)
(* The recorder counts each agent's receipts honestly but records whatever *)
(* an agent submits, a late birth and a borrowed lineage included.         *)
(***************************************************************************)
NoBundle == [target |-> 0, rows |-> {}, twice |-> None, manifest |-> None]

Init == log = <<>> /\ exports = <<>> /\ bundle = NoBundle

Record(a, kind, birth, rev) ==
    /\ Len(log) < MaxLog
    /\ log' = Append(log, [agent |-> a, kind |-> kind, birth |-> birth, rev |-> rev,
                           seq |-> 1 + Cardinality({i \in DOMAIN log : log[i].agent = a})])
    /\ UNCHANGED <<exports, bundle>>

Establish == \E a \in Agents, k \in Establishing : Record(a, k, None, None)
Revise == \E a \in Agents : Record(a, "lineage.revised", None, None)
Act ==
    \E a \in Agents, b \in {None} \cup {i \in DOMAIN log : log[i].kind \in Establishing},
       r \in {None} \cup {i \in DOMAIN log : log[i].kind \in Lineage} :
       Record(a, "action", b, r)
RaiseFinding == Record(Detector, "evd.finding.raised", None, None)

\* Findings, and every exported agent's lineage, are exported whatever is selected.
Forced(S) ==
    {i \in DOMAIN log : \/ log[i].agent = Detector
                        \/ log[i].kind \in Lineage /\ \E j \in S : log[j].agent = log[i].agent}

\* A replica that holds no key exports without a manifest.
Export ==
    /\ Len(exports) < MaxExports
    /\ \E S \in SUBSET {i \in DOMAIN log : log[i].kind = "action"}, signed \in BOOLEAN :
          LET e == [target |-> Len(log), rows |-> S \cup Forced(S)]
          IN /\ exports' = IF signed THEN Append(exports, e) ELSE exports
             /\ bundle' = [target |-> e.target, rows |-> e.rows, twice |-> None,
                           manifest |-> IF signed THEN Len(exports) + 1 ELSE None]
    /\ UNCHANGED log

-------------------------------------------------------------------------------
(***************************************************************************)
(* On the way.                                                             *)
(***************************************************************************)
Reach(b) == bundle' = b /\ UNCHANGED <<log, exports>>

Lose == \E i \in bundle.rows : Reach([bundle EXCEPT !.rows = @ \ {i}, !.twice = None])
Add == \E i \in (1..bundle.target) \ bundle.rows : Reach([bundle EXCEPT !.rows = @ \cup {i}])
Repeat == \E i \in bundle.rows : Reach([bundle EXCEPT !.twice = i])
SwapManifest == \E m \in {None} \cup DOMAIN exports : Reach([bundle EXCEPT !.manifest = m])

Next ==
    \/ Establish \/ Revise \/ Act \/ RaiseFinding \/ Export
    \/ Lose \/ Add \/ Repeat \/ SwapManifest

Spec == Init /\ [][Next]_vars

-------------------------------------------------------------------------------
\* A bundle reported complete carries exactly what some signed export of this
\* target selected, so every finding the target covers is there: no sequence of
\* losses, additions and borrowed manifests on the way gets past set equality
\* (check_export_manifest).
CompleteIsGenuine ==
    bundle.target > 0 /\ Verified(bundle) /\ CheckExportManifest(bundle) = "complete" =>
        /\ \E e \in DOMAIN exports :
              exports[e].target = bundle.target /\ exports[e].rows = bundle.rows
        /\ \A i \in 1..bundle.target : log[i].agent = Detector => i \in bundle.rows

\* No agent launders its past: when a verified bundle carries an agent's birth,
\* the LOG holds nothing of that agent before it, whichever receipts were left
\* out of the bundle, and no carried receipt claims another agent's lineage
\* (check_lineage_established).
BornIsFirst ==
    Verified(bundle) =>
        \A b \in bundle.rows :
           log[b].kind = "lineage.born" =>
              /\ \A i \in 1..(b - 1) : log[i].agent # log[b].agent
              /\ \A i \in bundle.rows : log[i].agent = log[b].agent => log[i].birth \in {None, b}
===============================================================================
