------------------------------- MODULE Dispute -------------------------------
(***************************************************************************)
(* Two-party dispute packages (verify-rs/src/dispute.rs).  Two recorders   *)
(* keep separate logs of one dealing.  Somebody assembles a package: a     *)
(* bundle of each log, the claims in contention and a reconciliation of    *)
(* the two.  The verifier believes none of it: it verifies both bundles,   *)
(* reconciles them again and wants exactly the carried reconciliation.     *)
(*                                                                         *)
(* The recorders and the assembler are outside this repository.  The       *)
(* assembler may reconcile at one time and submit at another, drop         *)
(* receipts from an export, exchange the parties, or touch up the result.  *)
(* A receipt hash is its log and position.                                 *)
(***************************************************************************)
EXTENDS Integers, FiniteSets, Sequences, FiniteSetsExt

CONSTANTS
    Claims,        \* action ids
    MaxReceipts,   \* bound: receipts in the two logs together
    MaxChanges     \* bound: changes to a package after it was reconciled

Logs == {1, 2}
Sides == {1, 2}    \* the two labels of a package
None == "none"
\* JSON values of the one context field kept: a number, and the same number as a float.
Amounts == {[form |-> "int", n |-> 1], [form |-> "float", n |-> 1]}
Absent == [form |-> None, n |-> 0]
Fields == {"action_type", "amount"}
Outcomes == {"AGREEMENT", "CONFLICT", "UNSUPPORTED"}
\* `internal`: of an agent whose name starts with an underscore.
Receipt ==
    [claim : Claims, amount : Amounts \cup {Absent}, internal : {FALSE}]
    \cup [claim : Claims, amount : {Absent}, internal : {TRUE}]
    \cup [claim : {None}, amount : {Absent}, internal : {FALSE}]

ASSUME DisputeAssumption == MaxReceipts \in Nat /\ MaxChanges \in Nat /\ None \notin Claims

VARIABLES
    log,      \* per recorder, its receipts in order
    pair,     \* the two bundles the assembler holds
    draft,    \* the reconciliation it carries
    changes,  \* made to the package since
    result    \* the verifier's answer to the last package, with what it was about

disputeVars == <<log, pair, draft, changes, result>>

-------------------------------------------------------------------------------
(***************************************************************************)
(* The verifier.  A bundle is rows of one log, on their way since an       *)
(* export of `exported` rows, with or without a signed manifest.           *)
(***************************************************************************)
\* verify_bundle_facts: a manifest that no longer fits refuses the bundle.
BundleOk(b) == b.manifest => b.rows = b.exported

Correlated(b, c) == {i \in b.rows : ~log[b.log][i].internal /\ log[b.log][i].claim = c}
ClaimsOf(b) == {c \in Claims : Correlated(b, c) # {}}

\* Mutant: an export without a manifest passes for complete.
PartyAssumedComplete(b) ==
    [origin |-> b.log, trust_root |-> b.log, export_complete |-> "true",
     claims |-> Cardinality(ClaimsOf(b)), uncorrelated |-> Cardinality(Correlated(b, None))]
\* The facts of a verified bundle; each log has its own origin and first key receipt.
Party(b) ==
    [origin |-> b.log, trust_root |-> b.log,
     export_complete |-> IF b.manifest THEN "true" ELSE None,
     claims |-> Cardinality(ClaimsOf(b)), uncorrelated |-> Cardinality(Correlated(b, None))]

FieldValue(r, f) == IF f = "amount" THEN r.amount ELSE [form |-> "text", n |-> 0]
\* The spelling values are compared by tells 1 from 1.0.
ValueKey(v) == <<v.form, v.n>>
ValuesOf(b, c, f) ==
    {ValueKey(FieldValue(log[b.log][i], f)) : i \in Correlated(b, c)} \ {ValueKey(Absent)}

\* Mutant: what one side does not carry is not compared.
CompareShared(a, b, c) ==
    IF \E f \in Fields : /\ ValuesOf(a, c, f) # {} /\ ValuesOf(b, c, f) # {}
                         /\ ValuesOf(a, c, f) # ValuesOf(b, c, f)
    THEN "CONFLICT" ELSE "AGREEMENT"
\* All receipts of a side for the claim count, as one set of values per field.
Compare(a, b, c) ==
    LET carried(s, f) == ValuesOf(s, c, f) # {}
        conflicts == {f \in Fields : /\ carried(a, f) /\ carried(b, f)
                                     /\ ValuesOf(a, c, f) # ValuesOf(b, c, f)}
        one_sided == {f \in Fields : carried(a, f) # carried(b, f)}
    IN IF conflicts # {} THEN "CONFLICT"
       ELSE IF one_sided # {} THEN "UNSUPPORTED" ELSE "AGREEMENT"

Statement(a, b, c) ==
    LET supported == {s \in Sides : Correlated(<<a, b>>[s], c) # {}}
        outcome == IF supported = Sides THEN Compare(a, b, c) ELSE "UNSUPPORTED"
    IN [supported_by |-> supported,
        receipts |-> <<Correlated(a, c), Correlated(b, c)>>,
        outcome |-> outcome, contested |-> outcome # "AGREEMENT"]

Reconcile(a, b, contested) ==
    LET population == ClaimsOf(a) \cup ClaimsOf(b) \cup contested
        stated == [c \in population |-> Statement(a, b, c)]
    IN [parties |-> <<Party(a), Party(b)>>, claims |-> stated,
        summary |-> [o \in Outcomes |-> Quantify(population, LAMBDA c : stated[c].outcome = o)]]

\* Both bundles verify, they are of two logs, and the carried reconciliation is
\* the one they give.
Reverify(a, b, contested, carried) ==
    /\ BundleOk(a) /\ BundleOk(b)
    /\ Party(a).origin # Party(b).origin /\ Party(a).trust_root # Party(b).trust_root
    /\ carried = Reconcile(a, b, contested)

-------------------------------------------------------------------------------
(***************************************************************************)
(* The recorders and the assembler (external).                             *)
(***************************************************************************)
NoBundle == [log |-> 0]
NoDraft == [parties |-> << >>]
Refused == [verdict |-> "NOT_VERIFIED"]

DisputeInit ==
    /\ log = [l \in Logs |-> << >>]
    /\ pair = <<NoBundle, NoBundle>> /\ draft = NoDraft
    /\ changes = 0 /\ result = Refused

Record(l, r) ==
    /\ Len(log[1]) + Len(log[2]) < MaxReceipts
    /\ log' = [log EXCEPT ![l] = Append(@, r)]
    /\ UNCHANGED <<pair, draft, changes, result>>

\* The package is still open, and only so much happens to it once reconciled.
Touch ==
    /\ result = Refused
    /\ IF draft = NoDraft THEN UNCHANGED changes
       ELSE changes < MaxChanges /\ changes' = changes + 1

\* An export of a log as it is now becomes one side of the package.
Receive(s, l, manifest) ==
    /\ Touch
    /\ pair[s] # NoBundle /\ draft = NoDraft => ~BundleOk(pair[s])
    /\ pair' = [pair EXCEPT ![s] = [log |-> l, rows |-> DOMAIN log[l],
                                   exported |-> DOMAIN log[l], manifest |-> manifest]]
    /\ UNCHANGED <<log, draft, result>>

Drop(s) ==
    /\ Touch
    /\ pair[s] # NoBundle
    /\ \E i \in pair[s].rows : pair' = [pair EXCEPT ![s].rows = @ \ {i}]
    /\ UNCHANGED <<log, draft, result>>

\* The two sides are exchanged under their labels.
Exchange ==
    /\ Touch /\ draft # NoDraft
    /\ pair' = <<pair[2], pair[1]>>
    /\ UNCHANGED <<log, draft, result>>

\* The assembler reconciles what it has.
Assemble(contested) ==
    /\ NoBundle \notin {pair[1], pair[2]}
    /\ BundleOk(pair[1]) /\ BundleOk(pair[2])
    /\ draft' = Reconcile(pair[1], pair[2], contested)
    /\ draft = NoDraft /\ result = Refused
    /\ UNCHANGED <<log, pair, changes, result>>

\* It calls a claim agreed, or leaves it out.
Soften(c) ==
    /\ Touch
    /\ draft # NoDraft /\ c \in DOMAIN draft.claims /\ draft.claims[c].contested
    /\ draft' = [draft EXCEPT !.claims[c].outcome = "AGREEMENT", !.claims[c].contested = FALSE]
    /\ UNCHANGED <<log, pair, result>>

Omit(c) ==
    /\ Touch
    /\ draft # NoDraft /\ c \in DOMAIN draft.claims
    /\ draft' = [draft EXCEPT !.claims = [d \in DOMAIN @ \ {c} |-> @[d]]]
    /\ UNCHANGED <<log, pair, result>>

\* verify_json: the package is submitted and answered.
VerifyJson(contested) ==
    /\ draft # NoDraft
    /\ result' = IF Reverify(pair[1], pair[2], contested, draft)
                 THEN [verdict |-> "VERIFIED", bundles |-> pair, contested |-> contested,
                       reconciliation |-> draft]
                 ELSE Refused
    /\ pair' = <<NoBundle, NoBundle>> /\ draft' = NoDraft /\ changes' = 0
    /\ UNCHANGED log

\* The answer has been read; the next package may come.
ReadResult == result' = Refused /\ result # Refused /\ UNCHANGED <<log, pair, draft, changes>>

DisputeNext ==
    \/ \E l \in Logs, r \in Receipt : Record(l, r)
    \/ \E s \in Sides, l \in Logs, manifest \in BOOLEAN : Receive(s, l, manifest)
    \/ \E s \in Sides : Drop(s)
    \/ Exchange
    \/ ReadResult
    \/ \E contested \in SUBSET Claims : Assemble(contested) \/ VerifyJson(contested)
    \/ \E c \in Claims : Soften(c) \/ Omit(c)

DisputeSpec == DisputeInit /\ [][DisputeNext]_disputeVars

-------------------------------------------------------------------------------
(***************************************************************************)
(* Properties                                                              *)
(***************************************************************************)
Verified == result.verdict = "VERIFIED"
Carried(s, c) == {log[result.bundles[s].log][i] : i \in Correlated(result.bundles[s], c)}

\* A verified package smooths nothing over: every claim that either bundle has a
\* receipt for, or that was contested, is stated, and is stated as agreed only if
\* both sides have receipts for it and no value on one side is missing on the
\* other, however many receipts each has.
NothingSmoothedOver ==
    Verified =>
        \A c \in Claims :
           /\ Carried(1, c) \cup Carried(2, c) # {} \/ c \in result.contested
                 => c \in DOMAIN result.reconciliation.claims
           /\ c \in DOMAIN result.reconciliation.claims =>
                 LET s == result.reconciliation.claims[c]
                     Amount(side) == {r.amount : r \in Carried(side, c)} \ {Absent}
                 IN ~s.contested <=> /\ Carried(1, c) # {} /\ Carried(2, c) # {}
                                     /\ Amount(1) = Amount(2)

\* Receipts dropped between a party's signed export and the verifier show: the
\* reconciliation never says that party's export is complete.
DroppedReceiptsShow ==
    Verified =>
        \A s \in Sides :
           result.bundles[s].rows # result.bundles[s].exported =>
              result.reconciliation.parties[s].export_complete = None
===============================================================================
