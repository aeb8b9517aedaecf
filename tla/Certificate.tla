----------------------------- MODULE Certificate -----------------------------
(***************************************************************************)
(* `verify_certificate_cbor_with_trust` of verify-rs/src/certificate.rs.   *)
(* A producer compiles a certificate core from a signed log, what a source *)
(* reports and what third parties signed, and may mint a signed view of    *)
(* it; a relying party verifies core or view against the keys it pinned.   *)
(* What the core says about its own evidence is not believed: every member *)
(* is recomputed from the embedded bundle or from other members.           *)
(*                                                                         *)
(* Node, source, third parties, producer and transparency service are not  *)
(* in this repository.  They start from a dealing that went well, and at   *)
(* most MaxOdd things are not as they should be: an artifact nobody signed *)
(* or whose signer is not pinned, another event, a second intent, a member *)
(* the producer changed.  A certificate id is the number of the change:    *)
(* other bytes have another hash.                                          *)
(***************************************************************************)
EXTENDS Verdict

CONSTANTS
    MaxEvents,   \* bound: events the source reports
    MaxOdd       \* bound: things that are not as they should be

Keys == {"e1", "e2"}
Ids == {"a1", "a2", ""}
Classes == {"pay", "wire", ""}
Codes == {"AGENT_CONTEXT_UNBOUND", "ACCEPTED_SOURCE_COLLUSION_OUT_OF_MODEL",
          "COVERAGE_CONVENTIONS_UNBOUND"}
Pins == {Category[a] : a \in Artifacts} \cup {"log_keys"}
NoCore == [flaw |-> "none", version |-> 0]
NoView == [there |-> FALSE]
NoBatch == [there |-> FALSE, stated |-> FALSE, ordered |-> FALSE, keys |-> << >>, gaps |-> FALSE]

ASSUME CertificateAssumption == MaxEvents \in Nat /\ MaxOdd \in Nat

VARIABLES
    rows,      \* the log: signed receipts that name an action
    docs,      \* the log: coverage documents whose digest it signed
    source,    \* what the source reports
    scanned,   \* the events the node's last signed scan is about
    missing,   \* artifacts nobody signed
    trust,     \* the categories of keys the relying party pinned
    core,      \* the certificate core
    view,      \* the view it travels in, if any
    receipts,  \* certificate ids the transparency service has registered
    odd        \* how many things are not as they should be

world == <<rows, docs, source, scanned, missing, trust>>
vars == <<world, core, view, receipts, odd>>

-------------------------------------------------------------------------------
(***************************************************************************)
(* What the embedded bundle says.  Its own verification and the facts of   *)
(* an intent are other modules' business: here an action with one signed   *)
(* intent has verified facts, one with two conflicts, one without is weak. *)
(***************************************************************************)
Intents(b) == {r \in b.rows : r.kind = "intent"}
IntentsFor(b, id) == {r \in Intents(b) : r.id = id}
HasSignedIntent(b) == Intents(b) # {}

Facts(b, picked) ==
    LET n == Cardinality(picked)
        strong(x, y) == IF b.ok /\ n > 0 THEN x ELSE y
    IN [integrity |-> IF b.ok THEN "VALID" ELSE "INVALID",
        identity |-> strong("VERIFIED", "NOT_VERIFIED"),
        authority |-> strong("VERIFIED", "NOT_VERIFIED"),
        intent |-> strong(IF n = 1 THEN "RECORDED" ELSE "CONFLICT", "NOT_RECORDED"),
        interval |-> b.ok /\ n > 0,
        subject_ids |-> IF ~b.ok THEN {} ELSE IF n = 1 THEN {"org", "intent"} ELSE {"org"}]
\* An empty id asks for the log's intent; the subject's ids are looked up by that id.
AuthorityFacts(b, id) == Facts(b, IF id = "" THEN Intents(b) ELSE IntentsFor(b, id))
SubjectIds(b, id) == Facts(b, IntentsFor(b, id)).subject_ids

\* signed_action_intents: without an intent, the rows that name this very action.
SignedClasses(b, id) == {r.class : r \in {x \in b.rows : x.id = id /\ x.kind = "domain"}}

-------------------------------------------------------------------------------
(***************************************************************************)
(* The cross-checks, in their order.                                       *)
(***************************************************************************)
\* Subject and verdict input name the same action, and one is named if one was signed.
SubjectMatchesInput(c, subject, input) ==
    subject = input /\ (subject = "" => ~HasSignedIntent(c.bundle))

\* Mutant: without a signed intent there is nothing to hold the name against.
OnlyIntentsBind(c) ==
    LET a == c.vi.action
    IN HasSignedIntent(c.bundle) =>
          \E r \in IntentsFor(c.bundle, a.id) :
             IntentsFor(c.bundle, a.id) = {r} /\ r.class = a.class
InputActionMatchesSigned(c) ==
    LET a == c.vi.action
    IN IF HasSignedIntent(c.bundle)
       THEN \E r \in IntentsFor(c.bundle, a.id) :
               IntentsFor(c.bundle, a.id) = {r} /\ r.class = a.class
       ELSE /\ a.class \in SignedClasses(c.bundle, a.id) \cup {""}
            /\ a.id \in {r.id : r \in c.bundle.rows} \cup {""}

ClaimMatchesSubject(c) ==
    c.claim # NoClaim => c.claim.action_id = c.subject.id /\ c.claim.action_class = c.subject.class

SubjectIdsMatchAuthority(c) == c.subject.subject_ids = SubjectIds(c.bundle, c.subject.id)
CheckAuthority(c) == c.vi.authority = AuthorityFacts(c.bundle, c.subject.id)

\* Every member carried twice is carried alike.
CheckInputEcho(c) ==
    /\ c.events = c.vi.events /\ c.event_matches = c.vi.event_matches
    /\ c.claim = c.vi.claim /\ c.batch = c.vi.batch

CheckFindingsCarried(c) == c.open_findings => c.vi.findings = "open"

\* The first event of each key, where it stands, and these keys in order.
FirstOfKey(events) ==
    {i \in DOMAIN events : \A j \in 1..(i - 1) : events[j].key # events[i].key}
DedupedEvents(events) == {events[i] : i \in FirstOfKey(events)}
InOrderOf(places) ==
    [n \in 1..Cardinality(places) |->
        CHOOSE i \in places : Cardinality({j \in places : j < i}) = n - 1]
KeysOf(events) ==
    LET first == InOrderOf(FirstOfKey(events))
    IN [n \in DOMAIN first |-> events[first[n]].key]

LinkFlags(claim, e, doc) ==
    [echo |-> /\ claim.action_id # ""
              /\ e.reference = claim.action_id \/ (doc.correlation /\ e.corr = claim.action_id),
     ref |-> claim.external_ref # "" /\ e.reference = claim.external_ref,
     unique |-> doc.unique /\ claim.uniq # 0 /\ e.uniq = claim.uniq]
Links(claim, e, doc) ==
    LET l == LinkFlags(claim, e, doc) IN l.echo \/ l.ref \/ l.unique

\* The document's fields extend the floor and never retract it.
MaterialMismatch(claim, e, doc) ==
    \E f \in Floor \cup (IF doc.material THEN MaterialFields ELSE {}) : Disagree(claim, e, f)

\* The material comparison is made on a lone match only.
MatchFor(c, e, lone) ==
    LET l == LinkFlags(c.claim, e, c.coverage_doc)
    IN [key |-> e.key, echo |-> l.echo, ref |-> l.ref, unique |-> l.unique,
        final |-> e.finality = c.coverage_doc.final,
        mismatch |-> lone /\ MaterialMismatch(c.claim, e, c.coverage_doc)]

\* Mutant: the flags are right, but a candidate may be left out.
FlagsOnly(c) ==
    LET ms == c.event_matches
    IN \A i \in DOMAIN ms : \E e \in DedupedEvents(c.events) : ms[i] = MatchFor(c, e, Len(ms) = 1)
\* Every flag is the recomputed one, and no candidate is left out.
CheckMatches(c) ==
    LET es == DedupedEvents(c.events)
        ms == c.event_matches
    IN /\ \A i \in DOMAIN ms : \E e \in es : ms[i] = MatchFor(c, e, Len(ms) = 1)
       /\ \A e \in es :
             Links(c.claim, e, c.coverage_doc) => \E i \in DOMAIN ms : ms[i].key = e.key

CheckCoverage(c) ==
    LET doc == c.coverage_doc
    IN /\ doc.keys = KeysOf(c.events) /\ doc.counted
       /\ c.claim # NoClaim => c.claim.action_id \in doc.claim_refs
       /\ c.batch.there => /\ c.batch.stated => c.batch.keys = doc.keys
                           /\ c.batch.gaps => doc.gaps

CoverageConventionsBound(c) == c.coverage_doc \in c.bundle.docs
CoverageDocBound(c) == CoverageConventionsBound(c) \/ c.bundle.docs = {}

LimitationsConsistent(c) ==
    /\ c.limitations \subseteq Codes
    /\ "AGENT_CONTEXT_UNBOUND" \in c.limitations <=> c.context_zero
    /\ "COVERAGE_CONVENTIONS_UNBOUND" \in c.limitations <=> ~CoverageConventionsBound(c)

CrossCheckErrors(c, pinned) ==
    LET checks ==
          << <<c.bundle.ok, "BUNDLE_INVALID">>,
             <<c.subject.origin = c.bundle.origin, "SUBJECT_ORIGIN_MISMATCH">>,
             <<c.bundle.ok /\ "log_keys" \in pinned => c.bundle.genuine, "ORIGIN_NOT_ATTESTED">>,
             <<SubjectMatchesInput(c, c.subject.id, c.vi.action.id), "SUBJECT_ACTION_ID_MISMATCH">>,
             <<SubjectMatchesInput(c, c.subject.class, c.vi.action.class),
               "SUBJECT_ACTION_CLASS_MISMATCH">>,
             <<InputActionMatchesSigned(c), "ACTION_CONTEXT_MISMATCH">>,
             <<ClaimMatchesSubject(c), "CLAIM_IDENTITY_MISMATCH">>,
             <<SubjectIdsMatchAuthority(c), "SUBJECT_IDS_MISMATCH">>,
             <<CheckAuthority(c), "AUTHORITY_MISMATCH">>,
             <<CheckInputEcho(c), "VERDICT_INPUT_MISMATCH">>,
             <<CheckFindingsCarried(c), "FINDINGS_NOT_CONSUMED">>,
             <<CheckMatches(c), "EVENT_MATCHES_MISMATCH">>,
             <<CheckCoverage(c), "COVERAGE_INCONSISTENT">>,
             <<CoverageDocBound(c), "COVERAGE_DOC_MISMATCH">>,
             <<LimitationsConsistent(c), "LIMITATIONS_INCONSISTENT">> >>
    IN {checks[i][2] : i \in {j \in DOMAIN checks : ~checks[j][1]}}

\* Anything wrong makes the integrity INVALID before the vector is derived; the
\* withheld fields are the view's, and whether a receipt registers this very
\* certificate is decided here.
ScittPackValid(c, pinned) ==
    /\ "scitt_ts_keys" \in pinned
    /\ c.pack # 0 /\ c.pack = c.version /\ c.pack \in receipts
VerifiedInput(c, v, errors, pinned) ==
    [c.vi EXCEPT
        !.withheld = IF v.there THEN {} ELSE @,
        !.authority.integrity = IF errors # {} THEN "INVALID" ELSE @,
        !.scitt_receipt_valid = ScittPackValid(c, pinned)]

\* The displayed mark is held against the derivation without any pinned key.
ViewErrors(c, v, baseline) ==
    {e \in {"VIEW_SIGNATURE_INVALID", "MANIFEST_MISMATCH", "MARK_MISMATCH"} :
        \/ e = "VIEW_SIGNATURE_INVALID" /\ v.signer # "issuer"
        \/ e = "MANIFEST_MISMATCH" /\ v.manifest_id # c.version
        \/ e = "MARK_MISMATCH" /\ v.mark # baseline}

Held(error) == [vector |-> "none", errors |-> {error}]

VerifyCore(c, v, pinned) ==
    LET errors == CrossCheckErrors(c, pinned)
        input == VerifiedInput(c, v, errors, pinned)
    IN IF c.flaw # "none" THEN Held(c.flaw)
       ELSE [vector |-> DeriveVector(input, pinned),
             errors |-> errors \cup IF v.there THEN ViewErrors(c, v, DeriveVector(input, {}).mark)
                                    ELSE {}]

\* run and run_view: what is decided before the core is looked at.
Run(c, v, pinned) ==
    IF ~v.there THEN VerifyCore(c, v, pinned)
    ELSE IF ~v.core THEN Held("VIEW_SIGNATURE_UNVERIFIED")
    ELSE IF v.withheld # {} THEN Held("WITHHELD_CORE_PRESENT")
    ELSE IF v.id # c.version THEN Held("CERTIFICATE_ID_MISMATCH")
    ELSE VerifyCore(c, v, pinned)

-------------------------------------------------------------------------------
(***************************************************************************)
(* Node, source, third parties and relying party (external).               *)
(***************************************************************************)
Spend(n) == odd + n <= MaxOdd /\ odd' = odd + n

\* One artifact is not signed, or one key not pinned; or none at all are.
Init ==
    /\ rows = {} /\ docs = {} /\ source = << >> /\ scanned = << >>
    /\ core = NoCore /\ view = NoView /\ receipts = {}
    /\ missing \in {{}, Artifacts} \cup {{a} : a \in Artifacts}
    /\ trust \in {{}, Pins} \cup {Pins \ {p} : p \in Pins}
    /\ odd = (IF missing = {} THEN 0 ELSE 1) + (IF trust = Pins THEN 0 ELSE 1)
    /\ odd <= MaxOdd

\* The node logs an intent or a domain receipt; a second intent is odd.
Witness ==
    /\ core = NoCore
    /\ \E r \in [kind : {"intent", "domain"}, id : {"a1"}, class : {"pay", "wire"}] \ rows :
          /\ r.kind = "domain" => r.class = "pay"
          /\ Spend(IF r.class = "wire" THEN 1 ELSE 0)
          /\ rows' = rows \cup {r}
    /\ UNCHANGED <<docs, source, scanned, missing, trust, core, view, receipts>>

\* The events of a dealing, at most one thing about each out of the ordinary.
EventOf(k, link, finality, vals) ==
    [key |-> k, reference |-> CASE link = "echo" -> "a1" [] link = "ref" -> "x1" [] OTHER -> "",
     corr |-> IF link = "corr" THEN "a1" ELSE "", uniq |-> IF link = "unique" THEN 1 ELSE 0,
     finality |-> finality, vals |-> vals]
Vals(absent, other) ==
    [f \in MaterialFields |-> IF f \in absent THEN 0 ELSE IF f \in other THEN 2 ELSE 1]
Ordinary(k) == EventOf(k, "echo", "settled", Vals({}, {}))
Unusual(k) ==
    {EventOf(k, link, "settled", Vals({}, {})) : link \in {"corr", "ref", "unique", "none"}}
    \cup {EventOf(k, "echo", "pending", Vals({}, {}))}
    \cup {EventOf(k, "echo", "settled", Vals(absent, {})) :
            absent \in {{f} : f \in MaterialFields} \cup {Floor}}
    \cup {EventOf(k, "echo", "settled", Vals({}, {f})) : f \in MaterialFields}

Occur ==
    /\ core = NoCore /\ Len(source) < MaxEvents
    /\ \E k \in IF source = << >> THEN {"e1"} ELSE Keys : \E e \in {Ordinary(k)} \cup Unusual(k) :
          /\ source' = Append(source, e)
          /\ Spend((IF e = Ordinary(k) THEN 0 ELSE 1) + Len(source))
    /\ UNCHANGED <<rows, docs, scanned, missing, trust, core, view, receipts>>

\* The node scans the source and signs what it saw.
Scan ==
    /\ core = NoCore
    /\ scanned' = KeysOf(source)
    /\ UNCHANGED <<rows, docs, source, missing, trust, core, view, receipts, odd>>

DocOf(events, refs) ==
    [unique |-> TRUE, correlation |-> TRUE, final |-> "settled", material |-> TRUE,
     gaps |-> FALSE, keys |-> KeysOf(events), counted |-> TRUE, claim_refs |-> refs]
RecordCoverage ==
    /\ core = NoCore /\ docs = {}
    /\ docs' = docs \cup {DocOf(source, {"a1"})}
    /\ UNCHANGED <<rows, source, scanned, missing, trust, core, view, receipts, odd>>

-------------------------------------------------------------------------------
(***************************************************************************)
(* The producer (external).                                                *)
(***************************************************************************)
\* The matches of the events that link, of all events, or of those that link twice over.
MatchesOf(c, padding) ==
    LET all == FirstOfKey(c.events)
        linking == InOrderOf({i \in all : Links(c.claim, c.events[i], c.coverage_doc)})
        at == CASE padding = "none" -> linking
                [] padding = "all" -> InOrderOf(all)
                [] padding = "twice" -> linking \o linking
    IN [n \in DOMAIN at |-> MatchFor(c, c.events[at[n]], Len(at) = 1)]
Rematched(c, padding) ==
    [c EXCEPT !.event_matches = MatchesOf(c, padding), !.vi.event_matches = MatchesOf(c, padding)]

Claim == [action_id |-> "a1", action_class |-> "pay", external_ref |-> "x1", uniq |-> 1,
          vals |-> Vals({}, {})]

\* The core names the action the log names, and carries what there is.
Gathered ==
    LET id == IF rows = {} THEN "" ELSE "a1"
        class == IF rows = {} THEN "" ELSE "pay"
        claim == IF rows = {} THEN NoClaim ELSE Claim
        bundle == [rows |-> rows, docs |-> docs, ok |-> TRUE, genuine |-> TRUE, origin |-> "o"]
        doc == DocOf(source, {"a1"})
        batch == [there |-> TRUE, stated |-> TRUE, ordered |-> TRUE, keys |-> doc.keys,
                  gaps |-> FALSE]
        proof(a) == [there |-> TRUE, real |-> a \notin missing,
                     about |-> [batch EXCEPT !.keys = scanned]]
    IN [flaw |-> "none", version |-> 1, bundle |-> bundle, pack |-> 0,
        subject |-> [id |-> id, class |-> class, origin |-> "o",
                     subject_ids |-> SubjectIds(bundle, id)],
        claim |-> claim, events |-> source, event_matches |-> << >>, batch |-> batch,
        coverage_doc |-> doc, open_findings |-> FALSE, context_zero |-> TRUE,
        limitations |-> {"AGENT_CONTEXT_UNBOUND"} \cup
                        (IF doc \in docs THEN {} ELSE {"COVERAGE_CONVENTIONS_UNBOUND"}),
        vi |-> [action |-> [id |-> id, class |-> class],
                authority |-> AuthorityFacts(bundle, id),
                claim |-> claim, events |-> source, event_matches |-> << >>,
                batch |-> batch, manifest |-> FALSE, source_bound |-> TRUE,
                source_form |-> "full", bounds_ordered |-> TRUE,
                control |-> "grounded", gap_free |-> TRUE, findings |-> "none",
                fork |-> FALSE, attempts |-> TRUE, scitt_receipt_valid |-> FALSE,
                withheld |-> {}, proofs |-> [a \in Artifacts |-> proof(a)]]]
Compile ==
    /\ core = NoCore
    /\ core' = Rematched(Gathered, "none")
    /\ UNCHANGED <<world, view, receipts, odd>>

\* The action is given another name wherever the core says it, facts included.
Renamed(c, id, class) ==
    LET facts == AuthorityFacts(c.bundle, id)
    IN [c EXCEPT !.subject.id = id, !.subject.class = class,
                 !.subject.subject_ids = SubjectIds(c.bundle, id), !.vi.authority = facts,
                 !.vi.action = [id |-> id, class |-> class],
                 !.claim = IF @ = NoClaim THEN @
                           ELSE [@ EXCEPT !.action_id = id, !.action_class = class],
                 !.vi.claim = IF @ = NoClaim THEN @
                              ELSE [@ EXCEPT !.action_id = id, !.action_class = class],
                 !.coverage_doc.claim_refs = {id}]
Renamings(c) == {Renamed(c, id, class) : id \in Ids, class \in Classes}
\* Receipts left out of the bundle, or a log made up for the occasion, which stays one.
Rebundled(c, kept, genuine) ==
    LET b == [c.bundle EXCEPT !.rows = kept, !.genuine = genuine]
        facts == AuthorityFacts(b, c.subject.id)
    IN [c EXCEPT !.bundle = b, !.subject.subject_ids = SubjectIds(b, c.subject.id),
                 !.vi.authority = facts]
Rebundlings(c) ==
    {Rebundled(c, kept, c.bundle.genuine) : kept \in SUBSET c.bundle.rows}
    \cup {Rebundled(c, {[kind |-> "intent", id |-> "a1", class |-> "wire"]}, FALSE)}
Flipped(m) == {[m EXCEPT ![f] = ~@] : f \in {"echo", "ref", "unique", "final", "mismatch"}}
Rematchings(c) ==
    {Rematched(c, padding) : padding \in {"none", "all", "twice"}}
    \cup UNION {{[c EXCEPT !.event_matches = ms, !.vi.event_matches = ms],
                 [c EXCEPT !.vi.event_matches = ms]} :
                   ms \in {RemoveAt(c.event_matches, i) : i \in DOMAIN c.event_matches}
                         \cup UNION {{[c.event_matches EXCEPT ![i] = m] :
                                        m \in Flipped(c.event_matches[i])} :
                                      i \in DOMAIN c.event_matches}}

\* A claim need not state every field.
Unclaimed(c, fields) ==
    LET without(x) == [x EXCEPT !.vals = [f \in MaterialFields |->
                                             IF f \in fields THEN 0 ELSE x.vals[f]]]
    IN Rematched([c EXCEPT !.claim = without(@), !.vi.claim = without(@)], "none")

\* What the producer may change in one go: who did what, the coverage it rests on,
\* findings and evidence, the form, or one thing throughout.
ActionChanges(c) ==
    {Unclaimed(c, fields) : fields \in {{f} : f \in MaterialFields} \cup {Floor, MaterialFields}}
    \cup
    {[c EXCEPT !.subject.id = "a2"], [c EXCEPT !.vi.action.class = "wire"],
     [c EXCEPT !.claim = NoClaim, !.vi.claim = NoClaim],
     [c EXCEPT !.vi.claim.vals["value"] = 2],
     [c EXCEPT !.vi.authority.intent = "RECORDED", !.vi.authority.integrity = "VALID"],
     [c EXCEPT !.subject.origin = "other"], [c EXCEPT !.bundle.ok = FALSE],
     [c EXCEPT !.bundle.docs = {}]}
CoverageChanges(c) ==
    {[c EXCEPT !.coverage_doc.unique = FALSE], [c EXCEPT !.coverage_doc.material = FALSE],
     [c EXCEPT !.coverage_doc.correlation = FALSE], [c EXCEPT !.coverage_doc.counted = FALSE],
     [c EXCEPT !.coverage_doc.final = "pending"], [c EXCEPT !.coverage_doc.claim_refs = {}],
     [c EXCEPT !.coverage_doc.gaps = TRUE, !.batch.gaps = TRUE, !.vi.batch.gaps = TRUE],
     [c EXCEPT !.batch.gaps = TRUE], [c EXCEPT !.batch = NoBatch, !.vi.batch = NoBatch],
     [c EXCEPT !.batch.stated = FALSE, !.vi.batch.stated = FALSE],
     [c EXCEPT !.batch.ordered = FALSE, !.vi.batch.ordered = FALSE,
               !.vi.proofs["scan"].about.ordered = FALSE]}
EvidenceChanges(c) ==
    {[c EXCEPT !.open_findings = TRUE],
     [c EXCEPT !.open_findings = TRUE, !.vi.findings = "open"],
     [c EXCEPT !.vi.findings = "unreadable"], [c EXCEPT !.vi.fork = TRUE],
     [c EXCEPT !.vi.gap_free = FALSE, !.vi.proofs["scan"].real = FALSE],
     [c EXCEPT !.vi.scitt_receipt_valid = TRUE],
     [c EXCEPT !.vi.attempts = FALSE], [c EXCEPT !.vi.control = "admitted"],
     [c EXCEPT !.vi.source_bound = FALSE], [c EXCEPT !.vi.manifest = TRUE],
     [c EXCEPT !.vi.source_bound = FALSE, !.vi.source_form = "legacy"],
     [c EXCEPT !.vi.source_form = "over_limit"], [c EXCEPT !.vi.bounds_ordered = FALSE],
     [c EXCEPT !.vi.withheld = {"source_proofs"}], [c EXCEPT !.vi.withheld = {"intent"}],
     [c EXCEPT !.vi.proofs["scan"].there = FALSE]}
FormChanges(c) ==
    {[c EXCEPT !.limitations = (@ \ {x}) \cup y] :
        x \in Codes, y \in {{}, {"COVERAGE_CONVENTIONS_UNBOUND"}}}
    \cup {[c EXCEPT !.flaw = f] : f \in {"PARSE", "SCHEMA", "OVER_CAP", "CORE_MALFORMED",
                                        "CORE_UNDECLARED_FIELD"}}
Changed(c) ==
    ActionChanges(c) \cup CoverageChanges(c) \cup EvidenceChanges(c) \cup FormChanges(c)
    \cup Renamings(c) \cup Rebundlings(c) \cup Rematchings(c)

Change ==
    /\ core # NoCore /\ ~view.there /\ receipts = {} /\ Spend(1)
    /\ \E c \in Changed(core) : core' = [c EXCEPT !.version = @ + 1]
    /\ UNCHANGED <<world, view, receipts>>

\* Views and receipts are for cores that pass the producer's own check: neither
\* takes an error away, so a core in disorder is reported so with or without them.
InOrder == core # NoCore /\ core.flaw = "none" /\ CrossCheckErrors(core, {}) = {}

\* A view of the core as it is, and what may be wrong with one.
MintView ==
    /\ InOrder /\ receipts = {} /\ ~view.there
    /\ view' = [there |-> TRUE, core |-> TRUE, id |-> core.version, manifest_id |-> core.version,
                withheld |-> {}, signer |-> "issuer",
                mark |-> DeriveVector(VerifiedInput(core, NoView, {}, {}), {}).mark]
    /\ UNCHANGED <<world, core, receipts, odd>>

ChangeView ==
    /\ view.there /\ Spend(1)
    /\ view' \in {[view EXCEPT !.core = FALSE], [view EXCEPT !.withheld = {"intent"}],
                  [view EXCEPT !.id = 0], [view EXCEPT !.manifest_id = 0],
                  [view EXCEPT !.signer = "revoked"],
                  [view EXCEPT !.mark = "UNMARKED_ASSURANCE_WITHDRAWN"]}
    /\ UNCHANGED <<world, core, receipts>>

\* The transparency service registers the certificate; its receipt is put where
\* the verifier looks for one.
Register ==
    /\ InOrder /\ receipts = {} /\ ~view.there
    /\ receipts' = {core.version}
    /\ UNCHANGED <<world, core, view, odd>>

AttachReceipt ==
    /\ core # NoCore /\ core.pack = 0
    /\ \E id \in receipts : core' = [core EXCEPT !.pack = id, !.version = @ + 1]
    /\ UNCHANGED <<world, view, receipts, odd>>

Next ==
    \/ Witness \/ Occur \/ Scan \/ RecordCoverage
    \/ Compile \/ Change \/ MintView \/ ChangeView
    \/ Register \/ AttachReceipt

Spec == Init /\ [][Next]_vars

-------------------------------------------------------------------------------
(***************************************************************************)
(* Properties, about the report a relying party gets at any time.          *)
(***************************************************************************)
Compiled == core # NoCore
Report == Run(core, view, trust)
Clean(report) == Compiled /\ report.errors = {}

Linked == {e \in DedupedEvents(core.events) : Links(core.claim, e, core.coverage_doc)}

\* A clean certificate that says MATCHED has exactly one event that links to the claim.
\* It is final; of the floor it states just what the claim states, the two state some
\* field alike and no field differently, whatever flags and conventions the producer
\* carries; and the certificate admits it where these conventions are not the ones the
\* node signed (check_matches, declared_tally, material_agreement).
MatchedIsSupported ==
    LET report == Report
    IN Clean(report) /\ report.vector.dims.outcome = "MATCHED" =>
        \E e \in Linked :
           /\ Linked = {e}
           /\ e.finality = core.coverage_doc.final
           /\ \A f \in Floor : Stated(e, f) <=> Stated(core.claim, f)
           /\ \E f \in MaterialFields : Stated(e, f) /\ Stated(core.claim, f)
           /\ \A f \in MaterialFields : ~Disagree(core.claim, e, f)
           /\ \/ "COVERAGE_CONVENTIONS_UNBOUND" \in core.limitations
              \/ core.coverage_doc \in docs

\* "Any material disagreement -> outcome CONTRADICTED, regardless of finality.  It is
\* never softened to CLAIM_ONLY" (SPEC/reconcile-v1.md section 5): when one event links
\* to the claim and they disagree on a field of the floor, or on one the coverage
\* document names, a clean certificate says CONTRADICTED, however its matches are listed.
ContradictionStands ==
    LET report == Report
    IN Clean(report) /\ core.claim # NoClaim =>
        \A e \in Linked :
           Linked = {e} /\ MaterialMismatch(core.claim, e, core.coverage_doc)
           => report.vector.dims.outcome = "CONTRADICTED"

\* The action a clean certificate displays, to somebody who pinned the log's key,
\* is one the node signed a receipt for under that id and class; and with verified
\* authority the log has an intent of that class for it.
DisplayedActionIsSigned ==
    LET report == Report
        named == {r \in rows : r.id = core.subject.id}
    IN Clean(report) /\ "log_keys" \in trust =>
           /\ core.subject.id # "" => named # {}
           /\ core.subject.class # "" => \E r \in named : r.class = core.subject.class
           /\ report.vector.dims.authority = "VERIFIED" =>
                 \E r \in named : r.kind = "intent" /\ r.class = core.subject.class

Anchored(a) == a \notin missing /\ Category[a] \in trust

\* Source signature, control domain, node observation, coverage and temporal binding of a
\* clean report are no better than what third parties signed under keys the relying party
\* pinned, and the scan they rest on is about this batch.
FavourIsAnchored ==
    LET report == Report
        v == report.vector.dims
    IN Clean(report) =>
           /\ v.source_signature = "ASYMMETRIC" => Anchored("source_proof")
           /\ v.control_domain = "INDEPENDENT" => Anchored("control_evidence")
           /\ v.node_observation = "OBSERVED" => Anchored("scan") /\ scanned = core.batch.keys
           /\ v.coverage = "CLOSED" =>
                 /\ ~core.open_findings /\ ~core.batch.gaps
                 /\ \/ Anchored("population_proof")
                    \/ Anchored("scan") /\ Anchored("attestation") /\ scanned = core.batch.keys
           /\ v.temporal_binding # "UNPROVEN" =>
                 \/ Anchored("echo")
                 \/ Anchored("intent_bounds") /\ Anchored("event_bounds")

\* "A later Receipt attaches without changing any underlying action artifact"
\* (SPEC/scitt-action-profile-v1.md section 3): attached to a certificate that is
\* otherwise in order, with the service pinned, it makes it REGISTERED.
ReceiptAttaches ==
    LET report == Report
    IN Clean(report) /\ core.pack \in receipts /\ core.version = core.pack + 1
                     /\ Anchored("scope_registration") =>
        report.vector.registration_status = "REGISTERED"
===============================================================================
