------------------------------- MODULE Verdict -------------------------------
(***************************************************************************)
(* derive_vector_with_trust of verify-rs/src/action.rs: the dimensions of  *)
(* the verdict that gate eligibility and the mark, derived from a verdict  *)
(* input and the categories of keys the relying party has pinned.  The     *)
(* other dimensions are rendered and gate nothing; they are left out.      *)
(*                                                                         *)
(* An artifact somebody signed is [there, real, about]: `real` is that the *)
(* party it names signed these very bytes, `about` the batch it is about.  *)
(* A verdict input is a record of what the producer carries; a JSON member *)
(* that is missing has the value 0, "" or FALSE.                           *)
(***************************************************************************)
EXTENDS Integers, FiniteSets, Sequences, SequencesExt

\* The material floor, and a field only a convention adds to it.
Floor == {"value", "currency", "counterparty"}
MaterialFields == Floor \cup {"iban"}

\* Which of the relying party's keys each signed artifact is verified under.
Category ==
    [source_proof |-> "source_keys", mac_proof |-> "mac_keys",
     control_evidence |-> "evaluator_keys", scan |-> "node_keys", attestation |-> "node_roots",
     population_proof |-> "population_keys", echo |-> "source_keys",
     intent_bounds |-> "temporal_keys", event_bounds |-> "temporal_keys",
     scope_registration |-> "scitt_ts_keys"]
Artifacts == DOMAIN Category

\* A favourable value needs a signature under a key the relying party named.
TrustVerified(vi, a, trust) ==
    vi.proofs[a].there /\ vi.proofs[a].real /\ Category[a] \in trust

AuthorityBlock(vi) ==
    IF vi.authority.integrity = "VALID" THEN vi.authority
    ELSE [integrity |-> "INVALID", identity |-> "NOT_VERIFIED", authority |-> "NOT_VERIFIED",
          intent |-> "NOT_RECORDED", interval |-> vi.authority.interval]

\* The key of an asymmetric proof is bound beforehand, by exactly one entry, and in the
\* full form (with its material) that of a MAC too.  Proofs over the limits prove nothing.
SourceSignature(vi, trust) ==
    IF "source_proofs" \in vi.withheld THEN "NOT_RECOMPUTED"
    ELSE IF vi.source_form = "over_limit" THEN "NONE"
    ELSE IF vi.source_bound /\ TrustVerified(vi, "source_proof", trust) THEN "ASYMMETRIC"
    ELSE IF /\ vi.source_form = "full" => vi.source_bound
            /\ TrustVerified(vi, "mac_proof", trust)
         THEN "SHARED_SECRET" ELSE "NONE"

\* An admission of overlap is believed without proof.
ControlDomain(vi, trust) ==
    IF vi.control \in {"admitted", "shared"} THEN "OVERLAPPING"
    ELSE IF vi.control = "grounded" /\ TrustVerified(vi, "control_evidence", trust)
         THEN "INDEPENDENT" ELSE "UNKNOWN"

\* Mutant: any scan will do.
ScanOfAnyBatch(vi) == TRUE
\* The signed scan is about the batch it comes with, gaps and all, over a period that
\* starts before it ends.
ScanBindsBatch(vi) ==
    vi.batch.there /\ vi.batch.ordered /\ vi.proofs["scan"].about = vi.batch

Observed(vi, trust) == ScanBindsBatch(vi) /\ TrustVerified(vi, "scan", trust)

\* The population proof is a member of the batch.
PopulationProven(vi, trust) == vi.batch.there /\ TrustVerified(vi, "population_proof", trust)

\* Of the attested bases only this one gates anything.
NodeIntegrityBasis(vi, trust) ==
    IF TrustVerified(vi, "attestation", trust) THEN "HARDWARE_ATTESTED"
    ELSE "LOG_WITNESSED_SOFTWARE"

CoverageBasis(vi, trust) ==
    IF PopulationProven(vi, trust) THEN "SOURCE_PROVEN_POPULATION"
    ELSE IF /\ vi.gap_free /\ Observed(vi, trust)
            /\ NodeIntegrityBasis(vi, trust) = "HARDWARE_ATTESTED"
         THEN "ATTESTED_NODE_FULL_SCAN" ELSE "INSUFFICIENT"

\* Findings that cannot be read count as open.
HasOpenFinding(vi) == vi.findings \in {"open", "unreadable"}

Coverage(vi, trust) ==
    IF \/ vi.batch.gaps \/ vi.fork \/ HasOpenFinding(vi)
       \/ vi.proofs["scan"].there /\ ~vi.gap_free
    THEN "GAPPED"
    ELSE IF CoverageBasis(vi, trust) # "INSUFFICIENT" THEN "CLOSED" ELSE "UNKNOWN"

Temporal(vi, trust) ==
    IF TrustVerified(vi, "echo", trust) THEN "PROVEN_SOURCE_ECHO"
    ELSE IF /\ TrustVerified(vi, "intent_bounds", trust)
            /\ TrustVerified(vi, "event_bounds", trust)
            /\ vi.bounds_ordered
         THEN "PROVEN_INDEPENDENT" ELSE "UNPROVEN"

-------------------------------------------------------------------------------
(***************************************************************************)
(* Linkage and outcome: what the source reports against what was claimed.  *)
(***************************************************************************)
NoClaim == [action_id |-> "", action_class |-> "", external_ref |-> "", uniq |-> 0,
            vals |-> [f \in MaterialFields |-> 0]]

\* The places of the matches that link; there may be one to judge by, or none.
Candidates(vi) ==
    {i \in DOMAIN vi.event_matches :
        LET m == vi.event_matches[i] IN m.echo \/ m.ref \/ m.unique}
Candidate(vi) == vi.event_matches[Min(Candidates(vi))]

Stated(x, f) == x.vals[f] # 0
Disagree(x, y, f) == Stated(x, f) /\ Stated(y, f) /\ x.vals[f] # y.vals[f]

\* Over every field, declared or not; the first event of that key counts.  A field
\* nobody declared may not corroborate, and may not accuse either.
MaterialAgreement(vi, m) ==
    LET fields == Floor \cup (IF vi.manifest THEN MaterialFields ELSE {})
        found == {i \in DOMAIN vi.events : vi.events[i].key = m.key}
        e == vi.events[Min(found)]
        compared == {f \in fields : Stated(vi.claim, f) /\ Stated(e, f)}
    IN IF m.mismatch THEN "MISMATCH"
       ELSE IF found = {} THEN "UNCOMPARABLE"
       ELSE IF \E f \in compared : Disagree(vi.claim, e, f) THEN "MISMATCH"
       ELSE IF \/ compared = {}
               \/ \E f \in fields : Stated(vi.claim, f) # Stated(e, f)
               \/ \E f \in MaterialFields \ fields : Disagree(vi.claim, e, f)
            THEN "UNCOMPARABLE" ELSE "AGREE"

Linkage(vi) ==
    IF Candidates(vi) = {} THEN "NONE"
    ELSE IF Cardinality(Candidates(vi)) > 1 THEN "AMBIGUOUS"
    ELSE IF Candidate(vi).echo THEN "DIRECT" ELSE "DETERMINISTIC"

Outcome(vi) ==
    IF vi.claim = NoClaim THEN IF vi.events # << >> THEN "ORPHAN" ELSE "NULL"
    ELSE IF Cardinality(Candidates(vi)) # 1 THEN "CLAIM_ONLY"
    ELSE LET agreement == MaterialAgreement(vi, Candidate(vi))
         IN IF agreement = "MISMATCH" THEN "CONTRADICTED"
            ELSE IF agreement = "AGREE" /\ Candidate(vi).final THEN "MATCHED" ELSE "CLAIM_ONLY"

-------------------------------------------------------------------------------
Gated == {"identity", "authority", "intent", "integrity", "linkage", "outcome", "coverage",
          "coverage_basis", "temporal_binding", "fork_findings", "scitt_receipt"}

Eligibility(vi, v) ==
    IF vi.withheld \cap Gated # {} THEN "NOT_RECOMPUTED"
    ELSE IF /\ v.identity = "VERIFIED" /\ v.authority = "VERIFIED" /\ v.intent = "RECORDED"
            /\ v.integrity = "VALID" /\ v.outcome = "MATCHED" /\ v.coverage = "CLOSED"
            /\ v.interval
            /\ v.linkage \in {"DIRECT", "DETERMINISTIC"}
            /\ v.coverage_basis # "INSUFFICIENT"
            /\ ~vi.fork
            /\ v.temporal_binding # "UNPROVEN"
            /\ vi.scitt_receipt_valid
         THEN "ELIGIBLE" ELSE "INELIGIBLE"

RegistrationStatus(vi, trust) ==
    IF vi.scitt_receipt_valid /\ TrustVerified(vi, "scope_registration", trust) THEN "REGISTERED"
    ELSE IF vi.attempts THEN "PENDING" ELSE "UNREGISTERED"

\* Strict precedence; neither path to a mark awards one.
MarkOf(eligibility, registration, v) ==
    IF eligibility = "NOT_RECOMPUTED" THEN "NOT_RECOMPUTED"
    ELSE IF registration = "PENDING" THEN "PENDING_REGISTRATION"
    ELSE IF registration = "UNREGISTERED" THEN "UNMARKED_UNREGISTERED"
    ELSE IF /\ eligibility # "INELIGIBLE"
            /\ \/ v.source_signature = "ASYMMETRIC" /\ v.control_domain = "INDEPENDENT"
               \/ v.node_observation = "OBSERVED" /\ v.node_integrity_basis = "HARDWARE_ATTESTED"
         THEN "UNMARKED_ASSURANCE_WITHDRAWN" ELSE "UNMARKED_TECHNICAL"

DeriveVector(vi, trust) ==
    LET a == AuthorityBlock(vi)
        v == [identity |-> a.identity, authority |-> a.authority, intent |-> a.intent,
              integrity |-> a.integrity, interval |-> a.interval,
              linkage |-> Linkage(vi), outcome |-> Outcome(vi),
              coverage |-> Coverage(vi, trust), coverage_basis |-> CoverageBasis(vi, trust),
              source_signature |-> SourceSignature(vi, trust),
              control_domain |-> ControlDomain(vi, trust),
              node_observation |-> IF Observed(vi, trust) THEN "OBSERVED" ELSE "NOT_OBSERVED",
              node_integrity_basis |-> NodeIntegrityBasis(vi, trust),
              temporal_binding |-> Temporal(vi, trust)]
        eligibility == Eligibility(vi, v)
        registration == RegistrationStatus(vi, trust)
    IN [dims |-> v, technical_eligibility |-> eligibility, registration_status |-> registration,
        mark |-> MarkOf(eligibility, registration, v)]
===============================================================================
