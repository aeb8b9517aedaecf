------------------------------ MODULE Assurance ------------------------------
(***************************************************************************)
(* `verify_b28_cwt` of verify-rs/src/b28.rs: a relying party challenges an *)
(* agent to prove, now, that it may take one exact action.                 *)
(*                                                                         *)
(* The authority keeps an authenticated state (who is active, which grant  *)
(* is the head) and publishes signed checkpoints of it.  The relying party *)
(* keeps, locally, the checkpoints it registered and one head.  A          *)
(* presentation travels between the two, may arrive late or twice, and may *)
(* be put together from any documents that were ever signed; on top of     *)
(* that one thing may be wrong with the exchange or the local context (its *)
(* flaw).  Authority, agent and the relying party's store are not in this  *)
(* repository and are modelled from the documents b28.rs reads; the        *)
(* evaluation is its code, stage by stage.                                 *)
(***************************************************************************)
EXTENDS Integers, FiniteSets, FiniteSetsExt, Sequences

CONSTANTS
    MaxAge,         \* max_checkpoint_age of every challenge
    SnapshotLife,   \* expires_at - status_as_of of a status snapshot
    Life,           \* validity of a credential
    GrantLife,      \* validity of a grant
    DelegationEnd,  \* valid_to of the root delegation
    Lifetime,       \* expires_at - issued_at of the challenged action
    Nothing,        \* no message, no result
    Flaws,          \* what may be wrong with an exchange or the local context
    MaxTime,        \* bound: the clock
    MaxCps,         \* bound: checkpoints
    MaxChanges      \* bound: documents issued and retired

Agents == {1, 2}    \* agent 2 is the successor of agent 1
None == 0

ASSUME AssuranceAssumption ==
    /\ {MaxAge, SnapshotLife, Life, GrantLife, DelegationEnd, Lifetime} \subseteq Nat
    /\ {MaxTime, MaxCps, MaxChanges} \subseteq Nat
    /\ "none" \in Flaws

VARIABLES
    now,
    st,          \* the authority's state
    creds,       \* credentials ever signed: agent, revision, issuance checkpoint, from
    grants,      \* grant versions ever signed: version, from
    gone,        \* history: what was retired, and when
    cps,         \* signed checkpoints, forks included
    registered,  \* relying party: registered checkpoints
    head,        \* relying party: its authority head
    ch,          \* the outstanding challenge
    flight,      \* the presentation on its way
    result,      \* the evaluation the caller is reading
    succeeded    \* history: the successor has been let through on its link

authority == <<st, creds, grants, gone, cps>>
local == <<registered, head>>
exchange == <<ch, flight>>
vars == <<now, authority, local, exchange, result, succeeded>>

-------------------------------------------------------------------------------
(***************************************************************************)
(* The evaluation.  A stage is the list of its findings in the order of    *)
(* the code, the first that holds ends it, and the dimensions it marks     *)
(* VERIFIED when none does.                                                *)
(***************************************************************************)
Finding(holds, verdict, reason) == [holds |-> holds, verdict |-> verdict, reason |-> reason]
Fail(holds, reason) == Finding(holds, "FAIL", reason)
Open(holds, reason) == Finding(holds, "INDETERMINATE", reason)
Stage(findings, marks) == [findings |-> findings, marks |-> marks]

Hits(s) == {i \in DOMAIN s.findings : s.findings[i].holds}

\* Stages run in order until one has a finding: those before it have marked.
RunStages(stages) ==
    LET stops == {k \in DOMAIN stages : Hits(stages[k]) # {}}
        done == {k \in DOMAIN stages : \A j \in stops : k < j}
        stage == stages[Min(stops)]
        found == stage.findings[Min(Hits(stage))]
    IN [verdict |-> IF stops = {} THEN "INDETERMINATE" ELSE found.verdict,
        reason |-> IF stops = {} THEN "DURABLE_REPLAY_REQUIRED" ELSE found.reason,
        verified |-> UNION {stages[k].marks : k \in done}]

\* verify_b28_cwt: local context, exchange, generation, pinned roots, in this order.
Entry(flaw) == Stage(
    << Open(flaw = "clock", "LOCAL_CLOCK_INVALID"),
       Open(flaw = "unparsed", "VERIFIER_CONTEXT_INVALID"),
       Fail(flaw = "mixed", "MIXED_PROFILE_GENERATION"),
       Open(flaw = "no_pack", "NO_PINNED_TRUST_PACK"),
       Open(flaw = "no_keys", "NO_LOCAL_CHALLENGER_KEY") >>, {})

ChallengeStage(c, flaw) == Stage(
    << Fail(flaw = "challenge_sig", "CHALLENGE_SIGNATURE_OR_PROFILE_INVALID"),
       Fail(flaw = "challenger", "CHALLENGE_SIGNER_MISMATCH"),
       Open(c.issued > now, "CHALLENGE_NOT_CURRENT"),
       Fail(now >= c.expires, "CHALLENGE_EXPIRED"),
       Open(flaw = "lifetime", "ACTION_LIFETIME_EXCEEDS_LOCAL_POLICY") >>,
    {"challenge"})

PresentationStage(flaw) == Stage(
    << Fail(flaw = "unstrict", "PRESENTATION_NOT_STRICT_CWT"),
       Fail(flaw = "other_challenge", "PRESENTATION_CHALLENGE_OR_ACTION_MISMATCH") >>, {})

Roots(flaw) == Stage(
    << Fail(flaw = "root_sig", "ROOT_AUTHORITY_CHAIN_INVALID"),
       Fail(flaw = "tenant", "ROOT_OR_TENANT_SUBSTITUTION"),
       Fail(flaw = "actor", "ACTOR_ORGANISATION_MISMATCH"),
       Fail(now >= DelegationEnd, "AUTHORITY_DELEGATION_INACTIVE") >>,
    {"root_chain", "delegation"})

Signatures(flaw) == Stage(
    << Fail(flaw = "agent_sig", "DELEGATED_OR_AGENT_SIGNATURE_INVALID"),
       Fail(flaw = "holder", "PASSPORT_HOLDER_CORE_MISMATCH") >>,
    {"live_key_control", "passport_identity"})

\* A successor's first credential commits to its link, which must come along.
Passport(c, flaw) == Stage(
    << Fail(flaw = "role", "AUTHORITY_KEY_ROLE_COLLISION"),
       Fail(flaw = "passport" \/ ~(c.cred.from <= now /\ now < c.cred.from + Life),
            "PASSPORT_BINDING_OR_VALIDITY_INVALID"),
       Fail(flaw = "link", "AGENT_SUCCESSOR_INVALID"),
       Fail(flaw = "template", "PASSPORT_TEMPLATE_MISMATCH") >>, {"binding"})

Registration(flaw) == Stage(
    << Fail(flaw = "selection", "TEMPLATE_ADMIN_POP_ISSUANCE_INVALID"),
       Fail(flaw = "admin_sig", "TEMPLATE_ADMIN_POP_CONSUMPTION_INVALID") >>,
    {"template_admin_pop"})

Number(k) == cps[k].seq

\* checkpoint, in three stages: the presented checkpoint is registered and there is a
\* local head, it is that head, and the snapshot is of it and fresh.
CheckpointKnown(p, flaw) == Stage(
    << Open(p.cp \notin registered, "AUTHORITY_CHECKPOINT_UNREGISTERED"),
       Open(flaw = "no_head", "LOCAL_AUTHORITY_HEAD_UNAVAILABLE") >>, {})

\* What the local head keeps of its checkpoint besides the sequence number.
Content(k) == <<cps[k].st, cps[k].log>>

\* Mutant: a checkpoint the local head has not reached yet is held against it.
AheadIsRollback(k) == Stage(
    << Fail(Number(k) # Number(head), "AUTHORITY_CHECKPOINT_ROLLBACK"),
       Fail(Number(k) = Number(head) /\ Content(k) # Content(head),
            "AUTHORITY_CHECKPOINT_FORK") >>, {})
CheckpointHeadError(k) == Stage(
    << Fail(Number(k) < Number(head), "AUTHORITY_CHECKPOINT_ROLLBACK"),
       Open(Number(k) > Number(head), "AUTHORITY_CHECKPOINT_AHEAD_OF_LOCAL_HEAD"),
       Fail(Number(k) = Number(head) /\ Content(k) # Content(head),
            "AUTHORITY_CHECKPOINT_FORK") >>, {})

\* Mutant: only the snapshot's own expiry is looked at.
NeverTooOld(k) == now < cps[k].at
TooOld(k) == now < cps[k].at \/ now - cps[k].at > MaxAge

CheckpointStage(c, p, flaw) == Stage(
    << Open(~(c.cred.iss \in registered /\ Number(c.cred.iss) <= Number(p.cp)),
            "PASSPORT_ISSUANCE_CHECKPOINT_UNREGISTERED"),
       Fail(flaw = "log", "PASSPORT_ISSUANCE_LOG_NOT_ANCESTOR"),
       Fail(p.snap # p.cp, "STATUS_CHECKPOINT_BINDING_INVALID"),
       Open(TooOld(p.cp), "STATUS_CHECKPOINT_STALE"),
       Fail(flaw = "as_of", "STATUS_CHECKPOINT_BINDING_INVALID"),
       Open(now >= cps[p.snap].at + SnapshotLife, "STATUS_CHECKPOINT_STALE") >>, {})

\* A link names its successor's first revision, so later ones come without it.
CarriesLink(cred) == cred.agent = 2 /\ cred.rev = 1

\* Mutant: the predecessor's head is not looked at.
LinkAlone(s) == s.link # None
SuccessorProven(s) ==
    s.link # None /\ s.agent[1] = [rev |-> s.link + 1, status |-> "SUPERSEDED"]

\* Membership proofs against the local head's state.  `basis` stands for the
\* delegation, template, mandate, configuration and administrator objects.
AuthorityProofs(c, flaw) ==
    LET s == cps[head].st
    IN Stage(
    << Fail(s.basis # "ACTIVE", "AUTHORITY_STATE_PROOF_INVALID:root_delegation"),
       Fail(s.agent[c.cred.agent] # [rev |-> c.cred.rev, status |-> "ACTIVE"],
            "AUTHORITY_STATE_PROOF_INVALID:agent_head"),
       Fail(s.grant # c.grant.ver,
            "AUTHORITY_STATE_PROOF_INVALID:grant_head"),
       Fail(CarriesLink(c.cred) /\ ~SuccessorProven(s),
            "AUTHORITY_STATE_PROOF_INVALID:agent_successor"),
       Fail(flaw = "stray_proofs" /\ ~CarriesLink(c.cred), "AGENT_SUCCESSOR_INVALID"),
       Fail(flaw = "counter", "AUTHORITY_STATE_PROOF_INVALID:admin_counter") >>,
    {"fresh_status"})

GrantStage(c, flaw) == Stage(
    << Fail(flaw = "scope" \/ ~(c.grant.from <= now /\ now < c.grant.from + GrantLife),
            "ACTION_OUTSIDE_ROOT_LIMIT_GRANT") >>, {"grant"})

AsaStage(flaw) == Stage(
    << Fail(flaw = "asa", "ASA_EXACT_BINDING_OR_VALIDITY_INVALID") >>,
    {"asa_reservation", "exact_action"})

Finish(c, p, flaw) == Stage(
    << Fail(flaw = "transcript", "TRANSCRIPT_BINDING_INVALID"),
       Fail(p.created < c.issued \/ p.created >= c.expires, "PRESENTATION_TIME_OUTSIDE_CHALLENGE"),
       Fail(cps[p.cp].at > p.created, "PRESENTATION_TIME_OUTSIDE_ASSURANCE"),
       Fail(p.created > now, "PRESENTATION_TIME_OUTSIDE_LOCAL_CLOCK") >>, {"transcript"})

Required(flaw) == Stage(
    << Open(flaw = "unevaluated", "REQUIRED_DIMENSION_NOT_EVALUATED_V1") >>, {})

EvaluationStages(c, p, flaw) ==
    << Entry(flaw), ChallengeStage(c, flaw), PresentationStage(flaw), Roots(flaw),
       Signatures(flaw), Passport(c, flaw), Registration(flaw), CheckpointKnown(p, flaw),
       CheckpointHeadError(p.cp), CheckpointStage(c, p, flaw), AuthorityProofs(c, flaw),
       GrantStage(c, flaw), AsaStage(flaw), Finish(c, p, flaw), Required(flaw) >>
Evaluate(c, p, flaw) == RunStages(EvaluationStages(c, p, flaw))

\* evaluate_refusal: a signed refusal of this challenge is always a FAIL.
RefusalStage(c, f, flaw) == Stage(
    << Open(flaw = "no_responder", "NO_LOCAL_RESPONDER_KEY"),
       Fail(flaw = "challenge_sig", "SIGNED_REFUSAL_INVALID"),
       Fail(flaw = "challenger", "CHALLENGE_SIGNER_MISMATCH"),
       Fail(~(c.issued <= now /\ now < c.expires), "CHALLENGE_EXPIRED"),
       Fail(flaw = "agent_sig", "SIGNED_REFUSAL_INVALID"),
       Fail(f.by # c.cred.agent, "REFUSAL_SIGNER_MISMATCH"),
       Fail(flaw = "other_challenge", "REFUSAL_CHALLENGE_MISMATCH"),
       Fail(f.created > now, "REFUSAL_TIME_OUTSIDE_LOCAL_CLOCK"),
       Fail(~(c.issued <= f.created /\ f.created < c.expires),
            "REFUSAL_TIME_OUTSIDE_CHALLENGE") >>, {"challenge", "binding"})
EvaluateRefusal(c, f, flaw) ==
    RunStages(<<Entry(flaw), RefusalStage(c, f, flaw),
                Stage(<< Fail(TRUE, "SIGNED_REFUSAL") >>, {})>>)

-------------------------------------------------------------------------------
(***************************************************************************)
(* The authority changes its state and signs checkpoints of it.            *)
(***************************************************************************)
LastMain == CHOOSE k \in DOMAIN cps :
               ~cps[k].fork /\ \A j \in DOMAIN cps : ~cps[j].fork => j <= k
Changes == Cardinality(creds) + Cardinality(grants) + Cardinality(gone) - 2

Init ==
    /\ now = 1
    /\ st = [agent |-> [a \in Agents |-> IF a = 1 THEN [rev |-> 1, status |-> "ACTIVE"]
                                         ELSE [rev |-> None, status |-> "NONE"]],
             link |-> None, grant |-> 1, basis |-> "ACTIVE"]
    /\ creds = {[agent |-> 1, rev |-> 1, iss |-> 1, from |-> 1]}
    /\ grants = {[ver |-> 1, from |-> 1]}
    /\ gone = {}
    /\ cps = <<[seq |-> 1, st |-> st, log |-> 0, at |-> 1, fork |-> FALSE]>>
    /\ registered = {1} /\ head = 1
    /\ ch = Nothing /\ flight = Nothing /\ result = Nothing /\ succeeded = FALSE

\* Nothing else happens while the caller reads an evaluation's result.
Quietly == result = Nothing /\ UNCHANGED <<result, succeeded>>

Change(s, newCreds, newGrants, retired) ==
    /\ Changes < MaxChanges
    /\ st' = s
    /\ creds' = creds \cup newCreds
    /\ grants' = grants \cup newGrants
    /\ gone' = gone \cup {[what |-> x, at |-> now] : x \in retired}
    /\ Quietly /\ UNCHANGED <<now, cps, local, exchange>>

Credential(a, r) == [agent |-> a, rev |-> r, iss |-> LastMain, from |-> now]

\* Succession is two changes: the successor is linked, the predecessor's head is
\* superseded.  A checkpoint may fall between them, and so may revisions of either:
\* a link whose predecessor was revised meanwhile is never proven.
Succeeding == st.link # None /\ st.agent[1].status = "ACTIVE"

ReviseAgent ==
    \E a \in Agents :
       LET r == st.agent[a].rev
       IN /\ st.agent[a].status = "ACTIVE"
          /\ Change([st EXCEPT !.agent[a].rev = r + 1], {Credential(a, r + 1)}, {},
                    {<<"agent", a, r>>})

RevokeAgent ==
    \E a \in Agents :
       /\ st.agent[a].status = "ACTIVE"
       /\ Change([st EXCEPT !.agent[a].status = "REVOKED"], {}, {},
                 {<<"agent", a, st.agent[a].rev>>})

LinkSuccessor ==
    /\ st.link = None /\ st.agent[1].status = "ACTIVE"
    /\ Change([st EXCEPT !.link = st.agent[1].rev,
                         !.agent[2] = [rev |-> 1, status |-> "ACTIVE"]],
              {Credential(2, 1)}, {}, {})

SupersedePredecessor ==
    /\ Succeeding
    /\ Change([st EXCEPT !.agent[1] = [rev |-> @.rev + 1, status |-> "SUPERSEDED"]], {}, {},
              {<<"agent", 1, st.agent[1].rev>>})

ReviseGrant ==
    Change([st EXCEPT !.grant = @ + 1], {}, {[ver |-> st.grant + 1, from |-> now]},
           {<<"grant", st.grant>>})

WithdrawBasis ==
    /\ st.basis = "ACTIVE"
    /\ Change([st EXCEPT !.basis = "REVOKED"], {}, {}, {<<"basis">>})

Sign(cp) ==
    /\ Len(cps) < MaxCps
    /\ cps' = Append(cps, cp)
    /\ Quietly /\ UNCHANGED <<now, st, creds, grants, gone, local, exchange>>

Publish == Sign([seq |-> cps[LastMain].seq + 1, st |-> st, log |-> 0, at |-> now, fork |-> FALSE])

\* Equivocation: a second checkpoint of the last sequence, over another state or
\* another log (1).
Fork ==
    \E s \in {st} \cup {cps[k].st : k \in DOMAIN cps}, l \in {0, 1} :
       /\ <<s, l>> # Content(LastMain)
       /\ Sign([seq |-> cps[LastMain].seq, st |-> s, log |-> l, at |-> now, fork |-> TRUE])

-------------------------------------------------------------------------------
(***************************************************************************)
(* The relying party's store, the exchange and the clock.                  *)
(***************************************************************************)
AdvanceHead ==
    \E k \in DOMAIN cps :
       /\ ~cps[k].fork /\ k > head
       /\ head' = k /\ registered' = registered \cup {k}
       /\ Quietly /\ UNCHANGED <<now, authority, exchange>>

RegisterCheckpoint ==
    \E k \in DOMAIN cps \ registered :
       /\ registered' = registered \cup {k}
       /\ Quietly /\ UNCHANGED <<now, authority, head, exchange>>

Challenge ==
    \E c \in creds, g \in grants :
       /\ ch' = [cred |-> c, grant |-> g, issued |-> now, expires |-> now + Lifetime]
       /\ flight' = Nothing
       /\ Quietly /\ UNCHANGED <<now, authority, local>>

\* The agent's own newest checkpoint backs what it is challenged about, its link if
\* it comes with one.
Backed(s) ==
    /\ s.basis = "ACTIVE"
    /\ s.agent[ch.cred.agent] = [rev |-> ch.cred.rev, status |-> "ACTIVE"]
    /\ s.grant = ch.grant.ver
    /\ CarriesLink(ch.cred) => SuccessorProven(s)

Send(f) ==
    /\ ch # Nothing
    /\ flight' = f
    /\ Quietly /\ UNCHANGED <<now, authority, local, ch>>

\* Any checkpoint ever signed, with its own snapshot or the newest; honest when
\* both are the newest and back the challenge.
Present ==
    \E k \in DOMAIN cps : \E s \in {k, LastMain} :
       Send([cp |-> k, snap |-> s, created |-> now,
             honest |-> k = LastMain /\ s = LastMain /\ Backed(cps[k].st)])

Refuse == \E a \in Agents : Send([by |-> a, created |-> now])

IsRefusal(f) == "by" \in DOMAIN f

\* Delivery leaves the message in flight, to be delivered again.  A presentation
\* that is not honest is the one thing wrong.
Deliver ==
    /\ flight # Nothing /\ result = Nothing
    /\ \E flaw \in IF IsRefusal(flight) \/ flight.honest THEN Flaws ELSE {"none"} :
          LET r == IF IsRefusal(flight) THEN EvaluateRefusal(ch, flight, flaw)
                   ELSE Evaluate(ch, flight, flaw)
          IN /\ result' = [sound |-> flaw = "none", verdict |-> r.verdict,
                           refused |-> r.reason = "SIGNED_REFUSAL",
                           through |-> r.reason = "DURABLE_REPLAY_REQUIRED",
                           fresh |-> "fresh_status" \in r.verified]
             /\ succeeded' = (succeeded \/ (result'.through /\ CarriesLink(ch.cred)))
    /\ UNCHANGED <<now, authority, local, exchange>>

ReadResult ==
    /\ result # Nothing
    /\ result' = Nothing
    /\ UNCHANGED <<now, authority, local, exchange, succeeded>>

Tick ==
    /\ now < MaxTime
    /\ now' = now + 1
    /\ Quietly /\ UNCHANGED <<authority, local, exchange>>

Next ==
    \/ ReviseAgent \/ RevokeAgent \/ LinkSuccessor \/ SupersedePredecessor
    \/ ReviseGrant \/ WithdrawBasis \/ Publish \/ Fork
    \/ AdvanceHead \/ RegisterCheckpoint
    \/ Challenge \/ Present \/ Refuse \/ Deliver \/ ReadResult \/ Tick

Spec == Init /\ [][Next]_vars

-------------------------------------------------------------------------------
\* "fresh_status" VERIFIED bounds how long a retirement can stay unseen: whatever
\* the presentation was made of, however late it came and however far the local
\* head lags, nothing it relies on was retired more than max_checkpoint_age
\* before the evaluation (checkpoint, authority_proofs).
RevocationBites ==
    result # Nothing /\ result.fresh =>
        \A x \in gone :
           x.what \in {<<"basis">>, <<"grant", ch.grant.ver>>,
                       <<"agent", ch.cred.agent, ch.cred.rev>>}
           => x.at >= now - MaxAge

\* FAIL is a finding against the counterparty.  A sound exchange an agent sent
\* while its newest checkpoint backed it fails only by running out of time or by
\* being overtaken by the local head, never because this verifier lags; and a
\* refusal is reported only when the challenged agent refused this challenge.
BlameIsDeserved ==
    result # Nothing /\ result.sound /\ result.verdict = "FAIL" =>
        IF IsRefusal(flight)
        THEN result.refused => flight.by = ch.cred.agent
        ELSE flight.honest =>
               \/ now >= ch.expires
               \/ Number(head) > Number(flight.cp)
               \/ now >= DelegationEnd
               \/ now >= ch.cred.from + Life
               \/ now >= ch.grant.from + GrantLife

\* A succession, once seen, is final: after the successor was let through on its link
\* no evaluation lets the predecessor through, at any revision, under that head or any
\* later one, whatever old documents are presented and however the two changes of a
\* succession and the checkpoints interleave (successor_matches, authority_proofs).
SuccessionIsFinal ==
    result # Nothing /\ result.through /\ ch.cred.agent = 1 => ~succeeded
===============================================================================
