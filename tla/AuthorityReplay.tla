--------------------------- MODULE AuthorityReplay ---------------------------
(***************************************************************************)
(* `authority_facts` of verify-rs/src/action.rs: which organisation root,  *)
(* which principal binding and which grant stood behind an action, read    *)
(* off a verified bundle.                                                  *)
(*                                                                         *)
(* `log` is the bundle's receipts in leaf order and `cps` its checkpoint   *)
(* chain with the independent time each checkpoint got, if any.  Both only *)
(* grow, by what the recording side (outside this repository) appends; the *)
(* facts are operators over them, recomputed from nothing on every bundle. *)
(* A receipt hash is the receipt's position, so a receipt names only older *)
(* ones.  `truth` is history: the instant the intent really was recorded,  *)
(* which the verifier never sees.                                          *)
(***************************************************************************)
EXTENDS Integers, FiniteSets, FiniteSetsExt, Sequences, SequencesExt

CONSTANTS
    RootKeys,      \* keys that enrol as organisation roots
    RuntimeKeys,   \* keys that sign intents
    Windows,       \* <<valid_from, valid_to>> pairs documents carry
    Passports,     \* the acting agent's establishment: native, or naming a root
    MaxTime,       \* bound: the clock
    MaxLog,        \* bound: receipts
    MaxCps,        \* bound: checkpoints
    Quota,         \* bound: receipts of each kind
    MaxOdd         \* bound: receipts that break the operator's own rules

None == 0
Instants == 1..MaxTime

ASSUME ReplayAssumption ==
    /\ MaxTime \in Nat \ {0} /\ MaxLog \in Nat /\ MaxCps \in Nat
    /\ Windows \subseteq Instants \X Instants
    /\ Passports \subseteq {"native"} \cup RootKeys

VARIABLES now, log, cps, truth, odd

vars == <<now, log, cps, truth, odd>>

At(lg, kind) == {i \in DOMAIN lg : lg[i].kind = kind}
MaxOf(S) == IF S = {} THEN None ELSE Max(S)
MinOf(S) == IF S = {} THEN None ELSE Min(S)

-------------------------------------------------------------------------------
(***************************************************************************)
(* Root replay.  An enrolment is invalid when the log witnessed its key,   *)
(* wherever in the log that happens.                                       *)
(***************************************************************************)
Witnessed(lg) == {lg[i].kid : i \in At(lg, "key")}
ValidEnrolment(lg, e) == e.kid \notin Witnessed(lg) /\ e.selfSig

NoRoot == [org |-> None, timeline |-> <<>>, conflict |-> FALSE]

\* Mutant: a second unlinked enrolment takes the organisation over.
UnlinkedTakesOver(lg, st, i) ==
    IF lg[i].kind # "root" \/ ~ValidEnrolment(lg, lg[i]) THEN st
    ELSE IF st.timeline = <<>>
         THEN [st EXCEPT !.org = i, !.timeline = <<i>>]
    ELSE IF lg[i].prev = lg[Last(st.timeline)].kid /\ lg[i].prevSig
         THEN [st EXCEPT !.timeline = Append(@, i)]
         ELSE [st EXCEPT !.timeline = <<i>>]

\* One receipt of the replay: the first valid enrolment founds the organisation, a
\* linked one rotates its root, and any other is a conflict.
Enrol(lg, st, i) ==
    IF lg[i].kind # "root" \/ ~ValidEnrolment(lg, lg[i]) THEN st
    ELSE IF st.timeline = <<>>
         THEN [st EXCEPT !.org = i, !.timeline = <<i>>]
    ELSE IF lg[i].prev = lg[Last(st.timeline)].kid /\ lg[i].prevSig
         THEN [st EXCEPT !.timeline = Append(@, i)]
         ELSE [st EXCEPT !.conflict = TRUE]

RootsUpTo(lg) ==
    LET upto[i \in 0..Len(lg)] == IF i = 0 THEN NoRoot ELSE Enrol(lg, upto[i - 1], i) IN upto
ReplayRoots(lg) == RootsUpTo(lg)[Len(lg)]

\* The root in force at a leaf, and the receipts of a kind it really signed.
RootAt(lg, line, leaf) ==
    LET past == {i \in ToSet(line) : i <= leaf}
    IN IF past = {} THEN None ELSE lg[Max(past)].kid

RootValid(lg, kind) ==
    LET line == ReplayRoots(lg).timeline
    IN {i \in At(lg, kind) : lg[i].signer = RootAt(lg, line, i)}

-------------------------------------------------------------------------------
(***************************************************************************)
(* The intent interval.  A checkpoint is a prefix of every later one, so   *)
(* its time is clamped to the earliest proven for it or a later one.       *)
(***************************************************************************)
Timed(ch) == {k \in DOMAIN ch : ch[k].anchor # None}
\* Mutant: each checkpoint keeps its own anchor's time.
UnclampedTime(ch, k) == ch[k].anchor
Clamped(ch, k) == Min({ch[j].anchor : j \in {j \in Timed(ch) : k <= j}})

Before(ch, leaf) == {k \in Timed(ch) : ch[k].size < leaf}
After(ch, leaf) == {k \in Timed(ch) : ch[k].size >= leaf}
IntervalFor(ch, leaf) ==
    [lower |-> IF Before(ch, leaf) = {} THEN None
               ELSE Clamped(ch, Max(Before(ch, leaf))),
     upper |-> IF After(ch, leaf) = {} THEN None
               ELSE Clamped(ch, Min(After(ch, leaf)))]

Bounded(iv) == iv.lower # None /\ iv.upper # None
Covers(win, iv) == win[1] <= iv.lower /\ iv.upper <= win[2]

-------------------------------------------------------------------------------
(***************************************************************************)
(* The intent, the agent's lineage and the principal binding.              *)
(***************************************************************************)
\* Intents of one action_id; the lowest leaf is evaluated.
PickIntent(lg) == MinOf(At(lg, "intent"))

\* The agent of the model is established by receipt 1; its revision is the last.
Birthtag == 1
Imported == -1
Revision(lg) == Max({Birthtag} \cup At(lg, "lineage.revised"))

\* An imported agent's transfer must name the newest root of the timeline.
PassportOk(lg) ==
    LET line == ReplayRoots(lg).timeline
    IN \/ lg[Birthtag].passport = "native"
       \/ line # <<>> /\ lg[Birthtag].passport = lg[Last(line)].kid

WindowsConflict(a, b) ==
    a.runtime = b.runtime /\ a.win[1] <= b.win[2] /\ b.win[1] <= a.win[2]

BindingConflict(lg) ==
    \E i, j \in RootValid(lg, "bound") :
       /\ i < j /\ WindowsConflict(lg[i], lg[j])
       /\ ~(j \in lg[i].concurrent /\ i \in lg[j].concurrent)

\* The first binding of this revision whose runtime key signed the intent and
\* whose window covers the ENTIRE interval.
MatchBinding(lg, ch) ==
    LET x == PickIntent(lg)
        iv == IntervalFor(ch, x)
    IN MinOf({b \in RootValid(lg, "bound") :
                 /\ Bounded(iv) /\ Covers(lg[b].win, iv)
                 /\ lg[b].revision = Revision(lg)
                 /\ lg[b].runtime \in lg[x].signers})

Identity(lg, ch) ==
    IF ReplayRoots(lg).conflict \/ BindingConflict(lg) THEN "CONFLICT"
    ELSE IF ~PassportOk(lg) THEN "NOT_VERIFIED"
    ELSE IF MatchBinding(lg, ch) = None THEN "NOT_VERIFIED"
    ELSE "VERIFIED"

\* The binding and the birthtags `facts` hands from identity to authority.
BindingId(lg, ch) ==
    IF Identity(lg, ch) = "VERIFIED" THEN MatchBinding(lg, ch) ELSE None
Birthtags(lg, ch) ==
    {Birthtag} \cup
    IF lg[Birthtag].passport # "native" /\ PassportOk(lg) /\ Identity(lg, ch) # "CONFLICT"
    THEN {Imported} ELSE {}

-------------------------------------------------------------------------------
(***************************************************************************)
(* The grant: its versions, its documents over the interval, revocation.   *)
(***************************************************************************)
Revisions(lg, g) == {i \in RootValid(lg, "revised") : lg[i].grant = g}
GrantRewritten(lg, g) ==
    \E i, j \in Revisions(lg, g) : i # j /\ lg[i].version = lg[j].version
VersionsDense(lg, g) ==
    /\ {lg[i].version : i \in Revisions(lg, g)} = 2..(Cardinality(Revisions(lg, g)) + 1)
    /\ \A i \in Revisions(lg, g) : lg[i].prev = lg[i].version - 1

\* Mutant: a revocation taking effect at the very end of the interval is missed.
RevokedBefore(lg, g, t) ==
    \E i \in RootValid(lg, "revoked") : lg[i].grant = g /\ lg[i].eff < t
RevokedBy(lg, g, t) ==
    \E i \in RootValid(lg, "revoked") : lg[i].grant = g /\ lg[i].eff <= t

\* docs[0] is what the loop leaves there: the highest version in force at lower.
\* Versions taking effect inside the interval are added.
DocAt(lg, g, t) ==
    LET past == {i \in Revisions(lg, g) : lg[i].eff <= t}
    IN IF past = {} THEN lg[g].doc
       ELSE lg[CHOOSE i \in past : \A j \in past : lg[j].version <= lg[i].version].doc
DocsOver(lg, g, iv) ==
    {DocAt(lg, g, iv.lower)} \cup
    {lg[i].doc : i \in {i \in Revisions(lg, g) :
                           iv.lower < lg[i].eff /\ lg[i].eff <= iv.upper}}

DocsCover(lg, g, iv) ==
    \A d \in DocsOver(lg, g, iv) : Covers(d.win, iv) /\ d.allows

\* Mutant: the subject's birthtag alone is compared.
BindingIgnored(lg, g, b) == FALSE
BindingSubstituted(lg, g, b) ==
    /\ b # None
    /\ \E i \in {g} \cup Revisions(lg, g) : lg[i].doc.binding \notin {None, b}

GrantChainVerified(lg, g, iv) ==
    /\ Bounded(iv)
    /\ VersionsDense(lg, g)
    /\ ~RevokedBy(lg, g, iv.upper)
    /\ DocsCover(lg, g, iv)

Authority(lg, ch) ==
    LET x == PickIntent(lg)
        g == lg[x].grant
    IN IF GrantRewritten(lg, g) THEN "CONFLICT"
       ELSE IF g \notin RootValid(lg, "issued") THEN "NOT_VERIFIED"
       ELSE IF lg[g].subject \notin Birthtags(lg, ch) THEN "NOT_VERIFIED"
       ELSE IF BindingSubstituted(lg, g, BindingId(lg, ch)) THEN "NOT_VERIFIED"
       ELSE IF GrantChainVerified(lg, g, IntervalFor(ch, x)) THEN "VERIFIED"
       ELSE "NOT_VERIFIED"

-------------------------------------------------------------------------------
(***************************************************************************)
(* What the recording side may append.  Nothing here is checked when it is *)
(* written: the verifier is all there is.  Time passes between the steps   *)
(* that are stamped, and at most MaxOdd receipts are other than a careful  *)
(* operator would write (an imported agent counts as one).                 *)
(***************************************************************************)
\* A grant may name a binding whose receipt the bundle does not carry.
Elsewhere == -1
Docs == {d \in [win : Windows, allows : BOOLEAN,
                binding : {None, Elsewhere} \cup At(log, "bound")] :
            d.allows \/ d.win = <<1, MaxTime>>}

\* What a careful operator would not write.
Late(w) == w # <<1, MaxTime>>
Unsound(e) == e.doc.binding = Elsewhere \/ ~e.doc.allows \/ Late(e.doc.win)
Odd(lg, e) ==
    LET root == RootAt(lg, ReplayRoots(lg).timeline, Len(lg))
    IN CASE e.kind = "root" -> ~e.selfSig \/ e.prev # root \/ e.prevSig # (root # None)
         [] e.kind = "bound" -> e.signer # root \/ Late(e.win)
         [] e.kind = "revoked" -> e.signer # root
         [] e.kind = "issued" -> e.signer # root \/ Unsound(e)
                                  \/ (e.subject = Imported /\ lg[Birthtag].passport = "native")
         [] e.kind = "revised" ->
               e.signer # root \/ Unsound(e) \/ e.version # 2 + Cardinality(Revisions(lg, e.grant))
         [] e.kind = "intent" -> e.signers = {}
         [] e.kind = "key" -> TRUE
         [] OTHER -> FALSE

Init ==
    /\ now = 1
    /\ \E p \in Passports :
          /\ log = <<[kind |-> "established", passport |-> p]>>
          /\ odd = IF p = "native" THEN 0 ELSE 1
    /\ cps = <<>>
    /\ truth = None

Write(e) ==
    /\ Len(log) < MaxLog
    /\ Cardinality(At(log, e.kind)) < Quota[e.kind]
    /\ odd' = odd + (IF Odd(log, e) THEN 1 ELSE 0)
    /\ odd' <= MaxOdd
    /\ log' = Append(log, e)
    /\ UNCHANGED cps

Untimed(e) == Write(e) /\ UNCHANGED <<now, truth>>

WitnessKey == \E k \in RootKeys : Untimed([kind |-> "key", kid |-> k])

EnrolRoot ==
    \E k \in RootKeys, p \in RootKeys \cup {None}, self, link \in BOOLEAN :
       /\ link => p # None
       /\ Untimed([kind |-> "root", kid |-> k, prev |-> p, prevSig |-> link, selfSig |-> self])

ReviseAgent == Untimed([kind |-> "lineage.revised"])

BindPrincipal ==
    \E s \in RootKeys, k \in RuntimeKeys, w \in Windows, c \in SUBSET At(log, "bound") :
       Untimed([kind |-> "bound", signer |-> s, revision |-> Revision(log),
                runtime |-> k, win |-> w, concurrent |-> c])

IssueGrant ==
    \E s \in RootKeys, d \in Docs, a \in {Birthtag, Imported} :
       Untimed([kind |-> "issued", signer |-> s, subject |-> a, doc |-> d])

ReviseGrant ==
    \E s \in RootKeys, d \in Docs, g \in At(log, "issued"), v \in {2, 3}, t \in Instants :
       Untimed([kind |-> "revised", signer |-> s, grant |-> g, version |-> v,
                prev |-> v - 1, eff |-> t, doc |-> d])

\* An unreadable effective_ts (None) revokes from the beginning.
RevokeGrant ==
    \E s \in RootKeys, g \in At(log, "issued"), t \in Instants \cup {None} :
       Untimed([kind |-> "revoked", signer |-> s, grant |-> g, eff |-> t])

RecordIntent ==
    \E g \in At(log, "issued"), S \in SUBSET RuntimeKeys, t \in now..MaxTime :
       /\ Write([kind |-> "intent", grant |-> g, signers |-> S])
       /\ now' = t
       /\ truth' = IF truth = None THEN t ELSE truth

\* A checkpoint of the whole log, signed at t.  Its independent time is never
\* before the signed one (record_not_before_checkpoint) but may be later, for a
\* slow anchor or a post-dated claim.  The facts see only which checkpoints
\* precede the intent, so it is enough to take them after a grant or an intent.
Checkpoint ==
    /\ Len(cps) < MaxCps
    /\ Last(log).kind \in {"issued", "intent"}
    /\ \E t \in now..MaxTime, a \in {None} \cup now..MaxTime :
          /\ a = None \/ a >= t
          /\ cps' = Append(cps, [size |-> Len(log), ts |-> t, anchor |-> a])
          /\ now' = t
    /\ UNCHANGED <<log, truth, odd>>

Next ==
    \/ WitnessKey \/ EnrolRoot \/ ReviseAgent \/ BindPrincipal
    \/ IssueGrant \/ ReviseGrant \/ RevokeGrant
    \/ RecordIntent
    \/ Checkpoint

Spec == Init /\ [][Next]_vars

-------------------------------------------------------------------------------
Recorded == PickIntent(log) # None
Interval == IntervalFor(cps, PickIntent(log))
Granted == Recorded /\ Authority(log, cps) = "VERIFIED"

\* Every checkpoint before the intent was timed the moment it was signed.
PromptBefore == \A k \in Before(cps, PickIntent(log)) : cps[k].anchor = cps[k].ts

\* The interval an intent is judged by is never inverted, never ends before the
\* instant the intent was really recorded, and starts no later than it when the
\* earlier checkpoints were timed promptly - whatever later checkpoints, slow
\* anchors and post-dated ones the chain goes on to carry (interval_for).
IntervalSound ==
    Recorded =>
        /\ Interval.upper # None => truth <= Interval.upper
        /\ Bounded(Interval) => Interval.lower <= Interval.upper
        /\ PromptBefore => Interval.lower <= truth

\* Authority VERIFIED means the grant really stood at the intent's own instant:
\* no revocation its root signed had taken effect, and the newest version in
\* force by then allowed the class and was inside its window (derive_authority).
\* The second half needs the interval to start before that instant.
VerifiedWithinGrant ==
    Granted =>
        LET g == log[PickIntent(log)].grant
            versions == Revisions(log, g)
            inForce == {i \in versions : log[i].eff <= truth}
            newest == {i \in inForce : \A j \in inForce : log[j].version <= log[i].version}
            docs == {log[i].doc : i \in IF inForce = {} THEN {g} ELSE newest}
        IN /\ \A r \in RootValid(log, "revoked") : log[r].grant = g => log[r].eff > truth
           /\ Interval.lower <= truth =>
                 \A d \in docs : d.allows /\ d.win[1] <= truth /\ truth <= d.win[2]

\* Identity and authority VERIFIED together speak of one binding: the runtime
\* key that signed the intent was bound to this revision of the agent, and no
\* version of the grant was issued for another binding (binding_substituted).
NoSubstitution ==
    Granted /\ Identity(log, cps) = "VERIFIED" =>
        LET x == PickIntent(log)
        IN \E b \in At(log, "bound") :
              /\ log[b].runtime \in log[x].signers
              /\ log[b].revision = Revision(log)
              /\ \A i \in {log[x].grant} \cup Revisions(log, log[x].grant) :
                    log[i].doc.binding \in {None, b}

\* The log is append-only and so is what it says about the organisation: a
\* receipt that is not a key entry never unseats a root, reorders the timeline
\* or clears a conflict (replay_roots).
RootHistoryKept ==
    [][At(log', "key") = At(log, "key") =>
          /\ IsPrefix(ReplayRoots(log).timeline, ReplayRoots(log').timeline)
          /\ ReplayRoots(log).conflict => ReplayRoots(log').conflict]_vars
===============================================================================
