# TLA+ models of swarrm-verify

swarrm-verify checks, offline, that an *evidence bundle* exported from an
operator's transparency log is what it claims to be. Nothing in a bundle is
trusted: every receipt is signed and proved to be in a Merkle tree, the tree
head is a signed checkpoint, checkpoints form a chain, and the keys themselves
are entries of the same log. The verifier is a sequential Rust library
(`verify-rs/src`), compiled to WASM for a browser page (`verify-rs/web`,
`verify-rs/pkg`), which is the one concurrent part.

The models below state what an accepted bundle guarantees when its content is
chosen by somebody else, and what the page may show. TLC checks them on small
instances; TLAPS proves every safety property that a passing run checks, for all
instances.

## 1. Inventory

| Component | Source | State | Operations | What makes it correct |
|---|---|---|---|---|
| Key-log replay | `lib.rs` 304-501 | map kid -> introduction, revocation, issuer standing, role | create, rotate, revoke, refuse | authority flows from genesis along issuers; revocation is permanent in log order and in signed time |
| Key authority over a bundle | `lib.rs` 638-670, 744-772, 1322-1344 | replayed key map, JWKS, receipts, attested receipts | cross-check the JWKS, check signatures of key entries, receipts and checkpoints | nothing accepted rests on a key after its revocation, even a retroactive one; a truncated key log revives no key |
| Merkle proofs | `merkle.rs` | two counters, two running hashes | fold one proof element, strip, skip, compare | accepted proofs bind, honest proofs are accepted, walks end |
| Checkpoint chain and facts | `lib.rs` 503-742, 783-932, 1050-1197, 1372-1474 | position in the chain, facts earned so far | check a receipt, the target, a link, the head, timestamp records, continuity | one growing history, deadlines against the first covering checkpoint, no silent elision, no evidence for a refused bundle |
| Entry set | `lib.rs` 826-957, 960-1048 | sets of receipt hashes, (agent, seq) pairs, lineage per agent | manifest equality, uniqueness, birth-tag rules | the carried receipts are the exported ones; one history per agent |
| Browser page | `web/index.html`, `pkg/verification_presentation.js` | text held, generation counter, reads under way, what is shown | select, read ends or fails, checkbox, tamper demonstration, load pinned assets | a green verdict is about the last file, unchanged, under the current policy |
| Counterparty assurance | `b28.rs` | challenge, presentation, authority checkpoints, the relying party's head and registered checkpoints | one evaluation in stages, one for refusals | a retirement is missed for a bounded time only; FAIL is deserved; once a successor was let through on its link, its predecessor is not let through again |
| Authority replay | `action.rs` 880-1450 | organisation roots, bindings, grants and their versions, the interval around an intent | replay roots, bound the intent in time, judge identity and authority | VERIFIED means the grant stood when the intent was recorded, for the key that signed it |
| Verdict vector | `action.rs` 1-880 | one value per dimension | derive from the verdict input and the pinned keys | no favourable value without a pinned signer |
| Certificate | `certificate.rs` | core, view, embedded bundle, pinned keys | decode, fifteen cross-checks, derive, view checks, SCITT override | what a clean report says is supported by events, receipts and third parties |
| Dispute package | `dispute.rs` | two verified bundles, recomputed reconciliation | verify both, reconcile, compare | no disagreement is smoothed over; dropped receipts show |
| SCITT, COSE | `scitt.rs`, `cose.rs` | - | check one signed statement | issuer role from the key log; a receipt names one certificate |
| Encodings | `cbor.rs`, `cbor_wire.rs`, `jcs.rs`, `trust.rs` | - | canonical decode | one reading per byte string |
| Timestamp tokens | `tsa.rs` | - | CMS and X.509 path validation | a token is bound to one checkpoint |

Interaction is by call, in a fixed order: caps, key-log replay, JWKS, export
manifest, receipts (against the target's root and the *unchecked* chain), target,
chain links, origin, head, lineage, timestamp and anchor records, continuity,
origin attestation. The order matters because facts are written into a shared
`BundleFacts` on the way and are cleared when a later check fails. The page calls
the WASM entry points synchronously from event handlers; file reads are
asynchronous and can overlap. A dispute package calls the bundle pipeline twice, a
certificate calls it once and then the authority replay and the verdict vector on
what it returned. Counterparty assurance stands alone, but is the one place where
time passes between making evidence and judging it.

Hard to test, and what the models are for:

* chains of delegation and rotation, backdated times, revocations that are logged
  late and effective early, a key log with its tail missing;
* arithmetic at the right edge of incomplete trees and at size zero;
* a check that uses data which only a later check makes meaningful;
* evidence collected before the failure of a later check;
* overlapping reads, and controls used between two of them;
* receipts that are lost, added or repeated between export and verification, each
  with a valid signature and proof of its own;
* an intent whose time is known only as an interval, judged against grants that
  were revised and revoked around it;
* presentations that arrive late, twice or put together from old documents, at a
  relying party whose own view lags;
* certificates whose members are each consistent but not with one another.

`PROJECT.json` lists each with its line and the properties that guard it.

## 2. Modules

**KeyLog** is `replay_key_log`. `state` is `kl.state` with `kl.keys` (a kid is the
hash of its key, so kid and key are one value); `phase` is `kl.ok` and the loop;
`lastLeaf` the sort order; `vouchers` a history variable, the active keys on whose
signature each key was introduced. One action applies one entry: `KeyGenesis`,
`KeyCreated` (the two arms of `apply_key_created`), `KeyRotated`, `KeyRevoked`,
`RefuseEntry` for every early return, `FinishReplay`. The entries are chosen by
the environment when they are reached, which covers every list since the replay
never looks ahead. `MCKeyLog` adds key symmetry.

**KeyAuthority** extends KeyLog with what the rest of the verifier does with the
log. `cut` is the log the verifier replayed; the operator's real log (`state`) may
go on (`OmitKeyEntry`). `CheckJwks`, `CheckKeyEntries`, `CheckReceipt` and
`CheckTarget` are `check_jwks_match_log`, `check_entries` with
`entry_recorder_attested`, and `check_target_checkpoint`. A JWK that does not
spell out its kid passes the replay and fails the genesis exception of
`check_entry_sigs`; the model keeps that. Inclusion is reduced to what module
Merkle establishes: leaf below the size, one payload per leaf.

**Merkle** is `merkle.rs`: one action per loop iteration. The proof's next element
and the compared roots are environment choices (constant operators `Given`,
`Offered`, `Claimed`), hashes are terms. **MerkleReference** defines tree hash
(`MTH`), audit path (`Path`) and consistency proof (`SubProof`) as RFC 9162 does, by
recursive functions of the number of leaves and of the first leaf. Soundness is said
from the top: `Descent` follows a root down to a place, looking at nothing but the
sizes, and `Binds` says that the hash found there is the given one. The module chooses
the environment (an honest hash or a foreign one at each place) and states soundness
and completeness; the walks go up and the reference goes down, so neither restates
the other.

**BundleChain** is the pipeline after key replay. Checkpoints are numbers, `prev`
their hash link, `branch` the history their root belongs to. `Present` chooses the
bundle; then come `CheckEntry`, `EntriesDone`, `CheckTarget`, `CheckLink`,
`ChainDone`, `CheckHead`, `CheckTimestamp`, `AttestDone`, `AssessContinuity` in the
code's order, and `Refuse` at every stage a check can fail. A binary search on an
unordered chain may stop anywhere (`CoverPoints`). `Coverage` is
`acknowledgement_coverage`. `MCBundleChain` adds branch symmetry.

**BundleReport** is what the pipeline promises: a bundle is received, then accepted
or refused in one step. `Accept` needs one unforked history from genesis to the
target and credits checkpoints of that history only; `Refuse` leaves nothing but
the answer about the manifest. The facts a bundle earns on the way are invisible
there. `JudgedAtOnce` is that BundleChain implements it: the mapping shows the
bundle from the moment it is presented, and the facts only once the stage is
`verified` or `refused`. Between, every step of BundleChain is a stutter; the
clearing of facts by a late failure is what makes the last step a `Refuse`.

**EntrySet** is `check_entry_set`, `check_export_manifest` and `check_lineage`.
The recorder (`Establish`, `Revise`, `Act`, `RaiseFinding`, `Export`) logs what
agents submit, births that come late and borrowed lineage included; the bundle then
meets `Lose`, `Add`, `Repeat` and `SwapManifest`. The verifier's answers are
operators over the bundle. That an agent's sequence numbers count up without holes
is the recorder's doing and assumed (`SPEC/birthtag-v1.md` line 106,
`SPEC/bundle-v1.md` line 211): `born` is compared by number, not by leaf, and
`BornIsFirst` says this is enough.

**AuthorityReplay** is `authority_facts`: `ReplayRoots` (`Enrol` is one turn of its
loop), `IntervalFor`, `Identity` and `Authority` are operators over the log and the checkpoints, each recomputed
from nothing as the code does. One action per kind of receipt the recording side
appends, and `Checkpoint` with the independent time it got, if any and however
late. `truth` is the instant the intent was recorded, which the verifier never
sees; the properties relate its answer to it. `MCAuthorityReplay` adds quotas per
kind and symmetry of root keys.

**Assurance** is `verify_b28_cwt`. A stage is a sequence of findings, the first
that applies ends the evaluation (`Fail`) or leaves it open (`Open`);
`EvaluationStages` lists the stages from `Entry` to `Required` in the code's order,
`EvaluateRefusal` is the other path. The
authority revises, revokes and supersedes, publishes and forks; the relying party
advances its head and registers checkpoints when it gets to it; `Challenge`,
`Present`, `Refuse`, `Deliver` are the exchange, and a delivered message can be
delivered again. A succession is two changes, and checkpoints and revisions of either agent
can fall between. A successor's link is carried by its first credential only
(`CarriesLink`), since `validate_successor` wants revision 1; the predecessor's head is
looked at only when a link is carried (`SuccessorProven`). What that leaves open is in
section 6. A fork is a checkpoint with the number of another and another state or log
(`Content`, the three values `checkpoint_head_error` compares); the same content signed
again under another date is the authority's word about the date, and not modelled. The
authority, which is not in this repository, is taken never to reactivate an agent it
revoked or superseded. `succeeded` is a history variable.

**Dispute** is `reverify` and `verify_json` between two recorders that keep
recording and an assembler that drops receipts, exchanges the parties, reconciles
at one time and submits at another, or touches up the result. Numbers keep their
JSON form, since `1` and `1.0` are different values to the comparison.

**Verdict** holds the dimensions of the verdict vector that gate eligibility,
registration or the mark, as operators; **Certificate** is `run`, `run_view` and
`verify_core` with all fifteen cross-checks, for a producer that compiles a
certificate and may change what it carries. A certificate id is the number of the
change, because other bytes have another hash. A field of a claim or an event is absent
(0) or has one of two values; the floor has its three fields and a convention may add
one. A claim may leave out any of them, a match may be listed twice or for an event that
does not link (`MatchesOf`), a batch may be absent, say nothing about its events or have
its period the wrong way round.

**BrowserPage** is the page: `LoadAssets`, `SelectTooEarly`, `SelectFile`,
`ReadDone`, `ReadFailed`, `ToggleRequireManifest`, `Flip`. `view` is what the DOM
shows. Handlers are atomic, as JavaScript runs them; the only `await` of a
selection splits it into `SelectFile` and `ReadDone`/`ReadFailed`.

**KeyAuthorityProofs** (KeyLog and KeyAuthority), **MerkleProofs**,
**BundleChainProofs** (with the refinement), **BrowserPageProofs**,
**EntrySetProofs**, **AuthorityReplayProofs**, **AssuranceProofs** and
**DocumentProofs** (Certificate and Dispute) hold the theorems; each extends the
modules it is about.

In several modules an operator commented "Mutant" precedes the one it mutates.
It is not part of the model: substituted for it, it is a plausible bug that the
property named in `PROJECT.json` detects.

## 3. Runs

| Run | Instance | Distinct states | Checks |
|---|---|---|---|
| `keylog` | 3 keys, 2 instants, leaves 0-3, up to 2 signatures | 191,738 | `TypeOK`, `AuthorityProvenance`, `RevokedNeverVouches`, `NoResurrection` |
| `authority` | 2 keys, 2 instants, leaves 0-3, 1 receipt, 1 omitted entry | 1,151,146 | `AuthorityTypeOK`, `RevocationIsFinal`, `TruncationRevivesNoKey`, `RecorderAttestationSound` |
| `merkle` | all tree sizes and indices up to 17 | 82,623 | `TypeOK`, `FnWithinSn`, `InclusionSound`, `ConsistencySound`, `HonestProofAccepted`, `Termination` |
| `chain` | 3 checkpoints, 2 branches, sizes 0-1, 2 instants | 3.3 million | `TypeOK`, `DeadlineHeld`, `OneHistory`, `ElisionNeverSilent`, `CoverageFollowsChain`, refinement `JudgedAtOnce` |
| `browser` | 3 selections | 53,394 | `TypeOK`, `GreenIsLatest`, `GreenObeysPolicy`, `DigestBesideGreen`, `NothingWhileReading`, `ReadingEnds` |
| `entries` | 2 agents and the detector, 3 receipts, 2 exports | 2.5 million | `CompleteIsGenuine`, `BornIsFirst` |
| `replay` | 5 receipts, 2 root keys, 2 roots, 2 bindings, 2 checkpoints, 2 instants | 412,830 | `IntervalSound`, `VerifiedWithinGrant`, `NoSubstitution`, `RootHistoryKept` |
| `assurance` | clock to 3, 2 checkpoints, 2 changes, 12 flaws | 582,528 | `RevocationBites`, `BlameIsDeserved`, `SuccessionIsFinal` |
| `dispute` | 1 claim, 3 receipts, 1 change | 3.2 million | `NothingSmoothedOver`, `DroppedReceiptsShow` |
| `certificate` | 2 events, 2 odd things | 308,275 | `MatchedIsSupported`, `DisplayedActionIsSigned`, `FavourIsAnchored` |
| `softened` | as `certificate` | - | `ContradictionStands` is violated, see 6 |
| `receipt_attaches` | 1 event, nothing odd | - | `ReceiptAttaches` is violated, see 6 |

Why the bounds are enough. *keylog*: a violation of provenance needs genesis, a
key it sponsors and a third that key sponsors; two instants put a signature on
either side of a revocation. *authority*: every check relates a key to at most one
other (its sponsor, revoker or co-signer); four leaves leave room for
introduction, use, revocation and an omitted entry. *merkle*: sizes to 17 contain
every shape of right edge with up to four skipped levels, all powers of two up to
16 and their neighbours. *chain*: a fork needs two checkpoints and an empty tree
between or before them; an elision needs a middle checkpoint; disorder needs two
sizes. *browser*: one file shown, one read that ends late, one in between.
*entries*: an activity, a late birth and a third receipt to lose or add; two
exports so that one's manifest can stand in for the other's. *replay*: two roots
conflict or hand over, two bindings can be exchanged, two checkpoints bound an
intent from both sides; one receipt may break the operator's own rules.
*assurance*: a revocation, a checkpoint before and one after it, and two ticks
against an age limit of one; twelve flaws, early stages to last, since the
first finding decides and the findings of one stage differ in their name and not in
what they let through. What makes a document ill-formed or ill-signed is one flaw per
finding of the code; those not in the instance end the evaluation at a place between two
that are. A succession takes both changes, with the checkpoint between them or after; a revision
takes the place of the second. With `MaxChanges` 3, which also has a revision after a
complete succession, there are 2,975,142 states and close to five minutes, without a
violation; the theorem has no bound.
*dispute*: two receipts of one side against one of the other, and a receipt
recorded between reconciling and submitting. *certificate*: two candidate events,
and a change with the change that would cover it up.

Most finite runs stop when the verifier has answered or a bound is reached, so
deadlock is not checked; in `dispute` it is, since a package can always be submitted
again. That the sequential walks do not get stuck is `Termination`; that the page
answers is `ReadingEnds`.

Fairness. `Merkle` assumes weak fairness of the next step: the function runs in a
single thread until it returns. `BrowserPage` assumes that a read that was started
settles (`file.arrayBuffer()` resolves or rejects); nothing is assumed about the
user. The other modules have safety properties only and state no fairness.

## 4. Proofs

Every theorem is about the specification TLC runs, with all constants arbitrary: the
assumptions are that bounds, sizes and periods are naturals, instants integers and
placeholders distinct from values (`TimesAssumption`, `LeafAssumption`,
`SigsAssumption`, `AuthorityAssumption`, `SizeAssumption`, `ChainAssumption`,
`SelectionsAssumption`, `EntrySetAssumption`, `ReplayAssumption`,
`AssuranceAssumption`, `DisputeAssumption`, `CertificateAssumption`). `SigsAssumption` asks for room for one
signature, without which KeyAuthority's log could not be a KeyLog. Each proof finds an
inductive invariant, shows it action by action, and reads the properties off it. The
properties, and the invariants TLC can evaluate, were run before they were proved; those
that quantify over all hashes or sequences (`SoundInv`, `HonestInv`, `CertificateInv`)
are beyond it and rest on the proof alone.

`KeyAuthorityProofs`, first about KeyLog:

* `KeyInvariance`: `KeyInv` is `TypeOK`, `RevokedNeverVouches`,
  `AuthorityProvenance` and `IntroducedSoFar`, which bounds every introduction and
  revocation leaf by the last replayed one. The last is what makes the others
  inductive: a new revocation must not fall below the leaf of a key already
  vouched for by the revoked one, and a new key must be later than its sponsor.
* `TypeCorrectness`, `AuthorityFromGenesis`, `RevokedKeysVouchForNothing` follow;
  `NoKeyIsRevived` is the action property `NoResurrection`, from `KeyInv` and a lemma
  that a step changes of a known key at most its empty revocation.

and then about KeyAuthority. An entry of the operator's log is a step of KeyLog
(`LogEntryIsApplied`), so `KeyInv` and the lemma about steps are used and not proved
again.

* `AuthorityInvariance`: `CutIsPrefix` relates the replayed log to the whole one (the
  same introductions, and a revocation if it has one is the same), `CutStanding` and
  `RolesStandBelow` say who may hold a role, `Judged` what each stage has checked
  against the final cut. `RecorderAttestationHolds` follows from `Judged`, and
  `RevocationIsFinalHolds` from it and `Accounted`: the bundle carries the entry of every
  revocation it was replayed to, and an accepted head gives a leaf to one entry, so what
  a key signed at its revocation leaf is its own revocation. `TruncationRevivesNone` follows from `CutIsPrefix` and the JWKS: a key that the
  omitted tail revokes is missing from the published JWKS but unrevoked in the cut.

`MerkleProofs` (any choice of hashes, trees of every size):

* `WalkTypeCorrect` and `CountersStayOrdered`: `TypeOK` and `FnWithinSn`. The second is the comment in `verify_consistency` ("fn <= sn always and
  both shift together"), on which testing `sn = 0` for the length of the path rests.
  `WalkInv` says more than `fn <= sn`: while levels are skipped the two are equal and
  not zero.
* `SoundInvariance`. After `e` turns the walk is at level `e` of the tree, at position
  `fn`, and the running hash stands for the leaves below that position, of which there
  are `2^e` or, at the right edge, what is left (`Size`). `Stands` says that read as
  the hash of a tree of that size it binds the given leaf or first root. A turn climbs
  by one node: `RightHalf` and `LeftHalf` are the two foldings, `NoHalf` the level at
  which an incomplete right edge has no sibling, which is what the inner skip loop is
  for. `Stripped` accounts for the levels removed before a consistency walk starts:
  the first tree then ends where a complete subtree ends. At `sn = 0` the subtree is
  the whole tree and `Stands` is the property.
* `InclusionBinds`, `ConsistencyBinds` are `InclusionSound`, `ConsistencySound`.
  `AcceptedLeafIsUnique` says what the first is worth: a descent does not look at the
  leaf it is to end in, so no other leaf can be accepted at that index under that root.
* `HonestInvariance`. `Follows` says of the elements read so far that if they begin the
  proof `Path` or `SubProof` prescribes, the running hashes are `MTH` of the subtree
  reached; the elements prescribed within a subtree are a beginning of those prescribed
  for the tree above it (`GrowsRight`, `GrowsLeft`), and a proof is longer than that of
  a proper subtree (`InnerShorter`), so that an honest proof ends neither before the
  root nor after it. `HonestIsAccepted` follows.

The recursive functions come with no theorem about their values: those of the
library take an operator as a parameter, which these provers cannot instantiate. The
lemma `Induction` is about a set instead (a set with zero, and with every number the next,
contains all naturals; by the least number outside it), and each definition is shown
by it to exist on ever larger domains before its unfolding is used.

`BundleChainProofs`:

* `ChainInvariance`: `Walked` says of the first `link` checkpoints what the properties
  say of all (they grow, lie on one branch, and where they are dense their ancestry is
  in the chain, an induction along the chain that the walk itself performs); `Passed` what each later
  stage rests on; `LateMeansDisorder` that a binary search misses a late receipt only
  on a chain out of order, which `Walked` then excludes; `Untold`, `ContinuityRead` and
  `Forfeited` what the facts say before, at and after the verdict. The empty tree,
  which lies on any branch, is why `OneGrowingHistory` asks for equal branches from
  the first non-empty tree on only.
* `OneHistoryHolds`, `DeadlineIsHeld`, `ElisionShows`, `CoverageFollows`, `TypeCorrect`.
* `JudgedInOneStep`: BundleChain implements BundleReport. `Present` is a `Receive`, the
  last check an `Accept`, a refusal at any stage a `Refuse`, all else a stutter. `Accept`
  needs `Walked` and `ContinuityRead`, `Refuse` needs `Forfeited`.

`BrowserPageProofs`:

* `PageInvariance`. `GreenIsLatest` alone is not inductive: a late read, the checkbox
  and the demonstration each act on the text held, so the invariant relates that text
  to the view (`HeldIsShown`, `GreenIsHeld`) and the reads to the selections
  (`ReadsNumbered`: one read for each number, so that two current reads are one).
* `GreenIsTheLatest`, `GreenObeysTheCheckbox`, `DigestOnlyBesideGreen`,
  `NothingOldWhileReading`, `TypeCorrect`, for any number of overlapping reads.

`EntrySetProofs`:

* `EntryInvariance`: `Counted` is the recorder's promise in a form that survives
  appending (a receipt's number is one more than the number of earlier ones of its
  agent); `Exported` and `Underway` what exports and bundles may hold.
  `CompleteIsGenuineHolds` is from the latter two; `BornIsFirstHolds` from `Counted`:
  number one means nothing came before, whatever the bundle leaves out.

`DocumentProofs`, about Dispute:

* `DisputeInvariance`: bundles name receipts their logs have, logs only grow, and a
  verified reconciliation is faithful to the bundles beside it and stays so.
  `DroppedReceiptsAreShown` and `NothingIsSmoothedOver` follow; the latter needs
  that the values read from each side's receipts, JSON form kept, differ as sets exactly
  when the amounts do.

and about Certificate:

* `CertificateInvariance`: `Grounded` is what no change of the producer can fake. A bundle
  under the log's own key carries receipts and documents the log has, the events are the
  source's, a proof that checks out under a third party's key was given by that party, and
  the scan is of what was scanned. All else in a core is free.
* `FavourIsAnchoredAlways` reads the vector dimension by dimension from `Grounded` and the
  pinned keys. `DisplayedActionIsSignedAlways` needs the cross-checks between subject,
  input and signed intents, with the case of a log that has no intents. For
  `MatchedIsSupportedAlways` the first event of each key is what `deduped_events` keeps
  (`FirstOfKey`), one link per event in that order is what `check_matches` compares, and a
  MATCHED linkage counts exactly one of them; `AgreeMeans` is what the comparison of
  claim and event establishes. Nothing is assumed about the claim, which may state
  nothing: a floor field that neither side states is skipped, as in `declared_tally`, and
  what is left is that the two state the same floor fields, some field in common, and
  disagree on none.

`AuthorityReplayProofs`:

* `ReplayInvariance`: checkpoints grow with the log and `Placed`: those that cover the
  intent were signed no earlier than it was recorded, the others no later.
  `IntervalIsSound` follows from it and lemmas about the minima and maxima the interval
  is made of; `VerifiedIsWithinGrant` from the interval and lemmas about the versions
  of a grant at its two ends; `NothingIsSubstituted` from the definitions of identity
  and authority in any log of the type.
* `RootHistoryIsKept` compares the replay of a log with that of the log one receipt
  longer. `RootsUpTo` of the two agree on every beginning of the shorter one, by
  induction along it, because without a new key entry `Enrol` reads the same witnessed
  keys; and one `Enrol` only appends to the timeline and only sets the conflict
  (`EnrolExtends`).

`AssuranceProofs`:

* `AssuranceInvariance`. What was retired is reflected in the authority's state and in
  every main checkpoint signed later (`AuthorityOk`, `ChainOk`); main checkpoints are
  numbered upwards and forks are numbered no higher and show another state or log; a message
  in flight answers the open challenge and, if honest, shows what its checkpoint says
  (`FlightOk`); a predecessor once superseded stays so from checkpoint to checkpoint, and
  if the successor was let through on its link the local head has it so (`SuccessionOk`).
* The evaluation enters through two lemmas about stages: an evaluation with fresh
  status got past `TooOld` and the state proofs, and one that fails does so by a
  finding of the list. `RevocationIsSeen` uses the first, `BlameIsAlwaysDeserved` the
  second, one stage at a time: of an honest message every finding is false, open, or
  one of the excuses the property names. `SuccessionStaysFinal` follows from
  `SuccessionOk`: the link proves the predecessor superseded under the head of that
  evaluation, the head only moves to later main checkpoints, and a credential of the
  predecessor needs it active.

Only model-checked: `Termination` of the Merkle walks and `ReadingEnds` of the page.
Both are liveness under fairness, which is outside this prover. The two properties of
the runs that expect a violation are false, and shown so by TLC.

## 5. Abstractions and what is left out

* Ed25519 and SHA-256 are perfect: a signature verifies iff its key made it, a
  hash names its preimage. Encodings, closed member sets, caps and timestamps'
  syntax appear as "the input can be refused here".
* Instants are integers. The code compares epoch microseconds; widths do not
  matter for comparisons.
* Timestamp tokens are trusted or not; anchor records can only refuse.
* Wording and layout of the page are left out, except which verdict is shown, about
  what, and whether a digest stands beside it.
* A hash of a receipt is its position, so a receipt names only older ones, and two
  receipts that each name the other as concurrent cannot exist.
* AuthorityReplay leaves out `intent_result` (commitments and submissions),
  duplicate intents for one action, and `mandate_id`: comparisons inside one
  receipt, or labels of the result.
* Assurance reduces what makes a CWT or a document well formed to one flaw per
  finding.
* The key of a source proof is bound or not; a source proof is in the full form, in the
  legacy one, or over the limits.
* Verdict leaves out what is rendered and gates nothing: surfaces, accountability,
  assurance linkage, scope relation, population, history, the authority proof, client
  attestation and the `Raise` path.
* In Certificate the facts of the embedded bundle are given: BundleChain, KeyAuthority
  and AuthorityReplay are about them.

Not modelled:

* *CBOR, JCS, strict JSON*: byte-level encodings. A model would be character by
  character; elsewhere their effect is that a malformed input is refused.
* *Timestamp tokens*: X.509 and CMS validation of one token. BundleChain has what a
  trusted token earns and when it is lost.
* *SCITT and COSE encodings*: one signed statement at a time. Where a receipt is looked
  for and what it earns is in Certificate.
* *Selective disclosure*: one salted hash compared with one field, no state.
* *Fuzzing, release scripts, golden vectors, website*: not behaviour of the verifier.

## 6. Findings

`SPEC/scitt-action-profile-v1.md` lines 128-129 say "A later Receipt attaches without
changing any underlying action artifact or proof semantics"; `certificate-v1.cddl`
line 54 that registration artifacts "are never embedded". `apply_scitt_override` reads
the receipt from `verdict_input.registration.scitt_pack`, inside the core whose hash is
the certificate id the receipt must name. Run `receipt_attaches` shows a certificate in
good order, registered and with its receipt attached, that is not REGISTERED: no
receipt can be inside the bytes it names. The unit test (`certificate_tests.rs` line 28)
calls the override directly with a pack that is not part of any hashed core. It fails
on the safe side: a certificate is under-credited.

`SPEC/reconcile-v1.md` lines 135-137 say "Any material disagreement → outcome
`CONTRADICTED`, regardless of finality. It is never softened to `CLAIM_ONLY`".
`check_matches` compares material fields only when the list of matches has one entry,
accepts several entries for one event, and `match_candidates` counts entries. Run
`softened` shows a clean certificate whose one linking event states another amount than
the claim, and whose match is listed twice: linkage AMBIGUOUS, outcome CLAIM_ONLY. For a
field that only `coverage_doc.material_fields` names, an entry for an event that does not
link does the same. It never becomes MATCHED (`MatchedIsSupported`), but the accusation
is lost. SPEC section 4 of the same document has events deduplicated by `event_key`
before matching; the list of matches is not.

Met while modelling; no run reports them because the code's choice is defensible or
the text is silent:

* `SPEC/log-v1.md` lines 140-142 (rule 6) say "A receipt at or after its signer's
  revocation leaf [...] NOT VERIFIED". `key_active` admits `observed_size <= *leaf`, so
  the bundle in which a key signs its own revocation verifies, which
  `apply_key_revoked` means to allow. `RevocationIsFinal` shows that this entry is the
  only thing a key can sign at that leaf, since a leaf holds one entry.
* A key entry recorded *after* a root's enrolment for that root's key invalidates the
  root retroactively: `witnessed_keys` reads the whole log, against the comment at
  `action.rs` line 960 and `SPEC/authority-v1.md` line 172. This is why `RootHistoryKept`
  speaks of receipts other than key entries.
* The lower bound of an intent's interval is an anchor's time, later than the
  checkpoint it times; when that anchor was slow the interval can start after the
  intent. `VerifiedWithinGrant` therefore holds its second half only when it does not.
* Versions of a grant are applied in order of version, not of effective time, and the
  second clause of CONFLICT in `SPEC/authority-v1.md` is not implemented.
* A repeated establishment row is refused by the lineage check, although repeats of
  the same receipt are called harmless where duplicates are detected.
* Deleting the manifest downgrades a bundle from complete to unclaimed: visible, but
  only to a reader who asks for a manifest (`GreenObeysPolicy` is the page's answer).
* In a certificate, the events and the values of the claim are carried, not bound by a
  signature.
* A floor field that neither claim nor event states is no obstacle to MATCHED
  (`declared_tally`; the CDDL makes `value` optional): a match can rest on one field.
* Errors of a certificate's view are added after the vector is derived, and
  `derive_vector_json` keeps the producer's `scitt_receipt_valid`.
* What `b28.rs` says of a succession depends on how the authority conducts it. The link
  must name the successor's revision 1, and a credential without a link is accepted
  (`successor_matches`, no digest and no envelope): a successor that is revised before its
  predecessor is superseded passes without the predecessor being looked at, and both pass
  under one head. No text asks for more, so no property does; `SuccessionIsFinal` says
  what a link does establish. And a link names the predecessor's revision: if that is
  revised between link and supersession, the superseded head no longer matches and the
  successor's first credential gets FAIL for good. The model counts such a presentation
  as not backed by its own checkpoint (`Backed`).

What the proofs found in the models themselves: an earlier Certificate let a producer that
exchanged the bundle keep the mark that it was under the log's own key. No run noticed,
since the change and what would profit from it are three changes and the bound is two;
`Grounded` was not inductive until it was put right.

## 7. Order of the work, and what is left

The verifier's core came first (KeyLog, KeyAuthority, Merkle, BundleChain), then what
is built on its result (EntrySet, AuthorityReplay, Certificate, Dispute), beside it the
two parts where several actors interleave (BrowserPage, Assurance), then the
refinement of BundleReport and the proofs, each after its run had passed.

Every safety invariant, every action property and the refinement of the passing runs is
proved. What could be added is more of the source and not more about these modules:
the dimensions of the verdict vector that gate nothing, `intent_result`, the stack
discipline of the bounded CBOR scanner. Two liveness properties remain with TLC.
