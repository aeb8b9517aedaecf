----------------------------- MODULE KeyAuthority -----------------------------
(***************************************************************************)
(* Who may sign what in a verified bundle: the replayed key log of KeyLog  *)
(* as the rest of `verify_bundle_facts` (verify-rs/src/lib.rs) uses it.    *)
(*                                                                         *)
(* The operator's log may go on after the key entries a bundle presents:   *)
(* `state` is the operator's log, `cut` what the verifier has replayed.    *)
(* The verifier compares `cut` with the bundle's JWKS, then judges every   *)
(* signature of every carried entry, key entries included, under the FINAL *)
(* replayed log, and last the signer of the target checkpoint.             *)
(***************************************************************************)
EXTENDS KeyLog

CONSTANTS
    TrustedRecorders,   \* trust["recorder_keys"]: keys the relying party named
    MaxReceipts,        \* bound: carried receipts that are not key entries
    MaxOmitted          \* bound: key entries of the operator's log left out

ASSUME AuthorityAssumption ==
    /\ TrustedRecorders \subseteq Kids
    /\ MaxReceipts \in Nat
    /\ MaxOmitted \in Nat

VARIABLES
    stage,       \* "log", "tail", "entries", "receipts", "verified" or "refused"
    cut,         \* kl.state the verifier replayed
    keyEntries,  \* carried key entries, each with its one signature
    omitted,     \* number of key entries the operator's log has after the cut
    jwks,        \* kids of bundle.jwks
    receipts,    \* carried receipts, each with its signers
    attested,    \* facts.recorder_attested: the receipts that earned it
    target       \* {} or the one target checkpoint

vars == <<state, phase, lastLeaf, vouchers,
          stage, cut, keyEntries, omitted, jwks, receipts, attested, target>>

Sizes == 0..(MaxLeaf + 1)

\* `subject` is the key the entry introduces or revokes.  `named` is whether the
\* entry's JWK spells out its own kid, which key_from_jwk does not require.
KeyEntry == [subject : Kids, signer : Kids, ts : Times, leaf : Leaves, named : BOOLEAN]
Receipt == [signers : SignerSets, ts : Times, leaf : Leaves]
Checkpoint == [kid : Kids, ts : Times, size : Sizes]

Unrevoked(st) == {k \in DOMAIN st : st[k].revoked_at = {}}

AuthorityInit ==
    /\ Init
    /\ stage = "log"
    /\ cut = state
    /\ keyEntries = {}
    /\ omitted = 0
    /\ jwks = {}
    /\ receipts = {}
    /\ attested = {}
    /\ target = {}

-------------------------------------------------------------------------------
(***************************************************************************)
(* One key entry of the operator's log.  forbidden_managed_edge_cosign     *)
(* refuses a bundle in which a key entry has more than one signature.      *)
(***************************************************************************)
LogKeyEntry(e) ==
    \E effective \in Times :
        \/ /\ e.leaf = 0
           /\ \E role \in RoleClaims : KeyGenesis(e.subject, effective, {e.signer}, role)
        \/ \E role \in RoleClaims :
              KeyCreated(e.subject, e.leaf, e.ts, effective, {e.signer}, role)
        \/ KeyRotated(e.subject, e.leaf, e.ts, effective, {e.signer}, e.signer, TRUE)
        \/ KeyRevoked(e.subject, e.leaf, e.ts, effective, {e.signer})

NextEntries == [subject : Kids, signer : Kids, ts : Times, leaf : lastLeaf..MaxLeaf]

\* The bundle carries the entry, and the verifier replays it.  A JWK without
\* its kid matters on the genesis entry only.
PresentKeyEntry ==
    /\ stage = "log"
    /\ \E e \in NextEntries, named \in BOOLEAN :
          /\ Known # {} => named
          /\ LogKeyEntry(e)
          /\ keyEntries' = keyEntries \cup
                {[subject |-> e.subject, signer |-> e.signer, ts |-> e.ts,
                  leaf |-> e.leaf, named |-> named]}
    /\ UNCHANGED <<stage, cut, omitted, jwks, receipts, attested, target>>

\* replay_key_log ends with ok = true.
ReplayDone ==
    /\ stage = "log"
    /\ Known # {}
    /\ stage' = "tail"
    /\ cut' = state
    /\ UNCHANGED <<keyVars, keyEntries, omitted, jwks, receipts, attested, target>>

\* replay_key_log ends with ok = false: some carried key entry was refused.
ReplayRefused ==
    /\ stage = "log"
    /\ RefuseEntry
    /\ stage' = "refused"
    /\ UNCHANGED <<cut, keyEntries, omitted, jwks, receipts, attested, target>>

\* The operator's log has one more key entry, and the bundle omits it.
OmitKeyEntry ==
    /\ stage = "tail"
    /\ omitted < MaxOmitted
    /\ \E e \in NextEntries : e.leaf > lastLeaf /\ LogKeyEntry(e)
    /\ omitted' = omitted + 1
    /\ UNCHANGED <<stage, cut, keyEntries, jwks, receipts, attested, target>>

\* Mutant: every listed key is witnessed by the log, and nothing more.
JwksWitnessed(listed) == listed # {} /\ listed \subseteq DOMAIN cut

\* check_jwks_match_log: non-empty, every listed key is in the log, and every
\* key the log leaves unrevoked is listed.
JwksMatchLog(listed) ==
    /\ listed # {}
    /\ listed \subseteq DOMAIN cut
    /\ Unrevoked(cut) \subseteq listed

CheckJwks ==
    /\ stage = "tail"
    /\ \E listed \in SUBSET Kids :
          \/ JwksMatchLog(listed) /\ jwks' = listed /\ stage' = "entries"
          \/ ~JwksMatchLog(listed) /\ stage' = "refused" /\ UNCHANGED jwks
    /\ UNCHANGED <<keyVars, cut, keyEntries, omitted, receipts, attested, target>>

\* Mutant: the replay is taken to have judged the key entries for good.
KeyEntrySigReplayed(e) == e.signer \in DOMAIN cut

\* check_entry_sigs on a key entry: the signer is active in the final log at
\* the entry's own time and leaf; genesis alone may sign before it exists.
KeyEntrySig(e) ==
    /\ e.signer \in DOMAIN cut
    /\ \/ e.leaf = 0 /\ e.named /\ e.signer = e.subject
       \/ ActiveIn(cut, e.signer, e.ts, e.leaf)

\* check_entries over the carried key entries.
CheckKeyEntries ==
    /\ stage = "entries"
    /\ stage' = IF \A e \in keyEntries : KeyEntrySig(e) THEN "receipts" ELSE "refused"
    /\ UNCHANGED <<keyVars, cut, keyEntries, omitted, jwks, receipts, attested, target>>

\* check_entry_sigs on a receipt: at least one signature, and EVERY one by a
\* key that is active at the receipt's time and leaf.
ReceiptSigs(r) ==
    /\ r.signers # {}
    /\ \A k \in r.signers : ActiveIn(cut, k, r.ts, r.leaf)

\* Mutant: the relying party's list stands in for the role in the log.
AttestedByListAlone(r) ==
    /\ Cardinality(r.signers) >= 2
    /\ \E k \in r.signers : ~cut[k].non_issuer
    /\ r.signers \cap TrustedRecorders # {}

\* entry_recorder_attested: a recorder key the relying party named signed, and
\* an issuer signed beside it.
RecorderAttested(r) ==
    /\ Cardinality(r.signers) >= 2
    /\ \E k \in r.signers : ~cut[k].non_issuer
    /\ \E k \in r.signers \cap TrustedRecorders : cut[k].role = "recorder"

\* check_entries over one more carried receipt.  A failure empties the facts.
CheckReceipt ==
    /\ stage = "receipts"
    /\ Cardinality(receipts) < MaxReceipts
    /\ \E r \in Receipt :
          \/ /\ ReceiptSigs(r)
             /\ receipts' = receipts \cup {r}
             /\ attested' = attested \cup {x \in {r} : RecorderAttested(x)}
             /\ UNCHANGED stage
          \/ /\ ~ReceiptSigs(r)
             /\ attested' = {}
             /\ stage' = "refused"
             /\ UNCHANGED receipts
    /\ UNCHANGED <<keyVars, cut, keyEntries, omitted, jwks, target>>

\* check_target_checkpoint (and each link of check_checkpoint_chain): signed by
\* an issuer that is active at the checkpoint's time and size.
CheckpointKey(cp) ==
    /\ IsIssuer(cut, cp.kid)
    /\ ActiveIn(cut, cp.kid, cp.ts, cp.size)

\* check_entry_inclusion: merkle::verify_inclusion refuses a leaf index at or
\* beyond the size of the tree the target checkpoint signs, and accepts one
\* payload per leaf (module Merkle).
Included(size) ==
    \A e \in keyEntries \cup receipts :
        /\ e.leaf < size
        /\ \A f \in keyEntries \cup receipts : e.leaf = f.leaf => e = f

CheckTarget ==
    /\ stage = "receipts"
    /\ \E cp \in Checkpoint :
          \/ /\ CheckpointKey(cp) /\ Included(cp.size)
             /\ target' = {cp}
             /\ stage' = "verified"
             /\ UNCHANGED attested
          \/ /\ ~(CheckpointKey(cp) /\ Included(cp.size))
             /\ stage' = "refused"
             /\ attested' = {}
             /\ UNCHANGED target
    /\ UNCHANGED <<keyVars, cut, keyEntries, omitted, jwks, receipts>>

AuthorityNext ==
    \/ PresentKeyEntry
    \/ ReplayDone
    \/ ReplayRefused
    \/ OmitKeyEntry
    \/ CheckJwks
    \/ CheckKeyEntries
    \/ CheckReceipt
    \/ CheckTarget

AuthoritySpec == AuthorityInit /\ [][AuthorityNext]_vars

-------------------------------------------------------------------------------
(***************************************************************************)
(* Properties                                                              *)
(***************************************************************************)
Verified == stage = "verified"

AuthorityTypeOK ==
    /\ TypeOK
    /\ stage \in {"log", "tail", "entries", "receipts", "verified", "refused"}
    /\ DOMAIN cut \subseteq Known
    /\ cut \in [DOMAIN cut -> KeyState]
    /\ keyEntries \subseteq KeyEntry
    /\ omitted \in 0..MaxOmitted
    /\ jwks \subseteq Kids
    /\ receipts \subseteq Receipt
    /\ attested \subseteq receipts
    /\ target \subseteq Checkpoint

\* Nothing in a verified bundle rests on a key at or after its revocation leaf or
\* after its effective time, even when the revocation was logged later and is
\* effective earlier: no key it introduced, no receipt it signed, not the checkpoint
\* that heads the bundle.  The one thing a key may sign at that leaf is its own
\* revocation: key_active compares with `<=`, and a leaf holds one entry.
RevocationIsFinal ==
    Verified =>
        \A k \in DOMAIN cut : \A r \in cut[k].revoked_at :
            /\ \A e \in keyEntries : e.signer = k =>
                  /\ e.leaf < r.leaf \/ (e.leaf = r.leaf /\ e.subject = k)
                  /\ e.ts <= r.ts \/ e.leaf = 0
            /\ \A x \in receipts : k \in x.signers => x.leaf < r.leaf /\ x.ts <= r.ts
            /\ \A cp \in target : cp.kid = k => cp.size <= r.leaf /\ cp.ts <= r.ts

\* Key-log truncation revives no key: when the bundle carries the JWKS the
\* operator published (the keys its whole log leaves unrevoked) and is verified,
\* no key has authority in the presented log that it lacks in the whole one.
TruncationRevivesNoKey ==
    Verified /\ jwks = Unrevoked(state) =>
        \A k \in Kids, t \in Times, size \in Sizes :
            ActiveIn(cut, k, t, size) => ActiveIn(state, k, t, size)

\* A recorder-attested receipt of a verified bundle is signed by a named
\* recorder whose role an issuer granted, and by an issuer beside it, both with
\* authority at the receipt's own time and leaf; a refused bundle attests none.
RecorderAttestationSound ==
    /\ stage = "refused" => attested = {}
    /\ \A x \in attested :
          \E rec \in x.signers, iss \in x.signers :
              /\ rec \in TrustedRecorders /\ cut[rec].role = "recorder"
              /\ \E p \in vouchers[rec] : IsIssuer(cut, p)
              /\ IsIssuer(cut, iss) /\ iss # rec
              /\ ActiveIn(cut, rec, x.ts, x.leaf)
              /\ ActiveIn(cut, iss, x.ts, x.leaf)
===============================================================================
