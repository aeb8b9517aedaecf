-------------------------------- MODULE KeyLog --------------------------------
(***************************************************************************)
(* Replay of the log-witnessed key lifecycle: `replay_key_log` of          *)
(* verify-rs/src/lib.rs and the functions it calls.                        *)
(*                                                                         *)
(* The verifier takes the `_system` / `evd.key.*` entries a bundle         *)
(* carries, sorts them by leaf index and applies them one by one.  Nothing *)
(* about the entries is trusted: the environment chooses each one, and one *)
(* action below is the application of one entry.  The replay never looks   *)
(* ahead, so choosing the next entry when it is reached is the same as     *)
(* choosing the whole list in advance.                                     *)
(*                                                                         *)
(* A kid is the hash of the key it names (`key_from_jwk`), so a kid and    *)
(* its key material are one value here.  `signers` is the set of keys      *)
(* whose signature on the entry's envelope verifies.                       *)
(***************************************************************************)
EXTENDS Integers, FiniteSets

CONSTANTS
    Kids,       \* key identifiers
    Times,      \* canonical UTC instants, as integers (epoch microseconds)
    MaxLeaf,    \* bound: largest leaf index of a key entry
    MaxSigs     \* bound: signatures on one envelope (9 in the code)

ASSUME TimesAssumption == Times \subseteq Int
ASSUME LeafAssumption == MaxLeaf \in Nat
ASSUME SigsAssumption == MaxSigs \in Nat \ {0}

VARIABLES
    state,      \* kl.state / kl.keys: known kid -> KeyState
    phase,      \* "replaying", then "refused" (kl.ok = false) or "replayed"
    lastLeaf,   \* leaf index of the last entry applied (the list is sorted)
    vouchers    \* history: known kid -> the active keys that introduced it

keyVars == <<state, phase, lastLeaf, vouchers>>

Leaves == 0..MaxLeaf
ClosedRoles == {"recorder", "scitt-issuer"}
NoRole == "none"
\* What the `role` member of an entry may hold: absent, a closed role, or junk.
RoleClaims == ClosedRoles \cup {NoRole, "unknown"}
SignerSets == {S \in SUBSET Kids : Cardinality(S) <= MaxSigs}

(***************************************************************************)
(* KeyState.  `revoked_at` is an option: empty, or the one revocation.     *)
(***************************************************************************)
Revocation == [leaf : Leaves, ts : Times]

KeyState == [leaf       : Leaves,
             effective  : Times,
             revoked_at : SUBSET Revocation,
             non_issuer : BOOLEAN,
             role       : ClosedRoles \cup {NoRole}]

Known == DOMAIN state

\* Insert or replace one entry of a map.
Put(f, k, v) == [x \in DOMAIN f \cup {k} |-> IF x = k THEN v ELSE f[x]]

-------------------------------------------------------------------------------
(***************************************************************************)
(* Authority of a key at signed time `at` in a log of `size` leaves        *)
(* (`key_active`): introduced strictly before, effective by then, and not  *)
(* revoked in log order nor in signed time.                                *)
(***************************************************************************)
\* Mutant: revocation compared in signed time only, as if log order were free.
ActiveInTimeOnly(st, kid, at, size) ==
    /\ kid \in DOMAIN st
    /\ st[kid].leaf < size
    /\ st[kid].effective <= at
    /\ \A r \in st[kid].revoked_at : at <= r.ts

ActiveIn(st, kid, at, size) ==
    /\ kid \in DOMAIN st
    /\ st[kid].leaf < size
    /\ st[kid].effective <= at
    /\ \A r \in st[kid].revoked_at : size <= r.leaf /\ at <= r.ts

KeyActive(kid, at, size) == ActiveIn(state, kid, at, size)

IsIssuer(st, kid) == kid \in DOMAIN st /\ ~st[kid].non_issuer

\* The keys of an envelope that `signed_by_active_key` finds, and the issuers
\* among them (`issuer_only`).
ActiveSigners(signers, ts, leaf) == {k \in signers : KeyActive(k, ts, leaf)}
ActiveIssuers(signers, ts, leaf) ==
    {k \in ActiveSigners(signers, ts, leaf) : ~state[k].non_issuer}

\* Mutant: any string is taken for a role.
RoleOkAnyString(role, first) == role # NoRole => ~first

\* key_role_ok for a created entry: a role is closed and never on genesis.  A
\* rotation or revocation that carries a role is refused (RefuseEntry).
RoleOk(role, first) == role # NoRole => ~first /\ role \in ClosedRoles

-------------------------------------------------------------------------------
Init ==
    /\ state = [k \in {} |-> k]
    /\ phase = "replaying"
    /\ lastLeaf = 0
    /\ vouchers = [k \in {} |-> {}]

\* The key entries are replayed in leaf order; the first one is leaf 0.
Reached(leaf) ==
    /\ phase = "replaying"
    /\ leaf >= lastLeaf
    /\ Known = {} => leaf = 0

Introduce(kid, leaf, effective, nonIssuer, role, by) ==
    /\ state' = Put(state, kid, [leaf       |-> leaf,
                                 effective  |-> effective,
                                 revoked_at |-> {},
                                 non_issuer |-> nonIssuer,
                                 role       |-> role])
    /\ vouchers' = Put(vouchers, kid, by)
    /\ lastLeaf' = leaf
    /\ UNCHANGED phase

(***************************************************************************)
(* apply_key_created at position 0: leaf 0, self-signed by the key it      *)
(* declares.  Genesis is an issuer and may carry no role.                  *)
(***************************************************************************)
KeyGenesis(kid, effective, signers, role) ==
    /\ Reached(0)
    /\ Known = {}
    /\ RoleOk(role, TRUE)
    /\ kid \in signers
    /\ Introduce(kid, 0, effective, FALSE, role, {kid})

\* Mutant: only a closed role makes a key a non-issuer.
NonIssuerByRoleOnly(role, issuerSponsored) == role # NoRole

\* KeyState.non_issuer of a created key.
NonIssuer(role, issuerSponsored) == role # NoRole \/ ~issuerSponsored

(***************************************************************************)
(* apply_key_created later in the list: the kid is new and some active key *)
(* signed.  Only an issuer's sponsorship makes an issuer or grants a role. *)
(***************************************************************************)
KeyCreated(kid, leaf, ts, effective, signers, role) ==
    LET sponsors == ActiveSigners(signers, ts, leaf)
        issuerSponsored == ActiveIssuers(signers, ts, leaf) # {}
    IN  /\ Reached(leaf)
        /\ Known # {}
        /\ RoleOk(role, FALSE)
        /\ kid \notin Known
        /\ sponsors # {}
        /\ role # NoRole => issuerSponsored
        /\ Introduce(kid, leaf, effective, NonIssuer(role, issuerSponsored),
                     role, sponsors)

(***************************************************************************)
(* apply_key_rotated: the old key is active, signed the entry and          *)
(* (continuity) the new JWK.  The new key inherits issuer standing and no  *)
(* role; the old key stays as it is.                                       *)
(***************************************************************************)
KeyRotated(kid, leaf, ts, effective, signers, prev, continuity) ==
    /\ Reached(leaf)
    /\ kid \notin Known
    /\ KeyActive(prev, ts, leaf)
    /\ prev \in signers
    /\ continuity
    /\ Introduce(kid, leaf, effective, state[prev].non_issuer, NoRole, {prev})

\* Mutant: a second revocation replaces the first.
RevocableAgain(kid) == kid \in Known

\* A known kid that no entry has revoked yet.
Revocable(kid) == kid \in Known /\ state[kid].revoked_at = {}

(***************************************************************************)
(* apply_key_revoked: signed by any active key, the revoked one included.  *)
(***************************************************************************)
KeyRevoked(kid, leaf, ts, effective, signers) ==
    /\ Reached(leaf)
    /\ Revocable(kid)
    /\ ActiveSigners(signers, ts, leaf) # {}
    /\ state' = [state EXCEPT ![kid].revoked_at = {[leaf |-> leaf, ts |-> effective]}]
    /\ lastLeaf' = leaf
    /\ UNCHANGED <<phase, vouchers>>

(***************************************************************************)
(* Every early return of replay_key_log.  An entry that does not parse     *)
(* (role, timestamps, JWK, unknown action) can be presented in any state,  *)
(* so a refusal is always possible; kl keeps what was applied before it.   *)
(***************************************************************************)
RefuseEntry ==
    /\ phase = "replaying"
    /\ phase' = "refused"
    /\ UNCHANGED <<state, lastLeaf, vouchers>>

\* The list is exhausted.  An empty list was refused before the loop.
FinishReplay ==
    /\ phase = "replaying"
    /\ Known # {}
    /\ phase' = "replayed"
    /\ UNCHANGED <<state, lastLeaf, vouchers>>

ApplyEntry ==
    /\ phase = "replaying"
    /\ \E kid \in Kids, effective \in Times, signers \in SignerSets :
        \/ \E role \in RoleClaims : KeyGenesis(kid, effective, signers, role)
        \/ \E leaf \in lastLeaf..MaxLeaf, ts \in Times :
              \/ \E role \in RoleClaims :
                    KeyCreated(kid, leaf, ts, effective, signers, role)
              \/ \E prev \in Known, continuity \in BOOLEAN :
                    KeyRotated(kid, leaf, ts, effective, signers, prev, continuity)
              \/ KeyRevoked(kid, leaf, ts, effective, signers)

Next == ApplyEntry \/ RefuseEntry \/ FinishReplay

Spec == Init /\ [][Next]_keyVars

-------------------------------------------------------------------------------
(***************************************************************************)
(* Properties                                                              *)
(***************************************************************************)

\* The replay keeps a well-formed key map: one history entry per key, and only
\* closed roles, whatever the `role` member of an entry holds.
TypeOK ==
    /\ Known \subseteq Kids
    /\ state \in [Known -> KeyState]
    /\ DOMAIN vouchers = Known
    /\ vouchers \in [Known -> SUBSET Kids]
    /\ phase \in {"replaying", "refused", "replayed"}
    /\ lastLeaf \in Leaves

\* Genesis is the key of leaf 0.
IsGenesis(k) == state[k].leaf = 0

\* k was introduced with the signature of an issuer introduced before it.
IssuerVouched(k) ==
    \E p \in vouchers[k] : IsIssuer(state, p) /\ state[p].leaf < state[k].leaf

\* Issuer standing and closed roles flow from genesis along issuers only: a
\* recorder, a SCITT issuer or anything they sponsor or rotate to never
\* becomes, creates or delegates to a key with authority (apply_key_created's
\* two sponsorship arms and apply_key_rotated's inheritance).
AuthorityProvenance ==
    /\ \A j, k \in Known : IsGenesis(j) /\ IsGenesis(k) => j = k
    /\ \A k \in Known :
          IsIssuer(state, k) \/ state[k].role # NoRole
             => IsGenesis(k) \/ IssuerVouched(k)

\* A revoked key vouched for nothing at a later leaf than its revocation: the
\* log order of key_active, sorted replay and single revocation together.
RevokedNeverVouches ==
    \A k \in Known : \A p \in vouchers[k] :
        /\ p \in Known
        /\ ~IsGenesis(k) => state[p].leaf < state[k].leaf
        /\ \A r \in state[p].revoked_at : state[k].leaf <= r.leaf

\* Applying an entry never gives a known key authority it lacked, and gives no
\* key at all authority over an already replayed part of the log: a key that
\* is out at some (time, size) stays out, however the log continues.
NoResurrection ==
    [][\A k \in Kids, t \in Times, size \in 0..(MaxLeaf + 1) :
          (k \in Known \/ size <= lastLeaf) /\ ~KeyActive(k, t, size)
             => ~KeyActive(k, t, size)']_keyVars

===============================================================================
