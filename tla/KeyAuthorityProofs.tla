-------------------------- MODULE KeyAuthorityProofs --------------------------
(***************************************************************************)
(* Proofs about KeyLog and KeyAuthority, for every set of keys and         *)
(* instants, every length of the log, every number of receipts and of      *)
(* omitted entries.  KeyLog comes first.  What is shown of its replay is   *)
(* used, not repeated, for KeyAuthority: a key entry of the operator's log *)
(* is a step of KeyLog.                                                    *)
(***************************************************************************)
EXTENDS KeyAuthority, FiniteSetTheorems, TLAPS

-------------------------------------------------------------------------------
(***************************************************************************)
(* KeyLog.  None of the three safety invariants is inductive alone: that a *)
(* revoked key vouched for nothing later needs the leaves of all           *)
(* introductions to be behind the replay position, and that authority      *)
(* comes from genesis needs the vouchers to be known keys.  KeyInv         *)
(* conjoins them.                                                          *)
(***************************************************************************)
\* No key was introduced beyond the entry the replay has reached.
IntroducedSoFar == \A k \in Known : state[k].leaf <= lastLeaf

\* The inductive invariant.
KeyInv ==
    /\ TypeOK
    /\ IntroducedSoFar
    /\ RevokedNeverVouches
    /\ AuthorityProvenance

\* The replay starts in the invariant: no key is known.
LEMMA KeyInvInit == Init => KeyInv
  <1> SUFFICES ASSUME Init PROVE KeyInv
    OBVIOUS
  <1>1. Known = {} /\ DOMAIN vouchers = {}
    BY DEF Init, Known
  <1>2. TypeOK
    BY <1>1, LeafAssumption DEF Init, TypeOK, Leaves, Known
  <1> QED
    BY <1>1, <1>2 DEF KeyInv, IntroducedSoFar, RevokedNeverVouches, AuthorityProvenance

\* What key_active says of an active key: it is known, was introduced at an
\* earlier leaf, and its revocation, if any, is not behind that leaf.
LEMMA ActiveSponsor ==
    ASSUME NEW k, NEW at, NEW size, KeyActive(k, at, size)
    PROVE  /\ k \in Known
           /\ state[k].leaf < size
           /\ \A r \in state[k].revoked_at : size <= r.leaf
  BY DEF KeyActive, ActiveIn, Known

-------------------------------------------------------------------------------
\* Introducing a fresh key keeps the invariant when it is genesis, or when the
\* keys that vouch for it are earlier, not revoked before it, and include an
\* issuer if the new key gets authority (apply_key_created, apply_key_rotated).
LEMMA IntroduceKeepsInv ==
    ASSUME KeyInv,
           NEW kid \in Kids, kid \notin Known,
           NEW leaf \in lastLeaf..MaxLeaf, NEW effective \in Times,
           NEW nonIssuer \in BOOLEAN, NEW role \in ClosedRoles \cup {NoRole},
           NEW by \in SUBSET Kids,
           Introduce(kid, leaf, effective, nonIssuer, role, by),
           \/ Known = {} /\ leaf = 0 /\ by = {kid}
           \/ /\ by # {}
              /\ \A p \in by : /\ p \in Known
                               /\ state[p].leaf < leaf
                               /\ \A r \in state[p].revoked_at : leaf <= r.leaf
              /\ ~nonIssuer \/ role # NoRole => \E p \in by : IsIssuer(state, p)
    PROVE  KeyInv'
  <1> DEFINE ks == [leaf |-> leaf, effective |-> effective, revoked_at |-> {},
                    non_issuer |-> nonIssuer, role |-> role]
  <1>1. leaf \in Leaves /\ lastLeaf <= leaf /\ lastLeaf \in Leaves /\ leaf \in Nat
    BY LeafAssumption DEF KeyInv, TypeOK, Leaves
  <1>2. ks \in KeyState
    BY <1>1 DEF KeyState
  <1>3. state' = Put(state, kid, ks) /\ vouchers' = Put(vouchers, kid, by)
        /\ lastLeaf' = leaf /\ phase' = phase
    BY DEF Introduce
  <1> HIDE DEF ks
  <1>4. /\ Known' = Known \cup {kid}
        /\ state'[kid] = ks
        /\ \A x \in Known : state'[x] = state[x]
    BY <1>3 DEF Known, Put
  <1>5. /\ DOMAIN vouchers' = Known \cup {kid}
        /\ vouchers'[kid] = by
        /\ \A x \in Known : vouchers'[x] = vouchers[x]
    <2>1. DOMAIN vouchers = Known
      BY DEF KeyInv, TypeOK
    <2> QED
      BY <1>3, <2>1 DEF Put
  <1>6. ks.leaf = leaf /\ ks.revoked_at = {} /\ ks.role = role
    BY DEF ks
  <1>6a. ks.non_issuer = nonIssuer
    BY DEF ks
  <1>7. TypeOK'
    <2>1. Known' \subseteq Kids
      BY <1>4 DEF KeyInv, TypeOK
    <2>2. \A x \in Known' : state'[x] \in KeyState
      BY <1>4, <1>2 DEF KeyInv, TypeOK
    <2>3. state' \in [Known' -> KeyState]
      BY <1>3, <1>4, <2>2 DEF Put, Known
    <2>4. \A x \in Known' : vouchers'[x] \in SUBSET Kids
      BY <1>4, <1>5 DEF KeyInv, TypeOK
    <2>5. vouchers' \in [Known' -> SUBSET Kids] /\ DOMAIN vouchers' = Known'
      BY <1>3, <1>4, <1>5, <2>4 DEF Put
    <2>6. phase' \in {"replaying", "refused", "replayed"} /\ lastLeaf' \in Leaves
      BY <1>1, <1>3 DEF KeyInv, TypeOK
    <2> QED
      BY <2>1, <2>3, <2>5, <2>6 DEF TypeOK
  <1>8. \A x \in Known : state[x].leaf \in Nat /\ state[x].leaf <= lastLeaf
    BY LeafAssumption DEF KeyInv, TypeOK, IntroducedSoFar, KeyState, Leaves
  <1>9. IntroducedSoFar'
    BY <1>1, <1>3, <1>4, <1>6, <1>8 DEF IntroducedSoFar, Leaves
  <1>10. \A x \in Known : \A p \in vouchers[x] : p \in Known /\ p # kid
    BY DEF KeyInv, RevokedNeverVouches
  <1>11. RevokedNeverVouches'
    <2> SUFFICES ASSUME NEW k \in Known', NEW p \in vouchers'[k]
                 PROVE  /\ p \in Known'
                        /\ ~(state'[k].leaf = 0) => state'[p].leaf < state'[k].leaf
                        /\ \A r \in state'[p].revoked_at : state'[k].leaf <= r.leaf
      BY DEF RevokedNeverVouches, IsGenesis
    <2>1. CASE k \in Known
      <3>1. p \in vouchers[k] /\ p \in Known
        BY <2>1, <1>5, <1>10
      <3>2. state'[k] = state[k] /\ state'[p] = state[p]
        BY <2>1, <3>1, <1>4
      <3> QED
        BY <2>1, <3>1, <3>2, <1>4 DEF KeyInv, RevokedNeverVouches, IsGenesis
    <2>2. CASE k = kid
      BY <2>2, <1>4, <1>5, <1>6
    <2> QED
      BY <2>1, <2>2, <1>4
  <1>12. (\A j, k \in Known : IsGenesis(j) /\ IsGenesis(k) => j = k)'
    <2>1. Known # {} => leaf # 0
      BY <1>1, <1>8
    <2> QED
      BY <2>1, <1>4, <1>6 DEF KeyInv, AuthorityProvenance, IsGenesis
  <1>13. \A k \in Known' :
            ~state'[k].non_issuer \/ state'[k].role # NoRole
              => state'[k].leaf = 0 \/ \E p \in vouchers'[k] :
                    p \in Known' /\ ~state'[p].non_issuer /\ state'[p].leaf < state'[k].leaf
    <2> SUFFICES ASSUME NEW k \in Known',
                        ~state'[k].non_issuer \/ state'[k].role # NoRole,
                        state'[k].leaf # 0
                 PROVE  \E p \in vouchers'[k] :
                    p \in Known' /\ ~state'[p].non_issuer /\ state'[p].leaf < state'[k].leaf
      OBVIOUS
    <2>1. CASE k \in Known
      <3>1. IssuerVouched(k)
        BY <2>1, <1>4 DEF KeyInv, AuthorityProvenance, IsIssuer, IsGenesis, Known
      <3>2. PICK p \in vouchers[k] : IsIssuer(state, p) /\ state[p].leaf < state[k].leaf
        BY <3>1 DEF IssuerVouched
      <3>3. p \in Known /\ state'[p] = state[p] /\ state'[k] = state[k]
        BY <2>1, <1>4, <1>10
      <3> QED
        BY <2>1, <3>2, <3>3, <1>4, <1>5 DEF IsIssuer
    <2>2. CASE k = kid
      <3>1. ~nonIssuer \/ role # NoRole
        BY <2>2, <1>4, <1>6, <1>6a
      <3>2. PICK p \in by : IsIssuer(state, p) /\ state[p].leaf < leaf /\ p \in Known
        BY <2>2, <3>1, <1>4, <1>6
      <3> QED
        BY <2>2, <3>2, <1>4, <1>5, <1>6 DEF IsIssuer
    <2> QED
      BY <2>1, <2>2, <1>4
  <1>14. AuthorityProvenance'
    BY <1>12, <1>13 DEF AuthorityProvenance, IssuerVouched, IsIssuer, IsGenesis, Known
  <1> QED
    BY <1>7, <1>9, <1>11, <1>14 DEF KeyInv

\* apply_key_created at position 0 keeps the invariant.
LEMMA GenesisKeepsInv ==
    ASSUME KeyInv, NEW kid \in Kids, NEW effective \in Times,
           NEW signers \in SignerSets, NEW role \in RoleClaims,
           KeyGenesis(kid, effective, signers, role)
    PROVE  KeyInv'
  <1>1. role = NoRole /\ Known = {} /\ lastLeaf <= 0
    BY DEF KeyGenesis, RoleOk, Reached
  <1>2. 0 \in lastLeaf..MaxLeaf /\ {kid} \in SUBSET Kids /\ kid \notin Known
    BY <1>1, LeafAssumption DEF KeyInv, TypeOK, Leaves
  <1>3. Introduce(kid, 0, effective, FALSE, role, {kid})
    BY DEF KeyGenesis
  <1> QED
    BY <1>1, <1>2, <1>3, IntroduceKeepsInv

\* apply_key_created after genesis keeps the invariant: the sponsors are active
\* at the entry's leaf, and authority is granted only when an issuer is one.
LEMMA CreatedKeepsInv ==
    ASSUME KeyInv, NEW kid \in Kids, NEW leaf \in lastLeaf..MaxLeaf, NEW ts \in Times,
           NEW effective \in Times, NEW signers \in SignerSets, NEW role \in RoleClaims,
           KeyCreated(kid, leaf, ts, effective, signers, role)
    PROVE  KeyInv'
  <1> DEFINE sponsors == ActiveSigners(signers, ts, leaf)
             issuers == ActiveIssuers(signers, ts, leaf)
             nonIssuer == NonIssuer(role, issuers # {})
  <1>1. /\ RoleOk(role, FALSE)
        /\ kid \notin Known
        /\ sponsors # {}
        /\ role # NoRole => issuers # {}
        /\ Introduce(kid, leaf, effective, nonIssuer, role, sponsors)
    BY DEF KeyCreated
  <1>2. role \in ClosedRoles \cup {NoRole} /\ nonIssuer \in BOOLEAN
    BY <1>1 DEF RoleOk, NonIssuer
  <1>3. sponsors \in SUBSET Kids
    BY DEF ActiveSigners, SignerSets
  <1>4. \A p \in sponsors : /\ p \in Known
                            /\ state[p].leaf < leaf
                            /\ \A r \in state[p].revoked_at : leaf <= r.leaf
    BY ActiveSponsor DEF ActiveSigners
  <1>5. ~nonIssuer \/ role # NoRole => \E p \in sponsors : IsIssuer(state, p)
    <2> SUFFICES ASSUME ~nonIssuer \/ role # NoRole
                 PROVE  \E p \in sponsors : IsIssuer(state, p)
      OBVIOUS
    <2>1. issuers # {}
      BY <1>1 DEF NonIssuer
    <2>2. PICK p \in issuers : TRUE
      BY <2>1
    <2>3. p \in sponsors /\ ~state[p].non_issuer
      BY <2>2 DEF ActiveIssuers
    <2> QED
      BY <2>3, <1>4 DEF IsIssuer, Known
  <1> HIDE DEF sponsors, issuers, nonIssuer
  <1> QED
    BY <1>1, <1>2, <1>3, <1>4, <1>5, IntroduceKeepsInv

\* apply_key_rotated keeps the invariant: the new key is vouched for by the old
\* one, which is active, and inherits its issuer standing.
LEMMA RotatedKeepsInv ==
    ASSUME KeyInv, NEW kid \in Kids, NEW leaf \in lastLeaf..MaxLeaf, NEW ts \in Times,
           NEW effective \in Times, NEW signers \in SignerSets, NEW prev \in Known,
           NEW continuity \in BOOLEAN,
           KeyRotated(kid, leaf, ts, effective, signers, prev, continuity)
    PROVE  KeyInv'
  <1>1. /\ kid \notin Known
        /\ KeyActive(prev, ts, leaf)
        /\ Introduce(kid, leaf, effective, state[prev].non_issuer, NoRole, {prev})
    BY DEF KeyRotated
  <1>2. {prev} \in SUBSET Kids /\ state[prev].non_issuer \in BOOLEAN
    BY DEF KeyInv, TypeOK, KeyState
  <1>3. /\ state[prev].leaf < leaf
        /\ \A r \in state[prev].revoked_at : leaf <= r.leaf
    BY <1>1, ActiveSponsor
  <1>4. ~state[prev].non_issuer => IsIssuer(state, prev)
    BY DEF IsIssuer, Known
  <1>5. NoRole \in ClosedRoles \cup {NoRole}
    OBVIOUS
  <1> QED
    BY <1>1, <1>2, <1>3, <1>4, <1>5, IntroduceKeepsInv

\* apply_key_revoked keeps the invariant: every key the revoked one vouched for
\* was introduced at or before the revocation leaf.
LEMMA RevokedKeepsInv ==
    ASSUME KeyInv, NEW kid \in Kids, NEW leaf \in lastLeaf..MaxLeaf, NEW ts \in Times,
           NEW effective \in Times, NEW signers \in SignerSets,
           KeyRevoked(kid, leaf, ts, effective, signers)
    PROVE  KeyInv'
  <1> DEFINE rev == [leaf |-> leaf, ts |-> effective]
  <1>1. /\ kid \in Known
        /\ state' = [state EXCEPT ![kid].revoked_at = {rev}]
        /\ lastLeaf' = leaf /\ phase' = phase /\ vouchers' = vouchers
    BY DEF KeyRevoked, Revocable
  <1>2. leaf \in Leaves /\ lastLeaf <= leaf /\ leaf \in Nat
    BY LeafAssumption DEF KeyInv, TypeOK, Leaves
  <1>3. rev \in Revocation /\ rev.leaf = leaf
    BY <1>2 DEF Revocation
  <1> HIDE DEF rev
  <1>4. /\ Known' = Known
        /\ \A x \in Known : x # kid => state'[x] = state[x]
        /\ state'[kid] = [state[kid] EXCEPT !.revoked_at = {rev}]
    BY <1>1 DEF Known
  <1>5. \A x \in Known : /\ state[x] \in KeyState
                         /\ state[x].leaf \in Nat /\ state[x].leaf <= lastLeaf
    BY LeafAssumption DEF KeyInv, TypeOK, IntroducedSoFar, KeyState, Leaves
  <1>6. state'[kid] \in KeyState
    BY <1>1, <1>3, <1>4, <1>5 DEF KeyState
  <1>7. \A x \in Known : /\ state'[x].leaf = state[x].leaf
                         /\ state'[x].role = state[x].role
                         /\ state'[x].non_issuer = state[x].non_issuer
    BY <1>1, <1>4, <1>5 DEF KeyState
  <1>8. TypeOK'
    <2>1. \A x \in Known : state'[x] \in KeyState
      BY <1>4, <1>5, <1>6
    <2>2. state' \in [Known -> KeyState]
      BY <1>1, <2>1 DEF Known
    <2> QED
      BY <1>1, <1>2, <1>4, <2>2 DEF KeyInv, TypeOK
  <1>9. IntroducedSoFar'
    BY <1>1, <1>2, <1>4, <1>5, <1>7 DEF IntroducedSoFar, KeyInv, TypeOK, Leaves
  <1>10. RevokedNeverVouches'
    <2> SUFFICES ASSUME NEW k \in Known', NEW p \in vouchers'[k]
                 PROVE  /\ p \in Known'
                        /\ ~(state'[k].leaf = 0) => state'[p].leaf < state'[k].leaf
                        /\ \A r \in state'[p].revoked_at : state'[k].leaf <= r.leaf
      BY DEF RevokedNeverVouches, IsGenesis
    <2>1. p \in Known /\ (~(state'[k].leaf = 0) => state'[p].leaf < state'[k].leaf)
      BY <1>1, <1>4, <1>7 DEF KeyInv, RevokedNeverVouches, IsGenesis
    <2>2. CASE p = kid
      <3>1. state'[p].revoked_at = {rev}
        BY <2>2, <1>1, <1>4, <1>5 DEF KeyState
      <3>2. state'[k].leaf <= leaf
        BY <1>2, <1>4, <1>5, <1>7 DEF KeyInv, TypeOK, Leaves
      <3> QED
        BY <2>1, <3>1, <3>2, <1>3, <1>4
    <2>3. CASE p # kid
      BY <2>1, <2>3, <1>1, <1>4, <1>7 DEF KeyInv, RevokedNeverVouches
    <2> QED
      BY <2>2, <2>3
  <1>11. AuthorityProvenance'
    <2>1. \A k \in Known : \A p \in vouchers[k] : p \in Known
      BY DEF KeyInv, RevokedNeverVouches
    <2> QED
      BY <2>1, <1>1, <1>4, <1>7 DEF KeyInv, AuthorityProvenance, IssuerVouched, IsIssuer, IsGenesis, Known
  <1> QED
    BY <1>8, <1>9, <1>10, <1>11 DEF KeyInv

\* Every step of the replay keeps the invariant.
LEMMA KeyInvStep == KeyInv /\ [Next]_keyVars => KeyInv'
  <1> SUFFICES ASSUME KeyInv, [Next]_keyVars PROVE KeyInv'
    OBVIOUS
  <1>1. CASE ApplyEntry
    <2>1. PICK kid \in Kids, effective \in Times, signers \in SignerSets :
            \/ \E role \in RoleClaims : KeyGenesis(kid, effective, signers, role)
            \/ \E leaf \in lastLeaf..MaxLeaf, ts \in Times :
                  \/ \E role \in RoleClaims :
                        KeyCreated(kid, leaf, ts, effective, signers, role)
                  \/ \E prev \in Known, continuity \in BOOLEAN :
                        KeyRotated(kid, leaf, ts, effective, signers, prev, continuity)
                  \/ KeyRevoked(kid, leaf, ts, effective, signers)
      BY <1>1 DEF ApplyEntry
    <2>2. CASE \E role \in RoleClaims : KeyGenesis(kid, effective, signers, role)
      BY <2>2, GenesisKeepsInv
    <2>3. ASSUME NEW leaf \in lastLeaf..MaxLeaf, NEW ts \in Times, NEW role \in RoleClaims,
                 KeyCreated(kid, leaf, ts, effective, signers, role)
          PROVE  KeyInv'
      BY <2>3, CreatedKeepsInv
    <2>4. ASSUME NEW leaf \in lastLeaf..MaxLeaf, NEW ts \in Times,
                 NEW prev \in Known, NEW continuity \in BOOLEAN,
                 KeyRotated(kid, leaf, ts, effective, signers, prev, continuity)
          PROVE  KeyInv'
      BY <2>4, RotatedKeepsInv
    <2>5. ASSUME NEW leaf \in lastLeaf..MaxLeaf, NEW ts \in Times,
                 KeyRevoked(kid, leaf, ts, effective, signers)
          PROVE  KeyInv'
      BY <2>5, RevokedKeepsInv
    <2> QED
      BY <2>1, <2>2, <2>3, <2>4, <2>5
  <1>2. CASE RefuseEntry \/ FinishReplay \/ UNCHANGED keyVars
    <2>1. /\ state' = state /\ lastLeaf' = lastLeaf /\ vouchers' = vouchers
          /\ phase' \in {phase, "refused", "replayed"}
      BY <1>2 DEF RefuseEntry, FinishReplay, keyVars
    <2> QED
      BY <2>1 DEF KeyInv, TypeOK, IntroducedSoFar, RevokedNeverVouches, AuthorityProvenance,
                  IssuerVouched, IsIssuer, IsGenesis, Known
  <1> QED
    BY <1>1, <1>2 DEF Next

\* The invariant holds throughout every replay of every presented key log.
THEOREM KeyInvariance == Spec => []KeyInv
  BY KeyInvInit, KeyInvStep, PTL DEF Spec

\* The replay keeps a well-formed key map whatever it is fed.
THEOREM TypeCorrectness == Spec => []TypeOK
  BY KeyInvariance, PTL DEF KeyInv

\* Issuer standing and closed roles come from genesis along issuers only.
THEOREM AuthorityFromGenesis == Spec => []AuthorityProvenance
  BY KeyInvariance, PTL DEF KeyInv

\* No key is introduced on the word of a key revoked at an earlier leaf.
THEOREM RevokedKeysVouchForNothing == Spec => []RevokedNeverVouches
  BY KeyInvariance, PTL DEF KeyInv

-------------------------------------------------------------------------------
\* Whatever entry is applied: a key already known keeps its introduction, and
\* its revocation once it has one; a new key is introduced at or after the
\* position the replay had reached.
LEMMA StepKeepsKnownKeys ==
    ASSUME KeyInv, [Next]_keyVars
    PROVE  /\ \A k \in Known : /\ k \in Known'
                               /\ state'[k].leaf = state[k].leaf
                               /\ state'[k].effective = state[k].effective
                               /\ \/ state'[k].revoked_at = state[k].revoked_at
                                  \/ state[k].revoked_at = {}
           /\ \A k \in Known' \ Known : state'[k].leaf >= lastLeaf
  <1>1. ASSUME NEW kid \in Kids, kid \notin Known, NEW leaf \in lastLeaf..MaxLeaf,
               NEW effective, NEW nonIssuer, NEW role, NEW by,
               Introduce(kid, leaf, effective, nonIssuer, role, by)
        PROVE  /\ Known' = Known \cup {kid}
               /\ state'[kid].leaf >= lastLeaf
               /\ \A k \in Known : state'[k] = state[k]
    <2>1. leaf >= lastLeaf
      BY LeafAssumption DEF KeyInv, TypeOK, Leaves
    <2> QED
      BY <1>1, <2>1 DEF Introduce, Put, Known
  <1>2. ASSUME NEW kid \in Kids, NEW leaf \in lastLeaf..MaxLeaf, NEW ts, NEW effective,
               NEW signers, KeyRevoked(kid, leaf, ts, effective, signers)
        PROVE  /\ Known' = Known
               /\ \A k \in Known : /\ state'[k].leaf = state[k].leaf
                                   /\ state'[k].effective = state[k].effective
                                   /\ \/ state'[k].revoked_at = state[k].revoked_at
                                      \/ state[k].revoked_at = {}
    BY <1>2 DEF KeyRevoked, Revocable, Known, KeyInv, TypeOK, KeyState
  <1>3. CASE ApplyEntry
    <2>1. PICK kid \in Kids, effective \in Times, signers \in SignerSets :
            \/ \E role \in RoleClaims : KeyGenesis(kid, effective, signers, role)
            \/ \E leaf \in lastLeaf..MaxLeaf, ts \in Times :
                  \/ \E role \in RoleClaims :
                        KeyCreated(kid, leaf, ts, effective, signers, role)
                  \/ \E prev \in Known, continuity \in BOOLEAN :
                        KeyRotated(kid, leaf, ts, effective, signers, prev, continuity)
                  \/ KeyRevoked(kid, leaf, ts, effective, signers)
      BY <1>3 DEF ApplyEntry
    <2>2. ASSUME NEW role \in RoleClaims, KeyGenesis(kid, effective, signers, role)
          PROVE  0 \in lastLeaf..MaxLeaf /\ kid \notin Known
                 /\ Introduce(kid, 0, effective, FALSE, role, {kid})
      <3>1. Known = {} /\ lastLeaf <= 0 /\ Introduce(kid, 0, effective, FALSE, role, {kid})
        BY <2>2 DEF KeyGenesis, Reached
      <3>2. 0 \in lastLeaf..MaxLeaf
        BY <3>1, LeafAssumption DEF KeyInv, TypeOK, Leaves
      <3> QED
        BY <3>1, <3>2
    <2>3. CASE \E role \in RoleClaims : KeyGenesis(kid, effective, signers, role)
      BY <2>2, <2>3, <1>1
    <2>4. CASE \E leaf \in lastLeaf..MaxLeaf, ts \in Times, role \in RoleClaims :
                  KeyCreated(kid, leaf, ts, effective, signers, role)
      BY <2>4, <1>1 DEF KeyCreated
    <2>5. CASE \E leaf \in lastLeaf..MaxLeaf, ts \in Times,
                  prev \in Known, continuity \in BOOLEAN :
                  KeyRotated(kid, leaf, ts, effective, signers, prev, continuity)
      BY <2>5, <1>1 DEF KeyRotated
    <2>6. CASE \E leaf \in lastLeaf..MaxLeaf, ts \in Times :
                  KeyRevoked(kid, leaf, ts, effective, signers)
      BY <2>6, <1>2
    <2> QED
      BY <2>1, <2>3, <2>4, <2>5, <2>6
  <1>4. CASE RefuseEntry \/ FinishReplay \/ UNCHANGED keyVars
    BY <1>4 DEF RefuseEntry, FinishReplay, keyVars, Known
  <1> QED
    BY <1>3, <1>4 DEF Next

\* A key without authority at some time and log size never gains it there, and
\* no later entry gives any key authority over the log already replayed.
THEOREM NoKeyIsRevived == Spec => NoResurrection
  <1> DEFINE Kept ==
        \A k \in Kids, t \in Times, size \in 0..(MaxLeaf + 1) :
            (k \in Known \/ size <= lastLeaf) /\ ~KeyActive(k, t, size)
                => ~KeyActive(k, t, size)'
  <1>1. KeyInv /\ [Next]_keyVars => Kept
    <2> SUFFICES ASSUME KeyInv, [Next]_keyVars,
                        NEW k \in Kids, NEW t \in Times, NEW size \in 0..(MaxLeaf + 1),
                        k \in Known \/ size <= lastLeaf,
                        ActiveIn(state', k, t, size)
                 PROVE  ActiveIn(state, k, t, size)
      BY DEF KeyActive
    <2>1. k \in Known' /\ state'[k].leaf < size
      BY DEF ActiveIn, Known
    <2>2. KeyInv'
      BY KeyInvStep
    <2>3. state'[k].leaf \in Nat /\ lastLeaf \in Nat /\ size \in Nat
      BY <2>1, <2>2, LeafAssumption DEF KeyInv, TypeOK, KeyState, Leaves
    <2>4. k \in Known
      BY <2>1, <2>3, StepKeepsKnownKeys
    <2> QED
      BY <2>4, StepKeepsKnownKeys DEF ActiveIn, Known
  <1>2. KeyInv /\ [Next]_keyVars => [Kept]_keyVars
    BY <1>1
  <1> QED
    BY <1>2, KeyInvariance, PTL DEF Spec, NoResurrection


-------------------------------------------------------------------------------
(***************************************************************************)
(* KeyAuthority: the inductive invariant.                                  *)
(***************************************************************************)
\* A key with a closed role is no issuer, and genesis has none.
RolesStandBelow ==
    \A k \in Known : state[k].role # NoRole => state[k].non_issuer /\ ~IsGenesis(k)

\* What the verifier replayed is what the operator's log said at that point: since
\* then the log has added keys, and revoked keys that were not revoked.
CutIsPrefix ==
    \A k \in DOMAIN cut :
        /\ k \in Known
        /\ cut[k].leaf = state[k].leaf /\ cut[k].effective = state[k].effective
        /\ cut[k].revoked_at = {} \/ cut[k].revoked_at = state[k].revoked_at

\* The same two facts about standing, of the log as it was replayed.
CutStanding ==
    \A k \in DOMAIN cut : cut[k].role # NoRole =>
        cut[k].non_issuer /\ \E p \in vouchers[k] : IsIssuer(cut, p)

\* What has been judged by the time a stage is reached, all of it by the one final
\* replayed log.
Judged ==
    /\ stage \in {"log", "tail", "entries"} => receipts = {} /\ attested = {}
    /\ stage # "verified" => target = {}
    /\ stage \in {"entries", "receipts", "verified"} => Unrevoked(cut) \subseteq jwks
    /\ stage \in {"receipts", "verified"} => \A e \in keyEntries : KeyEntrySig(e)
    /\ \A x \in receipts : ReceiptSigs(x)
    /\ \A x \in attested : RecorderAttested(x)
    /\ \A cp \in target : CheckpointKey(cp)
    /\ stage = "refused" => attested = {}

AuthorityInv ==
    /\ KeyInv /\ RolesStandBelow
    /\ AuthorityTypeOK /\ CutIsPrefix /\ CutStanding /\ Judged

-------------------------------------------------------------------------------
(***************************************************************************)
(* A key entry of the operator's log is a step of KeyLog.                  *)
(***************************************************************************)
\* One signature is an envelope's worth, so the entry is one ApplyEntry chooses from.
LEMMA LogEntryIsApplied ==
    ASSUME KeyInv, NEW e \in NextEntries, LogKeyEntry(e)
    PROVE  ApplyEntry
  <1>1. e.subject \in Kids /\ e.signer \in Kids /\ e.ts \in Times /\ e.leaf \in lastLeaf..MaxLeaf
    BY DEF NextEntries
  <1>2. {e.signer} \in SignerSets
    <2>1. Cardinality({e.signer}) = 1
      BY FS_Singleton, Zenon
    <2> QED
      BY <1>1, <2>1, SigsAssumption DEF SignerSets
  <1>3. PICK effective \in Times :
           \/ /\ e.leaf = 0
              /\ \E role \in RoleClaims : KeyGenesis(e.subject, effective, {e.signer}, role)
           \/ \E role \in RoleClaims :
                 KeyCreated(e.subject, e.leaf, e.ts, effective, {e.signer}, role)
           \/ KeyRotated(e.subject, e.leaf, e.ts, effective, {e.signer}, e.signer, TRUE)
           \/ KeyRevoked(e.subject, e.leaf, e.ts, effective, {e.signer})
    BY DEF LogKeyEntry
  <1>4. phase = "replaying"
    BY <1>3 DEF KeyGenesis, KeyCreated, KeyRotated, KeyRevoked, Reached
  <1>5. KeyRotated(e.subject, e.leaf, e.ts, effective, {e.signer}, e.signer, TRUE) => e.signer \in Known
    BY ActiveSponsor DEF KeyRotated
  <1> QED
    BY <1>1, <1>2, <1>3, <1>4, <1>5 DEF ApplyEntry

\* Introducing a key changes the standing of no other.
LEMMA IntroduceKeepsStanding ==
    ASSUME KeyInv, RolesStandBelow, NEW kid, kid \notin Known, NEW leaf, NEW effective,
           NEW nonIssuer, NEW role, NEW by,
           Introduce(kid, leaf, effective, nonIssuer, role, by),
           role # NoRole => nonIssuer /\ leaf # 0
    PROVE  /\ RolesStandBelow'
           /\ \A k \in Known : state'[k] = state[k] /\ vouchers'[k] = vouchers[k]
  <1>1. DOMAIN vouchers = Known
    BY DEF KeyInv, TypeOK
  <1>2. /\ Known' = Known \cup {kid}
        /\ state'[kid].leaf = leaf /\ state'[kid].role = role
        /\ \A k \in Known : state'[k] = state[k]
    BY DEF Introduce, Put, Known
  <1>2a. state'[kid].non_issuer = nonIssuer
    BY DEF Introduce, Put, Known
  <1>3. \A k \in Known : vouchers'[k] = vouchers[k]
    BY <1>1 DEF Introduce, Put
  <1>4. RolesStandBelow'
    <2> SUFFICES ASSUME NEW k \in Known', state'[k].role # NoRole
                 PROVE  state'[k].non_issuer /\ state'[k].leaf # 0
      BY DEF RolesStandBelow, IsGenesis
    <2>1. CASE k = kid
      BY <1>2, <1>2a, <2>1
    <2>2. CASE k \in Known
      BY <1>2, <2>2 DEF RolesStandBelow, IsGenesis
    <2> QED
      BY <1>2, <2>1, <2>2
  <1> QED
    BY <1>2, <1>3, <1>4

\* Whatever entry the log goes on with, the keys it had keep who vouched for them.
LEMMA ApplyKeepsStanding ==
    ASSUME KeyInv, RolesStandBelow, ApplyEntry
    PROVE  RolesStandBelow' /\ \A k \in Known : vouchers'[k] = vouchers[k]
  <1>1. PICK kid \in Kids, effective \in Times, signers \in SignerSets :
          \/ \E role \in RoleClaims : KeyGenesis(kid, effective, signers, role)
          \/ \E leaf \in lastLeaf..MaxLeaf, ts \in Times :
                \/ \E role \in RoleClaims :
                      KeyCreated(kid, leaf, ts, effective, signers, role)
                \/ \E prev \in Known, continuity \in BOOLEAN :
                      KeyRotated(kid, leaf, ts, effective, signers, prev, continuity)
                \/ KeyRevoked(kid, leaf, ts, effective, signers)
    BY DEF ApplyEntry
  <1>2. ASSUME NEW role \in RoleClaims, KeyGenesis(kid, effective, signers, role)
        PROVE  RolesStandBelow' /\ \A k \in Known : vouchers'[k] = vouchers[k]
    <2>1. role = NoRole /\ kid \notin Known /\ Introduce(kid, 0, effective, FALSE, role, {kid})
      BY <1>2 DEF KeyGenesis, RoleOk
    <2> QED
      BY <2>1, IntroduceKeepsStanding
  <1>3. ASSUME NEW leaf \in lastLeaf..MaxLeaf, NEW ts \in Times, NEW role \in RoleClaims,
               KeyCreated(kid, leaf, ts, effective, signers, role)
        PROVE  RolesStandBelow' /\ \A k \in Known : vouchers'[k] = vouchers[k]
    <2> DEFINE sponsors == ActiveSigners(signers, ts, leaf)
               nonIssuer == NonIssuer(role, ActiveIssuers(signers, ts, leaf) # {})
    <2>1. /\ kid \notin Known /\ sponsors # {}
          /\ Introduce(kid, leaf, effective, nonIssuer, role, sponsors)
      BY <1>3 DEF KeyCreated
    <2>2. role # NoRole => nonIssuer
      BY DEF NonIssuer
    <2>3. leaf # 0
      <3>1. PICK p \in sponsors : TRUE
        BY <2>1
      <3>2. p \in Known /\ state[p].leaf < leaf
        BY <3>1, ActiveSponsor DEF ActiveSigners
      <3>3. state[p].leaf \in Nat
        BY <3>2, LeafAssumption DEF KeyInv, TypeOK, KeyState, Leaves
      <3> QED
        BY <3>2, <3>3
    <2> HIDE DEF sponsors, nonIssuer
    <2> QED
      BY <2>1, <2>2, <2>3, IntroduceKeepsStanding
  <1>4. ASSUME NEW leaf \in lastLeaf..MaxLeaf, NEW ts \in Times, NEW prev \in Known,
               NEW continuity \in BOOLEAN,
               KeyRotated(kid, leaf, ts, effective, signers, prev, continuity)
        PROVE  RolesStandBelow' /\ \A k \in Known : vouchers'[k] = vouchers[k]
    <2>1. /\ kid \notin Known
          /\ Introduce(kid, leaf, effective, state[prev].non_issuer, NoRole, {prev})
      BY <1>4 DEF KeyRotated
    <2> QED
      BY <2>1, IntroduceKeepsStanding
  <1>5. ASSUME NEW leaf \in lastLeaf..MaxLeaf, NEW ts \in Times,
               KeyRevoked(kid, leaf, ts, effective, signers)
        PROVE  RolesStandBelow' /\ \A k \in Known : vouchers'[k] = vouchers[k]
    <2>1. /\ state' = [state EXCEPT ![kid].revoked_at = {[leaf |-> leaf, ts |-> effective]}]
          /\ vouchers' = vouchers /\ state \in [Known -> KeyState]
      BY <1>5 DEF KeyRevoked, KeyInv, TypeOK
    <2>2. Known' = Known
      BY <2>1 DEF Known
    <2>3. \A k \in Known : /\ state'[k].role = state[k].role
                           /\ state'[k].leaf = state[k].leaf
                           /\ state'[k].non_issuer = state[k].non_issuer
      BY <2>1 DEF KeyState
    <2> QED
      BY <2>1, <2>2, <2>3 DEF RolesStandBelow, IsGenesis
  <1> QED
    BY <1>1, <1>2, <1>3, <1>4, <1>5

\* The operator's log goes on: what the verifier replayed stays a prefix of it.
LEMMA LogGrows ==
    ASSUME AuthorityInv, ApplyEntry, UNCHANGED cut
    PROVE  KeyInv' /\ RolesStandBelow' /\ CutIsPrefix' /\ CutStanding' /\ Known \subseteq Known'
  <1>0. KeyInv /\ RolesStandBelow /\ CutIsPrefix /\ CutStanding
    BY DEF AuthorityInv
  <1>1. [Next]_keyVars
    BY DEF Next
  <1>2. KeyInv'
    BY <1>0, <1>1, KeyInvStep
  <1>3. RolesStandBelow' /\ \A k \in Known : vouchers'[k] = vouchers[k]
    BY <1>0, ApplyKeepsStanding
  <1>4. \A k \in Known : /\ k \in Known'
                         /\ state'[k].leaf = state[k].leaf
                         /\ state'[k].effective = state[k].effective
                         /\ \/ state'[k].revoked_at = state[k].revoked_at
                            \/ state[k].revoked_at = {}
    BY <1>0, <1>1, StepKeepsKnownKeys
  <1>5. CutIsPrefix'
    BY <1>0, <1>4 DEF CutIsPrefix
  <1>6. CutStanding'
    BY <1>0, <1>3 DEF CutStanding, CutIsPrefix, IsIssuer
  <1> QED
    BY <1>2, <1>3, <1>4, <1>5, <1>6

\* Neither the operator's log nor the verifier's copy of it changes.
LEMMA LogStays ==
    ASSUME AuthorityInv, UNCHANGED <<state, lastLeaf, vouchers, cut>>,
           phase' \in {"replaying", "refused", "replayed"}
    PROVE  KeyInv' /\ RolesStandBelow' /\ CutIsPrefix' /\ CutStanding' /\ TypeOK'
  <1>1. Known' = Known
    BY DEF Known
  <1>2. TypeOK'
    BY <1>1 DEF AuthorityInv, KeyInv, TypeOK
  <1>3. IntroducedSoFar' /\ RevokedNeverVouches' /\ AuthorityProvenance'
    BY <1>1 DEF AuthorityInv, KeyInv, IntroducedSoFar, RevokedNeverVouches,
                AuthorityProvenance, IssuerVouched, IsIssuer, IsGenesis
  <1>4. RolesStandBelow' /\ CutIsPrefix' /\ CutStanding'
    BY <1>1 DEF AuthorityInv, RolesStandBelow, CutIsPrefix, CutStanding, IsIssuer, IsGenesis
  <1> QED
    BY <1>2, <1>3, <1>4 DEF KeyInv

\* The verdicts about entries, receipts and checkpoints are about the replayed log.
LEMMA SameCutSameVerdict ==
    ASSUME UNCHANGED cut
    PROVE  /\ \A e : KeyEntrySig(e)' <=> KeyEntrySig(e)
           /\ \A x : ReceiptSigs(x)' <=> ReceiptSigs(x)
           /\ \A x : RecorderAttested(x)' <=> RecorderAttested(x)
           /\ \A cp : CheckpointKey(cp)' <=> CheckpointKey(cp)
           /\ Unrevoked(cut)' = Unrevoked(cut)
  BY DEF KeyEntrySig, ReceiptSigs, RecorderAttested, CheckpointKey, Unrevoked, ActiveIn, IsIssuer

-------------------------------------------------------------------------------
(***************************************************************************)
(* Every step keeps the invariant.                                         *)
(***************************************************************************)
\* Nothing is known, presented or judged.
LEMMA AuthorityInvInit == AuthorityInit => AuthorityInv
  <1> SUFFICES ASSUME AuthorityInit PROVE AuthorityInv
    OBVIOUS
  <1>1. KeyInv /\ Known = {} /\ DOMAIN cut = {} /\ cut = state
    BY KeyInvInit DEF AuthorityInit, Init, Known
  <1>2. AuthorityTypeOK
    <2>1. TypeOK /\ cut \in [DOMAIN cut -> KeyState]
      BY <1>1 DEF KeyInv, TypeOK, Known
    <2> QED
      BY <1>1, <2>1, AuthorityAssumption DEF AuthorityInit, AuthorityTypeOK
  <1>3. RolesStandBelow /\ CutIsPrefix /\ CutStanding
    BY <1>1 DEF RolesStandBelow, CutIsPrefix, CutStanding
  <1>4. Judged
    BY DEF AuthorityInit, Judged
  <1> QED
    BY <1>1, <1>2, <1>3, <1>4 DEF AuthorityInv

\* A key entry is replayed; nothing has been judged yet.
LEMMA PresentKeyEntryKeeps == ASSUME AuthorityInv, PresentKeyEntry PROVE AuthorityInv'
  <1>0. /\ AuthorityTypeOK /\ Judged /\ KeyInv /\ stage = "log"
        /\ UNCHANGED <<stage, cut, omitted, jwks, receipts, attested, target>>
    BY DEF AuthorityInv, PresentKeyEntry
  <1>1. PICK e \in NextEntries, named \in BOOLEAN :
           /\ LogKeyEntry(e)
           /\ keyEntries' = keyEntries \cup
                {[subject |-> e.subject, signer |-> e.signer, ts |-> e.ts,
                  leaf |-> e.leaf, named |-> named]}
    BY DEF PresentKeyEntry
  <1>2. ApplyEntry
    BY <1>0, <1>1, LogEntryIsApplied
  <1>3. KeyInv' /\ RolesStandBelow' /\ CutIsPrefix' /\ CutStanding' /\ Known \subseteq Known'
    BY <1>0, <1>2, LogGrows
  <1>4. keyEntries' \subseteq KeyEntry
    <2>1. e.leaf \in Leaves
      BY <1>0, LeafAssumption DEF NextEntries, KeyInv, TypeOK, Leaves
    <2> QED
      BY <1>0, <1>1, <2>1 DEF AuthorityTypeOK, KeyEntry, NextEntries
  <1>5. AuthorityTypeOK'
    BY <1>0, <1>3, <1>4 DEF AuthorityTypeOK, KeyInv
  <1>6. Judged'
    BY <1>0, SameCutSameVerdict DEF Judged
  <1> QED
    BY <1>3, <1>5, <1>6 DEF AuthorityInv

\* The replay is over: the verifier's copy is the operator's log so far.
LEMMA ReplayDoneKeeps == ASSUME AuthorityInv, ReplayDone PROVE AuthorityInv'
  <1>0. /\ AuthorityTypeOK /\ Judged /\ KeyInv /\ RolesStandBelow
        /\ stage = "log" /\ stage' = "tail" /\ cut' = state
        /\ receipts = {} /\ attested = {} /\ target = {}
        /\ UNCHANGED <<state, phase, lastLeaf, vouchers, keyEntries, omitted, jwks, receipts, attested, target>>
    BY DEF AuthorityInv, ReplayDone, Judged, keyVars
  <1>1. Known' = Known /\ DOMAIN cut' = Known
    BY <1>0 DEF Known
  <1>2. KeyInv' /\ TypeOK'
    BY <1>0, <1>1 DEF KeyInv, TypeOK, IntroducedSoFar, RevokedNeverVouches,
                      AuthorityProvenance, IssuerVouched, IsIssuer, IsGenesis
  <1>3. RolesStandBelow' /\ CutIsPrefix'
    BY <1>0, <1>1 DEF RolesStandBelow, CutIsPrefix, IsGenesis
  <1>4. CutStanding'
    <2> SUFFICES ASSUME NEW k \in Known, state[k].role # NoRole
                 PROVE  state[k].non_issuer /\ \E p \in vouchers[k] : IsIssuer(state, p)
      BY <1>0, <1>1 DEF CutStanding, IsIssuer
    <2>1. state[k].non_issuer /\ ~IsGenesis(k)
      BY <1>0 DEF RolesStandBelow
    <2>2. IssuerVouched(k)
      BY <1>0, <2>1 DEF KeyInv, AuthorityProvenance
    <2> QED
      BY <2>1, <2>2 DEF IssuerVouched
  <1>5. AuthorityTypeOK'
    BY <1>0, <1>1, <1>2 DEF AuthorityTypeOK, TypeOK
  <1>6. Judged'
    BY <1>0 DEF Judged
  <1> QED
    BY <1>2, <1>3, <1>4, <1>5, <1>6 DEF AuthorityInv

\* A key entry is refused: nothing has been judged yet, and nothing will be.
LEMMA ReplayRefusedKeeps == ASSUME AuthorityInv, ReplayRefused PROVE AuthorityInv'
  <1>0. /\ AuthorityTypeOK /\ Judged /\ stage = "log" /\ stage' = "refused"
        /\ UNCHANGED <<state, lastLeaf, vouchers, cut, keyEntries, omitted, jwks, receipts, attested, target>>
        /\ phase' = "refused"
    BY DEF AuthorityInv, ReplayRefused, RefuseEntry
  <1>1. KeyInv' /\ RolesStandBelow' /\ CutIsPrefix' /\ CutStanding' /\ TypeOK'
    BY <1>0, LogStays
  <1>2. AuthorityTypeOK' /\ Judged'
    BY <1>0, <1>1, SameCutSameVerdict DEF AuthorityTypeOK, Judged, Known
  <1> QED
    BY <1>1, <1>2 DEF AuthorityInv

\* The operator's log has an entry more than the bundle.
LEMMA OmitKeyEntryKeeps == ASSUME AuthorityInv, OmitKeyEntry PROVE AuthorityInv'
  <1>0. /\ AuthorityTypeOK /\ Judged /\ KeyInv /\ stage = "tail"
        /\ omitted < MaxOmitted /\ omitted' = omitted + 1
        /\ UNCHANGED <<stage, cut, keyEntries, jwks, receipts, attested, target>>
    BY DEF AuthorityInv, OmitKeyEntry
  <1>1. PICK e \in NextEntries : LogKeyEntry(e)
    BY DEF OmitKeyEntry
  <1>2. ApplyEntry
    BY <1>0, <1>1, LogEntryIsApplied
  <1>3. KeyInv' /\ RolesStandBelow' /\ CutIsPrefix' /\ CutStanding' /\ Known \subseteq Known'
    BY <1>0, <1>2, LogGrows
  <1>4. omitted' \in 0..MaxOmitted
    BY <1>0, AuthorityAssumption DEF AuthorityTypeOK
  <1>5. AuthorityTypeOK'
    BY <1>0, <1>3, <1>4 DEF AuthorityTypeOK, KeyInv
  <1>6. Judged'
    BY <1>0, SameCutSameVerdict DEF Judged
  <1> QED
    BY <1>3, <1>5, <1>6 DEF AuthorityInv

\* A step of the verifier after the replay: what it has to keep is what is judged
\* and the types of what it judged.
LEMMA VerifierKeeps ==
    ASSUME AuthorityInv, UNCHANGED <<state, phase, lastLeaf, vouchers, cut, keyEntries, omitted>>,
           stage' \in {"log", "tail", "entries", "receipts", "verified", "refused"},
           jwks' \subseteq Kids, receipts' \subseteq Receipt, attested' \subseteq receipts',
           target' \subseteq Checkpoint, Judged'
    PROVE  AuthorityInv'
  <1>1. KeyInv' /\ RolesStandBelow' /\ CutIsPrefix' /\ CutStanding' /\ TypeOK'
    BY LogStays DEF AuthorityInv, KeyInv, TypeOK
  <1>2. AuthorityTypeOK'
    BY <1>1 DEF AuthorityInv, AuthorityTypeOK, Known
  <1> QED
    BY <1>1, <1>2 DEF AuthorityInv

\* The JWKS is compared: it lists every key the replayed log leaves unrevoked.
LEMMA CheckJwksKeeps == ASSUME AuthorityInv, CheckJwks PROVE AuthorityInv'
  <1>0. /\ AuthorityTypeOK /\ Judged /\ stage = "tail"
        /\ receipts = {} /\ attested = {} /\ target = {}
        /\ UNCHANGED <<state, phase, lastLeaf, vouchers, cut, keyEntries, omitted, receipts, attested, target>>
    BY DEF AuthorityInv, CheckJwks, Judged, keyVars
  <1>1. PICK listed \in SUBSET Kids :
          \/ JwksMatchLog(listed) /\ jwks' = listed /\ stage' = "entries"
          \/ ~JwksMatchLog(listed) /\ stage' = "refused" /\ UNCHANGED jwks
    BY DEF CheckJwks
  <1>2. /\ stage' \in {"entries", "refused"} /\ jwks' \subseteq Kids
        /\ stage' = "entries" => Unrevoked(cut) \subseteq jwks'
    BY <1>0, <1>1 DEF JwksMatchLog, AuthorityTypeOK
  <1>3. Judged'
    BY <1>0, <1>2, SameCutSameVerdict DEF Judged
  <1> QED
    BY <1>0, <1>2, <1>3, VerifierKeeps DEF AuthorityTypeOK

\* The carried key entries are judged once more, by the final log.
LEMMA CheckKeyEntriesKeeps == ASSUME AuthorityInv, CheckKeyEntries PROVE AuthorityInv'
  <1>0. /\ AuthorityTypeOK /\ Judged /\ stage = "entries"
        /\ stage' = IF \A e \in keyEntries : KeyEntrySig(e) THEN "receipts" ELSE "refused"
        /\ UNCHANGED <<state, phase, lastLeaf, vouchers, cut, keyEntries, omitted, jwks, receipts, attested, target>>
    BY DEF AuthorityInv, CheckKeyEntries, keyVars
  <1>1. Judged'
    BY <1>0, SameCutSameVerdict DEF Judged
  <1> QED
    BY <1>0, <1>1, VerifierKeeps DEF AuthorityTypeOK

\* One more receipt is judged; a failure takes back what was attested.
LEMMA CheckReceiptKeeps == ASSUME AuthorityInv, CheckReceipt PROVE AuthorityInv'
  <1>0. /\ AuthorityTypeOK /\ Judged /\ stage = "receipts"
        /\ UNCHANGED <<state, phase, lastLeaf, vouchers, cut, keyEntries, omitted, jwks, target>>
    BY DEF AuthorityInv, CheckReceipt, keyVars
  <1>1. PICK r \in Receipt :
          \/ /\ ReceiptSigs(r)
             /\ receipts' = receipts \cup {r}
             /\ attested' = attested \cup {x \in {r} : RecorderAttested(x)}
             /\ UNCHANGED stage
          \/ /\ ~ReceiptSigs(r)
             /\ attested' = {}
             /\ stage' = "refused"
             /\ UNCHANGED receipts
    BY DEF CheckReceipt
  <1>2. /\ stage' \in {"receipts", "refused"} /\ (stage' = "refused" => attested' = {})
        /\ receipts' \subseteq Receipt /\ attested' \subseteq receipts'
    BY <1>0, <1>1 DEF AuthorityTypeOK
  <1>3. \A x \in receipts' : ReceiptSigs(x)
    BY <1>0, <1>1 DEF Judged
  <1>4. \A x \in attested' : RecorderAttested(x)
    BY <1>0, <1>1 DEF Judged
  <1>5. Judged'
    BY <1>0, <1>2, <1>3, <1>4, SameCutSameVerdict DEF Judged
  <1> QED
    BY <1>0, <1>2, <1>5, VerifierKeeps DEF AuthorityTypeOK

\* The target's signer is judged last.
LEMMA CheckTargetKeeps == ASSUME AuthorityInv, CheckTarget PROVE AuthorityInv'
  <1>0. /\ AuthorityTypeOK /\ Judged /\ stage = "receipts" /\ target = {}
        /\ UNCHANGED <<state, phase, lastLeaf, vouchers, cut, keyEntries, omitted, jwks, receipts>>
    BY DEF AuthorityInv, CheckTarget, Judged, keyVars
  <1>1. PICK cp \in Checkpoint :
          \/ /\ CheckpointKey(cp) /\ Included(cp.size)
             /\ target' = {cp}
             /\ stage' = "verified"
             /\ UNCHANGED attested
          \/ /\ ~(CheckpointKey(cp) /\ Included(cp.size))
             /\ stage' = "refused"
             /\ attested' = {}
             /\ UNCHANGED target
    BY DEF CheckTarget
  <1>2. /\ stage' \in {"verified", "refused"} /\ (stage' = "refused" => attested' = {} /\ target' = {})
        /\ attested' \subseteq attested /\ target' \subseteq Checkpoint
        /\ \A c \in target' : CheckpointKey(c)
    BY <1>0, <1>1
  <1>3. Judged'
    BY <1>0, <1>2, SameCutSameVerdict DEF Judged
  <1> QED
    BY <1>0, <1>2, <1>3, VerifierKeeps DEF AuthorityTypeOK

\* AuthorityInv is inductive.
LEMMA AuthorityInvStep == AuthorityInv /\ [AuthorityNext]_vars => AuthorityInv'
  <1> SUFFICES ASSUME AuthorityInv, [AuthorityNext]_vars PROVE AuthorityInv'
    OBVIOUS
  <1>1. CASE AuthorityNext
    BY <1>1, PresentKeyEntryKeeps, ReplayDoneKeeps, ReplayRefusedKeeps, OmitKeyEntryKeeps,
       CheckJwksKeeps, CheckKeyEntriesKeeps, CheckReceiptKeeps, CheckTargetKeeps
       DEF AuthorityNext
  <1>2. CASE UNCHANGED vars
    <2>1. UNCHANGED <<state, phase, lastLeaf, vouchers, stage, cut, keyEntries, omitted, jwks,
                      receipts, attested, target>>
      BY <1>2 DEF vars
    <2>2. Judged'
      BY <2>1, SameCutSameVerdict DEF AuthorityInv, Judged
    <2> QED
      BY <2>1, <2>2, VerifierKeeps DEF AuthorityInv, AuthorityTypeOK
  <1> QED
    BY <1>1, <1>2

\* The bundle carries the entry of every revocation in a key map.
Carried(st) ==
    \A k \in DOMAIN st : \A r \in st[k].revoked_at :
        \E e \in keyEntries : e.subject = k /\ e.leaf = r.leaf

\* Every revocation the verifier replayed is a carried entry, and a head that was
\* accepted gives every leaf to one carried entry or receipt.
Accounted ==
    /\ Carried(cut)
    /\ stage = "log" => Carried(state)
    /\ stage = "verified" => \E cp \in target : Included(cp.size)

\* A revocation a key entry adds is the revocation of its subject at its leaf.
LEMMA EntryRevokesItsSubject ==
    ASSUME KeyInv, NEW e, LogKeyEntry(e)
    PROVE  \A k \in Known' : \A r \in state'[k].revoked_at :
              \/ k \in Known /\ r \in state[k].revoked_at
              \/ k = e.subject /\ r.leaf = e.leaf
  <1> DEFINE Goal == \A k \in Known' : \A r \in state'[k].revoked_at :
                        \/ k \in Known /\ r \in state[k].revoked_at
                        \/ k = e.subject /\ r.leaf = e.leaf
  <1>1. ASSUME NEW kid, NEW leaf, NEW effective, NEW nonIssuer, NEW role, NEW by,
               Introduce(kid, leaf, effective, nonIssuer, role, by)
        PROVE  Goal
    <2>1. /\ Known' = Known \cup {kid} /\ state'[kid].revoked_at = {}
          /\ \A x \in Known : x # kid => state'[x] = state[x]
      BY <1>1 DEF Introduce, Put, Known
    <2> QED
      BY <2>1
  <1>2. ASSUME NEW effective, KeyRevoked(e.subject, e.leaf, e.ts, effective, {e.signer})
        PROVE  Goal
    <2>1. /\ e.subject \in Known /\ state \in [Known -> KeyState]
          /\ state' = [state EXCEPT ![e.subject].revoked_at = {[leaf |-> e.leaf, ts |-> effective]}]
      BY <1>2 DEF KeyRevoked, Revocable, KeyInv, TypeOK
    <2>2. /\ Known' = Known
          /\ \A x \in Known : x # e.subject => state'[x] = state[x]
      BY <2>1 DEF Known
    <2>3. state'[e.subject].revoked_at = {[leaf |-> e.leaf, ts |-> effective]}
      BY <2>1 DEF KeyState
    <2> QED
      BY <2>2, <2>3
  <1> QED
    BY <1>1, <1>2 DEF LogKeyEntry, KeyGenesis, KeyCreated, KeyRotated

\* Nothing is revoked at the start; a replayed entry is carried; the replayed log is
\* the log whose entries were; and the entries do not change after the replay.
LEMMA AccountedStep == AuthorityInv /\ Accounted /\ [AuthorityNext]_vars => Accounted'
  <1> SUFFICES ASSUME AuthorityInv, Accounted, [AuthorityNext]_vars PROVE Accounted'
    OBVIOUS
  <1>0. Judged /\ KeyInv
    BY DEF AuthorityInv
  <1>1. CASE PresentKeyEntry
    <2>1. PICK e \in NextEntries, named \in BOOLEAN :
             /\ LogKeyEntry(e)
             /\ keyEntries' = keyEntries \cup
                  {[subject |-> e.subject, signer |-> e.signer, ts |-> e.ts,
                    leaf |-> e.leaf, named |-> named]}
      BY <1>1 DEF PresentKeyEntry
    <2>2. stage = "log" /\ stage' = "log" /\ cut' = cut
      BY <1>1 DEF PresentKeyEntry
    <2>3. /\ keyEntries \subseteq keyEntries'
          /\ \E f \in keyEntries' : f.subject = e.subject /\ f.leaf = e.leaf
      <3> DEFINE f == [subject |-> e.subject, signer |-> e.signer, ts |-> e.ts,
                       leaf |-> e.leaf, named |-> named]
      <3>1. f.subject = e.subject /\ f.leaf = e.leaf
        OBVIOUS
      <3> HIDE DEF f
      <3>2. keyEntries' = keyEntries \cup {f}
        BY <2>1 DEF f
      <3> QED
        BY <3>1, <3>2
    <2>4. Carried(cut)'
      BY <2>2, <2>3 DEF Accounted, Carried
    <2>5. Carried(state)'
      BY <1>0, <2>1, <2>2, <2>3, EntryRevokesItsSubject DEF Accounted, Carried, Known
    <2> QED
      BY <2>2, <2>4, <2>5 DEF Accounted
  <1>2. CASE ReplayDone
    BY <1>2 DEF ReplayDone, Accounted, Carried
  <1>3. ASSUME UNCHANGED <<cut, keyEntries>>, stage' # "log",
               stage' = "verified" => \E cp \in target' : Included(cp.size)'
        PROVE  Accounted'
    BY <1>3 DEF Accounted, Carried
  <1>4. CASE ReplayRefused \/ OmitKeyEntry \/ CheckJwks \/ CheckKeyEntries \/ CheckReceipt
    <2>1. UNCHANGED <<cut, keyEntries>> /\ stage' \notin {"log", "verified"}
      BY <1>4 DEF ReplayRefused, OmitKeyEntry, CheckJwks, CheckKeyEntries, CheckReceipt
    <2> QED
      BY <2>1, <1>3
  <1>5. CASE CheckTarget
    <2>1. UNCHANGED <<cut, keyEntries, receipts>>
      BY <1>5 DEF CheckTarget
    <2>2. PICK cp \in Checkpoint :
             \/ Included(cp.size) /\ target' = {cp} /\ stage' = "verified"
             \/ stage' = "refused"
      BY <1>5 DEF CheckTarget
    <2> QED
      BY <2>1, <2>2, <1>3 DEF Included
  <1>6. CASE UNCHANGED vars
    BY <1>6 DEF vars, Accounted, Carried, Included
  <1> QED
    BY <1>1, <1>2, <1>4, <1>5, <1>6 DEF AuthorityNext

-------------------------------------------------------------------------------
(***************************************************************************)
(* The theorems.                                                           *)
(***************************************************************************)
\* Every reachable state of the verifier satisfies the invariant.
THEOREM AuthorityInvariance == AuthoritySpec => []AuthorityInv
  BY AuthorityInvInit, AuthorityInvStep, PTL DEF AuthoritySpec

\* In every reachable state the replayed revocations are accounted for by carried
\* entries (replay_key_log, check_entry_inclusion).
THEOREM AccountedInvariance == AuthoritySpec => []Accounted
  <1>1. AuthorityInit => Accounted
    BY DEF AuthorityInit, Init, Accounted, Carried
  <1> QED
    BY <1>1, AccountedStep, AuthorityInvariance, PTL DEF AuthoritySpec

\* The verifier's state is well formed, and its replayed log knows no key that the
\* operator's log does not (replay_key_log).
THEOREM AuthorityTypeCorrect == AuthoritySpec => []AuthorityTypeOK
  BY AuthorityInvariance, PTL DEF AuthorityInv

\* Nothing in a verified bundle rests on a key at or after its revocation leaf, its own
\* revocation excepted, nor after its effective time, also when the revocation was
\* logged later (check_entry_sigs, check_target_checkpoint, check_entry_inclusion).
THEOREM RevocationIsFinalHolds == AuthoritySpec => []RevocationIsFinal
  <1>1. AuthorityInv /\ Accounted => RevocationIsFinal
    <2> SUFFICES ASSUME AuthorityInv, Accounted, stage = "verified",
                        NEW k \in DOMAIN cut, NEW r \in cut[k].revoked_at
                 PROVE  /\ \A e \in keyEntries : e.signer = k =>
                              /\ e.leaf < r.leaf \/ (e.leaf = r.leaf /\ e.subject = k)
                              /\ e.ts <= r.ts \/ e.leaf = 0
                        /\ \A x \in receipts : k \in x.signers => x.leaf < r.leaf /\ x.ts <= r.ts
                        /\ \A cp \in target : cp.kid = k => cp.size <= r.leaf /\ cp.ts <= r.ts
      BY DEF RevocationIsFinal, Verified
    <2>0. r.leaf \in Nat
      BY LeafAssumption DEF AuthorityInv, AuthorityTypeOK, KeyState, Revocation, Leaves
    <2>1. PICK f \in keyEntries : f.subject = k /\ f.leaf = r.leaf
      BY DEF Accounted, Carried
    <2>2. \A e \in keyEntries \cup receipts : e.leaf = r.leaf => e = f
      BY <2>1 DEF Accounted, Included
    <2>3. \A e \in keyEntries : e.signer = k => e.leaf <= r.leaf /\ (e.ts <= r.ts \/ e.leaf = 0)
      BY <2>0 DEF AuthorityInv, Judged, KeyEntrySig, ActiveIn
    <2>4. \A e \in keyEntries : e.leaf \in Nat
      BY LeafAssumption DEF AuthorityInv, AuthorityTypeOK, KeyEntry, Leaves
    <2>5. \A e \in keyEntries : e.signer = k =>
              /\ e.leaf < r.leaf \/ (e.leaf = r.leaf /\ e.subject = k)
              /\ e.ts <= r.ts \/ e.leaf = 0
      BY <2>0, <2>1, <2>2, <2>3, <2>4
    <2>6. \A x \in receipts : k \in x.signers => x.leaf <= r.leaf /\ x.ts <= r.ts
      BY DEF AuthorityInv, Judged, ReceiptSigs, ActiveIn
    <2>7. \A x \in receipts : x.leaf \in Nat /\ x.leaf # r.leaf
      <3> SUFFICES ASSUME NEW x \in receipts PROVE x.leaf \in Nat /\ x # f
        BY <2>2
      <3>1. x \in Receipt /\ f \in KeyEntry
        BY DEF AuthorityInv, AuthorityTypeOK
      <3>2. DOMAIN x = {"signers", "ts", "leaf"} /\ "subject" \in DOMAIN f
        BY <3>1 DEF Receipt, KeyEntry
      <3> QED
        BY <3>1, <3>2, LeafAssumption DEF Receipt, Leaves
    <2>8. \A x \in receipts : k \in x.signers => x.leaf < r.leaf /\ x.ts <= r.ts
      BY <2>0, <2>6, <2>7
    <2>9. \A cp \in target : cp.kid = k => cp.size <= r.leaf /\ cp.ts <= r.ts
      BY DEF AuthorityInv, Judged, CheckpointKey, ActiveIn
    <2> QED
      BY <2>5, <2>8, <2>9
  <1> QED
    BY <1>1, AuthorityInvariance, AccountedInvariance, PTL

\* A bundle that leaves out the end of the key log and still carries the operator's
\* published JWKS gives no key authority the whole log denies it
\* (check_jwks_match_log), however many entries were left out.
THEOREM TruncationRevivesNone == AuthoritySpec => []TruncationRevivesNoKey
  <1>1. AuthorityInv => TruncationRevivesNoKey
    <2> SUFFICES ASSUME AuthorityInv, stage = "verified", jwks = Unrevoked(state),
                        NEW k \in Kids, NEW t \in Times, NEW size \in Sizes,
                        ActiveIn(cut, k, t, size)
                 PROVE  ActiveIn(state, k, t, size)
      BY DEF TruncationRevivesNoKey, Verified
    <2>1. /\ k \in DOMAIN cut /\ k \in Known
          /\ cut[k].leaf = state[k].leaf /\ cut[k].effective = state[k].effective
          /\ cut[k].revoked_at = {} \/ cut[k].revoked_at = state[k].revoked_at
      BY DEF AuthorityInv, CutIsPrefix, ActiveIn
    <2>2. cut[k].revoked_at = {} => state[k].revoked_at = {}
      BY <2>1 DEF AuthorityInv, Judged, Unrevoked
    <2> QED
      BY <2>1, <2>2 DEF ActiveIn, Known
  <1> QED
    BY <1>1, AuthorityInvariance, PTL

\* A recorder-attested receipt is signed by a named recorder whose role an issuer
\* granted, and by another key that is an issuer (entry_recorder_attested); a
\* refused bundle attests none.
THEOREM RecorderAttestationHolds == AuthoritySpec => []RecorderAttestationSound
  <1>1. AuthorityInv => RecorderAttestationSound
    <2> SUFFICES ASSUME AuthorityInv, NEW x \in attested
                 PROVE  \E rec \in x.signers, iss \in x.signers :
                          /\ rec \in TrustedRecorders /\ cut[rec].role = "recorder"
                          /\ \E p \in vouchers[rec] : IsIssuer(cut, p)
                          /\ IsIssuer(cut, iss) /\ iss # rec
                          /\ ActiveIn(cut, rec, x.ts, x.leaf)
                          /\ ActiveIn(cut, iss, x.ts, x.leaf)
      BY DEF RecorderAttestationSound, AuthorityInv, Judged
    <2>1. ReceiptSigs(x) /\ RecorderAttested(x)
      BY DEF AuthorityInv, AuthorityTypeOK, Judged
    <2>2. PICK iss \in x.signers : ~cut[iss].non_issuer
      BY <2>1 DEF RecorderAttested
    <2>3. PICK rec \in x.signers : rec \in TrustedRecorders /\ cut[rec].role = "recorder"
      BY <2>1 DEF RecorderAttested
    <2>4. /\ ActiveIn(cut, rec, x.ts, x.leaf) /\ ActiveIn(cut, iss, x.ts, x.leaf)
          /\ rec \in DOMAIN cut /\ iss \in DOMAIN cut
      BY <2>1, <2>2, <2>3 DEF ReceiptSigs, ActiveIn
    <2>5. cut[rec].non_issuer /\ \E p \in vouchers[rec] : IsIssuer(cut, p)
      BY <2>3, <2>4 DEF AuthorityInv, CutStanding, NoRole
    <2> QED
      BY <2>2, <2>3, <2>4, <2>5 DEF IsIssuer
  <1> QED
    BY <1>1, AuthorityInvariance, PTL
===============================================================================
