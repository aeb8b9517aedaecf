------------------------ MODULE AuthorityReplayProofs ------------------------
(***************************************************************************)
(* Proofs about AuthorityReplay, for any keys, windows and passports, logs *)
(* and checkpoint chains of any length and a clock of any range.  How the  *)
(* root timeline is replayed plays no part in the first ones: whichever    *)
(* receipts ReplayRoots lets pass, the facts derived from them are sound.  *)
(* The last section is about the timeline itself.                          *)
(***************************************************************************)
EXTENDS AuthorityReplay, SequenceTheorems, WellFoundedInduction, TLAPS

-------------------------------------------------------------------------------
(***************************************************************************)
(* The inductive invariant.                                                *)
(***************************************************************************)
Document == [win : Windows, allows : BOOLEAN, binding : Int]

Receipt ==
    [kind : {"established"}, passport : Passports]
    \cup [kind : {"key"}, kid : RootKeys]
    \cup [kind : {"root"}, kid : RootKeys, prev : RootKeys \cup {None},
          prevSig : BOOLEAN, selfSig : BOOLEAN]
    \cup [kind : {"lineage.revised"}]
    \cup [kind : {"bound"}, signer : RootKeys, revision : Nat, runtime : RuntimeKeys,
          win : Windows, concurrent : SUBSET Nat]
    \cup [kind : {"issued"}, signer : RootKeys, subject : Int, doc : Document]
    \cup [kind : {"revised"}, signer : RootKeys, grant : Nat, version : Nat, prev : Nat,
          eff : Nat, doc : Document]
    \cup [kind : {"revoked"}, signer : RootKeys, grant : Nat, eff : Nat]
    \cup [kind : {"intent"}, grant : Nat, signers : SUBSET RuntimeKeys]

\* The chain: checkpoints cover a log that only grows, were signed by now, and none
\* has an independent time before the signed one.
ChainOk ==
    /\ cps \in Seq([size : Nat, ts : Nat, anchor : Nat])
    /\ \A k \in 1..Len(cps) :
          /\ cps[k].size <= Len(log) /\ 1 <= cps[k].ts /\ cps[k].ts <= now
          /\ cps[k].anchor = None \/ cps[k].ts <= cps[k].anchor
    /\ \A j, k \in 1..Len(cps) : j <= k => cps[j].size <= cps[k].size

\* The intent's place: the checkpoints that cover it were signed no earlier than it was
\* recorded, and the others no later.
Placed ==
    LET x == PickIntent(log)
    IN x # None =>
          /\ truth \in 1..now
          /\ \A k \in 1..Len(cps) : IF x <= cps[k].size THEN truth <= cps[k].ts
                                                        ELSE cps[k].ts <= truth

ReplayInv ==
    /\ now \in Instants
    /\ log \in Seq(Receipt)
    /\ truth = None <=> PickIntent(log) = None
    /\ ChainOk
    /\ Placed

-------------------------------------------------------------------------------
(***************************************************************************)
(* Facts about the definitions.                                            *)
(***************************************************************************)
\* A set of naturals that is not empty has a least element, and Min names it.
LEMMA MinIsLeast ==
    ASSUME NEW S, S \subseteq Nat, S # {}
    PROVE  Min(S) \in S /\ \A y \in S : Min(S) <= y
  <1>1. PICK x \in S : \A y \in S : ~(<<y, x>> \in OpToRel(<, Nat))
    BY NatLessThanWellFounded, WFMin
  <1>2. \A y \in S : ~(y < x)
    BY <1>1 DEF OpToRel
  <1>3. \A y \in S : x <= y
    BY <1>2
  <1> QED
    BY <1>3 DEF Min

\* A set of naturals with a bound has a greatest element, and Max names it.
LEMMA MaxIsGreatest ==
    ASSUME NEW n \in Nat, NEW S, S \subseteq 0..n, S # {}
    PROVE  Max(S) \in S /\ \A y \in S : y <= Max(S)
  <1> DEFINE Gap == {n - y : y \in S}
  <1>1. Gap \subseteq Nat /\ Gap # {}
    <2>1. \A y \in S : n - y \in Nat
      OBVIOUS
    <2> QED
      BY <2>1
  <1>2. Min(Gap) \in Gap /\ \A d \in Gap : Min(Gap) <= d
    BY <1>1, MinIsLeast
  <1>3. PICK x \in S : Min(Gap) = n - x
    BY <1>2
  <1>4. \A y \in S : n - x <= n - y
    BY <1>2, <1>3
  <1>5. \A y \in S : x >= y
    BY <1>4
  <1>6. Max(S) \in S /\ \A y \in S : Max(S) >= y
    BY <1>5 DEF Max
  <1> QED
    BY <1>6

\* The fields a receipt of a kind carries.
LEMMA Fields ==
    ASSUME NEW e \in Receipt
    PROVE  /\ e.kind \in {"issued", "revised"} =>
                 e.doc \in Document
           /\ e.kind = "revised" => e.version \in Nat /\ e.eff \in Nat
           /\ e.kind = "revoked" => e.eff \in Nat
  <1>1. CASE e \in [kind : {"revised"}, signer : RootKeys, grant : Nat, version : Nat,
                    prev : Nat, eff : Nat, doc : Document]
    BY <1>1
  <1>2. CASE e \in [kind : {"revoked"}, signer : RootKeys, grant : Nat, eff : Nat]
    BY <1>2
  <1>3. CASE e \in [kind : {"issued"}, signer : RootKeys, subject : Int, doc : Document]
    BY <1>3
  <1>4. CASE \/ e \in [kind : {"established"}, passport : Passports]
             \/ e \in [kind : {"key"}, kid : RootKeys]
             \/ e \in [kind : {"root"}, kid : RootKeys, prev : RootKeys \cup {None},
                       prevSig : BOOLEAN, selfSig : BOOLEAN]
             \/ e \in [kind : {"lineage.revised"}]
             \/ e \in [kind : {"bound"}, signer : RootKeys, revision : Nat,
                       runtime : RuntimeKeys, win : Windows, concurrent : SUBSET Nat]
             \/ e \in [kind : {"intent"}, grant : Nat, signers : SUBSET RuntimeKeys]
    BY <1>4
  <1> QED
    BY <1>1, <1>2, <1>3, <1>4 DEF Receipt

\* The fields of a checkpoint.
LEMMA CheckpointFields ==
    ASSUME ChainOk
    PROVE  /\ Len(cps) \in Nat /\ DOMAIN cps = 1..Len(cps)
           /\ \A k \in 1..Len(cps) :
                 cps[k].size \in Nat /\ cps[k].ts \in Nat /\ cps[k].anchor \in Nat
  <1>1. \A k \in 1..Len(cps) : cps[k] \in [size : Nat, ts : Nat, anchor : Nat]
    BY ElementOfSeq DEF ChainOk
  <1> QED
    BY <1>1 DEF ChainOk

\* The evaluated intent is the first one the log holds.
LEMMA FirstIntent ==
    ASSUME log \in Seq(Receipt)
    PROVE  LET x == PickIntent(log)
           IN IF At(log, "intent") = {} THEN x = None
              ELSE x \in At(log, "intent") /\ x \in Nat \ {0}
                   /\ \A y \in At(log, "intent") : x <= y
  <1>1. At(log, "intent") \subseteq 1..Len(log) /\ Len(log) \in Nat
    BY DEF At
  <1>2. At(log, "intent") \subseteq Nat
    BY <1>1
  <1> QED
    BY <1>1, <1>2, MinIsLeast DEF PickIntent, MinOf, None

\* A receipt appended to the log leaves what is there and is the last.
LEMMA Appended ==
    ASSUME log \in Seq(Receipt), NEW e \in Receipt, log' = Append(log, e)
    PROVE  /\ log' \in Seq(Receipt)
           /\ Len(log) \in Nat /\ Len(log') = Len(log) + 1
           /\ \A k : At(log', k) = At(log, k) \cup (IF e.kind = k THEN {Len(log) + 1} ELSE {})
  <1>1. /\ log' \in Seq(Receipt) /\ Len(log) \in Nat /\ Len(log') = Len(log) + 1
        /\ \A i \in 1..Len(log) : log'[i] = log[i]
        /\ log'[Len(log) + 1] = e
    BY AppendProperties
  <1>2. DOMAIN log = 1..Len(log) /\ DOMAIN log' = 1..(Len(log) + 1)
    BY <1>1
  <1>3. DOMAIN log' = DOMAIN log \cup {Len(log) + 1}
    BY <1>1, <1>2
  <1>4. \A i \in DOMAIN log : log'[i] = log[i] /\ i # Len(log) + 1
    BY <1>1, <1>2
  <1> QED
    BY <1>1, <1>3, <1>4 DEF At

\* A receipt that is not an intent disturbs nothing.
LEMMA OtherReceipt ==
    ASSUME ReplayInv, NEW e \in Receipt, e.kind # "intent", Untimed(e)
    PROVE  ReplayInv'
  <1>1. /\ log' = Append(log, e) /\ cps' = cps /\ now' = now /\ truth' = truth
    BY DEF Untimed, Write
  <1>2. /\ log' \in Seq(Receipt) /\ Len(log) \in Nat /\ Len(log') = Len(log) + 1
        /\ At(log', "intent") = At(log, "intent")
    BY <1>1, Appended DEF ReplayInv
  <1>3. PickIntent(log') = PickIntent(log)
    BY <1>2 DEF PickIntent
  <1>4. ChainOk'
    <2>1. \A k \in 1..Len(cps) : cps[k].size \in Nat
      BY CheckpointFields DEF ReplayInv
    <2>2. \A k \in 1..Len(cps) : cps[k].size <= Len(log')
      BY <1>2, <2>1 DEF ReplayInv, ChainOk
    <2> QED
      BY <1>1, <2>2 DEF ReplayInv, ChainOk
  <1>5. Placed'
    BY <1>1, <1>3 DEF ReplayInv, Placed
  <1> QED
    BY <1>1, <1>2, <1>3, <1>4, <1>5 DEF ReplayInv

-------------------------------------------------------------------------------
(***************************************************************************)
(* The invariant is inductive.                                             *)
(***************************************************************************)
\* The log starts with the agent's establishment, no intent and no checkpoint.
LEMMA ReplayInvInit == Init => ReplayInv
  <1> SUFFICES ASSUME Init
               PROVE  ReplayInv
    OBVIOUS
  <1>1. PICK p \in Passports : log = <<[kind |-> "established", passport |-> p]>>
    BY DEF Init
  <1>2. [kind |-> "established", passport |-> p] \in Receipt
    BY DEF Receipt
  <1>3. log \in Seq(Receipt) /\ DOMAIN log = {1} /\ log[1].kind = "established"
    BY <1>1, <1>2
  <1>4. PickIntent(log) = None
    BY <1>3 DEF PickIntent, MinOf, At
  <1>5. cps = <<>> /\ cps \in Seq([size : Nat, ts : Nat, anchor : Nat]) /\ Len(cps) = 0
    BY DEF Init
  <1>6. now \in Instants /\ truth = None
    BY ReplayAssumption DEF Init, Instants
  <1> QED
    BY <1>3, <1>4, <1>5, <1>6 DEF ReplayInv, ChainOk, Placed

\* The intent that is evaluated is placed when it is recorded, after every checkpoint
\* of the log before it; another one is not looked at.
LEMMA IntentStep ==
    ASSUME ReplayInv, RecordIntent
    PROVE  ReplayInv'
  <1>1. PICK g \in At(log, "issued"), S \in SUBSET RuntimeKeys, t \in now..MaxTime :
           /\ Write([kind |-> "intent", grant |-> g, signers |-> S])
           /\ now' = t /\ truth' = IF truth = None THEN t ELSE truth
    BY DEF RecordIntent
  <1> DEFINE e == [kind |-> "intent", grant |-> g, signers |-> S]
  <1>2. e \in Receipt /\ e.kind = "intent"
    <2>1. log \in Seq(Receipt)
      BY DEF ReplayInv
    <2>2. g \in Nat
      BY <2>1 DEF At
    <2> QED
      BY <2>2 DEF Receipt
  <1>3. log' = Append(log, e) /\ cps' = cps
    BY <1>1 DEF Write
  <1> HIDE DEF e
  <1>4. /\ log' \in Seq(Receipt) /\ Len(log) \in Nat /\ Len(log') = Len(log) + 1
        /\ At(log', "intent") = At(log, "intent") \cup {Len(log) + 1}
    BY <1>2, <1>3, Appended DEF ReplayInv
  <1>5. /\ now \in Nat /\ 1 <= now /\ now' \in Nat /\ now <= now' /\ now' \in Instants
    BY <1>1, ReplayAssumption DEF ReplayInv, Instants
  <1>6. /\ Len(cps) \in Nat
        /\ \A k \in 1..Len(cps) : /\ cps[k].size \in Nat /\ cps[k].ts \in Nat
                                  /\ cps[k].size <= Len(log) /\ cps[k].ts <= now
    BY CheckpointFields DEF ReplayInv, ChainOk
  <1>7. ChainOk'
    <2>1. \A k \in 1..Len(cps) : cps[k].size <= Len(log') /\ cps[k].ts <= now'
      BY <1>4, <1>5, <1>6
    <2> QED
      BY <1>3, <2>1 DEF ReplayInv, ChainOk
  <1>8. /\ PickIntent(log') \in At(log', "intent") /\ PickIntent(log') \in Nat \ {0}
        /\ \A y \in At(log', "intent") : PickIntent(log') <= y
    <2>1. At(log', "intent") # {} /\ At(log', "intent") \subseteq 1..Len(log')
      BY <1>4 DEF At
    <2>2. At(log', "intent") \subseteq Nat
      BY <1>4, <2>1
    <2> QED
      BY <2>1, <2>2, MinIsLeast DEF PickIntent, MinOf
  <1>9. At(log, "intent") \subseteq 1..Len(log)
    BY DEF ReplayInv, At
  <1>10. CASE PickIntent(log) = None
    <2>1. At(log, "intent") = {} /\ truth = None
      BY <1>10, FirstIntent DEF ReplayInv, None
    <2>2. PickIntent(log') = Len(log) + 1 /\ truth' = now'
      BY <1>1, <1>4, <1>8, <2>1
    <2>3. Placed'
      BY <1>3, <1>4, <1>5, <1>6, <2>2 DEF Placed
    <2> QED
      BY <1>4, <1>5, <1>7, <2>2, <2>3 DEF ReplayInv, None
  <1>11. CASE PickIntent(log) # None
    <2>1. /\ PickIntent(log) \in At(log, "intent")
          /\ \A y \in At(log, "intent") : PickIntent(log) <= y
          /\ truth # None
      BY <1>11, FirstIntent DEF ReplayInv
    <2>2. PickIntent(log') = PickIntent(log)
      BY <1>4, <1>8, <1>9, <2>1
    <2>3. truth' = truth /\ truth \in 1..now
      BY <1>1, <1>11, <2>1 DEF ReplayInv, Placed
    <2>4. Placed'
      BY <1>3, <1>5, <1>11, <2>2, <2>3 DEF ReplayInv, Placed
    <2> QED
      BY <1>4, <1>5, <1>7, <1>11, <2>1, <2>2, <2>3, <2>4 DEF ReplayInv
  <1> QED
    BY <1>10, <1>11

\* A checkpoint covers the whole log, the intent too, and is signed after both the
\* intent and the checkpoints before it.
LEMMA CheckpointStep ==
    ASSUME ReplayInv, Checkpoint
    PROVE  ReplayInv'
  <1>1. PICK t \in now..MaxTime, a \in {None} \cup now..MaxTime :
           /\ a = None \/ a >= t
           /\ cps' = Append(cps, [size |-> Len(log), ts |-> t, anchor |-> a])
           /\ now' = t
    BY DEF Checkpoint
  <1>2. log' = log /\ truth' = truth
    BY DEF Checkpoint
  <1>3. now \in Nat /\ 1 <= now /\ t \in Nat /\ now <= t /\ t \in Instants /\ a \in Nat
    BY <1>1, ReplayAssumption DEF ReplayInv, Instants, None
  <1> DEFINE c == [size |-> Len(log), ts |-> t, anchor |-> a]
  <1>4. Len(log) \in Nat /\ c \in [size : Nat, ts : Nat, anchor : Nat]
    BY <1>3 DEF ReplayInv
  <1>5. c.size = Len(log) /\ c.ts = t /\ c.anchor = a
    OBVIOUS
  <1> HIDE DEF c
  <1>6. /\ cps' \in Seq([size : Nat, ts : Nat, anchor : Nat])
        /\ Len(cps') = Len(cps) + 1
        /\ \A k \in 1..Len(cps) : cps'[k] = cps[k]
        /\ cps'[Len(cps) + 1] = c
    BY <1>1, <1>4, AppendProperties DEF c, ReplayInv, ChainOk
  <1>7. /\ Len(cps) \in Nat
        /\ \A k \in 1..Len(cps) : /\ cps[k].size \in Nat /\ cps[k].ts \in Nat
                                  /\ cps[k].size <= Len(log) /\ cps[k].ts <= now
                                  /\ 1 <= cps[k].ts
                                  /\ cps[k].anchor = None \/ cps[k].ts <= cps[k].anchor
    BY CheckpointFields DEF ReplayInv, ChainOk
  <1>8. \A k \in 1..Len(cps') : k \in 1..Len(cps) \/ k = Len(cps) + 1
    BY <1>6, <1>7
  <1>9. ChainOk'
    <2>1. \A k \in 1..Len(cps') :
             /\ cps'[k].size <= Len(log) /\ 1 <= cps'[k].ts /\ cps'[k].ts <= now'
             /\ cps'[k].anchor = None \/ cps'[k].ts <= cps'[k].anchor
      BY <1>1, <1>3, <1>4, <1>5, <1>6, <1>7, <1>8
    <2>2. \A j, k \in 1..Len(cps') : j <= k => cps'[j].size <= cps'[k].size
      <3> TAKE j, k \in 1..Len(cps')
      <3> HAVE j <= k
      <3>1. CASE k = Len(cps) + 1
        BY <1>4, <1>5, <1>6, <2>1, <3>1
      <3>2. CASE k \in 1..Len(cps)
        <4>1. j \in 1..Len(cps)
          BY <1>7, <1>8, <3>2
        <4> QED
          BY <1>6, <3>2, <4>1 DEF ReplayInv, ChainOk
      <3> QED
        BY <1>8, <3>1, <3>2
    <2> QED
      BY <1>2, <1>6, <2>1, <2>2 DEF ChainOk
  <1>10. Placed'
    <2> SUFFICES ASSUME PickIntent(log) # None
                 PROVE  /\ truth \in 1..now'
                        /\ \A k \in 1..Len(cps') :
                              IF PickIntent(log) <= cps'[k].size THEN truth <= cps'[k].ts
                                                                 ELSE cps'[k].ts <= truth
      BY <1>2 DEF Placed
    <2>1. truth \in 1..now /\ PickIntent(log) \in 1..Len(log)
      BY FirstIntent DEF ReplayInv, Placed, At
    <2>2. \A k \in 1..Len(cps) : IF PickIntent(log) <= cps[k].size THEN truth <= cps[k].ts
                                                                   ELSE cps[k].ts <= truth
      BY DEF ReplayInv, Placed
    <2>3. truth \in 1..now'
      BY <1>1, <1>3, <2>1
    <2>4. PickIntent(log) <= c.size /\ truth <= c.ts
      BY <1>3, <1>4, <1>5, <2>1
    <2>5. ASSUME NEW k \in 1..Len(cps')
          PROVE  IF PickIntent(log) <= cps'[k].size THEN truth <= cps'[k].ts
                                                    ELSE cps'[k].ts <= truth
      <3>1. CASE k \in 1..Len(cps)
        BY <1>6, <2>2, <3>1
      <3>2. CASE k = Len(cps) + 1
        BY <1>6, <2>4, <3>2
      <3> QED
        BY <1>8, <3>1, <3>2
    <2> QED
      BY <2>3, <2>5
  <1> QED
    BY <1>1, <1>2, <1>3, <1>9, <1>10 DEF ReplayInv

\* Every step keeps the invariant.
LEMMA ReplayInvStep == ReplayInv /\ [Next]_vars => ReplayInv'
  <1> SUFFICES ASSUME ReplayInv, [Next]_vars
               PROVE  ReplayInv'
    OBVIOUS
  <1>0. log \in Seq(Receipt) /\ \A k : At(log, k) \subseteq Nat
    BY DEF ReplayInv, At
  <1>1. CASE WitnessKey
    <2>1. PICK k \in RootKeys : Untimed([kind |-> "key", kid |-> k])
      BY <1>1 DEF WitnessKey
    <2>2. [kind |-> "key", kid |-> k] \in Receipt
      BY DEF Receipt
    <2> QED
      BY <2>1, <2>2, OtherReceipt
  <1>2. CASE EnrolRoot
    <2>1. PICK k \in RootKeys, p \in RootKeys \cup {None}, self \in BOOLEAN, link \in BOOLEAN :
             Untimed([kind |-> "root", kid |-> k, prev |-> p, prevSig |-> link,
                      selfSig |-> self])
      BY <1>2 DEF EnrolRoot
    <2>2. [kind |-> "root", kid |-> k, prev |-> p, prevSig |-> link, selfSig |-> self]
             \in Receipt
      BY DEF Receipt
    <2> QED
      BY <2>1, <2>2, OtherReceipt
  <1>3. CASE ReviseAgent
    <2>1. [kind |-> "lineage.revised"] \in Receipt
      BY DEF Receipt
    <2> QED
      BY <1>3, <2>1, OtherReceipt DEF ReviseAgent
  <1>4. CASE BindPrincipal
    <2>1. PICK s \in RootKeys, k \in RuntimeKeys, w \in Windows, c \in SUBSET At(log, "bound") :
             Untimed([kind |-> "bound", signer |-> s, revision |-> Revision(log),
                      runtime |-> k, win |-> w, concurrent |-> c])
      BY <1>4 DEF BindPrincipal
    <2>2. Revision(log) \in Nat
      <3>1. Len(log) \in Nat /\ {Birthtag} \cup At(log, "lineage.revised") \subseteq 0..(Len(log) + 1)
        BY <1>0 DEF At, Birthtag
      <3> QED
        BY <3>1, MaxIsGreatest DEF Revision
    <2>3. c \in SUBSET Nat
      BY <1>0
    <2>4. [kind |-> "bound", signer |-> s, revision |-> Revision(log),
           runtime |-> k, win |-> w, concurrent |-> c] \in Receipt
      BY <2>2, <2>3 DEF Receipt
    <2> QED
      BY <2>1, <2>4, OtherReceipt
  <1>5. \A d \in Docs : d \in Document
    BY <1>0 DEF Docs, Document, None, Elsewhere
  <1>6. CASE IssueGrant
    <2>1. PICK s \in RootKeys, d \in Docs, a \in {Birthtag, Imported} :
             Untimed([kind |-> "issued", signer |-> s, subject |-> a, doc |-> d])
      BY <1>6 DEF IssueGrant
    <2>2. a \in Int /\ d \in Document
      BY <1>5 DEF Birthtag, Imported
    <2>3. [kind |-> "issued", signer |-> s, subject |-> a, doc |-> d] \in Receipt
      BY <2>2 DEF Receipt
    <2> QED
      BY <2>1, <2>3, OtherReceipt
  <1>7. Instants \cup {None} \subseteq Nat
    BY ReplayAssumption DEF Instants, None
  <1>8. CASE ReviseGrant
    <2>1. PICK s \in RootKeys, d \in Docs, g \in At(log, "issued"), v \in {2, 3}, t \in Instants :
             Untimed([kind |-> "revised", signer |-> s, grant |-> g, version |-> v,
                      prev |-> v - 1, eff |-> t, doc |-> d])
      BY <1>8 DEF ReviseGrant
    <2>2. g \in Nat /\ v \in Nat /\ v - 1 \in Nat /\ t \in Nat /\ d \in Document
      BY <1>0, <1>5, <1>7
    <2>3. [kind |-> "revised", signer |-> s, grant |-> g, version |-> v,
           prev |-> v - 1, eff |-> t, doc |-> d] \in Receipt
      BY <2>2 DEF Receipt
    <2> QED
      BY <2>1, <2>3, OtherReceipt
  <1>9. CASE RevokeGrant
    <2>1. PICK s \in RootKeys, g \in At(log, "issued"), t \in Instants \cup {None} :
             Untimed([kind |-> "revoked", signer |-> s, grant |-> g, eff |-> t])
      BY <1>9 DEF RevokeGrant
    <2>2. [kind |-> "revoked", signer |-> s, grant |-> g, eff |-> t] \in Receipt
      BY <1>0, <1>7 DEF Receipt
    <2> QED
      BY <2>1, <2>2, OtherReceipt
  <1>10. CASE UNCHANGED vars
    BY <1>10 DEF vars, ReplayInv, ChainOk, Placed
  <1> QED
    BY <1>1, <1>2, <1>3, <1>4, <1>6, <1>8, <1>9, <1>10, IntentStep, CheckpointStep DEF Next

\* In every state of every behaviour the chain covers a growing log and the intent lies
\* between the checkpoints before it and the ones that cover it.
THEOREM ReplayInvariance == Spec => []ReplayInv
  BY ReplayInvInit, ReplayInvStep, PTL DEF Spec

-------------------------------------------------------------------------------
(***************************************************************************)
(* The interval.                                                           *)
(***************************************************************************)
\* What a checkpoint's clamped time is: the earliest independent time of it or a later
\* one.
LEMMA ClampedTime ==
    ASSUME ChainOk, NEW k \in Timed(cps)
    PROVE  /\ \E j \in Timed(cps) : k <= j /\ Clamped(cps, k) = cps[j].anchor
           /\ \A j \in Timed(cps) : k <= j => Clamped(cps, k) <= cps[j].anchor
           /\ Clamped(cps, k) \in Nat
  <1> DEFINE later == {cps[j].anchor : j \in {j \in Timed(cps) : k <= j}}
  <1>1. Timed(cps) \subseteq 1..Len(cps) /\ Len(cps) \in Nat
    BY CheckpointFields DEF Timed
  <1>2. k <= k
    BY <1>1
  <1>3. later \subseteq Nat
    BY <1>1, CheckpointFields
  <1>4. cps[k].anchor \in later
    BY <1>2
  <1>5. Min(later) \in later /\ \A y \in later : Min(later) <= y
    BY <1>3, <1>4, MinIsLeast
  <1> QED
    BY <1>3, <1>5 DEF Clamped

\* The interval's ends.
LEMMA IntervalEnds ==
    ASSUME ReplayInv, Recorded
    PROVE  IntervalSound /\ Interval.lower \in Nat /\ Interval.upper \in Nat
  <1> DEFINE x == PickIntent(log)
             B == Before(cps, x)
             A == After(cps, x)
  <1>1. ChainOk /\ x \in Nat \ {0} /\ truth \in Nat /\ 1 <= truth
    BY FirstIntent DEF ReplayInv, Recorded, Placed, Instants
  <1>2. /\ Len(cps) \in Nat /\ Timed(cps) \subseteq 1..Len(cps)
        /\ \A k \in Timed(cps) : /\ cps[k].size \in Nat /\ cps[k].ts \in Nat
                                 /\ cps[k].anchor \in Nat /\ cps[k].anchor # None
                                 /\ cps[k].ts <= cps[k].anchor
    BY <1>1, CheckpointFields DEF Timed, ChainOk
  <1>3. \A j, k \in Timed(cps) : j <= k => cps[j].size <= cps[k].size
    BY <1>1, <1>2 DEF ChainOk
  <1>4. \A k \in Timed(cps) : IF x <= cps[k].size THEN truth <= cps[k].ts
                                                  ELSE cps[k].ts <= truth
    BY <1>2 DEF ReplayInv, Placed, Recorded
  <1>5. /\ Interval.lower = IF B = {} THEN None ELSE Clamped(cps, Max(B))
        /\ Interval.upper = IF A = {} THEN None ELSE Clamped(cps, Min(A))
    BY DEF Interval, IntervalFor
  <1>6. B # {} => Max(B) \in B
    <2>1. B \subseteq 0..Len(cps)
      BY <1>2 DEF Before
    <2> QED
      BY <1>2, <2>1, MaxIsGreatest
  <1>7. A # {} => Min(A) \in A
    <2>1. A \subseteq Nat
      BY <1>2 DEF After
    <2> QED
      BY <2>1, MinIsLeast
  <1>8. /\ \A k \in B : k \in Timed(cps) /\ cps[k].size < x
        /\ \A k \in A : k \in Timed(cps) /\ x <= cps[k].size
    BY <1>1, <1>2 DEF Before, After
  <1> HIDE DEF x, B, A
  <1>9. ASSUME A # {}
        PROVE  truth <= Interval.upper /\ Interval.upper \in Nat
    <2>1. Interval.upper = Clamped(cps, Min(A)) /\ Min(A) \in Timed(cps) /\ x <= cps[Min(A)].size
      BY <1>5, <1>7, <1>8, <1>9
    <2>2. PICK j \in Timed(cps) : Min(A) <= j /\ Clamped(cps, Min(A)) = cps[j].anchor
      BY <1>1, <2>1, ClampedTime
    <2>3. x <= cps[j].size
      BY <1>1, <1>2, <1>3, <2>1, <2>2
    <2> QED
      BY <1>1, <1>2, <1>4, <2>1, <2>2, <2>3
  <1>10. ASSUME B # {}
         PROVE  /\ Interval.lower \in Nat
                /\ \A j \in Timed(cps) : Max(B) <= j => Interval.lower <= cps[j].anchor
    BY <1>1, <1>5, <1>6, <1>8, <1>10, ClampedTime
  <1>11. Interval.lower \in Nat /\ Interval.upper \in Nat
    BY <1>5, <1>9, <1>10 DEF None
  <1>12. Interval.upper # None => truth <= Interval.upper
    BY <1>5, <1>9
  <1>13. Bounded(Interval) => Interval.lower <= Interval.upper
    <2> SUFFICES ASSUME Bounded(Interval)
                 PROVE  Interval.lower <= Interval.upper
      OBVIOUS
    <2>1. A # {} /\ B # {}
      BY <1>5 DEF Bounded
    <2>2. Max(B) \in Timed(cps) /\ Min(A) \in Timed(cps) /\ Interval.upper = Clamped(cps, Min(A))
      BY <1>5, <1>6, <1>7, <1>8, <2>1
    <2>3. cps[Max(B)].size < x /\ x <= cps[Min(A)].size
      BY <1>6, <1>7, <1>8, <2>1
    <2>4. ~(Min(A) <= Max(B))
      BY <1>1, <1>2, <1>3, <2>2, <2>3
    <2>5. PICK j \in Timed(cps) : Min(A) <= j /\ Clamped(cps, Min(A)) = cps[j].anchor
      BY <1>1, <2>2, ClampedTime
    <2>6. Max(B) <= j
      BY <1>2, <2>2, <2>4, <2>5
    <2> QED
      BY <1>10, <2>1, <2>2, <2>5, <2>6
  <1>14. PromptBefore => Interval.lower <= truth
    <2> SUFFICES ASSUME PromptBefore
                 PROVE  Interval.lower <= truth
      OBVIOUS
    <2>1. CASE B = {}
      BY <1>1, <1>5, <2>1 DEF None
    <2>2. CASE B # {}
      <3>1. Max(B) \in Timed(cps) /\ cps[Max(B)].size < x /\ cps[Max(B)].anchor = cps[Max(B)].ts
        BY <1>6, <1>8, <2>2 DEF PromptBefore, B, x
      <3>2. cps[Max(B)].ts <= truth
        BY <1>1, <1>2, <1>4, <3>1
      <3>3. Max(B) <= Max(B)
        BY <1>2, <3>1
      <3>4. Interval.lower <= cps[Max(B)].anchor
        BY <1>10, <2>2, <3>1, <3>3
      <3> QED
        BY <1>1, <1>2, <1>11, <3>1, <3>2, <3>4
    <2> QED
      BY <2>1, <2>2
  <1> QED
    BY <1>11, <1>12, <1>13, <1>14 DEF IntervalSound

\* interval_for: whatever checkpoints, slow anchors and post-dated ones follow, the
\* interval is not inverted, does not end before the intent, and does not start after
\* it when the earlier checkpoints were timed promptly.
THEOREM IntervalIsSound == Spec => []IntervalSound
  <1>1. ReplayInv => IntervalSound
    BY IntervalEnds DEF IntervalSound
  <1> QED
    BY <1>1, ReplayInvariance, PTL

-------------------------------------------------------------------------------
(***************************************************************************)
(* Authority and identity.                                                 *)
(***************************************************************************)
\* derive_authority: a grant whose authority is VERIFIED had not been revoked at the
\* instant of the intent, and its newest version then in force allowed it.
LEMMA GrantStood ==
    ASSUME ReplayInv, Granted
    PROVE  VerifiedWithinGrant
  <1> DEFINE x == PickIntent(log)
             g == log[x].grant
             versions == Revisions(log, g)
             inForce == {i \in versions : log[i].eff <= truth}
             newest == {i \in inForce : \A j \in inForce : log[j].version <= log[i].version}
             docs == {log[i].doc : i \in IF inForce = {} THEN {g} ELSE newest}
             past == {i \in versions : log[i].eff <= Interval.lower}
  <1>1. /\ ~GrantRewritten(log, g)
        /\ g \in RootValid(log, "issued")
        /\ GrantChainVerified(log, g, Interval)
    BY DEF Granted, Authority, Interval
  <1>2. Bounded(Interval) /\ ~RevokedBy(log, g, Interval.upper) /\ DocsCover(log, g, Interval)
    BY <1>1 DEF GrantChainVerified
  <1>3. /\ Interval.lower \in Nat /\ Interval.upper \in Nat
        /\ truth \in Nat /\ truth <= Interval.upper
    BY <1>2, IntervalEnds DEF Granted, IntervalSound, Bounded, ReplayInv, Recorded, Placed
  <1>4. \A i \in DOMAIN log : log[i] \in Receipt
    BY ElementOfSeq DEF ReplayInv
  <1>5. /\ log[g].doc \in Document
        /\ \A i \in versions :
              log[i].version \in Nat /\ log[i].eff \in Nat /\ log[i].doc \in Document
        /\ \A r \in RootValid(log, "revoked") : log[r].eff \in Nat
    BY <1>1, <1>4, Fields DEF Revisions, RootValid, At
  <1>6. \A r \in RootValid(log, "revoked") : log[r].grant = g => log[r].eff > truth
    BY <1>2, <1>3, <1>5 DEF RevokedBy
  <1>7. ASSUME Interval.lower <= truth, NEW d \in DocsOver(log, g, Interval), d \in Document
        PROVE  d.allows /\ d.win[1] <= truth /\ truth <= d.win[2]
    <2>1. Covers(d.win, Interval) /\ d.allows
      BY <1>2, <1>7 DEF DocsCover
    <2>2. d.win[1] \in Nat /\ d.win[2] \in Nat
      BY <1>7, ReplayAssumption DEF Document, Instants
    <2> QED
      BY <1>3, <1>7, <2>1, <2>2 DEF Covers
  <1>8. ASSUME Interval.lower <= truth, NEW d \in docs
        PROVE  d \in DocsOver(log, g, Interval) /\ d \in Document
    <2>1. past \subseteq inForce
      BY <1>3, <1>5, <1>8
    <2>2. CASE inForce = {}
      <3>1. d = log[g].doc /\ past = {}
        BY <1>8, <2>1, <2>2
      <3>2. DocAt(log, g, Interval.lower) = log[g].doc
        BY <3>1 DEF DocAt
      <3> QED
        BY <1>5, <3>1, <3>2 DEF DocsOver
    <2>3. CASE inForce # {}
      <3>1. PICK i \in newest : d = log[i].doc
        BY <1>8, <2>3
      <3>2. i \in versions /\ log[i].eff <= truth /\ d \in Document
        BY <1>5, <3>1
      <3>3. CASE Interval.lower < log[i].eff
        <4>1. log[i].eff <= Interval.upper
          BY <1>3, <1>5, <3>2
        <4> QED
          BY <3>1, <3>2, <3>3, <4>1 DEF DocsOver
      <3>4. CASE log[i].eff <= Interval.lower
        <4>1. i \in past /\ \A j \in past : log[j].version <= log[i].version
          BY <2>1, <3>1, <3>2, <3>4
        <4> DEFINE top == CHOOSE k \in past : \A j \in past : log[j].version <= log[k].version
        <4>2. top \in past /\ \A j \in past : log[j].version <= log[top].version
          BY <4>1
        <4> HIDE DEF top
        <4>3. log[top].version = log[i].version
          BY <1>5, <4>1, <4>2
        <4>4. top = i
          BY <1>1, <3>2, <4>2, <4>3 DEF GrantRewritten
        <4>5. DocAt(log, g, Interval.lower) = log[i].doc
          BY <4>1, <4>4 DEF DocAt, top
        <4> QED
          BY <3>1, <3>2, <4>5 DEF DocsOver
      <3> QED
        BY <1>3, <1>5, <3>2, <3>3, <3>4
    <2> QED
      BY <2>2, <2>3
  <1> HIDE DEF docs
  <1>9. Interval.lower <= truth =>
           \A d \in docs : d.allows /\ d.win[1] <= truth /\ truth <= d.win[2]
    BY <1>7, <1>8
  <1> QED
    BY <1>6, <1>9 DEF VerifiedWithinGrant, docs

\* Authority VERIFIED is never given on a grant that was revoked, out of its window or
\* did not allow the action at the instant the intent was really recorded.
THEOREM VerifiedIsWithinGrant == Spec => []VerifiedWithinGrant
  <1>1. ReplayInv => VerifiedWithinGrant
    BY GrantStood DEF VerifiedWithinGrant
  <1> QED
    BY <1>1, ReplayInvariance, PTL

\* Identity and authority VERIFIED together are about one binding of the agent's
\* current revision, whose runtime key signed the intent (binding_substituted).
THEOREM NothingIsSubstituted == Spec => []NoSubstitution
  <1>1. ReplayInv => NoSubstitution
    <2> SUFFICES ASSUME ReplayInv, Granted, Identity(log, cps) = "VERIFIED"
                 PROVE  NoSubstitution
      BY DEF NoSubstitution
    <2> DEFINE x == PickIntent(log)
               iv == IntervalFor(cps, x)
               fit == {b \in RootValid(log, "bound") :
                          /\ Bounded(iv) /\ Covers(log[b].win, iv)
                          /\ log[b].revision = Revision(log)
                          /\ log[b].runtime \in log[x].signers}
               b == MatchBinding(log, cps)
    <2>1. b = MinOf(fit) /\ b # None
      BY DEF Identity, MatchBinding
    <2>2. RootValid(log, "bound") \subseteq At(log, "bound")
      BY DEF RootValid
    <2>3. fit \subseteq Nat
      BY <2>2 DEF ReplayInv, At
    <2>4. b \in fit
      BY <2>1, <2>3, MinIsLeast DEF MinOf
    <2>5. ~BindingSubstituted(log, log[x].grant, b)
      BY DEF Granted, Authority, BindingId
    <2>6. \A i \in {log[x].grant} \cup Revisions(log, log[x].grant) :
             log[i].doc.binding \in {None, b}
      BY <2>1, <2>5 DEF BindingSubstituted
    <2>7. b \in At(log, "bound") /\ log[b].runtime \in log[x].signers
             /\ log[b].revision = Revision(log)
      BY <2>2, <2>4
    <2> HIDE DEF b
    <2> QED
      BY <2>6, <2>7 DEF NoSubstitution
  <1> QED
    BY <1>1, ReplayInvariance, PTL

-------------------------------------------------------------------------------
(***************************************************************************)
(* The organisation's roots.  The replay is a recursion over the log, and  *)
(* what it computes is shown by induction on the number of receipts.       *)
(***************************************************************************)
\* A set that holds zero, and with every number the next one, leaves no least number
\* out.
LEMMA Induction ==
    ASSUME NEW S, 0 \in S, \A n \in Nat : n \in S => n + 1 \in S
    PROVE  Nat \subseteq S
  <1> DEFINE T == Nat \ S
  <1> SUFFICES ASSUME T # {} PROVE FALSE
    OBVIOUS
  <1>1. Min(T) \in T /\ \A y \in T : Min(T) <= y
    <2>1. T \subseteq Nat
      OBVIOUS
    <2> HIDE DEF T
    <2> QED
      BY <2>1, MinIsLeast
  <1> DEFINE x == Min(T)
  <1> HIDE DEF x
  <1>2. x \in Nat /\ x \notin S /\ \A y \in T : x <= y
    BY <1>1 DEF x
  <1>3. x - 1 \in Nat /\ ~(x <= x - 1) /\ x = (x - 1) + 1
    BY <1>2
  <1>4. x - 1 \in S
    BY <1>2, <1>3
  <1> QED
    BY <1>2, <1>3, <1>4

\* The replay exists, and its equations hold.
LEMMA RootsDef ==
    ASSUME NEW lg, Len(lg) \in Nat
    PROVE  /\ RootsUpTo(lg)[0] = NoRoot
           /\ \A i \in 1..Len(lg) : RootsUpTo(lg)[i] = Enrol(lg, RootsUpTo(lg)[i - 1], i)
  <1> DEFINE Def(g, n) == [i \in 0..n |-> IF i = 0 THEN NoRoot ELSE Enrol(lg, g[i - 1], i)]
             S == {n \in Nat : \E g : g = Def(g, n)}
  <1>1. 0 \in S
    <2> DEFINE g == [i \in 0..0 |-> NoRoot]
    <2>1. g = Def(g, 0)
      OBVIOUS
    <2> QED
      BY <2>1
  <1>2. ASSUME NEW n \in Nat, n \in S PROVE n + 1 \in S
    <2>1. PICK g : g = Def(g, n)
      BY <1>2
    <2> DEFINE h == [i \in 0..(n + 1) |-> IF i <= n THEN g[i] ELSE Enrol(lg, g[n], n + 1)]
    <2>2. \A i \in 0..(n + 1) : h[i] = IF i = 0 THEN NoRoot ELSE Enrol(lg, h[i - 1], i)
      <3> SUFFICES ASSUME NEW i \in 0..(n + 1)
                   PROVE  h[i] = IF i = 0 THEN NoRoot ELSE Enrol(lg, h[i - 1], i)
        OBVIOUS
      <3>1. CASE i = 0
        BY <2>1, <3>1
      <3>2. CASE i # 0 /\ i <= n
        <4>1. i \in 0..n /\ i - 1 \in 0..(n + 1) /\ i - 1 <= n
          BY <3>2
        <4>2. h[i] = g[i] /\ h[i - 1] = g[i - 1]
          BY <3>2, <4>1
        <4>3. g[i] = Enrol(lg, g[i - 1], i)
          BY <2>1, <3>2, <4>1
        <4> QED
          BY <3>2, <4>2, <4>3
      <3>3. CASE i = n + 1
        <4>1. h[i] = Enrol(lg, g[n], i) /\ h[i - 1] = g[n] /\ i # 0
          BY <3>3
        <4> QED
          BY <4>1
      <3> QED
        BY <3>1, <3>2, <3>3
    <2>3. h = Def(h, n + 1)
      BY <2>2
    <2>4. \E f : f = Def(f, n + 1)
      <3> HIDE DEF h, Def
      <3> QED
        BY <2>3
    <2>5. n + 1 \in Nat
      OBVIOUS
    <2> HIDE DEF Def
    <2> QED
      BY <2>4, <2>5
  <1>3. Len(lg) \in S
    <2> HIDE DEF S
    <2>1. Nat \subseteq S
      BY <1>1, <1>2, Induction
    <2> QED
      BY <2>1
  <1>4. PICK g : g = Def(g, Len(lg))
    BY <1>3
  <1>5. PICK f : f = RootsUpTo(lg) /\ f = Def(f, Len(lg))
    BY <1>4 DEF RootsUpTo
  <1>6. \A i \in 0..Len(lg) : f[i] = IF i = 0 THEN NoRoot ELSE Enrol(lg, f[i - 1], i)
    BY <1>5
  <1>7. f[0] = NoRoot /\ \A i \in 1..Len(lg) : f[i] = Enrol(lg, f[i - 1], i)
    BY <1>6
  <1> QED
    BY <1>5, <1>7

\* A state of the replay of n receipts: the timeline names receipts among them.
Replayed(n) == [org : Nat, timeline : Seq(1..n), conflict : BOOLEAN]

\* One receipt extends the timeline or leaves it, and never clears a conflict.
LEMMA EnrolExtends ==
    ASSUME NEW lg, NEW n \in Nat, NEW st \in Replayed(n)
    PROVE  /\ Enrol(lg, st, n + 1) \in Replayed(n + 1)
           /\ IsPrefix(st.timeline, Enrol(lg, st, n + 1).timeline)
           /\ st.conflict => Enrol(lg, st, n + 1).conflict
  <1> DEFINE t == st.timeline
             new == Enrol(lg, st, n + 1)
  <1>1. /\ st = [org |-> st.org, timeline |-> t, conflict |-> st.conflict]
        /\ st.org \in Nat /\ t \in Seq(1..n) /\ st.conflict \in BOOLEAN
    BY DEF Replayed
  <1>2. n + 1 \in Nat /\ n + 1 \in 1..(n + 1) /\ 1..n \subseteq 1..(n + 1)
    OBVIOUS
  <1>3. t \in Seq(1..(n + 1))
    BY <1>1, <1>2
  <1>4. \/ new = st
        \/ t = <<>> /\ new = [st EXCEPT !.org = n + 1, !.timeline = <<n + 1>>]
        \/ new = [st EXCEPT !.timeline = Append(@, n + 1)]
        \/ new = [st EXCEPT !.conflict = TRUE]
    BY DEF Enrol
  <1>5. \/ new.timeline = t
        \/ t = <<>> /\ new.timeline = <<n + 1>>
        \/ new.timeline = Append(t, n + 1)
    BY <1>1, <1>4
  <1>6. new.org \in Nat /\ new.conflict \in BOOLEAN /\ (st.conflict => new.conflict)
    BY <1>1, <1>2, <1>4
  <1>7. new = [org |-> new.org, timeline |-> new.timeline, conflict |-> new.conflict]
    BY <1>1, <1>4
  <1> HIDE DEF t, new
  <1>8. new.timeline \in Seq(1..(n + 1))
    <2>1. <<n + 1>> \in Seq(1..(n + 1))
      BY <1>2
    <2>2. Append(t, n + 1) \in Seq(1..(n + 1))
      BY <1>2, <1>3, AppendProperties
    <2> QED
      BY <1>3, <1>5, <2>1, <2>2
  <1>9. IsPrefix(t, new.timeline)
    <2>1. CASE new.timeline = t
      BY <1>1, <2>1 DEF IsPrefix
    <2>2. CASE t = <<>> /\ new.timeline = <<n + 1>>
      <3>1. Len(t) = 0 /\ Len(new.timeline) = 1
        BY <2>2
      <3>2. SubSeq(t, 1, 0) = <<>> /\ SubSeq(new.timeline, 1, 0) = <<>>
        BY <1>3, <1>8, SubSeqEmpty
      <3> QED
        BY <3>1, <3>2 DEF IsPrefix
    <2>3. CASE new.timeline = Append(t, n + 1)
      <3>1. Len(t) \in Nat /\ Len(new.timeline) = Len(t) + 1
        BY <1>3, <2>3
      <3>2. SubSeq(t, 1, Len(t)) = SubSeq(new.timeline, 1, Len(t))
        BY <1>2, <1>3, <2>3, <3>1
      <3> QED
        BY <3>1, <3>2 DEF IsPrefix
    <2> QED
      BY <1>5, <2>1, <2>2, <2>3
  <1> QED
    BY <1>6, <1>7, <1>8, <1>9 DEF Replayed, t, new

\* The replay's states, for every prefix of the log.
LEMMA RootsTyped ==
    ASSUME NEW lg, Len(lg) \in Nat
    PROVE  \A i \in 0..Len(lg) : RootsUpTo(lg)[i] \in Replayed(i)
  <1> DEFINE S == {i \in Nat : i <= Len(lg) => RootsUpTo(lg)[i] \in Replayed(i)}
  <1>1. 0 \in S
    <2>1. NoRoot \in Replayed(0)
      BY DEF NoRoot, Replayed, None
    <2> QED
      BY <2>1, RootsDef
  <1>2. ASSUME NEW i \in Nat, i \in S PROVE i + 1 \in S
    <2> SUFFICES ASSUME i + 1 <= Len(lg) PROVE RootsUpTo(lg)[i + 1] \in Replayed(i + 1)
      OBVIOUS
    <2>1. i + 1 \in 1..Len(lg) /\ (i + 1) - 1 = i
      OBVIOUS
    <2>2. RootsUpTo(lg)[i] \in Replayed(i)
      BY <1>2, <2>1
    <2>3. RootsUpTo(lg)[i + 1] = Enrol(lg, RootsUpTo(lg)[i], i + 1)
      BY <2>1, RootsDef
    <2> QED
      BY <2>2, <2>3, EnrolExtends
  <1>3. Nat \subseteq S
    <2> HIDE DEF S
    <2> QED
      BY <1>1, <1>2, Induction
  <1> QED
    BY <1>3

\* What was replayed stays as it was when a receipt is appended that is no key entry:
\* the enrolments that were valid still are.
LEMMA RootsKept ==
    ASSUME NEW lg \in Seq(Receipt), NEW e \in Receipt, NEW lg2, lg2 = Append(lg, e),
           At(lg2, "key") = At(lg, "key")
    PROVE  \A i \in 0..Len(lg) : RootsUpTo(lg2)[i] = RootsUpTo(lg)[i]
  <1>1. /\ Len(lg) \in Nat /\ Len(lg2) = Len(lg) + 1 /\ Len(lg2) \in Nat
        /\ \A i \in 1..Len(lg) : lg2[i] = lg[i]
    BY AppendProperties
  <1>2. Witnessed(lg2) = Witnessed(lg)
    <2>1. \A i \in At(lg, "key") : lg2[i] = lg[i]
      BY <1>1 DEF At
    <2> QED
      BY <2>1 DEF Witnessed
  <1> DEFINE S == {i \in Nat : i <= Len(lg) => RootsUpTo(lg2)[i] = RootsUpTo(lg)[i]}
  <1>3. 0 \in S
    BY <1>1, RootsDef
  <1>4. ASSUME NEW i \in Nat, i \in S PROVE i + 1 \in S
    <2> SUFFICES ASSUME i + 1 <= Len(lg) PROVE RootsUpTo(lg2)[i + 1] = RootsUpTo(lg)[i + 1]
      OBVIOUS
    <2> DEFINE st == RootsUpTo(lg)[i]
    <2>1. i + 1 \in 1..Len(lg) /\ i + 1 \in 1..Len(lg2) /\ (i + 1) - 1 = i /\ i \in 0..Len(lg)
      BY <1>1
    <2>2. RootsUpTo(lg2)[i] = st
      BY <1>4, <2>1
    <2>3. /\ RootsUpTo(lg)[i + 1] = Enrol(lg, st, i + 1)
          /\ RootsUpTo(lg2)[i + 1] = Enrol(lg2, st, i + 1)
      BY <1>1, <2>1, <2>2, RootsDef
    <2>4. st.timeline \in Seq(1..i)
      <3>1. st \in Replayed(i)
        BY <1>1, <2>1, RootsTyped
      <3> QED
        BY <3>1 DEF Replayed
    <2>5. lg2[i + 1] = lg[i + 1]
      BY <1>1, <2>1
    <2>6. st.timeline # <<>> => lg2[Last(st.timeline)] = lg[Last(st.timeline)]
      <3> HIDE DEF st
      <3> SUFFICES ASSUME st.timeline # <<>> PROVE lg2[Last(st.timeline)] = lg[Last(st.timeline)]
        OBVIOUS
      <3>1. Last(st.timeline) \in 1..i
        BY <2>4 DEF Last
      <3> QED
        BY <1>1, <2>1, <3>1
    <2>7. Enrol(lg2, st, i + 1) = Enrol(lg, st, i + 1)
      <3> HIDE DEF st
      <3> QED
        BY <1>2, <2>5, <2>6 DEF Enrol, ValidEnrolment
    <2> QED
      BY <2>3, <2>7
  <1>5. Nat \subseteq S
    <2> HIDE DEF S
    <2> QED
      BY <1>3, <1>4, Induction
  <1> QED
    BY <1>5

\* So one more receipt can only extend the timeline, or add a conflict.
LEMMA RootsExtended ==
    ASSUME NEW lg \in Seq(Receipt), NEW e \in Receipt, NEW lg2, lg2 = Append(lg, e),
           At(lg2, "key") = At(lg, "key")
    PROVE  /\ IsPrefix(ReplayRoots(lg).timeline, ReplayRoots(lg2).timeline)
           /\ ReplayRoots(lg).conflict => ReplayRoots(lg2).conflict
  <1> DEFINE n == Len(lg)
             st == RootsUpTo(lg)[n]
  <1>1. n \in Nat /\ Len(lg2) = n + 1 /\ Len(lg2) \in Nat
    BY AppendProperties
  <1>2. n \in 0..n /\ n + 1 \in 1..(n + 1) /\ (n + 1) - 1 = n
    BY <1>1
  <1>3. RootsUpTo(lg2)[n] = st
    BY <1>2, RootsKept
  <1>4. RootsUpTo(lg2)[n + 1] = Enrol(lg2, st, n + 1)
    BY <1>1, <1>2, <1>3, RootsDef
  <1>5. st \in Replayed(n)
    BY <1>1, <1>2, RootsTyped
  <1>6. ReplayRoots(lg) = st /\ ReplayRoots(lg2) = Enrol(lg2, st, n + 1)
    BY <1>1, <1>4 DEF ReplayRoots
  <1> HIDE DEF n, st
  <1> QED
    BY <1>1, <1>5, <1>6, EnrolExtends

\* Every step leaves the log or appends one receipt to it.
LEMMA LogSteps ==
    ASSUME [Next]_vars
    PROVE  log' = log \/ \E e : log' = Append(log, e)
  <1> DEFINE Writes == \E e : Write(e)
  <1>1. \A e : Untimed(e) => Write(e)
    BY DEF Untimed
  <1>2. WitnessKey \/ EnrolRoot \/ ReviseAgent => Writes
    BY <1>1 DEF WitnessKey, EnrolRoot, ReviseAgent
  <1>3. BindPrincipal => Writes
    BY <1>1 DEF BindPrincipal
  <1>4. IssueGrant \/ RevokeGrant => Writes
    BY <1>1 DEF IssueGrant, RevokeGrant
  <1>5. ReviseGrant => Writes
    BY <1>1 DEF ReviseGrant
  <1>6. RecordIntent => Writes
    BY DEF RecordIntent
  <1>7. Writes => \E e : log' = Append(log, e)
    BY DEF Write
  <1>8. Checkpoint => log' = log
    BY DEF Checkpoint
  <1>9. UNCHANGED vars => log' = log
    BY DEF vars
  <1> HIDE DEF Writes
  <1> QED
    BY <1>2, <1>3, <1>4, <1>5, <1>6, <1>7, <1>8, <1>9 DEF Next

\* What the log says about the organisation's roots is append-only like the log: no
\* receipt but a key entry unseats a root, reorders the timeline or clears a conflict,
\* in logs of every length (replay_roots).
THEOREM RootHistoryIsKept == Spec => RootHistoryKept
  <1>1. ASSUME ReplayInv, ReplayInv', [Next]_vars, At(log', "key") = At(log, "key")
        PROVE  /\ IsPrefix(ReplayRoots(log).timeline, ReplayRoots(log').timeline)
               /\ ReplayRoots(log).conflict => ReplayRoots(log').conflict
    <2>1. log \in Seq(Receipt) /\ log' \in Seq(Receipt)
      BY <1>1 DEF ReplayInv
    <2>2. CASE log' = log
      <3>1. ReplayRoots(log) \in Replayed(Len(log))
        BY <2>1, RootsTyped DEF ReplayRoots
      <3>2. ReplayRoots(log).timeline \in Seq(1..Len(log))
        BY <3>1 DEF Replayed
      <3> QED
        BY <2>2, <3>2 DEF IsPrefix
    <2>3. ASSUME NEW e, log' = Append(log, e)
          PROVE  /\ IsPrefix(ReplayRoots(log).timeline, ReplayRoots(log').timeline)
                 /\ ReplayRoots(log).conflict => ReplayRoots(log').conflict
      <3>1. e \in Receipt
        BY <2>1, <2>3
      <3> QED
        BY <1>1, <2>1, <2>3, <3>1, RootsExtended
    <2> QED
      BY <1>1, <2>2, <2>3, LogSteps
  <1>2. ReplayInv /\ ReplayInv' /\ [Next]_vars =>
          [At(log', "key") = At(log, "key") =>
             /\ IsPrefix(ReplayRoots(log).timeline, ReplayRoots(log').timeline)
             /\ ReplayRoots(log).conflict => ReplayRoots(log').conflict]_vars
    BY <1>1
  <1> QED
    BY <1>2, ReplayInvariance, PTL DEF Spec, RootHistoryKept
===============================================================================
