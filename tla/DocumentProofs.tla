---------------------------- MODULE DocumentProofs ----------------------------
(***************************************************************************)
(* Proofs about the two documents a relying party is handed: the dispute   *)
(* package, for any set of claims, logs of any length and any number of    *)
(* changes between reconciling and submitting; and the certificate, for    *)
(* any number of events and any number of things that are not as they      *)
(* should be.                                                              *)
(***************************************************************************)
EXTENDS Dispute, Certificate, SequenceTheorems, FiniteSetTheorems, WellFoundedInduction, TLAPS

-------------------------------------------------------------------------------
(***************************************************************************)
(* Dispute: the inductive invariant.                                       *)
(***************************************************************************)
Bundle == [log : Logs, rows : SUBSET Nat, exported : SUBSET Nat, manifest : BOOLEAN]

\* A bundle carries receipts its log has.  Logs only grow, so it stays that way and
\* the receipts stay what they are.
Exists(b) == b \in Bundle /\ b.rows \subseteq 1..Len(log[b.log])

\* The package under way; it was reconciled only when it had both sides.
Underway ==
    /\ pair \in [Sides -> Bundle \cup {NoBundle}]
    /\ \A s \in Sides : pair[s] # NoBundle => Exists(pair[s])
    /\ draft # NoDraft => \A s \in Sides : pair[s] # NoBundle

\* A reconciliation that says of two bundles what they say of themselves.
Faithful(rec, a, b, contested) ==
    /\ DOMAIN rec.claims = ClaimsOf(a) \cup ClaimsOf(b) \cup contested
    /\ \A c \in DOMAIN rec.claims : rec.claims[c] = Statement(a, b, c)
    /\ rec.parties[1].export_complete = Party(a).export_complete
    /\ rec.parties[2].export_complete = Party(b).export_complete

\* A package was verified: its reconciliation is faithful, and still is although the
\* logs have gone on.
Answered ==
    result # Refused =>
        /\ \A s \in Sides : Exists(result.bundles[s]) /\ BundleOk(result.bundles[s])
        /\ result.contested \subseteq Claims
        /\ Faithful(result.reconciliation, result.bundles[1], result.bundles[2], result.contested)

DisputeInv == log \in [Logs -> Seq(Receipt)] /\ Underway /\ Answered

-------------------------------------------------------------------------------
(***************************************************************************)
(* Dispute: facts about the definitions.                                   *)
(***************************************************************************)
\* The two sides of a package.
LEMMA TwoSides ==
    ASSUME NEW S, NEW a \in S, NEW b \in S
    PROVE  /\ <<a, b>> \in [Sides -> S]
           /\ <<a, b>>[1] = a /\ <<a, b>>[2] = b
  BY DEF Sides

\* No bundle is the absence of one.
LEMMA NoBundleIsNone == NoBundle \notin Bundle
  BY DEF NoBundle, Bundle, Logs

\* Receipts recorded later change nothing about a bundle that exists.
LEMMA LogsOnlyGrow ==
    ASSUME log \in [Logs -> Seq(Receipt)], NEW l \in Logs, NEW r \in Receipt,
           log' = [log EXCEPT ![l] = Append(@, r)]
    PROVE  /\ log' \in [Logs -> Seq(Receipt)]
           /\ \A b : Exists(b) => Exists(b)'
           /\ \A b : Exists(b) => \A c : Correlated(b, c)' = Correlated(b, c)
           /\ \A b : Exists(b) => \A i \in b.rows : log'[b.log][i] = log[b.log][i]
  <1>1. \A k \in Logs : log[k] \in Seq(Receipt) /\ Len(log[k]) \in Nat
    OBVIOUS
  <1>2. Append(log[l], r) \in Seq(Receipt)
    BY <1>1
  <1>3. log' \in [Logs -> Seq(Receipt)]
    BY <1>2
  <1>4. ASSUME NEW k \in Logs
        PROVE  Len(log'[k]) >= Len(log[k]) /\ \A i \in 1..Len(log[k]) : log'[k][i] = log[k][i]
    <2>1. CASE k = l
      <3>1. log'[k] = Append(log[k], r)
        BY <2>1
      <3> QED
        BY <1>1, <3>1
    <2>2. CASE k # l
      BY <1>1, <2>2
    <2> QED
      BY <2>1, <2>2
  <1>5. ASSUME NEW b, Exists(b)
        PROVE  /\ Exists(b)'
               /\ \A i \in b.rows : log'[b.log][i] = log[b.log][i]
               /\ \A c : Correlated(b, c)' = Correlated(b, c)
    <2>1. b \in Bundle /\ b.log \in Logs /\ b.rows \subseteq 1..Len(log[b.log])
      BY <1>5 DEF Exists, Bundle
    <2>2. \A i \in b.rows : log'[b.log][i] = log[b.log][i]
      BY <1>4, <2>1
    <2>3. Exists(b)'
      <3>1. Len(log[b.log]) \in Nat /\ Len(log'[b.log]) \in Nat /\ Len(log'[b.log]) >= Len(log[b.log])
        BY <1>1, <1>3, <1>4, <2>1
      <3>2. b.rows \subseteq 1..Len(log'[b.log])
        BY <2>1, <3>1
      <3> QED
        BY <2>1, <3>2 DEF Exists
    <2>4. \A c : Correlated(b, c)' = Correlated(b, c)
      BY <2>2 DEF Correlated
    <2> QED
      BY <2>2, <2>3, <2>4
  <1> QED
    BY <1>3, <1>5

\* A faithful reconciliation stays faithful when the receipts stay what they are.
LEMMA FaithfulStays ==
    ASSUME NEW rec, NEW a, NEW b, NEW S,
           \A c : Correlated(a, c)' = Correlated(a, c) /\ Correlated(b, c)' = Correlated(b, c),
           \A i \in a.rows : log'[a.log][i] = log[a.log][i],
           \A i \in b.rows : log'[b.log][i] = log[b.log][i],
           Faithful(rec, a, b, S)
    PROVE  Faithful(rec, a, b, S)'
  <1>1. ClaimsOf(a)' = ClaimsOf(a) /\ ClaimsOf(b)' = ClaimsOf(b)
    BY DEF ClaimsOf
  <1>2. ASSUME NEW c, NEW f
        PROVE  ValuesOf(a, c, f)' = ValuesOf(a, c, f) /\ ValuesOf(b, c, f)' = ValuesOf(b, c, f)
    <2>1. \A i \in Correlated(a, c) : log'[a.log][i] = log[a.log][i]
      BY DEF Correlated
    <2>2. \A i \in Correlated(b, c) : log'[b.log][i] = log[b.log][i]
      BY DEF Correlated
    <2>3. /\ {ValueKey(FieldValue(log'[a.log][i], f)) : i \in Correlated(a, c)}
             = {ValueKey(FieldValue(log[a.log][i], f)) : i \in Correlated(a, c)}
          /\ {ValueKey(FieldValue(log'[b.log][i], f)) : i \in Correlated(b, c)}
             = {ValueKey(FieldValue(log[b.log][i], f)) : i \in Correlated(b, c)}
      BY <2>1, <2>2
    <2> QED
      BY <2>3 DEF ValuesOf
  <1>3. ASSUME NEW c PROVE Statement(a, b, c)' = Statement(a, b, c)
    <2>1. Compare(a, b, c)' = Compare(a, b, c)
      BY <1>2 DEF Compare
    <2>2. \A s \in Sides : Correlated(<<a, b>>[s], c)' = Correlated(<<a, b>>[s], c)
      BY DEF Sides
    <2> QED
      BY <2>1, <2>2 DEF Statement
  <1>4. /\ Party(a).export_complete' = Party(a).export_complete
        /\ Party(b).export_complete' = Party(b).export_complete
    BY DEF Party
  <1> QED
    BY <1>1, <1>3, <1>4 DEF Faithful

\* What the verifier computes is faithful to the bundles it computes it from.
LEMMA ReconcileIsFaithful ==
    ASSUME NEW a, NEW b, NEW S
    PROVE  Faithful(Reconcile(a, b, S), a, b, S)
  <1> DEFINE population == ClaimsOf(a) \cup ClaimsOf(b) \cup S
             stated == [c \in population |-> Statement(a, b, c)]
  <1>1. /\ Reconcile(a, b, S).claims = stated
        /\ Reconcile(a, b, S).parties = <<Party(a), Party(b)>>
    BY DEF Reconcile
  <1>2. DOMAIN stated = population /\ \A c \in population : stated[c] = Statement(a, b, c)
    OBVIOUS
  <1> HIDE DEF stated, population
  <1> QED
    BY <1>1, <1>2 DEF Faithful, population

-------------------------------------------------------------------------------
(***************************************************************************)
(* The invariant holds initially and every action keeps it.                *)
(***************************************************************************)
\* Nothing is recorded, held or answered.
LEMMA DisputeInvInit == DisputeInit => DisputeInv
  <1> SUFFICES ASSUME DisputeInit PROVE DisputeInv
    OBVIOUS
  <1>1. log \in [Logs -> Seq(Receipt)]
    BY DEF DisputeInit
  <1>2. pair \in [Sides -> Bundle \cup {NoBundle}] /\ pair[1] = NoBundle /\ pair[2] = NoBundle
    BY TwoSides DEF DisputeInit
  <1>3. Underway /\ Answered
    BY <1>2 DEF DisputeInit, Underway, Answered, Sides
  <1> QED
    BY <1>1, <1>3 DEF DisputeInv

\* The answer stays true of the bundles it was about, if their receipts stay.
LEMMA AnswerStands ==
    ASSUME Answered, UNCHANGED result,
           \A b : Exists(b) => Exists(b)',
           \A b : Exists(b) => \A c : Correlated(b, c)' = Correlated(b, c),
           \A b : Exists(b) => \A i \in b.rows : log'[b.log][i] = log[b.log][i]
    PROVE  Answered'
  <1> SUFFICES ASSUME result # Refused
               PROVE  /\ \A s \in Sides : Exists(result.bundles[s])' /\ BundleOk(result.bundles[s])
                      /\ Faithful(result.reconciliation, result.bundles[1],
                                  result.bundles[2], result.contested)'
    BY DEF Answered, BundleOk
  <1>1. PICK a, b, rec, S : /\ a = result.bundles[1] /\ b = result.bundles[2]
                            /\ rec = result.reconciliation /\ S = result.contested
    OBVIOUS
  <1>2. Exists(a) /\ Exists(b) /\ BundleOk(a) /\ BundleOk(b) /\ Faithful(rec, a, b, S)
    BY <1>1 DEF Answered, Sides
  <1>3. Exists(a)' /\ Exists(b)' /\ Faithful(rec, a, b, S)'
    BY <1>2, FaithfulStays
  <1>4. result'.bundles[1] = a /\ result'.bundles[2] = b
    BY <1>1
  <1>5. \A s \in Sides : Exists(result.bundles[s])' /\ BundleOk(result.bundles[s])
    BY <1>1, <1>2, <1>3, <1>4 DEF Exists, Sides
  <1>6. Faithful(result.reconciliation, result.bundles[1], result.bundles[2], result.contested)'
    BY <1>1, <1>3
  <1> QED
    BY <1>5, <1>6

\* A recorder goes on, whatever the state of the package or of the answer.
LEMMA RecordKeeps ==
    ASSUME DisputeInv, NEW l \in Logs, NEW r \in Receipt, Record(l, r)
    PROVE  DisputeInv'
  <1>0. /\ log \in [Logs -> Seq(Receipt)] /\ Underway /\ Answered
        /\ log' = [log EXCEPT ![l] = Append(@, r)]
        /\ UNCHANGED <<pair, draft, changes, result>>
    BY DEF DisputeInv, Record
  <1>1. /\ log' \in [Logs -> Seq(Receipt)]
        /\ \A b : Exists(b) => Exists(b)'
        /\ \A b : Exists(b) => \A c : Correlated(b, c)' = Correlated(b, c)
        /\ \A b : Exists(b) => \A i \in b.rows : log'[b.log][i] = log[b.log][i]
    BY <1>0, LogsOnlyGrow
  <1>2. Underway'
    <2>1. ASSUME NEW s \in Sides, pair[s] # NoBundle PROVE Exists(pair[s])'
      <3>1. PICK b : b = pair[s]
        OBVIOUS
      <3>2. Exists(b)'
        BY <1>0, <1>1, <2>1, <3>1 DEF Underway
      <3> QED
        BY <1>0, <3>1, <3>2 DEF Exists
    <2> QED
      BY <1>0, <2>1 DEF Underway
  <1>3. Answered'
    BY <1>0, <1>1, AnswerStands
  <1> QED
    BY <1>1, <1>2, <1>3 DEF DisputeInv

\* The answer stays true of the bundles it was about while the logs stand still.
LEMMA AnsweredStays ==
    ASSUME Answered, UNCHANGED <<log, result>>
    PROVE  Answered'
  <1>1. \A b : Exists(b) => Exists(b)'
    BY DEF Exists
  <1>2. \A b : Exists(b) => \A c : Correlated(b, c)' = Correlated(b, c)
    BY DEF Correlated
  <1> QED
    BY <1>1, <1>2, AnswerStands

\* A new export is one of the log as it is.
LEMMA ReceiveKeeps ==
    ASSUME DisputeInv, NEW s \in Sides, NEW l \in Logs, NEW manifest \in BOOLEAN,
           Receive(s, l, manifest)
    PROVE  DisputeInv'
  <1> DEFINE b == [log |-> l, rows |-> DOMAIN log[l], exported |-> DOMAIN log[l],
                   manifest |-> manifest]
  <1>0. /\ log \in [Logs -> Seq(Receipt)] /\ Underway /\ Answered
        /\ pair' = [pair EXCEPT ![s] = b] /\ UNCHANGED <<log, draft, result>>
    BY DEF DisputeInv, Receive
  <1>1. log[l] \in Seq(Receipt) /\ Len(log[l]) \in Nat /\ DOMAIN log[l] = 1..Len(log[l])
    BY <1>0
  <1>2. Exists(b)
    BY <1>1 DEF Exists, Bundle
  <1>3. b \in Bundle
    BY <1>2 DEF Exists
  <1>4. b # NoBundle
    BY <1>3, NoBundleIsNone
  <1> HIDE DEF b
  <1>5. /\ pair' \in [Sides -> Bundle \cup {NoBundle}] /\ pair'[s] = b
        /\ \A t \in Sides : t # s => pair'[t] = pair[t]
    BY <1>0, <1>3 DEF Underway
  <1>6. \A t \in Sides : pair'[t] # NoBundle => Exists(pair'[t])
    BY <1>0, <1>2, <1>5 DEF Underway
  <1>7. Underway'
    BY <1>0, <1>4, <1>5, <1>6 DEF Underway, Exists
  <1> QED
    BY <1>0, <1>7, AnsweredStays DEF DisputeInv

\* A receipt is dropped from one side.
LEMMA DropKeeps == ASSUME DisputeInv, NEW s \in Sides, Drop(s) PROVE DisputeInv'
  <1>0. /\ log \in [Logs -> Seq(Receipt)] /\ Underway /\ Answered
        /\ pair[s] # NoBundle /\ UNCHANGED <<log, draft, result>>
    BY DEF DisputeInv, Drop
  <1>1. PICK i : pair' = [pair EXCEPT ![s].rows = @ \ {i}]
    BY DEF Drop
  <1>2. pair[s] \in Bundle /\ Exists(pair[s])
    BY <1>0 DEF Underway, Exists
  <1>3. /\ pair'[s] = [pair[s] EXCEPT !.rows = @ \ {i}]
        /\ \A t \in Sides : t # s => pair'[t] = pair[t]
    BY <1>0, <1>1 DEF Underway
  <1>4. Exists(pair'[s]) /\ pair'[s] \in Bundle
    BY <1>2, <1>3 DEF Exists, Bundle
  <1>5. pair'[s] # NoBundle
    BY <1>4, NoBundleIsNone
  <1>6. pair' \in [Sides -> Bundle \cup {NoBundle}]
    BY <1>0, <1>1, <1>3, <1>4 DEF Underway
  <1>7. \A t \in Sides : pair'[t] # NoBundle => Exists(pair'[t])
    BY <1>0, <1>3, <1>4 DEF Underway
  <1>8. Underway'
    BY <1>0, <1>3, <1>5, <1>6, <1>7 DEF Underway, Exists
  <1> QED
    BY <1>0, <1>8, AnsweredStays DEF DisputeInv

\* The sides are exchanged.
LEMMA ExchangeKeeps == ASSUME DisputeInv, Exchange PROVE DisputeInv'
  <1>0. /\ log \in [Logs -> Seq(Receipt)] /\ Underway /\ Answered
        /\ pair' = <<pair[2], pair[1]>> /\ UNCHANGED <<log, draft, result>>
    BY DEF DisputeInv, Exchange
  <1>1. pair[1] \in Bundle \cup {NoBundle} /\ pair[2] \in Bundle \cup {NoBundle}
    BY <1>0 DEF Underway, Sides
  <1>2. /\ pair' \in [Sides -> Bundle \cup {NoBundle}]
        /\ pair'[1] = pair[2] /\ pair'[2] = pair[1]
    BY <1>0, <1>1, TwoSides
  <1>3. \A t \in Sides : pair'[t] # NoBundle => Exists(pair'[t])
    BY <1>0, <1>2 DEF Underway, Sides
  <1>4. Underway'
    BY <1>0, <1>2, <1>3 DEF Underway, Exists, Sides
  <1> QED
    BY <1>0, <1>4, AnsweredStays DEF DisputeInv

\* The assembler writes or rewrites the reconciliation of a package with both sides.
LEMMA DraftKeeps ==
    ASSUME DisputeInv, UNCHANGED <<log, pair, result>>, \A s \in Sides : pair[s] # NoBundle
    PROVE  DisputeInv'
  BY AnsweredStays DEF DisputeInv, Underway, Exists

\* The package is answered: what is verified is what the bundles say.
LEMMA VerifyJsonKeeps ==
    ASSUME DisputeInv, NEW S \in SUBSET Claims, VerifyJson(S)
    PROVE  DisputeInv'
  <1>0. /\ log \in [Logs -> Seq(Receipt)] /\ Underway /\ Answered /\ draft # NoDraft
        /\ pair' = <<NoBundle, NoBundle>> /\ draft' = NoDraft /\ UNCHANGED log
    BY DEF DisputeInv, VerifyJson
  <1>1. Underway'
    <2>1. /\ pair' \in [Sides -> Bundle \cup {NoBundle}]
          /\ pair'[1] = NoBundle /\ pair'[2] = NoBundle
      BY <1>0, TwoSides
    <2> QED
      BY <1>0, <2>1 DEF Underway, Sides
  <1>2. Answered'
    <2>1. CASE ~Reverify(pair[1], pair[2], S, draft)
      BY <2>1 DEF VerifyJson, Answered
    <2>2. CASE Reverify(pair[1], pair[2], S, draft)
      <3>1. PICK a, b : a = pair[1] /\ b = pair[2]
        OBVIOUS
      <3>2. result' = [verdict |-> "VERIFIED", bundles |-> pair, contested |-> S,
                       reconciliation |-> draft]
        BY <2>2 DEF VerifyJson
      <3>3. Exists(a) /\ Exists(b) /\ BundleOk(a) /\ BundleOk(b) /\ Faithful(draft, a, b, S)
        BY <1>0, <2>2, <3>1, ReconcileIsFaithful DEF Underway, Reverify, Sides
      <3>4. Exists(a)' /\ Exists(b)'
        BY <1>0, <3>3 DEF Exists
      <3>5. PICK rec : rec = draft
        OBVIOUS
      <3>6. Faithful(rec, a, b, S)'
        <4>1. \A c : Correlated(a, c)' = Correlated(a, c) /\ Correlated(b, c)' = Correlated(b, c)
          BY <1>0 DEF Correlated
        <4> QED
          BY <1>0, <3>3, <3>5, <4>1, FaithfulStays
      <3>7. /\ result'.bundles[1] = a /\ result'.bundles[2] = b
            /\ result'.contested = S /\ result'.reconciliation = rec
        BY <3>1, <3>2, <3>5
      <3>8. Faithful(result.reconciliation, result.bundles[1], result.bundles[2], result.contested)'
        BY <3>6, <3>7
      <3>9. \A s \in Sides : Exists(result.bundles[s])' /\ BundleOk(result.bundles[s])'
        BY <3>3, <3>4, <3>7 DEF Sides, BundleOk, Exists
      <3> QED
        BY <3>7, <3>8, <3>9 DEF Answered
    <2> QED
      BY <2>1, <2>2
  <1> QED
    BY <1>0, <1>1, <1>2 DEF DisputeInv

\* DisputeInv is inductive.
LEMMA DisputeInvStep == DisputeInv /\ [DisputeNext]_disputeVars => DisputeInv'
  <1> SUFFICES ASSUME DisputeInv, [DisputeNext]_disputeVars PROVE DisputeInv'
    OBVIOUS
  <1>1. CASE \E l \in Logs, r \in Receipt : Record(l, r)
    BY <1>1, RecordKeeps
  <1>2. CASE \E s \in Sides, l \in Logs, manifest \in BOOLEAN : Receive(s, l, manifest)
    BY <1>2, ReceiveKeeps
  <1>3. CASE (\E s \in Sides : Drop(s)) \/ Exchange
    BY <1>3, DropKeeps, ExchangeKeeps
  <1>4. CASE ReadResult
    BY <1>4 DEF ReadResult, DisputeInv, Underway, Exists, Answered
  <1>5. CASE \E contested \in SUBSET Claims : Assemble(contested)
    BY <1>5, DraftKeeps DEF Assemble, Sides
  <1>6. CASE \E contested \in SUBSET Claims : VerifyJson(contested)
    BY <1>6, VerifyJsonKeeps
  <1>7. CASE \E c \in Claims : Soften(c) \/ Omit(c)
    BY <1>7, DraftKeeps DEF Soften, Omit, DisputeInv, Underway
  <1>8. CASE UNCHANGED disputeVars
    BY <1>8, AnsweredStays DEF disputeVars, DisputeInv, Underway, Exists
  <1> QED
    BY <1>1, <1>2, <1>3, <1>4, <1>5, <1>6, <1>7, <1>8 DEF DisputeNext

-------------------------------------------------------------------------------
(***************************************************************************)
(* The theorems.                                                           *)
(***************************************************************************)
\* Every reachable state satisfies the invariant.
THEOREM DisputeInvariance == DisputeSpec => []DisputeInv
  BY DisputeInvInit, DisputeInvStep, PTL DEF DisputeSpec

\* Receipts dropped between a signed export and the verifier show: that party's
\* export is never called complete (party facts of the reconciliation).
THEOREM DroppedReceiptsAreShown == DisputeSpec => []DroppedReceiptsShow
  <1>1. DisputeInv => DroppedReceiptsShow
    <2> SUFFICES ASSUME DisputeInv, result.verdict = "VERIFIED", NEW s \in Sides,
                        result.bundles[s].rows # result.bundles[s].exported
                 PROVE  result.reconciliation.parties[s].export_complete = None
      BY DEF DroppedReceiptsShow, Verified
    <2>1. result # Refused
      BY DEF Refused
    <2>2. ~result.bundles[s].manifest
      BY <2>1 DEF DisputeInv, Answered, BundleOk
    <2>3. result.reconciliation.parties[s].export_complete = Party(result.bundles[s]).export_complete
      BY <2>1 DEF DisputeInv, Answered, Faithful, Sides
    <2> QED
      BY <2>2, <2>3 DEF Party
  <1> QED
    BY <1>1, DisputeInvariance, PTL

\* What one side says of a claim, read off the receipts as well as off the keys the
\* verifier compares by: the spelling of a value determines it, and every receipt
\* of a claim says what kind of action it is.
LEMMA ValuesAreRead ==
    ASSUME log \in [Logs -> Seq(Receipt)], NEW b, Exists(b), NEW c
    PROVE  /\ \A i \in Correlated(b, c) : log[b.log][i].amount \in Amounts \cup {Absent}
           /\ Correlated(b, c) # {} => ValuesOf(b, c, "action_type") = {<<"text", 0>>}
           /\ \A v \in Amounts \cup {Absent} :
                 ValueKey(v) \in ValuesOf(b, c, "amount") <=>
                    v # Absent /\ \E i \in Correlated(b, c) : log[b.log][i].amount = v
           /\ \A x \in ValuesOf(b, c, "amount") : \E v \in Amounts : x = ValueKey(v)
  <1>1. b.log \in Logs /\ b.rows \subseteq 1..Len(log[b.log]) /\ log[b.log] \in Seq(Receipt)
    BY DEF Exists, Bundle
  <1>2. \A i \in Correlated(b, c) : log[b.log][i].amount \in Amounts \cup {Absent}
    <2>1. \A i \in b.rows : log[b.log][i] \in Receipt
      BY <1>1
    <2>2. \A r \in Receipt : r.amount \in Amounts \cup {Absent}
      BY DEF Receipt
    <2> QED
      BY <2>1, <2>2 DEF Correlated
  <1>3. \A v, w \in Amounts \cup {Absent} : ValueKey(v) = ValueKey(w) => v = w
    BY DEF Amounts, Absent, ValueKey, None
  <1>4. ValueKey(Absent) = <<"none", 0>>
    BY DEF ValueKey, Absent, None
  <1>5. Correlated(b, c) # {} => ValuesOf(b, c, "action_type") = {<<"text", 0>>}
    <2>1. \A r : ValueKey(FieldValue(r, "action_type")) = <<"text", 0>>
      BY DEF ValueKey, FieldValue
    <2>2. <<"text", 0>> # <<"none", 0>>
      OBVIOUS
    <2> QED
      BY <1>4, <2>1, <2>2 DEF ValuesOf
  <1>6. \A r : FieldValue(r, "amount") = r.amount
    BY DEF FieldValue
  <1>7. ValuesOf(b, c, "amount")
          = {ValueKey(log[b.log][i].amount) : i \in Correlated(b, c)} \ {ValueKey(Absent)}
    BY <1>6 DEF ValuesOf
  <1>8. \A v \in Amounts \cup {Absent} :
           ValueKey(v) \in ValuesOf(b, c, "amount") <=>
              v # Absent /\ \E i \in Correlated(b, c) : log[b.log][i].amount = v
    <2> HIDE DEF ValueKey
    <2> QED
      BY <1>2, <1>3, <1>7
  <1>9. \A x \in ValuesOf(b, c, "amount") : \E v \in Amounts : x = ValueKey(v)
    BY <1>2, <1>7
  <1> QED
    BY <1>2, <1>5, <1>8, <1>9

\* When both sides have receipts for a claim, the fields agree exactly if the amounts
\* they carry are the same.
LEMMA AgreementIsSameAmounts ==
    ASSUME log \in [Logs -> Seq(Receipt)], NEW a, Exists(a), NEW b, Exists(b), NEW c,
           Correlated(a, c) # {}, Correlated(b, c) # {}
    PROVE  Compare(a, b, c) = "AGREEMENT" <=>
              ValuesOf(a, c, "amount") = ValuesOf(b, c, "amount")
  <1>1. ValuesOf(a, c, "action_type") = ValuesOf(b, c, "action_type")
    BY ValuesAreRead
  <1>2. Compare(a, b, c) = "AGREEMENT" <=>
           \A f \in Fields : /\ ~(ValuesOf(a, c, f) # {} /\ ValuesOf(b, c, f) # {}
                                    /\ ValuesOf(a, c, f) # ValuesOf(b, c, f))
                             /\ ValuesOf(a, c, f) # {} <=> ValuesOf(b, c, f) # {}
    BY DEF Compare
  <1> DEFINE A == ValuesOf(a, c, "amount")
             B == ValuesOf(b, c, "amount")
  <1>3. Compare(a, b, c) = "AGREEMENT" <=>
           ~(A # {} /\ B # {} /\ A # B) /\ (A # {} <=> B # {})
    <2>1. \A f \in Fields : f = "amount" \/ f = "action_type"
      BY DEF Fields
    <2>2. "amount" \in Fields
      BY DEF Fields
    <2> QED
      BY <1>1, <1>2, <2>1, <2>2, Zenon
  <1> HIDE DEF A, B
  <1>4. ~(A # {} /\ B # {} /\ A # B) /\ (A # {} <=> B # {}) <=> A = B
    OBVIOUS
  <1> QED
    BY <1>3, <1>4 DEF A, B

\* A verified package smooths nothing over (reconcile, compare): a claim is stated as
\* agreed only if both sides have receipts for it and carry the same values, however
\* many receipts, and however late they came.
THEOREM NothingIsSmoothedOver == DisputeSpec => []NothingSmoothedOver
  <1>1. DisputeInv => NothingSmoothedOver
    <2> SUFFICES ASSUME DisputeInv, result.verdict = "VERIFIED", NEW c \in Claims
                 PROVE  /\ Carried(1, c) \cup Carried(2, c) # {} \/ c \in result.contested
                              => c \in DOMAIN result.reconciliation.claims
                        /\ c \in DOMAIN result.reconciliation.claims =>
                              (~result.reconciliation.claims[c].contested <=>
                                 /\ Carried(1, c) # {} /\ Carried(2, c) # {}
                                 /\ {r.amount : r \in Carried(1, c)} \ {Absent}
                                       = {r.amount : r \in Carried(2, c)} \ {Absent})
      BY DEF NothingSmoothedOver, Verified
    <2> DEFINE a == result.bundles[1]
               b == result.bundles[2]
               rec == result.reconciliation
               Said(x) == {log[x.log][i].amount : i \in Correlated(x, c)} \ {Absent}
    <2>1. /\ log \in [Logs -> Seq(Receipt)] /\ Exists(a) /\ Exists(b)
          /\ Faithful(rec, a, b, result.contested)
      <3>1. result # Refused
        BY DEF Refused
      <3> QED
        BY <3>1 DEF DisputeInv, Answered, Sides
    <2>2. /\ Carried(1, c) = {log[a.log][i] : i \in Correlated(a, c)}
          /\ Carried(2, c) = {log[b.log][i] : i \in Correlated(b, c)}
      BY DEF Carried
    <2> HIDE DEF a, b, rec
    <2>3. /\ Carried(1, c) # {} <=> Correlated(a, c) # {}
          /\ Carried(2, c) # {} <=> Correlated(b, c) # {}
      BY <2>2
    <2>4. /\ {r.amount : r \in Carried(1, c)} \ {Absent} = Said(a)
          /\ {r.amount : r \in Carried(2, c)} \ {Absent} = Said(b)
      BY <2>2
    <2>5. Carried(1, c) \cup Carried(2, c) # {} \/ c \in result.contested => c \in DOMAIN rec.claims
      BY <2>1, <2>3 DEF Faithful, ClaimsOf
    <2>6. ASSUME c \in DOMAIN rec.claims
          PROVE  ~rec.claims[c].contested <=>
                    /\ Correlated(a, c) # {} /\ Correlated(b, c) # {} /\ Said(a) = Said(b)
      <3>1. rec.claims[c] = Statement(a, b, c)
        BY <2>1, <2>6 DEF Faithful
      <3>2. ~Statement(a, b, c).contested <=>
               /\ Correlated(a, c) # {} /\ Correlated(b, c) # {}
               /\ Compare(a, b, c) = "AGREEMENT"
        <4>1. {s \in Sides : Correlated(<<a, b>>[s], c) # {}} = Sides
                 <=> Correlated(a, c) # {} /\ Correlated(b, c) # {}
          BY DEF Sides
        <4> QED
          BY <4>1 DEF Statement
      <3>3. ASSUME Correlated(a, c) # {}, Correlated(b, c) # {}
            PROVE  ValuesOf(a, c, "amount") = ValuesOf(b, c, "amount") <=> Said(a) = Said(b)
        <4>1. ASSUME NEW x, Exists(x)
              PROVE  /\ Said(x) \subseteq Amounts
                     /\ \A v \in Amounts : v \in Said(x) <=> ValueKey(v) \in ValuesOf(x, c, "amount")
                     /\ \A k \in ValuesOf(x, c, "amount") : \E v \in Amounts : k = ValueKey(v)
          BY <2>1, <4>1, ValuesAreRead
        <4> HIDE DEF Said
        <4>2. ASSUME ValuesOf(a, c, "amount") = ValuesOf(b, c, "amount") PROVE Said(a) = Said(b)
          <5>1. \A v \in Amounts : v \in Said(a) <=> v \in Said(b)
            BY <2>1, <4>1, <4>2
          <5> QED
            BY <2>1, <4>1, <5>1
        <4>3. ASSUME Said(a) = Said(b) PROVE ValuesOf(a, c, "amount") = ValuesOf(b, c, "amount")
          <5>1. \A v \in Amounts : ValueKey(v) \in ValuesOf(a, c, "amount") <=>
                                     ValueKey(v) \in ValuesOf(b, c, "amount")
            BY <2>1, <4>1, <4>3
          <5>2. \A k \in ValuesOf(a, c, "amount") : k \in ValuesOf(b, c, "amount")
            BY <2>1, <4>1, <5>1, Zenon
          <5>3. \A k \in ValuesOf(b, c, "amount") : k \in ValuesOf(a, c, "amount")
            BY <2>1, <4>1, <5>1, Zenon
          <5> QED
            BY <5>2, <5>3, Zenon
        <4> QED
          BY <4>2, <4>3
      <3> QED
        BY <2>1, <3>1, <3>2, <3>3, AgreementIsSameAmounts
    <2> QED
      BY <2>3, <2>4, <2>5, <2>6 DEF rec
  <1> QED
    BY <1>1, DisputeInvariance, PTL

-------------------------------------------------------------------------------
(***************************************************************************)
(* Certificate: the inductive invariant.  Whatever the producer changes,   *)
(* the core keeps its members, and three things it cannot make up: the     *)
(* node's receipts and documents, the source's events, and what third      *)
(* parties signed.                                                         *)
(***************************************************************************)
CoreFields ==
    {"flaw", "version", "bundle", "pack", "subject", "claim", "events", "event_matches",
     "batch", "coverage_doc", "open_findings", "context_zero", "limitations", "vi"}
InputFields ==
    {"action", "authority", "claim", "events", "event_matches", "batch", "manifest",
     "source_bound", "source_form", "bounds_ordered", "control", "gap_free", "findings",
     "fork", "attempts", "scitt_receipt_valid", "withheld", "proofs"}

Shaped(c) == DOMAIN c = CoreFields /\ DOMAIN c.vi = InputFields

\* A bundle under the log's own key carries receipts and documents the log has.
BundleIsOfLog(b) ==
    /\ DOMAIN b = {"rows", "docs", "ok", "genuine", "origin"}
    /\ b.genuine => b.rows \subseteq rows
    /\ b.docs \subseteq docs

\* Nobody signs for somebody else, and the node's scan is of what it scanned.
ProofsAreSigned(proofs) ==
    /\ DOMAIN proofs = Artifacts
    /\ \A a \in Artifacts :
          /\ DOMAIN proofs[a] = {"there", "real", "about"}
          /\ proofs[a].real => a \notin missing
    /\ "keys" \in DOMAIN proofs["scan"].about /\ proofs["scan"].about.keys = scanned

\* The events are the source's, and the matches a list.
IsSequence(s) == \E S : s \in Seq(S)
Listed(c) == c.events = source /\ IsSequence(c.event_matches)

Grounded(c) ==
    /\ Shaped(c)
    /\ Listed(c)
    /\ BundleIsOfLog(c.bundle)
    /\ ProofsAreSigned(c.vi.proofs)

Events == UNION {{Ordinary(k)} \cup Unusual(k) : k \in Keys}
CertificateInv == source \in Seq(Events) /\ (core # NoCore => Grounded(core))

-------------------------------------------------------------------------------
(***************************************************************************)
(* Certificate: facts about the changes.                                   *)
(***************************************************************************)
\* Most changes leave the three things alone.
LEMMA OtherChange ==
    ASSUME NEW c, NEW d, Grounded(c),
           DOMAIN d = DOMAIN c, DOMAIN d.vi = DOMAIN c.vi,
           d.bundle = c.bundle, d.vi.proofs = c.vi.proofs,
           d.events = c.events, d.event_matches = c.event_matches
    PROVE  Grounded(d)
  BY DEF Grounded, Shaped, Listed

\* A member of the core other than these, the claim say, has nothing to ground.
LEMMA MemberChange ==
    ASSUME NEW c, Grounded(c), NEW x,
           NEW f \in CoreFields \ {"bundle", "vi", "events", "event_matches"}
    PROVE  Grounded([c EXCEPT ![f] = x])
  <1> DEFINE d == [c EXCEPT ![f] = x]
  <1>1. DOMAIN c = CoreFields
    BY DEF Grounded, Shaped, Listed
  <1>2. DOMAIN d = DOMAIN c
    OBVIOUS
  <1>3. /\ d.bundle = c.bundle /\ d.vi = c.vi
        /\ d.events = c.events /\ d.event_matches = c.event_matches
    BY <1>1 DEF CoreFields
  <1>4. Grounded(d)
    <2> HIDE DEF d
    <2> QED
      BY <1>2, <1>3, OtherChange
  <1> QED
    BY <1>4

\* Nor has a member of the input other than the proofs.
LEMMA InputChange ==
    ASSUME NEW c, Grounded(c), NEW f \in InputFields \ {"proofs"}, NEW x
    PROVE  Grounded([c EXCEPT !.vi[f] = x])
  <1> DEFINE d == [c EXCEPT !.vi[f] = x]
  <1>1. DOMAIN c = CoreFields /\ DOMAIN c.vi = InputFields
    BY DEF Grounded, Shaped, Listed
  <1>2. DOMAIN d = DOMAIN c
    OBVIOUS
  <1>3. /\ d.bundle = c.bundle /\ d.vi = [c.vi EXCEPT ![f] = x]
        /\ d.events = c.events /\ d.event_matches = c.event_matches
    BY <1>1 DEF CoreFields
  <1>4. DOMAIN d.vi = DOMAIN c.vi /\ d.vi.proofs = c.vi.proofs
    BY <1>1, <1>3 DEF InputFields
  <1>5. Grounded(d)
    <2> HIDE DEF d
    <2> QED
      BY <1>2, <1>3, <1>4, OtherChange
  <1> QED
    BY <1>5

\* Another bundle of the same log will do.
LEMMA BundleChange ==
    ASSUME NEW c, Grounded(c), NEW b, BundleIsOfLog(b)
    PROVE  Grounded([c EXCEPT !.bundle = b])
  <1> DEFINE d == [c EXCEPT !.bundle = b]
  <1>1. DOMAIN c = CoreFields
    BY DEF Grounded, Shaped, Listed
  <1>2. DOMAIN d = DOMAIN c
    OBVIOUS
  <1>3. /\ d.bundle = b /\ d.vi = c.vi
        /\ d.events = c.events /\ d.event_matches = c.event_matches
    BY <1>1 DEF CoreFields
  <1>4. Grounded(d)
    <2> HIDE DEF d
    <2> QED
      BY <1>2, <1>3 DEF Grounded, Shaped, Listed
  <1> QED
    BY <1>4

\* The action under another name.
LEMMA RenamedGrounded ==
    ASSUME NEW c, Grounded(c), NEW id, NEW class
    PROVE  Grounded(Renamed(c, id, class))
  <1> DEFINE d == Renamed(c, id, class)
  <1>1. DOMAIN c = CoreFields /\ DOMAIN c.vi = InputFields
    BY DEF Grounded, Shaped, Listed
  <1>2. DOMAIN d = DOMAIN c /\ DOMAIN d.vi = DOMAIN c.vi
    BY <1>1 DEF CoreFields, InputFields, Renamed
  <1>3. /\ d.bundle = c.bundle /\ d.vi.proofs = c.vi.proofs
        /\ d.events = c.events /\ d.event_matches = c.event_matches
    BY <1>1 DEF CoreFields, InputFields, Renamed
  <1> HIDE DEF d
  <1>4. Grounded(d)
    BY <1>2, <1>3, OtherChange
  <1> QED
    BY <1>4 DEF d

\* Fewer receipts of the same log, or a log that is not the node's.
LEMMA RebundledGrounded ==
    ASSUME NEW c, Grounded(c), NEW kept, NEW genuine,
           genuine => c.bundle.genuine /\ kept \subseteq c.bundle.rows
    PROVE  Grounded(Rebundled(c, kept, genuine))
  <1> DEFINE b == [c.bundle EXCEPT !.rows = kept, !.genuine = genuine]
             d == Rebundled(c, kept, genuine)
  <1>1. DOMAIN c = CoreFields /\ DOMAIN c.vi = InputFields /\ BundleIsOfLog(c.bundle)
    BY DEF Grounded, Shaped, Listed
  <1>2. BundleIsOfLog(b)
    BY <1>1 DEF BundleIsOfLog
  <1>3. DOMAIN d = DOMAIN c /\ DOMAIN d.vi = DOMAIN c.vi
    BY <1>1 DEF CoreFields, InputFields, Rebundled
  <1>4. /\ d.vi.proofs = c.vi.proofs
        /\ d.events = c.events /\ d.event_matches = c.event_matches
    BY <1>1 DEF CoreFields, InputFields, Rebundled
  <1>5. d.bundle = b
    BY <1>1 DEF CoreFields, Rebundled
  <1> HIDE DEF d, b
  <1>6. Grounded(d)
    BY <1>2, <1>3, <1>4, <1>5 DEF Grounded, Shaped, Listed
  <1> QED
    BY <1>6 DEF d

\* Other matches, in the core and in the input or in the input alone.
LEMMA RematchedGrounded ==
    ASSUME NEW c, Grounded(c), NEW ms, IsSequence(ms)
    PROVE  /\ Grounded([c EXCEPT !.event_matches = ms, !.vi.event_matches = ms])
           /\ Grounded([c EXCEPT !.vi.event_matches = ms])
  <1> DEFINE d == [c EXCEPT !.event_matches = ms, !.vi.event_matches = ms]
  <1>1. DOMAIN c = CoreFields /\ DOMAIN c.vi = InputFields
    BY DEF Grounded, Shaped
  <1>2. /\ DOMAIN d = DOMAIN c /\ DOMAIN d.vi = DOMAIN c.vi
        /\ d.bundle = c.bundle /\ d.vi.proofs = c.vi.proofs
        /\ d.events = c.events /\ d.event_matches = ms
    BY <1>1 DEF CoreFields, InputFields
  <1> HIDE DEF d
  <1>3. Grounded(d)
    BY <1>2 DEF Grounded, Shaped, Listed
  <1>4. Grounded([c EXCEPT !.vi.event_matches = ms])
    BY InputChange DEF InputFields
  <1> QED
    BY <1>3, <1>4 DEF d

\* The lists the producer can make up are lists.
LEMMA PlacesListed ==
    ASSUME source \in Seq(Events), NEW places, places \subseteq 1..Len(source)
    PROVE  IsSequence(InOrderOf(places))
  <1>1. Len(source) \in Nat /\ IsFiniteSet(1..Len(source))
    BY FS_Interval
  <1>2. Cardinality(places) \in Nat
    BY <1>1, FS_Subset, FS_CardinalityType
  <1> DEFINE place(n) == CHOOSE i \in places : Cardinality({j \in places : j < i}) = n - 1
             at == [n \in 1..Cardinality(places) |-> place(n)]
  <1> HIDE DEF place
  <1>3. at \in Seq({place(n) : n \in 1..Cardinality(places)})
    BY <1>2, IsASeq
  <1> HIDE DEF at
  <1>4. IsSequence(at)
    BY <1>3 DEF IsSequence
  <1> QED
    BY <1>4 DEF at, place, InOrderOf

LEMMA MatchesListed ==
    ASSUME source \in Seq(Events), NEW c, c.events = source,
           NEW padding \in {"none", "all", "twice"}
    PROVE  IsSequence(MatchesOf(c, padding))
  <1> DEFINE all == FirstOfKey(c.events)
             links == {i \in all : Links(c.claim, c.events[i], c.coverage_doc)}
             linking == InOrderOf(links)
             at == CASE padding = "none" -> linking
                     [] padding = "all" -> InOrderOf(all)
                     [] padding = "twice" -> linking \o linking
             ms == [n \in DOMAIN at |-> MatchFor(c, c.events[at[n]], Len(at) = 1)]
  <1>1. all \subseteq 1..Len(source) /\ links \subseteq 1..Len(source)
    BY DEF FirstOfKey
  <1>2. ms = MatchesOf(c, padding)
    BY DEF MatchesOf
  <1>3. IsSequence(at)
    <2> HIDE DEF all, links
    <2>1. IsSequence(linking) /\ IsSequence(InOrderOf(all))
      BY <1>1, PlacesListed
    <2> HIDE DEF linking
    <2>2. IsSequence(linking \o linking)
      BY <2>1, ConcatProperties DEF IsSequence
    <2> QED
      BY <2>1, <2>2
  <1> HIDE DEF at
  <1>4. Len(at) \in Nat /\ DOMAIN at = 1..Len(at)
    BY <1>3 DEF IsSequence
  <1>5. ms \in Seq({ms[n] : n \in DOMAIN at})
    BY <1>4, IsASeq
  <1> HIDE DEF ms
  <1>6. IsSequence(ms)
    BY <1>5 DEF IsSequence
  <1> QED
    BY <1>2, <1>6

\* The matches made up from what the core says otherwise.
LEMMA RematchedByRule ==
    ASSUME source \in Seq(Events), NEW c, Grounded(c), NEW padding \in {"none", "all", "twice"}
    PROVE  Grounded(Rematched(c, padding))
  <1>1. PICK ms : ms = MatchesOf(c, padding)
    OBVIOUS
  <1>2. IsSequence(ms)
    BY <1>1, MatchesListed DEF Grounded, Listed
  <1>3. Rematched(c, padding) = [c EXCEPT !.event_matches = ms, !.vi.event_matches = ms]
    BY <1>1 DEF Rematched
  <1>4. Grounded([c EXCEPT !.event_matches = ms, !.vi.event_matches = ms])
    BY <1>2, RematchedGrounded
  <1> QED
    BY <1>3, <1>4, Zenon

LEMMA FlippedListed ==
    ASSUME NEW s, IsSequence(s), NEW i \in DOMAIN s, NEW m
    PROVE  IsSequence(RemoveAt(s, i)) /\ IsSequence([s EXCEPT ![i] = m])
  <1>1. PICK S : s \in Seq(S)
    BY DEF IsSequence
  <1>2. i \in 1..Len(s) /\ Len(s) \in Nat
    BY <1>1
  <1>3. RemoveAt(s, i) \in Seq(S)
    <2>1. SubSeq(s, 1, i - 1) \in Seq(S) /\ SubSeq(s, i + 1, Len(s)) \in Seq(S)
      BY <1>1, <1>2, SubSeqProperties
    <2> QED
      BY <2>1, ConcatProperties DEF RemoveAt
  <1>4. [s EXCEPT ![i] = m] \in Seq(S \cup {m})
    <2>1. s \in Seq(S \cup {m})
      BY <1>1, SeqMonotonic
    <2> QED
      BY <1>2, <2>1, ExceptSeq
  <1> QED
    BY <1>3, <1>4 DEF IsSequence

LEMMA RematchingsGrounded ==
    ASSUME source \in Seq(Events), NEW c, Grounded(c), NEW d \in Rematchings(c)
    PROVE  Grounded(d)
  <1>1. c.events = source /\ IsSequence(c.event_matches)
    BY DEF Grounded, Listed
  <1>2. CASE \E padding \in {"none", "all", "twice"} : d = Rematched(c, padding)
    BY <1>2, RematchedByRule
  <1>3. CASE \E ms : /\ IsSequence(ms)
                     /\ \/ d = [c EXCEPT !.event_matches = ms, !.vi.event_matches = ms]
                        \/ d = [c EXCEPT !.vi.event_matches = ms]
    <2>1. PICK ms : /\ IsSequence(ms)
                    /\ \/ d = [c EXCEPT !.event_matches = ms, !.vi.event_matches = ms]
                       \/ d = [c EXCEPT !.vi.event_matches = ms]
      BY <1>3
    <2>2. CASE d = [c EXCEPT !.event_matches = ms, !.vi.event_matches = ms]
      BY <2>1, <2>2, RematchedGrounded
    <2>3. CASE d = [c EXCEPT !.vi.event_matches = ms]
      BY <2>1, <2>3, RematchedGrounded
    <2> QED
      BY <2>1, <2>2, <2>3
  <1> DEFINE Made == {RemoveAt(c.event_matches, i) : i \in DOMAIN c.event_matches}
                     \cup UNION {{[c.event_matches EXCEPT ![i] = m] :
                                    m \in Flipped(c.event_matches[i])} :
                                  i \in DOMAIN c.event_matches}
  <1>4. ASSUME NEW ms \in Made PROVE IsSequence(ms)
    <2>1. PICK i \in DOMAIN c.event_matches :
             \/ ms = RemoveAt(c.event_matches, i)
             \/ \E m \in Flipped(c.event_matches[i]) : ms = [c.event_matches EXCEPT ![i] = m]
      BY <1>4
    <2>2. CASE ms = RemoveAt(c.event_matches, i)
      BY <1>1, <2>2, FlippedListed
    <2>3. CASE \E m : ms = [c.event_matches EXCEPT ![i] = m]
      <3>1. PICK m : ms = [c.event_matches EXCEPT ![i] = m]
        BY <2>3
      <3> QED
        BY <1>1, <3>1, FlippedListed
    <2> QED
      BY <2>1, <2>2, <2>3
  <1>5. \/ \E padding \in {"none", "all", "twice"} : d = Rematched(c, padding)
        \/ \E ms \in Made : \/ d = [c EXCEPT !.event_matches = ms, !.vi.event_matches = ms]
                            \/ d = [c EXCEPT !.vi.event_matches = ms]
    BY DEF Rematchings
  <1> HIDE DEF Made
  <1> QED
    BY <1>2, <1>3, <1>4, <1>5

\* The claim left out, or with some fields taken back.
LEMMA ClaimedGrounded ==
    ASSUME NEW c, Grounded(c), NEW x, NEW y
    PROVE  Grounded([c EXCEPT !.claim = x, !.vi.claim = y])
  <1>1. DOMAIN c = CoreFields /\ DOMAIN c.vi = InputFields
    BY DEF Grounded, Shaped
  <1>2. [c EXCEPT !.claim = x, !.vi.claim = y] = [[c EXCEPT !.claim = x] EXCEPT !.vi.claim = y]
    BY <1>1 DEF CoreFields
  <1>3. Grounded([c EXCEPT !.claim = x])
    BY MemberChange DEF CoreFields
  <1> QED
    BY <1>2, <1>3, InputChange DEF InputFields

LEMMA UnclaimedGrounded ==
    ASSUME source \in Seq(Events), NEW c, Grounded(c), NEW fields
    PROVE  Grounded(Unclaimed(c, fields))
  <1> DEFINE without(z) == [z EXCEPT !.vals = [f \in MaterialFields |->
                                                 IF f \in fields THEN 0 ELSE z.vals[f]]]
  <1>1. PICK x, y : x = without(c.claim) /\ y = without(c.vi.claim)
    OBVIOUS
  <1>2. Unclaimed(c, fields) = Rematched([c EXCEPT !.claim = x, !.vi.claim = y], "none")
    BY <1>1 DEF Unclaimed
  <1>3. Grounded([c EXCEPT !.claim = x, !.vi.claim = y])
    BY ClaimedGrounded
  <1> QED
    BY <1>2, <1>3, RematchedByRule

\* A bundle that does not verify, or without its documents.
LEMMA BundledGrounded ==
    ASSUME NEW c, Grounded(c)
    PROVE  /\ Grounded([c EXCEPT !.bundle.ok = FALSE])
           /\ Grounded([c EXCEPT !.bundle.docs = {}])
  <1>1. BundleIsOfLog(c.bundle)
    BY DEF Grounded
  <1>2. /\ BundleIsOfLog([c.bundle EXCEPT !.ok = FALSE])
        /\ BundleIsOfLog([c.bundle EXCEPT !.docs = {}])
    BY <1>1 DEF BundleIsOfLog
  <1> QED
    BY <1>2, BundleChange

\* A proof that is no longer there, no longer what was signed, or about something else.
LEMMA ScanChange ==
    ASSUME NEW c, Grounded(c), NEW q, DOMAIN q = {"there", "real", "about"},
           q.real => c.vi.proofs["scan"].real, "keys" \in DOMAIN q.about, q.about.keys = scanned,
           NEW d, DOMAIN d = DOMAIN c, DOMAIN d.vi = DOMAIN c.vi,
           d.bundle = c.bundle, d.events = c.events, d.event_matches = c.event_matches,
           d.vi.proofs = [c.vi.proofs EXCEPT !["scan"] = q]
    PROVE  Grounded(d)
  <1>1. "scan" \in Artifacts
    BY DEF Artifacts, Category
  <1>2. ProofsAreSigned(c.vi.proofs)
    BY DEF Grounded
  <1>3. /\ DOMAIN d.vi.proofs = Artifacts /\ d.vi.proofs["scan"] = q
        /\ \A a \in Artifacts \ {"scan"} : d.vi.proofs[a] = c.vi.proofs[a]
    BY <1>1, <1>2 DEF ProofsAreSigned
  <1>4. ProofsAreSigned(d.vi.proofs)
    BY <1>1, <1>2, <1>3 DEF ProofsAreSigned
  <1> QED
    BY <1>4 DEF Grounded, Shaped, Listed

LEMMA ProofsGrounded ==
    ASSUME NEW c, Grounded(c)
    PROVE  /\ Grounded([c EXCEPT !.vi.gap_free = FALSE, !.vi.proofs["scan"].real = FALSE])
           /\ Grounded([c EXCEPT !.vi.proofs["scan"].there = FALSE])
           /\ Grounded([c EXCEPT !.batch.ordered = FALSE, !.vi.batch.ordered = FALSE,
                                 !.vi.proofs["scan"].about.ordered = FALSE])
  <1>1. /\ DOMAIN c = CoreFields /\ DOMAIN c.vi = InputFields /\ ProofsAreSigned(c.vi.proofs)
    BY DEF Grounded, Shaped
  <1>2. PICK p : p = c.vi.proofs["scan"]
    OBVIOUS
  <1>3. /\ DOMAIN p = {"there", "real", "about"}
        /\ "keys" \in DOMAIN p.about /\ p.about.keys = scanned
    BY <1>1, <1>2 DEF ProofsAreSigned, Artifacts, Category
  <1> DEFINE q == [p EXCEPT !.real = FALSE]
             r == [p EXCEPT !.there = FALSE]
             u == [p EXCEPT !.about = [p.about EXCEPT !.ordered = FALSE]]
             d == [c EXCEPT !.vi.gap_free = FALSE, !.vi.proofs["scan"].real = FALSE]
             g == [c EXCEPT !.vi.proofs["scan"].there = FALSE]
             o == [c EXCEPT !.batch.ordered = FALSE, !.vi.batch.ordered = FALSE,
                            !.vi.proofs["scan"].about.ordered = FALSE]
  <1>4. /\ DOMAIN d = DOMAIN c /\ DOMAIN d.vi = DOMAIN c.vi /\ d.bundle = c.bundle
        /\ d.events = c.events /\ d.event_matches = c.event_matches
        /\ d.vi.proofs = [c.vi.proofs EXCEPT !["scan"] = q]
    BY <1>1, <1>2 DEF CoreFields, InputFields
  <1>5. /\ DOMAIN g = DOMAIN c /\ DOMAIN g.vi = DOMAIN c.vi /\ g.bundle = c.bundle
        /\ g.events = c.events /\ g.event_matches = c.event_matches
        /\ g.vi.proofs = [c.vi.proofs EXCEPT !["scan"] = r]
    BY <1>1, <1>2 DEF CoreFields, InputFields
  <1>6. /\ DOMAIN o = DOMAIN c /\ DOMAIN o.vi = DOMAIN c.vi /\ o.bundle = c.bundle
        /\ o.events = c.events /\ o.event_matches = c.event_matches
        /\ o.vi.proofs = [c.vi.proofs EXCEPT !["scan"] = u]
    BY <1>1, <1>2 DEF CoreFields, InputFields
  <1>7. /\ DOMAIN q = DOMAIN p /\ q.real = FALSE /\ q.about = p.about
        /\ DOMAIN r = DOMAIN p /\ r.real = p.real /\ r.about = p.about
        /\ DOMAIN u = DOMAIN p /\ u.real = p.real
        /\ "keys" \in DOMAIN u.about /\ u.about.keys = p.about.keys
    BY <1>3
  <1> HIDE DEF d, g, o, q, r, u
  <1>8. Grounded(d)
    BY <1>2, <1>3, <1>4, <1>7, ScanChange
  <1>9. Grounded(g)
    BY <1>2, <1>3, <1>5, <1>7, ScanChange
  <1>10. Grounded(o)
    BY <1>2, <1>3, <1>6, <1>7, ScanChange
  <1> QED
    BY <1>8, <1>9, <1>10 DEF d, g, o

\* Two members that say the same, changed together.
LEMMA PairedGrounded ==
    ASSUME NEW c, Grounded(c)
    PROVE  /\ Grounded([c EXCEPT !.vi.authority.intent = "RECORDED",
                                 !.vi.authority.integrity = "VALID"])
           /\ Grounded([c EXCEPT !.coverage_doc.gaps = TRUE, !.batch.gaps = TRUE,
                                 !.vi.batch.gaps = TRUE])
           /\ Grounded([c EXCEPT !.open_findings = TRUE, !.vi.findings = "open"])
           /\ Grounded([c EXCEPT !.batch = NoBatch, !.vi.batch = NoBatch])
           /\ Grounded([c EXCEPT !.batch.stated = FALSE, !.vi.batch.stated = FALSE])
           /\ Grounded([c EXCEPT !.vi.source_bound = FALSE, !.vi.source_form = "legacy"])
  <1> DEFINE d == [c EXCEPT !.vi.authority.intent = "RECORDED",
                            !.vi.authority.integrity = "VALID"]
             g == [c EXCEPT !.coverage_doc.gaps = TRUE, !.batch.gaps = TRUE,
                            !.vi.batch.gaps = TRUE]
             o == [c EXCEPT !.open_findings = TRUE, !.vi.findings = "open"]
             n == [c EXCEPT !.batch = NoBatch, !.vi.batch = NoBatch]
             t == [c EXCEPT !.batch.stated = FALSE, !.vi.batch.stated = FALSE]
             l == [c EXCEPT !.vi.source_bound = FALSE, !.vi.source_form = "legacy"]
  <1>1. DOMAIN c = CoreFields /\ DOMAIN c.vi = InputFields
    BY DEF Grounded, Shaped, Listed
  <1>2. /\ DOMAIN d = DOMAIN c /\ DOMAIN d.vi = DOMAIN c.vi
        /\ d.bundle = c.bundle /\ d.vi.proofs = c.vi.proofs
        /\ d.events = c.events /\ d.event_matches = c.event_matches
    BY <1>1 DEF CoreFields, InputFields
  <1>3. /\ DOMAIN g = DOMAIN c /\ DOMAIN g.vi = DOMAIN c.vi
        /\ g.bundle = c.bundle /\ g.vi.proofs = c.vi.proofs
        /\ g.events = c.events /\ g.event_matches = c.event_matches
    BY <1>1 DEF CoreFields, InputFields
  <1>4. /\ DOMAIN o = DOMAIN c /\ DOMAIN o.vi = DOMAIN c.vi
        /\ o.bundle = c.bundle /\ o.vi.proofs = c.vi.proofs
        /\ o.events = c.events /\ o.event_matches = c.event_matches
    BY <1>1 DEF CoreFields, InputFields
  <1>5. /\ DOMAIN n = DOMAIN c /\ DOMAIN n.vi = DOMAIN c.vi
        /\ n.bundle = c.bundle /\ n.vi.proofs = c.vi.proofs
        /\ n.events = c.events /\ n.event_matches = c.event_matches
    BY <1>1 DEF CoreFields, InputFields
  <1>6. /\ DOMAIN t = DOMAIN c /\ DOMAIN t.vi = DOMAIN c.vi
        /\ t.bundle = c.bundle /\ t.vi.proofs = c.vi.proofs
        /\ t.events = c.events /\ t.event_matches = c.event_matches
    BY <1>1 DEF CoreFields, InputFields
  <1>7. /\ DOMAIN l = DOMAIN c /\ DOMAIN l.vi = DOMAIN c.vi
        /\ l.bundle = c.bundle /\ l.vi.proofs = c.vi.proofs
        /\ l.events = c.events /\ l.event_matches = c.event_matches
    BY <1>1 DEF CoreFields, InputFields
  <1> HIDE DEF d, g, o, n, t, l
  <1>8. Grounded(d) /\ Grounded(g) /\ Grounded(o) /\ Grounded(n) /\ Grounded(t) /\ Grounded(l)
    BY <1>2, <1>3, <1>4, <1>5, <1>6, <1>7, OtherChange
  <1> QED
    BY <1>8 DEF d, g, o, n, t, l

LEMMA ActionChangesGrounded ==
    ASSUME source \in Seq(Events), NEW c, Grounded(c), NEW d \in ActionChanges(c)
    PROVE  Grounded(d)
  <1>1. /\ Grounded([c EXCEPT !.subject.id = "a2"])
        /\ Grounded([c EXCEPT !.subject.origin = "other"])
    BY MemberChange DEF CoreFields
  <1>2. Grounded([c EXCEPT !.vi.action.class = "wire"])
    BY InputChange DEF InputFields
  <1>3. /\ Grounded([c EXCEPT !.claim = NoClaim, !.vi.claim = NoClaim])
        /\ Grounded([c EXCEPT !.vi.claim.vals["value"] = 2])
    BY ClaimedGrounded, InputChange DEF InputFields
  <1>4. Grounded([c EXCEPT !.vi.authority.intent = "RECORDED", !.vi.authority.integrity = "VALID"])
    BY PairedGrounded, Zenon
  <1>5. Grounded([c EXCEPT !.bundle.ok = FALSE]) /\ Grounded([c EXCEPT !.bundle.docs = {}])
    BY BundledGrounded, Zenon
  <1>6. ASSUME NEW fields, d = Unclaimed(c, fields) PROVE Grounded(d)
    BY <1>6, UnclaimedGrounded
  <1> QED
    BY <1>1, <1>2, <1>3, <1>4, <1>5, <1>6, Zenon DEF ActionChanges

LEMMA CoverageChangesGrounded ==
    ASSUME NEW c, Grounded(c), NEW d \in CoverageChanges(c)
    PROVE  Grounded(d)
  <1>1. /\ Grounded([c EXCEPT !.coverage_doc.unique = FALSE])
        /\ Grounded([c EXCEPT !.coverage_doc.material = FALSE])
        /\ Grounded([c EXCEPT !.coverage_doc.correlation = FALSE])
        /\ Grounded([c EXCEPT !.coverage_doc.counted = FALSE])
        /\ Grounded([c EXCEPT !.coverage_doc.final = "pending"])
        /\ Grounded([c EXCEPT !.coverage_doc.claim_refs = {}])
        /\ Grounded([c EXCEPT !.batch.gaps = TRUE])
    BY MemberChange DEF CoreFields
  <1> QED
    BY <1>1, PairedGrounded, ProofsGrounded, Zenon DEF CoverageChanges

LEMMA EvidenceChangesGrounded ==
    ASSUME NEW c, Grounded(c), NEW d \in EvidenceChanges(c)
    PROVE  Grounded(d)
  <1>1. Grounded([c EXCEPT !.open_findings = TRUE])
    BY MemberChange DEF CoreFields
  <1>2. /\ Grounded([c EXCEPT !.vi.findings = "unreadable"])
        /\ Grounded([c EXCEPT !.vi.fork = TRUE])
        /\ Grounded([c EXCEPT !.vi.scitt_receipt_valid = TRUE])
        /\ Grounded([c EXCEPT !.vi.attempts = FALSE])
        /\ Grounded([c EXCEPT !.vi.control = "admitted"])
        /\ Grounded([c EXCEPT !.vi.source_bound = FALSE])
        /\ Grounded([c EXCEPT !.vi.manifest = TRUE])
        /\ Grounded([c EXCEPT !.vi.source_form = "over_limit"])
        /\ Grounded([c EXCEPT !.vi.bounds_ordered = FALSE])
        /\ Grounded([c EXCEPT !.vi.withheld = {"source_proofs"}])
        /\ Grounded([c EXCEPT !.vi.withheld = {"intent"}])
    BY InputChange DEF InputFields
  <1>3. /\ Grounded([c EXCEPT !.open_findings = TRUE, !.vi.findings = "open"])
        /\ Grounded([c EXCEPT !.vi.source_bound = FALSE, !.vi.source_form = "legacy"])
    BY PairedGrounded, Zenon
  <1>4. /\ Grounded([c EXCEPT !.vi.gap_free = FALSE, !.vi.proofs["scan"].real = FALSE])
        /\ Grounded([c EXCEPT !.vi.proofs["scan"].there = FALSE])
    BY ProofsGrounded, Zenon
  <1> QED
    BY <1>1, <1>2, <1>3, <1>4, Zenon DEF EvidenceChanges

LEMMA FormChangesGrounded ==
    ASSUME NEW c, Grounded(c), NEW d \in FormChanges(c)
    PROVE  Grounded(d)
  <1>1. CASE \E x \in Codes, y \in {{}, {"COVERAGE_CONVENTIONS_UNBOUND"}} :
                d = [c EXCEPT !.limitations = (@ \ {x}) \cup y]
    BY <1>1, MemberChange DEF CoreFields
  <1>2. CASE \E f \in {"PARSE", "SCHEMA", "OVER_CAP", "CORE_MALFORMED", "CORE_UNDECLARED_FIELD"} :
                d = [c EXCEPT !.flaw = f]
    <2>1. PICK f : d = [c EXCEPT !.flaw = f]
      BY <1>2
    <2> QED
      BY <2>1, MemberChange DEF CoreFields
  <1> QED
    BY <1>1, <1>2 DEF FormChanges

\* Whatever the producer changes, the core stays grounded.
LEMMA ChangedGrounded ==
    ASSUME source \in Seq(Events), NEW c, Grounded(c), NEW d \in Changed(c)
    PROVE  Grounded(d)
  <1>1. CASE d \in Renamings(c)
    BY <1>1, RenamedGrounded DEF Renamings
  <1>2. CASE d \in Rebundlings(c)
    <2>1. CASE \E kept \in SUBSET c.bundle.rows : d = Rebundled(c, kept, c.bundle.genuine)
      BY <2>1, RebundledGrounded
    <2>2. CASE d = Rebundled(c, {[kind |-> "intent", id |-> "a1", class |-> "wire"]}, FALSE)
      BY <2>2, RebundledGrounded
    <2> QED
      BY <1>2, <2>1, <2>2 DEF Rebundlings
  <1> QED
    BY <1>1, <1>2, ActionChangesGrounded, CoverageChangesGrounded, EvidenceChangesGrounded,
       FormChangesGrounded, RematchingsGrounded DEF Changed

-------------------------------------------------------------------------------
(***************************************************************************)
(* Certificate: the invariant is inductive.                                *)
(***************************************************************************)
\* The log and what third parties signed do not change under a certificate.
LEMMA GroundedKept ==
    ASSUME UNCHANGED world, NEW d, Grounded(d), core' = d
    PROVE  Grounded(core)'
  <1>1. /\ rows' = rows /\ docs' = docs /\ scanned' = scanned /\ missing' = missing
        /\ source' = source
    BY DEF world
  <1> QED
    BY <1>1 DEF Grounded, Shaped, Listed, BundleIsOfLog, ProofsAreSigned

LEMMA CertificateInvInit ==
    Init => CertificateInv
  BY DEF Init, CertificateInv

\* What the producer compiles is what there is.
LEMMA CompileGrounded ==
    ASSUME source \in Seq(Events), Compile
    PROVE  \E d : core' = d /\ Grounded(d)
  <1> DEFINE base == Gathered
             batch == [there |-> TRUE, stated |-> TRUE, ordered |-> TRUE,
                       keys |-> DocOf(source, {"a1"}).keys, gaps |-> FALSE]
             proofs == [a \in Artifacts |->
                          [there |-> TRUE, real |-> a \notin missing,
                           about |-> [batch EXCEPT !.keys = scanned]]]
  <1>1. DOMAIN base = CoreFields /\ DOMAIN base.vi = InputFields
    BY DEF Gathered, CoreFields, InputFields
  <1>2. BundleIsOfLog(base.bundle)
    <2>1. base.bundle = [rows |-> rows, docs |-> docs, ok |-> TRUE, genuine |-> TRUE,
                         origin |-> "o"]
      BY DEF Gathered
    <2> QED
      BY <2>1 DEF BundleIsOfLog
  <1>4. ProofsAreSigned(base.vi.proofs)
    <2>1. "scan" \in Artifacts
      BY DEF Artifacts, Category
    <2>2. base.vi.proofs = proofs
      BY DEF Gathered
    <2>3. ProofsAreSigned(proofs)
      BY <2>1 DEF ProofsAreSigned
    <2> HIDE DEF proofs
    <2> QED
      BY <2>2, <2>3
  <1>5. base.events = source /\ base.event_matches = << >>
    BY DEF Gathered
  <1>6. IsSequence(<< >>)
    BY DEF IsSequence
  <1> HIDE DEF base
  <1>7. Grounded(base)
    BY <1>1, <1>2, <1>4, <1>5, <1>6 DEF Grounded, Shaped, Listed
  <1>8. PICK ms : ms = MatchesOf(base, "none")
    OBVIOUS
  <1>9. IsSequence(ms)
    BY <1>5, <1>8, MatchesListed
  <1>10. core' = [base EXCEPT !.event_matches = ms, !.vi.event_matches = ms]
    BY <1>8 DEF Compile, Rematched, base
  <1> QED
    BY <1>7, <1>9, <1>10, RematchedGrounded

LEMMA CertificateInvStep ==
    CertificateInv /\ [Next]_vars => CertificateInv'
  <1> SUFFICES ASSUME CertificateInv, [Next]_vars PROVE CertificateInv'
    OBVIOUS
  <1>s. source \in Seq(Events)
    BY DEF CertificateInv
  <1>1. ASSUME UNCHANGED world, Grounded(core)' PROVE CertificateInv'
    BY <1>s, <1>1 DEF CertificateInv, world
  <1>2. CASE UNCHANGED <<world, core>>
    <2>1. CASE core = NoCore
      BY <1>s, <1>2, <2>1 DEF CertificateInv, world
    <2>2. CASE core # NoCore
      BY <1>1, <1>2, <2>2, GroundedKept DEF CertificateInv
    <2> QED
      BY <2>1, <2>2
  <1>3. CASE Witness \/ Occur \/ Scan \/ RecordCoverage
    <2>1. core' = NoCore
      BY <1>3 DEF Witness, Occur, Scan, RecordCoverage
    <2>2. source' \in Seq(Events)
      <3>1. CASE Occur
        <4>1. PICK k \in Keys : \E e \in {Ordinary(k)} \cup Unusual(k) :
                 source' = Append(source, e)
          BY <3>1 DEF Occur, Keys
        <4>2. PICK e \in {Ordinary(k)} \cup Unusual(k) : source' = Append(source, e)
          BY <4>1
        <4>3. e \in Events
          BY <4>2 DEF Events
        <4> QED
          BY <1>s, <4>2, <4>3, AppendProperties
      <3>2. CASE Witness \/ Scan \/ RecordCoverage
        BY <1>s, <3>2 DEF Witness, Scan, RecordCoverage
      <3> QED
        BY <1>3, <3>1, <3>2
    <2> QED
      BY <2>1, <2>2 DEF CertificateInv
  <1>4. CASE Compile
    <2>1. UNCHANGED world
      BY <1>4 DEF Compile, world
    <2> QED
      BY <1>s, <1>1, <1>4, <2>1, CompileGrounded, GroundedKept
  <1>5. CASE Change
    <2>1. PICK c \in Changed(core) : core' = [c EXCEPT !.version = @ + 1]
      BY <1>5 DEF Change
    <2>2. Grounded(core) /\ UNCHANGED world
      BY <1>5 DEF Change, CertificateInv, world
    <2>3. Grounded(c)
      BY <1>s, <2>1, <2>2, ChangedGrounded
    <2>4. Grounded([c EXCEPT !.version = @ + 1])
      BY <2>3, MemberChange DEF CoreFields
    <2> QED
      BY <1>1, <2>1, <2>2, <2>4, GroundedKept
  <1>6. CASE AttachReceipt
    <2>1. PICK id : core' = [core EXCEPT !.pack = id, !.version = @ + 1]
      BY <1>6 DEF AttachReceipt
    <2>2. Grounded(core) /\ UNCHANGED world
      BY <1>6 DEF AttachReceipt, CertificateInv, world
    <2>3. core' = [[core EXCEPT !.pack = id] EXCEPT !.version = core.version + 1]
      BY <2>1, <2>2 DEF Grounded, Shaped, CoreFields
    <2>4. Grounded([core EXCEPT !.pack = id])
      BY <2>2, MemberChange DEF CoreFields
    <2>5. Grounded([[core EXCEPT !.pack = id] EXCEPT !.version = core.version + 1])
      BY <2>4, MemberChange DEF CoreFields
    <2> QED
      BY <1>1, <2>2, <2>3, <2>5, GroundedKept
  <1>7. CASE MintView \/ ChangeView \/ Register \/ UNCHANGED vars
    BY <1>2, <1>7 DEF MintView, ChangeView, Register, vars, world
  <1> QED
    BY <1>3, <1>4, <1>5, <1>6, <1>7 DEF Next

\* Whatever the producer compiles and changes, the bundle under the log's own key
\* carries only receipts and documents of the log, the events are the source's, no
\* proof of a third party is one it did not sign, and the scan is of what the node
\* scanned (verify_certificate_cbor_with_trust gets no other cores).
THEOREM CertificateInvariance == Spec => []CertificateInv
  BY CertificateInvInit, CertificateInvStep, PTL DEF Spec

-------------------------------------------------------------------------------
(***************************************************************************)
(* What a clean report rests on.                                           *)
(***************************************************************************)
\* No error means that every check held.
LEMMA AllChecksHold ==
    ASSUME NEW c, NEW pinned, CrossCheckErrors(c, pinned) = {}
    PROVE  /\ c.bundle.ok
           /\ c.bundle.ok /\ "log_keys" \in pinned => c.bundle.genuine
           /\ SubjectMatchesInput(c, c.subject.id, c.vi.action.id)
           /\ SubjectMatchesInput(c, c.subject.class, c.vi.action.class)
           /\ InputActionMatchesSigned(c)
           /\ CheckAuthority(c)
           /\ CheckInputEcho(c)
           /\ CheckFindingsCarried(c)
           /\ CheckMatches(c)
           /\ LimitationsConsistent(c)
  <1> DEFINE checks ==
          << <<c.bundle.ok, "BUNDLE_INVALID">>,
             <<c.subject.origin = c.bundle.origin, "SUBJECT_ORIGIN_MISMATCH">>,
             <<c.bundle.ok /\ "log_keys" \in pinned => c.bundle.genuine, "ORIGIN_NOT_ATTESTED">>,
             <<SubjectMatchesInput(c, c.subject.id, c.vi.action.id), "SUBJECT_ACTION_ID_MISMATCH">>,
             <<SubjectMatchesInput(c, c.subject.class, c.vi.action.class),
               "SUBJECT_ACTION_CLASS_MISMATCH">>,
             <<InputActionMatchesSigned(c), "ACTION_CONTEXT_MISMATCH">>,
             <<ClaimMatchesSubject(c), "CLAIM_IDENTITY_MISMATCH">>,
             <<SubjectIdsMatchAuthority(c), "SUBJECT_IDS_MISMATCH">>,
             <<CheckAuthority(c), "AUTHORITY_MISMATCH">>,
             <<CheckInputEcho(c), "VERDICT_INPUT_MISMATCH">>,
             <<CheckFindingsCarried(c), "FINDINGS_NOT_CONSUMED">>,
             <<CheckMatches(c), "EVENT_MATCHES_MISMATCH">>,
             <<CheckCoverage(c), "COVERAGE_INCONSISTENT">>,
             <<CoverageDocBound(c), "COVERAGE_DOC_MISMATCH">>,
             <<LimitationsConsistent(c), "LIMITATIONS_INCONSISTENT">> >>
  <1>1. {checks[i][2] : i \in {j \in DOMAIN checks : ~checks[j][1]}} = {}
    BY DEF CrossCheckErrors
  <1>2. DOMAIN checks = 1..15
    OBVIOUS
  <1>3. /\ checks[1][1] = c.bundle.ok
        /\ checks[3][1] = (c.bundle.ok /\ "log_keys" \in pinned => c.bundle.genuine)
        /\ checks[4][1] = SubjectMatchesInput(c, c.subject.id, c.vi.action.id)
        /\ checks[5][1] = SubjectMatchesInput(c, c.subject.class, c.vi.action.class)
        /\ checks[6][1] = InputActionMatchesSigned(c)
        /\ checks[9][1] = CheckAuthority(c)
        /\ checks[10][1] = CheckInputEcho(c)
        /\ checks[11][1] = CheckFindingsCarried(c)
        /\ checks[12][1] = CheckMatches(c)
        /\ checks[15][1] = LimitationsConsistent(c)
    OBVIOUS
  <1> HIDE DEF checks
  <1>4. \A j \in 1..15 : checks[j][1]
    BY <1>1, <1>2
  <1>5. checks[1][1] /\ checks[3][1] /\ checks[4][1] /\ checks[5][1] /\ checks[6][1]
    BY <1>4
  <1>6. checks[9][1] /\ checks[10][1] /\ checks[11][1] /\ checks[12][1] /\ checks[15][1]
    BY <1>4
  <1> QED
    BY <1>3, <1>5, <1>6

\* A clean report is derived from the verdict input the core carries, in which the
\* verifier has set no more than what it decides itself.
LEMMA CleanReport ==
    ASSUME Grounded(core), Clean(Report)
    PROVE  \E vi : /\ Report.vector = DeriveVector(vi, trust)
                   /\ CrossCheckErrors(core, trust) = {}
                   /\ \A f \in InputFields \ {"withheld", "authority", "scitt_receipt_valid"} :
                         vi[f] = core.vi[f]
                   /\ \A f \in {"integrity", "identity", "authority", "intent", "interval"} :
                         DOMAIN core.vi.authority = {"integrity", "identity", "authority", "intent",
                                                     "interval", "subject_ids"}
                         => vi.authority[f] = core.vi.authority[f]
  <1>1. \A e : Held(e).errors # {}
    BY DEF Held
  <1>2. Report = VerifyCore(core, view, trust)
    BY <1>1, Zenon DEF Report, Run, Clean
  <1> DEFINE errors == CrossCheckErrors(core, trust)
             vi == VerifiedInput(core, view, errors, trust)
  <1>3. core.flaw = "none"
    BY <1>1, <1>2, Zenon DEF VerifyCore, Clean
  <1>4. /\ Report.vector = DeriveVector(vi, trust)
        /\ Report.errors = errors \cup IF view.there
                                       THEN ViewErrors(core, view, DeriveVector(vi, {}).mark)
                                       ELSE {}
    BY <1>2, <1>3 DEF VerifyCore
  <1>5. errors = {}
    BY <1>4 DEF Clean
  <1>6. DOMAIN core.vi = InputFields
    BY DEF Grounded, Shaped
  <1>7. \A f \in InputFields \ {"withheld", "authority", "scitt_receipt_valid"} :
           vi[f] = core.vi[f]
    BY <1>6 DEF VerifiedInput, InputFields
  <1>8. \A f \in {"integrity", "identity", "authority", "intent", "interval"} :
           DOMAIN core.vi.authority = {"integrity", "identity", "authority", "intent",
                                       "interval", "subject_ids"}
           => vi.authority[f] = core.vi.authority[f]
    BY <1>5, <1>6 DEF VerifiedInput, InputFields
  <1> HIDE DEF vi
  <1> QED
    BY <1>4, <1>5, <1>7, <1>8 DEF errors

\* The dimensions, one by one.
LEMMA Dimensions ==
    ASSUME NEW vi, NEW pinned
    PROVE  LET v == DeriveVector(vi, pinned).dims
           IN /\ v.authority = AuthorityBlock(vi).authority
              /\ v.outcome = Outcome(vi)
              /\ v.coverage = Coverage(vi, pinned)
              /\ v.source_signature = SourceSignature(vi, pinned)
              /\ v.control_domain = ControlDomain(vi, pinned)
              /\ v.node_observation = IF Observed(vi, pinned) THEN "OBSERVED" ELSE "NOT_OBSERVED"
              /\ v.temporal_binding = Temporal(vi, pinned)
  BY DEF DeriveVector

\* A favourable value rests on a proof its signer made, under a pinned key.
LEMMA TrustIsAnchored ==
    ASSUME ProofsAreSigned(core.vi.proofs), NEW vi, vi.proofs = core.vi.proofs,
           NEW a \in Artifacts, TrustVerified(vi, a, trust)
    PROVE  Anchored(a)
  BY DEF ProofsAreSigned, TrustVerified, Anchored

LEMMA CertificateInvFavour ==
    CertificateInv => FavourIsAnchored
  <1> SUFFICES ASSUME CertificateInv, Clean(Report) PROVE FavourIsAnchored
    BY DEF FavourIsAnchored
  <1>1. Grounded(core)
    BY DEF CertificateInv, Clean, Compiled
  <1>2. PICK vi : /\ Report.vector = DeriveVector(vi, trust)
                  /\ CrossCheckErrors(core, trust) = {}
                  /\ \A f \in InputFields \ {"withheld", "authority", "scitt_receipt_valid"} :
                        vi[f] = core.vi[f]
    BY <1>1, CleanReport
  <1>3. /\ vi.proofs = core.vi.proofs /\ vi.batch = core.vi.batch
        /\ vi.findings = core.vi.findings
    BY <1>2 DEF InputFields
  <1>4. core.batch = core.vi.batch /\ (core.open_findings => core.vi.findings = "open")
    BY <1>2, AllChecksHold DEF CheckInputEcho, CheckFindingsCarried
  <1>5. ProofsAreSigned(core.vi.proofs)
    BY <1>1 DEF Grounded
  <1>6. ASSUME NEW a \in Artifacts, TrustVerified(vi, a, trust) PROVE Anchored(a)
    BY <1>3, <1>5, <1>6, TrustIsAnchored
  <1>7. /\ "source_proof" \in Artifacts /\ "control_evidence" \in Artifacts
        /\ "scan" \in Artifacts /\ "attestation" \in Artifacts
        /\ "population_proof" \in Artifacts /\ "echo" \in Artifacts
        /\ "intent_bounds" \in Artifacts /\ "event_bounds" \in Artifacts
    BY DEF Artifacts, Category
  <1>8. Observed(vi, trust) => Anchored("scan") /\ scanned = core.batch.keys
    BY <1>3, <1>4, <1>5, <1>6, <1>7 DEF Observed, ScanBindsBatch, ProofsAreSigned
  <1> DEFINE v == Report.vector.dims
  <1>9. v.source_signature = "ASYMMETRIC" => Anchored("source_proof")
    BY <1>2, <1>6, <1>7, Dimensions DEF SourceSignature
  <1>10. v.control_domain = "INDEPENDENT" => Anchored("control_evidence")
    BY <1>2, <1>6, <1>7, Dimensions DEF ControlDomain
  <1>11. v.node_observation = "OBSERVED" => Anchored("scan") /\ scanned = core.batch.keys
    BY <1>2, <1>8, Dimensions
  <1>12. v.temporal_binding # "UNPROVEN" =>
            Anchored("echo") \/ (Anchored("intent_bounds") /\ Anchored("event_bounds"))
    BY <1>2, <1>6, <1>7, Dimensions DEF Temporal
  <1>13. ASSUME v.coverage = "CLOSED"
         PROVE  /\ ~core.open_findings /\ ~core.batch.gaps
                /\ \/ Anchored("population_proof")
                   \/ Anchored("scan") /\ Anchored("attestation") /\ scanned = core.batch.keys
    <2>1. Coverage(vi, trust) = "CLOSED"
      BY <1>2, <1>13, Dimensions
    <2>2. ~core.open_findings /\ ~core.batch.gaps
      BY <1>3, <1>4, <2>1 DEF Coverage, HasOpenFinding
    <2>3. CoverageBasis(vi, trust) # "INSUFFICIENT"
      BY <2>1 DEF Coverage
    <2>4. \/ TrustVerified(vi, "population_proof", trust)
          \/ Observed(vi, trust) /\ TrustVerified(vi, "attestation", trust)
      BY <2>3 DEF CoverageBasis, NodeIntegrityBasis, PopulationProven
    <2> QED
      BY <1>6, <1>7, <1>8, <2>2, <2>4
  <1> HIDE DEF v
  <1>14. FavourIsAnchored
    BY <1>9, <1>10, <1>11, <1>12, <1>13 DEF FavourIsAnchored, v
  <1> QED
    BY <1>14

\* A relying party never reads a dimension better than what third parties signed
\* under keys it pinned, for any number of changes to the core and to the view.
THEOREM FavourIsAnchoredAlways == Spec => []FavourIsAnchored
  BY CertificateInvariance, CertificateInvFavour, PTL

\* A log without intents gives an action no authority.
LEMMA NoIntentNoAuthority ==
    ASSUME NEW b, NEW id, ~HasSignedIntent(b)
    PROVE  AuthorityFacts(b, id).authority = "NOT_VERIFIED"
  <1>1. Intents(b) = {} /\ IntentsFor(b, id) = {}
    BY DEF HasSignedIntent, IntentsFor
  <1>2. Cardinality({}) = 0
    BY FS_EmptySet
  <1>3. Facts(b, {}).authority = "NOT_VERIFIED"
    BY <1>2 DEF Facts
  <1> QED
    BY <1>1, <1>3 DEF AuthorityFacts

LEMMA AuthorityFields ==
    ASSUME NEW b, NEW id
    PROVE  DOMAIN AuthorityFacts(b, id) =
              {"integrity", "identity", "authority", "intent", "interval", "subject_ids"}
  BY DEF AuthorityFacts, Facts

LEMMA CertificateInvDisplayed ==
    CertificateInv => DisplayedActionIsSigned
  <1> SUFFICES ASSUME CertificateInv, Clean(Report), "log_keys" \in trust
               PROVE  DisplayedActionIsSigned
    BY DEF DisplayedActionIsSigned
  <1> DEFINE b == core.bundle
             a == core.vi.action
             named == {r \in rows : r.id = core.subject.id}
  <1>1. Grounded(core)
    BY DEF CertificateInv, Clean, Compiled
  <1>2. PICK vi : /\ Report.vector = DeriveVector(vi, trust)
                  /\ CrossCheckErrors(core, trust) = {}
                  /\ \A f \in {"integrity", "identity", "authority", "intent", "interval"} :
                        DOMAIN core.vi.authority = {"integrity", "identity", "authority", "intent",
                                                    "interval", "subject_ids"}
                        => vi.authority[f] = core.vi.authority[f]
    BY <1>1, CleanReport
  <1>3. /\ core.subject.id = a.id /\ core.subject.class = a.class
        /\ InputActionMatchesSigned(core)
        /\ core.vi.authority = AuthorityFacts(b, core.subject.id)
        /\ b.genuine
    BY <1>2, AllChecksHold DEF SubjectMatchesInput, CheckAuthority
  <1>4. b.rows \subseteq rows
    BY <1>1, <1>3 DEF Grounded, BundleIsOfLog
  <1>5. vi.authority.authority = core.vi.authority.authority
    BY <1>2, <1>3, AuthorityFields
  <1>6. ~HasSignedIntent(b) => Report.vector.dims.authority # "VERIFIED"
    <2>1. Report.vector.dims.authority = AuthorityBlock(vi).authority
      BY <1>2, Dimensions
    <2>2. ~HasSignedIntent(b) => vi.authority.authority = "NOT_VERIFIED"
      BY <1>3, <1>5, NoIntentNoAuthority
    <2> QED
      BY <2>1, <2>2 DEF AuthorityBlock
  <1>7. CASE HasSignedIntent(b)
    <2>1. PICK r \in IntentsFor(b, a.id) : r.class = a.class
      BY <1>3, <1>7 DEF InputActionMatchesSigned
    <2>2. r \in named /\ r.kind = "intent" /\ r.class = core.subject.class
      BY <1>3, <1>4, <2>1 DEF IntentsFor, Intents
    <2> QED
      BY <2>2 DEF DisplayedActionIsSigned
  <1>8. CASE ~HasSignedIntent(b)
    <2>1. core.subject.id # "" => named # {}
      BY <1>3, <1>4, <1>8 DEF InputActionMatchesSigned
    <2>2. core.subject.class # "" => \E r \in named : r.class = core.subject.class
      BY <1>3, <1>4, <1>8 DEF InputActionMatchesSigned, SignedClasses
    <2> QED
      BY <1>6, <1>8, <2>1, <2>2 DEF DisplayedActionIsSigned
  <1> QED
    BY <1>7, <1>8

\* The action on display was signed by the node under that id and class, whatever
\* the producer left out of the bundle, renamed or made up (signed_action_intents).
THEOREM DisplayedActionIsSignedAlways == Spec => []DisplayedActionIsSigned
  BY CertificateInvariance, CertificateInvDisplayed, PTL

-------------------------------------------------------------------------------
(***************************************************************************)
(* Certificate: MATCHED.                                                   *)
(***************************************************************************)
LEMMA LeastOf ==
    ASSUME NEW S, S \subseteq Nat, S # {}
    PROVE  Min(S) \in S /\ \A y \in S : Min(S) <= y
  <1>1. PICK x \in S : \A y \in S : ~(<<y, x>> \in OpToRel(<, Nat))
    BY NatLessThanWellFounded, WFMin
  <1>2. \A y \in S : ~(y < x)
    BY <1>1 DEF OpToRel
  <1>3. \A y \in S : x <= y
    BY <1>2
  <1> QED
    BY <1>3 DEF Min

\* Of the events without repetitions no two have a key in common, and the first
\* event of a key, as the verdict looks it up, is the one that is kept.
LEMMA OneEventOfAKey ==
    ASSUME source \in Seq(Events), NEW e \in DedupedEvents(source), NEW g \in DedupedEvents(source),
           e.key = g.key
    PROVE  e = g
  <1>1. PICK i \in FirstOfKey(source) : e = source[i]
    BY DEF DedupedEvents
  <1>2. PICK j \in FirstOfKey(source) : g = source[j]
    BY DEF DedupedEvents
  <1>3. i \in 1..Len(source) /\ j \in 1..Len(source) /\ Len(source) \in Nat
    BY DEF FirstOfKey
  <1>4. ~(i < j) /\ ~(j < i)
    BY <1>1, <1>2, <1>3 DEF FirstOfKey
  <1> QED
    BY <1>1, <1>2, <1>3, <1>4

LEMMA FirstIsKept ==
    ASSUME source \in Seq(Events), NEW e \in DedupedEvents(source)
    PROVE  LET found == {i \in DOMAIN source : source[i].key = e.key}
           IN found # {} /\ source[Min(found)] = e
  <1> DEFINE found == {i \in DOMAIN source : source[i].key = e.key}
  <1>1. PICK i \in FirstOfKey(source) : e = source[i]
    BY DEF DedupedEvents
  <1>2. i \in found /\ found \subseteq 1..Len(source) /\ Len(source) \in Nat
    BY <1>1 DEF FirstOfKey
  <1>3. Min(found) \in found /\ Min(found) <= i
    <2> HIDE DEF found
    <2>1. found \subseteq Nat /\ found # {}
      BY <1>2
    <2> QED
      BY <1>2, <2>1, LeastOf
  <1>4. PICK m : m = Min(found)
    OBVIOUS
  <1>5. m = i
    BY <1>1, <1>2, <1>3, <1>4 DEF FirstOfKey
  <1> QED
    BY <1>1, <1>2, <1>4, <1>5

\* What MATCHED takes: a claim, one candidate, and agreement with the first event
\* of its key.
LEMMA MatchedTakes ==
    ASSUME NEW vi, Outcome(vi) = "MATCHED"
    PROVE  /\ vi.claim # NoClaim
           /\ Cardinality(Candidates(vi)) = 1
           /\ Candidate(vi).final
           /\ MaterialAgreement(vi, Candidate(vi)) = "AGREE"
  BY DEF Outcome

LEMMA AgreeMeans ==
    ASSUME NEW vi, NEW m, NEW e, MaterialAgreement(vi, m) = "AGREE",
           e = vi.events[Min({i \in DOMAIN vi.events : vi.events[i].key = m.key})]
    PROVE  /\ \A f \in Floor : Stated(vi.claim, f) <=> Stated(e, f)
           /\ \E f \in MaterialFields : Stated(vi.claim, f) /\ Stated(e, f)
           /\ \A f \in MaterialFields : ~Disagree(vi.claim, e, f)
  <1> DEFINE fields == Floor \cup (IF vi.manifest THEN MaterialFields ELSE {})
             compared == {f \in fields : Stated(vi.claim, f) /\ Stated(e, f)}
  <1>1. /\ compared # {}
        /\ ~ \E f \in compared : Disagree(vi.claim, e, f)
        /\ ~ \E f \in fields : Stated(vi.claim, f) # Stated(e, f)
        /\ ~ \E f \in MaterialFields \ fields : Disagree(vi.claim, e, f)
    BY Zenon DEF MaterialAgreement
  <1>2. \A f \in Floor : Stated(vi.claim, f) <=> Stated(e, f)
    <2>1. \A f \in Floor : Stated(vi.claim, f) = Stated(e, f)
      BY <1>1
    <2> QED
      BY <2>1 DEF Stated
  <1>3. \A f \in MaterialFields : ~Disagree(vi.claim, e, f)
    BY <1>1 DEF Disagree
  <1>4. \E f \in MaterialFields : Stated(vi.claim, f) /\ Stated(e, f)
    BY <1>1 DEF MaterialFields
  <1> QED
    BY <1>2, <1>3, <1>4

LEMMA CertificateInvMatched ==
    CertificateInv => MatchedIsSupported
  <1> SUFFICES ASSUME CertificateInv, Clean(Report), Report.vector.dims.outcome = "MATCHED"
               PROVE  MatchedIsSupported
    BY DEF MatchedIsSupported
  <1> DEFINE doc == core.coverage_doc
             es == DedupedEvents(source)
             ms == core.event_matches
             hits == {e \in es : Links(core.claim, e, doc)}
  <1>1. Grounded(core) /\ source \in Seq(Events)
    BY DEF CertificateInv, Clean, Compiled
  <1>2. PICK vi : /\ Report.vector = DeriveVector(vi, trust)
                  /\ CrossCheckErrors(core, trust) = {}
                  /\ \A f \in InputFields \ {"withheld", "authority", "scitt_receipt_valid"} :
                        vi[f] = core.vi[f]
    BY <1>1, CleanReport
  <1>3. core.events = source /\ IsSequence(ms)
    BY <1>1 DEF Grounded, Listed
  <1>4. vi.events = source /\ vi.event_matches = ms /\ vi.claim = core.claim
    <2>1. /\ vi.events = core.vi.events /\ vi.event_matches = core.vi.event_matches
          /\ vi.claim = core.vi.claim
      BY <1>2 DEF InputFields
    <2> QED
      BY <1>2, <1>3, <2>1, AllChecksHold DEF CheckInputEcho
  <1>5. /\ vi.claim # NoClaim
        /\ Cardinality(Candidates(vi)) = 1
        /\ Candidate(vi).final
        /\ MaterialAgreement(vi, Candidate(vi)) = "AGREE"
    <2>1. Outcome(vi) = "MATCHED"
      BY <1>2, Dimensions
    <2> QED
      BY <2>1, MatchedTakes
  \* The one candidate, and the event it stands for.
  <1>6. PICK at : Candidates(vi) = {at} /\ at \in DOMAIN ms /\ Candidate(vi) = ms[at]
    <2>1. PICK n \in Nat : DOMAIN ms = 1..n
      <3>1. PICK S : ms \in Seq(S)
        BY <1>3 DEF IsSequence
      <3> QED
        BY <3>1
    <2>2. Candidates(vi) \subseteq 1..n
      BY <1>4, <2>1 DEF Candidates
    <2>3. IsFiniteSet(Candidates(vi))
      BY <2>1, <2>2, FS_Interval, FS_Subset
    <2>4. PICK at : Candidates(vi) = {at}
      BY <1>5, <2>3, FS_Singleton
    <2>5. at \in 1..n
      BY <2>2, <2>4
    <2>6. Min({at}) = at
      BY <2>5, LeastOf
    <2> QED
      BY <1>4, <2>1, <2>4, <2>5, <2>6 DEF Candidate
  <1>7. /\ \A i \in DOMAIN ms : \E e \in es : ms[i] = MatchFor(core, e, Len(ms) = 1)
        /\ \A e \in es : Links(core.claim, e, doc) => \E i \in DOMAIN ms : ms[i].key = e.key
    BY <1>2, <1>3, AllChecksHold DEF CheckMatches
  <1>8. \A e, lone : LET m == MatchFor(core, e, lone)
                     IN /\ m.key = e.key
                        /\ (m.echo \/ m.ref \/ m.unique) <=> Links(core.claim, e, doc)
                        /\ m.final <=> e.finality = doc.final
    BY DEF MatchFor, Links, LinkFlags
  <1>9. PICK e \in es : ms[at] = MatchFor(core, e, Len(ms) = 1)
    BY <1>6, <1>7
  <1>10. \A i : i \in DOMAIN ms /\ (ms[i].echo \/ ms[i].ref \/ ms[i].unique) => i = at
    BY <1>4, <1>6 DEF Candidates
  <1>11. ms[at].echo \/ ms[at].ref \/ ms[at].unique
    BY <1>4, <1>6 DEF Candidates
  <1>12. e \in hits
    BY <1>8, <1>9, <1>11
  <1>13. ASSUME NEW g \in hits PROVE g = e
    <2>1. PICK i \in DOMAIN ms : ms[i].key = g.key
      BY <1>7, <1>13
    <2>2. PICK h \in es : ms[i] = MatchFor(core, h, Len(ms) = 1)
      BY <1>7
    <2>3. h = g
      BY <1>1, <1>8, <2>1, <2>2, OneEventOfAKey
    <2>4. i = at
      BY <1>8, <1>10, <2>2, <2>3
    <2> QED
      BY <1>1, <1>8, <1>9, <2>1, <2>4, OneEventOfAKey
  <1>14. e.finality = doc.final
    BY <1>5, <1>6, <1>8, <1>9
  <1>15. e = vi.events[Min({i \in DOMAIN vi.events : vi.events[i].key = ms[at].key})]
    <2>1. ms[at].key = e.key
      BY <1>8, <1>9
    <2> QED
      BY <1>1, <1>4, <2>1, FirstIsKept
  <1>16. /\ \A f \in Floor : Stated(core.claim, f) <=> Stated(e, f)
         /\ \E f \in MaterialFields : Stated(core.claim, f) /\ Stated(e, f)
         /\ \A f \in MaterialFields : ~Disagree(core.claim, e, f)
    BY <1>4, <1>5, <1>6, <1>15, AgreeMeans
  <1>18. "COVERAGE_CONVENTIONS_UNBOUND" \in core.limitations \/ doc \in docs
    <2>1. LimitationsConsistent(core)
      BY <1>2, AllChecksHold
    <2>2. core.bundle.docs \subseteq docs
      BY <1>1 DEF Grounded, BundleIsOfLog
    <2> QED
      BY <2>1, <2>2 DEF LimitationsConsistent, CoverageConventionsBound
  <1>19. hits = {e}
    BY <1>12, <1>13
  <1>20. \E x \in hits :
              /\ hits = {x}
              /\ x.finality = doc.final
              /\ \A f \in Floor : Stated(x, f) <=> Stated(core.claim, f)
              /\ \E f \in MaterialFields : Stated(x, f) /\ Stated(core.claim, f)
              /\ \A f \in MaterialFields : ~Disagree(core.claim, x, f)
              /\ "COVERAGE_CONVENTIONS_UNBOUND" \in core.limitations \/ doc \in docs
    BY <1>12, <1>14, <1>16, <1>18, <1>19
  <1> QED
    BY <1>3, <1>20 DEF MatchedIsSupported, Linked

\* MATCHED is never the producer's word: one event of the source links to the claim,
\* is final, states of the floor what the claim states, states some field as the claim
\* does and contradicts nothing (check_matches, declared_tally, material_agreement).
THEOREM MatchedIsSupportedAlways == Spec => []MatchedIsSupported
  BY CertificateInvariance, CertificateInvMatched, PTL
===============================================================================
