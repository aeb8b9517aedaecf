-------------------------- MODULE BrowserPageProofs --------------------------
(***************************************************************************)
(* Proofs about BrowserPage, for any number of selections and any order in *)
(* which the reads they start come to an end.                              *)
(***************************************************************************)
EXTENDS BrowserPage, FiniteSetTheorems, TLAPS

-------------------------------------------------------------------------------
(***************************************************************************)
(* The inductive invariant.                                                *)
(***************************************************************************)
Shaped ==
    /\ assets \in {"loading", "ready", "refused"}
    /\ inputGeneration \in 0..MaxSelections
    /\ requireManifest \in BOOLEAN
    /\ view \in View
    /\ view.about = {} \/ \E text \in Text : view.about = {text}

\* Reads are of selections made so far, and each selection started one read: when
\* the read of the last selection ends, no other read is current.
ReadsNumbered ==
    /\ reads \subseteq Read
    /\ \A r \in reads : r.gen <= inputGeneration
    /\ \A r, q \in reads : r.gen = q.gen => r = q

\* A text the page may hold: of the last selection, of a kind that is held, and
\* never one the demo changed and the verifier still accepts.
Holdable(text) ==
    /\ text \in Text
    /\ text.gen = inputGeneration
    /\ text.tampered => text.input.result = "NOT_VERIFIED"

\* The text held is the text shown.
HeldIsShown == current = {} \/ \E text \in Text : current = {text} /\ view.about = {text} /\ Holdable(text)

\* Green only while the text is held: that is why the checkbox, which judges the
\* text held, always gets to judge a green one again.
GreenIsHeld ==
    view.verdict = "verified" =>
        \E text \in Text : current = {text} /\ Passed(text.input, requireManifest)

\* Nothing is selected before the verifier is there.
IdleUntilReady == assets # "ready" => reads = {} /\ current = {}

PageInv ==
    /\ Shaped /\ ReadsNumbered /\ HeldIsShown /\ GreenIsHeld /\ IdleUntilReady
    /\ DigestBesideGreen /\ NothingWhileReading

-------------------------------------------------------------------------------
(***************************************************************************)
(* What the parts of a handler leave behind.                               *)
(***************************************************************************)
\* Before anything is selected nothing is shown.
LEMMA PageInvInit == Init => PageInv
  <1> SUFFICES ASSUME Init PROVE PageInv
    OBVIOUS
  <1>1. Shaped
    BY SelectionsAssumption DEF Init, Shaped, View, Verdicts
  <1>2. ReadsNumbered /\ HeldIsShown /\ IdleUntilReady
    BY DEF Init, ReadsNumbered, HeldIsShown, IdleUntilReady
  <1>3. GreenIsHeld /\ DigestBesideGreen /\ NothingWhileReading
    BY DEF Init, GreenIsHeld, DigestBesideGreen, NothingWhileReading
  <1> QED
    BY <1>1, <1>2, <1>3 DEF PageInv

\* Reads that end leave the others numbered as they were.
LEMMA FewerReads ==
    ASSUME ReadsNumbered, reads' \subseteq reads, UNCHANGED inputGeneration
    PROVE  ReadsNumbered'
  BY DEF ReadsNumbered

\* rejectInput leaves nothing that an invariant could be violated by.
LEMMA RejectKeeps ==
    ASSUME Shaped, assets' \in {"loading", "ready", "refused"},
           inputGeneration' \in 0..MaxSelections, requireManifest' \in BOOLEAN,
           ReadsNumbered', IdleUntilReady',
           NEW verdict \in {"reading", "input refused"}, RejectInput(verdict),
           (\E r \in reads' : r.gen = inputGeneration') => verdict = "reading"
    PROVE  PageInv'
  <1>1. /\ current' = {} /\ view' \in View /\ view'.verdict = verdict
        /\ view'.about = {} /\ view'.digest = FALSE
    BY DEF RejectInput, RejectedView, Cleared, Shaped, View, Verdicts
  <1>2. Shaped' /\ HeldIsShown'
    BY <1>1 DEF Shaped, HeldIsShown
  <1>3. GreenIsHeld' /\ DigestBesideGreen' /\ NothingWhileReading'
    BY <1>1 DEF GreenIsHeld, DigestBesideGreen, NothingWhileReading, IsCurrent
  <1> QED
    BY <1>2, <1>3 DEF PageInv

\* Showing a text of the last selection, once its read is over.
LEMMA ShowKeeps ==
    ASSUME PageInv, NEW text, Holdable(text), assets = "ready",
           UNCHANGED <<assets, inputGeneration>>, requireManifest' \in BOOLEAN,
           reads' \subseteq reads, ~\E r \in reads' : r.gen = inputGeneration,
           Show(text, requireManifest')
    PROVE  PageInv'
  <1>0. Shaped /\ ReadsNumbered /\ ReadsNumbered' /\ IdleUntilReady'
    BY FewerReads DEF PageInv, IdleUntilReady
  <1>1. CASE RejectInput("input refused")
    BY <1>0, <1>1, RejectKeeps DEF Shaped
  <1>2. CASE /\ text.input.kind \in {"bundle", "dispute"}
             /\ text.input.result # "incompatible"
             /\ current' = {text}
             /\ view' = [Cleared(view) EXCEPT
                         !.verdict  = IF Passed(text.input, requireManifest')
                                      THEN "verified" ELSE "not verified",
                         !.about    = {text},
                         !.digest   = IF Passed(text.input, requireManifest') THEN TRUE ELSE @,
                         !.controls = TRUE,
                         !.flip     = text.input.kind = "bundle"]
    <2>1. text \in Text
      BY DEF Holdable
    <2>2. /\ view' \in View /\ view'.about = {text}
          /\ view'.verdict = "verified" <=> Passed(text.input, requireManifest')
          /\ view'.digest <=> Passed(text.input, requireManifest')
      BY <1>0, <1>2, <2>1 DEF Cleared, Shaped, View, Verdicts
    <2>3. Shaped'
      BY <1>0, <2>1, <2>2 DEF Shaped
    <2>4. HeldIsShown' /\ GreenIsHeld' /\ DigestBesideGreen'
      BY <1>2, <2>1, <2>2 DEF HeldIsShown, Holdable, GreenIsHeld, Passed, DigestBesideGreen
    <2>5. NothingWhileReading'
      BY DEF NothingWhileReading, IsCurrent
    <2> QED
      BY <1>0, <2>3, <2>4, <2>5 DEF PageInv
  <1> QED
    BY <1>1, <1>2 DEF Show

\* A certificate is shown and not held.
LEMMA ShowCertificateKeeps ==
    ASSUME PageInv, NEW text \in Text,
           UNCHANGED <<assets, inputGeneration, requireManifest>>,
           reads' \subseteq reads, ~\E r \in reads' : r.gen = inputGeneration,
           ShowCertificate(text)
    PROVE  PageInv'
  <1>0. Shaped /\ ReadsNumbered' /\ IdleUntilReady'
    BY FewerReads DEF PageInv, IdleUntilReady, ShowCertificate
  <1>1. /\ current' = {} /\ view' \in View /\ view'.about = {text} /\ view'.digest = FALSE
        /\ view'.verdict \in {"verifier error", "certificate"}
    BY <1>0 DEF ShowCertificate, Cleared, Shaped, View, Verdicts
  <1>2. Shaped' /\ HeldIsShown'
    BY <1>0, <1>1 DEF Shaped, HeldIsShown
  <1>3. GreenIsHeld' /\ DigestBesideGreen' /\ NothingWhileReading'
    BY <1>1 DEF GreenIsHeld, DigestBesideGreen, NothingWhileReading, IsCurrent
  <1> QED
    BY <1>0, <1>2, <1>3 DEF PageInv

\* A read that is no longer wanted ends without a trace.
LEMMA StaleReadKeeps ==
    ASSUME PageInv, reads' \subseteq reads,
           UNCHANGED <<assets, inputGeneration, requireManifest, current, view>>
    PROVE  PageInv'
  <1>1. ReadsNumbered'
    BY FewerReads DEF PageInv
  <1>2. Shaped' /\ HeldIsShown' /\ GreenIsHeld' /\ DigestBesideGreen'
    BY DEF PageInv, Shaped, HeldIsShown, Holdable, GreenIsHeld, DigestBesideGreen
  <1>3. IdleUntilReady' /\ NothingWhileReading'
    BY DEF PageInv, IdleUntilReady, NothingWhileReading, IsCurrent
  <1> QED
    BY <1>1, <1>2, <1>3 DEF PageInv

-------------------------------------------------------------------------------
(***************************************************************************)
(* Every handler keeps the invariant.                                      *)
(***************************************************************************)
\* The assets are pinned or refused; nothing was held before.
LEMMA LoadAssetsKeeps == ASSUME PageInv, LoadAssets PROVE PageInv'
  <1>0. /\ Shaped /\ current = {} /\ reads = {} /\ assets' \in {"ready", "refused"}
        /\ view.verdict # "verified" /\ ~view.digest
        /\ UNCHANGED <<inputGeneration, reads, current, requireManifest>>
    BY DEF PageInv, LoadAssets, IdleUntilReady, GreenIsHeld, DigestBesideGreen
  <1>1. /\ view' \in View /\ view'.about = view.about /\ view'.digest = view.digest
        /\ view'.verdict # "verified"
    BY <1>0 DEF LoadAssets, Shaped, View, Verdicts
  <1>2. Shaped' /\ ReadsNumbered' /\ HeldIsShown' /\ IdleUntilReady'
    BY <1>0, <1>1 DEF Shaped, ReadsNumbered, HeldIsShown, IdleUntilReady
  <1>3. GreenIsHeld' /\ DigestBesideGreen' /\ NothingWhileReading'
    BY <1>0, <1>1 DEF GreenIsHeld, DigestBesideGreen, NothingWhileReading
  <1> QED
    BY <1>2, <1>3 DEF PageInv

\* A file offered before the verifier is ready is refused.
LEMMA SelectTooEarlyKeeps == ASSUME PageInv, SelectTooEarly PROVE PageInv'
  <1>1. /\ Shaped /\ reads = {} /\ RejectInput("input refused") /\ current' = {}
        /\ UNCHANGED <<assets, inputGeneration, reads, requireManifest>>
    BY DEF PageInv, SelectTooEarly, IdleUntilReady, RejectInput
  <1>2. ReadsNumbered' /\ IdleUntilReady'
    BY <1>1 DEF ReadsNumbered, IdleUntilReady
  <1> QED
    BY <1>1, <1>2, RejectKeeps DEF Shaped

\* A selection starts the only read that bears its number.
LEMMA SelectFileKeeps == ASSUME PageInv, SelectFile PROVE PageInv'
  <1>0. /\ Shaped /\ ReadsNumbered /\ assets = "ready" /\ inputGeneration < MaxSelections
        /\ inputGeneration' = inputGeneration + 1 /\ UNCHANGED <<assets, requireManifest>>
    BY DEF PageInv, SelectFile
  <1>1. PICK input \in Input : StartRead(input)
    BY DEF SelectFile
  <1> DEFINE new == [gen |-> inputGeneration + 1, input |-> input]
  <1>2. inputGeneration \in Nat /\ inputGeneration + 1 \in 1..MaxSelections
    BY <1>0, SelectionsAssumption DEF Shaped
  <1>3. new \in Read /\ new.gen = inputGeneration + 1
    BY <1>2 DEF Read
  <1>4. reads' = reads \cup {new} /\ RejectInput("reading")
    BY <1>1 DEF StartRead
  <1> HIDE DEF new
  <1>5. \A r \in reads : r.gen \in Nat /\ r.gen # new.gen
    BY <1>0, <1>2, <1>3 DEF ReadsNumbered, Read
  <1>6. ReadsNumbered'
    BY <1>0, <1>2, <1>3, <1>4, <1>5 DEF ReadsNumbered
  <1>7. IdleUntilReady'
    BY <1>0 DEF IdleUntilReady
  <1>8. /\ assets' \in {"loading", "ready", "refused"} /\ requireManifest' \in BOOLEAN
        /\ inputGeneration' \in 0..MaxSelections
    BY <1>0, <1>2 DEF Shaped
  <1> QED
    BY <1>0, <1>4, <1>6, <1>7, <1>8, RejectKeeps

\* When the read of the last selection ends, none of it is left.
LEMMA NoneLeft ==
    ASSUME ReadsNumbered, NEW r \in reads, IsCurrent(r), reads' = reads \ {r}
    PROVE  ~\E q \in reads' : q.gen = inputGeneration
  BY DEF ReadsNumbered, IsCurrent

\* A read ends with bytes: they are shown if they are still wanted.
LEMMA ReadDoneKeeps == ASSUME PageInv, NEW r \in reads, ReadDone(r) PROVE PageInv'
  <1> DEFINE text == [gen |-> r.gen, input |-> r.input, tampered |-> FALSE]
  <1>0. /\ ReadsNumbered /\ Shaped /\ reads' = reads \ {r} /\ assets = "ready"
        /\ UNCHANGED <<assets, inputGeneration, requireManifest>>
    BY DEF PageInv, ReadDone, IdleUntilReady
  <1>1. text \in Text /\ text.gen = r.gen /\ text.tampered = FALSE
    BY <1>0 DEF ReadsNumbered, Read, Text
  <1>2. \/ IsCurrent(r) /\ (Show(text, requireManifest) \/ ShowCertificate(text))
        \/ ~IsCurrent(r) /\ UNCHANGED <<current, view>>
    BY DEF ReadDone
  <1> HIDE DEF text
  <1>3. CASE ~IsCurrent(r) /\ UNCHANGED <<current, view>>
    BY <1>0, <1>3, StaleReadKeeps
  <1>4. CASE IsCurrent(r) /\ Show(text, requireManifest)
    <2>1. Holdable(text)
      BY <1>1, <1>4 DEF Holdable, IsCurrent
    <2>2. Show(text, requireManifest') /\ requireManifest' \in BOOLEAN
      BY <1>0, <1>4 DEF Shaped
    <2> QED
      BY <1>0, <1>4, <2>1, <2>2, ShowKeeps, NoneLeft
  <1>5. CASE IsCurrent(r) /\ ShowCertificate(text)
    BY <1>0, <1>1, <1>5, ShowCertificateKeeps, NoneLeft
  <1> QED
    BY <1>2, <1>3, <1>4, <1>5

\* A read fails: that is shown if it was still wanted.
LEMMA ReadFailedKeeps == ASSUME PageInv, NEW r \in reads, ReadFailed(r) PROVE PageInv'
  <1>0. /\ ReadsNumbered /\ Shaped /\ reads' = reads \ {r} /\ assets = "ready"
        /\ UNCHANGED <<assets, inputGeneration, requireManifest>>
    BY DEF PageInv, ReadFailed, IdleUntilReady
  <1>1. CASE ~IsCurrent(r) /\ UNCHANGED <<current, view>>
    BY <1>0, <1>1, StaleReadKeeps
  <1>2. CASE IsCurrent(r) /\ RejectInput("input refused")
    <2>1. ReadsNumbered' /\ IdleUntilReady'
      BY <1>0, FewerReads DEF IdleUntilReady
    <2> QED
      BY <1>0, <1>2, <2>1, RejectKeeps, NoneLeft DEF Shaped
  <1> QED
    BY <1>1, <1>2 DEF ReadFailed

\* While a text is held no read of the last selection is under way.
LEMMA HeldMeansRead ==
    ASSUME PageInv, current # {}
    PROVE  assets = "ready" /\ ~\E r \in reads : r.gen = inputGeneration
  BY DEF PageInv, IdleUntilReady, NothingWhileReading, IsCurrent

\* The checkbox changes, and the text held is judged again by it.
LEMMA ToggleKeeps == ASSUME PageInv, ToggleRequireManifest PROVE PageInv'
  <1>0. /\ Shaped /\ requireManifest' = ~requireManifest /\ requireManifest' \in BOOLEAN
        /\ UNCHANGED <<assets, inputGeneration, reads>>
    BY DEF PageInv, ToggleRequireManifest, Shaped
  <1>1. CASE current = {} /\ UNCHANGED <<current, view>>
    <2>1. Shaped' /\ ReadsNumbered' /\ HeldIsShown' /\ IdleUntilReady'
      BY <1>0, <1>1 DEF PageInv, Shaped, ReadsNumbered, HeldIsShown, IdleUntilReady
    <2>2. GreenIsHeld' /\ DigestBesideGreen' /\ NothingWhileReading'
      BY <1>0, <1>1 DEF PageInv, GreenIsHeld, DigestBesideGreen, NothingWhileReading, IsCurrent
    <2> QED
      BY <2>1, <2>2 DEF PageInv
  <1>2. ASSUME NEW text \in current, Show(text, requireManifest') PROVE PageInv'
    <2>1. Holdable(text)
      BY DEF PageInv, HeldIsShown
    <2> QED
      BY <1>0, <1>2, <2>1, HeldMeansRead, ShowKeeps
  <1> QED
    BY <1>1, <1>2 DEF ToggleRequireManifest

\* The demo: what it shows is held as tampered, and does not verify.
LEMMA FlipKeeps == ASSUME PageInv, Flip PROVE PageInv'
  <1>0. /\ Shaped /\ ReadsNumbered /\ IdleUntilReady /\ requireManifest' \in BOOLEAN
        /\ UNCHANGED <<assets, inputGeneration, reads, requireManifest>>
    BY DEF PageInv, Flip, Shaped
  <1>1. PICK text \in current :
           \/ Show([text EXCEPT !.tampered = TRUE, !.input.result = "NOT_VERIFIED"],
                   requireManifest)
           \/ RejectInput("input refused")
    BY DEF Flip
  <1>2. Holdable(text) /\ assets = "ready" /\ ~\E r \in reads : r.gen = inputGeneration
    BY <1>1, HeldMeansRead DEF PageInv, HeldIsShown
  <1>3. CASE RejectInput("input refused")
    <2>1. ReadsNumbered' /\ IdleUntilReady'
      BY <1>0, <1>2 DEF ReadsNumbered, IdleUntilReady
    <2> QED
      BY <1>0, <1>2, <1>3, <2>1, RejectKeeps DEF Shaped
  <1>4. CASE Show([text EXCEPT !.tampered = TRUE, !.input.result = "NOT_VERIFIED"],
                  requireManifest)
    <2> DEFINE flipped == [text EXCEPT !.tampered = TRUE, !.input.result = "NOT_VERIFIED"]
    <2>1. Holdable(flipped)
      BY <1>2 DEF Holdable, Text, Input
    <2> HIDE DEF flipped
    <2>2. Show(flipped, requireManifest')
      BY <1>0, <1>4 DEF flipped
    <2> QED
      BY <1>0, <1>2, <2>1, <2>2, ShowKeeps
  <1> QED
    BY <1>1, <1>3, <1>4

\* PageInv is inductive.
LEMMA PageInvStep == PageInv /\ [Next]_vars => PageInv'
  <1> SUFFICES ASSUME PageInv, [Next]_vars PROVE PageInv'
    OBVIOUS
  <1>1. CASE Next
    BY <1>1, LoadAssetsKeeps, SelectTooEarlyKeeps, SelectFileKeeps, ReadDoneKeeps,
       ReadFailedKeeps, ToggleKeeps, FlipKeeps DEF Next
  <1>2. CASE UNCHANGED vars
    BY <1>2, StaleReadKeeps DEF vars
  <1> QED
    BY <1>1, <1>2

-------------------------------------------------------------------------------
(***************************************************************************)
(* The theorems.  They rest on Init and Next alone; fairness has no part.  *)
(***************************************************************************)
\* Every reachable state of the page satisfies the invariant.
THEOREM PageInvariance == Spec => []PageInv
  BY PageInvInit, PageInvStep, PTL DEF Spec

\* The page holds at most one text, and shows the one it holds.
THEOREM TypeCorrect == Spec => []TypeOK
  <1>1. PageInv => TypeOK
    <2> SUFFICES ASSUME PageInv PROVE TypeOK
      OBVIOUS
    <2>0. ASSUME NEW t PROVE Cardinality({t}) <= 1
      <3>1. Cardinality({t}) = 1
        BY FS_Singleton, Zenon
      <3> QED
        BY <3>1
    <2>1. Cardinality({}) <= 1
      BY FS_EmptySet
    <2>2. current \subseteq Text /\ Cardinality(current) <= 1 /\ (current # {} => view.about = current)
      BY <2>0, <2>1 DEF PageInv, HeldIsShown
    <2>3. Cardinality(view.about) <= 1
      BY <2>0, <2>1 DEF PageInv, Shaped
    <2> QED
      BY <2>2, <2>3 DEF PageInv, Shaped, ReadsNumbered, TypeOK
  <1> QED
    BY <1>1, PageInvariance, PTL

\* A green verdict is about the last file selected, unchanged (readInput,
\* presentation.show): a read that ends late and the demo never turn the page green.
THEOREM GreenIsTheLatest == Spec => []GreenIsLatest
  <1>1. PageInv => GreenIsLatest
    <2> SUFFICES ASSUME PageInv, view.verdict = "verified"
                 PROVE  \E text \in view.about : /\ text.gen = inputGeneration
                                                /\ ~text.tampered
                                                /\ text.input.result = "VERIFIED"
      BY DEF GreenIsLatest
    <2>1. PICK text \in Text : current = {text} /\ Passed(text.input, requireManifest)
      BY DEF PageInv, GreenIsHeld
    <2>2. view.about = {text} /\ Holdable(text)
      BY <2>1 DEF PageInv, HeldIsShown
    <2> QED
      BY <2>1, <2>2 DEF Passed, Holdable
  <1> QED
    BY <1>1, PageInvariance, PTL

\* A green verdict satisfies the checkbox as it stands now (requireManifest.onchange).
THEOREM GreenObeysTheCheckbox == Spec => []GreenObeysPolicy
  <1>1. PageInv => GreenObeysPolicy
    <2> SUFFICES ASSUME PageInv, view.verdict = "verified", requireManifest
                 PROVE  \A text \in view.about : text.input.manifest
      BY DEF GreenObeysPolicy
    <2>1. PICK text \in Text : current = {text} /\ Passed(text.input, requireManifest)
      BY DEF PageInv, GreenIsHeld
    <2>2. view.about = {text}
      BY <2>1 DEF PageInv, HeldIsShown
    <2> QED
      BY <2>1, <2>2 DEF Passed
  <1> QED
    BY <1>1, PageInvariance, PTL

\* A digest to cite stands beside a green verdict only (clearBundleDigest).
THEOREM DigestOnlyBesideGreen == Spec => []DigestBesideGreen
  <1>1. PageInv => DigestBesideGreen
    BY DEF PageInv
  <1> QED
    BY <1>1, PageInvariance, PTL

\* While the last selection is being read no older text is held or shown, so neither
\* the checkbox nor the demo can bring one back (readInput).
THEOREM NothingOldWhileReading == Spec => []NothingWhileReading
  <1>1. PageInv => NothingWhileReading
    BY DEF PageInv
  <1> QED
    BY <1>1, PageInvariance, PTL
===============================================================================
