------------------------------ MODULE BrowserPage ------------------------------
(***************************************************************************)
(* The offline verification page: the handlers of verify-rs/web/index.html *)
(* and the presentation module verify-rs/pkg/verification_presentation.js. *)
(*                                                                         *)
(* Handlers run to completion one at a time; reading a file is the one     *)
(* asynchronous step, and several reads may be under way at once.  What    *)
(* must never happen is that a slow read, a checkbox or the demo button    *)
(* brings up a verdict about something other than the last selected file.  *)
(***************************************************************************)
EXTENDS Integers, FiniteSets

CONSTANTS
    MaxSelections   \* bound: files the user selects once the verifier is ready

ASSUME SelectionsAssumption == MaxSelections \in Nat

VARIABLES
    assets,           \* the pinned release assets: "loading", "ready", "refused"
    inputGeneration,  \* number of the last selection
    reads,            \* reads under way
    current,          \* currentText / currentBytes: none, or the text held
    requireManifest,  \* the relying party's checkbox
    view              \* what the page shows

vars == <<assets, inputGeneration, reads, current, requireManifest, view>>

\* What a file turns out to be, and what the WASM verifier answers about it.
\* "other" is JSON that is no known artifact, or bytes that do not decode.
Input == [kind     : {"bundle", "dispute", "certificate", "other"},
          manifest : BOOLEAN,        \* export_manifest carried (by both bundles)
          result   : {"VERIFIED", "NOT_VERIFIED", "incompatible"}]

Read == [gen : 1..MaxSelections, input : Input]
Text == [gen : 1..MaxSelections, input : Input, tampered : BOOLEAN]

Verdicts == {"waiting", "reading", "input refused", "VERIFIER REFUSED", "verified",
             "not verified", "certificate", "verifier error"}

\* The verdict line (it is green for "verified" only), the text it is about, the
\* digest with the dispute facts, the controls and the demo button.
View == [verdict : Verdicts, about : SUBSET Text, digest : BOOLEAN,
         controls : BOOLEAN, flip : BOOLEAN]

Init ==
    /\ assets = "loading"
    /\ inputGeneration = 0
    /\ reads = {}
    /\ current = {}
    /\ requireManifest \in BOOLEAN
    /\ view = [verdict |-> "waiting", about |-> {}, digest |-> FALSE,
               controls |-> FALSE, flip |-> TRUE]

-------------------------------------------------------------------------------
\* Mutant: a digest shown before stays on the page.
DigestKept(v) == [v EXCEPT !.flip = TRUE]

\* clearBundleDigest.
Cleared(v) == [v EXCEPT !.digest = FALSE, !.flip = TRUE]

\* rejectInput: nothing is held and nothing is shown but the refusal.
RejectedView(verdict) ==
    [Cleared(view) EXCEPT !.verdict = verdict, !.about = {}, !.controls = FALSE]

RejectInput(verdict) ==
    /\ current' = {}
    /\ view' = RejectedView(verdict)

\* The green verdict: the verifier's, and the relying party's own demand.
Passed(input, require) == input.result = "VERIFIED" /\ ~(require /\ ~input.manifest)

\* presentation.show and showDispute on a text, with the checkbox as it stands.
Show(text, require) ==
    \/ /\ text.input.kind = "other" \/ text.input.result = "incompatible"
       /\ RejectInput("input refused")
    \/ /\ text.input.kind \in {"bundle", "dispute"}
       /\ text.input.result # "incompatible"
       /\ current' = {text}
       /\ LET passed == Passed(text.input, require)
          IN  view' = [Cleared(view) EXCEPT
                         !.verdict  = IF passed THEN "verified" ELSE "not verified",
                         !.about    = {text},
                         !.digest   = IF passed THEN TRUE ELSE @,
                         !.controls = TRUE,
                         !.flip     = text.input.kind = "bundle"]

\* handleCertificate: it never shows green, and holds no text.
ShowCertificate(text) ==
    /\ text.input.kind = "certificate"
    /\ current' = {}
    /\ view' = [Cleared(view) EXCEPT
                  !.verdict  = IF text.input.result = "incompatible"
                               THEN "verifier error" ELSE "certificate",
                  !.about    = {text},
                  !.controls = FALSE]

-------------------------------------------------------------------------------
\* fetchPinnedAsset and importVerifiedModule for every asset, then
\* createPresentation: all of the assets match their pins, or none is used.
LoadAssets ==
    /\ assets = "loading"
    /\ \/ assets' = "ready" /\ UNCHANGED view
       \/ assets' = "refused" /\ view' = [view EXCEPT !.verdict = "VERIFIER REFUSED"]
    /\ UNCHANGED <<inputGeneration, reads, current, requireManifest>>

\* handleFile while there is no presentation.
SelectTooEarly ==
    /\ assets # "ready"
    /\ RejectInput("input refused")
    /\ UNCHANGED <<assets, inputGeneration, reads, requireManifest>>

\* Mutant: the text held from the last file stays until the new one is read.
StartReadKeepingText(input) ==
    /\ reads' = reads \cup {[gen |-> inputGeneration + 1, input |-> input]}
    /\ view' = RejectedView("reading")
    /\ UNCHANGED current

\* readInput up to its await: the page forgets the last file at once.
StartRead(input) ==
    /\ reads' = reads \cup {[gen |-> inputGeneration + 1, input |-> input]}
    /\ RejectInput("reading")

\* handleFile (file picker or drop).
SelectFile ==
    /\ assets = "ready"
    /\ inputGeneration < MaxSelections
    /\ \E input \in Input : StartRead(input)
    /\ inputGeneration' = inputGeneration + 1
    /\ UNCHANGED <<assets, requireManifest>>

\* Mutant: whichever read ends is shown.
AnyRead(r) == TRUE

\* `generation === inputGeneration`.
IsCurrent(r) == r.gen = inputGeneration

\* The read ends with bytes: handle or handleCertificate if it is still wanted.
ReadDone(r) ==
    /\ r \in reads
    /\ reads' = reads \ {r}
    /\ LET text == [gen |-> r.gen, input |-> r.input, tampered |-> FALSE]
       IN  \/ IsCurrent(r) /\ (Show(text, requireManifest) \/ ShowCertificate(text))
           \/ ~IsCurrent(r) /\ UNCHANGED <<current, view>>
    /\ UNCHANGED <<assets, inputGeneration, requireManifest>>

\* Mutant: a failed read is dropped.
ReadFailedSilently(r) ==
    /\ r \in reads
    /\ reads' = reads \ {r}
    /\ UNCHANGED <<assets, inputGeneration, current, requireManifest, view>>

\* The read fails, the file is too large, or the text does not decode.
ReadFailed(r) ==
    /\ r \in reads
    /\ reads' = reads \ {r}
    /\ \/ IsCurrent(r) /\ RejectInput("input refused")
       \/ ~IsCurrent(r) /\ UNCHANGED <<current, view>>
    /\ UNCHANGED <<assets, inputGeneration, requireManifest>>

\* Mutant: the checkbox counts from the next file on.
ToggleOnly ==
    /\ requireManifest' = ~requireManifest
    /\ UNCHANGED <<assets, inputGeneration, reads, current, view>>

\* requireManifest.onchange: the text held is judged again.
ToggleRequireManifest ==
    /\ requireManifest' = ~requireManifest
    /\ \/ current = {} /\ UNCHANGED <<current, view>>
       \/ \E text \in current : Show(text, requireManifest')
    /\ UNCHANGED <<assets, inputGeneration, reads>>

\* flip.onclick: tamper changes one receipt payload of the text held, so its
\* signature fails, and shows the result; a bundle without a payload is refused.
Flip ==
    /\ view.controls /\ view.flip
    /\ \E text \in current :
          \/ Show([text EXCEPT !.tampered = TRUE, !.input.result = "NOT_VERIFIED"],
                  requireManifest)
          \/ RejectInput("input refused")
    /\ UNCHANGED <<assets, inputGeneration, reads, requireManifest>>

Next ==
    \/ LoadAssets
    \/ SelectTooEarly
    \/ SelectFile
    \/ \E r \in reads : ReadDone(r) \/ ReadFailed(r)
    \/ ToggleRequireManifest
    \/ Flip

\* A read the browser has started ends, one way or the other.
Fairness == WF_vars(\E r \in reads : ReadDone(r) \/ ReadFailed(r))

Spec == Init /\ [][Next]_vars /\ Fairness

-------------------------------------------------------------------------------
(***************************************************************************)
(* Properties                                                              *)
(***************************************************************************)

\* The page holds at most one text, and it is the one it shows.
TypeOK ==
    /\ assets \in {"loading", "ready", "refused"}
    /\ inputGeneration \in 0..MaxSelections
    /\ reads \subseteq Read
    /\ current \subseteq Text /\ Cardinality(current) <= 1
    /\ requireManifest \in BOOLEAN
    /\ view \in View /\ Cardinality(view.about) <= 1
    /\ current # {} => view.about = current

\* A green verdict is about the last file selected, unchanged, and verified: no
\* earlier read that ends late, and no demo edit, turns the page green.
GreenIsLatest ==
    view.verdict = "verified" =>
        \E text \in view.about :
            /\ text.gen = inputGeneration
            /\ ~text.tampered
            /\ text.input.result = "VERIFIED"

\* A green verdict satisfies the checkbox as it stands now, not as it stood when
\* the file was read.
GreenObeysPolicy ==
    view.verdict = "verified" /\ requireManifest => \A text \in view.about : text.input.manifest

\* A digest to cite stands beside a green verdict only.
DigestBesideGreen == view.digest => view.verdict = "verified"

\* While the last selected file is being read the page shows that and holds no
\* older text, so neither the checkbox nor the demo can bring one back.
NothingWhileReading ==
    (\E r \in reads : IsCurrent(r)) =>
        view.verdict = "reading" /\ current = {} /\ ~view.digest

\* The page does not stay at "reading": every selection is answered.
ReadingEnds == view.verdict = "reading" ~> view.verdict # "reading"
===============================================================================
