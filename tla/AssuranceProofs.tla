--------------------------- MODULE AssuranceProofs ---------------------------
(***************************************************************************)
(* Proofs about Assurance, for any validity periods, any age a checkpoint  *)
(* may have, any number of changes and checkpoints and a clock of any      *)
(* range, whatever may be wrong with an exchange.                          *)
(***************************************************************************)
EXTENDS Assurance, SequenceTheorems, WellFoundedInduction, TLAPS

-------------------------------------------------------------------------------
(***************************************************************************)
(* The inductive invariant.                                                *)
(***************************************************************************)
AgentHead == [rev : Nat, status : {"NONE", "ACTIVE", "REVOKED", "SUPERSEDED"}]
State == [agent : [Agents -> AgentHead], link : Nat, grant : Nat, basis : {"ACTIVE", "REVOKED"}]
SignedState == [seq : Nat, st : State, log : {0, 1}, at : Nat, fork : BOOLEAN]

\* The successor exists once it is linked.
Consistent(s) ==
    /\ s.link = None <=> s.agent[2].status = "NONE"
    /\ s.agent[1].rev >= 1

Superseded(s) == s.agent[1].status = "SUPERSEDED"

\* A state says of something retired that it is.
Reflects(s, w) ==
    /\ w[1] = "basis" => s.basis # "ACTIVE"
    /\ w[1] = "grant" => w[2] \in Nat /\ s.grant > w[2]
    /\ w[1] = "agent" =>
          /\ w[2] \in Agents /\ w[3] \in Nat
          /\ s.agent[w[2]].status # "NONE"
          /\ s.agent[w[2]].rev >= w[3]
          /\ s.agent[w[2]].status = "ACTIVE" => s.agent[w[2]].rev > w[3]

AuthorityOk ==
    /\ st \in State /\ Consistent(st)
    /\ \A c \in creds : c.agent \in Agents /\ c.rev \in Nat /\ c.from \in Nat /\ c.from <= now
    /\ \A g \in grants : g.ver \in Nat /\ g.from \in Nat /\ g.from <= now
    /\ \A x \in gone : x.at \in Nat /\ x.at <= now /\ Reflects(st, x.what)

\* Checkpoints: the main ones are numbered upwards and reflect what was retired before
\* them, no fork is numbered beyond them, and a fork has another content.
Main == {k \in DOMAIN cps : ~cps[k].fork}
ChainOk ==
    /\ cps \in Seq(SignedState) /\ Main # {}
    /\ \A k \in DOMAIN cps : /\ cps[k].at <= now
                             /\ \E j \in Main : cps[k].seq <= cps[j].seq
    /\ \A k \in Main, x \in gone : x.at < cps[k].at => Reflects(cps[k].st, x.what)
    /\ \A j, k \in Main : j < k => cps[j].seq < cps[k].seq
    /\ \A j \in Main, k \in DOMAIN cps :
          cps[k].fork /\ cps[j].seq = cps[k].seq => Content(j) # Content(k)

\* The exchange: a message answers the challenge, and what an honest one showed is what
\* its checkpoint says.
ChallengeOk ==
    /\ ch.cred \in creds /\ ch.grant \in grants
    /\ ch.issued \in Nat /\ ch.issued <= now /\ ch.expires \in Nat
FlightOk ==
    /\ ChallengeOk
    /\ flight \in [by : Agents, created : Nat]
                  \cup [cp : DOMAIN cps, snap : DOMAIN cps, created : Nat, honest : BOOLEAN]
    /\ ch.issued <= flight.created /\ flight.created <= now
    /\ ~IsRefusal(flight) /\ flight.honest =>
          /\ flight.cp \in Main /\ flight.snap = flight.cp
          /\ cps[flight.cp].at <= flight.created
          /\ Backed(cps[flight.cp].st)

\* A superseded predecessor stays so, along the main checkpoints and in the authority's
\* state, and the head that proved the successor's link has it so.
SuccessionOk ==
    /\ \A k \in Main : Superseded(cps[k].st) => Superseded(st)
    /\ \A j, k \in Main : j < k /\ Superseded(cps[j].st) => Superseded(cps[k].st)
    /\ succeeded => Superseded(cps[head].st)

AssuranceInv ==
    /\ now \in Nat
    /\ AuthorityOk
    /\ ChainOk
    /\ head \in Main
    /\ ch # Nothing => ChallengeOk
    /\ flight # Nothing => FlightOk
    /\ SuccessionOk
    /\ RevocationBites
    /\ BlameIsDeserved
    /\ SuccessionIsFinal

-------------------------------------------------------------------------------
(***************************************************************************)
(* Facts about the definitions.                                            *)
(***************************************************************************)
\* A set of naturals that is not empty has a least element, and Min names it.
LEMMA MinIsLeast ==
    ASSUME NEW S, S \subseteq Nat, S # {}
    PROVE  Min(S) \in S /\ \A y \in S : Min(S) <= y
  <1>1. PICK x \in S : \A y \in S : ~(<<y, x>> \in OpToRel(<, Nat))
    BY NatLessThanWellFounded, WFMin
  <1>2. \A y \in S : ~(y < x)
    BY <1>1 DEF OpToRel
  <1>3. \A y \in S : x <= y
    BY <1>2
  <1> QED
    BY <1>3 DEF Min

\* A set of naturals with a bound has a greatest element, and Max names it.
LEMMA MaxIsGreatest ==
    ASSUME NEW n \in Nat, NEW S, S \subseteq 0..n, S # {}
    PROVE  Max(S) \in S /\ \A y \in S : y <= Max(S)
  <1> DEFINE Gap == {n - y : y \in S}
  <1>1. Gap \subseteq Nat /\ Gap # {}
    <2>1. \A y \in S : n - y \in Nat
      OBVIOUS
    <2> QED
      BY <2>1
  <1>2. Min(Gap) \in Gap /\ \A d \in Gap : Min(Gap) <= d
    BY <1>1, MinIsLeast
  <1>3. PICK x \in S : Min(Gap) = n - x
    BY <1>2
  <1>4. \A y \in S : n - x <= n - y
    BY <1>2, <1>3
  <1>5. \A y \in S : x >= y
    BY <1>4
  <1>6. Max(S) \in S /\ \A y \in S : Max(S) >= y
    BY <1>5 DEF Max
  <1> QED
    BY <1>6

\* What an evaluation reports: either no stage found anything, or the findings are
\* those of one stage and the stages before it found nothing.
LEMMA Reported ==
    ASSUME NEW n \in Nat, NEW stages, DOMAIN stages = 1..n,
           \A k \in 1..n : DOMAIN stages[k].findings \subseteq Nat
    PROVE  \/ /\ RunStages(stages).verdict = "INDETERMINATE"
              /\ RunStages(stages).reason = "DURABLE_REPLAY_REQUIRED"
              /\ \A k \in 1..n : Hits(stages[k]) = {}
           \/ \E k \in 1..n : \E i \in Hits(stages[k]) :
                 /\ RunStages(stages).verdict = stages[k].findings[i].verdict
                 /\ RunStages(stages).reason = stages[k].findings[i].reason
                 /\ \A j \in 1..n : j < k => Hits(stages[j]) = {}
  <1> DEFINE stops == {k \in DOMAIN stages : Hits(stages[k]) # {}}
             k0 == Min(stops)
             i0 == Min(Hits(stages[k0]))
  <1>1. /\ RunStages(stages).verdict =
              IF stops = {} THEN "INDETERMINATE" ELSE stages[k0].findings[i0].verdict
        /\ RunStages(stages).reason =
              IF stops = {} THEN "DURABLE_REPLAY_REQUIRED" ELSE stages[k0].findings[i0].reason
    BY DEF RunStages
  <1>2. CASE stops = {}
    BY <1>1, <1>2
  <1>3. CASE stops # {}
    <2>1. stops \subseteq Nat
      OBVIOUS
    <2>2. k0 \in stops /\ \A j \in stops : k0 <= j
      BY <1>3, <2>1, MinIsLeast
    <2> HIDE DEF k0
    <2>3. k0 \in 1..n /\ Hits(stages[k0]) # {} /\ Hits(stages[k0]) \subseteq Nat
      BY <2>2 DEF Hits
    <2>4. i0 \in Hits(stages[k0])
      BY <2>3, MinIsLeast
    <2>5. \A j \in 1..n : j < k0 => Hits(stages[j]) = {}
      BY <2>2, <2>3
    <2> HIDE DEF i0
    <2>6. /\ RunStages(stages).verdict = stages[k0].findings[i0].verdict
          /\ RunStages(stages).reason = stages[k0].findings[i0].reason
      BY <1>1, <1>3
    <2> QED
      BY <2>3, <2>4, <2>5, <2>6
  <1> QED
    BY <1>2, <1>3

\* A dimension is VERIFIED only when the stage that marks it and all before it found
\* nothing.
LEMMA Marked ==
    ASSUME NEW n \in Nat, NEW stages, DOMAIN stages = 1..n,
           NEW m \in RunStages(stages).verified
    PROVE  \E k \in 1..n : /\ m \in stages[k].marks
                           /\ \A j \in 1..n : j <= k => Hits(stages[j]) = {}
  <1> DEFINE stops == {k \in DOMAIN stages : Hits(stages[k]) # {}}
             done == {k \in DOMAIN stages : \A j \in stops : k < j}
  <1>1. RunStages(stages).verified = UNION {stages[k].marks : k \in done}
    BY DEF RunStages
  <1>2. PICK k \in done : m \in stages[k].marks
    BY <1>1
  <1>3. \A j \in 1..n : j <= k => Hits(stages[j]) = {}
    BY <1>2
  <1> QED
    BY <1>2, <1>3

\* The newest main checkpoint.
LEMMA LastMainIs ==
    ASSUME ChainOk
    PROVE  /\ LastMain \in Main /\ \A j \in Main : j <= LastMain
           /\ \A k \in DOMAIN cps : cps[k].seq <= cps[LastMain].seq
  <1>1. Len(cps) \in Nat /\ DOMAIN cps = 1..Len(cps)
    BY DEF ChainOk
  <1>2. Main \subseteq 0..Len(cps) /\ Main # {}
    BY <1>1 DEF Main, ChainOk
  <1>3. Max(Main) \in Main /\ \A j \in Main : j <= Max(Main)
    BY <1>1, <1>2, MaxIsGreatest
  <1>4. \E k \in DOMAIN cps : ~cps[k].fork /\ \A j \in DOMAIN cps : ~cps[j].fork => j <= k
    BY <1>3 DEF Main
  <1>5. LastMain \in Main /\ \A j \in Main : j <= LastMain
    BY <1>4 DEF LastMain, Main
  <1>6. \A k \in DOMAIN cps : cps[k] \in SignedState
    BY <1>1, ElementOfSeq DEF ChainOk
  <1>7. \A k \in DOMAIN cps : cps[k].seq \in Nat
    BY <1>6 DEF SignedState
  <1>8. \A j \in Main : cps[j].seq <= cps[LastMain].seq
    <2> TAKE j \in Main
    <2>1. j \in Nat /\ LastMain \in Nat /\ j <= LastMain
      BY <1>1, <1>5 DEF Main
    <2>2. CASE j = LastMain
      BY <1>5, <1>7, <2>2 DEF Main
    <2>3. CASE j < LastMain
      <3>1. cps[j].seq < cps[LastMain].seq
        BY <1>5, <2>3 DEF ChainOk
      <3> QED
        BY <1>5, <1>7, <3>1 DEF Main
    <2> QED
      BY <2>1, <2>2, <2>3
  <1>9. \A k \in DOMAIN cps : cps[k].seq <= cps[LastMain].seq
    <2> TAKE k \in DOMAIN cps
    <2>1. PICK j \in Main : cps[k].seq <= cps[j].seq
      BY DEF ChainOk
    <2> QED
      BY <1>5, <1>7, <1>8, <2>1 DEF Main
  <1> QED
    BY <1>5, <1>9

\* The checkpoint stages find nothing: the presented checkpoint has the number and the
\* content of the local head and is young enough.
LEMMA CheckpointPasses ==
    ASSUME NEW c, NEW p, NEW flaw, Hits(CheckpointHeadError(p.cp)) = {},
           Hits(CheckpointStage(c, p, flaw)) = {}, Number(p.cp) \in Nat, Number(head) \in Nat
    PROVE  /\ Number(p.cp) = Number(head) /\ Content(p.cp) = Content(head)
           /\ ~TooOld(p.cp)
  <1> DEFINE e == CheckpointHeadError(p.cp).findings
             f == CheckpointStage(c, p, flaw).findings
  <1>1. {1, 2, 3} \subseteq DOMAIN e /\ 4 \in DOMAIN f
    BY DEF CheckpointHeadError, CheckpointStage, Stage
  <1>2. ~e[1].holds /\ ~e[2].holds /\ ~e[3].holds /\ ~f[4].holds
    BY <1>1 DEF Hits
  <1>3. /\ e[1].holds = (Number(p.cp) < Number(head))
        /\ e[2].holds = (Number(p.cp) > Number(head))
        /\ e[3].holds = (Number(p.cp) = Number(head) /\ Content(p.cp) # Content(head))
    BY DEF CheckpointHeadError, Stage, Fail, Open, Finding
  <1>4. f[4].holds = (now < cps[p.cp].at \/ now - cps[p.cp].at > MaxAge)
    BY DEF CheckpointStage, Stage, Fail, Open, Finding, TooOld
  <1> HIDE DEF e, f
  <1>5. ~(Number(p.cp) < Number(head)) /\ ~(Number(p.cp) > Number(head))
    BY <1>2, <1>3
  <1>6. Number(p.cp) = Number(head)
    BY <1>5
  <1>7. Content(p.cp) = Content(head)
    BY <1>2, <1>3, <1>6
  <1>8. ~(now < cps[p.cp].at \/ now - cps[p.cp].at > MaxAge)
    BY <1>2, <1>4
  <1> QED
    BY <1>6, <1>7, <1>8 DEF TooOld

\* The authority stage finds nothing: the local head has everything as active.
LEMMA AuthorityPasses ==
    ASSUME NEW c, NEW flaw, Hits(AuthorityProofs(c, flaw)) = {}
    PROVE  LET s == cps[head].st
           IN /\ s.basis = "ACTIVE"
              /\ s.agent[c.cred.agent] = [rev |-> c.cred.rev, status |-> "ACTIVE"]
              /\ s.grant = c.grant.ver
              /\ CarriesLink(c.cred) => SuccessorProven(s)
  <1> DEFINE f == AuthorityProofs(c, flaw).findings
             s == cps[head].st
  <1>1. {1, 2, 3, 4} \subseteq DOMAIN f
    BY DEF AuthorityProofs, Stage
  <1>2. ~f[1].holds /\ ~f[2].holds /\ ~f[3].holds /\ ~f[4].holds
    BY <1>1 DEF Hits
  <1>3. /\ f[1].holds = (s.basis # "ACTIVE")
        /\ f[2].holds = (s.agent[c.cred.agent] # [rev |-> c.cred.rev, status |-> "ACTIVE"])
        /\ f[3].holds = (s.grant # c.grant.ver)
        /\ f[4].holds = (CarriesLink(c.cred) /\ ~SuccessorProven(s))
    BY DEF AuthorityProofs, Stage, Fail, Finding
  <1> QED
    BY <1>2, <1>3

\* The evaluation's stages.
LEMMA StagesAre ==
    ASSUME NEW c, NEW p, NEW flaw
    PROVE  LET l == EvaluationStages(c, p, flaw)
           IN /\ DOMAIN l = 1..15
              /\ l[1] = Entry(flaw)
              /\ l[2] = ChallengeStage(c, flaw)
              /\ l[3] = PresentationStage(flaw)
              /\ l[4] = Roots(flaw)
              /\ l[5] = Signatures(flaw)
              /\ l[6] = Passport(c, flaw)
              /\ l[7] = Registration(flaw)
              /\ l[8] = CheckpointKnown(p, flaw)
              /\ l[9] = CheckpointHeadError(p.cp)
              /\ l[10] = CheckpointStage(c, p, flaw)
              /\ l[11] = AuthorityProofs(c, flaw)
              /\ l[12] = GrantStage(c, flaw)
              /\ l[13] = AsaStage(flaw)
              /\ l[14] = Finish(c, p, flaw)
              /\ l[15] = Required(flaw)
  BY DEF EvaluationStages

\* Findings are numbered, and none has the reason of an evaluation without findings.
LEMMA FindingsAre ==
    ASSUME NEW c, NEW p, NEW flaw, NEW k \in 1..15
    PROVE  LET f == EvaluationStages(c, p, flaw)[k].findings
           IN /\ DOMAIN f \subseteq Nat
              /\ \A i \in DOMAIN f : f[i].reason # "DURABLE_REPLAY_REQUIRED"
  <1> DEFINE l == EvaluationStages(c, p, flaw)
             Fine(s) == /\ DOMAIN s.findings \subseteq Nat
                        /\ \A i \in DOMAIN s.findings :
                              s.findings[i].reason # "DURABLE_REPLAY_REQUIRED"
  <1>1. Fine(Entry(flaw))
    BY DEF Entry, Stage, Fail, Open, Finding
  <1>2. Fine(ChallengeStage(c, flaw))
    BY DEF ChallengeStage, Stage, Fail, Open, Finding
  <1>3. Fine(PresentationStage(flaw))
    BY DEF PresentationStage, Stage, Fail, Open, Finding
  <1>4. Fine(Roots(flaw))
    BY DEF Roots, Stage, Fail, Open, Finding
  <1>5. Fine(Signatures(flaw))
    BY DEF Signatures, Stage, Fail, Open, Finding
  <1>6. Fine(Passport(c, flaw))
    BY DEF Passport, Stage, Fail, Open, Finding
  <1>7. Fine(Registration(flaw))
    BY DEF Registration, Stage, Fail, Open, Finding
  <1>8. Fine(CheckpointKnown(p, flaw))
    BY DEF CheckpointKnown, Stage, Fail, Open, Finding
  <1>9. Fine(CheckpointHeadError(p.cp))
    BY DEF CheckpointHeadError, Stage, Fail, Open, Finding
  <1>10. Fine(CheckpointStage(c, p, flaw))
    BY DEF CheckpointStage, Stage, Fail, Open, Finding
  <1>11. Fine(AuthorityProofs(c, flaw))
    BY DEF AuthorityProofs, Stage, Fail, Open, Finding
  <1>12. Fine(GrantStage(c, flaw))
    BY DEF GrantStage, Stage, Fail, Open, Finding
  <1>13. Fine(AsaStage(flaw))
    BY DEF AsaStage, Stage, Fail, Open, Finding
  <1>14. Fine(Finish(c, p, flaw))
    BY DEF Finish, Stage, Fail, Open, Finding
  <1>15. Fine(Required(flaw))
    BY DEF Required, Stage, Fail, Open, Finding
  <1> HIDE DEF Fine, l
  <1>16. Fine(l[k])
    BY <1>1, <1>2, <1>3, <1>4, <1>5, <1>6, <1>7, <1>8, <1>9, <1>10, <1>11, <1>12, <1>13, <1>14, <1>15, StagesAre DEF l
  <1> QED
    BY <1>16 DEF Fine, l

\* "fresh_status" VERIFIED: the checkpoint and authority stages found nothing.
LEMMA FreshMeans ==
    ASSUME NEW c, NEW p, NEW flaw, "fresh_status" \in Evaluate(c, p, flaw).verified
    PROVE  /\ Hits(CheckpointHeadError(p.cp)) = {} /\ Hits(CheckpointStage(c, p, flaw)) = {}
           /\ Hits(AuthorityProofs(c, flaw)) = {}
  <1> DEFINE l == EvaluationStages(c, p, flaw)
  <1>1. PICK k \in 1..15 : /\ "fresh_status" \in l[k].marks
                           /\ \A j \in 1..15 : j <= k => Hits(l[j]) = {}
    <2>1. DOMAIN l = 1..15 /\ "fresh_status" \in RunStages(l).verified /\ 15 \in Nat
      BY StagesAre DEF Evaluate
    <2> HIDE DEF l
    <2> QED
      BY <2>1, Marked
  <1>2. \A j \in (1..15) \ {11} : "fresh_status" \notin l[j].marks
    <2> DEFINE Other(s) == "fresh_status" \notin s.marks
    <2>1. Other(Entry(flaw))
      BY DEF Entry, Stage
    <2>2. Other(ChallengeStage(c, flaw))
      BY DEF ChallengeStage, Stage
    <2>3. Other(PresentationStage(flaw))
      BY DEF PresentationStage, Stage
    <2>4. Other(Roots(flaw))
      BY DEF Roots, Stage
    <2>5. Other(Signatures(flaw))
      BY DEF Signatures, Stage
    <2>6. Other(Passport(c, flaw))
      BY DEF Passport, Stage
    <2>7. Other(Registration(flaw))
      BY DEF Registration, Stage
    <2>8. Other(CheckpointKnown(p, flaw))
      BY DEF CheckpointKnown, Stage
    <2>9. Other(CheckpointHeadError(p.cp))
      BY DEF CheckpointHeadError, Stage
    <2>10. Other(CheckpointStage(c, p, flaw))
      BY DEF CheckpointStage, Stage
    <2>12. Other(GrantStage(c, flaw))
      BY DEF GrantStage, Stage
    <2>13. Other(AsaStage(flaw))
      BY DEF AsaStage, Stage
    <2>14. Other(Finish(c, p, flaw))
      BY DEF Finish, Stage
    <2>15. Other(Required(flaw))
      BY DEF Required, Stage
    <2> HIDE DEF Other, l
    <2>16. \A j \in (1..15) \ {11} : Other(l[j])
      BY <2>1, <2>2, <2>3, <2>4, <2>5, <2>6, <2>7, <2>8, <2>9, <2>10, <2>12, <2>13, <2>14, <2>15, StagesAre DEF l
    <2> QED
      BY <2>16 DEF Other
  <1>3. k = 11
    BY <1>1, <1>2
  <1>4. Hits(l[9]) = {} /\ Hits(l[10]) = {} /\ Hits(l[11]) = {}
    BY <1>1, <1>3
  <1> QED
    BY <1>4, StagesAre

\* What an evaluation reports.
LEMMA Evaluated ==
    ASSUME NEW c, NEW p, NEW flaw
    PROVE  LET l == EvaluationStages(c, p, flaw)
               r == Evaluate(c, p, flaw)
           IN \/ /\ r.verdict = "INDETERMINATE"
                 /\ \A k \in 1..15 : Hits(l[k]) = {}
              \/ \E k \in 1..15 : \E i \in Hits(l[k]) :
                    /\ r.verdict = l[k].findings[i].verdict
                    /\ r.reason # "DURABLE_REPLAY_REQUIRED"
                    /\ \A j \in 1..15 : j < k => Hits(l[j]) = {}
  <1> DEFINE l == EvaluationStages(c, p, flaw)
  <1>1. DOMAIN l = 1..15 /\ 15 \in Nat
    BY StagesAre
  <1>2. \A k \in 1..15 : DOMAIN l[k].findings \subseteq Nat
    BY FindingsAre
  <1>3. \A k \in 1..15 : \A i \in Hits(l[k]) :
           l[k].findings[i].reason # "DURABLE_REPLAY_REQUIRED"
    BY FindingsAre DEF Hits
  <1>4. Evaluate(c, p, flaw) = RunStages(l)
    BY DEF Evaluate
  <1> HIDE DEF l
  <1>5. \/ /\ RunStages(l).verdict = "INDETERMINATE"
           /\ RunStages(l).reason = "DURABLE_REPLAY_REQUIRED"
           /\ \A k \in 1..15 : Hits(l[k]) = {}
        \/ \E k \in 1..15 : \E i \in Hits(l[k]) :
              /\ RunStages(l).verdict = l[k].findings[i].verdict
              /\ RunStages(l).reason = l[k].findings[i].reason
              /\ \A j \in 1..15 : j < k => Hits(l[j]) = {}
    <2>1. \A n \in Nat : DOMAIN l = 1..n /\ (\A k \in 1..n : DOMAIN l[k].findings \subseteq Nat) =>
             \/ /\ RunStages(l).verdict = "INDETERMINATE"
                /\ RunStages(l).reason = "DURABLE_REPLAY_REQUIRED"
                /\ \A k \in 1..n : Hits(l[k]) = {}
             \/ \E k \in 1..n : \E i \in Hits(l[k]) :
                   /\ RunStages(l).verdict = l[k].findings[i].verdict
                   /\ RunStages(l).reason = l[k].findings[i].reason
                   /\ \A j \in 1..n : j < k => Hits(l[j]) = {}
      BY Reported
    <2> QED
      BY <1>1, <1>2, <2>1
  <1> QED
    BY <1>3, <1>4, <1>5 DEF l

\* An evaluation that is let through found nothing anywhere.
LEMMA DurableMeans ==
    ASSUME NEW c, NEW p, NEW flaw, Evaluate(c, p, flaw).reason = "DURABLE_REPLAY_REQUIRED"
    PROVE  Hits(AuthorityProofs(c, flaw)) = {}
  <1> DEFINE l == EvaluationStages(c, p, flaw)
  <1>1. \A k \in 1..15 : Hits(l[k]) = {}
    BY Evaluated
  <1>2. l[11] = AuthorityProofs(c, flaw)
    BY StagesAre
  <1> HIDE DEF l
  <1> QED
    BY <1>1, <1>2

\* All that a sound exchange can fail for: what is left of the findings when nothing is
\* wrong with the exchange or the local context.
Failing(c, p) ==
    \/ now >= c.expires
    \/ now >= DelegationEnd
    \/ ~(c.cred.from <= now /\ now < c.cred.from + Life)
    \/ Number(p.cp) < Number(head)
    \/ Number(p.cp) = Number(head) /\ Content(p.cp) # Content(head)
    \/ p.snap # p.cp
    \/ /\ Hits(CheckpointHeadError(p.cp)) = {} /\ Hits(CheckpointStage(c, p, "none")) = {}
       /\ \/ cps[head].st.basis # "ACTIVE"
          \/ cps[head].st.agent[c.cred.agent] # [rev |-> c.cred.rev, status |-> "ACTIVE"]
          \/ cps[head].st.grant # c.grant.ver
          \/ CarriesLink(c.cred) /\ ~SuccessorProven(cps[head].st)
    \/ ~(c.grant.from <= now /\ now < c.grant.from + GrantLife)
    \/ p.created < c.issued \/ p.created >= c.expires
    \/ cps[p.cp].at > p.created \/ p.created > now

LEMMA FailMeans ==
    ASSUME NEW c, NEW p, Evaluate(c, p, "none").verdict = "FAIL"
    PROVE  Failing(c, p)
  <1> DEFINE l == EvaluationStages(c, p, "none")
             Faulty(s, i) == s.findings[i].holds /\ s.findings[i].verdict = "FAIL"
  <1>1. \A i \in DOMAIN Entry("none").findings : ~Faulty(Entry("none"), i)
    <2> DEFINE f == Entry("none").findings
    <2>1. \A i \in DOMAIN f : i = 1 \/ i = 2 \/ i = 3 \/ i = 4 \/ i = 5
      BY DEF Entry, Stage
    <2>2. /\ f[1].verdict # "FAIL"
          /\ f[2].verdict # "FAIL"
          /\ ~f[3].holds
          /\ f[4].verdict # "FAIL"
          /\ f[5].verdict # "FAIL"
      BY DEF Entry, Stage, Fail, Open, Finding
    <2> HIDE DEF f
    <2>3. \A i \in DOMAIN f : f[i].holds /\ f[i].verdict = "FAIL" =>
             FALSE
      BY <2>1, <2>2
    <2> QED
      BY <2>3 DEF f
  <1>2. \A i \in DOMAIN ChallengeStage(c, "none").findings :
           Faulty(ChallengeStage(c, "none"), i) =>
              now >= c.expires
    <2> DEFINE f == ChallengeStage(c, "none").findings
    <2>1. \A i \in DOMAIN f : i = 1 \/ i = 2 \/ i = 3 \/ i = 4 \/ i = 5
      BY DEF ChallengeStage, Stage
    <2>2. /\ ~f[1].holds
          /\ ~f[2].holds
          /\ f[3].verdict # "FAIL"
          /\ f[4].holds => (now >= c.expires)
          /\ f[5].verdict # "FAIL"
      BY DEF ChallengeStage, Stage, Fail, Open, Finding
    <2> HIDE DEF f
    <2>3. \A i \in DOMAIN f : f[i].holds /\ f[i].verdict = "FAIL" =>
             now >= c.expires
      BY <2>1, <2>2
    <2> QED
      BY <2>3 DEF f
  <1>3. \A i \in DOMAIN PresentationStage("none").findings : ~Faulty(PresentationStage("none"), i)
    <2> DEFINE f == PresentationStage("none").findings
    <2>1. \A i \in DOMAIN f : i = 1 \/ i = 2
      BY DEF PresentationStage, Stage
    <2>2. /\ ~f[1].holds
          /\ ~f[2].holds
      BY DEF PresentationStage, Stage, Fail, Open, Finding
    <2> HIDE DEF f
    <2>3. \A i \in DOMAIN f : f[i].holds /\ f[i].verdict = "FAIL" =>
             FALSE
      BY <2>1, <2>2
    <2> QED
      BY <2>3 DEF f
  <1>4. \A i \in DOMAIN Roots("none").findings :
           Faulty(Roots("none"), i) =>
              now >= DelegationEnd
    <2> DEFINE f == Roots("none").findings
    <2>1. \A i \in DOMAIN f : i = 1 \/ i = 2 \/ i = 3 \/ i = 4
      BY DEF Roots, Stage
    <2>2. /\ ~f[1].holds
          /\ ~f[2].holds
          /\ ~f[3].holds
          /\ f[4].holds => (now >= DelegationEnd)
      BY DEF Roots, Stage, Fail, Open, Finding
    <2> HIDE DEF f
    <2>3. \A i \in DOMAIN f : f[i].holds /\ f[i].verdict = "FAIL" =>
             now >= DelegationEnd
      BY <2>1, <2>2
    <2> QED
      BY <2>3 DEF f
  <1>5. \A i \in DOMAIN Signatures("none").findings : ~Faulty(Signatures("none"), i)
    <2> DEFINE f == Signatures("none").findings
    <2>1. \A i \in DOMAIN f : i = 1 \/ i = 2
      BY DEF Signatures, Stage
    <2>2. /\ ~f[1].holds
          /\ ~f[2].holds
      BY DEF Signatures, Stage, Fail, Open, Finding
    <2> HIDE DEF f
    <2>3. \A i \in DOMAIN f : f[i].holds /\ f[i].verdict = "FAIL" =>
             FALSE
      BY <2>1, <2>2
    <2> QED
      BY <2>3 DEF f
  <1>6. \A i \in DOMAIN Passport(c, "none").findings :
           Faulty(Passport(c, "none"), i) =>
              ~(c.cred.from <= now /\ now < c.cred.from + Life)
    <2> DEFINE f == Passport(c, "none").findings
    <2>1. \A i \in DOMAIN f : i = 1 \/ i = 2 \/ i = 3 \/ i = 4
      BY DEF Passport, Stage
    <2>2. /\ ~f[1].holds
          /\ f[2].holds => (~(c.cred.from <= now /\ now < c.cred.from + Life))
          /\ ~f[3].holds
          /\ ~f[4].holds
      BY DEF Passport, Stage, Fail, Open, Finding
    <2> HIDE DEF f
    <2>3. \A i \in DOMAIN f : f[i].holds /\ f[i].verdict = "FAIL" =>
             ~(c.cred.from <= now /\ now < c.cred.from + Life)
      BY <2>1, <2>2
    <2> QED
      BY <2>3 DEF f
  <1>7. \A i \in DOMAIN Registration("none").findings : ~Faulty(Registration("none"), i)
    <2> DEFINE f == Registration("none").findings
    <2>1. \A i \in DOMAIN f : i = 1 \/ i = 2
      BY DEF Registration, Stage
    <2>2. /\ ~f[1].holds
          /\ ~f[2].holds
      BY DEF Registration, Stage, Fail, Open, Finding
    <2> HIDE DEF f
    <2>3. \A i \in DOMAIN f : f[i].holds /\ f[i].verdict = "FAIL" =>
             FALSE
      BY <2>1, <2>2
    <2> QED
      BY <2>3 DEF f
  <1>8. \A i \in DOMAIN CheckpointKnown(p, "none").findings : ~Faulty(CheckpointKnown(p, "none"), i)
    <2> DEFINE f == CheckpointKnown(p, "none").findings
    <2>1. \A i \in DOMAIN f : i = 1 \/ i = 2
      BY DEF CheckpointKnown, Stage
    <2>2. /\ f[1].verdict # "FAIL"
          /\ f[2].verdict # "FAIL"
      BY DEF CheckpointKnown, Stage, Fail, Open, Finding
    <2> HIDE DEF f
    <2>3. \A i \in DOMAIN f : f[i].holds /\ f[i].verdict = "FAIL" =>
             FALSE
      BY <2>1, <2>2
    <2> QED
      BY <2>3 DEF f
  <1>9. \A i \in DOMAIN CheckpointHeadError(p.cp).findings :
           Faulty(CheckpointHeadError(p.cp), i) =>
              \/ Number(p.cp) < Number(head)
              \/ Number(p.cp) = Number(head) /\ Content(p.cp) # Content(head)
    <2> DEFINE f == CheckpointHeadError(p.cp).findings
    <2>1. \A i \in DOMAIN f : i = 1 \/ i = 2 \/ i = 3
      BY DEF CheckpointHeadError, Stage
    <2>2. /\ f[1].holds => (Number(p.cp) < Number(head))
          /\ f[2].verdict # "FAIL"
          /\ f[3].holds => (Number(p.cp) = Number(head) /\ Content(p.cp) # Content(head))
      BY DEF CheckpointHeadError, Stage, Fail, Open, Finding
    <2> HIDE DEF f
    <2>3. \A i \in DOMAIN f : f[i].holds /\ f[i].verdict = "FAIL" =>
             \/ Number(p.cp) < Number(head)
             \/ Number(p.cp) = Number(head) /\ Content(p.cp) # Content(head)
      BY <2>1, <2>2
    <2> QED
      BY <2>3 DEF f
  <1>10. \A i \in DOMAIN CheckpointStage(c, p, "none").findings :
           Faulty(CheckpointStage(c, p, "none"), i) =>
              p.snap # p.cp
    <2> DEFINE f == CheckpointStage(c, p, "none").findings
    <2>1. \A i \in DOMAIN f : i = 1 \/ i = 2 \/ i = 3 \/ i = 4 \/ i = 5 \/ i = 6
      BY DEF CheckpointStage, Stage
    <2>2. /\ f[1].verdict # "FAIL"
          /\ ~f[2].holds
          /\ f[3].holds => (p.snap # p.cp)
          /\ f[4].verdict # "FAIL"
          /\ ~f[5].holds
          /\ f[6].verdict # "FAIL"
      BY DEF CheckpointStage, Stage, Fail, Open, Finding
    <2> HIDE DEF f
    <2>3. \A i \in DOMAIN f : f[i].holds /\ f[i].verdict = "FAIL" =>
             p.snap # p.cp
      BY <2>1, <2>2
    <2> QED
      BY <2>3 DEF f
  <1>11. \A i \in DOMAIN AuthorityProofs(c, "none").findings :
           Faulty(AuthorityProofs(c, "none"), i) =>
              \/ cps[head].st.basis # "ACTIVE"
              \/ cps[head].st.agent[c.cred.agent] # [rev |-> c.cred.rev, status |-> "ACTIVE"]
              \/ cps[head].st.grant # c.grant.ver
              \/ CarriesLink(c.cred) /\ ~SuccessorProven(cps[head].st)
    <2> DEFINE f == AuthorityProofs(c, "none").findings
    <2>1. \A i \in DOMAIN f : i = 1 \/ i = 2 \/ i = 3 \/ i = 4 \/ i = 5 \/ i = 6
      BY DEF AuthorityProofs, Stage
    <2>2. /\ f[1].holds => (cps[head].st.basis # "ACTIVE")
          /\ f[2].holds => (cps[head].st.agent[c.cred.agent] # [rev |-> c.cred.rev, status |-> "ACTIVE"])
          /\ f[3].holds => (cps[head].st.grant # c.grant.ver)
          /\ f[4].holds => (CarriesLink(c.cred) /\ ~SuccessorProven(cps[head].st))
          /\ ~f[5].holds
          /\ ~f[6].holds
      BY DEF AuthorityProofs, Stage, Fail, Open, Finding
    <2> HIDE DEF f
    <2>3. \A i \in DOMAIN f : f[i].holds /\ f[i].verdict = "FAIL" =>
             \/ cps[head].st.basis # "ACTIVE"
             \/ cps[head].st.agent[c.cred.agent] # [rev |-> c.cred.rev, status |-> "ACTIVE"]
             \/ cps[head].st.grant # c.grant.ver
             \/ CarriesLink(c.cred) /\ ~SuccessorProven(cps[head].st)
      BY <2>1, <2>2
    <2> QED
      BY <2>3 DEF f
  <1>12. \A i \in DOMAIN GrantStage(c, "none").findings :
           Faulty(GrantStage(c, "none"), i) =>
              ~(c.grant.from <= now /\ now < c.grant.from + GrantLife)
    <2> DEFINE f == GrantStage(c, "none").findings
    <2>1. \A i \in DOMAIN f : i = 1
      BY DEF GrantStage, Stage
    <2>2. /\ f[1].holds => (~(c.grant.from <= now /\ now < c.grant.from + GrantLife))
      BY DEF GrantStage, Stage, Fail, Open, Finding
    <2> HIDE DEF f
    <2>3. \A i \in DOMAIN f : f[i].holds /\ f[i].verdict = "FAIL" =>
             ~(c.grant.from <= now /\ now < c.grant.from + GrantLife)
      BY <2>1, <2>2
    <2> QED
      BY <2>3 DEF f
  <1>13. \A i \in DOMAIN AsaStage("none").findings : ~Faulty(AsaStage("none"), i)
    <2> DEFINE f == AsaStage("none").findings
    <2>1. \A i \in DOMAIN f : i = 1
      BY DEF AsaStage, Stage
    <2>2. /\ ~f[1].holds
      BY DEF AsaStage, Stage, Fail, Open, Finding
    <2> HIDE DEF f
    <2>3. \A i \in DOMAIN f : f[i].holds /\ f[i].verdict = "FAIL" =>
             FALSE
      BY <2>1, <2>2
    <2> QED
      BY <2>3 DEF f
  <1>14. \A i \in DOMAIN Finish(c, p, "none").findings :
           Faulty(Finish(c, p, "none"), i) =>
              \/ p.created < c.issued \/ p.created >= c.expires
              \/ cps[p.cp].at > p.created
              \/ p.created > now
    <2> DEFINE f == Finish(c, p, "none").findings
    <2>1. \A i \in DOMAIN f : i = 1 \/ i = 2 \/ i = 3 \/ i = 4
      BY DEF Finish, Stage
    <2>2. /\ ~f[1].holds
          /\ f[2].holds => (p.created < c.issued \/ p.created >= c.expires)
          /\ f[3].holds => (cps[p.cp].at > p.created)
          /\ f[4].holds => (p.created > now)
      BY DEF Finish, Stage, Fail, Open, Finding
    <2> HIDE DEF f
    <2>3. \A i \in DOMAIN f : f[i].holds /\ f[i].verdict = "FAIL" =>
             \/ p.created < c.issued \/ p.created >= c.expires
             \/ cps[p.cp].at > p.created
             \/ p.created > now
      BY <2>1, <2>2
    <2> QED
      BY <2>3 DEF f
  <1>15. \A i \in DOMAIN Required("none").findings : ~Faulty(Required("none"), i)
    <2> DEFINE f == Required("none").findings
    <2>1. \A i \in DOMAIN f : i = 1
      BY DEF Required, Stage
    <2>2. /\ f[1].verdict # "FAIL"
      BY DEF Required, Stage, Fail, Open, Finding
    <2> HIDE DEF f
    <2>3. \A i \in DOMAIN f : f[i].holds /\ f[i].verdict = "FAIL" =>
             FALSE
      BY <2>1, <2>2
    <2> QED
      BY <2>3 DEF f
  <1> HIDE DEF Faulty, l
  <1>16. PICK k \in 1..15 : \E i \in DOMAIN l[k].findings :
            /\ Faulty(l[k], i)
            /\ \A j \in 1..15 : j < k => Hits(l[j]) = {}
    BY Evaluated DEF Hits, Faulty, l
  <1>17. PICK i \in DOMAIN l[k].findings : Faulty(l[k], i)
    BY <1>16
  <1>18. CASE k = 11
    <2>1. Hits(l[9]) = {} /\ Hits(l[10]) = {}
      BY <1>16, <1>18
    <2>2. /\ l[9] = CheckpointHeadError(p.cp) /\ l[10] = CheckpointStage(c, p, "none")
          /\ l[11] = AuthorityProofs(c, "none")
      BY StagesAre DEF l
    <2> QED
      BY <1>11, <1>17, <1>18, <2>1, <2>2 DEF Failing
  <1>19. CASE k # 11
    <2>1. \/ l[k] = Entry("none") \/ l[k] = PresentationStage("none")
          \/ l[k] = Signatures("none") \/ l[k] = Registration("none")
          \/ l[k] = CheckpointKnown(p, "none") \/ l[k] = AsaStage("none")
          \/ l[k] = Required("none") \/ l[k] = ChallengeStage(c, "none")
          \/ l[k] = Roots("none") \/ l[k] = Passport(c, "none")
          \/ l[k] = CheckpointHeadError(p.cp) \/ l[k] = CheckpointStage(c, p, "none")
          \/ l[k] = GrantStage(c, "none") \/ l[k] = Finish(c, p, "none")
      BY <1>19, StagesAre DEF l
    <2> QED
      BY <1>1, <1>2, <1>3, <1>4, <1>5, <1>6, <1>7, <1>8, <1>9, <1>10, <1>12, <1>13, <1>14,
         <1>15, <1>17, <2>1 DEF Failing
  <1> QED
    BY <1>18, <1>19

\* A refusal is reported as one only when the challenged agent signed it, and lets
\* nothing through.
LEMMA RefusedMeans ==
    ASSUME NEW c, NEW f, NEW flaw
    PROVE  LET r == EvaluateRefusal(c, f, flaw)
           IN /\ r.reason = "SIGNED_REFUSAL" => f.by = c.cred.agent
              /\ r.reason # "DURABLE_REPLAY_REQUIRED"
              /\ "fresh_status" \notin r.verified
  <1> DEFINE last == Stage(<< Fail(TRUE, "SIGNED_REFUSAL") >>, {})
             l == <<Entry(flaw), RefusalStage(c, f, flaw), last>>
  <1>1. DOMAIN l = 1..3 /\ l[1] = Entry(flaw) /\ l[2] = RefusalStage(c, f, flaw) /\ l[3] = last
    OBVIOUS
  <1>2. /\ DOMAIN l[1].findings \subseteq Nat /\ "fresh_status" \notin l[1].marks
        /\ \A i \in Hits(l[1]) : l[1].findings[i].reason \notin {"SIGNED_REFUSAL",
                                                                "DURABLE_REPLAY_REQUIRED"}
    BY DEF Hits, Entry, Stage, Fail, Open, Finding
  <1>3. /\ DOMAIN l[2].findings \subseteq Nat /\ "fresh_status" \notin l[2].marks
        /\ \A i \in Hits(l[2]) : l[2].findings[i].reason \notin {"SIGNED_REFUSAL",
                                                                "DURABLE_REPLAY_REQUIRED"}
    BY DEF Hits, RefusalStage, Stage, Fail, Open, Finding
  <1>4. /\ DOMAIN l[3].findings \subseteq Nat /\ "fresh_status" \notin l[3].marks
        /\ \A i \in Hits(l[3]) : l[3].findings[i].reason # "DURABLE_REPLAY_REQUIRED"
        /\ 1 \in Hits(l[3])
    BY DEF Hits, Stage, Fail, Finding
  <1>5. Hits(l[2]) = {} => f.by = c.cred.agent
    <2>1. /\ 6 \in DOMAIN l[2].findings
          /\ l[2].findings[6].holds = (f.by # c.cred.agent)
      BY DEF RefusalStage, Stage, Fail, Finding
    <2> QED
      BY <2>1 DEF Hits
  <1>6. EvaluateRefusal(c, f, flaw) = RunStages(l)
    BY DEF EvaluateRefusal
  <1> HIDE DEF l
  <1>7. \A k \in 1..3 : k = 1 \/ k = 2 \/ k = 3
    OBVIOUS
  <1>8. \/ \A k \in 1..3 : Hits(l[k]) = {}
        \/ \E k \in 1..3 : \E i \in Hits(l[k]) :
              /\ RunStages(l).reason = l[k].findings[i].reason
              /\ \A j \in 1..3 : j < k => Hits(l[j]) = {}
    <2>1. \A n \in Nat : DOMAIN l = 1..n /\ (\A k \in 1..n : DOMAIN l[k].findings \subseteq Nat) =>
             \/ \A k \in 1..n : Hits(l[k]) = {}
             \/ \E k \in 1..n : \E i \in Hits(l[k]) :
                   /\ RunStages(l).reason = l[k].findings[i].reason
                   /\ \A j \in 1..n : j < k => Hits(l[j]) = {}
      BY Reported
    <2>2. 3 \in Nat /\ \A k \in 1..3 : DOMAIN l[k].findings \subseteq Nat
      BY <1>2, <1>3, <1>4, <1>7
    <2> QED
      BY <1>1, <2>1, <2>2
  <1>9. PICK k \in 1..3 : \E i \in Hits(l[k]) :
              /\ RunStages(l).reason = l[k].findings[i].reason
              /\ \A j \in 1..3 : j < k => Hits(l[j]) = {}
    BY <1>4, <1>8
  <1>10. RunStages(l).reason # "DURABLE_REPLAY_REQUIRED"
    BY <1>2, <1>3, <1>4, <1>7, <1>9
  <1>11. RunStages(l).reason = "SIGNED_REFUSAL" => f.by = c.cred.agent
    <2> SUFFICES ASSUME RunStages(l).reason = "SIGNED_REFUSAL"
                 PROVE  f.by = c.cred.agent
      OBVIOUS
    <2>1. k = 3
      BY <1>2, <1>3, <1>7, <1>9
    <2>2. Hits(l[2]) = {}
      BY <1>9, <2>1
    <2> QED
      BY <1>5, <2>2
  <1>12. "fresh_status" \notin RunStages(l).verified
    <2> SUFFICES ASSUME "fresh_status" \in RunStages(l).verified
                 PROVE  FALSE
      OBVIOUS
    <2>1. 3 \in Nat
      OBVIOUS
    <2>2. \E j \in 1..3 : "fresh_status" \in l[j].marks
      BY <1>1, <2>1, Marked
    <2> QED
      BY <1>2, <1>3, <1>4, <1>7, <2>2
  <1> QED
    BY <1>6, <1>10, <1>11, <1>12

-------------------------------------------------------------------------------
(***************************************************************************)
(* The invariant is inductive.                                             *)
(***************************************************************************)
\* The fields of a checkpoint.
LEMMA CheckpointFields ==
    ASSUME ChainOk
    PROVE  /\ Len(cps) \in Nat /\ DOMAIN cps = 1..Len(cps)
           /\ \A k \in DOMAIN cps : /\ cps[k].seq \in Nat /\ cps[k].st \in State
                                    /\ cps[k].at \in Nat /\ cps[k].fork \in BOOLEAN
  <1>1. \A k \in 1..Len(cps) : cps[k] \in SignedState
    BY ElementOfSeq DEF ChainOk
  <1> QED
    BY <1>1 DEF ChainOk, SignedState

\* Nobody reads a result: there is nothing to claim about it.
LEMMA NoResult ==
    ASSUME result' = Nothing
    PROVE  RevocationBites' /\ BlameIsDeserved' /\ SuccessionIsFinal'
  BY DEF RevocationBites, BlameIsDeserved, SuccessionIsFinal

\* One active agent, one grant, one checkpoint of that state.
LEMMA AssuranceInvInit == Init => AssuranceInv
  <1> SUFFICES ASSUME Init
               PROVE  AssuranceInv
    OBVIOUS
  <1> DEFINE c == [seq |-> 1, st |-> st, log |-> 0, at |-> 1, fork |-> FALSE]
  <1>1. st \in State /\ Consistent(st)
    BY DEF Init, State, AgentHead, Agents, Consistent, None
  <1>2. cps = <<c>> /\ c \in SignedState
    BY <1>1 DEF Init, SignedState
  <1>3. DOMAIN cps = {1} /\ cps[1] = c /\ cps \in Seq(SignedState)
    BY <1>2
  <1>4. Main = {1}
    BY <1>3 DEF Main
  <1>5. now = 1 /\ gone = {} /\ ~succeeded /\ head = 1
        /\ ch = Nothing /\ flight = Nothing /\ result = Nothing
    BY DEF Init
  <1>6. ChainOk
    BY <1>1, <1>3, <1>4, <1>5 DEF ChainOk
  <1>7. AuthorityOk
    BY <1>1, <1>5 DEF Init, AuthorityOk, Agents
  <1> QED
    BY <1>3, <1>4, <1>5, <1>6, <1>7
       DEF AssuranceInv, SuccessionOk, RevocationBites, BlameIsDeserved, SuccessionIsFinal

\* The authority's state changes for a consistent one that still reflects what was
\* retired before and what is retired now.
LEMMA ChangeStep ==
    ASSUME AssuranceInv, NEW s \in State, Consistent(s), Superseded(st) => Superseded(s),
           NEW newCreds, NEW newGrants, NEW retired,
           Change(s, newCreds, newGrants, retired),
           \A c \in newCreds : c.agent \in Agents /\ c.rev \in Nat /\ c.from = now,
           \A g \in newGrants : g.ver \in Nat /\ g.from = now,
           \A x \in gone : Reflects(s, x.what),
           \A w \in retired : Reflects(s, w)
    PROVE  AssuranceInv'
  <1>1. /\ st' = s /\ creds' = creds \cup newCreds /\ grants' = grants \cup newGrants
        /\ gone' = gone \cup {[what |-> w, at |-> now] : w \in retired}
        /\ result' = Nothing /\ succeeded' = succeeded
        /\ now' = now /\ cps' = cps /\ head' = head /\ ch' = ch /\ flight' = flight
    BY DEF Change, Quietly, local, exchange
  <1>2. now \in Nat /\ Main' = Main
    BY <1>1 DEF AssuranceInv, Main
  <1>3. AuthorityOk'
    <2>1. \A c \in creds' : c.agent \in Agents /\ c.rev \in Nat /\ c.from \in Nat /\ c.from <= now
      BY <1>1, <1>2 DEF AssuranceInv, AuthorityOk
    <2>2. \A g \in grants' : g.ver \in Nat /\ g.from \in Nat /\ g.from <= now
      BY <1>1, <1>2 DEF AssuranceInv, AuthorityOk
    <2>3. \A x \in gone' : x.at \in Nat /\ x.at <= now /\ Reflects(s, x.what)
      BY <1>1, <1>2 DEF AssuranceInv, AuthorityOk
    <2> QED
      BY <1>1, <2>1, <2>2, <2>3 DEF AuthorityOk
  <1>4. ChainOk'
    <2>1. \A k \in Main, x \in gone' : x.at < cps[k].at => Reflects(cps[k].st, x.what)
      <3> TAKE k \in Main, x \in gone'
      <3>1. CASE x \in gone
        BY <3>1 DEF AssuranceInv, ChainOk
      <3>2. CASE x \notin gone
        <4>1. x.at = now
          BY <1>1, <3>2
        <4>2. cps[k].at \in Nat /\ cps[k].at <= now
          BY CheckpointFields DEF AssuranceInv, ChainOk, Main
        <4> QED
          BY <1>2, <4>1, <4>2
      <3> QED
        BY <3>1, <3>2
    <2> QED
      BY <1>1, <1>2, <2>1 DEF AssuranceInv, ChainOk, Content
  <1>5. ch' # Nothing => ChallengeOk'
    BY <1>1 DEF AssuranceInv, ChallengeOk
  <1>6. flight' # Nothing => FlightOk'
    BY <1>1, <1>2 DEF AssuranceInv, FlightOk, ChallengeOk, IsRefusal, Backed, CarriesLink, SuccessorProven
  <1>7. SuccessionOk'
    BY <1>1, <1>2 DEF AssuranceInv, SuccessionOk
  <1> QED
    BY <1>1, <1>2, <1>3, <1>4, <1>5, <1>6, <1>7, NoResult DEF AssuranceInv

\* A checkpoint is signed: the next main one, of the current state, or a fork of the
\* last, with another content.
LEMMA SignStep ==
    ASSUME AssuranceInv, NEW c \in SignedState, Sign(c), c.at = now,
           \/ c.fork /\ c.seq = cps[LastMain].seq /\ <<c.st, c.log>> # Content(LastMain)
           \/ ~c.fork /\ c.seq = cps[LastMain].seq + 1 /\ c.st = st
    PROVE  AssuranceInv'
  <1>1. /\ cps' = Append(cps, c) /\ result' = Nothing /\ succeeded' = succeeded
        /\ now' = now /\ st' = st /\ creds' = creds /\ grants' = grants /\ gone' = gone
        /\ head' = head /\ ch' = ch /\ flight' = flight
    BY DEF Sign, Quietly, local, exchange
  <1>2. /\ now \in Nat /\ ChainOk /\ head \in Main
        /\ Len(cps) \in Nat /\ DOMAIN cps = 1..Len(cps)
        /\ \A k \in DOMAIN cps : cps[k].seq \in Nat /\ cps[k].fork \in BOOLEAN /\ cps[k].at \in Nat
    BY CheckpointFields DEF AssuranceInv
  <1> DEFINE new == Len(cps) + 1
  <1>3. /\ cps' \in Seq(SignedState) /\ Len(cps') = new
        /\ \A k \in 1..Len(cps) : cps'[k] = cps[k]
        /\ cps'[new] = c
    BY <1>1, <1>2, AppendProperties DEF ChainOk
  <1>4. /\ DOMAIN cps' = DOMAIN cps \cup {new} /\ new \notin DOMAIN cps
        /\ \A k \in DOMAIN cps : cps'[k] = cps[k] /\ k < new
    BY <1>2, <1>3
  <1>5. /\ LastMain \in Main /\ \A j \in Main : j <= LastMain
        /\ \A k \in DOMAIN cps : cps[k].seq <= cps[LastMain].seq
    BY <1>2, LastMainIs
  <1>6. c.seq \in Nat /\ c.fork \in BOOLEAN /\ c.at \in Nat
    BY DEF SignedState
  <1>7. Main' = IF c.fork THEN Main ELSE Main \cup {new}
    BY <1>3, <1>4 DEF Main
  <1>8. Main \subseteq DOMAIN cps /\ Main \subseteq Main'
    BY <1>7 DEF Main
  <1> HIDE DEF new
  <1>9. ChainOk'
    <2>1. Main' # {}
      BY <1>5, <1>8
    <2>2. \A k \in DOMAIN cps' : /\ cps'[k].at <= now
                                 /\ \E j \in Main' : cps'[k].seq <= cps'[j].seq
      <3> TAKE k \in DOMAIN cps'
      <3>1. CASE k = new
        <4>1. cps'[k].at <= now
          BY <1>2, <1>3, <3>1
        <4>2. CASE c.fork
          <5>1. LastMain \in Main' /\ cps'[LastMain] = cps[LastMain]
            BY <1>4, <1>5, <1>8
          <5>2. cps'[k].seq <= cps'[LastMain].seq
            BY <1>2, <1>3, <1>5, <1>8, <3>1, <4>2, <5>1
          <5> QED
            BY <4>1, <5>1, <5>2
        <4>3. CASE ~c.fork
          <5>1. new \in Main' /\ cps'[k].seq <= cps'[new].seq
            BY <1>3, <1>6, <1>7, <3>1, <4>3
          <5> QED
            BY <4>1, <5>1
        <4> QED
          BY <4>2, <4>3
      <3>2. CASE k \in DOMAIN cps
        <4>1. PICK j \in Main : cps[k].seq <= cps[j].seq
          BY <1>2, <3>2 DEF ChainOk
        <4>2. j \in Main' /\ cps'[j] = cps[j] /\ cps'[k] = cps[k]
          BY <1>4, <1>8, <3>2
        <4> QED
          BY <1>2, <3>2, <4>1, <4>2 DEF ChainOk
      <3> QED
        BY <1>4, <3>1, <3>2
    <2>3. \A k \in Main', x \in gone : x.at < cps'[k].at => Reflects(cps'[k].st, x.what)
      <3> TAKE k \in Main', x \in gone
      <3>1. CASE k \in Main
        BY <1>2, <1>4, <1>8, <3>1 DEF ChainOk
      <3>2. CASE k \notin Main
        <4>1. k = new /\ ~c.fork
          BY <1>7, <3>2
        <4>2. cps'[k].st = st
          BY <1>3, <4>1
        <4> QED
          BY <4>2 DEF AssuranceInv, AuthorityOk
      <3> QED
        BY <3>1, <3>2
    <2>4. \A j, k \in Main' : j < k => cps'[j].seq < cps'[k].seq
      <3> TAKE j, k \in Main'
      <3> HAVE j < k
      <3>1. CASE k \in Main
        <4>1. j \in Main
          BY <1>2, <1>4, <1>7, <1>8, <3>1 DEF new
        <4> QED
          BY <1>2, <1>4, <1>8, <3>1, <4>1 DEF ChainOk
      <3>2. CASE k \notin Main
        <4>1. k = new /\ ~c.fork
          BY <1>7, <3>2
        <4>2. j \in Main
          BY <1>2, <1>7, <4>1 DEF new
        <4>3. cps'[j] = cps[j] /\ cps[j].seq \in Nat /\ cps[j].seq <= cps[LastMain].seq
          BY <1>2, <1>4, <1>5, <1>8, <4>2
        <4>4. cps'[k].seq = cps[LastMain].seq + 1 /\ cps[LastMain].seq \in Nat
          BY <1>2, <1>3, <1>5, <1>8, <4>1
        <4> QED
          BY <4>3, <4>4
      <3> QED
        BY <3>1, <3>2
    <2>5. \A j \in Main', k \in DOMAIN cps' :
             cps'[k].fork /\ cps'[j].seq = cps'[k].seq => Content(j)' # Content(k)'
      <3> TAKE j \in Main', k \in DOMAIN cps'
      <3> HAVE cps'[k].fork /\ cps'[j].seq = cps'[k].seq
      <3>1. CASE j \in Main /\ k \in DOMAIN cps
        <4>1. cps'[j] = cps[j] /\ cps'[k] = cps[k]
          BY <1>4, <1>8, <3>1
        <4>2. cps[k].fork /\ cps[j].seq = cps[k].seq
          BY <4>1
        <4>3. Content(j) # Content(k)
          BY <1>2, <3>1, <4>2 DEF ChainOk
        <4> QED
          BY <4>1, <4>3 DEF Content
      <3>2. CASE j \notin Main /\ k \in DOMAIN cps
        <4>1. j = new /\ cps'[j].seq = cps[LastMain].seq + 1
          BY <1>3, <1>7, <3>2
        <4>2. cps'[k].seq <= cps[LastMain].seq /\ cps'[k].seq \in Nat /\ cps[LastMain].seq \in Nat
          BY <1>2, <1>4, <1>5, <1>8, <3>2
        <4> QED
          BY <4>1, <4>2
      <3>3. CASE k \notin DOMAIN cps
        <4>1. k = new /\ c.fork /\ cps'[k] = c
          BY <1>3, <1>4, <3>3
        <4>2. j \in Main /\ cps'[j] = cps[j] /\ j <= LastMain /\ cps[j].seq = cps[LastMain].seq
          BY <1>3, <1>4, <1>5, <1>7, <1>8, <4>1
        <4>3. j = LastMain
          <5>1. j \in Nat /\ LastMain \in Nat /\ cps[j].seq \in Nat
            BY <1>2, <1>5, <1>8, <4>2
          <5>2. ~(j < LastMain)
            BY <1>2, <1>5, <4>2, <5>1 DEF ChainOk
          <5> QED
            BY <4>2, <5>1, <5>2
        <4>4. Content(j)' = Content(LastMain) /\ Content(k)' = <<c.st, c.log>>
          BY <4>1, <4>2, <4>3 DEF Content
        <4> QED
          BY <4>1, <4>4
      <3> QED
        BY <3>1, <3>2, <3>3
    <2> QED
      BY <1>1, <1>3, <2>1, <2>2, <2>3, <2>4, <2>5 DEF ChainOk
  <1>10. AuthorityOk' /\ head' \in Main' /\ (ch' # Nothing => ChallengeOk')
    BY <1>1, <1>2, <1>8 DEF AssuranceInv, AuthorityOk, ChallengeOk
  <1>11. flight' # Nothing => FlightOk'
    <2> SUFFICES ASSUME flight # Nothing
                 PROVE  FlightOk'
      BY <1>1
    <2>1. FlightOk /\ (~IsRefusal(flight) => flight.cp \in DOMAIN cps)
      BY DEF AssuranceInv, FlightOk, IsRefusal
    <2>2. flight \in [by : Agents, created : Nat]
             \cup [cp : DOMAIN cps', snap : DOMAIN cps', created : Nat, honest : BOOLEAN]
      BY <1>4, <2>1 DEF FlightOk
    <2>3. ~IsRefusal(flight) => cps'[flight.cp] = cps[flight.cp]
      BY <1>4, <2>1
    <2> QED
      BY <1>1, <1>8, <2>1, <2>2, <2>3 DEF FlightOk, ChallengeOk, IsRefusal, Backed, CarriesLink, SuccessorProven
  <1>12. SuccessionOk'
    <2>1. /\ \A k \in Main : cps'[k] = cps[k]
          /\ \A k \in Main' : k \in Main \/ (k = new /\ cps'[k].st = st)
          /\ \A k \in Main : k < new
      BY <1>3, <1>4, <1>7, <1>8
    <2>2. /\ \A k \in Main : Superseded(cps[k].st) => Superseded(st)
          /\ \A j, k \in Main : j < k /\ Superseded(cps[j].st) => Superseded(cps[k].st)
          /\ succeeded => Superseded(cps[head].st)
      BY DEF AssuranceInv, SuccessionOk
    <2>3. \A k \in Main' : Superseded(cps'[k].st) => Superseded(st)
      BY <2>1, <2>2
    <2>4. ASSUME NEW j \in Main', NEW k \in Main', j < k, Superseded(cps'[j].st)
          PROVE  Superseded(cps'[k].st)
      <3>1. CASE k \in Main
        <4>1. j \in Main
          BY <1>2, <1>8, <2>1, <2>4, <3>1 DEF new
        <4> QED
          BY <2>1, <2>2, <2>4, <3>1, <4>1
      <3>2. CASE k \notin Main
        BY <2>1, <2>3, <2>4, <3>2
      <3> QED
        BY <3>1, <3>2
    <2> QED
      BY <1>1, <1>2, <2>1, <2>2, <2>3, <2>4 DEF SuccessionOk
  <1> QED
    BY <1>1, <1>2, <1>9, <1>10, <1>11, <1>12, NoResult DEF AssuranceInv

\* The changes an authority makes keep its state consistent, and what is retired stays
\* so: revisions and versions only grow, and nothing is active again under its number.
LEMMA AuthorityStep ==
    ASSUME AssuranceInv,
           \/ ReviseAgent \/ RevokeAgent \/ LinkSuccessor \/ SupersedePredecessor
           \/ ReviseGrant \/ WithdrawBasis
    PROVE  AssuranceInv'
  <1>1. /\ st \in State /\ Consistent(st) /\ now \in Nat
        /\ \A x \in gone : Reflects(st, x.what)
    BY DEF AssuranceInv, AuthorityOk
  <1>2. /\ st.agent \in [Agents -> AgentHead] /\ st.link \in Nat /\ st.grant \in Nat
        /\ \A a \in Agents : st.agent[a] \in AgentHead /\ st.agent[a].rev \in Nat
    BY <1>1 DEF State, AgentHead
  <1>3. ASSUME NEW a \in Agents, NEW h \in AgentHead,
               st.agent[a].status = "ACTIVE", h.rev >= st.agent[a].rev,
               h.status = "ACTIVE" => h.rev > st.agent[a].rev, h.status # "NONE"
        PROVE  LET s == [st EXCEPT !.agent[a] = h]
               IN /\ s \in State
                  /\ \A x \in gone : Reflects(s, x.what)
                  /\ Reflects(s, <<"agent", a, st.agent[a].rev>>)
    <2> DEFINE s == [st EXCEPT !.agent[a] = h]
    <2>1. s \in State
      BY <1>1, <1>3 DEF State
    <2>2. /\ s.grant = st.grant /\ s.basis = st.basis /\ s.agent[a] = h
          /\ \A b \in Agents : b # a => s.agent[b] = st.agent[b]
      BY <1>1, <1>2 DEF State
    <2>3. h.rev \in Nat
      BY DEF AgentHead
    <2> HIDE DEF s
    <2>4. ASSUME NEW x \in gone
          PROVE  Reflects(s, x.what)
      <3>1. CASE x.what[1] = "agent" /\ x.what[2] = a
        BY <1>1, <1>2, <1>3, <2>2, <2>3, <3>1 DEF Reflects
      <3>2. CASE ~(x.what[1] = "agent" /\ x.what[2] = a)
        BY <1>1, <2>2, <3>2 DEF Reflects
      <3> QED
        BY <3>1, <3>2
    <2>5. Reflects(s, <<"agent", a, st.agent[a].rev>>)
      BY <1>2, <1>3, <2>2, <2>3 DEF Reflects
    <2> QED
      BY <2>1, <2>4, <2>5 DEF s
  <1>4. CASE ReviseAgent
    <2>1. PICK a \in Agents :
             /\ st.agent[a].status = "ACTIVE"
             /\ Change([st EXCEPT !.agent[a].rev = st.agent[a].rev + 1],
                       {Credential(a, st.agent[a].rev + 1)}, {},
                       {<<"agent", a, st.agent[a].rev>>})
      BY <1>4 DEF ReviseAgent
    <2> DEFINE h == [st.agent[a] EXCEPT !.rev = st.agent[a].rev + 1]
               s == [st EXCEPT !.agent[a] = h]
    <2>2. h \in AgentHead /\ h.rev = st.agent[a].rev + 1 /\ h.status = "ACTIVE"
      BY <1>2, <2>1 DEF AgentHead
    <2>3. s = [st EXCEPT !.agent[a].rev = st.agent[a].rev + 1]
      BY <1>1, <1>2 DEF State
    <2> HIDE DEF h
    <2>4. /\ s \in State /\ \A x \in gone : Reflects(s, x.what)
          /\ Reflects(s, <<"agent", a, st.agent[a].rev>>)
      <3>1. /\ h.rev >= st.agent[a].rev /\ h.status # "NONE"
            /\ h.status = "ACTIVE" => h.rev > st.agent[a].rev
        BY <1>2, <2>2
      <3> QED
        BY <1>3, <2>1, <2>2, <3>1
    <2>5. /\ s.link = st.link /\ s.agent[a] = h
          /\ \A b \in Agents : b # a => s.agent[b] = st.agent[b]
      BY <1>1, <1>2 DEF State
    <2>6. Consistent(s) /\ (Superseded(st) => Superseded(s))
      <3>1. CASE a = 1
        BY <1>1, <1>2, <2>1, <2>2, <2>5, <3>1 DEF Consistent, Superseded, Agents
      <3>2. CASE a = 2
        BY <1>1, <1>2, <2>1, <2>2, <2>5, <3>2 DEF Consistent, Superseded, Agents
      <3> QED
        BY <3>1, <3>2 DEF Agents
    <2>7. /\ Credential(a, st.agent[a].rev + 1).agent \in Agents
          /\ Credential(a, st.agent[a].rev + 1).rev \in Nat
          /\ Credential(a, st.agent[a].rev + 1).from = now
      BY <1>2 DEF Credential
    <2> HIDE DEF s
    <2> QED
      BY <2>1, <2>3, <2>4, <2>6, <2>7, ChangeStep
  <1>5. CASE RevokeAgent
    <2>1. PICK a \in Agents :
             /\ st.agent[a].status = "ACTIVE"
             /\ Change([st EXCEPT !.agent[a].status = "REVOKED"], {}, {},
                       {<<"agent", a, st.agent[a].rev>>})
      BY <1>5 DEF RevokeAgent
    <2> DEFINE h == [st.agent[a] EXCEPT !.status = "REVOKED"]
               s == [st EXCEPT !.agent[a] = h]
    <2>2. h \in AgentHead /\ h.rev = st.agent[a].rev /\ h.status = "REVOKED"
      BY <1>2, <2>1 DEF AgentHead
    <2>3. s = [st EXCEPT !.agent[a].status = "REVOKED"]
      BY <1>1, <1>2 DEF State
    <2> HIDE DEF h
    <2>4. /\ s \in State /\ \A x \in gone : Reflects(s, x.what)
          /\ Reflects(s, <<"agent", a, st.agent[a].rev>>)
      <3>1. /\ h.rev >= st.agent[a].rev /\ h.status # "NONE"
            /\ h.status = "ACTIVE" => h.rev > st.agent[a].rev
        BY <1>2, <2>2
      <3> QED
        BY <1>3, <2>1, <2>2, <3>1
    <2>5. /\ s.link = st.link /\ s.agent[a] = h
          /\ \A b \in Agents : b # a => s.agent[b] = st.agent[b]
      BY <1>1, <1>2 DEF State
    <2>6. Consistent(s) /\ (Superseded(st) => Superseded(s))
      <3>1. CASE a = 1
        BY <1>1, <1>2, <2>1, <2>2, <2>5, <3>1 DEF Consistent, Superseded, Agents
      <3>2. CASE a = 2
        BY <1>1, <1>2, <2>1, <2>2, <2>5, <3>2 DEF Consistent, Superseded, Agents
      <3> QED
        BY <3>1, <3>2 DEF Agents
    <2> HIDE DEF s
    <2> QED
      BY <2>1, <2>3, <2>4, <2>6, ChangeStep
  <1>6. CASE SupersedePredecessor
    <2> DEFINE h == [rev |-> st.agent[1].rev + 1, status |-> "SUPERSEDED"]
               s == [st EXCEPT !.agent[1] = h]
    <2>1. /\ st.link # None /\ st.agent[1].status = "ACTIVE" /\ 1 \in Agents
          /\ Change(s, {}, {}, {<<"agent", 1, st.agent[1].rev>>})
      BY <1>6 DEF SupersedePredecessor, Succeeding, Agents
    <2>2. h \in AgentHead /\ h.rev = st.agent[1].rev + 1 /\ h.status = "SUPERSEDED"
      BY <1>2, <2>1 DEF AgentHead
    <2> HIDE DEF h
    <2>4. /\ s \in State /\ \A x \in gone : Reflects(s, x.what)
          /\ Reflects(s, <<"agent", 1, st.agent[1].rev>>)
      BY <1>2, <1>3, <2>1, <2>2
    <2>5. s.link = st.link /\ s.agent[1] = h /\ s.agent[2] = st.agent[2]
      BY <1>1, <1>2, <2>1 DEF State, Agents
    <2>6. Consistent(s) /\ (Superseded(st) => Superseded(s))
      BY <1>1, <1>2, <2>1, <2>2, <2>5 DEF Consistent, Superseded
    <2> HIDE DEF s
    <2> QED
      BY <2>1, <2>4, <2>6, ChangeStep
  <1>7. CASE LinkSuccessor
    <2> DEFINE s == [st EXCEPT !.link = st.agent[1].rev,
                               !.agent[2] = [rev |-> 1, status |-> "ACTIVE"]]
    <2>1. /\ st.link = None /\ st.agent[1].status = "ACTIVE" /\ {1, 2} = Agents
          /\ Change(s, {Credential(2, 1)}, {}, {})
      BY <1>7 DEF LinkSuccessor, Agents
    <2>2. s \in State
      BY <1>1, <1>2, <2>1 DEF State, AgentHead, Agents
    <2>3. /\ s.link = st.agent[1].rev /\ s.grant = st.grant /\ s.basis = st.basis
          /\ s.agent[1] = st.agent[1] /\ s.agent[2] = [rev |-> 1, status |-> "ACTIVE"]
      BY <1>1, <1>2, <2>1 DEF State, Agents
    <2> HIDE DEF s
    <2>4. st.agent[2].status = "NONE" /\ st.agent[1].rev >= 1
      BY <1>1, <2>1 DEF Consistent
    <2>5. Consistent(s) /\ (Superseded(st) => Superseded(s))
      BY <1>2, <2>1, <2>3, <2>4 DEF Consistent, Superseded, None, Agents
    <2>6. ASSUME NEW x \in gone
          PROVE  Reflects(s, x.what)
      <3>1. Reflects(st, x.what)
        BY <1>1
      <3>2. x.what[1] = "agent" => x.what[2] = 1
        BY <2>4, <3>1 DEF Reflects, Agents
      <3> QED
        BY <2>3, <3>1, <3>2 DEF Reflects
    <2>7. Credential(2, 1).agent \in Agents /\ Credential(2, 1).rev \in Nat
          /\ Credential(2, 1).from = now
      BY <2>1 DEF Credential
    <2> QED
      BY <2>1, <2>2, <2>5, <2>6, <2>7, ChangeStep
  <1>8. CASE ReviseGrant
    <2> DEFINE s == [st EXCEPT !.grant = st.grant + 1]
    <2>1. Change(s, {}, {[ver |-> st.grant + 1, from |-> now]}, {<<"grant", st.grant>>})
      BY <1>8 DEF ReviseGrant
    <2>2. s \in State
      BY <1>1, <1>2 DEF State
    <2>3. s.link = st.link /\ s.agent = st.agent /\ s.basis = st.basis /\ s.grant = st.grant + 1
      BY <1>1 DEF State
    <2> HIDE DEF s
    <2>4. Consistent(s) /\ (Superseded(st) => Superseded(s))
      BY <1>1, <2>3 DEF Consistent, Superseded
    <2>5. \A x \in gone : Reflects(s, x.what)
      BY <1>1, <1>2, <2>3 DEF Reflects
    <2>6. Reflects(s, <<"grant", st.grant>>)
      BY <1>2, <2>3 DEF Reflects
    <2> QED
      BY <1>2, <2>1, <2>2, <2>4, <2>5, <2>6, ChangeStep
  <1>9. CASE WithdrawBasis
    <2> DEFINE s == [st EXCEPT !.basis = "REVOKED"]
    <2>1. Change(s, {}, {}, {<<"basis">>})
      BY <1>9 DEF WithdrawBasis
    <2>2. s \in State
      BY <1>1, <1>2 DEF State
    <2>3. s.link = st.link /\ s.agent = st.agent /\ s.basis = "REVOKED" /\ s.grant = st.grant
      BY <1>1 DEF State
    <2> HIDE DEF s
    <2>4. Consistent(s) /\ (Superseded(st) => Superseded(s))
      BY <1>1, <2>3 DEF Consistent, Superseded
    <2>5. \A x \in gone : Reflects(s, x.what)
      BY <1>1, <2>3 DEF Reflects
    <2>6. Reflects(s, <<"basis">>)
      BY <2>3 DEF Reflects
    <2> QED
      BY <2>1, <2>2, <2>4, <2>5, <2>6, ChangeStep
  <1> QED
    BY <1>4, <1>5, <1>6, <1>7, <1>8, <1>9

\* What the authority signs is a checkpoint.
LEMMA PublishStep ==
    ASSUME AssuranceInv, Publish \/ Fork
    PROVE  AssuranceInv'
  <1>1. ChainOk /\ LastMain \in DOMAIN cps /\ now \in Nat /\ st \in State
    BY LastMainIs DEF AssuranceInv, AuthorityOk, Main
  <1>2. cps[LastMain].seq \in Nat
    BY <1>1, CheckpointFields
  <1>3. CASE Publish
    <2> DEFINE c == [seq |-> cps[LastMain].seq + 1, st |-> st, log |-> 0, at |-> now, fork |-> FALSE]
    <2>1. c \in SignedState /\ Sign(c)
      BY <1>1, <1>2, <1>3 DEF SignedState, Publish
    <2>2. c.st = st /\ c.at = now /\ ~c.fork /\ c.seq = cps[LastMain].seq + 1
      OBVIOUS
    <2> HIDE DEF c
    <2> QED
      BY <1>1, <2>1, <2>2, SignStep
  <1>4. CASE Fork
    <2>1. PICK s \in {st} \cup {cps[k].st : k \in DOMAIN cps}, l \in {0, 1} :
             /\ <<s, l>> # Content(LastMain)
             /\ Sign([seq |-> cps[LastMain].seq, st |-> s, log |-> l, at |-> now,
                      fork |-> TRUE])
      BY <1>4 DEF Fork
    <2> DEFINE c == [seq |-> cps[LastMain].seq, st |-> s, log |-> l, at |-> now,
                     fork |-> TRUE]
    <2>2. s \in State
      BY <1>1, CheckpointFields
    <2>3. c \in SignedState /\ Sign(c)
      BY <1>1, <1>2, <2>1, <2>2 DEF SignedState
    <2>4. c.st = s /\ c.log = l /\ c.at = now /\ c.fork /\ c.seq = cps[LastMain].seq
      OBVIOUS
    <2> HIDE DEF c
    <2> QED
      BY <2>1, <2>2, <2>3, <2>4, SignStep
  <1> QED
    BY <1>3, <1>4

\* Steps of the relying party's store, the exchange and the clock before an evaluation.
LEMMA QuietStep ==
    ASSUME AssuranceInv,
           AdvanceHead \/ RegisterCheckpoint \/ Challenge \/ ReadResult \/ Tick
    PROVE  AssuranceInv'
  <1>0. now \in Nat /\ ChainOk /\ head \in Main
    BY DEF AssuranceInv
  <1>1. CASE AdvanceHead
    <2>1. PICK k \in DOMAIN cps : ~cps[k].fork /\ k > head /\ head' = k
      BY <1>1 DEF AdvanceHead
    <2>2. /\ UNCHANGED <<now, st, creds, grants, gone, cps, ch, flight>>
          /\ succeeded' = succeeded /\ result' = Nothing
      BY <1>1 DEF AdvanceHead, Quietly, authority, exchange
    <2>3. Main' = Main /\ head' \in Main
      BY <2>1, <2>2 DEF Main
    <2>4. AuthorityOk' /\ ChainOk' /\ (ch' # Nothing => ChallengeOk')
      BY <2>2, <2>3 DEF AssuranceInv, AuthorityOk, ChainOk, Content, ChallengeOk
    <2>5. SuccessionOk'
      <3>1. k \in Main /\ head < k
        BY <1>0, <2>1, CheckpointFields DEF Main
      <3>2. Superseded(cps[head].st) => Superseded(cps[k].st)
        BY <1>0, <3>1 DEF AssuranceInv, SuccessionOk
      <3> QED
        BY <2>1, <2>2, <2>3, <3>2 DEF AssuranceInv, SuccessionOk
    <2>6. flight' # Nothing => FlightOk'
      BY <2>2, <2>3 DEF AssuranceInv, FlightOk, ChallengeOk, IsRefusal, Backed, CarriesLink, SuccessorProven
    <2> QED
      BY <1>0, <2>2, <2>3, <2>4, <2>5, <2>6, NoResult DEF AssuranceInv
  <1>2. CASE RegisterCheckpoint \/ ReadResult
    <2>1. /\ UNCHANGED <<now, st, creds, grants, gone, cps, ch, flight, head, succeeded>>
          /\ result' = Nothing
      BY <1>2 DEF RegisterCheckpoint, ReadResult, Quietly, authority, exchange, local
    <2>2. Main' = Main
      BY <2>1 DEF Main
    <2>3. /\ AuthorityOk' /\ ChainOk' /\ (ch' # Nothing => ChallengeOk') /\ SuccessionOk'
      BY <2>1, <2>2 DEF AssuranceInv, AuthorityOk, ChainOk, Content, ChallengeOk, SuccessionOk
    <2>4. flight' # Nothing => FlightOk'
      BY <2>1, <2>2 DEF AssuranceInv, FlightOk, ChallengeOk, IsRefusal, Backed, CarriesLink, SuccessorProven
    <2> QED
      BY <1>0, <2>1, <2>2, <2>3, <2>4, NoResult DEF AssuranceInv
  <1>3. CASE Challenge
    <2>1. PICK c \in creds, g \in grants :
             ch' = [cred |-> c, grant |-> g, issued |-> now, expires |-> now + Lifetime]
      BY <1>3 DEF Challenge
    <2>2. /\ UNCHANGED <<now, st, creds, grants, gone, cps, head, succeeded>>
          /\ result' = Nothing /\ flight' = Nothing
      BY <1>3 DEF Challenge, Quietly, authority, local
    <2>3. Main' = Main
      BY <2>2 DEF Main
    <2>4. /\ AuthorityOk' /\ ChainOk' /\ SuccessionOk'
      BY <2>2, <2>3 DEF AssuranceInv, AuthorityOk, ChainOk, Content, SuccessionOk
    <2>5. ChallengeOk'
      BY <1>0, <2>1, <2>2, AssuranceAssumption DEF ChallengeOk
    <2> QED
      BY <1>0, <2>2, <2>3, <2>4, <2>5, NoResult DEF AssuranceInv
  <1>4. CASE Tick
    <2>1. /\ UNCHANGED <<st, creds, grants, gone, cps, ch, flight, head, succeeded>>
          /\ result' = Nothing /\ now' = now + 1
      BY <1>4 DEF Tick, Quietly, authority, exchange, local
    <2>2. Main' = Main
      BY <2>1 DEF Main
    <2>3. AuthorityOk'
      BY <1>0, <2>1 DEF AssuranceInv, AuthorityOk
    <2>4. ChainOk'
      <3>1. \A k \in DOMAIN cps : cps[k].at <= now'
        BY <1>0, <2>1, CheckpointFields DEF ChainOk
      <3> QED
        BY <1>0, <2>1, <2>2, <3>1 DEF ChainOk, Content
    <2>5. ChallengeOk => ChallengeOk'
      BY <1>0, <2>1 DEF ChallengeOk
    <2>6. flight' # Nothing => FlightOk'
      <3> SUFFICES ASSUME flight # Nothing
                   PROVE  FlightOk'
        BY <2>1
      <3>1. FlightOk /\ flight.created \in Nat
        BY DEF AssuranceInv, FlightOk
      <3>2. flight.created <= now'
        BY <1>0, <2>1, <3>1 DEF FlightOk
      <3> QED
        BY <2>1, <2>2, <2>5, <3>1, <3>2 DEF FlightOk, IsRefusal, Backed, CarriesLink, SuccessorProven
    <2>7. SuccessionOk'
      BY <2>1, <2>2 DEF AssuranceInv, SuccessionOk
    <2> QED
      BY <1>0, <2>1, <2>2, <2>3, <2>4, <2>5, <2>6, <2>7, NoResult DEF AssuranceInv
  <1> QED
    BY <1>1, <1>2, <1>3, <1>4

\* A presentation or a refusal is sent.
LEMMA SendStep ==
    ASSUME AssuranceInv, Present \/ Refuse
    PROVE  AssuranceInv'
  <1>0. now \in Nat /\ ChainOk /\ head \in Main
    BY DEF AssuranceInv
  <1>1. PICK f : Send(f) /\ \/ \E a \in Agents : f = [by |-> a, created |-> now]
                            \/ \E k \in DOMAIN cps : \E s \in {k, LastMain} :
                                  f = [cp |-> k, snap |-> s, created |-> now,
                                       honest |-> k = LastMain /\ s = LastMain
                                                  /\ Backed(cps[k].st)]
    BY DEF Present, Refuse
  <1>2. /\ UNCHANGED <<now, st, creds, grants, gone, cps, ch, head, succeeded>>
        /\ result' = Nothing /\ flight' = f /\ ch # Nothing
    BY <1>1 DEF Send, Quietly, authority, local
  <1>3. Main' = Main
    BY <1>2 DEF Main
  <1>4. /\ AuthorityOk' /\ ChainOk' /\ ChallengeOk' /\ ChallengeOk /\ SuccessionOk'
    BY <1>2, <1>3 DEF AssuranceInv, AuthorityOk, ChainOk, Content, ChallengeOk, SuccessionOk
  <1>5. LastMain \in Main /\ LastMain \in DOMAIN cps
    BY <1>0, LastMainIs DEF Main
  <1>6. FlightOk'
    <2>1. CASE \E a \in Agents : f = [by |-> a, created |-> now]
      <3>1. PICK a \in Agents : f = [by |-> a, created |-> now]
        BY <2>1
      <3>2. f \in [by : Agents, created : Nat] /\ f.created = now /\ IsRefusal(f)
        BY <1>0, <3>1 DEF IsRefusal
      <3>3. ch.issued <= now /\ now <= now
        BY <1>0, <1>4 DEF ChallengeOk
      <3> QED
        BY <1>2, <1>4, <3>2, <3>3 DEF FlightOk, IsRefusal
    <2>2. CASE \E k \in DOMAIN cps : \E s \in {k, LastMain} :
                  f = [cp |-> k, snap |-> s, created |-> now,
                       honest |-> k = LastMain /\ s = LastMain /\ Backed(cps[k].st)]
      <3>1. PICK k \in DOMAIN cps, s \in DOMAIN cps :
               f = [cp |-> k, snap |-> s, created |-> now,
                    honest |-> k = LastMain /\ s = LastMain /\ Backed(cps[k].st)]
        BY <1>5, <2>2
      <3>2. /\ f \in [cp : DOMAIN cps, snap : DOMAIN cps, created : Nat, honest : BOOLEAN]
            /\ f.created = now /\ f.cp = k /\ f.snap = s
            /\ f.honest => k = LastMain /\ s = LastMain /\ Backed(cps[k].st)
        BY <1>0, <3>1
      <3>3. ch.issued <= now /\ now <= now /\ cps[k].at <= now
        BY <1>0, <1>4 DEF ChallengeOk, ChainOk
      <3>4. Backed(cps[k].st) => Backed(cps[k].st)'
        BY <1>2 DEF Backed, CarriesLink, SuccessorProven
      <3> QED
        BY <1>2, <1>3, <1>4, <1>5, <3>2, <3>3, <3>4 DEF FlightOk
    <2> QED
      BY <1>1, <2>1, <2>2
  <1> QED
    BY <1>0, <1>2, <1>3, <1>4, <1>6, NoResult DEF AssuranceInv

-------------------------------------------------------------------------------
(***************************************************************************)
(* The evaluation.                                                         *)
(***************************************************************************)
\* A main checkpoint with the number of the local head is the local head, and so is any
\* checkpoint with its number and its content: a fork has another.
LEMMA HeadIsUnique ==
    ASSUME ChainOk, head \in Main, NEW k \in DOMAIN cps, Number(k) = Number(head),
           k \in Main \/ Content(k) = Content(head)
    PROVE  k = head
  <1>1. /\ DOMAIN cps = 1..Len(cps) /\ Len(cps) \in Nat
        /\ \A j \in DOMAIN cps : cps[j].seq \in Nat /\ cps[j].fork \in BOOLEAN
    BY CheckpointFields
  <1>2. head \in DOMAIN cps /\ cps[k].seq = cps[head].seq
    BY DEF Main, Number
  <1>3. k \in Main
    <2>1. ~cps[k].fork
      BY <1>1, <1>2 DEF ChainOk, Main
    <2> QED
      BY <2>1 DEF Main
  <1>4. ~(k < head) /\ ~(head < k)
    BY <1>1, <1>2, <1>3 DEF ChainOk
  <1> QED
    BY <1>1, <1>2, <1>4

\* What a presentation with "fresh_status" VERIFIED relies on had not been retired
\* before the checkpoint it was held against, which is young enough.
LEMMA FreshIsRecent ==
    ASSUME AssuranceInv, FlightOk, ~IsRefusal(flight), NEW flaw,
           "fresh_status" \in Evaluate(ch, flight, flaw).verified,
           NEW x \in gone,
           x.what \in {<<"basis">>, <<"grant", ch.grant.ver>>,
                       <<"agent", ch.cred.agent, ch.cred.rev>>}
    PROVE  x.at >= now - MaxAge
  <1>1. /\ ChainOk /\ head \in Main /\ now \in Nat /\ MaxAge \in Nat
        /\ flight.cp \in DOMAIN cps /\ head \in DOMAIN cps
    BY AssuranceAssumption DEF AssuranceInv, FlightOk, IsRefusal, Main
  <1>2. /\ Hits(CheckpointHeadError(flight.cp)) = {} /\ Hits(CheckpointStage(ch, flight, flaw)) = {}
        /\ Hits(AuthorityProofs(ch, flaw)) = {}
    BY FreshMeans
  <1>3. Number(flight.cp) \in Nat /\ Number(head) \in Nat /\ cps[head].at \in Nat
    BY <1>1, CheckpointFields DEF Number
  <1>4. /\ Number(flight.cp) = Number(head) /\ Content(flight.cp) = Content(head)
        /\ ~TooOld(flight.cp)
    BY <1>2, <1>3, CheckpointPasses
  <1>5. flight.cp = head
    BY <1>1, <1>4, HeadIsUnique
  <1>6. now - cps[head].at <= MaxAge
    BY <1>1, <1>3, <1>4, <1>5 DEF TooOld
  <1>7. /\ cps[head].st.basis = "ACTIVE"
        /\ cps[head].st.agent[ch.cred.agent] = [rev |-> ch.cred.rev, status |-> "ACTIVE"]
        /\ cps[head].st.grant = ch.grant.ver
    BY <1>2, AuthorityPasses
  <1>8. ch.cred.rev \in Nat /\ ch.grant.ver \in Nat /\ x.at \in Nat
    BY DEF AssuranceInv, AuthorityOk, FlightOk, ChallengeOk
  <1>9. ~Reflects(cps[head].st, x.what)
    <2>1. CASE x.what = <<"basis">>
      BY <1>7, <2>1 DEF Reflects
    <2>2. CASE x.what = <<"grant", ch.grant.ver>>
      BY <1>7, <1>8, <2>2 DEF Reflects
    <2>3. CASE x.what = <<"agent", ch.cred.agent, ch.cred.rev>>
      BY <1>7, <1>8, <2>3 DEF Reflects
    <2> QED
      BY <2>1, <2>2, <2>3
  <1>10. ~(x.at < cps[head].at)
    BY <1>1, <1>9 DEF ChainOk
  <1> QED
    BY <1>1, <1>3, <1>6, <1>8, <1>10

\* An honest presentation in a sound exchange fails only by running out of time or by
\* being overtaken.
LEMMA HonestFails ==
    ASSUME AssuranceInv, FlightOk, ~IsRefusal(flight), flight.honest,
           Evaluate(ch, flight, "none").verdict = "FAIL"
    PROVE  \/ now >= ch.expires
           \/ Number(head) > Number(flight.cp)
           \/ now >= DelegationEnd
           \/ now >= ch.cred.from + Life
           \/ now >= ch.grant.from + GrantLife
  <1>1. /\ ChainOk /\ head \in Main /\ now \in Nat /\ {Life, GrantLife} \subseteq Nat
        /\ flight.cp \in DOMAIN cps /\ head \in DOMAIN cps
        /\ flight.cp \in Main /\ flight.snap = flight.cp
        /\ cps[flight.cp].at <= flight.created /\ Backed(cps[flight.cp].st)
        /\ flight.created \in Nat /\ flight.created <= now /\ ch.issued <= flight.created
    BY AssuranceAssumption DEF AssuranceInv, FlightOk, IsRefusal, Main
  <1>2. /\ Number(flight.cp) \in Nat /\ Number(head) \in Nat /\ cps[flight.cp].at \in Nat
    BY <1>1, CheckpointFields DEF Number
  <1>3. /\ ch.cred.from \in Nat /\ ch.cred.from <= now
        /\ ch.grant.from \in Nat /\ ch.grant.from <= now
        /\ ch.issued \in Nat /\ ch.expires \in Nat
    BY DEF AssuranceInv, AuthorityOk, FlightOk, ChallengeOk
  <1>4. Failing(ch, flight)
    BY FailMeans
  <1>5. ~(Number(flight.cp) = Number(head) /\ Content(flight.cp) # Content(head))
    BY <1>1, HeadIsUnique
  <1>6. ASSUME Hits(CheckpointHeadError(flight.cp)) = {}, Hits(CheckpointStage(ch, flight, "none")) = {}
        PROVE  /\ cps[head].st.basis = "ACTIVE"
               /\ cps[head].st.agent[ch.cred.agent] = [rev |-> ch.cred.rev, status |-> "ACTIVE"]
               /\ cps[head].st.grant = ch.grant.ver
               /\ CarriesLink(ch.cred) => SuccessorProven(cps[head].st)
    <2>1. Content(flight.cp) = Content(head)
      BY <1>2, <1>6, CheckpointPasses
    <2>2. cps[flight.cp].st = cps[head].st
      BY <2>1 DEF Content
    <2> QED
      BY <1>1, <2>2 DEF Backed
  <1>7. \/ now >= ch.expires
        \/ now >= DelegationEnd
        \/ ~(ch.cred.from <= now /\ now < ch.cred.from + Life)
        \/ Number(flight.cp) < Number(head)
        \/ ~(ch.grant.from <= now /\ now < ch.grant.from + GrantLife)
        \/ flight.created >= ch.expires
    BY <1>1, <1>2, <1>3, <1>4, <1>5, <1>6 DEF Failing
  <1> QED
    BY <1>1, <1>2, <1>3, <1>7

\* An evaluation.
LEMMA DeliverStep ==
    ASSUME AssuranceInv, Deliver
    PROVE  AssuranceInv'
  <1>1. /\ UNCHANGED <<now, st, creds, grants, gone, cps, ch, flight, head>>
        /\ flight # Nothing /\ FlightOk
    BY DEF Deliver, AssuranceInv, authority, local, exchange
  <1> DEFINE r(flaw) == IF IsRefusal(flight) THEN EvaluateRefusal(ch, flight, flaw)
                        ELSE Evaluate(ch, flight, flaw)
  <1>2. PICK flaw \in IF IsRefusal(flight) \/ flight.honest THEN Flaws ELSE {"none"} :
           /\ result' = [sound |-> flaw = "none", verdict |-> r(flaw).verdict,
                         refused |-> r(flaw).reason = "SIGNED_REFUSAL",
                         through |-> r(flaw).reason = "DURABLE_REPLAY_REQUIRED",
                         fresh |-> "fresh_status" \in r(flaw).verified]
           /\ succeeded' = (succeeded \/ (result'.through /\ CarriesLink(ch.cred)))
    BY DEF Deliver
  <1>3. /\ result'.sound => flaw = "none"
        /\ result'.verdict = r(flaw).verdict
        /\ result'.refused => r(flaw).reason = "SIGNED_REFUSAL"
        /\ result'.through => r(flaw).reason = "DURABLE_REPLAY_REQUIRED"
        /\ result'.fresh => "fresh_status" \in r(flaw).verified
    BY <1>2
  <1>4. Main' = Main /\ now \in Nat /\ head \in Main /\ ChainOk
    BY <1>1 DEF Main, AssuranceInv
  <1>5. AuthorityOk' /\ ChainOk' /\ (ch' # Nothing => ChallengeOk')
    BY <1>1, <1>4 DEF AssuranceInv, AuthorityOk, ChainOk, Content, ChallengeOk
  <1>6. FlightOk'
    BY <1>1, <1>4 DEF FlightOk, ChallengeOk, IsRefusal, Backed, CarriesLink, SuccessorProven
  <1> DEFINE s == cps[head].st
  <1>7. ASSUME result'.through
        PROVE  /\ s.agent[ch.cred.agent].status = "ACTIVE"
               /\ CarriesLink(ch.cred) => Superseded(s)
    <2>1. ~IsRefusal(flight)
      BY <1>3, <1>7, RefusedMeans
    <2>2. Evaluate(ch, flight, flaw).reason = "DURABLE_REPLAY_REQUIRED"
      BY <1>3, <1>7, <2>1
    <2>3. Hits(AuthorityProofs(ch, flaw)) = {}
      BY <2>2, DurableMeans
    <2>4. /\ s.agent[ch.cred.agent] = [rev |-> ch.cred.rev, status |-> "ACTIVE"]
          /\ CarriesLink(ch.cred) => SuccessorProven(s)
      BY <2>3, AuthorityPasses
    <2> HIDE DEF s
    <2> QED
      BY <2>4 DEF SuccessorProven, Superseded
  <1> HIDE DEF s
  <1>8. succeeded' => Superseded(s)
    BY <1>2, <1>7 DEF AssuranceInv, SuccessionOk, s
  <1>9. SuccessionOk'
    BY <1>1, <1>4, <1>8 DEF AssuranceInv, SuccessionOk, s
  <1>10. SuccessionIsFinal'
    BY <1>1, <1>7, <1>8 DEF SuccessionIsFinal, Superseded
  <1>11. RevocationBites'
    <2> SUFFICES ASSUME result'.fresh, NEW x \in gone,
                        x.what \in {<<"basis">>, <<"grant", ch.grant.ver>>,
                                    <<"agent", ch.cred.agent, ch.cred.rev>>}
                 PROVE  x.at >= now - MaxAge
      BY <1>1 DEF RevocationBites
    <2>1. ~IsRefusal(flight)
      BY <1>3, RefusedMeans
    <2>2. "fresh_status" \in Evaluate(ch, flight, flaw).verified
      BY <1>3, <2>1
    <2> QED
      BY <1>1, <2>1, <2>2, FreshIsRecent
  <1>12. BlameIsDeserved'
    <2> SUFFICES ASSUME result'.sound, result'.verdict = "FAIL"
                 PROVE  IF IsRefusal(flight)
                        THEN result'.refused => flight.by = ch.cred.agent
                        ELSE flight.honest =>
                               \/ now >= ch.expires
                               \/ Number(head) > Number(flight.cp)
                               \/ now >= DelegationEnd
                               \/ now >= ch.cred.from + Life
                               \/ now >= ch.grant.from + GrantLife
      BY <1>1 DEF BlameIsDeserved, IsRefusal, Number
    <2>1. CASE IsRefusal(flight)
      BY <1>3, <2>1, RefusedMeans
    <2>2. CASE ~IsRefusal(flight)
      <3>1. Evaluate(ch, flight, "none").verdict = "FAIL"
        BY <1>3, <2>2
      <3> QED
        BY <1>1, <2>2, <3>1, HonestFails
    <2> QED
      BY <2>1, <2>2
  <1> QED
    BY <1>1, <1>4, <1>5, <1>6, <1>9, <1>10, <1>11, <1>12 DEF AssuranceInv

\* Every step keeps the invariant.
LEMMA AssuranceInvStep == AssuranceInv /\ [Next]_vars => AssuranceInv'
  <1> SUFFICES ASSUME AssuranceInv, [Next]_vars
               PROVE  AssuranceInv'
    OBVIOUS
  <1>1. CASE UNCHANGED vars
    <2>1. /\ UNCHANGED <<now, st, creds, grants, gone, cps, head, ch, flight, result,
                       succeeded>>
      BY <1>1 DEF vars, authority, local, exchange
    <2>2. Main' = Main
      BY <2>1 DEF Main
    <2>3. /\ AuthorityOk' /\ ChainOk' /\ (ch' # Nothing => ChallengeOk') /\ SuccessionOk'
      BY <2>1, <2>2 DEF AssuranceInv, AuthorityOk, ChainOk, Content, ChallengeOk, SuccessionOk
    <2>4. flight' # Nothing => FlightOk'
      BY <2>1, <2>2 DEF AssuranceInv, FlightOk, ChallengeOk, IsRefusal, Backed, CarriesLink, SuccessorProven
    <2>5. RevocationBites' /\ BlameIsDeserved' /\ SuccessionIsFinal'
      BY <2>1 DEF AssuranceInv, RevocationBites, BlameIsDeserved, SuccessionIsFinal,
                  IsRefusal, Number
    <2> QED
      BY <2>1, <2>2, <2>3, <2>4, <2>5 DEF AssuranceInv
  <1> QED
    BY <1>1, AuthorityStep, PublishStep, QuietStep, SendStep, DeliverStep DEF Next

\* In every state of every behaviour the signed chain reflects what was retired, and what
\* an evaluation said is what the local head bears out.
THEOREM AssuranceInvariance == Spec => []AssuranceInv
  BY AssuranceInvInit, AssuranceInvStep, PTL DEF Spec

\* checkpoint, authority_proofs: "fresh_status" VERIFIED bounds how long a retirement
\* stays unseen by max_checkpoint_age.
THEOREM RevocationIsSeen == Spec => []RevocationBites
  <1>1. AssuranceInv => RevocationBites
    BY DEF AssuranceInv
  <1> QED
    BY <1>1, AssuranceInvariance, PTL

\* FAIL is never this verifier's own lag, and a refusal is the challenged agent's.
THEOREM BlameIsAlwaysDeserved == Spec => []BlameIsDeserved
  <1>1. AssuranceInv => BlameIsDeserved
    BY DEF AssuranceInv
  <1> QED
    BY <1>1, AssuranceInvariance, PTL

\* successor_matches, authority_proofs: once the successor was let through on its link,
\* the predecessor is let through under no head any more.
THEOREM SuccessionStaysFinal == Spec => []SuccessionIsFinal
  <1>1. AssuranceInv => SuccessionIsFinal
    BY DEF AssuranceInv
  <1> QED
    BY <1>1, AssuranceInvariance, PTL
===============================================================================
