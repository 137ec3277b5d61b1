--------------------------- MODULE CaseworkProofs ---------------------------
(***************************************************************************)
(* Theorems about Casework, for any rules, qualifications, procedures,     *)
(* reviews and requirements, any number of versions, and whatever the rule *)
(* engine computes.                                                        *)
(***************************************************************************)
EXTENDS Casework, FiniteSetTheorems, TLAPS

-----------------------------------------------------------------------------
(* Frames: what each kind of request leaves alone.                         *)

LEMMA RuleFrame ==
  ASSUME RuleRequest
  PROVE  UNCHANGED <<qualifications, procedures, revisions, requirements, changeReviews,
                     idempotency, now, due, scanTime>>
BY DEF RuleRequest, CreateRuleSet, UpdateRuleSet, PublishRuleSet

LEMMA QualificationFrame ==
  ASSUME QualificationRequest
  PROVE  UNCHANGED <<rules, procedures, revisions, requirements, changeReviews, now, due,
                         scanTime>>
<1>1. ASSUME NEW id, NEW r, NEW w, CreateQualification(id, r, w)
      PROVE  UNCHANGED <<rules, procedures, revisions, requirements, changeReviews, now, due,
                         scanTime>>
  BY <1>1 DEF CreateQualification
<1>2. ASSUME NEW id, NEW k, NEW e, AddEvidence(id, k, e)
      PROVE  UNCHANGED <<rules, procedures, revisions, requirements, changeReviews, now, due,
                         scanTime>>
  BY <1>2 DEF AddEvidence
<1>3. ASSUME NEW id, NEW v, EvaluateQualification(id, v)
      PROVE  UNCHANGED <<rules, procedures, revisions, requirements, changeReviews, now, due,
                         scanTime>>
  BY <1>3 DEF EvaluateQualification
<1>4. ASSUME NEW id, NEW v, WithdrawQualification(id, v)
      PROVE  UNCHANGED <<rules, procedures, revisions, requirements, changeReviews, now, due,
                         scanTime>>
  BY <1>4 DEF WithdrawQualification
<1>5. QED
  BY <1>1, <1>2, <1>3, <1>4, Zenon DEF QualificationRequest

LEMMA ProcedureFrame ==
  ASSUME ProcedureRequest
  PROVE  UNCHANGED <<rules, qualifications, requirements, assessments, changeReviews, tasks,
                     idempotency, now, due, scanTime>>
<1>1. ASSUME NEW id, NEW rev, NEW r, NEW Q, NEW w, CreateProcedure(id, rev, r, Q, w)
      PROVE  UNCHANGED <<rules, qualifications, requirements, assessments, changeReviews,
                         tasks, idempotency, now, due, scanTime>>
  BY <1>1 DEF CreateProcedure
<1>2. ASSUME NEW id, NEW v, NEW rev, NEW r, NEW Q, NEW w, CreateRevision(id, v, rev, r, Q, w)
      PROVE  UNCHANGED <<rules, qualifications, requirements, assessments, changeReviews,
                         tasks, idempotency, now, due, scanTime>>
  BY <1>2 DEF CreateRevision
<1>3. ASSUME NEW id, NEW v, DeriveCoverage(id, v)
      PROVE  UNCHANGED <<rules, qualifications, requirements, assessments, changeReviews,
                         tasks, idempotency, now, due, scanTime>>
  BY <1>3 DEF DeriveCoverage
<1>4. ASSUME NEW id, NEW v, PublishRevision(id, v)
      PROVE  UNCHANGED <<rules, qualifications, requirements, assessments, changeReviews,
                         tasks, idempotency, now, due, scanTime>>
  BY <1>4 DEF PublishRevision
<1>5. QED
  BY <1>1, <1>2, <1>3, <1>4, Zenon DEF ProcedureRequest

LEMMA AssessmentFrame ==
  ASSUME AssessmentRequest
  PROVE  UNCHANGED <<rules, qualifications, procedures, revisions, changeReviews, tasks, now,
                     due, scanTime>>
BY DEF AssessmentRequest, CreateRequirement, ImportRequirements, AssessRequirement

LEMMA ReviewFrame ==
  ASSUME ReviewRequest
  PROVE  UNCHANGED <<rules, qualifications, procedures, revisions, requirements, assessments,
                     tasks, idempotency, now, due, scanTime>>
BY DEF ReviewRequest, CreateChangeReview, DecideChangeReview

Looks == LookForTasks \/ LookForExpired

LEMMA LookFrame ==
  ASSUME Looks
  PROVE  UNCHANGED <<rules, qualifications, procedures, revisions, requirements, assessments,
                     changeReviews, tasks, idempotency, now, based>>
BY DEF Looks, LookForTasks, LookForExpired

LEMMA LoopFrame ==
  ASSUME Looks \/ RunDueTasks \/ ScanExpiredEvidence \/ Tick
  PROVE  UNCHANGED <<rules, qualifications, procedures, revisions, requirements,
                     changeReviews, idempotency, based>>
BY LookFrame DEF RunDueTasks, ScanExpiredEvidence, Tick

\* A step is a request, a step of a loop or of the clock, or none.
LEMMA Steps ==
  ASSUME [Next]_caseVars
  PROVE  \/ RuleRequest \/ QualificationRequest \/ ProcedureRequest
         \/ AssessmentRequest \/ ReviewRequest
         \/ Looks \/ RunDueTasks \/ ScanExpiredEvidence \/ Tick
         \/ UNCHANGED caseVars
BY DEF Next, Looks

-----------------------------------------------------------------------------
(* Rule sets.                                                              *)

RulesFit == DOMAIN rules \subseteq RuleId /\ \A r \in DOMAIN rules : rules[r] \in RuleSet

\* A rule set stays, and what it says is frozen once it is published.
RulesLast ==
    \A r \in DOMAIN rules :
        /\ r \in DOMAIN rules'
        /\ rules[r].status # "DRAFT" =>
              rules'[r].status # "DRAFT" /\ rules'[r].content = rules[r].content

\* A rule set moves on to another status and its next version.
LEMMA RuleMovesOn ==
  ASSUME NEW x \in RuleSet, NEW s \in {"DRAFT", "PUBLISHED", "SUPERSEDED"}, NEW y,
         y = [x EXCEPT !.status = s, !.version = @ + 1]
  PROVE  y \in RuleSet /\ y.status = s /\ y.content = x.content
<1>1. x.version + 1 \in Nat
  BY DEF RuleSet
<1>2. QED
  BY <1>1 DEF RuleSet

\* Requests for rules keep them in shape, keep one in force and keep what is
\* frozen.
LEMMA RuleRequestKeeps ==
  ASSUME RulesFit, OneRuleInForce, RuleRequest
  PROVE  RulesFit' /\ OneRuleInForce' /\ RulesLast
<1>1. PICK id \in RuleId :
        \/ \E c \in Content : CreateRuleSet(id, c)
        \/ \E v \in Versions, c \in Content : UpdateRuleSet(id, v, c)
        \/ \E v \in Versions : PublishRuleSet(id, v)
  BY DEF RuleRequest
<1>2. ASSUME NEW c \in Content, CreateRuleSet(id, c)
      PROVE  RulesFit' /\ OneRuleInForce' /\ RulesLast
  <2>. DEFINE new == [status |-> "DRAFT", version |-> 1, content |-> c]
  <2>1. new \in RuleSet /\ new.status = "DRAFT"
    BY DEF RuleSet
  <2>. HIDE DEF new
  <2>2. id \notin DOMAIN rules /\ rules' = Put(rules, id, new)
    BY <1>2 DEF CreateRuleSet, new
  <2>3. /\ DOMAIN rules' = DOMAIN rules \cup {id}
        /\ rules'[id] = new
        /\ \A r \in DOMAIN rules : rules'[r] = rules[r]
    BY <2>2 DEF Put
  <2>4. QED
    BY <2>1, <2>3 DEF RulesFit, OneRuleInForce, RulesLast
<1>3. ASSUME NEW v \in Versions, NEW c \in Content, UpdateRuleSet(id, v, c)
      PROVE  RulesFit' /\ OneRuleInForce' /\ RulesLast
  BY <1>3 DEF UpdateRuleSet, Editable, RulesFit, OneRuleInForce, RulesLast, RuleSet
<1>4. ASSUME NEW v \in Versions, PublishRuleSet(id, v)
      PROVE  RulesFit' /\ OneRuleInForce' /\ RulesLast
  <2>1. rules[id].status = "DRAFT" /\ id \in DOMAIN rules /\ rules' = Supersede(id)
    BY <1>4 DEF PublishRuleSet
  <2>2. DOMAIN rules' = DOMAIN rules
    BY <2>1 DEF Supersede
  <2>3. ASSUME NEW r \in DOMAIN rules
        PROVE  /\ rules'[r] \in RuleSet
               /\ rules'[r].content = rules[r].content
               /\ rules'[r].status = IF r = id THEN "PUBLISHED"
                                     ELSE IF rules[r].status = "PUBLISHED" THEN "SUPERSEDED"
                                     ELSE rules[r].status
    <3>1. rules[r] \in RuleSet
      BY DEF RulesFit
    <3>2. CASE r = id
      <4>1. rules'[r] = [rules[r] EXCEPT !.status = "PUBLISHED", !.version = @ + 1]
        BY <2>1, <3>2 DEF Supersede
      <4>2. /\ rules'[r] \in RuleSet /\ rules'[r].status = "PUBLISHED"
            /\ rules'[r].content = rules[r].content
        BY <3>1, <4>1, RuleMovesOn
      <4>3. QED
        BY <3>2, <4>2
    <3>3. CASE r # id /\ rules[r].status = "PUBLISHED"
      <4>1. rules'[r] = [rules[r] EXCEPT !.status = "SUPERSEDED", !.version = @ + 1]
        BY <2>1, <3>3 DEF Supersede, Superseded
      <4>2. /\ rules'[r] \in RuleSet /\ rules'[r].status = "SUPERSEDED"
            /\ rules'[r].content = rules[r].content
        BY <3>1, <4>1, RuleMovesOn
      <4>3. QED
        BY <3>3, <4>2
    <3>4. CASE r # id /\ rules[r].status # "PUBLISHED"
      <4>1. rules'[r] = rules[r]
        BY <2>1, <3>4 DEF Supersede, Superseded
      <4>2. QED
        BY <3>1, <3>4, <4>1
    <3>5. QED
      BY <3>2, <3>3, <3>4
  <2>4. QED
    BY <2>1, <2>2, <2>3 DEF RulesFit, OneRuleInForce, RulesLast
<1>5. QED
  BY <1>1, <1>2, <1>3, <1>4

LEMMA RulesKeep ==
  ASSUME RulesFit, OneRuleInForce, [Next]_caseVars
  PROVE  RulesFit' /\ OneRuleInForce' /\ RulesLast
<1>1. CASE RuleRequest
  BY <1>1, RuleRequestKeeps
<1>2. CASE UNCHANGED rules
  BY <1>2 DEF RulesFit, OneRuleInForce, RulesLast
<1>3. QED
  BY <1>1, <1>2, QualificationFrame, ProcedureFrame, AssessmentFrame, ReviewFrame, LoopFrame, Steps
     DEF caseVars

-----------------------------------------------------------------------------
(* Qualifications.                                                         *)

QualificationsFit ==
    /\ DOMAIN qualifications \subseteq QualId
    /\ \A q \in DOMAIN qualifications : qualifications[q] \in Qualification

\* A qualification stays, keeps its rule and its variables, and takes no more
\* evidence once it has passed.
QualificationsLast ==
    \A q \in DOMAIN qualifications :
        /\ q \in DOMAIN qualifications'
        /\ qualifications'[q].rule = qualifications[q].rule
        /\ qualifications'[q].variables = qualifications[q].variables
        /\ Passed(q) => Passed(q)' /\ qualifications'[q].evidence = qualifications[q].evidence

\* A qualification moves on to another status and its next version.
LEMMA QualificationMovesOn ==
  ASSUME NEW x \in Qualification,
         NEW s \in {"UNDER_TEST", "QUALIFIED", "FAILED", "WITHDRAWN"}
  PROVE  LET y == [x EXCEPT !.status = s, !.version = @ + 1]
         IN  /\ y \in Qualification
             /\ y.status = s /\ y.rule = x.rule /\ y.variables = x.variables
             /\ y.evidence = x.evidence
<1>1. x.version + 1 \in Nat
  BY DEF Qualification
<1>2. QED
  BY <1>1 DEF Qualification

\* So it does when it is given evidence.
LEMMA QualificationTakesEvidence ==
  ASSUME NEW x \in Qualification, NEW e \in Evidence
  PROVE  LET y == [x EXCEPT !.evidence = Append(@, e), !.version = @ + 1]
         IN  /\ y \in Qualification
             /\ y.status = x.status /\ y.rule = x.rule /\ y.variables = x.variables
             /\ y.evidence = Append(x.evidence, e)
<1>1. x.version + 1 \in Nat /\ Append(x.evidence, e) \in Seq(Evidence)
  BY DEF Qualification
<1>2. QED
  BY <1>1 DEF Qualification

LEMMA CreateQualificationKeeps ==
  ASSUME QualificationsFit, RulesFit, NEW id \in QualId, NEW r \in RuleId, NEW w \in Variables,
         CreateQualification(id, r, w)
  PROVE  QualificationsFit' /\ QualificationsLast
<1>. DEFINE new == [rule |-> r, status |-> "UNDER_TEST", version |-> 1,
                    variables |-> w, evidence |-> << >>]
<1>1. new \in Qualification
  BY DEF Qualification
<1>. HIDE DEF new
<1>2. id \notin DOMAIN qualifications /\ qualifications' = Put(qualifications, id, new)
  BY DEF CreateQualification, new
<1>3. /\ DOMAIN qualifications' = DOMAIN qualifications \cup {id}
      /\ qualifications'[id] = new
      /\ \A q \in DOMAIN qualifications : qualifications'[q] = qualifications[q]
  BY <1>2 DEF Put
<1>4. QED
  BY <1>1, <1>3 DEF QualificationsFit, QualificationsLast, Passed

LEMMA AddEvidenceKeeps ==
  ASSUME QualificationsFit, NEW id \in QualId, NEW k \in Key \cup {NoKey},
         NEW v, NEW good \in BOOLEAN, NEW x \in Time,
         AddEvidence(id, k, EvidenceRequest(v, good, x))
  PROVE  QualificationsFit' /\ QualificationsLast
<1>. DEFINE e == [good |-> good, expires |-> x, key |-> k]
            y == [qualifications[id] EXCEPT !.evidence = Append(@, e), !.version = @ + 1]
<1>1. e \in Evidence
  BY DEF Evidence
<1>2. /\ id \in DOMAIN qualifications /\ qualifications[id].status = "UNDER_TEST"
      /\ qualifications' = [qualifications EXCEPT ![id] = y]
  BY DEF AddEvidence, EvidenceRequest
<1>3. qualifications[id] \in Qualification
  BY <1>2 DEF QualificationsFit
<1>. HIDE DEF e
<1>4. /\ y \in Qualification
      /\ y.rule = qualifications[id].rule /\ y.variables = qualifications[id].variables
  BY <1>1, <1>3, QualificationTakesEvidence
<1>. HIDE DEF y
<1>5. QED
  BY <1>2, <1>4 DEF QualificationsFit, QualificationsLast, Passed

LEMMA EvaluateQualificationKeeps ==
  ASSUME QualificationsFit, NEW id, NEW v, EvaluateQualification(id, v)
  PROVE  /\ QualificationsFit' /\ QualificationsLast
         /\ DOMAIN qualifications' = DOMAIN qualifications
         /\ \A q \in DOMAIN qualifications :
               qualifications'[q].evidence = qualifications[q].evidence
<1>. DEFINE s == IF EvaluatePasses(qualifications[id]) THEN "QUALIFIED" ELSE "FAILED"
            y == [qualifications[id] EXCEPT !.status = s, !.version = @ + 1]
<1>1. /\ id \in DOMAIN qualifications /\ qualifications[id].status = "UNDER_TEST"
      /\ qualifications' = [qualifications EXCEPT ![id] = y]
  BY DEF EvaluateQualification
<1>2. s \in {"UNDER_TEST", "QUALIFIED", "FAILED", "WITHDRAWN"}
  OBVIOUS
<1>3. qualifications[id] \in Qualification
  BY <1>1 DEF QualificationsFit
<1>. HIDE DEF s
<1>4. /\ y \in Qualification
      /\ y.rule = qualifications[id].rule /\ y.variables = qualifications[id].variables
      /\ y.evidence = qualifications[id].evidence
  BY <1>2, <1>3, QualificationMovesOn
<1>. HIDE DEF y
<1>5. QED
  BY <1>1, <1>4 DEF QualificationsFit, QualificationsLast, Passed

LEMMA WithdrawQualificationKeeps ==
  ASSUME QualificationsFit, NEW id, NEW v, WithdrawQualification(id, v)
  PROVE  /\ QualificationsFit' /\ QualificationsLast
         /\ DOMAIN qualifications' = DOMAIN qualifications
         /\ \A q \in DOMAIN qualifications :
               qualifications'[q].evidence = qualifications[q].evidence
<1>. DEFINE y == [qualifications[id] EXCEPT !.status = "WITHDRAWN", !.version = @ + 1]
<1>1. id \in DOMAIN qualifications /\ qualifications' = [qualifications EXCEPT ![id] = y]
  BY DEF WithdrawQualification
<1>2. qualifications[id] \in Qualification
  BY <1>1 DEF QualificationsFit
<1>3. /\ y \in Qualification /\ y.status = "WITHDRAWN"
      /\ y.rule = qualifications[id].rule /\ y.variables = qualifications[id].variables
      /\ y.evidence = qualifications[id].evidence
  BY <1>2, QualificationMovesOn
<1>. HIDE DEF y
<1>4. QED
  BY <1>1, <1>3 DEF QualificationsFit, QualificationsLast, Passed

LEMMA QualificationsKeep ==
  ASSUME RulesFit, QualificationsFit, [Next]_caseVars
  PROVE  QualificationsFit' /\ QualificationsLast
<1>1. CASE QualificationRequest
  BY <1>1, CreateQualificationKeeps, AddEvidenceKeeps, EvaluateQualificationKeeps,
     WithdrawQualificationKeeps DEF QualificationRequest
<1>2. CASE UNCHANGED qualifications
  BY <1>2 DEF QualificationsFit, QualificationsLast, Passed
<1>3. QED
  BY <1>1, <1>2, RuleFrame, ProcedureFrame, AssessmentFrame, ReviewFrame, LoopFrame, Steps
     DEF caseVars

-----------------------------------------------------------------------------
(* Procedures and revisions.                                               *)

ProceduresFit ==
    /\ DOMAIN procedures \subseteq ProcId
    /\ \A p \in DOMAIN procedures : procedures[p] \in Procedure
    /\ DOMAIN revisions \subseteq RevId
    /\ \A r \in DOMAIN revisions : RevisionOK(revisions[r])

PublishedOnce(r) == revisions[r].status \in {"PUBLISHED", "RETIRED"}

\* A revision stays, with the procedure, rule, sources and variables it was
\* created with, and keeps its range once that is derived.
RevisionsLast ==
    \A r \in DOMAIN revisions :
        /\ r \in DOMAIN revisions'
        /\ revisions'[r].procedure = revisions[r].procedure
        /\ revisions'[r].rule = revisions[r].rule
        /\ revisions'[r].sources = revisions[r].sources
        /\ revisions'[r].variables = revisions[r].variables
        /\ revisions[r].status # "DRAFT" =>
              /\ revisions'[r].status # "DRAFT"
              /\ revisions'[r].coverage = revisions[r].coverage
              /\ revisions'[r].gaps = revisions[r].gaps
        /\ PublishedOnce(r) => PublishedOnce(r)'

\* What a step may make of revisions: a new one is a draft of a rule in force with
\* sources qualified under it, a draft gets its range before it is anything else,
\* and what is published was reviewed and has no gaps.
DerivedNow(r) ==
    /\ revisions'[r].coverage = Coverage(ContentOf(revisions[r].rule), SourceVariables(r))
    /\ revisions'[r].gaps =
          HasGaps(ContentOf(revisions[r].rule), SourceVariables(r), revisions[r].variables)
NewDraft(r) ==
    /\ revisions'[r].status = "DRAFT"
    /\ revisions'[r].rule \in DOMAIN rules
    /\ rules[revisions'[r].rule].status = "PUBLISHED"
    /\ \A q \in revisions'[r].sources :
          Qualified(q) /\ qualifications[q].rule = revisions'[r].rule
RevisionsAdvance ==
    /\ \A r \in DOMAIN revisions' \ DOMAIN revisions : NewDraft(r)
    /\ \A r \in DOMAIN revisions :
          /\ revisions[r].status = "DRAFT" /\ revisions'[r].status # "DRAFT" =>
                DerivedNow(r) /\ ~PublishedOnce(r)'
          /\ PublishedOnce(r)' /\ ~PublishedOnce(r) =>
                revisions[r].status = "IN_REVIEW" /\ ~revisions[r].gaps

ProceduresGood == ProceduresFit /\ ProceduresHold /\ PublishedIsPointedAt

\* A revision moves on to another status and its next version.
LEMMA RevisionMovesOn ==
  ASSUME NEW x, RevisionOK(x), NEW s \in {"DRAFT", "IN_REVIEW", "PUBLISHED", "RETIRED"}
  PROVE  LET y == [x EXCEPT !.status = s, !.version = @ + 1]
         IN  /\ RevisionOK(y)
             /\ y.status = s /\ y.procedure = x.procedure /\ y.rule = x.rule
             /\ y.sources = x.sources /\ y.variables = x.variables
             /\ y.coverage = x.coverage /\ y.gaps = x.gaps
<1>1. x.version + 1 \in Nat
  BY DEF RevisionOK
<1>2. QED
  BY <1>1 DEF RevisionOK

\* A new revision of a procedure is a draft.
LEMMA DraftIsFit ==
  ASSUME NEW id \in ProcId, NEW r \in RuleId, NEW Q \in SUBSET QualId, NEW w \in Variables
  PROVE  LET y == DraftRevision(id, r, Q, w)
         IN  /\ RevisionOK(y)
             /\ y.status = "DRAFT" /\ y.procedure = id /\ y.rule = r /\ y.sources = Q
             /\ y.variables = w
BY DEF DraftRevision, RevisionOK

LEMMA CreateProcedureKeeps ==
  ASSUME ProceduresGood, NEW id \in ProcId, NEW rev \in RevId, NEW r \in RuleId,
         NEW Q \in SUBSET QualId, NEW w \in Variables, CreateProcedure(id, rev, r, Q, w)
  PROVE  ProceduresGood' /\ RevisionsLast /\ RevisionsAdvance
<1>. DEFINE new == DraftRevision(id, r, Q, w)
            first == [revisions |-> {rev}, published |-> Nothing, version |-> 1]
<1>1. /\ RevisionOK(new) /\ new.status = "DRAFT" /\ new.procedure = id
      /\ new.rule = r /\ new.sources = Q
  BY DraftIsFit
<1>2. first \in Procedure /\ first.published = Nothing
  BY DEF Procedure
<1>. HIDE DEF new, first
<1>3. /\ id \notin DOMAIN procedures /\ rev \notin DOMAIN revisions
      /\ procedures' = Put(procedures, id, first)
      /\ revisions' = Put(revisions, rev, new)
      /\ r \in DOMAIN rules /\ rules[r].status = "PUBLISHED"
      /\ \A q \in Q : Qualified(q) /\ qualifications[q].rule = r
  BY DEF CreateProcedure, new, first
<1>4. /\ DOMAIN procedures' = DOMAIN procedures \cup {id}
      /\ procedures'[id] = first
      /\ \A p \in DOMAIN procedures : procedures'[p] = procedures[p]
  BY <1>3 DEF Put
<1>5. /\ DOMAIN revisions' = DOMAIN revisions \cup {rev}
      /\ revisions'[rev] = new
      /\ \A x \in DOMAIN revisions : revisions'[x] = revisions[x]
  BY <1>3 DEF Put
<1>6. ProceduresFit'
  BY <1>1, <1>2, <1>4, <1>5 DEF ProceduresFit, ProceduresGood, RevisionOK
<1>7. ProceduresHold'
  BY <1>1, <1>2, <1>3, <1>4, <1>5 DEF ProceduresHold, ProceduresGood
<1>8. PublishedIsPointedAt'
  BY <1>1, <1>2, <1>3, <1>4, <1>5, NothingAssumption
     DEF ProceduresHold, ProceduresGood, PublishedIsPointedAt
<1>9. RevisionsLast
  BY <1>5 DEF RevisionsLast, PublishedOnce
<1>10. RevisionsAdvance
  BY <1>1, <1>3, <1>5 DEF RevisionsAdvance, NewDraft, PublishedOnce
<1>11. QED
  BY <1>6, <1>7, <1>8, <1>9, <1>10 DEF ProceduresGood

LEMMA CreateRevisionKeeps ==
  ASSUME ProceduresGood, NEW id \in ProcId, NEW v, NEW rev \in RevId, NEW r \in RuleId,
         NEW Q \in SUBSET QualId, NEW w \in Variables, CreateRevision(id, v, rev, r, Q, w)
  PROVE  ProceduresGood' /\ RevisionsLast /\ RevisionsAdvance
<1>. DEFINE new == DraftRevision(id, r, Q, w)
            y == [procedures[id] EXCEPT !.revisions = @ \cup {rev}, !.version = @ + 1]
<1>1. /\ RevisionOK(new) /\ new.status = "DRAFT" /\ new.procedure = id
      /\ new.rule = r /\ new.sources = Q
  BY DraftIsFit
<1>2. /\ id \in DOMAIN procedures /\ rev \notin DOMAIN revisions
      /\ procedures' = [procedures EXCEPT ![id] = y]
      /\ revisions' = Put(revisions, rev, new)
      /\ r \in DOMAIN rules /\ rules[r].status = "PUBLISHED"
      /\ \A q \in Q : Qualified(q) /\ qualifications[q].rule = r
  BY DEF CreateRevision, AddRevision
<1>3. procedures[id] \in Procedure
  BY <1>2 DEF ProceduresGood, ProceduresFit
<1>4. y \in Procedure /\ y.published = procedures[id].published
  <2>1. procedures[id].version + 1 \in Nat /\ procedures[id].revisions \cup {rev} \in SUBSET RevId
    BY <1>3 DEF Procedure
  <2>2. QED
    BY <1>3, <2>1 DEF Procedure
<1>. HIDE DEF new, y
<1>5. /\ DOMAIN procedures' = DOMAIN procedures
      /\ \A p \in DOMAIN procedures :
            procedures'[p] \in Procedure /\ procedures'[p].published = procedures[p].published
  BY <1>2, <1>4 DEF ProceduresGood, ProceduresFit
<1>6. /\ DOMAIN revisions' = DOMAIN revisions \cup {rev}
      /\ revisions'[rev] = new
      /\ \A x \in DOMAIN revisions : revisions'[x] = revisions[x]
  BY <1>2 DEF Put
<1>7. ProceduresFit'
  BY <1>1, <1>5, <1>6 DEF ProceduresFit, ProceduresGood, RevisionOK
<1>8. ProceduresHold'
  BY <1>1, <1>2, <1>5, <1>6 DEF ProceduresHold, ProceduresGood
<1>9. PublishedIsPointedAt'
  BY <1>1, <1>2, <1>5, <1>6, NothingAssumption
     DEF ProceduresHold, ProceduresGood, PublishedIsPointedAt
<1>10. RevisionsLast
  BY <1>6 DEF RevisionsLast, PublishedOnce
<1>11. RevisionsAdvance
  BY <1>1, <1>2, <1>6 DEF RevisionsAdvance, NewDraft, PublishedOnce
<1>12. QED
  BY <1>7, <1>8, <1>9, <1>10, <1>11 DEF ProceduresGood

LEMMA DeriveCoverageKeeps ==
  ASSUME ProceduresGood, NEW id, NEW v, DeriveCoverage(id, v),
         HasGaps(ContentOf(revisions[id].rule), SourceVariables(id), revisions[id].variables)
            \in BOOLEAN
  PROVE  ProceduresGood' /\ RevisionsLast /\ RevisionsAdvance
<1>. DEFINE c == Coverage(ContentOf(revisions[id].rule), SourceVariables(id))
            g == HasGaps(ContentOf(revisions[id].rule), SourceVariables(id),
                         revisions[id].variables)
            y == [revisions[id] EXCEPT !.coverage = c, !.gaps = g, !.status = "IN_REVIEW",
                                       !.version = @ + 1]
<1>1. /\ id \in DOMAIN revisions /\ revisions[id].status = "DRAFT"
      /\ revisions' = [revisions EXCEPT ![id] = y]
      /\ UNCHANGED procedures
  BY DEF DeriveCoverage
<1>2. RevisionOK(revisions[id]) /\ g \in BOOLEAN
  BY <1>1 DEF ProceduresGood, ProceduresFit
<1>. HIDE DEF c, g
<1>3. /\ RevisionOK(y)
      /\ y.status = "IN_REVIEW" /\ y.procedure = revisions[id].procedure
      /\ y.rule = revisions[id].rule /\ y.sources = revisions[id].sources
      /\ y.variables = revisions[id].variables /\ y.coverage = c /\ y.gaps = g
  <2>1. revisions[id].version + 1 \in Nat
    BY <1>2 DEF RevisionOK
  <2>2. QED
    BY <1>2, <2>1 DEF RevisionOK
<1>. HIDE DEF y
<1>4. /\ DOMAIN revisions' = DOMAIN revisions
      /\ revisions'[id] = y
      /\ \A r \in DOMAIN revisions \ {id} : revisions'[r] = revisions[r]
  BY <1>1
<1>5. ProceduresFit'
  BY <1>1, <1>3, <1>4 DEF ProceduresFit, ProceduresGood
<1>6. ProceduresHold'
  BY <1>1, <1>3, <1>4 DEF ProceduresHold, ProceduresGood
<1>7. PublishedIsPointedAt'
  BY <1>1, <1>3, <1>4 DEF PublishedIsPointedAt, ProceduresGood
<1>8. RevisionsLast
  BY <1>1, <1>3, <1>4 DEF RevisionsLast, PublishedOnce
<1>9. RevisionsAdvance
  BY <1>1, <1>3, <1>4 DEF RevisionsAdvance, DerivedNow, PublishedOnce, c, g
<1>10. QED
  BY <1>5, <1>6, <1>7, <1>8, <1>9 DEF ProceduresGood

LEMMA PublishRevisionKeeps ==
  ASSUME ProceduresGood, NEW id, NEW v, PublishRevision(id, v)
  PROVE  /\ ProceduresGood' /\ RevisionsLast /\ RevisionsAdvance
         /\ \A r \in DOMAIN revisions \ {id} :
               revisions'[r].status = "PUBLISHED" => revisions[r].status = "PUBLISHED"
<1>. DEFINE p == revisions[id].procedure
            old == procedures[p].published
            y == [revisions[id] EXCEPT !.status = "PUBLISHED", !.version = @ + 1]
            z == [procedures[p] EXCEPT !.published = id, !.version = @ + 1]
            w == [revisions[old] EXCEPT !.status = "RETIRED", !.version = @ + 1]
<1>1. /\ id \in DOMAIN revisions /\ revisions[id].status = "IN_REVIEW" /\ ~revisions[id].gaps
      /\ revisions' = Replace(id)
      /\ procedures' = [procedures EXCEPT ![p] = z]
  BY DEF PublishRevision, Publishable
<1>2. p \in DOMAIN procedures /\ procedures[p] \in Procedure /\ id \in RevId
  BY <1>1 DEF ProceduresGood, ProceduresFit, ProceduresHold
<1>3. old # id
  BY <1>1 DEF ProceduresGood, PublishedIsPointedAt
<1>4. old \in DOMAIN revisions => revisions[old].status = "PUBLISHED" /\ revisions[old].procedure = p
  <2>1. old \in DOMAIN revisions => old # Nothing
    BY NothingAssumption DEF ProceduresGood, ProceduresFit
  <2>2. QED
    BY <1>2, <2>1 DEF ProceduresGood, ProceduresHold, PublishedIsPointedAt
<1>5. /\ RevisionOK(y)
      /\ y.status = "PUBLISHED" /\ y.procedure = p /\ y.rule = revisions[id].rule
      /\ y.sources = revisions[id].sources /\ y.variables = revisions[id].variables
      /\ y.coverage = revisions[id].coverage /\ y.gaps = revisions[id].gaps
  <2>1. RevisionOK(revisions[id])
    BY <1>1 DEF ProceduresGood, ProceduresFit
  <2>2. QED
    BY <2>1, RevisionMovesOn
<1>6. old \in DOMAIN revisions =>
      /\ RevisionOK(w)
      /\ w.status = "RETIRED" /\ w.procedure = revisions[old].procedure
      /\ w.rule = revisions[old].rule
      /\ w.sources = revisions[old].sources /\ w.variables = revisions[old].variables
      /\ w.coverage = revisions[old].coverage /\ w.gaps = revisions[old].gaps
  <2>1. old \in DOMAIN revisions => RevisionOK(revisions[old])
    BY DEF ProceduresGood, ProceduresFit
  <2>2. QED
    BY <2>1, RevisionMovesOn
<1>7. z \in Procedure /\ z.published = id
  <2>1. procedures[p].version + 1 \in Nat
    BY <1>2 DEF Procedure
  <2>2. QED
    BY <1>2, <2>1 DEF Procedure
<1>8. /\ DOMAIN revisions' = DOMAIN revisions
      /\ revisions'[id] = y
      /\ old \in DOMAIN revisions => revisions'[old] = w
      /\ \A r \in DOMAIN revisions \ {id, old} : revisions'[r] = revisions[r]
  BY <1>1, <1>3 DEF Replace
<1>9. /\ DOMAIN procedures' = DOMAIN procedures
      /\ procedures'[p] = z
      /\ \A x \in DOMAIN procedures \ {p} : procedures'[x] = procedures[x]
  BY <1>1, <1>2
<1>. HIDE DEF y, z, w, old, p
<1>10. ProceduresFit'
  BY <1>5, <1>6, <1>7, <1>8, <1>9 DEF ProceduresFit, ProceduresGood
<1>11. ASSUME NEW r \in DOMAIN revisions
       PROVE  /\ revisions'[r].procedure = revisions[r].procedure
              /\ revisions'[r].rule = revisions[r].rule
              /\ revisions'[r].sources = revisions[r].sources
              /\ revisions'[r].variables = revisions[r].variables
              /\ revisions'[r].coverage = revisions[r].coverage
              /\ revisions'[r].gaps = revisions[r].gaps
              /\ revisions[r].status # "DRAFT" => revisions'[r].status # "DRAFT"
              /\ PublishedOnce(r) => PublishedOnce(r)'
  <2>1. CASE r = id
    BY <1>5, <1>8, <2>1 DEF PublishedOnce, p
  <2>2. CASE r = old
    BY <1>6, <1>8, <2>2 DEF PublishedOnce
  <2>3. CASE r \notin {id, old}
    BY <1>8, <2>3 DEF PublishedOnce
  <2>4. QED
    BY <2>1, <2>2, <2>3
<1>12. ProceduresHold'
  <2>1. ASSUME NEW x \in DOMAIN procedures', procedures'[x].published # Nothing
        PROVE  /\ procedures'[x].published \in DOMAIN revisions'
               /\ revisions'[procedures'[x].published].procedure = x
    <3>1. CASE x = p
      BY <1>1, <1>5, <1>7, <1>8, <1>9, <3>1
    <3>2. CASE x # p
      BY <1>8, <1>9, <1>11, <2>1, <3>2 DEF ProceduresGood, ProceduresHold
    <3>3. QED
      BY <3>1, <3>2
  <2>2. \A r \in DOMAIN revisions' : revisions'[r].procedure \in DOMAIN procedures'
    BY <1>8, <1>9, <1>11 DEF ProceduresGood, ProceduresHold
  <2>3. QED
    BY <2>1, <2>2 DEF ProceduresHold
<1>13. PublishedIsPointedAt'
  <2>1. \A x \in DOMAIN procedures' :
           procedures'[x].published # Nothing => procedures'[x].published \in DOMAIN revisions'
    BY <1>12 DEF ProceduresHold
  <2>2. ASSUME NEW r \in DOMAIN revisions'
        PROVE  revisions'[r].status = "PUBLISHED"
                  <=> procedures'[revisions'[r].procedure].published = r
    <3>1. CASE r = id
      BY <1>5, <1>7, <1>8, <1>9, <3>1
    <3>2. CASE r # id /\ r = old
      BY <1>4, <1>6, <1>7, <1>8, <1>9, <3>2
    <3>3. CASE r \notin {id, old} /\ revisions[r].procedure = p
      BY <1>7, <1>8, <1>9, <3>3 DEF ProceduresGood, PublishedIsPointedAt, old
    <3>4. CASE r \notin {id, old} /\ revisions[r].procedure # p
      BY <1>8, <1>9, <3>4 DEF ProceduresGood, PublishedIsPointedAt, ProceduresHold
    <3>5. QED
      BY <3>1, <3>2, <3>3, <3>4
  <2>3. QED
    BY <2>1, <2>2 DEF PublishedIsPointedAt
<1>14. \A r \in DOMAIN revisions \ {id} :
          /\ revisions'[r].status = "PUBLISHED" => revisions[r].status = "PUBLISHED"
          /\ PublishedOnce(r)' => PublishedOnce(r)
          /\ revisions'[r].status # "DRAFT" => revisions[r].status # "DRAFT"
  BY <1>4, <1>6, <1>8 DEF PublishedOnce
<1>15. RevisionsAdvance
  BY <1>1, <1>8, <1>14 DEF RevisionsAdvance
<1>16. QED
  BY <1>8, <1>10, <1>11, <1>12, <1>13, <1>14, <1>15 DEF ProceduresGood, RevisionsLast

\* What the rule engine finds is a truth value: rules say what they may, and
\* welds have variables.
LEMMA GapsAreBoolean ==
  ASSUME RulesFit, QualificationsFit, ProceduresGood, SourcesHold, NEW r \in DOMAIN revisions
  PROVE  /\ ContentOf(revisions[r].rule) \in Content
         /\ revisions[r].sources \in SUBSET QualId
         /\ SourceVariables(r) \in [revisions[r].sources -> Variables]
         /\ HasGaps(ContentOf(revisions[r].rule), SourceVariables(r), revisions[r].variables)
               \in BOOLEAN
<1>1. ContentOf(revisions[r].rule) \in Content
  BY DEF ContentOf, SourcesHold, RulesFit, RuleSet
<1>2. SourceVariables(r) \in [revisions[r].sources -> Variables]
  BY DEF SourceVariables, SourcesHold, QualificationsFit, Qualification
<1>3. revisions[r].variables \in Variables /\ revisions[r].sources \in SUBSET QualId
  BY DEF ProceduresGood, ProceduresFit, RevisionOK
<1>4. QED
  BY <1>1, <1>2, <1>3, OperatorsAssumption

LEMMA ProceduresKeep ==
  ASSUME RulesFit, QualificationsFit, ProceduresGood, SourcesHold, [Next]_caseVars
  PROVE  ProceduresGood' /\ RevisionsLast /\ RevisionsAdvance
<1>1. CASE ProcedureRequest
  <2>1. ASSUME NEW id \in RevId, NEW v \in Versions, DeriveCoverage(id, v)
        PROVE  ProceduresGood' /\ RevisionsLast /\ RevisionsAdvance
    <3>1. id \in DOMAIN revisions
      BY <2>1 DEF DeriveCoverage
    <3>2. QED
      BY <2>1, <3>1, GapsAreBoolean, DeriveCoverageKeeps
  <2>2. QED
    BY <1>1, <2>1, CreateProcedureKeeps, CreateRevisionKeeps, PublishRevisionKeeps
       DEF ProcedureRequest
<1>2. CASE UNCHANGED <<procedures, revisions>>
  BY <1>2 DEF ProceduresGood, ProceduresFit, ProceduresHold, PublishedIsPointedAt,
              RevisionsLast, RevisionsAdvance, PublishedOnce
<1>3. QED
  BY <1>1, <1>2, RuleFrame, QualificationFrame, AssessmentFrame, ReviewFrame, LoopFrame, Steps
     DEF caseVars

-----------------------------------------------------------------------------
(* Ranges: what a revision takes from its rule and its sources.            *)

\* Neither changes under a revision that names them.
LEMMA SourcesLast ==
  ASSUME SourcesHold, RulesLast, QualificationsLast, RevisionsLast, NEW r \in DOMAIN revisions
  PROVE  /\ ContentOf(revisions[r].rule)' = ContentOf(revisions[r].rule)
         /\ SourceVariables(r)' = SourceVariables(r)
<1>1. revisions'[r].rule = revisions[r].rule /\ revisions'[r].sources = revisions[r].sources
  BY DEF RevisionsLast
<1>2. ContentOf(revisions[r].rule)' = ContentOf(revisions[r].rule)
  BY <1>1 DEF ContentOf, SourcesHold, RulesLast
<1>3. \A q \in revisions[r].sources : qualifications'[q].variables = qualifications[q].variables
  BY DEF SourcesHold, QualificationsLast
<1>4. SourceVariables(r)' = SourceVariables(r)
  BY <1>1, <1>3 DEF SourceVariables
<1>5. QED
  BY <1>2, <1>4

LEMMA RangesKeep ==
  ASSUME SourcesHold, RangeIsReproducible, RulesLast, QualificationsLast, RevisionsLast,
         RevisionsAdvance
  PROVE  SourcesHold' /\ RangeIsReproducible'
<1>1. ASSUME NEW r \in DOMAIN revisions'
      PROVE  /\ revisions'[r].rule \in DOMAIN rules'
             /\ rules'[revisions'[r].rule].status # "DRAFT"
             /\ \A q \in revisions'[r].sources :
                   q \in DOMAIN qualifications' /\ Passed(q)'
                     /\ qualifications'[q].rule = revisions'[r].rule
  <2>1. CASE r \in DOMAIN revisions
    <3>1. /\ revisions'[r].rule = revisions[r].rule
          /\ revisions'[r].sources = revisions[r].sources
      BY <2>1 DEF RevisionsLast
    <3>2. /\ revisions[r].rule \in DOMAIN rules'
          /\ rules'[revisions[r].rule].status # "DRAFT"
      BY <2>1 DEF SourcesHold, RulesLast
    <3>3. ASSUME NEW q \in revisions[r].sources
          PROVE  /\ q \in DOMAIN qualifications' /\ Passed(q)'
                 /\ qualifications'[q].rule = revisions[r].rule
      <4>1. /\ q \in DOMAIN qualifications /\ Passed(q)
            /\ qualifications[q].rule = revisions[r].rule
        BY <2>1 DEF SourcesHold, RangeIsReproducible
      <4>2. QED
        BY <4>1 DEF QualificationsLast
    <3>4. QED
      BY <3>1, <3>2, <3>3
  <2>2. CASE r \notin DOMAIN revisions
    BY <2>2 DEF RevisionsAdvance, NewDraft, Qualified, Passed, RulesLast, QualificationsLast
  <2>3. QED
    BY <2>1, <2>2
<1>2. ASSUME NEW r \in DOMAIN revisions', revisions'[r].status # "DRAFT"
      PROVE  /\ revisions'[r].coverage = Coverage(ContentOf(revisions[r].rule)', SourceVariables(r)')
             /\ revisions'[r].gaps = HasGaps(ContentOf(revisions[r].rule)', SourceVariables(r)',
                                             revisions'[r].variables)
  <2>1. r \in DOMAIN revisions
    BY <1>2 DEF RevisionsAdvance, NewDraft
  <2>2. /\ ContentOf(revisions[r].rule)' = ContentOf(revisions[r].rule)
        /\ SourceVariables(r)' = SourceVariables(r)
        /\ revisions'[r].variables = revisions[r].variables
    BY <2>1, SourcesLast DEF RevisionsLast
  <2>3. CASE revisions[r].status = "DRAFT"
    BY <1>2, <2>1, <2>2, <2>3 DEF RevisionsAdvance, DerivedNow
  <2>4. CASE revisions[r].status # "DRAFT"
    <3>1. /\ revisions[r].coverage = Coverage(ContentOf(revisions[r].rule), SourceVariables(r))
          /\ revisions[r].gaps = HasGaps(ContentOf(revisions[r].rule), SourceVariables(r),
                                         revisions[r].variables)
      BY <2>1, <2>4 DEF SourcesHold, RangeIsReproducible, ContentOf, SourceVariables
    <3>2. QED
      BY <2>1, <2>2, <2>4, <3>1 DEF RevisionsLast
  <2>5. QED
    BY <2>3, <2>4
<1>3. ASSUME NEW r \in DOMAIN revisions', PublishedOnce(r)'
      PROVE  ~HasGaps(ContentOf(revisions[r].rule)', SourceVariables(r)', revisions'[r].variables)
  <2>1. r \in DOMAIN revisions
    BY <1>3 DEF RevisionsAdvance, NewDraft, PublishedOnce
  <2>2. revisions[r].status # "DRAFT"
    BY <1>3, <2>1 DEF RevisionsAdvance, PublishedOnce
  <2>3. ~HasGaps(ContentOf(revisions[r].rule), SourceVariables(r), revisions[r].variables)
    <3>1. CASE PublishedOnce(r)
      BY <2>1, <3>1 DEF RangeIsReproducible, ContentOf, SourceVariables, PublishedOnce
    <3>2. CASE ~PublishedOnce(r)
      BY <1>3, <2>1, <2>2, <3>2 DEF RevisionsAdvance, SourcesHold
    <3>3. QED
      BY <3>1, <3>2
  <2>4. QED
    BY <2>1, <2>3, SourcesLast DEF RevisionsLast
<1>4. SourcesHold'
  BY <1>1, <1>2 DEF SourcesHold
<1>5. RangeIsReproducible'
  BY <1>1, <1>2, <1>3 DEF RangeIsReproducible, ContentOf, SourceVariables, PublishedOnce
<1>6. QED
  BY <1>4, <1>5

-----------------------------------------------------------------------------
(* Review tasks.                                                           *)

TasksFit == \A t \in tasks : TaskOK(t)

\* Queueing tasks for some keys leaves one task per key, and one for each of these.
LEMMA EnqueueKeeps ==
  ASSUME TasksFit, TasksAreDeduplicated, NEW K, \A k \in K : TaskKeyOK(k),
         tasks' = EnqueueAffected(tasks, K)
  PROVE  /\ TasksFit' /\ TasksAreDeduplicated'
         /\ \A k : TaskActiveByKey(tasks', k) <=> TaskActiveByKey(tasks, k) \/ k \in K
<1>. DEFINE Copy(k) == Cardinality({t \in tasks : t.key = k})
            New == {k \in K : ~TaskActiveByKey(tasks, k)}
            Task(k) == [key |-> k, copy |-> Copy(k), status |-> "PENDING"]
<1>1. tasks' = tasks \cup {Task(k) : k \in New}
  BY DEF EnqueueAffected
<1>2. \A k \in New : /\ Task(k).key = k
                     /\ TaskOK(Task(k))
                     /\ \A t \in tasks : t.key # k
  BY DEF TaskOK, TaskActiveByKey
<1>. HIDE DEF Task
<1>3. TasksFit'
  BY <1>1, <1>2 DEF TasksFit
<1>4. TasksAreDeduplicated'
  BY <1>1, <1>2 DEF TasksAreDeduplicated
<1>5. \A k : TaskActiveByKey(tasks', k) <=> TaskActiveByKey(tasks, k) \/ k \in K
  BY <1>1, <1>2 DEF TaskActiveByKey
<1>6. QED
  BY <1>3, <1>4, <1>5

\* Finishing tasks changes no key.
LEMMA FinishKeeps ==
  ASSUME TasksFit, TasksAreDeduplicated, NEW batch \in SUBSET Pending, tasks' = Finish(batch)
  PROVE  /\ TasksFit' /\ TasksAreDeduplicated'
         /\ \A k : TaskActiveByKey(tasks', k) <=> TaskActiveByKey(tasks, k)
<1>. DEFINE Done(t) == [t EXCEPT !.status = "DONE"]
<1>1. tasks' = (tasks \ batch) \cup {Done(t) : t \in batch} /\ batch \subseteq tasks
  BY DEF Finish, Pending
<1>2. \A t \in batch : Done(t).key = t.key /\ TaskOK(Done(t))
  BY <1>1 DEF TasksFit, TaskOK
<1>. HIDE DEF Done
<1>3. TasksFit'
  BY <1>1, <1>2 DEF TasksFit
<1>4. TasksAreDeduplicated'
  BY <1>1, <1>2 DEF TasksAreDeduplicated
<1>5. \A k : TaskActiveByKey(tasks', k) <=> TaskActiveByKey(tasks, k)
  BY <1>1, <1>2 DEF TaskActiveByKey
<1>6. QED
  BY <1>3, <1>4, <1>5

-----------------------------------------------------------------------------
(* Requirements and assessments.                                           *)

RequirementsFit ==
    /\ DOMAIN requirements \subseteq ReqId
    /\ \A r \in DOMAIN requirements : RequirementOK(requirements[r])

AssessmentsFit ==
    /\ DOMAIN assessments \subseteq AssessId
    /\ \A a \in DOMAIN assessments : assessments[a] \in Assessment

\* A requirement stays as it is, but for the assessments made of it.
RequirementsLast ==
    \A r \in DOMAIN requirements :
        r \in DOMAIN requirements' /\ requirements'[r].variables = requirements[r].variables

\* An assessment keeps what was concluded, and changes no more once it is stale.
AssessmentsLast ==
    \A a \in DOMAIN assessments :
        /\ a \in DOMAIN assessments'
        /\ assessments'[a].requirement = assessments[a].requirement
        /\ assessments'[a].revision = assessments[a].revision
        /\ assessments'[a].rule = assessments[a].rule
        /\ assessments'[a].conclusion = assessments[a].conclusion
        /\ assessments[a].stale => assessments'[a] = assessments[a]

\* A new one is drawn from a published revision and its rule.
AssessmentsNew ==
    \A a \in DOMAIN assessments' \ DOMAIN assessments :
        LET x == assessments'[a]
            rev == revisions[x.revision]
        IN  /\ x.requirement \in DOMAIN requirements
            /\ x.revision \in DOMAIN revisions
            /\ rev.status = "PUBLISHED"
            /\ x.rule = rev.rule
            /\ x.conclusion = Conclude(ContentOf(rev.rule), rev.coverage,
                                       requirements[x.requirement].variables)

\* Marking the assessments of some revisions leaves none of them fresh.
LEMMA MarkKeeps ==
  ASSUME AssessmentsFit, NEW R, NEW reason \in Reasons,
         assessments' = MarkAssessmentsStale(assessments, R, reason)
  PROVE  /\ AssessmentsFit' /\ AssessmentsLast /\ DOMAIN assessments' = DOMAIN assessments
         /\ \A a \in DOMAIN assessments : assessments[a].revision \in R => assessments'[a].stale
<1>1. DOMAIN assessments' = DOMAIN assessments
  BY DEF MarkAssessmentsStale
<1>2. ASSUME NEW a \in DOMAIN assessments
      PROVE  LET x == assessments[a]  y == assessments'[a]
             IN  /\ y \in Assessment
                 /\ y.requirement = x.requirement /\ y.revision = x.revision
                 /\ y.rule = x.rule /\ y.conclusion = x.conclusion
                 /\ x.stale => y = x
                 /\ x.revision \in R => y.stale
  <2>1. assessments[a] \in Assessment
    BY DEF AssessmentsFit
  <2>2. CASE assessments[a].revision \in R /\ ~assessments[a].stale
    <3>1. assessments'[a] = [assessments[a] EXCEPT !.stale = TRUE, !.reason = reason]
      BY <2>2 DEF MarkAssessmentsStale
    <3>2. QED
      BY <2>1, <2>2, <3>1 DEF Assessment
  <2>3. CASE ~(assessments[a].revision \in R /\ ~assessments[a].stale)
    <3>1. assessments'[a] = assessments[a]
      BY <2>3 DEF MarkAssessmentsStale
    <3>2. QED
      BY <2>1, <2>3, <3>1
  <2>4. QED
    BY <2>2, <2>3
<1>3. QED
  BY <1>1, <1>2 DEF AssessmentsFit, AssessmentsLast

\* The worker marks for the reason of a task.
LEMMA ReviewKeeps ==
  ASSUME AssessmentsFit, TasksFit, NEW batch \in SUBSET Pending, NEW first \in FirstTasks(batch),
         assessments' = Review(assessments, first)
  PROVE  AssessmentsFit' /\ AssessmentsLast /\ DOMAIN assessments' = DOMAIN assessments
<1>1. DOMAIN assessments' = DOMAIN assessments
  BY DEF Review
<1>2. \A r \in DOMAIN first : first[r].key.reason \in Reasons
  <2>1. \A r \in DOMAIN first : first[r] \in tasks
    BY DEF FirstTasks, RevisionTasks, Pending
  <2>2. QED
    BY <2>1 DEF TasksFit, TaskOK, TaskKeyOK
<1>3. ASSUME NEW a \in DOMAIN assessments
      PROVE  LET x == assessments[a]  y == assessments'[a]
             IN  /\ y \in Assessment
                 /\ y.requirement = x.requirement /\ y.revision = x.revision
                 /\ y.rule = x.rule /\ y.conclusion = x.conclusion
                 /\ x.stale => y = x
  <2>1. assessments[a] \in Assessment
    BY DEF AssessmentsFit
  <2>2. CASE assessments[a].revision \in DOMAIN first /\ ~assessments[a].stale
    <3>1. assessments'[a] = [assessments[a] EXCEPT
                                !.stale = TRUE,
                                !.reason = first[assessments[a].revision].key.reason]
      BY <2>2 DEF Review
    <3>2. first[assessments[a].revision].key.reason \in Reasons
      BY <1>2, <2>2
    <3>3. QED
      BY <2>1, <2>2, <3>1, <3>2 DEF Assessment
  <2>3. CASE ~(assessments[a].revision \in DOMAIN first /\ ~assessments[a].stale)
    <3>1. assessments'[a] = assessments[a]
      BY <2>3 DEF Review
    <3>2. QED
      BY <2>1, <2>3, <3>1
  <2>4. QED
    BY <2>2, <2>3
<1>4. QED
  BY <1>1, <1>3 DEF AssessmentsFit, AssessmentsLast

-----------------------------------------------------------------------------
(* What each kind of step does to tasks and assessments.                   *)

\* No step but a scan finds expired evidence.
SameScans == \A e : Scanned(e)' <=> Scanned(e)
TasksGood == TasksFit /\ TasksAreDeduplicated

LEMMA TaskKeyFacts ==
  ASSUME NEW reason \in Reasons, NEW type, NEW object, NEW trigger
  PROVE  /\ TaskKeyOK(TaskKey(reason, type, object, trigger))
         /\ TaskKey(reason, type, object, trigger).reason = reason
         /\ TaskKey(reason, type, object, trigger).trigger = trigger
BY DEF TaskKey, TaskKeyOK

\* Queueing for another reason than expiry adds no scan.
LEMMA OtherReasons ==
  ASSUME TasksGood, NEW K,
         \A k \in K : TaskKeyOK(k) /\ k.reason # "EVIDENCE_EXPIRED",
         tasks' = EnqueueAffected(tasks, K)
  PROVE  TasksGood' /\ SameScans
<1>1. /\ TasksGood'
      /\ \A k : TaskActiveByKey(tasks', k) <=> TaskActiveByKey(tasks, k) \/ k \in K
  BY EnqueueKeeps DEF TasksGood
<1>2. \A e : TaskKey("EVIDENCE_EXPIRED", "qualification", e[1], e) \notin K
  BY DEF TaskKey
<1>3. QED
  BY <1>1, <1>2 DEF SameScans, Scanned

\* A publication marks what was derived from the rules it supersedes.
LEMMA PublishRuleSetMarks ==
  ASSUME AssessmentsFit, TasksGood, NEW id, NEW v, PublishRuleSet(id, v)
  PROVE  /\ AssessmentsFit' /\ AssessmentsLast /\ TasksGood' /\ SameScans
         /\ DOMAIN assessments' = DOMAIN assessments
         /\ \A a \in DOMAIN assessments :
               assessments[a].revision \in AffectedRevisions => assessments'[a].stale
<1>1. /\ tasks' = EnqueueAffected(tasks, UpgradeKeys(id))
      /\ assessments' = MarkAssessmentsStale(assessments, AffectedRevisions, "RULE_UPGRADE")
  BY DEF PublishRuleSet
<1>2. "RULE_UPGRADE" \in Reasons /\ "RULE_UPGRADE" # "EVIDENCE_EXPIRED"
  BY DEF Reasons
<1>3. \A k \in UpgradeKeys(id) : TaskKeyOK(k) /\ k.reason # "EVIDENCE_EXPIRED"
  BY <1>2, TaskKeyFacts DEF UpgradeKeys
<1>4. TasksGood' /\ SameScans
  BY <1>1, <1>3, OtherReasons
<1>5. QED
  BY <1>1, <1>2, <1>4, MarkKeeps

\* A withdrawal marks what was derived from the qualification.
LEMMA WithdrawQualificationMarks ==
  ASSUME AssessmentsFit, TasksGood, NEW id, NEW v, WithdrawQualification(id, v)
  PROVE  /\ AssessmentsFit' /\ AssessmentsLast /\ TasksGood' /\ SameScans
         /\ DOMAIN assessments' = DOMAIN assessments
         /\ \A a \in DOMAIN assessments :
               assessments[a].revision \in RevisionsFrom(id) => assessments'[a].stale
<1>. DEFINE K == {TaskKey("QUALIFICATION_WITHDRAWN", "revision", r, id) : r \in RevisionsFrom(id)}
<1>1. /\ tasks' = EnqueueAffected(tasks, K)
      /\ assessments' = MarkAssessmentsStale(assessments, RevisionsFrom(id),
                                             "QUALIFICATION_WITHDRAWN")
  BY DEF WithdrawQualification, StaleByWithdrawal
<1>2. /\ "QUALIFICATION_WITHDRAWN" \in Reasons
      /\ "QUALIFICATION_WITHDRAWN" # "EVIDENCE_EXPIRED"
  BY DEF Reasons
<1>3. \A k \in K : TaskKeyOK(k) /\ k.reason # "EVIDENCE_EXPIRED"
  BY <1>2, TaskKeyFacts
<1>. HIDE DEF K
<1>4. TasksGood' /\ SameScans
  BY <1>1, <1>3, OtherReasons
<1>5. QED
  BY <1>1, <1>2, <1>4, MarkKeeps

\* A scan marks what was derived from the evidence it finds expired.
LEMMA ScanMarks ==
  ASSUME AssessmentsFit, TasksGood, ScanExpiredEvidence
  PROVE  /\ AssessmentsFit' /\ AssessmentsLast /\ TasksGood'
         /\ DOMAIN assessments' = DOMAIN assessments
         /\ \A e : Scanned(e)' => Scanned(e) \/ e \in ToScan(scanTime)
         /\ \A e : Scanned(e) => Scanned(e)'
         /\ \A a \in DOMAIN assessments, e \in ToScan(scanTime) :
               assessments[a].revision \in RevisionsFrom(e[1]) => assessments'[a].stale
<1>. DEFINE found == ToScan(scanTime)
            K == UNION {ExpiryKeys(e) : e \in found}
            R == UNION {ExpiryReaches(e) : e \in found}
<1>1. /\ tasks' = EnqueueAffected(tasks, K)
      /\ assessments' = MarkAssessmentsStale(assessments, R, "EVIDENCE_EXPIRED")
  BY DEF ScanExpiredEvidence
<1>2. "EVIDENCE_EXPIRED" \in Reasons
  BY DEF Reasons
<1>3. \A e \in found : \A k \in ExpiryKeys(e) : TaskKeyOK(k) /\ k.trigger = e
  BY <1>2, TaskKeyFacts DEF ExpiryKeys
<1>4. \A k \in K : TaskKeyOK(k)
  BY <1>3
<1>5. \A e \in found : RevisionsFrom(e[1]) \subseteq R
  BY DEF ExpiryReaches
<1>6. \A e : TaskKey("EVIDENCE_EXPIRED", "qualification", e[1], e) \in K => e \in found
  BY <1>2, <1>3, TaskKeyFacts
<1>. HIDE DEF found, K, R
<1>7. /\ TasksGood'
      /\ \A k : TaskActiveByKey(tasks', k) <=> TaskActiveByKey(tasks, k) \/ k \in K
  BY <1>1, <1>4, EnqueueKeeps DEF TasksGood
<1>8. /\ \A e : Scanned(e)' => Scanned(e) \/ e \in found
      /\ \A e : Scanned(e) => Scanned(e)'
  BY <1>6, <1>7 DEF Scanned
<1>9. /\ AssessmentsFit' /\ AssessmentsLast /\ DOMAIN assessments' = DOMAIN assessments
      /\ \A a \in DOMAIN assessments : assessments[a].revision \in R => assessments'[a].stale
  BY <1>1, <1>2, MarkKeeps
<1>10. QED
  BY <1>5, <1>7, <1>8, <1>9 DEF found

LEMMA RunDueTasksMarks ==
  ASSUME AssessmentsFit, TasksGood, RunDueTasks
  PROVE  /\ AssessmentsFit' /\ AssessmentsLast /\ TasksGood' /\ SameScans
         /\ DOMAIN assessments' = DOMAIN assessments
<1>1. PICK batch \in SUBSET Pending :
        /\ tasks' = Finish(batch)
        /\ \E first \in FirstTasks(batch) : assessments' = Review(assessments, first)
  BY DEF RunDueTasks
<1>2. TasksGood' /\ SameScans
  BY <1>1, FinishKeeps DEF TasksGood, SameScans, Scanned
<1>3. AssessmentsFit' /\ AssessmentsLast /\ DOMAIN assessments' = DOMAIN assessments
  BY <1>1, ReviewKeeps DEF TasksGood
<1>4. QED
  BY <1>2, <1>3

-----------------------------------------------------------------------------
(* Requests for assessments.                                               *)

LEMMA CreateRequirementKeeps ==
  ASSUME RequirementsFit, NEW id \in ReqId, NEW k, NEW w \in Variables,
         CreateRequirement(id, k, w)
  PROVE  RequirementsFit' /\ RequirementsLast
<1>. DEFINE new == NewRequirement(w, <<"requirement", k>>)
<1>1. RequirementOK(new)
  BY DEF NewRequirement, RequirementOK
<1>. HIDE DEF new
<1>2. id \notin DOMAIN requirements /\ requirements' = Put(requirements, id, new)
  BY DEF CreateRequirement, new
<1>3. /\ DOMAIN requirements' = DOMAIN requirements \cup {id}
      /\ requirements'[id] = new
      /\ \A r \in DOMAIN requirements : requirements'[r] = requirements[r]
  BY <1>2 DEF Put
<1>4. QED
  BY <1>1, <1>3 DEF RequirementsFit, RequirementsLast

LEMMA ImportRequirementsKeeps ==
  ASSUME RequirementsFit, NEW ids \in SUBSET ReqId, NEW k, NEW w \in Variables,
         ImportRequirements(ids, k, w)
  PROVE  RequirementsFit' /\ RequirementsLast
<1>. DEFINE new == NewRequirement(w, <<"batch", k>>)
<1>1. RequirementOK(new)
  BY DEF NewRequirement, RequirementOK
<1>. HIDE DEF new
<1>2. /\ ids \cap DOMAIN requirements = {}
      /\ requirements' = [r \in DOMAIN requirements \cup ids |->
                            IF r \in ids THEN new ELSE requirements[r]]
  BY DEF ImportRequirements, new
<1>3. /\ DOMAIN requirements' = DOMAIN requirements \cup ids
      /\ \A r \in ids : requirements'[r] = new
      /\ \A r \in DOMAIN requirements : requirements'[r] = requirements[r]
  BY <1>2
<1>4. QED
  BY <1>1, <1>3 DEF RequirementsFit, RequirementsLast

LEMMA AssessRequirementKeeps ==
  ASSUME RulesFit, QualificationsFit, ProceduresGood, SourcesHold, RangeIsReproducible,
         RequirementsFit, AssessmentsFit,
         NEW id \in ReqId, NEW a \in AssessId, NEW rev \in RevId, NEW v,
         AssessRequirement(id, a, rev, v)
  PROVE  /\ RequirementsFit' /\ RequirementsLast
         /\ AssessmentsFit' /\ AssessmentsLast /\ AssessmentsNew
<1>. DEFINE rule == revisions[rev].rule
            outcome == Conclude(ContentOf(rule), revisions[rev].coverage,
                                requirements[id].variables)
            new == [requirement |-> id, revision |-> rev, rule |-> rule,
                    conclusion |-> outcome, stale |-> FALSE, reason |-> ""]
            y == [requirements[id] EXCEPT !.assessments = @ \cup {a}, !.version = @ + 1]
<1>1. /\ id \in DOMAIN requirements /\ a \notin DOMAIN assessments
      /\ rev \in DOMAIN revisions /\ revisions[rev].status = "PUBLISHED"
      /\ assessments' = Put(assessments, a, new)
      /\ requirements' = [requirements EXCEPT ![id] = y]
  BY DEF AssessRequirement, RuleFor, NoteAssessment, ContentOf
<1>2. RequirementOK(requirements[id])
  BY <1>1 DEF RequirementsFit
<1>3. rule \in RuleId
  BY <1>1 DEF ProceduresGood, ProceduresFit, RevisionOK
<1>4. outcome \in Conclusions
  <2>1. requirements[id].variables \in Variables
    BY <1>2 DEF RequirementOK
  <2>2. revisions[rev].coverage = Coverage(ContentOf(rule), SourceVariables(rev))
    BY <1>1 DEF RangeIsReproducible, ContentOf, SourceVariables
  <2>3. /\ ContentOf(rule) \in Content
        /\ revisions[rev].sources \in SUBSET QualId
        /\ SourceVariables(rev) \in [revisions[rev].sources -> Variables]
    BY <1>1, GapsAreBoolean
  <2>4. QED
    BY <2>1, <2>2, <2>3, OperatorsAssumption
<1>. HIDE DEF outcome, rule
<1>5. /\ new \in Assessment /\ new.requirement = id /\ new.revision = rev
      /\ new.rule = rule /\ new.conclusion = outcome
  BY <1>3, <1>4 DEF Assessment
<1>6. RequirementOK(y) /\ y.variables = requirements[id].variables
  <2>1. /\ requirements[id].version + 1 \in Nat
        /\ requirements[id].assessments \cup {a} \subseteq AssessId
    BY <1>2 DEF RequirementOK
  <2>2. QED
    BY <1>2, <2>1 DEF RequirementOK
<1>. HIDE DEF new, y
<1>7. RequirementsFit' /\ RequirementsLast
  BY <1>1, <1>6 DEF RequirementsFit, RequirementsLast
<1>8. /\ DOMAIN assessments' = DOMAIN assessments \cup {a}
      /\ assessments'[a] = new
      /\ \A x \in DOMAIN assessments : assessments'[x] = assessments[x]
  BY <1>1 DEF Put
<1>9. AssessmentsFit' /\ AssessmentsLast
  BY <1>5, <1>8 DEF AssessmentsFit, AssessmentsLast
<1>10. AssessmentsNew
  BY <1>1, <1>5, <1>8 DEF AssessmentsNew, outcome, rule
<1>11. QED
  BY <1>7, <1>9, <1>10

LEMMA AssessmentsKeep ==
  ASSUME RulesFit, QualificationsFit, ProceduresGood, SourcesHold, RangeIsReproducible,
         RequirementsFit, AssessmentsFit, TasksGood, [Next]_caseVars
  PROVE  /\ RequirementsFit' /\ RequirementsLast
         /\ AssessmentsFit' /\ AssessmentsLast /\ AssessmentsNew /\ TasksGood'
<1>1. CASE UNCHANGED <<requirements, assessments, tasks>>
  BY <1>1 DEF RequirementsFit, RequirementsLast, AssessmentsFit, AssessmentsLast,
              AssessmentsNew, TasksGood, TasksFit, TasksAreDeduplicated
<1>2. CASE UNCHANGED requirements /\ AssessmentsFit' /\ AssessmentsLast /\ TasksGood'
             /\ DOMAIN assessments' = DOMAIN assessments
  BY <1>2 DEF RequirementsFit, RequirementsLast, AssessmentsNew
<1>3. CASE AssessmentRequest
  <2>1. CASE UNCHANGED assessments /\ RequirementsFit' /\ RequirementsLast
    BY <1>3, <2>1, AssessmentFrame
       DEF AssessmentsFit, AssessmentsLast, AssessmentsNew, TasksGood, TasksFit,
           TasksAreDeduplicated
  <2>2. CASE \E id \in ReqId, a \in AssessId, rev \in RevId, v \in Versions :
                AssessRequirement(id, a, rev, v)
    BY <1>3, <2>2, AssessmentFrame, AssessRequirementKeeps
       DEF TasksGood, TasksFit, TasksAreDeduplicated
  <2>3. \/ UNCHANGED assessments /\ RequirementsFit' /\ RequirementsLast
        \/ \E id \in ReqId, a \in AssessId, rev \in RevId, v \in Versions :
              AssessRequirement(id, a, rev, v)
    <3>1. ASSUME NEW id \in ReqId, NEW k, NEW w \in Variables, CreateRequirement(id, k, w)
          PROVE  UNCHANGED assessments /\ RequirementsFit' /\ RequirementsLast
      BY <3>1, CreateRequirementKeeps DEF CreateRequirement
    <3>2. ASSUME NEW ids \in SUBSET ReqId, NEW k, NEW w \in Variables,
                 ImportRequirements(ids, k, w)
          PROVE  UNCHANGED assessments /\ RequirementsFit' /\ RequirementsLast
      BY <3>2, ImportRequirementsKeeps DEF ImportRequirements
    <3>3. QED
      BY <1>3, <3>1, <3>2, Zenon DEF AssessmentRequest
  <2>4. QED
    BY <2>1, <2>2, <2>3
<1>4. CASE RuleRequest
  <2>1. ASSUME NEW id, NEW c, CreateRuleSet(id, c)
        PROVE  UNCHANGED <<requirements, assessments, tasks>>
    BY <2>1 DEF CreateRuleSet
  <2>2. ASSUME NEW id, NEW v, NEW c, UpdateRuleSet(id, v, c)
        PROVE  UNCHANGED <<requirements, assessments, tasks>>
    BY <2>2 DEF UpdateRuleSet
  <2>3. QED
    BY <1>1, <1>2, <1>4, <2>1, <2>2, RuleFrame, PublishRuleSetMarks DEF RuleRequest
<1>5. CASE QualificationRequest
  <2>1. ASSUME NEW id, NEW r, NEW w, CreateQualification(id, r, w)
        PROVE  UNCHANGED <<requirements, assessments, tasks>>
    BY <2>1 DEF CreateQualification
  <2>2. ASSUME NEW id, NEW k, NEW e, AddEvidence(id, k, e)
        PROVE  UNCHANGED <<requirements, assessments, tasks>>
    BY <2>2 DEF AddEvidence
  <2>3. ASSUME NEW id, NEW v, EvaluateQualification(id, v)
        PROVE  UNCHANGED <<requirements, assessments, tasks>>
    BY <2>3 DEF EvaluateQualification
  <2>4. QED
    BY <1>1, <1>2, <1>5, <2>1, <2>2, <2>3, QualificationFrame, WithdrawQualificationMarks
       DEF QualificationRequest
<1>6. CASE RunDueTasks \/ ScanExpiredEvidence
  BY <1>2, <1>6, LoopFrame, RunDueTasksMarks, ScanMarks
<1>7. CASE Tick \/ Looks
  BY <1>1, <1>7, LookFrame DEF Tick
<1>8. QED
  BY <1>1, <1>3, <1>4, <1>5, <1>6, <1>7, ProcedureFrame, ReviewFrame, Steps
     DEF caseVars

\* What an assessment concluded can be concluded again.
LEMMA ConclusionsKeep ==
  ASSUME ProceduresGood, SourcesHold, RangeIsReproducible, AssessmentsHold,
         ConclusionIsReproducible,
         RulesLast, QualificationsLast, RevisionsLast, RequirementsLast, AssessmentsLast,
         AssessmentsNew
  PROVE  AssessmentsHold' /\ ConclusionIsReproducible'
<1>1. ASSUME NEW a \in DOMAIN assessments'
      PROVE  LET x == assessments'[a]
                 c == ContentOf(revisions[x.revision].rule)
             IN  /\ x.requirement \in DOMAIN requirements
                 /\ x.revision \in DOMAIN revisions
                 /\ PublishedOnce(x.revision)
                 /\ x.rule = revisions[x.revision].rule
                 /\ x.conclusion = Conclude(c, Coverage(c, SourceVariables(x.revision)),
                                            requirements[x.requirement].variables)
  <2>1. CASE a \in DOMAIN assessments
    BY <2>1 DEF AssessmentsHold, ConclusionIsReproducible, AssessmentsLast, PublishedOnce
  <2>2. CASE a \notin DOMAIN assessments
    BY <2>2 DEF AssessmentsNew, PublishedOnce, RangeIsReproducible, ContentOf
  <2>3. QED
    BY <2>1, <2>2
<1>2. ASSUME NEW r \in DOMAIN revisions, PublishedOnce(r)
      PROVE  /\ r \in DOMAIN revisions' /\ PublishedOnce(r)'
             /\ revisions'[r].rule = revisions[r].rule
             /\ ContentOf(revisions[r].rule)' = ContentOf(revisions[r].rule)
             /\ SourceVariables(r)' = SourceVariables(r)
  BY <1>2, SourcesLast DEF RevisionsLast, PublishedOnce
<1>3. AssessmentsHold'
  BY <1>1, <1>2 DEF AssessmentsHold, RequirementsLast, PublishedOnce
<1>4. ConclusionIsReproducible'
  <2>1. SUFFICES ASSUME NEW a \in DOMAIN assessments'
                 PROVE  (LET x == assessments[a]
                             c == ContentOf(revisions[x.revision].rule)
                         IN  x.conclusion = Conclude(c, Coverage(c, SourceVariables(x.revision)),
                                                     requirements[x.requirement].variables))'
    BY DEF ConclusionIsReproducible
  <2>2. PICK r, n : r = assessments'[a].revision /\ n = assessments'[a].requirement
    OBVIOUS
  <2>3. /\ n \in DOMAIN requirements /\ r \in DOMAIN revisions /\ PublishedOnce(r)
        /\ assessments'[a].conclusion =
              Conclude(ContentOf(revisions[r].rule),
                       Coverage(ContentOf(revisions[r].rule), SourceVariables(r)),
                       requirements[n].variables)
    BY <1>1, <2>2
  <2>4. /\ ContentOf(revisions[r].rule)' = ContentOf(revisions[r].rule)
        /\ SourceVariables(r)' = SourceVariables(r)
        /\ requirements'[n].variables = requirements[n].variables
    BY <1>2, <2>3 DEF RequirementsLast
  <2>5. /\ SourceVariables(assessments[a].revision)' = SourceVariables(r)'
        /\ ContentOf(revisions[assessments[a].revision].rule)' = ContentOf(revisions[r].rule)'
    BY <2>2 DEF SourceVariables, ContentOf
  <2>6. QED
    BY <2>2, <2>3, <2>4, <2>5
<1>5. QED
  BY <1>3, <1>4

-----------------------------------------------------------------------------
(* Idempotency records.                                                    *)

\* What is kept under a key stays.
RecordsLast ==
    \A x \in DOMAIN idempotency :
        x \in DOMAIN idempotency' /\ idempotency'[x] = idempotency[x]

RequirementsRecorded ==
    \A r \in DOMAIN requirements :
        requirements[r].key[2] # NoKey =>
            /\ requirements[r].key \in DOMAIN idempotency
            /\ r \in idempotency[requirements[r].key].response
Under(q, k) ==
    {i \in DOMAIN qualifications[q].evidence : qualifications[q].evidence[i].key = k}
RecordedUnder(q, k) ==
    IF <<"evidence", q, k>> \in DOMAIN idempotency
    THEN idempotency[<<"evidence", q, k>>].response ELSE {}
EvidenceRecorded ==
    \A q \in DOMAIN qualifications, k \in Key : Under(q, k) = RecordedUnder(q, k)

LEMMA RetryParts == RetriesCreateNothing <=> RequirementsRecorded /\ EvidenceRecorded
BY DEF RetriesCreateNothing, RequirementsRecorded, EvidenceRecorded, Under, RecordedUnder

LEMMA KeysDiffer ==
  /\ \A k, q, l : <<"requirement", k>> # <<"evidence", q, l>>
  /\ \A k, q, l : <<"batch", k>> # <<"evidence", q, l>>
  /\ \A q, k, p, l : <<"evidence", q, k>> = <<"evidence", p, l>> => q = p /\ k = l
OBVIOUS

LEMMA AddEvidenceRecords ==
  ASSUME QualificationsFit, RecordsHold, EvidenceRecorded,
         NEW id \in QualId, NEW key \in Key \cup {NoKey}, NEW request,
         AddEvidence(id, key, request)
  PROVE  RecordsLast /\ RecordsHold' /\ EvidenceRecorded'
<1>. DEFINE place == <<"evidence", id, key>>
            e == [good |-> request.good, expires |-> request.expires, key |-> key]
            n == Len(qualifications[id].evidence) + 1
            new == [digest |-> request, response |-> {n}]
<1>1. /\ place \notin DOMAIN idempotency /\ id \in DOMAIN qualifications
      /\ idempotency' = IF key = NoKey THEN idempotency ELSE Put(idempotency, place, new)
  BY DEF AddEvidence
<1>2. /\ DOMAIN qualifications' = DOMAIN qualifications
      /\ \A q \in DOMAIN qualifications \ {id} : qualifications'[q] = qualifications[q]
      /\ qualifications'[id].evidence = Append(qualifications[id].evidence, e)
  BY <1>1 DEF AddEvidence, QualificationsFit, Qualification
<1>3. e.key = key /\ new.response = {n}
  OBVIOUS
<1>4. qualifications[id].evidence \in Seq(Evidence)
  BY <1>1 DEF QualificationsFit, Qualification
<1>. HIDE DEF e, new
<1>. DEFINE s == qualifications[id].evidence
<1>5. /\ DOMAIN s = 1..(n - 1) /\ DOMAIN Append(s, e) = 1..n
       /\ n \notin DOMAIN s
       /\ \A i \in DOMAIN s : Append(s, e)[i] = s[i]
       /\ Append(s, e)[n] = e
  BY <1>4
<1>6. RecordsLast
  BY <1>1 DEF RecordsLast, Put
<1>7. \A x : x \in DOMAIN idempotency' <=> x \in DOMAIN idempotency \/ (key # NoKey /\ x = place)
  BY <1>1 DEF Put
<1>8. key # NoKey => idempotency'[place] = new
  BY <1>1 DEF Put
<1>. HIDE DEF place
<1>9. RecordsHold'
  <2>1. ASSUME NEW q \in QualId, NEW k \in Key, <<"evidence", q, k>> \in DOMAIN idempotency'
        PROVE  q \in DOMAIN qualifications
    <3>1. CASE <<"evidence", q, k>> \in DOMAIN idempotency
      BY <3>1 DEF RecordsHold
    <3>2. CASE <<"evidence", q, k>> = place
      BY <1>1, <3>2, KeysDiffer DEF place
    <3>3. QED
      BY <1>7, <2>1, <3>1, <3>2
  <2>2. QED
    BY <1>2, <2>1 DEF RecordsHold
<1>10. ASSUME NEW q \in DOMAIN qualifications, NEW k \in Key
      PROVE  Under(q, k)' = RecordedUnder(q, k)'
  <2>1. Under(q, k) = RecordedUnder(q, k)
    BY DEF EvidenceRecorded
  <2>2. CASE q # id
    <3>1. Under(q, k)' = Under(q, k)
      BY <1>2, <2>2 DEF Under
    <3>2. <<"evidence", q, k>> # place
      BY <2>2, KeysDiffer DEF place
    <3>3. RecordedUnder(q, k)' = RecordedUnder(q, k)
      BY <1>6, <1>7, <3>2 DEF RecordedUnder, RecordsLast
    <3>4. QED
      BY <2>1, <3>1, <3>3
  <2>3. CASE q = id /\ k # key
    <3>1. Under(q, k)' = Under(q, k)
      <4>1. {i \in 1..n : Append(s, e)[i].key = k} = {i \in DOMAIN s : s[i].key = k}
        <5>1. ASSUME NEW i \in 1..n
              PROVE  Append(s, e)[i].key = k <=> i \in DOMAIN s /\ s[i].key = k
          <6>1. CASE i = n
            BY <1>3, <1>5, <2>3, <6>1
          <6>2. CASE i # n
            BY <1>4, <1>5, <6>2
          <6>3. QED
            BY <6>1, <6>2
        <5>2. QED
          BY <1>5, <5>1
      <4>2. QED
        BY <1>2, <1>5, <2>3, <4>1 DEF Under
    <3>2. <<"evidence", q, k>> # place
      BY <2>3, KeysDiffer DEF place
    <3>3. RecordedUnder(q, k)' = RecordedUnder(q, k)
      BY <1>6, <1>7, <3>2 DEF RecordedUnder, RecordsLast
    <3>4. QED
      BY <2>1, <3>1, <3>3
  <2>4. CASE q = id /\ k = key
    <3>1. Under(q, k) = {}
      BY <1>1, <2>1, <2>4 DEF RecordedUnder, place
    <3>2. Under(q, k)' = {n}
      BY <1>2, <1>3, <1>5, <2>4, <3>1 DEF Under
    <3>3. key # NoKey
      BY <2>4, NoKeyAssumption
    <3>4. RecordedUnder(q, k)' = {n}
      BY <1>3, <1>7, <1>8, <2>4, <3>3 DEF RecordedUnder, place
    <3>5. QED
      BY <3>2, <3>4
  <2>5. QED
    BY <2>2, <2>3, <2>4
<1>11. EvidenceRecorded'
  BY <1>2, <1>10 DEF EvidenceRecorded
<1>12. QED
  BY <1>6, <1>9, <1>11

LEMMA RecordFacts ==
  ASSUME NEW key, NEW d, NEW response, key \notin DOMAIN idempotency,
         idempotency' = Record(key, d, response)
  PROVE  /\ RecordsLast
         /\ \A x : x \in DOMAIN idempotency' <=> x \in DOMAIN idempotency \/ (key[2] # NoKey /\ x = key)
         /\ key[2] # NoKey => idempotency'[key].response = response
BY DEF Record, Put, RecordsLast

\* Evidence and its records are as they were.
SameEvidence ==
    /\ \A q \in DOMAIN qualifications :
          q \in DOMAIN qualifications' /\ qualifications'[q].evidence = qualifications[q].evidence
    /\ \A q \in DOMAIN qualifications' \ DOMAIN qualifications : qualifications'[q].evidence = << >>
    /\ \A q, k : <<"evidence", q, k>> \in DOMAIN idempotency' <=> <<"evidence", q, k>> \in DOMAIN idempotency

LEMMA SameEvidenceKeeps ==
  ASSUME QualificationsFit', RecordsHold, EvidenceRecorded, RecordsLast, SameEvidence
  PROVE  RecordsHold' /\ EvidenceRecorded'
<1>1. RecordsHold'
  BY DEF RecordsHold, SameEvidence
<1>2. ASSUME NEW q \in DOMAIN qualifications', NEW k \in Key
      PROVE  Under(q, k)' = RecordedUnder(q, k)'
  <2>1. CASE q \in DOMAIN qualifications
    <3>1. Under(q, k)' = Under(q, k)
      BY <2>1 DEF Under, SameEvidence
    <3>2. RecordedUnder(q, k)' = RecordedUnder(q, k)
      BY <2>1 DEF RecordedUnder, RecordsLast, SameEvidence
    <3>3. QED
      BY <2>1, <3>1, <3>2 DEF EvidenceRecorded
  <2>2. CASE q \notin DOMAIN qualifications
    <3>1. Under(q, k)' = {}
      BY <2>2 DEF Under, SameEvidence
    <3>2. <<"evidence", q, k>> \notin DOMAIN idempotency
      BY <2>2 DEF RecordsHold, QualificationsFit
    <3>3. RecordedUnder(q, k)' = {}
      BY <3>2 DEF RecordedUnder, SameEvidence
    <3>4. QED
      BY <3>1, <3>3
  <2>3. QED
    BY <2>1, <2>2
<1>3. QED
  BY <1>1, <1>2 DEF EvidenceRecorded

LEMMA OldRequirementsStay ==
  ASSUME RequirementsRecorded, RecordsLast, NEW r \in DOMAIN requirements,
         requirements'[r].key = requirements[r].key, requirements[r].key[2] # NoKey
  PROVE  /\ requirements'[r].key \in DOMAIN idempotency'
         /\ r \in idempotency'[requirements'[r].key].response
BY DEF RequirementsRecorded, RecordsLast

\* Requests for requirements record what they create.
LEMMA RequirementsRecord ==
  ASSUME RequirementsRecorded, NEW ids, NEW key, NEW w,
         ids \cap DOMAIN requirements = {}, key \notin DOMAIN idempotency,
         DOMAIN requirements' = DOMAIN requirements \cup ids,
         \A r \in ids : requirements'[r] = NewRequirement(w, key),
         \A r \in DOMAIN requirements : requirements'[r] = requirements[r],
         NEW d, idempotency' = Record(key, d, ids),
         \A q, l : key # <<"evidence", q, l>>, UNCHANGED qualifications
  PROVE  RecordsLast /\ RequirementsRecorded' /\ SameEvidence
<1>1. /\ RecordsLast
      /\ \A x : x \in DOMAIN idempotency' <=> x \in DOMAIN idempotency \/ (key[2] # NoKey /\ x = key)
      /\ key[2] # NoKey => idempotency'[key].response = ids
  BY RecordFacts
<1>2. \A r \in ids : requirements'[r].key = key
  BY DEF NewRequirement
<1>3. RequirementsRecorded'
  <2>1. ASSUME NEW r \in DOMAIN requirements', requirements'[r].key[2] # NoKey
        PROVE  /\ requirements'[r].key \in DOMAIN idempotency'
               /\ r \in idempotency'[requirements'[r].key].response
    <3>1. CASE r \in ids
      BY <1>1, <1>2, <2>1, <3>1
    <3>2. CASE r \in DOMAIN requirements
      BY <1>1, <2>1, <3>2, OldRequirementsStay
    <3>3. QED
      BY <3>1, <3>2
  <2>2. QED
    BY <2>1 DEF RequirementsRecorded
<1>4. SameEvidence
  BY <1>1 DEF SameEvidence
<1>5. QED
  BY <1>1, <1>3, <1>4

LEMMA RecordsKeep ==
  ASSUME QualificationsFit, QualificationsFit', RequirementsFit, RecordsHold,
         RequirementsRecorded, EvidenceRecorded, [Next]_caseVars
  PROVE  RecordsHold' /\ RequirementsRecorded' /\ EvidenceRecorded'
<1>1. ASSUME UNCHANGED requirements, RecordsLast PROVE RequirementsRecorded'
  BY <1>1, OldRequirementsStay DEF RequirementsRecorded
<1>2. UNCHANGED idempotency => RecordsLast
  BY DEF RecordsLast
<1>3. UNCHANGED <<qualifications, idempotency>> => SameEvidence
  BY DEF SameEvidence
<1>4. CASE AssessmentRequest
  <2>1. UNCHANGED qualifications
    BY <1>4, AssessmentFrame
  <2>2. ASSUME NEW id, NEW k, NEW w, CreateRequirement(id, k, w)
        PROVE  RecordsLast /\ RequirementsRecorded' /\ SameEvidence
    <3>. DEFINE key == <<"requirement", k>>
    <3>1. /\ {id} \cap DOMAIN requirements = {} /\ key \notin DOMAIN idempotency
          /\ requirements' = Put(requirements, id, NewRequirement(w, key))
          /\ idempotency' = Record(key, w, {id})
      BY <2>2 DEF CreateRequirement
    <3>2. \A q, l : key # <<"evidence", q, l>>
      BY KeysDiffer
    <3>. HIDE DEF key
    <3>3. /\ DOMAIN requirements' = DOMAIN requirements \cup {id}
          /\ \A r \in {id} : requirements'[r] = NewRequirement(w, key)
          /\ \A r \in DOMAIN requirements : requirements'[r] = requirements[r]
      BY <3>1 DEF Put
    <3>4. QED
      BY <2>1, <3>1, <3>2, <3>3, RequirementsRecord
  <2>3. ASSUME NEW ids, NEW k, NEW w, ImportRequirements(ids, k, w)
        PROVE  RecordsLast /\ RequirementsRecorded' /\ SameEvidence
    <3>. DEFINE key == <<"batch", k>>
                d == <<Cardinality(ids), w>>
                new == NewRequirement(w, key)
    <3>1. /\ ids \cap DOMAIN requirements = {} /\ key \notin DOMAIN idempotency
          /\ requirements' = [r \in DOMAIN requirements \cup ids |->
                                 IF r \in ids THEN new ELSE requirements[r]]
          /\ idempotency' = Record(key, d, ids)
      BY <2>3 DEF ImportRequirements
    <3>2. \A q, l : key # <<"evidence", q, l>>
      BY KeysDiffer
    <3>3. new = NewRequirement(w, key)
      OBVIOUS
    <3>. HIDE DEF key, d, new
    <3>4. /\ DOMAIN requirements' = DOMAIN requirements \cup ids
          /\ \A r \in ids : requirements'[r] = new
          /\ \A r \in DOMAIN requirements : requirements'[r] = requirements[r]
      BY <3>1
    <3>5. QED
      BY <2>1, <3>1, <3>2, <3>3, <3>4, RequirementsRecord
  <2>4. ASSUME NEW id, NEW a, NEW rev, NEW v, AssessRequirement(id, a, rev, v)
        PROVE  RecordsLast /\ RequirementsRecorded' /\ SameEvidence
    <3>1. UNCHANGED idempotency
      BY <2>4 DEF AssessRequirement
    <3>2. /\ DOMAIN requirements' = DOMAIN requirements
          /\ \A r \in DOMAIN requirements : requirements'[r].key = requirements[r].key
      BY <2>4 DEF AssessRequirement, NoteAssessment, RequirementsFit, RequirementOK
    <3>3. RequirementsRecorded'
      BY <1>2, <3>1, <3>2, OldRequirementsStay DEF RequirementsRecorded
    <3>4. QED
      BY <1>2, <1>3, <2>1, <3>1, <3>3
  <2>5. RecordsLast /\ RequirementsRecorded' /\ SameEvidence
    BY <1>4, <2>2, <2>3, <2>4, Zenon DEF AssessmentRequest
  <2>6. QED
    BY <2>5, SameEvidenceKeeps
<1>5. CASE QualificationRequest
  <2>1. UNCHANGED requirements
    BY <1>5, QualificationFrame
  <2>2. ASSUME NEW id, NEW r, NEW w, CreateQualification(id, r, w)
        PROVE  RecordsLast /\ SameEvidence
    <3>. DEFINE new == [rule |-> r, status |-> "UNDER_TEST", version |-> 1,
                        variables |-> w, evidence |-> << >>]
    <3>1. /\ id \notin DOMAIN qualifications /\ qualifications' = Put(qualifications, id, new)
          /\ UNCHANGED idempotency
      BY <2>2 DEF CreateQualification
    <3>2. new.evidence = << >>
      OBVIOUS
    <3>. HIDE DEF new
    <3>3. /\ DOMAIN qualifications' = DOMAIN qualifications \cup {id}
          /\ qualifications'[id] = new
          /\ \A q \in DOMAIN qualifications : qualifications'[q] = qualifications[q]
      BY <3>1 DEF Put
    <3>4. QED
      BY <1>2, <3>1, <3>2, <3>3 DEF SameEvidence
  <2>3. ASSUME NEW id, NEW v, EvaluateQualification(id, v) \/ WithdrawQualification(id, v)
        PROVE  RecordsLast /\ SameEvidence
    <3>1. UNCHANGED idempotency
      BY <2>3 DEF EvaluateQualification, WithdrawQualification
    <3>2. /\ DOMAIN qualifications' = DOMAIN qualifications
          /\ \A q \in DOMAIN qualifications :
                qualifications'[q].evidence = qualifications[q].evidence
      BY <2>3, EvaluateQualificationKeeps, WithdrawQualificationKeeps
    <3>3. QED
      BY <1>2, <3>1, <3>2 DEF SameEvidence
  <2>4. ASSUME NEW id \in QualId, NEW k \in Key \cup {NoKey}, NEW e, AddEvidence(id, k, e)
        PROVE  RecordsLast /\ RecordsHold' /\ EvidenceRecorded'
    BY <2>4, AddEvidenceRecords
  <2>5. \/ RecordsLast /\ SameEvidence
        \/ RecordsLast /\ RecordsHold' /\ EvidenceRecorded'
    BY <1>5, <2>2, <2>3, <2>4, Zenon DEF QualificationRequest
  <2>6. QED
    BY <1>1, <2>1, <2>5, SameEvidenceKeeps
<1>6. CASE UNCHANGED <<requirements, qualifications, idempotency>>
  BY <1>1, <1>2, <1>3, <1>6, SameEvidenceKeeps
<1>7. QED
  BY <1>4, <1>5, <1>6, RuleFrame, ProcedureFrame, ReviewFrame, LoopFrame, Steps
     DEF caseVars

-----------------------------------------------------------------------------
(* Change reviews.                                                         *)

ReviewsFit ==
    /\ DOMAIN changeReviews \subseteq ReviewId
    /\ \A c \in DOMAIN changeReviews : changeReviews[c] \in ChangeReview

LEMMA CreateChangeReviewKeeps ==
  ASSUME RulesFit, ProceduresGood, ReviewsFit, ReviewsHold,
         NEW id \in ReviewId, NEW from \in RevId, NEW to \in RevId, NEW r \in RuleId,
         CreateChangeReview(id, from, to, r)
  PROVE  ReviewsFit' /\ ReviewsHold'
<1>. DEFINE b == Blocking(rules[r].content, revisions[from].variables, revisions[to].variables)
            new == [from |-> from, to |-> to, rule |-> r, status |-> "READY", version |-> 1,
                    blocking |-> b]
<1>1. /\ {from, to} \subseteq DOMAIN revisions /\ r \in DOMAIN rules
      /\ id \notin DOMAIN changeReviews /\ changeReviews' = Put(changeReviews, id, new)
  BY DEF CreateChangeReview
<1>2. b \in BOOLEAN
  <2>1. rules[r].content \in Content
    BY <1>1 DEF RulesFit, RuleSet
  <2>2. revisions[from].variables \in Variables /\ revisions[to].variables \in Variables
    BY <1>1 DEF ProceduresGood, ProceduresFit, RevisionOK
  <2>3. QED
    BY <2>1, <2>2, OperatorsAssumption
<1>. HIDE DEF b
<1>3. new \in ChangeReview /\ new.status = "READY"
  BY <1>2 DEF ChangeReview
<1>. HIDE DEF new
<1>4. /\ DOMAIN changeReviews' = DOMAIN changeReviews \cup {id}
      /\ changeReviews'[id] = new
      /\ \A c \in DOMAIN changeReviews : changeReviews'[c] = changeReviews[c]
  BY <1>1 DEF Put
<1>5. QED
  BY <1>3, <1>4 DEF ReviewsFit, ReviewsHold

LEMMA DecideChangeReviewKeeps ==
  ASSUME ReviewsFit, ReviewsHold, NEW id, NEW v,
         NEW d \in {"APPROVED", "REQUALIFICATION_REQUIRED"}, DecideChangeReview(id, v, d)
  PROVE  ReviewsFit' /\ ReviewsHold'
<1>. DEFINE y == [changeReviews[id] EXCEPT !.status = d, !.version = @ + 1]
<1>1. /\ id \in DOMAIN changeReviews
      /\ changeReviews[id].blocking => d # "APPROVED"
      /\ changeReviews' = [changeReviews EXCEPT ![id] = y]
  BY DEF DecideChangeReview, MayDecide
<1>2. changeReviews[id] \in ChangeReview
  BY <1>1 DEF ReviewsFit
<1>3. y \in ChangeReview /\ y.status = d /\ y.blocking = changeReviews[id].blocking
  <2>1. changeReviews[id].version + 1 \in Nat
    BY <1>2 DEF ChangeReview
  <2>2. QED
    BY <1>2, <2>1 DEF ChangeReview
<1>. HIDE DEF y
<1>4. QED
  BY <1>1, <1>3 DEF ReviewsFit, ReviewsHold

LEMMA ReviewsKeep ==
  ASSUME RulesFit, ProceduresGood, ReviewsFit, ReviewsHold, [Next]_caseVars
  PROVE  ReviewsFit' /\ ReviewsHold'
<1>1. CASE ReviewRequest
  BY <1>1, CreateChangeReviewKeeps, DecideChangeReviewKeeps DEF ReviewRequest
<1>2. CASE UNCHANGED changeReviews
  BY <1>2 DEF ReviewsFit, ReviewsHold
<1>3. QED
  BY <1>1, <1>2, RuleFrame, QualificationFrame, ProcedureFrame, AssessmentFrame, LoopFrame, Steps
     DEF caseVars

LEMMA TimeKeeps ==
  ASSUME now \in Time, [Next]_caseVars PROVE now' \in Time
<1>1. CASE Tick
  BY <1>1, BoundsAssumption DEF Tick, Time
<1>2. CASE UNCHANGED now
  BY <1>2
<1>3. CASE RunDueTasks \/ ScanExpiredEvidence \/ Looks
  BY <1>3, LookFrame DEF RunDueTasks, ScanExpiredEvidence
<1>4. QED
  BY <1>1, <1>2, <1>3, RuleFrame, QualificationFrame, ProcedureFrame, AssessmentFrame,
     ReviewFrame, Steps
     DEF caseVars

-----------------------------------------------------------------------------
(* Versions.                                                               *)

\* Where a qualification stands in its life, beside the evidence it has taken.
StageOf(s) ==
    CASE s = "UNDER_TEST" -> 1
      [] s \in {"QUALIFIED", "FAILED"} -> 2
      [] s = "WITHDRAWN" -> 3
Counts(x) == x.version = Len(x.evidence) + StageOf(x.status)

\* A move that counts as one more leaves the count right.
LEMMA MoveCounts ==
  ASSUME NEW x \in Qualification, Counts(x),
         NEW s \in {"UNDER_TEST", "QUALIFIED", "FAILED", "WITHDRAWN"},
         StageOf(s) = StageOf(x.status) + 1
  PROVE  Counts([x EXCEPT !.status = s, !.version = @ + 1])
<1>. DEFINE y == [x EXCEPT !.status = s, !.version = @ + 1]
<1>1. y.status = s /\ y.evidence = x.evidence /\ y.version = x.version + 1
  BY DEF Qualification
<1>2. Len(x.evidence) \in Nat /\ StageOf(x.status) \in {1, 2, 3}
  BY DEF Qualification, StageOf
<1>. HIDE DEF y
<1>3. Counts(y)
  BY <1>1, <1>2 DEF Counts
<1>4. QED
  BY <1>3 DEF y

LEMMA EvidenceCounts ==
  ASSUME NEW x \in Qualification, Counts(x), NEW e \in Evidence
  PROVE  Counts([x EXCEPT !.evidence = Append(@, e), !.version = @ + 1])
<1>. DEFINE y == [x EXCEPT !.evidence = Append(@, e), !.version = @ + 1]
<1>1. y.status = x.status /\ y.evidence = Append(x.evidence, e) /\ y.version = x.version + 1
  BY DEF Qualification
<1>2. /\ x.evidence \in Seq(Evidence) /\ Len(x.evidence) \in Nat
      /\ StageOf(x.status) \in {1, 2, 3}
  BY DEF Qualification, StageOf
<1>3. Len(y.evidence) = Len(x.evidence) + 1
  BY <1>1, <1>2
<1>. HIDE DEF y
<1>4. Counts(y)
  BY <1>1, <1>2, <1>3 DEF Counts
<1>5. QED
  BY <1>4 DEF y

LEMMA QualificationsCountOn ==
  ASSUME QualificationsFit, QualificationsCount, [Next]_caseVars
  PROVE  QualificationsCount'
<1>1. \A q \in DOMAIN qualifications : qualifications[q] \in Qualification /\ Counts(qualifications[q])
  BY DEF QualificationsFit, QualificationsCount, Counts, StageOf
<1>2. SUFFICES ASSUME NEW q \in DOMAIN qualifications'
               PROVE  Counts(qualifications'[q])
  BY DEF QualificationsCount, Counts, StageOf
<1>3. ASSUME NEW id, NEW r, NEW w, CreateQualification(id, r, w)
      PROVE  Counts(qualifications'[q])
  <2>. DEFINE new == [rule |-> r, status |-> "UNDER_TEST", version |-> 1,
                      variables |-> w, evidence |-> << >>]
  <2>1. Counts(new)
    BY DEF Counts, StageOf
  <2>2. qualifications' = Put(qualifications, id, new)
    BY <1>3 DEF CreateQualification
  <2>. HIDE DEF new
  <2>3. QED
    BY <1>1, <2>1, <2>2 DEF Put
<1>4. ASSUME NEW id, NEW k \in Key \cup {NoKey}, NEW v, NEW good \in BOOLEAN, NEW x \in Time,
             AddEvidence(id, k, EvidenceRequest(v, good, x))
      PROVE  Counts(qualifications'[q])
  <2>. DEFINE e == [good |-> good, expires |-> x, key |-> k]
              y == [qualifications[id] EXCEPT !.evidence = Append(@, e), !.version = @ + 1]
  <2>1. id \in DOMAIN qualifications /\ qualifications' = [qualifications EXCEPT ![id] = y]
    BY <1>4 DEF AddEvidence, EvidenceRequest
  <2>2. e \in Evidence
    BY DEF Evidence
  <2>. HIDE DEF e
  <2>3. Counts(y)
    BY <1>1, <2>1, <2>2, EvidenceCounts
  <2>. HIDE DEF y
  <2>4. QED
    BY <1>1, <2>1, <2>3
<1>5. ASSUME NEW id, NEW v, EvaluateQualification(id, v)
      PROVE  Counts(qualifications'[q])
  <2>. DEFINE s == IF EvaluatePasses(qualifications[id]) THEN "QUALIFIED" ELSE "FAILED"
              y == [qualifications[id] EXCEPT !.status = s, !.version = @ + 1]
  <2>1. /\ id \in DOMAIN qualifications /\ qualifications[id].status = "UNDER_TEST"
        /\ qualifications' = [qualifications EXCEPT ![id] = y]
    BY <1>5 DEF EvaluateQualification
  <2>2. s \in {"QUALIFIED", "FAILED"}
    OBVIOUS
  <2>. HIDE DEF s
  <2>3. StageOf(s) = StageOf(qualifications[id].status) + 1
    BY <2>1, <2>2 DEF StageOf
  <2>4. Counts(y)
    BY <1>1, <2>1, <2>2, <2>3, MoveCounts
  <2>. HIDE DEF y
  <2>5. QED
    BY <1>1, <2>1, <2>4
<1>6. ASSUME NEW id, NEW v, WithdrawQualification(id, v)
      PROVE  Counts(qualifications'[q])
  <2>. DEFINE y == [qualifications[id] EXCEPT !.status = "WITHDRAWN", !.version = @ + 1]
  <2>1. /\ id \in DOMAIN qualifications /\ qualifications[id].status = "QUALIFIED"
        /\ qualifications' = [qualifications EXCEPT ![id] = y]
    BY <1>6 DEF WithdrawQualification
  <2>2. StageOf("WITHDRAWN") = StageOf(qualifications[id].status) + 1
    BY <2>1 DEF StageOf
  <2>3. Counts(y)
    BY <1>1, <2>1, <2>2, MoveCounts
  <2>. HIDE DEF y
  <2>4. QED
    BY <1>1, <2>1, <2>3
<1>7. CASE QualificationRequest
  BY <1>3, <1>4, <1>5, <1>6, <1>7, Zenon DEF QualificationRequest
<1>8. CASE UNCHANGED qualifications
  BY <1>1, <1>8
<1>9. QED
  BY <1>7, <1>8, RuleFrame, ProcedureFrame, AssessmentFrame, ReviewFrame, LoopFrame, Steps
     DEF caseVars

ProceduresListed ==
    \A p \in DOMAIN procedures :
        /\ procedures[p].revisions = {r \in DOMAIN revisions : revisions[r].procedure = p}
        /\ IsFiniteSet(procedures[p].revisions)
ProceduresInStep == ProceduresListed /\ ProceduresCount

\* What a procedure has published is among its revisions, so it can be counted.
LEMMA PublishedIsFinite ==
  ASSUME ProceduresListed, NEW p \in DOMAIN procedures
  PROVE  /\ IsFiniteSet(PublishedOf(p))
         /\ Cardinality(PublishedOf(p)) \in Nat
         /\ Cardinality(procedures[p].revisions) \in Nat
<1>1. PublishedOf(p) \in SUBSET procedures[p].revisions
  BY DEF PublishedOf
<1>2. IsFiniteSet(procedures[p].revisions)
  BY DEF ProceduresListed
<1>3. IsFiniteSet(PublishedOf(p))
  BY <1>1, <1>2, FS_Subset
<1>4. QED
  BY <1>2, <1>3, FS_CardinalityType

LEMMA CreateProcedureCounts ==
  ASSUME ProceduresFit, ProceduresHold, ProceduresInStep, NEW id, NEW rev, NEW r, NEW Q, NEW w,
         CreateProcedure(id, rev, r, Q, w)
  PROVE  ProceduresInStep'
<1>. DEFINE new == DraftRevision(id, r, Q, w)
            first == [revisions |-> {rev}, published |-> Nothing, version |-> 1]
<1>1. new.status = "DRAFT" /\ new.procedure = id /\ first.revisions = {rev} /\ first.version = 1
  BY DEF DraftRevision
<1>. HIDE DEF new, first
<1>2. /\ id \notin DOMAIN procedures /\ rev \notin DOMAIN revisions
      /\ procedures' = Put(procedures, id, first)
      /\ revisions' = Put(revisions, rev, new)
  BY DEF CreateProcedure, new, first
<1>3. /\ DOMAIN procedures' = DOMAIN procedures \cup {id}
      /\ procedures'[id] = first
      /\ \A p \in DOMAIN procedures : procedures'[p] = procedures[p]
      /\ DOMAIN revisions' = DOMAIN revisions \cup {rev}
      /\ revisions'[rev] = new
      /\ \A x \in DOMAIN revisions : revisions'[x] = revisions[x]
  BY <1>2 DEF Put
<1>4. ASSUME NEW p \in DOMAIN procedures
      PROVE  /\ procedures'[p].revisions = {x \in DOMAIN revisions' : revisions'[x].procedure = p}
             /\ IsFiniteSet(procedures'[p].revisions)
             /\ PublishedOf(p)' = PublishedOf(p)
  BY <1>1, <1>2, <1>3 DEF ProceduresInStep, ProceduresListed, PublishedOf
<1>5. {x \in DOMAIN revisions' : revisions'[x].procedure = id} = {rev}
  BY <1>1, <1>2, <1>3 DEF ProceduresHold
<1>6. PublishedOf(id)' = {}
  BY <1>1, <1>3 DEF PublishedOf
<1>7. ProceduresListed'
  <2>1. procedures'[id].revisions = {rev} /\ IsFiniteSet({rev})
    BY <1>1, <1>3, FS_Singleton
  <2>2. QED
    BY <1>3, <1>4, <1>5, <2>1 DEF ProceduresListed
<1>8. ProceduresCount'
  <2>1. procedures'[id].version =
           Cardinality(procedures'[id].revisions) + Cardinality(PublishedOf(id)')
    <3>1. Cardinality({rev}) = 1 /\ Cardinality({}) = 0
      BY FS_Singleton, FS_EmptySet
    <3>2. procedures'[id].version = 1 /\ procedures'[id].revisions = {rev}
      BY <1>1, <1>3
    <3>3. QED
      BY <1>6, <3>1, <3>2
  <2>2. QED
    BY <1>3, <1>4, <2>1 DEF ProceduresInStep, ProceduresCount
<1>9. QED
  BY <1>7, <1>8 DEF ProceduresInStep

LEMMA CreateRevisionCounts ==
  ASSUME ProceduresFit, ProceduresInStep, NEW id, NEW v, NEW rev, NEW r, NEW Q, NEW w,
         CreateRevision(id, v, rev, r, Q, w)
  PROVE  ProceduresInStep'
<1>. DEFINE new == DraftRevision(id, r, Q, w)
            y == [procedures[id] EXCEPT !.revisions = @ \cup {rev}, !.version = @ + 1]
            R == procedures[id].revisions
<1>1. new.status = "DRAFT" /\ new.procedure = id
  BY DEF DraftRevision
<1>2. /\ id \in DOMAIN procedures /\ rev \notin DOMAIN revisions
      /\ procedures' = [procedures EXCEPT ![id] = y]
      /\ revisions' = Put(revisions, rev, new)
  BY DEF CreateRevision, AddRevision
<1>3. procedures[id] \in Procedure
  BY <1>2 DEF ProceduresFit
<1>4. y.revisions = R \cup {rev} /\ y.version = procedures[id].version + 1
  BY <1>3 DEF Procedure
<1>. HIDE DEF new, y
<1>5. /\ DOMAIN procedures' = DOMAIN procedures
      /\ procedures'[id] = y
      /\ \A p \in DOMAIN procedures \ {id} : procedures'[p] = procedures[p]
      /\ DOMAIN revisions' = DOMAIN revisions \cup {rev}
      /\ revisions'[rev] = new
      /\ \A x \in DOMAIN revisions : revisions'[x] = revisions[x]
  BY <1>2 DEF Put
<1>6. ASSUME NEW p \in DOMAIN procedures, p # id
      PROVE  /\ procedures'[p].revisions = {x \in DOMAIN revisions' : revisions'[x].procedure = p}
             /\ IsFiniteSet(procedures'[p].revisions)
             /\ PublishedOf(p)' = PublishedOf(p)
  BY <1>1, <1>2, <1>5, <1>6 DEF ProceduresInStep, ProceduresListed, PublishedOf
<1>7. R = {x \in DOMAIN revisions : revisions[x].procedure = id} /\ IsFiniteSet(R)
  BY <1>2 DEF ProceduresInStep, ProceduresListed
<1>8. /\ rev \notin R
      /\ {x \in DOMAIN revisions' : revisions'[x].procedure = id} = R \cup {rev}
      /\ PublishedOf(id)' = PublishedOf(id)
  BY <1>1, <1>2, <1>4, <1>5, <1>7 DEF PublishedOf
<1>9. IsFiniteSet(R \cup {rev}) /\ Cardinality(R \cup {rev}) = Cardinality(R) + 1
  BY <1>7, <1>8, FS_AddElement
<1>10. ProceduresListed'
  BY <1>4, <1>5, <1>6, <1>8, <1>9 DEF ProceduresListed
<1>11. ProceduresCount'
  <2>1. procedures'[id].version =
           Cardinality(procedures'[id].revisions) + Cardinality(PublishedOf(id)')
    <3>1. procedures[id].version = Cardinality(R) + Cardinality(PublishedOf(id))
      BY <1>2 DEF ProceduresInStep, ProceduresCount
    <3>2. Cardinality(R) \in Nat /\ Cardinality(PublishedOf(id)) \in Nat
      BY <1>2, PublishedIsFinite DEF ProceduresInStep
    <3>3. /\ procedures'[id].version = procedures[id].version + 1
          /\ Cardinality(procedures'[id].revisions) = Cardinality(R) + 1
          /\ Cardinality(PublishedOf(id)') = Cardinality(PublishedOf(id))
      BY <1>4, <1>5, <1>8, <1>9
    <3>. HIDE DEF R
    <3>4. QED
      BY <3>1, <3>2, <3>3
  <2>2. QED
    BY <1>5, <1>6, <2>1 DEF ProceduresInStep, ProceduresCount
<1>12. QED
  BY <1>10, <1>11 DEF ProceduresInStep

\* Deriving a range publishes nothing.
LEMMA DeriveCoverageCounts ==
  ASSUME ProceduresFit, ProceduresInStep, NEW id, NEW v, DeriveCoverage(id, v)
  PROVE  ProceduresInStep'
<1>1. /\ id \in DOMAIN revisions /\ revisions[id].status = "DRAFT"
      /\ DOMAIN revisions' = DOMAIN revisions
      /\ \A r \in DOMAIN revisions \ {id} : revisions'[r] = revisions[r]
      /\ UNCHANGED procedures
  BY DEF DeriveCoverage
<1>2. revisions'[id].status = "IN_REVIEW" /\ revisions'[id].procedure = revisions[id].procedure
  <2>. DEFINE c == Coverage(ContentOf(revisions[id].rule), SourceVariables(id))
              g == HasGaps(ContentOf(revisions[id].rule), SourceVariables(id),
                           revisions[id].variables)
              y == [revisions[id] EXCEPT !.coverage = c, !.gaps = g, !.status = "IN_REVIEW",
                                         !.version = @ + 1]
  <2>1. revisions'[id] = y
    BY DEF DeriveCoverage
  <2>2. RevisionOK(revisions[id])
    BY <1>1 DEF ProceduresFit
  <2>. HIDE DEF c, g
  <2>3. y.status = "IN_REVIEW" /\ y.procedure = revisions[id].procedure
    BY <2>2 DEF RevisionOK
  <2>4. QED
    BY <2>1, <2>3
<1>3. ASSUME NEW p \in DOMAIN procedures
      PROVE  /\ procedures[p].revisions = {x \in DOMAIN revisions' : revisions'[x].procedure = p}
             /\ PublishedOf(p)' = PublishedOf(p)
  <2>1. \A x \in DOMAIN revisions : revisions'[x].procedure = revisions[x].procedure
    BY <1>1, <1>2
  <2>2. procedures[p].revisions = {x \in DOMAIN revisions : revisions[x].procedure = p}
    BY DEF ProceduresInStep, ProceduresListed
  <2>3. QED
    BY <1>1, <1>2, <2>1, <2>2 DEF PublishedOf
<1>4. QED
  BY <1>1, <1>3 DEF ProceduresInStep, ProceduresListed, ProceduresCount

\* Publishing a revision adds it to what its procedure has published, and the one
\* it replaces stays there.
LEMMA PublishRevisionCounts ==
  ASSUME ProceduresGood, ProceduresInStep, NEW id, NEW v, PublishRevision(id, v)
  PROVE  ProceduresInStep'
<1>. PICK p : p = revisions[id].procedure
  OBVIOUS
<1>. DEFINE z == [procedures[p] EXCEPT !.published = id, !.version = @ + 1]
            P == PublishedOf(p)
<1>1. /\ id \in DOMAIN revisions /\ revisions[id].status = "IN_REVIEW"
      /\ revisions' = Replace(id) /\ procedures' = [procedures EXCEPT ![p] = z]
  BY DEF PublishRevision
<1>2. p \in DOMAIN procedures /\ procedures[p] \in Procedure
  BY <1>1 DEF ProceduresGood, ProceduresFit, ProceduresHold
<1>3. z.revisions = procedures[p].revisions /\ z.version = procedures[p].version + 1
  BY <1>2 DEF Procedure
<1>4. /\ DOMAIN procedures' = DOMAIN procedures /\ procedures'[p] = z
      /\ \A x \in DOMAIN procedures \ {p} : procedures'[x] = procedures[x]
  BY <1>1, <1>2
<1>. HIDE DEF z
<1>5. /\ DOMAIN revisions' = DOMAIN revisions
      /\ \A r \in DOMAIN revisions : revisions'[r].procedure = revisions[r].procedure
      /\ PublishedOnce(id)'
  <2>1. /\ DOMAIN revisions' = DOMAIN revisions
        /\ revisions'[id] = [revisions[id] EXCEPT !.status = "PUBLISHED", !.version = @ + 1]
    BY <1>1 DEF Replace
  <2>2. RevisionOK(revisions[id])
    BY <1>1 DEF ProceduresGood, ProceduresFit
  <2>3. revisions'[id].status = "PUBLISHED"
    BY <2>1, <2>2 DEF RevisionOK
  <2>4. RevisionsLast
    BY PublishRevisionKeeps
  <2>5. QED
    BY <2>1, <2>3, <2>4 DEF RevisionsLast, PublishedOnce
<1>6. \A r \in DOMAIN revisions \ {id} : PublishedOnce(r)' <=> PublishedOnce(r)
  <2>1. ASSUME NEW r \in DOMAIN revisions \ {id}, PublishedOnce(r)' PROVE PublishedOnce(r)
    <3>. DEFINE old == procedures[p].published
    <3>1. CASE r = old
      BY <1>1, <1>2, <3>1, NothingAssumption
         DEF ProceduresGood, ProceduresFit, ProceduresHold, PublishedIsPointedAt, PublishedOnce
    <3>2. CASE r # old
      <4>1. revisions'[r] = revisions[r]
        BY <1>1, <3>2 DEF Replace
      <4>2. QED
        BY <2>1, <4>1 DEF PublishedOnce
    <3>3. QED
      BY <3>1, <3>2
  <2>2. RevisionsLast
    BY PublishRevisionKeeps
  <2>3. QED
    BY <2>1, <2>2 DEF RevisionsLast
<1>7. ~PublishedOnce(id)
  BY <1>1 DEF PublishedOnce
<1>8. \A x \in DOMAIN procedures :
         procedures[x].revisions = {r \in DOMAIN revisions : revisions[r].procedure = x}
  BY DEF ProceduresInStep, ProceduresListed
<1>9. /\ \A x \in DOMAIN procedures : procedures'[x].revisions = procedures[x].revisions
      /\ ProceduresListed'
  BY <1>3, <1>4, <1>5 DEF ProceduresInStep, ProceduresListed
<1>10. \A x \in DOMAIN procedures \ {p} : PublishedOf(x)' = PublishedOf(x)
  BY <1>1, <1>5, <1>6, <1>8, <1>9 DEF PublishedOf, PublishedOnce
<1>11. PublishedOf(p)' = P \cup {id} /\ id \notin P
  BY <1>1, <1>2, <1>5, <1>6, <1>7, <1>8, <1>9 DEF PublishedOf, PublishedOnce
<1>12. /\ IsFiniteSet(P) /\ Cardinality(P) \in Nat
       /\ Cardinality(procedures[p].revisions) \in Nat
  BY <1>2, PublishedIsFinite DEF ProceduresInStep
<1>13. procedures'[p].version =
          Cardinality(procedures'[p].revisions) + Cardinality(PublishedOf(p)')
  <2>1. procedures[p].version = Cardinality(procedures[p].revisions) + Cardinality(P)
    BY <1>2 DEF ProceduresInStep, ProceduresCount
  <2>2. Cardinality(PublishedOf(p)') = Cardinality(P) + 1
    BY <1>11, <1>12, FS_AddElement
  <2>3. /\ procedures'[p].version = procedures[p].version + 1
        /\ procedures'[p].revisions = procedures[p].revisions
    BY <1>2, <1>3, <1>4, <1>9
  <2>. HIDE DEF P
  <2>4. QED
    BY <1>12, <2>1, <2>2, <2>3
<1>14. ProceduresCount'
  BY <1>4, <1>9, <1>10, <1>13 DEF ProceduresInStep, ProceduresCount
<1>15. QED
  BY <1>9, <1>14 DEF ProceduresInStep

LEMMA ProceduresStayInStep ==
  ASSUME ProceduresGood, ProceduresInStep, [Next]_caseVars
  PROVE  ProceduresInStep'
<1>1. CASE ProcedureRequest
  BY <1>1, CreateProcedureCounts, CreateRevisionCounts, DeriveCoverageCounts,
     PublishRevisionCounts DEF ProcedureRequest, ProceduresGood
<1>2. CASE UNCHANGED <<procedures, revisions>>
  BY <1>2 DEF ProceduresInStep, ProceduresListed, ProceduresCount, PublishedOf
<1>3. QED
  BY <1>1, <1>2, RuleFrame, QualificationFrame, AssessmentFrame, ReviewFrame, LoopFrame, Steps
     DEF caseVars

RequirementsListed ==
    \A r \in DOMAIN requirements :
        /\ requirements[r].assessments = AssessmentsOf(r)
        /\ IsFiniteSet(requirements[r].assessments)
RequirementsInStep == RequirementsListed /\ RequirementsCount

LEMMA VersionParts ==
  /\ ListsHold <=> ProceduresListed /\ RequirementsListed
  /\ ListsHold /\ VersionsCountWrites
        <=> QualificationsCount /\ ProceduresInStep /\ RequirementsInStep
BY DEF ListsHold, VersionsCountWrites, ProceduresListed, RequirementsListed,
       ProceduresInStep, RequirementsInStep

\* A requirement that is new has not been assessed.
LEMMA NewRequirementsCount ==
  ASSUME AssessmentsHold, RequirementsInStep, UNCHANGED assessments,
         NEW ids, ids \cap DOMAIN requirements = {},
         DOMAIN requirements' = DOMAIN requirements \cup ids,
         \A r \in DOMAIN requirements : requirements'[r] = requirements[r],
         \A r \in ids : requirements'[r].assessments = {} /\ requirements'[r].version = 1
  PROVE  RequirementsInStep'
<1>1. \A r : AssessmentsOf(r)' = AssessmentsOf(r)
  BY DEF AssessmentsOf
<1>2. \A r \in ids : AssessmentsOf(r) = {}
  BY DEF AssessmentsHold, AssessmentsOf
<1>3. RequirementsListed'
  BY <1>1, <1>2, FS_EmptySet DEF RequirementsInStep, RequirementsListed
<1>4. RequirementsCount'
  BY <1>1, <1>2, FS_EmptySet DEF RequirementsInStep, RequirementsCount
<1>5. QED
  BY <1>3, <1>4 DEF RequirementsInStep

LEMMA AssessRequirementCounts ==
  ASSUME RequirementsFit, RequirementsInStep, NEW id, NEW a, NEW rev, NEW v,
         AssessRequirement(id, a, rev, v)
  PROVE  RequirementsInStep'
<1>. DEFINE new == [requirement |-> id, revision |-> rev, rule |-> revisions[rev].rule,
                    conclusion |-> Conclude(rules[revisions[rev].rule].content,
                                            revisions[rev].coverage,
                                            requirements[id].variables),
                    stale |-> FALSE, reason |-> ""]
            y == [requirements[id] EXCEPT !.assessments = @ \cup {a}, !.version = @ + 1]
            A == AssessmentsOf(id)
<1>1. /\ id \in DOMAIN requirements /\ a \notin DOMAIN assessments
      /\ assessments' = Put(assessments, a, new)
      /\ requirements' = [requirements EXCEPT ![id] = y]
  BY DEF AssessRequirement, RuleFor, NoteAssessment
<1>2. RequirementOK(requirements[id])
  BY <1>1 DEF RequirementsFit
<1>3. /\ y.assessments = requirements[id].assessments \cup {a}
      /\ y.version = requirements[id].version + 1
  BY <1>2 DEF RequirementOK
<1>4. new.requirement = id
  OBVIOUS
<1>. HIDE DEF new, y
<1>5. /\ DOMAIN requirements' = DOMAIN requirements
      /\ requirements'[id] = y
      /\ \A r \in DOMAIN requirements \ {id} : requirements'[r] = requirements[r]
      /\ DOMAIN assessments' = DOMAIN assessments \cup {a}
      /\ assessments'[a] = new
      /\ \A x \in DOMAIN assessments : assessments'[x] = assessments[x]
  BY <1>1 DEF Put
<1>6. /\ AssessmentsOf(id)' = A \cup {a} /\ a \notin A
      /\ \A r \in DOMAIN requirements \ {id} : AssessmentsOf(r)' = AssessmentsOf(r)
  BY <1>1, <1>4, <1>5 DEF AssessmentsOf
<1>7. requirements[id].assessments = A /\ IsFiniteSet(A)
  BY <1>1 DEF RequirementsInStep, RequirementsListed
<1>8. /\ IsFiniteSet(A \cup {a}) /\ Cardinality(A \cup {a}) = Cardinality(A) + 1
      /\ Cardinality(A) \in Nat
  BY <1>6, <1>7, FS_AddElement, FS_CardinalityType
<1>9. RequirementsListed'
  BY <1>3, <1>5, <1>6, <1>7, <1>8 DEF RequirementsInStep, RequirementsListed
<1>10. requirements'[id].version = 1 + Cardinality(AssessmentsOf(id)')
  <2>1. requirements[id].version = 1 + Cardinality(A)
    BY <1>1 DEF RequirementsInStep, RequirementsCount
  <2>2. /\ requirements'[id].version = requirements[id].version + 1
        /\ Cardinality(AssessmentsOf(id)') = Cardinality(A) + 1
    BY <1>3, <1>5, <1>6, <1>8
  <2>. HIDE DEF A
  <2>3. QED
    BY <1>8, <2>1, <2>2
<1>11. RequirementsCount'
  BY <1>5, <1>6, <1>10 DEF RequirementsInStep, RequirementsCount
<1>12. QED
  BY <1>9, <1>11 DEF RequirementsInStep

LEMMA RequirementsStayInStep ==
  ASSUME RequirementsFit, AssessmentsHold, RequirementsInStep, [Next]_caseVars,
         AssessmentsFit, TasksGood
  PROVE  RequirementsInStep'
<1>1. CASE AssessmentRequest
  <2>1. ASSUME NEW id, NEW k, NEW w, CreateRequirement(id, k, w)
        PROVE  RequirementsInStep'
    <3>. DEFINE new == NewRequirement(w, <<"requirement", k>>)
    <3>1. new.assessments = {} /\ new.version = 1
      BY DEF NewRequirement
    <3>. HIDE DEF new
    <3>2. /\ id \notin DOMAIN requirements /\ requirements' = Put(requirements, id, new)
          /\ UNCHANGED assessments
      BY <2>1 DEF CreateRequirement, new
    <3>3. /\ {id} \cap DOMAIN requirements = {}
          /\ DOMAIN requirements' = DOMAIN requirements \cup {id}
          /\ \A r \in DOMAIN requirements : requirements'[r] = requirements[r]
          /\ requirements'[id] = new
      BY <3>2 DEF Put
    <3>4. \A r \in {id} : requirements'[r].assessments = {} /\ requirements'[r].version = 1
      BY <3>1, <3>3
    <3>5. QED
      BY <3>2, <3>3, <3>4, NewRequirementsCount
  <2>2. ASSUME NEW ids, NEW k, NEW w, ImportRequirements(ids, k, w)
        PROVE  RequirementsInStep'
    <3>. DEFINE new == NewRequirement(w, <<"batch", k>>)
    <3>1. new.assessments = {} /\ new.version = 1
      BY DEF NewRequirement
    <3>. HIDE DEF new
    <3>2. /\ ids \cap DOMAIN requirements = {}
          /\ requirements' = [r \in DOMAIN requirements \cup ids |->
                                IF r \in ids THEN new ELSE requirements[r]]
          /\ UNCHANGED assessments
      BY <2>2 DEF ImportRequirements, new
    <3>3. /\ DOMAIN requirements' = DOMAIN requirements \cup ids
          /\ \A r \in DOMAIN requirements : requirements'[r] = requirements[r]
          /\ \A r \in ids : requirements'[r] = new
      BY <3>2
    <3>4. \A r \in ids : requirements'[r].assessments = {} /\ requirements'[r].version = 1
      BY <3>1, <3>3
    <3>5. QED
      BY <3>2, <3>3, <3>4, NewRequirementsCount
  <2>3. QED
    BY <1>1, <2>1, <2>2, AssessRequirementCounts, Zenon DEF AssessmentRequest
<1>2. CASE UNCHANGED requirements /\ DOMAIN assessments' = DOMAIN assessments /\ AssessmentsLast
  <2>1. \A r : AssessmentsOf(r)' = AssessmentsOf(r)
    BY <1>2 DEF AssessmentsLast, AssessmentsOf
  <2>2. QED
    BY <1>2, <2>1 DEF RequirementsInStep, RequirementsListed, RequirementsCount
<1>3. CASE UNCHANGED <<requirements, assessments>>
  BY <1>3 DEF RequirementsInStep, RequirementsListed, RequirementsCount, AssessmentsOf
<1>4. CASE RuleRequest
  <2>1. ASSUME NEW id, NEW c, CreateRuleSet(id, c)
        PROVE  UNCHANGED <<requirements, assessments>>
    BY <2>1 DEF CreateRuleSet
  <2>2. ASSUME NEW id, NEW v, NEW c, UpdateRuleSet(id, v, c)
        PROVE  UNCHANGED <<requirements, assessments>>
    BY <2>2 DEF UpdateRuleSet
  <2>3. QED
    BY <1>2, <1>3, <1>4, <2>1, <2>2, RuleFrame, PublishRuleSetMarks DEF RuleRequest
<1>5. CASE QualificationRequest
  <2>1. ASSUME NEW id, NEW r, NEW w, CreateQualification(id, r, w)
        PROVE  UNCHANGED <<requirements, assessments>>
    BY <2>1 DEF CreateQualification
  <2>2. ASSUME NEW id, NEW k, NEW e, AddEvidence(id, k, e)
        PROVE  UNCHANGED <<requirements, assessments>>
    BY <2>2 DEF AddEvidence
  <2>3. ASSUME NEW id, NEW v, EvaluateQualification(id, v)
        PROVE  UNCHANGED <<requirements, assessments>>
    BY <2>3 DEF EvaluateQualification
  <2>4. QED
    BY <1>2, <1>3, <1>5, <2>1, <2>2, <2>3, QualificationFrame, WithdrawQualificationMarks
       DEF QualificationRequest
<1>6. CASE RunDueTasks \/ ScanExpiredEvidence
  BY <1>2, <1>6, LoopFrame, RunDueTasksMarks, ScanMarks
<1>7. CASE Tick \/ Looks
  BY <1>3, <1>7, LookFrame DEF Tick
<1>8. QED
  BY <1>1, <1>3, <1>4, <1>5, <1>6, <1>7, ProcedureFrame, ReviewFrame, Steps
     DEF caseVars

-----------------------------------------------------------------------------
(* The loops between their look and their update.                          *)

LoopsFit == (\A t \in due : TaskOK(t)) /\ scanTime \in Time \cup {Idle}

LEMMA LoopsKeep ==
  ASSUME LoopsFit, TasksFit, now \in Time, [Next]_caseVars
  PROVE  LoopsFit'
<1>1. CASE UNCHANGED <<due, scanTime>>
  BY <1>1 DEF LoopsFit
<1>2. CASE LookForTasks
  BY <1>2 DEF LookForTasks, Pending, LoopsFit, TasksFit
<1>3. CASE LookForExpired
  BY <1>3 DEF LookForExpired, LoopsFit
<1>4. CASE RunDueTasks
  BY <1>4 DEF RunDueTasks, LoopsFit
<1>5. CASE ScanExpiredEvidence
  BY <1>5 DEF ScanExpiredEvidence, LoopsFit
<1>6. QED
  BY <1>1, <1>2, <1>3, <1>4, <1>5, RuleFrame, QualificationFrame, ProcedureFrame,
     AssessmentFrame, ReviewFrame, Steps
     DEF Looks, Tick, caseVars

-----------------------------------------------------------------------------
(* Writes and the versions they are made on.                               *)

LEMMA VersionsCountUp == \A v \in Versions : v \in Int /\ 1 <= v
BY DEF Versions

\* A write is recorded for its object only.
LEMMA WriteIsRecorded ==
  ASSUME NEW B, NEW s, NEW y, NEW n
  PROVE  \A t, x, v : <<t, x, v>> \in B \cup WriteOn(s, y, n)
                         <=> <<t, x, v>> \in B \/ (t = s /\ x = y /\ v = n)
BY DEF WriteOn

\* A step that records no write of a type of object.
SameWrites(type) == \A x, v : <<type, x, v>> \in based' <=> <<type, x, v>> \in based

\* Objects that are created have no writes yet;
LEMMA CreatedFollow ==
  ASSUME NEW B, NEW type, NEW f, NEW g, NEW Ids, NEW N,
         EachFollows(B, type, f, Ids),
         N \cap DOMAIN f = {}, DOMAIN g = DOMAIN f \cup N,
         \A x \in DOMAIN f : g[x] = f[x],
         \A x \in N : g[x].version = 1
  PROVE  EachFollows(B, type, g, Ids)
BY VersionsCountUp DEF EachFollows

\* From B to C, the objects N are written.
RecordsWrites(B, C, type, f, N) ==
    \A x, v : <<type, x, v>> \in C <=> <<type, x, v>> \in B \/ (x \in N /\ v = f[x].version)

\* those that are written follow the version their write was made on.
LEMMA WrittenFollow ==
  ASSUME NEW B, NEW C, NEW type, NEW f, NEW g, NEW Ids, NEW N,
         EachFollows(B, type, f, Ids), \A x \in N : x \in DOMAIN f,
         RecordsWrites(B, C, type, f, N),
         DOMAIN g = DOMAIN f,
         \A x \in DOMAIN f : f[x].version \in Nat,
         \A x \in DOMAIN f \ N : g[x].version = f[x].version,
         \A x \in N : g[x].version = f[x].version + 1
  PROVE  EachFollows(C, type, g, Ids)
<1>1. ASSUME NEW x \in Ids, NEW v \in Versions
      PROVE  <<type, x, v>> \in C <=> x \in DOMAIN g /\ v < g[x].version
  <2>1. <<type, x, v>> \in B <=> x \in DOMAIN f /\ v < f[x].version
    BY DEF EachFollows
  <2>2. <<type, x, v>> \in C <=> <<type, x, v>> \in B \/ (x \in N /\ v = f[x].version)
    BY DEF RecordsWrites
  <2>3. CASE x \in N
    <3>1. f[x].version \in Nat /\ g[x].version = f[x].version + 1 /\ x \in DOMAIN f
      BY <2>3
    <3>2. v < f[x].version + 1 <=> v < f[x].version \/ v = f[x].version
      BY <3>1, VersionsCountUp
    <3>3. QED
      BY <2>1, <2>2, <2>3, <3>1, <3>2
  <2>4. CASE x \notin N
    BY <2>1, <2>2, <2>4
  <2>5. QED
    BY <2>3, <2>4
<1>2. QED
  BY <1>1 DEF EachFollows

LEMMA OneWrittenFollows ==
  ASSUME NEW B, NEW C, NEW type, NEW f, NEW g, NEW Ids, NEW y \in DOMAIN f,
         EachFollows(B, type, f, Ids),
         \A x, v : <<type, x, v>> \in C
                      <=> <<type, x, v>> \in B \/ (x \in {y} /\ v = f[x].version),
         DOMAIN g = DOMAIN f,
         \A x \in DOMAIN f : f[x].version \in Nat,
         \A x \in DOMAIN f \ {y} : g[x].version = f[x].version,
         g[y].version = f[y].version + 1
  PROVE  EachFollows(C, type, g, Ids)
<1>. DEFINE N == {y}
<1>1. \A x \in N : x \in DOMAIN f /\ g[x].version = f[x].version + 1
  OBVIOUS
<1>. HIDE DEF N
<1>2. RecordsWrites(B, C, type, f, N)
  BY DEF N, RecordsWrites
<1>3. \A x \in DOMAIN f \ N : g[x].version = f[x].version
  BY DEF N
<1>4. QED
  BY <1>1, <1>2, <1>3, WrittenFollow

LEMMA UntouchedFollow ==
  ASSUME NEW B, NEW C, NEW type, NEW f, NEW Ids, EachFollows(B, type, f, Ids),
         \A x, v : <<type, x, v>> \in C <=> <<type, x, v>> \in B
  PROVE  EachFollows(C, type, f, Ids)
BY DEF EachFollows

LEMMA RuleWrites ==
  ASSUME RulesFit, EachFollows(based, "rule_set", rules, RuleId), RuleRequest
  PROVE  /\ EachFollows(based', "rule_set", rules', RuleId)
         /\ \A type : type # "rule_set" => SameWrites(type)
<1>1. PICK id \in RuleId :
        \/ \E c \in Content : CreateRuleSet(id, c)
        \/ \E v \in Versions, c \in Content : UpdateRuleSet(id, v, c)
        \/ \E v \in Versions : PublishRuleSet(id, v)
  BY DEF RuleRequest
<1>2. \A r \in DOMAIN rules : rules[r].version \in Nat
  BY DEF RulesFit, RuleSet
<1>3. ASSUME NEW c \in Content, CreateRuleSet(id, c)
      PROVE  /\ EachFollows(based', "rule_set", rules', RuleId)
             /\ \A type : type # "rule_set" => SameWrites(type)
  <2>. DEFINE new == [status |-> "DRAFT", version |-> 1, content |-> c]
  <2>1. new.version = 1
    OBVIOUS
  <2>. HIDE DEF new
  <2>2. id \notin DOMAIN rules /\ rules' = Put(rules, id, new) /\ based' = based
    BY <1>3 DEF CreateRuleSet, new
  <2>3. /\ {id} \cap DOMAIN rules = {} /\ DOMAIN rules' = DOMAIN rules \cup {id}
        /\ \A r \in DOMAIN rules : rules'[r] = rules[r]
        /\ \A r \in {id} : rules'[r].version = 1
    BY <2>1, <2>2 DEF Put
  <2>4. EachFollows(based, "rule_set", rules', RuleId)
    BY <2>3, CreatedFollow
  <2>5. QED
    BY <2>2, <2>4 DEF SameWrites
<1>4. ASSUME NEW v \in Versions, NEW c \in Content, UpdateRuleSet(id, v, c)
      PROVE  /\ EachFollows(based', "rule_set", rules', RuleId)
             /\ \A type : type # "rule_set" => SameWrites(type)
  <2>1. /\ id \in DOMAIN rules /\ rules[id].version = v
        /\ based' = based \cup WriteOn("rule_set", id, v)
    BY <1>4 DEF UpdateRuleSet, Current
  <2>2. /\ DOMAIN rules' = DOMAIN rules
        /\ \A r \in DOMAIN rules \ {id} : rules'[r].version = rules[r].version
        /\ \A r \in {id} : rules'[r].version = rules[r].version + 1
    BY <1>2, <1>4 DEF UpdateRuleSet, RulesFit, RuleSet
  <2>3. /\ \A x, w : <<"rule_set", x, w>> \in based'
                        <=> <<"rule_set", x, w>> \in based \/ (x \in {id} /\ w = rules[x].version)
        /\ \A type : type # "rule_set" => SameWrites(type)
    BY <2>1, WriteIsRecorded DEF SameWrites
  <2>4. EachFollows(based', "rule_set", rules', RuleId)
    BY <1>2, <2>1, <2>2, <2>3, OneWrittenFollows
  <2>5. QED
    BY <2>3, <2>4
<1>5. ASSUME NEW v \in Versions, PublishRuleSet(id, v)
      PROVE  /\ EachFollows(based', "rule_set", rules', RuleId)
             /\ \A type : type # "rule_set" => SameWrites(type)
  <2>. DEFINE N == {id} \cup Superseded
              B == based \cup WriteOn("rule_set", id, v)
  <2>1. /\ id \in DOMAIN rules /\ rules[id].version = v /\ rules' = Supersede(id)
        /\ based' = B \cup UNION {WriteOn("rule_set", r, rules[r].version) : r \in Superseded}
    BY <1>5 DEF PublishRuleSet, Current
  <2>2. \A r \in N : r \in DOMAIN rules
    BY <2>1 DEF Superseded
  <2>3. DOMAIN rules' = DOMAIN rules
    BY <2>1 DEF Supersede
  <2>4. ASSUME NEW r \in DOMAIN rules
        PROVE  rules'[r].version = IF r \in N THEN rules[r].version + 1 ELSE rules[r].version
    <3>1. rules[r] \in RuleSet
      BY DEF RulesFit
    <3>2. CASE r = id
      <4>1. rules'[r] = [rules[r] EXCEPT !.status = "PUBLISHED", !.version = @ + 1]
        BY <2>1, <3>2 DEF Supersede
      <4>2. QED
        BY <3>1, <3>2, <4>1 DEF RuleSet
    <3>3. CASE r # id /\ r \in Superseded
      <4>1. rules'[r] = [rules[r] EXCEPT !.status = "SUPERSEDED", !.version = @ + 1]
        BY <2>1, <3>3 DEF Supersede
      <4>2. QED
        BY <3>1, <3>3, <4>1 DEF RuleSet
    <3>4. CASE r # id /\ r \notin Superseded
      BY <2>1, <3>4 DEF Supersede
    <3>5. QED
      BY <3>2, <3>3, <3>4
  <2>5. \A t, x, w : <<t, x, w>> \in UNION {WriteOn("rule_set", r, rules[r].version) : r \in Superseded}
                        <=> t = "rule_set" /\ x \in Superseded /\ w = rules[x].version
    BY DEF WriteOn
  <2>6. \A t, x, w : <<t, x, w>> \in B <=> <<t, x, w>> \in based \/ (t = "rule_set" /\ x = id /\ w = v)
    BY WriteIsRecorded
  <2>. HIDE DEF B
  <2>7. /\ \A x, w : <<"rule_set", x, w>> \in based'
                        <=> <<"rule_set", x, w>> \in based \/ (x \in N /\ w = rules[x].version)
        /\ \A type : type # "rule_set" => SameWrites(type)
    BY <2>1, <2>5, <2>6 DEF SameWrites
  <2>. HIDE DEF N
  <2>8. /\ \A r \in DOMAIN rules \ N : rules'[r].version = rules[r].version
        /\ \A r \in N : rules'[r].version = rules[r].version + 1
    BY <2>2, <2>4
  <2>9. RecordsWrites(based, based', "rule_set", rules, N)
    BY <2>7 DEF RecordsWrites
  <2>10. EachFollows(based', "rule_set", rules', RuleId)
    BY <1>2, <2>2, <2>3, <2>8, <2>9, WrittenFollow
  <2>11. QED
    BY <2>7, <2>10
<1>6. QED
  BY <1>1, <1>3, <1>4, <1>5

LEMMA QualificationWrites ==
  ASSUME QualificationsFit, EachFollows(based, "qualification", qualifications, QualId),
         QualificationRequest
  PROVE  /\ EachFollows(based', "qualification", qualifications', QualId)
         /\ \A type : type # "qualification" => SameWrites(type)
<1>1. \A q \in DOMAIN qualifications : qualifications[q].version \in Nat
  BY DEF QualificationsFit, Qualification
<1>2. ASSUME NEW id \in QualId, NEW v, id \in DOMAIN qualifications,
             qualifications[id].version = v,
             based' = based \cup WriteOn("qualification", id, v),
             DOMAIN qualifications' = DOMAIN qualifications,
             \A q \in DOMAIN qualifications \ {id} : qualifications'[q] = qualifications[q],
             qualifications'[id].version = qualifications[id].version + 1
      PROVE  /\ EachFollows(based', "qualification", qualifications', QualId)
             /\ \A type : type # "qualification" => SameWrites(type)
  <2>1. /\ \A x, w : <<"qualification", x, w>> \in based'
                        <=> <<"qualification", x, w>> \in based
                              \/ (x \in {id} /\ w = qualifications[x].version)
        /\ \A type : type # "qualification" => SameWrites(type)
    BY <1>2, WriteIsRecorded DEF SameWrites
  <2>2. EachFollows(based', "qualification", qualifications', QualId)
    BY <1>1, <1>2, <2>1, OneWrittenFollows
  <2>3. QED
    BY <2>1, <2>2
<1>3. ASSUME NEW id \in QualId, NEW r \in RuleId, NEW w \in Variables,
             CreateQualification(id, r, w)
      PROVE  /\ EachFollows(based', "qualification", qualifications', QualId)
             /\ \A type : type # "qualification" => SameWrites(type)
  <2>. DEFINE new == [rule |-> r, status |-> "UNDER_TEST", version |-> 1,
                      variables |-> w, evidence |-> << >>]
  <2>1. new.version = 1
    OBVIOUS
  <2>. HIDE DEF new
  <2>2. /\ id \notin DOMAIN qualifications /\ qualifications' = Put(qualifications, id, new)
        /\ based' = based
    BY <1>3 DEF CreateQualification, new
  <2>3. /\ {id} \cap DOMAIN qualifications = {}
        /\ DOMAIN qualifications' = DOMAIN qualifications \cup {id}
        /\ \A q \in DOMAIN qualifications : qualifications'[q] = qualifications[q]
        /\ \A q \in {id} : qualifications'[q].version = 1
    BY <2>1, <2>2 DEF Put
  <2>4. EachFollows(based, "qualification", qualifications', QualId)
    BY <2>3, CreatedFollow
  <2>5. QED
    BY <2>2, <2>4 DEF SameWrites
<1>4. ASSUME NEW id \in QualId, NEW k, NEW e, AddEvidence(id, k, e)
      PROVE  /\ EachFollows(based', "qualification", qualifications', QualId)
             /\ \A type : type # "qualification" => SameWrites(type)
  BY <1>1, <1>2, <1>4 DEF AddEvidence, Current, QualificationsFit, Qualification
<1>5. ASSUME NEW id \in QualId, NEW v, EvaluateQualification(id, v)
      PROVE  /\ EachFollows(based', "qualification", qualifications', QualId)
             /\ \A type : type # "qualification" => SameWrites(type)
  BY <1>1, <1>2, <1>5 DEF EvaluateQualification, Current, QualificationsFit, Qualification
<1>6. ASSUME NEW id \in QualId, NEW v, WithdrawQualification(id, v)
      PROVE  /\ EachFollows(based', "qualification", qualifications', QualId)
             /\ \A type : type # "qualification" => SameWrites(type)
  BY <1>1, <1>2, <1>6 DEF WithdrawQualification, Current, QualificationsFit, Qualification
<1>7. QED
  BY <1>3, <1>4, <1>5, <1>6, Zenon DEF QualificationRequest

LEMMA CreateProcedureWrites ==
  ASSUME NEW id, NEW rev, NEW r, NEW Q, NEW w, CreateProcedure(id, rev, r, Q, w),
         EachFollows(based, "procedure", procedures, ProcId),
         EachFollows(based, "revision", revisions, RevId)
  PROVE  /\ EachFollows(based', "procedure", procedures', ProcId)
         /\ EachFollows(based', "revision", revisions', RevId)
         /\ based' = based
<1>. DEFINE new == DraftRevision(id, r, Q, w)
            first == [revisions |-> {rev}, published |-> Nothing, version |-> 1]
<1>1. new.version = 1 /\ first.version = 1
  BY DEF DraftRevision
<1>. HIDE DEF new, first
<1>2. /\ id \notin DOMAIN procedures /\ rev \notin DOMAIN revisions
      /\ procedures' = Put(procedures, id, first)
      /\ revisions' = Put(revisions, rev, new) /\ based' = based
  BY DEF CreateProcedure, new, first
<1>3. /\ {id} \cap DOMAIN procedures = {} /\ DOMAIN procedures' = DOMAIN procedures \cup {id}
      /\ \A x \in DOMAIN procedures : procedures'[x] = procedures[x]
      /\ \A x \in {id} : procedures'[x].version = 1
  BY <1>1, <1>2 DEF Put
<1>4. /\ {rev} \cap DOMAIN revisions = {} /\ DOMAIN revisions' = DOMAIN revisions \cup {rev}
      /\ \A x \in DOMAIN revisions : revisions'[x] = revisions[x]
      /\ \A x \in {rev} : revisions'[x].version = 1
  BY <1>1, <1>2 DEF Put
<1>5. EachFollows(based, "procedure", procedures', ProcId)
  BY <1>3, CreatedFollow
<1>6. EachFollows(based, "revision", revisions', RevId)
  BY <1>4, CreatedFollow
<1>7. QED
  BY <1>2, <1>5, <1>6

LEMMA CreateRevisionWrites ==
  ASSUME ProceduresFit, NEW id \in ProcId, NEW v, NEW rev, NEW r, NEW Q, NEW w,
         CreateRevision(id, v, rev, r, Q, w),
         EachFollows(based, "procedure", procedures, ProcId),
         EachFollows(based, "revision", revisions, RevId)
  PROVE  /\ EachFollows(based', "procedure", procedures', ProcId)
         /\ EachFollows(based', "revision", revisions', RevId)
         /\ \A type : type \notin {"procedure", "revision"} => SameWrites(type)
<1>. DEFINE new == DraftRevision(id, r, Q, w)
<1>1. new.version = 1
  BY DEF DraftRevision
<1>. HIDE DEF new
<1>2. /\ id \in DOMAIN procedures /\ procedures[id].version = v /\ rev \notin DOMAIN revisions
      /\ procedures' = AddRevision(id, rev)
      /\ revisions' = Put(revisions, rev, new)
      /\ based' = based \cup WriteOn("procedure", id, v)
  BY DEF CreateRevision, Current, new
<1>3. \A p \in DOMAIN procedures : procedures[p].version \in Nat
  BY DEF ProceduresFit, Procedure
<1>4. /\ DOMAIN procedures' = DOMAIN procedures
      /\ \A x \in DOMAIN procedures \ {id} : procedures'[x].version = procedures[x].version
      /\ \A x \in {id} : procedures'[x].version = procedures[x].version + 1
  BY <1>2, <1>3 DEF AddRevision, ProceduresFit, Procedure
<1>5. /\ {rev} \cap DOMAIN revisions = {} /\ DOMAIN revisions' = DOMAIN revisions \cup {rev}
      /\ \A x \in DOMAIN revisions : revisions'[x] = revisions[x]
      /\ \A x \in {rev} : revisions'[x].version = 1
  BY <1>1, <1>2 DEF Put
<1>6. /\ \A x, u : <<"procedure", x, u>> \in based'
                      <=> <<"procedure", x, u>> \in based
                            \/ (x \in {id} /\ u = procedures[x].version)
      /\ \A type : type # "procedure" => SameWrites(type)
  BY <1>2, WriteIsRecorded DEF SameWrites
<1>7. EachFollows(based', "procedure", procedures', ProcId)
  BY <1>2, <1>3, <1>4, <1>6, OneWrittenFollows
<1>8. EachFollows(based, "revision", revisions', RevId)
  BY <1>5, CreatedFollow
<1>9. EachFollows(based', "revision", revisions', RevId)
  BY <1>6, <1>8, UntouchedFollow DEF SameWrites
<1>10. QED
  BY <1>6, <1>7, <1>9

LEMMA DeriveCoverageWrites ==
  ASSUME ProceduresFit, NEW id, NEW v, DeriveCoverage(id, v),
         EachFollows(based, "revision", revisions, RevId)
  PROVE  /\ EachFollows(based', "revision", revisions', RevId)
         /\ \A type : type # "revision" => SameWrites(type)
<1>. DEFINE c == Coverage(ContentOf(revisions[id].rule), SourceVariables(id))
            g == HasGaps(ContentOf(revisions[id].rule), SourceVariables(id),
                         revisions[id].variables)
            y == [revisions[id] EXCEPT !.coverage = c, !.gaps = g, !.status = "IN_REVIEW",
                                       !.version = @ + 1]
<1>1. /\ id \in DOMAIN revisions /\ revisions[id].version = v
      /\ revisions' = [revisions EXCEPT ![id] = y]
      /\ based' = based \cup WriteOn("revision", id, v)
  BY DEF DeriveCoverage, Current
<1>. HIDE DEF c, g
<1>2. \A r \in DOMAIN revisions : revisions[r].version \in Nat /\ "version" \in DOMAIN revisions[r]
  BY DEF ProceduresFit, RevisionOK
<1>3. y.version = revisions[id].version + 1
  BY <1>1, <1>2
<1>. HIDE DEF y
<1>4. /\ DOMAIN revisions' = DOMAIN revisions
      /\ \A x \in DOMAIN revisions \ {id} : revisions'[x].version = revisions[x].version
      /\ \A x \in {id} : revisions'[x].version = revisions[x].version + 1
  BY <1>1, <1>3
<1>5. /\ \A x, u : <<"revision", x, u>> \in based'
                      <=> <<"revision", x, u>> \in based
                            \/ (x \in {id} /\ u = revisions[x].version)
      /\ \A type : type # "revision" => SameWrites(type)
  BY <1>1, WriteIsRecorded DEF SameWrites
<1>6. /\ id \in DOMAIN revisions
      /\ \A r \in DOMAIN revisions : revisions[r].version \in Nat
      /\ revisions'[id].version = revisions[id].version + 1
  BY <1>1, <1>2, <1>4
<1>7. EachFollows(based', "revision", revisions', RevId)
  BY <1>4, <1>5, <1>6, OneWrittenFollows
<1>8. QED
  BY <1>5, <1>7

LEMMA PublishRevisionWrites ==
  ASSUME ProceduresFit, ProceduresHold, NEW id \in RevId, NEW v, PublishRevision(id, v),
         EachFollows(based, "procedure", procedures, ProcId),
         EachFollows(based, "revision", revisions, RevId)
  PROVE  /\ EachFollows(based', "procedure", procedures', ProcId)
         /\ EachFollows(based', "revision", revisions', RevId)
         /\ \A type : type \notin {"procedure", "revision"} => SameWrites(type)
<1>. DEFINE p == revisions[id].procedure
            Old == {procedures[p].published} \ {Nothing}
            N == {id} \cup Old
            W == UNION {WriteOn("revision", old, revisions[old].version) : old \in Old}
<1>1. /\ id \in DOMAIN revisions /\ revisions[id].version = v /\ revisions' = Replace(id)
      /\ procedures' = [procedures EXCEPT ![p].published = id, ![p].version = @ + 1]
      /\ based' = based \cup PublicationWrites(id, v)
  BY DEF PublishRevision, Current
<1>2. p \in DOMAIN procedures /\ Old \subseteq DOMAIN revisions
  BY <1>1 DEF ProceduresHold
<1>3. /\ \A x \in DOMAIN procedures : procedures[x].version \in Nat
      /\ \A x \in DOMAIN revisions :
            revisions[x].version \in Nat /\ "version" \in DOMAIN revisions[x]
  BY DEF ProceduresFit, Procedure, RevisionOK
<1>4. /\ DOMAIN procedures' = DOMAIN procedures
      /\ \A x \in DOMAIN procedures \ {p} : procedures'[x].version = procedures[x].version
      /\ \A x \in {p} : procedures'[x].version = procedures[x].version + 1
  BY <1>1, <1>2, <1>3 DEF ProceduresFit, Procedure
<1>5. DOMAIN revisions' = DOMAIN revisions
  BY <1>1 DEF Replace
<1>6. ASSUME NEW x \in DOMAIN revisions
      PROVE  revisions'[x].version =
                IF x \in N THEN revisions[x].version + 1 ELSE revisions[x].version
  <2>1. CASE x = id
    <3>1. revisions'[x] = [revisions[x] EXCEPT !.status = "PUBLISHED", !.version = @ + 1]
      BY <1>1, <2>1 DEF Replace
    <3>2. QED
      BY <1>3, <2>1, <3>1
  <2>2. CASE x # id /\ x = procedures[p].published
    <3>1. revisions'[x] = [revisions[x] EXCEPT !.status = "RETIRED", !.version = @ + 1]
      BY <1>1, <2>2 DEF Replace
    <3>2. x # Nothing
      BY NothingAssumption DEF ProceduresFit
    <3>3. QED
      BY <1>3, <2>2, <3>1, <3>2
  <2>3. CASE x # id /\ x # procedures[p].published
    BY <1>1, <2>3 DEF Replace
  <2>4. QED
    BY <2>1, <2>2, <2>3
<1>7. \A t, x, u : <<t, x, u>> \in W
                      <=> t = "revision" /\ x \in Old /\ u = revisions[x].version
  BY DEF WriteOn
<1>8. \A t, x, u : <<t, x, u>> \in PublicationWrites(id, v)
                      <=> \/ t = "revision" /\ x = id /\ u = v
                          \/ t = "procedure" /\ x = p /\ u = procedures[p].version
                          \/ <<t, x, u>> \in W
  BY DEF PublicationWrites, WriteOn
<1>. HIDE DEF W
<1>9. /\ \A x, u : <<"revision", x, u>> \in based'
                      <=> <<"revision", x, u>> \in based \/ (x \in N /\ u = revisions[x].version)
      /\ \A x, u : <<"procedure", x, u>> \in based'
                      <=> <<"procedure", x, u>> \in based
                            \/ (x \in {p} /\ u = procedures[x].version)
      /\ \A type : type \notin {"procedure", "revision"} => SameWrites(type)
  BY <1>1, <1>7, <1>8 DEF SameWrites
<1>10. \A x \in N : x \in DOMAIN revisions
  BY <1>1, <1>2
<1>. HIDE DEF N, Old, p
<1>11. /\ \A x \in DOMAIN revisions : revisions[x].version \in Nat
       /\ \A x \in DOMAIN revisions \ N : revisions'[x].version = revisions[x].version
       /\ \A x \in N : revisions'[x].version = revisions[x].version + 1
  BY <1>3, <1>6, <1>10
<1>12. RecordsWrites(based, based', "revision", revisions, N)
  BY <1>9 DEF RecordsWrites
<1>13. EachFollows(based', "revision", revisions', RevId)
  BY <1>5, <1>10, <1>11, <1>12, WrittenFollow
<1>14. EachFollows(based', "procedure", procedures', ProcId)
  BY <1>2, <1>3, <1>4, <1>9, OneWrittenFollows
<1>15. QED
  BY <1>9, <1>13, <1>14

LEMMA ProcedureWrites ==
  ASSUME ProceduresFit, ProceduresHold,
         EachFollows(based, "procedure", procedures, ProcId),
         EachFollows(based, "revision", revisions, RevId), ProcedureRequest
  PROVE  /\ EachFollows(based', "procedure", procedures', ProcId)
         /\ EachFollows(based', "revision", revisions', RevId)
         /\ \A type : type \notin {"procedure", "revision"} => SameWrites(type)
<1>. DEFINE Goal ==
        /\ EachFollows(based', "procedure", procedures', ProcId)
        /\ EachFollows(based', "revision", revisions', RevId)
        /\ \A type : type \notin {"procedure", "revision"} => SameWrites(type)
<1>1. ASSUME NEW id, NEW rev, NEW r, NEW Q, NEW w, CreateProcedure(id, rev, r, Q, w)
      PROVE  Goal
  BY <1>1, CreateProcedureWrites DEF SameWrites
<1>2. ASSUME NEW id \in ProcId, NEW v, NEW rev, NEW r, NEW Q, NEW w,
             CreateRevision(id, v, rev, r, Q, w)
      PROVE  Goal
  BY <1>2, CreateRevisionWrites
<1>3. ASSUME NEW id, NEW v, DeriveCoverage(id, v)
      PROVE  Goal
  <2>1. EachFollows(based', "revision", revisions', RevId)
    BY <1>3, DeriveCoverageWrites
  <2>2. \A type : type # "revision" => SameWrites(type)
    BY <1>3, DeriveCoverageWrites
  <2>3. procedures' = procedures
    BY <1>3 DEF DeriveCoverage
  <2>4. EachFollows(based', "procedure", procedures, ProcId)
    BY <2>2, UntouchedFollow DEF SameWrites
  <2>5. QED
    BY <2>1, <2>2, <2>3, <2>4
<1>4. ASSUME NEW id \in RevId, NEW v, PublishRevision(id, v)
      PROVE  Goal
  BY <1>4, PublishRevisionWrites
<1>. HIDE DEF Goal
<1>5. Goal
  BY <1>1, <1>2, <1>3, <1>4, Zenon DEF ProcedureRequest
<1>6. QED
  BY <1>5 DEF Goal

LEMMA AssessmentWrites ==
  ASSUME RequirementsFit, EachFollows(based, "requirement", requirements, ReqId),
         AssessmentRequest
  PROVE  /\ EachFollows(based', "requirement", requirements', ReqId)
         /\ \A type : type # "requirement" => SameWrites(type)
<1>. DEFINE Goal ==
        /\ EachFollows(based', "requirement", requirements', ReqId)
        /\ \A type : type # "requirement" => SameWrites(type)
<1>1. ASSUME NEW ids, NEW new, new.version = 1, ids \cap DOMAIN requirements = {},
             requirements' = [r \in DOMAIN requirements \cup ids |->
                                IF r \in ids THEN new ELSE requirements[r]],
             based' = based
      PROVE  Goal
  <2>1. /\ DOMAIN requirements' = DOMAIN requirements \cup ids
        /\ \A r \in DOMAIN requirements : requirements'[r] = requirements[r]
        /\ \A r \in ids : requirements'[r].version = 1
    BY <1>1
  <2>2. EachFollows(based, "requirement", requirements', ReqId)
    BY <1>1, <2>1, CreatedFollow
  <2>3. QED
    BY <1>1, <2>2 DEF SameWrites
<1>2. ASSUME NEW id, NEW k, NEW w, CreateRequirement(id, k, w)
      PROVE  Goal
  <2>. DEFINE new == NewRequirement(w, <<"requirement", k>>)
  <2>1. new.version = 1
    BY DEF NewRequirement
  <2>. HIDE DEF new
  <2>2. /\ {id} \cap DOMAIN requirements = {} /\ based' = based
        /\ requirements' = Put(requirements, id, new)
    BY <1>2 DEF CreateRequirement, new
  <2>3. requirements' = [r \in DOMAIN requirements \cup {id} |->
                            IF r \in {id} THEN new ELSE requirements[r]]
    BY <2>2 DEF Put
  <2>4. QED
    BY <1>1, <2>1, <2>2, <2>3
<1>3. ASSUME NEW ids, NEW k, NEW w, ImportRequirements(ids, k, w)
      PROVE  Goal
  <2>. DEFINE new == NewRequirement(w, <<"batch", k>>)
  <2>1. new.version = 1
    BY DEF NewRequirement
  <2>. HIDE DEF new
  <2>2. /\ ids \cap DOMAIN requirements = {} /\ based' = based
        /\ requirements' = [r \in DOMAIN requirements \cup ids |->
                              IF r \in ids THEN new ELSE requirements[r]]
    BY <1>3 DEF ImportRequirements, new
  <2>3. QED
    BY <1>1, <2>1, <2>2
<1>4. ASSUME NEW id, NEW a, NEW rev, NEW v, AssessRequirement(id, a, rev, v)
      PROVE  Goal
  <2>1. /\ id \in DOMAIN requirements /\ requirements[id].version = v
        /\ requirements' = NoteAssessment(id, a)
        /\ based' = based \cup WriteOn("requirement", id, v)
    BY <1>4 DEF AssessRequirement, StillCurrent, Current
  <2>2. \A r \in DOMAIN requirements :
           requirements[r].version \in Nat /\ "version" \in DOMAIN requirements[r]
    BY DEF RequirementsFit, RequirementOK
  <2>3. /\ DOMAIN requirements' = DOMAIN requirements
        /\ \A r \in DOMAIN requirements \ {id} : requirements'[r].version = requirements[r].version
        /\ \A r \in {id} : requirements'[r].version = requirements[r].version + 1
    BY <2>1, <2>2 DEF NoteAssessment
  <2>4. /\ \A x, w : <<"requirement", x, w>> \in based'
                        <=> <<"requirement", x, w>> \in based
                              \/ (x \in {id} /\ w = requirements[x].version)
        /\ \A type : type # "requirement" => SameWrites(type)
    BY <2>1, WriteIsRecorded DEF SameWrites
  <2>5. EachFollows(based', "requirement", requirements', ReqId)
    BY <2>1, <2>2, <2>3, <2>4, OneWrittenFollows
  <2>6. QED
    BY <2>4, <2>5
<1>. HIDE DEF Goal
<1>5. Goal
  BY <1>2, <1>3, <1>4, Zenon DEF AssessmentRequest
<1>6. QED
  BY <1>5 DEF Goal

LEMMA ReviewWrites ==
  ASSUME ReviewsFit, EachFollows(based, "change_review", changeReviews, ReviewId), ReviewRequest
  PROVE  /\ EachFollows(based', "change_review", changeReviews', ReviewId)
         /\ \A type : type # "change_review" => SameWrites(type)
<1>. DEFINE Goal ==
        /\ EachFollows(based', "change_review", changeReviews', ReviewId)
        /\ \A type : type # "change_review" => SameWrites(type)
<1>1. ASSUME NEW id, NEW from, NEW to, NEW r, CreateChangeReview(id, from, to, r)
      PROVE  Goal
  <2>. DEFINE new == [from |-> from, to |-> to, rule |-> r, status |-> "READY", version |-> 1,
                      blocking |-> Blocking(rules[r].content, revisions[from].variables,
                                            revisions[to].variables)]
  <2>1. new.version = 1
    OBVIOUS
  <2>. HIDE DEF new
  <2>2. /\ id \notin DOMAIN changeReviews /\ changeReviews' = Put(changeReviews, id, new)
        /\ based' = based
    BY <1>1 DEF CreateChangeReview, new
  <2>3. /\ {id} \cap DOMAIN changeReviews = {}
        /\ DOMAIN changeReviews' = DOMAIN changeReviews \cup {id}
        /\ \A c \in DOMAIN changeReviews : changeReviews'[c] = changeReviews[c]
        /\ \A c \in {id} : changeReviews'[c].version = 1
    BY <2>1, <2>2 DEF Put
  <2>4. EachFollows(based, "change_review", changeReviews', ReviewId)
    BY <2>3, CreatedFollow
  <2>5. QED
    BY <2>2, <2>4 DEF SameWrites
<1>2. ASSUME NEW id, NEW v, NEW d, DecideChangeReview(id, v, d)
      PROVE  Goal
  <2>1. /\ id \in DOMAIN changeReviews /\ changeReviews[id].version = v
        /\ based' = based \cup WriteOn("change_review", id, v)
    BY <1>2 DEF DecideChangeReview, Current
  <2>2. \A c \in DOMAIN changeReviews : changeReviews[c].version \in Nat
    BY DEF ReviewsFit, ChangeReview
  <2>3. /\ DOMAIN changeReviews' = DOMAIN changeReviews
        /\ \A c \in DOMAIN changeReviews \ {id} :
              changeReviews'[c].version = changeReviews[c].version
        /\ \A c \in {id} : changeReviews'[c].version = changeReviews[c].version + 1
    BY <1>2, <2>2 DEF DecideChangeReview, ReviewsFit, ChangeReview
  <2>4. /\ \A x, w : <<"change_review", x, w>> \in based'
                        <=> <<"change_review", x, w>> \in based
                              \/ (x \in {id} /\ w = changeReviews[x].version)
        /\ \A type : type # "change_review" => SameWrites(type)
    BY <2>1, WriteIsRecorded DEF SameWrites
  <2>5. EachFollows(based', "change_review", changeReviews', ReviewId)
    BY <2>1, <2>2, <2>3, <2>4, OneWrittenFollows
  <2>6. QED
    BY <2>4, <2>5
<1>. HIDE DEF Goal
<1>3. Goal
  BY <1>1, <1>2, Zenon DEF ReviewRequest
<1>4. QED
  BY <1>3 DEF Goal

LEMMA WritesKeep ==
  ASSUME RulesFit, QualificationsFit, ProceduresGood, RequirementsFit, ReviewsFit,
         NoLostUpdate, [Next]_caseVars
  PROVE  NoLostUpdate'
<1>1. /\ EachFollows(based, "rule_set", rules, RuleId)
      /\ EachFollows(based, "qualification", qualifications, QualId)
      /\ EachFollows(based, "procedure", procedures, ProcId)
      /\ EachFollows(based, "revision", revisions, RevId)
      /\ EachFollows(based, "requirement", requirements, ReqId)
      /\ EachFollows(based, "change_review", changeReviews, ReviewId)
  BY DEF NoLostUpdate
<1>2. /\ SameWrites("rule_set") /\ UNCHANGED rules
            => EachFollows(based', "rule_set", rules', RuleId)
      /\ SameWrites("qualification") /\ UNCHANGED qualifications
            => EachFollows(based', "qualification", qualifications', QualId)
      /\ SameWrites("procedure") /\ UNCHANGED procedures
            => EachFollows(based', "procedure", procedures', ProcId)
      /\ SameWrites("revision") /\ UNCHANGED revisions
            => EachFollows(based', "revision", revisions', RevId)
      /\ SameWrites("requirement") /\ UNCHANGED requirements
            => EachFollows(based', "requirement", requirements', ReqId)
      /\ SameWrites("change_review") /\ UNCHANGED changeReviews
            => EachFollows(based', "change_review", changeReviews', ReviewId)
  BY <1>1 DEF SameWrites, EachFollows
<1>. SUFFICES /\ EachFollows(based', "rule_set", rules', RuleId)
              /\ EachFollows(based', "qualification", qualifications', QualId)
              /\ EachFollows(based', "procedure", procedures', ProcId)
              /\ EachFollows(based', "revision", revisions', RevId)
              /\ EachFollows(based', "requirement", requirements', ReqId)
              /\ EachFollows(based', "change_review", changeReviews', ReviewId)
  BY DEF NoLostUpdate
<1>3. CASE RuleRequest
  BY <1>1, <1>2, <1>3, RuleFrame, RuleWrites
<1>4. CASE QualificationRequest
  BY <1>1, <1>2, <1>4, QualificationFrame, QualificationWrites
<1>5. CASE ProcedureRequest
  BY <1>1, <1>2, <1>5, ProcedureFrame, ProcedureWrites DEF ProceduresGood
<1>6. CASE AssessmentRequest
  BY <1>1, <1>2, <1>6, AssessmentFrame, AssessmentWrites
<1>7. CASE ReviewRequest
  BY <1>1, <1>2, <1>7, ReviewFrame, ReviewWrites
<1>8. CASE UNCHANGED <<rules, qualifications, procedures, revisions, requirements,
                       changeReviews, based>>
  BY <1>2, <1>8 DEF SameWrites
<1>9. QED
  BY <1>3, <1>4, <1>5, <1>6, <1>7, <1>8, LoopFrame, Steps
     DEF caseVars

-----------------------------------------------------------------------------
(* All together.                                                           *)

LEMMA TypeParts ==
  TypeOK <=> /\ RulesFit /\ QualificationsFit /\ ProceduresFit /\ RequirementsFit
             /\ AssessmentsFit /\ ReviewsFit /\ TasksFit /\ now \in Time /\ LoopsFit
BY DEF TypeOK, Maps, RulesFit, QualificationsFit, ProceduresFit, RequirementsFit,
       AssessmentsFit, ReviewsFit, TasksFit, LoopsFit

LEMMA InitHolds == ASSUME Init PROVE CaseInvariant
<1>1. /\ DOMAIN rules = {} /\ DOMAIN qualifications = {} /\ DOMAIN procedures = {}
      /\ DOMAIN revisions = {} /\ DOMAIN requirements = {} /\ DOMAIN assessments = {}
      /\ DOMAIN changeReviews = {} /\ tasks = {} /\ now = 0
      /\ DOMAIN idempotency = {} /\ due = {} /\ scanTime = Idle /\ based = {}
  BY DEF Init
<1>2. TypeOK
  BY <1>1, BoundsAssumption, TypeParts
     DEF RulesFit, QualificationsFit, ProceduresFit, RequirementsFit, AssessmentsFit,
         ReviewsFit, TasksFit, LoopsFit, Time
<1>3. QED
  BY <1>1, <1>2
     DEF CaseInvariant, ProceduresHold, SourcesHold, AssessmentsHold, ReviewsHold,
         OneRuleInForce, PublishedIsPointedAt, RangeIsReproducible, ConclusionIsReproducible,
         TasksAreDeduplicated, RecordsHold, RetriesCreateNothing, ListsHold,
         VersionsCountWrites, QualificationsCount, ProceduresCount, RequirementsCount,
         NoLostUpdate, EachFollows

LEMMA NextKeeps ==
  ASSUME CaseInvariant, [Next]_caseVars
  PROVE  /\ CaseInvariant'
         /\ RulesLast /\ QualificationsLast /\ RevisionsLast /\ AssessmentsLast
<1>1. /\ RulesFit /\ QualificationsFit /\ ProceduresGood /\ RequirementsFit /\ AssessmentsFit
      /\ ReviewsFit /\ TasksGood /\ now \in Time /\ LoopsFit /\ NoLostUpdate
      /\ SourcesHold /\ AssessmentsHold /\ ReviewsHold
      /\ OneRuleInForce /\ RangeIsReproducible /\ ConclusionIsReproducible
      /\ RecordsHold /\ RequirementsRecorded /\ EvidenceRecorded
  BY TypeParts, RetryParts DEF CaseInvariant, ProceduresGood, TasksGood
<1>2. RulesFit' /\ OneRuleInForce' /\ RulesLast
  BY <1>1, RulesKeep
<1>3. QualificationsFit' /\ QualificationsLast
  BY <1>1, QualificationsKeep
<1>4. ProceduresGood' /\ RevisionsLast /\ RevisionsAdvance
  BY <1>1, ProceduresKeep
<1>5. /\ RequirementsFit' /\ RequirementsLast
      /\ AssessmentsFit' /\ AssessmentsLast /\ AssessmentsNew /\ TasksGood'
  BY <1>1, AssessmentsKeep
<1>6. ReviewsFit' /\ ReviewsHold' /\ now' \in Time /\ LoopsFit' /\ NoLostUpdate'
  BY <1>1, ReviewsKeep, TimeKeeps, LoopsKeep, WritesKeep DEF TasksGood
<1>7. SourcesHold' /\ RangeIsReproducible'
  BY <1>1, <1>2, <1>3, <1>4, RangesKeep
<1>8. AssessmentsHold' /\ ConclusionIsReproducible'
  BY <1>1, <1>2, <1>3, <1>4, <1>5, ConclusionsKeep
<1>9. TypeOK'
  <2>1. /\ RulesFit' /\ QualificationsFit' /\ ProceduresFit' /\ RequirementsFit'
        /\ AssessmentsFit' /\ ReviewsFit' /\ TasksFit' /\ now' \in Time /\ LoopsFit'
    BY <1>2, <1>3, <1>4, <1>5, <1>6 DEF ProceduresGood, TasksGood
  <2>2. QED
    BY <2>1
       DEF TypeOK, Maps, RulesFit, QualificationsFit, ProceduresFit, RequirementsFit,
           AssessmentsFit, ReviewsFit, TasksFit, LoopsFit
<1>10. RecordsHold' /\ RetriesCreateNothing'
  <2>1. RecordsHold' /\ RequirementsRecorded' /\ EvidenceRecorded'
    BY <1>1, <1>3, RecordsKeep
  <2>2. QED
    BY <2>1
       DEF RetriesCreateNothing, RequirementsRecorded, EvidenceRecorded, Under, RecordedUnder
<1>11. ListsHold' /\ VersionsCountWrites'
  <2>1. QualificationsCount /\ ProceduresInStep /\ RequirementsInStep
    BY VersionParts DEF CaseInvariant
  <2>2. QualificationsCount' /\ ProceduresInStep' /\ RequirementsInStep'
    BY <1>1, <2>1, QualificationsCountOn, ProceduresStayInStep, RequirementsStayInStep
       DEF TasksGood
  <2>3. QED
    BY <2>2
       DEF ListsHold, VersionsCountWrites, ProceduresListed, RequirementsListed,
           ProceduresInStep, RequirementsInStep
<1>12. QED
  BY <1>2, <1>3, <1>4, <1>5, <1>6, <1>7, <1>8, <1>9, <1>10, <1>11
     DEF CaseInvariant, ProceduresGood, TasksGood

\* Whatever clients ask for and in whatever order, and whatever the loops do in
\* between, the cases hold together.
THEOREM CasesHoldTogether == Spec => []CaseInvariant
<1>1. Init => CaseInvariant
  BY InitHolds
<1>2. CaseInvariant /\ [Next]_caseVars => CaseInvariant'
  BY NextKeeps
<1>3. QED
  BY <1>1, <1>2, PTL DEF Spec

\* Each invariant of the runs is a part of it, for any number of rules, revisions
\* and requirements:
THEOREM CasesAreTyped == Spec => []TypeOK
<1>1. CaseInvariant => TypeOK
  BY DEF CaseInvariant
<1>2. QED
  BY <1>1, CasesHoldTogether, PTL

\* one rule set in force (PublishRuleSet supersedes what was published before);
THEOREM OneRuleAtATime == Spec => []OneRuleInForce
<1>1. CaseInvariant => OneRuleInForce
  BY DEF CaseInvariant
<1>2. QED
  BY <1>1, CasesHoldTogether, PTL

\* a procedure and its published revision that agree (PublishRevision writes both);
THEOREM PublishedArePointedAt == Spec => []PublishedIsPointedAt
<1>1. CaseInvariant => PublishedIsPointedAt
  BY DEF CaseInvariant
<1>2. QED
  BY <1>1, CasesHoldTogether, PTL

\* ranges without gaps that follow from the rule and the sources a revision names,
\* long after these were superseded or withdrawn (DeriveCoverage, PublishRevision);
THEOREM RangesAreReproducible == Spec => []RangeIsReproducible
<1>1. CaseInvariant => RangeIsReproducible
  BY DEF CaseInvariant
<1>2. QED
  BY <1>1, CasesHoldTogether, PTL

\* conclusions that follow from the range and the requirement (AssessRequirement);
THEOREM ConclusionsAreReproducible == Spec => []ConclusionIsReproducible
<1>1. CaseInvariant => ConclusionIsReproducible
  BY DEF CaseInvariant
<1>2. QED
  BY <1>1, CasesHoldTogether, PTL

\* one task per reason, object and trigger (enqueueAffected);
THEOREM TasksStayDeduplicated == Spec => []TasksAreDeduplicated
<1>1. CaseInvariant => TasksAreDeduplicated
  BY DEF CaseInvariant
<1>2. QED
  BY <1>1, CasesHoldTogether, PTL

\* and a record under its key for all a request created, so that a retry of it
\* creates nothing (idempotent, saveIdempotency, AddEvidence).
THEOREM RetriesAreAnswered == Spec => []RetriesCreateNothing
<1>1. CaseInvariant => RetriesCreateNothing
  BY DEF CaseInvariant
<1>2. QED
  BY <1>1, CasesHoldTogether, PTL

\* The version of a qualification, a procedure and a requirement is the number of
\* writes that can be read off the object: its evidence and status, its revisions,
\* its assessments (AddEvidence, AddRevision, PublishRevision, NoteAssessment).
THEOREM VersionsAreCounts == Spec => []VersionsCountWrites
<1>1. CaseInvariant => VersionsCountWrites
  BY DEF CaseInvariant
<1>2. QED
  BY <1>1, CasesHoldTogether, PTL

\* Each version an object has had before was the base of one accepted write, on
\* any of the six kinds of objects requests write to: the guards on the expected
\* version let no write through that was made on another version (Current,
\* StillCurrent, PublicationWrites).
THEOREM NoUpdateIsLost == Spec => []NoLostUpdate
<1>1. CaseInvariant => NoLostUpdate
  BY DEF CaseInvariant
<1>2. QED
  BY <1>1, CasesHoldTogether, PTL

-----------------------------------------------------------------------------
(* Steps.                                                                  *)

\* A revision found to need requalification is never published, whatever was
\* decided about it before (PublishRevision, DecideChangeReview).
THEOREM BlockedStayUnpublished == Spec => NoBlockedPublication
<1>. DEFINE Step ==
        \A r \in DOMAIN revisions :
            revisions'[r].status = "PUBLISHED" /\ revisions[r].status # "PUBLISHED"
                => \A c \in DOMAIN changeReviews :
                      changeReviews[c].to = r => ~changeReviews[c].blocking
<1>1. ASSUME CaseInvariant, [Next]_caseVars PROVE Step
  <2>1. /\ RulesFit /\ QualificationsFit /\ ProceduresGood /\ SourcesHold /\ ReviewsHold
    BY <1>1, TypeParts DEF CaseInvariant, ProceduresGood
  <2>2. CASE \E id \in RevId, v \in Versions : PublishRevision(id, v)
    <3>1. PICK id \in RevId, v \in Versions : PublishRevision(id, v)
      BY <2>2
    <3>2. \A r \in DOMAIN revisions \ {id} :
             revisions'[r].status = "PUBLISHED" => revisions[r].status = "PUBLISHED"
      BY <2>1, <3>1, PublishRevisionKeeps
    <3>3. \A c \in DOMAIN changeReviews : changeReviews[c].to = id => ~changeReviews[c].blocking
      BY <2>1, <3>1 DEF PublishRevision, BlockedByReview, ReviewsHold
    <3>4. QED
      BY <3>2, <3>3
  <2>3. CASE UNCHANGED revisions
    BY <2>3
  <2>4. CASE ProcedureRequest /\ ~\E id \in RevId, v \in Versions : PublishRevision(id, v)
    <3>1. ASSUME NEW id, NEW rev, NEW r, NEW Q, NEW w, CreateProcedure(id, rev, r, Q, w)
          PROVE  \A x \in DOMAIN revisions : revisions'[x] = revisions[x]
      BY <3>1 DEF CreateProcedure, Put
    <3>2. ASSUME NEW id, NEW v, NEW rev, NEW r, NEW Q, NEW w,
                 CreateRevision(id, v, rev, r, Q, w)
          PROVE  \A x \in DOMAIN revisions : revisions'[x] = revisions[x]
      BY <3>2 DEF CreateRevision, Put
    <3>3. ASSUME NEW id \in RevId, NEW v \in Versions, DeriveCoverage(id, v)
          PROVE  Step
      <4>1. /\ id \in DOMAIN revisions
            /\ \A x \in DOMAIN revisions \ {id} : revisions'[x] = revisions[x]
            /\ revisions[id].status = "DRAFT"
        BY <3>3 DEF DeriveCoverage
      <4>2. RevisionsAdvance
        BY <2>1, <3>3, <4>1, GapsAreBoolean, DeriveCoverageKeeps
      <4>3. revisions'[id].status # "PUBLISHED"
        BY <4>1, <4>2 DEF RevisionsAdvance, PublishedOnce
      <4>4. QED
        BY <4>1, <4>3
    <3>4. QED
      BY <2>4, <3>1, <3>2, <3>3 DEF ProcedureRequest
  <2>5. QED
    BY <1>1, <2>2, <2>3, <2>4, RuleFrame, QualificationFrame, AssessmentFrame, ReviewFrame,
       LoopFrame, Steps
     DEF caseVars
<1>2. QED
  BY <1>1, CasesHoldTogether, PTL DEF Spec, NoBlockedPublication

\* What is known against a revision that has been assessed changes only in a step
\* that marks its assessments.
LEMMA SourcesKnown ==
  ASSUME CaseInvariant, NEW r \in DOMAIN revisions
  PROVE  /\ revisions[r].rule \in DOMAIN rules /\ rules[revisions[r].rule].status # "DRAFT"
         /\ \A q \in revisions[r].sources : q \in DOMAIN qualifications /\ Passed(q)
BY DEF CaseInvariant, SourcesHold

LEMMA TriggersLast ==
  ASSUME CaseInvariant, RevisionsLast, NEW r \in DOMAIN revisions,
         rules'[revisions[r].rule].status = "SUPERSEDED"
            <=> rules[revisions[r].rule].status = "SUPERSEDED",
         \A q \in revisions[r].sources :
            /\ q \in DOMAIN qualifications'
            /\ qualifications'[q].evidence = qualifications[q].evidence
            /\ qualifications'[q].status = "WITHDRAWN"
                  <=> qualifications[q].status = "WITHDRAWN",
         \A e : e[1] \in revisions[r].sources => (Scanned(e)' <=> Scanned(e))
  PROVE  Triggers(r)' = Triggers(r)
<1>. DEFINE S == revisions[r].sources
            rule == revisions[r].rule
<1>1. revisions'[r].rule = rule /\ revisions'[r].sources = S
  BY DEF RevisionsLast
<1>2. {y \in {rule} : rules'[y].status = "SUPERSEDED"} = {y \in {rule} : rules[y].status = "SUPERSEDED"}
  OBVIOUS
<1>3. {x \in S : qualifications'[x].status = "WITHDRAWN"}
         = {x \in S : qualifications[x].status = "WITHDRAWN"}
  OBVIOUS
<1>4. {x \in AllEvidence' : x[1] \in S /\ Scanned(x)'} = {x \in AllEvidence : x[1] \in S /\ Scanned(x)}
  <2>1. ASSUME NEW x, x[1] \in S
        PROVE  x \in AllEvidence' <=> x \in AllEvidence
    <3>1. x[1] \in DOMAIN qualifications /\ x[1] \in DOMAIN qualifications'
      BY <2>1, SourcesKnown
    <3>2. qualifications'[x[1]].evidence = qualifications[x[1]].evidence
      BY <2>1
    <3>3. x \in AllEvidence <=> \E i \in DOMAIN qualifications[x[1]].evidence : x = <<x[1], i>>
      BY <3>1 DEF AllEvidence
    <3>4. x \in AllEvidence' <=> \E i \in DOMAIN qualifications'[x[1]].evidence : x = <<x[1], i>>
      BY <3>1 DEF AllEvidence
    <3>5. QED
      BY <3>2, <3>3, <3>4
  <2>2. QED
    BY <2>1
<1>5. QED
  BY <1>1, <1>2, <1>3, <1>4 DEF Triggers

LEMMA UnscannedLast == ASSUME UNCHANGED tasks PROVE SameScans
BY DEF SameScans, Scanned

LEMMA TriggersMark ==
  ASSUME CaseInvariant, [Next]_caseVars, NEW a \in DOMAIN assessments,
         NEW r, r = assessments[a].revision
  PROVE  Triggers(r)' = Triggers(r) \/ assessments'[a].stale
<1>. DEFINE S == revisions[r].sources
            rule == revisions[r].rule
            SameRule == rules'[rule].status = "SUPERSEDED" <=> rules[rule].status = "SUPERSEDED"
            SameSources ==
                \A q \in S :
                   /\ q \in DOMAIN qualifications'
                   /\ qualifications'[q].evidence = qualifications[q].evidence
                   /\ qualifications'[q].status = "WITHDRAWN"
                         <=> qualifications[q].status = "WITHDRAWN"
<1>1. r \in DOMAIN revisions /\ RevisionsLast
  BY NextKeeps DEF CaseInvariant, AssessmentsHold
<1>2. /\ rule \in DOMAIN rules /\ rules[rule].status # "DRAFT"
      /\ \A q \in S : q \in DOMAIN qualifications /\ Passed(q)
  BY <1>1, SourcesKnown
<1>3. AssessmentsFit /\ TasksGood /\ RulesFit /\ QualificationsFit
  BY TypeParts DEF CaseInvariant, TasksGood
<1>4. SameRule /\ SameSources /\ SameScans => Triggers(r)' = Triggers(r)
  BY <1>1, TriggersLast DEF SameScans
<1>5. UNCHANGED rules => SameRule
  OBVIOUS
<1>6. UNCHANGED qualifications => SameSources
  BY <1>2
<1>7. CASE RuleRequest
  <2>1. SameSources
    BY <1>6, <1>7, RuleFrame
  <2>2. ASSUME NEW id, NEW c, CreateRuleSet(id, c) PROVE SameRule /\ SameScans
    <3>1. rules'[rule] = rules[rule] /\ UNCHANGED tasks
      BY <1>2, <2>2 DEF CreateRuleSet, Put
    <3>2. QED
      BY <3>1, UnscannedLast
  <2>3. ASSUME NEW id, NEW v, NEW c, UpdateRuleSet(id, v, c) PROVE SameRule /\ SameScans
    <3>1. id # rule /\ UNCHANGED tasks
      BY <1>2, <2>3 DEF UpdateRuleSet, Editable
    <3>2. rules'[rule] = rules[rule]
      BY <1>2, <2>3, <3>1 DEF UpdateRuleSet
    <3>3. QED
      BY <3>1, <3>2, UnscannedLast
  <2>4. ASSUME NEW id, NEW v, PublishRuleSet(id, v)
        PROVE  SameScans /\ (SameRule \/ assessments'[a].stale)
    <3>1. /\ SameScans
          /\ r \in AffectedRevisions => assessments'[a].stale
      BY <1>3, <2>4, PublishRuleSetMarks
    <3>2. CASE rules[rule].status = "PUBLISHED"
      BY <1>1, <1>2, <3>1, <3>2 DEF AffectedRevisions, Superseded
    <3>3. CASE rules[rule].status # "PUBLISHED"
      <4>1. id # rule
        BY <1>2, <2>4 DEF PublishRuleSet
      <4>2. rules'[rule] = rules[rule]
        BY <1>2, <2>4, <3>3, <4>1 DEF PublishRuleSet, Supersede, Superseded
      <4>3. QED
        BY <3>1, <4>2
    <3>4. QED
      BY <3>2, <3>3
  <2>5. QED
    BY <1>4, <1>7, <2>1, <2>2, <2>3, <2>4 DEF RuleRequest
<1>8. CASE QualificationRequest
  <2>1. SameRule
    BY <1>5, <1>8, QualificationFrame
  <2>2. ASSUME NEW id, NEW x, NEW w, CreateQualification(id, x, w)
        PROVE  SameSources /\ SameScans
    <3>1. \A q \in S : q \in DOMAIN qualifications' /\ qualifications'[q] = qualifications[q]
      BY <1>2, <2>2 DEF CreateQualification, Put
    <3>2. UNCHANGED tasks
      BY <2>2 DEF CreateQualification
    <3>3. QED
      BY <3>1, <3>2, UnscannedLast
  <2>3. ASSUME NEW id, NEW k, NEW e, AddEvidence(id, k, e) PROVE SameSources /\ SameScans
    <3>1. id \notin S
      BY <1>2, <2>3 DEF AddEvidence, Passed
    <3>2. \A q \in S : q \in DOMAIN qualifications' /\ qualifications'[q] = qualifications[q]
      BY <1>2, <2>3, <3>1 DEF AddEvidence
    <3>3. UNCHANGED tasks
      BY <2>3 DEF AddEvidence
    <3>4. QED
      BY <3>2, <3>3, UnscannedLast
  <2>4. ASSUME NEW id, NEW v, EvaluateQualification(id, v) PROVE SameSources /\ SameScans
    <3>1. id \notin S
      BY <1>2, <2>4 DEF EvaluateQualification, Passed
    <3>2. \A q \in S : q \in DOMAIN qualifications' /\ qualifications'[q] = qualifications[q]
      BY <1>2, <2>4, <3>1 DEF EvaluateQualification
    <3>3. UNCHANGED tasks
      BY <2>4 DEF EvaluateQualification
    <3>4. QED
      BY <3>2, <3>3, UnscannedLast
  <2>5. ASSUME NEW id, NEW v, WithdrawQualification(id, v)
        PROVE  SameScans /\ (SameSources \/ assessments'[a].stale)
    <3>1. /\ SameScans
          /\ r \in RevisionsFrom(id) => assessments'[a].stale
      BY <1>3, <2>5, WithdrawQualificationMarks
    <3>2. CASE id \in S
      BY <1>1, <3>1, <3>2 DEF RevisionsFrom
    <3>3. CASE id \notin S
      <4>1. \A q \in S : q \in DOMAIN qualifications' /\ qualifications'[q] = qualifications[q]
        BY <1>2, <2>5, <3>3 DEF WithdrawQualification
      <4>2. QED
        BY <3>1, <4>1
    <3>4. QED
      BY <3>2, <3>3
  <2>6. QED
    <3>. HIDE DEF SameRule, SameSources
    <3>1. QED
      BY <1>4, <1>8, <2>1, <2>2, <2>3, <2>4, <2>5, Zenon DEF QualificationRequest
<1>9. CASE UNCHANGED <<rules, qualifications, tasks>>
  BY <1>4, <1>5, <1>6, <1>9, UnscannedLast
<1>10. CASE RunDueTasks
  BY <1>3, <1>4, <1>5, <1>6, <1>10, LoopFrame, RunDueTasksMarks
<1>11. CASE ScanExpiredEvidence
  <2>1. SameRule /\ SameSources
    BY <1>5, <1>6, <1>11, LoopFrame
  <2>2. /\ \A e : Scanned(e)' => Scanned(e) \/ e \in ToScan(scanTime)
        /\ \A e : Scanned(e) => Scanned(e)'
        /\ \A e \in ToScan(scanTime) : r \in RevisionsFrom(e[1]) => assessments'[a].stale
    BY <1>3, <1>11, ScanMarks
  <2>3. CASE \E e \in ToScan(scanTime) : e[1] \in S
    BY <1>1, <2>2, <2>3 DEF RevisionsFrom
  <2>4. CASE ~\E e \in ToScan(scanTime) : e[1] \in S
    <3>1. \A e : e[1] \in S => (Scanned(e)' <=> Scanned(e))
      BY <2>2, <2>4
    <3>2. QED
      BY <1>1, <2>1, <3>1, TriggersLast
  <2>5. QED
    BY <2>3, <2>4
<1>12. QED
  <2>1. CASE Tick \/ Looks
    BY <1>9, <2>1, LookFrame DEF Tick
  <2>2. QED
    BY <1>7, <1>8, <1>9, <1>10, <1>11, <2>1, ProcedureFrame, AssessmentFrame, ReviewFrame, Steps
       DEF caseVars

\* No step makes something known against a revision and leaves an assessment of
\* it fresh; none rewrites or clears a mark (PublishRuleSet, WithdrawQualification,
\* ScanExpiredEvidence, RunDueTasks).
THEOREM TriggersAlwaysMark == Spec => TriggersMarkAtOnce
<1>. DEFINE Step ==
        \A a \in DOMAIN assessments :
            LET r == assessments[a].revision
            IN  /\ Triggers(r)' # Triggers(r) => assessments'[a].stale
                /\ assessments[a].stale => assessments'[a] = assessments[a]
<1>1. ASSUME CaseInvariant, [Next]_caseVars PROVE Step
  <2>1. SUFFICES ASSUME NEW a \in DOMAIN assessments
                 PROVE  LET r == assessments[a].revision
                        IN  /\ Triggers(r)' # Triggers(r) => assessments'[a].stale
                            /\ assessments[a].stale => assessments'[a] = assessments[a]
    OBVIOUS
  <2>2. PICK r : r = assessments[a].revision
    OBVIOUS
  <2>3. AssessmentsLast
    BY <1>1, NextKeeps
  <2>4. assessments'[a].revision = r
    BY <2>2, <2>3 DEF AssessmentsLast
  <2>5. Triggers(r)' = Triggers(r) \/ assessments'[a].stale
    BY <1>1, <2>2, TriggersMark
  <2>6. Triggers(assessments[a].revision)' = Triggers(r)'
    BY <2>4 DEF Triggers
  <2>7. QED
    BY <2>2, <2>3, <2>5, <2>6 DEF AssessmentsLast
<1>2. QED
  BY <1>1, CasesHoldTogether, PTL DEF Spec, TriggersMarkAtOnce

=============================================================================
