------------------------------ MODULE Casework ------------------------------
(***************************************************************************)
(* The service as its clients and its background loops drive it: any       *)
(* operation with any arguments, one at a time, over one state.            *)
(***************************************************************************)
EXTENDS RuleSets, Qualifications, Procedures, Assessments, ChangeReviews, ReviewTasks,
        FiniteSetsExt

\* Every version an aggregate can reach within the bounds, and some it cannot.
Versions ==
    1..Max({MaxEdits + 3, MaxEvidence + 3, 4, 2 * Cardinality(RevId),
            Cardinality(AssessId) + 1})

Tick ==
    /\ now < MaxTime
    /\ now' = now + 1
    /\ UNCHANGED <<rules, qualifications, procedures, revisions, requirements, assessments,
                   changeReviews, tasks, idempotency, based, due, scanTime>>

RuleRequest ==
    \E id \in RuleId :
        \/ \E c \in Content : CreateRuleSet(id, c)
        \/ \E v \in Versions, c \in Content : UpdateRuleSet(id, v, c)
        \/ \E v \in Versions : PublishRuleSet(id, v)

QualificationRequest ==
    \E id \in QualId :
        \/ \E r \in RuleId, w \in Variables : CreateQualification(id, r, w)
        \/ \E k \in Key \cup {NoKey}, v \in Versions, good \in BOOLEAN, x \in Time :
              AddEvidence(id, k, EvidenceRequest(v, good, x))
        \/ \E v \in Versions : EvaluateQualification(id, v)
        \/ \E v \in Versions : WithdrawQualification(id, v)

ProcedureRequest ==
    \/ \E id \in ProcId, rev \in RevId, r \in RuleId, Q \in SUBSET QualId, w \in Variables :
          \/ CreateProcedure(id, rev, r, Q, w)
          \/ \E v \in Versions : CreateRevision(id, v, rev, r, Q, w)
    \/ \E id \in RevId, v \in Versions : DeriveCoverage(id, v) \/ PublishRevision(id, v)

AssessmentRequest ==
    \/ \E id \in ReqId, k \in Key \cup {NoKey}, w \in Variables : CreateRequirement(id, k, w)
    \/ \E ids \in SUBSET ReqId, k \in Key \cup {NoKey}, w \in Variables :
          ImportRequirements(ids, k, w)
    \/ \E id \in ReqId, a \in AssessId, rev \in RevId, v \in Versions :
          AssessRequirement(id, a, rev, v)

ReviewRequest ==
    \E id \in ReviewId :
        \/ \E from, to \in RevId, r \in RuleId : CreateChangeReview(id, from, to, r)
        \/ \E v \in Versions, d \in {"APPROVED", "REQUALIFICATION_REQUIRED"} :
              DecideChangeReview(id, v, d)

Next ==
    \/ RuleRequest
    \/ QualificationRequest
    \/ ProcedureRequest
    \/ AssessmentRequest
    \/ ReviewRequest
    \/ LookForTasks
    \/ RunDueTasks
    \/ LookForExpired
    \/ ScanExpiredEvidence
    \/ Tick

Spec == Init /\ [][Next]_caseVars

\* The loops tick for as long as the server runs, whatever the last run did.
Fairness ==
    /\ WF_caseVars(LookForTasks) /\ WF_caseVars(RunDueTasks)
    /\ WF_caseVars(LookForExpired) /\ WF_caseVars(ScanExpiredEvidence)
FairSpec == Spec /\ Fairness

-----------------------------------------------------------------------------
(* Safety                                                                  *)

Maps(f, D, Rec(_)) == DOMAIN f \subseteq D /\ \A x \in DOMAIN f : Rec(f[x])
TypeOK ==
    /\ Maps(rules, RuleId, LAMBDA r : r \in RuleSet)
    /\ Maps(qualifications, QualId, LAMBDA q : q \in Qualification)
    /\ Maps(procedures, ProcId, LAMBDA p : p \in Procedure)
    /\ Maps(revisions, RevId, RevisionOK)
    /\ Maps(requirements, ReqId, RequirementOK)
    /\ Maps(assessments, AssessId, LAMBDA a : a \in Assessment)
    /\ Maps(changeReviews, ReviewId, LAMBDA r : r \in ChangeReview)
    /\ \A t \in tasks \cup due : TaskOK(t)
    /\ now \in Time
    /\ scanTime \in Time \cup {Idle}

\* Clients never see two rule sets in force.
OneRuleInForce ==
    \A r, s \in DOMAIN rules :
        rules[r].status = "PUBLISHED" /\ rules[s].status = "PUBLISHED" => r = s

\* A procedure points at its one published revision, and only its revisions
\* say they are published (revision and procedure are written together).
PublishedIsPointedAt ==
    /\ \A p \in DOMAIN procedures :
          procedures[p].published # Nothing => procedures[p].published \in DOMAIN revisions
    /\ \A r \in DOMAIN revisions :
          revisions[r].status = "PUBLISHED"
              <=> procedures[revisions[r].procedure].published = r

\* What was published covers itself, and its range can be derived again from
\* the rule and the sources it names, whatever happened to them since.
RangeIsReproducible ==
    \A r \in DOMAIN revisions :
        LET rev == revisions[r]
            c == rules[rev.rule].content
            V == SourceVariables(r)
        IN  /\ rev.status # "DRAFT" => rev.coverage = Coverage(c, V)
            /\ rev.status \in {"PUBLISHED", "RETIRED"} => ~HasGaps(c, V, rev.variables)
            /\ \A q \in rev.sources : qualifications[q].rule = rev.rule

\* So can every conclusion, from what the revision assessed was derived from and
\* from the requirement, whatever rule is in force and whatever became of them.
ConclusionIsReproducible ==
    \A a \in DOMAIN assessments :
        LET x == assessments[a]
            c == ContentOf(revisions[x.revision].rule)
        IN  x.conclusion = Conclude(c, Coverage(c, SourceVariables(x.revision)),
                                    requirements[x.requirement].variables)

\* A revision is never published over a change that was found to need
\* requalification: such a review can neither be approved nor passed by.
NoBlockedPublication ==
    [][\A r \in DOMAIN revisions :
          revisions'[r].status = "PUBLISHED" /\ revisions[r].status # "PUBLISHED"
              => \A c \in DOMAIN changeReviews :
                    changeReviews[c].to = r => ~changeReviews[c].blocking]_caseVars

\* A version is the number of writes that can be read off the object, whichever
\* requests made them: evidence and status, revisions and publications, assessments.
QualificationsCount ==
    \A q \in DOMAIN qualifications :
        LET x == qualifications[q]
        IN  x.version = Len(x.evidence)
                + (CASE x.status = "UNDER_TEST" -> 1
                     [] x.status \in {"QUALIFIED", "FAILED"} -> 2
                     [] x.status = "WITHDRAWN" -> 3)
PublishedOf(p) ==
    {r \in procedures[p].revisions : revisions[r].status \in {"PUBLISHED", "RETIRED"}}
ProceduresCount ==
    \A p \in DOMAIN procedures :
        procedures[p].version = Cardinality(procedures[p].revisions) + Cardinality(PublishedOf(p))
AssessmentsOf(r) == {a \in DOMAIN assessments : assessments[a].requirement = r}
RequirementsCount ==
    \A r \in DOMAIN requirements :
        requirements[r].version = 1 + Cardinality(AssessmentsOf(r))
VersionsCountWrites == QualificationsCount /\ ProceduresCount /\ RequirementsCount

\* The writes accepted on an object were made on each of its past versions once:
\* whoever raced, nobody overwrote what he had not read.
EachFollows(writes, type, f, Ids) ==
    \A x \in Ids, v \in Versions :
        <<type, x, v>> \in writes <=> x \in DOMAIN f /\ v < f[x].version
NoLostUpdate ==
    /\ EachFollows(based, "rule_set", rules, RuleId)
    /\ EachFollows(based, "qualification", qualifications, QualId)
    /\ EachFollows(based, "procedure", procedures, ProcId)
    /\ EachFollows(based, "revision", revisions, RevId)
    /\ EachFollows(based, "requirement", requirements, ReqId)
    /\ EachFollows(based, "change_review", changeReviews, ReviewId)

\* What is known against a revision.
Triggers(r) ==
    {<<"RULE_UPGRADE", x>> : x \in {y \in {revisions[r].rule} : rules[y].status = "SUPERSEDED"}}
    \cup {<<"QUALIFICATION_WITHDRAWN", q>> :
              q \in {x \in revisions[r].sources : qualifications[x].status = "WITHDRAWN"}}
    \cup {<<"EVIDENCE_EXPIRED", e>> :
              e \in {x \in AllEvidence : x[1] \in revisions[r].sources /\ Scanned(x)}}

\* No step adds to what is known against a revision and leaves one of its
\* assessments fresh; no step makes a stale one fresh again or gives it another
\* reason, and none rewrites a conclusion.
TriggersMarkAtOnce ==
    [][\A a \in DOMAIN assessments :
          LET r == assessments[a].revision
          IN  /\ Triggers(r)' # Triggers(r) => assessments'[a].stale
              /\ assessments[a].stale => assessments'[a] = assessments[a]]_caseVars

\* One task per reason, object and trigger, over all interleavings of
\* publications, withdrawals, scans and runs.
TasksAreDeduplicated == \A s, t \in tasks : s.key = t.key => s = t

\* A recorded key stands for everything that was created under it, so a retry
\* is answered with what the first call did and creates nothing.
RetriesCreateNothing ==
    /\ \A r \in DOMAIN requirements :
          requirements[r].key[2] # NoKey =>
              /\ requirements[r].key \in DOMAIN idempotency
              /\ r \in idempotency[requirements[r].key].response
    /\ \A q \in DOMAIN qualifications, k \in Key :
          {i \in DOMAIN qualifications[q].evidence : qualifications[q].evidence[i].key = k}
              = IF <<"evidence", q, k>> \in DOMAIN idempotency
                THEN idempotency[<<"evidence", q, k>>].response ELSE {}

\* docs/business-rules.md: a withdrawal, an upgrade or an expiry puts the
\* conclusions downstream up for review.  Once its tasks have run, a revision
\* with something known against it has no conclusion that looks sound.
FreshMeansUnchallenged ==
    \A a \in DOMAIN assessments :
        LET r == assessments[a].revision
        IN  ~assessments[a].stale /\ (\A t \in RevisionTasks(Pending) : t.key.object # r)
                => Triggers(r) = {}

\* Once it has passed, a qualification can only be withdrawn.
Passed(q) == qualifications[q].status \in {"QUALIFIED", "WITHDRAWN"}

\* What an object names is there, and in a state that lasts.  A procedure and the
\* revision it points at name each other;
ProceduresHold ==
    /\ \A p \in DOMAIN procedures :
          LET r == procedures[p].published
          IN  r # Nothing => r \in DOMAIN revisions /\ revisions[r].procedure = p
    /\ \A r \in DOMAIN revisions : revisions[r].procedure \in DOMAIN procedures

\* the rule of a revision is no draft, so its content is frozen, its sources have
\* passed, and its gaps are those its derivation found;
SourcesHold ==
    \A r \in DOMAIN revisions :
        LET rev == revisions[r]
        IN  /\ rev.rule \in DOMAIN rules /\ rules[rev.rule].status # "DRAFT"
            /\ \A q \in rev.sources : q \in DOMAIN qualifications /\ Passed(q)
            /\ rev.status # "DRAFT" =>
                  rev.gaps = HasGaps(ContentOf(rev.rule), SourceVariables(r), rev.variables)

\* what was assessed had been published, and under that rule;
AssessmentsHold ==
    \A a \in DOMAIN assessments :
        /\ assessments[a].requirement \in DOMAIN requirements
        /\ assessments[a].revision \in DOMAIN revisions
        /\ revisions[assessments[a].revision].status \in {"PUBLISHED", "RETIRED"}
        /\ assessments[a].rule = revisions[assessments[a].revision].rule

\* a procedure lists the revisions that name it, and a requirement the assessments
\* that do, finitely many at any time;
ListsHold ==
    /\ \A p \in DOMAIN procedures :
          /\ procedures[p].revisions = {r \in DOMAIN revisions : revisions[r].procedure = p}
          /\ IsFiniteSet(procedures[p].revisions)
    /\ \A r \in DOMAIN requirements :
          /\ requirements[r].assessments = AssessmentsOf(r)
          /\ IsFiniteSet(requirements[r].assessments)

\* a review that blocks has not been approved;
ReviewsHold ==
    \A c \in DOMAIN changeReviews :
        changeReviews[c].blocking => changeReviews[c].status # "APPROVED"

\* and a record for evidence is one of a qualification there is.
RecordsHold ==
    \A q \in QualId, k \in Key :
        <<"evidence", q, k>> \in DOMAIN idempotency => q \in DOMAIN qualifications

\* The inductive invariant of the service.
CaseInvariant ==
    /\ TypeOK
    /\ ProceduresHold
    /\ SourcesHold
    /\ AssessmentsHold
    /\ ListsHold
    /\ ReviewsHold
    /\ RecordsHold
    /\ OneRuleInForce
    /\ PublishedIsPointedAt
    /\ RangeIsReproducible
    /\ ConclusionIsReproducible
    /\ TasksAreDeduplicated
    /\ RetriesCreateNothing
    /\ VersionsCountWrites
    /\ NoLostUpdate

-----------------------------------------------------------------------------
(* Liveness                                                                *)

\* No task stays queued: the worker gets to each, however many are queued
\* meanwhile.
EveryTaskIsDone ==
    \A r \in RevId \cup RuleId \cup ReviewId \cup QualId :
        (\E t \in Pending : t.key.object = r) ~> ~(\E t \in Pending : t.key.object = r)

\* An assessment made of a revision that already has a task queued is overtaken
\* by it: once the task has run, the assessment is stale.
TasksOvertakeAssessments ==
    \A a \in AssessId :
        (a \in DOMAIN assessments
            /\ \E t \in RevisionTasks(Pending) : t.key.object = assessments[a].revision)
            ~> (a \in DOMAIN assessments /\ assessments[a].stale)

\* Evidence that expires under an assessment is noticed, and the assessment is
\* marked, though no request ever mentions it.
ExpiryReachesAssessments ==
    \A a \in AssessId :
        (a \in DOMAIN assessments
            /\ \E e \in AllEvidence :
                  Expired(e, now) /\ ~Scanned(e)
                      /\ e[1] \in revisions[assessments[a].revision].sources)
            ~> (a \in DOMAIN assessments /\ assessments[a].stale)
=============================================================================
