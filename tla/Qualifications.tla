--------------------------- MODULE Qualifications ---------------------------
(* Qualification records: created under a rule, given evidence, evaluated  *)
(* once, and possibly withdrawn (src/internal/app/service.go).             *)
EXTENDS CaseState

CreateQualification(id, rule, variables) ==
    /\ id \notin DOMAIN qualifications
    /\ rule \in DOMAIN rules
    /\ rules[rule].status # "DRAFT"
    /\ qualifications' = Put(qualifications, id,
            [rule |-> rule, status |-> "UNDER_TEST", version |-> 1,
             variables |-> variables, evidence |-> << >>])
    /\ UNCHANGED <<rules, procedures, revisions, requirements, assessments, changeReviews,
                   tasks, idempotency, now, based, due, scanTime>>

\* The request digest covers what the client sent, its expected version included.
\* good stands for passed, in the required unit and at or above the threshold.
EvidenceRequest(expected, good, expires) ==
    [expected |-> expected, good |-> good, expires |-> expires]

\* A request under a key that has been used is answered from its record, or
\* refused when it differs; both leave the state alone.
AddEvidence(id, key, request) ==
    /\ <<"evidence", id, key>> \notin DOMAIN idempotency
    /\ id \in DOMAIN qualifications
    /\ qualifications[id].status = "UNDER_TEST"
    /\ Current(qualifications[id], request.expected)
    /\ Len(qualifications[id].evidence) < MaxEvidence
    /\ qualifications' = [qualifications EXCEPT
            ![id].evidence = Append(@, [good |-> request.good, expires |-> request.expires,
                                        key |-> key]),
            ![id].version = @ + 1]
    /\ based' = based \cup WriteOn("qualification", id, request.expected)
    /\ idempotency' =
            IF key = NoKey THEN idempotency
            ELSE Put(idempotency, <<"evidence", id, key>>,
                     [digest |-> request,
                      response |-> {Len(qualifications[id].evidence) + 1}])
    /\ UNCHANGED <<rules, procedures, revisions, requirements, assessments, changeReviews,
                   tasks, now, due, scanTime>>

Active(e) == now <= e.expires

\* The first evidence still active decides; without any the test is missing.  A
\* rule may ask for tests in other service conditions only.
EvaluatePasses(q) ==
    NeedsTest(rules[q.rule].content, q.variables) =>
        \E i \in DOMAIN q.evidence :
            /\ Active(q.evidence[i])
            /\ q.evidence[i].good
            /\ \A j \in 1..(i - 1) : ~Active(q.evidence[j])

EvaluateQualification(id, expected) ==
    /\ id \in DOMAIN qualifications
    /\ qualifications[id].status = "UNDER_TEST"
    /\ Current(qualifications[id], expected)
    /\ qualifications' = [qualifications EXCEPT
            ![id].status = IF EvaluatePasses(qualifications[id]) THEN "QUALIFIED" ELSE "FAILED",
            ![id].version = @ + 1]
    /\ based' = based \cup WriteOn("qualification", id, expected)
    /\ UNCHANGED <<rules, procedures, revisions, requirements, assessments, changeReviews,
                   tasks, idempotency, now, due, scanTime>>

\* Mutant: the withdrawal leaves the marking to the task worker.
StaleByWithdrawal_Deferred(id) == assessments
StaleByWithdrawal(id) ==
    MarkAssessmentsStale(assessments, RevisionsFrom(id), "QUALIFICATION_WITHDRAWN")

WithdrawQualification(id, expected) ==
    /\ id \in DOMAIN qualifications
    /\ qualifications[id].status = "QUALIFIED"
    /\ Current(qualifications[id], expected)
    /\ qualifications' = [qualifications EXCEPT
            ![id].status = "WITHDRAWN", ![id].version = @ + 1]
    /\ based' = based \cup WriteOn("qualification", id, expected)
    /\ tasks' = EnqueueAffected(tasks,
            {TaskKey("QUALIFICATION_WITHDRAWN", "revision", r, id) : r \in RevisionsFrom(id)})
    /\ assessments' = StaleByWithdrawal(id)
    /\ UNCHANGED <<rules, procedures, revisions, requirements, changeReviews, idempotency,
                   now, due, scanTime>>
=============================================================================
