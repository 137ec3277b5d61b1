--------------------------- MODULE ChangeReviews ----------------------------
(* Change reviews: two revisions of a procedure compared under a rule, and *)
(* the decision on the difference (src/internal/app/service.go).           *)
EXTENDS CaseState

\* The rule need not be published, and the revisions may be in any state.
CreateChangeReview(id, from, to, rule) ==
    /\ id \notin DOMAIN changeReviews
    /\ {from, to} \subseteq DOMAIN revisions
    /\ revisions[from].procedure = revisions[to].procedure
    /\ rule \in DOMAIN rules
    /\ changeReviews' = Put(changeReviews, id,
            [from |-> from, to |-> to, rule |-> rule, status |-> "READY", version |-> 1,
             blocking |-> Blocking(rules[rule].content, revisions[from].variables,
                                   revisions[to].variables)])
    /\ UNCHANGED <<rules, qualifications, procedures, revisions, requirements, assessments,
                   tasks, idempotency, now, based, due, scanTime>>

MayDecide(review, decision) == review.blocking => decision # "APPROVED"

DecideChangeReview(id, expected, decision) ==
    /\ id \in DOMAIN changeReviews
    /\ changeReviews[id].status = "READY"
    /\ Current(changeReviews[id], expected)
    /\ decision \in {"APPROVED", "REQUALIFICATION_REQUIRED"}
    /\ MayDecide(changeReviews[id], decision)
    /\ changeReviews' = [changeReviews EXCEPT ![id].status = decision, ![id].version = @ + 1]
    /\ based' = based \cup WriteOn("change_review", id, expected)
    /\ UNCHANGED <<rules, qualifications, procedures, revisions, requirements, assessments,
                   tasks, idempotency, now, due, scanTime>>
=============================================================================
