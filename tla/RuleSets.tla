------------------------------ MODULE RuleSets ------------------------------
(* Rule sets: drafts are edited, published once, and superseded by the     *)
(* next publication (src/internal/app/service.go).                         *)
EXTENDS CaseState

CreateRuleSet(id, content) ==
    /\ id \notin DOMAIN rules
    /\ rules' = Put(rules, id, [status |-> "DRAFT", version |-> 1, content |-> content])
    /\ UNCHANGED <<qualifications, procedures, revisions, requirements, assessments,
                   changeReviews, tasks, idempotency, now, based, due, scanTime>>

\* Mutant: only a superseded rule is protected from edits.
Editable_AnyLive(id) == rules[id].status # "SUPERSEDED"
Editable(id) == rules[id].status = "DRAFT"

\* A rule set starts at version 1; publishing and superseding count as well.
Edits(id) ==
    rules[id].version - (CASE rules[id].status = "DRAFT" -> 1
                           [] rules[id].status = "PUBLISHED" -> 2
                           [] rules[id].status = "SUPERSEDED" -> 3)

UpdateRuleSet(id, expected, content) ==
    /\ id \in DOMAIN rules
    /\ Editable(id)
    /\ Current(rules[id], expected)
    /\ Edits(id) < MaxEdits
    /\ rules' = [rules EXCEPT ![id].content = content, ![id].version = @ + 1]
    /\ based' = based \cup WriteOn("rule_set", id, expected)
    /\ UNCHANGED <<qualifications, procedures, revisions, requirements, assessments,
                   changeReviews, tasks, idempotency, now, due, scanTime>>

\* What refers to the rules a publication supersedes.
Superseded == {r \in DOMAIN rules : rules[r].status = "PUBLISHED"}
AffectedRevisions == {r \in DOMAIN revisions : revisions[r].rule \in Superseded}
AffectedReviews ==
    {r \in DOMAIN changeReviews :
        changeReviews[r].rule \in Superseded /\ changeReviews[r].status = "READY"}
UpgradeKeys(id) ==
    {TaskKey("RULE_UPGRADE", "rule_set", r, id) : r \in Superseded}
        \cup {TaskKey("RULE_UPGRADE", "revision", r, id) : r \in AffectedRevisions}
        \cup {TaskKey("RULE_UPGRADE", "change_review", r, id) : r \in AffectedReviews}

\* Mutant: the rules published before stay published.
Supersede_Skipped(id) ==
    [r \in DOMAIN rules |->
        IF r = id THEN [rules[r] EXCEPT !.status = "PUBLISHED", !.version = @ + 1]
        ELSE rules[r]]
Supersede(id) ==
    [r \in DOMAIN rules |->
        IF r = id THEN [rules[r] EXCEPT !.status = "PUBLISHED", !.version = @ + 1]
        ELSE IF r \in Superseded
        THEN [rules[r] EXCEPT !.status = "SUPERSEDED", !.version = @ + 1]
        ELSE rules[r]]

PublishRuleSet(id, expected) ==
    /\ id \in DOMAIN rules
    /\ rules[id].status = "DRAFT"
    /\ Current(rules[id], expected)
    /\ rules[id].content \in ValidContent
    /\ rules' = Supersede(id)
    /\ based' = based \cup WriteOn("rule_set", id, expected)
                     \cup UNION {WriteOn("rule_set", r, rules[r].version) : r \in Superseded}
    /\ tasks' = EnqueueAffected(tasks, UpgradeKeys(id))
    /\ assessments' = MarkAssessmentsStale(assessments, AffectedRevisions, "RULE_UPGRADE")
    /\ UNCHANGED <<qualifications, procedures, revisions, requirements, changeReviews,
                   idempotency, now, due, scanTime>>
=============================================================================
