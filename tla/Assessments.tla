---------------------------- MODULE Assessments -----------------------------
(* Joint requirements, created one by one or imported in batches, and the  *)
(* assessments of published revisions against them                         *)
(* (src/internal/app/service.go).                                          *)
EXTENDS CaseState

NewRequirement(variables, key) ==
    [version |-> 1, variables |-> variables, assessments |-> {}, key |-> key]

\* Mutant: what was created is not recorded under its key.
Record_Forgotten(key, digest, response) == idempotency
Record(key, digest, response) ==
    IF key[2] = NoKey THEN idempotency
    ELSE Put(idempotency, key, [digest |-> digest, response |-> response])

CreateRequirement(id, key, variables) ==
    /\ id \notin DOMAIN requirements
    /\ <<"requirement", key>> \notin DOMAIN idempotency
    /\ requirements' = Put(requirements, id,
                           NewRequirement(variables, <<"requirement", key>>))
    /\ idempotency' = Record(<<"requirement", key>>, variables, {id})
    /\ UNCHANGED <<rules, qualifications, procedures, revisions, assessments, changeReviews,
                   tasks, now, based, due, scanTime>>

\* A batch is imported whole; here every requirement of it has the same variables.
ImportRequirements(ids, key, variables) ==
    /\ ids # {}
    /\ ids \cap DOMAIN requirements = {}
    /\ <<"batch", key>> \notin DOMAIN idempotency
    /\ requirements' =
            [r \in DOMAIN requirements \cup ids |->
                IF r \in ids THEN NewRequirement(variables, <<"batch", key>>)
                ELSE requirements[r]]
    /\ idempotency' = Record(<<"batch", key>>, <<Cardinality(ids), variables>>, ids)
    /\ UNCHANGED <<rules, qualifications, procedures, revisions, assessments, changeReviews,
                   tasks, now, based, due, scanTime>>

\* Mutant: the assessment is noted without a new version of the requirement.
NoteAssessment_SameVersion(id, assessment) ==
    [requirements EXCEPT ![id].assessments = @ \cup {assessment}]
NoteAssessment(id, assessment) ==
    [requirements EXCEPT ![id].assessments = @ \cup {assessment}, ![id].version = @ + 1]

\* Mutant: requirements are assessed under the rule now in force.
RuleFor_InForce(revision) == CHOOSE r \in DOMAIN rules : rules[r].status = "PUBLISHED"
RuleFor(revision) == revisions[revision].rule

\* Mutant: the version the client names is not looked at.
StillCurrent_Unchecked(id, expected) == TRUE
StillCurrent(id, expected) == Current(requirements[id], expected)

AssessRequirement(id, assessment, revision, expected) ==
    /\ id \in DOMAIN requirements
    /\ StillCurrent(id, expected)
    /\ assessment \notin DOMAIN assessments
    /\ revision \in DOMAIN revisions
    /\ revisions[revision].status = "PUBLISHED"
    /\ LET rule == RuleFor(revision)
       IN  assessments' = Put(assessments, assessment,
                [requirement |-> id, revision |-> revision, rule |-> rule,
                 conclusion |-> Conclude(rules[rule].content, revisions[revision].coverage,
                                         requirements[id].variables),
                 stale |-> FALSE, reason |-> ""])
    /\ requirements' = NoteAssessment(id, assessment)
    /\ based' = based \cup WriteOn("requirement", id, expected)
    /\ UNCHANGED <<rules, qualifications, procedures, revisions, changeReviews, tasks,
                   idempotency, now, due, scanTime>>
=============================================================================
