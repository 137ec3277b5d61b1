----------------------------- MODULE Procedures -----------------------------
(* Procedures and their revisions: a draft takes its range from its        *)
(* sources, is reviewed, and replaces the published one                    *)
(* (src/internal/app/service.go).                                          *)
EXTENDS CaseState

DraftRevision(procedure, rule, sources, variables) ==
    [procedure |-> procedure, status |-> "DRAFT", version |-> 1, rule |-> rule,
     sources |-> sources, variables |-> variables, coverage |-> Nothing, gaps |-> FALSE]

Qualified(q) == q \in DOMAIN qualifications /\ qualifications[q].status = "QUALIFIED"

\* Sources named by blank identifiers are dropped, so there may be none.
CreateProcedure(id, revision, rule, sources, variables) ==
    /\ id \notin DOMAIN procedures
    /\ revision \notin DOMAIN revisions
    /\ rule \in DOMAIN rules
    /\ rules[rule].status = "PUBLISHED"
    /\ \A q \in sources : Qualified(q) /\ qualifications[q].rule = rule
    /\ procedures' = Put(procedures, id,
            [revisions |-> {revision}, published |-> Nothing, version |-> 1])
    /\ revisions' = Put(revisions, revision, DraftRevision(id, rule, sources, variables))
    /\ UNCHANGED <<rules, qualifications, requirements, assessments, changeReviews, tasks,
                   idempotency, now, based, due, scanTime>>

\* Mutant: the procedure keeps its version.
AddRevision_SameVersion(id, revision) ==
    [procedures EXCEPT ![id].revisions = @ \cup {revision}]
AddRevision(id, revision) ==
    [procedures EXCEPT ![id].revisions = @ \cup {revision}, ![id].version = @ + 1]

CreateRevision(id, expected, revision, rule, sources, variables) ==
    /\ id \in DOMAIN procedures
    /\ Current(procedures[id], expected)
    /\ procedures[id].published # Nothing
    /\ revision \notin DOMAIN revisions
    /\ sources # {}
    /\ rule \in DOMAIN rules
    /\ rules[rule].status = "PUBLISHED"
    /\ \A q \in sources : Qualified(q) /\ qualifications[q].rule = rule
    /\ procedures' = AddRevision(id, revision)
    /\ based' = based \cup WriteOn("procedure", id, expected)
    /\ revisions' = Put(revisions, revision, DraftRevision(id, rule, sources, variables))
    /\ UNCHANGED <<rules, qualifications, requirements, assessments, changeReviews, tasks,
                   idempotency, now, due, scanTime>>

SourceVariables(r) == [q \in revisions[r].sources |-> qualifications[q].variables]
ContentOf(rule) == rules[rule].content

DeriveCoverage(id, expected) ==
    /\ id \in DOMAIN revisions
    /\ revisions[id].status = "DRAFT"
    /\ Current(revisions[id], expected)
    /\ \A q \in revisions[id].sources : Qualified(q)
    /\ LET c == ContentOf(revisions[id].rule)
       IN  revisions' = [revisions EXCEPT
                ![id].coverage = Coverage(c, SourceVariables(id)),
                ![id].gaps = HasGaps(c, SourceVariables(id), revisions[id].variables),
                ![id].status = "IN_REVIEW",
                ![id].version = @ + 1]
    /\ based' = based \cup WriteOn("revision", id, expected)
    /\ UNCHANGED <<rules, qualifications, procedures, requirements, assessments,
                   changeReviews, tasks, idempotency, now, due, scanTime>>

\* Mutant: only a review already decided can block.
BlockedByReview_DecidedOnly(id) ==
    \E r \in DOMAIN changeReviews :
        /\ changeReviews[r].to = id
        /\ changeReviews[r].blocking
        /\ changeReviews[r].status = "REQUALIFICATION_REQUIRED"
BlockedByReview(id) ==
    \E r \in DOMAIN changeReviews :
        /\ changeReviews[r].to = id
        /\ changeReviews[r].blocking
        /\ changeReviews[r].status # "APPROVED"

\* Mutant: the revision published before is not retired.
Replace_KeepsOld(id) ==
    [r \in DOMAIN revisions |->
        IF r = id THEN [revisions[r] EXCEPT !.status = "PUBLISHED", !.version = @ + 1]
        ELSE revisions[r]]
\* Mutant: a procedure without one retires the revision with no identifier.
Replace_Unguarded(id) ==
    LET old == procedures[revisions[id].procedure].published
    IN  [r \in DOMAIN revisions \cup {old} |->
            IF r = id THEN [revisions[r] EXCEPT !.status = "PUBLISHED", !.version = @ + 1]
            ELSE IF r = old THEN [revisions[id] EXCEPT !.status = "RETIRED"]
            ELSE revisions[r]]
Replace(id) ==
    [r \in DOMAIN revisions |->
        IF r = id THEN [revisions[r] EXCEPT !.status = "PUBLISHED", !.version = @ + 1]
        ELSE IF r = procedures[revisions[id].procedure].published
        THEN [revisions[r] EXCEPT !.status = "RETIRED", !.version = @ + 1]
        ELSE revisions[r]]

Publishable(id) ==
    /\ ~revisions[id].gaps
    /\ \A q \in revisions[id].sources : Qualified(q)

\* Publishing writes the revision, its procedure and the revision it replaces.
PublicationWrites(id, expected) ==
    LET p == revisions[id].procedure
    IN  WriteOn("revision", id, expected)
            \cup WriteOn("procedure", p, procedures[p].version)
            \cup UNION {WriteOn("revision", old, revisions[old].version) :
                            old \in {procedures[p].published} \ {Nothing}}

PublishRevision(id, expected) ==
    /\ id \in DOMAIN revisions
    /\ revisions[id].status = "IN_REVIEW"
    /\ Current(revisions[id], expected)
    /\ Publishable(id)
    /\ ~BlockedByReview(id)
    /\ revisions' = Replace(id)
    /\ based' = based \cup PublicationWrites(id, expected)
    /\ procedures' = [procedures EXCEPT ![revisions[id].procedure].published = id,
                                        ![revisions[id].procedure].version = @ + 1]
    /\ UNCHANGED <<rules, qualifications, requirements, assessments, changeReviews, tasks,
                   idempotency, now, due, scanTime>>
=============================================================================
