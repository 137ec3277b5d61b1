---------------------------- MODULE ReviewTasks -----------------------------
(***************************************************************************)
(* The two background loops (src/internal/jobs/manager.go) and what they   *)
(* run: the task worker and the expiry scanner                             *)
(* (src/internal/app/service.go).                                          *)
(***************************************************************************)
EXTENDS CaseState

Pending == {t \in tasks : t.status = "PENDING"}

\* Of the tasks of a batch for one revision, the first in the order of the
\* random task identifiers gives its assessments their reason.
RevisionTasks(batch) == {t \in batch : t.key.type = "revision"}
FirstTasks(batch) ==
    {first \in [{t.key.object : t \in RevisionTasks(batch)} -> RevisionTasks(batch)] :
        \A r \in DOMAIN first : first[r].key.object = r}

\* Mutant: a task is done without looking at its object.
Review_Nothing(as, first) == as
Review(as, first) ==
    [a \in DOMAIN as |->
        IF as[a].revision \in DOMAIN first /\ ~as[a].stale
        THEN [as[a] EXCEPT !.stale = TRUE, !.reason = first[as[a].revision].key.reason]
        ELSE as[a]]

\* Mutant: a task whose object needs no action is passed over and stays queued.
Finish_RevisionsOnly(batch) ==
    (tasks \ RevisionTasks(batch))
        \cup {[t EXCEPT !.status = "DONE"] : t \in RevisionTasks(batch)}
Finish(batch) == (tasks \ batch) \cup {[t EXCEPT !.status = "DONE"] : t \in batch}

\* A pass reads the clock and looks, without the lock, whether a task is due.
\* Everything queued is due by then: it is queued under an earlier reading of
\* the clock.  A pass whose update the store refused leaves nothing behind, and
\* the next looks again.
LookForTasks ==
    /\ Pending # {}
    /\ due' = Pending
    /\ UNCHANGED <<rules, qualifications, procedures, revisions, requirements, assessments,
                   changeReviews, tasks, idempotency, now, based, scanTime>>

\* The update selects again: what was due when the pass looked, and of what was
\* queued since, any part (by whose clock was read first).  A full batch is any
\* Batch of these, in the order of random identifiers; a smaller one is all.
IsBatch(batch) ==
    /\ batch # {}
    /\ Cardinality(batch) <= Batch
    /\ Cardinality(batch) < Batch => due \subseteq batch

RunDueTasks ==
    /\ due # {}
    /\ due' = {}
    /\ \E batch \in SUBSET Pending :
        /\ IsBatch(batch)
        /\ tasks' = Finish(batch)
        /\ \E first \in FirstTasks(batch) : assessments' = Review(assessments, first)
    /\ UNCHANGED <<rules, qualifications, procedures, revisions, requirements,
                   changeReviews, idempotency, now, based, scanTime>>

\* Evidence is named by its qualification and its place there.
AllEvidence ==
    UNION {{<<q, i>> : i \in DOMAIN qualifications[q].evidence} : q \in DOMAIN qualifications}
Expired(e, time) == time > qualifications[e[1]].evidence[e[2]].expires
Scanned(e) ==
    TaskActiveByKey(tasks, TaskKey("EVIDENCE_EXPIRED", "qualification", e[1], e))
ToScan(time) == {e \in AllEvidence : Expired(e, time) /\ ~Scanned(e)}

\* Mutant: revisions already published are left alone.
ExpiryReaches_Unpublished(e) ==
    {r \in RevisionsFrom(e[1]) : revisions[r].status # "PUBLISHED"}
ExpiryReaches(e) == RevisionsFrom(e[1])

ExpiryKeys(e) ==
    {TaskKey("EVIDENCE_EXPIRED", "qualification", e[1], e)}
        \cup {TaskKey("EVIDENCE_EXPIRED", "revision", r, e) : r \in ExpiryReaches(e)}

\* The scanner also looks without the lock, and works from the clock it read then;
\* its update looks through all evidence again.
LookForExpired ==
    /\ ToScan(now) # {}
    /\ scanTime' = now
    /\ UNCHANGED <<rules, qualifications, procedures, revisions, requirements, assessments,
                   changeReviews, tasks, idempotency, now, based, due>>

ScanExpiredEvidence ==
    /\ scanTime # Idle
    /\ scanTime' = Idle
    /\ LET found == ToScan(scanTime)
       IN  /\ tasks' = EnqueueAffected(tasks, UNION {ExpiryKeys(e) : e \in found})
           /\ assessments' = MarkAssessmentsStale(assessments,
                                UNION {ExpiryReaches(e) : e \in found}, "EVIDENCE_EXPIRED")
    /\ UNCHANGED <<rules, qualifications, procedures, revisions, requirements,
                   changeReviews, idempotency, now, based, due>>
=============================================================================
