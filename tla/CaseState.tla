----------------------------- MODULE CaseState ------------------------------
(***************************************************************************)
(* The domain state every service operation reads and replaces as a whole  *)
(* (src/internal/domain/types.go, State), and the two helpers that spread  *)
(* a change to what depends on it.  The maps of the program are functions  *)
(* whose domain grows; Update runs one operation at a time, so each        *)
(* operation is one action, and one that fails or finds its idempotency    *)
(* record changes nothing.                                                 *)
(*                                                                         *)
(* What a rule says, what a weld's variables are and what one covers of    *)
(* the other are parameters here.                                          *)
(***************************************************************************)
EXTENDS Integers, Sequences, FiniteSets

CONSTANTS
    RuleId, QualId, ProcId, RevId, ReqId, AssessId, ReviewId,   \* bounds on newID
    Content,                    \* what a rule set may say
    ValidContent,               \* what ValidateRuleSet accepts of it
    Variables,                  \* normalized variables of a weld
    NeedsTest(_, _),            \* whether a rule asks evidence for such a weld
    Coverage(_, _),             \* range a rule grants sources, given their variables
    HasGaps(_, _, _),           \* whether it misses a variable or the target
    Conclude(_, _, _),          \* the conclusion for a requirement
    Blocking(_, _, _),          \* whether a change of variables needs requalification
    Key, NoKey,                 \* idempotency keys, and the absence of one
    Nothing,                    \* no published revision, no coverage yet
    MaxTime,                    \* bound: the clock stops here
    MaxEvidence,                \* bound: records of evidence per qualification
    MaxEdits,                   \* bound: edits of a rule set
    Batch                       \* tasks per run of the worker (20 in manager.go)

Conclusions == {"APPLICABLE", "CONDITIONAL", "NOT_APPLICABLE"}

ASSUME ContentAssumption == ValidContent \subseteq Content
ASSUME NoKeyAssumption == NoKey \notin Key
ASSUME NothingAssumption == Nothing \notin RevId
ASSUME BoundsAssumption ==
    MaxTime \in Nat /\ MaxEvidence \in Nat /\ MaxEdits \in Nat /\ Batch \in Nat \ {0}
ASSUME OperatorsAssumption ==
    \A c \in Content, v, w \in Variables, Q \in SUBSET QualId :
        /\ NeedsTest(c, v) \in BOOLEAN
        /\ Blocking(c, v, w) \in BOOLEAN
        /\ \A V \in [Q -> Variables] :
              /\ HasGaps(c, V, v) \in BOOLEAN
              /\ Conclude(c, Coverage(c, V), v) \in Conclusions

VARIABLES
    rules, qualifications, procedures, revisions, requirements, assessments,
    changeReviews, tasks, idempotency,
    now,            \* clock.Now()
    due,            \* tasks the worker found due, until its update
    scanTime,       \* the scanner's clock, until its update; Idle between passes
    based           \* history, for the properties: the version each write was made on

caseVars == <<rules, qualifications, procedures, revisions, requirements, assessments,
              changeReviews, tasks, idempotency, now, due, scanTime, based>>

Idle == -1

Time == 0..MaxTime
Reasons == {"RULE_UPGRADE", "QUALIFICATION_WITHDRAWN", "EVIDENCE_EXPIRED"}

\* A map with one entry set (st.X[id] = v).
Put(f, k, v) == [x \in DOMAIN f \cup {k} |-> IF x = k THEN v ELSE f[x]]

\* Objects, with the fields some operation decides on.  Two fields are not in
\* the program: key, in evidence and requirements, is the idempotency key they
\* were created under, for the properties.
RuleSet == [status: {"DRAFT", "PUBLISHED", "SUPERSEDED"}, version: Nat, content: Content]
Evidence == [good: BOOLEAN, expires: Time, key: Key \cup {NoKey}]
Qualification ==
    [rule: RuleId, status: {"UNDER_TEST", "QUALIFIED", "FAILED", "WITHDRAWN"},
     version: Nat, variables: Variables, evidence: Seq(Evidence)]
Procedure == [revisions: SUBSET RevId, published: RevId \cup {Nothing}, version: Nat]
RevisionOK(r) ==
    /\ DOMAIN r = {"procedure", "status", "version", "rule", "sources", "variables",
                   "coverage", "gaps"}
    /\ r.procedure \in ProcId
    /\ r.status \in {"DRAFT", "IN_REVIEW", "PUBLISHED", "RETIRED"}
    /\ r.version \in Nat
    /\ r.rule \in RuleId
    /\ r.sources \subseteq QualId
    /\ r.variables \in Variables
    /\ r.gaps \in BOOLEAN
RequirementOK(r) ==
    /\ DOMAIN r = {"version", "variables", "assessments", "key"}
    /\ r.version \in Nat
    /\ r.variables \in Variables
    /\ r.assessments \subseteq AssessId
Assessment ==
    [requirement: ReqId, revision: RevId, rule: RuleId, conclusion: Conclusions,
     stale: BOOLEAN, reason: {""} \cup Reasons]
ChangeReview ==
    [from: RevId, to: RevId, rule: RuleId,
     status: {"READY", "APPROVED", "REQUALIFICATION_REQUIRED"}, version: Nat, blocking: BOOLEAN]
TaskKeyOK(k) ==
    DOMAIN k = {"reason", "type", "object", "trigger"} /\ k.reason \in Reasons
TaskOK(t) ==
    /\ DOMAIN t = {"key", "copy", "status"}
    /\ TaskKeyOK(t.key)
    /\ t.status \in {"PENDING", "DONE"}

Init ==
    /\ rules = << >>
    /\ qualifications = << >>
    /\ procedures = << >>
    /\ revisions = << >>
    /\ requirements = << >>
    /\ assessments = << >>
    /\ changeReviews = << >>
    /\ tasks = {}
    /\ idempotency = << >>
    /\ now = 0
    /\ due = {}
    /\ scanTime = Idle
    /\ based = {}

-----------------------------------------------------------------------------
(* Versions: a client names the version it read, and is refused when that  *)
(* is no longer the version of the object.                                 *)

\* Mutant: a client that lags behind is served.
Current_OrNewer(object, expected) == expected <= object.version
Current(object, expected) == object.version = expected

\* A write of an object, made on the version its client named; one no client
\* asked for is made on the version it finds.
WriteOn(type, id, version) == {<<type, id, version>>}

-----------------------------------------------------------------------------
(* Review tasks: one per reason, object and trigger, whatever its status.  *)
(* copy stands for the random identifier: it tells tasks of one key apart. *)

TaskKey(reason, type, object, trigger) ==
    [reason |-> reason, type |-> type, object |-> object, trigger |-> trigger]
\* Mutant: a task already done does not count.
TaskActiveByKey_NotDone(ts, key) == \E t \in ts : t.key = key /\ t.status # "DONE"
TaskActiveByKey(ts, key) == \E t \in ts : t.key = key

EnqueueAffected(ts, keys) ==
    ts \cup {[key |-> k, copy |-> Cardinality({t \in ts : t.key = k}), status |-> "PENDING"]
                : k \in {x \in keys : ~TaskActiveByKey(ts, x)}}

\* Fresh assessments of the revisions become stale for a reason; a stale one
\* keeps the reason it has.
MarkAssessmentsStale(as, revs, reason) ==
    [a \in DOMAIN as |->
        IF as[a].revision \in revs /\ ~as[a].stale
        THEN [as[a] EXCEPT !.stale = TRUE, !.reason = reason]
        ELSE as[a]]

RevisionsFrom(q) == {r \in DOMAIN revisions : q \in revisions[r].sources}
=============================================================================
