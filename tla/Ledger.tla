------------------------------- MODULE Ledger -------------------------------
(***************************************************************************)
(* What the store promises its readers, with no file in sight: one chain   *)
(* of transactions that grows by whole transactions.  A call that failed   *)
(* leaves its transaction in doubt: a restart may find it committed after  *)
(* all, but never half of it, never behind another one, and never once a   *)
(* later transaction has been committed in its place.  Losing power may    *)
(* take back what was never confirmed, and nothing else.                   *)
(***************************************************************************)
EXTENDS Sequences, SequencesExt

CONSTANT Txn        \* the transactions callers may ask for

VARIABLES
    chain,          \* the history readers are shown
    firm,           \* the longest history a caller was told is done
    asked,          \* the histories calls have tried to commit since
    doubt,          \* those a failed or interrupted call may have left behind
    up,             \* whether the store is serving
    lost            \* whether power was lost since it last started to serve

ledgerVars == <<chain, firm, asked, doubt, up, lost>>

Init ==
    /\ chain = << >>
    /\ firm = << >>
    /\ asked = {}
    /\ doubt = {}
    /\ up = FALSE
    /\ lost = FALSE

\* A call starts to commit t on top of the chain; it may yet fail.
Propose(t) ==
    /\ up
    /\ asked' = asked \cup {Append(chain, t)}
    /\ doubt' = doubt \cup {Append(chain, t)}
    /\ UNCHANGED <<chain, firm, up, lost>>

\* A proposal is committed and confirmed to its caller.
Commit ==
    /\ up
    /\ chain' \in doubt
    /\ firm' = chain'
    /\ asked' = {}
    /\ doubt' = {}
    /\ UNCHANGED <<up, lost>>

\* What was in doubt is decided against (its record is overwritten or dropped).
Forget ==
    /\ doubt' \in SUBSET doubt
    /\ UNCHANGED <<chain, firm, asked, up, lost>>

\* The process ends, perhaps before the call under way left any record.
Stop ==
    /\ up
    /\ up' = FALSE
    /\ doubt' \in SUBSET doubt
    /\ UNCHANGED <<chain, firm, asked, lost>>

PowerLoss ==
    /\ up' = FALSE
    /\ lost' = TRUE
    /\ doubt' = {}
    /\ UNCHANGED <<chain, firm, asked>>

\* Recovery keeps the chain or finds one of the proposals in doubt on top of it;
\* after a power loss it finds what was confirmed, or any unconfirmed history
\* on top of that.
Recoverable ==
    IF lost THEN {h \in asked \cup {firm} : IsPrefix(firm, h)}
            ELSE {chain} \cup doubt

Restart ==
    /\ ~up
    /\ up' = TRUE
    /\ lost' = FALSE
    /\ chain' \in Recoverable
    /\ doubt' = {}
    /\ UNCHANGED <<firm, asked>>

Next ==
    \/ \E t \in Txn : Propose(t)
    \/ Commit
    \/ Forget
    \/ Stop
    \/ PowerLoss
    \/ Restart

Spec == Init /\ [][Next]_ledgerVars
=============================================================================
