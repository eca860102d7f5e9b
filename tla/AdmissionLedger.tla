--------------------------- MODULE AdmissionLedger ---------------------------
(***************************************************************************)
(* What an organization is promised about its evaluation Runs: a Run is    *)
(* admitted only while fewer than limit.active admitted Runs are under     *)
(* way, it pays its worst-case provider calls once, on one budget day, and *)
(* the payments of a day stay within the daily limit in force when each of *)
(* them was made.  EvaluationAdmission implements this ledger.             *)
(***************************************************************************)
EXTENDS Naturals, FiniteSets

CONSTANTS Runs, Days, Limits, Cost, None

VARIABLES
    held,  \* Runs under way by an admission
    paid,  \* the budget day each Run was paid on, or None
    limit  \* the limits in force

ledgerVars == <<held, paid, limit>>

LedgerInit ==
    /\ held = {}
    /\ paid = [r \in Runs |-> None]
    /\ limit \in Limits

Spent(d) == Cost * Cardinality({r \in Runs : paid[r] = d})

Admit(r) ==
    /\ r \notin held
    /\ Cardinality(held) < limit.active
    /\ held' = held \cup {r}
    /\ \/ paid[r] # None /\ UNCHANGED paid
       \/ /\ paid[r] = None
          /\ \E d \in Days : /\ Spent(d) + Cost <= limit.daily
                             /\ paid' = [paid EXCEPT ![r] = d]
    /\ UNCHANGED limit

Release(r) ==
    /\ r \in held
    /\ held' = held \ {r}
    /\ UNCHANGED <<paid, limit>>

ChangeLimit ==
    /\ limit' \in Limits
    /\ UNCHANGED <<held, paid>>

LedgerNext == ChangeLimit \/ \E r \in Runs : Admit(r) \/ Release(r)

LedgerSpec == LedgerInit /\ [][LedgerNext]_ledgerVars

=============================================================================
