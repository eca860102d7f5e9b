------------------------ MODULE ParticipantCapacity ------------------------
(***************************************************************************)
(* Participant budgets: how many interpretations one organization, one     *)
(* user and one assessment may start in a day, and how many of them may    *)
(* execute at the same time.                                               *)
(*                                                                         *)
(* A reservation row belongs to one Run, a pair <<session, k>>: the k-th   *)
(* Run of that Session.  The rows of one organization are serialised by    *)
(* its participant_admission_locks row, so every decision here is made on  *)
(* the committed set of rows; the model has that one organization.         *)
(***************************************************************************)
EXTENDS Integers, FiniteSets

CONSTANTS
  Sessions,     \* Session identities
  Subject,      \* Subject[s]: the user that started Session s
  Assessments,  \* Assessments[s]: the assessment ids Session s explains
  ActiveLimits, \* [org, user, assessment]: slots held at the same time
  DailyLimits   \* [org, user, assessment]: reservations made in one day

Limits == [org : Nat, user : Nat, assessment : Nat]

ASSUME CapacityAssumption ==
  /\ ActiveLimits \in Limits
  /\ DailyLimits \in Limits
  /\ IsFiniteSet(Sessions)

\* The rows of the same user as Session s, and those that name assessment a.
OfUser(rows, s) == {r \in rows : Subject[r[1]] = Subject[s]}
OfAssessment(rows, a) == {r \in rows : a \in Assessments[r[1]]}

\* fits: one more row of Session s stays below every limit that counts it.
Fits_OneMore(rows, s, limits) ==
  /\ Cardinality(rows) <= limits.org
  /\ Cardinality(OfUser(rows, s)) <= limits.user
  /\ \A a \in Assessments[s] :
        Cardinality(OfAssessment(rows, a)) <= limits.assessment
Fits(rows, s, limits) ==
  /\ Cardinality(rows) < limits.org
  /\ Cardinality(OfUser(rows, s)) < limits.user
  /\ \A a \in Assessments[s] :
        Cardinality(OfAssessment(rows, a)) < limits.assessment

\* What admission by Fits is meant to keep true of a set of rows.
Within(rows, limits) ==
  /\ Cardinality(rows) <= limits.org
  /\ \A r \in rows :
        /\ Cardinality(OfUser(rows, r[1])) <= limits.user
        /\ \A a \in Assessments[r[1]] :
              Cardinality(OfAssessment(rows, a)) <= limits.assessment
=============================================================================
