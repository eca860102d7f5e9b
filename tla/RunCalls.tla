------------------------------ MODULE RunCalls ------------------------------
(***************************************************************************)
(* What one evaluation Run is promised about its provider calls, whichever *)
(* way it is executed.  A call is dispatched for a slot only when all      *)
(* earlier calls of the slot ended in a way that allows another, is made   *)
(* at most once and never after its result is known, and ends once; a      *)
(* result other than unknown is that of a call that was made.  The Run     *)
(* goes to review when every slot has an accepted judgement and nothing is *)
(* left open, takes no new call once a cancellation is requested, and no   *)
(* call of a reviewed or canceled Run changes any more.                    *)
(*                                                                         *)
(* CandidateEvaluation and SerialEvaluation implement this.                *)
(***************************************************************************)
CONSTANTS
    Calls,  \* identities of calls
    Slots   \* the slots that need a judged candidate

VARIABLES
    of,       \* the slot and the kind a call was dispatched for, or <<>>
    made,     \* how often the provider was invoked for it
    ended,    \* its outcome, or "none"
    granted,  \* calls whose repetition, or loss, an operator has decided on
    phase     \* of the Run: "open", "closing", "review" or "canceled"

callVars == <<of, made, ended, granted, phase>>

CallsInit ==
    /\ of = [c \in Calls |-> <<>>]
    /\ made = [c \in Calls |-> 0]
    /\ ended = [c \in Calls |-> "none"]
    /\ granted = {}
    /\ phase = "open"

Dispatched == {c \in Calls : of[c] # <<>>}
Candidate(s) == \E c \in Calls : of[c] = <<s, "generation">> /\ ended[c] = "succeeded"
Allows(c) ==
    \/ ended[c] = "retryable" \/ c \in granted
    \/ ended[c] = "succeeded" /\ of[c][2] = "generation"

DispatchCall(c, s) ==
    /\ phase = "open" /\ of[c] = <<>>
    /\ \A d \in Dispatched : of[d][1] = s => Allows(d)
    /\ of' = [of EXCEPT ![c] = <<s, IF Candidate(s) THEN "semantic" ELSE "generation">>]
    /\ UNCHANGED <<made, ended, granted, phase>>

MakeCall(c) ==
    /\ c \in Dispatched /\ made[c] = 0 /\ ended[c] \in {"none", "unknown"}
    /\ made' = [made EXCEPT ![c] = 1]
    /\ UNCHANGED <<of, ended, granted, phase>>

\* Nothing is under way, and nothing unknown waits for a decision.
Quiescent == \A c \in Dispatched : ended[c] # "none"
Decided == \A c \in Calls : ended[c] = "unknown" => c \in granted
Judged == \A s \in Slots : \E c \in Calls : of[c] = <<s, "semantic">> /\ ended[c] = "succeeded"

EndCall(c, outcome) ==
    /\ c \in Dispatched /\ ended[c] = "none" /\ phase \in {"open", "closing"}
    /\ outcome # "unknown" => made[c] = 1
    /\ ended' = [ended EXCEPT ![c] = outcome]
    /\ \/ UNCHANGED phase
       \/ phase = "open" /\ phase' = "review" /\ (Quiescent /\ Decided /\ Judged)'
    /\ UNCHANGED <<of, made, granted>>

\* An operator lets a call be repeated, or gives up the Run with it.
Grant(c) ==
    /\ phase \in {"open", "closing"} /\ Quiescent
    /\ ended[c] \in {"unknown", "contract"} /\ c \notin granted
    /\ granted' = granted \cup {c}
    /\ phase' \in {phase, "canceled"}
    /\ UNCHANGED <<of, made, ended>>

RequestCancel ==
    /\ phase = "open" /\ phase' = "closing"
    /\ UNCHANGED <<of, made, ended, granted>>

CancelRun ==
    /\ phase # "canceled" /\ Quiescent /\ Decided /\ phase' = "canceled"
    /\ UNCHANGED <<of, made, ended, granted>>

CallsNext ==
    \/ \E c \in Calls :
          \/ \E s \in Slots : DispatchCall(c, s)
          \/ MakeCall(c) \/ Grant(c)
          \/ \E outcome \in {"succeeded", "retryable", "refused", "contract", "unknown"} :
                EndCall(c, outcome)
    \/ RequestCancel \/ CancelRun

CallsSpec == CallsInit /\ [][CallsNext]_callVars

=============================================================================
