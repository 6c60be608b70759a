--------------------------- MODULE RequestLedger ---------------------------
(***************************************************************************)
(* What the classification callbacks promise for the requests of a batch,  *)
(* without saying how: the abstract specification of Automation.           *)
(*                                                                         *)
(* A request is asked once and answered at most once.  While it is being   *)
(* answered each action may be carried out once; an answer is either       *)
(* completed, and then never given again, or cut off, and then the request *)
(* is open once more.                                                      *)
(***************************************************************************)
EXTENDS Naturals

CONSTANTS
  Requests,  \* what may be asked
  Actions    \* what may be done for a request

VARIABLES
  status,       \* status[r]: unasked, pending or completed
  answering,    \* the requests being answered
  allowed,      \* allowed[r] are the actions this answer to r may still carry out
  effects,      \* effects[r][a] counts how often a was carried out for r, up to 2
  interrupted   \* requests an answer to which was cut off

vars == <<status, answering, allowed, effects, interrupted>>

LedgerTypeOK ==
  /\ status \in [Requests -> {"unasked", "pending", "completed"}]
  /\ answering \subseteq Requests
  /\ allowed \in [Requests -> SUBSET Actions]
  /\ effects \in [Requests -> [Actions -> 0..2]]
  /\ interrupted \subseteq Requests

Nothing == [r \in Requests |-> {}]

Init ==
  /\ status = [r \in Requests |-> "unasked"]
  /\ answering = {}
  /\ allowed = Nothing
  /\ effects = [r \in Requests |-> [a \in Actions |-> 0]]
  /\ interrupted = {}

SetStatus(asked, s) == status' = [r \in Requests |-> IF r \in asked THEN s ELSE status[r]]

Ask(asked) ==
  /\ \A r \in asked : status[r] = "unasked"
  /\ SetStatus(asked, "pending")
  /\ UNCHANGED <<answering, allowed, effects, interrupted>>

\* an answer to some pending requests comes in, one at a time
Answer(asked) ==
  /\ answering = {}
  /\ \A r \in asked : status[r] = "pending"
  /\ answering' = asked
  /\ allowed' \in [Requests -> SUBSET Actions]
  /\ \A r \in Requests \ asked : allowed'[r] = {}
  /\ UNCHANGED <<status, effects, interrupted>>

\* some actions are refused, skipped or given up
Drop ==
  /\ allowed' \in [Requests -> SUBSET Actions]
  /\ \A r \in Requests : allowed'[r] \subseteq allowed[r]
  /\ UNCHANGED <<status, answering, effects, interrupted>>

CarryOut(r, a) ==
  /\ a \in allowed[r]
  /\ effects' = [effects EXCEPT ![r][a] = IF @ < 2 THEN @ + 1 ELSE 2]
  /\ allowed' = [allowed EXCEPT ![r] = @ \ {a}]
  /\ UNCHANGED <<status, answering, interrupted>>

Complete ==
  /\ answering # {}
  /\ allowed = Nothing
  /\ SetStatus(answering, "completed")
  /\ answering' = {}
  /\ UNCHANGED <<allowed, effects, interrupted>>

CutOff ==
  /\ interrupted' = interrupted \cup answering
  /\ answering' = {}
  /\ allowed' = Nothing
  /\ UNCHANGED <<status, effects>>

Next ==
  \/ \E asked \in SUBSET Requests : Ask(asked) \/ Answer(asked)
  \/ Drop
  \/ \E r \in Requests, a \in Actions : CarryOut(r, a)
  \/ Complete
  \/ CutOff

Spec == Init /\ [][Next]_vars

\* An action is carried out more than once only for a request an answer to
\* which was cut off before.
Once == \A r \in Requests, a \in Actions : effects[r][a] > 1 => r \in interrupted

=============================================================================
