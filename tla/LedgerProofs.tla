---------------------------- MODULE LedgerProofs ----------------------------
(***************************************************************************)
(* RequestLedger for any requests and actions: nothing is carried out      *)
(* twice unless an answer was cut off.                                     *)
(***************************************************************************)
EXTENDS RequestLedger, TLAPS

\* What was carried out for a request belongs to an answer that is completed,
\* or to the one being given, which may not do it again.
Accounted ==
  \A r \in Requests \ interrupted, a \in Actions :
    /\ effects[r][a] <= 1
    /\ effects[r][a] = 1 =>
         \/ status[r] = "completed"
         \/ r \in answering /\ a \notin allowed[r]

LedgerInv ==
  /\ LedgerTypeOK
  /\ \A r \in answering : status[r] = "pending"
  /\ \A r \in Requests : allowed[r] # {} => r \in answering
  /\ Accounted

LEMMA InitLedger == Init => LedgerInv
  BY DEF Init, Nothing, LedgerInv, LedgerTypeOK, Accounted

LEMMA LedgerStep == LedgerInv /\ [Next]_vars => LedgerInv'
  <1> SUFFICES ASSUME LedgerInv, [Next]_vars PROVE LedgerInv'
    OBVIOUS
  <1> USE DEF LedgerInv, LedgerTypeOK, Accounted
  <1>1. ASSUME NEW asked \in SUBSET Requests, Ask(asked)
        PROVE  LedgerInv'
    <2>1. \A r \in Requests \ asked : status'[r] = status[r]
      BY <1>1 DEF Ask, SetStatus
    <2>2. \A r \in asked : status[r] = "unasked"
      BY <1>1 DEF Ask
    <2>3. status' \in [Requests -> {"unasked", "pending", "completed"}]
      BY <1>1 DEF Ask, SetStatus
    <2> QED
      BY <1>1, <2>1, <2>2, <2>3 DEF Ask
  <1>2. ASSUME NEW asked \in SUBSET Requests, Answer(asked)
        PROVE  LedgerInv'
    BY <1>2 DEF Answer
  <1>3. ASSUME Drop
        PROVE  LedgerInv'
    BY <1>3 DEF Drop
  <1>4. ASSUME NEW r \in Requests, NEW a \in Actions, CarryOut(r, a)
        PROVE  LedgerInv'
    <2>1. r \in answering
      BY <1>4 DEF CarryOut
    <2>2. r \notin interrupted => effects[r][a] = 0
      BY <1>4, <2>1 DEF CarryOut
    <2>3. effects' \in [Requests -> [Actions -> 0..2]]
      BY <1>4 DEF CarryOut
    <2>4. \A s \in Requests, b \in Actions :
            <<s, b>> # <<r, a>> => effects'[s][b] = effects[s][b]
      BY <1>4 DEF CarryOut
    <2>5. effects[r][a] = 0 => effects'[r][a] = 1
      BY <1>4 DEF CarryOut
    <2>6. /\ allowed' \in [Requests -> SUBSET Actions]
          /\ allowed'[r] = allowed[r] \ {a}
          /\ \A s \in Requests \ {r} : allowed'[s] = allowed[s]
      BY <1>4 DEF CarryOut
    <2> QED
      BY <1>4, <2>1, <2>2, <2>3, <2>4, <2>5, <2>6 DEF CarryOut
  <1>5. ASSUME Complete
        PROVE  LedgerInv'
    BY <1>5 DEF Complete, SetStatus, Nothing
  <1>6. ASSUME CutOff
        PROVE  LedgerInv'
    BY <1>6 DEF CutOff, Nothing
  <1>7. CASE UNCHANGED vars
    BY <1>7 DEF vars
  <1> QED
    BY <1>1, <1>2, <1>3, <1>4, <1>5, <1>6, <1>7 DEF Next

\* An action is carried out twice for a request only if an answer to it was cut
\* off: what a callback that runs to its end promises (automation.py:237-294).
THEOREM OnceCorrect == Spec => []Once
  <1>1. LedgerInv => Once
    BY DEF LedgerInv, LedgerTypeOK, Accounted, Once
  <1> QED
    BY <1>1, InitLedger, LedgerStep, PTL DEF Spec

=============================================================================
