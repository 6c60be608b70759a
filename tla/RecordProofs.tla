---------------------------- MODULE RecordProofs ----------------------------
(***************************************************************************)
(* Automation for any messages, batches, settings and faults: what is done *)
(* on the server is decided before and recorded after, and what is         *)
(* recorded as executed is done. For action lists that name the archive    *)
(* last, accepted actions are tried and a failed tag keeps the mail.       *)
(***************************************************************************)
EXTENDS AutomationProofs

Acting == {"act", "imap", "remove", "record"}

\* What a call has yet to do was accepted.
Decided ==
  /\ ActsOnlyAsDecided
  /\ call.step \in Acting =>
       \A a \in Range(call.acts) : \E d \in decisions :
         <<d.batch, d.id>> = <<call.batch, call.id>> /\ d.accepted /\ a \in Range(d.actions)

\* An effect without a record is that of the action the call is about to record.
Recorded ==
  \A r \in Requests, a \in Executable : effects[r][a] > 0 =>
    \/ \E e \in records : <<e.batch, e.id>> = r /\ e.type = a
    \/ r \in interrupted
    \/ call.step \in {"remove", "record"} /\ r = <<call.batch, call.id>> /\ a = Action

\* A message whose row is about to be removed, or whose archiving is about to be
\* recorded as executed, has left its folder.
Gone ==
  /\ \A e \in records : e.id \in Ids
  /\ ExecutedIsDone
  /\ validity = 1 =>
       /\ call.step = "remove" => server[call.id] = None
       /\ /\ call.step = "record" /\ Action = "archive"
          /\ call.status = "executed" /\ call.id \notin InArchive
          => server[call.id] = None

-----------------------------------------------------------------------------
LEMMA CallFacts ==
  ASSUME AutomationInv, call.step # "none"
  PROVE  /\ call # NoCall /\ call \in Call
         /\ <<call.batch, call.id>> \in Requests \/ call.id = None
         /\ call.step \in Acting => call.id \in Ids
         /\ call.step \in {"imap", "remove", "record"} => Action \in Range(call.acts)
         /\ call.step = "imap" => Action \in Executable
  <1>1. call # NoCall
    BY DEF NoCall
  <1>2. /\ call \in Call /\ call.batch \in 1..MaxBatches
        /\ call.step \in Acting => call.id # None
        /\ call.step \in {"imap", "remove", "record"} => call.acts # <<>>
        /\ call.step = "imap" => Action \in Executable
    BY <1>1, AnsweringFacts DEF AutomationInv, CallInv, Acting
  <1>3. call.id \in Ids \cup {None} /\ call.acts \in Seq(STRING)
    BY <1>2 DEF Call
  <1>4. call.step \in {"imap", "remove", "record"} => Action \in Range(call.acts)
    BY <1>2, <1>3, HeadAndTail DEF Action
  <1> QED
    BY <1>1, <1>2, <1>3, <1>4 DEF Requests

\* What a step of the server can add to the effects.
LEMMA ServerFacts ==
  ASSUME AutomationInv, call.step = "imap", OnServer \/ UNCHANGED <<server, effects, touched>>
  PROVE  /\ \A r \in Requests, a \in Executable : effects'[r][a] > 0 =>
              effects[r][a] > 0 \/ (r = <<call.batch, call.id>> /\ a = Action)
         /\ \A id \in Ids : server[id] = None => server'[id] = None
         /\ OnServer /\ Action = "archive" => server'[call.id] = None
  <1>1. /\ <<call.batch, call.id>> \in Requests /\ Action \in Executable /\ call.id \in Ids
    <2>1. call.step # "none" /\ call.step \in Acting
      BY DEF Acting
    <2>2. call.id \in Ids /\ None \notin Ids
      BY <2>1, CallFacts, AutomationAssumption
    <2> QED
      BY <2>1, <2>2, CallFacts
  <1>2. effects \in [Requests -> [Executable -> 0..2]] /\ server \in [Ids -> Bodies \cup {None}]
    BY DEF AutomationInv, WorldInv, LogInv
  <1>3. CASE ~OnServer /\ UNCHANGED <<server, effects>>
    BY <1>3
  <1>4. CASE OnServer
    <2>1. CASE server[call.id] = None
      <3>1. UNCHANGED <<server, effects>>
        BY <1>4, <2>1 DEF OnServer
      <3> QED
        BY <2>1, <3>1
    <2>2. CASE server[call.id] # None
      <3>1. /\ effects' = [effects EXCEPT ![<<call.batch, call.id>>][Action] =
                             IF @ < 2 THEN @ + 1 ELSE 2]
            /\ server' = IF Action = "archive" THEN [server EXCEPT ![call.id] = None] ELSE server
        BY <1>4, <2>2 DEF OnServer
      <3>2. ASSUME NEW r \in Requests, NEW a \in Executable, effects'[r][a] > 0
            PROVE  effects[r][a] > 0 \/ (r = <<call.batch, call.id>> /\ a = Action)
        <4>1. CASE r = <<call.batch, call.id>> /\ a = Action
          BY <4>1
        <4>2. CASE r # <<call.batch, call.id>>
          <5>1. effects'[r] = effects[r]
            BY <1>2, <3>1, <4>2
          <5> QED
            BY <3>2, <5>1
        <4>3. CASE r = <<call.batch, call.id>> /\ a # Action
          <5>1. effects'[r][a] = effects[r][a]
            BY <1>1, <1>2, <3>1, <4>3
          <5> QED
            BY <3>2, <5>1
        <4> QED
          BY <4>1, <4>2, <4>3
      <3>3. /\ \A id \in Ids : server[id] = None => server'[id] = None
            /\ Action = "archive" => server'[call.id] = None
        BY <1>1, <1>2, <3>1
      <3> QED
        BY <3>2, <3>3
    <2> QED
      BY <2>1, <2>2
  <1> QED
    BY <1>3, <1>4

-----------------------------------------------------------------------------
LEMMA DecidedStep == AutomationInv /\ Decided /\ [Next]_vars => Decided'
  <1> SUFFICES ASSUME AutomationInv, Decided, [Next]_vars PROVE Decided'
    OBVIOUS
  <1> USE DEF serverVars, classifyVars, storeVars, cutVars
  <1>1. CASE Decide
    <2>1. PICK rec, d :
            /\ d = [batch |-> call.batch, id |-> rec.id, accepted |-> Accepts(rec),
                    actions |-> rec.actions]
            /\ decisions' = decisions \cup {d}
            /\ call' = [call EXCEPT !.recs = Tail(@), !.id = rec.id, !.step = "act",
                                    !.acts = IF Accepts(rec) /\ Execute THEN rec.actions ELSE <<>>]
            /\ UNCHANGED effects
      BY <1>1 DEF Decide
    <2>2. call \in Call
      BY <1>1, CallFacts DEF Decide
    <2>3. /\ call'.batch = call.batch /\ call'.id = rec.id
          /\ call'.acts = IF Accepts(rec) /\ Execute THEN rec.actions ELSE <<>>
      BY <2>1, <2>2 DEF Call
    <2>4. ActsOnlyAsDecided'
      BY <2>1 DEF Decided, ActsOnlyAsDecided
    <2>5. ASSUME NEW a \in Range(call'.acts)
          PROVE  \E e \in decisions' :
                   <<e.batch, e.id>> = <<call'.batch, call'.id>> /\ e.accepted /\ a \in Range(e.actions)
      <3>1. Accepts(rec) /\ a \in Range(rec.actions)
        BY <2>3, <2>5 DEF Range
      <3> QED
        BY <2>1, <2>3, <3>1
    <2> QED
      BY <2>4, <2>5 DEF Decided
  <1>2. CASE Record
    <2>1. /\ call.step = "record" /\ call' = [call EXCEPT !.acts = NextActs, !.step = "act"]
          /\ UNCHANGED <<decisions, effects>>
      BY <1>2 DEF Record
    <2>2. call \in Call /\ call.acts # <<>> /\ call.acts \in Seq(STRING)
      BY <2>1, CallFacts DEF Call, AutomationInv, CallInv
    <2>3. call'.batch = call.batch /\ call'.id = call.id /\ call'.acts = NextActs
      BY <2>1, <2>2 DEF Call
    <2>4. Range(NextActs) \subseteq Range(call.acts)
      BY <2>2, HeadAndTail DEF NextActs, Range
    <2> QED
      BY <2>1, <2>3, <2>4 DEF Decided, ActsOnlyAsDecided, Acting
  <1>3. CASE Imap \/ ImapFails
    <2>1. /\ call.step = "imap"
          /\ OnServer \/ UNCHANGED <<server, effects, touched>>
          /\ UNCHANGED decisions
          /\ \/ call' = [call EXCEPT !.step = IF Action = "archive" THEN "remove" ELSE "record"]
             \/ call' = [call EXCEPT !.step = "record", !.status = "failed"]
      BY <1>3 DEF Imap, ImapFails
    <2>2. call \in Call /\ Action \in Range(call.acts)
      BY <2>1, CallFacts
    <2>3. call'.batch = call.batch /\ call'.id = call.id /\ call'.acts = call.acts
      BY <2>1, <2>2 DEF Call
    <2>4. ActsOnlyAsDecided'
      BY <2>1, <2>2, ServerFacts DEF Decided, ActsOnlyAsDecided, Acting
    <2> QED
      BY <2>1, <2>3, <2>4 DEF Decided, Acting
  <1>4. CASE Act \/ RemoveRow \/ RemoveRowFails \/ RecordRaises
    <2>1. /\ call.step \in Acting /\ UNCHANGED <<decisions, effects>>
          /\ \/ call' = [call EXCEPT
                  !.step = IF Skipped \/ (Action = "archive" /\ call.id \in InArchive)
                             THEN "record" ELSE "imap",
                  !.inTry = Action \in AutonomousActions /\ rows[call.id] # None,
                  !.status = IF Skipped THEN "skipped" ELSE "executed"]
             \/ call' = [call EXCEPT !.step = "record"]
             \/ call' = [call EXCEPT !.step = "record", !.status = "failed"]
             \/ call' = [call EXCEPT !.status = "failed"]
      BY <1>4 DEF Act, RemoveRow, RemoveRowFails, RecordRaises, Acting
    <2>2. call \in Call
      BY <2>1, CallFacts DEF Acting
    <2>3. call'.batch = call.batch /\ call'.id = call.id /\ call'.acts = call.acts
      BY <2>1, <2>2 DEF Call
    <2> QED
      BY <2>1, <2>3 DEF Decided, ActsOnlyAsDecided
  <1>5. ASSUME NEW b, NEW recs,
               Callback(b, recs) \/ ItemDone \/ Complete \/ CallFails \/ Crash
        PROVE  Decided'
    <2>1. UNCHANGED <<decisions, effects>>
      BY <1>5 DEF Callback, ItemDone, Complete, CallFails, Crash
    <2>2. call'.step \notin Acting
      <3>1. CASE ItemDone
        <4>1. call \in Call
          BY <3>1, CallFacts DEF ItemDone
        <4> QED
          BY <3>1, <4>1 DEF ItemDone, Call, Acting
      <3> QED
        BY <1>5, <3>1 DEF Callback, Complete, CallFails, Crash, NoCall, Acting
    <2> QED
      BY <2>1, <2>2 DEF Decided, ActsOnlyAsDecided
  <1>6. CASE UNCHANGED <<decisions, effects, call>>
    BY <1>6 DEF Decided, ActsOnlyAsDecided
  <1>7. ASSUME NEW found, NEW id, NEW part,
               \/ Fetch(found) \/ Upsert \/ ReadMessage(id) \/ CreateBatch(part) \/ CreateFails
               \/ SendBatch \/ SendRaises
               \/ Expunge(id) \/ ArchiveRequest(id) \/ Renumber \/ Tick \/ UNCHANGED vars
        PROVE  UNCHANGED <<decisions, effects, call>>
    BY <1>7 DEF Fetch, Upsert, ReadMessage, CreateBatch, CreateFails, SendBatch, SendRaises,
                Expunge, ArchiveRequest,
                Renumber, Tick, vars
  <1> QED
    BY <1>1, <1>2, <1>3, <1>4, <1>5, <1>6, <1>7 DEF Next, Worker, Handler, World

LEMMA DecidedInit == Init => Decided
  BY DEF Init, Decided, ActsOnlyAsDecided, NoCall, Acting

\* Nothing is done on the server that was not accepted, whatever fails: the
\* decision is stored before the action is tried (main.py:526-560).
THEOREM ActsOnlyAsDecidedCorrect == Spec => []ActsOnlyAsDecided
  <1>1. Decided => ActsOnlyAsDecided
    BY DEF Decided
  <1> QED
    BY <1>1, DecidedInit, DecidedStep, AutomationCorrect, PTL DEF Spec

-----------------------------------------------------------------------------
LEMMA RecordedStep == AutomationInv /\ Recorded /\ [Next]_vars => Recorded'
  <1> SUFFICES ASSUME AutomationInv, Recorded, [Next]_vars,
                      NEW r \in Requests, NEW a \in Executable, effects'[r][a] > 0
               PROVE  \/ \E e \in records' : <<e.batch, e.id>> = r /\ e.type = a
                      \/ r \in interrupted'
                      \/ /\ call'.step \in {"remove", "record"}
                         /\ r = <<call'.batch, call'.id>> /\ a = Action'
    BY DEF Recorded
  <1> USE DEF serverVars, classifyVars, storeVars, cutVars
  <1>1. CASE Imap \/ ImapFails
    <2>1. /\ call.step = "imap"
          /\ OnServer \/ UNCHANGED <<server, effects, touched>>
          /\ UNCHANGED <<records, interrupted>>
          /\ \/ call' = [call EXCEPT !.step = "remove"]
             \/ call' = [call EXCEPT !.step = "record"]
             \/ call' = [call EXCEPT !.step = "record", !.status = "failed"]
      BY <1>1 DEF Imap, ImapFails
    <2>2. call \in Call
      BY <2>1, CallFacts
    <2>3. /\ call'.step \in {"remove", "record"}
          /\ call'.batch = call.batch /\ call'.id = call.id /\ call'.acts = call.acts
      BY <2>1, <2>2 DEF Call
    <2>4. effects[r][a] > 0 \/ (r = <<call.batch, call.id>> /\ a = Action)
      BY <2>1, ServerFacts
    <2>5. CASE effects[r][a] > 0
      BY <2>1, <2>5 DEF Recorded
    <2> QED
      BY <2>3, <2>4, <2>5 DEF Action
  <1>2. CASE Record
    <2>1. /\ records' = records \cup {Execution}
          /\ UNCHANGED <<effects, interrupted>>
      BY <1>2 DEF Record
    <2>2. <<Execution.batch, Execution.id>> = <<call.batch, call.id>> /\ Execution.type = Action
      BY DEF Execution
    <2> QED
      BY <2>1, <2>2 DEF Recorded
  <1>3. CASE RemoveRow \/ RemoveRowFails \/ RecordRaises
    <2>1. /\ call.step \in {"remove", "record"}
          /\ records \subseteq records' /\ UNCHANGED <<effects, interrupted>>
          /\ \/ call' = [call EXCEPT !.step = "record"]
             \/ call' = [call EXCEPT !.step = "record", !.status = "failed"]
             \/ call' = [call EXCEPT !.status = "failed"]
      BY <1>3 DEF RemoveRow, RemoveRowFails, RecordRaises
    <2>2. call \in Call
      BY <2>1, CallFacts
    <2>3. /\ call'.step \in {"remove", "record"}
          /\ call'.batch = call.batch /\ call'.id = call.id /\ call'.acts = call.acts
      BY <2>1, <2>2 DEF Call
    <2> QED
      BY <2>1, <2>3 DEF Recorded, Action
  <1>4. CASE CallFails \/ Crash
    <2>1. /\ UNCHANGED <<records, effects>>
          /\ interrupted' = interrupted \cup Answering
      BY <1>4 DEF CallFails, Crash
    <2>2. ASSUME call.step \in {"remove", "record"}
          PROVE  <<call.batch, call.id>> \in Answering
      <3>1. call # NoCall /\ call.step \in Acting
        BY <2>2 DEF NoCall, Acting
      <3>2. call.id \in Ids /\ None \notin Ids
        BY <2>2, <3>1, CallFacts, AutomationAssumption
      <3> QED
        BY <3>1, <3>2 DEF Answering
    <2> QED
      BY <2>1, <2>2 DEF Recorded
  <1>5. ASSUME NEW b, NEW recs, Callback(b, recs) \/ Decide \/ ItemDone \/ Act \/ Complete
        PROVE  /\ UNCHANGED <<records, effects, interrupted>>
               /\ call.step \notin {"remove", "record"}
    BY <1>5 DEF Callback, Decide, ItemDone, Act, Complete, NoCall
  <1>6. CASE UNCHANGED <<records, effects, interrupted>> /\ call.step \notin {"remove", "record"}
    BY <1>6 DEF Recorded
  <1>7. CASE UNCHANGED <<records, effects, interrupted, call>>
    BY <1>7 DEF Recorded, Action
  <1>8. ASSUME NEW found, NEW id, NEW part,
               \/ Fetch(found) \/ Upsert \/ ReadMessage(id) \/ CreateBatch(part) \/ CreateFails
               \/ SendBatch \/ SendRaises
               \/ Expunge(id) \/ ArchiveRequest(id) \/ Renumber \/ Tick \/ UNCHANGED vars
        PROVE  UNCHANGED <<records, effects, interrupted, call>>
    BY <1>8 DEF Fetch, Upsert, ReadMessage, CreateBatch, CreateFails, SendBatch, SendRaises,
                Expunge, ArchiveRequest,
                Renumber, Tick, vars
  <1> QED
    BY <1>1, <1>2, <1>3, <1>4, <1>5, <1>6, <1>7, <1>8 DEF Next, Worker, Handler, World

\* What was done on the server for a request is on record as soon as the
\* callback is over, unless the callback was cut off (main.py:218-300).
THEOREM EffectsRecordedCorrect == Spec => []EffectsRecorded
  <1>1. Init => Recorded
    BY DEF Init, Recorded
  <1>2. Recorded => EffectsRecorded
    BY DEF Recorded, EffectsRecorded, NoCall
  <1> QED
    BY <1>1, <1>2, RecordedStep, AutomationCorrect, PTL DEF Spec

-----------------------------------------------------------------------------
\* While mailboxes keep their numbers, what is gone stays gone.
LEMMA GoneStays ==
  ASSUME AutomationInv, [Next]_vars, validity' = 1
  PROVE  /\ validity = 1
         /\ \A id \in Ids : server[id] = None => server'[id] = None
  <1> USE DEF serverVars, classifyVars, storeVars, cutVars
  <1>1. server \in [Ids -> Bodies \cup {None}] /\ validity \in Nat \ {0}
    BY AutomationAssumption DEF AutomationInv, WorldInv
  <1>2. ~Renumber /\ validity = 1
    <2>1. ~Renumber
      BY <1>1 DEF Renumber
    <2>2. ASSUME NEW id, Imap \/ ImapFails \/ Expunge(id) \/ ArchiveRequest(id)
          PROVE  UNCHANGED validity
      BY <2>2 DEF Imap, ImapFails, Expunge, ArchiveRequest
    <2> QED
      BY <2>1, <2>2 DEF Next, Worker, Handler, World, vars, Fetch, Upsert, ReadMessage,
                        CreateBatch,
           CreateFails, SendBatch, SendRaises, Callback, Decide, ItemDone, Act, RemoveRow, RemoveRowFails,
           Record, RecordRaises, Complete, CallFails, Tick, Crash
  <1>3. CASE Imap \/ ImapFails
    <2>1. call.step = "imap" /\ (OnServer \/ UNCHANGED <<server, effects, touched>>)
      BY <1>3 DEF Imap, ImapFails
    <2> QED
      BY <1>2, <2>1, ServerFacts
  <1>4. ASSUME NEW i, Expunge(i) \/ ArchiveRequest(i)
        PROVE  \A id \in Ids : server[id] = None => server'[id] = None
    <2>1. server' = [server EXCEPT ![i] = None]
      BY <1>4 DEF Expunge, ArchiveRequest
    <2> QED
      BY <1>1, <2>1
  <1>5. CASE UNCHANGED server
    BY <1>2, <1>5
  <1>6. ASSUME NEW found, NEW id, NEW part, NEW b, NEW recs,
               \/ Fetch(found) \/ Upsert \/ ReadMessage(id) \/ CreateBatch(part) \/ CreateFails
               \/ SendBatch \/ SendRaises \/ Callback(b, recs) \/ Decide \/ ItemDone \/ Act
               \/ RemoveRow \/ RemoveRowFails \/ Record \/ RecordRaises \/ Complete \/ CallFails
               \/ Tick \/ Crash \/ UNCHANGED vars
        PROVE  UNCHANGED server
    BY <1>6 DEF Fetch, Upsert, ReadMessage, CreateBatch, CreateFails, SendBatch, SendRaises,
                Callback, Decide, ItemDone, Act, RemoveRow, RemoveRowFails, Record, RecordRaises,
                Complete, CallFails, Tick, Crash, vars
  <1> QED
    BY <1>2, <1>3, <1>4, <1>5, <1>6 DEF Next, Worker, Handler, World

LEMMA GoneStep == AutomationInv /\ Gone /\ [Next]_vars => Gone'
  <1> SUFFICES ASSUME AutomationInv, Gone, [Next]_vars PROVE Gone'
    OBVIOUS
  <1> USE DEF serverVars, classifyVars, storeVars, cutVars
  <1> DEFINE Done(id) == server[id] = None
             DoneNext(id) == server'[id] = None
             Archived == /\ call.step = "record" /\ Action = "archive"
                         /\ call.status = "executed" /\ call.id \notin InArchive
  <1>1. ASSUME NEW id \in Ids, validity' = 1
        PROVE  validity = 1 /\ (Done(id) => DoneNext(id))
    BY <1>1, GoneStays
  \* it is enough to look at new records, and at a call that goes on
  <1>2. ASSUME \A e \in records' \ records : e = Execution /\ call.step = "record",
               validity' = 1 /\ call'.step = "remove" => server'[call'.id] = None,
               validity' = 1 /\ Archived' => DoneNext(call'.id)
        PROVE  Gone'
    <2>1. ASSUME NEW e \in records' \ records
          PROVE  /\ e.id = call.id /\ e.type = Action /\ e.status = call.status
                 /\ call.step = "record" /\ e.id \in Ids
      <3>1. e = Execution /\ call.step = "record"
        BY <1>2, <2>1
      <3>2. call.id \in Ids
        BY <3>1, CallFacts DEF Acting
      <3> QED
        BY <3>1, <3>2 DEF Execution
    <2>2. \A e \in records' : e.id \in Ids
      BY <2>1 DEF Gone
    <2>3. ASSUME NEW e \in records', validity' = 1,
                 e.type = "archive" /\ e.status = "executed" /\ e.id \notin InArchive
          PROVE  DoneNext(e.id)
      <3>1. e.id \in Ids /\ validity = 1
        BY <2>2, <2>3, <1>1
      <3>2. Done(e.id)
        BY <2>1, <2>3, <3>1 DEF Gone, ExecutedIsDone
      <3> QED
        BY <1>1, <2>3, <3>1, <3>2
    <2> QED
      BY <1>2, <2>2, <2>3 DEF Gone, ExecutedIsDone
  <1>3. CASE Act
    <2>1. /\ call.step = "act" /\ UNCHANGED records
          /\ call' = [call EXCEPT
               !.step = IF Skipped \/ (Action = "archive" /\ call.id \in InArchive)
                          THEN "record" ELSE "imap",
               !.inTry = Action \in AutonomousActions /\ rows[call.id] # None,
               !.status = IF Skipped THEN "skipped" ELSE "executed"]
      BY <1>3 DEF Act
    <2>2. call \in Call
      BY <2>1, CallFacts
    <2>3. /\ call'.id = call.id /\ call'.acts = call.acts
          /\ call'.step = IF Skipped \/ (Action = "archive" /\ call.id \in InArchive)
                            THEN "record" ELSE "imap"
          /\ call'.status = IF Skipped THEN "skipped" ELSE "executed"
      BY <2>1, <2>2 DEF Call
    <2>4. ~Archived' /\ call'.step # "remove"
      BY <2>3 DEF Action
    <2> QED
      BY <1>2, <2>1, <2>4
  <1>4. CASE Imap
    <2>1. /\ call.step = "imap" /\ OnServer /\ UNCHANGED records
          /\ call' = [call EXCEPT !.step = IF Action = "archive" THEN "remove" ELSE "record"]
      BY <1>4 DEF Imap
    <2>2. call \in Call
      BY <2>1, CallFacts
    <2>3. /\ call'.id = call.id /\ call'.acts = call.acts
          /\ call'.step = IF Action = "archive" THEN "remove" ELSE "record"
      BY <2>1, <2>2 DEF Call
    <2>4. ~Archived' /\ (call'.step = "remove" => server'[call'.id] = None)
      BY <2>1, <2>3, ServerFacts DEF Action
    <2> QED
      BY <1>2, <2>1, <2>4
  <1>5. CASE RemoveRow
    <2>1. /\ call.step = "remove" /\ UNCHANGED <<server, validity, records>>
          /\ call' = [call EXCEPT !.step = "record"]
      BY <1>5 DEF RemoveRow
    <2>2. call \in Call
      BY <2>1, CallFacts
    <2>3. call'.id = call.id /\ call'.step = "record"
      BY <2>1, <2>2 DEF Call
    <2>4. validity' = 1 => DoneNext(call'.id)
      BY <2>1, <2>3 DEF Gone
    <2> QED
      BY <1>2, <2>1, <2>3, <2>4
  <1>6. CASE ImapFails \/ RemoveRowFails \/ RecordRaises
    <2>1. /\ call.step \in {"imap", "remove", "record"}
          /\ \/ call' = [call EXCEPT !.step = "record", !.status = "failed"]
             \/ call.step = "record" /\ call' = [call EXCEPT !.status = "failed"]
          /\ \/ UNCHANGED records
             \/ call.step = "record" /\ records' = records \cup {Execution}
      BY <1>6 DEF ImapFails, RemoveRowFails, RecordRaises
    <2>2. call \in Call
      BY <2>1, CallFacts
    <2>3. call'.status = "failed" /\ call'.step = "record"
      BY <2>1, <2>2 DEF Call
    <2> QED
      BY <1>2, <2>1, <2>3
  <1>7. CASE Record
    <2>1. /\ call.step = "record" /\ records' = records \cup {Execution}
          /\ call' = [call EXCEPT !.acts = NextActs, !.step = "act"]
      BY <1>7 DEF Record
    <2>2. call \in Call
      BY <2>1, CallFacts
    <2>3. call'.step = "act"
      BY <2>1, <2>2 DEF Call
    <2> QED
      BY <1>2, <2>1, <2>3
  <1>8. ASSUME NEW b, NEW recs,
               Callback(b, recs) \/ Decide \/ ItemDone \/ Complete \/ CallFails \/ Crash
        PROVE  Gone'
    <2>1. UNCHANGED records
      BY <1>8 DEF Callback, Decide, ItemDone, Complete, CallFails, Crash
    <2>2. call'.step \notin {"remove", "record"}
      <3>1. CASE Decide \/ ItemDone
        <4>1. call \in Call
          BY <3>1, CallFacts DEF Decide, ItemDone
        <4>2. CASE ItemDone
          BY <4>1, <4>2 DEF ItemDone, Call
        <4>3. CASE Decide
          <5>1. PICK recs2, id2, acts2 : call' = [call EXCEPT !.recs = recs2, !.id = id2,
                                                              !.step = "act", !.acts = acts2]
            BY <4>3 DEF Decide
          <5> QED
            BY <4>1, <5>1 DEF Call
        <4> QED
          BY <3>1, <4>2, <4>3
      <3> QED
        BY <1>8, <3>1 DEF Callback, Complete, CallFails, Crash, NoCall
    <2> QED
      BY <1>2, <2>1, <2>2
  <1>9. CASE UNCHANGED <<records, call>>
    <2>1. ASSUME validity' = 1, call.step \in {"remove", "record"}
          PROVE  validity = 1 /\ call.id \in Ids
      BY <2>1, GoneStays, CallFacts DEF Acting
    <2>2. Action' = Action
      BY <1>9 DEF Action
    <2>3. validity' = 1 /\ call'.step = "remove" => server'[call'.id] = None
      BY <1>1, <1>9, <2>1 DEF Gone
    <2>4. validity' = 1 /\ Archived' => DoneNext(call'.id)
      <3>1. SUFFICES ASSUME validity' = 1, Archived PROVE DoneNext(call.id)
        BY <1>9, <2>2
      <3>2. Done(call.id)
        BY <2>1, <3>1 DEF Gone
      <3> QED
        BY <1>1, <2>1, <3>1, <3>2
    <2> QED
      BY <1>2, <1>9, <2>3, <2>4
  <1>10. ASSUME NEW found, NEW id, NEW part,
               \/ Fetch(found) \/ Upsert \/ ReadMessage(id) \/ CreateBatch(part) \/ CreateFails
               \/ SendBatch \/ SendRaises
               \/ Expunge(id) \/ ArchiveRequest(id) \/ Renumber \/ Tick \/ UNCHANGED vars
        PROVE  UNCHANGED <<records, call>>
    BY <1>10 DEF Fetch, Upsert, ReadMessage, CreateBatch, CreateFails, SendBatch, SendRaises,
                 Expunge, ArchiveRequest,
                Renumber, Tick, vars
  <1> QED
    BY <1>3, <1>4, <1>5, <1>6, <1>7, <1>8, <1>9, <1>10 DEF Next, Worker, Handler, World

\* An archive on record as executed has happened on the server, through lost
\* answers, errors and restarts, and stays so while mailboxes keep their
\* numbers (main.py:244-268).
THEOREM ExecutedIsDoneCorrect == Spec => []ExecutedIsDone
  <1>1. Init => Gone
    BY DEF Init, Gone, ExecutedIsDone, NoCall
  <1>2. Gone => ExecutedIsDone
    BY DEF Gone
  <1> QED
    BY <1>1, <1>2, GoneStep, AutomationCorrect, PTL DEF Spec

-----------------------------------------------------------------------------
(* Recommendations that name the archive last. *)

\* the actions that are carried out without a person
Autonomous == Executable \cap AutonomousActions

\* nothing is left to do once the message is archived
ArchiveEnds(actions) ==
  \A j, k \in DOMAIN actions : actions[j] = "archive" /\ j < k => actions[k] \notin Autonomous

\* Hermes may send any order; this is what the two theorems below ask of it.
ArchiveLast == \A actions \in ActionLists : ArchiveEnds(actions)

\* The call answers each request in its turn, and tries only autonomous actions.
Ordered ==
  call.step # "none" =>
    /\ RecIds \cap call.done = {}
    /\ call.step \in Acting =>
         /\ ArchiveEnds(call.acts)
         /\ call.id \notin call.done
         /\ call.step \in {"imap", "remove"} => Action \in AutonomousActions
         /\ call.step = "remove" => Action = "archive"
         /\ call.step = "record" /\ (call.inTry \/ call.status = "failed")
              => Action \in AutonomousActions

\* The message is in the index as long as something is left to do with it, so
\* that nothing autonomous is skipped.
InIndex ==
  call.step \in Acting =>
    /\ Current \cap Autonomous # {} => rows[call.id] # None
    /\ call.step # "act" /\ Action \in Autonomous => call.status # "skipped"

\* the j-th action of decision d is done, or it or one before it failed
TriedAt(d, j) ==
  d.actions[j] \in Autonomous =>
    \/ OnRecord(d, d.actions[j], "executed")
    \/ \E i \in 1..j : OnRecord(d, d.actions[i], "failed")

\* what is left of d's actions after the first k
Rest(d, k) ==
  /\ Len(d.actions) = k + Len(call.acts)
  /\ \A m \in 1..Len(call.acts) : d.actions[k + m] = call.acts[m]

\* An accepted decision is carried out to its end or to its first failure, or
\* the call is at it, at some place in its list.
Traced ==
  \A d \in decisions :
    /\ d.actions \in Seq(STRING)
    /\ d.accepted /\ Execute =>
         \/ <<d.batch, d.id>> \in interrupted
         \/ \A j \in DOMAIN d.actions : TriedAt(d, j)
         \/ /\ call.step \in Acting
            /\ d.batch = call.batch /\ d.id = call.id
            /\ \E k \in Nat : Rest(d, k) /\ \A j \in 1..k : TriedAt(d, j)

FailedTag(e) == e.type = "add_tag" /\ e.status = "failed"

ArchiveDone(r) == effects[r]["archive"] > 0

\* A request that is answered, or in the call that answers it done with.
Settled(b, id) ==
  \/ <<b, id>> \in interrupted
  \/ StatusOf(<<b, id>>) = "completed"
  \/ call.step # "none" /\ b = call.batch /\ id \in call.done

\* Nothing is left to do for a request whose tagging failed, and none of its
\* autonomous actions for one that is archived.
Tagged ==
  /\ NoArchiveAfterFailedTag
  /\ \A e \in records :
       /\ <<e.batch, e.id>> \in Requests
       /\ FailedTag(e) =>
            \/ Settled(e.batch, e.id)
            \/ /\ call.step = "act" /\ call.acts = <<>>
               /\ e.batch = call.batch /\ e.id = call.id
  /\ \A b \in 1..MaxBatches, id \in Ids : ArchiveDone(<<b, id>>) =>
       \/ Settled(b, id)
       \/ /\ call.step \in Acting
          /\ b = call.batch /\ id = call.id
          /\ \/ call.step \in {"remove", "record"} /\ Action = "archive"
             \/ Range(call.acts) \cap Autonomous = {}

LEMMA ArchiveEndsTail ==
  ASSUME NEW s \in Seq(STRING), s # <<>>, ArchiveEnds(s)
  PROVE  /\ ArchiveEnds(Tail(s))
         /\ Head(s) = "archive" => Range(Tail(s)) \cap Autonomous = {}
  <1>1. /\ \A k \in DOMAIN Tail(s) : k + 1 \in DOMAIN s /\ Tail(s)[k] = s[k + 1] /\ k \in Nat \ {0}
        /\ 1 \in DOMAIN s /\ Head(s) = s[1]
    <2>1. Tail(s) \in Seq(STRING)
      BY HeadAndTail
    <2>2. \A k \in DOMAIN Tail(s) : k \in Nat \ {0}
      BY <2>1
    <2> QED
      BY <2>2, HeadAndTail
  <1>2. ArchiveEnds(Tail(s))
    <2>1. SUFFICES ASSUME NEW j \in DOMAIN Tail(s), NEW k \in DOMAIN Tail(s),
                          Tail(s)[j] = "archive", j < k
                   PROVE  Tail(s)[k] \notin Autonomous
      BY DEF ArchiveEnds
    <2>2. j + 1 < k + 1
      BY <1>1, <2>1
    <2> QED
      BY <1>1, <2>1, <2>2 DEF ArchiveEnds
  <1>3. ASSUME Head(s) = "archive", NEW k \in DOMAIN Tail(s)
        PROVE  Tail(s)[k] \notin Autonomous
    <2>1. 1 < k + 1
      BY <1>1, <1>3
    <2> QED
      BY <1>1, <1>3, <2>1 DEF ArchiveEnds
  <1> QED
    BY <1>2, <1>3 DEF Range

LEMMA OrderedStep == ArchiveLast /\ AutomationInv /\ Ordered /\ [Next]_vars => Ordered'
  <1> SUFFICES ASSUME ArchiveLast, AutomationInv, Ordered, [Next]_vars PROVE Ordered'
    OBVIOUS
  <1> USE DEF serverVars, classifyVars, storeVars, cutVars
  <1>1. ASSUME NEW b, NEW recs, Callback(b, recs)
        PROVE  Ordered'
    BY <1>1 DEF Callback, Ordered, Acting, RecIds
  <1>2. CASE Decide
    <2>1. /\ call.step = "item" /\ call.recs # <<>> /\ call.acts = <<>>
          /\ call \in Call /\ call.recs \in Seq(Recommendation)
      BY <1>2, CallFacts DEF Decide, AutomationInv, CallInv, Call
    <2> DEFINE rec == Head(call.recs)
               acts == IF Accepts(rec) /\ Execute THEN rec.actions ELSE <<>>
    <2>2. call' = [call EXCEPT !.recs = Tail(@), !.id = rec.id, !.step = "act", !.acts = acts]
      BY <1>2 DEF Decide
    <2>3. rec \in Recommendation
      BY <2>1, HeadAndTail
    <2>4. ArchiveEnds(acts)
      BY <2>3 DEF ArchiveLast, ArchiveEnds, Recommendation
    <2> HIDE DEF acts
    <2>5. /\ call'.step = "act" /\ call'.recs = Tail(call.recs) /\ call'.id = rec.id
          /\ call'.acts = acts /\ call'.done = call.done
      BY <2>1, <2>2 DEF Call
    <2>6. rec.id \in RecIds /\ RecIds' \subseteq RecIds
      BY <2>1, <2>5, HeadAndTail DEF RecIds
    <2> QED
      BY <2>1, <2>4, <2>5, <2>6 DEF Ordered, Acting
  <1>3. CASE ItemDone
    <2>1. /\ call.step = "act" /\ call \in Call
          /\ call' = [call EXCEPT !.done = @ \cup {call.id},
                                  !.step = IF call.recs = <<>> THEN "complete" ELSE "item"]
      BY <1>3, CallFacts DEF ItemDone
    <2>2. /\ call'.step \in {"complete", "item"} /\ call'.recs = call.recs
          /\ call'.done = call.done \cup {call.id}
      BY <2>1 DEF Call
    <2>3. call.id \notin RecIds
      BY <2>1 DEF AutomationInv, CallInv, NoCall
    <2> QED
      BY <2>1, <2>2, <2>3 DEF Ordered, Acting, RecIds
  <1>4. CASE Act
    <2>1. /\ call.step = "act" /\ call \in Call
          /\ call' = [call EXCEPT
               !.step = IF Skipped \/ (Action = "archive" /\ call.id \in InArchive)
                          THEN "record" ELSE "imap",
               !.inTry = Action \in AutonomousActions /\ rows[call.id] # None,
               !.status = IF Skipped THEN "skipped" ELSE "executed"]
      BY <1>4, CallFacts DEF Act
    <2>2. /\ call'.id = call.id /\ call'.acts = call.acts /\ call'.recs = call.recs
          /\ call'.done = call.done
          /\ call'.step = IF Skipped \/ (Action = "archive" /\ call.id \in InArchive)
                            THEN "record" ELSE "imap"
          /\ call'.inTry => Action \in AutonomousActions
          /\ call'.status # "failed"
      BY <2>1 DEF Call
    <2>3. call'.step = "imap" => Action \in AutonomousActions
      BY <2>2 DEF Skipped
    <2> QED
      BY <2>1, <2>2, <2>3 DEF Ordered, Acting, RecIds, Action
  <1>5. CASE Imap \/ ImapFails \/ RemoveRow \/ RemoveRowFails \/ RecordRaises
    <2>1. /\ call.step \in Acting /\ call \in Call
          /\ \/ /\ call.step = "imap"
                /\ call' = [call EXCEPT !.step = IF Action = "archive" THEN "remove" ELSE "record"]
             \/ /\ call.step \in {"imap", "remove"}
                /\ call' = [call EXCEPT !.step = "record", !.status = "failed"]
             \/ call.step = "remove" /\ call' = [call EXCEPT !.step = "record"]
             \/ call.step = "record" /\ InTry /\ call' = [call EXCEPT !.status = "failed"]
      BY <1>5, CallFacts DEF Imap, ImapFails, RemoveRow, RemoveRowFails, RecordRaises, Acting
    <2>2. /\ call'.id = call.id /\ call'.acts = call.acts /\ call'.recs = call.recs
          /\ call'.done = call.done /\ call'.inTry = call.inTry
          /\ (call'.step = "remove" /\ Action = "archive") \/ call'.step = "record"
      BY <2>1 DEF Call
    <2>3. Action \in AutonomousActions
      BY <2>1 DEF Ordered, Acting, InTry
    <2> QED
      BY <2>1, <2>2, <2>3 DEF Ordered, Acting, RecIds, Action
  <1>6. CASE Record
    <2>1. /\ call.step = "record" /\ call \in Call /\ call.acts # <<>> /\ call.acts \in Seq(STRING)
          /\ call' = [call EXCEPT !.acts = NextActs, !.step = "act"]
      BY <1>6, CallFacts DEF Record, Call, AutomationInv, CallInv
    <2>2. /\ call'.id = call.id /\ call'.acts = NextActs /\ call'.recs = call.recs
          /\ call'.done = call.done /\ call'.step = "act"
      BY <2>1 DEF Call
    <2>3. ArchiveEnds(NextActs)
      BY <2>1, ArchiveEndsTail DEF Ordered, Acting, NextActs, ArchiveEnds
    <2> QED
      BY <2>1, <2>2, <2>3 DEF Ordered, Acting, RecIds
  <1>7. CASE Complete \/ CallFails \/ Crash
    BY <1>7 DEF Complete, CallFails, Crash, NoCall, Ordered
  <1>8. CASE UNCHANGED call
    BY <1>8 DEF Ordered, RecIds, Action
  <1>9. ASSUME NEW found, NEW id, NEW part,
               \/ Fetch(found) \/ Upsert \/ ReadMessage(id) \/ CreateBatch(part) \/ CreateFails
               \/ SendBatch \/ SendRaises
               \/ Expunge(id) \/ ArchiveRequest(id) \/ Renumber \/ Tick \/ UNCHANGED vars
        PROVE  UNCHANGED call
    BY <1>9 DEF Fetch, Upsert, ReadMessage, CreateBatch, CreateFails, SendBatch, SendRaises,
                Expunge, ArchiveRequest,
                Renumber, Tick, vars
  <1> QED
    BY <1>1, <1>2, <1>3, <1>4, <1>5, <1>6, <1>7, <1>8, <1>9 DEF Next, Worker, Handler, World

\* A row goes while a callback is served only when the callback archives it.
LEMMA RowStays ==
  ASSUME AutomationInv, [Next]_vars, call.step \in Acting, rows[call.id] # None, ~RemoveRow
  PROVE  rows'[call.id] # None
  <1> USE DEF serverVars, classifyVars, storeVars, cutVars
  <1>1. call.id \in Ids /\ call # NoCall /\ rows \in [Ids -> Bodies \cup {None}]
    BY CallFacts DEF Acting, AutomationInv, WorldInv
  <1>2. CASE Upsert
    BY <1>1, <1>2 DEF Upsert
  <1>3. ASSUME NEW id PROVE ~ArchiveRequest(id)
    BY <1>1 DEF ArchiveRequest
  <1>4. ASSUME NEW id, NEW part, NEW b, NEW recs,
               \/ Fetch(b) \/ ReadMessage(id) \/ CreateBatch(part) \/ CreateFails
               \/ SendBatch \/ SendRaises
               \/ Callback(b, recs) \/ Decide \/ ItemDone \/ Act \/ Imap \/ ImapFails
               \/ RemoveRowFails \/ Record \/ RecordRaises \/ Complete \/ CallFails
               \/ Expunge(id) \/ Renumber \/ Tick \/ Crash \/ UNCHANGED vars
        PROVE  UNCHANGED rows
    BY <1>4 DEF Fetch, ReadMessage, CreateBatch, CreateFails, SendBatch, SendRaises, Callback,
                Decide, ItemDone, Act,
                Imap, ImapFails, RemoveRowFails, Record, RecordRaises, Complete, CallFails,
                Expunge, Renumber, Tick, Crash, vars
  <1> QED
    BY <1>2, <1>3, <1>4 DEF Next, Worker, Handler, World

LEMMA InIndexStep == AutomationInv /\ Ordered /\ InIndex /\ [Next]_vars => InIndex'
  <1> SUFFICES ASSUME AutomationInv, Ordered, InIndex, [Next]_vars PROVE InIndex'
    OBVIOUS
  <1> USE DEF serverVars, classifyVars, storeVars, cutVars
  <1>1. CASE Decide
    <2>1. /\ call.step = "item" /\ call.recs # <<>> /\ call # NoCall
          /\ call \in Call /\ call.recs \in Seq(Recommendation)
      BY <1>1, CallFacts DEF Decide, Call
    <2> DEFINE rec == Head(call.recs)
    <2>2. /\ call' = [call EXCEPT !.recs = Tail(@), !.id = rec.id, !.step = "act",
                                  !.acts = IF Accepts(rec) /\ Execute THEN rec.actions ELSE <<>>]
          /\ UNCHANGED <<rows, records>>
      BY <1>1 DEF Decide
    <2>3. /\ call'.step = "act" /\ call'.id = rec.id
          /\ call'.acts = IF Accepts(rec) /\ Execute THEN rec.actions ELSE <<>>
      BY <2>1, <2>2 DEF Call
    <2>4. call.pending[rec.id] # None
      <3>1. rec.id \in RecIds
        BY <2>1, HeadAndTail DEF RecIds
      <3>2. rec.id \in DOMAIN call.pending /\ call.pending \in BodyMaps
        BY <2>1, <3>1 DEF AutomationInv, CallInv, Named, Call
      <3>3. call.pending[rec.id] \in Bodies
        BY <3>2, BodyMapFacts
      <3> QED
        BY <3>3, AutomationAssumption
    <2>5. Accepts(rec) => rows[rec.id] # None
      BY <2>4 DEF Accepts
    <2>6. call'.acts # <<>> => rows'[call'.id] # None
      BY <2>2, <2>3, <2>5
    <2>7. call'.acts = <<>> => Current' = {}
      BY <2>3 DEF Current, Range
    <2> QED
      BY <2>2, <2>3, <2>6, <2>7 DEF InIndex
  <1>2. CASE Act
    <2>1. /\ call.step = "act" /\ call \in Call /\ call.acts # <<>> /\ UNCHANGED <<rows, records>>
          /\ call' = [call EXCEPT
               !.step = IF Skipped \/ (Action = "archive" /\ call.id \in InArchive)
                          THEN "record" ELSE "imap",
               !.inTry = Action \in AutonomousActions /\ rows[call.id] # None,
               !.status = IF Skipped THEN "skipped" ELSE "executed"]
      BY <1>2, CallFacts DEF Act
    <2>2. /\ call'.id = call.id /\ call'.acts = call.acts
          /\ call'.step \in {"record", "imap"}
          /\ call'.status = IF Skipped THEN "skipped" ELSE "executed"
      BY <2>1 DEF Call
    <2>3. /\ Action \in Current /\ Current' \subseteq Current /\ Action' = Action
      BY <2>1, <2>2, HeadAndTail DEF Current, Action, Call
    <2>4. Action \in Autonomous => ~Skipped
      BY <2>1, <2>3 DEF InIndex, Acting, Autonomous, Skipped
    <2> QED
      BY <2>1, <2>2, <2>3, <2>4 DEF InIndex, Acting
  <1>3. CASE Imap \/ ImapFails \/ RemoveRowFails \/ RecordRaises
    <2>1. /\ call.step \in {"imap", "remove", "record"} /\ call \in Call /\ UNCHANGED rows
          /\ \/ /\ call.step = "imap"
                /\ call' = [call EXCEPT !.step = IF Action = "archive" THEN "remove" ELSE "record"]
             \/ call' = [call EXCEPT !.step = "record", !.status = "failed"]
             \/ call.step = "record" /\ call' = [call EXCEPT !.status = "failed"]
          /\ records' = records \/ records' = records \cup {Execution}
      BY <1>3, CallFacts DEF Imap, ImapFails, RemoveRow, RemoveRowFails, RecordRaises
    <2>2. /\ call'.id = call.id /\ call'.acts = call.acts
          /\ call'.step \in {"remove", "record"}
          /\ call'.status \in {call.status, "failed"}
      BY <2>1 DEF Call
    <2>3. Current' \subseteq Current /\ Action' = Action
      <3>1. call.acts # <<>> /\ call.acts \in Seq(STRING)
        BY <2>1 DEF AutomationInv, CallInv, NoCall, Call
      <3> QED
        BY <2>1, <2>2, <3>1, HeadAndTail DEF Current, Action
    <2>4. Execution.type = Action /\ Execution.status = call.status
      BY DEF Execution
    <2> QED
      BY <2>1, <2>2, <2>3, <2>4 DEF InIndex, Acting, Autonomous
  <1>4. CASE RemoveRow
    <2>1. /\ call.step = "remove" /\ call \in Call /\ UNCHANGED records
          /\ call' = [call EXCEPT !.step = "record"]
      BY <1>4, CallFacts DEF RemoveRow
    <2>2. /\ call'.id = call.id /\ call'.acts = call.acts
          /\ call'.step = "record" /\ call'.status = call.status
      BY <2>1 DEF Call
    <2>3. Current' \cap Autonomous = {}
      <3>1. call.acts # <<>> /\ call.acts \in Seq(STRING)
        BY <2>1 DEF AutomationInv, CallInv, NoCall, Call
      <3>2. Head(call.acts) = "archive" /\ ArchiveEnds(call.acts)
        BY <2>1 DEF Ordered, Acting, Action
      <3> QED
        BY <2>2, <3>1, <3>2, ArchiveEndsTail DEF Current
    <2> QED
      BY <2>1, <2>2, <2>3 DEF InIndex, Acting, Action
  <1>5. CASE Record
    <2>1. /\ call.step = "record" /\ call \in Call /\ call.acts # <<>> /\ call.acts \in Seq(STRING)
          /\ call' = [call EXCEPT !.acts = NextActs, !.step = "act"]
          /\ records' = records \cup {Execution} /\ UNCHANGED rows
      BY <1>5, CallFacts DEF Record, Call, AutomationInv, CallInv
    <2>2. /\ call'.id = call.id /\ call'.acts = NextActs /\ call'.step = "act"
      BY <2>1 DEF Call
    <2>3. Current' \subseteq Current
      BY <2>1, <2>2 DEF Current, NextActs, Range
    <2>4. Execution.type = Action /\ Execution.status = call.status
      BY DEF Execution
    <2> QED
      BY <2>1, <2>2, <2>3, <2>4 DEF InIndex, Acting, Autonomous
  <1>6. ASSUME NEW b, NEW recs, Callback(b, recs) \/ ItemDone \/ Complete \/ CallFails \/ Crash
        PROVE  UNCHANGED records /\ call'.step \notin Acting
    <2>1. CASE ItemDone
      <3>1. call \in Call
        BY <2>1, CallFacts DEF ItemDone
      <3> QED
        BY <2>1, <3>1 DEF ItemDone, Call, Acting
    <2> QED
      BY <1>6, <2>1 DEF Callback, Complete, CallFails, Crash, NoCall, Acting
  <1>7. CASE UNCHANGED records /\ call'.step \notin Acting
    BY <1>7 DEF InIndex
  <1>8. CASE UNCHANGED <<call, records>>
    <2>1. ~RemoveRow
      <3>1. RemoveRow => call \in Call /\ call' = [call EXCEPT !.step = "record"] /\ call.step = "remove"
        BY CallFacts DEF RemoveRow
      <3> QED
        BY <1>8, <3>1 DEF Call
    <2>2. call.step \in Acting /\ Current \cap Autonomous # {} => rows'[call.id] # None
      BY <2>1, RowStays DEF InIndex
    <2> QED
      BY <1>8, <2>2 DEF InIndex, Current, Action
  <1>9. ASSUME NEW found, NEW id, NEW part,
               \/ Fetch(found) \/ Upsert \/ ReadMessage(id) \/ CreateBatch(part) \/ CreateFails
               \/ SendBatch \/ SendRaises
               \/ Expunge(id) \/ ArchiveRequest(id) \/ Renumber \/ Tick \/ UNCHANGED vars
        PROVE  UNCHANGED <<call, records>>
    BY <1>9 DEF Fetch, Upsert, ReadMessage, CreateBatch, CreateFails, SendBatch, SendRaises,
                Expunge, ArchiveRequest,
                Renumber, Tick, vars
  <1> QED
    BY <1>1, <1>2, <1>3, <1>4, <1>5, <1>6, <1>7, <1>8, <1>9 DEF Next, Worker, Handler, World

LEMMA OrderedInit == Init => Ordered
  BY DEF Init, NoCall, Ordered

\* Executions are added and never taken away, interrupted requests too.
LEMMA LogGrows ==
  ASSUME [Next]_vars
  PROVE  records \subseteq records' /\ interrupted \subseteq interrupted'
  BY DEF Next, Worker, Handler, World, vars, serverVars, classifyVars, storeVars, cutVars,
         Fetch, Upsert, ReadMessage, CreateBatch, CreateFails, SendBatch, SendRaises, Callback,
         Decide, ItemDone, Act, Imap, ImapFails, RemoveRow, RemoveRowFails, Record, RecordRaises,
         Complete, CallFails, Expunge, ArchiveRequest, Renumber, Tick, Crash

LEMMA TracedStep == AutomationInv /\ InIndex /\ Traced /\ [Next]_vars => Traced'
  <1> SUFFICES ASSUME AutomationInv, InIndex, Traced, [Next]_vars PROVE Traced'
    OBVIOUS
  <1> USE DEF serverVars, classifyVars, storeVars, cutVars
  <1>1. /\ records \subseteq records' /\ interrupted \subseteq interrupted'
        /\ \A d, j : TriedAt(d, j) => TriedAt(d, j)'
    BY LogGrows DEF TriedAt, OnRecord
  <1>0. \A d \in decisions : d.actions \in Seq(STRING)
    BY DEF Traced
  \* a step that ends the turn of a request only by cutting it off
  <1>2. ASSUME UNCHANGED decisions,
               call.step \in Acting =>
                 \/ <<call.batch, call.id>> \in interrupted'
                 \/ /\ call'.step \in Acting /\ call'.batch = call.batch
                    /\ call'.id = call.id /\ call'.acts = call.acts
        PROVE  Traced'
    <2>1. SUFFICES ASSUME NEW d \in decisions, d.accepted /\ Execute
                   PROVE  \/ <<d.batch, d.id>> \in interrupted'
                          \/ \A j \in DOMAIN d.actions : TriedAt(d, j)'
                          \/ /\ call'.step \in Acting
                             /\ d.batch = call'.batch /\ d.id = call'.id
                             /\ \E k \in Nat : Rest(d, k)' /\ \A j \in 1..k : TriedAt(d, j)'
      BY <1>2 DEF Traced
    <2>2. CASE <<d.batch, d.id>> \in interrupted \/ \A j \in DOMAIN d.actions : TriedAt(d, j)
      BY <1>1, <2>2
    <2>3. ASSUME call.step \in Acting, d.batch = call.batch, d.id = call.id,
                 <<d.batch, d.id>> \notin interrupted',
                 NEW k \in Nat, Rest(d, k), \A j \in 1..k : TriedAt(d, j)
          PROVE  /\ call'.step \in Acting
                 /\ d.batch = call'.batch /\ d.id = call'.id
                 /\ Rest(d, k)' /\ \A j \in 1..k : TriedAt(d, j)'
      BY <1>1, <1>2, <2>3 DEF Rest
    <2> QED
      BY <2>1, <2>2, <2>3 DEF Traced
  <1>3. ASSUME NEW b, NEW recs, Callback(b, recs) \/ Complete
        PROVE  UNCHANGED decisions /\ call.step \notin Acting
    BY <1>3 DEF Callback, Complete, NoCall, Acting
  <1>4. CASE CallFails \/ Crash
    <2>1. UNCHANGED decisions /\ interrupted' = interrupted \cup Answering
      BY <1>4 DEF CallFails, Crash
    <2>2. call.step \in Acting => <<call.batch, call.id>> \in Answering
      <3>1. call.step \in Acting => call.id \in Ids /\ call # NoCall /\ None \notin Ids
        BY CallFacts, AutomationAssumption DEF Acting
      <3> QED
        BY <3>1 DEF Answering
    <2> QED
      BY <1>2, <2>1, <2>2
  <1>5. CASE Act \/ Imap \/ ImapFails \/ RemoveRow \/ RemoveRowFails \/ RecordRaises
    <2>1. /\ call.step \in Acting /\ call \in Call /\ UNCHANGED decisions
          /\ \/ call' = [call EXCEPT
                  !.step = IF Skipped \/ (Action = "archive" /\ call.id \in InArchive)
                             THEN "record" ELSE "imap",
                  !.inTry = Action \in AutonomousActions /\ rows[call.id] # None,
                  !.status = IF Skipped THEN "skipped" ELSE "executed"]
             \/ call' = [call EXCEPT !.step = IF Action = "archive" THEN "remove" ELSE "record"]
             \/ call' = [call EXCEPT !.step = "record"]
             \/ call' = [call EXCEPT !.step = "record", !.status = "failed"]
             \/ call' = [call EXCEPT !.status = "failed"]
      BY <1>5, CallFacts DEF Act, Imap, ImapFails, RemoveRow, RemoveRowFails, RecordRaises, Acting
    <2>2. /\ call'.step \in Acting /\ call'.batch = call.batch
          /\ call'.id = call.id /\ call'.acts = call.acts
      BY <2>1 DEF Call, Acting
    <2> QED
      BY <1>2, <2>1, <2>2
  <1>6. CASE ItemDone
    <2>1. call.step = "act" /\ call.acts = <<>> /\ UNCHANGED decisions
      BY <1>6 DEF ItemDone
    <2>2. ASSUME NEW d \in decisions, NEW k \in Nat, Rest(d, k), \A j \in 1..k : TriedAt(d, j)
          PROVE  \A j \in DOMAIN d.actions : TriedAt(d, j)
      <3>1. Len(d.actions) = k + Len(<<>>)
        BY <2>1, <2>2 DEF Rest
      <3>2. DOMAIN d.actions = 1..k
        BY <1>0, <3>1
      <3> QED
        BY <2>2, <3>2
    <2> QED
      BY <1>1, <2>1, <2>2 DEF Traced
  <1>7. CASE Decide
    <2>1. /\ call.step = "item" /\ call.recs # <<>> /\ call.recs \in Seq(Recommendation)
          /\ call \in Call
      BY <1>7, CallFacts DEF Decide, Call
    <2> DEFINE rec == Head(call.recs)
               new == [batch |-> call.batch, id |-> rec.id, accepted |-> Accepts(rec),
                       actions |-> rec.actions]
    <2>2. /\ decisions' = decisions \cup {new}
          /\ call' = [call EXCEPT !.recs = Tail(@), !.id = rec.id, !.step = "act",
                                  !.acts = IF Accepts(rec) /\ Execute THEN rec.actions ELSE <<>>]
      BY <1>7 DEF Decide
    <2>3. rec.actions \in Seq(STRING)
      <3>1. rec \in Recommendation
        BY <2>1, HeadAndTail
      <3> QED
        BY <3>1, AutomationAssumption DEF Recommendation
    <2>4. /\ call'.step = "act" /\ call'.batch = call.batch /\ call'.id = rec.id
          /\ call'.acts = IF Accepts(rec) /\ Execute THEN rec.actions ELSE <<>>
      BY <2>1, <2>2 DEF Call
    <2>5. ASSUME NEW d \in decisions
          PROVE  /\ d.actions \in Seq(STRING)
                 /\ d.accepted /\ Execute =>
                      \/ <<d.batch, d.id>> \in interrupted'
                      \/ \A j \in DOMAIN d.actions : TriedAt(d, j)'
      BY <1>1, <2>1 DEF Traced, Acting
    <2>6. call'.step \in Acting
      BY <2>4 DEF Acting
    <2>7. ASSUME NEW d \in decisions'
          PROVE  /\ d.actions \in Seq(STRING)
                 /\ d.accepted /\ Execute =>
                      \/ <<d.batch, d.id>> \in interrupted'
                      \/ \A j \in DOMAIN d.actions : TriedAt(d, j)'
                      \/ /\ call'.step \in Acting
                         /\ d.batch = call'.batch /\ d.id = call'.id
                         /\ \E k \in Nat : Rest(d, k)' /\ \A j \in 1..k : TriedAt(d, j)'
      <3>1. CASE d \in decisions
        BY <2>5, <3>1
      <3>2. CASE d = new
        <4>1. /\ d.batch = call'.batch /\ d.id = call'.id /\ d.actions \in Seq(STRING)
              /\ d.accepted /\ Execute => call'.acts = d.actions
          BY <2>3, <2>4, <3>2
        <4>2. ASSUME d.accepted /\ Execute PROVE Rest(d, 0)'
          BY <4>1, <4>2 DEF Rest
        <4>3. \A k \in 1..0 : TriedAt(d, k)'
          OBVIOUS
        <4> QED
          BY <2>6, <4>1, <4>2, <4>3
      <3> QED
        BY <2>2, <3>1, <3>2
    <2> QED
      BY <2>7 DEF Traced
  <1>8. CASE Record
    <2>1. /\ call.step = "record" /\ call \in Call /\ call.acts # <<>> /\ call.acts \in Seq(STRING)
          /\ call' = [call EXCEPT !.acts = NextActs, !.step = "act"]
          /\ records' = records \cup {Execution} /\ UNCHANGED decisions
          /\ call.status \in {"executed", "failed", "skipped"}
      BY <1>8, CallFacts DEF Record, Call, AutomationInv, CallInv
    <2>2. /\ call'.step = "act" /\ call'.batch = call.batch /\ call'.id = call.id
          /\ call'.acts = NextActs
      BY <2>1 DEF Call
    <2>3. /\ Action = call.acts[1] /\ Len(call.acts) \in Nat \ {0}
          /\ Len(Tail(call.acts)) = Len(call.acts) - 1
          /\ \A m \in 1..Len(Tail(call.acts)) : Tail(call.acts)[m] = call.acts[m + 1]
      BY <2>1 DEF Action
    <2>4. Action \in Autonomous => call.status \in {"executed", "failed"}
      BY <2>1 DEF InIndex, Acting
    <2>5. ASSUME NEW d \in decisions, d.batch = call.batch, d.id = call.id, NEW k \in Nat,
                 Rest(d, k), \A j \in 1..k : TriedAt(d, j)
          PROVE  \/ \A j \in DOMAIN d.actions : TriedAt(d, j)'
                 \/ Rest(d, k + 1)' /\ \A j \in 1..(k + 1) : TriedAt(d, j)'
      <3>1. /\ d.actions \in Seq(STRING) /\ Len(d.actions) = k + Len(call.acts)
            /\ \A m \in 1..Len(call.acts) : d.actions[k + m] = call.acts[m]
        BY <1>0, <2>5 DEF Rest
      <3>2. d.actions[k + 1] = Action /\ k + 1 \in DOMAIN d.actions
        BY <2>3, <3>1
      <3>3. [batch |-> d.batch, id |-> d.id, type |-> d.actions[k + 1], status |-> call.status]
              \in records'
        BY <2>1, <2>5, <3>2 DEF Execution
      <3>4. CASE call.status = "failed"
        <4>1. SUFFICES ASSUME NEW j \in DOMAIN d.actions PROVE TriedAt(d, j)'
          OBVIOUS
        <4>2. CASE j \in 1..k
          BY <1>1, <2>5, <4>2
        <4>3. CASE j \notin 1..k
          <5>1. k + 1 \in 1..j
            <6>1. j \in Nat \ {0}
              BY <3>1, <4>1
            <6> QED
              BY <4>3, <6>1
          <5> QED
            BY <3>3, <3>4, <5>1 DEF TriedAt, OnRecord
        <4> QED
          BY <4>2, <4>3
      <3>5. CASE call.status # "failed"
        <4>1. NextActs = Tail(call.acts)
          BY <3>5 DEF NextActs
        <4>2. Rest(d, k + 1)'
          <5>1. Len(d.actions) = (k + 1) + Len(Tail(call.acts))
            <6> DEFINE l == Len(call.acts)
                       t == Len(Tail(call.acts))
            <6>1. l \in Nat /\ t = l - 1 /\ Len(d.actions) = k + l
              BY <2>3, <3>1
            <6>2. ASSUME NEW x, NEW y, NEW z \in Nat, y = z - 1, x = k + z PROVE x = (k + 1) + y
              BY <2>5, <6>2
            <6> HIDE DEF l, t
            <6>3. Len(d.actions) = (k + 1) + t
              BY <6>1, <6>2
            <6> QED
              BY <6>3 DEF t
          <5>2. ASSUME NEW m \in 1..Len(Tail(call.acts))
                PROVE  d.actions[(k + 1) + m] = Tail(call.acts)[m]
            <6>1. m + 1 \in 1..Len(call.acts) /\ (k + 1) + m = k + (m + 1)
              BY <2>3
            <6> QED
              BY <2>3, <3>1, <6>1
          <5> QED
            BY <2>2, <4>1, <5>1, <5>2 DEF Rest
        <4>3. TriedAt(d, k + 1)'
          <5>1. k + 1 \in 1..(k + 1)
            OBVIOUS
          <5>2. d.actions[k + 1] \in Autonomous => call.status = "executed"
            BY <2>4, <3>2, <3>5
          <5> QED
            BY <3>3, <5>1, <5>2 DEF TriedAt, OnRecord
        <4>4. ASSUME NEW j \in 1..(k + 1) PROVE TriedAt(d, j)'
          BY <1>1, <2>5, <4>3
        <4> QED
          BY <4>2, <4>4
      <3> QED
        BY <3>4, <3>5
    <2>6. ASSUME NEW d \in decisions, d.accepted /\ Execute
          PROVE  \/ <<d.batch, d.id>> \in interrupted'
                 \/ \A j \in DOMAIN d.actions : TriedAt(d, j)'
                 \/ /\ d.batch = call'.batch /\ d.id = call'.id
                    /\ \E k \in Nat : Rest(d, k)' /\ \A j \in 1..k : TriedAt(d, j)'
      <3>1. CASE <<d.batch, d.id>> \in interrupted \/ \A j \in DOMAIN d.actions : TriedAt(d, j)
        BY <1>1, <3>1
      <3>2. ASSUME d.batch = call.batch, d.id = call.id,
                   NEW k \in Nat, Rest(d, k), \A j \in 1..k : TriedAt(d, j)
            PROVE  \/ \A j \in DOMAIN d.actions : TriedAt(d, j)'
                   \/ \E l \in Nat : Rest(d, l)' /\ \A j \in 1..l : TriedAt(d, j)'
        <4>1. k + 1 \in Nat
          OBVIOUS
        <4> QED
          BY <2>5, <3>2, <4>1
      <3>3. \/ <<d.batch, d.id>> \in interrupted
            \/ \A j \in DOMAIN d.actions : TriedAt(d, j)
            \/ /\ d.batch = call.batch /\ d.id = call.id
               /\ \E k \in Nat : Rest(d, k) /\ \A j \in 1..k : TriedAt(d, j)
        BY <2>6 DEF Traced
      <3> QED
        BY <2>2, <3>1, <3>2, <3>3
    <2>7. call'.step \in Acting
      BY <2>2 DEF Acting
    <2> QED
      BY <1>0, <2>1, <2>6, <2>7 DEF Traced
  <1>9. CASE UNCHANGED <<call, decisions>>
    BY <1>2, <1>9
  <1>10. ASSUME NEW found, NEW id, NEW part,
               \/ Fetch(found) \/ Upsert \/ ReadMessage(id) \/ CreateBatch(part) \/ CreateFails
               \/ SendBatch \/ SendRaises \/ Expunge(id) \/ ArchiveRequest(id) \/ Renumber \/ Tick
               \/ UNCHANGED vars
        PROVE  UNCHANGED <<call, decisions>>
    BY <1>10 DEF Fetch, Upsert, ReadMessage, CreateBatch, CreateFails, SendBatch, SendRaises,
                 Expunge, ArchiveRequest, Renumber, Tick, vars
  <1> QED
    BY <1>2, <1>3, <1>4, <1>5, <1>6, <1>7, <1>8, <1>9, <1>10 DEF Next, Worker, Handler, World

\* When Hermes names the archive last, every autonomous action of an accepted
\* recommendation that was heard to its end is on record as executed, or it or
\* one before it as failed: only the callback itself removes the row of the
\* message it is at, and only by archiving it (main.py:174-310).
THEOREM AcceptedAreTriedCorrect ==
  ASSUME ArchiveLast
  PROVE  Spec => []AcceptedAreTried
  <1> DEFINE Inv == AutomationInv /\ Ordered /\ InIndex /\ Traced
  <1>1. Init => Inv
    BY InitAutomation, OrderedInit DEF Init, NoCall, InIndex, Traced, Acting
  <1>2. Inv /\ [Next]_vars => Inv'
    BY AutomationStep, OrderedStep, InIndexStep, TracedStep
  <1>3. Inv => AcceptedAreTried
    <2>1. SUFFICES ASSUME AutomationInv, Traced, NEW d \in decisions,
                          d.accepted, Execute, Answered(d), NEW j \in DOMAIN d.actions
                   PROVE  TriedAt(d, j)
      BY DEF AcceptedAreTried, TriedAt, Autonomous
    <2>2. ASSUME call.step \in Acting PROVE ~(d.batch = call.batch /\ d.id = call.id)
      <3>1. call.step # "none"
        BY <2>2 DEF Acting
      <3>2. call # NoCall /\ call.id \in Ids /\ None \notin Ids
        BY <2>1, <2>2, <3>1, CallFacts, AutomationAssumption
      <3>3. call.id \in Named
        BY <3>2 DEF Named
      <3>4. batches[call.batch].items[call.id].status = "pending"
        BY <2>1, <3>2, <3>3 DEF AutomationInv, CallInv
      <3> QED
        BY <2>1, <3>4 DEF Answered, StatusOf
    <2> QED
      BY <2>1, <2>2 DEF Traced, Answered
  <1> QED
    BY <1>1, <1>2, <1>3, PTL DEF Spec

-----------------------------------------------------------------------------
LEMMA CompletedStays ==
  ASSUME AutomationInv, [Next]_vars, NEW r, StatusOf(r) = "completed"
  PROVE  StatusOf(r)' = "completed"
  <1> USE DEF serverVars, classifyVars, storeVars, cutVars
  <1>1. /\ r[1] \in DOMAIN batches /\ r[2] \in DOMAIN batches[r[1]].items
        /\ batches[r[1]].items[r[2]].status = "completed"
    BY DEF StatusOf
  <1>2. ASSUME batches'[r[1]] = batches[r[1]], DOMAIN batches \subseteq DOMAIN batches'
        PROVE  StatusOf(r)' = "completed"
    BY <1>1, <1>2 DEF StatusOf
  <1>3. ASSUME NEW part, CreateBatch(part)
        PROVE  StatusOf(r)' = "completed"
    <2>1. PICK new : batches' = Append(batches, new)
      BY <1>3 DEF CreateBatch, create_classification_batch
    <2>2. batches \in Seq(Batch)
      BY DEF AutomationInv, StoreInv
    <2> QED
      BY <1>1, <1>2, <2>1, <2>2
  <1>4. CASE Complete
    <2>1. /\ call # NoCall /\ call \in Call /\ call.batch \in DOMAIN batches
          /\ complete_batch_items(call.batch, call.done)
      BY <1>4, CallFacts DEF Complete, AutomationInv, CallInv, StoreInv
    <2>2. call.done \in SUBSET Ids
      BY <2>1 DEF Call
    <2>3. /\ batches' \in Seq(Batch) /\ Len(batches') = Len(batches)
          /\ \A c \in DOMAIN batches \ {call.batch} : batches'[c] = batches[c]
          /\ DOMAIN batches'[call.batch].items = DOMAIN batches[call.batch].items
          /\ \A id \in DOMAIN batches[call.batch].items :
               batches'[call.batch].items[id].status =
                 IF id \in call.done THEN "completed" ELSE batches[call.batch].items[id].status
      BY <2>1, <2>2, CompletedBatch DEF AutomationInv
    <2>4. DOMAIN batches' = DOMAIN batches
      BY <2>3 DEF AutomationInv, StoreInv
    <2> QED
      BY <1>1, <1>2, <2>3, <2>4 DEF StatusOf
  <1>5. ASSUME NEW found, NEW id, NEW b, NEW recs,
               \/ Fetch(found) \/ Upsert \/ ReadMessage(id) \/ CreateFails
               \/ SendBatch \/ SendRaises
               \/ Callback(b, recs) \/ Decide \/ ItemDone \/ Act \/ Imap \/ ImapFails
               \/ RemoveRow \/ RemoveRowFails \/ Record \/ RecordRaises \/ CallFails
               \/ Expunge(id) \/ ArchiveRequest(id) \/ Renumber \/ Tick \/ Crash
               \/ UNCHANGED vars
        PROVE  UNCHANGED batches
    BY <1>5 DEF Fetch, Upsert, ReadMessage, CreateFails, SendBatch, SendRaises, Callback, Decide,
                ItemDone, Act, Imap,
                ImapFails, RemoveRow, RemoveRowFails, Record, RecordRaises, CallFails, Expunge,
                ArchiveRequest, Renumber, Tick, Crash, vars
  <1> QED
    BY <1>2, <1>3, <1>4, <1>5 DEF Next, Worker, Handler, World

LEMMA SettledStays ==
  ASSUME AutomationInv, [Next]_vars, NEW b, NEW id, Settled(b, id)
  PROVE  Settled(b, id)'
  <1> USE DEF serverVars, classifyVars, storeVars, cutVars
  <1>1. CASE StatusOf(<<b, id>>) = "completed"
    BY <1>1, CompletedStays DEF Settled
  <1>2. interrupted \subseteq interrupted'
    BY DEF Next, Worker, Handler, World, vars, Fetch, Upsert, ReadMessage, CreateBatch,
           CreateFails,
           SendBatch, SendRaises, Callback, Decide, ItemDone, Act, Imap, ImapFails, RemoveRow, RemoveRowFails,
           Record, RecordRaises, Complete, CallFails, Expunge, ArchiveRequest, Renumber, Tick, Crash
  <1>3. CASE <<b, id>> \in interrupted
    BY <1>2, <1>3 DEF Settled
  <1>4. CASE call.step # "none" /\ b = call.batch /\ id \in call.done
    <2>1. /\ call \in Call /\ call # NoCall /\ call.batch \in DOMAIN batches
          /\ \A i \in call.done : i \in DOMAIN batches[call.batch].items
      BY <1>4, CallFacts DEF AutomationInv, CallInv, StoreInv, Named
    <2>2. CASE Complete
      <3>1. call.done \in SUBSET Ids
        BY <2>1 DEF Call
      <3>2. /\ batches' \in Seq(Batch) /\ Len(batches') = Len(batches)
            /\ DOMAIN batches'[call.batch].items = DOMAIN batches[call.batch].items
            /\ \A i \in DOMAIN batches[call.batch].items :
                 batches'[call.batch].items[i].status =
                   IF i \in call.done THEN "completed" ELSE batches[call.batch].items[i].status
        BY <2>1, <2>2, <3>1, CompletedBatch DEF AutomationInv, Complete
      <3>3. DOMAIN batches' = DOMAIN batches
        BY <3>2 DEF AutomationInv, StoreInv
      <3> QED
        BY <1>4, <2>1, <3>2, <3>3 DEF Settled, StatusOf
    <2>3. CASE CallFails \/ Crash
      <3>1. <<b, id>> \in Answering
        BY <1>4, <2>1 DEF Answering
      <3> QED
        BY <2>3, <3>1 DEF CallFails, Crash, Settled
    <2>4. ASSUME call'.batch = call.batch, call'.step # "none", call.done \subseteq call'.done
          PROVE  Settled(b, id)'
      BY <1>4, <2>4 DEF Settled
    <2>5. CASE Decide
      <3>1. PICK recs, i, acts :
              call' = [call EXCEPT !.recs = recs, !.id = i, !.step = "act", !.acts = acts]
        BY <2>5 DEF Decide
      <3> QED
        BY <2>1, <2>4, <3>1 DEF Call
    <2>6. CASE ItemDone
      BY <2>1, <2>4, <2>6 DEF ItemDone, Call
    <2>7. CASE Act \/ Record
      <3>1. CASE Act
        <4>1. call' = [call EXCEPT
                !.step = IF Skipped \/ (Action = "archive" /\ call.id \in InArchive)
                           THEN "record" ELSE "imap",
                !.inTry = Action \in AutonomousActions /\ rows[call.id] # None,
                !.status = IF Skipped THEN "skipped" ELSE "executed"]
          BY <3>1 DEF Act
        <4> QED
          BY <2>1, <2>4, <4>1 DEF Call
      <3>2. CASE Record
        <4>1. call' = [call EXCEPT !.acts = NextActs, !.step = "act"]
          BY <3>2 DEF Record
        <4> QED
          BY <2>1, <2>4, <4>1 DEF Call
      <3> QED
        BY <2>7, <3>1, <3>2
    <2>8. CASE Imap \/ ImapFails \/ RemoveRow \/ RemoveRowFails \/ RecordRaises
      <3>1. PICK step :
              /\ step # "none"
              /\ \/ call' = [call EXCEPT !.step = step]
                 \/ call' = [call EXCEPT !.step = step, !.status = "failed"]
                 \/ call' = [call EXCEPT !.status = "failed"]
        BY <2>8 DEF Imap, ImapFails, RemoveRow, RemoveRowFails, RecordRaises
      <3> QED
        BY <1>4, <2>1, <2>4, <3>1 DEF Call
    <2>9. ASSUME NEW i, NEW found, NEW part, NEW c, NEW recs,
                 \/ Fetch(found) \/ Upsert \/ ReadMessage(i) \/ CreateBatch(part) \/ CreateFails
                 \/ SendBatch \/ SendRaises
                 \/ Expunge(i) \/ ArchiveRequest(i) \/ Renumber \/ Tick \/ UNCHANGED vars
                 \/ Callback(c, recs)
          PROVE  UNCHANGED call
      BY <2>1, <2>9 DEF Fetch, Upsert, ReadMessage, CreateBatch, CreateFails, SendBatch,
                        SendRaises, Expunge,
                  ArchiveRequest, Renumber, Tick, vars, Callback
    <2>10. CASE UNCHANGED call
      BY <1>4, <2>4, <2>10
    <2> QED
      BY <2>2, <2>3, <2>5, <2>6, <2>7, <2>8, <2>9, <2>10 DEF Next, Worker, Handler, World
  <1> QED
    BY <1>1, <1>3, <1>4 DEF Settled

LEMMA TaggedStep == ArchiveLast /\ AutomationInv /\ Ordered /\ Tagged /\ [Next]_vars => Tagged'
  <1> SUFFICES ASSUME ArchiveLast, AutomationInv, Ordered, Tagged, [Next]_vars PROVE Tagged'
    OBVIOUS
  <1> USE DEF serverVars, classifyVars, storeVars, cutVars
  \* the request a call acts on is settled only if it was cut off before
  <1>1. ASSUME call.step \in Acting
        PROVE  /\ call # NoCall /\ call \in Call /\ <<call.batch, call.id>> \in Requests
               /\ call.batch \in 1..MaxBatches /\ call.id \in Ids
               /\ Settled(call.batch, call.id) => <<call.batch, call.id>> \in interrupted
    <2>1. /\ call # NoCall /\ call \in Call /\ call.id \in Ids /\ call.batch \in 1..MaxBatches
      BY <1>1, CallFacts, AnsweringFacts DEF Acting
    <2>2. call.id \in Named
      BY <2>1, AutomationAssumption DEF Named
    <2>3. StatusOf(<<call.batch, call.id>>) # "completed"
      BY <2>1, <2>2 DEF AutomationInv, CallInv, StatusOf
    <2>4. call.id \notin call.done
      BY <1>1, <2>1 DEF Ordered, Acting
    <2> QED
      BY <2>1, <2>3, <2>4 DEF Settled, Requests
  <1>2. interrupted \subseteq interrupted'
    BY DEF Next, Worker, Handler, World, vars, Fetch, Upsert, ReadMessage, CreateBatch,
           CreateFails,
           SendBatch, SendRaises, Callback, Decide, ItemDone, Act, Imap, ImapFails, RemoveRow, RemoveRowFails,
           Record, RecordRaises, Complete, CallFails, Expunge, ArchiveRequest, Renumber, Tick, Crash
  \* a step that does not touch the server, and keeps or ends the turn of the request
  <1>3. ASSUME UNCHANGED <<records, effects>>,
               \A b, id : call.step \in Acting /\ b = call.batch /\ id = call.id => Settled(b, id)'
        PROVE  Tagged'
    <2>1. \A b, id : Settled(b, id) => Settled(b, id)'
      BY SettledStays
    <2>2. NoArchiveAfterFailedTag'
      BY <1>2, <1>3 DEF Tagged, NoArchiveAfterFailedTag
    <2>3. ASSUME NEW e \in records, FailedTag(e)
          PROVE  Settled(e.batch, e.id)'
      <3>1. \/ Settled(e.batch, e.id)
            \/ call.step \in Acting /\ e.batch = call.batch /\ e.id = call.id
        BY <2>3 DEF Tagged, Acting
      <3> QED
        BY <1>3, <2>1, <3>1
    <2>4. ASSUME NEW b \in 1..MaxBatches, NEW id \in Ids, ArchiveDone(<<b, id>>)
          PROVE  Settled(b, id)'
      <3>1. Settled(b, id) \/ (call.step \in Acting /\ b = call.batch /\ id = call.id)
        BY <2>4 DEF Tagged
      <3> QED
        BY <1>3, <2>1, <3>1
    <2> QED
      BY <1>3, <2>2, <2>3, <2>4 DEF Tagged, FailedTag, ArchiveDone
  <1>4. ASSUME NEW b, NEW recs, Callback(b, recs) \/ Decide \/ Complete
        PROVE  Tagged'
    <2>1. UNCHANGED <<records, effects>> /\ call.step \notin Acting
      BY <1>4 DEF Callback, Decide, Complete, NoCall, Acting
    <2> QED
      BY <1>3, <2>1
  <1>5. CASE CallFails \/ Crash
    <2>1. UNCHANGED <<records, effects>> /\ interrupted' = interrupted \cup Answering
      BY <1>5 DEF CallFails, Crash
    <2>2. call.step \in Acting => <<call.batch, call.id>> \in Answering
      BY <1>1, AutomationAssumption DEF Answering
    <2> QED
      BY <1>3, <2>1, <2>2 DEF Settled
  <1>6. CASE ItemDone
    <2>1. /\ call.step = "act" /\ UNCHANGED <<records, effects>>
          /\ call' = [call EXCEPT !.done = @ \cup {call.id},
                                  !.step = IF call.recs = <<>> THEN "complete" ELSE "item"]
      BY <1>6 DEF ItemDone
    <2>2. call'.batch = call.batch /\ call.id \in call'.done /\ call'.step # "none"
      BY <1>1, <2>1 DEF Acting, Call
    <2> QED
      BY <1>3, <2>1, <2>2 DEF Settled
  \* a step that tries an action
  <1>7. ASSUME call.step \in Acting, call.acts # <<>>,
               call'.batch = call.batch, call'.id = call.id, call'.acts = call.acts,
               call'.step \in {"imap", "remove", "record"},
               call.step \in {"remove", "record"} => call'.step \in {"remove", "record"},
               \A b \in 1..MaxBatches, id \in Ids : ArchiveDone(<<b, id>>)' =>
                 \/ ArchiveDone(<<b, id>>)
                 \/ /\ b = call.batch /\ id = call.id /\ Action = "archive"
                    /\ call'.step \in {"remove", "record"},
               \A e \in records' : e \in records \/ (e = Execution /\ call.status # "failed")
        PROVE  Tagged'
    <2>1. \A b, id : Settled(b, id) => Settled(b, id)'
      BY SettledStays
    <2>2. ASSUME NEW e \in records'
          PROVE  <<e.batch, e.id>> \in Requests /\ (FailedTag(e) => e \in records)
      <3>1. CASE e \in records
        BY <3>1 DEF Tagged
      <3>2. CASE e = Execution /\ call.status # "failed"
        BY <1>1, <1>7, <3>2 DEF Execution, FailedTag
      <3> QED
        BY <1>7, <2>2, <3>1, <3>2
    <2>3. \A e \in records : FailedTag(e) => Settled(e.batch, e.id)
      BY <1>7 DEF Tagged
    <2>4. ASSUME NEW b \in 1..MaxBatches, NEW id \in Ids, ArchiveDone(<<b, id>>)'
          PROVE  \/ Settled(b, id)'
                 \/ /\ call'.step \in Acting
                    /\ b = call'.batch /\ id = call'.id
                    /\ \/ call'.step \in {"remove", "record"} /\ Action' = "archive"
                       \/ Range(call'.acts) \cap Autonomous = {}
      <3>1. Action' = Action
        BY <1>7 DEF Action
      <3> QED
        BY <1>7, <2>1, <2>4, <3>1 DEF Tagged, Acting
    <2>5. NoArchiveAfterFailedTag'
      <3>1. SUFFICES ASSUME NEW e \in records', FailedTag(e), <<e.batch, e.id>> \notin interrupted'
                     PROVE  effects'[<<e.batch, e.id>>]["archive"] = 0
        BY DEF NoArchiveAfterFailedTag, FailedTag
      <3>2. /\ e \in records /\ Settled(e.batch, e.id) /\ <<e.batch, e.id>> \in Requests
            /\ <<e.batch, e.id>> \notin interrupted
        BY <1>2, <2>2, <2>3, <3>1
      <3>3. ~ArchiveDone(<<e.batch, e.id>>)
        BY <3>1, <3>2 DEF Tagged, NoArchiveAfterFailedTag, FailedTag, ArchiveDone
      <3>4. ~(e.batch = call.batch /\ e.id = call.id)
        BY <1>1, <1>7, <3>2
      <3>5. e.batch \in 1..MaxBatches /\ e.id \in Ids
        BY <3>2 DEF Requests
      <3>6. ~ArchiveDone(<<e.batch, e.id>>)'
        BY <1>7, <3>3, <3>4, <3>5
      <3>7. effects' \in [Requests -> [Executable -> 0..2]]
        BY AutomationStep DEF AutomationInv, LogInv
      <3> QED
        BY <3>2, <3>6, <3>7 DEF ArchiveDone, Executable
    <2>6. \A e \in records' : FailedTag(e) => Settled(e.batch, e.id)'
      BY <2>1, <2>2, <2>3
    <2> QED
      BY <2>2, <2>4, <2>5, <2>6 DEF Tagged, FailedTag
  <1>8. CASE Act
    <2>1. /\ call.step = "act" /\ call.acts # <<>> /\ UNCHANGED <<records, effects>>
          /\ call' = [call EXCEPT
               !.step = IF Skipped \/ (Action = "archive" /\ call.id \in InArchive)
                          THEN "record" ELSE "imap",
               !.inTry = Action \in AutonomousActions /\ rows[call.id] # None,
               !.status = IF Skipped THEN "skipped" ELSE "executed"]
      BY <1>8 DEF Act
    <2>2. /\ call'.batch = call.batch /\ call'.id = call.id /\ call'.acts = call.acts
          /\ call'.step \in {"record", "imap"}
      BY <1>1, <2>1 DEF Acting, Call
    <2> QED
      BY <1>7, <2>1, <2>2 DEF Acting, ArchiveDone
  <1>9. CASE Imap \/ ImapFails
    <2>1. /\ call.step = "imap" /\ UNCHANGED records
          /\ OnServer \/ UNCHANGED <<server, effects, touched>>
          /\ \/ call' = [call EXCEPT !.step = IF Action = "archive" THEN "remove" ELSE "record"]
             \/ call' = [call EXCEPT !.step = "record", !.status = "failed"]
      BY <1>9 DEF Imap, ImapFails
    <2>2. call.acts # <<>>
      BY <1>1, <2>1 DEF Acting, AutomationInv, CallInv
    <2>3. /\ call'.batch = call.batch /\ call'.id = call.id /\ call'.acts = call.acts
          /\ call'.step \in {"remove", "record"}
      BY <1>1, <2>1 DEF Acting, Call
    <2>4. ASSUME NEW b \in 1..MaxBatches, NEW id \in Ids, ArchiveDone(<<b, id>>)'
          PROVE  \/ ArchiveDone(<<b, id>>)
                 \/ b = call.batch /\ id = call.id /\ Action = "archive"
      <3>1. <<b, id>> \in Requests /\ "archive" \in Executable
        BY DEF Requests, Executable
      <3> QED
        BY <2>1, <2>4, <3>1, ServerFacts DEF ArchiveDone
    <2> QED
      BY <1>7, <2>1, <2>2, <2>3, <2>4 DEF Acting
  <1>10. CASE RemoveRow \/ RemoveRowFails \/ RecordRaises
    <2>1. /\ call.step \in {"remove", "record"} /\ UNCHANGED effects
          /\ \/ UNCHANGED records
             \/ records' = records \cup {Execution} /\ call.status # "failed"
          /\ \/ call' = [call EXCEPT !.step = "record"]
             \/ call' = [call EXCEPT !.step = "record", !.status = "failed"]
             \/ call.step = "record" /\ call' = [call EXCEPT !.status = "failed"]
      BY <1>10 DEF RemoveRow, RemoveRowFails, RecordRaises, InTry
    <2>2. call.acts # <<>>
      BY <1>1, <2>1 DEF Acting, AutomationInv, CallInv
    <2>3. /\ call'.batch = call.batch /\ call'.id = call.id /\ call'.acts = call.acts
          /\ call'.step = "record"
      BY <1>1, <2>1 DEF Acting, Call
    <2> QED
      BY <1>7, <2>1, <2>2, <2>3 DEF Acting, ArchiveDone
  <1>11. CASE Record
    <2>1. /\ call.step = "record" /\ UNCHANGED <<effects, interrupted>>
          /\ records' = records \cup {Execution}
          /\ call' = [call EXCEPT !.acts = NextActs, !.step = "act"]
      BY <1>11 DEF Record
    <2>2. /\ call.acts # <<>> /\ call.acts \in Seq(STRING) /\ Action \in Range(call.acts)
          /\ ArchiveEnds(call.acts)
      BY <1>1, <2>1, CallFacts DEF Acting, AutomationInv, CallInv, Call, Ordered
    <2>3. /\ call'.batch = call.batch /\ call'.id = call.id /\ call'.acts = NextActs
          /\ call'.step = "act"
      BY <1>1, <2>1 DEF Acting, Call
    <2>4. Execution.batch = call.batch /\ Execution.id = call.id
          /\ Execution.type = Action /\ Execution.status = call.status
      BY DEF Execution
    <2>5. \A b, id : Settled(b, id) => Settled(b, id)'
      BY SettledStays
    <2>6. FailedTag(Execution) =>
            /\ Action \in Autonomous
            /\ Action # "archive"
            /\ NextActs = <<>>
      BY <2>1, <2>4 DEF FailedTag, Ordered, Acting, Autonomous, Executable, NextActs
    <2>7. FailedTag(Execution) =>
            \/ <<call.batch, call.id>> \in interrupted
            \/ ~ArchiveDone(<<call.batch, call.id>>)
      BY <1>1, <2>1, <2>2, <2>6 DEF Tagged, Acting
    <2>8. NoArchiveAfterFailedTag'
      <3>1. effects \in [Requests -> [Executable -> 0..2]]
        BY DEF AutomationInv, LogInv
      <3>2. <<call.batch, call.id>> \in Requests
        BY <1>1, <2>1 DEF Acting
      <3>3. FailedTag(Execution) =>
              \/ <<call.batch, call.id>> \in interrupted
              \/ effects[<<call.batch, call.id>>]["archive"] = 0
        BY <2>7, <3>1, <3>2 DEF ArchiveDone, Executable
      <3> QED
        BY <2>1, <2>4, <3>3 DEF Tagged, NoArchiveAfterFailedTag, FailedTag
    <2>9. ASSUME NEW e \in records'
          PROVE  /\ <<e.batch, e.id>> \in Requests
                 /\ FailedTag(e) =>
                      \/ Settled(e.batch, e.id)'
                      \/ /\ call'.step = "act" /\ call'.acts = <<>>
                         /\ e.batch = call'.batch /\ e.id = call'.id
      <3>1. CASE e \in records
        BY <2>1, <2>5, <3>1 DEF Tagged
      <3>2. CASE e = Execution
        BY <1>1, <2>1, <2>3, <2>4, <2>6, <3>2 DEF Acting
      <3> QED
        BY <2>1, <2>9, <3>1, <3>2
    <2>10. ASSUME NEW b \in 1..MaxBatches, NEW id \in Ids, ArchiveDone(<<b, id>>)'
           PROVE  \/ Settled(b, id)'
                  \/ /\ call'.step = "act"
                     /\ b = call'.batch /\ id = call'.id
                     /\ Range(call'.acts) \cap Autonomous = {}
      <3>1. ArchiveDone(<<b, id>>)
        BY <2>1, <2>10 DEF ArchiveDone
      <3>2. Range(NextActs) \subseteq Range(Tail(call.acts))
            /\ Range(Tail(call.acts)) \subseteq Range(call.acts)
        BY <2>2, HeadAndTail DEF NextActs, Range
      <3>3. Action = "archive" => Range(Tail(call.acts)) \cap Autonomous = {}
        BY <2>2, ArchiveEndsTail DEF Action
      <3> QED
        BY <2>3, <2>5, <3>1, <3>2, <3>3 DEF Tagged
    <2> QED
      BY <2>3, <2>8, <2>9, <2>10 DEF Tagged, FailedTag, Acting
  <1>12. CASE UNCHANGED <<call, records, effects>>
    <2>1. \A b, id : Settled(b, id) => Settled(b, id)'
      BY SettledStays
    <2>2. NoArchiveAfterFailedTag'
      BY <1>2, <1>12 DEF Tagged, NoArchiveAfterFailedTag
    <2> QED
      BY <1>12, <2>1, <2>2 DEF Tagged, FailedTag, ArchiveDone, Action
  <1>13. ASSUME NEW found, NEW id, NEW part,
               \/ Fetch(found) \/ Upsert \/ ReadMessage(id) \/ CreateBatch(part) \/ CreateFails
               \/ SendBatch \/ SendRaises
               \/ Expunge(id) \/ ArchiveRequest(id) \/ Renumber \/ Tick \/ UNCHANGED vars
        PROVE  UNCHANGED <<call, records, effects>>
    BY <1>13 DEF Fetch, Upsert, ReadMessage, CreateBatch, CreateFails, SendBatch, SendRaises,
                 Expunge, ArchiveRequest,
                Renumber, Tick, vars
  <1> QED
    BY <1>4, <1>5, <1>6, <1>8, <1>9, <1>10, <1>11, <1>12, <1>13
    DEF Next, Worker, Handler, World

\* When Hermes names the archive last, a message whose tagging failed stays in
\* its folder, through repeated and partial answers, unless an answer was cut
\* off and is given again: a failed action ends the loop (main.py:285-310).
THEOREM NoArchiveAfterFailedTagCorrect ==
  ASSUME ArchiveLast
  PROVE  Spec => []NoArchiveAfterFailedTag
  <1> DEFINE Inv == AutomationInv /\ Ordered /\ Tagged
  <1>1. Init => Inv
    <2>1. Init => Tagged
      BY DEF Init, NoCall, Tagged, NoArchiveAfterFailedTag, ArchiveDone, Requests, Executable
    <2> QED
      BY <2>1, InitAutomation, OrderedInit
  <1>2. Inv /\ [Next]_vars => Inv'
    BY AutomationStep, OrderedStep, TaggedStep
  <1>3. Inv => NoArchiveAfterFailedTag
    BY DEF Tagged
  <1> QED
    BY <1>1, <1>2, <1>3, PTL DEF Spec

=============================================================================
