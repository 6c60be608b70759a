-------------------------- MODULE AutomationProofs --------------------------
(***************************************************************************)
(* Automation for any messages, batches, settings and faults: its types,   *)
(* and that it implements RequestLedger, so that a request is acted on     *)
(* once.                                                                   *)
(***************************************************************************)
EXTENDS Automation, FiniteSetTheorems, TLAPS

\* maps from some message ids
ItemMaps == UNION {[D -> Item] : D \in SUBSET Ids}
BodyMaps == UNION {[D -> Bodies] : D \in SUBSET Ids}

Batch == [status : {"pending", "completed"}, expires : Nat, items : ItemMaps]

Call == [step : CallSteps, batch : Nat, pending : BodyMaps, recs : Seq(Recommendation),
         id : Ids \cup {None}, acts : Seq(STRING), inTry : BOOLEAN,
         status : {"executed", "failed", "skipped"}, done : SUBSET Ids]

WorldInv ==
  /\ server \in [Ids -> Bodies \cup {None}]
  /\ validity \in 1..MaxValidity
  /\ rows \in [Ids -> Bodies \cup {None}]
  /\ now \in 0..MaxTime
  /\ held \in [Ids -> Bodies \cup {None}]
  /\ fresh \subseteq Ids
  /\ messages \subseteq Message
  /\ faults \in 0..MaxFaults

StoreInv ==
  /\ batches \in Seq(Batch)
  /\ Len(batches) <= MaxBatches
  /\ sending \in 0..Len(batches)
  /\ asked \subseteq DOMAIN batches

\* the ids of the recommendations that are not yet decided
RecIds == {call.recs[k].id : k \in DOMAIN call.recs}

\* the ids Answering names
Named == RecIds \cup ({call.id} \ {None}) \cup call.done

\* The call holds requests that are pending and were pending when it began,
\* each of them once, and actions of the one it is at, each of them once.
CallInv ==
  call # NoCall =>
    /\ call \in Call
    /\ call.batch \in asked
    /\ Named \subseteq DOMAIN call.pending
    /\ \A id \in Named :
         /\ id \in DOMAIN batches[call.batch].items
         /\ batches[call.batch].items[id].status = "pending"
    /\ \A k, l \in DOMAIN call.recs : k # l => call.recs[k].id # call.recs[l].id
    /\ call.id \notin RecIds
    /\ IsInjective(call.acts)
    /\ call.step \in {"item", "complete"} => call.acts = <<>> /\ call.id \in call.done \cup {None}
    /\ call.step \in {"act", "imap", "remove", "record"} => call.id # None
    /\ call.step \in {"imap", "remove", "record"} => call.acts # <<>>
    /\ call.step = "imap" => Action \in Executable
    /\ call.step = "complete" => call.recs = <<>> /\ call.id # None

LogInv ==
  /\ \A d \in decisions : d.batch \in asked /\ d.id \in Ids /\ d.accepted \in BOOLEAN
  /\ \A r \in records : r.batch \in asked /\ r.status \in {"executed", "failed", "skipped"}
  /\ effects \in [Requests -> [Executable -> 0..2]]
  /\ touched \subseteq [asked : Bodies, found : Bodies]
  /\ interrupted \subseteq Requests

AutomationInv == WorldInv /\ StoreInv /\ CallInv /\ LogInv

-----------------------------------------------------------------------------
(* Facts about maps and lists. *)

LEMMA ItemMapFacts ==
  ASSUME NEW f \in ItemMaps
  PROVE  DOMAIN f \subseteq Ids /\ \A id \in DOMAIN f : f[id] \in Item
  BY DEF ItemMaps

LEMMA BodyMapFacts ==
  ASSUME NEW f \in BodyMaps
  PROVE  DOMAIN f \subseteq Ids /\ \A id \in DOMAIN f : f[id] \in Bodies
  BY DEF BodyMaps

LEMMA HeadAndTail ==
  ASSUME NEW S, NEW s \in Seq(S), s # <<>>
  PROVE  /\ Head(s) \in S /\ Tail(s) \in Seq(S)
         /\ Range(s) = {Head(s)} \cup Range(Tail(s))
         /\ \A k \in DOMAIN Tail(s) : k + 1 \in DOMAIN s /\ k + 1 # 1 /\ Tail(s)[k] = s[k + 1]
         /\ 1 \in DOMAIN s /\ Head(s) = s[1]
  <1>1. Len(s) \in Nat \ {0} /\ DOMAIN s = 1..Len(s)
    OBVIOUS
  <1>2. /\ Tail(s) \in Seq(S) /\ DOMAIN Tail(s) = 1..(Len(s) - 1)
        /\ \A k \in 1..(Len(s) - 1) : Tail(s)[k] = s[k + 1]
    BY <1>1
  <1>3. Head(s) = s[1] /\ s[1] \in S
    BY <1>1
  <1>4. Range(s) \subseteq {Head(s)} \cup Range(Tail(s))
    <2>1. SUFFICES ASSUME NEW k \in DOMAIN s PROVE s[k] \in {Head(s)} \cup Range(Tail(s))
      BY DEF Range
    <2>2. CASE k = 1
      BY <1>3, <2>2
    <2>3. CASE k # 1
      <3>1. k - 1 \in DOMAIN Tail(s) /\ Tail(s)[k - 1] = s[k]
        BY <1>1, <1>2, <2>3
      <3> QED
        BY <3>1 DEF Range
    <2> QED
      BY <2>2, <2>3
  <1>5. {Head(s)} \cup Range(Tail(s)) \subseteq Range(s)
    BY <1>1, <1>2, <1>3 DEF Range
  <1> QED
    BY <1>1, <1>2, <1>3, <1>4, <1>5

\* without its head, a list of different elements has the others, each once
LEMMA InjectiveTail ==
  ASSUME NEW S, NEW s \in Seq(S), s # <<>>, IsInjective(s)
  PROVE  IsInjective(Tail(s)) /\ Range(Tail(s)) = Range(s) \ {Head(s)}
  <1>1. Head(s) \notin Range(Tail(s))
    BY HeadAndTail DEF IsInjective, Range
  <1>2. IsInjective(Tail(s))
    <2>1. SUFFICES ASSUME NEW k \in DOMAIN Tail(s), NEW l \in DOMAIN Tail(s), Tail(s)[k] = Tail(s)[l]
                   PROVE  k = l
      BY DEF IsInjective
    <2>2. k + 1 \in DOMAIN s /\ l + 1 \in DOMAIN s /\ s[k + 1] = s[l + 1]
      BY <2>1, HeadAndTail
    <2>3. k + 1 = l + 1
      BY <2>2 DEF IsInjective
    <2>4. k \in Int /\ l \in Int
      BY HeadAndTail, Tail(s) \in Seq(S)
    <2> QED
      BY <2>3, <2>4
  <1> QED
    BY <1>1, <1>2, HeadAndTail

-----------------------------------------------------------------------------

LEMMA InitAutomation == Init => AutomationInv
  <1> SUFFICES ASSUME Init PROVE AutomationInv
    OBVIOUS
  <1>1. WorldInv
    BY AutomationAssumption DEF Init, WorldInv, NoResult
  <1>2. StoreInv
    BY AutomationAssumption DEF Init, StoreInv
  <1>3. CallInv
    BY DEF Init, CallInv
  <1>4. LogInv
    BY DEF Init, LogInv
  <1> QED
    BY <1>1, <1>2, <1>3, <1>4 DEF AutomationInv

-----------------------------------------------------------------------------
(* The server, the clock, the rows and the worker's lists. *)

LEMMA WorldStep == WorldInv /\ [Next]_vars => WorldInv'
  <1> SUFFICES ASSUME WorldInv, [Next]_vars PROVE WorldInv'
    OBVIOUS
  <1> USE AutomationAssumption
      DEF WorldInv, serverVars, classifyVars, storeVars, cutVars, Fault, vars
  <1>1. ASSUME NEW searched, Fetch(searched) \/ Upsert
        PROVE  WorldInv'
    BY <1>1 DEF Fetch, Upsert, Inserted, NoResult
  <1>2. ASSUME NEW id \in fresh, ReadMessage(id)
        PROVE  WorldInv'
    <2>1. rows[id] # None => [id |-> id, body |-> rows[id]] \in Message
      BY DEF Message
    <2>2. messages' \subseteq Message
      BY <1>2, <2>1 DEF ReadMessage
    <2> QED
      BY <1>2, <2>2 DEF ReadMessage
  <1>3. ASSUME NEW part \in SUBSET messages, CreateBatch(part)
        PROVE  WorldInv'
    BY <1>3 DEF CreateBatch
  <1>4. ASSUME CreateFails
        PROVE  WorldInv'
    BY <1>4 DEF CreateFails
  <1>5. ASSUME SendBatch \/ SendRaises
        PROVE  WorldInv'
    BY <1>5 DEF SendBatch, SendRaises
  <1>6. ASSUME NEW b \in asked, NEW recs, Callback(b, recs)
        PROVE  WorldInv'
    BY <1>6 DEF Callback
  <1>7. CASE Decide \/ ItemDone \/ Act \/ Record \/ Complete
    BY <1>7 DEF Decide, ItemDone, Act, Record, Complete
  <1>8. CASE Imap \/ ImapFails
    <2>1. server' = server \/ server' = [server EXCEPT ![call.id] = None]
      BY <1>8 DEF Imap, ImapFails, OnServer
    <2> QED
      BY <1>8, <2>1 DEF Imap, ImapFails
  <1>9. CASE RemoveRow \/ RemoveRowFails
    BY <1>9 DEF RemoveRow, RemoveRowFails
  <1>10. CASE RecordRaises \/ CallFails \/ Crash
    BY <1>10 DEF RecordRaises, CallFails, Crash, NoResult
  <1>11. ASSUME NEW id \in Ids, Expunge(id) \/ ArchiveRequest(id)
         PROVE  WorldInv'
    BY <1>11 DEF Expunge, ArchiveRequest
  <1>12. CASE Renumber
    BY <1>12 DEF Renumber, Bijection, Injection
  <1>13. CASE Tick
    BY <1>13 DEF Tick
  <1>14. CASE UNCHANGED vars
    BY <1>14
  <1> QED
    BY <1>1, <1>2, <1>3, <1>4, <1>5, <1>6, <1>7, <1>8, <1>9, <1>10, <1>11, <1>12, <1>13, <1>14
    DEF Next, Worker, Handler, World

-----------------------------------------------------------------------------
(* The batches. *)

LEMMA CreatedBatch ==
  ASSUME WorldInv, NEW part \in SUBSET messages
  PROVE  [status  |-> "pending",
          expires |-> now + Ttl,
          items   |-> [id \in {m.id : m \in part} |->
                         [body   |-> (CHOOSE m \in part : m.id = id).body,
                          status |-> "pending"]]] \in Batch
  <1> DEFINE body(id) == (CHOOSE m \in part : m.id = id).body
             D == {m.id : m \in part}
             items == [id \in D |-> [body |-> body(id), status |-> "pending"]]
  <1>1. D \subseteq Ids
    BY DEF WorldInv, Message
  <1>2. ASSUME NEW id \in D
        PROVE  body(id) \in Bodies
    <2>1. PICK m \in part : m.id = id
      OBVIOUS
    <2>2. (CHOOSE n \in part : n.id = id) \in part
      BY <2>1
    <2> QED
      BY <2>2 DEF WorldInv, Message
  <1>3. items \in [D -> Item]
    <2> HIDE DEF body
    <2> QED
      BY <1>2 DEF Item
  <1>4. items \in ItemMaps
    BY <1>1, <1>3 DEF ItemMaps
  <1>5. now + Ttl \in Nat
    BY AutomationAssumption DEF WorldInv
  <1> HIDE DEF items
  <1>6. [status |-> "pending", expires |-> now + Ttl, items |-> items] \in Batch
    BY <1>4, <1>5 DEF Batch
  <1> QED
    BY <1>6 DEF items

LEMMA CompletedBatch ==
  ASSUME StoreInv, NEW b \in DOMAIN batches, NEW ids \in SUBSET Ids, complete_batch_items(b, ids)
  PROVE  /\ batches' \in Seq(Batch) /\ Len(batches') = Len(batches)
         /\ \A c \in DOMAIN batches \ {b} : batches'[c] = batches[c]
         /\ DOMAIN batches'[b].items = DOMAIN batches[b].items
         /\ \A id \in DOMAIN batches[b].items :
              batches'[b].items[id].status =
                IF id \in ids THEN "completed" ELSE batches[b].items[id].status
  <1> DEFINE items == [id \in DOMAIN batches[b].items |->
                         [body   |-> batches[b].items[id].body,
                          status |-> IF id \in ids THEN "completed"
                                                   ELSE batches[b].items[id].status]]
             left == {id \in DOMAIN items : items[id].status = "pending"}
             new == [batches[b] EXCEPT !.items = items,
                                       !.status = IF left = {} THEN "completed" ELSE @]
  <1>1. batches[b] \in Batch /\ batches[b].items \in ItemMaps
    <2>1. batches[b] \in Batch
      BY DEF StoreInv
    <2> QED
      BY <2>1 DEF Batch
  <1>2. DOMAIN batches[b].items \subseteq Ids
        /\ \A id \in DOMAIN batches[b].items : batches[b].items[id] \in Item
    BY <1>1, ItemMapFacts
  <1>3. items \in [DOMAIN batches[b].items -> Item]
    BY <1>2 DEF Item
  <1>4. items \in ItemMaps
    BY <1>2, <1>3 DEF ItemMaps
  <1>5. /\ DOMAIN items = DOMAIN batches[b].items
        /\ \A id \in DOMAIN items :
             items[id].status = IF id \in ids THEN "completed" ELSE batches[b].items[id].status
    OBVIOUS
  <1>6. batches' = [batches EXCEPT ![b] = new]
    BY DEF complete_batch_items
  <1> HIDE DEF items, left
  <1>7. new \in Batch /\ new.items = items
    BY <1>1, <1>4 DEF Batch
  <1>8. batches \in Seq(Batch) /\ b \in 1..Len(batches)
    BY DEF StoreInv
  <1> HIDE DEF new
  <1>9. /\ batches' \in Seq(Batch) /\ Len(batches') = Len(batches)
        /\ \A c \in DOMAIN batches \ {b} : batches'[c] = batches[c]
        /\ batches'[b] = new
    BY <1>6, <1>7, <1>8
  <1> QED
    BY <1>5, <1>7, <1>9

LEMMA StoreStep == AutomationInv /\ [Next]_vars => StoreInv'
  <1> SUFFICES ASSUME AutomationInv, [Next]_vars PROVE StoreInv'
    OBVIOUS
  <1> USE DEF AutomationInv, StoreInv, serverVars, classifyVars, storeVars, cutVars, vars
  <1>1. ASSUME NEW part \in SUBSET messages, CreateBatch(part)
        PROVE  StoreInv'
    <2> DEFINE new == [status  |-> "pending",
                       expires |-> now + Ttl,
                       items   |-> [id \in {m.id : m \in part} |->
                                      [body   |-> (CHOOSE m \in part : m.id = id).body,
                                       status |-> "pending"]]]
    <2>1. new \in Batch
      BY CreatedBatch
    <2>2. batches' = Append(batches, new)
      BY <1>1 DEF CreateBatch, create_classification_batch
    <2>3. /\ Len(batches) < MaxBatches /\ sending' = Len(batches) + 1 /\ asked' = asked
      BY <1>1 DEF CreateBatch
    <2> HIDE DEF new
    <2>4. batches' \in Seq(Batch) /\ Len(batches') = Len(batches) + 1
      BY <2>1, <2>2
    <2> QED
      BY <2>3, <2>4, AutomationAssumption
  <1>2. CASE SendBatch \/ SendRaises
    BY <1>2 DEF SendBatch, SendRaises
  <1>3. CASE Complete
    <2>1. call \in Call /\ call.batch \in DOMAIN batches /\ call.done \in SUBSET Ids
      BY <1>3 DEF Complete, CallInv, NoCall, Call
    <2>2. batches' \in Seq(Batch) /\ Len(batches') = Len(batches)
      BY <1>3, <2>1, CompletedBatch DEF Complete
    <2>3. sending' = sending /\ asked' = asked
      BY <1>3 DEF Complete
    <2> QED
      BY <2>2, <2>3
  <1>4. CASE Crash
    BY <1>4 DEF Crash
  <1>5. CASE UNCHANGED <<batches, sending, asked>>
    BY <1>5
  <1>6. ASSUME NEW found, NEW id, NEW b, NEW recs,
               \/ Fetch(found) \/ Upsert \/ ReadMessage(id) \/ CreateFails
               \/ Callback(b, recs) \/ Decide \/ ItemDone \/ Act \/ Imap \/ ImapFails
               \/ RemoveRow \/ RemoveRowFails \/ Record \/ RecordRaises \/ CallFails
               \/ Expunge(id) \/ ArchiveRequest(id) \/ Renumber \/ Tick \/ UNCHANGED vars
        PROVE  UNCHANGED <<batches, sending, asked>>
    BY <1>6 DEF Fetch, Upsert, ReadMessage, CreateFails, Callback, Decide, ItemDone, Act, Imap,
                ImapFails,
                RemoveRow, RemoveRowFails, Record, RecordRaises, CallFails,
                Expunge, ArchiveRequest, Renumber, Tick
  <1> QED
    BY <1>1, <1>2, <1>3, <1>4, <1>5, <1>6 DEF Next, Worker, Handler, World

-----------------------------------------------------------------------------
(* The call. *)

LEMMA AnswersFacts ==
  ASSUME NEW b, NEW recs \in Answers(b)
  PROVE  recs \in Seq(Recommendation)
  <1>1. Cardinality(Ids) \in Nat
    BY FS_CardinalityType, AutomationAssumption
  <1>2. PICK n \in 1..Cardinality(Ids) :
          recs \in [1..n -> {r \in Recommendation : r.id \in DOMAIN batches[b].items}]
    BY DEF Answers
  <1>3. n \in Nat /\ recs \in [1..n -> Recommendation]
    BY <1>1, <1>2
  <1> QED
    BY <1>3

\* The call is not disturbed by what leaves its batch alone.
LEMMA CallKept ==
  ASSUME AutomationInv, UNCHANGED call, asked \subseteq asked',
         \A b \in DOMAIN batches : batches'[b] = batches[b]
  PROVE  CallInv'
  <1> SUFFICES ASSUME call # NoCall PROVE CallInv'
    BY DEF CallInv
  <1>1. call.batch \in DOMAIN batches
    BY DEF AutomationInv, CallInv, StoreInv
  <1> QED
    BY <1>1 DEF AutomationInv, CallInv, Named, RecIds, Action

LEMMA CallStep == AutomationInv /\ [Next]_vars => CallInv'
  <1> SUFFICES ASSUME AutomationInv, [Next]_vars PROVE CallInv'
    OBVIOUS
  <1> USE DEF AutomationInv, serverVars, classifyVars, storeVars, cutVars
  \* what CallInv says, when there is a call
  <1>1. ASSUME call # NoCall
        PROVE  /\ call \in Call /\ call.batch \in asked
               /\ RecIds \subseteq Ids /\ call.recs \in Seq(Recommendation)
               /\ call.acts \in Seq(STRING)
    <2>1. call \in Call /\ call.batch \in asked /\ Named \subseteq DOMAIN call.pending
      BY <1>1 DEF CallInv
    <2>2. call.pending \in BodyMaps /\ call.recs \in Seq(Recommendation) /\ call.acts \in Seq(STRING)
      BY <2>1 DEF Call
    <2>3. DOMAIN call.pending \subseteq Ids
      BY <2>2, BodyMapFacts
    <2> QED
      BY <2>1, <2>2, <2>3 DEF Named
  <1>2. ASSUME NEW b \in asked, NEW recs \in Answers(b), Callback(b, recs)
        PROVE  CallInv'
    <2> DEFINE pending == [id \in Pending(b) |-> batches[b].items[id].body]
    <2>1. recs \in Seq(Recommendation) /\ b \in Nat /\ b \in DOMAIN batches
      BY AnswersFacts DEF StoreInv
    <2>2. batches[b] \in Batch
      BY <2>1 DEF StoreInv
    <2>3. /\ batches[b].items \in ItemMaps
          /\ Pending(b) \subseteq DOMAIN batches[b].items
          /\ \A id \in Pending(b) : batches[b].items[id].status = "pending"
      BY <2>2 DEF Batch, Pending
    <2>4. pending \in BodyMaps /\ DOMAIN pending = Pending(b)
      <3>1. Pending(b) \subseteq Ids /\ pending \in [Pending(b) -> Bodies]
        BY <2>3, ItemMapFacts DEF Item
      <3> QED
        BY <3>1 DEF BodyMaps
    <2>5. /\ \A k \in DOMAIN recs : recs[k].id \in Pending(b)
          /\ \A k, l \in DOMAIN recs : k # l => recs[k].id # recs[l].id
      BY <1>2 DEF Callback
    <2> HIDE DEF pending
    <2>6. /\ call' = [step |-> "item", batch |-> b, pending |-> pending, recs |-> recs,
                      id |-> None, acts |-> <<>>, inTry |-> FALSE, status |-> "executed",
                      done |-> {}]
          /\ UNCHANGED <<batches, asked>>
      BY <1>2 DEF Callback, pending
    <2>7. call' \in Call
      BY <2>1, <2>4, <2>6 DEF Call, CallSteps
    <2>8. None \notin RecIds' /\ Named' \subseteq Pending(b)
      <3>1. RecIds' \subseteq Pending(b)
        BY <2>5, <2>6 DEF RecIds
      <3>2. None \notin Pending(b)
        BY <2>3, ItemMapFacts, AutomationAssumption
      <3> QED
        BY <2>6, <3>1, <3>2 DEF Named
    <2>9. IsInjective(<<>>)
      BY DEF IsInjective
    <2> QED
      BY <2>3, <2>4, <2>5, <2>6, <2>7, <2>8, <2>9 DEF CallInv
  <1>3. CASE Decide
    <2>1. /\ call # NoCall /\ call.step = "item" /\ call.recs # <<>>
          /\ call' = [call EXCEPT !.recs = Tail(@), !.id = Head(call.recs).id, !.step = "act",
                        !.acts = IF Accepts(Head(call.recs)) /\ Execute
                                   THEN Head(call.recs).actions ELSE <<>>]
          /\ UNCHANGED <<batches, asked>>
      BY <1>3 DEF Decide, NoCall
    <2> DEFINE rec == Head(call.recs)
               acts == IF Accepts(rec) /\ Execute THEN rec.actions ELSE <<>>
    <2>2. rec \in Recommendation /\ Tail(call.recs) \in Seq(Recommendation)
      BY <1>1, <2>1, HeadAndTail
    <2>3. acts \in Seq(STRING) /\ IsInjective(acts)
      <3>1. rec.actions \in Seq(STRING) /\ IsInjective(rec.actions)
        BY <2>2, AutomationAssumption DEF Recommendation
      <3>2. IsInjective(<<>>) /\ <<>> \in Seq(STRING)
        BY DEF IsInjective
      <3> QED
        BY <3>1, <3>2
    <2>4. rec.id \in Ids /\ rec.id # None
      BY <2>2, AutomationAssumption DEF Recommendation
    <2> HIDE DEF acts
    <2>5. call' \in Call
      BY <1>1, <2>1, <2>2, <2>3, <2>4 DEF Call, CallSteps, acts
    <2>6. /\ call'.recs = Tail(call.recs) /\ call'.id = rec.id /\ call'.step = "act"
          /\ call'.acts = acts /\ call'.batch = call.batch /\ call'.pending = call.pending
          /\ call'.done = call.done
      BY <1>1, <2>1 DEF Call, acts
    <2>7. /\ rec.id \in RecIds /\ RecIds' \subseteq RecIds
          /\ rec.id \notin RecIds'
          /\ \A k, l \in DOMAIN Tail(call.recs) : k # l => Tail(call.recs)[k].id # Tail(call.recs)[l].id
      <3>1. /\ \A k \in DOMAIN Tail(call.recs) :
                 k + 1 \in DOMAIN call.recs /\ k + 1 # 1 /\ Tail(call.recs)[k] = call.recs[k + 1]
            /\ 1 \in DOMAIN call.recs /\ rec = call.recs[1]
        BY <1>1, <2>1, HeadAndTail
      <3>2. \A k, l \in DOMAIN call.recs : k # l => call.recs[k].id # call.recs[l].id
        BY <2>1 DEF CallInv
      <3>3. \A k \in DOMAIN Tail(call.recs) : k \in Int
        BY <2>2
      <3> QED
        BY <2>6, <3>1, <3>2, <3>3 DEF RecIds
    <2>8. Named' \subseteq Named
      BY <2>1, <2>6, <2>7 DEF Named
    <2> QED
      BY <2>1, <2>3, <2>4, <2>5, <2>6, <2>7, <2>8 DEF CallInv
  <1>4. ASSUME call \in Call, call' \in Call, UNCHANGED <<batches, asked>>,
               call'.recs = call.recs, call'.id = call.id, call'.batch = call.batch,
               call'.pending = call.pending, Named' \subseteq Named,
               IsInjective(call'.acts),
               call'.step \in {"item", "complete"} => call'.acts = <<>> /\ call'.id \in call'.done,
               call'.step \in {"act", "imap", "remove", "record"} => call'.id # None,
               call'.step \in {"imap", "remove", "record"} => call'.acts # <<>>,
               call'.step = "imap" => Action' \in Executable,
               call'.step = "complete" => call'.recs = <<>> /\ call'.id # None
        PROVE  CallInv'
    <2>1. call # NoCall
      BY <1>4 DEF Call, NoCall, CallSteps
    <2>2. RecIds' = RecIds
      BY <1>4 DEF RecIds
    <2> QED
      BY <1>4, <2>1, <2>2 DEF CallInv
  <1>5. CASE ItemDone
    <2>1. /\ call.step = "act" /\ call.acts = <<>> /\ call # NoCall
          /\ UNCHANGED <<batches, asked>>
          /\ call' = [call EXCEPT !.done = @ \cup {call.id},
                                  !.step = IF call.recs = <<>> THEN "complete" ELSE "item"]
      BY <1>5 DEF ItemDone, NoCall
    <2>2. call \in Call /\ call.id \in Ids /\ call.id # None
      BY <1>1, <2>1 DEF Call, CallInv
    <2>3. /\ call' \in Call
          /\ call'.recs = call.recs /\ call'.id = call.id /\ call'.batch = call.batch
          /\ call'.pending = call.pending /\ call'.acts = call.acts
          /\ call'.done = call.done \cup {call.id}
          /\ call'.step = IF call.recs = <<>> THEN "complete" ELSE "item"
      BY <2>1, <2>2 DEF Call, CallSteps
    <2>4. Named' \subseteq Named
      BY <2>2, <2>3 DEF Named, RecIds
    <2>5. IsInjective(call.acts)
      BY <2>1 DEF CallInv
    <2> QED
      BY <1>4, <2>1, <2>2, <2>3, <2>4, <2>5
  \* a step that goes on with the actions of the same recommendation
  <1>6. ASSUME call.step \in {"act", "imap", "remove", "record"}, UNCHANGED <<batches, asked>>,
               NEW step \in {"act", "imap", "remove", "record"},
               NEW acts \in {call.acts, Tail(call.acts), <<>>},
               NEW inTry \in BOOLEAN, NEW status \in {"executed", "failed", "skipped"},
               call' = [call EXCEPT !.step = step, !.acts = acts, !.inTry = inTry,
                                    !.status = status],
               acts = Tail(call.acts) => call.acts # <<>>,
               step # "act" => acts # <<>>,
               step = "imap" => Head(acts) \in Executable
        PROVE  CallInv'
    <2>1. call # NoCall
      BY <1>6 DEF NoCall
    <2>2. call \in Call /\ IsInjective(call.acts) /\ call.acts \in Seq(STRING) /\ call.id # None
      BY <1>1, <1>6, <2>1 DEF CallInv
    <2>3. acts \in Seq(STRING) /\ IsInjective(acts)
      <3>1. CASE acts = Tail(call.acts)
        BY <1>6, <2>2, <3>1, InjectiveTail, HeadAndTail
      <3>2. CASE acts = <<>>
        BY <3>2 DEF IsInjective
      <3> QED
        BY <1>6, <2>2, <3>1, <3>2
    <2>4. /\ call' \in Call
          /\ call'.recs = call.recs /\ call'.id = call.id /\ call'.batch = call.batch
          /\ call'.pending = call.pending /\ call'.acts = acts /\ call'.done = call.done
          /\ call'.step = step
      BY <1>6, <2>2, <2>3 DEF Call, CallSteps
    <2>5. Named' = Named
      BY <2>4 DEF Named, RecIds
    <2> QED
      BY <1>4, <1>6, <2>2, <2>3, <2>4, <2>5 DEF Action
  <1>7. CASE Act
    <2> DEFINE step == IF Skipped \/ (Action = "archive" /\ call.id \in InArchive) THEN "record"
                                                                                   ELSE "imap"
    <2>1. /\ call.step = "act" /\ call.acts # <<>> /\ UNCHANGED <<batches, asked>>
          /\ call' = [call EXCEPT !.step = step,
                                  !.inTry = Action \in AutonomousActions /\ rows[call.id] # None,
                                  !.status = IF Skipped THEN "skipped" ELSE "executed"]
      BY <1>7 DEF Act
    <2>2. step = "imap" => Action \in Executable
      BY DEF Skipped
    <2>3. step \in {"imap", "record"}
      OBVIOUS
    <2> DEFINE inTry == Action \in AutonomousActions /\ rows[call.id] # None
               status == IF Skipped THEN "skipped" ELSE "executed"
    <2>4. inTry \in BOOLEAN /\ status \in {"executed", "failed", "skipped"}
      OBVIOUS
    <2>5. call \in Call
      BY <1>1, <2>1 DEF NoCall
    <2> HIDE DEF step, inTry, status
    <2>6. call' = [call EXCEPT !.step = step, !.acts = call.acts, !.inTry = inTry, !.status = status]
      BY <2>1, <2>5 DEF step, inTry, status, Call
    <2> QED
      BY <1>6, <2>1, <2>2, <2>3, <2>4, <2>6 DEF Action
  <1>8. CASE Imap \/ ImapFails \/ RemoveRow \/ RemoveRowFails \/ Record \/ RecordRaises
    <2>1. /\ call.step \in {"imap", "remove", "record"} /\ UNCHANGED <<batches, asked>>
          /\ call # NoCall
      BY <1>8 DEF Imap, ImapFails, RemoveRow, RemoveRowFails, Record, RecordRaises, NoCall
    <2>2. /\ call \in Call /\ call.acts # <<>> /\ call.inTry \in BOOLEAN
          /\ call.status \in {"executed", "failed", "skipped"}
      <3>1. call \in Call
        BY <1>1, <2>1
      <3> QED
        BY <2>1, <3>1 DEF CallInv, Call
    <2>3. \/ \E step \in {"remove", "record"}, status \in {call.status, "failed"} :
               call' = [call EXCEPT !.step = step, !.acts = call.acts, !.inTry = call.inTry,
                                    !.status = status]
          \/ \E acts \in {<<>>, Tail(call.acts)} :
               call' = [call EXCEPT !.step = "act", !.acts = acts, !.inTry = call.inTry,
                                    !.status = call.status]
      <3>1. CASE Imap
        <4>1. \/ call' = [call EXCEPT !.step = "remove"]
              \/ call' = [call EXCEPT !.step = "record"]
          BY <3>1 DEF Imap
        <4> QED
          BY <2>2, <4>1 DEF Call
      <3>2. CASE ImapFails
        <4>1. call' = [call EXCEPT !.step = "record", !.status = "failed"]
          BY <3>2 DEF ImapFails
        <4> QED
          BY <2>2, <4>1 DEF Call
      <3>3. CASE RemoveRow \/ RemoveRowFails
        <4>1. \/ call' = [call EXCEPT !.step = "record"]
              \/ call' = [call EXCEPT !.step = "record", !.status = "failed"]
          BY <3>3 DEF RemoveRow, RemoveRowFails
        <4> QED
          BY <2>2, <4>1 DEF Call
      <3>4. CASE Record
        BY <2>2, <3>4 DEF Record, NextActs, Call
      <3>5. CASE RecordRaises
        BY <2>2, <3>5 DEF RecordRaises, Call
      <3> QED
        BY <1>8, <3>1, <3>2, <3>3, <3>4, <3>5
    <2>4. ASSUME NEW step \in {"remove", "record"}, NEW status \in {call.status, "failed"},
                 call' = [call EXCEPT !.step = step, !.acts = call.acts, !.inTry = call.inTry,
                                      !.status = status]
          PROVE  CallInv'
      BY <1>6, <2>1, <2>2, <2>4
    <2>5. ASSUME NEW acts \in {<<>>, Tail(call.acts)},
                 call' = [call EXCEPT !.step = "act", !.acts = acts, !.inTry = call.inTry,
                                      !.status = call.status]
          PROVE  CallInv'
      BY <1>6, <2>1, <2>2, <2>5
    <2> QED
      BY <2>3, <2>4, <2>5
  <1>9. CASE Complete \/ CallFails \/ Crash
    BY <1>9 DEF Complete, CallFails, Crash, CallInv
  <1>10. ASSUME NEW part \in SUBSET messages, CreateBatch(part)
         PROVE  CallInv'
    <2>1. /\ UNCHANGED <<call, asked>>
          /\ \E new : batches' = Append(batches, new)
      BY <1>10 DEF CreateBatch, create_classification_batch
    <2>2. \A b \in DOMAIN batches : batches'[b] = batches[b]
      BY <2>1 DEF StoreInv
    <2> QED
      BY <2>1, <2>2, CallKept
  <1>11. CASE SendBatch \/ SendRaises
    BY <1>11, CallKept DEF SendBatch, SendRaises
  <1>12. CASE UNCHANGED <<call, batches, asked>>
    BY <1>12, CallKept
  <1>13. ASSUME NEW found, NEW id,
                \/ Fetch(found) \/ Upsert \/ ReadMessage(id) \/ CreateFails
                \/ Expunge(id) \/ ArchiveRequest(id) \/ Renumber \/ Tick \/ UNCHANGED vars
         PROVE  UNCHANGED <<call, batches, asked>>
    BY <1>13 DEF Fetch, Upsert, ReadMessage, CreateFails, Expunge, ArchiveRequest, Renumber, Tick,
                 vars
  <1> QED
    BY <1>2, <1>3, <1>5, <1>7, <1>8, <1>9, <1>10, <1>11, <1>12, <1>13
    DEF Next, Worker, Handler, World

-----------------------------------------------------------------------------
(* The records, and what was done on the server. *)

LEMMA AnsweringFacts ==
  ASSUME AutomationInv, call # NoCall
  PROVE  /\ call \in Call /\ call.batch \in asked /\ call.batch \in 1..MaxBatches
         /\ Named \subseteq Ids
         /\ Answering = {call.batch} \X Named
         /\ Answering \subseteq Requests
  <1>1. /\ call \in Call /\ call.batch \in asked /\ Named \subseteq DOMAIN call.pending
    BY DEF AutomationInv, CallInv
  <1>2. call.batch \in 1..MaxBatches
    BY <1>1, AutomationAssumption DEF AutomationInv, StoreInv
  <1>3. Named \subseteq Ids
    <2>1. call.pending \in BodyMaps
      BY <1>1 DEF Call
    <2> QED
      BY <1>1, <2>1, BodyMapFacts
  <1>4. Answering = {call.batch} \X Named
    BY DEF Answering, Named, RecIds
  <1> QED
    BY <1>1, <1>2, <1>3, <1>4 DEF Requests

LEMMA LogStep == AutomationInv /\ [Next]_vars => LogInv'
  <1> SUFFICES ASSUME AutomationInv, [Next]_vars PROVE LogInv'
    OBVIOUS
  <1> USE DEF serverVars, classifyVars, storeVars, cutVars
  <1>1. CASE Decide
    <2>1. call # NoCall /\ call.recs # <<>>
      BY <1>1 DEF Decide, NoCall
    <2>2. call.batch \in asked /\ Head(call.recs).id \in Ids
      <3>1. call.recs \in Seq(Recommendation)
        BY <2>1, AnsweringFacts DEF Call
      <3>2. Head(call.recs) \in Recommendation
        BY <2>1, <3>1, HeadAndTail
      <3> QED
        BY <2>1, <3>2, AnsweringFacts DEF Recommendation
    <2>3. Accepts(Head(call.recs)) \in BOOLEAN
      BY DEF Accepts
    <2> QED
      BY <1>1, <2>2, <2>3 DEF Decide, AutomationInv, LogInv
  <1>2. CASE Record \/ RecordRaises
    <2>1. call # NoCall /\ records' \subseteq records \cup {Execution}
      BY <1>2 DEF Record, RecordRaises, NoCall
    <2>2. Execution.batch \in asked /\ Execution.status \in {"executed", "failed", "skipped"}
      BY <2>1, AnsweringFacts DEF Execution, Call
    <2>3. UNCHANGED <<decisions, asked, effects, touched, interrupted>>
      BY <1>2 DEF Record, RecordRaises
    <2> QED
      BY <2>1, <2>2, <2>3 DEF AutomationInv, LogInv
  <1>3. CASE Imap \/ ImapFails
    <2>1. /\ call.step = "imap" /\ call # NoCall
          /\ UNCHANGED <<decisions, records, asked, interrupted>>
          /\ OnServer \/ UNCHANGED <<effects, touched>>
      BY <1>3 DEF Imap, ImapFails, NoCall
    <2>2. call.id \in Ids /\ call.pending[call.id] \in Bodies
      <3>1. /\ call \in Call /\ call.id # None /\ Named \subseteq DOMAIN call.pending
        BY <2>1 DEF AutomationInv, CallInv
      <3>2. call.pending \in BodyMaps /\ call.id \in DOMAIN call.pending /\ call.id \in Ids
        BY <3>1 DEF Call, Named
      <3> QED
        BY <3>2, BodyMapFacts
    <2>3. CASE UNCHANGED <<effects, touched>>
      BY <2>1, <2>3 DEF AutomationInv, LogInv
    <2>4. CASE OnServer /\ server[call.id] # None
      <3>1. server[call.id] \in Bodies
        BY <2>2, <2>4 DEF AutomationInv, WorldInv
      <3>2. [asked |-> call.pending[call.id], found |-> server[call.id]]
              \in [asked : Bodies, found : Bodies]
        BY <2>2, <3>1
      <3>3. touched' \subseteq [asked : Bodies, found : Bodies]
        BY <2>4, <3>2 DEF OnServer, AutomationInv, LogInv
      <3>4. effects' = [effects EXCEPT ![<<call.batch, call.id>>][Action] = IF @ < 2 THEN @ + 1 ELSE 2]
        BY <2>4 DEF OnServer
      <3>5. effects' \in [Requests -> [Executable -> 0..2]]
        <4>1. <<call.batch, call.id>> \in Requests /\ Action \in Executable
          BY <2>1, <2>2, AnsweringFacts DEF Requests, AutomationInv, CallInv
        <4>2. effects \in [Requests -> [Executable -> 0..2]]
          BY DEF AutomationInv, LogInv
        <4> QED
          BY <3>4, <4>1, <4>2
      <3> QED
        BY <2>1, <3>3, <3>5 DEF AutomationInv, LogInv
    <2> QED
      BY <2>1, <2>3, <2>4 DEF OnServer
  <1>4. CASE CallFails \/ Crash
    <2>1. /\ interrupted' = interrupted \cup Answering
          /\ UNCHANGED <<decisions, records, asked, effects, touched>>
      BY <1>4 DEF CallFails, Crash
    <2>2. Answering \subseteq Requests
      <3>1. CASE call = NoCall
        BY <3>1 DEF Answering
      <3>2. CASE call # NoCall
        BY <3>2, AnsweringFacts
      <3> QED
        BY <3>1, <3>2
    <2> QED
      BY <2>1, <2>2 DEF AutomationInv, LogInv
  <1>5. CASE SendBatch \/ SendRaises
    BY <1>5 DEF SendBatch, SendRaises, AutomationInv, LogInv
  <1>6. CASE UNCHANGED <<decisions, records, asked, effects, touched, interrupted>>
    BY <1>6 DEF AutomationInv, LogInv
  <1>7. ASSUME NEW found, NEW id, NEW part, NEW b, NEW recs,
               \/ Fetch(found) \/ Upsert \/ ReadMessage(id) \/ CreateBatch(part) \/ CreateFails
               \/ Callback(b, recs) \/ ItemDone \/ Act \/ RemoveRow \/ RemoveRowFails \/ Complete
               \/ Expunge(id) \/ ArchiveRequest(id) \/ Renumber \/ Tick \/ UNCHANGED vars
        PROVE  UNCHANGED <<decisions, records, asked, effects, touched, interrupted>>
    BY <1>7 DEF Fetch, Upsert, ReadMessage, CreateBatch, CreateFails, Callback, ItemDone, Act,
                RemoveRow,
                RemoveRowFails, Complete, Expunge, ArchiveRequest, Renumber, Tick, vars
  <1> QED
    BY <1>1, <1>2, <1>3, <1>4, <1>5, <1>6, <1>7 DEF Next, Worker, Handler, World

LEMMA AutomationStep == AutomationInv /\ [Next]_vars => AutomationInv'
  BY WorldStep, StoreStep, CallStep, LogStep DEF AutomationInv

LEMMA AutomationCorrect == Spec => []AutomationInv
  BY InitAutomation, AutomationStep, PTL DEF Spec

LEMMA InvGivesTypes == AutomationInv => TypeOK
  <1> SUFFICES ASSUME AutomationInv PROVE TypeOK
    OBVIOUS
  <1>1. ASSUME NEW b \in DOMAIN batches
        PROVE  /\ batches[b].status \in {"pending", "completed"}
               /\ batches[b].expires \in Nat
               /\ DOMAIN batches[b].items \subseteq Ids
               /\ \A id \in DOMAIN batches[b].items : batches[b].items[id] \in Item
    <2>1. batches[b] \in Batch
      BY DEF AutomationInv, StoreInv
    <2>2. /\ batches[b].status \in {"pending", "completed"} /\ batches[b].expires \in Nat
          /\ batches[b].items \in ItemMaps
      BY <2>1 DEF Batch
    <2> QED
      BY <2>2, ItemMapFacts
  <1>2. call.step \in CallSteps \cup {"none"}
    BY AnsweringFacts DEF NoCall, Call
  <1>3. ASSUME call.step # "none"
        PROVE  /\ call.batch \in asked
               /\ call.done \subseteq DOMAIN call.pending
               /\ \A k \in DOMAIN call.recs : call.recs[k] \in Recommendation
    <2>1. call # NoCall
      BY <1>3 DEF NoCall
    <2>2. call \in Call /\ call.batch \in asked /\ Named \subseteq DOMAIN call.pending
      BY <2>1 DEF AutomationInv, CallInv
    <2>3. call.recs \in Seq(Recommendation)
      BY <2>2 DEF Call
    <2> QED
      BY <2>2, <2>3 DEF Named
  <1> QED
    BY <1>1, <1>2, <1>3 DEF AutomationInv, WorldInv, StoreInv, LogInv, TypeOK

\* Type correctness of Automation, for any messages, batches, lists of actions
\* and faults.
THEOREM AutomationTypes == Spec => []TypeOK
  BY AutomationCorrect, InvGivesTypes, PTL

-----------------------------------------------------------------------------
(* Every step is one of the ledger's, or leaves it alone. *)

\* what the ledger's variables stand for
Stati == [r \in Requests |-> StatusOf(r)]
Allowed == [r \in Requests |-> IF r \in Answering THEN Left(r[2]) ELSE {}]

LEMMA LeftFacts ==
  ASSUME NEW id
  PROVE  /\ Left(id) \subseteq Executable
         /\ \A a \in Executable : a \in Left(id) <=>
              \/ \E k \in DOMAIN call.recs : call.recs[k].id = id /\ a \in Range(call.recs[k].actions)
              \/ id = call.id /\ a \in Current
         /\ Left(id)' \subseteq Executable
         /\ \A a \in Executable : a \in Left(id)' <=>
              \/ \E k \in DOMAIN call'.recs : call'.recs[k].id = id /\ a \in Range(call'.recs[k].actions)
              \/ id = call'.id /\ a \in Current'
  BY DEF Left

LEMMA LedgerUnchanged ==
  ASSUME UNCHANGED <<batches, call, effects, interrupted>>
  PROVE  UNCHANGED Ledger!vars
  <1>1. Stati' = Stati
    BY DEF Stati, StatusOf
  <1>2. Answering' = Answering
    BY DEF Answering
  <1>3. \A id : Left(id)' = Left(id)
    BY DEF Left, Current
  <1>4. Allowed' = Allowed
    BY <1>2, <1>3 DEF Allowed
  <1> QED
    BY <1>1, <1>2, <1>4 DEF Ledger!vars, Stati, Allowed

LEMMA LedgerDrops ==
  ASSUME UNCHANGED <<batches, effects, interrupted, Answering>>,
         \A r \in Answering : Left(r[2])' \subseteq Left(r[2])
  PROVE  Ledger!Drop
  <1>1. Stati' = Stati
    BY DEF Stati, StatusOf
  <1>2. Allowed' \in [Requests -> SUBSET Executable]
    BY LeftFacts DEF Allowed
  <1>3. \A r \in Requests : Allowed'[r] \subseteq Allowed[r]
    BY DEF Allowed
  <1> QED
    BY <1>1, <1>2, <1>3 DEF Ledger!Drop, Stati, Allowed

LEMMA LedgerAsks ==
  ASSUME AutomationInv, NEW part \in SUBSET messages, CreateBatch(part)
  PROVE  \E new \in SUBSET Requests : Ledger!Ask(new)
  <1> DEFINE b == Len(batches) + 1
             new == {r \in Requests : r[1] = b /\ r[2] \in {m.id : m \in part}}
  <1>1. batches \in Seq(Batch) /\ Len(batches) < MaxBatches
    BY DEF AutomationInv, StoreInv, CreateBatch
  <1>2. \E expires : batches' = Append(batches,
          [status |-> "pending", expires |-> expires,
           items |-> [id \in {m.id : m \in part} |->
                        [body |-> (CHOOSE m \in part : m.id = id).body, status |-> "pending"]]])
    BY DEF CreateBatch, create_classification_batch
  <1>3. /\ DOMAIN batches' = DOMAIN batches \cup {b} /\ b \notin DOMAIN batches
        /\ \A c \in DOMAIN batches : batches'[c] = batches[c]
        /\ DOMAIN batches'[b].items = {m.id : m \in part}
        /\ \A id \in DOMAIN batches'[b].items : batches'[b].items[id].status = "pending"
    BY <1>1, <1>2
  <1> HIDE DEF b
  <1>4. \A r \in new : StatusOf(r) = "unasked" /\ StatusOf(r)' = "pending"
    BY <1>3 DEF StatusOf
  <1>5. \A r \in Requests \ new : StatusOf(r)' = StatusOf(r)
    BY <1>3 DEF StatusOf
  <1>6. Answering' = Answering /\ Allowed' = Allowed /\ UNCHANGED <<effects, interrupted>>
    <2>1. UNCHANGED <<call, effects, interrupted>>
      BY DEF CreateBatch, cutVars
    <2>2. Answering' = Answering /\ \A id : Left(id)' = Left(id)
      BY <2>1 DEF Answering, Left, Current
    <2> QED
      BY <2>1, <2>2 DEF Allowed
  <1> HIDE DEF new
  <1>7. \A r \in new : Stati[r] = "unasked"
    BY <1>4 DEF Stati, new
  <1>8. Stati' = [r \in Requests |-> IF r \in new THEN "pending" ELSE Stati[r]]
    BY <1>4, <1>5 DEF Stati
  <1>9. Ledger!Ask(new)
    BY <1>6, <1>7, <1>8 DEF Ledger!Ask, Ledger!SetStatus, Stati, Allowed
  <1> QED
    BY <1>9 DEF new

LEMMA LedgerAnswers ==
  ASSUME AutomationInv, AutomationInv', NEW b \in asked, NEW recs, Callback(b, recs)
  PROVE  \E new \in SUBSET Requests : Ledger!Answer(new)
  <1>1. /\ call = NoCall /\ UNCHANGED <<batches, effects, interrupted>>
        /\ \A k \in DOMAIN recs : recs[k].id \in Pending(b)
        /\ call' = [step |-> "item", batch |-> b,
                    pending |-> [id \in Pending(b) |-> batches[b].items[id].body],
                    recs |-> recs, id |-> None, acts |-> <<>>, inTry |-> FALSE,
                    status |-> "executed", done |-> {}]
    BY DEF Callback, storeVars, cutVars
  <1>2. call' # NoCall /\ Answering = {}
    BY <1>1 DEF NoCall, Answering
  <1>3. Answering' = {b} \X {recs[k].id : k \in DOMAIN recs}
    BY <1>1, <1>2 DEF Answering
  <1>4. b \in DOMAIN batches /\ b \in 1..MaxBatches
    BY AutomationAssumption DEF AutomationInv, StoreInv
  <1>5. Answering' \in SUBSET Requests /\ \A r \in Answering' : StatusOf(r) = "pending"
    <2>1. batches[b] \in Batch
      BY <1>4 DEF AutomationInv, StoreInv
    <2>2. /\ Pending(b) \subseteq DOMAIN batches[b].items /\ DOMAIN batches[b].items \subseteq Ids
          /\ \A id \in Pending(b) : batches[b].items[id].status = "pending"
      BY <2>1, ItemMapFacts DEF Pending, Batch
    <2> QED
      BY <1>1, <1>3, <1>4, <2>2 DEF Requests, StatusOf
  <1>6. Stati' = Stati
    BY <1>1 DEF Stati, StatusOf
  <1>7. /\ Allowed' \in [Requests -> SUBSET Executable]
        /\ \A r \in Requests \ Answering' : Allowed'[r] = {}
    BY LeftFacts DEF Allowed
  <1>8. \A r \in Answering' : Stati[r] = "pending"
    BY <1>5 DEF Stati
  <1>9. PICK new \in SUBSET Requests : new = Answering'
    BY <1>5
  <1>10. Ledger!Answer(new)
    BY <1>1, <1>2, <1>6, <1>7, <1>8, <1>9 DEF Ledger!Answer, Stati, Allowed
  <1> QED
    BY <1>10

LEMMA LedgerCutOff ==
  ASSUME CallFails \/ Crash
  PROVE  Ledger!CutOff
  <1>1. /\ call' = NoCall /\ interrupted' = interrupted \cup Answering
        /\ UNCHANGED <<batches, effects>>
    BY DEF CallFails, Crash, storeVars
  <1>2. Answering' = {}
    BY <1>1 DEF Answering
  <1>3. Stati' = Stati
    BY <1>1 DEF Stati, StatusOf
  <1>4. Allowed' = [r \in Requests |-> {}]
    BY <1>2 DEF Allowed
  <1> QED
    BY <1>1, <1>2, <1>3, <1>4 DEF Ledger!CutOff, Ledger!Nothing, Stati, Allowed

LEMMA LedgerCompletes ==
  ASSUME AutomationInv, Complete
  PROVE  Ledger!Complete
  <1>1. /\ call.step = "complete" /\ call # NoCall /\ call' = NoCall
        /\ complete_batch_items(call.batch, call.done) /\ UNCHANGED <<effects, interrupted>>
    BY DEF Complete, NoCall, cutVars
  <1>2. /\ call.recs = <<>> /\ call.acts = <<>> /\ call.id \in call.done
        /\ call \in Call /\ call.batch \in DOMAIN batches /\ call.batch \in 1..MaxBatches
    BY <1>1, AnsweringFacts DEF AutomationInv, CallInv, StoreInv
  <1>3. call.done \in SUBSET Ids /\ None \notin call.done
    BY <1>2, AutomationAssumption DEF Call
  <1>4. Answering = {call.batch} \X call.done
    <2>1. RecIds = {}
      BY <1>2 DEF RecIds
    <2>2. Named = call.done
      BY <1>2, <2>1 DEF Named
    <2> QED
      BY <1>1, <2>2, AnsweringFacts
  <1>5. Answering # {}
    <2>1. <<call.batch, call.id>> \in Answering
      BY <1>2, <1>4
    <2> QED
      BY <2>1
  <1>6. Allowed = [r \in Requests |-> {}]
    <2>1. Current = {}
      BY <1>1, <1>2 DEF Current, Range
    <2>2. \A id : Left(id) = {}
      BY <1>2, <2>1, LeftFacts
    <2> QED
      BY <2>2 DEF Allowed
  <1>7. Answering' = {}
    BY <1>1 DEF Answering
  <1>8. Allowed' = [r \in Requests |-> {}]
    BY <1>7 DEF Allowed
  <1>9. ASSUME NEW r \in Requests
        PROVE  StatusOf(r)' = IF r \in Answering THEN "completed" ELSE StatusOf(r)
    <2>1. /\ DOMAIN batches' = DOMAIN batches
          /\ \A c \in DOMAIN batches \ {call.batch} : batches'[c] = batches[c]
          /\ DOMAIN batches'[call.batch].items = DOMAIN batches[call.batch].items
          /\ \A id \in DOMAIN batches[call.batch].items :
               batches'[call.batch].items[id].status =
                 IF id \in call.done THEN "completed" ELSE batches[call.batch].items[id].status
      <3>1. batches \in Seq(Batch) /\ StoreInv
        BY DEF AutomationInv, StoreInv
      <3>2. /\ batches' \in Seq(Batch) /\ Len(batches') = Len(batches)
            /\ \A c \in DOMAIN batches \ {call.batch} : batches'[c] = batches[c]
            /\ DOMAIN batches'[call.batch].items = DOMAIN batches[call.batch].items
            /\ \A id \in DOMAIN batches[call.batch].items :
                 batches'[call.batch].items[id].status =
                   IF id \in call.done THEN "completed" ELSE batches[call.batch].items[id].status
        BY <1>1, <1>2, <1>3, <3>1, CompletedBatch
      <3> QED
        BY <3>1, <3>2
    <2>2. \A id \in call.done : id \in DOMAIN batches[call.batch].items
      BY <1>1 DEF AutomationInv, CallInv, Named
    <2>3. r \in Answering <=> r[1] = call.batch /\ r[2] \in call.done
      BY <1>4 DEF Requests
    <2> QED
      BY <1>2, <2>1, <2>2, <2>3 DEF StatusOf
  <1>10. Stati' = [r \in Requests |-> IF r \in Answering THEN "completed" ELSE Stati[r]]
    BY <1>9 DEF Stati
  <1> QED
    BY <1>1, <1>5, <1>6, <1>7, <1>8, <1>10
    DEF Ledger!Complete, Ledger!SetStatus, Ledger!Nothing, Stati, Allowed

\* the actions the current recommendation may still carry out, when the step
\* takes nothing but some of them away
LEMMA LedgerGoesOn ==
  ASSUME AutomationInv, call # NoCall, call' # NoCall,
         UNCHANGED <<batches, effects, interrupted>>,
         call'.batch = call.batch, call'.recs = call.recs, call'.id = call.id,
         call'.done \subseteq call.done \cup {call.id}, call.done \subseteq call'.done,
         call.id # None, Current' \subseteq Current
  PROVE  Ledger!Drop
  <1>1. Answering' = Answering
    BY DEF Answering
  <1>2. \A id : Left(id)' \subseteq Left(id)
    BY LeftFacts
  <1> QED
    BY <1>1, <1>2, LedgerDrops

LEMMA LedgerDecides ==
  ASSUME AutomationInv, Decide
  PROVE  Ledger!Drop
  <1> DEFINE rec == Head(call.recs)
             acts == IF Accepts(rec) /\ Execute THEN rec.actions ELSE <<>>
  <1>1. /\ call # NoCall /\ call.step = "item" /\ call.recs # <<>>
        /\ call' = [call EXCEPT !.recs = Tail(@), !.id = rec.id, !.step = "act", !.acts = acts]
        /\ UNCHANGED <<batches, effects, interrupted>>
    BY DEF Decide, NoCall, cutVars
  <1>2. /\ call \in Call /\ call.recs \in Seq(Recommendation)
        /\ call.acts = <<>> /\ call.id \in call.done \cup {None}
        /\ \A k, l \in DOMAIN call.recs : k # l => call.recs[k].id # call.recs[l].id
    BY <1>1, AnsweringFacts DEF AutomationInv, CallInv, Call
  <1>3. /\ \A k \in DOMAIN Tail(call.recs) :
             k + 1 \in DOMAIN call.recs /\ k + 1 # 1 /\ Tail(call.recs)[k] = call.recs[k + 1]
        /\ 1 \in DOMAIN call.recs /\ rec = call.recs[1] /\ rec \in Recommendation
        /\ Range(call.recs) = {rec} \cup Range(Tail(call.recs))
    BY <1>1, <1>2, HeadAndTail
  <1>4. rec.id # None
    BY <1>3, AutomationAssumption DEF Recommendation
  <1> HIDE DEF rec, acts
  <1>5. /\ call'.recs = Tail(call.recs) /\ call'.id = rec.id /\ call'.step = "act"
        /\ call'.acts = acts /\ call'.batch = call.batch /\ call'.done = call.done
        /\ call' # NoCall
    BY <1>1, <1>2 DEF Call, NoCall
  <1>6. RecIds = {rec.id} \cup RecIds'
    <2>1. RecIds = {r.id : r \in Range(call.recs)} /\ RecIds' = {r.id : r \in Range(Tail(call.recs))}
      BY <1>5 DEF RecIds, Range
    <2> QED
      BY <1>3, <2>1
  <1>7. Answering' = Answering
    <2>1. Answering = {call.batch} \X Named
      BY <1>1 DEF Answering, Named, RecIds
    <2>2. Answering' = {call.batch} \X Named'
      BY <1>5 DEF Answering, Named, RecIds
    <2>3. Named' = Named
      BY <1>2, <1>4, <1>5, <1>6 DEF Named
    <2> QED
      BY <2>1, <2>2, <2>3
  <1>8. ASSUME NEW id, NEW a \in Executable, a \in Left(id)'
        PROVE  a \in Left(id)
    <2>1. CASE \E k \in DOMAIN call'.recs : call'.recs[k].id = id /\ a \in Range(call'.recs[k].actions)
      <3>1. \E k \in DOMAIN call.recs : call.recs[k].id = id /\ a \in Range(call.recs[k].actions)
        BY <1>3, <1>5, <2>1
      <3> QED
        BY <3>1, LeftFacts
    <2>2. CASE id = call'.id /\ a \in Current'
      <3>1. a \in Range(acts)
        BY <1>5, <2>2 DEF Current
      <3>2. a \in Range(rec.actions)
        BY <3>1 DEF acts, Range
      <3>3. call.recs[1].id = id /\ a \in Range(call.recs[1].actions)
        BY <1>3, <1>5, <2>2, <3>2
      <3> QED
        BY <1>3, <3>3, LeftFacts
    <2> QED
      BY <1>8, <2>1, <2>2, LeftFacts
  <1>9. \A id : Left(id)' \subseteq Left(id)
    BY <1>8, LeftFacts
  <1> QED
    BY <1>1, <1>7, <1>9, LedgerDrops

\* an action is carried out, or the server has no such message, or it fails
\* before it did anything
LEMMA LedgerActs ==
  ASSUME AutomationInv, Imap \/ ImapFails
  PROVE  Ledger!Drop \/ \E r \in Requests, a \in Executable : Ledger!CarryOut(r, a)
  <1>1. /\ call.step = "imap" /\ call # NoCall
        /\ OnServer \/ UNCHANGED <<server, effects, touched>>
        /\ UNCHANGED <<batches, interrupted>>
    BY DEF Imap, ImapFails, NoCall, storeVars, cutVars
  <1>2. /\ call \in Call /\ call.acts # <<>> /\ IsInjective(call.acts) /\ Action \in Executable
        /\ call.id # None /\ call.id \notin RecIds /\ call.acts \in Seq(STRING)
    <2>1. /\ call \in Call /\ call.acts # <<>> /\ IsInjective(call.acts) /\ Action \in Executable
          /\ call.id # None /\ call.id \notin RecIds
      BY <1>1 DEF AutomationInv, CallInv
    <2> QED
      BY <2>1 DEF Call
  <1>3. /\ call'.step \in {"remove", "record"} /\ call' # NoCall
        /\ call'.batch = call.batch /\ call'.recs = call.recs /\ call'.id = call.id
        /\ call'.acts = call.acts /\ call'.done = call.done
    <2>1. \/ call' = [call EXCEPT !.step = "remove"]
          \/ call' = [call EXCEPT !.step = "record"]
          \/ call' = [call EXCEPT !.step = "record", !.status = "failed"]
      BY DEF Imap, ImapFails
    <2> QED
      BY <1>2, <2>1 DEF Call, NoCall
  <1>4. Current = Range(call.acts) /\ Current' = Current \ {Action}
    BY <1>1, <1>2, <1>3, InjectiveTail DEF Current, Action
  <1>5. CASE UNCHANGED effects
    BY <1>1, <1>2, <1>3, <1>4, <1>5, LedgerGoesOn
  <1>6. CASE OnServer /\ server[call.id] # None
    <2> DEFINE r == <<call.batch, call.id>>
    <2>1. effects' = [effects EXCEPT ![r][Action] = IF @ < 2 THEN @ + 1 ELSE 2]
      BY <1>6 DEF OnServer
    <2>2. Answering' = Answering
      BY <1>1, <1>3 DEF Answering
    <2>3. r \in Answering /\ r \in Requests
      BY <1>1, <1>2, AnsweringFacts DEF Named
    <2>4. Stati' = Stati
      BY <1>1 DEF Stati, StatusOf
    <2>5. Action \in Current
      BY <1>2, <1>4, HeadAndTail DEF Action
    <2>6. Action \in Left(call.id)
      BY <1>2, <2>5, LeftFacts
    <2>7. Left(call.id)' = Left(call.id) \ {Action}
      <3>1. \A k \in DOMAIN call.recs : call.recs[k].id # call.id
        BY <1>2 DEF RecIds
      <3> QED
        BY <1>3, <1>4, <3>1, LeftFacts
    <2>8. \A id : id # call.id => Left(id)' = Left(id)
      BY <1>3, LeftFacts
    <2>9. \A q \in Answering : q[2] = call.id => q = r
      BY <1>1, AnsweringFacts
    <2>10. Allowed' = [Allowed EXCEPT ![r] = @ \ {Action}] /\ Action \in Allowed[r]
      <3>1. Allowed[r] = Left(call.id) /\ Allowed'[r] = Left(call.id)'
        <4>1. \A q \in Requests : Allowed'[q] = IF q \in Answering' THEN Left(q[2])' ELSE {}
          BY DEF Allowed
        <4>2. \A q \in Requests : Allowed[q] = IF q \in Answering THEN Left(q[2]) ELSE {}
          BY DEF Allowed
        <4> QED
          BY <1>3, <2>2, <2>3, <4>1, <4>2
      <3>2. \A q \in Requests \ {r} : Allowed'[q] = Allowed[q]
        BY <2>2, <2>8, <2>9 DEF Allowed
      <3> QED
        BY <2>3, <2>6, <2>7, <3>1, <3>2 DEF Allowed
    <2> HIDE DEF r
    <2>11. PICK q \in Requests, a \in Executable : q = r /\ a = Action
      BY <1>2, <2>3
    <2>12. Ledger!CarryOut(q, a)
      BY <1>1, <2>1, <2>2, <2>4, <2>10, <2>11 DEF Ledger!CarryOut, Stati, Allowed
    <2> QED
      BY <2>12
  <1> QED
    BY <1>1, <1>5, <1>6 DEF OnServer

LEMMA LedgerSteps == AutomationInv /\ [Next]_vars /\ AutomationInv' => [Ledger!Next]_Ledger!vars
  <1> SUFFICES ASSUME AutomationInv, [Next]_vars, AutomationInv'
               PROVE  [Ledger!Next]_Ledger!vars
    OBVIOUS
  <1> USE DEF serverVars, classifyVars, storeVars, cutVars
  <1>1. ASSUME NEW part \in SUBSET messages, CreateBatch(part)
        PROVE  Ledger!Next
    BY <1>1, LedgerAsks DEF Ledger!Next
  <1>2. ASSUME NEW b \in asked, NEW recs, Callback(b, recs)
        PROVE  Ledger!Next
    BY <1>2, LedgerAnswers DEF Ledger!Next
  <1>3. CASE Decide
    BY <1>3, LedgerDecides DEF Ledger!Next
  <1>4. CASE ItemDone \/ Act \/ Record
    <2>1. /\ call # NoCall /\ call.step \in {"act", "record"}
          /\ UNCHANGED <<batches, effects, interrupted>>
      BY <1>4 DEF ItemDone, Act, Record, NoCall
    <2>2. /\ call \in Call /\ call.id # None /\ call.acts \in Seq(STRING)
          /\ call.step = "record" => call.acts # <<>>
      <3>1. call \in Call /\ call.id # None /\ (call.step = "record" => call.acts # <<>>)
        BY <2>1 DEF AutomationInv, CallInv
      <3> QED
        BY <3>1 DEF Call
    <2>3. /\ call' # NoCall /\ call'.batch = call.batch /\ call'.recs = call.recs
          /\ call'.id = call.id
          /\ call'.done \subseteq call.done \cup {call.id} /\ call.done \subseteq call'.done
      BY <1>4, <2>2 DEF ItemDone, Act, Record, Call, NoCall
    <2>4. Current' \subseteq Current
      <3>1. Range(<<>>) = {}
        BY DEF Range
      <3>2. call.acts # <<>> => Range(Tail(call.acts)) \subseteq Range(call.acts)
        BY <2>2, HeadAndTail
      <3>3. CASE ItemDone
        <4>1. call'.acts = <<>> /\ call'.step \in {"item", "complete"}
          BY <2>2, <3>3 DEF ItemDone, Call
        <4> QED
          BY <3>1, <4>1 DEF Current
      <3>4. CASE Act
        <4>1. call'.acts = call.acts /\ call.acts # <<>> /\ call.step = "act"
          BY <2>2, <3>4 DEF Act, Call
        <4> QED
          BY <3>2, <4>1 DEF Current
      <3>5. CASE Record
        <4>1. /\ call.step = "record" /\ call'.step = "act"
              /\ call'.acts = <<>> \/ call'.acts = Tail(call.acts)
          BY <2>2, <3>5 DEF Record, NextActs, Call
        <4> QED
          BY <3>1, <4>1 DEF Current
      <3> QED
        BY <1>4, <3>3, <3>4, <3>5
    <2>5. Ledger!Drop
      BY <2>1, <2>2, <2>3, <2>4, LedgerGoesOn
    <2> QED
      BY <2>5 DEF Ledger!Next
  <1>5. CASE Imap \/ ImapFails
    BY <1>5, LedgerActs DEF Ledger!Next
  <1>6. CASE RemoveRow \/ RemoveRowFails \/ RecordRaises
    <2>1. /\ call # NoCall /\ call.step \in {"remove", "record"}
          /\ UNCHANGED <<batches, effects, interrupted>>
      BY <1>6 DEF RemoveRow, RemoveRowFails, RecordRaises, NoCall
    <2>2. call \in Call /\ call.id # None
      BY <2>1 DEF AutomationInv, CallInv
    <2>3. /\ call' # NoCall /\ call'.batch = call.batch /\ call'.recs = call.recs
          /\ call'.id = call.id /\ call'.done = call.done
          /\ call'.acts = call.acts /\ call'.step = "record"
      BY <1>6, <2>2 DEF RemoveRow, RemoveRowFails, RecordRaises, Call, NoCall
    <2>4. Current' = Current
      BY <2>1, <2>3 DEF Current
    <2>5. Ledger!Drop
      BY <2>1, <2>2, <2>3, <2>4, LedgerGoesOn
    <2> QED
      BY <2>5 DEF Ledger!Next
  <1>7. CASE Complete
    BY <1>7, LedgerCompletes DEF Ledger!Next
  <1>8. CASE CallFails \/ Crash
    BY <1>8, LedgerCutOff DEF Ledger!Next
  <1>9. ASSUME NEW found, NEW id,
               \/ Fetch(found) \/ Upsert \/ ReadMessage(id) \/ CreateFails \/ SendBatch
               \/ SendRaises \/ Expunge(id) \/ ArchiveRequest(id) \/ Renumber \/ Tick \/ UNCHANGED vars
        PROVE  UNCHANGED Ledger!vars
    <2>1. UNCHANGED <<batches, call, effects, interrupted>>
      BY <1>9 DEF Fetch, Upsert, ReadMessage, CreateFails, SendBatch, SendRaises, Expunge,
                  ArchiveRequest, Renumber, Tick, vars
    <2> QED
      BY <2>1, LedgerUnchanged
  <1> QED
    BY <1>1, <1>2, <1>3, <1>4, <1>5, <1>6, <1>7, <1>8, <1>9 DEF Next, Worker, Handler, World

LEMMA LedgerInits == Init => Ledger!Init
  <1> SUFFICES ASSUME Init PROVE Ledger!Init
    OBVIOUS
  <1>1. Answering = {} /\ batches = <<>>
    BY DEF Init, Answering
  <1>2. Stati = [r \in Requests |-> "unasked"]
    BY <1>1 DEF Stati, StatusOf
  <1>3. Allowed = [r \in Requests |-> {}]
    BY <1>1 DEF Allowed
  <1> QED
    BY <1>1, <1>2, <1>3 DEF Init, Ledger!Init, Ledger!Nothing, Stati, Allowed

\* The batches and callbacks implement the ledger of requests, through lost
\* answers, late and repeated callbacks, database errors and restarts.
THEOREM LedgerCorrect == Spec => LedgerSpec
  BY LedgerInits, LedgerSteps, AutomationCorrect, PTL DEF Spec, LedgerSpec, Ledger!Spec

Proved == INSTANCE LedgerProofs WITH
  Actions   <- Executable,
  status    <- [r \in Requests |-> StatusOf(r)],
  answering <- Answering,
  allowed   <- [r \in Requests |-> IF r \in Answering THEN Left(r[2]) ELSE {}]

\* However often, in whatever portions and how late Hermes answers, an action is
\* carried out twice for a request only if an answer to it was cut off
\* (automation.py:237-294).
THEOREM ActedOnceCorrect == Spec => []ActedOnce
  <1>1. Proved!Spec => []Proved!Once
    BY Proved!OnceCorrect
  <1>2. Ledger!Init => Proved!Init
    BY DEF Ledger!Init, Ledger!Nothing, Proved!Init, Proved!Nothing
  <1>3. [Ledger!Next]_(Ledger!vars) => [Proved!Next]_(Proved!vars)
    BY DEF Ledger!Next, Ledger!Ask, Ledger!Answer, Ledger!Drop, Ledger!CarryOut, Ledger!Complete,
           Ledger!CutOff, Ledger!SetStatus, Ledger!Nothing, Ledger!vars,
           Proved!Next, Proved!Ask, Proved!Answer, Proved!Drop, Proved!CarryOut, Proved!Complete,
           Proved!CutOff, Proved!SetStatus, Proved!Nothing, Proved!vars
  <1>4. Proved!Once => ActedOnce
    BY DEF Proved!Once, ActedOnce
  <1> QED
    BY <1>1, <1>2, <1>3, <1>4, LedgerCorrect, PTL DEF LedgerSpec, Ledger!Spec, Proved!Spec

=============================================================================
