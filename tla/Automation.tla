------------------------------ MODULE Automation ------------------------------
(***************************************************************************)
(* Classification batches and the recommendations that answer them:        *)
(* app/automation.py and its callers in app/main.py.                       *)
(*                                                                         *)
(* A worker thread turns newly inserted mail into batches, stores them and *)
(* posts them to Hermes.  Hermes, or anyone with its token, calls back     *)
(* with recommendations, at any time and any number of times; the handler  *)
(* checks them, carries them out on the server and completes the batch.    *)
(* The handler runs on the event loop, one call at a time; the worker, the *)
(* server and the clock go on beside it.                                   *)
(*                                                                         *)
(* Within a batch a request_id stands for one message, so a request is     *)
(* named by its batch and its message id.                                  *)
(***************************************************************************)
EXTENDS Integers, Sequences, FiniteSets, Functions

CONSTANTS
  Ids,                \* message ids: a folder and UID each
  Bodies,             \* values of body_sha256 told apart
  None,               \* no row, or no message
  InArchive,          \* ids of the archive folder
  MaxValidity,        \* bound: UIDVALIDITY values, one more for each renumbering
  BatchSize,          \* settings.automation.auto_classify_batch_size
  Ttl,                \* ttl_minutes of a batch
  Execute,            \* settings.automation.execute_recommendations
  AutonomousActions,  \* settings.automation.autonomous_actions
  AllowArchive,       \* settings.safety.allow_archive
  AllowLabel,         \* settings.safety.allow_label
  ActionLists,        \* the action lists a recommendation may carry
  Searches,           \* bound: the UIDs a pass may search
  MaxBatches,         \* bound: batches
  MaxTime,            \* bound: the clock
  MaxFaults           \* bound: database calls and audit lines that raise, restarts, renumberings

ASSUME AutomationAssumption ==
  /\ None \notin Bodies \cup Ids
  /\ IsFiniteSet(Ids)
  /\ InArchive \subseteq Ids
  /\ Searches \subseteq SUBSET Ids
  /\ BatchSize \in Nat \ {0}
  /\ Ttl \in Nat /\ MaxBatches \in Nat /\ MaxTime \in Nat /\ MaxFaults \in Nat
  /\ MaxValidity \in Nat \ {0}
  /\ {Execute, AllowArchive, AllowLabel} \subseteq BOOLEAN
  /\ \A actions \in ActionLists : actions \in Seq(STRING) /\ IsInjective(actions)

VARIABLES
  server,     \* server[id] is the body of the message the server has there
  validity,   \* UIDVALIDITY of the server's mailboxes
  rows,       \* rows[id] is the body the index shows for id
  now,        \* the clock
  held,       \* held[id] is the body of id in the result a pass has fetched
  fresh,      \* ids a pass inserted, not yet read for classification
  messages,   \* [id, body] read for classification, not yet in a batch
  sending,    \* the batch whose webhook is being sent, 0 for none
  batches,    \* classification_batches with their items
  asked,      \* batches that reached Hermes
  call,       \* the callback being served
  decisions,  \* automation_decisions
  records,    \* automation_executions
  effects,    \* effects[r][a] counts how often a was done on the server for r, up to 2
  touched,    \* for each effect, the body asked about and the body it hit
  interrupted, \* requests whose answer was cut off by an error or a restart
  faults       \* errors, restarts and renumberings so far

serverVars == <<server, validity>>
classifyVars == <<held, fresh, messages, sending>>
storeVars == <<batches, decisions, records>>
cutVars == <<interrupted, faults>>
vars == <<serverVars, rows, now, classifyVars, storeVars, asked, call, effects, touched, cutVars>>

Executable == {"add_tag", "archive"}
ALLOWED_ACTIONS == {"archive", "unsubscribe", "add_tag"}

Message == [id : Ids, body : Bodies]
Item == [body : Bodies, status : {"pending", "completed"}]
Requests == (1..MaxBatches) \X Ids
Recommendation == [id : Ids, valid : BOOLEAN, actions : ActionLists]

NoCall == [step |-> "none"]
CallSteps == {"item", "act", "imap", "remove", "record", "complete"}

TypeOK ==
  /\ server \in [Ids -> Bodies \cup {None}]
  /\ validity \in 1..MaxValidity
  /\ rows \in [Ids -> Bodies \cup {None}]
  /\ now \in 0..MaxTime
  /\ held \in [Ids -> Bodies \cup {None}]
  /\ fresh \subseteq Ids
  /\ messages \subseteq Message
  /\ sending \in 0..Len(batches)
  /\ \A b \in DOMAIN batches :
       /\ batches[b].status \in {"pending", "completed"}
       /\ batches[b].expires \in Nat
       /\ DOMAIN batches[b].items \subseteq Ids
       /\ \A id \in DOMAIN batches[b].items : batches[b].items[id] \in Item
  /\ asked \subseteq DOMAIN batches
  /\ call.step \in CallSteps \cup {"none"}
  /\ call.step # "none" =>
       /\ call.batch \in asked
       /\ call.done \subseteq DOMAIN call.pending
       /\ \A k \in DOMAIN call.recs : call.recs[k] \in Recommendation
  /\ \A d \in decisions : d.batch \in asked /\ d.id \in Ids /\ d.accepted \in BOOLEAN
  /\ \A r \in records : r.batch \in asked /\ r.status \in {"executed", "failed", "skipped"}
  /\ effects \in [Requests -> [Executable -> 0..2]]
  /\ touched \subseteq [asked : Bodies, found : Bodies]
  /\ interrupted \subseteq Requests
  /\ faults \in 0..MaxFaults

\* nothing found: no message of any id
NoResult == [id \in Ids |-> None]

Init ==
  /\ server \in [Ids -> Bodies]
  /\ validity = 1
  /\ rows = [id \in Ids |-> None]
  /\ now = 0
  /\ held = NoResult
  /\ fresh = {}
  /\ messages = {}
  /\ sending = 0
  /\ batches = <<>>
  /\ asked = {}
  /\ call = NoCall
  /\ decisions = {}
  /\ records = {}
  /\ effects = [r \in Requests |-> [a \in Executable |-> 0]]
  /\ touched = {}
  /\ interrupted = {}
  /\ faults = 0

\* a database call or the writing of an audit line raises, the process dies, or
\* the server renumbers
Fault ==
  /\ faults < MaxFaults
  /\ faults' = faults + 1

-----------------------------------------------------------------------------
(* The worker: from a pass to the webhook. *)

WorkerIdle == held = NoResult /\ fresh = {} /\ messages = {} /\ sending = 0

\* A pass, which is MailSync's, fetches what it finds on the server.  One that
\* raises before it stores its result is as one that found nothing.
Fetch(searched) ==
  /\ WorkerIdle
  /\ held' = [id \in Ids |-> IF id \in searched THEN server[id] ELSE None]
  /\ UNCHANGED <<serverVars, rows, now, fresh, messages, sending, storeVars, asked, call, effects,
                 touched, cutVars>>

Inserted == {id \in Ids : held[id] # None /\ rows[id] = None}

\* It stores its result, as old as it may be.  The ids of the rows it inserted
\* go to _auto_classify_inserted; they are lost when a later folder's fetch
\* raises, and (bound) when no batch is left for them.
Upsert ==
  /\ held # NoResult
  /\ rows' = [id \in Ids |-> IF held[id] # None THEN held[id] ELSE rows[id]]
  /\ \/ fresh' = {}
     \/ /\ Cardinality(Inserted) <= BatchSize * (MaxBatches - Len(batches))
        /\ fresh' = Inserted
  /\ held' = NoResult
  /\ UNCHANGED <<serverVars, now, messages, sending, storeVars, asked, call, effects, touched,
                 cutVars>>

\* mutant of ReadMessage: an id without a row is not left out
ReadMessage_Any(id) ==
  /\ id \in fresh
  /\ messages' = messages \cup {[id |-> id, body |-> rows[id]]}
  /\ fresh' = fresh \ {id}
  /\ UNCHANGED <<serverVars, rows, now, held, sending, storeVars, asked, call, effects, touched,
                 cutVars>>

\* get_message of an inserted id; one that has no row any more is left out
ReadMessage(id) ==
  /\ id \in fresh
  /\ messages' = IF rows[id] = None THEN messages
                                    ELSE messages \cup {[id |-> id, body |-> rows[id]]}
  /\ fresh' = fresh \ {id}
  /\ UNCHANGED <<serverVars, rows, now, held, sending, storeVars, asked, call, effects, touched,
                 cutVars>>

Chunk(part) ==
  /\ part \subseteq messages
  /\ Cardinality(part) = IF Cardinality(messages) < BatchSize THEN Cardinality(messages)
                                                             ELSE BatchSize

\* create_classification_batch: the batch and its items in one transaction
create_classification_batch(part) ==
  batches' = Append(batches,
    [status  |-> "pending",
     expires |-> now + Ttl,
     items   |-> [id \in {m.id : m \in part} |->
                    [body   |-> (CHOOSE m \in part : m.id = id).body,
                     status |-> "pending"]]])

CreateBatch(part) ==
  /\ Len(batches) < MaxBatches  \* bound: Upsert leaves room for the batch
  /\ sending = 0
  /\ fresh = {}
  /\ messages # {}
  /\ Chunk(part)
  /\ create_classification_batch(part)
  /\ messages' = messages \ part
  /\ sending' = Len(batches) + 1
  /\ UNCHANGED <<serverVars, rows, now, held, fresh, decisions, records, asked, call, effects,
                 touched, cutVars>>

\* create_classification_batch raises: nothing catches it inside the loop, so
\* the rest of the list is dropped
CreateFails ==
  /\ sending = 0
  /\ fresh = {}
  /\ messages # {}
  /\ Fault
  /\ messages' = {}
  /\ UNCHANGED <<serverVars, rows, now, held, fresh, sending, storeVars, asked, call, effects,
                 touched, interrupted>>

\* The webhook reaches Hermes or not.  Whether an answer comes back decides
\* only the wording of the audit line: after a HermesWebhookError the loop goes
\* on.
SendBatch ==
  /\ sending # 0
  /\ asked' \in {asked, asked \cup {sending}}
  /\ sending' = 0
  /\ UNCHANGED <<serverVars, rows, now, held, fresh, messages, storeVars, call, effects, touched,
                 cutVars>>

\* the audit line raises, which leaves the loop: the other batches are not sent
SendRaises ==
  /\ sending # 0
  /\ Fault
  /\ asked' \in {asked, asked \cup {sending}}
  /\ sending' = 0
  /\ messages' = {}
  /\ UNCHANGED <<serverVars, rows, now, held, fresh, storeVars, call, effects, touched,
                 interrupted>>

-----------------------------------------------------------------------------
(* The callback. *)

\* the requests the call is answering
Answering ==
  IF call = NoCall THEN {}
  ELSE {call.batch} \X ({call.recs[k].id : k \in DOMAIN call.recs} \cup ({call.id} \ {None}) \cup call.done)

\* mutant of Pending: the status of the items is not looked at
Pending_AnyItem(b) ==
  IF batches[b].status = "pending" /\ batches[b].expires >= now
    THEN DOMAIN batches[b].items
    ELSE {}

\* get_pending_batch_items
Pending(b) ==
  IF batches[b].status = "pending" /\ batches[b].expires >= now
    THEN {id \in DOMAIN batches[b].items : batches[b].items[id].status = "pending"}
    ELSE {}

\* A call that is let in; one without recommendations, with no pending items,
\* a request twice or an unknown request is answered 422, 404 or 400 and
\* changes nothing.
Callback(b, recs) ==
  /\ call = NoCall
  /\ b \in asked
  /\ recs # <<>>
  /\ \A k \in DOMAIN recs : recs[k].id \in Pending(b)
  /\ \A k, l \in DOMAIN recs : k # l => recs[k].id # recs[l].id
  /\ call' = [step    |-> "item",
              batch   |-> b,
              pending |-> [id \in Pending(b) |-> batches[b].items[id].body],
              recs    |-> recs,
              id      |-> None,
              acts    |-> <<>>,
              inTry   |-> FALSE,
              status  |-> "executed",
              done    |-> {}]
  /\ UNCHANGED <<serverVars, rows, now, classifyVars, storeVars, asked, effects, touched,
                 cutVars>>

validate_recommendation(rec) ==
  /\ rec.valid
  /\ Len(rec.actions) <= 4
  /\ \A k \in DOMAIN rec.actions :
       /\ rec.actions[k] \in ALLOWED_ACTIONS
       /\ rec.actions[k] = "archive" => AllowArchive
       /\ rec.actions[k] = "add_tag" => AllowLabel

Accepts(rec) ==
  /\ rows[rec.id] = call.pending[rec.id]
  /\ validate_recommendation(rec)

\* mutant of Decide: a refused recommendation is carried out too
Decide_ActsAnyway ==
  /\ call.step = "item"
  /\ call.recs # <<>>
  /\ LET rec == Head(call.recs) IN
     /\ decisions' = decisions \cup
          {[batch |-> call.batch, id |-> rec.id, accepted |-> Accepts(rec),
            actions |-> rec.actions]}
     /\ call' = [call EXCEPT !.recs = Tail(@), !.id = rec.id, !.step = "act",
                             !.acts = IF Execute THEN rec.actions ELSE <<>>]
  /\ UNCHANGED <<serverVars, rows, now, classifyVars, batches, records, asked, effects, touched,
                 cutVars>>

\* the next recommendation: checked against the row, and its decision recorded
Decide ==
  /\ call.step = "item"
  /\ call.recs # <<>>
  /\ LET rec == Head(call.recs) IN
     /\ decisions' = decisions \cup
          {[batch |-> call.batch, id |-> rec.id, accepted |-> Accepts(rec),
            actions |-> rec.actions]}
     /\ call' = [call EXCEPT !.recs = Tail(@), !.id = rec.id, !.step = "act",
                             !.acts = IF Accepts(rec) /\ Execute THEN rec.actions ELSE <<>>]
  /\ UNCHANGED <<serverVars, rows, now, classifyVars, batches, records, asked, effects, touched,
                 cutVars>>

\* all actions of the recommendation are done
ItemDone ==
  /\ call.step = "act"
  /\ call.acts = <<>>
  /\ call' = [call EXCEPT !.done = @ \cup {call.id},
                          !.step = IF call.recs = <<>> THEN "complete" ELSE "item"]
  /\ UNCHANGED <<serverVars, rows, now, classifyVars, storeVars, asked, effects, touched,
                 cutVars>>

Action == Head(call.acts)

Skipped ==
  \/ Action \notin AutonomousActions
  \/ rows[call.id] = None
  \/ Action \notin Executable

\* what is done with the next action: skip it, go to the server, or (a message
\* that is in the archive folder already) only record it
Act ==
  /\ call.step = "act"
  /\ call.acts # <<>>
  /\ call' = [call EXCEPT
       !.step = IF Skipped \/ (Action = "archive" /\ call.id \in InArchive) THEN "record"
                                                                            ELSE "imap",
       !.inTry = Action \in AutonomousActions /\ rows[call.id] # None,
       !.status = IF Skipped THEN "skipped" ELSE "executed"]
  /\ UNCHANGED <<serverVars, rows, now, classifyVars, storeVars, asked, effects, touched,
                 cutVars>>

\* UID COPY to the label's mailbox, or UID MOVE to the archive folder: a UID
\* that is not there is ignored
OnServer ==
  IF server[call.id] = None
    THEN UNCHANGED <<server, effects, touched>>
    ELSE /\ effects' = [effects EXCEPT ![<<call.batch, call.id>>][Action] =
                          IF @ < 2 THEN @ + 1 ELSE 2]
         /\ touched' = touched \cup
              {[asked |-> call.pending[call.id], found |-> server[call.id]]}
         /\ server' = IF Action = "archive" THEN [server EXCEPT ![call.id] = None] ELSE server

\* UID COPY or UID MOVE succeeds, as far as the client can tell
Imap ==
  /\ call.step = "imap"
  /\ OnServer
  /\ call' = [call EXCEPT !.step = IF Action = "archive" THEN "remove" ELSE "record"]
  /\ UNCHANGED <<validity, rows, now, classifyVars, storeVars, asked, cutVars>>

\* mutant of ImapFails: the exception is swallowed
ImapFails_Swallowed ==
  /\ call.step = "imap"
  /\ OnServer \/ UNCHANGED <<server, effects, touched>>
  /\ call' = [call EXCEPT !.step = IF Action = "archive" THEN "remove" ELSE "record"]
  /\ UNCHANGED <<validity, rows, now, classifyVars, storeVars, asked, cutVars>>

\* mutant of ImapFails: the loop ends without a record
ImapFails_Unrecorded ==
  /\ call.step = "imap"
  /\ OnServer \/ UNCHANGED <<server, effects, touched>>
  /\ call' = [call EXCEPT !.step = "act", !.acts = <<>>]
  /\ UNCHANGED <<validity, rows, now, classifyVars, storeVars, asked, cutVars>>

\* The call raises: before the server did anything (or because the tag is
\* empty or names no mailbox), or afterwards, when only its answer was lost.
ImapFails ==
  /\ call.step = "imap"
  /\ OnServer \/ UNCHANGED <<server, effects, touched>>
  /\ call' = [call EXCEPT !.step = "record", !.status = "failed"]
  /\ UNCHANGED <<validity, rows, now, classifyVars, storeVars, asked, cutVars>>

\* index.remove_message
RemoveRow ==
  /\ call.step = "remove"
  /\ rows' = [rows EXCEPT ![call.id] = None]
  /\ call' = [call EXCEPT !.step = "record"]
  /\ UNCHANGED <<serverVars, now, classifyVars, storeVars, asked, effects, touched, cutVars>>

\* it raises inside the try block
RemoveRowFails ==
  /\ call.step = "remove"
  /\ Fault
  /\ call' = [call EXCEPT !.step = "record", !.status = "failed"]
  /\ UNCHANGED <<serverVars, rows, now, classifyVars, storeVars, asked, effects, touched,
                 interrupted>>

\* mutant of NextActs: the loop is left after its first action
NextActs_First == <<>>

\* mutant of NextActs: a failed action does not stop the ones after it
NextActs_Continue == Tail(call.acts)

NextActs == IF call.status = "failed" THEN <<>> ELSE Tail(call.acts)

Execution == [batch |-> call.batch, id |-> call.id, type |-> Action, status |-> call.status]

\* record_execution, and on to the next action; a failed one is the last
Record ==
  /\ call.step = "record"
  /\ records' = records \cup {Execution}
  /\ call' = [call EXCEPT !.acts = NextActs, !.step = "act"]
  /\ UNCHANGED <<serverVars, rows, now, classifyVars, batches, decisions, asked, effects, touched,
                 cutVars>>

\* the record is written inside the try block
InTry == call.inTry /\ call.status # "failed"

\* Writing it, or the audit line after it, raises: the action is recorded as
\* failed, beside the record that may have been written.
RecordRaises ==
  /\ call.step = "record"
  /\ InTry
  /\ Fault
  /\ call' = [call EXCEPT !.status = "failed"]
  /\ records' \in {records, records \cup {Execution}}
  /\ UNCHANGED <<serverVars, rows, now, classifyVars, batches, decisions, asked, effects, touched,
                 interrupted>>

\* mutant of complete_batch_items: only an answer to all items counts
complete_batch_items_Unmarked(b, ids) ==
  batches' = [batches EXCEPT ![b].status = IF ids = DOMAIN batches[b].items THEN "completed"
                                                                            ELSE @]

\* complete_batch_items: the items answered, and the batch with its last item
complete_batch_items(b, ids) ==
  LET items == [id \in DOMAIN batches[b].items |->
                  [body   |-> batches[b].items[id].body,
                   status |-> IF id \in ids THEN "completed"
                                            ELSE batches[b].items[id].status]]
      left  == {id \in DOMAIN items : items[id].status = "pending"}
  IN  batches' = [batches EXCEPT ![b].items = items,
                                 ![b].status = IF left = {} THEN "completed" ELSE @]

Complete ==
  /\ call.step = "complete"
  /\ complete_batch_items(call.batch, call.done)
  /\ call' = NoCall
  /\ UNCHANGED <<serverVars, rows, now, classifyVars, decisions, records, asked, effects, touched,
                 cutVars>>

\* A database call or an audit line raises where nothing catches it (the
\* locator of an action and the lines about skipped and failed ones among
\* them): the request ends with 500, and what it did so far stays done.
CallFails ==
  /\ call.step \in {"item", "act", "record", "complete"}
  /\ Fault
  /\ call.step = "record" => ~InTry
  /\ call' = NoCall
  /\ interrupted' = interrupted \cup Answering
  /\ UNCHANGED <<serverVars, rows, now, classifyVars, storeVars, asked, effects, touched>>

-----------------------------------------------------------------------------
(* The rest of the world. *)

\* another client deletes or moves the message
Expunge(id) ==
  /\ server[id] # None
  /\ server' = [server EXCEPT ![id] = None]
  /\ UNCHANGED <<validity, rows, now, classifyVars, storeVars, asked, call, effects, touched,
                 cutVars>>

\* the mailboxes are renumbered: their messages stay, under other UIDs
Renumber ==
  /\ validity < MaxValidity
  /\ Fault
  /\ validity' = validity + 1
  /\ \E old \in Bijection(Ids, Ids) :
       /\ \A id \in Ids : id \in InArchive <=> old[id] \in InArchive
       /\ server' = [id \in Ids |-> server[old[id]]]
  /\ UNCHANGED <<rows, now, classifyVars, storeVars, asked, call, effects, touched, interrupted>>

\* another request archives the message: it waits for the event loop too
ArchiveRequest(id) ==
  /\ call = NoCall
  /\ rows[id] # None
  /\ id \notin InArchive
  /\ server' = [server EXCEPT ![id] = None]
  /\ rows' = [rows EXCEPT ![id] = None]
  /\ UNCHANGED <<validity, now, classifyVars, storeVars, asked, call, effects, touched, cutVars>>

\* only the age of a batch matters, so the clock stands still before the first
Tick ==
  /\ now < MaxTime
  /\ batches # <<>>
  /\ now' = now + 1
  /\ UNCHANGED <<serverVars, rows, classifyVars, storeVars, asked, call, effects, touched,
                 cutVars>>

\* the process dies and is started again: the database stays
Crash ==
  /\ Fault
  /\ held' = NoResult
  /\ fresh' = {}
  /\ messages' = {}
  /\ sending' = 0
  /\ call' = NoCall
  /\ interrupted' = interrupted \cup Answering
  /\ UNCHANGED <<serverVars, rows, now, storeVars, asked, effects, touched>>

Worker ==
  \/ \E searched \in Searches : Fetch(searched)
  \/ Upsert
  \/ \E id \in fresh : ReadMessage(id)
  \/ \E part \in SUBSET messages : CreateBatch(part)
  \/ CreateFails
  \/ SendBatch
  \/ SendRaises

\* the lists of recommendations about the batch's messages; longer ones, which
\* name a request twice, are refused
Answers(b) ==
  LET Recs == {r \in Recommendation : r.id \in DOMAIN batches[b].items}
  IN  UNION {[1..n -> Recs] : n \in 1..Cardinality(Ids)}

Handler ==
  \/ \E b \in asked : \E recs \in Answers(b) : Callback(b, recs)
  \/ Decide
  \/ ItemDone
  \/ Act
  \/ Imap
  \/ ImapFails
  \/ RemoveRow
  \/ RemoveRowFails
  \/ Record
  \/ RecordRaises
  \/ Complete
  \/ CallFails

World ==
  \/ \E id \in Ids : Expunge(id) \/ ArchiveRequest(id)
  \/ Renumber
  \/ Tick
  \/ Crash

Next == Worker \/ Handler \/ World

Spec == Init /\ [][Next]_vars

-----------------------------------------------------------------------------
(* The requests as RequestLedger sees them. *)

StatusOf(r) ==
  IF r[1] \in DOMAIN batches /\ r[2] \in DOMAIN batches[r[1]].items
    THEN batches[r[1]].items[r[2]].status
    ELSE "unasked"

\* the actions of the call's current recommendation that are not done yet
Current == Range(IF call.step \in {"remove", "record"} THEN Tail(call.acts) ELSE call.acts)

\* what the call may still carry out for one of its requests
Left(id) ==
  Executable \cap
    UNION ({Range(call.recs[k].actions) : k \in {l \in DOMAIN call.recs : call.recs[l].id = id}}
           \cup {Current : i \in {id} \cap {call.id}})

Ledger == INSTANCE RequestLedger WITH
  Actions   <- Executable,
  status    <- [r \in Requests |-> StatusOf(r)],
  answering <- Answering,
  allowed   <- [r \in Requests |-> IF r \in Answering THEN Left(r[2]) ELSE {}]

-----------------------------------------------------------------------------
(* Properties. *)

\* the answer with decision d was heard to its end
Answered(d) == StatusOf(<<d.batch, d.id>>) = "completed" /\ <<d.batch, d.id>> \notin interrupted

\* there is a record of the action for the request of decision d
OnRecord(d, action, status) ==
  [batch |-> d.batch, id |-> d.id, type |-> action, status |-> status] \in records

\* The batches and callbacks implement the ledger: requests are asked once, an
\* action is carried out once in an answer, a completed request is not answered
\* again, and only an answer that was cut off leaves its requests open.
LedgerSpec == Ledger!Spec

\* An action is carried out at most once for a request, however often and in
\* whatever portions Hermes answers the batch: a completed item is not pending.
ActedOnce ==
  \A r \in Requests : \A a \in Executable : effects[r][a] > 1 => r \in interrupted

\* Whatever was done on the server for a request is in automation_executions,
\* done or not: "Execution audit records for request-bound autonomous
\* recommendations" (005_automation_executions.sql).
EffectsRecorded ==
  call = NoCall =>
    \A r \in Requests : \A a \in Executable : effects[r][a] > 0 =>
      \/ \E e \in records : <<e.batch, e.id>> = r /\ e.type = a
      \/ r \in interrupted

\* Nothing is done on the server without a decision on record that accepts it,
\* not even if the process died or the database failed in between.
ActsOnlyAsDecided ==
  \A r \in Requests : \A a \in Executable : effects[r][a] > 0 =>
    \E d \in decisions :
      /\ <<d.batch, d.id>> = r
      /\ d.accepted
      /\ a \in Range(d.actions)

\* An archive recorded as executed has taken the message out of its folder.  Its
\* row went too, but a thread that fetched the message before may bring it back.
ExecutedIsDone ==
  validity = 1 => \A e \in records :
    e.type = "archive" /\ e.status = "executed" /\ e.id \notin InArchive => server[e.id] = None

\* A message whose tagging failed is not archived on the same recommendation:
\* it would leave the inbox without its label.
NoArchiveAfterFailedTag ==
  \A e \in records :
    e.type = "add_tag" /\ e.status = "failed" =>
      \/ effects[<<e.batch, e.id>>]["archive"] = 0
      \/ <<e.batch, e.id>> \in interrupted

\* "Executes accepted recommendations" (config.example.yaml): when an accepted
\* recommendation has been answered, each of its actions that may run
\* autonomously is on record as executed, or it or one listed before it is on
\* record as failed.  None is dropped without a trace.
AcceptedAreTried ==
  \A d \in decisions :
    d.accepted /\ Execute /\ Answered(d) =>
      \A j \in DOMAIN d.actions :
        d.actions[j] \in Executable \cap AutonomousActions =>
          \/ OnRecord(d, d.actions[j], "executed")
          \/ \E i \in 1..j : OnRecord(d, d.actions[i], "failed")

\* What is tagged or archived is the mail Hermes was asked about: a callback
\* is refused when the "message body changed since classification request".
ActsOnWhatWasAsked == \A x \in touched : x.asked = x.found

=============================================================================
