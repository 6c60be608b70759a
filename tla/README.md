# bott-mail in TLA+

bott-mail is a small service between a Proton Bridge IMAP server and *Hermes*, an
assistant. It keeps a local index of the user's mail in SQLite, keeps it up to date in the
background, serves searches from it, archives messages on request, and lets Hermes classify
new mail and act on it. These modules model the parts of it that keep state and the
interleavings, failures and restarts they meet; TLC checks them on small instances, and
TLAPS proves the safety properties for every value of the constants.

Contents: [the system](#the-system) · [modules](#modules-and-code) · [runs](#runs) ·
[departures](#where-the-code-departs-from-its-documentation) ·
[bounds](#bounds) · [fairness](#fairness) · [proofs](#proofs) ·
[limits](#what-is-only-checked-and-what-is-not-modelled) · [plan](#plan)

## The system

| component | state | operations | correct when |
|---|---|---|---|
| `app/imap_client.py`, the server | mailboxes, UIDVALIDITY, flags (on the server) | `fetch_new`, `fetch_flags`, `archive_message`, `add_tag_message` | asks for exactly what is new; touches only the message meant |
| `app/index.py` | tables `messages`, `messages_fts`, `folder_state` | `upsert_messages`, `remove_message`, `update_flags`, `get/set_folder_state`, `search`, `recent`, `get_message` | rows, full text and cursor agree |
| `app/sync.py` | none of its own; locals of a pass | `sync` (a date window), `incremental` (after the cursor) | the saved cursor skips no mail; flags follow the server |
| `app/idle.py`, `_poll_loop`, `lifespan` | sessions, pauses, `_worker_stop` | connect, IDLE, `_fire`, pause, stop | mail is fetched in time; sessions are closed; stop ends it all |
| `POST /messages/{id}/archive` | none | locate, move, remove the row | moves the message meant; the row stays away |
| `app/automation.py` and its callers in `app/main.py` | batches, items, decisions, executions | classify new mail, take a callback, execute, record, complete | each inserted message is asked about once; each accepted action is done once, on the right mail, and on record |
| `app/hermes.py` | none | sign and post a batch | |
| `app/mail_parse.py` | none | walk the parts of a mail | the text a reader sees is the text that is indexed |
| the read endpoints | none | `/search`, `/recent`, `/messages/{id}` | within its limit an answer leaves nothing out |
| `app/auth.py` and the tokens of `app/config.py` | none | `verify`, `require_scope` | lets in what is configured, and nothing else |
| `app/safety.py`, `models.py`, `audit.py` | none (a log file) | limits, checks, lines of a log | |
| supervisord | the process | restart | |

How they interact:

* **Worker threads.** In mode `idle` there is one `IdleWatcher` thread for each idle folder,
  in mode `poll` one thread, and none if `interval_minutes` is 0. Each runs
  `_run_incremental`, a pass over *all* of `sync.folders`, and then gives the ids it inserted
  to `_auto_classify_inserted`. Threads are not coordinated; all of them watch one stop event.
* **The event loop.** The HTTP handlers are coroutines without an `await`: one runs to its end,
  IMAP calls included, before the next starts. They run beside the worker threads.
* **Shared state.** Threads and handlers share the SQLite file. Each method of `MessageIndex`
  and `AutomationStore` is one transaction under that object's own lock; nothing spans two calls.
* **The server** is also used by other mail clients, at any time.
* **Restart.** supervisord starts the process again; what was in memory is gone.

The hard parts follow from that: state read before an IMAP session and written after it, several
threads doing the same work, a UIDVALIDITY that changes under all of them, effects on the server
that no transaction covers, ids that exist in memory only, and callbacks that come again.
`PROJECT.json` lists them as hazards, each at its line.

## Modules and code

`EXTENDS` goes upwards; `MC*` modules hold the values of constants for TLC, `*Proofs` the proofs.

    MailServer                    the IMAP server (external)
      MessageIndex                app/index.py: rows, folder_state
        MailSync                  app/sync.py, fetch half of imap_client.py, workers, POST /sync
          MailArchive             the archive endpoint, composed with MailSync
          MailSyncProofs          types; no message is classified twice; each inserted one is
            CursorProofs          the cursor skips no mail
              ArchiveProofs       the right message is moved; a removed row stays away (with MailArchive)
    IdleWatcher                   app/idle.py, the poll loop, start and stop
      WatcherProofs               mail in time, pauses that double, one session, stop is heeded
    Automation                    app/automation.py, batches and callbacks in app/main.py
      AutomationProofs            types; Automation implements RequestLedger; an action is done once
        RecordProofs              decided before, recorded after, done if recorded; tried in order
    RequestLedger                 what the callbacks promise (abstract)
      LedgerProofs                an action is done once in the ledger
    FtsIndex                      messages and messages_fts, search
      MailReads                   from a mail to /search and /recent, with MailParse and TokenGate
        ReadsProofs               a search is complete and exact; MailReads implements FtsIndex; tokens
    MailParse                     app/mail_parse.py: which text is the body (no state)
    TokenGate                     app/auth.py, the configured tokens, the start of the service

**MailServer.** `mailbox[f]` maps UIDs to a message and a flag; `uidvalidity`, `uidnext`,
the day and the date of each message. `Deliver` may give a message a date in the past (a client moved
it in), `Renumber` changes UIDVALIDITY and gives UIDs from 1 in any order. A flag stands for the pair
(unread, flagged), a message for its content.

**MessageIndex.** `rows[f]` maps UIDs to what the index shows; `stable_id` is the pair folder and UID,
since the account is fixed. One operator for each method, used inside the actions of MailSync and
MailArchive.

**MailSync.** A thread's `pc` walks through a pass over one folder after another: `GetState`,
`FetchNew` (an IMAP session), `Ingest`, for POST /sync `Reread`, `SetState`, for workers `FetchFlags` and
`UpdateFlags`, then `Classify` or `Respond`. These are the points where a lock is released or
the network is used, so the points where others interleave. `PassFails` is any exception that leaves the pass, `FlagsFail`
one that is caught inside; with `StoreFails` the database raises too. `Crash` keeps the database only.
A message in `Unstorable` has a text that `upsert_messages` cannot encode; the transaction of its fetch then always raises.
`handed` remembers what went to classification.

**MailArchive** adds the handler's three steps `Locate`, `Move`, `Remove` and their failures:
`MoveFails` covers both a move that was not made and one whose answer was lost. `EventLoopFree`
is why handlers do not interleave with each other. The variable `removed` is a history variable.

**IdleWatcher.** What starts the passes. A watcher's `pc` follows `_run_once` and the loop around it: `connect` (session and
`select_folder`), `fire` (past the look at stop, the pass not yet begun), `pass`, `passed` (the inner loop again), `waiting` (IDLE), `backoff`. Calls that end quickly are steps; only `waiting` and
`backoff` take time, and `Tick` lets it pass for all threads at once. `Break` is any exception of a session: the pause begins with the session open,
and `logout` comes when it ends. `Stop` sets the event, which `wait` heeds at once and `idle_check` when it returns. `due[w]` is a history
variable: how soon after mail came in thread w is bound to fetch it. `caught` and `late` are history variables for stop. What a pass does is left to MailSync.

**Automation.** Of a pass, which is MailSync's, it has two steps: `Fetch` takes what is on the server, for some set of UIDs in `Searches`, and `Upsert` stores what was fetched (`held`),
as old as it may be by then; the ids whose rows are new go on, or are lost. The worker then reads their rows, chunks them into batches and sends them; `CreateFails` and `SendRaises` end its loop and drop the rest. `Callback` lets in what the endpoint lets in; then `Decide`,
`Act`, `Imap`, `RemoveRow`, `Record` follow the loop over recommendations and their actions, `Complete` ends it. `ImapFails`, `RecordRaises` and `CallFails` are the
three ways to raise: inside the try block at the server, inside it at the record, and outside it, at any database call or audit line. A body is what
`body_sha256` tells apart. `effects` and `touched` are history variables: what was done on the server, and on which mail.
One worker thread sends batches here; several would only add batches, since batches share nothing.
An answer names any number of the batch's messages, each once; an action list names each action at most once. `interrupted` holds the requests whose answer was cut off, by a restart or an error that leaves the handler.

**RequestLedger** is the abstract specification of Automation: a request is asked once; while it is answered each action may be carried
out once; an answer is completed, and then never given again, or cut off. `Automation!Ledger` maps to it: a request's status is its batch item's,
the requests being answered are those of the running call, and what may still be carried out is what is left of the call's action lists.

**FtsIndex.** Rows and postings by rowid. `FtsDelete` and `FtsUpdate` are FTS5's on an external-content
table: the terms to take out are those the content table has *at that moment*. `NewRowid` is SQLite's rule, so that
the rowid of the newest row is used again after it was removed.

**MailReads** puts the words of a mail into FtsIndex through `MailParse!parse_email`, keeps the other columns beside it, and
defines the answers of `/search` and `/recent` as sets: `ORDER BY date_utc DESC LIMIT n` leaves open which of two rows of the same day comes first.

**MailParse** has no state: a mail is a set of parts, a text a set of words and signs. **TokenGate** has the configured tokens, which `Start` reads;
it goes from a configuration to the status of a request (200, 401, 403). A configuration is a sequence of entries, which may share ids and tokens, and `verify` takes the first that is the same. Beside MailReads the service starts and restarts with any configuration of at most `MaxEntries`.

Definitions whose comment begins with *mutant of* are slips one could make in the code; no specification uses them.
They serve to see that each property notices such a slip.

## Runs

Every run is `tlc -config <run>.cfg <module>`.

| run | module | what it asks | answer |
|---|---|---|---|
| `sync_request` | MCMailSync | a worker and POST /sync for the default window; every step fails now and then; a restart; mail that cannot be parsed: `TypeOK`, `NoMailSkipped`, `AtMostOneHandover` | hold |
| `sync_renumbered` | MCMailSync | one worker, fetches and flag refreshes fail, a renumbering, mail that grows old, a message that cannot be parsed, one without a body: `NoMailSkipped`, `InsertedAreClassified`, `EventuallyIndexed` | hold |
| `sync_unstorable` | MCMailSync | one message of two cannot be stored | `EventuallyIndexed` fails |
| `classify_two_folders` | MCMailSync | two synced folders, fetches fail | `InsertedAreClassified` fails |
| `sync_flags` | MCMailSync | two workers, fetches fail, a restart: `FlagsConverge` | holds |
| `archive_one_worker` | MCMailArchive | requests beside one worker, moves and answers are lost: `ArchiveTypeOK`, `NoMailSkipped`, `NoGhost`, `RightMessageMoved` | hold |
| `archive_requests_only` | MCMailArchive | no worker, POST /sync, database errors, a restart: `NoGhost` | holds |
| `watcher` | IdleWatcher | two watchers, or the poll loop, or neither; sessions break, passes fail, the server reports or does not; shutdown: `TypeOK`, `FetchedInTime`, `PauseFollowsFailures`, `OneSession`, `StopIsHeeded`, `KeepsFiring`, `MailIsFetched`, `Stops` | hold |
| `callbacks` | MCAutomation | answers in portions, again, late; server calls fail; a worker holds what it fetched; one database error, restart or renumbering anywhere: `TypeOK`, `ActedOnce`, `EffectsRecorded`, `NoArchiveAfterFailedTag`, `AcceptedAreTried`, `ExecutedIsDone`, `ActsOnlyAsDecided`, `LedgerSpec` | hold |
| `callback_renumbered` | MCAutomation | a renumbering after the batch was sent | `ActsOnWhatWasAsked` fails |
| `search_and_recent` | MCMailReads | mails of each shape come, change, are read and go; limits that not all fit: `ReadsTypeOK`, `SearchFindsAll`, `FindsReadableText`, `RecentShowsUnread`; every configuration of at most two entries: `LetInAsConfigured` | hold |
| `search_changed` | MCFtsIndex | a message is replaced under its id | `SearchFindsOnly` fails |

The properties, in words:

* `NoMailSkipped`: while `folder_state` carries the server's UIDVALIDITY, every readable message of the default window whose
  UID is not above `last_uid` is in the index. The next incremental pass would not ask for it.
* `AtMostOneHandover`: an id that one thread holds as inserted is held by no other and was not handed over before.
* `InsertedAreClassified`: when nothing runs, each row the workers inserted has been handed over.
* `EventuallyIndexed`: mail that stays on the server is indexed, whatever fails and whatever its neighbours are, unless it leaves the window before.
* `FlagsConverge`: flags that other clients stop changing are the ones the index ends up with.
* `RightMessageMoved`: what leaves a folder during an archive request is the message its caller saw.
* `NoGhost`: a row removed by an archive request does not come back.
* `FetchedInTime`: mail is fetched within a refresh interval of its arrival, or by the end of the pause it came in, reported or not; a failure lifts the bound.
* `PauseFollowsFailures`: the nth failure in a row is followed by a pause of 5 s doubled n - 1 times, at most 300 s.
* `OneSession`: a watcher never holds two sessions, and none when it connects again or has ended.
* `StopIsHeeded`: after stop, a pass is begun only by a thread that stop found connecting, or between its look at stop and the pass. `Stops`: every thread ends.
* `KeepsFiring`: every thread starts passes for ever. `MailIsFetched`: mail is fetched in the end, whatever fails.
* `ActedOnce`: an action is done twice for a request only if an answer to it was cut off. `EffectsRecorded`: what was done on the server is in
  `automation_executions`, unless the answer was cut off.
* `LedgerSpec`: Automation implements RequestLedger.
* `AcceptedAreTried`: when an accepted recommendation has been answered, each of its actions that may run autonomously is on record as executed, or it or one
  listed before it as failed (the code breaks off there and records nothing about the rest).
* `ExecutedIsDone`: a message whose archive is on record as executed is not in its folder on the server. Of the index it says nothing (8).
* `ActsOnlyAsDecided`, `NoArchiveAfterFailedTag`, `ActsOnWhatWasAsked`: effects on the server against requests, decisions and records, as their comments say.
* `SearchFindsAll`, `SearchFindsOnly`: the result of a search against the words the rows have.
* `FindsReadableText`: a search for words a reader sees in a mail shows the mail, unless as many newer hits as the limit crowd it out.
* `RecentShowsUnread`: an unread mail of the window is crowded out of `/recent?unread_only` by unread mail only.
* `LetInAsConfigured`: a request is let in only if some completely configured entry has its token and grants the scope, and it is if every such entry does.

## Where the code departs from its documentation

The first four are runs that end with a counterexample; `PROJECT.json` quotes the sentence each contradicts.

1. `sync_unstorable`: a text with a lone surrogate passes `parse_email` and raises in `upsert_messages`, where `body_text` is encoded (`index.py:70`).
   The transaction of the whole fetch is rolled back and the cursor stays, so that every later pass and POST /sync meets the same mail again:
   no mail of that folder is indexed any more. A mail that raises while it is parsed is skipped (`imap_client.py:116-120`).
2. `classify_two_folders`: ids inserted from one folder are lost to classification when the fetch of a later folder raises
   (`main.py:312-325`). A crash or a database error does the same, and POST /sync never classifies what it inserts.
   With one folder, a database that works and no restart the property holds (`sync_renumbered`, `InsertedAreClassifiedCorrect`).
   In the same way the loop over batches drops the rest of the list when storing a batch or writing its audit line raises (`main.py:103-112`).
3. `callback_renumbered`: the check of a callback compares the index row with the batch (`main.py:526-531`), and the action goes to the
   server by folder and UID without UIDVALIDITY. After a renumbering it hits another message.
4. `search_changed`: `UPDATE messages` before `UPDATE messages_fts` leaves the old terms in the full-text index, for good: even a later
   message that gets the rowid is found by them. Such hits also take places within the limit of a search.

TLC shows more with the same modules under other constants. They limit what the passing runs may assume:

5. POST /sync after a renumbering stores the new UIDVALIDITY with the old `last_uid` (`sync.py:61-63`), so that the incremental passes see a folder they
   know and start too high (`sync_renumbered` with a request: `NoMailSkipped` fails). A worker that meets the renumbering first does it right.
6. POST /sync with fewer days than `sync.default_days` on a new folder (`DefaultDays = 2`, `RequestDays = {1}`) moves the cursor past mail that the
   worker's own window would have had: `NoMailSkipped` fails.
7. Across a renumbering (`MaxValidity = 2`, two workers) a slow worker writes rows of the old numbering over the new ones (`sync.py:89-95`):
   `NoMailSkipped` fails.
8. With a worker and POST /sync (`RequestFolders` not empty in MailArchive), or with a database that fails, a worker that holds a fetched message
   brings a row back that a request has archived: `NoGhost` fails. Nothing ever compares the index with the server, so the row stays.
   The archive action of a callback meets the same: in Automation a worker that fetched before (`held`) upserts after `RemoveRow`, and the row is back.
9. After a renumbering (`MaxValidity = 2`) the archive request moves another message, as in 3: `RightMessageMoved` fails.
10. A restart or a database error between an action and its record leaves an effect without a record, and between an action and `complete_batch_items`
    leaves the item pending, so that a retry of the callback acts again. `ActedOnce`, `EffectsRecorded` and `NoArchiveAfterFailedTag` hold apart from the requests this
    happened to (`interrupted`), and without that clause they fail.
11. `ActionLists = {<<"archive", "add_tag">>}` drops the tag, because `archive` removes the row that `add_tag` looks up, which is then recorded as skipped: `AcceptedAreTried` fails.

Read in the code, and left out of the properties for that reason:

12. A mail attached to a mail is walked, so its text becomes body text (`mail_parse.py:114`), though the plan says attachments are metadata only
    (`src/BOTT_MAIL_CAPABILITIES_PLAN_Version10.md:1012-1013`). `FindsReadableText` looks one way only: what is read is found.
13. If several entries of the configuration have one token, only the scopes of the first count, so that `LetInAsConfigured` promises access only where all of them grant it; a token's value is not stripped when it is configured, and is when it is presented.

## Bounds

`MaxUid`, `MaxValidity`, `MaxDay` bound what the server does; `MaxCrashes` restarts; `MaxBatches` and `MaxTime` batches and the clock; `MaxFaults` database errors,
restarts and renumberings together; `MaxEntries` the entries of a configuration; `Searches` what a pass of Automation may ask for; `MaxRowid` rowids. Each stands in the guard of the action that would exceed it (`MaxBatches` in `Upsert`, so that no worker is stopped halfway;
the one in `CreateBatch` never holds it up; `Tick` waits for a batch, since only a batch's age matters). `Served` is the configuration of tokens under which mail comes in: the index does not depend on it, so the others are only started before there is mail.
`MaxFailures` and `MaxAge` are where IdleWatcher stops counting; `CountAssumption` asks that the pause is at its maximum when it stops counting failures.

* Two messages are enough for one to be skipped behind another, or moved for another. Two UIDs let mail arrive behind a cursor that is no longer 0, before and after a renumbering;
  in `sync_renumbered` two ordinary messages share them with one that cannot be parsed and one without a body.
* Two UIDVALIDITY values make one renumbering. What a second one could do to a cursor it does from the same states.
* Two days beyond the first separate mail that is, was and never was inside a window of one day. Requests for more days than the default are left to `CursorCorrect`.
* Two threads are enough for one to hold a result while the other completes a pass; the proofs of `NoMailSkipped` and
  `AtMostOneHandover` cover any number.
* Two items make a batch that is answered in portions; one tick makes it expire; one batch per run is enough, as batches share nothing but the worker.
  The answers range over every list of recommendations about the batch's messages. One fault shows each kind of fault at each place; the theorems cover any number.
* The watcher's times are 1 for 30 s and for 5 s, 3 for 20 min and for 300 s; intervals of 2 and 4 are below and above the cap, 0 starts no thread. Pauses of 1, 2, 3
  reach the maximum; mail ages up to 5, more than any wait.
* Four mails cover the shapes of `extract_body`: single plain, blank plain beside HTML with hidden text, plain with an attached text and no date, HTML only and dated ahead. With a limit of 2
  three rows crowd each other out; a request that asks for 3 or 5 is cut down. Two entries of a configuration can share a token and differ in scopes; the theorem covers any number.
* `effects` counts to 2, since the property asks for at most 1.

`watcher` turns the deadlock check off, because after stop, or with an interval of 0, every thread has ended; `Stops` and `KeepsFiring` say where it must not end. No other run does. Symmetry (of messages or ids) is used where they differ in nothing, and in no liveness run.

## Fairness

`FairSpec` asks that a worker goes on when it can (`GoesOn`, weak fairness), and that an IMAP session which is attempted again and again, and
sometimes fails, also succeeds again and again (`ServerComesBack`, strong fairness). The watcher justifies the first: it
fires after activity, after every timeout and after every reconnect, its backoff is at most five minutes, and the poll loop fires each interval
(`idle.py:40-62`, `main.py:328-332`); exceptions end a pass and never a thread. The second assumes what the code cannot guarantee
but any mail client needs, that Bridge works from time to time. Nothing is assumed of HTTP clients, the server's other clients, or crashes.
It is the specification of `sync_renumbered`, `sync_flags` and `sync_unstorable`, which leave database errors out (`StoreFails = FALSE`).

`IdleWatcher!Spec` asks that each thread takes its next step (weak fairness of `Watch`, `Poll`, the beginning of a pass included: nothing in the code blocks but the waits, given that every IMAP call returns or raises), that
connecting and fetching, tried again and again, succeed again and again (strong fairness of `Connect` and `Pass`: Bridge works from time to time), and that time goes on
(strong fairness of `Tick`: other threads' steps disable it, and they are short beside the waits). It asks nothing of `Report`: a server may never report anything. From this `KeepsFiring` follows, which is
what MailSync's `GoesOn` assumes of its workers when they are idle. `imap_client.py` sets no timeout for its sockets, so a call that never returns is outside the assumption.

## Proofs

All are checked by `tlapm` down to the leaves. Every safety property of a passing run is stated by a theorem. Where a theorem has a hypothesis, the
departure in brackets is what happens without it.

**MailSync** (`MailSyncProofs`, `CursorProofs`)

* `TypeCorrect`: `Spec => []TypeOK`, from `ServerAssumption` and `SyncAssumption`. TypeOK is inductive. It is split into
  the server's, the index's and the threads' part; each action disturbs few of them.
* `HandoverCorrect`: `Spec => []AtMostOneHandover`. Not inductive alone: that an id inserted now was not
  handed over before follows from each id held or handed over having a row ever since. `HandoverInv` adds that.
  It holds in MailSync, where no row is ever removed; with MailArchive an id that is archived and resurrected (8) is inserted again.
* `InsertedAreClassifiedCorrect`: `Spec => []InsertedAreClassified` for any number of workers, assuming one synced folder (`OneFolder`), no POST /sync, a database that works and no restart [2].
  `ToHandInv` says that each row's id was handed over or is held as inserted by a thread in a pass, and that a worker which holds ids is past the only fetch of its pass, so that no failure left to it can drop them.
* `CursorCorrect`: `Spec => []NoMailSkipped`, assuming `NoRenumbering` (MaxValidity = 1) [7] and `WideRequests` (each request's window
  is at least the default) [6]. The inductive invariant
  `CursorInv` says of each folder that the saved cursor is good, and of each thread in the middle of a folder that the cursor it read is still good, that its
  result is genuine (what it holds is what the server has under that UID) and complete (up to its highest UID, what is missing from it is indexed), and that after its upsert each UID of it is a
  good cursor. A cursor once good stays good: rows do not vanish, delivered mail gets higher UIDs, and mail only gets older. So it does not matter
  in which order threads store what they read.
* `CursorAcrossRenumberings`: the same for any number of renumberings, if one worker is the only thread (`WorkerAlone`) [5, 7]. Now the clauses are
  conditional: the saved cursor is good if its UIDVALIDITY is the server's (`Saved`), and a result is genuine and complete if the server still has the UIDVALIDITY it was fetched
  under (`Result`). A renumbering makes both conditions false at once, for good, as UIDVALIDITY only grows; what the thread then stores carries the old one.

**MailArchive** (`ArchiveProofs`)

* `ArchiveTypes`: `ArchiveSpec => []ArchiveTypeOK`. Not a consequence of `TypeCorrect`: a move takes mail from the server and a removal rows from the index.
* `RightMessageMovedCorrect`: `ArchiveSpec => RightMessageMoved`, an action property, assuming `NoRenumbering` [9], beside any number of workers. Under one UIDVALIDITY a UID is never given
  twice; so what is in a row or in a fetched result is what the server has under that UID, if it has it (`GenuineMail`), a message is in a mailbox once (`OneCopy`), and what the caller
  was shown is what is there (`RequestInv`).
* `ArchiveCursorCorrect`: `CursorCorrect` again, with messages moved and rows removed meanwhile. A row is removed only when the server no longer has the mail, so a good cursor stays good.
* `NoGhostWithoutWorkers`, `NoGhostBesideOneWorker`: `ArchiveSpec => []NoGhost` under `NoRenumbering`, where only handlers run, with every failure and restart, and where one worker runs but no POST /sync,
  and neither the database fails nor the process restarts (`OnlyWorker`) [8]. These are the two runs for any folders, messages and bounds. `GhostInv`: a removed id has no row, its UID is not
  on the server and was given before, and no thread holds it in a result it is about to upsert. That nobody holds it when it is removed is `NothingHeld`: in the first, since the event loop serves one
  handler at a time (`OneHandler`); in the second, since each row is at or below the cursor the worker read or was upserted by it just now, and what it is about to upsert is above that cursor (`LoneWorker`).

**IdleWatcher** (`WatcherProofs`)

* `WatcherTypes`, `FetchedInTimeTheorem`, `OneSessionTheorem`, `StopIsHeededTheorem`, for any folders, intervals and pauses, from `WatcherAssumption`. The invariant `WatcherInv` says
  beside the types how long each thread may have waited (`Waits`), that what is left of the wait of a thread bound to fetch fits into what is left of its time (`Timely`), that a
  started thread ends only after stop (`Alive`), that after stop only threads it caught there can be connecting or about to begin a pass (`Caught`), and how many sessions a thread has at each place (`Sessions`).
* `PauseFollowsFailuresTheorem`: `Spec => []PauseFollowsFailures`, from `WatcherAssumption` and `CountAssumption` (counting stops only where the pause is at its maximum). `Backoffs` ties the
  pause to come to the count of failures. It needs the defining equation of the recursive function `Doubled`, which takes an induction; the library's induction theorems have an operator as parameter, so
  `LeastNumber` (every set of naturals that is not empty has a least element, from the well-foundedness of < on Nat) takes its place, and the proof looks at a least counterexample.

**Automation** (`AutomationProofs`, `LedgerProofs`, `RecordProofs`)

* `AutomationTypes`: `Spec => []TypeOK`. `AutomationInv` adds to it of the running call that its requests are pending items of its batch, each of them answered once, that
  the actions left are different from each other, and which of its fields are set at which step.
* `LedgerCorrect`: `Spec => LedgerSpec`, the refinement. Each action of Automation is shown to be a step of the ledger under the mapping or to change nothing there: `CreateBatch` asks,
  `Callback` answers, `Decide`, `ItemDone` and `Act` drop what is refused or skipped, `Imap` and `ImapFails` carry out or drop, `Complete` completes, `CallFails` and `Crash` cut off. The invariant is
  needed to see that a call completes exactly the requests it was answering, and that a callback answers only requests whose status is pending.
  That an action list is injective (`AutomationAssumption`) is needed: with one action named twice the code does it twice.
* `OnceCorrect`: in the ledger nothing is carried out twice but for requests that were cut off. `LedgerInv` (`Accounted`) says that an effect belongs to a request being answered and is no longer allowed, to one that is
  completed, or to one that was cut off. `ActedOnceCorrect` takes it through the refinement to `Spec => []ActedOnce`.
* `ActsOnlyAsDecidedCorrect`, `EffectsRecordedCorrect`, `ExecutedIsDoneCorrect`, each from `AutomationInv` and one strengthening that says where the running call stands: what it has yet to do
  was accepted (`Decided`); an effect without a record is that of the action about to be recorded (`Recorded`); a message about to be taken out of the index, or to be
  recorded as archived, has left its folder (`Gone`). `ExecutedIsDone` speaks of the server only, for mailboxes that keep their numbers; the index is departure 8.
* `AcceptedAreTriedCorrect`, `NoArchiveAfterFailedTagCorrect`, for recommendations that name the archive last if at all (`ArchiveLast`) [11]. The call answers one request after
  another and what it has left of a list still ends with the archive (`Ordered`); so the row is there as long as an autonomous action is left, and none is skipped for want of it (`InIndex`); and of each accepted decision the call has put on record
  what it is past, up to a failure that ends it (`Traced`). After a
  failed tag nothing is left to do for that request, and after an archive no autonomous action (`Tagged`).

**FtsIndex, MailReads, TokenGate** (`ReadsProofs`)

* `SearchComplete`: `Spec => []SearchFindsAll`. The invariant is that each row has its postings; no operation on one rowid takes
  a posting of another, and an update puts in what it took out.
* `SearchExact`: `Spec => []SearchFindsOnly`, if an id has one content only (`FixedContent`) [4]. Then the terms an update or a removal takes out are those that were put in, and there is no posting without its row (`NoStalePostings`).
* `ReadsKeepsToFts`: `ReadsSpec => Spec`, MailReads implements FtsIndex: what it says beside the full text adds no step of the full text.
* `ReadsTypes`, `FindsReadableTextCorrect`, `RecentShowsUnreadCorrect`: for any mails, windows and limits. `ReadsInv` says that the columns of a row are those of one mail and that its postings are the words of that mail.
  That a limit is filled is counted with the cardinality of the rows ahead.
* `LetInAsConfiguredCorrect`: configurations of any number of entries, shared tokens included [13]. That a presented token which somebody holds finds a first holder is the well-foundedness of < on Nat.

## What is only checked, and what is not modelled

Liveness (`EventuallyIndexed`, `FlagsConverge`, `KeepsFiring`, `MailIsFetched`, `Stops`) is model-checked only: fairness and ENABLED are beyond the prover here.
So are the four departures, which are counterexamples.

Not modelled:

* `audit.py`: it appends a line to a file. That an append may raise is part of `RecordRaises`, `CallFails` and `SendRaises`.
* The payload and signature of `hermes.py`, address lists, date formats, whitespace and charsets of `mail_parse.py`, `clamp_body` and snippets: formatting without state.
* `config.py` beyond the tokens and `models.py`: settings are read once at start and are CONSTANTS here; request models check types and ranges before a handler runs.
* A call without end (no socket timeout), memory use of a large fetch, and blocking of the event loop by a slow IMAP call, which delays and does not change what is computed.
* Names: folders are excluded by name here, not by its lower case; labels are a mailbox that is there or not.

`unsubscribe` has no executor in the code and is recorded as skipped, which Automation shows.

## Plan

1. *Written*: MailServer, MessageIndex, MailSync, MailArchive, IdleWatcher, Automation, RequestLedger, FtsIndex, MailReads, MailParse, TokenGate with their runs; a theorem for
   every safety property of a passing run, and the refinements of RequestLedger and FtsIndex.
2. An abstract mirror of a mailbox (each folder's index follows the server's history) and MailSync shown to implement it without renumbering.
3. Composition of Automation with MailArchive's server and index: ids as folder and UID, batches from real passes, actions against UIDVALIDITY.
4. `clamp_body` and the resolution of labels against reference definitions.
