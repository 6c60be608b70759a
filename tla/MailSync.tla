------------------------------ MODULE MailSync ------------------------------
(***************************************************************************)
(* app/sync.py (Syncer), the fetch half of app/imap_client.py and their    *)
(* callers in app/main.py.                                                 *)
(*                                                                         *)
(* The worker threads (one IDLE watcher per idle folder, or the one poll   *)
(* thread) run Syncer.incremental; the HTTP event loop runs Syncer.sync    *)
(* for POST /sync, one request at a time.  All of them share the message   *)
(* index and the server, and nothing but the index's own lock orders them: *)
(* every lock-protected index call and every IMAP session is one step.     *)
(***************************************************************************)
EXTENDS MessageIndex, Sequences

CONSTANTS
  Workers,         \* the background threads
  Http,            \* the event loop that runs the HTTP handlers
  SyncFolders,     \* settings.sync.folders
  ExcludeFolders,  \* settings.sync.exclude_folders
  RequestFolders,  \* the folder lists a POST /sync may carry
  DefaultDays,     \* settings.sync.default_days
  RequestDays,     \* the day counts a POST /sync may carry, 0 for none
  MaxSyncDays,     \* settings.safety.max_sync_days
  Unparseable,     \* messages parse_email raises on
  Bodyless,        \* messages the server returns no RFC822 body for
  Unstorable,      \* messages whose text, once parsed, UTF-8 cannot encode
  StoreFails,      \* whether a call of the index may raise (locked, disk full)
  MaxCrashes       \* bound: restarts of the service

Threads == Workers \cup {Http}

TargetFolders(folders) == SelectSeq(folders, LAMBDA f : f \notin ExcludeFolders)

\* The last conjunct follows from the one before it: filtering a sequence of
\* folders leaves a sequence of folders.
ASSUME SyncAssumption ==
  /\ Http \notin Workers
  /\ DefaultDays \in Nat \ {0}
  /\ MaxSyncDays \in Nat \ {0}
  /\ RequestDays \subseteq Nat
  /\ StoreFails \in BOOLEAN
  /\ MaxCrashes \in Nat
  /\ None \notin Nat
  /\ \A folders \in RequestFolders \cup {SyncFolders} :
       folders \in Seq(Folders) /\ TargetFolders(folders) \in Seq(Folders)

VARIABLES
  pc,        \* pc[t] is what thread t does next
  todo,      \* todo[t] are the folders its pass has still to sync
  days,      \* days[t] is the window of its pass
  known,     \* known[t] is the folder state it read
  fetched,   \* fetched[t] is the FetchResult it holds
  prev,      \* prev[t] is the last_uid that Syncer.sync read again
  newflags,  \* newflags[t] is the result of fetch_flags it holds
  inserted,  \* inserted[t] are the ids its pass inserted so far
  handed,    \* ids given to classification so far
  crashes    \* restarts so far

passVars == <<todo, days, known, fetched, prev, newflags, inserted>>
syncVars == <<pc, passVars, handed, crashes>>
vars == <<serverVars, indexVars, syncVars>>

Steps == {"idle", "get_state", "fetch_new", "ingest", "reread", "set_state",
          "fetch_flags", "update_flags", "done"}

NoResult == [uidvalidity |-> 0, reset |-> FALSE, messages |-> NoUids]

TypeOK ==
  /\ ServerTypeOK
  /\ IndexTypeOK
  /\ pc \in [Threads -> Steps]
  /\ todo \in [Threads -> Seq(Folders)]
  /\ \A t \in Threads : pc[t] \notin {"idle", "done"} => todo[t] # <<>>
  /\ days \in [Threads -> Nat]
  /\ known \in [Threads -> FolderState]
  /\ prev \in [Threads -> Nat]
  /\ DOMAIN fetched = Threads
  /\ DOMAIN newflags = Threads
  /\ \A t \in Threads :
       /\ fetched[t].uidvalidity \in Nat
       /\ fetched[t].reset \in BOOLEAN
       /\ \A u \in DOMAIN fetched[t].messages :
            u \in Nat /\ fetched[t].messages[u] \in Entry
       /\ \A u \in DOMAIN newflags[t] : newflags[t][u] \in FlagStates
  /\ inserted \in [Threads -> SUBSET (Folders \X Nat)]
  /\ handed \subseteq Folders \X Nat
  /\ crashes \in Nat

Init ==
  /\ ServerInit
  /\ IndexInit
  /\ pc = [t \in Threads |-> "idle"]
  /\ todo = [t \in Threads |-> <<>>]
  /\ days = [t \in Threads |-> 0]
  /\ known = [t \in Threads |-> NeverSynced]
  /\ fetched = [t \in Threads |-> NoResult]
  /\ prev = [t \in Threads |-> 0]
  /\ newflags = [t \in Threads |-> NoUids]
  /\ inserted = [t \in Threads |-> {}]
  /\ handed = {}
  /\ crashes = 0

-----------------------------------------------------------------------------
(* What the code computes. *)

\* mutant of clamp_days: no default for a request without a day count
clamp_days_NoDefault(requested) ==
  IF requested <= MaxSyncDays THEN requested ELSE MaxSyncDays

clamp_days(requested) ==
  LET wanted == IF requested <= 0 THEN DefaultDays ELSE requested
  IN  IF wanted <= MaxSyncDays THEN wanted ELSE MaxSyncDays

\* the answer of SEARCH SINCE: decided by the internal date, whatever the UID
InWindow(m, window) == date[m] >= today - window

IsReset(state, f) ==
  state.uidvalidity # None /\ state.uidvalidity # uidvalidity[f]

\* mutant of ResumeFrom: a worker never resumes
ResumeFrom_Never(t) == 0

\* Syncer.sync always asks for the window, Syncer.incremental resumes
ResumeFrom(t) == IF t = Http THEN 0 ELSE known[t].last_uid

\* mutant of SearchedUids: an off-by-one at the cursor
SearchedUids_OffByOne(f, last, reset, window) ==
  {u \in DOMAIN mailbox[f] :
     IF last <= 0 \/ reset THEN InWindow(mailbox[f][u].msg, window) ELSE u > last + 1}

\* The UIDs fetch_new asks the server for.  "N:*" may also echo the highest
\* UID; the code filters that one out again.
SearchedUids(f, last, reset, window) ==
  {u \in DOMAIN mailbox[f] :
     IF last <= 0 \/ reset THEN InWindow(mailbox[f][u].msg, window) ELSE u > last}

fetch_new(f, state, last, window) ==
  LET reset == IsReset(state, f)
      uids  == SearchedUids(f, last, reset, window)
  IN  [uidvalidity |-> uidvalidity[f],
       reset       |-> reset,
       messages    |-> [u \in {v \in uids : mailbox[f][v].msg \notin Bodyless} |->
                          mailbox[f][u]]]

Parsed(messages) ==
  [u \in {v \in DOMAIN messages : messages[v].msg \notin Unparseable} |-> messages[u]]

IsMaxUid(top, messages) ==
  /\ top \in {0} \cup DOMAIN messages
  /\ \A u \in DOMAIN messages : u <= top

Larger(a, b) == IF a >= b THEN a ELSE b

\* mutant of NewLast: the cursor survives a change of UIDVALIDITY
NewLast_KeptOnReset(t, top) ==
  IF t = Http THEN Larger(prev[t], top) ELSE Larger(known[t].last_uid, top)

\* the last_uid a thread stores, after fetching messages up to UID top
NewLast(t, top) ==
  IF t = Http
    THEN Larger(prev[t], top)
    ELSE Larger(IF fetched[t].reset THEN 0 ELSE known[t].last_uid, top)

\* mutant of FlagsOf: only messages that are not indexed yet
FlagsOf_NewOnly(f, window) ==
  [u \in {v \in DOMAIN mailbox[f] \ DOMAIN rows[f] : InWindow(mailbox[f][v].msg, window)} |->
     mailbox[f][u].flag]

\* fetch_flags: the flags of the window, no bodies
FlagsOf(f, window) ==
  [u \in {v \in DOMAIN mailbox[f] : InWindow(mailbox[f][v].msg, window)} |->
     mailbox[f][u].flag]

-----------------------------------------------------------------------------
(* The steps of a pass. *)

Folder(t) == Head(todo[t])

Goto(t, step) == pc' = [pc EXCEPT ![t] = step]

\* the locals of one folder go out of scope
ForgetFolder(t) ==
  /\ known' = [known EXCEPT ![t] = NeverSynced]
  /\ fetched' = [fetched EXCEPT ![t] = NoResult]
  /\ prev' = [prev EXCEPT ![t] = 0]
  /\ newflags' = [newflags EXCEPT ![t] = NoUids]

StartPass(t, folders, window) ==
  /\ pc[t] = "idle"
  /\ todo' = [todo EXCEPT ![t] = TargetFolders(folders)]
  /\ days' = [days EXCEPT ![t] = window]
  /\ Goto(t, IF TargetFolders(folders) = <<>> THEN "done" ELSE "get_state")
  /\ UNCHANGED <<serverVars, indexVars, known, fetched, prev, newflags, inserted,
                 handed, crashes>>

\* mutant of NextFolder: the loop does not notice its end
NextFolder_NoEnd(t) ==
  /\ todo' = [todo EXCEPT ![t] = Tail(@)]
  /\ Goto(t, "get_state")
  /\ ForgetFolder(t)
  /\ UNCHANGED <<days, inserted, handed, crashes>>

NextFolder(t) ==
  /\ todo' = [todo EXCEPT ![t] = Tail(@)]
  /\ Goto(t, IF Tail(todo[t]) = <<>> THEN "done" ELSE "get_state")
  /\ ForgetFolder(t)
  /\ UNCHANGED <<days, inserted, handed, crashes>>

\* a worker wakes up: IDLE activity, IDLE timeout, poll interval, reconnect
Wake(w) == StartPass(w, SyncFolders, DefaultDays)

\* POST /sync
Sync(folders, requested) == StartPass(Http, folders, clamp_days(requested))

GetState(t) ==
  /\ pc[t] = "get_state"
  /\ known' = [known EXCEPT ![t] = folder_state[Folder(t)]]
  /\ Goto(t, "fetch_new")
  /\ UNCHANGED <<serverVars, indexVars, todo, days, fetched, prev, newflags, inserted,
                 handed, crashes>>

\* one read-only IMAP session: SELECT, SEARCH, FETCH
FetchNew(t) ==
  /\ pc[t] = "fetch_new"
  /\ fetched' = [fetched EXCEPT ![t] =
                   fetch_new(Folder(t), known[t], ResumeFrom(t), days[t])]
  /\ Goto(t, "ingest")
  /\ UNCHANGED <<serverVars, indexVars, todo, days, known, prev, newflags, inserted,
                 handed, crashes>>

\* body_text.encode() raises in upsert_messages, and its transaction with it
CannotStore(t) ==
  \E u \in DOMAIN Parsed(fetched[t].messages) : fetched[t].messages[u].msg \in Unstorable

\* _ingest: parse, skip what cannot be parsed, upsert the rest
Ingest(t) ==
  /\ pc[t] = "ingest"
  /\ ~CannotStore(t)
  /\ upsert_messages(Folder(t), Parsed(fetched[t].messages))
  /\ inserted' = [inserted EXCEPT ![t] =
                    @ \cup inserted_ids(Folder(t), Parsed(fetched[t].messages))]
  /\ Goto(t, IF t = Http THEN "reread" ELSE "set_state")
  /\ UNCHANGED <<serverVars, todo, days, known, fetched, prev, newflags, handed, crashes>>

\* Syncer.sync reads the folder state once more, and uses only its last_uid
Reread ==
  /\ pc[Http] = "reread"
  /\ prev' = [prev EXCEPT ![Http] = folder_state[Folder(Http)].last_uid]
  /\ Goto(Http, "set_state")
  /\ UNCHANGED <<serverVars, indexVars, todo, days, known, fetched, newflags, inserted,
                 handed, crashes>>

StoreState(t) ==
  \E top \in {0} \cup DOMAIN fetched[t].messages :
    /\ IsMaxUid(top, fetched[t].messages)
    /\ set_folder_state(Folder(t), fetched[t].uidvalidity, NewLast(t, top))

SetState(t) ==
  /\ pc[t] = "set_state"
  /\ StoreState(t)
  /\ UNCHANGED serverVars
  /\ IF t = Http
       THEN NextFolder(t)
       ELSE /\ Goto(t, "fetch_flags")
            /\ UNCHANGED <<passVars, handed, crashes>>

FetchFlags(w) ==
  /\ pc[w] = "fetch_flags"
  /\ newflags' = [newflags EXCEPT ![w] = FlagsOf(Folder(w), days[w])]
  /\ Goto(w, "update_flags")
  /\ UNCHANGED <<serverVars, indexVars, todo, days, known, fetched, prev, inserted,
                 handed, crashes>>

UpdateFlags(w) ==
  /\ pc[w] = "update_flags"
  /\ update_flags(Folder(w), newflags[w])
  /\ UNCHANGED serverVars
  /\ NextFolder(w)

\* the pass ends: by its return, or by an exception that leaves it
EndPass(t) ==
  /\ Goto(t, "idle")
  /\ todo' = [todo EXCEPT ![t] = <<>>]
  /\ days' = [days EXCEPT ![t] = 0]
  /\ inserted' = [inserted EXCEPT ![t] = {}]
  /\ ForgetFolder(t)
  /\ UNCHANGED crashes

\* mutant of FlagsFail: the exception leaves the pass
FlagsFail_EndsPass(w) ==
  /\ pc[w] \in {"fetch_flags", "update_flags"}
  /\ pc[w] = "update_flags" => StoreFails
  /\ UNCHANGED <<serverVars, indexVars, handed>>
  /\ EndPass(w)

\* an exception of fetch_flags or update_flags is logged and the pass goes on
FlagsFail(w) ==
  /\ pc[w] \in {"fetch_flags", "update_flags"}
  /\ pc[w] = "update_flags" => StoreFails
  /\ UNCHANGED <<serverVars, indexVars>>
  /\ NextFolder(w)

\* Any other exception: _run_incremental logs it, POST /sync answers 500.
\* What the pass committed stays; the result it was building is dropped.
PassFails(t) ==
  /\ \/ pc[t] = "fetch_new"
     \/ pc[t] = "ingest" /\ CannotStore(t)
     \/ StoreFails /\ pc[t] \in {"get_state", "ingest", "reread", "set_state",
                                  "done"}
  /\ EndPass(t)
  /\ UNCHANGED <<serverVars, indexVars, handed>>

\* the ids _auto_classify_inserted puts into batches: those still indexed
ToClassify(w) == {id \in inserted[w] : HasRow(id)}

Classify(w) ==
  /\ pc[w] = "done"
  /\ handed' = handed \cup ToClassify(w)
  /\ EndPass(w)
  /\ UNCHANGED <<serverVars, indexVars>>

\* POST /sync answers; its inserted_ids are not classified
Respond ==
  /\ pc[Http] = "done"
  /\ EndPass(Http)
  /\ UNCHANGED <<serverVars, indexVars, handed>>

\* the process dies and supervisord starts it again: only the database stays
Crash ==
  /\ crashes < MaxCrashes
  /\ crashes' = crashes + 1
  /\ pc' = [t \in Threads |-> "idle"]
  /\ todo' = [t \in Threads |-> <<>>]
  /\ days' = [t \in Threads |-> 0]
  /\ known' = [t \in Threads |-> NeverSynced]
  /\ fetched' = [t \in Threads |-> NoResult]
  /\ prev' = [t \in Threads |-> 0]
  /\ newflags' = [t \in Threads |-> NoUids]
  /\ inserted' = [t \in Threads |-> {}]
  /\ UNCHANGED <<serverVars, indexVars, handed>>

ThreadNext(t) ==
  \/ GetState(t)
  \/ FetchNew(t)
  \/ Ingest(t)
  \/ SetState(t)
  \/ PassFails(t)

WorkerNext(w) ==
  \/ Wake(w)
  \/ FetchFlags(w)
  \/ UpdateFlags(w)
  \/ FlagsFail(w)
  \/ Classify(w)

HttpNext ==
  \/ \E folders \in RequestFolders, requested \in RequestDays : Sync(folders, requested)
  \/ Reread
  \/ Respond

ServiceNext ==
  \/ \E t \in Threads : ThreadNext(t)
  \/ \E w \in Workers : WorkerNext(w)
  \/ HttpNext
  \/ Crash

Next ==
  \/ ServiceNext
  \/ ServerNext /\ UNCHANGED <<indexVars, syncVars>>

Spec == Init /\ [][Next]_vars

-----------------------------------------------------------------------------
(* Fairness, for an index that works (StoreFails = FALSE).  A thread that   *)
(* can go on does.  An IMAP session may fail, but not for ever: passes are  *)
(* repeated, and one that is attempted again and again succeeds again and   *)
(* again.  Nothing is assumed of the server's other clients, of the HTTP    *)
(* clients or of crashes.                                                   *)

GoesOn(w) ==
  /\ WF_vars(Wake(w)) /\ WF_vars(GetState(w)) /\ WF_vars(Ingest(w)) /\ WF_vars(SetState(w))
  /\ WF_vars(UpdateFlags(w)) /\ WF_vars(Classify(w))
  /\ WF_vars(CannotStore(w) /\ PassFails(w))

ServerComesBack(w) == SF_vars(FetchNew(w)) /\ SF_vars(FetchFlags(w))

FairSpec == Spec /\ \A w \in Workers : GoesOn(w) /\ ServerComesBack(w)

-----------------------------------------------------------------------------
(* Properties. *)

Readable(m) == m \notin Unparseable \cup Bodyless

Recent(m) == date[m] >= today - DefaultDays

Indexed(f, u) == u \in DOMAIN rows[f] /\ rows[f][u].msg = mailbox[f][u].msg

\* every readable and recent message of f with a UID of at most last is indexed
Covered(f, last) ==
  \A u \in DOMAIN mailbox[f] :
    u <= last /\ Readable(mailbox[f][u].msg) /\ Recent(mailbox[f][u].msg) => Indexed(f, u)

\* The saved cursor skips no mail: what the next incremental pass will not ask
\* for because its UID is not above last_uid is already in the index.  Syncer
\* moves the cursor after the upsert, from values read before it, while other
\* threads and the server go on.
NoMailSkipped ==
  \A f \in Folders :
    folder_state[f].uidvalidity = uidvalidity[f] => Covered(f, folder_state[f].last_uid)

\* An id is given to classification by one thread and once, although several
\* threads fetch and upsert the same new message: upsert_messages reports an
\* id as inserted to exactly one of them, and restarts do not report it again.
AtMostOneHandover ==
  /\ \A t \in Threads : inserted[t] \cap handed = {}
  /\ \A s, t \in Threads : s # t => inserted[s] \cap inserted[t] = {}

Ids == {stable_id(f, u) : f \in Folders, u \in 1..MaxUid}

\* "Sends newly inserted mail to Hermes for classification"
\* (config.example.yaml): when no pass is running, every row that the workers
\* inserted has been given to classification.
InsertedAreClassified ==
  (\A t \in Threads : pc[t] = "idle") => \A id \in Ids : HasRow(id) => id \in handed

Present(f, m) == \E u \in DOMAIN mailbox[f] : mailbox[f][u].msg = m

IndexedMessage(f, m) ==
  \E u \in DOMAIN mailbox[f] : mailbox[f][u].msg = m /\ Indexed(f, u)

\* Mail that stays on the server reaches the index, whatever fails or restarts
\* on the way and whatever its neighbours are, unless it grows too old before it
\* was ever fetched: "/sync indexes recent INBOX mail" (the capabilities plan).
EventuallyIndexed ==
  \A f \in Folders, m \in {n \in Messages \ Unstorable : Readable(n)} :
    Present(f, m) ~> IndexedMessage(f, m) \/ ~Present(f, m) \/ ~Recent(m)

HasFlag(f, m, flag) ==
  Recent(m) /\ \E u \in DOMAIN mailbox[f] : mailbox[f][u] = [msg |-> m, flag |-> flag]

ShowsFlag(f, m, flag) ==
  \E u \in DOMAIN mailbox[f] : mailbox[f][u].msg = m
    /\ u \in DOMAIN rows[f] /\ rows[f][u] = [msg |-> m, flag |-> flag]

\* A flag that other clients stop changing is the one the index ends up
\* showing: a thread that still holds older flags cannot have the last word.
FlagsConverge ==
  \A f \in Folders, m \in Messages, flag \in FlagStates :
    Readable(m) /\ <>[]HasFlag(f, m, flag) => <>[]ShowsFlag(f, m, flag)

=============================================================================
