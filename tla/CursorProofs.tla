----------------------------- MODULE CursorProofs -----------------------------
(***************************************************************************)
(* The saved cursor skips no mail, whatever the number of threads, folders *)
(* and restarts, as long as the server does not renumber a mailbox and no  *)
(* POST /sync asks for less than the default window.  Without either       *)
(* assumption it does skip mail, in the ways README.md names; a single     *)
(* worker without POST /sync skips none even if mailboxes are renumbered.  *)
(***************************************************************************)
EXTENDS MailSyncProofs

NoRenumbering == MaxValidity = 1

WideRequests == \A requested \in RequestDays : clamp_days(requested) >= DefaultDays

\* Nothing on the server at or below last is missing from the index, and the
\* next UID of the folder is above it.
GoodCursor(f, last) == Covered(f, last) /\ last < uidnext[f]

\* The messages a thread fetched are those of its folder.
Genuine(f, messages) ==
  \A u \in DOMAIN messages :
    /\ u < uidnext[f]
    /\ u \in DOMAIN mailbox[f] => mailbox[f][u].msg = messages[u].msg

\* Up to the highest UID among them, and counting what is indexed already,
\* they are all there is.
Complete(f, messages) ==
  \A u \in DOMAIN mailbox[f] :
    (\E v \in DOMAIN messages : u <= v)
      /\ Readable(mailbox[f][u].msg) /\ Recent(mailbox[f][u].msg)
    => u \in DOMAIN messages \/ Indexed(f, u)

\* What a thread in the middle of a folder relies on: the cursor it read stays
\* good, its result stays genuine and complete, and once it is in the index
\* every UID of it is a good cursor.
ThreadInv(t) ==
  /\ known[t].uidvalidity \in {None, 1}
  /\ pc[t] \notin {"idle", "done"} => days[t] >= DefaultDays
  /\ pc[t] \in {"fetch_new", "ingest", "reread", "set_state"} =>
       GoodCursor(Folder(t), known[t].last_uid)
  /\ pc[t] \in {"ingest", "reread", "set_state"} =>
       /\ fetched[t].uidvalidity = 1
       /\ ~fetched[t].reset
       /\ Genuine(Folder(t), fetched[t].messages)
  /\ pc[t] = "ingest" => Complete(Folder(t), fetched[t].messages)
  /\ pc[t] \in {"reread", "set_state"} =>
       \A u \in DOMAIN fetched[t].messages : GoodCursor(Folder(t), u)
  /\ t = Http /\ pc[t] = "set_state" => GoodCursor(Folder(t), prev[t])

CursorInv ==
  /\ TypeOK
  /\ \A f \in Folders :
       /\ folder_state[f].uidvalidity \in {None, 1}
       /\ GoodCursor(f, folder_state[f].last_uid)
  /\ \A t \in Threads : ThreadInv(t)

-----------------------------------------------------------------------------
(* What a step leaves alone. *)

\* The messages known to the server's UID counter before the step are still
\* the same afterwards, or gone, and have not become more recent.
MailKept(f) ==
  /\ uidnext[f] <= uidnext'[f]
  /\ \A u \in DOMAIN mailbox'[f] : u < uidnext[f] =>
       /\ u \in DOMAIN mailbox[f]
       /\ mailbox'[f][u].msg = mailbox[f][u].msg
       /\ date'[mailbox[f][u].msg] >= today' - DefaultDays => Recent(mailbox[f][u].msg)

\* The row of a message that is on the server stays; it may be overwritten,
\* but only with what the server has at its UID.
IndexKept(f) ==
  \A u \in DOMAIN rows[f] \cap DOMAIN mailbox[f] :
    /\ u \in DOMAIN rows'[f]
    /\ rows'[f][u].msg \in {rows[f][u].msg, mailbox[f][u].msg}

\* GoodCursor, Genuine and Complete as they are after the step, for a folder
\* and values taken before it.
GoodCursorNext(f, last) ==
  /\ last < uidnext'[f]
  /\ \A u \in DOMAIN mailbox'[f] :
       u <= last /\ Readable(mailbox'[f][u].msg)
         /\ date'[mailbox'[f][u].msg] >= today' - DefaultDays
       => u \in DOMAIN rows'[f] /\ rows'[f][u].msg = mailbox'[f][u].msg

GenuineNext(f, messages) ==
  \A u \in DOMAIN messages :
    /\ u < uidnext'[f]
    /\ u \in DOMAIN mailbox'[f] => mailbox'[f][u].msg = messages[u].msg

CompleteNext(f, messages) ==
  \A u \in DOMAIN mailbox'[f] :
    (\E v \in DOMAIN messages : u <= v)
      /\ Readable(mailbox'[f][u].msg)
      /\ date'[mailbox'[f][u].msg] >= today' - DefaultDays
    => \/ u \in DOMAIN messages
       \/ u \in DOMAIN rows'[f] /\ rows'[f][u].msg = mailbox'[f][u].msg

SameLocals(t) ==
  /\ pc'[t] = pc[t]
  /\ todo'[t] = todo[t]
  /\ days'[t] = days[t]
  /\ known'[t] = known[t]
  /\ fetched'[t] = fetched[t]
  /\ prev'[t] = prev[t]

\* The server never gives an old UID to another message, unless it renumbers.
LEMMA ServerKeepsMail ==
  ASSUME TypeOK, ServerNext, NEW f \in Folders, uidvalidity'[f] = uidvalidity[f]
  PROVE  MailKept(f)
<1> USE DEF MailKept, Recent, TypeOK, ServerTypeOK
<1>1. ASSUME NEW g \in Folders, NEW m \in Messages, NEW d \in 0..today, Deliver(g, m, d)
      PROVE  MailKept(f)
  <2>1. \A u \in DOMAIN mailbox[f] : mailbox[f][u].msg # m
    BY <1>1 DEF Deliver, Stored
  <2>2. \A u \in DOMAIN mailbox[f] : date'[mailbox[f][u].msg] = date[mailbox[f][u].msg]
    <3>1. \A u \in DOMAIN mailbox[f] : mailbox[f][u].msg \in Messages
      BY DEF Entry
    <3>2. \A x \in Messages : x # m => date'[x] = date[x]
      BY <1>1 DEF Deliver
    <3> QED
      BY <2>1, <3>1, <3>2
  <2>3. CASE f = g
    <3>1. PICK e : mailbox'[f] = Overlay([u \in {uidnext[f]} |-> e], mailbox[f])
      BY <1>1, <2>3 DEF Deliver
    <3>2. \A u \in DOMAIN mailbox'[f] : u < uidnext[f] =>
            u \in DOMAIN mailbox[f] /\ mailbox'[f][u] = mailbox[f][u]
      BY <3>1 DEF Overlay
    <3>3. uidnext[f] <= uidnext'[f] /\ today' = today
      BY <1>1, <2>3 DEF Deliver
    <3> QED
      BY <2>2, <3>2, <3>3
  <2>4. CASE f # g
    BY <1>1, <2>2, <2>4 DEF Deliver
  <2> QED
    BY <2>3, <2>4
<1>2. ASSUME NEW g \in Folders, NEW u \in DOMAIN mailbox[g], Expunge(g, u)
      PROVE  MailKept(f)
  <2>1. uidnext' = uidnext /\ today' = today
    BY <1>2 DEF Expunge
  <2>2. \A v \in DOMAIN mailbox'[f] :
          v \in DOMAIN mailbox[f] /\ mailbox'[f][v] = mailbox[f][v]
    BY <1>2 DEF Expunge, Without
  <2>3. \A v \in DOMAIN mailbox[f] : mailbox[f][v].msg \in Messages
    BY DEF Entry
  <2>4. \A x \in Messages : (date'[x] = 0 \/ date'[x] = date[x]) /\ date[x] \in Nat
    BY <1>2 DEF Expunge
  <2>5. today \in Int /\ DefaultDays \in Int /\ uidnext[f] \in Nat
    BY SyncAssumption, ServerAssumption DEF SyncAssumption, ServerAssumption
  <2>6. \A x \in Messages : date'[x] >= today' - DefaultDays => date[x] >= today - DefaultDays
    <3> SUFFICES ASSUME NEW x \in Messages, date'[x] >= today' - DefaultDays
                 PROVE  date[x] >= today - DefaultDays
      OBVIOUS
    <3>1. date[x] \in Nat
      BY <2>4
    <3>2. CASE date'[x] = 0
      BY <2>1, <2>5, <3>1, <3>2
    <3>3. CASE date'[x] = date[x]
      BY <2>1, <2>5, <3>1, <3>3
    <3> QED
      BY <2>4, <3>2, <3>3
  <2>7. uidnext[f] <= uidnext'[f]
    BY <2>1, <2>5
  <2> QED
    BY <2>2, <2>3, <2>6, <2>7
<1>3. ASSUME NEW g \in Folders, NEW u \in DOMAIN mailbox[g], NEW flag \in FlagStates,
             Reflag(g, u, flag)
      PROVE  MailKept(f)
  BY <1>3 DEF Reflag
<1>4. ASSUME NEW g \in Folders, Renumber(g) PROVE MailKept(f)
  <2>1. f # g
    BY <1>4 DEF Renumber
  <2> QED
    BY <1>4, <2>1 DEF Renumber
<1>5. ASSUME NextDay PROVE MailKept(f)
  BY <1>5, SyncAssumption DEF NextDay, Entry
<1> QED
  BY <1>1, <1>2, <1>3, <1>4, <1>5 DEF ServerNext

LEMMA OneNumbering ==
  ASSUME NoRenumbering, TypeOK, ServerNext, NEW f \in Folders
  PROVE  uidvalidity'[f] = uidvalidity[f]
BY ServerTypeStep DEF NoRenumbering, TypeOK, ServerTypeOK

LEMMA QuietServerKeepsMail ==
  ASSUME TypeOK, UNCHANGED serverVars, NEW f \in Folders
  PROVE  MailKept(f)
BY DEF MailKept, serverVars, Recent, TypeOK, ServerTypeOK

LEMMA SameRowsKept ==
  ASSUME UNCHANGED rows, NEW f \in Folders
  PROVE  IndexKept(f)
BY DEF IndexKept

\* A good cursor stays good.
LEMMA GoodCursorKept ==
  ASSUME TypeOK, NEW f \in Folders, NEW last \in Nat, MailKept(f), IndexKept(f),
         GoodCursor(f, last), uidnext'[f] \in Nat, DOMAIN mailbox'[f] \subseteq Nat
  PROVE  GoodCursorNext(f, last)
<1>1. last < uidnext'[f]
  BY DEF GoodCursor, MailKept, TypeOK, ServerTypeOK
<1>2. ASSUME NEW u \in DOMAIN mailbox'[f], u <= last, Readable(mailbox'[f][u].msg),
             date'[mailbox'[f][u].msg] >= today' - DefaultDays
      PROVE  u \in DOMAIN rows'[f] /\ rows'[f][u].msg = mailbox'[f][u].msg
  <2>1. u < uidnext[f]
    BY <1>2 DEF GoodCursor, TypeOK, ServerTypeOK
  <2>2. /\ u \in DOMAIN mailbox[f]
        /\ mailbox'[f][u].msg = mailbox[f][u].msg
        /\ Recent(mailbox[f][u].msg)
    BY <1>2, <2>1 DEF MailKept
  <2>3. Indexed(f, u)
    BY <1>2, <2>2 DEF GoodCursor, Covered
  <2> QED
    BY <2>2, <2>3 DEF Indexed, IndexKept
<1> QED
  BY <1>1, <1>2 DEF GoodCursorNext

\* What has to be shown of a thread's locals after a step, f being its folder.
ThreadNextInv(t, f) ==
  /\ known'[t].uidvalidity \in {None, 1}
  /\ pc'[t] \notin {"idle", "done"} => days'[t] >= DefaultDays
  /\ pc'[t] \in {"fetch_new", "ingest", "reread", "set_state"} =>
       GoodCursorNext(f, known'[t].last_uid)
  /\ pc'[t] \in {"ingest", "reread", "set_state"} =>
       /\ fetched'[t].uidvalidity = 1
       /\ ~fetched'[t].reset
       /\ GenuineNext(f, fetched'[t].messages)
  /\ pc'[t] = "ingest" => CompleteNext(f, fetched'[t].messages)
  /\ pc'[t] \in {"reread", "set_state"} =>
       \A u \in DOMAIN fetched'[t].messages : GoodCursorNext(f, u)
  /\ t = Http /\ pc'[t] = "set_state" => GoodCursorNext(f, prev'[t])

LEMMA ThreadInvNext ==
  ASSUME NEW t \in Threads, NEW f, ThreadNextInv(t, f),
         pc'[t] \in {"fetch_new", "ingest", "reread", "set_state"} => Folder(t)' = f
  PROVE  ThreadInv(t)'
BY DEF ThreadInv, ThreadNextInv, GoodCursor, GoodCursorNext, Covered, Indexed, Recent,
       Readable, Genuine, GenuineNext, Complete, CompleteNext

\* A result stays genuine and complete.
LEMMA GenuineKept ==
  ASSUME TypeOK, NEW f \in Folders, NEW messages, \A u \in DOMAIN messages : u \in Nat,
         MailKept(f), Genuine(f, messages), uidnext'[f] \in Nat
  PROVE  GenuineNext(f, messages)
BY DEF Genuine, GenuineNext, MailKept, TypeOK, ServerTypeOK

LEMMA CompleteKept ==
  ASSUME TypeOK, NEW f \in Folders, NEW messages, \A u \in DOMAIN messages : u \in Nat,
         MailKept(f), IndexKept(f), Genuine(f, messages), Complete(f, messages),
         DOMAIN mailbox'[f] \subseteq Nat
  PROVE  CompleteNext(f, messages)
<1>1. ASSUME NEW u \in DOMAIN mailbox'[f], NEW v \in DOMAIN messages, u <= v,
             Readable(mailbox'[f][u].msg),
             date'[mailbox'[f][u].msg] >= today' - DefaultDays, u \notin DOMAIN messages
      PROVE  u \in DOMAIN rows'[f] /\ rows'[f][u].msg = mailbox'[f][u].msg
  <2>1. u < uidnext[f]
    BY <1>1 DEF Genuine, TypeOK, ServerTypeOK
  <2>2. /\ u \in DOMAIN mailbox[f]
        /\ mailbox'[f][u].msg = mailbox[f][u].msg
        /\ Recent(mailbox[f][u].msg)
    BY <1>1, <2>1 DEF MailKept
  <2>3. Indexed(f, u)
    BY <1>1, <2>2 DEF Complete
  <2> QED
    BY <2>2, <2>3 DEF Indexed, IndexKept
<1> QED
  BY <1>1 DEF CompleteNext

\* Another thread's step does not disturb what a thread relies on.
LEMMA ThreadKept ==
  ASSUME TypeOK, TypeOK', NEW t \in Threads, ThreadInv(t), SameLocals(t),
         \A f \in Folders : MailKept(f) /\ IndexKept(f)
  PROVE  ThreadInv(t)'
<1> DEFINE f == Folder(t)
           n == known[t].last_uid
           messages == fetched[t].messages
<1>1. /\ pc'[t] = pc[t] /\ days'[t] = days[t] /\ known'[t] = known[t]
      /\ fetched'[t] = fetched[t] /\ prev'[t] = prev[t] /\ Folder(t)' = Folder(t)
  BY DEF SameLocals, Folder
<1>2. CASE pc[t] \in {"idle", "done"}
  BY <1>1, <1>2 DEF ThreadInv
<1>3. CASE pc[t] \notin {"idle", "done"}
  <2>1. f \in Folders
    BY <1>3, FolderType
  <2>2. /\ n \in Nat
        /\ prev[t] \in Nat
        /\ \A u \in DOMAIN messages : u \in Nat
    BY DEF TypeOK, FolderState
  <2>3. MailKept(f) /\ IndexKept(f)
    BY <2>1
  <2>4. uidnext'[f] \in Nat /\ DOMAIN mailbox'[f] \subseteq Nat
    BY <2>1 DEF TypeOK, ServerTypeOK
  <2>5. \A last \in Nat : GoodCursor(f, last) => GoodCursorNext(f, last)
    BY <2>1, <2>3, <2>4, GoodCursorKept
  <2>6. Genuine(f, messages) => GenuineNext(f, messages)
    BY <2>1, <2>2, <2>3, <2>4, GenuineKept
  <2>7. Genuine(f, messages) /\ Complete(f, messages) => CompleteNext(f, messages)
    BY <2>1, <2>2, <2>3, <2>4, CompleteKept
  <2> QED
    BY <1>1, <2>2, <2>5, <2>6, <2>7, ThreadInvNext DEF ThreadInv, ThreadNextInv
<1> QED
  BY <1>2, <1>3

\* A thread that holds no result.
LEMMA AtRest ==
  ASSUME NEW t \in Threads, known'[t].uidvalidity \in {None, 1},
         pc'[t] \notin {"fetch_new", "ingest", "reread", "set_state"},
         pc'[t] \notin {"idle", "done"} => days'[t] >= DefaultDays
  PROVE  ThreadInv(t)'
BY DEF ThreadInv

LEMMA InvKept ==
  ASSUME CursorInv, TypeOK',
         \A f \in Folders : MailKept(f) /\ IndexKept(f),
         \A f \in Folders :
           /\ folder_state'[f].uidvalidity \in {None, 1}
           /\ \/ folder_state'[f].last_uid = folder_state[f].last_uid
              \/ GoodCursorNext(f, folder_state'[f].last_uid),
         \A t \in Threads : SameLocals(t) \/ ThreadInv(t)'
  PROVE  CursorInv'
<1>1. ASSUME NEW f \in Folders PROVE GoodCursorNext(f, folder_state'[f].last_uid)
  <2>1. /\ folder_state[f].last_uid \in Nat
        /\ uidnext'[f] \in Nat
        /\ DOMAIN mailbox'[f] \subseteq Nat
    BY DEF CursorInv, TypeOK, ServerTypeOK, IndexTypeOK, FolderState
  <2>2. GoodCursorNext(f, folder_state[f].last_uid)
    BY <2>1, GoodCursorKept DEF CursorInv
  <2> QED
    BY <2>2
<1>2. \A f \in Folders : GoodCursor(f, folder_state[f].last_uid)'
  BY <1>1 DEF GoodCursor, GoodCursorNext, Covered, Indexed, Recent, Readable
<1>3. \A t \in Threads : ThreadInv(t)'
  BY ThreadKept DEF CursorInv
<1> QED
  BY <1>2, <1>3 DEF CursorInv

LEMMA FreshValidity == NeverSynced.uidvalidity = None
BY DEF NeverSynced

\* A pass ends, or goes on to its next folder.
LEMMA EndPassRests ==
  ASSUME CursorInv, NEW t \in Threads, EndPass(t)
  PROVE  /\ ThreadInv(t)'
         /\ \A s \in Threads : s # t => SameLocals(s)
<1>1. pc'[t] = "idle" /\ known'[t] = NeverSynced
  BY DEF EndPass, ForgetFolder, Goto, CursorInv, TypeOK
<1>2. ThreadInv(t)'
  BY <1>1, FreshValidity, AtRest
<1>3. \A s \in Threads : s # t => SameLocals(s)
  BY DEF EndPass, ForgetFolder, Goto, CursorInv, TypeOK, SameLocals
<1> QED
  BY <1>2, <1>3

LEMMA NextFolderRests ==
  ASSUME CursorInv, NEW t \in Threads, NextFolder(t), pc[t] \notin {"idle", "done"}
  PROVE  /\ ThreadInv(t)'
         /\ \A s \in Threads : s # t => SameLocals(s)
<1>1. pc'[t] \in {"get_state", "done"} /\ known'[t] = NeverSynced /\ days' = days
  BY DEF NextFolder, ForgetFolder, Goto, CursorInv, TypeOK
<1>2. days[t] >= DefaultDays
  BY DEF CursorInv, ThreadInv
<1>3. ThreadInv(t)'
  BY <1>1, <1>2, FreshValidity, AtRest
<1>4. \A s \in Threads : s # t => SameLocals(s)
  BY DEF NextFolder, ForgetFolder, Goto, CursorInv, TypeOK, SameLocals
<1> QED
  BY <1>3, <1>4

LEMMA StartPassRests ==
  ASSUME CursorInv, NEW t \in Threads, NEW folders, NEW window \in Nat,
         window >= DefaultDays, StartPass(t, folders, window)
  PROVE  /\ ThreadInv(t)'
         /\ \A s \in Threads : s # t => SameLocals(s)
<1>1. /\ pc'[t] \in {"get_state", "done"}
      /\ known'[t] = known[t]
      /\ days'[t] = window
  BY DEF StartPass, Goto, CursorInv, TypeOK
<1>2. ThreadInv(t)'
  BY <1>1, AtRest DEF CursorInv, ThreadInv
<1>3. \A s \in Threads : s # t => SameLocals(s)
  BY DEF StartPass, Goto, CursorInv, TypeOK, SameLocals
<1> QED
  BY <1>2, <1>3

-----------------------------------------------------------------------------
(* The steps. *)

\* What a search returns is above the cursor or all there is in the window:
\* with what the index holds already, it is complete.
LEMMA FetchIsComplete ==
  ASSUME TypeOK, NEW t \in Threads, pc[t] = "fetch_new", days[t] >= DefaultDays,
         NEW messages,
         messages = fetch_new(Folder(t), known[t], ResumeFrom(t), days[t]).messages,
         IsReset(known[t], Folder(t)) \/ GoodCursor(Folder(t), known[t].last_uid)
  PROVE  Genuine(Folder(t), messages) /\ Complete(Folder(t), messages)
<1> DEFINE f == Folder(t)
           last == ResumeFrom(t)
           reset == IsReset(known[t], f)
<1>1. f \in Folders /\ known[t].last_uid \in Nat
  BY FolderType DEF TypeOK, FolderState
<1>2. last \in {0, known[t].last_uid}
  BY DEF ResumeFrom
<1>3. /\ DOMAIN messages = {u \in SearchedUids(f, last, reset, days[t]) :
                               mailbox[f][u].msg \notin Bodyless}
      /\ \A u \in DOMAIN messages : messages[u] = mailbox[f][u]
      /\ DOMAIN messages \subseteq DOMAIN mailbox[f]
  BY DEF fetch_new, SearchedUids
<1>4. ASSUME NEW u \in DOMAIN mailbox[f], Readable(mailbox[f][u].msg),
             Recent(mailbox[f][u].msg), u \notin DOMAIN messages
      PROVE  Indexed(f, u)
  <2>1. u \in Nat /\ mailbox[f][u].msg \in Messages
    BY <1>1 DEF TypeOK, ServerTypeOK, Entry
  <2>2. u \notin SearchedUids(f, last, reset, days[t])
    BY <1>3, <1>4 DEF Readable
  <2>3. InWindow(mailbox[f][u].msg, days[t])
    <3>1. /\ date[mailbox[f][u].msg] \in Int
          /\ today \in Int
          /\ days[t] \in Int
          /\ DefaultDays \in Int
      BY <2>1, SyncAssumption, ServerAssumption DEF TypeOK, ServerTypeOK
    <3>2. date[mailbox[f][u].msg] >= today - DefaultDays
      BY <1>4 DEF Recent
    <3> QED
      BY <3>1, <3>2 DEF InWindow
  <2>4. u <= last /\ last > 0 /\ ~reset
    BY <1>1, <1>2, <2>1, <2>2, <2>3 DEF SearchedUids
  <2> QED
    BY <1>2, <1>4, <2>4 DEF GoodCursor, Covered
<1>5. \A u \in DOMAIN messages : u < uidnext[f]
  BY <1>1, <1>3 DEF TypeOK, ServerTypeOK
<1> QED
  BY <1>3, <1>4, <1>5 DEF Genuine, Complete

LEMMA FetchNewRests ==
  ASSUME NoRenumbering, CursorInv, TypeOK', NEW t \in Threads, FetchNew(t)
  PROVE  /\ ThreadInv(t)'
         /\ \A s \in Threads : s # t => SameLocals(s)
<1> DEFINE f == Folder(t)
           r == fetch_new(f, known[t], ResumeFrom(t), days[t])
<1>1. f \in Folders /\ uidvalidity[f] = 1
  <2>1. f \in Folders
    BY FolderType DEF FetchNew, CursorInv
  <2> QED
    BY <2>1 DEF CursorInv, TypeOK, ServerTypeOK, NoRenumbering
<1>2. IsReset(known[t], f) = FALSE
  BY <1>1 DEF IsReset, CursorInv, ThreadInv
<1>3. GoodCursor(f, known[t].last_uid) /\ days[t] >= DefaultDays
  BY DEF CursorInv, ThreadInv, FetchNew
<1>4. r.uidvalidity = 1 /\ ~r.reset
  BY <1>1, <1>2 DEF fetch_new
<1>5. Genuine(f, r.messages) /\ Complete(f, r.messages)
  BY <1>3, FetchIsComplete DEF CursorInv, FetchNew
<1>6. /\ pc'[t] = "ingest" /\ known' = known /\ days' = days /\ fetched'[t] = r
      /\ Folder(t)' = f
  BY DEF FetchNew, Goto, CursorInv, TypeOK, Folder
<1>7. UNCHANGED <<mailbox, uidnext, today, date, rows>>
  BY DEF FetchNew, serverVars, indexVars
<1> HIDE DEF f, r
<1>8. GoodCursorNext(f, known[t].last_uid)
  BY <1>3, <1>7 DEF GoodCursor, GoodCursorNext, Covered, Indexed, Recent, Readable
<1>9. GenuineNext(f, r.messages)
  BY <1>5, <1>7 DEF Genuine, GenuineNext
<1>10. CompleteNext(f, r.messages)
  BY <1>5, <1>7 DEF Complete, CompleteNext, Indexed, Recent, Readable
<1>11. known[t].uidvalidity \in {None, 1}
  BY DEF CursorInv, ThreadInv
<1>12. ThreadNextInv(t, f)
  BY <1>3, <1>4, <1>6, <1>8, <1>9, <1>10, <1>11 DEF ThreadNextInv
<1>13. ThreadInv(t)'
  BY <1>6, <1>12, ThreadInvNext
<1>14. \A s \in Threads : s # t => SameLocals(s)
  BY DEF FetchNew, Goto, CursorInv, TypeOK, SameLocals
<1> QED
  BY <1>13, <1>14

\* The upsert writes only genuine rows.
LEMMA IngestKeepsIndex ==
  ASSUME CursorInv, NEW t \in Threads, Ingest(t), NEW g \in Folders
  PROVE  IndexKept(g)
<1> DEFINE f == Folder(t)
           p == Parsed(fetched[t].messages)
<1>1. f \in Folders
  BY FolderType DEF CursorInv, Ingest
<1>2. rows' = [rows EXCEPT ![f] = Overlay(p, @)]
  BY DEF Ingest, upsert_messages
<1>3. \A u \in DOMAIN p : u \in DOMAIN mailbox[f] => p[u].msg = mailbox[f][u].msg
  BY DEF Parsed, CursorInv, ThreadInv, Genuine, Ingest
<1> HIDE DEF p, f
<1>4. CASE g = f
  <2>1. rows'[g] = Overlay(p, rows[f])
    BY <1>1, <1>2, <1>4 DEF CursorInv, TypeOK, IndexTypeOK
  <2> QED
    BY <1>3, <1>4, <2>1 DEF IndexKept, Overlay
<1>5. CASE g # f
  BY <1>2, <1>5 DEF IndexKept, CursorInv, TypeOK, IndexTypeOK
<1> QED
  BY <1>4, <1>5

\* After the upsert every UID of the result is a good cursor.
LEMMA IngestRests ==
  ASSUME CursorInv, TypeOK', NEW t \in Threads, Ingest(t)
  PROVE  /\ ThreadInv(t)'
         /\ \A s \in Threads : s # t => SameLocals(s)
<1> DEFINE f == Folder(t)
           messages == fetched[t].messages
           p == Parsed(messages)
<1>1. /\ f \in Folders
      /\ known[t].last_uid \in Nat
      /\ \A u \in DOMAIN messages : u \in Nat
      /\ DOMAIN mailbox'[f] \subseteq Nat
      /\ uidnext'[f] \in Nat
  <2>1. f \in Folders
    BY FolderType DEF Ingest, CursorInv
  <2> QED
    BY <2>1 DEF CursorInv, TypeOK, FolderState, ServerTypeOK
<1>2. /\ GoodCursor(f, known[t].last_uid)
      /\ known[t].uidvalidity \in {None, 1}
      /\ days[t] >= DefaultDays
      /\ fetched[t].uidvalidity = 1 /\ ~fetched[t].reset
      /\ Genuine(f, messages) /\ Complete(f, messages)
  BY DEF CursorInv, ThreadInv, Ingest
<1>3. UNCHANGED serverVars /\ UNCHANGED <<mailbox, uidnext, today, date>>
  BY DEF Ingest, serverVars
<1>4. rows' = [rows EXCEPT ![f] = Overlay(p, @)]
  BY DEF Ingest, upsert_messages
<1>5. MailKept(f) /\ IndexKept(f)
  BY <1>1, <1>3, QuietServerKeepsMail, IngestKeepsIndex DEF CursorInv
<1>6. /\ pc'[t] \in {"reread", "set_state"}
      /\ t = Http => pc'[t] = "reread"
      /\ known' = known /\ days' = days /\ fetched' = fetched
      /\ Folder(t)' = f
  BY DEF Ingest, Goto, CursorInv, TypeOK, Folder
<1>7. /\ DOMAIN p = {v \in DOMAIN messages : messages[v].msg \notin Unparseable}
      /\ \A u \in DOMAIN p : p[u] = messages[u]
  BY DEF Parsed
<1>8. rows'[f] = Overlay(p, rows[f])
  BY <1>1, <1>4 DEF CursorInv, TypeOK, IndexTypeOK
<1> HIDE DEF f, messages, p
<1>9. ASSUME NEW v \in DOMAIN messages PROVE GoodCursorNext(f, v)
  <2>1. v < uidnext'[f]
    BY <1>2, <1>3 DEF Genuine
  <2>2. ASSUME NEW u \in DOMAIN mailbox[f], u <= v, Readable(mailbox[f][u].msg),
               Recent(mailbox[f][u].msg)
        PROVE  u \in DOMAIN rows'[f] /\ rows'[f][u].msg = mailbox[f][u].msg
    <3>1. u \in DOMAIN messages \/ Indexed(f, u)
      BY <1>2, <2>2 DEF Complete
    <3>2. CASE u \in DOMAIN messages
      <4>1. messages[u].msg = mailbox[f][u].msg
        BY <1>2, <3>2 DEF Genuine
      <4> QED
        BY <1>7, <1>8, <2>2, <3>2, <4>1 DEF Overlay, Readable
    <3>3. CASE Indexed(f, u)
      BY <1>5, <3>3 DEF Indexed, IndexKept
    <3> QED
      BY <3>1, <3>2, <3>3
  <2> QED
    BY <1>3, <2>1, <2>2 DEF GoodCursorNext, Recent
<1>10. GoodCursorNext(f, known[t].last_uid)
  BY <1>1, <1>2, <1>5, GoodCursorKept DEF CursorInv
<1>11. GenuineNext(f, messages)
  BY <1>1, <1>2, <1>5, GenuineKept DEF CursorInv
<1>12. ThreadNextInv(t, f)
  BY <1>2, <1>6, <1>9, <1>10, <1>11 DEF ThreadNextInv, messages
<1>13. ThreadInv(t)'
  BY <1>6, <1>12, ThreadInvNext
<1>14. \A s \in Threads : s # t => SameLocals(s)
  BY DEF Ingest, Goto, CursorInv, TypeOK, SameLocals
<1> QED
  BY <1>13, <1>14

\* The new last_uid is the cursor the thread knows to be good or the highest
\* UID of its result, which is one too.
LEMMA NewLastGood ==
  ASSUME CursorInv, NEW t \in Threads, pc[t] = "set_state",
         NEW top \in {0} \cup DOMAIN fetched[t].messages
  PROVE  GoodCursor(Folder(t), NewLast(t, top))
<1>1. /\ known[t].last_uid \in Nat
      /\ prev[t] \in Nat
      /\ top \in Nat
  BY DEF CursorInv, TypeOK, FolderState
<1>2. /\ GoodCursor(Folder(t), known[t].last_uid)
      /\ ~fetched[t].reset
      /\ \A u \in DOMAIN fetched[t].messages : GoodCursor(Folder(t), u)
      /\ t = Http => GoodCursor(Folder(t), prev[t])
  BY DEF CursorInv, ThreadInv
<1>3. \/ top \in DOMAIN fetched[t].messages /\ NewLast(t, top) = top
      \/ t # Http /\ NewLast(t, top) = known[t].last_uid
      \/ t = Http /\ NewLast(t, top) = prev[t]
  BY <1>1, <1>2 DEF NewLast, Larger
<1> QED
  BY <1>2, <1>3

LEMMA CursorStep == NoRenumbering /\ WideRequests /\ CursorInv /\ [Next]_vars => CursorInv'
<1> SUFFICES ASSUME NoRenumbering, WideRequests, CursorInv, [Next]_vars
             PROVE  CursorInv'
  OBVIOUS
<1>t. TypeOK /\ TypeOK'
  BY TypeStep DEF CursorInv
<1>s. ASSUME UNCHANGED serverVars, UNCHANGED indexVars,
             \A t \in Threads : SameLocals(t) \/ ThreadInv(t)'
      PROVE  CursorInv'
  <2>1. \A f \in Folders : MailKept(f) /\ IndexKept(f)
    BY <1>s, <1>t, QuietServerKeepsMail, SameRowsKept DEF indexVars
  <2>2. \A f \in Folders : /\ folder_state'[f].uidvalidity \in {None, 1}
                           /\ folder_state'[f].last_uid = folder_state[f].last_uid
    BY <1>s DEF indexVars, CursorInv
  <2> QED
    BY <1>s, <1>t, <2>1, <2>2, InvKept
<1>1. ASSUME NEW t \in Threads, GetState(t) PROVE CursorInv'
  <2> DEFINE f == Folder(t)
             n == folder_state[f].last_uid
  <2>1. /\ f \in Folders
        /\ t \in Threads
    BY <1>1, <1>t, FolderType DEF GetState
  <2>2. /\ pc'[t] = "fetch_new" /\ days' = days /\ known'[t] = folder_state[f]
        /\ Folder(t)' = f
    BY <1>1, <1>t DEF GetState, Goto, TypeOK, Folder
  <2>3. /\ GoodCursor(f, n) /\ folder_state[f].uidvalidity \in {None, 1}
        /\ days[t] >= DefaultDays
    BY <1>1, <2>1 DEF CursorInv, ThreadInv, GetState
  <2> HIDE DEF f
  <2>4. UNCHANGED <<mailbox, uidnext, today, date, rows>>
    BY <1>1 DEF GetState, serverVars, indexVars
  <2>5. GoodCursorNext(f, n)
    BY <2>3, <2>4 DEF GoodCursor, GoodCursorNext, Covered, Indexed, Recent, Readable
  <2>6. ThreadNextInv(t, f)
    BY <2>2, <2>3, <2>5 DEF ThreadNextInv
  <2>7. ThreadInv(t)'
    BY <2>2, <2>6, ThreadInvNext
  <2>8. \A s \in Threads : s # t => SameLocals(s)
    BY <1>1, <1>t DEF GetState, Goto, TypeOK, SameLocals
  <2> QED
    BY <1>1, <1>s, <2>7, <2>8 DEF GetState
<1>2. ASSUME NEW t \in Threads, FetchNew(t) PROVE CursorInv'
  <2>1. UNCHANGED serverVars /\ UNCHANGED indexVars
    BY <1>2 DEF FetchNew
  <2> QED
    BY <1>2, <1>s, <1>t, <2>1, FetchNewRests
<1>3. ASSUME NEW t \in Threads, Ingest(t) PROVE CursorInv'
  <2>1. \A f \in Folders : MailKept(f) /\ IndexKept(f)
    BY <1>3, <1>t, QuietServerKeepsMail, IngestKeepsIndex DEF Ingest
  <2>2. folder_state' = folder_state
    BY <1>3 DEF Ingest, upsert_messages
  <2> QED
    BY <1>3, <1>t, <2>1, <2>2, InvKept, IngestRests DEF CursorInv
<1>4. ASSUME Reread PROVE CursorInv'
  <2> DEFINE f == Folder(Http)
             n == folder_state[f].last_uid
  <2>1. Http \in Threads
    BY DEF Threads
  <2>2. f \in Folders
    BY <1>4, <1>t, <2>1, FolderType DEF Reread
  <2>3. /\ pc'[Http] = "set_state" /\ prev'[Http] = n /\ Folder(Http)' = f
        /\ UNCHANGED <<days, known, fetched>>
    BY <1>4, <1>t, <2>1 DEF Reread, Goto, TypeOK, Folder
  <2>4. /\ GoodCursor(f, n)
        /\ GoodCursor(f, known[Http].last_uid)
        /\ known[Http].uidvalidity \in {None, 1}
        /\ days[Http] >= DefaultDays
        /\ fetched[Http].uidvalidity = 1 /\ ~fetched[Http].reset
        /\ Genuine(f, fetched[Http].messages)
        /\ \A u \in DOMAIN fetched[Http].messages : GoodCursor(f, u)
    BY <1>4, <2>1, <2>2 DEF CursorInv, ThreadInv, Reread
  <2> HIDE DEF f
  <2>5. UNCHANGED <<mailbox, uidnext, today, date, rows>>
    BY <1>4 DEF Reread, serverVars, indexVars
  <2>6. \A last : GoodCursor(f, last) => GoodCursorNext(f, last)
    BY <2>5 DEF GoodCursor, GoodCursorNext, Covered, Indexed, Recent, Readable
  <2>7. GenuineNext(f, fetched[Http].messages)
    BY <2>4, <2>5 DEF Genuine, GenuineNext
  <2>8. ThreadNextInv(Http, f)
    BY <2>3, <2>4, <2>6, <2>7 DEF ThreadNextInv
  <2>9. ThreadInv(Http)'
    BY <2>1, <2>3, <2>8, ThreadInvNext
  <2>10. \A s \in Threads : s # Http => SameLocals(s)
    BY <1>4, <1>t DEF Reread, Goto, TypeOK, SameLocals
  <2> QED
    BY <1>4, <1>s, <2>9, <2>10 DEF Reread
<1>5. ASSUME NEW t \in Threads, SetState(t) PROVE CursorInv'
  <2>1. PICK top \in {0} \cup DOMAIN fetched[t].messages :
          set_folder_state(Folder(t), fetched[t].uidvalidity, NewLast(t, top))
    BY <1>5 DEF SetState, StoreState
  <2>2. GoodCursor(Folder(t), NewLast(t, top)) /\ fetched[t].uidvalidity = 1
    BY <1>5, NewLastGood DEF SetState, CursorInv, ThreadInv
  <2>3. UNCHANGED <<mailbox, uidnext, today, date, rows>> /\ UNCHANGED serverVars
    BY <1>5, <2>1 DEF SetState, serverVars, set_folder_state
  <2>4. GoodCursorNext(Folder(t), NewLast(t, top))
    BY <2>2, <2>3 DEF GoodCursor, GoodCursorNext, Covered, Indexed, Recent, Readable
  <2>5. \A f \in Folders :
          /\ folder_state'[f].uidvalidity \in {None, 1}
          /\ \/ folder_state'[f].last_uid = folder_state[f].last_uid
             \/ GoodCursorNext(f, folder_state'[f].last_uid)
    BY <2>1, <2>2, <2>4, <1>t DEF set_folder_state, CursorInv, TypeOK, IndexTypeOK
  <2>6. \A f \in Folders : MailKept(f) /\ IndexKept(f)
    BY <1>t, <2>3, QuietServerKeepsMail, SameRowsKept
  <2>7. CASE t = Http
    BY <1>5, <1>t, <2>5, <2>6, <2>7, NextFolderRests, InvKept DEF SetState
  <2>8. CASE t # Http
    <3>1. pc'[t] = "fetch_flags" /\ UNCHANGED passVars
      BY <1>5, <1>t, <2>8 DEF SetState, Goto, TypeOK
    <3>2. ThreadInv(t)'
      BY <1>5, <3>1, AtRest DEF CursorInv, ThreadInv, SetState, passVars
    <3>3. \A s \in Threads : s # t => SameLocals(s)
      BY <1>5, <1>t, <2>8, <3>1 DEF SetState, Goto, TypeOK, SameLocals, passVars
    <3> QED
      BY <1>t, <2>5, <2>6, <3>2, <3>3, InvKept
  <2> QED
    BY <2>7, <2>8
<1>6. ASSUME NEW t \in Threads, PassFails(t) PROVE CursorInv'
  BY <1>6, <1>s, EndPassRests DEF PassFails
<1>7. ASSUME NEW w \in Workers, Wake(w) PROVE CursorInv'
  <2>1. w \in Threads /\ DefaultDays >= DefaultDays /\ StartPass(w, SyncFolders, DefaultDays)
    BY <1>7, WindowIsNat DEF Threads, Wake
  <2>2. ThreadInv(w)' /\ \A s \in Threads : s # w => SameLocals(s)
    BY <2>1, StartPassRests, WindowIsNat
  <2> QED
    BY <1>s, <2>1, <2>2 DEF StartPass
<1>8. ASSUME NEW folders \in RequestFolders, NEW requested \in RequestDays,
             Sync(folders, requested)
      PROVE  CursorInv'
  <2>1. /\ Http \in Threads
        /\ clamp_days(requested) \in Nat
        /\ clamp_days(requested) >= DefaultDays
        /\ StartPass(Http, folders, clamp_days(requested))
    BY <1>8, WindowIsNat DEF Threads, Sync, WideRequests
  <2>2. ThreadInv(Http)' /\ \A s \in Threads : s # Http => SameLocals(s)
    BY <2>1, StartPassRests
  <2> QED
    BY <1>s, <2>1, <2>2 DEF StartPass
<1>9. ASSUME NEW w \in Workers, FetchFlags(w) PROVE CursorInv'
  <2>1. w \in Threads
    BY DEF Threads
  <2>2. pc'[w] = "update_flags" /\ UNCHANGED <<days, known>>
    BY <1>9, <1>t, <2>1 DEF FetchFlags, Goto, TypeOK
  <2>3. ThreadInv(w)'
    BY <1>9, <2>1, <2>2, AtRest DEF CursorInv, ThreadInv, FetchFlags
  <2>4. \A s \in Threads : s # w => SameLocals(s)
    BY <1>9, <1>t DEF FetchFlags, Goto, TypeOK, SameLocals
  <2> QED
    BY <1>9, <1>s, <2>3, <2>4 DEF FetchFlags
<1>10. ASSUME NEW w \in Workers, UpdateFlags(w) PROVE CursorInv'
  <2>1. w \in Threads /\ pc[w] \notin {"idle", "done"}
    BY <1>10 DEF Threads, UpdateFlags
  <2>2. ThreadInv(w)' /\ \A s \in Threads : s # w => SameLocals(s)
    BY <1>10, <2>1, NextFolderRests DEF UpdateFlags
  <2>3. Folder(w) \in Folders
    BY <1>t, <2>1, FolderType
  <2>4. \A f \in Folders : IndexKept(f)
    BY <1>10, <1>t, <2>3 DEF UpdateFlags, update_flags, IndexKept, TypeOK, IndexTypeOK
  <2>5. \A f \in Folders : MailKept(f)
    BY <1>10, <1>t, QuietServerKeepsMail DEF UpdateFlags
  <2>6. folder_state' = folder_state
    BY <1>10 DEF UpdateFlags, update_flags
  <2> QED
    BY <1>t, <2>2, <2>4, <2>5, <2>6, InvKept DEF CursorInv
<1>11. ASSUME NEW w \in Workers, FlagsFail(w) PROVE CursorInv'
  <2>1. w \in Threads /\ pc[w] \notin {"idle", "done"}
    BY <1>11 DEF Threads, FlagsFail
  <2> QED
    BY <1>11, <1>s, <2>1, NextFolderRests DEF FlagsFail
<1>12. ASSUME NEW w \in Workers, Classify(w) PROVE CursorInv'
  BY <1>12, <1>s, EndPassRests DEF Classify, Threads
<1>13. ASSUME Respond PROVE CursorInv'
  BY <1>13, <1>s, EndPassRests DEF Respond, Threads
<1>14. ASSUME Crash PROVE CursorInv'
  <2>1. \A t \in Threads : pc'[t] = "idle" /\ known'[t] = NeverSynced
    BY <1>14 DEF Crash
  <2>2. \A t \in Threads : ThreadInv(t)'
    BY <2>1, FreshValidity, AtRest
  <2> QED
    BY <1>14, <1>s, <2>2 DEF Crash
<1>15. ASSUME ServerNext, UNCHANGED <<indexVars, syncVars>> PROVE CursorInv'
  <2>1. \A f \in Folders : MailKept(f) /\ IndexKept(f)
    BY <1>15, <1>t, ServerKeepsMail, OneNumbering, SameRowsKept DEF indexVars
  <2>2. \A t \in Threads : SameLocals(t)
    BY <1>15 DEF syncVars, passVars, SameLocals
  <2>3. folder_state' = folder_state
    BY <1>15 DEF indexVars
  <2> QED
    BY <1>t, <2>1, <2>2, <2>3, InvKept DEF CursorInv
<1>16. ASSUME UNCHANGED vars PROVE CursorInv'
  <2>1. \A t \in Threads : SameLocals(t)
    BY <1>16 DEF vars, syncVars, passVars, SameLocals
  <2> QED
    BY <1>16, <1>s, <2>1 DEF vars
<1> QED
  BY <1>1, <1>2, <1>3, <1>4, <1>5, <1>6, <1>7, <1>8, <1>9, <1>10, <1>11, <1>12, <1>13,
     <1>14, <1>15, <1>16
     DEF Next, ServiceNext, ThreadNext, WorkerNext, HttpNext

LEMMA CursorInit == Init => CursorInv
<1> SUFFICES ASSUME Init PROVE CursorInv
  OBVIOUS
<1>1. TypeOK
  BY InitTypeOK
<1>2. \A f \in Folders : folder_state[f] = NeverSynced /\ mailbox[f] = NoUids /\ uidnext[f] = 1
  BY DEF Init, IndexInit, ServerInit
<1>3. \A f \in Folders : GoodCursor(f, folder_state[f].last_uid)
  BY <1>2, NoUidsType DEF GoodCursor, Covered, NeverSynced
<1>4. \A t \in Threads : ThreadInv(t)
  BY FreshValidity DEF Init, ThreadInv
<1> QED
  BY <1>1, <1>2, <1>3, <1>4, FreshValidity DEF CursorInv

\* While the server renumbers nothing and no request narrows the window, every
\* readable, recent message below the saved cursor is in the index: for any
\* number of threads, folders, failures and restarts.
THEOREM CursorCorrect ==
  ASSUME NoRenumbering, WideRequests
  PROVE  Spec => []NoMailSkipped
<1>1. CursorInv => NoMailSkipped
  BY DEF CursorInv, NoMailSkipped, GoodCursor
<1>2. CursorInv /\ [Next]_vars => CursorInv'
  BY CursorStep
<1> QED
  BY <1>1, <1>2, CursorInit, PTL DEF Spec

-----------------------------------------------------------------------------
(* One worker, and a server that renumbers.  A cursor of an older          *)
(* numbering says nothing: the pass that meets the new one starts over.    *)

WorkerAlone(w) == Workers = {w} /\ RequestFolders = {}

\* What the only worker relies on when the server may renumber a mailbox: the
\* saved cursor is the one it read, and whatever is of the server's present
\* numbering (cursor, result) is good in the sense of CursorInv.
Saved(f) ==
  /\ folder_state[f].uidvalidity = None => folder_state[f].last_uid = 0
  /\ folder_state[f].uidvalidity # None => folder_state[f].uidvalidity <= uidvalidity[f]
  /\ folder_state[f].uidvalidity = uidvalidity[f] =>
       GoodCursor(f, folder_state[f].last_uid)

Result(w, f) ==
  /\ fetched[w].uidvalidity <= uidvalidity[f]
  /\ known[w].uidvalidity # None => known[w].uidvalidity <= fetched[w].uidvalidity
  /\ ~fetched[w].reset => known[w].uidvalidity \in {None, fetched[w].uidvalidity}
  /\ fetched[w].uidvalidity = uidvalidity[f] =>
       /\ Genuine(f, fetched[w].messages)
       /\ pc[w] = "ingest" => Complete(f, fetched[w].messages)
       /\ pc[w] = "set_state" => \A u \in DOMAIN fetched[w].messages : GoodCursor(f, u)

AloneInv(w) ==
  /\ TypeOK
  /\ pc[Http] = "idle"
  /\ \A f \in Folders : Saved(f)
  /\ pc[w] \notin {"idle", "done"} => days[w] >= DefaultDays
  /\ pc[w] \in {"fetch_new", "ingest", "set_state"} => known[w] = folder_state[Folder(w)]
  /\ pc[w] \in {"ingest", "set_state"} => Result(w, Folder(w))

LEMMA ZeroIsGood ==
  ASSUME TypeOK, NEW f \in Folders
  PROVE  GoodCursor(f, 0)
BY DEF GoodCursor, Covered, TypeOK, ServerTypeOK

\* What is of the present numbering after the step was so before it.
LEMMA SavedKept ==
  ASSUME TypeOK, TypeOK', NEW f \in Folders, Saved(f),
         folder_state'[f] = folder_state[f], uidvalidity'[f] >= uidvalidity[f],
         folder_state[f].uidvalidity = uidvalidity'[f] => MailKept(f) /\ IndexKept(f)
  PROVE  Saved(f)'
<1> DEFINE state == folder_state[f]
<1>1. /\ uidvalidity[f] \in Nat /\ uidvalidity'[f] \in Nat
      /\ state.uidvalidity \in Nat \cup {None} /\ state.last_uid \in Nat
      /\ uidnext'[f] \in Nat /\ DOMAIN mailbox'[f] \subseteq Nat
  BY DEF TypeOK, ServerTypeOK, IndexTypeOK, FolderState
<1>2. ASSUME state.uidvalidity = uidvalidity'[f]
      PROVE  GoodCursorNext(f, state.last_uid)
  <2>1. state.uidvalidity = uidvalidity[f]
    BY <1>1, <1>2, SyncAssumption DEF Saved
  <2>2. GoodCursor(f, state.last_uid)
    BY <2>1 DEF Saved
  <2> QED
    BY <1>1, <1>2, <2>2, GoodCursorKept
<1>3. state.uidvalidity # None => state.uidvalidity <= uidvalidity'[f]
  BY <1>1 DEF Saved
<1> QED
  BY <1>2, <1>3 DEF Saved, GoodCursor, GoodCursorNext, Covered, Indexed, Recent, Readable

LEMMA ResultKept ==
  ASSUME TypeOK, TypeOK', NEW w \in Threads, NEW f \in Folders, Result(w, f),
         fetched'[w] = fetched[w], known'[w] = known[w], pc'[w] = pc[w],
         uidvalidity'[f] >= uidvalidity[f],
         fetched[w].uidvalidity = uidvalidity'[f] => MailKept(f) /\ IndexKept(f)
  PROVE  Result(w, f)'
<1> DEFINE r == fetched[w]
<1>1. /\ uidvalidity[f] \in Nat /\ uidvalidity'[f] \in Nat /\ r.uidvalidity \in Nat
      /\ \A u \in DOMAIN r.messages : u \in Nat
      /\ uidnext'[f] \in Nat /\ DOMAIN mailbox'[f] \subseteq Nat
  BY DEF TypeOK, ServerTypeOK
<1>2. r.uidvalidity <= uidvalidity'[f]
  BY <1>1 DEF Result
<1>3. ASSUME r.uidvalidity = uidvalidity'[f]
      PROVE  /\ GenuineNext(f, r.messages)
             /\ pc[w] = "ingest" => CompleteNext(f, r.messages)
             /\ pc[w] = "set_state" => \A u \in DOMAIN r.messages : GoodCursorNext(f, u)
  <2>1. r.uidvalidity = uidvalidity[f]
    BY <1>1, <1>3 DEF Result
  <2>2. /\ Genuine(f, r.messages)
        /\ pc[w] = "ingest" => Complete(f, r.messages)
        /\ pc[w] = "set_state" => \A u \in DOMAIN r.messages : GoodCursor(f, u)
    BY <2>1 DEF Result
  <2>3. MailKept(f) /\ IndexKept(f)
    BY <1>3
  <2>4. GenuineNext(f, r.messages)
    BY <1>1, <2>2, <2>3, GenuineKept
  <2>5. pc[w] = "ingest" => CompleteNext(f, r.messages)
    BY <1>1, <2>2, <2>3, CompleteKept
  <2>6. pc[w] = "set_state" => \A u \in DOMAIN r.messages : GoodCursorNext(f, u)
    BY <1>1, <2>2, <2>3, GoodCursorKept
  <2> QED
    BY <2>4, <2>5, <2>6
<1> HIDE DEF r
<1>4. /\ known[w].uidvalidity # None => known[w].uidvalidity <= r.uidvalidity
      /\ ~r.reset => known[w].uidvalidity \in {None, r.uidvalidity}
  BY DEF Result, r
<1>5. fetched'[w] = r
  BY DEF r
<1> QED
  BY <1>2, <1>3, <1>4, <1>5
     DEF Result, GoodCursor, GoodCursorNext, Covered, Indexed, Recent, Readable, Genuine,
         GenuineNext, Complete, CompleteNext

\* A step that reads the server and leaves the saved cursors alone.
LEMMA SavedStays ==
  ASSUME TypeOK, TypeOK', \A f \in Folders : Saved(f), UNCHANGED <<serverVars, folder_state>>,
         \A f \in Folders : folder_state[f].uidvalidity = uidvalidity[f] => IndexKept(f)
  PROVE  \A f \in Folders : Saved(f)'
<1> SUFFICES ASSUME NEW f \in Folders PROVE Saved(f)'
  OBVIOUS
<1>1. uidvalidity'[f] = uidvalidity[f] /\ uidvalidity[f] \in Nat
  BY DEF serverVars, TypeOK, ServerTypeOK
<1> QED
  BY <1>1, QuietServerKeepsMail, SavedKept

LEMMA AloneFetches ==
  ASSUME NEW w \in Threads, w # Http, AloneInv(w), TypeOK', FetchNew(w)
  PROVE  AloneInv(w)'
<1>1. PICK f \in Folders : f = Folder(w)
  BY FolderType DEF FetchNew, AloneInv
<1>2. PICK r : r = fetch_new(f, known[w], ResumeFrom(w), days[w])
  OBVIOUS
<1>3. /\ TypeOK /\ Saved(f)
      /\ known[w] = folder_state[f] /\ days[w] >= DefaultDays
  BY <1>1 DEF FetchNew, AloneInv
<1>4. /\ uidvalidity[f] \in Nat
      /\ known[w].uidvalidity \in Nat \cup {None}
  BY <1>3 DEF TypeOK, ServerTypeOK, FolderState
<1>5. IsReset(known[w], f) \/ GoodCursor(f, known[w].last_uid)
  BY <1>3, ZeroIsGood DEF Saved, IsReset
<1>6. Genuine(f, r.messages) /\ Complete(f, r.messages)
  BY <1>1, <1>2, <1>3, <1>5, FetchIsComplete DEF FetchNew
<1>7. /\ r.uidvalidity = uidvalidity[f]
      /\ ~r.reset => known[w].uidvalidity \in {None, uidvalidity[f]}
  BY <1>2 DEF fetch_new, IsReset
<1>8. known[w].uidvalidity # None => known[w].uidvalidity <= uidvalidity[f]
  BY <1>3 DEF Saved
<1>9. /\ pc'[w] = "ingest" /\ pc'[Http] = pc[Http] /\ fetched'[w] = r /\ Folder(w)' = f
      /\ UNCHANGED <<known, days, rows, folder_state, serverVars>>
  BY <1>1, <1>2, <1>3 DEF FetchNew, Goto, TypeOK, Folder, indexVars, Threads
<1>10. \A g \in Folders : Saved(g)'
  BY <1>3, <1>9, SameRowsKept, SavedStays DEF AloneInv
<1>11. UNCHANGED <<mailbox, uidvalidity, uidnext, today, date>>
  BY <1>9 DEF serverVars
<1>12. GenuineNext(f, r.messages) /\ CompleteNext(f, r.messages)
  BY <1>6, <1>9, <1>11
     DEF Genuine, GenuineNext, Complete, CompleteNext, Indexed, Recent, Readable
<1>13. Result(w, f)'
  BY <1>4, <1>7, <1>8, <1>9, <1>11, <1>12
     DEF Result, Genuine, GenuineNext, Complete, CompleteNext, Indexed, Recent, Readable
<1> QED
  BY <1>3, <1>9, <1>10, <1>13 DEF AloneInv

\* A result of the present numbering is written over good rows; one of an older
\* numbering where the cursor is of an older one as well.
LEMMA AloneIngests ==
  ASSUME NEW w \in Threads, w # Http, AloneInv(w), TypeOK', Ingest(w)
  PROVE  AloneInv(w)'
<1>1. PICK f \in Folders : f = Folder(w)
  BY FolderType DEF Ingest, AloneInv
<1>2. PICK messages : messages = fetched[w].messages
  OBVIOUS
<1>3. /\ TypeOK /\ Saved(f) /\ Result(w, f)
      /\ known[w] = folder_state[f] /\ days[w] >= DefaultDays /\ pc[w] = "ingest"
  BY <1>1 DEF Ingest, AloneInv
<1>4. /\ pc'[w] = "set_state" /\ pc'[Http] = pc[Http] /\ Folder(w)' = f
      /\ UNCHANGED <<known, days, fetched, folder_state, serverVars>>
  BY <1>1, <1>3 DEF Ingest, Goto, TypeOK, Folder, upsert_messages, Threads
<1>5. /\ uidvalidity[f] \in Nat /\ fetched[w].uidvalidity \in Nat
      /\ DOMAIN rows = Folders
  BY <1>3 DEF TypeOK, ServerTypeOK, IndexTypeOK
<1>6. /\ rows'[f] = Overlay(Parsed(messages), rows[f])
      /\ \A g \in Folders \ {f} : rows'[g] = rows[g]
  BY <1>1, <1>2, <1>5 DEF Ingest, upsert_messages
<1>7. /\ DOMAIN Parsed(messages) = {u \in DOMAIN messages : messages[u].msg \notin Unparseable}
      /\ \A u \in DOMAIN Parsed(messages) : Parsed(messages)[u] = messages[u]
  BY DEF Parsed
<1>8. folder_state[f].uidvalidity = uidvalidity[f] =>
        fetched[w].uidvalidity = uidvalidity[f]
  BY <1>3, <1>5, SyncAssumption DEF Result
<1>9. fetched[w].uidvalidity = uidvalidity[f] =>
        Genuine(f, messages) /\ Complete(f, messages)
  BY <1>2, <1>3 DEF Result
<1>10. \A g \in Folders : folder_state[g].uidvalidity = uidvalidity[g] => IndexKept(g)
  <2> SUFFICES ASSUME NEW g \in Folders, folder_state[g].uidvalidity = uidvalidity[g]
               PROVE  IndexKept(g)
    OBVIOUS
  <2>1. CASE g = f
    BY <1>6, <1>7, <1>8, <1>9, <2>1 DEF IndexKept, Overlay, Genuine
  <2>2. CASE g # f
    BY <1>6, <2>2 DEF IndexKept
  <2> QED
    BY <2>1, <2>2
<1>11. \A g \in Folders : Saved(g)'
  BY <1>3, <1>4, <1>10, SavedStays DEF AloneInv
<1>12. UNCHANGED <<mailbox, uidvalidity, uidnext, today, date>>
  BY <1>4 DEF serverVars
<1>13. ASSUME fetched[w].uidvalidity = uidvalidity[f]
       PROVE  /\ GenuineNext(f, messages)
              /\ \A v \in DOMAIN messages : GoodCursorNext(f, v)
  <2>1. GenuineNext(f, messages)
    BY <1>9, <1>12, <1>13 DEF Genuine, GenuineNext
  <2>2. ASSUME NEW v \in DOMAIN messages
        PROVE  GoodCursorNext(f, v)
    <3>1. ASSUME NEW u \in DOMAIN mailbox[f], u <= v, Readable(mailbox[f][u].msg),
                 Recent(mailbox[f][u].msg)
          PROVE  u \in DOMAIN rows'[f] /\ rows'[f][u].msg = mailbox[f][u].msg
      <4>1. u \in DOMAIN messages \/ Indexed(f, u)
        BY <1>9, <1>13, <3>1 DEF Complete
      <4>2. CASE u \in DOMAIN messages
        BY <1>6, <1>7, <1>9, <1>13, <3>1, <4>2 DEF Overlay, Readable, Genuine
      <4>3. CASE u \notin DOMAIN messages
        BY <1>6, <1>7, <4>1, <4>3 DEF Indexed, Overlay
      <4> QED
        BY <4>2, <4>3
    <3>2. v < uidnext'[f]
      BY <2>1 DEF GenuineNext
    <3> QED
      BY <1>12, <3>1, <3>2 DEF GoodCursorNext, Recent
  <2> QED
    BY <2>1, <2>2
<1>14. Result(w, f)'
  <2>1. /\ known[w].uidvalidity # None => known[w].uidvalidity <= fetched[w].uidvalidity
        /\ ~fetched[w].reset => known[w].uidvalidity \in {None, fetched[w].uidvalidity}
        /\ fetched[w].uidvalidity <= uidvalidity[f]
    BY <1>3 DEF Result
  <2> QED
    BY <1>2, <1>4, <1>12, <1>13, <2>1
       DEF Result, Genuine, GenuineNext, GoodCursor, GoodCursorNext, Covered, Indexed,
           Recent, Readable
<1> QED
  BY <1>3, <1>4, <1>11, <1>14 DEF AloneInv

\* The cursor the worker saves is of the numbering its result is of.
LEMMA AloneSaves ==
  ASSUME NEW w \in Threads, w # Http, AloneInv(w), TypeOK', SetState(w)
  PROVE  AloneInv(w)'
<1>1. PICK f \in Folders : f = Folder(w)
  BY FolderType DEF SetState, AloneInv
<1>2. PICK top \in {0} \cup DOMAIN fetched[w].messages :
        set_folder_state(f, fetched[w].uidvalidity, NewLast(w, top))
  BY <1>1 DEF SetState, StoreState
<1>3. /\ TypeOK /\ Saved(f) /\ Result(w, f)
      /\ known[w] = folder_state[f] /\ days[w] >= DefaultDays /\ pc[w] = "set_state"
  BY <1>1 DEF SetState, AloneInv
<1>4. /\ pc'[w] = "fetch_flags" /\ pc'[Http] = pc[Http]
      /\ UNCHANGED <<days, rows, serverVars>>
  BY <1>2, <1>3 DEF SetState, Goto, TypeOK, passVars, set_folder_state, Threads
<1>5. UNCHANGED <<mailbox, uidvalidity, uidnext, today, date>>
  BY <1>4 DEF serverVars
<1>6. /\ folder_state'[f].uidvalidity = fetched[w].uidvalidity
      /\ folder_state'[f].last_uid = NewLast(w, top)
      /\ \A g \in Folders \ {f} : folder_state'[g] = folder_state[g]
  BY <1>2, <1>3 DEF set_folder_state, TypeOK, IndexTypeOK
<1>7. /\ uidvalidity[f] \in Nat /\ fetched[w].uidvalidity \in Nat
      /\ known[w].last_uid \in Nat /\ top \in Nat
  BY <1>3 DEF TypeOK, ServerTypeOK, FolderState
<1>8. ASSUME fetched[w].uidvalidity = uidvalidity[f]
      PROVE  GoodCursor(f, NewLast(w, top))
  <2>1. GoodCursor(f, top)
    BY <1>3, <1>8, ZeroIsGood DEF Result
  <2>2. CASE fetched[w].reset
    <3>1. NewLast(w, top) = top
      BY <1>7, <2>2 DEF NewLast, Larger
    <3> QED
      BY <2>1, <3>1
  <2>3. CASE ~fetched[w].reset
    <3>1. NewLast(w, top) \in {top, known[w].last_uid}
      BY <2>3 DEF NewLast, Larger
    <3>2. known[w].uidvalidity \in {None, uidvalidity[f]}
      BY <1>3, <1>8, <2>3 DEF Result
    <3>3. GoodCursor(f, known[w].last_uid)
      BY <1>3, <3>2, ZeroIsGood DEF Saved
    <3> QED
      BY <2>1, <3>1, <3>3
  <2> QED
    BY <2>2, <2>3
<1>9. Saved(f)'
  <2>1. fetched[w].uidvalidity = uidvalidity[f] => GoodCursorNext(f, NewLast(w, top))
    BY <1>4, <1>5, <1>8
       DEF GoodCursor, GoodCursorNext, Covered, Indexed, Recent, Readable
  <2>2. fetched[w].uidvalidity <= uidvalidity[f] /\ fetched[w].uidvalidity # None
    BY <1>3, <1>7, SyncAssumption DEF Result
  <2> QED
    BY <1>5, <1>6, <2>1, <2>2
       DEF Saved, GoodCursor, GoodCursorNext, Covered, Indexed, Recent, Readable
<1>10. ASSUME NEW g \in Folders \ {f}
       PROVE  Saved(g)'
  <2>1. uidvalidity'[g] = uidvalidity[g] /\ uidvalidity[g] \in Nat /\ Saved(g)
    BY <1>3, <1>5 DEF AloneInv, TypeOK, ServerTypeOK
  <2>2. MailKept(g) /\ IndexKept(g)
    BY <1>3, <1>4, QuietServerKeepsMail, SameRowsKept
  <2> QED
    BY <1>3, <1>6, <2>1, <2>2, SavedKept
<1> QED
  BY <1>3, <1>4, <1>9, <1>10 DEF AloneInv

\* The server goes on to a new numbering, never back to an old one.
LEMMA NumbersGrow ==
  ASSUME ServerTypeOK, ServerNext, NEW f \in Folders
  PROVE  uidvalidity'[f] >= uidvalidity[f]
<1>1. uidvalidity[f] \in Nat /\ uidvalidity \in [Folders -> 1..MaxValidity]
  BY DEF ServerTypeOK
<1>2. UNCHANGED uidvalidity
        \/ \E g \in Folders : uidvalidity' = [uidvalidity EXCEPT ![g] = @ + 1]
  BY DEF ServerNext, Deliver, Expunge, Reflag, Renumber, NextDay
<1> QED
  BY <1>1, <1>2

LEMMA ServerLeavesAlone ==
  ASSUME NEW w \in Threads, AloneInv(w), TypeOK', ServerNext, UNCHANGED <<indexVars, syncVars>>
  PROVE  AloneInv(w)'
<1>1. /\ TypeOK /\ ServerTypeOK
      /\ UNCHANGED <<rows, folder_state, pc, todo, days, known, fetched>>
  BY DEF AloneInv, TypeOK, indexVars, syncVars, passVars
<1>2. ASSUME NEW f \in Folders
      PROVE  /\ uidvalidity[f] \in Nat /\ uidvalidity'[f] \in Nat
             /\ uidvalidity'[f] >= uidvalidity[f]
             /\ IndexKept(f)
             /\ uidvalidity'[f] = uidvalidity[f] => MailKept(f)
  <2>1. uidvalidity[f] \in Nat /\ uidvalidity'[f] \in Nat
    BY <1>1 DEF TypeOK, ServerTypeOK
  <2>2. uidvalidity'[f] >= uidvalidity[f]
    BY <1>1, NumbersGrow
  <2>3. IndexKept(f)
    BY <1>1, SameRowsKept
  <2>4. uidvalidity'[f] = uidvalidity[f] => MailKept(f)
    BY <1>1, ServerKeepsMail
  <2> QED
    BY <2>1, <2>2, <2>3, <2>4
<1>3. ASSUME NEW f \in Folders
      PROVE  Saved(f)'
  <2>1. Saved(f)
    BY DEF AloneInv
  <2>2. folder_state[f].uidvalidity = uidvalidity'[f] => uidvalidity'[f] = uidvalidity[f]
    BY <1>2, <2>1, SyncAssumption DEF Saved
  <2> QED
    BY <1>1, <1>2, <2>1, <2>2, SavedKept
<1>4. ASSUME NEW f \in Folders, Result(w, f)
      PROVE  Result(w, f)'
  <2>1. fetched[w].uidvalidity = uidvalidity'[f] => uidvalidity'[f] = uidvalidity[f]
    BY <1>2, <1>4 DEF Result
  <2> QED
    BY <1>1, <1>2, <1>4, <2>1, ResultKept
<1>5. ASSUME pc[w] \in {"ingest", "set_state"}
      PROVE  Result(w, Folder(w))'
  <2>1. PICK f \in Folders : f = Folder(w)
    BY <1>1, <1>5, FolderType
  <2>2. Folder(w)' = f
    BY <1>1, <2>1 DEF Folder
  <2>3. Result(w, f)
    BY <1>5, <2>1 DEF AloneInv
  <2>4. Result(w, f)'
    BY <1>4, <2>3
  <2> QED
    BY <2>2, <2>4
<1>6. Folder(w)' = Folder(w)
  BY <1>1 DEF Folder
<1> QED
  BY <1>1, <1>3, <1>5, <1>6 DEF AloneInv

\* A step after which the worker holds nothing of a folder.
LEMMA AloneRests ==
  ASSUME NEW w \in Threads, AloneInv(w), TypeOK', UNCHANGED <<serverVars, folder_state>>,
         \A f \in Folders : IndexKept(f), pc'[Http] = "idle",
         pc'[w] \notin {"fetch_new", "ingest", "set_state"},
         pc'[w] \notin {"idle", "done"} => days'[w] >= DefaultDays
  PROVE  AloneInv(w)'
<1>1. \A f \in Folders : Saved(f)'
  BY SavedStays DEF AloneInv
<1> QED
  BY <1>1 DEF AloneInv

LEMMA AloneStep ==
  ASSUME NEW w, WorkerAlone(w), AloneInv(w), [Next]_vars
  PROVE  AloneInv(w)'
<1>t. TypeOK /\ TypeOK' /\ pc[Http] = "idle"
  BY TypeStep DEF AloneInv
<1>w. w \in Threads /\ w # Http /\ Threads = {w, Http} /\ Workers = {w}
  BY SyncAssumption DEF WorkerAlone, Threads
<1>r. ASSUME UNCHANGED rows PROVE \A f \in Folders : IndexKept(f)
  BY <1>r, SameRowsKept
<1>1. ASSUME GetState(w) PROVE AloneInv(w)'
  <2>1. /\ pc'[w] = "fetch_new" /\ pc'[Http] = "idle"
        /\ known'[w] = folder_state'[Folder(w)] /\ Folder(w)' = Folder(w)
        /\ UNCHANGED <<serverVars, rows, folder_state, days>>
    BY <1>1, <1>t, <1>w DEF GetState, Goto, TypeOK, indexVars, Folder
  <2>2. \A f \in Folders : Saved(f)'
    BY <1>r, <1>t, <2>1, SavedStays DEF AloneInv
  <2>3. days[w] >= DefaultDays
    BY <1>1 DEF AloneInv, GetState
  <2> QED
    BY <1>t, <2>1, <2>2, <2>3 DEF AloneInv
<1>2. ASSUME FetchNew(w) PROVE AloneInv(w)'
  BY <1>2, <1>t, <1>w, AloneFetches
<1>3. ASSUME Ingest(w) PROVE AloneInv(w)'
  BY <1>3, <1>t, <1>w, AloneIngests
<1>4. ASSUME SetState(w) PROVE AloneInv(w)'
  BY <1>4, <1>t, <1>w, AloneSaves
<1>5. ASSUME PassFails(w) \/ Classify(w) PROVE AloneInv(w)'
  <2>1. /\ pc'[w] = "idle" /\ pc'[Http] = "idle"
        /\ UNCHANGED <<serverVars, rows, folder_state>>
    BY <1>5, <1>t, <1>w DEF PassFails, Classify, EndPass, Goto, TypeOK, indexVars
  <2> QED
    BY <1>r, <1>t, <1>w, <2>1, AloneRests
<1>6. ASSUME Wake(w) PROVE AloneInv(w)'
  <2>1. /\ pc'[w] \in {"get_state", "done"} /\ pc'[Http] = "idle" /\ days'[w] = DefaultDays
        /\ UNCHANGED <<serverVars, rows, folder_state>>
    BY <1>6, <1>t, <1>w DEF Wake, StartPass, Goto, TypeOK, indexVars
  <2> QED
    BY <1>r, <1>t, <1>w, <2>1, WindowIsNat, AloneRests
<1>7. ASSUME FetchFlags(w) PROVE AloneInv(w)'
  <2>1. /\ pc'[w] = "update_flags" /\ pc'[Http] = "idle"
        /\ UNCHANGED <<serverVars, rows, folder_state, days>>
    BY <1>7, <1>t, <1>w DEF FetchFlags, Goto, TypeOK, indexVars
  <2>2. days[w] >= DefaultDays
    BY <1>7 DEF AloneInv, FetchFlags
  <2> QED
    BY <1>r, <1>t, <1>w, <2>1, <2>2, AloneRests
<1>8. ASSUME UpdateFlags(w) \/ FlagsFail(w) PROVE AloneInv(w)'
  <2>1. Folder(w) \in Folders
    BY <1>8, <1>t, <1>w, FolderType DEF UpdateFlags, FlagsFail
  <2>2. \A f \in Folders : IndexKept(f)
    <3>1. CASE UpdateFlags(w)
      BY <1>t, <2>1, <3>1 DEF UpdateFlags, update_flags, IndexKept, TypeOK, IndexTypeOK
    <3>2. CASE FlagsFail(w)
      <4>1. UNCHANGED rows
        BY <3>2 DEF FlagsFail, indexVars
      <4> QED
        BY <1>r, <4>1
    <3> QED
      BY <1>8, <3>1, <3>2
  <2>3. /\ pc'[w] \in {"get_state", "done"} /\ pc'[Http] = "idle"
        /\ UNCHANGED <<serverVars, folder_state, days>>
    BY <1>8, <1>t, <1>w
       DEF UpdateFlags, update_flags, FlagsFail, NextFolder, Goto, TypeOK, indexVars
  <2>4. days[w] >= DefaultDays
    BY <1>8 DEF AloneInv, UpdateFlags, FlagsFail
  <2> QED
    BY <1>t, <1>w, <2>2, <2>3, <2>4, AloneRests
<1>9. ASSUME ThreadNext(Http) \/ HttpNext PROVE FALSE
  BY <1>9, <1>t
     DEF ThreadNext, GetState, FetchNew, Ingest, SetState, PassFails, HttpNext, Reread,
         Respond, WorkerAlone
<1>10. ASSUME Crash PROVE AloneInv(w)'
  <2>1. /\ pc'[w] = "idle" /\ pc'[Http] = "idle"
        /\ UNCHANGED <<serverVars, rows, folder_state>>
    BY <1>10, <1>w DEF Crash, indexVars
  <2> QED
    BY <1>r, <1>t, <1>w, <2>1, AloneRests
<1>11. ASSUME ServerNext, UNCHANGED <<indexVars, syncVars>> PROVE AloneInv(w)'
  BY <1>11, <1>t, <1>w, ServerLeavesAlone
<1>12. ASSUME UNCHANGED vars PROVE AloneInv(w)'
  <2>1. UNCHANGED <<serverVars, indexVars, pc, todo, days, known, fetched>>
    BY <1>12 DEF vars, syncVars, passVars
  <2>2. UNCHANGED <<mailbox, uidvalidity, uidnext, today, date, rows, folder_state>>
    BY <2>1 DEF serverVars, indexVars
  <2> QED
    BY <1>t, <2>1, <2>2
       DEF AloneInv, Saved, Result, GoodCursor, Covered, Indexed, Recent, Readable, Genuine,
           Complete, Folder
<1>13. ASSUME NEW t \in Threads, ThreadNext(t) PROVE AloneInv(w)'
  BY <1>1, <1>2, <1>3, <1>4, <1>5, <1>9, <1>13, <1>w DEF ThreadNext
<1>14. ASSUME NEW v \in Workers, WorkerNext(v) PROVE AloneInv(w)'
  BY <1>5, <1>6, <1>7, <1>8, <1>14, <1>w DEF WorkerNext
<1> QED
  BY <1>9, <1>10, <1>11, <1>12, <1>13, <1>14 DEF Next, ServiceNext

\* Through any number of renumberings, failures and restarts one worker without
\* POST /sync skips no mail: it starts over from the window when it meets a new
\* UIDVALIDITY (sync.py:84-95).
THEOREM CursorAcrossRenumberings ==
  ASSUME NEW w, WorkerAlone(w)
  PROVE  Spec => []NoMailSkipped
<1>1. Init => AloneInv(w)
  <2> SUFFICES ASSUME Init PROVE AloneInv(w)
    OBVIOUS
  <2>1. TypeOK /\ pc[w] = "idle" /\ pc[Http] = "idle"
    BY InitTypeOK DEF Init, WorkerAlone, Threads
  <2>2. \A f \in Folders : folder_state[f] = NeverSynced
    BY DEF Init, IndexInit
  <2>3. \A f \in Folders : Saved(f)
    BY <2>1, <2>2, FreshValidity, ZeroIsGood DEF Saved, NeverSynced
  <2> QED
    BY <2>1, <2>3 DEF AloneInv
<1>2. AloneInv(w) /\ [Next]_vars => AloneInv(w)'
  BY AloneStep
<1>3. AloneInv(w) => NoMailSkipped
  BY DEF AloneInv, Saved, GoodCursor, NoMailSkipped
<1> QED
  BY <1>1, <1>2, <1>3, PTL DEF Spec

=============================================================================
