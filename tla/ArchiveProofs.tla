---------------------------- MODULE ArchiveProofs ----------------------------
(***************************************************************************)
(* Archive requests beside the syncing threads, while the server renumbers *)
(* no mailbox: the message moved is the one the caller was shown, the      *)
(* saved cursor still skips no mail, and, with one worker and no POST      *)
(* /sync or without workers, a removed row does not come back.  README.md  *)
(* names the ways in which it does come back otherwise.                    *)
(***************************************************************************)
EXTENDS MailArchive, CursorProofs

\* A message is in one mailbox, once.
OneCopy ==
  \A f, g \in Folders : \A u \in DOMAIN mailbox[f], v \in DOMAIN mailbox[g] :
    mailbox[f][u].msg = mailbox[g][v].msg => f = g /\ u = v

\* What the index and the threads hold is of the server's mailbox or was.
GenuineMail ==
  /\ \A f \in Folders : Genuine(f, rows[f])
  /\ \A t \in Threads : pc[t] = "ingest" => Genuine(Folder(t), fetched[t].messages)

\* The locator names the message that the caller was shown, or none any more.
\* Once the server has moved the message, it names none.
RequestInv ==
  /\ archiving.step # "none" =>
       archiving.folder # ArchiveFolder /\ archiving.uid < uidnext[archiving.folder]
  /\ archiving.step = "move" /\ archiving.uid \in DOMAIN mailbox[archiving.folder] =>
       mailbox[archiving.folder][archiving.uid].msg = archiving.msg
  /\ archiving.step = "remove" => archiving.uid \notin DOMAIN mailbox[archiving.folder]

ArchiveInv ==
  /\ ArchiveTypeOK
  /\ OneCopy
  /\ GenuineMail
  /\ RequestInv

-----------------------------------------------------------------------------
(* What removes a row for good: no thread still holds its message. *)

Held(f, u) ==
  \E t \in Threads :
    pc[t] = "ingest" /\ Folder(t) = f /\ u \in DOMAIN fetched[t].messages

GhostInv ==
  \A id \in removed :
    /\ ~HasRow(id)
    /\ id[2] < uidnext[id[1]] /\ id[2] \notin DOMAIN mailbox[id[1]]
    /\ ~Held(id[1], id[2])

NothingHeld == archiving.step = "remove" => ~Held(archiving.folder, archiving.uid)

\* The event loop serves one request at a time.
OneHandler == archiving.step # "none" => pc[Http] = "idle"

\* The only worker: the cursor is the one it read, and the index holds what is
\* below it, or what the worker has just upserted.
LoneWorker(w) ==
  /\ pc[Http] = "idle"
  /\ \A f \in Folders : folder_state[f].uidvalidity \in {None, 1}
  /\ pc[w] \in {"fetch_new", "ingest", "set_state"} => known[w] = folder_state[Folder(w)]
  /\ pc[w] \in {"ingest", "set_state"} =>
       /\ fetched[w].uidvalidity = 1
       /\ ~fetched[w].reset
       /\ \A u \in DOMAIN fetched[w].messages : u > known[w].last_uid
  /\ \A f \in Folders : \A u \in DOMAIN rows[f] :
       \/ u <= folder_state[f].last_uid
       \/ pc[w] = "set_state" /\ Folder(w) = f /\ u \in DOMAIN fetched[w].messages
  /\ archiving.step # "none" => archiving.uid \in DOMAIN rows[archiving.folder]

-----------------------------------------------------------------------------
(* The server's part of an archive request. *)

LEMMA ArchiveFolderType == ArchiveFolder \in Folders
BY ArchiveAssumption

\* The message leaves its folder and is the newest of the archive folder.
LEMMA MoveOfMessage ==
  ASSUME ServerTypeOK, NEW f \in Folders, f # ArchiveFolder, NEW u \in DOMAIN mailbox[f],
         MoveOnServer(f, u)
  PROVE  /\ mailbox'[f] = Without(mailbox[f], u)
         /\ mailbox'[ArchiveFolder] =
              Overlay([v \in {uidnext[ArchiveFolder]} |-> mailbox[f][u]],
                      mailbox[ArchiveFolder])
         /\ \A g \in Folders \ {f, ArchiveFolder} : mailbox'[g] = mailbox[g]
         /\ DOMAIN mailbox' = Folders
         /\ uidnext' = [uidnext EXCEPT ![ArchiveFolder] = @ + 1]
<1>1. MoveTarget(f, u) = {u}
  BY DEF MoveTarget
<1>2. Cardinality({u}) = 1
  BY FS_Singleton
<1>3. (CHOOSE w \in {u} : TRUE) = u
  OBVIOUS
<1>4. [v \in {uidnext[ArchiveFolder] : w \in {u}} |-> mailbox[f][CHOOSE w \in {u} : TRUE]]
        = [v \in {uidnext[ArchiveFolder]} |-> mailbox[f][u]]
  BY <1>3
<1>5. mailbox' = [mailbox EXCEPT ![f] = [v \in DOMAIN @ \ {u} |-> @[v]],
                    ![ArchiveFolder] =
                      Overlay([v \in {uidnext[ArchiveFolder]} |-> mailbox[f][u]], @)]
  BY <1>1, <1>4 DEF MoveOnServer
<1>6. uidnext' = [uidnext EXCEPT ![ArchiveFolder] = @ + 1]
  BY <1>1, <1>2 DEF MoveOnServer
<1> QED
  BY <1>5, <1>6, ArchiveFolderType DEF ServerTypeOK, Without

\* A locator whose message is gone moves nothing.
LEMMA MoveOfNothing ==
  ASSUME ServerTypeOK, NEW f \in Folders, f # ArchiveFolder, NEW u \in Nat,
         u \notin DOMAIN mailbox[f], MoveOnServer(f, u)
  PROVE  /\ \A g \in Folders :
              /\ DOMAIN mailbox'[g] = DOMAIN mailbox[g]
              /\ \A v \in DOMAIN mailbox[g] : mailbox'[g][v] = mailbox[g][v]
         /\ DOMAIN mailbox' = Folders
         /\ uidnext' = uidnext
<1> DEFINE none == [v \in {uidnext[ArchiveFolder] : w \in MoveTarget(f, u)} |->
                      mailbox[f][CHOOSE w \in MoveTarget(f, u) : TRUE]]
<1>1. MoveTarget(f, u) = {}
  BY DEF MoveTarget
<1>2. Cardinality(MoveTarget(f, u)) = 0
  BY <1>1, FS_EmptySet
<1>3. mailbox' = [mailbox EXCEPT ![f] = [v \in DOMAIN @ \ MoveTarget(f, u) |-> @[v]],
                    ![ArchiveFolder] = Overlay(none, @)]
  BY DEF MoveOnServer
<1>4. DOMAIN none = {}
  BY <1>1
<1>5. uidnext' = [uidnext EXCEPT ![ArchiveFolder] = @ + 0]
  BY <1>2 DEF MoveOnServer
<1> HIDE DEF none
<1>6. DOMAIN Overlay(none, mailbox[ArchiveFolder]) = DOMAIN mailbox[ArchiveFolder]
  BY <1>4 DEF Overlay
<1>7. \A v \in DOMAIN mailbox[ArchiveFolder] :
        Overlay(none, mailbox[ArchiveFolder])[v] = mailbox[ArchiveFolder][v]
  BY <1>4 DEF Overlay
<1>8. /\ mailbox'[f] = [v \in DOMAIN mailbox[f] |-> mailbox[f][v]]
      /\ mailbox'[ArchiveFolder] = Overlay(none, mailbox[ArchiveFolder])
      /\ \A g \in Folders \ {f, ArchiveFolder} : mailbox'[g] = mailbox[g]
      /\ DOMAIN mailbox' = Folders
  BY <1>1, <1>3, ArchiveFolderType DEF ServerTypeOK
<1>9. uidnext' = uidnext
  BY <1>5, ArchiveFolderType DEF ServerTypeOK
<1> QED
  BY <1>6, <1>7, <1>8, <1>9

\* Either way, what a mailbox has then it had before, but for the moved message.
LEMMA MoveWrites ==
  ASSUME ServerTypeOK, NEW f \in Folders, f # ArchiveFolder, NEW u \in Nat,
         MoveOnServer(f, u)
  PROVE  /\ \A g \in Folders : \A v \in DOMAIN mailbox'[g] :
              \/ /\ v \in DOMAIN mailbox[g] /\ mailbox'[g][v] = mailbox[g][v]
                 /\ g = f => v # u
              \/ /\ g = ArchiveFolder /\ v = uidnext[g] /\ uidnext'[g] = uidnext[g] + 1
                 /\ u \in DOMAIN mailbox[f] /\ mailbox'[g][v] = mailbox[f][u]
         /\ \A g \in Folders : uidnext'[g] \in {uidnext[g], uidnext[g] + 1}
         /\ DOMAIN mailbox' = Folders
         /\ uidnext' \in [Folders -> Nat \ {0}]
<1>1. CASE u \in DOMAIN mailbox[f]
  <2>0. /\ mailbox'[f] = Without(mailbox[f], u)
        /\ mailbox'[ArchiveFolder] =
             Overlay([v \in {uidnext[ArchiveFolder]} |-> mailbox[f][u]],
                     mailbox[ArchiveFolder])
    BY <1>1, MoveOfMessage
  <2>1. ASSUME NEW v \in DOMAIN mailbox'[f]
        PROVE  v \in DOMAIN mailbox[f] /\ mailbox'[f][v] = mailbox[f][v] /\ v # u
    BY <2>0, <2>1 DEF Without
  <2>2. ASSUME NEW v \in DOMAIN mailbox'[ArchiveFolder], v \notin DOMAIN mailbox[ArchiveFolder]
        PROVE  v = uidnext[ArchiveFolder] /\ mailbox'[ArchiveFolder][v] = mailbox[f][u]
    BY <2>0, <2>2 DEF Overlay
  <2>3. ASSUME NEW v \in DOMAIN mailbox'[ArchiveFolder], v \in DOMAIN mailbox[ArchiveFolder]
        PROVE  mailbox'[ArchiveFolder][v] = mailbox[ArchiveFolder][v]
    <3>1. v # uidnext[ArchiveFolder]
      BY <2>3, ArchiveFolderType DEF ServerTypeOK
    <3> QED
      BY <2>0, <2>3, <3>1 DEF Overlay
  <2>4. /\ uidnext' = [uidnext EXCEPT ![ArchiveFolder] = @ + 1]
        /\ DOMAIN mailbox' = Folders
        /\ \A g \in Folders \ {f, ArchiveFolder} : mailbox'[g] = mailbox[g]
    BY <1>1, MoveOfMessage
  <2>5. /\ \A g \in Folders : uidnext'[g] \in {uidnext[g], uidnext[g] + 1}
        /\ uidnext'[ArchiveFolder] = uidnext[ArchiveFolder] + 1
        /\ uidnext' \in [Folders -> Nat \ {0}]
    BY <2>4, ArchiveFolderType DEF ServerTypeOK
  <2> QED
    BY <1>1, <2>1, <2>2, <2>3, <2>4, <2>5
<1>2. CASE u \notin DOMAIN mailbox[f]
  BY <1>2, MoveOfNothing DEF ServerTypeOK
<1> QED
  BY <1>1, <1>2

LEMMA MoveType ==
  ASSUME ServerTypeOK, NEW f \in Folders, f # ArchiveFolder, NEW u \in Nat,
         MoveOnServer(f, u)
  PROVE  ServerTypeOK'
<1>1. UNCHANGED <<uidvalidity, today, date>>
  BY DEF MoveOnServer
<1>2. ASSUME NEW g \in Folders, NEW v \in DOMAIN mailbox'[g]
      PROVE  v \in 1..(uidnext'[g] - 1) /\ mailbox'[g][v] \in Entry
  <2>1. uidnext[g] \in Nat \ {0}
    BY DEF ServerTypeOK
  <2>2. \A w \in DOMAIN mailbox[g] : w \in 1..(uidnext[g] - 1) /\ mailbox[g][w] \in Entry
    BY DEF ServerTypeOK
  <2>3. \A w \in DOMAIN mailbox[f] : mailbox[f][w] \in Entry
    BY DEF ServerTypeOK
  <2> QED
    BY <2>1, <2>2, <2>3, MoveWrites
<1> QED
  BY <1>1, <1>2, MoveWrites DEF ServerTypeOK, Entry

\* A move uses a new UID, as a delivery does.
LEMMA MoveKeepsMail ==
  ASSUME TypeOK, NEW f \in Folders, f # ArchiveFolder, NEW u \in Nat, MoveOnServer(f, u),
         NEW g \in Folders
  PROVE  MailKept(g)
<1>1. UNCHANGED <<today, date>>
  BY DEF MoveOnServer
<1>2. ServerTypeOK /\ uidnext[g] \in Nat
  BY DEF TypeOK, ServerTypeOK
<1>3. \A v \in DOMAIN mailbox'[g] : v < uidnext[g] =>
        v \in DOMAIN mailbox[g] /\ mailbox'[g][v] = mailbox[g][v]
  BY <1>2, MoveWrites
<1>4. uidnext[g] <= uidnext'[g]
  BY <1>2, MoveWrites
<1> QED
  BY <1>1, <1>3, <1>4 DEF MailKept, Recent

-----------------------------------------------------------------------------
(* The kinds of step.                                                      *)

\* The server has moved the message; the handler goes on or never hears of it.
MovedStep ==
  /\ archiving.step = "move"
  /\ MoveOnServer(archiving.folder, archiving.uid)
  /\ archiving' \in {[archiving EXCEPT !.step = "remove"], NoRequest}
  /\ UNCHANGED <<indexVars, syncVars, removed>>

\* A step of MailSync or of nobody; the request may be given up.
SyncStep ==
  /\ [Next]_vars
  /\ archiving' \in {archiving, NoRequest}
  /\ UNCHANGED removed

LEMMA ArchiveSteps ==
  ASSUME [ArchiveNext]_allVars
  PROVE  \/ \E f \in Folders : \E u \in DOMAIN rows[f] : Locate(f, u)
         \/ MovedStep
         \/ Remove
         \/ SyncStep
<1>1. ASSUME SyncRequest PROVE SyncStep
  BY <1>1 DEF SyncRequest, SyncStep, Next, ServiceNext, HttpNext, archiveVars
<1>2. ASSUME SyncHandler PROVE SyncStep
  <2>1. Http \in Threads
    BY DEF Threads
  <2> QED
    BY <1>2, <2>1 DEF SyncHandler, SyncStep, Next, ServiceNext, HttpNext, archiveVars
<1>3. ASSUME WorkerThread PROVE SyncStep
  <2>1. Workers \subseteq Threads
    BY DEF Threads
  <2> QED
    BY <1>3, <2>1 DEF WorkerThread, SyncStep, Next, ServiceNext, archiveVars
<1>4. ASSUME Restart PROVE SyncStep
  BY <1>4 DEF Restart, SyncStep, Next, ServiceNext
<1>5. ASSUME ServerNext, UNCHANGED <<indexVars, syncVars, archiveVars>> PROVE SyncStep
  BY <1>5 DEF SyncStep, Next, archiveVars
<1>6. ASSUME Move PROVE MovedStep
  BY <1>6 DEF Move, MovedStep
<1>7. ASSUME MoveFails PROVE MovedStep \/ SyncStep
  BY <1>7 DEF MoveFails, MovedStep, SyncStep, vars
<1>8. ASSUME RemoveFails PROVE SyncStep
  BY <1>8 DEF RemoveFails, SyncStep
<1>9. ASSUME UNCHANGED allVars PROVE SyncStep
  BY <1>9 DEF SyncStep, allVars, archiveVars
<1> QED
  BY <1>1, <1>2, <1>3, <1>4, <1>5, <1>6, <1>7, <1>8, <1>9 DEF ArchiveNext, ArchiveMessage

\* A request under way names a folder, a UID and a message.
LEMMA RequestType ==
  ASSUME ArchiveTypeOK, archiving.step # "none"
  PROVE  /\ archiving \in Request
         /\ archiving.folder \in Folders /\ archiving.uid \in Nat /\ archiving.msg \in Messages
         /\ [archiving EXCEPT !.step = "remove"] \in Request
<1>1. archiving \in Request
  BY DEF ArchiveTypeOK, NoRequest
<1> QED
  BY <1>1 DEF Request

\* No request is under way in the folder that requests move messages to.
NotOfArchive == archiving.step # "none" => archiving.folder # ArchiveFolder

LEMMA ArchiveTypeStep ==
  ASSUME ArchiveTypeOK, NotOfArchive, [ArchiveNext]_allVars
  PROVE  ArchiveTypeOK' /\ NotOfArchive'
<1>n. NoRequest.step = "none"
  BY DEF NoRequest
<1>1. ASSUME NEW f \in Folders, NEW u \in DOMAIN rows[f], Locate(f, u)
      PROVE  ArchiveTypeOK' /\ NotOfArchive'
  <2>1. TypeOK'
    BY <1>1, TypeStep DEF Locate, ArchiveTypeOK
  <2>2. u \in Nat /\ rows[f][u].msg \in Messages
    BY DEF ArchiveTypeOK, TypeOK, IndexTypeOK, Entry
  <2>3. archiving' = [step |-> "move", folder |-> f, uid |-> u, msg |-> rows[f][u].msg]
    BY <1>1 DEF Locate
  <2>4. archiving' \in Request /\ archiving'.folder = f
    BY <2>2, <2>3 DEF Request
  <2> QED
    BY <1>1, <2>1, <2>4 DEF Locate, ArchiveTypeOK, NotOfArchive, Request, NoRequest
<1>2. ASSUME MovedStep PROVE ArchiveTypeOK' /\ NotOfArchive'
  <2>1. archiving.folder \in Folders /\ archiving.uid \in Nat /\ archiving.folder # ArchiveFolder
    BY <1>2, RequestType DEF MovedStep, NotOfArchive
  <2>2. ServerTypeOK'
    BY <1>2, <2>1, MoveType DEF MovedStep, ArchiveTypeOK, TypeOK
  <2>3. TypeOK'
    <3>1. IndexTypeOK' /\ LocalTypeOK'
      BY <1>2, TypeParts, IndexTypeKept, LocalTypeKept DEF MovedStep, ArchiveTypeOK
    <3> QED
      BY <2>2, <3>1 DEF TypeOK, LocalTypeOK
  <2>4. archiving' \in Request \cup {NoRequest}
    BY <1>2, RequestType DEF MovedStep
  <2>5. archiving \in Request
    BY <1>2, RequestType DEF MovedStep
  <2>6. archiving' = NoRequest \/ archiving'.folder = archiving.folder
    BY <1>2, <2>5 DEF MovedStep, Request
  <2> QED
    BY <1>2, <1>n, <2>1, <2>3, <2>4, <2>6 DEF MovedStep, ArchiveTypeOK, NotOfArchive, Request
<1>3. ASSUME Remove PROVE ArchiveTypeOK' /\ NotOfArchive'
  <2>1. archiving.folder \in Folders /\ archiving.uid \in Nat
    BY <1>3, RequestType DEF Remove
  <2>2. IndexTypeOK'
    BY <1>3, <2>1 DEF Remove, remove_message, Without, ArchiveTypeOK, TypeOK, IndexTypeOK
  <2>3. TypeOK'
    <3>1. ServerTypeOK' /\ LocalTypeOK'
      BY <1>3, TypeParts, ServerTypeKept, LocalTypeKept DEF Remove, ArchiveTypeOK
    <3> QED
      BY <2>2, <3>1 DEF TypeOK, LocalTypeOK
  <2> QED
    BY <1>3, <1>n, <2>1, <2>3 DEF Remove, ArchiveTypeOK, NotOfArchive, stable_id, Request
<1>4. ASSUME SyncStep PROVE ArchiveTypeOK' /\ NotOfArchive'
  BY <1>4, <1>n, TypeStep DEF SyncStep, ArchiveTypeOK, NotOfArchive, Request
<1> QED
  BY <1>1, <1>2, <1>3, <1>4, ArchiveSteps

LEMMA ArchiveInitType == ArchiveInit => ArchiveTypeOK /\ NotOfArchive
BY InitTypeOK DEF ArchiveInit, ArchiveTypeOK, NotOfArchive, NoRequest

\* Every variable keeps its type, with archive requests and renumberings.
THEOREM ArchiveTypes == ArchiveSpec => []ArchiveTypeOK
<1>1. ArchiveTypeOK /\ NotOfArchive /\ [ArchiveNext]_allVars => (ArchiveTypeOK /\ NotOfArchive)'
  BY ArchiveTypeStep
<1> QED
  BY <1>1, ArchiveInitType, PTL DEF ArchiveSpec

-----------------------------------------------------------------------------
(* Where rows and results come from. *)

\* A row a step writes holds the message of a result that is being stored, or
\* the one it held.
LEMMA RowsComeFromResults ==
  ASSUME TypeOK, [Next]_vars, NEW f \in Folders, NEW u \in DOMAIN rows'[f]
  PROVE  \/ u \in DOMAIN rows[f] /\ rows'[f][u].msg = rows[f][u].msg
         \/ \E t \in Threads :
              /\ pc[t] = "ingest" /\ Folder(t) = f /\ u \in DOMAIN fetched[t].messages
              /\ rows'[f][u].msg = fetched[t].messages[u].msg
<1> DEFINE Kept == u \in DOMAIN rows[f] /\ rows'[f][u].msg = rows[f][u].msg
<1>1. UNCHANGED rows => Kept
  OBVIOUS
<1>2. ASSUME NEW t \in Threads, Ingest(t)
      PROVE  \/ Kept
             \/ /\ pc[t] = "ingest" /\ Folder(t) = f /\ u \in DOMAIN fetched[t].messages
                /\ rows'[f][u].msg = fetched[t].messages[u].msg
  <2> DEFINE g == Folder(t)
             p == Parsed(fetched[t].messages)
  <2>1. g \in Folders
    BY <1>2, FolderType DEF Ingest
  <2>2. rows' = [rows EXCEPT ![g] = Overlay(p, @)] /\ pc[t] = "ingest"
    BY <1>2 DEF Ingest, upsert_messages
  <2>3. \A v \in DOMAIN p : v \in DOMAIN fetched[t].messages /\ p[v] = fetched[t].messages[v]
    BY DEF Parsed
  <2> HIDE DEF g, p
  <2>4. CASE g = f
    <3>1. rows'[f] = Overlay(p, rows[f])
      BY <2>1, <2>2, <2>4 DEF TypeOK, IndexTypeOK
    <3> QED
      BY <2>2, <2>3, <2>4, <3>1 DEF Overlay, g
  <2>5. CASE g # f
    <3>1. rows'[f] = rows[f]
      BY <2>1, <2>2, <2>5 DEF TypeOK, IndexTypeOK
    <3> QED
      BY <3>1
  <2> QED
    BY <2>4, <2>5
<1>3. ASSUME NEW w \in Workers, UpdateFlags(w) PROVE Kept
  <2>1. Folder(w) \in Folders
    BY <1>3, FolderType DEF UpdateFlags, Threads
  <2> QED
    BY <1>3, <2>1 DEF UpdateFlags, update_flags, TypeOK, IndexTypeOK
<1>4. ASSUME NEW t \in Threads, GetState(t) \/ FetchNew(t) \/ SetState(t) \/ PassFails(t)
      PROVE  UNCHANGED rows
  BY <1>4 DEF GetState, FetchNew, SetState, StoreState, set_folder_state, PassFails, indexVars
<1>5. ASSUME NEW w \in Workers, Wake(w) \/ FetchFlags(w) \/ FlagsFail(w) \/ Classify(w)
      PROVE  UNCHANGED rows
  BY <1>5 DEF Wake, StartPass, FetchFlags, FlagsFail, Classify, indexVars
<1>6. ASSUME HttpNext PROVE UNCHANGED rows
  BY <1>6 DEF HttpNext, Sync, StartPass, Reread, Respond, indexVars
<1>7. Crash \/ UNCHANGED <<indexVars, syncVars>> \/ UNCHANGED vars => UNCHANGED rows
  BY DEF Crash, indexVars, vars
<1> HIDE DEF Kept
<1>8. ServiceNext => Kept \/ \E t \in Threads :
             /\ pc[t] = "ingest" /\ Folder(t) = f /\ u \in DOMAIN fetched[t].messages
             /\ rows'[f][u].msg = fetched[t].messages[u].msg
  BY <1>1, <1>2, <1>3, <1>4, <1>5, <1>6, <1>7 DEF ServiceNext, ThreadNext, WorkerNext
<1> QED
  BY <1>1, <1>7, <1>8 DEF Next, Kept

\* A thread about to store a result has just fetched it or keeps it.
LEMMA ResultsComeFromServer ==
  ASSUME TypeOK, [Next]_vars, NEW t \in Threads, pc'[t] = "ingest"
  PROVE  FetchNew(t) \/ (pc[t] = "ingest" /\ SameLocals(t))
<1> DEFINE Kept == pc[t] = "ingest" /\ SameLocals(t)
<1> USE DEF TypeOK, Goto, SameLocals
<1>1. ASSUME NEW s \in Threads, GetState(s) PROVE Kept
  BY <1>1 DEF GetState
<1>2. ASSUME NEW s \in Threads, FetchNew(s) PROVE s = t \/ Kept
  BY <1>2 DEF FetchNew
<1>3. ASSUME NEW s \in Threads, Ingest(s) PROVE Kept
  BY <1>3 DEF Ingest
<1>4. ASSUME NEW s \in Threads, SetState(s) PROVE Kept
  BY <1>4 DEF SetState, NextFolder, ForgetFolder, passVars
<1>5. ASSUME NEW s \in Threads, PassFails(s) PROVE Kept
  BY <1>5 DEF PassFails, EndPass, ForgetFolder
<1>6. ASSUME NEW w \in Workers, WorkerNext(w) PROVE Kept
  <2>1. w \in Threads
    BY DEF Threads
  <2> QED
    BY <1>6, <2>1 DEF WorkerNext, Wake, StartPass, FetchFlags, UpdateFlags, FlagsFail,
                      Classify, EndPass, NextFolder, ForgetFolder
<1>7. ASSUME HttpNext PROVE Kept
  <2>1. Http \in Threads
    BY DEF Threads
  <2> QED
    BY <1>7, <2>1 DEF HttpNext, Sync, StartPass, Reread, Respond, EndPass, ForgetFolder
<1>8. ~Crash
  BY DEF Crash
<1>9. UNCHANGED <<indexVars, syncVars>> \/ UNCHANGED vars => Kept
  BY DEF vars, syncVars, passVars
<1> HIDE DEF Kept
<1> QED
  BY <1>1, <1>2, <1>3, <1>4, <1>5, <1>6, <1>7, <1>8, <1>9
     DEF Next, ServiceNext, ThreadNext, Kept

\* What the server returns is what it has.
LEMMA FetchedIsGenuine ==
  ASSUME TypeOK, NEW t \in Threads, FetchNew(t)
  PROVE  /\ Folder(t)' = Folder(t) /\ Folder(t) \in Folders
         /\ \A u \in DOMAIN fetched'[t].messages :
              /\ u \in DOMAIN mailbox[Folder(t)]
              /\ fetched'[t].messages[u] = mailbox[Folder(t)][u]
         /\ UNCHANGED serverVars
<1>1. Folder(t) \in Folders
  BY FolderType DEF FetchNew
<1>2. fetched'[t] = fetch_new(Folder(t), known[t], ResumeFrom(t), days[t])
  BY DEF FetchNew, TypeOK
<1>3. \A u \in DOMAIN fetched'[t].messages :
        u \in DOMAIN mailbox[Folder(t)] /\ fetched'[t].messages[u] = mailbox[Folder(t)][u]
  BY <1>2 DEF fetch_new, SearchedUids
<1>4. Folder(t)' = Folder(t) /\ UNCHANGED serverVars
  BY DEF FetchNew, Folder
<1> QED
  BY <1>1, <1>3, <1>4

-----------------------------------------------------------------------------
(* Each message in one mailbox, genuine rows, the right locator. *)

\* The service's own sessions only read.
LEMMA SyncOnlyReads == [Next]_vars => UNCHANGED serverVars \/ ServerNext
BY DEF Next, ServiceNext, ThreadNext, WorkerNext, HttpNext, GetState, FetchNew, Ingest,
       SetState, PassFails, Wake, Sync, StartPass, FetchFlags, UpdateFlags, FlagsFail,
       Classify, Reread, Respond, Crash, vars

LEMMA ArchiveKeepsMail ==
  ASSUME NoRenumbering, ArchiveTypeOK, NotOfArchive, [ArchiveNext]_allVars,
         NEW f \in Folders
  PROVE  MailKept(f)
<1>t. TypeOK
  BY DEF ArchiveTypeOK
<1>1. CASE UNCHANGED serverVars
  BY <1>1, <1>t, QuietServerKeepsMail
<1>2. CASE ServerNext
  BY <1>2, <1>t, OneNumbering, ServerKeepsMail
<1>3. CASE MovedStep
  BY <1>3, <1>t, RequestType, MoveKeepsMail DEF MovedStep, NotOfArchive
<1> QED
  BY <1>1, <1>2, <1>3, SyncOnlyReads, ArchiveSteps DEF SyncStep, Locate, Remove, vars

LEMMA NothingNew ==
  ASSUME OneCopy,
         \A f \in Folders : \A u \in DOMAIN mailbox'[f] :
           u \in DOMAIN mailbox[f] /\ mailbox'[f][u].msg = mailbox[f][u].msg
  PROVE  OneCopy'
BY DEF OneCopy

\* Only a delivery and a move give a UID to a message: one that had none, and
\* one that loses the UID it had.
LEMMA OneCopyStep ==
  ASSUME NoRenumbering, ArchiveTypeOK, NotOfArchive, OneCopy, [ArchiveNext]_allVars
  PROVE  OneCopy'
<1>t. ServerTypeOK
  BY DEF ArchiveTypeOK, TypeOK
<1>1. ASSUME UNCHANGED serverVars PROVE OneCopy'
  BY <1>1 DEF OneCopy, serverVars
<1>2. ASSUME NEW f \in Folders, NEW m \in Messages, NEW d \in 0..today, Deliver(f, m, d)
      PROVE  OneCopy'
  <2>1. PICK flag \in FlagStates :
          mailbox' = [mailbox EXCEPT ![f] =
                        Overlay([u \in {uidnext[f]} |-> [msg |-> m, flag |-> flag]], @)]
    BY <1>2 DEF Deliver
  <2>2. \A g \in Folders : \A u \in DOMAIN mailbox[g] : mailbox[g][u].msg # m
    BY <1>2 DEF Deliver, Stored
  <2>3. \A g \in Folders : \A u \in DOMAIN mailbox'[g] :
          \/ u \in DOMAIN mailbox[g] /\ mailbox'[g][u] = mailbox[g][u]
          \/ g = f /\ u = uidnext[f] /\ mailbox'[g][u].msg = m
    BY <1>t, <2>1 DEF Overlay, ServerTypeOK
  <2> QED
    BY <2>2, <2>3 DEF OneCopy
<1>3. ASSUME NEW f \in Folders, NEW u \in DOMAIN mailbox[f], Expunge(f, u) PROVE OneCopy'
  BY <1>3, <1>t, NothingNew DEF Expunge, Without, ServerTypeOK
<1>4. ASSUME NEW f \in Folders, NEW u \in DOMAIN mailbox[f], NEW flag \in FlagStates,
             Reflag(f, u, flag)
      PROVE  OneCopy'
  BY <1>4, <1>t, NothingNew DEF Reflag, ServerTypeOK
<1>5. ASSUME NEW f \in Folders, Renumber(f) PROVE OneCopy'
  BY <1>5, <1>t DEF Renumber, NoRenumbering, ServerTypeOK
<1>6. ASSUME NextDay PROVE OneCopy'
  BY <1>6 DEF NextDay, OneCopy
<1>7. ASSUME MovedStep PROVE OneCopy'
  <2> DEFINE f == archiving.folder
             u == archiving.uid
  <2>1. f \in Folders /\ u \in Nat /\ f # ArchiveFolder /\ MoveOnServer(f, u)
    BY <1>7, RequestType DEF MovedStep, NotOfArchive
  <2> HIDE DEF f, u
  <2>2. \A g \in Folders : \A v \in DOMAIN mailbox'[g] :
          \/ /\ v \in DOMAIN mailbox[g] /\ mailbox'[g][v] = mailbox[g][v]
             /\ g = f => v # u
          \/ /\ g = ArchiveFolder /\ v = uidnext[g]
             /\ u \in DOMAIN mailbox[f] /\ mailbox'[g][v] = mailbox[f][u]
    BY <1>t, <2>1, MoveWrites
  <2> QED
    BY <2>1, <2>2 DEF OneCopy
<1>8. ServerNext => OneCopy'
  BY <1>2, <1>3, <1>4, <1>5, <1>6 DEF ServerNext
<1> QED
  BY <1>1, <1>7, <1>8, SyncOnlyReads, ArchiveSteps DEF SyncStep, Locate, Remove, vars

LEMMA GenuineStep ==
  ASSUME NoRenumbering, ArchiveInv, NotOfArchive, ArchiveTypeOK', [ArchiveNext]_allVars
  PROVE  GenuineMail'
<1>t. TypeOK /\ TypeOK'
  BY DEF ArchiveInv, ArchiveTypeOK
<1>1. \A f \in Folders : MailKept(f) /\ uidnext'[f] \in Nat
  BY <1>t, ArchiveKeepsMail DEF ArchiveInv, TypeOK, ServerTypeOK
<1>2. \A f \in Folders : GenuineNext(f, rows[f])
  BY <1>1, <1>t, GenuineKept DEF ArchiveInv, GenuineMail, TypeOK, IndexTypeOK
<1>3. ASSUME NEW t \in Threads, pc[t] = "ingest"
      PROVE  GenuineNext(Folder(t), fetched[t].messages)
  BY <1>1, <1>3, <1>t, FolderType, GenuineKept DEF ArchiveInv, GenuineMail, TypeOK
<1>4. ASSUME \A f \in Folders : \A u \in DOMAIN rows'[f] :
               u \in DOMAIN rows[f] /\ rows'[f][u].msg = rows[f][u].msg,
             UNCHANGED syncVars
      PROVE  GenuineMail'
  <2>1. \A f \in Folders : Genuine(f, rows[f])'
    BY <1>2, <1>4 DEF Genuine, GenuineNext
  <2>2. \A t \in Threads : pc'[t] = pc[t] /\ fetched'[t] = fetched[t] /\ Folder(t)' = Folder(t)
    BY <1>4 DEF syncVars, passVars, Folder
  <2>3. \A t \in Threads : (pc[t] = "ingest" => Genuine(Folder(t), fetched[t].messages))'
    BY <1>3, <2>2 DEF Genuine, GenuineNext
  <2> QED
    BY <2>1, <2>3 DEF GenuineMail
<1>5. ASSUME [Next]_vars PROVE GenuineMail'
  <2>1. ASSUME NEW f \in Folders, NEW u \in DOMAIN rows'[f]
        PROVE  /\ u < uidnext'[f]
               /\ u \in DOMAIN mailbox'[f] => mailbox'[f][u].msg = rows'[f][u].msg
    <3>1. CASE u \in DOMAIN rows[f] /\ rows'[f][u].msg = rows[f][u].msg
      BY <1>2, <3>1 DEF GenuineNext
    <3>2. ASSUME NEW t \in Threads, pc[t] = "ingest", Folder(t) = f,
                 u \in DOMAIN fetched[t].messages,
                 rows'[f][u].msg = fetched[t].messages[u].msg
          PROVE  /\ u < uidnext'[f]
                 /\ u \in DOMAIN mailbox'[f] => mailbox'[f][u].msg = rows'[f][u].msg
      <4>1. GenuineNext(f, fetched[t].messages)
        BY <1>3, <3>2
      <4> QED
        BY <3>2, <4>1 DEF GenuineNext
    <3> QED
      BY <1>5, <1>t, <3>1, <3>2, RowsComeFromResults
  <2>2. ASSUME NEW t \in Threads, pc'[t] = "ingest"
        PROVE  Genuine(Folder(t), fetched[t].messages)'
    <3>1. CASE FetchNew(t)
      <4>1. /\ Folder(t)' \in Folders
            /\ \A u \in DOMAIN fetched'[t].messages :
                 /\ u \in DOMAIN mailbox'[Folder(t)']
                 /\ fetched'[t].messages[u] = mailbox'[Folder(t)'][u]
        BY <1>t, <3>1, FetchedIsGenuine DEF serverVars
      <4>2. \A u \in DOMAIN mailbox'[Folder(t)'] : u < uidnext'[Folder(t)']
        BY <1>t, <4>1 DEF TypeOK, ServerTypeOK
      <4> QED
        BY <4>1, <4>2 DEF Genuine
    <3>2. CASE pc[t] = "ingest" /\ SameLocals(t)
      <4>1. fetched'[t] = fetched[t] /\ Folder(t)' = Folder(t)
        BY <3>2 DEF SameLocals, Folder
      <4> QED
        BY <1>3, <3>2, <4>1 DEF Genuine, GenuineNext
    <3> QED
      BY <1>5, <1>t, <2>2, <3>1, <3>2, ResultsComeFromServer
  <2> QED
    BY <2>1, <2>2 DEF GenuineMail, Genuine
<1>6. ASSUME NEW f \in Folders, NEW u \in DOMAIN rows[f], Locate(f, u) PROVE GenuineMail'
  BY <1>4, <1>6 DEF Locate, vars, indexVars
<1>7. ASSUME MovedStep PROVE GenuineMail'
  BY <1>4, <1>7 DEF MovedStep, indexVars
<1>8. ASSUME Remove PROVE GenuineMail'
  <2>1. archiving.folder \in Folders
    BY <1>8, RequestType DEF Remove, ArchiveInv
  <2> QED
    BY <1>4, <1>8, <1>t, <2>1 DEF Remove, remove_message, Without, TypeOK, IndexTypeOK
<1> QED
  BY <1>5, <1>6, <1>7, <1>8, ArchiveSteps DEF SyncStep

LEMMA RequestStep ==
  ASSUME NoRenumbering, ArchiveInv, NotOfArchive, ArchiveTypeOK', [ArchiveNext]_allVars
  PROVE  RequestInv'
<1>t. ArchiveTypeOK /\ TypeOK
  BY DEF ArchiveInv, ArchiveTypeOK
<1>n. NoRequest.step = "none"
  BY DEF NoRequest
<1>1. \A f \in Folders : MailKept(f) /\ uidnext'[f] \in Nat /\ uidnext[f] \in Nat
  BY <1>t, ArchiveKeepsMail DEF ArchiveInv, ArchiveTypeOK, TypeOK, ServerTypeOK
<1>2. ASSUME NEW f \in Folders, NEW u \in DOMAIN rows[f], Locate(f, u) PROVE RequestInv'
  <2>1. archiving' = [step |-> "move", folder |-> f, uid |-> u, msg |-> rows[f][u].msg]
        /\ f # ArchiveFolder /\ UNCHANGED <<mailbox, uidnext>>
    BY <1>2 DEF Locate, vars, serverVars
  <2>2. u < uidnext[f] /\ (u \in DOMAIN mailbox[f] => mailbox[f][u].msg = rows[f][u].msg)
    BY DEF ArchiveInv, GenuineMail, Genuine
  <2> QED
    BY <2>1, <2>2 DEF RequestInv
<1>3. CASE archiving' = NoRequest
  BY <1>3, <1>n DEF RequestInv
<1>4. CASE archiving' = archiving
  <2>1. CASE archiving.step = "none"
    BY <1>4, <2>1 DEF RequestInv
  <2>2. CASE archiving.step # "none"
    <3>1. archiving.folder \in Folders /\ archiving.uid \in Nat
      BY <1>t, <2>2, RequestType
    <3> QED
      BY <1>1, <1>4, <2>2, <3>1 DEF ArchiveInv, RequestInv, MailKept
  <2> QED
    BY <2>1, <2>2
<1>5. ASSUME MovedStep, archiving' # NoRequest PROVE RequestInv'
  <2>1. archiving \in Request /\ archiving.folder \in Folders /\ archiving.uid \in Nat
    BY <1>5, <1>t, RequestType DEF MovedStep
  <2>2. /\ archiving'.step = "remove"
        /\ archiving'.folder = archiving.folder /\ archiving'.uid = archiving.uid
    BY <1>5, <2>1 DEF MovedStep, Request
  <2>3. archiving.folder # ArchiveFolder /\ archiving.uid < uidnext[archiving.folder]
    BY <1>5 DEF ArchiveInv, RequestInv, MovedStep
  <2>4. archiving.uid < uidnext'[archiving.folder]
    BY <1>1, <2>1, <2>3 DEF MailKept
  <2>5. archiving.uid \notin DOMAIN mailbox'[archiving.folder]
    BY <1>5, <1>t, <2>1, <2>3, MoveWrites DEF MovedStep, TypeOK
  <2> QED
    BY <2>2, <2>3, <2>4, <2>5 DEF RequestInv
<1> QED
  BY <1>2, <1>3, <1>4, <1>5, ArchiveSteps DEF SyncStep, Remove

LEMMA ArchiveStep ==
  ASSUME NoRenumbering, ArchiveInv, [ArchiveNext]_allVars
  PROVE  ArchiveInv'
<1>1. ArchiveTypeOK /\ NotOfArchive
  BY DEF ArchiveInv, RequestInv, NotOfArchive
<1> QED
  BY <1>1, ArchiveTypeStep, OneCopyStep, GenuineStep, RequestStep DEF ArchiveInv

LEMMA ArchiveInitInv == ArchiveInit => ArchiveInv
<1> SUFFICES ASSUME ArchiveInit PROVE ArchiveInv
  OBVIOUS
<1>1. /\ \A f \in Folders : mailbox[f] = NoUids /\ rows[f] = NoUids
      /\ \A t \in Threads : pc[t] = "idle"
      /\ archiving.step = "none"
  BY DEF ArchiveInit, Init, ServerInit, IndexInit, NoRequest
<1> QED
  BY <1>1, ArchiveInitType, NoUidsType
     DEF ArchiveInv, OneCopy, GenuineMail, Genuine, RequestInv

-----------------------------------------------------------------------------
(* The message that is moved. *)

\* Another client's step does not take a message out of a mailbox and leave it
\* in another.
LEMMA ServerMovesNothing ==
  ASSUME NoRenumbering, ServerTypeOK, OneCopy, ServerNext, NEW m \in Messages
  PROVE  ~Moved(m)
<1> SUFFICES ASSUME NEW f \in Folders \ {ArchiveFolder},
                    NEW u \in DOMAIN mailbox[f] \ DOMAIN mailbox'[f],
                    NEW v \in DOMAIN mailbox'[ArchiveFolder],
                    mailbox[f][u].msg = m, mailbox'[ArchiveFolder][v].msg = m
             PROVE  FALSE
  BY DEF Moved
<1>1. v \notin DOMAIN mailbox[ArchiveFolder] \/ mailbox[ArchiveFolder][v].msg # m
  BY ArchiveFolderType DEF OneCopy
<1>2. ASSUME NEW g \in Folders, NEW n \in Messages, NEW d \in 0..today, Deliver(g, n, d)
      PROVE  FALSE
  BY <1>2 DEF Deliver, Overlay, ServerTypeOK
<1>3. ASSUME NEW g \in Folders, NEW w \in DOMAIN mailbox[g], Expunge(g, w) PROVE FALSE
  BY <1>1, <1>3, ArchiveFolderType DEF Expunge, Without, ServerTypeOK
<1>4. ASSUME NEW g \in Folders, NEW w \in DOMAIN mailbox[g], NEW flag \in FlagStates,
             Reflag(g, w, flag)
      PROVE  FALSE
  BY <1>4 DEF Reflag, ServerTypeOK
<1>5. ASSUME NEW g \in Folders, Renumber(g) PROVE FALSE
  BY <1>5 DEF Renumber, NoRenumbering, ServerTypeOK
<1>6. ASSUME NextDay PROVE FALSE
  BY <1>6 DEF NextDay
<1> QED
  BY <1>2, <1>3, <1>4, <1>5, <1>6 DEF ServerNext

LEMMA RightMessage ==
  ASSUME NoRenumbering, ArchiveInv, [ArchiveNext]_allVars, NEW m \in Messages,
         archiving.step = "move", Moved(m)
  PROVE  archiving.msg = m
<1>t. ArchiveTypeOK /\ ServerTypeOK /\ OneCopy
  BY DEF ArchiveInv, ArchiveTypeOK, TypeOK
<1>1. ~UNCHANGED mailbox
  BY DEF Moved
<1>2. ~ServerNext
  BY <1>t, ServerMovesNothing
<1>3. MovedStep
  BY <1>1, <1>2, ArchiveSteps, SyncOnlyReads DEF SyncStep, Locate, Remove, vars, serverVars
<1> DEFINE g == archiving.folder
           w == archiving.uid
<1>4. g \in Folders /\ g # ArchiveFolder /\ w \in Nat /\ MoveOnServer(g, w)
  BY <1>t, <1>3, RequestType DEF ArchiveInv, RequestInv, MovedStep
<1>5. w \in DOMAIN mailbox[g] => mailbox[g][w].msg = archiving.msg
  BY DEF ArchiveInv, RequestInv
<1> HIDE DEF g, w
<1>6. PICK f \in Folders \ {ArchiveFolder} : \E u \in DOMAIN mailbox[f] \ DOMAIN mailbox'[f] :
        mailbox[f][u].msg = m
  BY DEF Moved
<1>7. PICK u \in DOMAIN mailbox[f] \ DOMAIN mailbox'[f] : mailbox[f][u].msg = m
  BY <1>6
<1>8. w \in DOMAIN mailbox[g]
  BY <1>t, <1>4, <1>7, MoveOfNothing
<1>9. f = g /\ u = w
  <2>1. /\ mailbox'[g] = Without(mailbox[g], w)
        /\ \A h \in Folders \ {g, ArchiveFolder} : mailbox'[h] = mailbox[h]
    BY <1>t, <1>4, <1>8, MoveOfMessage
  <2>2. DOMAIN mailbox'[g] = DOMAIN mailbox[g] \ {w}
    BY <2>1 DEF Without
  <2> QED
    BY <1>7, <2>1, <2>2
<1> QED
  BY <1>5, <1>7, <1>8, <1>9

\* Unless the server renumbers a mailbox, what an archive request moves is the
\* message its caller was shown, for any number of threads, whatever they and
\* other clients do between the look into the index and the move, and whatever
\* fails.
THEOREM RightMessageMovedCorrect ==
  ASSUME NoRenumbering
  PROVE  ArchiveSpec => RightMessageMoved
<1>1. ArchiveInv /\ [ArchiveNext]_allVars => ArchiveInv'
  BY ArchiveStep
<1>2. ArchiveInv /\ [ArchiveNext]_allVars =>
        [\A m \in Messages : archiving.step = "move" /\ Moved(m) => archiving.msg = m]_allVars
  BY RightMessage
<1> QED
  BY <1>1, <1>2, ArchiveInitInv, PTL DEF ArchiveSpec, RightMessageMoved

-----------------------------------------------------------------------------
(* The cursor. *)

\* A row is removed once its message has left the mailbox.
LEMMA RemoveKeepsIndex ==
  ASSUME ArchiveInv, Remove, NEW f \in Folders
  PROVE  IndexKept(f)
<1>1. archiving.folder \in Folders
  BY RequestType DEF ArchiveInv, Remove
<1>2. archiving.uid \notin DOMAIN mailbox[archiving.folder]
  BY DEF ArchiveInv, RequestInv, Remove
<1> QED
  BY <1>1, <1>2
     DEF Remove, remove_message, Without, IndexKept, ArchiveInv, ArchiveTypeOK, TypeOK, IndexTypeOK

LEMMA CursorArchiveStep ==
  ASSUME NoRenumbering, WideRequests, ArchiveInv, CursorInv, [ArchiveNext]_allVars
  PROVE  CursorInv'
<1>t. ArchiveTypeOK /\ TypeOK' /\ NotOfArchive
  BY ArchiveStep DEF ArchiveInv, ArchiveTypeOK, RequestInv, NotOfArchive
<1>1. CASE SyncStep
  BY <1>1, CursorStep DEF SyncStep
<1>2. ASSUME UNCHANGED <<folder_state, syncVars>>, \A f \in Folders : IndexKept(f)
      PROVE  CursorInv'
  <2>1. \A f \in Folders : MailKept(f)
    BY <1>t, ArchiveKeepsMail
  <2>2. \A t \in Threads : SameLocals(t)
    BY <1>2 DEF syncVars, passVars, SameLocals
  <2>3. \A f \in Folders : /\ folder_state'[f].uidvalidity \in {None, 1}
                           /\ folder_state'[f].last_uid = folder_state[f].last_uid
    BY <1>2 DEF CursorInv
  <2> QED
    BY <1>2, <1>t, <2>1, <2>2, <2>3, InvKept
<1>3. CASE MovedStep
  BY <1>2, <1>3, SameRowsKept DEF MovedStep, indexVars
<1>4. CASE Remove
  BY <1>2, <1>4, RemoveKeepsIndex DEF Remove, remove_message
<1>5. ASSUME NEW f \in Folders, NEW u \in DOMAIN rows[f], Locate(f, u) PROVE CursorInv'
  BY <1>2, <1>5, SameRowsKept DEF Locate, vars, indexVars
<1> QED
  BY <1>1, <1>3, <1>4, <1>5, ArchiveSteps

\* Archive requests, which take messages out of mailboxes and rows out of the
\* index, leave the cursor as good as it was.
THEOREM ArchiveCursorCorrect ==
  ASSUME NoRenumbering, WideRequests
  PROVE  ArchiveSpec => []NoMailSkipped
<1>1. ArchiveInit => CursorInv
  BY CursorInit DEF ArchiveInit
<1>2. ArchiveInv /\ CursorInv /\ [ArchiveNext]_allVars => (ArchiveInv /\ CursorInv)'
  BY ArchiveStep, CursorArchiveStep
<1>3. CursorInv => NoMailSkipped
  BY DEF CursorInv, NoMailSkipped, GoodCursor
<1> QED
  BY <1>1, <1>2, <1>3, ArchiveInitInv, PTL DEF ArchiveSpec

-----------------------------------------------------------------------------
(* No removed row comes back. *)

LEMMA GhostStep ==
  ASSUME NoRenumbering, ArchiveInv, GhostInv, NothingHeld, [ArchiveNext]_allVars
  PROVE  GhostInv'
<1>t. /\ ArchiveTypeOK /\ TypeOK /\ NotOfArchive
      /\ removed \subseteq Folders \X Nat
  BY DEF ArchiveInv, ArchiveTypeOK, RequestInv, NotOfArchive
<1>1. ArchiveTypeOK'
  BY <1>t, ArchiveTypeStep
<1> SUFFICES ASSUME NEW f \in Folders, NEW u \in Nat, <<f, u>> \in removed'
             PROVE  /\ u \notin DOMAIN rows'[f]
                    /\ u < uidnext'[f] /\ u \notin DOMAIN mailbox'[f]
                    /\ ~Held(f, u)'
  BY <1>1 DEF ArchiveTypeOK, GhostInv, HasRow
<1>2. CASE <<f, u>> \in removed
  <2>1. /\ u \notin DOMAIN rows[f] /\ u < uidnext[f] /\ u \notin DOMAIN mailbox[f]
        /\ ~Held(f, u)
    BY <1>2 DEF GhostInv, HasRow
  <2>2. u < uidnext'[f] /\ u \notin DOMAIN mailbox'[f]
    <3>1. MailKept(f) /\ uidnext'[f] \in Nat /\ uidnext[f] \in Nat
      BY <1>t, <2>1, <1>1, ArchiveKeepsMail DEF ArchiveTypeOK, TypeOK, ServerTypeOK
    <3> QED
      BY <2>1, <3>1 DEF MailKept
  <2>3. ASSUME [Next]_vars PROVE u \notin DOMAIN rows'[f] /\ ~Held(f, u)'
    <3>1. u \notin DOMAIN rows'[f]
      BY <1>t, <2>1, <2>3, RowsComeFromResults DEF Held
    <3>2. ASSUME NEW t \in Threads, pc'[t] = "ingest", Folder(t)' = f,
                 u \in DOMAIN fetched'[t].messages
          PROVE  FALSE
      <4>1. CASE FetchNew(t)
        BY <1>t, <2>1, <3>2, <4>1, FetchedIsGenuine
      <4>2. CASE pc[t] = "ingest" /\ SameLocals(t)
        BY <2>1, <3>2, <4>2 DEF Held, SameLocals, Folder
      <4> QED
        BY <1>t, <2>3, <3>2, <4>1, <4>2, ResultsComeFromServer
    <3> QED
      BY <3>1, <3>2 DEF Held
  <2>4. ASSUME UNCHANGED syncVars, \A g \in Folders : DOMAIN rows'[g] \subseteq DOMAIN rows[g]
        PROVE  u \notin DOMAIN rows'[f] /\ ~Held(f, u)'
    BY <2>1, <2>4 DEF Held, Folder, syncVars, passVars
  <2>5. ASSUME Remove PROVE u \notin DOMAIN rows'[f] /\ ~Held(f, u)'
    <3>1. archiving.folder \in Folders
      BY <1>t, <2>5, RequestType DEF Remove
    <3>2. \A g \in Folders : DOMAIN rows'[g] \subseteq DOMAIN rows[g]
      BY <1>t, <2>5, <3>1 DEF Remove, remove_message, Without, TypeOK, IndexTypeOK
    <3>3. UNCHANGED syncVars
      BY <2>5 DEF Remove
    <3> QED
      BY <2>4, <3>2, <3>3
  <2>6. ASSUME MovedStep PROVE u \notin DOMAIN rows'[f] /\ ~Held(f, u)'
    <3>1. UNCHANGED syncVars /\ UNCHANGED rows
      BY <2>6 DEF MovedStep, indexVars
    <3> QED
      BY <2>4, <3>1
  <2>7. ASSUME NEW g \in Folders, NEW v \in DOMAIN rows[g], Locate(g, v)
        PROVE  u \notin DOMAIN rows'[f] /\ ~Held(f, u)'
    BY <2>4, <2>7 DEF Locate, vars, indexVars
  <2>8. u \notin DOMAIN rows'[f] /\ ~Held(f, u)'
    BY <2>3, <2>5, <2>6, <2>7, ArchiveSteps DEF SyncStep
  <2> QED
    BY <2>2, <2>8
<1>3. CASE <<f, u>> \notin removed
  <2>1. Remove /\ <<f, u>> = <<archiving.folder, archiving.uid>>
    BY <1>3, ArchiveSteps DEF Locate, MovedStep, Remove, SyncStep, stable_id
  <2>2. f = archiving.folder /\ u = archiving.uid
    BY <2>1
  <2>3. u \notin DOMAIN rows'[f]
    BY <1>t, <2>1, <2>2 DEF Remove, remove_message, Without, TypeOK, IndexTypeOK
  <2>4. u < uidnext'[f] /\ u \notin DOMAIN mailbox'[f]
    BY <2>1, <2>2 DEF ArchiveInv, RequestInv, Remove, serverVars
  <2>5. ~Held(f, u)'
    BY <2>1, <2>2 DEF NothingHeld, Remove, Held, Folder, syncVars, passVars
  <2> QED
    BY <2>3, <2>4, <2>5
<1> QED
  BY <1>2, <1>3

\* The worker threads leave the handler where it is.
LEMMA WorkersLeaveHandler ==
  ASSUME TypeOK, WorkerThread
  PROVE  pc'[Http] = pc[Http]
<1> PICK w \in Workers : ThreadNext(w) \/ WorkerNext(w)
  BY DEF WorkerThread
<1>1. w # Http
  BY SyncAssumption
<1>2. (\E step : Goto(w, step)) => pc'[Http] = pc[Http]
  BY <1>1 DEF TypeOK, Goto
<1>3. ThreadNext(w) => \E step : Goto(w, step)
  BY <1>1 DEF ThreadNext, GetState, FetchNew, Ingest, SetState, PassFails, EndPass
<1>4. WorkerNext(w) => \E step : Goto(w, step)
  BY DEF WorkerNext, Wake, StartPass, FetchFlags, UpdateFlags, FlagsFail, Classify, EndPass,
         NextFolder
<1> QED
  BY <1>2, <1>3, <1>4

LEMMA HandlerRuns == SyncHandler => pc[Http] # "idle"
BY DEF SyncHandler, ThreadNext, GetState, FetchNew, Ingest, SetState, PassFails, Reread, Respond

LEMMA OneHandlerStep ==
  ASSUME TypeOK, OneHandler, [ArchiveNext]_allVars
  PROVE  OneHandler'
<1>n. NoRequest.step = "none"
  BY DEF NoRequest
<1>1. CASE archiving' = NoRequest
  BY <1>1, <1>n DEF OneHandler
<1>2. CASE ArchiveMessage
  BY <1>1, <1>2 DEF ArchiveMessage, Locate, Move, MoveFails, Remove, RemoveFails, OneHandler,
                    EventLoopFree, syncVars, vars
<1>3. CASE SyncRequest
  BY <1>3, <1>n DEF SyncRequest, EventLoopFree, OneHandler, archiveVars
<1>4. CASE SyncHandler
  BY <1>4, HandlerRuns DEF SyncHandler, OneHandler, archiveVars
<1>5. CASE WorkerThread
  BY <1>5, WorkersLeaveHandler DEF WorkerThread, OneHandler, archiveVars
<1>6. CASE Restart
  BY <1>1, <1>6 DEF Restart
<1>7. CASE UNCHANGED <<indexVars, syncVars, archiveVars>> \/ UNCHANGED allVars
  BY <1>7 DEF OneHandler, archiveVars, allVars, vars, syncVars
<1> QED
  BY <1>2, <1>3, <1>4, <1>5, <1>6, <1>7 DEF ArchiveNext

\* Without background workers (interval_minutes = 0) no removed row comes back,
\* whatever fails and however often the service restarts: the event loop does
\* not sync while it archives.
THEOREM NoGhostWithoutWorkers ==
  ASSUME NoRenumbering, Workers = {}
  PROVE  ArchiveSpec => []NoGhost
<1> DEFINE Inv == ArchiveInv /\ OneHandler /\ GhostInv
<1>1. ArchiveInit => Inv
  BY ArchiveInitInv DEF ArchiveInit, Init, OneHandler, GhostInv, NoRequest
<1>2. OneHandler => NothingHeld
  BY DEF OneHandler, NothingHeld, Held, Threads
<1>3. Inv /\ [ArchiveNext]_allVars => Inv'
  BY <1>2, ArchiveStep, OneHandlerStep, GhostStep DEF ArchiveInv, ArchiveTypeOK
<1>4. Inv => NoGhost
  BY DEF GhostInv, NoGhost
<1> QED
  BY <1>1, <1>3, <1>4, PTL DEF ArchiveSpec

-----------------------------------------------------------------------------
(* The only worker. *)

\* Neither a request nor a failure comes between the upsert and the cursor.
OnlyWorker(w) ==
  /\ Workers = {w}
  /\ RequestFolders = {}
  /\ ~StoreFails
  /\ MaxCrashes = 0

\* What the worker relies on while an archive request is served: the row of the
\* request is below the cursor, so that its message is not fetched again.
LEMMA LoneWorkerHoldsNothing ==
  ASSUME NEW w, OnlyWorker(w), ArchiveTypeOK, LoneWorker(w)
  PROVE  NothingHeld
<1> SUFFICES ASSUME archiving.step = "remove", NEW t \in Threads, pc[t] = "ingest",
                    Folder(t) = archiving.folder,
                    archiving.uid \in DOMAIN fetched[t].messages
             PROVE  FALSE
  BY DEF NothingHeld, Held
<1> DEFINE f == archiving.folder
           u == archiving.uid
<1>1. t = w
  BY DEF Threads, OnlyWorker, LoneWorker
<1>2. f \in Folders /\ u \in Nat
  BY RequestType
<1>3. u > known[w].last_uid /\ known[w] = folder_state[f]
  BY <1>1 DEF LoneWorker
<1>4. u <= folder_state[f].last_uid
  BY <1>1, <1>2 DEF LoneWorker
<1>5. folder_state[f].last_uid \in Nat
  BY <1>2 DEF ArchiveTypeOK, TypeOK, IndexTypeOK, FolderState
<1> QED
  BY <1>2, <1>3, <1>4, <1>5

\* A step after which the worker holds no result and before which it had none
\* in the index only.
LEMMA WorkerRests ==
  ASSUME NEW w, LoneWorker(w), pc'[Http] = "idle", UNCHANGED folder_state,
         pc[w] # "set_state", pc'[w] \notin {"fetch_new", "ingest", "set_state"},
         \A f \in Folders : DOMAIN rows'[f] = DOMAIN rows[f],
         archiving' = archiving, archiving.step # "none" => archiving.folder \in Folders
  PROVE  LoneWorker(w)'
BY DEF LoneWorker

LEMMA LoneFetch ==
  ASSUME NoRenumbering, NEW w, OnlyWorker(w), ArchiveTypeOK, LoneWorker(w), FetchNew(w),
         UNCHANGED archiving
  PROVE  LoneWorker(w)'
<1> DEFINE f == Folder(w)
           r == fetch_new(f, known[w], ResumeFrom(w), days[w])
<1>1. w \in Threads /\ w # Http
  BY SyncAssumption DEF OnlyWorker, Threads
<1>2. f \in Folders /\ TypeOK
  BY <1>1, FolderType DEF FetchNew, ArchiveTypeOK
<1>3. /\ uidvalidity[f] = 1 /\ known[w].last_uid \in Nat
      /\ \A u \in DOMAIN mailbox[f] : u \in Nat /\ u > 0
  BY <1>1, <1>2 DEF TypeOK, ServerTypeOK, FolderState, NoRenumbering
<1>4. known[w] = folder_state[f] /\ known[w].uidvalidity \in {None, 1}
  BY <1>2 DEF LoneWorker, FetchNew
<1>5. IsReset(known[w], f) = FALSE
  BY <1>3, <1>4 DEF IsReset
<1>6. ResumeFrom(w) = known[w].last_uid
  BY <1>1 DEF ResumeFrom
<1>7. r.uidvalidity = 1 /\ ~r.reset /\ \A u \in DOMAIN r.messages : u > known[w].last_uid
  BY <1>3, <1>5, <1>6 DEF fetch_new, SearchedUids
<1>8. /\ fetched'[w] = r /\ known' = known /\ pc'[w] = "ingest" /\ pc[w] = "fetch_new"
      /\ pc'[Http] = pc[Http] /\ Folder(w)' = f
      /\ UNCHANGED <<rows, folder_state>>
  BY <1>1, <1>2 DEF FetchNew, Goto, TypeOK, Folder, indexVars
<1> HIDE DEF f, r
<1> QED
  BY <1>2, <1>4, <1>7, <1>8 DEF LoneWorker

LEMMA LoneIngest ==
  ASSUME NEW w, OnlyWorker(w), ArchiveTypeOK, LoneWorker(w), Ingest(w), UNCHANGED archiving
  PROVE  LoneWorker(w)'
<1> DEFINE f == Folder(w)
           p == Parsed(fetched[w].messages)
<1>1. w \in Threads /\ w # Http
  BY SyncAssumption DEF OnlyWorker, Threads
<1>2. f \in Folders /\ TypeOK
  BY <1>1, FolderType DEF Ingest, ArchiveTypeOK
<1>3. /\ rows' = [rows EXCEPT ![f] = Overlay(p, @)]
      /\ UNCHANGED <<folder_state, known, fetched, todo>>
      /\ pc[w] = "ingest" /\ pc'[w] = "set_state" /\ pc'[Http] = pc[Http]
      /\ Folder(w)' = f
  BY <1>1, <1>2 DEF Ingest, upsert_messages, Goto, TypeOK, Folder
<1>4. DOMAIN p \subseteq DOMAIN fetched[w].messages
  BY DEF Parsed
<1> HIDE DEF f, p
<1>5. \A g \in Folders : /\ DOMAIN rows[g] \subseteq DOMAIN rows'[g]
                         /\ \A u \in DOMAIN rows'[g] :
                              u \in DOMAIN rows[g] \/ (g = f /\ u \in DOMAIN fetched[w].messages)
  BY <1>2, <1>3, <1>4 DEF Overlay, TypeOK, IndexTypeOK
<1>6. archiving.step # "none" => archiving.folder \in Folders
  BY RequestType
<1> QED
  BY <1>2, <1>3, <1>5, <1>6 DEF LoneWorker, f

\* The new cursor is not below the one it replaces, nor below what was fetched.
LEMMA LoneSetState ==
  ASSUME NEW w, OnlyWorker(w), ArchiveTypeOK, LoneWorker(w), SetState(w), UNCHANGED archiving
  PROVE  LoneWorker(w)'
<1> DEFINE f == Folder(w)
<1>1. w \in Threads /\ Http \in Threads /\ w # Http
  BY SyncAssumption DEF OnlyWorker, Threads
<1>2. f \in Folders /\ TypeOK
  BY <1>1, FolderType DEF SetState, ArchiveTypeOK
<1>3. PICK top \in {0} \cup DOMAIN fetched[w].messages :
        /\ IsMaxUid(top, fetched[w].messages)
        /\ set_folder_state(f, fetched[w].uidvalidity, NewLast(w, top))
  BY DEF SetState, StoreState
<1> DEFINE last == NewLast(w, top)
<1>4. /\ known[w] = folder_state[f] /\ ~fetched[w].reset /\ fetched[w].uidvalidity = 1
  BY DEF LoneWorker, SetState
<1>5. /\ folder_state[f].last_uid \in Nat
      /\ \A u \in DOMAIN fetched[w].messages : u \in Nat
      /\ \A g \in Folders : \A u \in DOMAIN rows[g] : u \in Nat
  BY <1>1, <1>2 DEF TypeOK, IndexTypeOK, FolderState
<1>6. last = Larger(folder_state[f].last_uid, top)
  BY <1>1, <1>4 DEF NewLast
<1>7. /\ last \in Nat /\ folder_state[f].last_uid <= last
      /\ \A u \in DOMAIN fetched[w].messages : u <= last
  BY <1>3, <1>5, <1>6 DEF Larger, IsMaxUid
<1> HIDE DEF last
<1>8. /\ folder_state' = [folder_state EXCEPT ![f] = [uidvalidity |-> 1, last_uid |-> last]]
      /\ rows' = rows
  BY <1>3, <1>4 DEF set_folder_state, last
<1>9. pc'[w] = "fetch_flags" /\ pc'[Http] = pc[Http] /\ pc[w] = "set_state"
  <2>1. pc' = [pc EXCEPT ![w] = "fetch_flags"] /\ pc[w] = "set_state"
    BY <1>1 DEF SetState, Goto
  <2> QED
    BY <1>1, <1>2, <2>1 DEF TypeOK
<1>10. /\ folder_state'[f].uidvalidity = 1 /\ folder_state'[f].last_uid = last
       /\ \A g \in Folders \ {f} : folder_state'[g] = folder_state[g]
  BY <1>2, <1>8 DEF TypeOK, IndexTypeOK
<1>11. \A u \in DOMAIN rows[f] : u <= last
  BY <1>2, <1>5, <1>7 DEF LoneWorker
<1>12. \A g \in Folders \ {f} : \A u \in DOMAIN rows[g] : u <= folder_state[g].last_uid
  BY DEF LoneWorker
<1> HIDE DEF f
<1> QED
  BY <1>8, <1>9, <1>10, <1>11, <1>12 DEF LoneWorker

LEMMA LoneWorkerStep ==
  ASSUME NoRenumbering, NEW w, OnlyWorker(w), ArchiveInv, LoneWorker(w),
         [ArchiveNext]_allVars
  PROVE  LoneWorker(w)'
<1>t. ArchiveTypeOK /\ TypeOK /\ (archiving.step # "none" => archiving.folder \in Folders)
  BY RequestType DEF ArchiveInv, ArchiveTypeOK
<1>w. w \in Threads /\ w # Http /\ Workers = {w}
  BY SyncAssumption DEF OnlyWorker, Threads
<1>n. NoRequest.step = "none"
  BY DEF NoRequest
<1>1. ASSUME NEW f \in Folders, NEW u \in DOMAIN rows[f], Locate(f, u) PROVE LoneWorker(w)'
  <2>1. archiving'.folder = f /\ archiving'.uid = u
    BY <1>1 DEF Locate
  <2> QED
    BY <1>1, <2>1 DEF Locate, LoneWorker, Folder, vars, indexVars, syncVars, passVars
<1>2. ASSUME UNCHANGED <<indexVars, syncVars>>, archiving' = archiving \/ archiving' = NoRequest
             \/ (archiving'.folder = archiving.folder /\ archiving'.uid = archiving.uid
                  /\ archiving.step # "none")
      PROVE  LoneWorker(w)'
  BY <1>2, <1>n DEF LoneWorker, Folder, indexVars, syncVars, passVars
<1>3. CASE MovedStep
  <2>1. archiving \in Request
    BY <1>3, <1>t, RequestType DEF MovedStep
  <2> QED
    BY <1>2, <1>3, <2>1 DEF MovedStep, Request
<1>4. CASE RemoveFails \/ (MoveFails /\ UNCHANGED serverVars)
  BY <1>2, <1>4 DEF RemoveFails, MoveFails, vars
<1>5. CASE Remove
  <2>1. archiving.folder \in Folders
    BY <1>5, <1>t DEF Remove
  <2>2. \A g \in Folders : DOMAIN rows'[g] \subseteq DOMAIN rows[g]
    BY <1>5, <1>t, <2>1 DEF Remove, remove_message, Without, TypeOK, IndexTypeOK
  <2>3. /\ UNCHANGED <<folder_state, pc, known, fetched>> /\ Folder(w)' = Folder(w)
        /\ archiving'.step = "none"
    BY <1>5, <1>n DEF Remove, remove_message, syncVars, passVars, Folder
  <2> QED
    BY <2>2, <2>3 DEF LoneWorker
<1>6. CASE SyncRequest
  BY <1>6 DEF SyncRequest, OnlyWorker
<1>7. CASE SyncHandler
  BY <1>7, HandlerRuns DEF LoneWorker
<1>8. CASE Restart
  BY <1>8, <1>t DEF Restart, Crash, OnlyWorker, TypeOK
<1>9. CASE ServerNext /\ UNCHANGED <<indexVars, syncVars, archiveVars>>
  BY <1>2, <1>9 DEF archiveVars
<1>10. CASE UNCHANGED allVars
  BY <1>2, <1>10 DEF allVars, vars, archiveVars
<1>11. CASE WorkerThread
  <2>1. (ThreadNext(w) \/ WorkerNext(w)) /\ UNCHANGED archiving
    BY <1>11, <1>w DEF WorkerThread, archiveVars
  <2>2. pc'[Http] = "idle"
    BY <1>11, <1>t, WorkersLeaveHandler DEF LoneWorker
  <2>3. ASSUME GetState(w) PROVE LoneWorker(w)'
    <3>1. /\ known'[w] = folder_state[Folder(w)] /\ pc'[w] = "fetch_new" /\ pc[w] = "get_state"
          /\ UNCHANGED <<rows, folder_state>> /\ Folder(w)' = Folder(w)
      BY <1>t, <1>w, <2>3 DEF GetState, Goto, TypeOK, indexVars, Folder
    <3> QED
      BY <2>1, <2>2, <3>1 DEF LoneWorker
  <2>4. ASSUME PassFails(w) PROVE LoneWorker(w)'
    <3>1. pc'[w] = "idle" /\ UNCHANGED <<rows, folder_state>>
      BY <1>t, <1>w, <2>4 DEF PassFails, EndPass, Goto, TypeOK, indexVars
    <3>2. pc[w] # "set_state"
      BY <2>4 DEF PassFails, OnlyWorker
    <3> QED
      BY <1>t, <2>1, <2>2, <3>1, <3>2, WorkerRests
  <2>5. ASSUME Wake(w) PROVE LoneWorker(w)'
    <3>1. /\ pc[w] = "idle" /\ pc'[w] \in {"get_state", "done"}
          /\ UNCHANGED <<rows, folder_state>>
      BY <1>t, <1>w, <2>5 DEF Wake, StartPass, Goto, TypeOK, indexVars
    <3> QED
      BY <1>t, <2>1, <2>2, <3>1, WorkerRests
  <2>6. ASSUME FetchFlags(w) PROVE LoneWorker(w)'
    <3>1. /\ pc[w] = "fetch_flags" /\ pc'[w] = "update_flags"
          /\ UNCHANGED <<rows, folder_state>>
      BY <1>t, <1>w, <2>6 DEF FetchFlags, Goto, TypeOK, indexVars
    <3> QED
      BY <1>t, <2>1, <2>2, <3>1, WorkerRests
  <2>7. ASSUME UpdateFlags(w) PROVE LoneWorker(w)'
    <3>1. Folder(w) \in Folders
      BY <1>t, <1>w, <2>7, FolderType DEF UpdateFlags
    <3>2. /\ pc[w] = "update_flags" /\ pc'[w] \in {"get_state", "done"}
          /\ UNCHANGED folder_state
          /\ \A f \in Folders : DOMAIN rows'[f] = DOMAIN rows[f]
      BY <1>t, <1>w, <2>7, <3>1
         DEF UpdateFlags, update_flags, NextFolder, Goto, TypeOK, IndexTypeOK
    <3> QED
      BY <1>t, <2>1, <2>2, <3>2, WorkerRests
  <2>8. ASSUME FlagsFail(w) PROVE LoneWorker(w)'
    <3>1. /\ pc[w] # "set_state" /\ pc'[w] \in {"get_state", "done"}
          /\ UNCHANGED <<rows, folder_state>>
      BY <1>t, <1>w, <2>8 DEF FlagsFail, NextFolder, Goto, TypeOK, indexVars
    <3> QED
      BY <1>t, <2>1, <2>2, <3>1, WorkerRests
  <2>9. ASSUME Classify(w) PROVE LoneWorker(w)'
    <3>1. pc[w] = "done" /\ pc'[w] = "idle" /\ UNCHANGED <<rows, folder_state>>
      BY <1>t, <1>w, <2>9 DEF Classify, EndPass, Goto, TypeOK, indexVars
    <3> QED
      BY <1>t, <2>1, <2>2, <3>1, WorkerRests
  <2> QED
    BY <1>t, <2>1, <2>3, <2>4, <2>5, <2>6, <2>7, <2>8, <2>9, LoneFetch, LoneIngest,
       LoneSetState DEF ThreadNext, WorkerNext
<1> QED
  BY <1>1, <1>3, <1>4, <1>5, <1>6, <1>7, <1>8, <1>9, <1>10, <1>11
     DEF ArchiveNext, ArchiveMessage, Move, MoveFails, MovedStep

\* Nor does one come back beside the only worker, as long as no POST /sync asks
\* for old mail again and nothing stops the worker between the upsert and the
\* new cursor: what it fetches has UIDs above those of all rows.
THEOREM NoGhostBesideOneWorker ==
  ASSUME NoRenumbering, NEW w, OnlyWorker(w)
  PROVE  ArchiveSpec => []NoGhost
<1> DEFINE Inv == ArchiveInv /\ LoneWorker(w) /\ GhostInv
<1>1. ArchiveInit => Inv
  <2> SUFFICES ASSUME ArchiveInit PROVE Inv
    OBVIOUS
  <2>1. w \in Threads /\ Http \in Threads
    BY DEF OnlyWorker, Threads
  <2>2. \A f \in Folders : rows[f] = NoUids /\ folder_state[f].uidvalidity = None
    BY FreshValidity DEF ArchiveInit, Init, IndexInit
  <2>3. LoneWorker(w)
    BY <2>1, <2>2, NoUidsType DEF ArchiveInit, Init, LoneWorker, NoRequest
  <2> QED
    BY <2>3, ArchiveInitInv DEF ArchiveInit, GhostInv
<1>2. Inv /\ [ArchiveNext]_allVars => Inv'
  BY ArchiveStep, GhostStep, LoneWorkerStep, LoneWorkerHoldsNothing DEF ArchiveInv
<1>3. Inv => NoGhost
  BY DEF GhostInv, NoGhost
<1> QED
  BY <1>1, <1>2, <1>3, PTL DEF ArchiveSpec

=============================================================================
