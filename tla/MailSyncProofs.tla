---------------------------- MODULE MailSyncProofs ----------------------------
(***************************************************************************)
(* Theorems about MailSync, for every value of its constants.              *)
(***************************************************************************)
EXTENDS MailSync, FiniteSetTheorems, TLAPS

-----------------------------------------------------------------------------
(* Type correctness. *)

\* A worker's window is default_days, a request's is clamp_days of what it
\* carries: a day count either way.
LEMMA WindowIsNat ==
  /\ DefaultDays \in Nat
  /\ \A requested \in RequestDays : clamp_days(requested) \in Nat
BY SyncAssumption DEF clamp_days

\* The server's own steps keep the types of its variables.
LEMMA ServerTypeStep == ServerTypeOK /\ ServerNext => ServerTypeOK'
<1> SUFFICES ASSUME ServerTypeOK, ServerNext PROVE ServerTypeOK'
  OBVIOUS
<1> USE DEF ServerTypeOK, Entry
<1>1. ASSUME NEW f \in Folders, NEW m \in Messages, NEW d \in 0..today, Deliver(f, m, d)
      PROVE  ServerTypeOK'
  BY <1>1 DEF Deliver, Overlay
<1>2. ASSUME NEW f \in Folders, NEW u \in DOMAIN mailbox[f], Expunge(f, u)
      PROVE  ServerTypeOK'
  BY <1>2 DEF Expunge, Without
<1>3. ASSUME NEW f \in Folders, NEW u \in DOMAIN mailbox[f], NEW flag \in FlagStates,
             Reflag(f, u, flag)
      PROVE  ServerTypeOK'
  BY <1>3 DEF Reflag
<1>4. ASSUME NEW f \in Folders, Renumber(f)
      PROVE  ServerTypeOK'
  <2> DEFINE n == Cardinality(DOMAIN mailbox[f])
  <2>1. n \in Nat
    <3>1. DOMAIN mailbox[f] \in SUBSET (1..(uidnext[f] - 1)) /\ uidnext[f] \in Nat
      OBVIOUS
    <3>2. IsFiniteSet(1..(uidnext[f] - 1))
      <4>1. ASSUME NEW k \in Int
            PROVE  IsFiniteSet(1..k)
        BY FS_Interval, 1 \in Int
      <4>2. uidnext[f] - 1 \in Int
        BY <3>1
      <4> QED
        BY <4>1, <4>2
    <3>3. IsFiniteSet(DOMAIN mailbox[f])
      BY <3>1, <3>2, FS_Subset
    <3> QED
      BY <3>3, FS_CardinalityType
  <2>2. PICK old \in [1..n -> DOMAIN mailbox[f]] :
          mailbox' = [mailbox EXCEPT ![f] = [u \in 1..n |-> @[old[u]]]]
    BY <1>4 DEF Renumber, Bijection, Injection
  <2>3. uidnext' = [uidnext EXCEPT ![f] = n + 1]
    BY <1>4 DEF Renumber
  <2>4. uidnext' \in [Folders -> Nat \ {0}]
    BY <2>1, <2>3
  <2>5. ASSUME NEW g \in Folders
        PROVE  /\ DOMAIN mailbox'[g] \subseteq 1..(uidnext'[g] - 1)
               /\ \A u \in DOMAIN mailbox'[g] : mailbox'[g][u] \in Entry
    <3>1. CASE g = f
      <4>1. mailbox'[g] = [u \in 1..n |-> mailbox[f][old[u]]]
        BY <2>2, <3>1
      <4>2. \A u \in 1..n : mailbox[f][old[u]] \in Entry
        BY <2>2
      <4>3. uidnext'[g] = n + 1
        BY <2>3, <3>1
      <4> HIDE DEF n
      <4> QED
        BY <2>1, <4>1, <4>2, <4>3
    <3>2. CASE g # f
      BY <2>2, <2>3, <3>2
    <3> QED
      BY <3>1, <3>2
  <2>6. uidvalidity' \in [Folders -> 1..MaxValidity] /\ UNCHANGED <<today, date>>
    BY <1>4, ServerAssumption DEF Renumber
  <2> QED
    BY <2>2, <2>4, <2>5, <2>6
<1>5. ASSUME NextDay PROVE ServerTypeOK'
  BY <1>5, ServerAssumption DEF NextDay
<1> QED
  BY <1>1, <1>2, <1>3, <1>4, <1>5 DEF ServerNext

\* The part of TypeOK that speaks of the threads' locals.
LocalTypeOK ==
  /\ pc \in [Threads -> Steps]
  /\ todo \in [Threads -> Seq(Folders)]
  /\ \A t \in Threads : pc[t] \notin {"idle", "done"} => todo[t] # <<>>
  /\ days \in [Threads -> Nat]
  /\ known \in [Threads -> FolderState]
  /\ prev \in [Threads -> Nat]
  /\ DOMAIN fetched = Threads
  /\ DOMAIN newflags = Threads
  /\ \A t \in Threads :
       /\ fetched[t].uidvalidity \in Nat
       /\ fetched[t].reset \in BOOLEAN
       /\ \A u \in DOMAIN fetched[t].messages :
            u \in Nat /\ fetched[t].messages[u] \in Entry
       /\ \A u \in DOMAIN newflags[t] : newflags[t][u] \in FlagStates
  /\ inserted \in [Threads -> SUBSET (Folders \X Nat)]
  /\ handed \subseteq Folders \X Nat
  /\ crashes \in Nat

LEMMA TypeParts == TypeOK <=> ServerTypeOK /\ IndexTypeOK /\ LocalTypeOK
BY DEF TypeOK, LocalTypeOK

\* While a thread works on a folder, that folder is one of the server's.
LEMMA FolderType ==
  ASSUME TypeOK, NEW t \in Threads, pc[t] \notin {"idle", "done"}
  PROVE  /\ Folder(t) \in Folders
         /\ Tail(todo[t]) \in Seq(Folders)
BY DEF TypeOK, Folder

LEMMA NoUidsType == DOMAIN NoUids = {}
BY DEF NoUids

LEMMA NeverSyncedType == NeverSynced \in FolderState
BY DEF NeverSynced, FolderState

\* The values the threads' locals have at the start and after a restart.
LEMMA FreshTypes ==
  /\ [t \in Threads |-> "idle"] \in [Threads -> Steps]
  /\ [t \in Threads |-> <<>>] \in [Threads -> Seq(Folders)]
  /\ [t \in Threads |-> 0] \in [Threads -> Nat]
  /\ [t \in Threads |-> NeverSynced] \in [Threads -> FolderState]
  /\ [t \in Threads |-> {}] \in [Threads -> SUBSET (Folders \X Nat)]
  /\ NoResult.uidvalidity \in Nat
  /\ NoResult.reset \in BOOLEAN
  /\ DOMAIN NoResult.messages = {}
<1>1. <<>> \in Seq(Folders)
  OBVIOUS
<1>2. [t \in Threads |-> <<>>] \in [Threads -> Seq(Folders)]
  BY <1>1
<1>3. [t \in Threads |-> "idle"] \in [Threads -> Steps]
  BY DEF Steps
<1>4. [t \in Threads |-> NeverSynced] \in [Threads -> FolderState]
  BY NeverSyncedType
<1>5. DOMAIN NoResult.messages = {}
  BY NoUidsType DEF NoResult
<1> QED
  BY <1>2, <1>3, <1>4, <1>5 DEF NoResult

\* Starting a pass, and going on to its next folder, keep the locals typed.
LEMMA StartPassType ==
  ASSUME TypeOK, NEW t \in Threads, NEW folders \in RequestFolders \cup {SyncFolders},
         NEW window \in Nat, StartPass(t, folders, window)
  PROVE  TypeOK'
<1>1. TargetFolders(folders) \in Seq(Folders)
  BY SyncAssumption
<1>2. ServerTypeOK' /\ IndexTypeOK'
  BY TypeParts DEF StartPass, ServerTypeOK, IndexTypeOK, serverVars, indexVars
<1>3. LocalTypeOK'
  BY <1>1 DEF TypeOK, LocalTypeOK, StartPass, Goto, Steps
<1> QED
  BY <1>2, <1>3 DEF TypeOK, LocalTypeOK

LEMMA NextFolderType ==
  ASSUME TypeOK, NEW t \in Threads, pc[t] \notin {"idle", "done"}, NextFolder(t)
  PROVE  LocalTypeOK'
BY FolderType, NoUidsType, NeverSyncedType
   DEF TypeOK, LocalTypeOK, NextFolder, Goto, Steps, ForgetFolder, NoResult

LEMMA EndPassType ==
  ASSUME TypeOK, NEW t \in Threads, EndPass(t), handed' \subseteq Folders \X Nat
  PROVE  LocalTypeOK'
<1> USE DEF TypeOK, EndPass
<1>1. pc' \in [Threads -> Steps] /\ todo' \in [Threads -> Seq(Folders)]
  BY DEF Goto, Steps
<1>2. \A s \in Threads : pc'[s] \notin {"idle", "done"} => todo'[s] # <<>>
  BY DEF Goto
<1>3. /\ days' \in [Threads -> Nat]
      /\ inserted' \in [Threads -> SUBSET (Folders \X Nat)]
      /\ crashes' \in Nat
  OBVIOUS
<1>4. known' \in [Threads -> FolderState] /\ prev' \in [Threads -> Nat]
  BY NeverSyncedType DEF ForgetFolder
<1>5. /\ DOMAIN fetched' = Threads
      /\ DOMAIN newflags' = Threads
      /\ \A s \in Threads :
           /\ fetched'[s].uidvalidity \in Nat
           /\ fetched'[s].reset \in BOOLEAN
           /\ \A u \in DOMAIN fetched'[s].messages :
                u \in Nat /\ fetched'[s].messages[u] \in Entry
           /\ \A u \in DOMAIN newflags'[s] : newflags'[s][u] \in FlagStates
  BY NoUidsType DEF ForgetFolder, NoResult
<1> QED
  BY <1>1, <1>2, <1>3, <1>4, <1>5 DEF LocalTypeOK

\* Entry' is Entry: the constants of the index's and the server's types.
LEMMA IndexTypeKept == IndexTypeOK /\ UNCHANGED indexVars => IndexTypeOK'
BY DEF IndexTypeOK, indexVars

LEMMA ServerTypeKept == ServerTypeOK /\ UNCHANGED serverVars => ServerTypeOK'
BY DEF ServerTypeOK, serverVars

LEMMA LocalTypeKept == LocalTypeOK /\ UNCHANGED syncVars => LocalTypeOK'
BY DEF LocalTypeOK, syncVars, passVars

\* Every step keeps the types.
LEMMA TypeStep == TypeOK /\ [Next]_vars => TypeOK'
<1> SUFFICES ASSUME TypeOK, [Next]_vars PROVE TypeOK'
  OBVIOUS
<1>t. /\ ServerTypeOK /\ IndexTypeOK /\ LocalTypeOK
      /\ ServerTypeOK' /\ IndexTypeOK' /\ LocalTypeOK' => TypeOK'
  BY DEF TypeOK, LocalTypeOK
<1>1. ASSUME NEW t \in Threads, GetState(t) PROVE TypeOK'
  <2>1. folder_state[Folder(t)] \in FolderState
    BY <1>1, FolderType DEF GetState, TypeOK, IndexTypeOK
  <2>2. LocalTypeOK'
    BY <1>1, <2>1 DEF GetState, TypeOK, LocalTypeOK, Goto, Steps
  <2> QED
    BY <1>1, <1>t, <2>2, ServerTypeKept, IndexTypeKept DEF GetState
<1>2. ASSUME NEW t \in Threads, FetchNew(t) PROVE TypeOK'
  <2> DEFINE r == fetch_new(Folder(t), known[t], ResumeFrom(t), days[t])
  <2>1. Folder(t) \in Folders
    BY <1>2, FolderType DEF FetchNew
  <2>2. /\ r.uidvalidity \in Nat
        /\ r.reset \in BOOLEAN
        /\ \A u \in DOMAIN r.messages : u \in Nat /\ r.messages[u] \in Entry
    BY <2>1, ServerAssumption
       DEF TypeOK, ServerTypeOK, fetch_new, SearchedUids, IsReset
  <2>3. fetched' = [fetched EXCEPT ![t] = r]
    BY <1>2 DEF FetchNew
  <2> HIDE DEF r
  <2>4. LocalTypeOK'
    BY <1>2, <2>2, <2>3 DEF FetchNew, TypeOK, LocalTypeOK, Goto, Steps
  <2> QED
    BY <1>2, <1>t, <2>4, ServerTypeKept, IndexTypeKept DEF FetchNew
<1>3. ASSUME NEW t \in Threads, Ingest(t) PROVE TypeOK'
  <2> DEFINE p == Parsed(fetched[t].messages)
  <2>1. Folder(t) \in Folders
    BY <1>3, FolderType DEF Ingest
  <2>2. \A u \in DOMAIN p : u \in Nat /\ p[u] \in Entry
    BY DEF Parsed, TypeOK
  <2>3. IndexTypeOK'
    BY <1>3, <2>1, <2>2 DEF Ingest, upsert_messages, Overlay, TypeOK, IndexTypeOK
  <2>4. inserted_ids(Folder(t), p) \subseteq Folders \X Nat
    BY <2>1, <2>2 DEF inserted_ids, stable_id
  <2>5. LocalTypeOK'
    BY <1>3, <2>4 DEF Ingest, TypeOK, LocalTypeOK, Goto, Steps
  <2> QED
    BY <1>3, <1>t, <2>3, <2>5, ServerTypeKept DEF Ingest
<1>4. ASSUME Reread PROVE TypeOK'
  <2>1. Http \in Threads /\ folder_state[Folder(Http)].last_uid \in Nat
    BY <1>4, FolderType DEF Threads, Reread, TypeOK, IndexTypeOK, FolderState
  <2>2. LocalTypeOK'
    BY <1>4, <2>1 DEF Reread, TypeOK, LocalTypeOK, Goto, Steps
  <2> QED
    BY <1>4, <1>t, <2>2, ServerTypeKept, IndexTypeKept DEF Reread
<1>5. ASSUME NEW t \in Threads, SetState(t) PROVE TypeOK'
  <2>1. Folder(t) \in Folders
    BY <1>5, FolderType DEF SetState
  <2>2. PICK top \in {0} \cup DOMAIN fetched[t].messages :
          set_folder_state(Folder(t), fetched[t].uidvalidity, NewLast(t, top))
    BY <1>5 DEF SetState, StoreState
  <2>3. NewLast(t, top) \in Nat
    BY DEF NewLast, Larger, TypeOK, FolderState
  <2>4. IndexTypeOK'
    BY <2>1, <2>2, <2>3 DEF set_folder_state, TypeOK, IndexTypeOK, FolderState
  <2>5. CASE t = Http
    <3>1. LocalTypeOK'
      BY <1>5, <2>5, NextFolderType DEF SetState
    <3> QED
      BY <1>5, <1>t, <2>4, <3>1, ServerTypeKept DEF SetState
  <2>6. CASE t # Http
    <3>1. LocalTypeOK'
      BY <1>5, <2>6 DEF SetState, TypeOK, LocalTypeOK, Goto, Steps, passVars
    <3> QED
      BY <1>5, <1>t, <2>4, <3>1, ServerTypeKept DEF SetState
  <2> QED
    BY <2>5, <2>6
<1>6. ASSUME NEW t \in Threads, PassFails(t) PROVE TypeOK'
  <2>1. LocalTypeOK'
    BY <1>6, EndPassType DEF PassFails, TypeOK
  <2> QED
    BY <1>6, <1>t, <2>1, ServerTypeKept, IndexTypeKept DEF PassFails
<1>7. ASSUME NEW w \in Workers, Wake(w) PROVE TypeOK'
  BY <1>7, StartPassType, WindowIsNat DEF Wake, Threads
<1>8. ASSUME NEW folders \in RequestFolders, NEW requested \in RequestDays,
             Sync(folders, requested)
      PROVE  TypeOK'
  BY <1>8, StartPassType, WindowIsNat DEF Sync, Threads
<1>9. ASSUME NEW w \in Workers, FetchFlags(w) PROVE TypeOK'
  <2>1. w \in Threads /\ Folder(w) \in Folders
    BY <1>9, FolderType DEF FetchFlags, Threads
  <2>2. \A u \in DOMAIN FlagsOf(Folder(w), days[w]) :
          FlagsOf(Folder(w), days[w])[u] \in FlagStates
    BY <2>1 DEF FlagsOf, TypeOK, ServerTypeOK, Entry
  <2>3. LocalTypeOK'
    BY <1>9, <2>1, <2>2 DEF FetchFlags, TypeOK, LocalTypeOK, Goto, Steps
  <2> QED
    BY <1>9, <1>t, <2>3, ServerTypeKept, IndexTypeKept DEF FetchFlags
<1>10. ASSUME NEW w \in Workers, UpdateFlags(w) PROVE TypeOK'
  <2>1. w \in Threads /\ Folder(w) \in Folders
    BY <1>10, FolderType DEF UpdateFlags, Threads
  <2>2. IndexTypeOK'
    BY <1>10, <2>1 DEF UpdateFlags, update_flags, TypeOK, IndexTypeOK, Entry
  <2>3. LocalTypeOK'
    BY <1>10, <2>1, NextFolderType DEF UpdateFlags
  <2> QED
    BY <1>10, <1>t, <2>2, <2>3, ServerTypeKept DEF UpdateFlags
<1>11. ASSUME NEW w \in Workers, FlagsFail(w) PROVE TypeOK'
  <2>1. LocalTypeOK'
    BY <1>11, NextFolderType DEF FlagsFail, Threads
  <2> QED
    BY <1>11, <1>t, <2>1, ServerTypeKept, IndexTypeKept DEF FlagsFail
<1>12. ASSUME NEW w \in Workers, Classify(w) PROVE TypeOK'
  <2>1. w \in Threads /\ handed' \subseteq Folders \X Nat
    BY <1>12 DEF Classify, ToClassify, Threads, TypeOK
  <2>2. LocalTypeOK'
    BY <1>12, <2>1, EndPassType DEF Classify
  <2> QED
    BY <1>12, <1>t, <2>2, ServerTypeKept, IndexTypeKept DEF Classify
<1>13. ASSUME Respond PROVE TypeOK'
  <2>1. LocalTypeOK'
    BY <1>13, EndPassType DEF Respond, Threads, TypeOK
  <2> QED
    BY <1>13, <1>t, <2>1, ServerTypeKept, IndexTypeKept DEF Respond
<1>14. ASSUME Crash PROVE TypeOK'
  <2>1. LocalTypeOK'
    BY <1>14, FreshTypes, NoUidsType DEF Crash, LocalTypeOK, TypeOK
  <2> QED
    BY <1>14, <1>t, <2>1, ServerTypeKept, IndexTypeKept DEF Crash
<1>15. ASSUME ServerNext, UNCHANGED <<indexVars, syncVars>> PROVE TypeOK'
  BY <1>15, <1>t, ServerTypeStep, IndexTypeKept, LocalTypeKept
<1>16. ASSUME UNCHANGED vars PROVE TypeOK'
  BY <1>16, <1>t, ServerTypeKept, IndexTypeKept, LocalTypeKept DEF vars
<1> QED
  BY <1>1, <1>2, <1>3, <1>4, <1>5, <1>6, <1>7, <1>8, <1>9, <1>10, <1>11, <1>12, <1>13,
     <1>14, <1>15, <1>16
     DEF Next, ServiceNext, ThreadNext, WorkerNext, HttpNext

LEMMA InitTypeOK == Init => TypeOK
<1> SUFFICES ASSUME Init PROVE TypeOK
  OBVIOUS
<1>1. ServerTypeOK
  BY ServerAssumption, NoUidsType DEF Init, ServerInit, ServerTypeOK
<1>2. IndexTypeOK
  BY NoUidsType, NeverSyncedType DEF Init, IndexInit, IndexTypeOK
<1>3. LocalTypeOK
  BY FreshTypes, NoUidsType DEF Init, LocalTypeOK
<1> QED
  BY <1>1, <1>2, <1>3, TypeParts

\* Every variable keeps its type in every behaviour of the service.
THEOREM TypeCorrect == Spec => []TypeOK
BY InitTypeOK, TypeStep, PTL DEF Spec

-----------------------------------------------------------------------------
(* Newly inserted mail is given to classification by one thread and once. *)

\* AtMostOneHandover is not inductive by itself: that an id about to be
\* inserted was not handed over before rests on its having a row ever since.
HandoverInv ==
  /\ TypeOK
  /\ AtMostOneHandover
  /\ \A t \in Threads : \A id \in inserted[t] : HasRow(id)
  /\ \A id \in handed : HasRow(id)

RowsKept == \A f \in Folders : DOMAIN rows[f] \subseteq DOMAIN rows'[f]

\* No thread gains an id, and what is handed over is let go of: all steps but
\* Ingest are of this kind.
NothingInserted ==
  /\ RowsKept
  /\ \A t \in Threads : inserted'[t] \subseteq inserted[t]
  /\ \A id \in handed' \ handed :
       \E t \in Threads : id \in inserted[t] /\ inserted'[t] = {}

LEMMA NothingInsertedKeeps ==
  ASSUME HandoverInv, TypeOK', NothingInserted
  PROVE  HandoverInv'
<1>0. \A id \in Folders \X Nat : HasRow(id) => HasRow(id)'
  BY DEF NothingInserted, RowsKept, HasRow
<1>1. \A t \in Threads : \A id \in inserted[t] : HasRow(id)'
  <2>1. \A t \in Threads : inserted[t] \subseteq Folders \X Nat
    BY DEF HandoverInv, TypeOK
  <2> QED
    BY <1>0, <2>1 DEF HandoverInv
<1>2. \A id \in handed : HasRow(id)'
  BY <1>0 DEF HandoverInv, TypeOK
<1>3. /\ \A t \in Threads : \A id \in inserted'[t] : HasRow(id)'
      /\ \A id \in handed' : HasRow(id)'
  BY <1>1, <1>2 DEF NothingInserted
<1>4. ASSUME NEW t \in Threads PROVE inserted'[t] \cap handed' = {}
  <2> SUFFICES ASSUME NEW id \in inserted'[t], id \in handed' PROVE FALSE
    OBVIOUS
  <2>1. id \in inserted[t] /\ id \notin handed
    BY DEF NothingInserted, HandoverInv, AtMostOneHandover
  <2>2. PICK s \in Threads : id \in inserted[s] /\ inserted'[s] = {}
    BY <2>1 DEF NothingInserted
  <2> QED
    BY <2>1, <2>2 DEF HandoverInv, AtMostOneHandover
<1>5. \A s, t \in Threads : s # t => inserted'[s] \cap inserted'[t] = {}
  BY DEF NothingInserted, HandoverInv, AtMostOneHandover
<1> QED
  BY <1>3, <1>4, <1>5 DEF HandoverInv, AtMostOneHandover

\* upsert_messages reports as inserted only ids that had no row, and gives all
\* of them one.
LEMMA IngestKeeps ==
  ASSUME HandoverInv, TypeOK', NEW t \in Threads, Ingest(t)
  PROVE  HandoverInv'
<1> DEFINE f == Folder(t)
           p == Parsed(fetched[t].messages)
           new == inserted_ids(f, p)
<1>1. f \in Folders
  BY FolderType DEF HandoverInv, Ingest
<1>2. /\ rows' = [rows EXCEPT ![f] = Overlay(p, @)]
      /\ inserted' = [inserted EXCEPT ![t] = @ \cup new]
      /\ handed' = handed
  BY DEF Ingest, upsert_messages
<1>3. \A id \in new : ~HasRow(id) /\ HasRow(id)'
  BY <1>1, <1>2 DEF inserted_ids, stable_id, HasRow, Overlay, HandoverInv, TypeOK, IndexTypeOK
<1>4. \A g \in Folders : DOMAIN rows[g] \subseteq DOMAIN rows'[g]
  BY <1>1, <1>2 DEF Overlay, HandoverInv, TypeOK, IndexTypeOK
<1> HIDE DEF new, p, f
<1>5. /\ \A s \in Threads : \A id \in inserted[s] : HasRow(id) /\ HasRow(id)'
      /\ \A id \in handed : HasRow(id) /\ HasRow(id)'
  BY <1>4 DEF HandoverInv, HasRow, TypeOK
<1>6. \A s \in Threads : inserted'[s] \subseteq inserted[s] \cup new
  BY <1>2 DEF HandoverInv, TypeOK
<1>7. \A s \in Threads : s # t => inserted'[s] = inserted[s]
  BY <1>2 DEF HandoverInv, TypeOK
<1>8. \A s \in Threads : inserted'[s] \cap handed' = {}
  BY <1>2, <1>3, <1>5, <1>6 DEF HandoverInv, AtMostOneHandover
<1>9. \A s, r \in Threads : s # r => inserted'[s] \cap inserted'[r] = {}
  BY <1>3, <1>5, <1>6, <1>7 DEF HandoverInv, AtMostOneHandover
<1> QED
  BY <1>2, <1>3, <1>5, <1>6, <1>8, <1>9 DEF HandoverInv, AtMostOneHandover

\* Every step keeps the invariant.
LEMMA HandoverStep == HandoverInv /\ [Next]_vars => HandoverInv'
<1> SUFFICES ASSUME HandoverInv, [Next]_vars PROVE HandoverInv'
  OBVIOUS
<1>t. TypeOK /\ TypeOK'
  BY TypeStep DEF HandoverInv
<1>1. ASSUME UNCHANGED <<rows, inserted, handed>> PROVE HandoverInv'
  BY <1>1, <1>t, NothingInsertedKeeps DEF NothingInserted, RowsKept
<1>2. ASSUME NEW t \in Threads, EndPass(t), UNCHANGED rows,
             handed' = handed \/ handed' = handed \cup ToClassify(t)
      PROVE  HandoverInv'
  BY <1>2, <1>t, NothingInsertedKeeps
     DEF EndPass, NothingInserted, RowsKept, ToClassify, TypeOK
<1>3. ASSUME NEW t \in Threads, GetState(t) \/ FetchNew(t) PROVE HandoverInv'
  BY <1>1, <1>3 DEF GetState, FetchNew, indexVars
<1>4. ASSUME NEW t \in Threads, Ingest(t) PROVE HandoverInv'
  BY <1>4, <1>t, IngestKeeps
<1>5. ASSUME NEW t \in Threads, SetState(t) PROVE HandoverInv'
  BY <1>1, <1>5 DEF SetState, StoreState, set_folder_state, NextFolder, passVars
<1>6. ASSUME NEW t \in Threads, PassFails(t) PROVE HandoverInv'
  BY <1>2, <1>6 DEF PassFails, indexVars
<1>7. ASSUME NEW w \in Workers, Wake(w) PROVE HandoverInv'
  BY <1>1, <1>7 DEF Wake, StartPass, indexVars
<1>8. ASSUME NEW folders \in RequestFolders, NEW requested \in RequestDays,
             Sync(folders, requested)
      PROVE  HandoverInv'
  BY <1>1, <1>8 DEF Sync, StartPass, indexVars
<1>9. ASSUME Reread PROVE HandoverInv'
  BY <1>1, <1>9 DEF Reread, indexVars
<1>10. ASSUME NEW w \in Workers, FetchFlags(w) \/ FlagsFail(w) PROVE HandoverInv'
  BY <1>1, <1>10 DEF FetchFlags, FlagsFail, NextFolder, indexVars
<1>11. ASSUME NEW w \in Workers, UpdateFlags(w) PROVE HandoverInv'
  <2>1. UNCHANGED <<inserted, handed>>
    BY <1>11 DEF UpdateFlags, NextFolder
  <2>2. RowsKept
    BY <1>11, <1>t DEF UpdateFlags, update_flags, RowsKept, TypeOK, IndexTypeOK
  <2> QED
    BY <2>1, <2>2, <1>t, NothingInsertedKeeps DEF NothingInserted
<1>12. ASSUME NEW w \in Workers, Classify(w) PROVE HandoverInv'
  BY <1>2, <1>12 DEF Classify, Threads, indexVars
<1>13. ASSUME Respond PROVE HandoverInv'
  BY <1>2, <1>13 DEF Respond, Threads, indexVars
<1>14. ASSUME Crash PROVE HandoverInv'
  BY <1>14, <1>t, NothingInsertedKeeps DEF Crash, NothingInserted, RowsKept, indexVars
<1>15. ASSUME UNCHANGED <<indexVars, syncVars>> PROVE HandoverInv'
  BY <1>1, <1>15 DEF indexVars, syncVars, passVars
<1> QED
  BY <1>3, <1>4, <1>5, <1>6, <1>7, <1>8, <1>9, <1>10, <1>11, <1>12, <1>13, <1>14, <1>15
     DEF Next, ServiceNext, ThreadNext, WorkerNext, HttpNext, vars

LEMMA InitHandover == Init => HandoverInv
<1>1. Init => TypeOK
  BY InitTypeOK
<1> QED
  BY <1>1 DEF Init, HandoverInv, AtMostOneHandover

\* An id is given to classification by one thread and once, for any number of
\* threads, folders and restarts, and across every renumbering.
THEOREM HandoverCorrect == Spec => []AtMostOneHandover
<1>1. Init => HandoverInv
  BY InitHandover
<1>2. HandoverInv => AtMostOneHandover
  BY DEF HandoverInv
<1> QED
  BY <1>1, <1>2, HandoverStep, PTL DEF Spec

-----------------------------------------------------------------------------
(* Newly inserted mail is given to classification, if nothing but the      *)
(* server fails and a pass has one folder.                                 *)

\* A row that is not handed over is among the ids of a pass that has got past
\* the upsert, and nothing but its end is left to do for that pass.
ToHandInv ==
  /\ HandoverInv
  /\ pc[Http] = "idle"
  /\ \A id \in Folders \X Nat : HasRow(id) =>
       id \in handed \/ \E w \in Workers : id \in inserted[w]
  /\ \A w \in Workers :
       /\ pc[w] \in {"idle", "get_state", "fetch_new", "ingest"} => inserted[w] = {}
       /\ pc[w] \notin {"idle", "done"} => Tail(todo[w]) = <<>>

OneFolder == Len(TargetFolders(SyncFolders)) <= 1

\* No row comes or goes, no id either: the pass goes on, or begins.
LEMMA PassGoesOn ==
  ASSUME ToHandInv, HandoverInv', NEW w \in Workers,
         \A f \in Folders : DOMAIN rows'[f] = DOMAIN rows[f],
         UNCHANGED <<inserted, handed>>,
         \A t \in Threads \ {w} : pc'[t] = pc[t] /\ todo'[t] = todo[t],
         pc'[w] \in {"idle", "get_state", "fetch_new", "ingest"} =>
           pc[w] \in {"idle", "get_state", "fetch_new", "ingest"},
         pc'[w] \notin {"idle", "done"} => Tail(todo'[w]) = <<>>
  PROVE  ToHandInv'
<1>1. w # Http /\ Http \in Threads /\ Workers \subseteq Threads
  BY SyncAssumption DEF Threads
<1>2. \A id \in Folders \X Nat : HasRow(id)' => HasRow(id)
  BY DEF HasRow
<1> QED
  BY <1>1, <1>2 DEF ToHandInv

LEMMA ToHandStep ==
  ASSUME OneFolder, RequestFolders = {}, ~StoreFails, MaxCrashes = 0, ToHandInv, [Next]_vars
  PROVE  ToHandInv'
<1>t. TypeOK /\ TypeOK' /\ HandoverInv /\ HandoverInv'
  BY HandoverStep, TypeStep DEF ToHandInv, HandoverInv
<1>h. pc[Http] = "idle" /\ Http \notin Workers /\ Threads = Workers \cup {Http}
  BY SyncAssumption DEF ToHandInv, Threads
<1>1. ASSUME NEW t \in Threads, GetState(t) \/ FetchNew(t) PROVE ToHandInv'
  <2>1. t \in Workers
    BY <1>1, <1>h DEF GetState, FetchNew
  <2>2. /\ pc[t] \in {"get_state", "fetch_new"}
        /\ \E step \in {"fetch_new", "ingest"} : pc' = [pc EXCEPT ![t] = step]
        /\ UNCHANGED <<rows, todo, inserted, handed>>
    BY <1>1 DEF GetState, FetchNew, Goto, indexVars
  <2>3. Tail(todo[t]) = <<>>
    BY <2>1, <2>2 DEF ToHandInv
  <2> QED
    BY <1>t, <2>1, <2>2, <2>3, PassGoesOn DEF TypeOK
<1>2. ASSUME NEW t \in Threads, Ingest(t) PROVE ToHandInv'
  <2> DEFINE p == Parsed(fetched[t].messages)
             new == inserted_ids(Folder(t), p)
  <2>1. t \in Workers /\ pc[t] = "ingest" /\ Folder(t) \in Folders
    BY <1>2, <1>h, <1>t, FolderType DEF Ingest
  <2>2. /\ rows' = [rows EXCEPT ![Folder(t)] = Overlay(p, @)]
        /\ inserted' = [inserted EXCEPT ![t] = @ \cup new]
        /\ pc' = [pc EXCEPT ![t] = "set_state"]
        /\ UNCHANGED <<handed, todo>>
    BY <1>2, <1>h, <2>1 DEF Ingest, upsert_messages, Goto
  <2>3. \A id \in Folders \X Nat : HasRow(id)' => HasRow(id) \/ id \in new
    BY <1>t, <2>1, <2>2 DEF HasRow, Overlay, inserted_ids, stable_id, TypeOK, IndexTypeOK
  <2> HIDE DEF new, p
  <2>4. /\ \A w \in Workers : inserted[w] \subseteq inserted'[w] /\ (w # t => inserted'[w] = inserted[w])
        /\ new \subseteq inserted'[t]
        /\ pc'[t] = "set_state" /\ \A s \in Threads \ {t} : pc'[s] = pc[s]
    BY <1>h, <1>t, <2>2 DEF TypeOK
  <2>5. \A id \in Folders \X Nat : HasRow(id)' =>
          id \in handed' \/ \E w \in Workers : id \in inserted'[w]
    BY <2>1, <2>2, <2>3, <2>4 DEF ToHandInv
  <2> QED
    BY <1>h, <1>t, <2>1, <2>2, <2>4, <2>5 DEF ToHandInv
<1>3. ASSUME NEW t \in Threads, SetState(t) PROVE ToHandInv'
  <2>1. t \in Workers
    BY <1>3, <1>h DEF SetState
  <2>2. /\ pc[t] = "set_state"
        /\ pc' = [pc EXCEPT ![t] = "fetch_flags"]
        /\ UNCHANGED <<rows, todo, inserted, handed>>
    BY <1>3, <1>h, <2>1 DEF SetState, StoreState, set_folder_state, Goto, passVars
  <2>3. Tail(todo[t]) = <<>>
    BY <2>1, <2>2 DEF ToHandInv
  <2> QED
    BY <1>t, <2>1, <2>2, <2>3, PassGoesOn DEF TypeOK
<1>4. ASSUME NEW t \in Workers, EndPass(t), UNCHANGED rows,
             \/ inserted[t] = {} /\ UNCHANGED handed
             \/ handed' = handed \cup ToClassify(t)
      PROVE  ToHandInv'
  <2>1. /\ pc' = [pc EXCEPT ![t] = "idle"]
        /\ todo' = [todo EXCEPT ![t] = <<>>]
        /\ inserted' = [inserted EXCEPT ![t] = {}]
    BY <1>4 DEF EndPass, Goto
  <2>2. /\ pc'[t] = "idle" /\ inserted'[t] = {}
        /\ \A s \in Threads \ {t} :
             pc'[s] = pc[s] /\ inserted'[s] = inserted[s] /\ todo'[s] = todo[s]
    BY <1>h, <1>t, <2>1 DEF TypeOK
  <2>3. handed \subseteq handed' /\ inserted[t] \subseteq handed'
    BY <1>4, <1>h, <1>t DEF ToClassify, HandoverInv
  <2>4. \A id \in Folders \X Nat : HasRow(id)' = HasRow(id)
    BY <1>4 DEF HasRow
  <2>5. \A id \in Folders \X Nat : HasRow(id)' =>
          id \in handed' \/ \E w \in Workers : id \in inserted'[w]
    BY <1>h, <2>2, <2>3, <2>4 DEF ToHandInv
  <2> QED
    BY <1>h, <1>t, <2>2, <2>5 DEF ToHandInv
<1>5. ASSUME NEW t \in Threads, PassFails(t) PROVE ToHandInv'
  <2>1. t \in Workers /\ pc[t] \in {"fetch_new", "ingest"}
    BY <1>5, <1>h DEF PassFails
  <2> QED
    BY <1>4, <1>5, <2>1 DEF PassFails, indexVars, ToHandInv
<1>6. ASSUME NEW w \in Workers, Wake(w) PROVE ToHandInv'
  <2> DEFINE folders == TargetFolders(SyncFolders)
  <2>1. /\ pc[w] = "idle" /\ w \in Threads
        /\ todo' = [todo EXCEPT ![w] = folders]
        /\ pc' = [pc EXCEPT ![w] = IF folders = <<>> THEN "done" ELSE "get_state"]
        /\ UNCHANGED <<rows, inserted, handed>>
    BY <1>6, <1>h DEF Wake, StartPass, Goto, indexVars
  <2>2. folders # <<>> => Tail(folders) = <<>>
    <3>1. folders \in Seq(Folders) /\ Len(folders) <= 1
      BY SyncAssumption DEF OneFolder
    <3> HIDE DEF folders
    <3> QED
      BY <3>1
  <2> HIDE DEF folders
  <2> QED
    BY <1>t, <2>1, <2>2, PassGoesOn DEF TypeOK
<1>7. ASSUME NEW w \in Workers, FetchFlags(w) PROVE ToHandInv'
  BY <1>7, <1>h, <1>t, PassGoesOn DEF FetchFlags, Goto, indexVars, ToHandInv, TypeOK
<1>8. ASSUME NEW w \in Workers, UpdateFlags(w) \/ FlagsFail(w) PROVE ToHandInv'
  <2>1. /\ pc[w] \in {"fetch_flags", "update_flags"} /\ w \in Threads
        /\ todo' = [todo EXCEPT ![w] = Tail(@)]
        /\ pc' = [pc EXCEPT ![w] = IF Tail(todo[w]) = <<>> THEN "done" ELSE "get_state"]
        /\ UNCHANGED <<inserted, handed>>
    BY <1>8, <1>h DEF UpdateFlags, FlagsFail, NextFolder, Goto
  <2>2. Tail(todo[w]) = <<>>
    BY <2>1 DEF ToHandInv
  <2>3. \A f \in Folders : DOMAIN rows'[f] = DOMAIN rows[f]
    <3>1. CASE UpdateFlags(w)
      BY <1>t, <3>1 DEF UpdateFlags, update_flags, TypeOK, IndexTypeOK
    <3>2. CASE FlagsFail(w)
      BY <3>2 DEF FlagsFail, indexVars
    <3> QED
      BY <1>8, <3>1, <3>2
  <2> QED
    BY <1>t, <2>1, <2>2, <2>3, PassGoesOn DEF TypeOK
<1>9. ASSUME NEW w \in Workers, Classify(w) PROVE ToHandInv'
  BY <1>4, <1>9 DEF Classify, indexVars
<1>10. ~Reread /\ ~Respond
  BY <1>h DEF Reread, Respond
<1>11. ~Crash
  BY <1>t DEF Crash, TypeOK
<1>12. ASSUME UNCHANGED <<indexVars, syncVars>> PROVE ToHandInv'
  BY <1>12, <1>t DEF indexVars, syncVars, passVars, ToHandInv, HasRow
<1> QED
  BY <1>1, <1>2, <1>3, <1>5, <1>6, <1>7, <1>8, <1>9, <1>10, <1>11, <1>12
     DEF Next, ServiceNext, ThreadNext, WorkerNext, HttpNext, vars

\* With one folder and no POST /sync, and as long as the index works and the
\* service is not restarted, every row has been given to classification when no
\* pass runs, however fetches and flag refreshes fail (sync.py:79-105,
\* main.py:312-325).
THEOREM InsertedAreClassifiedCorrect ==
  ASSUME OneFolder, RequestFolders = {}, ~StoreFails, MaxCrashes = 0
  PROVE  Spec => []InsertedAreClassified
<1>1. Init => ToHandInv
  <2> SUFFICES ASSUME Init PROVE ToHandInv
    OBVIOUS
  <2>1. HandoverInv
    BY InitHandover
  <2> QED
    BY <2>1, NoUidsType DEF Init, IndexInit, ToHandInv, HasRow, Threads
<1>2. ToHandInv /\ [Next]_vars => ToHandInv'
  BY ToHandStep
<1>3. ToHandInv => InsertedAreClassified
  <2> SUFFICES ASSUME ToHandInv, \A t \in Threads : pc[t] = "idle", NEW id \in Ids, HasRow(id)
               PROVE  id \in handed
    BY DEF InsertedAreClassified
  <2>1. id \in Folders \X Nat
    BY ServerAssumption DEF Ids, stable_id
  <2> QED
    BY <2>1 DEF ToHandInv, Threads
<1> QED
  BY <1>1, <1>2, <1>3, PTL DEF Spec

=============================================================================
