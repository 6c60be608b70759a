----------------------------- MODULE MailArchive -----------------------------
(***************************************************************************)
(* POST /messages/{id}/archive of app/main.py, beside the syncing threads  *)
(* of MailSync.                                                            *)
(*                                                                         *)
(* The handler looks the message up in the index, moves it on the server   *)
(* and removes the row: three steps, between which the worker threads and  *)
(* the server go on.  Handlers never interleave with each other: they are  *)
(* coroutines that do not await, so one runs to its end before the event   *)
(* loop takes the next.                                                    *)
(***************************************************************************)
EXTENDS MailSync

CONSTANT ArchiveFolder   \* settings.safety.archive_folder

ASSUME ArchiveAssumption == ArchiveFolder \in Folders

VARIABLES
  archiving,  \* the archive request the event loop is serving
  removed     \* ids whose row a request removed

archiveVars == <<archiving, removed>>
allVars == <<vars, archiveVars>>

\* folder and uid are the locator read from the index, msg is the message the
\* row showed to the caller
Request == [step : {"move", "remove"}, folder : Folders, uid : Nat, msg : Messages]
NoRequest == [step |-> "none"]

ArchiveTypeOK ==
  /\ TypeOK
  /\ archiving \in Request \cup {NoRequest}
  /\ removed \subseteq Folders \X Nat

ArchiveInit ==
  /\ Init
  /\ archiving = NoRequest
  /\ removed = {}

-----------------------------------------------------------------------------
(* The handler. *)

\* mutant of EventLoopFree: handlers run in a thread pool (def, not async def)
EventLoopFree_ThreadPool == archiving = NoRequest

EventLoopFree == pc[Http] = "idle" /\ archiving = NoRequest

\* get_message_locator finds the row; a message of the archive folder is
\* answered without a move, and an id without a row with 404
Locate(f, u) ==
  /\ EventLoopFree
  /\ HasRow(stable_id(f, u))
  /\ f # ArchiveFolder
  /\ archiving' = [step |-> "move", folder |-> f, uid |-> u, msg |-> rows[f][u].msg]
  /\ UNCHANGED <<vars, removed>>

\* mutant of MoveTarget: a session without UID commands counts from the first
\* message of the mailbox
MoveTarget_Sequence(f, n) ==
  {u \in DOMAIN mailbox[f] : Cardinality({v \in DOMAIN mailbox[f] : v <= u}) = n}

\* UID MOVE names messages by UID; a UID that is not there is ignored
MoveTarget(f, u) == {u} \cap DOMAIN mailbox[f]

\* the message leaves f and gets the next UID of the archive folder
MoveOnServer(f, u) ==
  /\ mailbox' = [mailbox EXCEPT ![f] = [v \in DOMAIN @ \ MoveTarget(f, u) |-> @[v]],
                   ![ArchiveFolder] =
                     Overlay([v \in {uidnext[ArchiveFolder] : w \in MoveTarget(f, u)} |->
                                mailbox[f][CHOOSE w \in MoveTarget(f, u) : TRUE]], @)]
  /\ uidnext' = [uidnext EXCEPT ![ArchiveFolder] = @ + Cardinality(MoveTarget(f, u))]
  /\ UNCHANGED <<uidvalidity, today, date>>

\* imap.archive_message
Move ==
  /\ archiving.step = "move"
  /\ MoveOnServer(archiving.folder, archiving.uid)
  /\ archiving' = [archiving EXCEPT !.step = "remove"]
  /\ UNCHANGED <<indexVars, syncVars, removed>>

\* mutant of MoveFails: the row is removed in a finally clause
MoveFails_RemovesRow ==
  /\ archiving.step = "move"
  /\ archiving' = [archiving EXCEPT !.step = "remove"]
  /\ UNCHANGED <<vars, removed>>

\* imap.archive_message raises and the handler answers 502: before the server
\* moved the message, or after it, when only the answer was lost
MoveFails ==
  /\ archiving.step = "move"
  /\ \/ UNCHANGED serverVars
     \/ MoveOnServer(archiving.folder, archiving.uid)
  /\ archiving' = NoRequest
  /\ UNCHANGED <<indexVars, syncVars, removed>>

\* index.remove_message, and the handler answers
Remove ==
  /\ archiving.step = "remove"
  /\ remove_message(archiving.folder, archiving.uid)
  /\ removed' = removed \cup {stable_id(archiving.folder, archiving.uid)}
  /\ archiving' = NoRequest
  /\ UNCHANGED <<serverVars, syncVars>>

\* index.remove_message raises: the handler answers 500 and the row stays
RemoveFails ==
  /\ StoreFails
  /\ archiving.step = "remove"
  /\ archiving' = NoRequest
  /\ UNCHANGED <<vars, removed>>

ArchiveMessage ==
  \/ \E f \in Folders : \E u \in DOMAIN rows[f] : Locate(f, u)
  \/ Move
  \/ MoveFails
  \/ Remove
  \/ RemoveFails

-----------------------------------------------------------------------------
(* The handlers share the event loop; the threads run beside it. *)

SyncRequest ==
  /\ \E folders \in RequestFolders, requested \in RequestDays :
       EventLoopFree /\ Sync(folders, requested)
  /\ UNCHANGED archiveVars

SyncHandler ==
  /\ ThreadNext(Http) \/ Reread \/ Respond
  /\ UNCHANGED archiveVars

WorkerThread ==
  /\ \E w \in Workers : ThreadNext(w) \/ WorkerNext(w)
  /\ UNCHANGED archiveVars

Restart ==
  /\ Crash
  /\ archiving' = NoRequest
  /\ UNCHANGED removed

ArchiveNext ==
  \/ ArchiveMessage
  \/ SyncRequest
  \/ SyncHandler
  \/ WorkerThread
  \/ Restart
  \/ ServerNext /\ UNCHANGED <<indexVars, syncVars, archiveVars>>

ArchiveSpec == ArchiveInit /\ [][ArchiveNext]_allVars

-----------------------------------------------------------------------------
(* Properties. *)

Moved(m) ==
  \E f \in Folders \ {ArchiveFolder} :
    \E u \in DOMAIN mailbox[f] \ DOMAIN mailbox'[f] :
      mailbox[f][u].msg = m /\ \E v \in DOMAIN mailbox'[ArchiveFolder] :
                                 mailbox'[ArchiveFolder][v].msg = m

\* What an archive request moves is the message its caller was shown: "Return
\* the IMAP location for a message" (get_message_locator).  The row, the
\* locator and the server's mailbox change independently in between.
RightMessageMoved ==
  [][\A m \in Messages : archiving.step = "move" /\ Moved(m) => archiving.msg = m]_allVars

\* A row an archive request removed does not come back, as the message has left
\* the folder: "Remove a message from the local index after it leaves a synced
\* folder" (remove_message).
NoGhost == \A id \in removed : ~HasRow(id)

=============================================================================
