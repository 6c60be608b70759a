---------------------------- MODULE MessageIndex ----------------------------
(***************************************************************************)
(* app/index.py: the SQLite message index and the per-folder sync state.   *)
(*                                                                         *)
(* Each method of MessageIndex runs under one lock and in one transaction, *)
(* so each is one atomic step here.  A row is known by its folder and UID: *)
(* stable_id hashes exactly those two (the account is fixed).  Of a row's  *)
(* columns only the content (which message it holds) and the flags are     *)
(* kept; the full-text table is left to another module.                    *)
(***************************************************************************)
EXTENDS MailServer

CONSTANT None   \* SQL NULL, for a folder that was never synced

VARIABLES
  rows,         \* rows[f] maps the UIDs indexed for f to [msg, flag]
  folder_state  \* folder_state[f] is [uidvalidity, last_uid]

indexVars == <<rows, folder_state>>

FolderState == [uidvalidity : Nat \cup {None}, last_uid : Nat]

IndexTypeOK ==
  /\ folder_state \in [Folders -> FolderState]
  /\ DOMAIN rows = Folders
  /\ \A f \in Folders : \A u \in DOMAIN rows[f] : u \in Nat /\ rows[f][u] \in Entry

NeverSynced == [uidvalidity |-> None, last_uid |-> 0]

IndexInit ==
  /\ rows = [f \in Folders |-> NoUids]
  /\ folder_state = [f \in Folders |-> NeverSynced]

stable_id(f, u) == <<f, u>>

\* upsert_messages: rows that exist are overwritten, the others inserted
upsert_messages(f, parsed) ==
  /\ rows' = [rows EXCEPT ![f] = Overlay(parsed, @)]
  /\ UNCHANGED folder_state

\* mutant of inserted_ids: rows that were overwritten count as inserted
inserted_ids_All(f, parsed) == {stable_id(f, u) : u \in DOMAIN parsed}

\* the inserted_ids upsert_messages returns: only the rows that did not exist
inserted_ids(f, parsed) == {stable_id(f, u) : u \in DOMAIN parsed \ DOMAIN rows[f]}

\* remove_message: deletes the row if there is one
remove_message(f, u) ==
  /\ rows' = [rows EXCEPT ![f] = Without(@, u)]
  /\ UNCHANGED folder_state

\* get_message and get_message_locator find a row by its id
HasRow(id) == id[2] \in DOMAIN rows[id[1]]

set_folder_state(f, validity, last) ==
  /\ folder_state' = [folder_state EXCEPT ![f] =
                        [uidvalidity |-> validity, last_uid |-> last]]
  /\ UNCHANGED rows

\* update_flags: only rows that exist are touched
update_flags(f, flags) ==
  /\ rows' = [rows EXCEPT ![f] =
       [u \in DOMAIN @ |->
          IF u \in DOMAIN flags THEN [msg |-> @[u].msg, flag |-> flags[u]] ELSE @[u]]]
  /\ UNCHANGED folder_state

=============================================================================
