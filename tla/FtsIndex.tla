------------------------------ MODULE FtsIndex ------------------------------
(***************************************************************************)
(* The full-text half of app/index.py: the table messages and the FTS5     *)
(* table messages_fts beside it (migrations/001_initial.sql).              *)
(*                                                                         *)
(* messages_fts is an external-content table: it keeps postings only, and  *)
(* when a row of it is updated or deleted FTS5 takes the old terms from    *)
(* the row that messages has at that moment.  Rows are joined by rowid,    *)
(* and SQLite gives a new row the largest rowid in use plus one, so the    *)
(* rowid of the newest row is used again once that row is deleted.         *)
(*                                                                         *)
(* A message is the set of its search terms.  Each operation is one        *)
(* transaction and one action; the date window and the limit of a search   *)
(* are left out.                                                           *)
(***************************************************************************)
EXTENDS Integers, FiniteSets, Functions

CONSTANTS
  Ids,       \* message ids
  Terms,     \* search terms
  Contents,  \* Contents[id] are the term sets a message with this id may have
  MaxRowid   \* bound: no row gets a rowid above it

ASSUME FtsAssumption ==
  /\ Contents \in [Ids -> SUBSET SUBSET Terms]
  /\ MaxRowid \in Nat

VARIABLES
  messages,     \* messages maps the rowids in use to [id, terms]
  messages_fts  \* the postings, pairs of a rowid and a term

vars == <<messages, messages_fts>>

Rowids == DOMAIN messages

TypeOK ==
  /\ Rowids \subseteq 1..MaxRowid
  /\ \A r \in Rowids : messages[r].id \in Ids /\ messages[r].terms \in Contents[messages[r].id]
  /\ \A r, s \in Rowids : messages[r].id = messages[s].id => r = s
  /\ messages_fts \subseteq (1..MaxRowid) \X Terms

Init ==
  /\ messages = [r \in {} |-> 0]
  /\ messages_fts = {}

-----------------------------------------------------------------------------
(* FTS5 on an external-content table.  content is the table messages as    *)
(* the statement finds it.                                                 *)

FtsInsert(fts, r, terms) == fts \cup {<<r, t>> : t \in terms}

FtsDelete(fts, r, content) ==
  IF r \in DOMAIN content THEN fts \ {<<r, t>> : t \in content[r].terms} ELSE fts

FtsUpdate(fts, r, terms, content) == FtsInsert(FtsDelete(fts, r, content), r, terms)

-----------------------------------------------------------------------------
RowOf(id) == {r \in Rowids : messages[r].id = id}

\* the rowid SQLite gives the next row
NewRowid(r) ==
  /\ \A s \in Rowids : s < r
  /\ r = 1 \/ r - 1 \in Rowids

\* mutant of InsertMessage: no look for a row with the id
InsertMessage_Again(id, terms) ==
  \E r \in 1..MaxRowid :
    /\ NewRowid(r)
    /\ messages' = [s \in Rowids \cup {r} |->
                      IF s = r THEN [id |-> id, terms |-> terms] ELSE messages[s]]
    /\ messages_fts' = FtsInsert(messages_fts, r, terms)

\* upsert_messages, for an id it does not know
InsertMessage(id, terms) ==
  /\ RowOf(id) = {}
  /\ \E r \in 1..MaxRowid :
       /\ NewRowid(r)
       /\ messages' = [s \in Rowids \cup {r} |->
                         IF s = r THEN [id |-> id, terms |-> terms] ELSE messages[s]]
       /\ messages_fts' = FtsInsert(messages_fts, r, terms)

\* mutant of UpdateMessage: the full-text row is left as it is
UpdateMessage_RowOnly(id, terms) ==
  \E r \in RowOf(id) :
    /\ messages' = [messages EXCEPT ![r].terms = terms]
    /\ UNCHANGED messages_fts

\* upsert_messages, for an id it knows: UPDATE messages, then UPDATE
\* messages_fts, which finds the new row
UpdateMessage(id, terms) ==
  \E r \in RowOf(id) :
    /\ messages' = [messages EXCEPT ![r].terms = terms]
    /\ messages_fts' = FtsUpdate(messages_fts, r, terms, messages')

\* remove_message: DELETE FROM messages_fts, then DELETE FROM messages
remove_message(id) ==
  \E r \in RowOf(id) :
    /\ messages_fts' = FtsDelete(messages_fts, r, messages)
    /\ messages' = Restrict(messages, Rowids \ {r})

Next ==
  \E id \in Ids :
    \/ \E terms \in Contents[id] : InsertMessage(id, terms) \/ UpdateMessage(id, terms)
    \/ remove_message(id)

Spec == Init /\ [][Next]_vars

-----------------------------------------------------------------------------
(* Properties. *)

\* search: every term of the query is required, and the hit must have a row
search(query) ==
  {messages[r].id : r \in {s \in Rowids : \A t \in query : <<s, t>> \in messages_fts}}

Matching(query) == {messages[r].id : r \in {s \in Rowids : query \subseteq messages[s].terms}}

Queries == SUBSET Terms \ {{}}

\* A search finds every message that has the words asked for, whatever was
\* updated, removed and given a used rowid before.
SearchFindsAll == \A query \in Queries : Matching(query) \subseteq search(query)

\* A search finds only messages that have the words asked for: "Rows are kept
\* in sync manually in index.py (insert on new message, update on change)"
\* (001_initial.sql).
SearchFindsOnly == \A query \in Queries : search(query) \subseteq Matching(query)

=============================================================================
