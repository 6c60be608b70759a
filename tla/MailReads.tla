------------------------------ MODULE MailReads ------------------------------
(***************************************************************************)
(* From a mail to what /search and /recent answer: app/mail_parse.py, the  *)
(* index of app/index.py with its full-text table, the limits of           *)
(* app/safety.py and the read endpoints of app/main.py.                    *)
(*                                                                         *)
(* Each write is one transaction, and each request that TokenGate lets in   *)
(* reads the index once.  The index outlives the process.                  *)
(* Dates are days; the date of a mail is what its Date header says, in the *)
(* past or in the future.                                                  *)
(***************************************************************************)
EXTENDS FtsIndex, TokenGate

CONSTANTS
  Signs,          \* what a text has besides words
  Undated,        \* the date of a mail without a Date header that can be read
  Mails,          \* the mails that may come
  Today,          \* the clock
  RequestDays,    \* the day counts a request may carry, 0 for none
  RequestLimits,  \* the limits a request may carry, 0 for none
  SearchDays,     \* 90, the window of a search without a day count
  DefaultDays,    \* settings.sync.default_days
  MaxSyncDays,    \* settings.safety.max_sync_days
  DefaultLimit,   \* 10
  MaxResults,     \* settings.safety.max_results
  Served          \* bound: configurations of tokens under which mail comes in

ASSUME ReadsAssumption ==
  /\ {Today, SearchDays, DefaultDays, MaxSyncDays, DefaultLimit, MaxResults} \subseteq Nat
  /\ Undated \notin Int
  /\ RequestDays \subseteq Nat /\ RequestLimits \subseteq Nat

INSTANCE MailParse WITH Words <- Terms

VARIABLE columns  \* columns[r]: the other columns of row r, and the mail it came from

readsVars == <<vars, columns, configured>>

\* the words of a mail that the full-text table gets
TermsOf(mail) ==
  LET msg == parse_email(mail) IN (msg.subject \cup msg.body_text) \cap Terms

\* Only HTML hides text, and a mail that is not multipart is one part.
ASSUME MailsAssumption ==
  \A mail \in Mails :
    /\ mail.parts \subseteq Part
    /\ \A p \in mail.parts : p.type # "html" => p.hidden = {}
    /\ ~mail.multipart => \A p, q \in mail.parts : p = q
    /\ \A id \in Ids : TermsOf(mail) \in Contents[id]

ReadsTypeOK ==
  /\ TypeOK
  /\ DOMAIN columns = Rowids
  /\ \A r \in Rowids :
       /\ columns[r].mail \in Mails
       /\ columns[r].date_utc = columns[r].mail.date
       /\ columns[r].unread \in BOOLEAN
  /\ configured \in Configurations

ReadsInit ==
  /\ Init
  /\ columns = [r \in {} |-> 0]
  /\ Start(configured)

Columns(mail, unread) ==
  [mail |-> mail, date_utc |-> parse_email(mail).date_utc, unread |-> unread]

\* mutant of upsert_messages: an update leaves the date as it was
upsert_messages_KeepsDate(id, mail, unread) ==
  /\ InsertMessage(id, TermsOf(mail)) \/ UpdateMessage(id, TermsOf(mail))
  /\ columns' = [r \in DOMAIN messages' |->
       CASE messages'[r].id # id -> columns[r]
         [] r \in Rowids         -> [columns[r] EXCEPT !.mail = mail, !.unread = unread]
         [] OTHER                -> Columns(mail, unread)]

upsert_messages(id, mail, unread) ==
  /\ InsertMessage(id, TermsOf(mail)) \/ UpdateMessage(id, TermsOf(mail))
  /\ columns' = [r \in DOMAIN messages' |->
       IF messages'[r].id = id THEN Columns(mail, unread) ELSE columns[r]]

update_flags(id, unread) ==
  /\ \E r \in RowOf(id) : columns' = [columns EXCEPT ![r].unread = unread]
  /\ UNCHANGED vars

Remove(id) ==
  /\ remove_message(id)
  /\ columns' = Restrict(columns, DOMAIN messages')

Write(id) ==
  \/ \E mail \in Mails, unread \in BOOLEAN : upsert_messages(id, mail, unread)
  \/ \E unread \in BOOLEAN : update_flags(id, unread)
  \/ Remove(id)

ReadsNext ==
  \/ /\ configured \in Served  \* bound
     /\ \E id \in Ids : Write(id)
     /\ UNCHANGED configured
  \/ /\ Rowids = {} /\ messages_fts = {}  \* bound: before mail came
     /\ Restart
     /\ UNCHANGED <<vars, columns>>

ReadsSpec == ReadsInit /\ [][ReadsNext]_readsVars

-----------------------------------------------------------------------------
(* What the endpoints answer. *)

Smaller(x, y) == IF x < y THEN x ELSE y

clamp_limit(requested) ==
  Smaller(IF requested <= 0 THEN DefaultLimit ELSE requested, MaxResults)

clamp_days(requested, default) ==
  Smaller(IF requested <= 0 THEN default ELSE requested, MaxSyncDays)

\* date_utc IS NULL OR date_utc >= since
WithinWindow(rs, window) ==
  {r \in rs : columns[r].date_utc = Undated \/ columns[r].date_utc >= Today - window}

\* ORDER BY date_utc DESC: a row without a date comes last
NotAfter(r, s) ==
  \/ columns[s].date_utc = Undated
  \/ columns[r].date_utc # Undated /\ columns[r].date_utc >= columns[s].date_utc

\* what LIMIT may leave of the rows: those with the same date come in any order
Limited(rs, limit) ==
  {top \in SUBSET rs :
     /\ Cardinality(top) = Smaller(limit, Cardinality(rs))
     /\ \A r \in top, s \in rs \ top : NotAfter(r, s)}

\* the rows MATCH finds; a query without words finds none
Hits(query) ==
  IF query = {} THEN {} ELSE {r \in Rowids : \A t \in query : <<r, t>> \in messages_fts}

\* the answers POST /search may give
SearchAnswers(query, days, limit) ==
  Limited(WithinWindow(Hits(query), clamp_days(days, SearchDays)), clamp_limit(limit))

\* mutant of RecentAnswers: the rows are limited before the read ones are left out
RecentAnswers_LimitFirst(days, limit, unread_only) ==
  {{r \in top : unread_only => columns[r].unread} :
     top \in Limited(WithinWindow(Rowids, clamp_days(days, DefaultDays)), clamp_limit(limit))}

\* the answers GET /recent may give; it always has a day count
RecentAnswers(days, limit, unread_only) ==
  Limited({r \in WithinWindow(Rowids, clamp_days(days, DefaultDays)) :
             unread_only => columns[r].unread},
          clamp_limit(limit))

-----------------------------------------------------------------------------
(* Properties. *)

\* what a reader of the mail sees as its text: plain text, or HTML without any
Seen(mail) ==
  LET texts(type) == {p.text \ p.hidden : p \in {q \in mail.parts : q.type = type /\ ~q.attached}}
      plain == UNION texts("plain")
  IN  IF plain # {} THEN plain ELSE UNION texts("html")

\* mail shown in an answer, or crowded out of it by mail that is as new
ShownOrCrowdedOut(r, answer, limit) ==
  \/ r \in answer
  \/ Cardinality(answer) = limit /\ \A s \in answer : NotAfter(s, r)

MailDate(r) == columns[r].mail.date

Meant(r, window) == MailDate(r) = Undated \/ MailDate(r) >= Today - window

\* Whatever was updated and removed before, a search for words a reader sees in
\* a mail shows the mail, if it is dated within the window or undated; only as
\* many hits as the limit, all as new, can crowd it out.
FindsReadableText ==
  \A r \in Rowids : \A query \in SUBSET (Terms \cap (columns[r].mail.subject \cup Seen(columns[r].mail))) :
    \A days \in RequestDays, limit \in RequestLimits :
      query # {} /\ Meant(r, clamp_days(days, SearchDays)) =>
        \A answer \in SearchAnswers(query, days, limit) :
          ShownOrCrowdedOut(r, answer, clamp_limit(limit))

\* "/recent returns recent unread messages" (the capabilities plan): an unread
\* mail is crowded out by unread mail only.
RecentShowsUnread ==
  \A r \in Rowids, days \in RequestDays \ {0}, limit \in RequestLimits :
    columns[r].unread /\ Meant(r, clamp_days(days, DefaultDays)) =>
      \A answer \in RecentAnswers(days, limit, TRUE) :
        ShownOrCrowdedOut(r, answer, clamp_limit(limit))

=============================================================================
