----------------------------- MODULE ReadsProofs -----------------------------
(***************************************************************************)
(* From a mail to what /search and /recent answer, for any mails, terms,   *)
(* windows, limits and tokens: FtsIndex, and MailReads on top of it.       *)
(***************************************************************************)
EXTENDS MailReads, FiniteSetTheorems, WellFoundedInduction, TLAPS

-----------------------------------------------------------------------------
(* The full-text table. *)

\* Each row has its postings.  Rowids are used again, so what matters is that
\* no operation on one row takes postings from another.
PostingsInv ==
  \A r \in Rowids :
    /\ messages[r] \in [id : Ids, terms : SUBSET Terms]
    /\ \A t \in messages[r].terms : <<r, t>> \in messages_fts

LEMMA ContentType ==
  ASSUME NEW id \in Ids, NEW terms \in Contents[id]
  PROVE  terms \in SUBSET Terms
BY FtsAssumption DEF FtsAssumption

LEMMA DeleteOwnOnly ==
  ASSUME NEW fts, NEW r, NEW content, NEW s, NEW t, s # r, <<s, t>> \in fts
  PROVE  <<s, t>> \in FtsDelete(fts, r, content)
BY DEF FtsDelete

LEMMA InsertKeeps ==
  ASSUME NEW fts, NEW r, NEW terms
  PROVE  /\ fts \subseteq FtsInsert(fts, r, terms)
         /\ \A t \in terms : <<r, t>> \in FtsInsert(fts, r, terms)
BY DEF FtsInsert

LEMMA InsertKeepsPostings ==
  ASSUME PostingsInv, NEW id \in Ids, NEW terms \in Contents[id], InsertMessage(id, terms)
  PROVE  PostingsInv'
<1>1. PICK r \in 1..MaxRowid :
        /\ messages' = [s \in Rowids \cup {r} |->
                          IF s = r THEN [id |-> id, terms |-> terms] ELSE messages[s]]
        /\ messages_fts' = FtsInsert(messages_fts, r, terms)
  BY DEF InsertMessage
<1>2. ASSUME NEW s \in Rowids', NEW t \in messages'[s].terms
      PROVE  <<s, t>> \in messages_fts'
  <2>1. CASE s = r
    BY <1>1, <1>2, <2>1, InsertKeeps DEF Rowids
  <2>2. CASE s # r
    <3>1. s \in Rowids /\ messages'[s] = messages[s]
      BY <1>1, <1>2, <2>2 DEF Rowids
    <3> QED
      BY <1>1, <1>2, <3>1, InsertKeeps DEF PostingsInv
  <2> QED
    BY <2>1, <2>2
<1>3. \A s \in Rowids' : messages'[s] \in [id : Ids, terms : SUBSET Terms]
  BY <1>1, ContentType DEF PostingsInv, Rowids
<1> QED
  BY <1>2, <1>3 DEF PostingsInv

LEMMA UpdateKeepsPostings ==
  ASSUME PostingsInv, NEW id \in Ids, NEW terms \in Contents[id], UpdateMessage(id, terms)
  PROVE  PostingsInv'
<1>1. PICK r \in Rowids :
        /\ messages' = [messages EXCEPT ![r].terms = terms]
        /\ messages_fts' = FtsInsert(FtsDelete(messages_fts, r, messages'), r, terms)
  BY DEF UpdateMessage, FtsUpdate, RowOf
<1>2. ASSUME NEW s \in Rowids', NEW t \in messages'[s].terms
      PROVE  <<s, t>> \in messages_fts'
  <2>1. s \in Rowids
    BY <1>1, <1>2 DEF Rowids
  <2>2. CASE s = r
    <3>1. messages'[r].terms = terms
      BY <1>1 DEF Rowids, PostingsInv
    <3> QED
      BY <1>1, <1>2, <2>2, <3>1, InsertKeeps
  <2>3. CASE s # r
    <3>1. messages'[s] = messages[s]
      BY <1>1, <2>1, <2>3 DEF Rowids
    <3>2. <<s, t>> \in messages_fts
      BY <1>2, <2>1, <3>1 DEF PostingsInv
    <3>3. <<s, t>> \in FtsDelete(messages_fts, r, messages')
      BY <2>3, <3>2, DeleteOwnOnly
    <3> QED
      BY <1>1, <3>3, InsertKeeps
  <2> QED
    BY <2>2, <2>3
<1>3. \A s \in Rowids' : messages'[s] \in [id : Ids, terms : SUBSET Terms]
  BY <1>1, ContentType DEF PostingsInv, Rowids
<1> QED
  BY <1>2, <1>3 DEF PostingsInv

LEMMA RemoveKeepsPostings ==
  ASSUME PostingsInv, NEW id \in Ids, remove_message(id)
  PROVE  PostingsInv'
<1>1. PICK r \in Rowids :
        /\ messages_fts' = FtsDelete(messages_fts, r, messages)
        /\ messages' = [s \in Rowids \ {r} |-> messages[s]]
  BY DEF remove_message, RowOf, Restrict
<1>2. ASSUME NEW s \in Rowids', NEW t \in messages'[s].terms
      PROVE  <<s, t>> \in messages_fts'
  <2>1. s \in Rowids /\ s # r /\ messages'[s] = messages[s]
    BY <1>1, <1>2 DEF Rowids
  <2>2. <<s, t>> \in messages_fts
    BY <1>2, <2>1 DEF PostingsInv
  <2> QED
    BY <1>1, <2>1, <2>2, DeleteOwnOnly
<1>3. \A s \in Rowids' : messages'[s] \in [id : Ids, terms : SUBSET Terms]
  BY <1>1 DEF PostingsInv, Rowids
<1> QED
  BY <1>2, <1>3 DEF PostingsInv

LEMMA PostingsStep == PostingsInv /\ [Next]_vars => PostingsInv'
<1>1. UNCHANGED vars => (PostingsInv => PostingsInv')
  BY DEF PostingsInv, Rowids, vars
<1> QED
  BY <1>1, InsertKeepsPostings, UpdateKeepsPostings, RemoveKeepsPostings DEF Next

LEMMA InitPostings == Init => PostingsInv
BY DEF Init, PostingsInv, Rowids

LEMMA PostingsFind == PostingsInv => SearchFindsAll
<1> SUFFICES ASSUME PostingsInv, NEW query \in Queries, NEW id \in Matching(query)
             PROVE  id \in search(query)
  BY DEF SearchFindsAll
<1>1. PICK r \in Rowids : query \subseteq messages[r].terms /\ messages[r].id = id
  BY DEF Matching
<1>2. \A t \in query : <<r, t>> \in messages_fts
  BY <1>1 DEF PostingsInv
<1> QED
  BY <1>1, <1>2 DEF search

\* Every message that has the words asked for is found, for any messages and
\* any order of upserts and removals, although UPDATE messages_fts takes the
\* wrong old terms out.
THEOREM SearchComplete == Spec => []SearchFindsAll
BY InitPostings, PostingsStep, PostingsFind, PTL DEF Spec

\* Under an id there is only ever one content, as IMAP promises of a UID.
FixedContent == \A id \in Ids : \A x, y \in Contents[id] : x = y

\* Every posting is of a row that has the term, so that the rowid of a removed
\* row is free of postings when it is used again.
NoStalePostings ==
  \A p \in messages_fts :
    \E r \in Rowids : \E t \in messages[r].terms : p = <<r, t>>

RowsInv ==
  /\ messages \in [Rowids -> [id : Ids, terms : SUBSET Terms]]
  /\ \A r \in Rowids : messages[r].terms \in Contents[messages[r].id]

LEMMA StaleStep ==
  ASSUME FixedContent, RowsInv, NoStalePostings, [Next]_vars
  PROVE  RowsInv' /\ NoStalePostings'
<1>1. ASSUME NEW id \in Ids, NEW terms \in Contents[id], InsertMessage(id, terms)
      PROVE  RowsInv' /\ NoStalePostings'
  <2>1. PICK r \in 1..MaxRowid :
          /\ NewRowid(r)
          /\ messages' = [s \in Rowids \cup {r} |->
                            IF s = r THEN [id |-> id, terms |-> terms] ELSE messages[s]]
          /\ messages_fts' = messages_fts \cup {<<r, t>> : t \in terms}
    BY <1>1 DEF InsertMessage, FtsInsert
  <2>2. r \notin Rowids
    BY <2>1 DEF NewRowid
  <2>3. /\ Rowids' = Rowids \cup {r}
        /\ messages'[r] = [id |-> id, terms |-> terms]
        /\ \A s \in Rowids : messages'[s] = messages[s]
    BY <2>1, <2>2 DEF Rowids
  <2>4. RowsInv'
    BY <2>1, <2>3, ContentType DEF RowsInv
  <2>5. NoStalePostings'
    BY <2>1, <2>3 DEF NoStalePostings
  <2> QED
    BY <2>4, <2>5
<1>2. ASSUME NEW id \in Ids, NEW terms \in Contents[id], UpdateMessage(id, terms)
      PROVE  RowsInv' /\ NoStalePostings'
  <2>1. PICK r \in Rowids :
          /\ messages[r].id = id
          /\ messages' = [messages EXCEPT ![r].terms = terms]
          /\ messages_fts' = FtsInsert(FtsDelete(messages_fts, r, messages'), r, terms)
    BY <1>2 DEF UpdateMessage, FtsUpdate, RowOf
  <2>2. messages[r].terms = terms
    BY <2>1 DEF RowsInv, FixedContent
  <2>3. messages' = messages
    BY <2>1, <2>2 DEF RowsInv
  <2>4. messages_fts' \subseteq messages_fts \cup {<<r, t>> : t \in terms}
    BY <2>1 DEF FtsInsert, FtsDelete
  <2> QED
    BY <2>2, <2>3, <2>4 DEF RowsInv, NoStalePostings, Rowids
<1>3. ASSUME NEW id \in Ids, remove_message(id)
      PROVE  RowsInv' /\ NoStalePostings'
  <2>1. PICK r \in Rowids :
          /\ messages_fts' = messages_fts \ {<<r, t>> : t \in messages[r].terms}
          /\ messages' = [s \in Rowids \ {r} |-> messages[s]]
    BY <1>3 DEF remove_message, RowOf, Restrict, FtsDelete, Rowids
  <2>2. Rowids' = Rowids \ {r} /\ \A s \in Rowids' : messages'[s] = messages[s]
    BY <2>1 DEF Rowids
  <2>3. RowsInv'
    BY <2>1, <2>2 DEF RowsInv
  <2>4. NoStalePostings'
    BY <2>1, <2>2 DEF NoStalePostings
  <2> QED
    BY <2>3, <2>4
<1>4. CASE UNCHANGED vars
  BY <1>4 DEF vars, RowsInv, NoStalePostings, Rowids
<1> QED
  BY <1>1, <1>2, <1>3, <1>4 DEF Next

\* A search finds nothing else, as long as a message is not replaced by another
\* under its id: a removed row leaves nothing behind for the next one with its
\* rowid, and an update takes out what it puts in again (index.py:134-168, 242-253).
THEOREM SearchExact ==
  ASSUME FixedContent
  PROVE  Spec => []SearchFindsOnly
<1>1. Init => RowsInv /\ NoStalePostings
  BY DEF Init, RowsInv, NoStalePostings, Rowids
<1>2. RowsInv /\ NoStalePostings /\ [Next]_vars => (RowsInv /\ NoStalePostings)'
  BY StaleStep
<1>3. NoStalePostings => SearchFindsOnly
  <2> SUFFICES ASSUME NoStalePostings, NEW query \in Queries, NEW id \in search(query)
               PROVE  id \in Matching(query)
    BY DEF SearchFindsOnly
  <2>1. PICK r \in Rowids : (\A t \in query : <<r, t>> \in messages_fts) /\ messages[r].id = id
    BY DEF search
  <2>2. \A t \in query : t \in messages[r].terms
    BY <2>1 DEF NoStalePostings
  <2> QED
    BY <2>1, <2>2 DEF Matching
<1> QED
  BY <1>1, <1>2, <1>3, PTL DEF Spec

LEMMA PostingTypes ==
  ASSUME NEW fts \in SUBSET ((1..MaxRowid) \X Terms), NEW r \in 1..MaxRowid,
         NEW terms \in SUBSET Terms, NEW content
  PROVE  /\ FtsInsert(fts, r, terms) \subseteq (1..MaxRowid) \X Terms
         /\ FtsDelete(fts, r, content) \subseteq (1..MaxRowid) \X Terms
BY DEF FtsInsert, FtsDelete

\* A new row has an id no other row has.
LEMMA TypeStep == PostingsInv /\ TypeOK /\ [Next]_vars => TypeOK'
<1> SUFFICES ASSUME PostingsInv, TypeOK, [Next]_vars PROVE TypeOK'
  OBVIOUS
<1>1. ASSUME NEW id \in Ids, NEW terms \in Contents[id], InsertMessage(id, terms)
      PROVE  TypeOK'
  <2>1. PICK r \in 1..MaxRowid :
          /\ messages' = [s \in Rowids \cup {r} |->
                            IF s = r THEN [id |-> id, terms |-> terms] ELSE messages[s]]
          /\ messages_fts' = FtsInsert(messages_fts, r, terms)
    BY <1>1 DEF InsertMessage
  <2>2. \A s \in Rowids : messages[s].id # id
    BY <1>1 DEF InsertMessage, RowOf
  <2>3. messages_fts' \subseteq (1..MaxRowid) \X Terms
    BY <2>1, ContentType, PostingTypes DEF TypeOK
  <2> QED
    BY <2>1, <2>2, <2>3 DEF TypeOK, Rowids
<1>2. ASSUME NEW id \in Ids, NEW terms \in Contents[id], UpdateMessage(id, terms)
      PROVE  TypeOK'
  <2>1. PICK r \in Rowids :
          /\ messages[r].id = id
          /\ messages' = [messages EXCEPT ![r].terms = terms]
          /\ messages_fts' = FtsInsert(FtsDelete(messages_fts, r, messages'), r, terms)
    BY <1>2 DEF UpdateMessage, FtsUpdate, RowOf
  <2>2. messages_fts' \subseteq (1..MaxRowid) \X Terms
    <3>1. /\ messages_fts \in SUBSET ((1..MaxRowid) \X Terms)
          /\ r \in 1..MaxRowid /\ terms \in SUBSET Terms
      BY <2>1, ContentType DEF TypeOK
    <3>2. FtsDelete(messages_fts, r, messages') \in SUBSET ((1..MaxRowid) \X Terms)
      BY <3>1, PostingTypes
    <3> QED
      BY <2>1, <3>1, <3>2, PostingTypes
  <2>3. /\ DOMAIN messages' = Rowids
        /\ \A s \in Rowids \ {r} : messages'[s] = messages[s]
        /\ messages'[r].id = id /\ messages'[r].terms = terms
    BY <2>1 DEF Rowids, PostingsInv
  <2>4. \A s \in Rowids : messages'[s].id = messages[s].id
    BY <2>1, <2>3
  <2>5. \A s \in Rowids : messages'[s].id \in Ids /\ messages'[s].terms \in Contents[messages'[s].id]
    BY <2>3 DEF TypeOK
  <2>6. \A s, t \in Rowids : messages'[s].id = messages'[t].id => s = t
    BY <2>4 DEF TypeOK
  <2> QED
    BY <2>2, <2>3, <2>5, <2>6 DEF TypeOK, Rowids
<1>3. ASSUME NEW id \in Ids, remove_message(id)
      PROVE  TypeOK'
  <2>1. PICK r \in Rowids :
          /\ messages_fts' = FtsDelete(messages_fts, r, messages)
          /\ messages' = [s \in Rowids \ {r} |-> messages[s]]
    BY <1>3 DEF remove_message, RowOf, Restrict
  <2>2. messages_fts' \subseteq (1..MaxRowid) \X Terms
    BY <2>1, PostingTypes DEF TypeOK
  <2> QED
    BY <2>1, <2>2 DEF TypeOK, Rowids
<1>4. CASE UNCHANGED vars
  BY <1>4 DEF TypeOK, Rowids, vars
<1> QED
  BY <1>1, <1>2, <1>3, <1>4 DEF Next

-----------------------------------------------------------------------------
(* Mails. *)

LEMMA SeenIsIndexed ==
  ASSUME NEW mail \in Mails
  PROVE  Terms \cap (mail.subject \cup Seen(mail)) \subseteq TermsOf(mail)
<1> DEFINE texts(type) == {p.text \ p.hidden : p \in {q \in mail.parts : q.type = type /\ ~q.attached}}
<1>1. /\ mail.parts \subseteq Part
      /\ \A p \in mail.parts : p.type # "html" => p.hidden = {}
      /\ ~mail.multipart => \A p, q \in mail.parts : p = q
  BY MailsAssumption DEF MailsAssumption
<1>2. Seen(mail) = IF UNION texts("plain") # {} THEN UNION texts("plain") ELSE UNION texts("html")
  BY DEF Seen
<1>3. ASSUME NEW t \in Seen(mail)
      PROVE  t \in extract_body(mail)
  <2>1. CASE \E p \in mail.parts : p.type = "plain" /\ ~p.attached /\ p.text # {}
    <3>1. PICK p \in mail.parts : p.type = "plain" /\ ~p.attached /\ p.text # {}
      BY <2>1
    <3>2. p \in PlainParts(mail)
      BY <3>1 DEF PlainParts, Inline
    <3>3. p.text \ p.hidden \in texts("plain") /\ p.text \ p.hidden = p.text
      BY <1>1, <3>1
    <3>4. t \in UNION texts("plain")
      BY <1>2, <1>3, <3>1, <3>3
    <3>5. PICK q \in mail.parts : q.type = "plain" /\ ~q.attached /\ t \in q.text
      BY <3>4
    <3>6. q \in PlainParts(mail)
      BY <3>5 DEF PlainParts, Inline
    <3> QED
      BY <3>1, <3>2, <3>5, <3>6 DEF extract_body
  <2>2. CASE ~ \E p \in mail.parts : p.type = "plain" /\ ~p.attached /\ p.text # {}
    <3>1. UNION texts("plain") = {}
      BY <2>2
    <3>2. PICK q \in mail.parts : q.type = "html" /\ ~q.attached /\ t \in q.text \ q.hidden
      BY <1>2, <1>3, <3>1
    <3>3. q \in HtmlParts(mail) /\ t \in html_to_text(q)
      BY <3>2 DEF HtmlParts, Inline, html_to_text
    <3>4. ASSUME NEW p \in PlainParts(mail) PROVE p.text = {}
      <4>1. CASE mail.multipart
        BY <2>2, <3>4, <4>1 DEF PlainParts, Inline
      <4>2. CASE ~mail.multipart
        BY <1>1, <3>2, <3>4, <4>2 DEF PlainParts
      <4> QED
        BY <4>1, <4>2
    <3> QED
      BY <3>3, <3>4 DEF extract_body
  <2> QED
    BY <2>1, <2>2
<1> QED
  BY <1>3 DEF TermsOf, parse_email

-----------------------------------------------------------------------------
(* Answers. *)

\* Whatever LIMIT leaves of some rows, a row it drops has been crowded out.
LEMMA LimitCrowdsOut ==
  ASSUME NEW rs, IsFiniteSet(rs), NEW limit, NEW answer \in Limited(rs, limit), NEW r \in rs
  PROVE  ShownOrCrowdedOut(r, answer, limit)
<1>1. /\ answer \in SUBSET rs
      /\ Cardinality(answer) = Smaller(limit, Cardinality(rs))
      /\ \A s \in answer, t \in rs \ answer : NotAfter(s, t)
  BY DEF Limited
<1>2. CASE r \notin answer
  <2>1. Cardinality(answer) # Cardinality(rs)
    BY <1>1, <1>2, FS_Subset
  <2>2. Cardinality(answer) = limit
    BY <1>1, <2>1 DEF Smaller
  <2> QED
    BY <1>1, <1>2, <2>2 DEF ShownOrCrowdedOut
<1> QED
  BY <1>2 DEF ShownOrCrowdedOut

-----------------------------------------------------------------------------
(* The index with all its columns. *)

\* Rows and columns are kept together: a row has the words and the date of the
\* mail that came last under its id.
ColumnsInv ==
  /\ DOMAIN columns = Rowids
  /\ \A r \in Rowids :
       /\ columns[r] \in [mail : Mails, date_utc : {mail.date : mail \in Mails}, unread : BOOLEAN]
       /\ columns[r].date_utc = columns[r].mail.date
       /\ messages[r].terms = TermsOf(columns[r].mail)

ReadsInv == PostingsInv /\ TypeOK /\ ColumnsInv /\ configured \in Configurations

LEMMA ColumnsFacts ==
  ASSUME NEW mail \in Mails, NEW unread \in BOOLEAN
  PROVE  /\ Columns(mail, unread) \in
              [mail : Mails, date_utc : {m.date : m \in Mails}, unread : BOOLEAN]
         /\ Columns(mail, unread).date_utc = Columns(mail, unread).mail.date
         /\ Columns(mail, unread).mail = mail
BY DEF Columns, parse_email

\* What is written is what FtsIndex allows, and the columns with it.
LEMMA WriteStep ==
  ASSUME ReadsInv, NEW id \in Ids, Write(id)
  PROVE  [Next]_vars /\ ColumnsInv'
<1> USE DEF ReadsInv
<1>1. ASSUME NEW mail \in Mails, NEW unread \in BOOLEAN, upsert_messages(id, mail, unread)
      PROVE  [Next]_vars /\ ColumnsInv'
  <2>1. TermsOf(mail) \in Contents[id]
    BY MailsAssumption DEF MailsAssumption
  <2>2. InsertMessage(id, TermsOf(mail)) \/ UpdateMessage(id, TermsOf(mail))
    BY <1>1 DEF upsert_messages
  <2>3. Next
    BY <2>1, <2>2 DEF Next
  <2>4. columns' = [r \in DOMAIN messages' |->
                      IF messages'[r].id = id THEN Columns(mail, unread) ELSE columns[r]]
    BY <1>1 DEF upsert_messages
  <2> DEFINE terms == TermsOf(mail)
  <2> HIDE DEF terms
  \* every row after the write is the message's, or was there with its columns
  <2>5. \A r \in DOMAIN messages' :
          \/ messages'[r].id = id /\ messages'[r].terms = terms
          \/ messages'[r].id # id /\ r \in Rowids /\ messages'[r] = messages[r]
    <3>1. CASE InsertMessage(id, terms)
      <4>1. PICK r \in 1..MaxRowid :
              messages' = [s \in Rowids \cup {r} |->
                             IF s = r THEN [id |-> id, terms |-> terms] ELSE messages[s]]
        BY <3>1 DEF InsertMessage
      <4>2. \A s \in Rowids : messages[s].id # id
        BY <3>1 DEF InsertMessage, RowOf
      <4> QED
        BY <4>1, <4>2
    <3>2. CASE UpdateMessage(id, terms)
      <4>1. PICK r \in Rowids : messages[r].id = id /\ messages' = [messages EXCEPT ![r].terms = terms]
        BY <3>2 DEF UpdateMessage, RowOf
      <4>2. /\ DOMAIN messages' = Rowids
            /\ \A s \in Rowids \ {r} : messages'[s] = messages[s] /\ messages[s].id # id
            /\ messages'[r].id = id /\ messages'[r].terms = terms
        BY <4>1 DEF Rowids, PostingsInv, TypeOK
      <4> QED
        BY <4>2
    <3> QED
      BY <2>2, <3>1, <3>2 DEF terms
  <2> QED
    BY <2>3, <2>4, <2>5, ColumnsFacts DEF ColumnsInv, Rowids, terms
<1>2. ASSUME NEW unread \in BOOLEAN, update_flags(id, unread)
      PROVE  [Next]_vars /\ ColumnsInv'
  <2>1. PICK r \in Rowids : columns' = [columns EXCEPT ![r].unread = unread]
    BY <1>2 DEF update_flags, RowOf
  <2>2. UNCHANGED vars
    BY <1>2 DEF update_flags
  <2>3. /\ DOMAIN columns' = Rowids
        /\ \A s \in Rowids \ {r} : columns'[s] = columns[s]
        /\ columns'[r] = [columns[r] EXCEPT !.unread = unread]
    BY <2>1 DEF ColumnsInv
  <2>4. /\ columns'[r] \in [mail : Mails, date_utc : {m.date : m \in Mails}, unread : BOOLEAN]
        /\ columns'[r].mail = columns[r].mail /\ columns'[r].date_utc = columns[r].date_utc
    BY <2>3 DEF ColumnsInv
  <2> QED
    BY <2>2, <2>3, <2>4 DEF ColumnsInv, Rowids, vars
<1>3. ASSUME Remove(id)
      PROVE  [Next]_vars /\ ColumnsInv'
  <2>1. PICK r \in Rowids : messages' = [s \in Rowids \ {r} |-> messages[s]]
    BY <1>3 DEF Remove, remove_message, RowOf, Restrict
  <2>2. columns' = [s \in DOMAIN messages' |-> columns[s]]
    BY <1>3 DEF Remove, Restrict
  <2>3. Next
    BY <1>3 DEF Remove, Next
  <2> QED
    BY <2>1, <2>2, <2>3 DEF ColumnsInv, Rowids
<1> QED
  BY <1>1, <1>2, <1>3 DEF Write

LEMMA ReadsStep == ReadsInv /\ [ReadsNext]_readsVars => ReadsInv' /\ [Next]_vars
<1> SUFFICES ASSUME ReadsInv, [ReadsNext]_readsVars PROVE ReadsInv' /\ [Next]_vars
  OBVIOUS
<1>1. ASSUME NEW id \in Ids, Write(id), UNCHANGED configured
      PROVE  ReadsInv' /\ [Next]_vars
  <2>1. [Next]_vars /\ ColumnsInv'
    BY <1>1, WriteStep
  <2> QED
    BY <1>1, <2>1, PostingsStep, TypeStep DEF ReadsInv
<1>2. ASSUME UNCHANGED <<vars, columns>>, configured' \in Configurations
      PROVE  ReadsInv' /\ [Next]_vars
  <2>1. PostingsInv' /\ TypeOK'
    BY <1>2, PostingsStep, TypeStep DEF ReadsInv
  <2>2. ColumnsInv'
    BY <1>2 DEF ReadsInv, ColumnsInv, Rowids, vars
  <2> QED
    BY <1>2, <2>1, <2>2 DEF ReadsInv
<1>3. Restart => configured' \in Configurations
  BY DEF Restart, Start
<1>4. UNCHANGED readsVars => UNCHANGED <<vars, columns>> /\ configured' \in Configurations
  BY DEF readsVars, ReadsInv
<1> QED
  BY <1>1, <1>2, <1>3, <1>4 DEF ReadsNext

LEMMA ReadsInitInv == ReadsInit => ReadsInv
<1>1. Init => TypeOK
  BY FtsAssumption DEF Init, TypeOK, Rowids, FtsAssumption
<1> QED
  BY <1>1, InitPostings DEF ReadsInit, ReadsInv, Init, ColumnsInv, Rowids, Start

LEMMA ReadsCorrect == ReadsSpec => []ReadsInv
BY ReadsInitInv, ReadsStep, PTL DEF ReadsSpec

\* MailReads keeps to FtsIndex: mail that is parsed and stored with its columns
\* changes the full-text table as FtsIndex says (index.py:55-179, 242-254).
THEOREM ReadsKeepsToFts == ReadsSpec => Spec
<1>1. ReadsInit => Init
  BY DEF ReadsInit
<1> QED
  BY <1>1, ReadsStep, ReadsCorrect, PTL DEF Spec, ReadsSpec

\* The types of rows, postings, columns and configuration.
THEOREM ReadsTypes == ReadsSpec => []ReadsTypeOK
<1>1. ReadsInv => ReadsTypeOK
  BY DEF ReadsInv, ColumnsInv, ReadsTypeOK
<1> QED
  BY <1>1, ReadsCorrect, PTL

LEMMA RowidsFinite ==
  ASSUME TypeOK, NEW rs \in SUBSET Rowids
  PROVE  IsFiniteSet(rs)
<1>1. IsFiniteSet(1..MaxRowid)
  BY FS_Interval, FtsAssumption DEF FtsAssumption
<1>2. rs \in SUBSET (1..MaxRowid)
  BY DEF TypeOK
<1> QED
  BY <1>1, <1>2, FS_Subset

\* A search for words a reader sees in a mail shows it or mail as new, for any
\* mails, windows and limits, whatever was updated, removed and given a used
\* rowid before: the parser loses no readable text (mail_parse.py:90-118), the
\* full-text table no posting of a row (index.py:55-179), and the query nothing
\* but what is older than the limit has room for (index.py:181-198).
THEOREM FindsReadableTextCorrect == ReadsSpec => []FindsReadableText
<1>1. ReadsInv => FindsReadableText
  <2>1. SUFFICES ASSUME ReadsInv, NEW r \in Rowids,
                        NEW query \in SUBSET (Terms \cap (columns[r].mail.subject \cup Seen(columns[r].mail))),
                        NEW days \in RequestDays, NEW limit \in RequestLimits,
                        query # {}, Meant(r, clamp_days(days, SearchDays)),
                        NEW answer \in SearchAnswers(query, days, limit)
                 PROVE  ShownOrCrowdedOut(r, answer, clamp_limit(limit))
    BY DEF FindsReadableText
  <2> DEFINE found == WithinWindow(Hits(query), clamp_days(days, SearchDays))
  <2>2. query \subseteq messages[r].terms
    BY <2>1, SeenIsIndexed DEF ReadsInv, ColumnsInv
  <2>3. r \in Hits(query)
    BY <2>1, <2>2 DEF Hits, ReadsInv, PostingsInv
  <2>4. r \in found
    BY <2>1, <2>3 DEF WithinWindow, Meant, MailDate, ReadsInv, ColumnsInv
  <2>5. found \in SUBSET Rowids
    BY DEF WithinWindow, Hits
  <2>6. IsFiniteSet(found)
    BY <2>1, <2>5, RowidsFinite DEF ReadsInv
  <2>7. answer \in Limited(found, clamp_limit(limit))
    BY <2>1 DEF SearchAnswers
  <2> HIDE DEF found
  <2> QED
    BY <2>4, <2>6, <2>7, LimitCrowdsOut
<1> QED
  BY <1>1, ReadsCorrect, PTL

\* An unread mail of the window is missing from /recent only when the answer is
\* full of unread mail as new: the unread ones are chosen before the limit is
\* applied (index.py:200-214).
THEOREM RecentShowsUnreadCorrect == ReadsSpec => []RecentShowsUnread
<1>1. ReadsInv => RecentShowsUnread
  <2>1. SUFFICES ASSUME ReadsInv, NEW r \in Rowids,
                        NEW days \in RequestDays \ {0}, NEW limit \in RequestLimits,
                        columns[r].unread, Meant(r, clamp_days(days, DefaultDays)),
                        NEW answer \in RecentAnswers(days, limit, TRUE)
                 PROVE  ShownOrCrowdedOut(r, answer, clamp_limit(limit))
    BY DEF RecentShowsUnread
  <2> DEFINE unread == {s \in WithinWindow(Rowids, clamp_days(days, DefaultDays)) : columns[s].unread}
  <2>2. r \in unread
    BY <2>1 DEF WithinWindow, Meant, MailDate, ReadsInv, ColumnsInv
  <2>3. unread \in SUBSET Rowids
    BY DEF WithinWindow
  <2>4. IsFiniteSet(unread)
    BY <2>1, <2>3, RowidsFinite DEF ReadsInv
  <2>5. answer \in Limited(unread, clamp_limit(limit))
    BY <2>1 DEF RecentAnswers
  <2> HIDE DEF unread
  <2> QED
    BY <2>2, <2>4, <2>5, LimitCrowdsOut
<1> QED
  BY <1>1, ReadsCorrect, PTL

-----------------------------------------------------------------------------
(* Tokens. *)

\* A service that starts lets a request in only by a token that is configured
\* completely for the scope, and by every token whose entries grant it, for
\* configurations of any number of entries, tokens and scopes, tokens that
\* several entries share among them (config.py:249-263, auth.py:34-78).
THEOREM LetInAsConfiguredCorrect == ReadsSpec => []LetInAsConfigured
<1>1. configured \in Configurations => LetInAsConfigured
  <2> SUFFICES ASSUME configured \in Configurations,
                      NEW presented \in Tokens \cup {NoBearer}, NEW required \in Scopes \ {"*"}
               PROVE  LET entries == {configured[k] : k \in Holders(presented)}
                          letIn   == require_scope(configured, presented, required) = 200
                      IN  /\ letIn => \E e \in entries : Grants(e, required)
                          /\ entries # {} /\ (\A e \in entries : Grants(e, required)) => letIn
    BY DEF LetInAsConfigured
  <2>1. PICK n \in 0..MaxEntries : configured \in [1..n -> ConfigEntry]
    BY DEF Configurations
  <2>2. n \in Nat /\ DOMAIN configured = 1..n /\ \A k \in 1..n : configured[k] \in ConfigEntry
    BY <2>1, TokenAssumption DEF TokenAssumption
  \* verify finds the first of the entries that are complete and have the token
  <2>3. Specs(configured) = {k \in DOMAIN configured : Complete(configured[k])}
    BY DEF Specs, load_auth_tokens, Complete
  <2>4. \A k \in DOMAIN configured : configured[k].token # NoBearer
    BY <2>2, TokenAssumption DEF ConfigEntry, TokenAssumption
  <2>5. verify(configured, presented) =
          {k \in Holders(presented) : \A j \in Holders(presented) : ~(j < k)}
    BY <2>3, <2>4 DEF verify, Holders
  <2>6. Holders(presented) # {} => verify(configured, presented) # {}
    <3>1. SUFFICES ASSUME Holders(presented) # {}
                   PROVE  \E k \in Holders(presented) : \A j \in Holders(presented) : ~(j < k)
      BY <2>5
    <3>2. Holders(presented) \subseteq Nat
      BY <2>2 DEF Holders
    <3>3. IsWellFoundedOn(OpToRel(<, Nat), Nat)
      BY NatLessThanWellFounded
    <3>4. PICK m \in Holders(presented) :
            \A j \in Holders(presented) : <<j, m>> \notin OpToRel(<, Nat)
      BY <3>1, <3>2, <3>3, WFMin
    <3> QED
      BY <3>2, <3>4 DEF OpToRel
  <2>7. \A k \in DOMAIN configured :
          has_scope(configured[k].scopes, required) <=> Grants(configured[k], required)
    BY DEF has_scope, Grants
  <2>8. require_scope(configured, presented, required) = 200 <=>
          \E k \in verify(configured, presented) : has_scope(configured[k].scopes, required)
    BY DEF require_scope
  <2>9. Holders(presented) \subseteq DOMAIN configured
    BY DEF Holders
  <2> QED
    BY <2>5, <2>6, <2>7, <2>8, <2>9
<1> QED
  BY <1>1, ReadsCorrect, PTL DEF ReadsInv

=============================================================================
