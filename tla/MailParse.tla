------------------------------ MODULE MailParse ------------------------------
(***************************************************************************)
(* app/mail_parse.py: which text of a mail becomes its body_text.          *)
(*                                                                         *)
(* A mail has a set of leaf parts; the parts that only hold others are     *)
(* walked through, a mail attached to a mail included.  The text of a part *)
(* is the set of its words and signs.  Order, whitespace and charsets are  *)
(* left out.                                                               *)
(***************************************************************************)
EXTENDS FiniteSets

CONSTANTS
  Words,   \* words, as FTS5 takes them from a text
  Signs,   \* what is neither a word nor blank
  Undated  \* the date of a mail without a Date header that can be read

Text == SUBSET (Words \cup Signs)

\* hidden is what an HTML part has in script, style and head
Part == [type : {"plain", "html", "other"}, attached : BOOLEAN, named : BOOLEAN,
         text : Text, hidden : Text]

html_to_text(p) == p.text \ p.hidden

\* the parts of a multipart mail that are walked for the body
Inline(mail, type) == {p \in mail.parts : p.type = type /\ ~p.attached}

PlainParts(mail) ==
  IF mail.multipart THEN Inline(mail, "plain") ELSE {p \in mail.parts : p.type # "html"}

HtmlParts(mail) ==
  IF mail.multipart THEN Inline(mail, "html") ELSE {p \in mail.parts : p.type = "html"}

\* mutant of extract_body: any plain part will do, an empty one too
extract_body_AnyPlain(mail) ==
  IF PlainParts(mail) # {}
    THEN UNION {p.text : p \in PlainParts(mail)}
    ELSE UNION {html_to_text(p) : p \in HtmlParts(mail)}

\* the plain parts, or the HTML ones when those are blank
extract_body(mail) ==
  IF \E p \in PlainParts(mail) : p.text # {}
    THEN UNION {p.text : p \in PlainParts(mail)}
    ELSE UNION {html_to_text(p) : p \in HtmlParts(mail)}

extract_attachments(mail) ==
  IF mail.multipart THEN {p \in mail.parts : p.attached \/ p.named} ELSE {}

parse_email(mail) ==
  [subject         |-> mail.subject,
   date_utc        |-> mail.date,
   body_text       |-> extract_body(mail),
   has_attachments |-> extract_attachments(mail) # {}]

=============================================================================
