----------------------------- MODULE MCMailReads -----------------------------
(* Values of the constants of MailReads and TokenGate for TLC. *)
EXTENDS MailReads

P(type, attached, text, hidden) ==
  [type |-> type, attached |-> attached, named |-> attached, text |-> text, hidden |-> hidden]

Mail(subject, date, multipart, parts) ==
  [subject |-> subject, date |-> date, multipart |-> multipart, parts |-> parts]

\* plain text; blank text beside HTML; signs and an attached text, undated; a
\* subject dated tomorrow
FourMails == {
  Mail({}, 3, FALSE, {P("plain", FALSE, {"x"}, {})}),
  Mail({"x"}, 1, TRUE, {P("plain", FALSE, {}, {}), P("html", FALSE, {"x", "y"}, {"x"})}),
  Mail({}, Undated, TRUE, {P("plain", FALSE, {"x", "-"}, {}), P("plain", TRUE, {"y"}, {})}),
  Mail({"y"}, 4, TRUE, {P("html", FALSE, {"y"}, {})})}

OneReader == {<<[token_id |-> "reader", token |-> "t1", scopes |-> {"messages:read"}]>>}

MailContents == [id \in Ids |-> {TermsOf(mail) : mail \in Mails}]

=============================================================================
