----------------------------- MODULE MCMailSync -----------------------------
(* Values of MailSync's constants for TLC. *)
EXTENDS MailSync

CONSTANTS m1, m2, m3, m4, w1, w2

Inbox == <<"inbox">>
InboxWork == <<"inbox", "work">>

RequestInbox == {Inbox}
RequestNone == {}

=============================================================================
