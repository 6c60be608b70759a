---------------------------- MODULE MCMailArchive ----------------------------
(* Values of MailArchive's constants for TLC. *)
EXTENDS MailArchive, TLC

CONSTANTS m1, m2, w1

Inbox == <<"inbox">>
InboxArchive == <<"inbox", "archive">>
RequestInbox == {Inbox}
RequestNone == {}

SameMessages == Permutations({m1, m2})

=============================================================================
