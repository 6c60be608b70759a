---------------------------- MODULE MCAutomation ----------------------------
(* Values of Automation's constants for TLC. *)
EXTENDS Automation, TLC

CONSTANTS i1, i2

TagThenArchive == <<"add_tag", "archive">>

TagFirst == {TagThenArchive}
AllThree == {<<"unsubscribe", "add_tag", "archive">>}

SameIds == Permutations({i1, i2})

=============================================================================
