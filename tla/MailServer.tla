----------------------------- MODULE MailServer -----------------------------
(***************************************************************************)
(* The IMAP server behind Proton Bridge.  It is not part of the            *)
(* repository: it is modelled from how app/imap_client.py uses it.         *)
(*                                                                         *)
(* A mailbox gives each message a UID.  UIDs grow and are never used twice *)
(* while the mailbox's UIDVALIDITY stays the same; when the server has to  *)
(* renumber a mailbox it changes UIDVALIDITY.  Other mail clients deliver, *)
(* remove and flag messages at any time.                                   *)
(***************************************************************************)
EXTENDS Integers, FiniteSets, Functions

CONSTANTS
  Folders,      \* names of the server's mailboxes
  Messages,     \* the messages that can be delivered
  FlagStates,   \* values of the pair (unread, flagged) told apart here
  MaxUid,       \* bound: no delivery gives a UID above it
  MaxValidity,  \* bound: no renumbering raises UIDVALIDITY above it
  MaxDay        \* bound: the last day

ASSUME ServerAssumption ==
  /\ MaxUid \in Nat
  /\ MaxValidity \in Nat \ {0}
  /\ MaxDay \in Nat

VARIABLES
  mailbox,      \* mailbox[f] maps the UIDs in use in f to [msg, flag]
  uidvalidity,  \* uidvalidity[f] is the UIDVALIDITY of f
  uidnext,      \* uidnext[f] is the UID the next message of f will get
  today,        \* the current day
  date          \* date[m] is the internal date of m

serverVars == <<mailbox, uidvalidity, uidnext, today, date>>

Entry == [msg : Messages, flag : FlagStates]

ServerTypeOK ==
  /\ uidvalidity \in [Folders -> 1..MaxValidity]
  /\ uidnext \in [Folders -> Nat \ {0}]
  /\ today \in 0..MaxDay
  /\ date \in [Messages -> Nat]
  /\ DOMAIN mailbox = Folders
  /\ \A f \in Folders :
       /\ DOMAIN mailbox[f] \subseteq 1..(uidnext[f] - 1)
       /\ \A u \in DOMAIN mailbox[f] : mailbox[f][u] \in Entry

-----------------------------------------------------------------------------
(* Partial functions from UIDs. *)

NoUids == [u \in {} |-> 0]

\* new takes precedence over old where both are defined
Overlay(new, old) ==
  [u \in DOMAIN new \cup DOMAIN old |->
     IF u \in DOMAIN new THEN new[u] ELSE old[u]]

Without(fn, u) == [v \in DOMAIN fn \ {u} |-> fn[v]]

-----------------------------------------------------------------------------
Stored(m) == \E f \in Folders : \E u \in DOMAIN mailbox[f] : mailbox[f][u].msg = m

ServerInit ==
  /\ mailbox = [f \in Folders |-> NoUids]
  /\ uidvalidity = [f \in Folders |-> 1]
  /\ uidnext = [f \in Folders |-> 1]
  /\ today = 0
  /\ date = [m \in Messages |-> 0]

\* A message arrives, or is moved in by another client with an older date.
Deliver(f, m, d) ==
  /\ ~Stored(m)
  /\ uidnext[f] <= MaxUid
  /\ d \in 0..today
  /\ \E flag \in FlagStates :
       mailbox' = [mailbox EXCEPT ![f] =
                     Overlay([u \in {uidnext[f]} |-> [msg |-> m, flag |-> flag]], @)]
  /\ uidnext' = [uidnext EXCEPT ![f] = @ + 1]
  /\ date' = [date EXCEPT ![m] = d]
  /\ UNCHANGED <<uidvalidity, today>>

\* Another client deletes the message or moves it to a mailbox not modelled:
\* the date it had means nothing any more and goes back to 0.
Expunge(f, u) ==
  /\ u \in DOMAIN mailbox[f]
  /\ mailbox' = [mailbox EXCEPT ![f] = Without(@, u)]
  /\ date' = [date EXCEPT ![mailbox[f][u].msg] = 0]
  /\ UNCHANGED <<uidvalidity, uidnext, today>>

\* Another client reads, unreads, stars or unstars the message.
Reflag(f, u, flag) ==
  /\ u \in DOMAIN mailbox[f]
  /\ mailbox[f][u].flag # flag
  /\ mailbox' = [mailbox EXCEPT ![f] =
       [v \in DOMAIN @ |-> IF v = u THEN [msg |-> @[v].msg, flag |-> flag] ELSE @[v]]]
  /\ UNCHANGED <<uidvalidity, uidnext, today, date>>

\* The server renumbers the mailbox: a new UIDVALIDITY, UIDs from 1 again.
Renumber(f) ==
  /\ uidvalidity[f] < MaxValidity
  /\ LET n == Cardinality(DOMAIN mailbox[f]) IN
     \E old \in Bijection(1..n, DOMAIN mailbox[f]) :
       /\ mailbox' = [mailbox EXCEPT ![f] = [u \in 1..n |-> @[old[u]]]]
       /\ uidnext' = [uidnext EXCEPT ![f] = n + 1]
  /\ uidvalidity' = [uidvalidity EXCEPT ![f] = @ + 1]
  /\ UNCHANGED <<today, date>>

NextDay ==
  /\ today < MaxDay
  /\ today' = today + 1
  /\ UNCHANGED <<mailbox, uidvalidity, uidnext, date>>

ServerNext ==
  \/ \E f \in Folders, m \in Messages, d \in 0..today : Deliver(f, m, d)
  \/ \E f \in Folders : \E u \in DOMAIN mailbox[f] : Expunge(f, u)
  \/ \E f \in Folders : \E u \in DOMAIN mailbox[f], flag \in FlagStates : Reflag(f, u, flag)
  \/ \E f \in Folders : Renumber(f)
  \/ NextDay

=============================================================================
