------------------------------ MODULE TokenGate ------------------------------
(***************************************************************************)
(* Who is let in: the tokens of the configuration (app/config.py), the     *)
(* start of the service (app/main.py) and app/auth.py.                     *)
(*                                                                         *)
(* A configured entry is the id, the value of its environment variable and *)
(* the scopes, each of them possibly empty.  What a request presents is    *)
(* the text after "Bearer", stripped, or NoBearer.  The configuration is    *)
(* read once, when the process starts.                                     *)
(***************************************************************************)
EXTENDS Naturals

CONSTANTS
  TokenIds,  \* auth.tokens[].id, Empty for none
  Tokens,    \* values of the environment variables, Empty for an unset one
  Scopes,    \* names of scopes, "*" among them
  Empty,     \* the empty string
  NoBearer,  \* no Authorization header, or one of another form
  MaxEntries \* bound: entries of a configuration

ASSUME TokenAssumption == NoBearer \notin Tokens /\ MaxEntries \in Nat

VARIABLE configured  \* auth.tokens of the running service

ConfigEntry == [token_id : TokenIds, token : Tokens, scopes : SUBSET Scopes]

\* the entries that are kept, by their places: those without an id, a token or
\* a scope are left out
load_auth_tokens(entries) ==
  {k \in DOMAIN entries :
     entries[k].token_id # Empty /\ entries[k].token # Empty /\ entries[k].scopes # {}}

\* from_env raises without tokens, assert_read_only when sending or deleting is
\* allowed: the process ends
Starts(entries, allow_send, allow_delete) ==
  /\ load_auth_tokens(entries) # {}
  /\ ~allow_send /\ ~allow_delete

Configurations == UNION {[1..n -> ConfigEntry] : n \in 0..MaxEntries}

\* the process starts with some configuration that lets it
Start(entries) ==
  /\ entries \in Configurations
  /\ \E allow_send, allow_delete \in BOOLEAN : Starts(entries, allow_send, allow_delete)

\* it was stopped, and starts with what is configured now
Restart == \E entries \in Configurations : Start(entries) /\ configured' = entries

\* mutant of has_scope: no wildcard
has_scope_Exact(scopes, required) == required \in scopes

has_scope(scopes, required) == "*" \in scopes \/ required \in scopes

\* the entries verify compares with, and the first that is the same
Specs(entries) == {k \in load_auth_tokens(entries) : entries[k].token # Empty}

verify(entries, presented) ==
  {k \in Specs(entries) :
     /\ presented # NoBearer
     /\ entries[k].token = presented
     /\ \A j \in Specs(entries) : j < k => entries[j].token # presented}

\* the status of a request for a handler that requires a scope
require_scope(entries, presented, required) ==
  LET found == verify(entries, presented)
  IN  IF found = {} THEN 401
      ELSE IF \E k \in found : has_scope(entries[k].scopes, required) THEN 200 ELSE 403

Complete(e) == e.token_id # Empty /\ e.token # Empty /\ e.scopes # {}

\* the complete entries that have the token
Holders(token) == {k \in DOMAIN configured : Complete(configured[k]) /\ configured[k].token = token}

Grants(e, required) == {"*", required} \cap e.scopes # {}

\* In a service that starts, a request is let in only by a token that is
\* configured completely for the scope, not by the empty token of an unset
\* variable, nor by the scopes of another entry; and it is let in by one whose
\* entries, should several have the same token, all grant the scope.
LetInAsConfigured ==
  \A presented \in Tokens \cup {NoBearer}, required \in Scopes \ {"*"} :
    LET entries == {configured[k] : k \in Holders(presented)}
        letIn   == require_scope(configured, presented, required) = 200
    IN  /\ letIn => \E e \in entries : Grants(e, required)
        /\ entries # {} /\ (\A e \in entries : Grants(e, required)) => letIn

=============================================================================
