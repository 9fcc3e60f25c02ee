-------------------------- MODULE ConversationLog --------------------------
(***************************************************************************)
(* What the chat backend promises about durable conversations, without     *)
(* saying how: every session has one owner for ever, and its history grows *)
(* only by whole exchanges (the question and its answer, adjacent and in   *)
(* that order), each put there at most once, on behalf of the owner.       *)
(*                                                                         *)
(* An exchange is named by the request that produced it.                   *)
(***************************************************************************)
EXTENDS Sequences

CONSTANTS
  Requests,     \* the chat requests, each the name of at most one exchange
  Users,        \* the accounts
  Sessions,     \* the conversation ids
  Nobody        \* the owner of a session that does not exist

VARIABLES
  owner,        \* the account a session belongs to
  log           \* the messages of a session, oldest first

vars == <<owner, log>>

(* One exchange as its two consecutive messages. *)
Exchange(r) == << [by |-> r, role |-> "user"], [by |-> r, role |-> "assistant"] >>

(* The requests that have a message in a sequence of messages. *)
Authors(messages) == {messages[i].by : i \in DOMAIN messages}

Init ==
  /\ owner = [s \in Sessions |-> Nobody]
  /\ log = [s \in Sessions |-> <<>>]

(* A user opens a session nobody owns yet. *)
Open(u, s) ==
  /\ owner[s] = Nobody
  /\ owner' = [owner EXCEPT ![s] = u]
  /\ UNCHANGED log

(* One new exchange is appended to an existing session. *)
Append2(r, s) ==
  /\ owner[s] # Nobody
  /\ \A t \in Sessions : r \notin Authors(log[t])
  /\ log' = [log EXCEPT ![s] = @ \o Exchange(r)]
  /\ UNCHANGED owner

Next ==
  \/ \E u \in Users, s \in Sessions : Open(u, s)
  \/ \E r \in Requests, s \in Sessions : Append2(r, s)

Spec == Init /\ [][Next]_vars
=============================================================================
