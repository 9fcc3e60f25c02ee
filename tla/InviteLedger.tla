---------------------------- MODULE InviteLedger ----------------------------
(***************************************************************************)
(* What answering an invitation promises, whichever page it is done on:    *)
(* every invitation is answered at most once, and the answer stays.        *)
(***************************************************************************)
CONSTANT Invites

VARIABLE answers

Answers == {"accepted", "declined"}

LedgerInit == answers = [i \in Invites |-> "open"]

Answer(i, decision) ==
  /\ answers[i] = "open"
  /\ answers' = [answers EXCEPT ![i] = decision]

LedgerNext == \E i \in Invites, decision \in Answers : Answer(i, decision)

LedgerSpec == LedgerInit /\ [][LedgerNext]_answers
=============================================================================
