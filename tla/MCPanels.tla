------------------------------ MODULE MCPanels ------------------------------
(* Small instances of every panel: three services, two models of a cloud   *)
(* provider and one that may be added; two presets; two invitations and a  *)
(* meeting on a day of four half hours; three documents.                   *)
EXTENDS Panels

MCLocalId(name) == "local-" \o name
MCBuiltIn == [balanced |-> "t0", precise |-> "t1"]
MCAgenda == [i1 |-> [id |-> 1, week |-> 0, start |-> 0, end |-> 2, recurring |-> FALSE],
             i2 |-> [id |-> 2, week |-> 1, start |-> 1, end |-> 0, recurring |-> FALSE]]
MCOrder == <<"i1", "i2">>
MCMeetings == <<[id |-> 3, week |-> 0, start |-> 1, end |-> 3, recurring |-> FALSE]>>
MCRosters == {<<>>, <<"acme">>, <<"acme", "brix">>}
(* The two companies with what a first load brings, and a second one.      *)
MCFirst ==
  [docs |-> [acme |-> <<"f1", "f2">>, brix |-> <<>>], notes |-> [acme |-> <<"x">>, brix |-> <<>>],
   hypotheses |-> [acme |-> <<"x", "x">>, brix |-> <<>>], members |-> [acme |-> {"a1"}, brix |-> {"b1"}]]
MCContents == {MCFirst,
               [MCFirst EXCEPT !.docs.acme = <<"f2">>, !.notes.acme = <<>>,
                               !.hypotheses = [acme |-> <<"y">>, brix |-> <<"y">>],
                               !.members.acme = {"a1", "a2"}]}
MCBatches == {<<"f1">>, <<"f2", "f3">>}
=============================================================================
