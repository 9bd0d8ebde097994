-------------------------------- MODULE MCChat --------------------------------
(* A small instance of each part of the chat.                                             *)
EXTENDS Chat, TLC

CONSTANTS w1, w2

MCSymmetry == Permutations({w1, w2})
MCBudgets == {<<1, 1, 1>>}

MCTabs == {"t1", "t2"}
MCUserOf == [t1 |-> "ann", t2 |-> "bob"]
Scenario(tabs, of, sends1, drops1, opens1, leaves1, switches) ==
  [tabs |-> tabs, convs |-> of, sends |-> sends1, drops |-> drops1, opens |-> opens1, leaves |-> leaves1,
   switches |-> switches]
MCScenarios ==
  {Scenario(MCTabs, {1}, 2, 0, 1, 0, 0), Scenario(MCTabs, {1}, 1, 1, 1, 0, 0), Scenario(MCTabs, {1}, 1, 0, 2, 0, 0),
   Scenario({"t1"}, {1}, 1, 0, 2, 1, 0), Scenario({"t1"}, {1, 2}, 1, 0, 2, 0, 0), Scenario({"t1"}, {1, 2}, 2, 0, 1, 0, 1)}

Supply(texts, files, canned, selects, answers, previews, drops1, lists) ==
  [texts |-> texts, files |-> files, picks |-> canned, selects |-> selects, answers |-> answers,
   previews |-> previews, drops |-> drops1, lists |-> lists]
MCSupplies ==
  {Supply(1, 0, 0, 1, 1, 2, 0, 0), Supply(1, 1, 0, 1, 1, 1, 0, 0), Supply(1, 0, 1, 1, 1, 0, 0, 0),
   Supply(2, 0, 1, 1, 0, 0, 0, 0), Supply(2, 0, 0, 1, 0, 1, 1, 0), Supply(0, 1, 1, 2, 0, 0, 0, 0),
   Supply(1, 0, 1, 1, 0, 0, 0, 1), Supply(1, 0, 0, 1, 0, 0, 0, 2), Supply(0, 1, 0, 1, 1, 0, 0, 1)}

\* Bound: the conversations are alike, so the first of them to have a message, and the first to be
\* selected, is 1.
FirstIsOne ==
  /\ (\E p \in handlers' : p.conv = 2) => conv[1].posted > 0 \/ \E p \in handlers : p.conv = 1
  /\ supply \in Supplies => selected' \in {selected, 1}
MCSpec == ChatInit /\ [][ChatNext /\ FirstIsOne]_allVars
=============================================================================
