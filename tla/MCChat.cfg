\* Widgets: two tabs, two conversations, one message, one status change and one dropped connection.
\* Agents: two tabs, of which one is a viewer's, and two conversations, in six scenarios of up to two
\* messages, two openings, a lost connection or failed request, a thread left and a switched sound.
\* Composer: two conversations, in nine supplies of up to two texts, three of them with the list
\* asked for otherwise or the page left.
SPECIFICATION MCSpec
CONSTANTS
  w1 = w1  w2 = w2
  Widgets = {w1, w2}
  MaxConvs = 2
  Budgets <- MCBudgets
  Tabs <- MCTabs  UserOf <- MCUserOf  Viewers = {"bob"}  Convs = {1, 2}  Scenarios <- MCScenarios
  Chats = {1, 2}  Supplies <- MCSupplies
  Parts = {"widgets", "agents", "composer"}
SYMMETRY MCSymmetry
CHECK_DEADLOCK FALSE
INVARIANTS
  WidgetsShowConversation
  ReadMeansFetched
  AnsweredIsSilent
  SentIsWritten
  NothingElseLost
