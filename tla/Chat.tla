---------------------------------- MODULE Chat ----------------------------------
(* The chat, one part at a time: the widgets of a shop, the agents' tabs, and the        *)
(* composer of one of them.  They meet in the messages stored, which each of the modules *)
(* has of its own; a behaviour is about one of them, and the variables of the others     *)
(* rest.                                                                                 *)
EXTENDS WidgetChat

CONSTANTS
  Parts,                                     \* bound: the parts that move
  Tabs, UserOf, Viewers, Convs, Scenarios,   \* AgentInbox
  Chats, Supplies                            \* Composer

VARIABLES
  part,      \* which of the three moves
  conv, handlers, joins, tab, history, inbox, presence, left, unusual,
  selected, listed, statuses, found, status, mode, draft, last, editor, preview, file, uploads, picks, note,
  changing, connected, sent, supply, odd, lost

Agents == INSTANCE AgentInbox WITH posts <- handlers, pipe <- inbox, odd <- unusual
Writer == INSTANCE Composer

\* What the proofs suppose of the constants.
ASSUME ConstantsAssumption == Agents!Numbered /\ Writer!Stocked

-----------------------------------------------------------------------------
agents == <<conv, handlers, joins, tab, history, inbox, presence, left, unusual>>
composer == <<selected, listed, statuses, found, status, mode, draft, last, editor, preview, file, uploads,
              picks, note, changing, connected, sent, supply, odd, lost>>

allVars == <<part, vars, agents, composer>>

\* What rests begins with one of its bounds, whichever.
ChatInit ==
  /\ part \in Parts
  /\ Init /\ Agents!Init /\ Writer!Init
  /\ part # "agents" => left = CHOOSE s \in Scenarios : TRUE
  /\ part # "composer" => supply = CHOOSE s \in Supplies : TRUE

ChatNext ==
  \/ part = "widgets" /\ Next /\ UNCHANGED <<part, agents, composer>>
  \/ part = "agents" /\ Agents!Next /\ UNCHANGED <<part, vars, composer>>
  \/ part = "composer" /\ Writer!Next /\ UNCHANGED <<part, vars, agents>>

ChatSpec == ChatInit /\ [][ChatNext]_allVars

-----------------------------------------------------------------------------
\* The properties of WidgetChat, AgentInbox and Composer, of their instances; each is well
\* typed.
WidgetsShowConversation == part = "widgets" => TypeOK /\ ShowsConversation
ReadMeansFetched == part = "agents" => Agents!TypeOK /\ Agents!ReadMeansFetched
AnsweredIsSilent == part = "agents" => Agents!AnsweredIsSilent
SentIsWritten == part = "composer" => Writer!TypeOK /\ Writer!SentIsWritten
NothingElseLost == part = "composer" => Writer!NothingElseLost
=============================================================================
