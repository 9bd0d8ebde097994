---------------------------- MODULE MirrorReaders ----------------------------
(***************************************************************************)
(* What reads the usage mirror: the rollups with the dashboards behind     *)
(* them, and the Activity tab, under names of their own beside what fills  *)
(* the mirror.                                                             *)
(***************************************************************************)
EXTENDS Integers

CONSTANTS
  DayLength, Week, Month, Quarter, Features, Steps, TopRules, MaxWeeks, OffsetText, Weights,
  PowerPercent, RegularPercent, PersonaMin,
  Workers, History, Opening, MaxNow, MaxDays, Attempts, Budgets,  \* of the rollups
  Timeline, PageLimit, SessionGap                        \* of the tab

VARIABLES
  now, copied, copies, daily, kpis, cohorts, job, jobs, failures, settled, torn,  \* of the rollups
  arrived, kept, tab                                                              \* of the tab

Reports == INSTANCE UsageReports WITH
  Feed <- History, Start <- Opening, ingested <- copied, mirror <- copies, faults <- failures
Tab == INSTANCE ActivityTab WITH Stream <- Timeline, ingested <- arrived, mirror <- kept

\* An app's configuration is one: numbers are numbers, limits are positive, a month is not
\* shorter than a week, and the histories are sequences of events.
ASSUME ReadersAssumption == Reports!Configured /\ Tab!Configured

-----------------------------------------------------------------------------
\* The properties of UsageReports, which is well typed.
DaysAreComputed == Reports!TypeOK /\ Reports!SettledIsComputed
DaysAgree == Reports!NumbersAgree
DashboardsAgree == Reports!ReadersAgree

\* The property of ActivityTab, which is well typed.
FeedCoversHistory == Tab!TypeOK /\ Tab!FeedCoversHistory
=============================================================================
