------------------------------ MODULE UsageMirror ------------------------------
(***************************************************************************)
(* What the usage-event mirror promises its readers: the app's events      *)
(* enter it in the order of their sequence numbers, each at most once,     *)
(* none passed over unless its shop has been redacted; rows leave it when  *)
(* they are past the retention window or their shop is redacted.           *)
(***************************************************************************)
EXTENDS Naturals

CONSTANT Last  \* the events of the app are 1..Last

VARIABLES
  frontier,   \* every event up to this one has had its turn
  rows,       \* the events mirrored now
  withdrawn   \* the events of redacted shops

mvars == <<frontier, rows, withdrawn>>

MInit ==
  /\ frontier = 0
  /\ rows = {}
  /\ withdrawn = {}

\* The next events enter, all of them; those withdrawn may be left out.
Extend ==
  \E n \in frontier + 1 .. Last, new \in SUBSET (frontier + 1 .. Last) :
    /\ new \subseteq frontier + 1 .. n
    /\ (frontier + 1 .. n) \ withdrawn \subseteq new
    /\ frontier' = n
    /\ rows' = rows \cup new
    /\ UNCHANGED withdrawn

Prune ==
  /\ rows' \subseteq rows
  /\ UNCHANGED <<frontier, withdrawn>>

Redact ==
  \E events \in SUBSET (1 .. Last) :
    /\ withdrawn' = withdrawn \cup events
    /\ rows' = rows \ events
    /\ UNCHANGED frontier

MNext == Extend \/ Prune \/ Redact

MSpec == MInit /\ [][MNext]_mvars
=============================================================================
