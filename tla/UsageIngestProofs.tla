--------------------------- MODULE UsageIngestProofs ---------------------------
(***************************************************************************)
(* What is true of the mirror for every number of events, shops, drains,   *)
(* pages and faults, and every page size; of the Activity tab that reads   *)
(* it by pages; and of the rollups, and the dashboards that read these.    *)
(***************************************************************************)
EXTENDS UsageIngest, MirrorReaders, FiniteSetTheorems, SequenceTheorems, WellFoundedInduction, TLAPS

\* The page a drain has fetched starts where the drain is, leaves out redacted events only.
PageWhole(d) ==
  drain[d].pc = "fetched" =>
    /\ drain[d].at < drain[d].page.next
    /\ drain[d].page.events \subseteq drain[d].at + 1 .. drain[d].page.next
    /\ \A e \in drain[d].at + 1 .. drain[d].page.next : e \in drain[d].page.events \cup redacted

\* Nothing a drain has behind it was passed over.
Behind(d) == drain[d].pc # "idle" => \A e \in 1 .. drain[d].at : Accounted(e)

PagesWhole == \A d \in Drains : PageWhole(d)

IInv == TypeOK /\ PagesWhole /\ NothingSkipped /\ (\A d \in Drains : Behind(d))

\* With one drain at a time: a drain in progress is where the cursor is.
InStep == \A d \in Drains : drain[d].pc # "idle" => drain[d].at = cursor

-----------------------------------------------------------------------------
\* What a page is: the feed up to its last event, which lies beyond the position asked for.
LEMMA PagesAre ==
  ASSUME TypeOK, NEW at \in 0 .. Last, NEW p \in Pages(at)
  PROVE  /\ p \in PageRecord
         /\ at < p.next
         /\ p.events \subseteq at + 1 .. p.next
         /\ \A e \in at + 1 .. p.next : e \in p.events \cup redacted
<1>1. PICK n \in Feed(at) :
        p = [events |-> {e \in Feed(at) : e <= n}, next |-> n,
             more |-> {e \in Feed(at) : e <= n} # Feed(at)]
  BY DEF Pages
<1>2. emitted \in 0 .. Last /\ Last \in Nat
  BY ConstantsAssumption DEF TypeOK
<1>3. Feed(at) \subseteq at + 1 .. emitted /\ n \in at + 1 .. emitted
  BY DEF Feed
<1>4. at + 1 .. emitted \subseteq Events
  BY <1>2 DEF Events
<1>5. p \in PageRecord
  BY <1>1, <1>3, <1>4 DEF PageRecord
<1>6. at < p.next /\ p.events \subseteq at + 1 .. p.next
  BY <1>1, <1>2, <1>3
<1>7. ASSUME NEW e \in at + 1 .. p.next PROVE e \in p.events \cup redacted
  <2>1. e \in at + 1 .. emitted /\ e <= n
    BY <1>1, <1>2, <1>3
  <2>2. QED
    BY <1>1, <2>1 DEF Feed
<1>8. QED
  BY <1>5, <1>6, <1>7

\* The types of a drain in progress, one case at a time.
LEMMA DrainTypes ==
  ASSUME TypeOK, NEW d \in Drains
  PROVE  /\ drain[d].pc \in {"idle", "fetch", "fetched"}
         /\ drain[d].pc # "idle" => drain[d].at \in 0 .. Last /\ drain[d].pages \in 0 .. MaxPages - 1
         /\ drain[d].pc = "fetched" => drain[d].page \in PageRecord
<1>1. drain[d] \in [pc : {"idle"}]
                 \cup [pc : {"fetch"}, at : 0 .. Last, pages : 0 .. MaxPages - 1]
                 \cup [pc : {"fetched"}, at : 0 .. Last, pages : 0 .. MaxPages - 1,
                       page : PageRecord]
  BY DEF TypeOK
<1>2. QED
  BY <1>1

\* A drain that goes on has a page left.
LEMMA AdvancedType ==
  ASSUME TypeOK, NEW d \in Drains, drain[d].pc = "fetched"
  PROVE  Advanced(d) \in [pc : {"idle"}]
                    \cup [pc : {"fetch"}, at : 0 .. Last, pages : 0 .. MaxPages - 1]
<1>1. /\ drain[d].pages \in 0 .. MaxPages - 1
      /\ drain[d].page.next \in 0 .. Last
  BY DrainTypes DEF PageRecord, Events
<1>2. MaxPages \in Nat
  BY ConstantsAssumption
<1>3. CASE GoesOn(d)
  BY <1>1, <1>2, <1>3 DEF Advanced, GoesOn
<1>4. CASE ~GoesOn(d)
  BY <1>4 DEF Advanced, Idle
<1>5. QED
  BY <1>3, <1>4

\* Types are preserved by every step.
LEMMA TypeStep == TypeOK /\ [Next]_vars => TypeOK'
<1> SUFFICES ASSUME TypeOK, [Next]_vars PROVE TypeOK'
  OBVIOUS
<1> USE ConstantsAssumption
<1>1. CASE Emit
  BY <1>1 DEF Emit, TypeOK, PageRecord, Events
<1>2. ASSUME NEW d \in Drains, Start(d) PROVE TypeOK'
  <2>1. [pc |-> "fetch", at |-> cursor, pages |-> 0]
          \in [pc : {"fetch"}, at : 0 .. Last, pages : 0 .. MaxPages - 1]
    BY DEF TypeOK
  <2>2. QED
    BY <1>2, <2>1 DEF Start, TypeOK, PageRecord
<1>3. ASSUME NEW d \in Drains, Fetch(d) PROVE TypeOK'
  <2>1. CASE drain' = [drain EXCEPT ![d] = Idle]
    BY <1>3, <2>1 DEF Fetch, Idle, TypeOK, PageRecord
  <2>2. CASE \E p \in Pages(drain[d].at) :
               drain' = [drain EXCEPT ![d] = [pc |-> "fetched", at |-> @.at, pages |-> @.pages, page |-> p]]
    <3>1. PICK p \in Pages(drain[d].at) :
            drain' = [drain EXCEPT ![d] = [pc |-> "fetched", at |-> drain[d].at,
                                          pages |-> drain[d].pages, page |-> p]]
      BY <2>2
    <3>2. drain[d].at \in 0 .. Last /\ drain[d].pages \in 0 .. MaxPages - 1
      BY <1>3, DrainTypes DEF Fetch
    <3>3. p \in PageRecord
      BY <3>2, PagesAre
    <3>4. QED
      BY <1>3, <3>1, <3>2, <3>3 DEF Fetch, TypeOK
  <2>3. QED
    BY <1>3, <2>1, <2>2 DEF Fetch
<1>4. ASSUME NEW d \in Drains, Commit(d) PROVE TypeOK'
  <2>1. drain[d].page.next \in 0 .. Last /\ drain[d].page.events \subseteq Events
    BY <1>4, DrainTypes DEF Commit, PageRecord, Events
  <2>2. QED
    BY <1>4, <2>1, AdvancedType DEF Commit, TypeOK
<1>5. ASSUME NEW d \in Drains, DrainEnds(d) PROVE TypeOK'
  BY <1>5 DEF DrainEnds, Idle, TypeOK
<1>6. CASE Prune
  <2>1. PICK c \in cutoff .. emitted :
          cutoff' = c /\ pruned' = pruned \cup (mirror \cap 1 .. c) /\ mirror' = mirror \ (1 .. c)
    BY <1>6 DEF Prune
  <2>2. c \in 0 .. Last
    BY DEF TypeOK
  <2>3. pruned' \subseteq Events /\ mirror' \subseteq Events
    BY <2>1 DEF TypeOK
  <2>4. QED
    BY <1>6, <2>1, <2>2, <2>3 DEF Prune, TypeOK
<1>7. ASSUME NEW s \in Shops, PurgeForRedactedShop(s) PROVE TypeOK'
  <2>1. 1 .. emitted \subseteq Events
    BY DEF TypeOK, Events
  <2>2. redacted' \subseteq Events /\ mirror' \subseteq Events
    BY <1>7, <2>1 DEF PurgeForRedactedShop, TypeOK
  <2>3. QED
    BY <1>7, <2>2 DEF PurgeForRedactedShop, TypeOK
<1>8. CASE UNCHANGED vars
  BY <1>8 DEF vars, TypeOK
<1>9. QED
  BY <1>1, <1>2, <1>3, <1>4, <1>5, <1>6, <1>7, <1>8 DEF Next

LEMMA TypeInit == Init => TypeOK
BY ConstantsAssumption DEF Init, Idle, TypeOK

\* TypeOK: the types of the mirror, the cursor and the drains, page bounds included.
THEOREM TypeCorrect == Spec => []TypeOK
BY TypeInit, TypeStep, PTL DEF Spec

-----------------------------------------------------------------------------
\* An event that is accounted for stays so: rows only leave for pruned or redacted.
LEMMA AccountedStays ==
  ASSUME [Next]_vars, NEW e, Accounted(e)
  PROVE  Accounted(e)'
<1> USE DEF Accounted
<1>1. CASE Emit
  BY <1>1 DEF Emit
<1>2. ASSUME NEW d \in Drains, Start(d) \/ Fetch(d) \/ Commit(d) \/ DrainEnds(d)
      PROVE  Accounted(e)'
  BY <1>2 DEF Start, Fetch, Commit, DrainEnds
<1>3. CASE Prune
  BY <1>3 DEF Prune
<1>4. ASSUME NEW s \in Shops, PurgeForRedactedShop(s) PROVE Accounted(e)'
  BY <1>4 DEF PurgeForRedactedShop
<1>5. CASE UNCHANGED vars
  BY <1>5 DEF vars
<1>6. QED
  BY <1>1, <1>2, <1>3, <1>4, <1>5 DEF Next

\* A step leaves a drain as it is, or is one of its own four.
LEMMA OneDrainMoves ==
  ASSUME [Next]_vars, NEW d \in Drains, TypeOK
  PROVE  drain'[d] = drain[d] \/ Start(d) \/ Fetch(d) \/ Commit(d) \/ DrainEnds(d)
<1>1. ASSUME NEW c \in Drains, Start(c) \/ Fetch(c) \/ Commit(c) \/ DrainEnds(c), c # d
      PROVE  drain'[d] = drain[d]
  BY <1>1 DEF Start, Fetch, Commit, DrainEnds, TypeOK
<1>2. CASE Emit \/ Prune \/ (\E s \in Shops : PurgeForRedactedShop(s)) \/ UNCHANGED vars
  BY <1>2 DEF Emit, Prune, PurgeForRedactedShop, vars
<1>3. QED
  BY <1>1, <1>2 DEF Next

\* Redacted events stay redacted.
LEMMA RedactedGrows ==
  ASSUME [Next]_vars
  PROVE  redacted \subseteq redacted'
BY DEF Next, Emit, Start, Fetch, Commit, DrainEnds, Prune, PurgeForRedactedShop, vars

\* The page of a drain stays whole while it waits to be committed, whatever is redacted.
LEMMA PagesStep == TypeOK /\ PagesWhole /\ [Next]_vars => PagesWhole'
<1> SUFFICES ASSUME TypeOK, PagesWhole, [Next]_vars, NEW d \in Drains PROVE PageWhole(d)'
  BY DEF PagesWhole
<1>0. PageWhole(d)
  BY DEF PagesWhole
<1>1. CASE drain'[d] = drain[d]
  BY <1>0, <1>1, RedactedGrows DEF PageWhole
<1>2. CASE Start(d)
  BY <1>2 DEF Start, PageWhole, TypeOK
<1>3. CASE Fetch(d)
  <2>1. CASE drain' = [drain EXCEPT ![d] = Idle]
    BY <2>1 DEF PageWhole, Idle, TypeOK
  <2>2. ASSUME NEW p \in Pages(drain[d].at),
               drain' = [drain EXCEPT ![d] = [pc |-> "fetched", at |-> drain[d].at,
                                             pages |-> drain[d].pages, page |-> p]]
        PROVE  PageWhole(d)'
    <3>1. drain[d].at \in 0 .. Last
      BY <1>3, DrainTypes DEF Fetch
    <3>2. drain'[d].at = drain[d].at /\ drain'[d].page = p
      BY <2>2 DEF TypeOK
    <3>3. redacted' = redacted
      BY <1>3 DEF Fetch
    <3>4. QED
      BY <3>1, <3>2, <3>3, PagesAre DEF PageWhole
  <2>3. QED
    BY <1>3, <2>1, <2>2 DEF Fetch
<1>4. CASE Commit(d)
  BY <1>4, AdvancedType DEF Commit, PageWhole, TypeOK
<1>5. CASE DrainEnds(d)
  BY <1>5 DEF DrainEnds, Idle, PageWhole, TypeOK
<1>6. QED
  BY <1>1, <1>2, <1>3, <1>4, <1>5, OneDrainMoves

\* What a commit puts behind the drain, and behind the cursor: the events that were there
\* already and those of the page.
LEMMA CommitAccounts ==
  ASSUME TypeOK, [Next]_vars, NEW d \in Drains, Commit(d), PageWhole(d), Behind(d)
  PROVE  \A e \in 1 .. drain[d].page.next : Accounted(e)'
<1> SUFFICES ASSUME NEW e \in 1 .. drain[d].page.next PROVE Accounted(e)'
  OBVIOUS
<1>1. drain[d].pc = "fetched" /\ drain[d].at \in Nat /\ drain[d].page.next \in Nat
  BY DrainTypes, ConstantsAssumption DEF Commit, PageRecord, Events
<1>2. CASE e \in 1 .. drain[d].at
  BY <1>1, <1>2, AccountedStays DEF Behind
<1>3. CASE e \in drain[d].at + 1 .. drain[d].page.next
  <2>1. e \in drain[d].page.events \cup redacted
    BY <1>1, <1>3 DEF PageWhole
  <2>2. QED
    BY <2>1 DEF Commit, Accounted
<1>4. QED
  BY <1>1, <1>2, <1>3

\* Nothing is passed over by the cursor nor by any drain.
LEMMA SkipStep == IInv /\ [Next]_vars => NothingSkipped' /\ (\A d \in Drains : Behind(d)')
<1> SUFFICES ASSUME IInv, [Next]_vars
             PROVE  NothingSkipped' /\ (\A d \in Drains : Behind(d)')
  OBVIOUS
<1> USE DEF IInv
<1>1. NothingSkipped'
  <2>1. CASE cursor' = cursor
    BY <2>1, AccountedStays DEF NothingSkipped
  <2>2. ASSUME NEW d \in Drains, Commit(d) PROVE NothingSkipped'
    <3>1. cursor' = drain[d].page.next
      BY <2>2 DEF Commit
    <3>2. QED
      BY <2>2, <3>1, CommitAccounts DEF PagesWhole, NothingSkipped
  <2>3. QED
    BY <2>1, <2>2
    DEF Next, Emit, Start, Fetch, DrainEnds, Prune, PurgeForRedactedShop, vars
<1>2. ASSUME NEW d \in Drains PROVE Behind(d)'
  <2>1. CASE drain'[d] = drain[d]
    BY <2>1, AccountedStays DEF Behind
  <2>2. CASE Start(d)
    <3>1. drain'[d].at = cursor
      BY <2>2 DEF Start, TypeOK
    <3>2. QED
      BY <3>1, AccountedStays DEF NothingSkipped, Behind
  <2>3. CASE Fetch(d)
    <3>1. drain'[d].pc # "idle" => drain'[d].at = drain[d].at /\ drain[d].pc # "idle"
      BY <2>3 DEF Fetch, Idle, TypeOK
    <3>2. QED
      BY <3>1, AccountedStays DEF Behind
  <2>4. CASE Commit(d)
    <3>1. drain'[d].pc # "idle" => drain'[d].at = drain[d].page.next
      BY <2>4 DEF Commit, Advanced, Idle, TypeOK
    <3>2. QED
      BY <2>4, <3>1, CommitAccounts DEF PagesWhole, Behind
  <2>5. CASE DrainEnds(d)
    BY <2>5 DEF DrainEnds, Idle, Behind, TypeOK
  <2>6. QED
    BY <2>1, <2>2, <2>3, <2>4, <2>5, OneDrainMoves
<1>3. QED
  BY <1>1, <1>2

\* NothingSkipped: however many drains overlap, fail or move the cursor back, no event up
\* to the cursor is missing, except those pruned or of redacted shops.
THEOREM NothingSkippedHolds == Spec => []NothingSkipped
<1>1. Init => IInv
  <2>1. ASSUME Init PROVE PagesWhole /\ NothingSkipped /\ (\A d \in Drains : Behind(d))
    BY <2>1 DEF Init, Idle, PagesWhole, PageWhole, NothingSkipped, Behind
  <2>2. QED
    BY <2>1, TypeInit DEF IInv
<1>2. IInv /\ [Next]_vars => IInv'
  <2> SUFFICES ASSUME IInv, [Next]_vars PROVE IInv'
    OBVIOUS
  <2>1. TypeOK'
    BY TypeStep DEF IInv
  <2>2. PagesWhole'
    BY PagesStep DEF IInv
  <2>3. QED
    BY <2>1, <2>2, SkipStep DEF IInv
<1>3. IInv => NothingSkipped
  BY DEF IInv
<1>4. QED
  BY <1>1, <1>2, <1>3, PTL DEF Spec

-----------------------------------------------------------------------------
\* With one drain at a time, a drain in progress stays where the cursor is.
LEMMA InStepStep ==
  ASSUME \A c, d \in Drains : c = d
  PROVE  TypeOK /\ InStep /\ [Next]_vars => InStep'
<1> SUFFICES ASSUME TypeOK, InStep, [Next]_vars, NEW d \in Drains, drain'[d].pc # "idle"
             PROVE  drain'[d].at = cursor'
  BY DEF InStep
<1>1. CASE Start(d)
  BY <1>1 DEF Start, TypeOK
<1>2. CASE Fetch(d)
  BY <1>2 DEF Fetch, Idle, TypeOK, InStep
<1>3. CASE Commit(d)
  BY <1>3 DEF Commit, Advanced, Idle, TypeOK
<1>4. CASE DrainEnds(d)
  BY <1>4 DEF DrainEnds, Idle, TypeOK
<1>5. CASE Emit \/ Prune \/ (\E s \in Shops : PurgeForRedactedShop(s)) \/ UNCHANGED vars
  BY <1>5 DEF Emit, Prune, PurgeForRedactedShop, vars, InStep
<1>6. QED
  BY <1>1, <1>2, <1>3, <1>4, <1>5 DEF Next

\* Every step is one of the mirror's, or leaves it alone.
LEMMA StepRefines ==
  ASSUME TypeOK, PagesWhole, InStep, [Next]_vars
  PROVE  [Mirror!MNext]_(Mirror!mvars)
<1>1. ASSUME NEW d \in Drains, Commit(d) PROVE Mirror!Extend
  <2> DEFINE n == drain[d].page.next
             new == drain[d].page.events
  <2>1. drain[d].pc = "fetched" /\ drain[d].at = cursor
    BY <1>1 DEF Commit, InStep
  <2>2. /\ cursor < n
        /\ new \subseteq cursor + 1 .. n
        /\ \A e \in cursor + 1 .. n : e \in new \cup redacted
    BY <2>1 DEF PagesWhole, PageWhole
  <2>3. n \in 1 .. Last /\ cursor \in 0 .. Last /\ Last \in Nat
    BY <2>1, DrainTypes, ConstantsAssumption DEF PageRecord, Events, TypeOK
  <2>4. n \in cursor + 1 .. Last /\ new \in SUBSET (cursor + 1 .. Last)
    BY <2>2, <2>3
  <2>5. (cursor + 1 .. n) \ redacted \subseteq new
    BY <2>2
  <2>6. cursor' = n /\ mirror' = mirror \cup new /\ redacted' = redacted
    BY <1>1 DEF Commit
  <2>7. QED
    BY <2>2, <2>4, <2>5, <2>6 DEF Mirror!Extend
<1>2. CASE Prune
  BY <1>2 DEF Prune, Mirror!Prune, Mirror!MNext
<1>3. ASSUME NEW s \in Shops, PurgeForRedactedShop(s) PROVE Mirror!Redact
  <2>1. {e \in 1 .. emitted : ShopOf[e] = s} \in SUBSET (1 .. Last)
    BY ConstantsAssumption DEF TypeOK
  <2>2. QED
    BY <1>3, <2>1 DEF PurgeForRedactedShop, Mirror!Redact
<1>4. CASE Emit \/ UNCHANGED vars
  BY <1>4 DEF Emit, vars, Mirror!mvars
<1>5. ASSUME NEW d \in Drains, Start(d) \/ Fetch(d) \/ DrainEnds(d) PROVE UNCHANGED Mirror!mvars
  BY <1>5 DEF Start, Fetch, DrainEnds, Mirror!mvars
<1>6. QED
  BY <1>1, <1>2, <1>3, <1>4, <1>5 DEF Next, Mirror!MNext

\* ExactlyOnce: if no two drains are ever in progress together, each event enters the mirror
\* once, in order, whatever fails and whatever is pruned or redacted meanwhile.
THEOREM ExactlyOnceHolds ==
  ASSUME \A c, d \in Drains : c = d
  PROVE  Spec => ExactlyOnce
<1> DEFINE Inv == TypeOK /\ PagesWhole /\ InStep
<1>1. Init => Inv /\ Mirror!MInit
  <2> SUFFICES ASSUME Init PROVE PagesWhole /\ InStep /\ Mirror!MInit
    BY TypeInit
  <2>1. QED
    BY DEF Init, Idle, PagesWhole, PageWhole, InStep, Mirror!MInit
<1>2. Inv /\ [Next]_vars => Inv'
  BY TypeStep, PagesStep, InStepStep
<1>3. Inv /\ [Next]_vars => [Mirror!MNext]_(Mirror!mvars)
  BY StepRefines
<1>4. QED
  BY <1>1, <1>2, <1>3, PTL DEF Spec, ExactlyOnce, Mirror!MSpec

-----------------------------------------------------------------------------
(* The Activity tab: a shop's events by pages, whatever happens to the     *)
(* mirror between them.                                                    *)

\* Two definitions of a cardinality are one.
LEMMA TabCounts == \A S : Tab!Cardinality(S) = Cardinality(S)
BY DEF Tab!Cardinality, Cardinality

\* A set of natural numbers has a least one.
LEMMA LeastOf == ASSUME NEW T, T \subseteq Nat, T # {} PROVE \E m \in T : \A k \in T : m <= k
<1>1. PICK m \in T : \A k \in T : <<k, m>> \notin OpToRel(<, Nat)
  BY NatLessThanWellFounded, WFMin
<1>2. \A k \in T : ~(k < m)
  BY <1>1 DEF OpToRel
<1>3. QED
  BY <1>2

\* How many of a finite set of numbers are as large gives each its number.
LEMMA RankNumbers ==
  ASSUME NEW M, NEW n \in Nat, M \subseteq 1 .. n
  PROVE  /\ IsFiniteSet(M) /\ Cardinality(M) \in Nat
         /\ \A i \in M : Tab!Rank(M, i) \in 1 .. Cardinality(M)
         /\ \A i, j \in M : i < j => Tab!Rank(M, j) < Tab!Rank(M, i)
         /\ \A m \in 1 .. Cardinality(M) : \E i \in M : Tab!Rank(M, i) = m
<1>1. IsFiniteSet(M) /\ Cardinality(M) \in Nat
  <2>1. IsFiniteSet(1 .. n) /\ M \in SUBSET (1 .. n)
    BY FS_Interval
  <2>2. IsFiniteSet(M)
    BY <2>1, FS_Subset
  <2>3. QED
    BY <2>2, FS_CardinalityType
<1>2. \A i \in M : i \in Nat
  OBVIOUS
<1>3. PICK U : U = [i \in M |-> {j \in M : j >= i}]
  OBVIOUS
<1>4. \A i \in M : U[i] \in SUBSET M /\ i \in U[i] /\ \A j \in M : j \in U[i] <=> j >= i
  BY <1>2, <1>3
<1>5. \A i \in M : IsFiniteSet(U[i]) /\ Cardinality(U[i]) \in Nat /\ Cardinality(U[i]) <= Cardinality(M)
  BY <1>1, <1>4, FS_Subset, FS_CardinalityType
<1>6. \A i \in M : Cardinality(U[i]) \in 1 .. Cardinality(M)
  <2>1. \A i \in M : Cardinality(U[i]) # 0
    BY <1>4, <1>5, FS_EmptySet
  <2>2. QED
    BY <1>1, <1>5, <2>1
<1>7. ASSUME NEW i \in M, NEW j \in M, i < j PROVE Cardinality(U[j]) < Cardinality(U[i])
  <2>1. U[j] \in SUBSET U[i] /\ U[j] # U[i]
    <3>1. i \in U[i] /\ i \notin U[j]
      BY <1>2, <1>4, <1>7
    <3>2. \A k \in M : k \in U[j] => k \in U[i]
      BY <1>2, <1>4, <1>7
    <3>3. QED
      BY <1>4, <3>1, <3>2
  <2>2. Cardinality(U[j]) <= Cardinality(U[i]) /\ Cardinality(U[j]) # Cardinality(U[i])
    BY <1>5, <2>1, FS_Subset
  <2>3. PICK a \in Nat, b \in Nat : a = Cardinality(U[j]) /\ b = Cardinality(U[i])
    BY <1>5
  <2>4. a <= b /\ a # b
    BY <2>2, <2>3
  <2>5. QED
    BY <2>3, <2>4
<1>8. PICK f : f = [i \in M |-> Cardinality(U[i])]
  OBVIOUS
<1>9. f \in Injection(M, 1 .. Cardinality(M))
  <2>1. f \in [M -> 1 .. Cardinality(M)]
    BY <1>6, <1>8
  <2>2. \A i, j \in M : i # j => f[i] # f[j]
    BY <1>2, <1>5, <1>7, <1>8
  <2>3. QED
    BY <2>1, <2>2 DEF Injection, IsInjective
<1>10. IsFiniteSet(1 .. Cardinality(M)) /\ Cardinality(1 .. Cardinality(M)) = Cardinality(M)
  BY <1>1, FS_Interval
<1>11. f \in Surjection(M, 1 .. Cardinality(M))
  BY <1>1, <1>9, <1>10, FS_Injection
<1>12. \A m \in 1 .. Cardinality(M) : \E i \in M : Cardinality(U[i]) = m
  BY <1>8, <1>11 DEF Surjection
<1>13. \A i \in M : Tab!Rank(M, i) = Cardinality(U[i])
  BY <1>3, TabCounts DEF Tab!Rank
<1>14. QED
  BY <1>1, <1>6, <1>7, <1>12, <1>13

\* A set newest first is a sequence of its elements, each once, that descends.
LEMMA NewestFirstDescends ==
  ASSUME NEW M, NEW n \in Nat, M \subseteq 1 .. n
  PROVE  /\ Tab!NewestFirst(M) \in Seq(M)
         /\ \A k, m \in DOMAIN Tab!NewestFirst(M) : k < m => Tab!NewestFirst(M)[k] > Tab!NewestFirst(M)[m]
         /\ \A i \in M : \E k \in DOMAIN Tab!NewestFirst(M) : Tab!NewestFirst(M)[k] = i
<1>1. /\ Cardinality(M) \in Nat
      /\ \A i \in M : Tab!Rank(M, i) \in 1 .. Cardinality(M)
      /\ \A i, j \in M : i < j => Tab!Rank(M, j) < Tab!Rank(M, i)
      /\ \A m \in 1 .. Cardinality(M) : \E i \in M : Tab!Rank(M, i) = m
  BY RankNumbers
<1>2. PICK R : R = [i \in M |-> Tab!Rank(M, i)]
  OBVIOUS
<1>3. /\ \A i \in M : R[i] \in 1 .. Cardinality(M)
      /\ \A i, j \in M : i < j => R[j] < R[i]
      /\ \A m \in 1 .. Cardinality(M) : \E i \in M : R[i] = m
  BY <1>1, <1>2
<1>4. PICK s : s = [k \in 1 .. Cardinality(M) |-> CHOOSE i \in M : R[i] = k]
  OBVIOUS
<1>5. Tab!NewestFirst(M) = s
  <2>1. \A k : (CHOOSE i \in M : Tab!Rank(M, i) = k) = (CHOOSE i \in M : R[i] = k)
    BY <1>2
  <2>2. Tab!NewestFirst(M) = [k \in 1 .. Tab!Cardinality(M) |-> CHOOSE i \in M : Tab!Rank(M, i) = k]
    BY DEF Tab!NewestFirst
  <2>3. Tab!Cardinality(M) = Cardinality(M)
    BY TabCounts
  <2>4. QED
    BY <1>4, <2>1, <2>2, <2>3
<1>6. \A k \in 1 .. Cardinality(M) : s[k] \in M /\ R[s[k]] = k
  BY <1>3, <1>4
<1>7. s \in Seq(M) /\ DOMAIN s = 1 .. Cardinality(M)
  <2>1. s \in [1 .. Cardinality(M) -> M]
    BY <1>4, <1>6
  <2>2. QED
    BY <1>1, <1>4, <2>1
<1>8. \A i \in M : i \in Nat
  OBVIOUS
<1>9. ASSUME NEW k \in 1 .. Cardinality(M), NEW m \in 1 .. Cardinality(M), k < m PROVE s[k] > s[m]
  <2>1. PICK x \in M, y \in M : x = s[k] /\ y = s[m] /\ R[x] = k /\ R[y] = m
    BY <1>6
  <2>2. (x < y => R[y] < R[x]) /\ x \in Nat /\ y \in Nat /\ k \in Int /\ m \in Int
    BY <1>3, <1>8
  <2>3. x # y
    BY <1>9, <2>1, <2>2
  <2>4. x > y
    BY <1>9, <2>1, <2>2, <2>3
  <2>5. QED
    BY <2>1, <2>4
<1>10. ASSUME NEW i \in M PROVE \E k \in 1 .. Cardinality(M) : s[k] = i
  <2>1. PICK k \in 1 .. Cardinality(M) : k = R[i] /\ R[s[k]] = k /\ s[k] \in M
    BY <1>3, <1>6
  <2>2. PICK x \in M : x = s[k] /\ R[x] = k
    BY <2>1
  <2>3. (i < x => R[x] < R[i]) /\ (x < i => R[i] < R[x]) /\ R[x] = R[i] /\ R[x] \in Int
    BY <1>3, <2>1, <2>2
  <2>4. x \in Nat /\ i \in Nat
    BY <1>8
  <2>5. x = i
    BY <2>3, <2>4
  <2>6. QED
    BY <2>2, <2>5
<1>11. QED
  BY <1>5, <1>7, <1>9, <1>10

\* The newest of a set, up to a limit: all, or those from its least on.
LEMMA NewestAreAbove ==
  ASSUME NEW M, NEW n \in Nat, M \subseteq 1 .. n, NEW limit \in Nat \ {0}, NEW P,
         \A i : i \in P <=> i \in M /\ Tab!Rank(M, i) <= limit
  PROVE  /\ ~(Cardinality(M) > limit) => P = M
         /\ Cardinality(M) > limit =>
              \E m \in P : (\A j \in P : m <= j) /\ \A i \in M : i >= m => i \in P
<1>1. /\ Cardinality(M) \in Nat
      /\ \A i \in M : Tab!Rank(M, i) \in 1 .. Cardinality(M)
      /\ \A i, j \in M : i < j => Tab!Rank(M, j) < Tab!Rank(M, i)
      /\ \A m \in 1 .. Cardinality(M) : \E i \in M : Tab!Rank(M, i) = m
  BY RankNumbers
<1>2. PICK R : R = [i \in M |-> Tab!Rank(M, i)]
  OBVIOUS
<1>3. /\ \A i \in M : R[i] \in 1 .. Cardinality(M)
      /\ \A i, j \in M : i < j => R[j] < R[i]
      /\ \A m \in 1 .. Cardinality(M) : \E i \in M : R[i] = m
      /\ \A i : i \in P <=> i \in M /\ R[i] <= limit
  BY <1>1, <1>2
<1>4. ASSUME ~(Cardinality(M) > limit) PROVE P = M
  <2>1. \A i \in M : R[i] <= limit
    BY <1>1, <1>3, <1>4
  <2>2. QED
    BY <1>3, <2>1
<1>5. ASSUME Cardinality(M) > limit
      PROVE  \E m \in P : (\A j \in P : m <= j) /\ \A i \in M : i >= m => i \in P
  <2>1. limit \in 1 .. Cardinality(M)
    BY <1>1, <1>5
  <2>2. PICK m \in M : R[m] = limit
    BY <1>3, <2>1
  <2>3. \A i \in M : i \in Nat /\ R[i] \in Int
    BY <1>3
  <2>4. m \in P
    BY <1>3, <2>2
  <2>5. \A j \in P : m <= j
    <3>1. TAKE j \in P
    <3>2. j \in M /\ j \in Nat /\ m \in Nat /\ R[j] \in Int /\ R[j] <= limit /\ (j < m => R[m] < R[j])
      BY <1>3, <2>2, <2>3
    <3>3. QED
      BY <2>2, <3>2
  <2>6. \A i \in M : i >= m => i \in P
    BY <1>3, <2>2, <2>3
  <2>7. QED
    BY <2>4, <2>5, <2>6
<1>6. QED
  BY <1>4, <1>5

-----------------------------------------------------------------------------
(* The sessions on the screen.                                             *)

\* Each place is in one part.
LEMMA PartsCover ==
  ASSUME NEW from \in Int, NEW to \in Int, NEW cuts
  PROVE  /\ \A p \in Tab!Parts(from, to, cuts) : p[1] \in from .. to /\ p[2] \in from .. to /\ p[1] <= p[2] /\ p = <<p[1], p[2]>>
         /\ \A k \in from .. to : \E p \in Tab!Parts(from, to, cuts) : p[1] <= k /\ k <= p[2]
         /\ \A p, q \in Tab!Parts(from, to, cuts) : \A k \in Int :
              p[1] <= k /\ k <= p[2] /\ q[1] <= k /\ k <= q[2] => p = q
<1>1. \A p \in Tab!Parts(from, to, cuts) :
        /\ p[1] \in from .. to /\ p[2] \in from .. to /\ p = <<p[1], p[2]>>
        /\ p[1] = from \/ p[1] \in cuts
        /\ p[2] = to \/ p[2] + 1 \in cuts
        /\ p[1] <= p[2] /\ \A k \in p[1] + 1 .. p[2] : k \notin cuts
  BY DEF Tab!Parts
<1>2. ASSUME NEW k \in from .. to PROVE \E p \in Tab!Parts(from, to, cuts) : p[1] <= k /\ k <= p[2]
  <2>1. PICK a \in from .. k : (a = from \/ a \in cuts) /\ \A j \in a + 1 .. k : j \notin cuts
    <3>1. PICK T : T = {m \in 0 .. k - from : k - m = from \/ k - m \in cuts}
      OBVIOUS
    <3>2. T \subseteq Nat /\ k - from \in T
      BY <3>1
    <3>3. PICK m \in T : \A x \in T : m <= x
      BY <3>2, LeastOf
    <3>4. k - m \in from .. k /\ (k - m = from \/ k - m \in cuts)
      BY <3>1
    <3>5. ASSUME NEW j \in k - m + 1 .. k, j \in cuts PROVE FALSE
      <4>1. k - j \in 0 .. k - from /\ k - (k - j) = j /\ m \in Int
        BY <3>1, <3>5
      <4>2. k - j \in T
        BY <3>1, <3>5, <4>1
      <4>3. m <= k - j
        BY <3>3, <4>2
      <4>4. QED
        BY <4>1, <4>3
    <3>6. QED
      BY <3>4, <3>5
  <2>2. PICK b \in k .. to : (b = to \/ b + 1 \in cuts) /\ \A j \in k + 1 .. b : j \notin cuts
    <3>1. PICK T : T = {m \in 0 .. to - k : k + m = to \/ k + m + 1 \in cuts}
      OBVIOUS
    <3>2. T \subseteq Nat /\ to - k \in T
      BY <3>1
    <3>3. PICK m \in T : \A x \in T : m <= x
      BY <3>2, LeastOf
    <3>4. k + m \in k .. to /\ (k + m = to \/ k + m + 1 \in cuts)
      BY <3>1
    <3>5. ASSUME NEW j \in k + 1 .. k + m, j \in cuts PROVE FALSE
      <4>1. j - 1 - k \in 0 .. to - k /\ k + (j - 1 - k) + 1 = j /\ m \in Int
        BY <3>1, <3>5
      <4>2. j - 1 - k \in T
        BY <3>1, <3>5, <4>1
      <4>3. m <= j - 1 - k
        BY <3>3, <4>2
      <4>4. QED
        BY <4>1, <4>3
    <3>6. QED
      BY <3>4, <3>5
  <2>3. a \in from .. to /\ b \in from .. to /\ a <= b /\ \A j \in a + 1 .. b : j \notin cuts
    BY <2>1, <2>2
  <2>4. <<a, b>> \in Tab!Parts(from, to, cuts)
    BY <2>1, <2>2, <2>3 DEF Tab!Parts
  <2>5. QED
    BY <2>4
<1>3. ASSUME NEW p \in Tab!Parts(from, to, cuts), NEW q \in Tab!Parts(from, to, cuts), NEW k \in Int,
             p[1] <= k, k <= p[2], q[1] <= k, k <= q[2]
      PROVE  p = q
  <2>1. PICK a \in Int, b \in Int, c \in Int, d \in Int :
          /\ p = <<a, b>> /\ q = <<c, d>> /\ a <= k /\ k <= b /\ c <= k /\ k <= d
          /\ a >= from /\ c >= from /\ b <= to /\ d <= to
          /\ (a = from \/ a \in cuts) /\ (c = from \/ c \in cuts)
          /\ (b = to \/ b + 1 \in cuts) /\ (d = to \/ d + 1 \in cuts)
          /\ (\A j \in a + 1 .. b : j \notin cuts) /\ (\A j \in c + 1 .. d : j \notin cuts)
    BY <1>1, <1>3
  <2>2. a = c
    BY <2>1
  <2>3. b = d
    BY <2>1
  <2>4. QED
    BY <2>1, <2>2, <2>3
<1>4. QED
  BY <1>1, <1>2, <1>3

\* The steps of the sessions of some pages, by their places.
StepPlaces(pages) ==
  UNION {Tab!Parts(group[1], group[2], Tab!Changes(pages)) : group \in Tab!Parts(1, Len(pages), Tab!Gaps(pages))}

\* Each place is in one step.
LEMMA StepsCover ==
  ASSUME NEW pages, Len(pages) \in Nat
  PROVE  /\ \A p \in StepPlaces(pages) : p[1] \in 1 .. Len(pages) /\ p[2] \in 1 .. Len(pages) /\ p[1] <= p[2]
         /\ \A k \in 1 .. Len(pages) : \E p \in StepPlaces(pages) : p[1] <= k /\ k <= p[2]
         /\ \A p, q \in StepPlaces(pages) : \A k \in Int :
              p[1] <= k /\ k <= p[2] /\ q[1] <= k /\ k <= q[2] => p = q
<1>0. PICK n \in Nat : n = Len(pages)
  OBVIOUS
<1>1. PICK G, cuts : n = Len(pages) /\ G = Tab!Parts(1, n, Tab!Gaps(pages)) /\ cuts = Tab!Changes(pages)
  BY <1>0
<1>2. /\ \A g \in G : g[1] \in 1 .. n /\ g[2] \in 1 .. n
      /\ \A k \in 1 .. n : \E g \in G : g[1] <= k /\ k <= g[2]
      /\ \A g, h \in G : \A k \in Int : g[1] <= k /\ k <= g[2] /\ h[1] <= k /\ k <= h[2] => g = h
  <2>1. PICK a \in Int, b \in Int : a = 1 /\ b = n
    OBVIOUS
  <2>2. PICK gaps : gaps = Tab!Gaps(pages)
    OBVIOUS
  <2>3. /\ \A g \in Tab!Parts(a, b, gaps) : g[1] \in a .. b /\ g[2] \in a .. b
        /\ \A k \in a .. b : \E g \in Tab!Parts(a, b, gaps) : g[1] <= k /\ k <= g[2]
        /\ \A g, h \in Tab!Parts(a, b, gaps) : \A k \in Int :
             g[1] <= k /\ k <= g[2] /\ h[1] <= k /\ k <= h[2] => g = h
    BY PartsCover
  <2>4. G = Tab!Parts(a, b, gaps)
    BY <1>1, <2>1, <2>2
  <2>5. QED
    BY <2>1, <2>3, <2>4
<1>3. \A g \in G :
        /\ \A p \in Tab!Parts(g[1], g[2], cuts) : p[1] \in g[1] .. g[2] /\ p[2] \in g[1] .. g[2] /\ p[1] <= p[2]
        /\ \A k \in g[1] .. g[2] : \E p \in Tab!Parts(g[1], g[2], cuts) : p[1] <= k /\ k <= p[2]
        /\ \A p, q \in Tab!Parts(g[1], g[2], cuts) : \A k \in Int :
             p[1] <= k /\ k <= p[2] /\ q[1] <= k /\ k <= q[2] => p = q
  <2>1. TAKE g \in G
  <2>2. PICK a \in Int, b \in Int : a = g[1] /\ b = g[2]
    BY <1>2
  <2>3. /\ \A p \in Tab!Parts(a, b, cuts) : p[1] \in a .. b /\ p[2] \in a .. b /\ p[1] <= p[2]
        /\ \A k \in a .. b : \E p \in Tab!Parts(a, b, cuts) : p[1] <= k /\ k <= p[2]
        /\ \A p, q \in Tab!Parts(a, b, cuts) : \A k \in Int :
             p[1] <= k /\ k <= p[2] /\ q[1] <= k /\ k <= q[2] => p = q
    BY PartsCover
  <2>4. QED
    BY <2>2, <2>3
<1>4. \A p : p \in StepPlaces(pages) <=> \E g \in G : p \in Tab!Parts(g[1], g[2], cuts)
  BY <1>1 DEF StepPlaces
<1>5. ASSUME NEW p \in StepPlaces(pages) PROVE p[1] \in 1 .. n /\ p[2] \in 1 .. n /\ p[1] <= p[2]
  <2>1. PICK g \in G : p \in Tab!Parts(g[1], g[2], cuts)
    BY <1>4
  <2>2. g[1] \in 1 .. n /\ g[2] \in 1 .. n /\ p[1] \in g[1] .. g[2] /\ p[2] \in g[1] .. g[2] /\ p[1] <= p[2]
    BY <1>2, <1>3, <2>1
  <2>3. QED
    BY <2>2
<1>6. ASSUME NEW k \in 1 .. n PROVE \E p \in StepPlaces(pages) : p[1] <= k /\ k <= p[2]
  <2>1. PICK g \in G : g[1] <= k /\ k <= g[2]
    BY <1>2
  <2>2. k \in g[1] .. g[2]
    BY <1>2, <2>1
  <2>3. QED
    BY <1>3, <1>4, <2>2
<1>7. ASSUME NEW p \in StepPlaces(pages), NEW q \in StepPlaces(pages), NEW k \in Int,
             p[1] <= k /\ k <= p[2] /\ q[1] <= k /\ k <= q[2]
      PROVE  p = q
  <2>1. PICK g \in G, h \in G : p \in Tab!Parts(g[1], g[2], cuts) /\ q \in Tab!Parts(h[1], h[2], cuts)
    BY <1>4
  <2>2. g[1] <= k /\ k <= g[2] /\ h[1] <= k /\ k <= h[2]
    <3>1. g[1] \in Int /\ g[2] \in Int /\ h[1] \in Int /\ h[2] \in Int
      BY <1>2
    <3>2. p[1] \in g[1] .. g[2] /\ p[2] \in g[1] .. g[2] /\ q[1] \in h[1] .. h[2] /\ q[2] \in h[1] .. h[2]
      BY <1>3, <2>1
    <3>3. \A a, b, c, d \in Int : c \in a .. b /\ d \in a .. b /\ c <= k /\ k <= d => a <= k /\ k <= b
      OBVIOUS
    <3>4. g[1] <= k /\ k <= g[2]
      BY <1>7, <3>1, <3>2, <3>3
    <3>5. h[1] <= k /\ k <= h[2]
      BY <1>7, <3>1, <3>2, <3>3
    <3>6. QED
      BY <3>4, <3>5
  <2>3. g = h
    BY <1>2, <2>2
  <2>4. QED
    BY <1>3, <1>7, <2>1, <2>3
<1>8. QED
  BY <1>1, <1>5, <1>6, <1>7

\* The sessions count each event once.
LEMMA SessionsCount ==
  ASSUME NEW pages, Len(pages) \in Nat, \A i, j \in 1 .. Len(pages) : pages[i] = pages[j] => i = j
  PROVE  Tab!Counted(Tab!BuildJourneySessions(pages)) = Len(pages)
<1>0. PICK n \in Nat : n = Len(pages)
  OBVIOUS
<1>1. PICK S : n = Len(pages) /\ S = StepPlaces(pages)
  BY <1>0
<1>2. /\ \A p \in S : p[1] \in 1 .. n /\ p[2] \in 1 .. n /\ p[1] <= p[2]
      /\ \A k \in 1 .. n : \E p \in S : p[1] <= k /\ k <= p[2]
      /\ \A p, q \in S : \A k \in Int : p[1] <= k /\ k <= p[2] /\ q[1] <= k /\ k <= q[2] => p = q
  BY <1>1, StepsCover
<1>3. PICK step : step = [k \in 1 .. n |-> CHOOSE p \in S : p[1] <= k /\ k <= p[2]]
  OBVIOUS
<1>4. \A k \in 1 .. n : step[k] \in S /\ step[k][1] <= k /\ k <= step[k][2]
  BY <1>2, <1>3
<1>. DEFINE C == UNION {{pages[p[2]]} \X (1 .. p[2] - p[1] + 1) : p \in S}
            g == [k \in 1 .. n |-> <<pages[step[k][2]], k - step[k][1] + 1>>]
<1>5. g \in [1 .. n -> C]
  <2>1. ASSUME NEW k \in 1 .. n PROVE <<pages[step[k][2]], k - step[k][1] + 1>> \in C
    <3>1. PICK p \in S : p = step[k] /\ p[1] <= k /\ k <= p[2] /\ p[1] \in 1 .. n /\ p[2] \in 1 .. n
      BY <1>2, <1>4
    <3>2. k - p[1] + 1 \in 1 .. p[2] - p[1] + 1
      BY <3>1
    <3>3. <<pages[p[2]], k - p[1] + 1>> \in {pages[p[2]]} \X (1 .. p[2] - p[1] + 1)
      BY <3>2
    <3>4. <<pages[p[2]], k - p[1] + 1>> \in C
      BY <3>3
    <3>5. QED
      BY <3>1, <3>4
  <2>2. QED
    BY <2>1
<1>6. ASSUME NEW k \in 1 .. n, NEW j \in 1 .. n, g[k] = g[j] PROVE k = j
  <2>1. PICK p \in S, q \in S : p = step[k] /\ q = step[j] /\ p[1] <= k /\ k <= p[2] /\ q[1] <= j /\ j <= q[2]
    BY <1>4
  <2>2. g[k] = <<pages[p[2]], k - p[1] + 1>> /\ g[j] = <<pages[q[2]], j - q[1] + 1>>
    BY <2>1
  <2>3. pages[p[2]] = pages[q[2]] /\ k - p[1] + 1 = j - q[1] + 1
    BY <1>6, <2>2
  <2>4. p[1] \in 1 .. n /\ p[2] \in 1 .. n /\ q[1] \in 1 .. n /\ q[2] \in 1 .. n /\ p[1] <= p[2] /\ q[1] <= q[2]
    BY <1>2, <2>1
  <2>5. p[2] = q[2]
    BY <1>1, <2>3, <2>4
  <2>6. p = q
    <3>1. PICK m \in Int : m = p[2] /\ m = q[2] /\ p[1] <= m /\ q[1] <= m /\ m <= p[2] /\ m <= q[2]
      BY <2>4, <2>5
    <3>2. QED
      BY <1>2, <2>1, <3>1
  <2>7. QED
    BY <2>3, <2>4, <2>6
<1>7. ASSUME NEW x \in C PROVE \E k \in 1 .. n : g[k] = x
  <2>1. PICK p \in S : x \in {pages[p[2]]} \X (1 .. p[2] - p[1] + 1)
    BY <1>7
  <2>2. PICK m \in 1 .. p[2] - p[1] + 1 : x = <<pages[p[2]], m>>
    BY <2>1
  <2>3. p[1] \in 1 .. n /\ p[2] \in 1 .. n
    BY <1>2
  <2>4. PICK a \in 1 .. n, b \in 1 .. n : a = p[1] /\ b = p[2]
    BY <2>3
  <2>5. m \in 1 .. b - a + 1
    BY <2>2, <2>4
  <2>6. PICK k \in 1 .. n : a <= k /\ k <= b /\ m = k - a + 1
    <3>1. a + m - 1 \in 1 .. n /\ a <= a + m - 1 /\ a + m - 1 <= b /\ m = (a + m - 1) - a + 1
      BY <2>5
    <3>2. QED
      BY <3>1
  <2>7. k \in Int /\ step[k] \in S /\ step[k][1] <= k /\ k <= step[k][2] /\ p[1] <= k /\ k <= p[2]
    BY <1>4, <2>4, <2>6
  <2>8. step[k] = p
    BY <1>2, <2>7
  <2>9. QED
    BY <2>2, <2>4, <2>6, <2>8
<1>. HIDE DEF g, C
<1>8. g \in Bijection(1 .. n, C)
  BY <1>5, <1>6, <1>7 DEF Bijection, Injection, Surjection, IsInjective
<1>9. Cardinality(C) = n
  <2>1. ExistsBijection(1 .. n, C)
    BY <1>8 DEF ExistsBijection
  <2>2. QED
    BY <2>1, FS_CountingElements
<1>10. UNION {{s.event} \X (1 .. s.count) : s \in UNION {session.steps : session \in Tab!BuildJourneySessions(pages)}} = C
  <2>1. PICK T : T = UNION {session.steps : session \in Tab!BuildJourneySessions(pages)}
    OBVIOUS
  <2>2. \A s : s \in T <=> \E p \in S : s = [event |-> pages[p[2]], count |-> p[2] - p[1] + 1]
    <3>0. PICK H : H = Tab!Parts(1, Len(pages), Tab!Gaps(pages))
      OBVIOUS
    <3>1. \A s : s \in T <=> \E group \in Tab!Parts(1, Len(pages), Tab!Gaps(pages)) : s \in Tab!JourneySteps(pages, group)
      <4>1. PICK B : B = Tab!BuildJourneySessions(pages)
        OBVIOUS
      <4>2. \A session \in B : \E group \in H : session.steps = Tab!JourneySteps(pages, group)
        BY <3>0, <4>1 DEF Tab!BuildJourneySessions
      <4>3. \A group \in H : \E session \in B : session.steps = Tab!JourneySteps(pages, group)
        <5>1. \A group \in H : \E session \in B : session =
                [steps |-> Tab!JourneySteps(pages, group),
                 startedAt |-> Timeline[pages[group[2]]].at, endedAt |-> Timeline[pages[group[1]]].at]
          BY <3>0, <4>1 DEF Tab!BuildJourneySessions
        <5>2. QED
          BY <5>1
      <4>4. \A s : s \in T <=> \E session \in B : s \in session.steps
        BY <2>1, <4>1
      <4>5. QED
        BY <3>0, <4>2, <4>3, <4>4
    <3>2. \A group : \A s : s \in Tab!JourneySteps(pages, group) <=>
            \E p \in Tab!Parts(group[1], group[2], Tab!Changes(pages)) : s = [event |-> pages[p[2]], count |-> p[2] - p[1] + 1]
      BY DEF Tab!JourneySteps
    <3>3. \A p : p \in S <=> \E group \in Tab!Parts(1, Len(pages), Tab!Gaps(pages)) :
                               p \in Tab!Parts(group[1], group[2], Tab!Changes(pages))
      BY <1>1 DEF StepPlaces
    <3>4. QED
      BY <3>1, <3>2, <3>3
  <2>3. \A x : (\E s \in T : x \in {s.event} \X (1 .. s.count)) <=> \E p \in S : x \in {pages[p[2]]} \X (1 .. p[2] - p[1] + 1)
    <3>1. \A p : [event |-> pages[p[2]], count |-> p[2] - p[1] + 1].event = pages[p[2]]
                 /\ [event |-> pages[p[2]], count |-> p[2] - p[1] + 1].count = p[2] - p[1] + 1
      OBVIOUS
    <3>2. \A s \in T : \E p \in S : s.event = pages[p[2]] /\ s.count = p[2] - p[1] + 1
      BY <2>2, <3>1
    <3>3. \A p \in S : \E s \in T : s.event = pages[p[2]] /\ s.count = p[2] - p[1] + 1
      BY <2>2, <3>1
    <3>4. QED
      BY <3>2, <3>3
  <2>4. QED
    BY <2>1, <2>3 DEF C
<1>11. QED
  BY <1>1, <1>9, <1>10, TabCounts DEF Tab!Counted

-----------------------------------------------------------------------------
(* The tab, and the mirror behind it.                                      *)

\* The events of the shop that were there at the first page and still are.
Owed == {i \in kept : Timeline[i].shop = tab.shop /\ i <= tab.top}
Shown == {tab.pages[k] : k \in DOMAIN tab.pages}

TabTyped ==
  /\ arrived \in 0 .. Len(Timeline) /\ kept \subseteq 1 .. arrived
  /\ tab.pc \in {"closed", "loading", "end", "error"}
  /\ tab.pc # "closed" =>
       /\ tab = [pc |-> tab.pc, shop |-> tab.shop, cursor |-> tab.cursor, pages |-> tab.pages, top |-> tab.top]
       /\ tab.shop \in Tab!Shops /\ tab.cursor \in 0 .. arrived /\ tab.top \in 0 .. arrived
       /\ tab.pages \in Seq(1 .. arrived)

\* What is shown descends to the cursor, and nothing owed above the cursor is missing.
TabCovers ==
  tab.pc # "closed" =>
    /\ \A j, k \in DOMAIN tab.pages : j < k => tab.pages[j] > tab.pages[k]
    /\ tab.pc = "loading" =>
         /\ tab.cursor = 0 => tab.pages = <<>>
         /\ tab.cursor # 0 => /\ \A k \in DOMAIN tab.pages : tab.pages[k] >= tab.cursor
                              /\ \A i \in Owed : i >= tab.cursor => i \in Shown
    /\ tab.pc = "end" => Owed \subseteq Shown

TabInv == TabTyped /\ TabCovers

LEMMA TabStarts == ASSUME Tab!Init PROVE TabInv
<1>1. Len(Timeline) \in Nat
  BY LenProperties, ReadersAssumption DEF Tab!Configured
<1>2. QED
  BY <1>1 DEF Tab!Init, Tab!Closed, TabInv, TabTyped, TabCovers

\* What a page is.
LEMMA PageIs ==
  ASSUME TabTyped, NEW shop, NEW before \in Nat
  PROVE  \E P \in SUBSET Tab!Older(shop, before), s \in Seq(Tab!Older(shop, before)), m \in 0 .. arrived :
           /\ Tab!ActivityFeed(shop, before) = [events |-> s, next |-> m]
           /\ \A j, k \in DOMAIN s : j < k => s[j] > s[k]
           /\ \A i \in P : \E k \in DOMAIN s : s[k] = i
           /\ \A k \in DOMAIN s : s[k] \in P
           /\ m = 0 => P = Tab!Older(shop, before)
           /\ m # 0 => m \in P /\ (\A j \in P : m <= j) /\ \A i \in Tab!Older(shop, before) : i >= m => i \in P
<1>0. PICK n \in Nat, limit \in Nat \ {0} : n = arrived /\ limit = PageLimit
  BY LenProperties, ReadersAssumption DEF Tab!Configured, TabTyped
<1>1. PICK M : M = Tab!Older(shop, before) /\ n = arrived /\ limit = PageLimit
  BY <1>0
<1>2. M \subseteq 1 .. n
  BY <1>1 DEF Tab!Older, TabTyped
<1>3. PICK P : P = {i \in M : Tab!Rank(M, i) <= limit}
  OBVIOUS
<1>4. P \subseteq M /\ P \subseteq 1 .. n
  BY <1>2, <1>3
<1>5. PICK s : s = Tab!NewestFirst(P)
  OBVIOUS
<1>6. /\ s \in Seq(P)
      /\ \A j, k \in DOMAIN s : j < k => s[j] > s[k]
      /\ \A i \in P : \E k \in DOMAIN s : s[k] = i
  BY <1>4, <1>5, NewestFirstDescends
<1>7. (\A k \in DOMAIN s : s[k] \in P) /\ s \in Seq(M)
  <2>1. DOMAIN s = 1 .. Len(s) /\ Len(s) \in Nat
    BY <1>6, LenProperties
  <2>2. \A k \in DOMAIN s : s[k] \in P
    BY <1>6, <2>1, ElementOfSeq
  <2>3. PICK l \in Nat : l = Len(s) /\ DOMAIN s = 1 .. l
    BY <2>1
  <2>4. s \in [1 .. l -> P]
    BY <1>6, <2>1, <2>3, LenProperties
  <2>5. s \in [1 .. l -> M]
    BY <1>4, <2>4
  <2>6. QED
    BY <2>2, <2>5
<1>8. /\ ~(Cardinality(M) > limit) => P = M
      /\ Cardinality(M) > limit => \E m \in P : (\A j \in P : m <= j) /\ \A i \in M : i >= m => i \in P
  <2>1. \A i : i \in P <=> i \in M /\ Tab!Rank(M, i) <= limit
    BY <1>3
  <2>2. QED
    BY <1>0, <1>2, <2>1, NewestAreAbove
<1>9. Tab!ActivityFeed(shop, before) =
        [events |-> s, next |-> IF Cardinality(M) > limit THEN CHOOSE i \in P : \A j \in P : i <= j ELSE 0]
  <2>1. Tab!ActivityFeed(shop, before) =
          [events |-> Tab!NewestFirst({i \in M : Tab!Rank(M, i) <= limit}),
           next |-> IF Tab!Cardinality(M) > limit
                    THEN CHOOSE c \in {i \in M : Tab!Rank(M, i) <= limit} : \A j \in {i \in M : Tab!Rank(M, i) <= limit} : c <= j ELSE 0]
    BY <1>1 DEF Tab!ActivityFeed
  <2>2. QED
    BY <1>3, <1>5, <2>1, TabCounts
<1>10. CASE Cardinality(M) > limit
  <2>1. PICK m \in P : (\A j \in P : m <= j) /\ \A i \in M : i >= m => i \in P
    BY <1>8, <1>10
  <2>2. (CHOOSE i \in P : \A j \in P : i <= j) = m
    <3>1. PICK c \in P : c = (CHOOSE i \in P : \A j \in P : i <= j) /\ \A j \in P : c <= j
      BY <2>1
    <3>2. m \in 1 .. n /\ c \in 1 .. n
      BY <1>4, <2>1, <3>1
    <3>3. c <= m /\ m <= c
      BY <2>1, <3>1
    <3>4. m = c
      BY <3>2, <3>3
    <3>5. QED
      BY <3>1, <3>4
  <2>3. m # 0 /\ m \in 0 .. n
    BY <1>4
  <2>4. Tab!ActivityFeed(shop, before) = [events |-> s, next |-> m]
    BY <1>9, <1>10, <2>2
  <2>5. QED
    BY <1>1, <1>4, <1>6, <1>7, <2>1, <2>3, <2>4
<1>11. CASE ~(Cardinality(M) > limit)
  <2>1. P = M
    BY <1>8, <1>11
  <2>2. Tab!ActivityFeed(shop, before) = [events |-> s, next |-> 0] /\ 0 \in 0 .. n
    BY <1>9, <1>11
  <2>3. QED
    BY <1>1, <1>4, <1>6, <1>7, <2>1, <2>2
<1>12. QED
  BY <1>10, <1>11

\* A step that leaves the tab alone, and owes it nothing more.
LEMMA TabWaits ==
  ASSUME TabInv, UNCHANGED tab, arrived' \in 0 .. Len(Timeline), arrived <= arrived',
         kept' \subseteq 1 .. arrived', \A i \in kept' : i <= arrived => i \in kept
  PROVE  TabInv'
<1>1. arrived \in Nat /\ arrived' \in Nat /\ \A i \in 1 .. arrived : i \in 1 .. arrived'
  BY LenProperties, ReadersAssumption DEF Tab!Configured, TabInv, TabTyped
<1>2. CASE tab.pc = "closed"
  BY <1>2 DEF TabInv, TabTyped, TabCovers
<1>3. CASE tab.pc # "closed"
  <2>1. tab.pages \in Seq(1 .. arrived) /\ tab.cursor \in 0 .. arrived /\ tab.top \in 0 .. arrived
    BY <1>3 DEF TabInv, TabTyped
  <2>2. tab.pages \in Seq(1 .. arrived')
    <3>1. PICK n \in Nat : n = Len(tab.pages) /\ tab.pages \in [1 .. n -> 1 .. arrived]
      BY <2>1, LenProperties
    <3>2. tab.pages \in [1 .. n -> 1 .. arrived']
      BY <1>1, <3>1
    <3>3. QED
      BY <3>2
  <2>3. tab.cursor \in 0 .. arrived' /\ tab.top \in 0 .. arrived'
    BY <1>1, <2>1
  <2>4. TabTyped'
    BY <1>3, <2>2, <2>3 DEF TabInv, TabTyped, Tab!Shops
  <2>5. \A i \in Owed' : i \in Owed
    <3>1. \A i \in Owed' : i \in kept' /\ Timeline[i].shop = tab.shop /\ i <= tab.top /\ i \in Int
      <4>1. \A i \in Owed' : i \in kept' /\ Timeline[i].shop = tab.shop /\ i <= tab.top
        BY DEF Owed
      <4>2. \A i \in kept' : i \in Int
        BY <1>1
      <4>3. QED
        BY <4>1, <4>2
    <3>2. \A i \in Owed' : i \in kept
      BY <1>1, <2>1, <3>1
    <3>3. QED
      BY <3>1, <3>2 DEF Owed
  <2>6. Shown' = Shown
    BY DEF Shown
  <2>7. TabCovers'
    BY <1>3, <2>5, <2>6 DEF TabInv, TabCovers
  <2>8. QED
    BY <2>4, <2>7 DEF TabInv
<1>4. QED
  BY <1>2, <1>3

\* The next page goes under what is shown.
LEMMA TabLoads == ASSUME TabInv, Tab!Loads PROVE TabInv'
<1>1. /\ tab.pc = "loading" /\ tab.shop \in Tab!Shops /\ tab.cursor \in 0 .. arrived /\ tab.top \in 0 .. arrived
      /\ tab.pages \in Seq(1 .. arrived) /\ arrived \in 0 .. Len(Timeline) /\ kept \subseteq 1 .. arrived
      /\ tab = [pc |-> "loading", shop |-> tab.shop, cursor |-> tab.cursor, pages |-> tab.pages, top |-> tab.top]
  BY DEF Tab!Loads, TabInv, TabTyped
<1>2. arrived \in Nat
  BY <1>1, LenProperties, ReadersAssumption DEF Tab!Configured
<1>3. PICK shop, before : shop = tab.shop /\ before = tab.cursor /\ before \in Nat
  BY <1>1, <1>2
<1>4. PICK M : M = Tab!Older(shop, before)
  OBVIOUS
<1>5. M = {i \in kept : Timeline[i].shop = shop /\ (before = 0 \/ i < before)}
  BY <1>4 DEF Tab!Older
<1>6. PICK P \in SUBSET M, s \in Seq(M), m \in 0 .. arrived :
        /\ Tab!ActivityFeed(shop, before) = [events |-> s, next |-> m]
        /\ \A j, k \in DOMAIN s : j < k => s[j] > s[k]
        /\ \A i \in P : \E k \in DOMAIN s : s[k] = i
        /\ \A k \in DOMAIN s : s[k] \in P
        /\ m = 0 => P = M
        /\ m # 0 => m \in P /\ (\A j \in P : m <= j) /\ \A i \in M : i >= m => i \in P
  <2>1. TabTyped /\ before \in Nat
    BY <1>3 DEF TabInv
  <2>2. \E P \in SUBSET Tab!Older(shop, before), s \in Seq(Tab!Older(shop, before)), m \in 0 .. arrived :
           /\ Tab!ActivityFeed(shop, before) = [events |-> s, next |-> m]
           /\ \A j, k \in DOMAIN s : j < k => s[j] > s[k]
           /\ \A i \in P : \E k \in DOMAIN s : s[k] = i
           /\ \A k \in DOMAIN s : s[k] \in P
           /\ m = 0 => P = Tab!Older(shop, before)
           /\ m # 0 => m \in P /\ (\A j \in P : m <= j) /\ \A i \in Tab!Older(shop, before) : i >= m => i \in P
    BY <2>1, PageIs
  <2>3. QED
    BY <1>4, <2>2
<1>7. PICK old, all, top : old = tab.pages /\ all = old \o s /\ top = (IF before = 0 THEN arrived ELSE tab.top)
  OBVIOUS
<1>8. tab' = [pc |-> IF m = 0 THEN "end" ELSE "loading", shop |-> shop, cursor |-> m, pages |-> all, top |-> top]
  <2>1. PICK r : r = tab
    OBVIOUS
  <2>2. tab' = [r EXCEPT !.pc = IF m = 0 THEN "end" ELSE "loading", !.cursor = m,
                          !.pages = @ \o s, !.top = IF before = 0 THEN arrived ELSE @]
    BY <1>3, <1>6, <2>1 DEF Tab!Loads
  <2>3. r = [pc |-> "loading", shop |-> shop, cursor |-> before, pages |-> old, top |-> tab.top]
    BY <1>1, <1>3, <1>7, <2>1
  <2>4. QED
    BY <1>7, <2>2, <2>3
<1>9. arrived' = arrived /\ kept' = kept
  BY DEF Tab!Loads
<1>10. PICK n \in Nat, l \in Nat : n = Len(old) /\ l = Len(s) /\ DOMAIN old = 1 .. n /\ DOMAIN s = 1 .. l
  BY <1>1, <1>6, <1>7, LenProperties
<1>11. \A i \in M : i \in 1 .. arrived
  BY <1>1, <1>5
<1>12. s \in Seq(1 .. arrived)
  <2>1. s \in [1 .. l -> M]
    BY <1>6, <1>10, LenProperties
  <2>2. s \in [1 .. l -> 1 .. arrived]
    BY <1>11, <2>1
  <2>3. PICK k \in Nat : k = l
    BY <1>10
  <2>4. PICK D : D = 1 .. arrived
    OBVIOUS
  <2>5. s \in [1 .. k -> D]
    BY <2>2, <2>3, <2>4
  <2>6. s \in Seq(D)
    BY <2>5
  <2>7. QED
    BY <2>4, <2>6
<1>13. /\ all \in Seq(1 .. arrived) /\ DOMAIN all = 1 .. n + l
       /\ \A k \in 1 .. n + l : all[k] = IF k <= n THEN old[k] ELSE s[k - n]
  <2>1. /\ all \in Seq(1 .. arrived) /\ Len(all) = n + l
        /\ \A k \in 1 .. Len(all) : all[k] = IF k <= n THEN old[k] ELSE s[k - n]
    BY <1>1, <1>7, <1>10, <1>12, ConcatProperties
  <2>2. QED
    BY <2>1, LenProperties
<1>14. \A k \in 1 .. n : old[k] \in 1 .. arrived
  BY <1>1, <1>7, <1>10, ElementOfSeq
<1>15. \A k \in 1 .. l : s[k] \in P /\ s[k] \in M /\ s[k] \in 1 .. arrived
  BY <1>6, <1>10, <1>11
<1>16. /\ \A j, k \in 1 .. n : j < k => old[j] > old[k]
       /\ before = 0 => n = 0
       /\ before # 0 => \A k \in 1 .. n : old[k] >= before
       /\ before # 0 => \A i \in Owed : i >= before => \E k \in 1 .. n : old[k] = i
  BY <1>1, <1>3, <1>7, <1>10, EmptySeq DEF TabInv, TabCovers, Shown
<1>17. \A k \in 1 .. l : before # 0 => s[k] < before
  BY <1>5, <1>15
<1>18. TabTyped'
  <2>1. top \in 0 .. arrived
    BY <1>1, <1>2, <1>7
  <2>2. tab'.pc \in {"end", "loading"} /\ tab'.shop = shop /\ tab'.cursor = m /\ tab'.pages = all /\ tab'.top = top
    BY <1>8
  <2>3. tab' = [pc |-> tab'.pc, shop |-> tab'.shop, cursor |-> tab'.cursor, pages |-> tab'.pages, top |-> tab'.top]
    BY <1>8, <2>2
  <2>4. shop \in Tab!Shops'
    BY <1>1, <1>3 DEF Tab!Shops
  <2>5. QED
    BY <1>1, <1>6, <1>9, <1>13, <2>1, <2>2, <2>3, <2>4 DEF TabTyped
<1>19. ASSUME NEW j \in 1 .. n + l, NEW k \in 1 .. n + l, j < k PROVE all[j] > all[k]
  <2>1. CASE k <= n
    BY <1>13, <1>16, <1>19, <2>1
  <2>2. CASE j <= n /\ ~(k <= n)
    <3>1. k - n \in 1 .. l /\ j \in 1 .. n
      BY <2>2
    <3>2. before # 0
      BY <1>16, <3>1
    <3>3. old[j] \in Int /\ s[k - n] \in Int /\ old[j] >= before /\ s[k - n] < before
      BY <1>14, <1>15, <1>16, <1>17, <3>1, <3>2
    <3>4. all[j] = old[j] /\ all[k] = s[k - n]
      BY <1>13, <2>2
    <3>5. QED
      BY <1>3, <3>3, <3>4
  <2>3. CASE ~(j <= n)
    <3>1. j - n \in 1 .. l /\ k - n \in 1 .. l /\ j - n < k - n /\ ~(k <= n)
      BY <1>19, <2>3
    <3>2. QED
      BY <1>6, <1>10, <1>13, <2>3, <3>1
  <2>4. QED
    BY <2>1, <2>2, <2>3
<1>20. ASSUME m # 0, NEW k \in 1 .. n + l PROVE all[k] >= m
  <2>1. m \in P /\ m \in M /\ m \in Int
    BY <1>6, <1>20
  <2>2. CASE k <= n
    <3>1. before # 0 /\ m < before /\ old[k] \in Int /\ old[k] >= before
      BY <1>5, <1>14, <1>16, <2>1, <2>2
    <3>2. all[k] = old[k] /\ before \in Int
      BY <1>3, <1>13, <2>2
    <3>3. QED
      BY <2>1, <3>1, <3>2
  <2>3. CASE ~(k <= n)
    <3>1. k - n \in 1 .. l
      BY <2>3
    <3>2. m <= s[k - n] /\ s[k - n] \in Int
      BY <1>6, <1>15, <1>20, <3>1
    <3>3. QED
      BY <1>13, <2>1, <2>3, <3>2
  <2>4. QED
    BY <2>2, <2>3
<1>21. Owed' = {i \in kept : Timeline[i].shop = shop /\ i <= top}
  BY <1>8, <1>9 DEF Owed
<1>22. ASSUME NEW i \in Owed', m = 0 \/ i >= m PROVE \E k \in 1 .. n + l : all[k] = i
  <2>1. i \in kept /\ i \in Int /\ Timeline[i].shop = shop /\ i <= top
    BY <1>1, <1>21
  <2>2. CASE before # 0 /\ i >= before
    <3>1. i \in Owed
      BY <1>3, <1>7, <2>1, <2>2 DEF Owed
    <3>2. PICK k \in 1 .. n : old[k] = i
      BY <1>16, <2>2, <3>1
    <3>3. k \in 1 .. n + l /\ k <= n
      OBVIOUS
    <3>4. QED
      BY <1>13, <3>2, <3>3
  <2>3. CASE before = 0 \/ i < before
    <3>1. i \in M
      BY <1>5, <2>1, <2>3
    <3>2. i \in P
      BY <1>6, <1>22, <3>1
    <3>3. PICK k \in 1 .. l : s[k] = i
      BY <1>6, <1>10, <3>2
    <3>4. n + k \in 1 .. n + l /\ ~(n + k <= n) /\ (n + k) - n = k
      OBVIOUS
    <3>5. QED
      BY <1>13, <3>3, <3>4
  <2>4. QED
    BY <1>3, <2>1, <2>2, <2>3
<1>23. TabCovers'
  <2>1. tab'.pc = (IF m = 0 THEN "end" ELSE "loading") /\ tab'.cursor = m /\ tab'.pages = all
    BY <1>8
  <2>2. \A i : i \in Shown' <=> \E k \in 1 .. n + l : all[k] = i
    BY <1>13, <2>1 DEF Shown
  <2>3. DOMAIN tab'.pages = 1 .. n + l
    BY <1>13, <2>1
  <2>4. \A j, k \in DOMAIN tab'.pages : j < k => tab'.pages[j] > tab'.pages[k]
    BY <1>19, <2>1, <2>3
  <2>5. m # 0 => /\ \A k \in DOMAIN tab'.pages : tab'.pages[k] >= tab'.cursor
                 /\ \A i \in Owed' : i >= tab'.cursor => i \in Shown'
    BY <1>20, <1>22, <2>1, <2>2, <2>3
  <2>6. m = 0 => Owed' \subseteq Shown'
    BY <1>22, <2>2
  <2>7. tab'.pc = "loading" => m # 0
    BY <2>1
  <2>8. tab'.pc = "end" => m = 0
    BY <2>1
  <2>9. QED
    BY <2>1, <2>4, <2>5, <2>6, <2>7, <2>8 DEF TabCovers
<1>24. QED
  BY <1>18, <1>23 DEF TabInv

LEMMA TabStep == ASSUME TabInv, [Tab!Next]_Tab!vars PROVE TabInv'
<1>1. Len(Timeline) \in Nat /\ arrived \in 0 .. Len(Timeline) /\ kept \subseteq 1 .. arrived
  BY LenProperties, ReadersAssumption DEF Tab!Configured, TabInv, TabTyped
<1>2. CASE Tab!Ingest
  BY <1>1, <1>2, TabWaits DEF Tab!Ingest
<1>3. CASE Tab!Delete
  <2>1. \A i \in kept' : i \in kept
    BY <1>3 DEF Tab!Delete
  <2>2. arrived' = arrived /\ UNCHANGED tab
    BY <1>3 DEF Tab!Delete
  <2>3. arrived' \in 0 .. Len(Timeline) /\ arrived <= arrived' /\ kept' \subseteq 1 .. arrived'
    <3>1. arrived \in Int /\ arrived \in 0 .. Len(Timeline)
      BY <1>1
    <3>2. arrived' \in 0 .. Len(Timeline) /\ arrived <= arrived'
      BY <2>2, <3>1
    <3>3. kept' \subseteq 1 .. arrived
      BY <1>1, <2>1
    <3>4. QED
      BY <2>2, <3>2, <3>3
  <2>4. QED
    BY <2>1, <2>2, <2>3, TabWaits
<1>4. CASE Tab!Opens
  <2>1. PICK s \in Tab!Shops : tab' = [pc |-> "loading", shop |-> s, cursor |-> 0, pages |-> <<>>, top |-> 0]
    BY <1>4 DEF Tab!Opens
  <2>2. arrived' = arrived /\ kept' = kept
    BY <1>4 DEF Tab!Opens
  <2>3. s \in Tab!Shops' /\ <<>> \in Seq(1 .. arrived)
    BY DEF Tab!Shops
  <2>4. TabTyped'
    BY <1>1, <2>1, <2>2, <2>3 DEF TabTyped
  <2>5. TabCovers'
    BY <2>1 DEF TabCovers
  <2>6. QED
    BY <2>4, <2>5 DEF TabInv
<1>5. CASE Tab!Loads
  BY <1>5, TabLoads
<1>6. CASE Tab!LoadFails
  <2>1. tab.pc = "loading" /\ arrived' = arrived /\ kept' = kept /\ tab' = [tab EXCEPT !.pc = "error"]
    BY <1>6 DEF Tab!LoadFails
  <2>2. tab = [pc |-> tab.pc, shop |-> tab.shop, cursor |-> tab.cursor, pages |-> tab.pages, top |-> tab.top]
    BY <2>1 DEF TabInv, TabTyped
  <2>3. tab' = [pc |-> "error", shop |-> tab.shop, cursor |-> tab.cursor, pages |-> tab.pages, top |-> tab.top]
    BY <2>1, <2>2
  <2>4. TabTyped'
    BY <2>1, <2>3 DEF TabInv, TabTyped, Tab!Shops
  <2>5. TabCovers'
    BY <2>1, <2>3 DEF TabInv, TabCovers
  <2>6. QED
    BY <2>4, <2>5 DEF TabInv
<1>7. CASE Tab!Leaves
  BY <1>1, <1>7 DEF Tab!Leaves, Tab!Closed, TabInv, TabTyped, TabCovers
<1>8. CASE UNCHANGED Tab!vars
  BY <1>1, <1>8, TabWaits DEF Tab!vars
<1>9. QED
  BY <1>2, <1>3, <1>4, <1>5, <1>6, <1>7, <1>8 DEF Tab!Next

LEMMA TabShows == ASSUME TabInv PROVE Tab!TypeOK /\ Tab!FeedCoversHistory
<1>1. CASE tab.pc = "closed"
  BY <1>1 DEF TabInv, TabTyped, Tab!TypeOK, Tab!FeedCoversHistory
<1>2. CASE tab.pc # "closed"
  <2>1. PICK pages : pages = tab.pages /\ pages \in Seq(1 .. arrived)
    BY <1>2 DEF TabInv, TabTyped
  <2>2. PICK n \in Nat : n = Len(pages) /\ DOMAIN pages = 1 .. n
    BY <2>1, LenProperties
  <2>3. \A k \in 1 .. n : pages[k] \in 1 .. arrived
    BY <2>1, <2>2, ElementOfSeq
  <2>4. \A i, j \in 1 .. n : pages[i] = pages[j] => i = j
    <3>1. \A i, j \in 1 .. n : i < j => pages[i] > pages[j]
      BY <1>2, <2>1, <2>2 DEF TabInv, TabCovers
    <3>2. QED
      BY <2>3, <3>1
  <2>5. Tab!Counted(Tab!BuildJourneySessions(pages)) = Len(pages)
    BY <2>2, <2>4, SessionsCount
  <2>6. Tab!IsInjective(pages)
    BY <2>2, <2>4 DEF Tab!IsInjective
  <2>7. \A i : i \in Tab!ToSet(pages) <=> \E k \in 1 .. n : pages[k] = i
    BY <2>2 DEF Tab!ToSet
  <2>8. Tab!TypeOK
    BY <1>2, <2>1, <2>3, <2>7 DEF TabInv, TabTyped, Tab!TypeOK
  <2>9. tab.pc = "end" => \A i \in kept : Timeline[i].shop = tab.shop /\ i <= tab.top => i \in Tab!ToSet(pages)
    BY <1>2, <2>1, <2>2, <2>7 DEF TabInv, TabCovers, Owed, Shown
  <2>10. QED
    BY <2>1, <2>5, <2>6, <2>8, <2>9 DEF Tab!FeedCoversHistory
<1>3. QED
  BY <1>1, <1>2

\* "A mid-stream ingest can't skip or duplicate rows", for any events, page size and gap.
THEOREM FeedCoversHistoryHolds == Tab!Spec => []FeedCoversHistory
<1>1. Tab!Init => TabInv
  BY TabStarts, ReadersAssumption
<1>2. TabInv /\ [Tab!Next]_Tab!vars => TabInv'
  BY TabStep, ReadersAssumption
<1>3. TabInv => FeedCoversHistory
  BY TabShows DEF FeedCoversHistory
<1>4. QED
  BY <1>1, <1>2, <1>3, PTL DEF Tab!Spec
-----------------------------------------------------------------------------
(* The rollups.                                                            *)

LEMMA ReportsCount == \A S : Reports!Cardinality(S) = Cardinality(S)
  BY DEF Reports!Cardinality, Cardinality

\* Things grouped by a key: the group sizes add up to as many as there are.
LEMMA TotalOfGroups ==
  ASSUME NEW S, IsFiniteSet(S), NEW R, NEW g \in [S -> R],
         \A r \in R : r.value = Cardinality({x \in S : g[x] = r})
  PROVE  Reports!Total(R) = Cardinality(S)
<1>. DEFINE G(r) == {x \in S : g[x] = r}
            T == UNION {{r} \X (1 .. r.value) : r \in R}
<1>1. \A r \in R : /\ IsFiniteSet(G(r)) /\ r.value \in Nat
                   /\ \E f \in [1 .. r.value -> G(r)] : /\ \A x \in G(r) : \E i \in 1 .. r.value : f[i] = x
                                                        /\ \A i, j \in 1 .. r.value : f[i] = f[j] => i = j
  <2>1. TAKE r \in R
  <2>2. IsFiniteSet(G(r))
    BY FS_Subset
  <2>3. r.value = Cardinality(G(r)) /\ r.value \in Nat /\ ExistsBijection(1 .. r.value, G(r))
    BY <2>2, FS_CardinalityType
  <2>4. QED
    BY <2>2, <2>3 DEF ExistsBijection, Bijection, Injection, Surjection, IsInjective
<1>. DEFINE F(r) == CHOOSE f \in [1 .. r.value -> G(r)] : /\ \A x \in G(r) : \E i \in 1 .. r.value : f[i] = x
                                                          /\ \A i, j \in 1 .. r.value : f[i] = f[j] => i = j
<1>2. \A r \in R : /\ F(r) \in [1 .. r.value -> G(r)]
                   /\ \A x \in G(r) : \E i \in 1 .. r.value : F(r)[i] = x
                   /\ \A i, j \in 1 .. r.value : F(r)[i] = F(r)[j] => i = j
  BY <1>1
<1>. HIDE DEF F
<1>3. \A p : p \in T <=> \E r \in R : \E i \in 1 .. r.value : p = <<r, i>>
  OBVIOUS
<1>. HIDE DEF T
<1>. DEFINE h == [p \in T |-> F(p[1])[p[2]]]
<1>4. h \in [T -> S]
  <2>1. \A r \in R : \A i \in 1 .. r.value : F(r)[i] \in G(r)
    BY <1>2
  <2>2. \A p \in T : F(p[1])[p[2]] \in S
    BY <1>3, <2>1
  <2>3. QED
    BY <2>2
<1>5. \A r \in R : \A i \in 1 .. r.value : <<r, i>> \in T /\ h[<<r, i>>] = F(r)[i] /\ g[F(r)[i]] = r
  <2>1. TAKE r \in R
  <2>2. TAKE i \in 1 .. r.value
  <2>3. <<r, i>> \in T
    BY <1>3
  <2>4. F(r)[i] \in G(r)
    BY <1>2
  <2>5. QED
    BY <2>3, <2>4
<1>6. \A p, q \in T : h[p] = h[q] => p = q
  <2>1. TAKE p, q \in T
  <2>2. HAVE h[p] = h[q]
  <2>3. PICK r \in R : \E i \in 1 .. r.value : p = <<r, i>>
    BY <1>3
  <2>4. PICK i \in 1 .. r.value : p = <<r, i>>
    BY <2>3
  <2>5. PICK s \in R : \E j \in 1 .. s.value : q = <<s, j>>
    BY <1>3
  <2>6. PICK j \in 1 .. s.value : q = <<s, j>>
    BY <2>5
  <2>7. F(r)[i] = F(s)[j]
    BY <1>5, <2>2, <2>4, <2>6
  <2>8. r = s
    <3>1. g[F(r)[i]] = r /\ g[F(s)[j]] = s
      BY <1>5
    <3>2. QED
      BY <2>7, <3>1
  <2>9. i = j
    BY <1>2, <2>7, <2>8
  <2>10. QED
    BY <2>4, <2>6, <2>8, <2>9
<1>7. \A x \in S : \E p \in T : h[p] = x
  <2>1. TAKE x \in S
  <2>2. g[x] \in R /\ x \in G(g[x])
    OBVIOUS
  <2>3. PICK i \in 1 .. g[x].value : F(g[x])[i] = x
    BY <1>2, <2>2
  <2>4. QED
    BY <1>5, <2>2, <2>3
<1>8. h \in Injection(T, S) /\ h \in Bijection(T, S)
  BY <1>4, <1>6, <1>7 DEF Bijection, Injection, Surjection, IsInjective
<1>9. IsFiniteSet(T)
  BY <1>8, FS_Injection
<1>10. Cardinality(S) = Cardinality(T)
  BY <1>8, <1>9, FS_Bijection DEF ExistsBijection
<1>11. Reports!Total(R) = Reports!Cardinality(T)
  BY DEF Reports!Total, T
<1>12. QED
  BY <1>10, <1>11, ReportsCount

\* A set of things an instance has counted is finite or not as ever.
LEMMA SubsetCounts ==
  ASSUME NEW S, IsFiniteSet(S), NEW T, T \subseteq S
  PROVE  /\ IsFiniteSet(T) /\ Cardinality(T) \in Nat /\ Cardinality(S) \in Nat
         /\ Cardinality(T) <= Cardinality(S)
  BY FS_Subset, FS_CardinalityType

LEMMA Configuration ==
  /\ DayLength \in Nat \ {0} /\ Week \in Nat \ {0} /\ Month \in Nat /\ Quarter \in Nat
  /\ Week <= Month /\ Month <= Quarter
  /\ DOMAIN Features \subseteq STRING \ {""} /\ Steps \in Seq(STRING \ {""}) /\ TopRules \in Nat /\ MaxWeeks \in Nat \ {0}
  /\ OffsetText \in [0 .. MaxWeeks - 1 -> STRING]
  /\ History \in Seq(Reports!Events) /\ MaxNow \in Nat /\ Opening \in 0 .. MaxNow
  BY ReadersAssumption DEF Reports!Configured, Reports!MetricsConfigured

\* The starts of days are in the days' order, and a day is not empty.
LEMMA DaysAscend ==
  ASSUME NEW a \in Int, NEW b \in Int, a <= b
  PROVE  /\ Reports!DayStart(a) \in Int /\ Reports!DayStart(b) \in Int
         /\ Reports!DayStart(a) <= Reports!DayStart(b)
         /\ a >= 0 => Reports!DayStart(a) >= 0
         /\ a < b => Reports!DayStart(a) < Reports!DayStart(b)
<1>1. PICK n \in Nat \ {0} : n = DayLength
  BY Configuration
<1>2. a * n \in Int /\ b * n \in Int
  BY <1>1
<1>3. a * n <= b * n
  BY <1>1
<1>4. a >= 0 => a * n >= 0
  BY <1>1
<1>5. a < b => a * n < b * n
  BY <1>1
<1>6. QED
  BY <1>1, <1>2, <1>3, <1>4, <1>5 DEF Reports!DayStart

\* A longer window starts earlier.
LEMMA WindowsGrow ==
  ASSUME NEW day \in Nat, NEW m \in Nat, NEW n \in Nat, m <= n
  PROVE  /\ Reports!Before(day, m) \in Nat /\ Reports!Before(day, n) <= Reports!Before(day, m)
         /\ m >= 1 => Reports!Before(day, m) <= Reports!DayStart(day - 1) \/ day = 0
<1>1. /\ day > m => Reports!DayStart(day - m) \in Nat
      /\ day > n => Reports!DayStart(day - n) <= Reports!DayStart(day - m)
  <2>1. CASE day > m
    BY <2>1, DaysAscend
  <2>2. CASE ~(day > m)
    BY <2>2
  <2>3. QED
    BY <2>1, <2>2
<1>2. ASSUME m >= 1, day # 0 PROVE Reports!Before(day, m) <= Reports!DayStart(day - 1)
  <2>1. CASE day > m
    <3>1. day - m <= day - 1 /\ day - m \in Int /\ day - 1 \in Int
      BY <1>2
    <3>2. QED
      BY <2>1, <3>1, DaysAscend DEF Reports!Before
  <2>2. CASE ~(day > m)
    <3>1. day - 1 >= 0 /\ day - 1 \in Int
      BY <1>2
    <3>2. Reports!DayStart(day - 1) >= 0
      BY <3>1, DaysAscend
    <3>3. QED
      BY <2>2, <3>2 DEF Reports!Before
  <2>3. QED
    BY <2>1, <2>2
<1>3. QED
  <2>1. Reports!Before(day, m) \in Nat /\ Reports!Before(day, n) <= Reports!Before(day, m)
    BY <1>1 DEF Reports!Before
  <2>2. QED
    BY <1>2, <2>1

\* The day's events are among the week's, those among the month's, those among the quarter's.
LEMMA WindowsNest ==
  ASSUME NEW M, \A r \in M : r.at \in Nat, NEW day \in Nat
  PROVE  /\ Reports!DayRows(M, day) \subseteq Reports!Since(Reports!WindowRows(M, day), day + 1, Week)
         /\ Reports!Since(Reports!WindowRows(M, day), day + 1, Week)
              \subseteq Reports!Since(Reports!WindowRows(M, day), day + 1, Month)
         /\ Reports!Since(Reports!WindowRows(M, day), day + 1, Month) \subseteq Reports!WindowRows(M, day)
         /\ Reports!WindowRows(M, day) \subseteq M
<1>0. PICK dr, wr, week, month : dr = Reports!DayRows(M, day) /\ wr = Reports!WindowRows(M, day)
        /\ week = Reports!Since(wr, day + 1, Week) /\ month = Reports!Since(wr, day + 1, Month)
  OBVIOUS
<1>1. PICK w, m, q, from, to : w = Reports!Before(day + 1, Week) /\ m = Reports!Before(day + 1, Month)
        /\ q = Reports!Before(day + 1, Quarter) /\ from = Reports!DayStart(day) /\ to = Reports!DayStart(day + 1)
  OBVIOUS
<1>2. w \in Nat /\ m \in Nat /\ q \in Nat /\ q <= m /\ m <= w /\ w <= from /\ from \in Int /\ to \in Int
  <2>1. /\ Week \in Nat /\ Month \in Nat /\ Quarter \in Nat /\ Week >= 1 /\ Week <= Month /\ Month <= Quarter
        /\ Quarter <= Quarter
        /\ day + 1 \in Nat /\ day + 1 # 0 /\ (day + 1) - 1 = day
    <3>1. PICK l \in Nat \ {0}, x \in Nat, y \in Nat : l = Week /\ x = Month /\ y = Quarter /\ l <= x /\ x <= y
      BY Configuration
    <3>2. QED
      BY <3>1
  <2>2. w \in Nat /\ m <= w /\ w <= from
    BY <1>1, <2>1, WindowsGrow
  <2>3. m \in Nat /\ q <= m
    BY <1>1, <2>1, WindowsGrow
  <2>4. q \in Nat
    BY <1>1, <2>1, WindowsGrow
  <2>5. from \in Int /\ to \in Int
    BY <1>1, DaysAscend
  <2>6. QED
    BY <2>2, <2>3, <2>4, <2>5
<1>3. \A r : r \in dr <=> r \in M /\ ~r.impersonated /\ from <= r.at /\ r.at < to
  BY <1>0, <1>1 DEF Reports!DayRows, Reports!ReadWindow
<1>4. \A r : r \in wr <=> r \in M /\ ~r.impersonated /\ q <= r.at /\ r.at < to
  BY <1>0, <1>1 DEF Reports!WindowRows, Reports!ReadWindow
<1>5. \A r : /\ r \in week <=> r \in wr /\ r.at >= w
             /\ r \in month <=> r \in wr /\ r.at >= m
  BY <1>0, <1>1 DEF Reports!Since
<1>6. dr \subseteq week
  BY <1>2, <1>3, <1>4, <1>5
<1>7. week \subseteq month
  BY <1>2, <1>4, <1>5
<1>8. QED
  BY <1>0, <1>4, <1>5, <1>6, <1>7

\* Of fewer events, no more shops.
LEMMA ShopsCount ==
  ASSUME NEW S, IsFiniteSet(S), NEW T, T \subseteq S
  PROVE  /\ Reports!DistinctShops(T) \in Nat /\ Reports!DistinctShops(S) \in Nat
         /\ Reports!DistinctShops(T) <= Reports!DistinctShops(S)
<1>. DEFINE A == {r.shop : r \in S}
            B == {r.shop : r \in T}
            f == [r \in S |-> r.shop]
<1>1. f \in Surjection(S, A)
  BY DEF Surjection
<1>2. IsFiniteSet(A)
  BY <1>1, FS_Surjection
<1>3. B \subseteq A
  OBVIOUS
<1>. HIDE DEF A, B, f
<1>4. Cardinality(A) \in Nat /\ Cardinality(B) \in Nat /\ Cardinality(B) <= Cardinality(A)
  BY <1>2, <1>3, SubsetCounts
<1>5. Reports!DistinctShops(S) = Cardinality(A) /\ Reports!DistinctShops(T) = Cardinality(B)
  BY ReportsCount DEF Reports!DistinctShops, A, B
<1>6. QED
  BY <1>4, <1>5

\* The rules a day's funnel keeps.
KeptRules(dr) ==
  {p.dim : p \in {q \in Reports!FunnelMetrics(dr) : q.metric = "rule"}}

\* What is written for a day, metric by metric.
Written(dr, wr, day, p) ==
  \/ p = Reports!Point("dau", "", Reports!DistinctShops(dr))
  \/ p = Reports!Point("events", "", Cardinality(dr))
  \/ p = Reports!Point("wau", "", Reports!DistinctShops(Reports!Since(wr, day + 1, Week)))
  \/ p = Reports!Point("mau", "", Reports!DistinctShops(Reports!Since(wr, day + 1, Month)))
  \/ \E r \in dr : p = Reports!Point("action", r.name, Cardinality(Reports!Named(dr, {r.name})))
  \/ \E s \in Reports!ToSet(Reports!Stages) :
       /\ Reports!Reached(dr, s) # {}
       /\ p = Reports!Point("stage", s, Reports!DistinctShops(Reports!Reached(dr, s)))
  \/ \E r \in KeptRules(dr) : p = Reports!Point("rule", r, Reports!RuleFailures(dr, r))
  \/ \E f \in Reports!Adoption :
       \/ p = Reports!Point("adoption30", f, Reports!DistinctShops(
                Reports!Touching(Reports!Since(wr, day + 1, Month), f)))
       \/ p = Reports!Point("adoption90", f, Reports!DistinctShops(Reports!Touching(wr, f)))
  \/ p = Reports!Point("active30", "", Reports!DistinctShops(Reports!Since(wr, day + 1, Month)))
  \/ p = Reports!Point("active90", "", Reports!DistinctShops(wr))
  \/ \E s \in Reports!ToSet(Steps) :
       /\ Reports!Samples(dr, s) # {}
       /\ p = Reports!Point("dwell", s, Reports!TwiceMedian(Reports!Samples(dr, s)))

LEMMA PointsAre ==
  ASSUME NEW dr, NEW wr, NEW day, NEW p
  PROVE  p \in Reports!DayPoints(dr, wr, day) <=> Written(dr, wr, day, p)
<1>1. p \in Reports!ActivityMetrics(dr, wr, day + 1) <=>
           \/ p = Reports!Point("dau", "", Reports!DistinctShops(dr))
           \/ p = Reports!Point("events", "", Cardinality(dr))
           \/ p = Reports!Point("wau", "", Reports!DistinctShops(Reports!Since(wr, day + 1, Week)))
           \/ p = Reports!Point("mau", "", Reports!DistinctShops(Reports!Since(wr, day + 1, Month)))
           \/ \E r \in dr : p = Reports!Point("action", r.name, Cardinality(Reports!Named(dr, {r.name})))
  BY ReportsCount DEF Reports!ActivityMetrics
<1>2. p \in Reports!AdoptionMetrics(wr, day + 1) <=>
           \/ \E f \in Reports!Adoption :
                \/ p = Reports!Point("adoption30", f, Reports!DistinctShops(
                         Reports!Touching(Reports!Since(wr, day + 1, Month), f)))
                \/ p = Reports!Point("adoption90", f, Reports!DistinctShops(Reports!Touching(wr, f)))
           \/ p = Reports!Point("active30", "", Reports!DistinctShops(Reports!Since(wr, day + 1, Month)))
           \/ p = Reports!Point("active90", "", Reports!DistinctShops(wr))
  BY DEF Reports!AdoptionMetrics
<1>3. p \in Reports!DwellMetrics(dr) <=>
           \E s \in Reports!ToSet(Steps) :
                /\ Reports!Samples(dr, s) # {}
                /\ p = Reports!Point("dwell", s, Reports!TwiceMedian(Reports!Samples(dr, s)))
  BY DEF Reports!DwellMetrics
<1>4. PICK R : \A q : q \in Reports!FunnelMetrics(dr) <=>
           \/ \E s \in Reports!ToSet(Reports!Stages) :
                /\ Reports!Reached(dr, s) # {}
                /\ q = Reports!Point("stage", s, Reports!DistinctShops(Reports!Reached(dr, s)))
           \/ \E r \in R : q = Reports!Point("rule", r, Reports!RuleFailures(dr, r))
  BY DEF Reports!FunnelMetrics
<1>5. KeptRules(dr) = R
  <2>1. \A q : q \in Reports!FunnelMetrics(dr) /\ q.metric = "rule" <=>
               \E r \in R : q = Reports!Point("rule", r, Reports!RuleFailures(dr, r))
    BY <1>4 DEF Reports!Point
  <2>2. \A r \in R : Reports!Point("rule", r, Reports!RuleFailures(dr, r)).dim = r
    BY DEF Reports!Point
  <2>3. QED
    BY <2>1, <2>2 DEF KeptRules
<1>6. QED
  BY <1>1, <1>2, <1>3, <1>4, <1>5 DEF Reports!DayPoints, Written

DayMetrics == {"dau", "events", "action", "wau", "mau", "stage", "rule", "adoption30", "adoption90",
               "active30", "active90", "dwell"}

LEMMA MetricsOfDay ==
  /\ \A m : m \in Reports!ToSet(Reports!DayMetrics) <=> m \in DayMetrics
  /\ DOMAIN Reports!DayMetrics = 1 .. 12
  /\ \A i \in 1 .. 12 : Reports!DayMetrics[i] = "dau" <=> i = 1
<1>1. DOMAIN Reports!DayMetrics = 1 .. 12
  BY DEF Reports!DayMetrics
<1>2. \A i \in 1 .. 12 : i = 1 \/ i = 2 \/ i = 3 \/ i = 4 \/ i = 5 \/ i = 6 \/ i = 7 \/ i = 8 \/ i = 9 \/ i = 10 \/ i = 11 \/ i = 12
  OBVIOUS
<1>3. \A m : m \in DayMetrics => \E i \in 1 .. 12 : Reports!DayMetrics[i] = m
  BY DEF Reports!DayMetrics, DayMetrics
<1>4. \A i \in 1 .. 12 : Reports!DayMetrics[i] \in DayMetrics
  BY <1>2 DEF Reports!DayMetrics, DayMetrics
<1>5. \A i \in 1 .. 12 : Reports!DayMetrics[i] = "dau" <=> i = 1
  BY <1>2 DEF Reports!DayMetrics
<1>6. QED
  BY <1>1, <1>3, <1>4, <1>5 DEF Reports!ToSet

\* The value of a metric of a day, by dimension.
ValueOf(dr, wr, day, metric, dim) ==
  LET month == Reports!Since(wr, day + 1, Month) IN
  CASE metric = "dau" -> Reports!DistinctShops(dr)
    [] metric = "events" -> Cardinality(dr)
    [] metric = "wau" -> Reports!DistinctShops(Reports!Since(wr, day + 1, Week))
    [] metric \in {"mau", "active30"} -> Reports!DistinctShops(month)
    [] metric = "action" -> Cardinality(Reports!Named(dr, {dim}))
    [] metric = "stage" -> Reports!DistinctShops(Reports!Reached(dr, dim))
    [] metric = "rule" -> Reports!RuleFailures(dr, dim)
    [] metric = "adoption30" -> Reports!DistinctShops(Reports!Touching(month, dim))
    [] metric = "adoption90" -> Reports!DistinctShops(Reports!Touching(wr, dim))
    [] metric = "active90" -> Reports!DistinctShops(wr)
    [] metric = "dwell" -> Reports!TwiceMedian(Reports!Samples(dr, dim))

\* The dimensions a metric has on a day.
DimsOf(dr, metric) ==
  CASE metric \in {"dau", "events", "wau", "mau", "active30", "active90"} -> {""}
    [] metric = "action" -> {r.name : r \in dr}
    [] metric = "stage" -> {s \in Reports!ToSet(Reports!Stages) : Reports!Reached(dr, s) # {}}
    [] metric = "rule" -> KeptRules(dr)
    [] metric \in {"adoption30", "adoption90"} -> Reports!Adoption
    [] metric = "dwell" -> {s \in Reports!ToSet(Steps) : Reports!Samples(dr, s) # {}}

\* A day has one point for each metric and each dimension of it.
LEMMA PointValue ==
  ASSUME NEW dr, NEW wr, NEW day
  PROVE  /\ \A p \in Reports!DayPoints(dr, wr, day) :
              /\ p = Reports!Point(p.metric, p.dim, ValueOf(dr, wr, day, p.metric, p.dim))
              /\ p.metric \in DayMetrics /\ p.dim \in DimsOf(dr, p.metric)
         /\ \A metric \in DayMetrics : \A dim \in DimsOf(dr, metric) :
              Reports!Point(metric, dim, ValueOf(dr, wr, day, metric, dim)) \in Reports!DayPoints(dr, wr, day)
<1>1. \A m, d, v : Reports!Point(m, d, v).metric = m /\ Reports!Point(m, d, v).dim = d
  BY DEF Reports!Point
<1>2. ASSUME NEW p \in Reports!DayPoints(dr, wr, day)
      PROVE  /\ p = Reports!Point(p.metric, p.dim, ValueOf(dr, wr, day, p.metric, p.dim))
             /\ p.metric \in DayMetrics /\ p.dim \in DimsOf(dr, p.metric)
  <2>. DEFINE Is(m, d) == m \in DayMetrics /\ d \in DimsOf(dr, m) /\ p = Reports!Point(m, d, ValueOf(dr, wr, day, m, d))
  <2>1. ASSUME NEW m, NEW d, Is(m, d)
        PROVE  /\ p = Reports!Point(p.metric, p.dim, ValueOf(dr, wr, day, p.metric, p.dim))
               /\ p.metric \in DayMetrics /\ p.dim \in DimsOf(dr, p.metric)
    <3>1. p.metric = m /\ p.dim = d
      BY <1>1, <2>1
    <3>2. QED
      BY <2>1, <3>1
  <2>2. CASE \/ p = Reports!Point("dau", "", Reports!DistinctShops(dr))
             \/ p = Reports!Point("events", "", Cardinality(dr))
             \/ p = Reports!Point("wau", "", Reports!DistinctShops(Reports!Since(wr, day + 1, Week)))
             \/ p = Reports!Point("mau", "", Reports!DistinctShops(Reports!Since(wr, day + 1, Month)))
             \/ p = Reports!Point("active30", "", Reports!DistinctShops(Reports!Since(wr, day + 1, Month)))
             \/ p = Reports!Point("active90", "", Reports!DistinctShops(wr))
    <3>1. ValueOf(dr, wr, day, "dau", "") = Reports!DistinctShops(dr) /\ "" \in DimsOf(dr, "dau") /\ "dau" \in DayMetrics
      BY DEF ValueOf, DimsOf, DayMetrics
    <3>2. ValueOf(dr, wr, day, "events", "") = Cardinality(dr) /\ "" \in DimsOf(dr, "events") /\ "events" \in DayMetrics
      BY DEF ValueOf, DimsOf, DayMetrics
    <3>3. ValueOf(dr, wr, day, "wau", "") = Reports!DistinctShops(Reports!Since(wr, day + 1, Week)) /\ "" \in DimsOf(dr, "wau") /\ "wau" \in DayMetrics
      BY DEF ValueOf, DimsOf, DayMetrics
    <3>4. ValueOf(dr, wr, day, "mau", "") = Reports!DistinctShops(Reports!Since(wr, day + 1, Month)) /\ "" \in DimsOf(dr, "mau") /\ "mau" \in DayMetrics
      BY DEF ValueOf, DimsOf, DayMetrics
    <3>5. ValueOf(dr, wr, day, "active30", "") = Reports!DistinctShops(Reports!Since(wr, day + 1, Month)) /\ "" \in DimsOf(dr, "active30") /\ "active30" \in DayMetrics
      BY DEF ValueOf, DimsOf, DayMetrics
    <3>6. ValueOf(dr, wr, day, "active90", "") = Reports!DistinctShops(wr) /\ "" \in DimsOf(dr, "active90") /\ "active90" \in DayMetrics
      BY DEF ValueOf, DimsOf, DayMetrics
    <3>7. \/ Is("dau", "") \/ Is("events", "") \/ Is("wau", "") \/ Is("mau", "") \/ Is("active30", "")
          \/ Is("active90", "")
      BY <2>2, <3>1, <3>2, <3>3, <3>4, <3>5, <3>6
    <3>8. QED
      BY <2>1, <3>7
  <2>3. CASE \E r \in dr : p = Reports!Point("action", r.name, Cardinality(Reports!Named(dr, {r.name})))
    <3>1. PICK r \in dr : p = Reports!Point("action", r.name, Cardinality(Reports!Named(dr, {r.name})))
      BY <2>3
    <3>2. ValueOf(dr, wr, day, "action", r.name) = Cardinality(Reports!Named(dr, {r.name}))
      BY DEF ValueOf
    <3>3. r.name \in DimsOf(dr, "action") /\ "action" \in DayMetrics
      BY <3>1 DEF DimsOf, DayMetrics
    <3>4. Is("action", r.name)
      BY <3>1, <3>2, <3>3
    <3>5. QED
      BY <2>1, <3>4
  <2>4. CASE \E s \in Reports!ToSet(Reports!Stages) : Reports!Reached(dr, s) # {} /\ p = Reports!Point("stage", s, Reports!DistinctShops(Reports!Reached(dr, s)))
    <3>1. PICK s \in Reports!ToSet(Reports!Stages) : Reports!Reached(dr, s) # {} /\ p = Reports!Point("stage", s, Reports!DistinctShops(Reports!Reached(dr, s)))
      BY <2>4
    <3>2. ValueOf(dr, wr, day, "stage", s) = Reports!DistinctShops(Reports!Reached(dr, s))
      BY DEF ValueOf
    <3>3. s \in DimsOf(dr, "stage") /\ "stage" \in DayMetrics
      BY <3>1 DEF DimsOf, DayMetrics
    <3>4. Is("stage", s)
      BY <3>1, <3>2, <3>3
    <3>5. QED
      BY <2>1, <3>4
  <2>5. CASE \E r \in KeptRules(dr) : p = Reports!Point("rule", r, Reports!RuleFailures(dr, r))
    <3>1. PICK r \in KeptRules(dr) : p = Reports!Point("rule", r, Reports!RuleFailures(dr, r))
      BY <2>5
    <3>2. ValueOf(dr, wr, day, "rule", r) = Reports!RuleFailures(dr, r)
      BY DEF ValueOf
    <3>3. r \in DimsOf(dr, "rule") /\ "rule" \in DayMetrics
      BY <3>1 DEF DimsOf, DayMetrics
    <3>4. Is("rule", r)
      BY <3>1, <3>2, <3>3
    <3>5. QED
      BY <2>1, <3>4
  <2>6. CASE \E f \in Reports!Adoption : p = Reports!Point("adoption30", f, Reports!DistinctShops(Reports!Touching(Reports!Since(wr, day + 1, Month), f)))
    <3>1. PICK f \in Reports!Adoption : p = Reports!Point("adoption30", f, Reports!DistinctShops(Reports!Touching(Reports!Since(wr, day + 1, Month), f)))
      BY <2>6
    <3>2. ValueOf(dr, wr, day, "adoption30", f) = Reports!DistinctShops(Reports!Touching(Reports!Since(wr, day + 1, Month), f))
      BY DEF ValueOf
    <3>3. f \in DimsOf(dr, "adoption30") /\ "adoption30" \in DayMetrics
      BY <3>1 DEF DimsOf, DayMetrics
    <3>4. Is("adoption30", f)
      BY <3>1, <3>2, <3>3
    <3>5. QED
      BY <2>1, <3>4
  <2>7. CASE \E f \in Reports!Adoption : p = Reports!Point("adoption90", f, Reports!DistinctShops(Reports!Touching(wr, f)))
    <3>1. PICK f \in Reports!Adoption : p = Reports!Point("adoption90", f, Reports!DistinctShops(Reports!Touching(wr, f)))
      BY <2>7
    <3>2. ValueOf(dr, wr, day, "adoption90", f) = Reports!DistinctShops(Reports!Touching(wr, f))
      BY DEF ValueOf
    <3>3. f \in DimsOf(dr, "adoption90") /\ "adoption90" \in DayMetrics
      BY <3>1 DEF DimsOf, DayMetrics
    <3>4. Is("adoption90", f)
      BY <3>1, <3>2, <3>3
    <3>5. QED
      BY <2>1, <3>4
  <2>8. CASE \E s \in Reports!ToSet(Steps) : Reports!Samples(dr, s) # {} /\ p = Reports!Point("dwell", s, Reports!TwiceMedian(Reports!Samples(dr, s)))
    <3>1. PICK s \in Reports!ToSet(Steps) : Reports!Samples(dr, s) # {} /\ p = Reports!Point("dwell", s, Reports!TwiceMedian(Reports!Samples(dr, s)))
      BY <2>8
    <3>2. ValueOf(dr, wr, day, "dwell", s) = Reports!TwiceMedian(Reports!Samples(dr, s))
      BY DEF ValueOf
    <3>3. s \in DimsOf(dr, "dwell") /\ "dwell" \in DayMetrics
      BY <3>1 DEF DimsOf, DayMetrics
    <3>4. Is("dwell", s)
      BY <3>1, <3>2, <3>3
    <3>5. QED
      BY <2>1, <3>4
  <2>. HIDE DEF Is
  <2>9. Written(dr, wr, day, p)
    BY <1>2, PointsAre
  <2>10. QED
    BY <2>2, <2>3, <2>4, <2>5, <2>6, <2>7, <2>8, <2>9 DEF Written
<1>3. ASSUME NEW metric \in DayMetrics, NEW dim \in DimsOf(dr, metric)
      PROVE  Reports!Point(metric, dim, ValueOf(dr, wr, day, metric, dim)) \in Reports!DayPoints(dr, wr, day)
  <2>1. PICK p : p = Reports!Point(metric, dim, ValueOf(dr, wr, day, metric, dim))
    OBVIOUS
  <2>2. CASE metric \in {"dau", "events", "wau", "mau", "active30", "active90"}
    <3>1. dim = ""
      BY <2>2 DEF DimsOf
    <3>2. QED
      BY <2>1, <2>2, <3>1, PointsAre DEF ValueOf, Written
  <2>3. CASE metric = "action"
    <3>1. PICK r \in dr : dim = r.name
      BY <2>3 DEF DimsOf
    <3>2. p = Reports!Point("action", r.name, Cardinality(Reports!Named(dr, {r.name})))
      BY <2>1, <2>3, <3>1 DEF ValueOf
    <3>3. QED
      BY <2>1, <3>1, <3>2, PointsAre DEF Written
  <2>4. CASE metric = "stage"
    <3>1. dim \in Reports!ToSet(Reports!Stages) /\ Reports!Reached(dr, dim) # {}
      BY <2>4 DEF DimsOf
    <3>2. p = Reports!Point("stage", dim, Reports!DistinctShops(Reports!Reached(dr, dim)))
      BY <2>1, <2>4 DEF ValueOf
    <3>3. QED
      BY <2>1, <3>1, <3>2, PointsAre DEF Written
  <2>5. CASE metric = "rule"
    <3>1. dim \in KeptRules(dr)
      BY <2>5 DEF DimsOf
    <3>2. p = Reports!Point("rule", dim, Reports!RuleFailures(dr, dim))
      BY <2>1, <2>5 DEF ValueOf
    <3>3. QED
      BY <2>1, <3>1, <3>2, PointsAre DEF Written
  <2>6. CASE metric \in {"adoption30", "adoption90"}
    <3>1. dim \in Reports!Adoption
      BY <2>6 DEF DimsOf
    <3>2. \/ p = Reports!Point("adoption30", dim, Reports!DistinctShops(
                   Reports!Touching(Reports!Since(wr, day + 1, Month), dim)))
          \/ p = Reports!Point("adoption90", dim, Reports!DistinctShops(Reports!Touching(wr, dim)))
      BY <2>1, <2>6 DEF ValueOf
    <3>3. QED
      BY <2>1, <3>1, <3>2, PointsAre DEF Written
  <2>7. CASE metric = "dwell"
    <3>1. dim \in Reports!ToSet(Steps) /\ Reports!Samples(dr, dim) # {}
      BY <2>7 DEF DimsOf
    <3>2. p = Reports!Point("dwell", dim, Reports!TwiceMedian(Reports!Samples(dr, dim)))
      BY <2>1, <2>7 DEF ValueOf
    <3>3. QED
      BY <2>1, <3>1, <3>2, PointsAre DEF Written
  <2>8. QED
    BY <2>2, <2>3, <2>4, <2>5, <2>6, <2>7 DEF DayMetrics
<1>4. QED
  BY <1>2, <1>3

\* The longest of some durations.
LEMMA LongestOf ==
  ASSUME NEW S, IsFiniteSet(S), S # {}, \A x \in S : x.ms \in Nat
  PROVE  \E m \in S : \A x \in S : x.ms <= m.ms
<1>. DEFINE Above(v) == {x \in S : x.ms > v.ms}
            T == {Cardinality(Above(v)) : v \in S}
<1>1. \A v \in S : IsFiniteSet(Above(v)) /\ Cardinality(Above(v)) \in Nat
  BY SubsetCounts
<1>. HIDE DEF Above
<1>2. T \subseteq Nat /\ T # {}
  BY <1>1
<1>3. PICK l \in T : \A k \in T : l <= k
  BY <1>2, LeastOf
<1>4. PICK m \in S : l = Cardinality(Above(m))
  OBVIOUS
<1>5. ASSUME NEW x \in S, ~(x.ms <= m.ms) PROVE FALSE
  <2>1. x.ms \in Nat /\ m.ms \in Nat /\ x.ms > m.ms
    BY <1>5
  <2>2. Above(x) \subseteq Above(m) /\ x \in Above(m) /\ x \notin Above(x)
    BY <2>1 DEF Above
  <2>3. Cardinality(Above(x)) <= Cardinality(Above(m)) /\ Cardinality(Above(x)) # Cardinality(Above(m))
    BY <1>1, <2>2, FS_Subset
  <2>4. l <= Cardinality(Above(x))
    BY <1>3
  <2>5. QED
    BY <1>1, <1>4, <2>3, <2>4
<1>6. QED
  BY <1>5

\* Of the durations of finitely many rows there is one of every rank.
LEMMA RanksAre ==
  ASSUME NEW S, IsFiniteSet(S), \A x \in S : x.ms \in Nat, NEW k \in 1 .. Cardinality(S)
  PROVE  \E v \in {x.ms : x \in S} :
           Cardinality({x \in S : x.ms < v}) < k /\ k <= Cardinality({x \in S : x.ms <= v})
<1>. DEFINE Upto(v) == {x \in S : x.ms <= v}
            Below(v) == {x \in S : x.ms < v}
            T == {v \in {x.ms : x \in S} : k <= Cardinality(Upto(v))}
<1>1. \A v : /\ Upto(v) \subseteq S /\ IsFiniteSet(Upto(v)) /\ Cardinality(Upto(v)) \in Nat
             /\ Below(v) \subseteq S /\ IsFiniteSet(Below(v)) /\ Cardinality(Below(v)) \in Nat
  BY SubsetCounts
<1>. HIDE DEF Upto, Below
<1>2. Cardinality(S) \in Nat /\ k \in Nat /\ k >= 1 /\ k <= Cardinality(S)
  BY FS_CardinalityType
<1>3. S # {}
  BY <1>2, FS_EmptySet
<1>4. PICK m \in S : \A x \in S : x.ms <= m.ms
  BY <1>3, LongestOf
<1>5. Upto(m.ms) = S
  BY <1>4 DEF Upto
<1>6. m.ms \in T
  BY <1>2, <1>5
<1>7. T \subseteq Nat
  OBVIOUS
<1>8. PICK v \in T : \A u \in T : v <= u
  BY <1>6, <1>7, LeastOf
<1>9. v \in Nat /\ v \in {x.ms : x \in S} /\ k <= Cardinality(Upto(v))
  BY <1>7
<1>10. ASSUME ~(Cardinality(Below(v)) < k) PROVE FALSE
  <2>1. Cardinality(Below(v)) >= k
    BY <1>1, <1>2, <1>10
  <2>2. Below(v) # {}
    BY <1>1, <1>2, <2>1, FS_EmptySet
  <2>3. PICK u \in Below(v) : \A x \in Below(v) : x.ms <= u.ms
    BY <1>1, <2>2, LongestOf
  <2>4. u \in S /\ u.ms \in Nat /\ u.ms < v
    BY DEF Below
  <2>5. Upto(u.ms) = Below(v)
    <3>1. \A x \in S : x.ms <= u.ms <=> x.ms < v
      BY <1>9, <2>3, <2>4 DEF Below
    <3>2. QED
      BY <3>1 DEF Upto, Below
  <2>6. u.ms \in T
    BY <2>1, <2>4, <2>5
  <2>7. v <= u.ms
    BY <1>8, <2>6
  <2>8. QED
    BY <1>9, <2>4, <2>7
<1>11. QED
  BY <1>9, <1>10 DEF Upto, Below

LEMMA MedianIsNatural ==
  ASSUME NEW S, IsFiniteSet(S), S # {}, \A x \in S : x.ms \in Nat
  PROVE  Reports!TwiceMedian(S) \in Nat
<1>1. PICK n : n = Cardinality(S)
  OBVIOUS
<1>2. n \in Nat /\ n # 0
  BY <1>1, FS_CardinalityType, FS_EmptySet
<1>. DEFINE Nth(k) == CHOOSE v \in {x.ms : x \in S} :
              Cardinality({x \in S : x.ms < v}) < k /\ k <= Cardinality({x \in S : x.ms <= v})
<1>3. \A k \in 1 .. n : Nth(k) \in Nat
  <2>1. TAKE k \in 1 .. n
  <2>2. k \in 1 .. Cardinality(S)
    BY <1>1
  <2>3. \E v \in {x.ms : x \in S} :
           Cardinality({x \in S : x.ms < v}) < k /\ k <= Cardinality({x \in S : x.ms <= v})
    BY <2>2, RanksAre
  <2>4. Nth(k) \in {x.ms : x \in S}
    BY <2>3
  <2>5. QED
    BY <2>4
<1>4. (n + 1) \div 2 \in 1 .. n /\ n \div 2 + 1 \in 1 .. n
  BY <1>2
<1>5. Reports!TwiceMedian(S) = Nth((n + 1) \div 2) + Nth(n \div 2 + 1)
  BY <1>1, ReportsCount DEF Reports!TwiceMedian, Reports!Smallest
<1>. HIDE DEF Nth
<1>6. QED
  BY <1>3, <1>4, <1>5

LEMMA RulesAreKept ==
  ASSUME NEW dr PROVE KeptRules(dr) \subseteq UNION {r.rules : r \in Reports!Named(dr, {"wizard_validation_failed"})}
<1>. DEFINE failed == UNION {r.rules : r \in Reports!Named(dr, {"wizard_validation_failed"})}
<1>1. PICK R \in SUBSET failed : \A q : q \in Reports!FunnelMetrics(dr) <=>
           \/ \E s \in Reports!ToSet(Reports!Stages) :
                /\ Reports!Reached(dr, s) # {}
                /\ q = Reports!Point("stage", s, Reports!DistinctShops(Reports!Reached(dr, s)))
           \/ \E r \in R : q = Reports!Point("rule", r, Reports!RuleFailures(dr, r))
  BY DEF Reports!FunnelMetrics, Reports!Foremost
<1>2. \A q \in Reports!FunnelMetrics(dr) : q.metric = "rule" => q.dim \in R
  BY <1>1 DEF Reports!Point
<1>3. QED
  BY <1>2 DEF KeptRules

\* The stages are the steps, and a start and an end.
LEMMA StepsAreStages ==
  /\ Reports!ToSet(Steps) \subseteq Reports!ToSet(Reports!Stages)
  /\ \E n \in Nat : DOMAIN Reports!Stages = 1 .. n /\ n >= 1
<1>1. PICK D : Steps \in Seq(D) /\ "started" \in D /\ "completed" \in D
  <2>1. PICK B : Steps \in Seq(B)
    BY Configuration
  <2>2. Steps \in Seq(B \cup {"started", "completed"})
    BY <2>1, SeqMonotonic
  <2>3. QED
    BY <2>2
<1>2. \A x \in D : <<x>> \in Seq(D) /\ Len(<<x>>) = 1
  OBVIOUS
<1>3. PICK start, end : /\ start = <<"started">> /\ end = <<"completed">> /\ start \in Seq(D) /\ end \in Seq(D)
                        /\ Len(start) = 1 /\ Len(end) = 1
  BY <1>1, <1>2
<1>4. PICK most : most = start \o Steps /\ most \in Seq(D)
  BY <1>1, <1>3, ConcatProperties
<1>5. PICK k \in Nat : k = Len(Steps) /\ DOMAIN Steps = 1 .. k
  BY <1>1, LenProperties
<1>6. Len(most) = 1 + k /\ \A i \in 1 .. k : most[1 + i] = Steps[i]
  <2>1. Len(most) = 1 + k /\ \A i \in 1 .. Len(most) : most[i] = IF i <= 1 THEN start[i] ELSE Steps[i - 1]
    BY <1>1, <1>3, <1>4, <1>5, ConcatProperties
  <2>2. \A i \in 1 .. k : 1 + i \in 1 .. 1 + k /\ ~(1 + i <= 1) /\ (1 + i) - 1 = i
    OBVIOUS
  <2>3. QED
    BY <2>1, <2>2
<1>7. Reports!Stages = most \o end
  BY <1>3, <1>4 DEF Reports!Stages
<1>8. /\ Reports!Stages \in Seq(D) /\ Len(Reports!Stages) = 2 + k
      /\ \A i \in 1 .. 1 + k : Reports!Stages[i] = most[i]
  <2>1. /\ most \o end \in Seq(D) /\ Len(most \o end) = (1 + k) + 1
        /\ \A i \in 1 .. Len(most \o end) : (most \o end)[i] = IF i <= 1 + k THEN most[i] ELSE end[i - (1 + k)]
    BY <1>3, <1>4, <1>6, ConcatProperties
  <2>2. (1 + k) + 1 = 2 + k /\ \A i \in 1 .. 1 + k : i \in 1 .. (1 + k) + 1 /\ i <= 1 + k
    OBVIOUS
  <2>3. QED
    BY <1>7, <2>1, <2>2
<1>9. DOMAIN Reports!Stages = 1 .. 2 + k
  BY <1>8, LenProperties
<1>10. \A i \in 1 .. k : 1 + i \in 1 .. 1 + k /\ 1 + i \in 1 .. 2 + k /\ Reports!Stages[1 + i] = Steps[i]
  BY <1>6, <1>8
<1>11. QED
  <2>1. 2 + k \in Nat /\ 2 + k >= 1
    OBVIOUS
  <2>2. QED
    BY <1>5, <1>9, <1>10, <2>1 DEF Reports!ToSet

\* What is written for a day is a row.
LEMMA PointsTyped ==
  ASSUME NEW dr, IsFiniteSet(dr), NEW wr, IsFiniteSet(wr), \A r \in dr : r.ms \in Int,
         \A r \in dr : r.name \in Reports!Dims /\ r.rules \subseteq Reports!Dims,
         NEW day, NEW p \in Reports!DayPoints(dr, wr, day)
  PROVE  p.metric \in DayMetrics /\ p.dim \in Reports!Dims /\ p.value \in Nat
<1>1. /\ p = Reports!Point(p.metric, p.dim, ValueOf(dr, wr, day, p.metric, p.dim))
      /\ p.metric \in DayMetrics /\ p.dim \in DimsOf(dr, p.metric)
  BY PointValue
<1>2. PICK m, d : m = p.metric /\ d = p.dim /\ m \in DayMetrics /\ d \in DimsOf(dr, m)
  BY <1>1
<1>3. p.value = ValueOf(dr, wr, day, m, d)
  BY <1>1, <1>2 DEF Reports!Point
<1>4. /\ "" \in Reports!Dims /\ Reports!ToSet(Reports!Stages) \subseteq Reports!Dims
      /\ Reports!Adoption \subseteq Reports!Dims /\ Reports!ToSet(Steps) \subseteq Reports!ToSet(Reports!Stages)
  BY StepsAreStages DEF Reports!Dims
<1>5. d \in Reports!Dims
  <2>1. CASE m = "action"
    BY <1>2, <2>1 DEF DimsOf
  <2>2. CASE m = "stage"
    BY <1>2, <1>4, <2>2 DEF DimsOf
  <2>3. CASE m = "rule"
    <3>1. d \in KeptRules(dr)
      BY <1>2, <2>3 DEF DimsOf
    <3>2. PICK r \in dr : d \in r.rules
      BY <3>1, RulesAreKept DEF Reports!Named
    <3>3. QED
      BY <3>2
  <2>4. CASE m \in {"adoption30", "adoption90"}
    BY <1>2, <1>4, <2>4 DEF DimsOf
  <2>5. CASE m = "dwell"
    BY <1>2, <1>4, <2>5 DEF DimsOf
  <2>6. CASE m \in {"dau", "events", "wau", "mau", "active30", "active90"}
    <3>1. d = ""
      BY <1>2, <2>6 DEF DimsOf
    <3>2. QED
      BY <1>4, <3>1
  <2>7. QED
    BY <1>2, <2>1, <2>2, <2>3, <2>4, <2>5, <2>6 DEF DayMetrics
<1>. DEFINE month == Reports!Since(wr, day + 1, Month)
            week == Reports!Since(wr, day + 1, Week)
<1>6. month \subseteq wr /\ week \subseteq wr
  BY DEF Reports!Since
<1>7. \A T : T \subseteq dr => Cardinality(T) \in Nat /\ Reports!DistinctShops(T) \in Nat
  BY SubsetCounts, ShopsCount
<1>8. \A T : T \subseteq wr => Reports!DistinctShops(T) \in Nat
  BY ShopsCount
<1>. HIDE DEF month, week
<1>9. ValueOf(dr, wr, day, m, d) \in Nat
  <2>1. CASE m \in {"dau", "events"}
    BY <1>7, <2>1 DEF ValueOf
  <2>2. CASE m \in {"wau", "mau", "active30", "active90"}
    BY <1>6, <1>8, <2>2 DEF ValueOf, month, week
  <2>3. CASE m = "action"
    <3>1. Reports!Named(dr, {d}) \subseteq dr
      BY DEF Reports!Named
    <3>2. QED
      BY <1>7, <2>3, <3>1 DEF ValueOf
  <2>4. CASE m = "stage"
    <3>1. Reports!Reached(dr, d) \subseteq dr
      BY DEF Reports!Reached, Reports!Named, Reports!Saves
    <3>2. QED
      BY <1>7, <2>4, <3>1 DEF ValueOf
  <2>5. CASE m = "rule"
    <3>1. {r \in Reports!Named(dr, {"wizard_validation_failed"}) : d \in r.rules} \subseteq dr
      BY DEF Reports!Named
    <3>2. QED
      BY <1>7, <2>5, <3>1, ReportsCount DEF ValueOf, Reports!RuleFailures
  <2>6. CASE m = "adoption30"
    <3>1. Reports!Touching(month, d) \subseteq wr
      BY <1>6 DEF Reports!Touching, Reports!Named
    <3>2. QED
      BY <1>8, <2>6, <3>1 DEF ValueOf, month
  <2>7. CASE m = "adoption90"
    <3>1. Reports!Touching(wr, d) \subseteq wr
      BY DEF Reports!Touching, Reports!Named
    <3>2. QED
      BY <1>8, <2>7, <3>1 DEF ValueOf
  <2>8. CASE m = "dwell"
    <3>1. PICK S : S = Reports!Samples(dr, d) /\ S # {}
      BY <1>2, <2>8 DEF DimsOf
    <3>2. S \subseteq dr /\ \A x \in S : x.ms >= 0
      BY <3>1 DEF Reports!Samples, Reports!Saves, Reports!Named
    <3>3. \A x \in S : x.ms \in Nat
      BY <3>2
    <3>4. IsFiniteSet(S)
      BY <3>2, SubsetCounts
    <3>5. Reports!TwiceMedian(S) \in Nat
      BY <3>1, <3>3, <3>4, MedianIsNatural
    <3>6. QED
      BY <2>8, <3>1, <3>5 DEF ValueOf
  <2>9. QED
    BY <1>2, <2>1, <2>2, <2>3, <2>4, <2>5, <2>6, <2>7, <2>8 DEF DayMetrics
<1>10. QED
  BY <1>1, <1>2, <1>3, <1>5, <1>9

\* A metric and a dimension have one value.
LEMMA PointsKeyed ==
  ASSUME NEW dr, NEW wr, NEW day, NEW p \in Reports!DayPoints(dr, wr, day), NEW q \in Reports!DayPoints(dr, wr, day),
         p.metric = q.metric, p.dim = q.dim
  PROVE  p = q
<1>1. /\ p = Reports!Point(p.metric, p.dim, ValueOf(dr, wr, day, p.metric, p.dim))
      /\ q = Reports!Point(q.metric, q.dim, ValueOf(dr, wr, day, q.metric, q.dim))
  BY PointValue
<1>2. QED
  BY <1>1

\* What more events are given, that they are still given, but for the rules.
LEMMA KindsGrow ==
  ASSUME NEW dr, NEW more, dr \subseteq more, NEW metric \in DayMetrics \ {"rule"}, NEW dim \in DimsOf(dr, metric)
  PROVE  dim \in DimsOf(more, metric)
<1>1. Reports!Reached(dr, dim) \subseteq Reports!Reached(more, dim)
  BY DEF Reports!Reached, Reports!Named, Reports!Saves
<1>2. Reports!Samples(dr, dim) \subseteq Reports!Samples(more, dim)
  BY DEF Reports!Samples, Reports!Saves, Reports!Named
<1>3. CASE metric = "action"
  BY <1>3 DEF DimsOf
<1>4. CASE metric = "stage"
  BY <1>1, <1>4 DEF DimsOf
<1>5. CASE metric = "dwell"
  BY <1>2, <1>5 DEF DimsOf
<1>6. CASE metric \in {"dau", "events", "wau", "mau", "active30", "active90", "adoption30", "adoption90"}
  BY <1>6 DEF DimsOf
<1>7. QED
  BY <1>3, <1>4, <1>5, <1>6 DEF DayMetrics

-----------------------------------------------------------------------------
(* The state of the rollups.                                               *)

MatrixMetrics == {"cohort_size", "cohort"}
Labels == {"CHURNED", "NEW", "ONBOARDING", "ACTIVATED", "ENGAGED", "DORMANT"}

\* The events there have been; whether none of them has been deleted.
Seen == {History[i] : i \in 1 .. copied}
NoneDeleted == Cardinality(copies) = copied

DayRow(day, p) == [day |-> day, metric |-> p.metric, dim |-> p.dim, value |-> p.value]
OfDay(day) == {r \in daily : r.day = day /\ r.metric \in DayMetrics}

\* The points of a day of which the first read found M and the second W.
PointsOf(M, W, day) == Reports!DayPoints(Reports!DayRows(M, day), Reports!WindowRows(W, day), day)
NamesOf(M, day) == {e.name : e \in Reports!DayRows(M, day)}

Labelled(c) == c.shop \in Reports!Shops /\ c.at \in Nat /\ c.at <= now /\ c.lifecycle \in Labels

JobTyped(w) ==
  job[w].pc # "idle" =>
    /\ job[w] = [pc |-> job[w].pc, kind |-> job[w].kind, day |-> job[w].day, upto |-> job[w].upto, at |-> job[w].at,
              attempt |-> job[w].attempt, clean |-> job[w].clean, alone |-> job[w].alone, rows |-> job[w].rows, todo |-> job[w].todo,
              points |-> job[w].points]
    /\ job[w].kind \in {"incremental", "finalize", "cohort", "backfill"}
    /\ job[w].at \in 0 .. now /\ job[w].clean \in BOOLEAN /\ job[w].alone \in BOOLEAN /\ job[w].attempt \in Nat
    /\ job[w].day \in Nat /\ job[w].upto \in Nat /\ job[w].day <= job[w].upto /\ job[w].upto <= Reports!DayOf(job[w].at)
    /\ job[w].kind = "finalize" => Reports!DayOf(job[w].at) >= 1
    /\ job[w].pc = "activity" => job[w].rows \subseteq Seen
    /\ job[w].pc = "retention" => \A r \in job[w].todo : r \in Reports!Rows /\ r.metric \in MatrixMetrics
    /\ job[w].pc = "append" => IsFiniteSet(job[w].rows) /\ \A c \in job[w].rows : Labelled(c)

MirrorTyped == now \in 0 .. MaxNow /\ copied \in 0 .. Len(History) /\ copies \subseteq Seen

RepTyped ==
  /\ MirrorTyped
  /\ jobs \in Nat /\ failures \in Nat
  /\ IsFiniteSet(daily) /\ daily \subseteq Reports!Rows
  /\ \A k \in kpis : k \in [asOf : Nat, wau : Nat, mau : Nat, events : Nat]
  /\ IsFiniteSet(cohorts) /\ \A c \in cohorts : Labelled(c)
  /\ settled \subseteq 0 .. Reports!Today /\ torn \subseteq 0 .. Reports!Today

RowsKeyed == \A r, q \in daily : Reports!SameKey(r, q) => r = q

\* The actions stored for a day are among those named.
ActionsAmong(names, day) == \A r \in OfDay(day) : r.metric = "action" => r.dim \in names

\* What the first read of a day has found; of the actions, if no other rollup has stored any.
JobReads(w) ==
  job[w].pc = "window" =>
    \E M \in SUBSET Seen :
      /\ job[w].rows = Reports!DayRows(M, job[w].day)
      /\ job[w].clean => M = copies
      /\ NoneDeleted => M \subseteq copies /\ (job[w].alone => ActionsAmong(NamesOf(M, job[w].day), job[w].day))

\* The points of which some have been stored are those of two reads.
Reading(w, M, W) ==
  /\ job[w].points = PointsOf(M, W, job[w].day)
  /\ job[w].clean => M = copies /\ W = copies
  /\ NoneDeleted => /\ M \subseteq W /\ W \subseteq copies
                    /\ job[w].alone => ActionsAmong(NamesOf(M, job[w].day), job[w].day)

HasDau(day) == \E q \in OfDay(day) : q.metric = "dau" /\ q.dim = ""

\* The points that have been stored are there, if no other rollup has stored others; the first
\* is in any case.
JobWrites(w) ==
  job[w].pc = "write" =>
    /\ job[w].todo \subseteq job[w].points
    /\ job[w].alone => \A p \in job[w].points \ job[w].todo : DayRow(job[w].day, p) \in daily
    /\ (\A p \in job[w].todo : p.metric # "dau") => HasDau(job[w].day)
    /\ \E M \in SUBSET Seen : \E W \in SUBSET Seen : Reading(w, M, W)

Stations == {"idle", "day", "window", "write", "installs", "activity", "retention", "cohort", "append"}
JobSound(w) == job[w].pc \in Stations /\ JobTyped(w) /\ JobReads(w) /\ JobWrites(w)
JobsSound == job = [w \in Workers |-> job[w]] /\ \A w \in Workers : JobSound(w)

\* The points of two reads are stored, and of actions nothing else.
Holds(M, W, day) ==
  /\ \A p \in PointsOf(M, W, day) : DayRow(day, p) \in daily
  /\ \E k \in kpis : /\ k.asOf = day + 1
                     /\ k.wau = Reports!DistinctShops(Reports!Since(Reports!WindowRows(W, day), day + 1, Week))
  /\ NoneDeleted => M \subseteq W /\ ActionsAmong(NamesOf(M, day), day)
Whole(day) == \E M \in SUBSET Seen : \E W \in SUBSET Seen : Holds(M, W, day)

DaysStored ==
  /\ \A r \in daily : r.metric \in DayMetrics => r.day \in 0 .. Reports!Today /\ HasDau(r.day)
  /\ \A k \in kpis : k.asOf >= 1 /\ HasDau(k.asOf - 1)
  /\ \A r \in daily : r.metric \in DayMetrics /\ r.day \notin torn => Whole(r.day)
  /\ \A d \in settled : \A p \in PointsOf(copies, copies, d) : DayRow(d, p) \in daily

\* What is stored is of a kind that the mirror still gives.
KindsGiven ==
  NoneDeleted => \A r \in daily : r.metric \in DayMetrics \ {"rule"} =>
    r.dim \in DimsOf(Reports!DayRows(copies, r.day), r.metric)

RepInv == RepTyped /\ RowsKeyed /\ JobsSound /\ DaysStored /\ KindsGiven

-----------------------------------------------------------------------------
(* What the mirror holds.                                                  *)

LEMMA SeenAre ==
  ASSUME MirrorTyped
  PROVE  /\ Seen \subseteq Reports!Events /\ IsFiniteSet(Seen) /\ Cardinality(Seen) <= copied /\ copied \in Nat
         /\ IsFiniteSet(copies) /\ Cardinality(copies) \in Nat /\ Cardinality(copies) <= copied
         /\ \A r \in Seen : /\ r.at \in Nat /\ r.ms \in Int /\ r.shop \in Reports!Shops
                            /\ r.name \in Reports!Dims /\ r.rules \subseteq Reports!Dims
<1>1. PICK n \in Nat : n = Len(History) /\ DOMAIN History = 1 .. n /\ copied \in 0 .. n
  BY Configuration, LenProperties DEF MirrorTyped
<1>2. \A i \in 1 .. copied : i \in 1 .. n /\ History[i] \in Reports!Events
  <2>1. \A i \in 1 .. copied : i \in 1 .. n
    BY <1>1
  <2>2. \A i \in 1 .. n : History[i] \in Reports!Events
    BY <1>1, Configuration, ElementOfSeq
  <2>3. QED
    BY <2>1, <2>2
<1>3. copied \in Nat
  BY <1>1
<1>. DEFINE f == [i \in 1 .. copied |-> History[i]]
<1>4. f \in Surjection(1 .. copied, Seen)
  BY DEF Surjection, Seen
<1>5. IsFiniteSet(1 .. copied) /\ Cardinality(1 .. copied) = copied
  BY <1>3, FS_Interval
<1>. HIDE DEF f
<1>6. IsFiniteSet(Seen) /\ Cardinality(Seen) <= copied
  BY <1>4, <1>5, FS_Surjection
<1>7. IsFiniteSet(copies) /\ Cardinality(copies) \in Nat /\ Cardinality(copies) <= copied
  <2>1. copies \subseteq Seen
    BY DEF MirrorTyped
  <2>2. /\ IsFiniteSet(copies) /\ Cardinality(copies) \in Nat /\ Cardinality(Seen) \in Nat
        /\ Cardinality(copies) <= Cardinality(Seen)
    BY <1>6, <2>1, SubsetCounts
  <2>3. QED
    BY <1>3, <1>6, <2>2
<1>8. ASSUME NEW r \in Seen
      PROVE  /\ r.at \in Nat /\ r.ms \in Int /\ r.shop \in Reports!Shops
             /\ r.name \in Reports!Dims /\ r.rules \subseteq Reports!Dims
  <2>1. PICK i \in 1 .. n : r = History[i] /\ r \in Reports!Events
    BY <1>2 DEF Seen
  <2>2. r.at \in Nat /\ r.ms \in Int
    BY <2>1 DEF Reports!Events
  <2>3. r.shop \in Reports!Shops
    BY <1>1, <2>1 DEF Reports!Shops
  <2>4. r.name \in Reports!Dims /\ r.rules \subseteq Reports!Dims
    BY <1>1, <2>1 DEF Reports!Dims
  <2>5. QED
    BY <2>2, <2>3, <2>4
<1>9. QED
  BY <1>2, <1>3, <1>6, <1>7, <1>8 DEF Seen

\* What is read of the mirror is events of it.
LEMMA ReadsAre ==
  ASSUME MirrorTyped, NEW M, M \subseteq Seen, NEW day
  PROVE  /\ Reports!DayRows(M, day) \subseteq M /\ Reports!WindowRows(M, day) \subseteq M /\ IsFiniteSet(M)
         /\ IsFiniteSet(Reports!DayRows(M, day)) /\ IsFiniteSet(Reports!WindowRows(M, day))
<1>1. Reports!DayRows(M, day) \subseteq M /\ Reports!WindowRows(M, day) \subseteq M
  BY DEF Reports!DayRows, Reports!WindowRows, Reports!ReadWindow
<1>2. IsFiniteSet(M)
  BY SeenAre, SubsetCounts
<1>3. QED
  BY <1>1, <1>2, SubsetCounts

LEMMA ReadsGrow ==
  ASSUME NEW M, NEW W, M \subseteq W, NEW day
  PROVE  Reports!DayRows(M, day) \subseteq Reports!DayRows(W, day) /\ NamesOf(M, day) \subseteq NamesOf(W, day)
<1>1. Reports!DayRows(M, day) \subseteq Reports!DayRows(W, day)
  BY DEF Reports!DayRows, Reports!ReadWindow
<1>2. QED
  BY <1>1 DEF NamesOf

\* The points of two reads are rows of the day, one for each metric and dimension.
LEMMA PointsOfReads ==
  ASSUME MirrorTyped, NEW M, M \subseteq Seen, NEW W, W \subseteq Seen, NEW day \in Nat
  PROVE  /\ \A p \in PointsOf(M, W, day) :
              /\ p.metric \in DayMetrics /\ p.dim \in Reports!Dims /\ p.value \in Nat
              /\ DayRow(day, p) \in Reports!Rows /\ p.dim \in DimsOf(Reports!DayRows(M, day), p.metric)
         /\ \A p, q \in PointsOf(M, W, day) : p.metric = q.metric /\ p.dim = q.dim => p = q
<1>1. PICK dr, wr : dr = Reports!DayRows(M, day) /\ wr = Reports!WindowRows(W, day)
  OBVIOUS
<1>2. IsFiniteSet(dr) /\ IsFiniteSet(wr) /\ dr \subseteq Seen
  BY <1>1, ReadsAre
<1>3. \A r \in dr : r.ms \in Int /\ r.name \in Reports!Dims /\ r.rules \subseteq Reports!Dims
  BY <1>2, SeenAre
<1>4. PointsOf(M, W, day) = Reports!DayPoints(dr, wr, day)
  BY <1>1 DEF PointsOf
<1>5. ASSUME NEW p \in Reports!DayPoints(dr, wr, day)
      PROVE  /\ p.metric \in DayMetrics /\ p.dim \in Reports!Dims /\ p.value \in Nat
             /\ DayRow(day, p) \in Reports!Rows /\ p.dim \in DimsOf(dr, p.metric)
  <2>1. p.metric \in DayMetrics /\ p.dim \in Reports!Dims /\ p.value \in Nat
    BY <1>2, <1>3, PointsTyped
  <2>2. p.dim \in DimsOf(dr, p.metric)
    BY PointValue
  <2>3. DayRow(day, p) \in Reports!Rows
    BY <2>1, MetricsOfDay DEF DayRow, Reports!Rows
  <2>4. QED
    BY <2>1, <2>2, <2>3
<1>6. \A p, q \in Reports!DayPoints(dr, wr, day) : p.metric = q.metric /\ p.dim = q.dim => p = q
  BY PointsKeyed
<1>7. QED
  BY <1>1, <1>4, <1>5, <1>6

\* Days follow instants.
LEMMA DaysFollow ==
  ASSUME NEW s \in Nat, NEW t \in Nat, s <= t
  PROVE  Reports!DayOf(s) \in Nat /\ Reports!DayOf(t) \in Nat /\ Reports!DayOf(s) <= Reports!DayOf(t)
<1>1. PICK n \in Nat \ {0} : n = DayLength
  BY Configuration
<1>2. s \div n \in Nat /\ t \div n \in Nat /\ s \div n <= t \div n
  <2>1. PICK a, b, c, d : a = s \div n /\ b = t \div n /\ c = s % n /\ d = t % n
    OBVIOUS
  <2>2. a \in Int /\ b \in Int /\ c \in 0 .. n - 1 /\ d \in 0 .. n - 1 /\ s = n * a + c /\ t = n * b + d
    BY <2>1
  <2>3. a >= 0 /\ b >= 0
    BY <2>2
  <2>4. a <= b
    <3>1. ASSUME ~(a <= b) PROVE FALSE
      <4>1. a >= b + 1
        BY <2>2, <3>1
      <4>2. n * a >= n * (b + 1)
        BY <2>2, <4>1
      <4>3. n * (b + 1) = n * b + n
        BY <2>2
      <4>4. n * a \in Int /\ n * b \in Int
        BY <2>2
      <4>5. QED
        BY <2>2, <4>2, <4>3, <4>4
    <3>2. QED
      BY <3>1
  <2>5. QED
    BY <2>1, <2>2, <2>3, <2>4
<1>3. QED
  BY <1>1, <1>2 DEF Reports!DayOf

\* Points are stored in the order of their metrics, of which the active shops are the first.
LEMMA DauIsFirst ==
  ASSUME NEW todo, todo # {}, \A p \in todo : p.metric \in DayMetrics
  PROVE  /\ Reports!FirstOf(todo) \in todo
         /\ (\E p \in todo : p.metric = "dau") => Reports!FirstOf(todo).metric = "dau"
<1>1. \A m \in DayMetrics : Reports!Place(m) \in 1 .. 12 /\ Reports!DayMetrics[Reports!Place(m)] = m
  <2>1. \A m \in DayMetrics : \E i \in 1 .. 12 : Reports!DayMetrics[i] = m
    BY MetricsOfDay DEF Reports!ToSet
  <2>2. QED
    BY <2>1, MetricsOfDay DEF Reports!Place
<1>2. \A m \in DayMetrics : Reports!Place(m) = 1 <=> m = "dau"
  BY <1>1, MetricsOfDay
<1>. DEFINE T == {Reports!Place(p.metric) : p \in todo}
<1>3. T \subseteq Nat /\ T # {}
  BY <1>1
<1>4. PICK l \in T : \A k \in T : l <= k
  BY <1>3, LeastOf
<1>5. PICK f : f = CHOOSE p \in todo : \A q \in todo : Reports!Place(p.metric) <= Reports!Place(q.metric)
  OBVIOUS
<1>6. f \in todo /\ \A q \in todo : Reports!Place(f.metric) <= Reports!Place(q.metric)
  BY <1>4, <1>5
<1>. DEFINE begun == {q \in todo : q.metric = "adoption90"
                                  /\ ~\E p \in todo : p.metric = "adoption30" /\ p.dim = q.dim}
<1>9. Reports!FirstOf(todo)
        = IF f.metric \in {"adoption30", "adoption90"} /\ begun # {} THEN CHOOSE q \in begun : TRUE ELSE f
  BY <1>5 DEF Reports!FirstOf
<1>10. Reports!FirstOf(todo) \in todo /\ (f.metric = "dau" => Reports!FirstOf(todo) = f)
  BY <1>6, <1>9
<1>7. ASSUME NEW p \in todo, p.metric = "dau" PROVE f.metric = "dau"
  <2>1. Reports!Place(f.metric) <= Reports!Place(p.metric) /\ Reports!Place(p.metric) = 1
    BY <1>2, <1>6, <1>7
  <2>2. Reports!Place(f.metric) \in 1 .. 12
    BY <1>1, <1>6
  <2>3. Reports!Place(f.metric) = 1
    BY <2>1, <2>2
  <2>4. QED
    BY <1>2, <1>6, <2>3
<1>8. QED
  BY <1>7, <1>10

-----------------------------------------------------------------------------
(* The numbers of a day.                                                   *)

\* The rows of a day's points, from what was read.
RowsOf(dr, wr, day) == {DayRow(day, p) : p \in Reports!DayPoints(dr, wr, day)}

\* A row has the value of its metric and dimension; and there is one for each.
LEMMA RowsHave ==
  ASSUME NEW dr, NEW wr, NEW day
  PROVE  /\ \A r \in RowsOf(dr, wr, day) :
              /\ r.day = day /\ r.metric \in DayMetrics /\ r.dim \in DimsOf(dr, r.metric)
              /\ r.value = ValueOf(dr, wr, day, r.metric, r.dim)
              /\ r = [day |-> day, metric |-> r.metric, dim |-> r.dim, value |-> r.value]
         /\ \A metric \in DayMetrics : \A dim \in DimsOf(dr, metric) :
              [day |-> day, metric |-> metric, dim |-> dim, value |-> ValueOf(dr, wr, day, metric, dim)]
                \in RowsOf(dr, wr, day)
<1>1. ASSUME NEW p \in Reports!DayPoints(dr, wr, day)
      PROVE  /\ p.metric \in DayMetrics /\ p.dim \in DimsOf(dr, p.metric)
             /\ p.value = ValueOf(dr, wr, day, p.metric, p.dim)
  <2>1. /\ p = Reports!Point(p.metric, p.dim, ValueOf(dr, wr, day, p.metric, p.dim))
        /\ p.metric \in DayMetrics /\ p.dim \in DimsOf(dr, p.metric)
    BY PointValue
  <2>2. QED
    BY <2>1 DEF Reports!Point
<1>2. ASSUME NEW metric \in DayMetrics, NEW dim \in DimsOf(dr, metric)
      PROVE  [day |-> day, metric |-> metric, dim |-> dim, value |-> ValueOf(dr, wr, day, metric, dim)]
                \in RowsOf(dr, wr, day)
  <2>1. PICK v : v = ValueOf(dr, wr, day, metric, dim)
    OBVIOUS
  <2>2. Reports!Point(metric, dim, v) \in Reports!DayPoints(dr, wr, day)
    BY <2>1, PointValue
  <2>3. DayRow(day, Reports!Point(metric, dim, v)) = [day |-> day, metric |-> metric, dim |-> dim, value |-> v]
    BY DEF DayRow, Reports!Point
  <2>4. QED
    BY <2>1, <2>2, <2>3 DEF RowsOf
<1>3. ASSUME NEW r \in RowsOf(dr, wr, day)
      PROVE  /\ r.day = day /\ r.metric \in DayMetrics /\ r.dim \in DimsOf(dr, r.metric)
             /\ r.value = ValueOf(dr, wr, day, r.metric, r.dim)
             /\ r = [day |-> day, metric |-> r.metric, dim |-> r.dim, value |-> r.value]
  <2>1. PICK p \in Reports!DayPoints(dr, wr, day) : r = DayRow(day, p)
    BY DEF RowsOf
  <2>2. r.day = day /\ r.metric = p.metric /\ r.dim = p.dim /\ r.value = p.value
    BY <2>1 DEF DayRow
  <2>3. QED
    BY <1>1, <2>1, <2>2 DEF DayRow
<1>4. QED
  BY <1>2, <1>3

Scalars == {"dau", "events", "wau", "mau", "active30", "active90"}

\* A day has one row for a scalar metric.
LEMMA ScalarRow ==
  ASSUME NEW dr, NEW wr, NEW day, NEW m \in Scalars
  PROVE  /\ m \in DayMetrics /\ DimsOf(dr, m) = {""}
         /\ [day |-> day, metric |-> m, dim |-> "", value |-> ValueOf(dr, wr, day, m, "")] \in RowsOf(dr, wr, day)
         /\ \A r \in RowsOf(dr, wr, day) : r.metric = m => r.dim = "" /\ r.value = ValueOf(dr, wr, day, m, "")
<1>1. m \in DayMetrics /\ DimsOf(dr, m) = {""}
  BY DEF DimsOf, DayMetrics, Scalars
<1>2. [day |-> day, metric |-> m, dim |-> "", value |-> ValueOf(dr, wr, day, m, "")] \in RowsOf(dr, wr, day)
  <2>1. "" \in DimsOf(dr, m)
    BY <1>1
  <2>2. QED
    BY <1>1, <2>1, RowsHave
<1>3. ASSUME NEW r \in RowsOf(dr, wr, day), r.metric = m PROVE r.dim = "" /\ r.value = ValueOf(dr, wr, day, m, "")
  <2>1. r.dim \in DimsOf(dr, r.metric) /\ r.value = ValueOf(dr, wr, day, r.metric, r.dim)
    BY RowsHave
  <2>2. QED
    BY <1>1, <1>3, <2>1
<1>4. QED
  BY <1>1, <1>2, <1>3

\* Each event of a day is of one action.
LEMMA ActionsCount ==
  ASSUME NEW dr, IsFiniteSet(dr), NEW wr, NEW day, NEW R,
         \A r : r \in R <=> r \in RowsOf(dr, wr, day) /\ r.metric = "action"
  PROVE  Reports!Total(R) = Cardinality(dr)
<1>. DEFINE Row(n) == [day |-> day, metric |-> "action", dim |-> n, value |-> ValueOf(dr, wr, day, "action", n)]
<1>1. \A x \in dr : Row(x.name) \in R
  <2>1. TAKE x \in dr
  <2>2. "action" \in DayMetrics /\ x.name \in DimsOf(dr, "action")
    BY DEF DayMetrics, DimsOf
  <2>3. Row(x.name) \in RowsOf(dr, wr, day)
    BY <2>2, RowsHave
  <2>4. QED
    BY <2>3
<1>2. \A r \in R : r = Row(r.dim) /\ r.value = Cardinality(Reports!Named(dr, {r.dim}))
  <2>1. TAKE r \in R
  <2>2. /\ r.metric = "action" /\ r.value = ValueOf(dr, wr, day, r.metric, r.dim)
        /\ r = [day |-> day, metric |-> r.metric, dim |-> r.dim, value |-> r.value]
    BY RowsHave
  <2>3. ValueOf(dr, wr, day, "action", r.dim) = Cardinality(Reports!Named(dr, {r.dim}))
    BY DEF ValueOf
  <2>4. QED
    BY <2>2, <2>3
<1>. DEFINE g == [x \in dr |-> Row(x.name)]
<1>3. g \in [dr -> R]
  BY <1>1
<1>4. \A r \in R : {x \in dr : g[x] = r} = Reports!Named(dr, {r.dim})
  <2>1. TAKE r \in R
  <2>2. \A x \in dr : g[x] = r <=> x.name = r.dim
    BY <1>2
  <2>3. QED
    BY <2>2 DEF Reports!Named
<1>. HIDE DEF g
<1>5. \A r \in R : r.value = Cardinality({x \in dr : g[x] = r})
  BY <1>2, <1>4
<1>6. QED
  BY <1>3, <1>5, TotalOfGroups

\* The value of a metric of a day, of which the first read found M and the second W.
Valued(M, W, day, metric, dim) == ValueOf(Reports!DayRows(M, day), Reports!WindowRows(W, day), day, metric, dim)

\* The families of metrics tell one story.
LEMMA FamiliesAgree ==
  ASSUME NEW M, IsFiniteSet(M), NEW W, IsFiniteSet(W), \A r \in W : r.at \in Nat, NEW day \in Nat
  PROVE  /\ \A m \in {"dau", "wau", "mau", "active30", "active90", "events"} : Valued(M, W, day, m, "") \in Nat
         /\ M \subseteq W => Valued(M, W, day, "dau", "") <= Valued(M, W, day, "wau", "")
         /\ Valued(M, W, day, "wau", "") <= Valued(M, W, day, "mau", "")
         /\ Valued(M, W, day, "mau", "") <= Valued(M, W, day, "active90", "")
         /\ Valued(M, W, day, "mau", "") = Valued(M, W, day, "active30", "")
         /\ \A s : Valued(M, W, day, "stage", s) <= Valued(M, W, day, "dau", "")
         /\ \A f : Valued(M, W, day, "adoption30", f) <= Valued(M, W, day, "active30", "")
         /\ \A f : Valued(M, W, day, "adoption90", f) <= Valued(M, W, day, "active90", "")
<1>1. PICK dr, wr, week, month :
        /\ dr = Reports!DayRows(M, day) /\ wr = Reports!WindowRows(W, day)
        /\ week = Reports!Since(wr, day + 1, Week) /\ month = Reports!Since(wr, day + 1, Month)
  OBVIOUS
<1>2. week \subseteq month /\ month \subseteq wr /\ wr \subseteq W /\ (M \subseteq W => dr \subseteq week)
  <2>1. /\ Reports!DayRows(W, day) \subseteq Reports!Since(Reports!WindowRows(W, day), day + 1, Week)
        /\ Reports!Since(Reports!WindowRows(W, day), day + 1, Week)
              \subseteq Reports!Since(Reports!WindowRows(W, day), day + 1, Month)
        /\ Reports!Since(Reports!WindowRows(W, day), day + 1, Month) \subseteq Reports!WindowRows(W, day)
        /\ Reports!WindowRows(W, day) \subseteq W
    BY WindowsNest
  <2>2. M \subseteq W => Reports!DayRows(M, day) \subseteq Reports!DayRows(W, day)
    BY ReadsGrow
  <2>3. QED
    BY <1>1, <2>1, <2>2
<1>3. IsFiniteSet(wr) /\ IsFiniteSet(month) /\ IsFiniteSet(week) /\ IsFiniteSet(dr) /\ Cardinality(dr) \in Nat
  <2>1. IsFiniteSet(wr)
    BY <1>2, SubsetCounts
  <2>2. IsFiniteSet(month)
    BY <1>2, <2>1, SubsetCounts
  <2>3. IsFiniteSet(week)
    BY <1>2, <2>2, SubsetCounts
  <2>4. dr \subseteq M
    BY <1>1 DEF Reports!DayRows, Reports!ReadWindow
  <2>5. IsFiniteSet(dr) /\ Cardinality(dr) \in Nat
    BY <2>4, SubsetCounts
  <2>6. QED
    BY <2>1, <2>2, <2>3, <2>5
<1>4. /\ Reports!DistinctShops(dr) \in Nat /\ Reports!DistinctShops(week) \in Nat
      /\ M \subseteq W => Reports!DistinctShops(dr) <= Reports!DistinctShops(week)
  BY <1>2, <1>3, ShopsCount
<1>5. Reports!DistinctShops(month) \in Nat /\ Reports!DistinctShops(week) <= Reports!DistinctShops(month)
  BY <1>2, <1>3, ShopsCount
<1>6. Reports!DistinctShops(wr) \in Nat /\ Reports!DistinctShops(month) <= Reports!DistinctShops(wr)
  BY <1>2, <1>3, ShopsCount
<1>7. ASSUME NEW s PROVE Valued(M, W, day, "stage", s) <= Reports!DistinctShops(dr)
  <2>1. Reports!Reached(dr, s) \subseteq dr
    BY DEF Reports!Reached, Reports!Named, Reports!Saves
  <2>2. Valued(M, W, day, "stage", s) = Reports!DistinctShops(Reports!Reached(dr, s))
    BY <1>1 DEF Valued, ValueOf
  <2>3. QED
    BY <1>3, <2>1, <2>2, ShopsCount
<1>8. ASSUME NEW f PROVE Valued(M, W, day, "adoption30", f) <= Reports!DistinctShops(month)
  <2>1. Reports!Touching(month, f) \subseteq month
    BY DEF Reports!Touching, Reports!Named
  <2>2. Valued(M, W, day, "adoption30", f) = Reports!DistinctShops(Reports!Touching(month, f))
    BY <1>1 DEF Valued, ValueOf
  <2>3. QED
    BY <1>3, <2>1, <2>2, ShopsCount
<1>9. ASSUME NEW f PROVE Valued(M, W, day, "adoption90", f) <= Reports!DistinctShops(wr)
  <2>1. Reports!Touching(wr, f) \subseteq wr
    BY DEF Reports!Touching, Reports!Named
  <2>2. Valued(M, W, day, "adoption90", f) = Reports!DistinctShops(Reports!Touching(wr, f))
    BY <1>1 DEF Valued, ValueOf
  <2>3. QED
    BY <1>3, <2>1, <2>2, ShopsCount
<1>10. PICK dau, wau, mau, active30, active90, events :
         /\ dau = Valued(M, W, day, "dau", "") /\ wau = Valued(M, W, day, "wau", "")
         /\ mau = Valued(M, W, day, "mau", "") /\ active30 = Valued(M, W, day, "active30", "")
         /\ active90 = Valued(M, W, day, "active90", "") /\ events = Valued(M, W, day, "events", "")
  OBVIOUS
<1>11. /\ dau = Reports!DistinctShops(dr) /\ wau = Reports!DistinctShops(week)
       /\ mau = Reports!DistinctShops(month) /\ active30 = mau
       /\ active90 = Reports!DistinctShops(wr) /\ events = Cardinality(dr)
  <2>1. /\ ValueOf(dr, wr, day, "dau", "") = Reports!DistinctShops(dr)
        /\ ValueOf(dr, wr, day, "events", "") = Cardinality(dr)
        /\ ValueOf(dr, wr, day, "wau", "") = Reports!DistinctShops(Reports!Since(wr, day + 1, Week))
        /\ ValueOf(dr, wr, day, "mau", "") = Reports!DistinctShops(Reports!Since(wr, day + 1, Month))
        /\ ValueOf(dr, wr, day, "active30", "") = Reports!DistinctShops(Reports!Since(wr, day + 1, Month))
        /\ ValueOf(dr, wr, day, "active90", "") = Reports!DistinctShops(wr)
    BY DEF ValueOf
  <2>2. QED
    BY <1>1, <1>10, <2>1 DEF Valued
<1>12. /\ dau \in Nat /\ wau \in Nat /\ mau \in Nat /\ active90 \in Nat /\ events \in Nat
       /\ (M \subseteq W => dau <= wau) /\ wau <= mau /\ mau <= active90 /\ mau = active30
       /\ \A s : Valued(M, W, day, "stage", s) <= dau
       /\ \A f : Valued(M, W, day, "adoption30", f) <= active30
       /\ \A f : Valued(M, W, day, "adoption90", f) <= active90
  BY <1>3, <1>4, <1>5, <1>6, <1>7, <1>8, <1>9, <1>11
<1>13. QED
  BY <1>10, <1>12

\* The rows computed of a day are those of its two reads.
LEMMA ComputedAre ==
  ASSUME NEW d
  PROVE  Reports!ComputedRows(d) = RowsOf(Reports!DayRows(copies, d), Reports!WindowRows(copies, d), d)
  BY DEF Reports!ComputedRows, RowsOf, DayRow

LEMMA DaysShowAgreement == ASSUME MirrorTyped, settled \subseteq Nat PROVE DaysAgree
<1>. SUFFICES ASSUME NEW d \in settled
              PROVE  LET computed == Reports!ComputedRows(d)
                         of(m) == {r \in computed : r.metric = m}
                         v(m) == (CHOOSE r \in of(m) : TRUE).value IN
                     /\ v("dau") <= v("wau") /\ v("wau") <= v("mau") /\ v("mau") <= v("active90")
                     /\ v("mau") = v("active30")
                     /\ Reports!Total(of("action")) = v("events")
                     /\ \A r \in of("stage") : r.value <= v("dau")
                     /\ \A r \in of("adoption30") : r.value <= v("active30")
                     /\ \A r \in of("adoption90") : r.value <= v("active90")
  BY DEF DaysAgree, Reports!NumbersAgree
<1>1. PICK day \in Nat : day = d
  OBVIOUS
<1>2. PICK dr, wr : dr = Reports!DayRows(copies, day) /\ wr = Reports!WindowRows(copies, day)
  OBVIOUS
<1>3. PICK M : M = copies /\ IsFiniteSet(M) /\ \A r \in M : r.at \in Nat
  BY SeenAre DEF MirrorTyped
<1>. DEFINE computed == RowsOf(dr, wr, day)
            of(m) == {r \in computed : r.metric = m}
            v(m) == (CHOOSE r \in of(m) : TRUE).value
            value(m) == ValueOf(dr, wr, day, m, "")
<1>4. Reports!ComputedRows(d) = computed
  BY <1>1, <1>2, ComputedAre
<1>5. \A m \in Scalars : v(m) = value(m)
  <2>1. TAKE m \in Scalars
  <2>2. \A r \in of(m) : r.value = value(m)
    BY ScalarRow
  <2>3. of(m) # {}
    <3>1. PICK r \in RowsOf(dr, wr, day) : r = [day |-> day, metric |-> m, dim |-> "", value |-> value(m)]
      BY ScalarRow
    <3>2. r.metric = m
      BY <3>1
    <3>3. QED
      BY <3>2
  <2>. HIDE DEF of
  <2>4. (CHOOSE r \in of(m) : TRUE) \in of(m)
    BY <2>3
  <2>5. QED
    BY <2>2, <2>4
<1>6. /\ value("dau") <= value("wau") /\ value("wau") <= value("mau") /\ value("mau") <= value("active90")
      /\ value("mau") = value("active30")
      /\ \A s : ValueOf(dr, wr, day, "stage", s) <= value("dau")
      /\ \A f : ValueOf(dr, wr, day, "adoption30", f) <= value("active30")
      /\ \A f : ValueOf(dr, wr, day, "adoption90", f) <= value("active90")
  <2>1. \A m, s : ValueOf(dr, wr, day, m, s) = Valued(M, M, day, m, s)
    BY <1>2, <1>3 DEF Valued
  <2>2. /\ Valued(M, M, day, "dau", "") <= Valued(M, M, day, "wau", "")
        /\ Valued(M, M, day, "wau", "") <= Valued(M, M, day, "mau", "")
        /\ Valued(M, M, day, "mau", "") <= Valued(M, M, day, "active90", "")
        /\ Valued(M, M, day, "mau", "") = Valued(M, M, day, "active30", "")
        /\ \A s : Valued(M, M, day, "stage", s) <= Valued(M, M, day, "dau", "")
        /\ \A f : Valued(M, M, day, "adoption30", f) <= Valued(M, M, day, "active30", "")
        /\ \A f : Valued(M, M, day, "adoption90", f) <= Valued(M, M, day, "active90", "")
    BY <1>3, FamiliesAgree
  <2>3. QED
    BY <2>1, <2>2
<1>7. Reports!Total(of("action")) = value("events")
  <2>1. IsFiniteSet(dr)
    BY <1>2, ReadsAre DEF MirrorTyped
  <2>2. \A r : r \in of("action") <=> r \in RowsOf(dr, wr, day) /\ r.metric = "action"
    OBVIOUS
  <2>. HIDE DEF of
  <2>3. Reports!Total(of("action")) = Cardinality(dr)
    BY <2>1, <2>2, ActionsCount
  <2>4. QED
    BY <2>3 DEF ValueOf
<1>8. \A r \in computed : r.value = ValueOf(dr, wr, day, r.metric, r.dim)
  BY RowsHave
<1>. HIDE DEF v
<1>9. /\ v("dau") = value("dau") /\ v("wau") = value("wau") /\ v("mau") = value("mau")
      /\ v("active30") = value("active30") /\ v("active90") = value("active90") /\ v("events") = value("events")
  BY <1>5 DEF Scalars
<1>10. /\ \A r \in of("stage") : r.value <= value("dau")
       /\ \A r \in of("adoption30") : r.value <= value("active30")
       /\ \A r \in of("adoption90") : r.value <= value("active90")
  BY <1>6, <1>8
<1>. HIDE DEF value, of, computed
<1>11. /\ v("dau") <= v("wau") /\ v("wau") <= v("mau") /\ v("mau") <= v("active90")
       /\ v("mau") = v("active30")
       /\ Reports!Total(of("action")) = v("events")
       /\ \A r \in of("stage") : r.value <= v("dau")
       /\ \A r \in of("adoption30") : r.value <= v("active30")
       /\ \A r \in of("adoption90") : r.value <= v("active90")
  BY <1>6, <1>7, <1>9, <1>10
<1>12. QED
  BY <1>4, <1>11 DEF v, of

-----------------------------------------------------------------------------
(* The steps of the rollups.                                               *)

LEMMA TodayIs == ASSUME MirrorTyped PROVE Reports!Today \in Nat /\ now \in Nat
<1>1. PICK n \in Nat : n = MaxNow
  BY Configuration
<1>2. now \in 0 .. n
  BY <1>1 DEF MirrorTyped
<1>3. now \in Nat
  BY <1>2
<1>4. QED
  BY <1>3, DaysFollow DEF Reports!Today

\* A step of the clock or of the mirror alone, or of a job that stores nothing.
Waiting ==
  /\ UNCHANGED <<daily, kpis, torn>>
  /\ now <= now' /\ MirrorTyped'
  /\ Seen \subseteq Seen'
  /\ NoneDeleted' => NoneDeleted /\ copies \subseteq copies'
  /\ settled' \subseteq settled /\ (copies' = copies \/ settled' = {})

LEMMA StoredWaits == ASSUME RepInv, Waiting PROVE RowsKeyed' /\ DaysStored' /\ KindsGiven'
<1>1. daily' = daily /\ kpis' = kpis /\ torn' = torn /\ MirrorTyped /\ MirrorTyped'
  BY DEF Waiting, RepInv, RepTyped
<1>2. Reports!Today \in Nat /\ Reports!Today' \in Nat /\ Reports!Today <= Reports!Today'
  <2>1. now \in Nat /\ now' \in Nat /\ now <= now'
    <3>1. PICK n \in Nat : n = MaxNow
      BY Configuration
    <3>2. now \in 0 .. n /\ now' \in 0 .. n
      BY <1>1, <3>1 DEF MirrorTyped
    <3>3. QED
      BY <3>1, <3>2 DEF Waiting
  <2>2. QED
    BY <2>1, DaysFollow DEF Reports!Today
<1>3. RowsKeyed'
  BY <1>1 DEF RepInv, RowsKeyed
<1>4. \A d : OfDay(d)' = OfDay(d) /\ (HasDau(d) => HasDau(d)')
  BY <1>1 DEF OfDay, HasDau
<1>5. \A d : Whole(d) => Whole(d)'
  <2>1. ASSUME NEW d, NEW M \in SUBSET Seen, NEW W \in SUBSET Seen, Holds(M, W, d)
        PROVE  Holds(M, W, d)' /\ M \in SUBSET Seen' /\ W \in SUBSET Seen'
    BY <1>1, <1>4, <2>1 DEF Holds, Waiting, ActionsAmong
  <2>2. QED
    BY <2>1 DEF Whole
<1>6. DaysStored'
  <2>1. \A r \in daily' : r.metric \in DayMetrics => r.day \in 0 .. Reports!Today' /\ HasDau(r.day)'
    <3>1. \A r \in daily : r.metric \in DayMetrics => r.day \in 0 .. Reports!Today /\ HasDau(r.day)
      BY DEF RepInv, DaysStored
    <3>2. \A d \in 0 .. Reports!Today : d \in 0 .. Reports!Today'
      BY <1>2
    <3>3. QED
      BY <1>1, <1>4, <3>1, <3>2
  <2>2. \A k \in kpis' : k.asOf >= 1 /\ HasDau(k.asOf - 1)'
    BY <1>1, <1>4 DEF RepInv, DaysStored
  <2>3. \A r \in daily' : r.metric \in DayMetrics /\ r.day \notin torn' => Whole(r.day)'
    BY <1>1, <1>5 DEF RepInv, DaysStored
  <2>4. \A d \in settled' : \A p \in PointsOf(copies', copies', d) : DayRow(d, p) \in daily'
    BY <1>1 DEF RepInv, DaysStored, Waiting
  <2>5. QED
    BY <2>1, <2>2, <2>3, <2>4 DEF DaysStored
<1>7. KindsGiven'
  <2>1. ASSUME NoneDeleted', NEW r \in daily', r.metric \in DayMetrics \ {"rule"}
        PROVE  r.dim \in DimsOf(Reports!DayRows(copies', r.day), r.metric)
    <3>1. NoneDeleted /\ copies \subseteq copies' /\ r \in daily
      BY <1>1, <2>1 DEF Waiting
    <3>2. r.dim \in DimsOf(Reports!DayRows(copies, r.day), r.metric)
      BY <2>1, <3>1 DEF RepInv, KindsGiven
    <3>3. Reports!DayRows(copies, r.day) \subseteq Reports!DayRows(copies', r.day)
      BY <3>1, ReadsGrow
    <3>4. QED
      BY <2>1, <3>2, <3>3, KindsGrow
  <2>2. QED
    BY <2>1 DEF KindsGiven
<1>8. QED
  BY <1>3, <1>6, <1>7

\* A job as it is when the mirror has moved, or has not.
JobSame(w) ==
  \/ job'[w] = job[w] /\ (copies' = copies \/ job[w].pc = "idle")
  \/ job[w].pc # "idle" /\ job'[w] = [job[w] EXCEPT !.clean = FALSE]

\* What is read stays read, but is no longer that of the mirror if the mirror moves.
LEMMA JobWaits ==
  ASSUME RepInv, Waiting, NEW w \in Workers, JobSame(w)
  PROVE  JobReads(w)' /\ JobWrites(w)'
<1>0. JobTyped(w) /\ JobReads(w) /\ JobWrites(w)
  BY DEF RepInv, JobsSound, JobSound
<1>1. /\ daily' = daily
      /\ job'[w].pc = job[w].pc
      /\ job[w].pc # "idle" =>
           /\ job'[w].day = job[w].day /\ job'[w].rows = job[w].rows
           /\ job'[w].todo = job[w].todo /\ job'[w].points = job[w].points
           /\ job'[w].alone = job[w].alone
           /\ job'[w].clean => job[w].clean /\ copies' = copies
  <2>1. CASE job'[w] = job[w] /\ (copies' = copies \/ job[w].pc = "idle")
    BY <2>1 DEF Waiting
  <2>2. CASE job[w].pc # "idle" /\ job'[w] = [job[w] EXCEPT !.clean = FALSE]
    <3>1. PICK j : j = job[w] /\ j = [pc |-> j.pc, kind |-> j.kind, day |-> j.day, upto |-> j.upto, at |-> j.at,
                                   attempt |-> j.attempt, clean |-> j.clean, alone |-> j.alone, rows |-> j.rows, todo |-> j.todo,
                                   points |-> j.points]
      BY <1>0, <2>2 DEF JobTyped
    <3>2. job'[w] = [j EXCEPT !.clean = FALSE]
      BY <2>2, <3>1
    <3>3. job'[w] = [pc |-> j.pc, kind |-> j.kind, day |-> j.day, upto |-> j.upto, at |-> j.at,
                  attempt |-> j.attempt, clean |-> FALSE, alone |-> j.alone, rows |-> j.rows, todo |-> j.todo, points |-> j.points]
      BY <3>1, <3>2
    <3>4. QED
      BY <3>1, <3>3 DEF Waiting
  <2>3. QED
    BY <2>1, <2>2 DEF JobSame
<1>2. \A d, names : ActionsAmong(names, d)' <=> ActionsAmong(names, d)
  BY <1>1 DEF ActionsAmong, OfDay
<1>3. Seen \subseteq Seen' /\ (NoneDeleted' => NoneDeleted /\ copies \subseteq copies')
  BY DEF Waiting
<1>4. ASSUME job[w].pc = "window" PROVE JobReads(w)'
  <2>0. PICK d : d = job[w].day
    OBVIOUS
  <2>1. PICK M \in SUBSET Seen :
          /\ job[w].rows = Reports!DayRows(M, d)
          /\ job[w].clean => M = copies
          /\ NoneDeleted => M \subseteq copies /\ (job[w].alone => ActionsAmong(NamesOf(M, d), d))
    BY <1>0, <1>4, <2>0 DEF JobReads
  <2>2. NoneDeleted' => M \subseteq copies' /\ (job'[w].alone => ActionsAmong(NamesOf(M, d), d)')
    BY <1>1, <1>2, <1>3, <1>4, <2>1
  <2>3. job'[w].clean => M = copies'
    BY <1>1, <1>4, <2>1
  <2>4. M \in SUBSET Seen' /\ job'[w].day = d /\ job'[w].rows = Reports!DayRows(M, d)
    BY <1>1, <1>3, <1>4, <2>0, <2>1
  <2>5. QED
    BY <2>2, <2>3, <2>4 DEF JobReads
<1>5. ASSUME job[w].pc = "write" PROVE JobWrites(w)'
  <2>0. PICK d : d = job[w].day
    OBVIOUS
  <2>1. PICK M \in SUBSET Seen, W \in SUBSET Seen : Reading(w, M, W)
    BY <1>0, <1>5 DEF JobWrites
  <2>2. Reading(w, M, W)'
    <3>1. job'[w].points = PointsOf(M, W, job'[w].day)
      BY <1>1, <1>5, <2>1 DEF Reading
    <3>2. job'[w].clean => M = copies' /\ W = copies'
      BY <1>1, <1>5, <2>1 DEF Reading
    <3>3. NoneDeleted' => /\ M \subseteq W /\ W \subseteq copies'
                          /\ job'[w].alone => ActionsAmong(NamesOf(M, d), d)'
      BY <1>1, <1>2, <1>3, <1>5, <2>0, <2>1 DEF Reading
    <3>4. job'[w].day = d
      BY <1>1, <1>5, <2>0
    <3>5. QED
      BY <3>1, <3>2, <3>3, <3>4 DEF Reading
  <2>3. /\ job'[w].todo \subseteq job'[w].points
        /\ job'[w].alone => \A p \in job'[w].points \ job'[w].todo : DayRow(job'[w].day, p) \in daily'
    BY <1>0, <1>1, <1>5 DEF JobWrites
  <2>6. PICK todo : todo = job[w].todo /\ todo = job'[w].todo /\ d = job'[w].day
    BY <1>1, <1>5, <2>0
  <2>7. (\A p \in todo : p.metric # "dau") => HasDau(d)'
    <3>1. HasDau(d)' <=> HasDau(d)
      BY <1>1 DEF HasDau, OfDay
    <3>2. (\A p \in todo : p.metric # "dau") => HasDau(d)
      BY <1>0, <1>5, <2>0, <2>6 DEF JobWrites
    <3>3. QED
      BY <3>1, <3>2
  <2>4. M \in SUBSET Seen' /\ W \in SUBSET Seen'
    BY <1>3
  <2>5. QED
    BY <2>2, <2>3, <2>4, <2>6, <2>7 DEF JobWrites
<1>6. QED
  BY <1>1, <1>4, <1>5 DEF JobReads, JobWrites

LEMMA JobAges ==
  ASSUME RepInv, Waiting, NEW w \in Workers, JobSame(w)
  PROVE  JobTyped(w)' /\ job'[w].pc = job[w].pc /\ job[w].pc \in Stations
<1>0. JobTyped(w) /\ job[w].pc \in Stations
  BY DEF RepInv, JobsSound, JobSound
<1>1. now \in Nat /\ now' \in Nat /\ now <= now' /\ Seen \subseteq Seen'
  <2>1. PICK n \in Nat : n = MaxNow
    BY Configuration
  <2>2. now \in 0 .. n /\ now' \in 0 .. n
    BY <2>1 DEF MirrorTyped, Waiting, RepInv, RepTyped
  <2>3. QED
    BY <2>1, <2>2 DEF Waiting
<1>2. CASE job[w].pc = "idle"
  BY <1>0, <1>2 DEF JobSame, JobTyped
<1>3. CASE job[w].pc # "idle"
  <2>1. PICK j : /\ j = job[w] /\ j.pc # "idle"
                 /\ j = [pc |-> j.pc, kind |-> j.kind, day |-> j.day, upto |-> j.upto, at |-> j.at,
                         attempt |-> j.attempt, clean |-> j.clean, alone |-> j.alone, rows |-> j.rows, todo |-> j.todo,
                         points |-> j.points]
    BY <1>0, <1>3 DEF JobTyped
  <2>2. \E b \in BOOLEAN :
          job'[w] = [pc |-> j.pc, kind |-> j.kind, day |-> j.day, upto |-> j.upto, at |-> j.at,
                  attempt |-> j.attempt, clean |-> b, alone |-> j.alone, rows |-> j.rows, todo |-> j.todo, points |-> j.points]
    <3>1. CASE job'[w] = job[w]
      BY <1>0, <1>3, <2>1, <3>1 DEF JobTyped
    <3>2. CASE job'[w] = [job[w] EXCEPT !.clean = FALSE]
      <4>1. job'[w] = [j EXCEPT !.clean = FALSE]
        BY <2>1, <3>2
      <4>2. job'[w] = [pc |-> j.pc, kind |-> j.kind, day |-> j.day, upto |-> j.upto, at |-> j.at,
                    attempt |-> j.attempt, clean |-> FALSE, alone |-> j.alone, rows |-> j.rows, todo |-> j.todo, points |-> j.points]
        BY <2>1, <4>1
      <4>3. QED
        BY <4>2
    <3>3. QED
      BY <3>1, <3>2 DEF JobSame
  <2>3. PICK b \in BOOLEAN :
          job'[w] = [pc |-> j.pc, kind |-> j.kind, day |-> j.day, upto |-> j.upto, at |-> j.at,
                  attempt |-> j.attempt, clean |-> b, alone |-> j.alone, rows |-> j.rows, todo |-> j.todo, points |-> j.points]
    BY <2>2
  <2>4. /\ job'[w].pc = j.pc /\ job'[w].kind = j.kind /\ job'[w].day = j.day /\ job'[w].upto = j.upto /\ job'[w].at = j.at
        /\ job'[w].attempt = j.attempt /\ job'[w].clean = b /\ job'[w].alone = j.alone /\  job'[w].rows = j.rows /\ job'[w].todo = j.todo
        /\ job'[w].points = j.points
    BY <2>3
  <2>5. job'[w] = [pc |-> job'[w].pc, kind |-> job'[w].kind, day |-> job'[w].day, upto |-> job'[w].upto, at |-> job'[w].at,
                attempt |-> job'[w].attempt, clean |-> job'[w].clean, alone |-> job'[w].alone, rows |-> job'[w].rows, todo |-> job'[w].todo,
                points |-> job'[w].points]
    BY <2>3, <2>4
  <2>6. /\ j.kind \in {"incremental", "finalize", "cohort", "backfill"}
        /\ j.at \in 0 .. now /\ j.attempt \in Nat /\ j.alone \in BOOLEAN
        /\ j.day \in Nat /\ j.upto \in Nat /\ j.day <= j.upto /\ j.upto <= Reports!DayOf(j.at)
        /\ j.kind = "finalize" => Reports!DayOf(j.at) >= 1
        /\ j.pc = "activity" => j.rows \subseteq Seen
        /\ j.pc = "retention" => \A r \in j.todo : r \in Reports!Rows /\ r.metric \in MatrixMetrics
        /\ j.pc = "append" => IsFiniteSet(j.rows) /\ \A c \in j.rows : Labelled(c)
    BY <1>0, <1>3, <2>1 DEF JobTyped
  <2>7. j.at \in 0 .. now'
    BY <1>1, <2>6
  <2>8. \A c : Labelled(c) => Labelled(c)'
    BY <1>1 DEF Labelled
  <2>9. j.pc = "activity" => j.rows \subseteq Seen'
    BY <1>1, <2>6
  <2>10. QED
    BY <1>0, <2>1, <2>3, <2>4, <2>5, <2>6, <2>7, <2>8, <2>9 DEF JobTyped
<1>4. QED
  BY <1>0, <1>2, <1>3

JobsSame == job' = [w \in Workers |-> job'[w]] /\ \A w \in Workers : JobSame(w)

LEMMA RepWaits ==
  ASSUME RepInv, Waiting, UNCHANGED cohorts, jobs' \in Nat, failures' \in Nat, JobsSame
  PROVE  RepInv'
<1>1. RowsKeyed' /\ DaysStored' /\ KindsGiven'
  BY StoredWaits
<1>2. JobsSound'
  <2>1. ASSUME NEW w \in Workers PROVE JobSound(w)'
    <3>1. JobSame(w)
      BY DEF JobsSame
    <3>2. JobReads(w)' /\ JobWrites(w)'
      BY <3>1, JobWaits
    <3>3. JobTyped(w)' /\ job'[w].pc \in Stations
      BY <3>1, JobAges
    <3>4. QED
      BY <3>2, <3>3 DEF JobSound
  <2>2. QED
    BY <2>1 DEF JobsSound, JobsSame
<1>4. now \in Nat /\ now' \in Nat /\ now <= now' /\ Reports!Today <= Reports!Today'
      /\ Reports!Today \in Nat /\ Reports!Today' \in Nat
  <2>1. PICK n \in Nat : n = MaxNow
    BY Configuration
  <2>2. now \in 0 .. n /\ now' \in 0 .. n
    BY <2>1 DEF MirrorTyped, Waiting, RepInv, RepTyped
  <2>3. now \in Nat /\ now' \in Nat /\ now <= now'
    BY <2>1, <2>2 DEF Waiting
  <2>4. QED
    BY <2>3, DaysFollow DEF Reports!Today
<1>5. 0 .. Reports!Today \subseteq 0 .. Reports!Today'
  BY <1>4
<1>6. settled' \subseteq 0 .. Reports!Today' /\ torn' \subseteq 0 .. Reports!Today'
  BY <1>5 DEF Waiting, RepInv, RepTyped
<1>7. \A c : Labelled(c) => Labelled(c)'
  BY <1>4 DEF Labelled
<1>8. RepTyped'
  BY <1>6, <1>7 DEF RepTyped, RepInv, Waiting
<1>9. QED
  BY <1>1, <1>2, <1>8 DEF RepInv

\* How many of the events there have been are there.
LEMMA IngestCounts ==
  ASSUME RepInv, copied < Len(History), copied' = copied + 1, copies' = copies \cup {History[copied + 1]}
  PROVE  /\ copied' \in 0 .. Len(History) /\ Seen \subseteq Seen' /\ copies' \subseteq Seen'
         /\ NoneDeleted' => NoneDeleted
<1>1. PICK n \in Nat : n = Len(History) /\ copied \in 0 .. n /\ copied < n
  BY Configuration, LenProperties DEF RepInv, RepTyped, MirrorTyped
<1>2. copied' \in 0 .. n /\ copied \in Nat
  BY <1>1
<1>3. \A i \in 1 .. copied : i \in 1 .. copied'
  BY <1>1
<1>4. copied + 1 \in 1 .. copied'
  BY <1>1
<1>5. Seen \subseteq Seen'
  BY <1>3 DEF Seen
<1>6. copies' \subseteq Seen'
  BY <1>4, <1>5 DEF Seen, RepInv, RepTyped, MirrorTyped
<1>7. IsFiniteSet(copies) /\ Cardinality(copies) \in Nat /\ Cardinality(copies) <= copied
  BY SeenAre DEF RepInv, RepTyped
<1>8. PICK e : e = History[copied + 1] /\ copies' = copies \cup {e}
  OBVIOUS
<1>9. Cardinality(copies') = Cardinality(copies) \/ Cardinality(copies') = Cardinality(copies) + 1
  BY <1>7, <1>8, FS_AddElement
<1>10. NoneDeleted' => NoneDeleted
  BY <1>2, <1>7, <1>9 DEF NoneDeleted
<1>11. QED
  BY <1>1, <1>2, <1>5, <1>6, <1>10

LEMMA MirrorSteps ==
  ASSUME RepInv, \/ Reports!Tick \/ Reports!Ingest \/ Reports!Delete \/ UNCHANGED Reports!vars
  PROVE  RepInv'
<1>0. /\ MirrorTyped /\ jobs \in Nat /\ failures \in Nat /\ job = [w \in Workers |-> job[w]]
  BY DEF RepInv, RepTyped, JobsSound
<1>1. PICK n \in Nat : n = MaxNow /\ now \in 0 .. n
  BY <1>0, Configuration DEF MirrorTyped
<1>2. CASE Reports!Tick
  <2>1. now < n /\ now' = now + 1
    BY <1>1, <1>2 DEF Reports!Tick
  <2>2. now' \in 0 .. n /\ now <= now'
    BY <1>1, <2>1
  <2>3. UNCHANGED <<copied, copies, daily, kpis, cohorts, job, jobs, failures, settled, torn>>
    BY <1>2 DEF Reports!Tick
  <2>4. MirrorTyped' /\ Seen' = Seen /\ (NoneDeleted' <=> NoneDeleted)
    BY <1>0, <1>1, <2>2, <2>3 DEF MirrorTyped, Seen, NoneDeleted
  <2>5. Waiting /\ JobsSame
    BY <1>0, <2>2, <2>3, <2>4 DEF Waiting, JobsSame, JobSame
  <2>6. QED
    BY <1>0, <2>3, <2>5, RepWaits
<1>3. CASE Reports!Ingest
  <2>1. /\ copied < Len(History) /\ copied' = copied + 1 /\ copies' = copies \cup {History[copied + 1]}
        /\ settled' = {} /\ UNCHANGED <<now, daily, kpis, cohorts, jobs, failures, torn>>
        /\ job' = [w \in Workers |-> IF job[w].pc = "idle" THEN job[w] ELSE [job[w] EXCEPT !.clean = FALSE]]
    BY <1>3 DEF Reports!Ingest, Reports!MirrorChanges
  <2>2. /\ copied' \in 0 .. Len(History) /\ Seen \subseteq Seen' /\ copies' \subseteq Seen'
        /\ NoneDeleted' => NoneDeleted
    BY <2>1, IngestCounts
  <2>3. MirrorTyped' /\ now <= now'
    BY <1>0, <1>1, <2>1, <2>2 DEF MirrorTyped
  <2>4. Waiting /\ JobsSame
    BY <1>0, <2>1, <2>2, <2>3 DEF Waiting, JobsSame, JobSame
  <2>5. QED
    BY <1>0, <2>1, <2>4, RepWaits
<1>4. CASE Reports!Delete
  <2>1. /\ copies' \subseteq copies /\ copies' # copies /\ failures > 0 /\ failures' = failures - 1
        /\ UNCHANGED copied
        /\ settled' = {} /\ UNCHANGED <<now, daily, kpis, cohorts, jobs, torn>>
        /\ job' = [w \in Workers |-> IF job[w].pc = "idle" THEN job[w] ELSE [job[w] EXCEPT !.clean = FALSE]]
    BY <1>4 DEF Reports!Delete, Reports!MirrorChanges
  <2>2. failures' \in Nat
    BY <1>0, <2>1
  <2>3. IsFiniteSet(copies) /\ Cardinality(copies) \in Nat /\ Cardinality(copies) <= copied /\ copied \in Nat
    BY <1>0, SeenAre
  <2>4. Cardinality(copies') < Cardinality(copies) /\ Cardinality(copies') \in Nat
    BY <2>1, <2>3, FS_Subset, FS_CardinalityType
  <2>5. ~NoneDeleted'
    BY <2>1, <2>3, <2>4 DEF NoneDeleted
  <2>6. MirrorTyped' /\ Seen' = Seen /\ now <= now'
    BY <1>0, <1>1, <2>1 DEF MirrorTyped, Seen
  <2>7. Waiting /\ JobsSame
    BY <1>0, <2>1, <2>5, <2>6 DEF Waiting, JobsSame, JobSame
  <2>8. QED
    BY <1>0, <2>1, <2>2, <2>7, RepWaits
<1>5. CASE UNCHANGED Reports!vars
  <2>1. UNCHANGED <<now, copied, copies, daily, kpis, cohorts, job, jobs, failures, settled, torn>>
    BY <1>5 DEF Reports!vars
  <2>2. MirrorTyped' /\ Seen' = Seen /\ (NoneDeleted' <=> NoneDeleted) /\ now <= now'
    BY <1>0, <1>1, <2>1 DEF MirrorTyped, Seen, NoneDeleted
  <2>3. Waiting /\ JobsSame
    BY <1>0, <2>1, <2>2 DEF Waiting, JobsSame, JobSame
  <2>4. QED
    BY <1>0, <2>1, <2>3, RepWaits
<1>6. QED
  BY <1>2, <1>3, <1>4, <1>5

\* A step of a job that stores nothing.
Reads == UNCHANGED <<now, copied, copies, daily, kpis, settled, torn>> /\ jobs' \in Nat /\ failures' \in Nat

\* A step of one job leaves the others where they are.
Others(w) == job' = [v \in Workers |-> job'[v]] /\ \A v \in Workers : v # w => job'[v] = job[v]

LEMMA TurnIs ==
  ASSUME RepInv, NEW w \in Workers, NEW j, Reports!Turns(w, j)
  PROVE  job'[w] = j /\ Others(w)
<1>1. job = [v \in Workers |-> job[v]]
  BY DEF RepInv, JobsSound
<1>2. job' = [job EXCEPT ![w] = j]
  BY DEF Reports!Turns
<1>3. job' = [v \in Workers |-> IF v = w THEN j ELSE job[v]]
  BY <1>1, <1>2
<1>4. \A v \in Workers : job'[v] = IF v = w THEN j ELSE job[v]
  BY <1>3
<1>5. job' = [v \in Workers |-> job'[v]]
  BY <1>3, <1>4
<1>6. QED
  BY <1>4, <1>5 DEF Others

\* A job that stands still while no row of a day is written.
LEMMA OtherStays ==
  ASSUME RepInv, UNCHANGED <<now, copied, copies>>, NEW v \in Workers, job'[v] = job[v],
         job[v].pc \in {"window", "write"} =>
           \A r : r.metric \in DayMetrics /\ r.day = job[v].day => (r \in daily' <=> r \in daily)
  PROVE  JobSound(v)'
<1>1. MirrorTyped /\ JobSound(v)
  BY DEF RepInv, RepTyped, JobsSound
<1>2. PICK j : j = job[v] /\ j = job'[v]
  OBVIOUS
<1>3. PICK e : /\ e = job[v].day
               /\ j.pc \in {"window", "write"} =>
                    /\ HasDau(e)' <=> HasDau(e)
                    /\ \A names : ActionsAmong(names, e)' <=> ActionsAmong(names, e)
  <2>1. PICK e : e = job[v].day
    OBVIOUS
  <2>2. j.pc \in {"window", "write"} => OfDay(e)' = OfDay(e)
    BY <1>2, <2>1 DEF OfDay
  <2>3. QED
    BY <2>1, <2>2 DEF HasDau, ActionsAmong
<1>4. Seen' = Seen /\ (NoneDeleted' <=> NoneDeleted) /\ \A c : Labelled(c)' <=> Labelled(c)
  BY DEF Seen, NoneDeleted, Labelled
<1>5. job'[v].pc \in Stations /\ JobTyped(v)'
  BY <1>1, <1>2, <1>4 DEF JobSound, JobTyped
<1>6. ASSUME j.pc = "window" PROVE JobReads(v)'
  <2>1. PICK d, a : d = j.day /\ a = j.alone
    OBVIOUS
  <2>0. d = e
    BY <1>2, <1>3, <2>1
  <2>2. PICK M \in SUBSET Seen :
          /\ j.rows = Reports!DayRows(M, d)
          /\ j.clean => M = copies
          /\ NoneDeleted => M \subseteq copies /\ (a => ActionsAmong(NamesOf(M, d), d))
    BY <1>1, <1>2, <1>6, <2>1 DEF JobSound, JobReads
  <2>3. NoneDeleted' => M \subseteq copies' /\ (a => ActionsAmong(NamesOf(M, d), d)')
    BY <1>3, <1>4, <1>6, <2>0, <2>2
  <2>4. job'[v].rows = Reports!DayRows(M, d) /\ job'[v].day = d /\ job'[v].alone = a
        /\ (job'[v].clean => M = copies') /\ M \in SUBSET Seen'
    BY <1>2, <1>4, <2>1, <2>2
  <2>5. QED
    BY <2>3, <2>4 DEF JobReads
<1>7. ASSUME j.pc = "write" PROVE JobWrites(v)'
  <2>1. PICK d, a, todo, points : d = j.day /\ a = j.alone /\ todo = j.todo /\ points = j.points
    OBVIOUS
  <2>0. d = e
    BY <1>2, <1>3, <2>1
  <2>2. /\ todo \subseteq points /\ (a => \A p \in points \ todo : DayRow(d, p) \in daily)
        /\ (\A p \in todo : p.metric # "dau") => HasDau(d)
    BY <1>1, <1>2, <1>7, <2>1 DEF JobSound, JobWrites
  <2>3. PICK M \in SUBSET Seen, W \in SUBSET Seen : Reading(v, M, W)
    BY <1>1, <1>2, <1>7 DEF JobSound, JobWrites
  <2>4. d \in Nat
    BY <1>1, <1>2, <1>7, <2>1 DEF JobSound, JobTyped
  <2>5. points = PointsOf(M, W, d)
    BY <1>2, <2>1, <2>3 DEF Reading
  <2>6. \A p \in points : DayRow(d, p).metric \in DayMetrics /\ DayRow(d, p).day = job[v].day
    <3>1. \A p \in points : p.metric \in DayMetrics
      BY <1>1, <2>4, <2>5, PointsOfReads
    <3>2. QED
      BY <1>2, <2>1, <3>1 DEF DayRow
  <2>7. a => \A p \in points \ todo : DayRow(d, p) \in daily'
    BY <1>2, <1>7, <2>2, <2>6
  <2>8. Reading(v, M, W)'
    <3>1. NoneDeleted => M \subseteq W /\ W \subseteq copies /\ (a => ActionsAmong(NamesOf(M, d), d))
      BY <1>2, <2>1, <2>3 DEF Reading
    <3>2. NoneDeleted' => M \subseteq W /\ W \subseteq copies' /\ (a => ActionsAmong(NamesOf(M, d), d)')
      BY <1>3, <1>4, <1>7, <2>0, <3>1
    <3>3. job'[v].clean => M = copies' /\ W = copies'
      BY <1>2, <2>3 DEF Reading
    <3>4. job'[v].points = PointsOf(M, W, d) /\ job'[v].day = d /\ job'[v].alone = a
      BY <1>2, <2>1, <2>5
    <3>5. QED
      BY <3>2, <3>3, <3>4 DEF Reading
  <2>9. (\A p \in todo : p.metric # "dau") => HasDau(d)'
    BY <1>3, <1>7, <2>0, <2>2
  <2>10. job'[v].todo = todo /\ job'[v].points = points /\ job'[v].day = d /\ job'[v].alone = a
         /\ M \in SUBSET Seen' /\ W \in SUBSET Seen'
    BY <1>2, <1>4, <2>1
  <2>11. QED
    BY <2>2, <2>7, <2>8, <2>9, <2>10 DEF JobWrites
<1>8. JobReads(v)' /\ JobWrites(v)'
  BY <1>2, <1>6, <1>7 DEF JobReads, JobWrites
<1>9. QED
  BY <1>5, <1>8 DEF JobSound

LEMMA JobRuns ==
  ASSUME RepInv, Reads, IsFiniteSet(cohorts'), \A c \in cohorts' : Labelled(c)', NEW w \in Workers, Others(w),
         job'[w].pc \in Stations, JobTyped(w)', JobReads(w)', JobWrites(w)'
  PROVE  RepInv'
<1>1. /\ UNCHANGED <<now, copied, copies, daily, kpis, settled, torn>> /\ MirrorTyped
      /\ jobs' \in Nat /\ failures' \in Nat
  BY DEF RepInv, RepTyped, Reads
<1>2. now \in Nat /\ Reports!Today' = Reports!Today
  BY <1>1, TodayIs DEF Reports!Today
<1>3. MirrorTyped' /\ Seen' = Seen /\ (NoneDeleted' <=> NoneDeleted) /\ now <= now'
  BY <1>1, <1>2 DEF MirrorTyped, Seen, NoneDeleted
<1>4. Waiting
  BY <1>1, <1>3 DEF Waiting
<1>5. RowsKeyed' /\ DaysStored' /\ KindsGiven'
  BY <1>4, StoredWaits
<1>6. RepTyped'
  BY <1>1, <1>2, <1>3 DEF RepInv, RepTyped
<1>7. JobsSound'
  <2>1. ASSUME NEW v \in Workers, v # w PROVE JobSound(v)'
    <3>1. job'[v] = job[v]
      BY <2>1 DEF Others
    <3>2. QED
      BY <1>1, <3>1, OtherStays
  <2>2. JobSound(w)'
    BY DEF JobSound
  <2>3. \A v \in Workers : JobSound(v)'
    BY <2>1, <2>2
  <2>4. QED
    BY <2>3 DEF JobsSound, Others
<1>8. QED
  BY <1>5, <1>6, <1>7 DEF RepInv

\* The job of an invariant state, written out.
LEMMA JobIs ==
  ASSUME RepInv, NEW w \in Workers, job[w].pc # "idle"
  PROVE  /\ job[w] = [pc |-> job[w].pc, kind |-> job[w].kind, day |-> job[w].day, upto |-> job[w].upto, at |-> job[w].at,
                   attempt |-> job[w].attempt, clean |-> job[w].clean, alone |-> job[w].alone, rows |-> job[w].rows, todo |-> job[w].todo,
                   points |-> job[w].points]
         /\ job[w].kind \in {"incremental", "finalize", "cohort", "backfill"}
         /\ job[w].at \in 0 .. now /\ job[w].clean \in BOOLEAN /\ job[w].alone \in BOOLEAN /\ job[w].attempt \in Nat
         /\ job[w].day \in Nat /\ job[w].upto \in Nat /\ job[w].day <= job[w].upto /\ job[w].upto <= Reports!DayOf(job[w].at)
         /\ job[w].kind = "finalize" => Reports!DayOf(job[w].at) >= 1
         /\ Reports!DayOf(job[w].at) \in Nat /\ Reports!Today \in Nat /\ Reports!DayOf(job[w].at) <= Reports!Today
         /\ now \in Nat /\ job[w].at \in Nat
<1>1. JobTyped(w) /\ MirrorTyped
  BY DEF RepInv, RepTyped, JobsSound, JobSound
<1>2. now \in Nat /\ job[w].at \in 0 .. now
  BY <1>1, TodayIs DEF JobTyped
<1>3. job[w].at \in Nat /\ job[w].at <= now
  BY <1>2
<1>4. Reports!DayOf(job[w].at) \in Nat /\ Reports!Today \in Nat /\ Reports!DayOf(job[w].at) <= Reports!Today
  BY <1>2, <1>3, DaysFollow DEF Reports!Today
<1>5. QED
  BY <1>1, <1>2, <1>3, <1>4 DEF JobTyped

LEMMA FreshJob ==
  ASSUME RepInv, Reads, UNCHANGED cohorts, NEW w \in Workers, NEW kind \in {"incremental", "finalize", "cohort", "backfill"},
         NEW day \in Nat, NEW upto \in Nat, NEW attempt \in Nat,
         day <= upto, upto <= Reports!Today, kind = "finalize" => Reports!Today >= 1,
         Reports!Turns(w, Reports!Fresh(kind, day, upto, attempt))
  PROVE  RepInv'
<1>0. job'[w] = Reports!Fresh(kind, day, upto, attempt) /\ Others(w)
  BY TurnIs
<1>1. MirrorTyped /\ now' = now /\ cohorts' = cohorts
  BY DEF RepInv, RepTyped, Reads
<1>2. now \in Nat /\ now \in 0 .. now /\ Reports!DayOf(now) = Reports!Today
  BY <1>1, TodayIs DEF Reports!Today
<1>3. PICK p \in {"cohort", "day"} :
        job'[w] = [pc |-> p, kind |-> kind, day |-> day, upto |-> upto, at |-> now, attempt |-> attempt,
                clean |-> TRUE, alone |-> TRUE, rows |-> {}, todo |-> {}, points |-> {}]
  BY <1>0 DEF Reports!Fresh
<1>4. /\ job'[w].pc = p /\ job'[w].kind = kind /\ job'[w].day = day /\ job'[w].upto = upto /\ job'[w].at = now
      /\ job'[w].attempt = attempt /\ job'[w].clean = TRUE /\ job'[w].alone = TRUE /\  job'[w].rows = {} /\ job'[w].todo = {} /\ job'[w].points = {}
  BY <1>3
<1>5. job'[w] = [pc |-> job'[w].pc, kind |-> job'[w].kind, day |-> job'[w].day, upto |-> job'[w].upto, at |-> job'[w].at,
              attempt |-> job'[w].attempt, clean |-> job'[w].clean, alone |-> job'[w].alone, rows |-> job'[w].rows, todo |-> job'[w].todo,
              points |-> job'[w].points]
  BY <1>3, <1>4
<1>6. JobTyped(w)'
  BY <1>1, <1>2, <1>3, <1>4, <1>5 DEF JobTyped
<1>7. JobReads(w)' /\ JobWrites(w)'
  BY <1>3, <1>4 DEF JobReads, JobWrites
<1>8. IsFiniteSet(cohorts') /\ \A c \in cohorts' : Labelled(c)'
  BY <1>1 DEF RepInv, RepTyped, Labelled
<1>10. job'[w].pc \in Stations
  BY <1>3, <1>4 DEF Stations
<1>9. QED
  BY <1>0, <1>3, <1>4, <1>6, <1>7, <1>8, <1>10, JobRuns

LEMMA TakeKeeps == ASSUME RepInv, NEW w \in Workers, Reports!Take(w) PROVE RepInv'
<1>1. /\ jobs > 0 /\ jobs' = jobs - 1
      /\ UNCHANGED <<now, copied, copies, daily, kpis, cohorts, failures, settled, torn>>
  BY DEF Reports!Take, Reports!reads
<1>2. MirrorTyped /\ jobs \in Nat /\ failures \in Nat
  BY DEF RepInv, RepTyped
<1>3. Reads
  BY <1>1, <1>2 DEF Reads
<1>4. PICK t \in Nat : t = Reports!Today /\ t = Reports!DayOf(now)
  BY <1>2, TodayIs DEF Reports!Today
<1>5. ASSUME NEW kind \in {"incremental", "finalize", "cohort"}, Reports!FirstDay(kind, now) >= 0,
             Reports!Turns(w, Reports!Fresh(kind, Reports!FirstDay(kind, now), Reports!FirstDay(kind, now), 1))
      PROVE  RepInv'
  <2>1. PICK d : d = Reports!FirstDay(kind, now)
    OBVIOUS
  <2>2. d \in Nat /\ d <= t /\ (kind = "finalize" => t >= 1)
    BY <1>4, <1>5, <2>1 DEF Reports!FirstDay
  <2>3. Reports!Turns(w, Reports!Fresh(kind, d, d, 1)) /\ d <= d /\ d <= Reports!Today
        /\ (kind = "finalize" => Reports!Today >= 1)
    BY <1>4, <1>5, <2>1, <2>2
  <2>4. kind \in {"incremental", "finalize", "cohort", "backfill"} /\ 1 \in Nat
    BY <1>5
  <2>5. QED
    BY <1>1, <1>3, <2>2, <2>3, <2>4, FreshJob
<1>6. ASSUME NEW from \in (Reports!Today - MaxDays + 1) .. Reports!Today, from >= 0,
             Reports!Turns(w, Reports!Fresh("backfill", from, Reports!Today, Attempts))
      PROVE  RepInv'
  <2>1. Attempts \in Nat /\ MaxDays \in Nat
    BY ReadersAssumption DEF Reports!Configured
  <2>2. from \in Nat /\ from <= t
    BY <1>4, <1>6, <2>1
  <2>3. Reports!Turns(w, Reports!Fresh("backfill", from, t, Attempts)) /\ t <= Reports!Today
    <3>1. t <= Reports!Today
      BY <1>4
    <3>2. Reports!Turns(w, Reports!Fresh("backfill", from, t, Attempts))
      BY <1>4, <1>6, Zenon
    <3>3. QED
      BY <3>1, <3>2
  <2>4. QED
    BY <1>1, <1>3, <2>1, <2>2, <2>3, FreshJob
<1>7. QED
  BY <1>5, <1>6 DEF Reports!Take

LEMMA FailKeeps == ASSUME RepInv, NEW w \in Workers, Reports!Fail(w) PROVE RepInv'
<1>1. /\ job[w].pc # "idle" /\ failures > 0 /\ failures' = failures - 1
      /\ UNCHANGED <<now, copied, copies, daily, kpis, cohorts, jobs, settled, torn>>
  BY DEF Reports!Fail, Reports!reads
<1>2. MirrorTyped /\ jobs \in Nat /\ failures \in Nat
  BY DEF RepInv, RepTyped
<1>3. Reads
  BY <1>1, <1>2 DEF Reads
<1>4. PICK t \in Nat : t = Reports!Today /\ t = Reports!DayOf(now)
  BY <1>2, TodayIs DEF Reports!Today
<1>5. CASE Reports!Turns(w, Reports!Idle)
  <2>0. job'[w] = Reports!Idle /\ Others(w)
    BY <1>5, TurnIs
  <2>1. job'[w].pc = "idle" /\ job'[w].pc \in Stations
    BY <2>0 DEF Reports!Idle, Stations
  <2>2. JobTyped(w)' /\ JobReads(w)' /\ JobWrites(w)'
    BY <2>1 DEF JobTyped, JobReads, JobWrites
  <2>3. IsFiniteSet(cohorts') /\ \A c \in cohorts' : Labelled(c)'
    BY <1>1 DEF RepInv, RepTyped, Labelled
  <2>4. QED
    BY <1>3, <2>0, <2>1, <2>2, <2>3, JobRuns
<1>6. CASE Reports!Turns(w, Reports!Fresh(job[w].kind, Reports!FirstDay(job[w].kind, now), Reports!FirstDay(job[w].kind, now),
                                job[w].attempt + 1))
  <2>1. PICK k, d, a : k = job[w].kind /\ d = Reports!FirstDay(k, now) /\ a = job[w].attempt + 1
    OBVIOUS
  <2>2. /\ k \in {"incremental", "finalize", "cohort", "backfill"} /\ a \in Nat
        /\ k = "finalize" => t >= 1
    <3>1. /\ job[w].kind \in {"incremental", "finalize", "cohort", "backfill"} /\ job[w].attempt \in Nat
          /\ job[w].kind = "finalize" => Reports!DayOf(job[w].at) >= 1
          /\ Reports!DayOf(job[w].at) \in Nat /\ Reports!DayOf(job[w].at) <= Reports!Today
      BY <1>1, JobIs
    <3>2. QED
      BY <1>4, <2>1, <3>1
  <2>3. d \in Nat /\ d <= t /\ d <= d
    BY <1>4, <2>1, <2>2 DEF Reports!FirstDay
  <2>4. Reports!Turns(w, Reports!Fresh(k, d, d, a)) /\ d <= Reports!Today /\ (k = "finalize" => Reports!Today >= 1)
    BY <1>4, <1>6, <2>1, <2>2, <2>3
  <2>5. QED
    BY <1>1, <1>3, <2>2, <2>3, <2>4, FreshJob
<1>7. QED
  BY <1>5, <1>6 DEF Reports!Fail

\* Of a mirror of which nothing has been deleted every stored action is still an event's.
LEMMA StoredActions ==
  ASSUME RepInv, NoneDeleted, NEW day PROVE ActionsAmong(NamesOf(copies, day), day)
<1>. SUFFICES ASSUME NEW r \in OfDay(day), r.metric = "action" PROVE r.dim \in NamesOf(copies, day)
  BY DEF ActionsAmong
<1>1. r \in daily /\ r.day = day
  BY DEF OfDay
<1>2. "action" \in DayMetrics \ {"rule"}
  BY DEF DayMetrics
<1>3. r.dim \in DimsOf(Reports!DayRows(copies, r.day), r.metric)
  BY <1>1, <1>2 DEF RepInv, KindsGiven
<1>4. QED
  BY <1>1, <1>3 DEF DimsOf, NamesOf

LEMMA ReadDayKeeps == ASSUME RepInv, NEW w \in Workers, Reports!ReadDay(w) PROVE RepInv'
<1>0. /\ job[w].pc = "day"
      /\ Reports!Turns(w, [job[w] EXCEPT !.pc = "window", !.rows = Reports!DayRows(copies, job[w].day),
                                         !.clean = TRUE, !.alone = TRUE])
      /\ UNCHANGED <<now, copied, copies, daily, kpis, cohorts, jobs, failures, settled, torn>>
  BY DEF Reports!ReadDay, Reports!reads
<1>1. /\ job[w].pc = "day" /\ Others(w)
      /\ job'[w] = [job[w] EXCEPT !.pc = "window", !.rows = Reports!DayRows(copies, job[w].day),
                                  !.clean = TRUE, !.alone = TRUE]
      /\ UNCHANGED <<now, copied, copies, daily, kpis, cohorts, jobs, failures, settled, torn>>
  BY <1>0, TurnIs
<1>2. MirrorTyped /\ jobs \in Nat /\ failures \in Nat
  BY DEF RepInv, RepTyped
<1>3. Reads
  BY <1>1, <1>2 DEF Reads
<1>4. PICK j : /\ j = job[w]
               /\ j = [pc |-> j.pc, kind |-> j.kind, day |-> j.day, upto |-> j.upto, at |-> j.at,
                       attempt |-> j.attempt, clean |-> j.clean, alone |-> j.alone, rows |-> j.rows, todo |-> j.todo,
                       points |-> j.points]
  BY <1>1, JobIs
<1>5. PICK R, d : d = j.day /\ R = Reports!DayRows(copies, d)
  OBVIOUS
<1>6. job'[w] = [pc |-> "window", kind |-> j.kind, day |-> j.day, upto |-> j.upto, at |-> j.at,
              attempt |-> j.attempt, clean |-> TRUE, alone |-> TRUE, rows |-> R, todo |-> j.todo, points |-> j.points]
  <2>1. job'[w] = [j EXCEPT !.pc = "window", !.rows = R, !.clean = TRUE, !.alone = TRUE]
    BY <1>1, <1>4, <1>5
  <2>2. QED
    BY <1>4, <2>1
<1>7. /\ job'[w].pc = "window" /\ job'[w].kind = j.kind /\ job'[w].day = d /\ job'[w].upto = j.upto /\ job'[w].at = j.at
      /\ job'[w].attempt = j.attempt /\ job'[w].clean = TRUE /\ job'[w].alone = TRUE /\  job'[w].rows = R /\ job'[w].todo = j.todo
      /\ job'[w].points = j.points
  BY <1>5, <1>6
<1>8. job'[w] = [pc |-> job'[w].pc, kind |-> job'[w].kind, day |-> job'[w].day, upto |-> job'[w].upto, at |-> job'[w].at,
              attempt |-> job'[w].attempt, clean |-> job'[w].clean, alone |-> job'[w].alone, rows |-> job'[w].rows, todo |-> job'[w].todo,
              points |-> job'[w].points]
  BY <1>5, <1>6, <1>7
<1>9. /\ j.kind \in {"incremental", "finalize", "cohort", "backfill"}
      /\ j.at \in 0 .. now /\ j.attempt \in Nat
      /\ j.day \in Nat /\ j.upto \in Nat /\ j.day <= j.upto /\ j.upto <= Reports!DayOf(j.at)
      /\ j.kind = "finalize" => Reports!DayOf(j.at) >= 1
  BY <1>1, <1>4, JobIs
<1>10. JobTyped(w)'
  BY <1>1, <1>5, <1>7, <1>8, <1>9 DEF JobTyped
<1>11. JobReads(w)'
  <2>1. NoneDeleted' => ActionsAmong(NamesOf(copies, d), d)'
    <3>1. NoneDeleted => ActionsAmong(NamesOf(copies, d), d)
      BY StoredActions
    <3>2. QED
      BY <1>1, <3>1 DEF NoneDeleted, ActionsAmong, OfDay, NamesOf
  <2>2. copies' \in SUBSET Seen'
    BY <1>1, <1>2 DEF MirrorTyped, Seen
  <2>3. \E M \in SUBSET Seen' :
           /\ job'[w].rows = Reports!DayRows(M, job'[w].day)
           /\ job'[w].clean => M = copies'
           /\ NoneDeleted' => M \subseteq copies' /\ ActionsAmong(NamesOf(M, d), d)'
    <3>1. job'[w].rows = Reports!DayRows(copies', job'[w].day)
      BY <1>1, <1>5, <1>7
    <3>2. QED
      BY <2>1, <2>2, <3>1
  <2>4. QED
    BY <1>7, <2>3 DEF JobReads
<1>12. JobWrites(w)'
  BY <1>7 DEF JobWrites
<1>13. IsFiniteSet(cohorts') /\ \A c \in cohorts' : Labelled(c)'
  BY <1>1 DEF RepInv, RepTyped, Labelled
<1>14. job'[w].pc \in Stations
  BY <1>7 DEF Stations
<1>15. QED
  BY <1>1, <1>3, <1>10, <1>11, <1>12, <1>13, <1>14, JobRuns

\* The active shops are always among the points.
LEMMA DauAmong == ASSUME NEW M, NEW W, NEW d PROVE \E q \in PointsOf(M, W, d) : q.metric = "dau" /\ q.dim = ""
<1>1. PICK dr, wr : dr = Reports!DayRows(M, d) /\ wr = Reports!WindowRows(W, d)
  OBVIOUS
<1>2. "dau" \in DayMetrics /\ "" \in DimsOf(dr, "dau")
  BY DEF DayMetrics, DimsOf
<1>3. PICK q : q = Reports!Point("dau", "", ValueOf(dr, wr, d, "dau", ""))
  OBVIOUS
<1>4. q.metric = "dau" /\ q.dim = ""
  BY <1>3 DEF Reports!Point
<1>5. q \in PointsOf(M, W, d)
  BY <1>1, <1>2, <1>3, PointValue DEF PointsOf
<1>6. QED
  BY <1>4, <1>5

LEMMA ReadWideKeeps == ASSUME RepInv, NEW w \in Workers, Reports!ReadWide(w) PROVE RepInv'
<1>0. PICK Q : Q = Reports!DayPoints(job[w].rows, Reports!WindowRows(copies, job[w].day), job[w].day)
  OBVIOUS
<1>00. /\ job[w].pc = "window"
      /\ Reports!Turns(w, [job[w] EXCEPT !.pc = "write", !.rows = {}, !.todo = Q, !.points = Q])
      /\ UNCHANGED <<now, copied, copies, daily, kpis, cohorts, jobs, failures, settled, torn>>
  BY <1>0 DEF Reports!ReadWide, Reports!reads
<1>1. /\ job[w].pc = "window" /\ Others(w)
      /\ job'[w] = [job[w] EXCEPT !.pc = "write", !.rows = {}, !.todo = Q, !.points = Q]
      /\ UNCHANGED <<now, copied, copies, daily, kpis, cohorts, jobs, failures, settled, torn>>
  BY <1>00, TurnIs
<1>2. MirrorTyped /\ jobs \in Nat /\ failures \in Nat
  BY DEF RepInv, RepTyped
<1>3. Reads
  BY <1>1, <1>2 DEF Reads
<1>4. PICK j : /\ j = job[w]
               /\ j = [pc |-> j.pc, kind |-> j.kind, day |-> j.day, upto |-> j.upto, at |-> j.at,
                       attempt |-> j.attempt, clean |-> j.clean, alone |-> j.alone, rows |-> j.rows, todo |-> j.todo,
                       points |-> j.points]
  BY <1>1, JobIs
<1>5. PICK M \in SUBSET Seen :
        /\ job[w].rows = Reports!DayRows(M, job[w].day)
        /\ job[w].clean => M = copies
        /\ NoneDeleted => M \subseteq copies /\ (job[w].alone => ActionsAmong(NamesOf(M, job[w].day), job[w].day))
  BY <1>1 DEF RepInv, JobsSound, JobSound, JobReads
<1>6. PICK P, d, W : /\ d = j.day /\ W = copies /\ P = Q
                     /\ P = Reports!DayPoints(job[w].rows, Reports!WindowRows(copies, job[w].day), job[w].day)
  BY <1>0
<1>7. P = PointsOf(M, W, d)
  BY <1>4, <1>5, <1>6 DEF PointsOf
<1>8. job'[w] = [pc |-> "write", kind |-> j.kind, day |-> j.day, upto |-> j.upto, at |-> j.at,
              attempt |-> j.attempt, clean |-> j.clean, alone |-> j.alone, rows |-> {}, todo |-> P, points |-> P]
  <2>1. job'[w] = [j EXCEPT !.pc = "write", !.rows = {}, !.todo = P, !.points = P]
    BY <1>1, <1>4, <1>6
  <2>2. QED
    BY <1>4, <2>1
<1>9. /\ job'[w].pc = "write" /\ job'[w].kind = j.kind /\ job'[w].day = d /\ job'[w].upto = j.upto /\ job'[w].at = j.at
      /\ job'[w].attempt = j.attempt /\ job'[w].clean = j.clean /\ job'[w].alone = j.alone /\ job'[w].rows = {} /\ job'[w].todo = P /\ job'[w].points = P
  BY <1>6, <1>8
<1>10. job'[w] = [pc |-> job'[w].pc, kind |-> job'[w].kind, day |-> job'[w].day, upto |-> job'[w].upto, at |-> job'[w].at,
               attempt |-> job'[w].attempt, clean |-> job'[w].clean, alone |-> job'[w].alone, rows |-> job'[w].rows, todo |-> job'[w].todo,
               points |-> job'[w].points]
  BY <1>6, <1>8, <1>9
<1>11. /\ j.kind \in {"incremental", "finalize", "cohort", "backfill"}
       /\ j.at \in 0 .. now /\ j.attempt \in Nat /\ j.clean \in BOOLEAN /\ j.alone \in BOOLEAN
       /\ j.day \in Nat /\ j.upto \in Nat /\ j.day <= j.upto /\ j.upto <= Reports!DayOf(j.at)
       /\ j.kind = "finalize" => Reports!DayOf(j.at) >= 1
  BY <1>1, <1>4, JobIs
<1>12. JobTyped(w)'
  BY <1>1, <1>6, <1>9, <1>10, <1>11 DEF JobTyped
<1>13. JobReads(w)'
  BY <1>9 DEF JobReads
<1>14. JobWrites(w)'
  <2>1. M \in SUBSET Seen' /\ W \in SUBSET Seen'
    BY <1>1, <1>2, <1>5, <1>6 DEF MirrorTyped, Seen
  <2>2. Reading(w, M, W)'
    <3>1. job'[w].points = PointsOf(M, W, job'[w].day)
      BY <1>7, <1>9
    <3>2. job'[w].clean => M = copies' /\ W = copies'
      BY <1>1, <1>4, <1>5, <1>6, <1>9
    <3>3. NoneDeleted' => M \subseteq W /\ W \subseteq copies' /\ (j.alone => ActionsAmong(NamesOf(M, d), d)')
      <4>1. NoneDeleted => M \subseteq copies /\ (j.alone => ActionsAmong(NamesOf(M, d), d))
        BY <1>4, <1>5, <1>6
      <4>2. QED
        BY <1>1, <1>6, <4>1 DEF NoneDeleted, ActionsAmong, OfDay
    <3>4. QED
      BY <1>9, <3>1, <3>2, <3>3 DEF Reading
  <2>3. job'[w].todo \subseteq job'[w].points /\ job'[w].points \ job'[w].todo = {}
    BY <1>9
  <2>4. \E q \in job'[w].todo : q.metric = "dau"
    <3>1. \E q \in PointsOf(M, W, d) : q.metric = "dau" /\ q.dim = ""
      BY DauAmong
    <3>2. QED
      BY <1>7, <1>9, <3>1
  <2>5. QED
    BY <2>1, <2>2, <2>3, <2>4 DEF JobWrites
<1>15. IsFiniteSet(cohorts') /\ \A c \in cohorts' : Labelled(c)'
  BY <1>1 DEF RepInv, RepTyped, Labelled
<1>16. job'[w].pc \in Stations
  BY <1>9 DEF Stations
<1>17. QED
  BY <1>1, <1>3, <1>12, <1>13, <1>14, <1>15, <1>16, JobRuns

\* A row in, and the one of its key out.
LEMMA UpsertIs ==
  ASSUME NEW rows, NEW row
  PROVE  /\ row \in Reports!Upsert(rows, row)
         /\ \A r : r \in Reports!Upsert(rows, row) <=> r = row \/ (r \in rows /\ ~Reports!SameKey(r, row))
         /\ IsFiniteSet(rows) => IsFiniteSet(Reports!Upsert(rows, row))
<1>1. PICK rest : rest = {r \in rows : ~Reports!SameKey(r, row)} /\ rest \subseteq rows
  OBVIOUS
<1>2. Reports!Upsert(rows, row) = rest \cup {row}
  BY <1>1 DEF Reports!Upsert
<1>3. IsFiniteSet(rows) => IsFiniteSet(rest \cup {row})
  BY <1>1, FS_Subset, FS_AddElement
<1>4. QED
  BY <1>1, <1>2, <1>3

\* What a write leaves: rows of one key each, and for each key that was there one still.
LEMMA UpsertKeeps ==
  ASSUME RowsKeyed, IsFiniteSet(daily), daily \subseteq Reports!Rows, NEW row \in Reports!Rows,
         daily' = Reports!Upsert(daily, row)
  PROVE  /\ RowsKeyed' /\ IsFiniteSet(daily') /\ daily' \subseteq Reports!Rows /\ row \in daily'
         /\ \A r \in daily' : r = row \/ r \in daily
         /\ \A r \in daily : r \in daily' \/ Reports!SameKey(r, row)
<1>1. \A r : r \in daily' <=> r = row \/ (r \in daily /\ ~Reports!SameKey(r, row))
  BY UpsertIs
<1>2. IsFiniteSet(daily')
  BY UpsertIs
<1>3. RowsKeyed'
  <2>1. \A r, q : Reports!SameKey(r, q) => Reports!SameKey(q, r)
    BY DEF Reports!SameKey
  <2>2. QED
    BY <1>1, <2>1 DEF RowsKeyed
<1>4. QED
  BY <1>1, <1>2, <1>3

\* A job of the day a point of which another stores, once it has read something else than that one.
LEMMA OtherCrossed ==
  ASSUME RepInv, UNCHANGED <<now, copied, copies>>, \A e : HasDau(e) => HasDau(e)', NEW v \in Workers,
         job[v].pc \in {"window", "write"}, job'[v] = [job[v] EXCEPT !.alone = FALSE]
  PROVE  JobSound(v)'
<1>1. MirrorTyped /\ JobSound(v)
  BY DEF RepInv, RepTyped, JobsSound
<1>2. PICK j : j = job[v] /\ j = [pc |-> j.pc, kind |-> j.kind, day |-> j.day, upto |-> j.upto, at |-> j.at,
                                 attempt |-> j.attempt, clean |-> j.clean, alone |-> j.alone, rows |-> j.rows, todo |-> j.todo,
                                 points |-> j.points]
  BY <1>1 DEF JobSound, JobTyped
<1>3. job'[v] = [pc |-> j.pc, kind |-> j.kind, day |-> j.day, upto |-> j.upto, at |-> j.at,
                 attempt |-> j.attempt, clean |-> j.clean, alone |-> FALSE, rows |-> j.rows, todo |-> j.todo,
                 points |-> j.points]
  <2>1. job'[v] = [j EXCEPT !.alone = FALSE]
    BY <1>2
  <2>2. QED
    BY <1>2, <2>1
<1>4. /\ job'[v].pc = j.pc /\ job'[v].kind = j.kind /\ job'[v].day = j.day /\ job'[v].upto = j.upto /\ job'[v].at = j.at
      /\ job'[v].attempt = j.attempt /\ job'[v].clean = j.clean /\ job'[v].alone = FALSE /\ job'[v].rows = j.rows
      /\ job'[v].todo = j.todo /\ job'[v].points = j.points
  BY <1>3
<1>5. Seen' = Seen /\ (NoneDeleted' <=> NoneDeleted) /\ \A c : Labelled(c)' <=> Labelled(c)
  BY DEF Seen, NoneDeleted, Labelled
<1>6. job'[v].pc \in Stations /\ JobTyped(v)'
  <2>1. job'[v] = [pc |-> job'[v].pc, kind |-> job'[v].kind, day |-> job'[v].day, upto |-> job'[v].upto, at |-> job'[v].at,
                   attempt |-> job'[v].attempt, clean |-> job'[v].clean, alone |-> job'[v].alone, rows |-> job'[v].rows,
                   todo |-> job'[v].todo, points |-> job'[v].points]
    BY <1>3, <1>4
  <2>2. /\ j.kind \in {"incremental", "finalize", "cohort", "backfill"}
        /\ j.at \in 0 .. now /\ j.clean \in BOOLEAN /\ j.attempt \in Nat
        /\ j.day \in Nat /\ j.upto \in Nat /\ j.day <= j.upto /\ j.upto <= Reports!DayOf(j.at)
        /\ j.kind = "finalize" => Reports!DayOf(j.at) >= 1
        /\ j.pc \in Stations /\ j.pc \in {"window", "write"}
    BY <1>1, <1>2 DEF JobSound, JobTyped, Stations
  <2>3. QED
    BY <1>4, <2>1, <2>2 DEF JobTyped
<1>7. ASSUME j.pc = "window" PROVE JobReads(v)'
  <2>1. PICK M \in SUBSET Seen :
          /\ j.rows = Reports!DayRows(M, j.day)
          /\ j.clean => M = copies
          /\ NoneDeleted => M \subseteq copies
    BY <1>1, <1>2, <1>7 DEF JobSound, JobReads
  <2>2. /\ job'[v].rows = Reports!DayRows(M, job'[v].day) /\ (job'[v].clean => M = copies') /\ ~job'[v].alone
        /\ (NoneDeleted' => M \subseteq copies') /\ M \in SUBSET Seen'
    BY <1>4, <1>5, <2>1
  <2>3. QED
    BY <2>2 DEF JobReads
<1>8. ASSUME j.pc = "write" PROVE JobWrites(v)'
  <2>1. j.todo \subseteq j.points /\ ((\A p \in j.todo : p.metric # "dau") => HasDau(j.day))
    BY <1>1, <1>2, <1>8 DEF JobSound, JobWrites
  <2>2. PICK M \in SUBSET Seen, W \in SUBSET Seen : Reading(v, M, W)
    BY <1>1, <1>2, <1>8 DEF JobSound, JobWrites
  <2>3. /\ j.points = PointsOf(M, W, j.day) /\ (j.clean => M = copies /\ W = copies)
        /\ NoneDeleted => M \subseteq W /\ W \subseteq copies
    BY <1>2, <2>2 DEF Reading
  <2>4. /\ job'[v].points = PointsOf(M, W, job'[v].day) /\ (job'[v].clean => M = copies' /\ W = copies')
        /\ (NoneDeleted' => M \subseteq W /\ W \subseteq copies') /\ ~job'[v].alone
        /\ M \in SUBSET Seen' /\ W \in SUBSET Seen'
    BY <1>4, <1>5, <2>3
  <2>5. Reading(v, M, W)'
    BY <2>4 DEF Reading
  <2>6. PICK d, todo : d = j.day /\ todo = j.todo
    OBVIOUS
  <2>7. (\A p \in todo : p.metric # "dau") => HasDau(d)'
    BY <2>1, <2>6
  <2>8. job'[v].day = d /\ job'[v].todo = todo /\ todo \subseteq job'[v].points
    BY <1>4, <2>1, <2>6
  <2>9. QED
    BY <2>4, <2>5, <2>7, <2>8 DEF JobWrites
<1>9. JobReads(v)' /\ JobWrites(v)'
  BY <1>4, <1>7, <1>8 DEF JobReads, JobWrites
<1>10. QED
  BY <1>6, <1>9 DEF JobSound

\* A job of the day a point of which another stores, when it has found the same.
LEMMA OtherAgrees ==
  ASSUME RepInv, UNCHANGED <<now, copied, copies>>, \A e : HasDau(e) => HasDau(e)', NEW v \in Workers,
         job[v].pc = "write", job'[v] = job[v], NEW d, d = job[v].day, NEW q \in job[v].points,
         DayRow(d, q) \in daily', \A r \in daily' : r = DayRow(d, q) \/ r \in daily,
         \A r \in daily : r \in daily' \/ (r.day = d /\ r.metric = q.metric /\ r.dim = q.dim)
  PROVE  JobSound(v)'
<1>1. MirrorTyped /\ JobSound(v)
  BY DEF RepInv, RepTyped, JobsSound
<1>2. PICK j : j = job[v] /\ j = job'[v]
  OBVIOUS
<1>3. Seen' = Seen /\ (NoneDeleted' <=> NoneDeleted) /\ \A c : Labelled(c)' <=> Labelled(c)
  BY DEF Seen, NoneDeleted, Labelled
<1>4. job'[v].pc \in Stations /\ JobTyped(v)'
  BY <1>1, <1>2, <1>3 DEF JobSound, JobTyped
<1>5. PICK a, todo, points : d = j.day /\ a = j.alone /\ todo = j.todo /\ points = j.points /\ q \in points
  BY <1>2
<1>6. /\ todo \subseteq points /\ (a => \A p \in points \ todo : DayRow(d, p) \in daily)
      /\ (\A p \in todo : p.metric # "dau") => HasDau(d)
  BY <1>1, <1>2, <1>5 DEF JobSound, JobWrites
<1>7. PICK M \in SUBSET Seen, W \in SUBSET Seen : Reading(v, M, W)
  BY <1>1 DEF JobSound, JobWrites
<1>8. /\ points = PointsOf(M, W, d) /\ (j.clean => M = copies /\ W = copies)
      /\ NoneDeleted => M \subseteq W /\ W \subseteq copies /\ (a => ActionsAmong(NamesOf(M, d), d))
  BY <1>2, <1>5, <1>7 DEF Reading
<1>9. d \in Nat
  BY <1>1, <1>2, <1>5 DEF JobSound, JobTyped
<1>10. /\ \A p \in points : p.metric \in DayMetrics /\ p.dim \in DimsOf(Reports!DayRows(M, d), p.metric)
       /\ \A p, o \in points : p.metric = o.metric /\ p.dim = o.dim => p = o
  BY <1>1, <1>8, <1>9, PointsOfReads
<1>11. a => \A p \in points \ todo : DayRow(d, p) \in daily'
  <2>1. ASSUME a, NEW p \in points \ todo, p # q PROVE DayRow(d, p) \in daily'
    <3>1. DayRow(d, p) \in daily /\ DayRow(d, p).metric = p.metric /\ DayRow(d, p).dim = p.dim
      BY <1>6, <2>1 DEF DayRow
    <3>2. ~(p.metric = q.metric /\ p.dim = q.dim)
      BY <1>5, <1>10, <2>1
    <3>3. QED
      BY <3>1, <3>2
  <2>2. QED
    BY <2>1
<1>12. ASSUME NoneDeleted, a PROVE ActionsAmong(NamesOf(M, d), d)'
  <2>1. ASSUME NEW r \in OfDay(d)', r.metric = "action" PROVE r.dim \in NamesOf(M, d)
    <3>1. r \in daily' /\ r.day = d /\ r.metric \in DayMetrics
      BY <2>1 DEF OfDay
    <3>2. CASE r = DayRow(d, q)
      <4>1. r.metric = q.metric /\ r.dim = q.dim
        BY <3>2 DEF DayRow
      <4>2. r.dim \in DimsOf(Reports!DayRows(M, d), r.metric)
        BY <1>5, <1>10, <4>1
      <4>3. QED
        BY <2>1, <4>2 DEF DimsOf, NamesOf
    <3>3. CASE r \in daily
      BY <1>8, <1>12, <2>1, <3>1, <3>3 DEF ActionsAmong, OfDay
    <3>4. QED
      BY <3>1, <3>2, <3>3
  <2>2. QED
    BY <2>1 DEF ActionsAmong
<1>13. job'[v].points = points /\ job'[v].todo = todo /\ job'[v].day = d /\ job'[v].alone = a /\ job'[v].pc = "write"
       /\ (job'[v].clean => M = copies' /\ W = copies') /\ M \in SUBSET Seen' /\ W \in SUBSET Seen'
  BY <1>2, <1>3, <1>5, <1>8
<1>14. Reading(v, M, W)'
  <2>1. NoneDeleted' => M \subseteq W /\ W \subseteq copies' /\ (a => ActionsAmong(NamesOf(M, d), d)')
    BY <1>3, <1>8, <1>12
  <2>2. QED
    BY <1>8, <1>13, <2>1 DEF Reading
<1>15. (\A p \in todo : p.metric # "dau") => HasDau(d)'
  BY <1>6
<1>16. JobReads(v)' /\ JobWrites(v)'
  BY <1>6, <1>11, <1>13, <1>14, <1>15 DEF JobReads, JobWrites
<1>17. QED
  BY <1>4, <1>16 DEF JobSound

LEMMA WritePointKeeps == ASSUME RepInv, NEW w \in Workers, Reports!WritePoint(w) PROVE RepInv'
<1>1. /\ job[w].pc = "write" /\ job[w].todo # {}
      /\ UNCHANGED <<now, copied, copies, kpis, cohorts, jobs, failures>>
      /\ torn' = torn \cup {job[w].day} /\ settled' = settled \ {job[w].day}
  BY DEF Reports!WritePoint, Reports!reads
<1>2. PICK d, p, todo, points :
        d = job[w].day /\ todo = job[w].todo /\ points = job[w].points /\ p = Reports!FirstOf(todo)
  OBVIOUS
<1>3. PICK row : row = DayRow(d, p)
  OBVIOUS
<1>4. /\ daily' = Reports!Upsert(daily, row)
      /\ job' = [v \in Workers |->
                   IF v = w THEN [job[w] EXCEPT !.todo = todo \ {p}]
                   ELSE IF Reports!Crossed(job[v], job[w]) THEN [job[v] EXCEPT !.alone = FALSE] ELSE job[v]]
  BY <1>2, <1>3 DEF Reports!WritePoint, DayRow
<1>40. /\ job'[w] = [job[w] EXCEPT !.todo = todo \ {p}]
       /\ \A v \in Workers : v # w =>
            job'[v] = IF Reports!Crossed(job[v], job[w]) THEN [job[v] EXCEPT !.alone = FALSE] ELSE job[v]
       /\ job' = [v \in Workers |-> job'[v]]
  BY <1>4
<1>5. MirrorTyped /\ RowsKeyed /\ DaysStored /\ KindsGiven /\ IsFiniteSet(daily) /\ daily \subseteq Reports!Rows
  BY DEF RepInv, RepTyped
<1>6. /\ todo \subseteq points /\ (job[w].alone => \A q \in points \ todo : DayRow(d, q) \in daily)
      /\ (\A q \in todo : q.metric # "dau") => HasDau(d)
  BY <1>1, <1>2 DEF RepInv, JobsSound, JobSound, JobWrites
<1>7. PICK M \in SUBSET Seen, W \in SUBSET Seen : Reading(w, M, W)
  BY <1>1 DEF RepInv, JobsSound, JobSound, JobWrites
<1>8. /\ points = PointsOf(M, W, d) /\ (job[w].clean => M = copies /\ W = copies)
      /\ NoneDeleted => M \subseteq W /\ W \subseteq copies /\ (job[w].alone => ActionsAmong(NamesOf(M, d), d))
  BY <1>2, <1>7 DEF Reading
<1>9. PICK j : /\ j = job[w]
               /\ j = [pc |-> j.pc, kind |-> j.kind, day |-> j.day, upto |-> j.upto, at |-> j.at,
                       attempt |-> j.attempt, clean |-> j.clean, alone |-> j.alone, rows |-> j.rows, todo |-> j.todo,
                       points |-> j.points]
  BY <1>1, JobIs
<1>10. /\ j.kind \in {"incremental", "finalize", "cohort", "backfill"}
       /\ j.at \in 0 .. now /\ j.attempt \in Nat /\ j.clean \in BOOLEAN /\ j.alone \in BOOLEAN
       /\ j.day \in Nat /\ j.upto \in Nat /\ j.day <= j.upto /\ j.upto <= Reports!DayOf(j.at)
       /\ j.kind = "finalize" => Reports!DayOf(j.at) >= 1
       /\ d \in Nat /\ d \in 0 .. Reports!Today
  <2>1. /\ j.kind \in {"incremental", "finalize", "cohort", "backfill"}
        /\ j.at \in 0 .. now /\ j.attempt \in Nat /\ j.clean \in BOOLEAN /\ j.alone \in BOOLEAN
        /\ j.day \in Nat /\ j.upto \in Nat /\ j.day <= j.upto /\ j.upto <= Reports!DayOf(j.at)
        /\ j.kind = "finalize" => Reports!DayOf(j.at) >= 1
        /\ Reports!DayOf(j.at) \in Nat /\ Reports!Today \in Nat /\ Reports!DayOf(j.at) <= Reports!Today
    BY <1>1, <1>9, JobIs
  <2>2. d = j.day
    BY <1>2, <1>9
  <2>3. d \in Nat /\ d \in 0 .. Reports!Today
    BY <2>1, <2>2
  <2>4. QED
    BY <2>1, <2>3
<1>11. /\ \A q \in points :
            /\ q.metric \in DayMetrics /\ q.dim \in Reports!Dims /\ q.value \in Nat
            /\ DayRow(d, q) \in Reports!Rows /\ q.dim \in DimsOf(Reports!DayRows(M, d), q.metric)
       /\ \A q, o \in points : q.metric = o.metric /\ q.dim = o.dim => q = o
  BY <1>5, <1>8, <1>10, PointsOfReads
<1>12. p \in todo /\ p \in points /\ ((\E q \in todo : q.metric = "dau") => p.metric = "dau")
  <2>1. todo # {} /\ \A q \in todo : q.metric \in DayMetrics
    BY <1>1, <1>2, <1>6, <1>11
  <2>2. QED
    BY <1>2, <1>6, <2>1, DauIsFirst
<1>13. row.day = d /\ row.metric = p.metric /\ row.dim = p.dim /\ row.value = p.value /\ row \in Reports!Rows
  BY <1>3, <1>11, <1>12 DEF DayRow
<1>14. /\ RowsKeyed' /\ IsFiniteSet(daily') /\ daily' \subseteq Reports!Rows /\ row \in daily'
       /\ \A r \in daily' : r = row \/ r \in daily
       /\ \A r \in daily : r \in daily' \/ Reports!SameKey(r, row)
  BY <1>4, <1>5, <1>13, UpsertKeeps
<1>15. \A r \in daily : r \in daily' \/ (r.day = d /\ r.metric = p.metric /\ r.dim = p.dim)
  BY <1>13, <1>14 DEF Reports!SameKey
<1>16. job'[w] = [pc |-> j.pc, kind |-> j.kind, day |-> j.day, upto |-> j.upto, at |-> j.at, attempt |-> j.attempt,
               clean |-> j.clean, alone |-> j.alone, rows |-> j.rows, todo |-> todo \ {p}, points |-> j.points]
  <2>1. job'[w] = [j EXCEPT !.todo = todo \ {p}]
    BY <1>40, <1>9
  <2>2. QED
    BY <1>9, <2>1
<1>17. /\ job'[w].pc = "write" /\ job'[w].kind = j.kind /\ job'[w].day = d /\ job'[w].upto = j.upto /\ job'[w].at = j.at
       /\ job'[w].attempt = j.attempt /\ job'[w].clean = j.clean /\ job'[w].alone = j.alone /\ job'[w].rows = j.rows /\ job'[w].todo = todo \ {p}
       /\ job'[w].points = points
  BY <1>1, <1>2, <1>9, <1>16
<1>18. job'[w] = [pc |-> job'[w].pc, kind |-> job'[w].kind, day |-> job'[w].day, upto |-> job'[w].upto, at |-> job'[w].at,
               attempt |-> job'[w].attempt, clean |-> job'[w].clean, alone |-> job'[w].alone, rows |-> job'[w].rows, todo |-> job'[w].todo,
               points |-> job'[w].points]
  BY <1>2, <1>9, <1>16, <1>17
<1>19. JobTyped(w)'
  BY <1>1, <1>2, <1>9, <1>10, <1>17, <1>18 DEF JobTyped
<1>20. Reports!Today' = Reports!Today /\ Seen' = Seen /\ MirrorTyped' /\ (NoneDeleted' <=> NoneDeleted)
  BY <1>1, <1>5 DEF Reports!Today, Seen, MirrorTyped, NoneDeleted
<1>21. RepTyped'
  <2>1. torn' \subseteq 0 .. Reports!Today' /\ settled' \subseteq 0 .. Reports!Today'
    BY <1>1, <1>2, <1>10, <1>20 DEF RepInv, RepTyped
  <2>2. \A c \in cohorts' : Labelled(c)'
    BY <1>1 DEF RepInv, RepTyped, Labelled
  <2>3. QED
    BY <1>1, <1>14, <1>20, <2>1, <2>2 DEF RepInv, RepTyped
<1>22. NoneDeleted /\ job[w].alone => ActionsAmong(NamesOf(M, d), d)'
  <2>1. ASSUME NoneDeleted, job[w].alone, NEW r \in OfDay(d)', r.metric = "action" PROVE r.dim \in NamesOf(M, d)
    <3>1. r \in daily' /\ r.day = d /\ r.metric \in DayMetrics
      BY <2>1 DEF OfDay
    <3>2. CASE r = row
      <4>1. p.metric = "action" /\ r.dim = p.dim /\ p.dim \in DimsOf(Reports!DayRows(M, d), p.metric)
        BY <1>11, <1>12, <1>13, <2>1, <3>2
      <4>2. QED
        BY <4>1 DEF DimsOf, NamesOf
    <3>3. CASE r \in daily
      BY <1>8, <2>1, <3>1, <3>3 DEF ActionsAmong, OfDay
    <3>4. QED
      BY <1>14, <3>1, <3>2, <3>3
  <2>2. QED
    BY <2>1 DEF ActionsAmong
<1>23. HasDau(d)'
  <2>1. CASE p.metric = "dau"
    <3>1. p.dim = ""
      BY <1>11, <1>12, <2>1 DEF DimsOf
    <3>2. row \in OfDay(d)'
      BY <1>11, <1>12, <1>13, <1>14 DEF OfDay
    <3>3. QED
      BY <1>13, <2>1, <3>1, <3>2 DEF HasDau
  <2>2. CASE p.metric # "dau"
    <3>1. HasDau(d)
      BY <1>6, <1>12, <2>2
    <3>2. PICK r \in daily : r.day = d /\ r.metric \in DayMetrics /\ r.metric = "dau" /\ r.dim = ""
      BY <3>1 DEF HasDau, OfDay
    <3>3. r \in daily'
      BY <1>15, <2>2, <3>2
    <3>4. QED
      BY <3>2, <3>3 DEF HasDau, OfDay
  <2>3. QED
    BY <2>1, <2>2
<1>24. JobWrites(w)'
  <2>1. Reading(w, M, W)'
    BY <1>1, <1>8, <1>9, <1>17, <1>20, <1>22 DEF Reading
  <2>2. job[w].alone => \A q \in points \ (todo \ {p}) : DayRow(d, q) \in daily'
    <3>1. ASSUME job[w].alone, NEW q \in points \ (todo \ {p}), q # p PROVE DayRow(d, q) \in daily'
      <4>1. DayRow(d, q) \in daily
        BY <1>6, <3>1
      <4>2. ~(q.metric = p.metric /\ q.dim = p.dim)
        BY <1>11, <1>12, <3>1
      <4>3. DayRow(d, q).metric = q.metric /\ DayRow(d, q).dim = q.dim
        BY DEF DayRow
      <4>4. QED
        BY <1>15, <4>1, <4>2, <4>3
    <3>2. QED
      BY <1>3, <1>14, <3>1
  <2>3. todo \ {p} \subseteq points
    BY <1>6
  <2>4. QED
    BY <1>9, <1>17, <1>20, <1>23, <2>1, <2>2, <2>3 DEF JobWrites
<1>25. \A e : HasDau(e) => HasDau(e)'
  <2>1. ASSUME NEW e, e # d, HasDau(e) PROVE HasDau(e)'
    BY <1>15, <2>1 DEF HasDau, OfDay
  <2>2. QED
    BY <1>23, <2>1
<1>26. \A e : e # d => OfDay(e)' = OfDay(e)
  BY <1>13, <1>14, <1>15 DEF OfDay
<1>27. DaysStored'
  <2>1. ASSUME NEW r \in daily', r.metric \in DayMetrics PROVE r.day \in 0 .. Reports!Today' /\ HasDau(r.day)'
    <3>1. CASE r = row
      BY <1>10, <1>13, <1>20, <1>23, <3>1
    <3>2. CASE r \in daily
      BY <1>5, <1>20, <1>25, <2>1, <3>2 DEF DaysStored
    <3>3. QED
      BY <1>14, <3>1, <3>2
  <2>2. \A k \in kpis' : k.asOf >= 1 /\ HasDau(k.asOf - 1)'
    BY <1>1, <1>5, <1>25 DEF DaysStored
  <2>3. ASSUME NEW r \in daily', r.metric \in DayMetrics, r.day \notin torn' PROVE Whole(r.day)'
    <3>1. r.day # d /\ r.day \notin torn
      BY <1>1, <1>2, <2>3
    <3>2. r \in daily
      BY <1>13, <1>14, <3>1
    <3>3. PICK e : e = r.day
      OBVIOUS
    <3>4. PICK N \in SUBSET Seen : \E V \in SUBSET Seen : Holds(N, V, e)
      BY <1>5, <2>3, <3>1, <3>2, <3>3 DEF DaysStored, Whole
    <3>5. PICK V \in SUBSET Seen : Holds(N, V, e)
      BY <3>4
    <3>6. Holds(N, V, e)'
      <4>1. \A q \in PointsOf(N, V, e) : DayRow(e, q) \in daily'
        <5>1. TAKE q \in PointsOf(N, V, e)
        <5>2. DayRow(e, q) \in daily /\ DayRow(e, q).day = e
          BY <3>5 DEF Holds, DayRow
        <5>3. QED
          BY <1>15, <3>1, <3>3, <5>2
      <4>2. NoneDeleted' => N \subseteq V /\ ActionsAmong(NamesOf(N, e), e)'
        BY <1>20, <1>26, <3>1, <3>3, <3>5 DEF Holds, ActionsAmong
      <4>3. QED
        BY <1>1, <3>5, <4>1, <4>2 DEF Holds
    <3>7. QED
      BY <1>20, <3>3, <3>6 DEF Whole
  <2>4. \A e \in settled' : \A q \in PointsOf(copies', copies', e) : DayRow(e, q) \in daily'
    <3>1. TAKE e \in settled'
    <3>2. TAKE q \in PointsOf(copies', copies', e)
    <3>3. e \in settled /\ e # d
      BY <1>1, <1>2
    <3>4. DayRow(e, q) \in daily
      BY <1>1, <1>5, <3>3 DEF DaysStored
    <3>5. DayRow(e, q).day = e
      BY DEF DayRow
    <3>6. QED
      BY <1>15, <3>3, <3>4, <3>5
  <2>5. QED
    BY <2>1, <2>2, <2>3, <2>4 DEF DaysStored
<1>28. KindsGiven'
  <2>1. ASSUME NoneDeleted, NEW r \in daily', r.metric \in DayMetrics \ {"rule"}
        PROVE  r.dim \in DimsOf(Reports!DayRows(copies, r.day), r.metric)
    <3>1. CASE r = row
      <4>1. M \subseteq copies
        BY <1>8, <2>1
      <4>2. Reports!DayRows(M, d) \subseteq Reports!DayRows(copies, d)
        BY <4>1, ReadsGrow
      <4>3. p.dim \in DimsOf(Reports!DayRows(M, d), p.metric) /\ p.metric \in DayMetrics \ {"rule"}
        BY <1>11, <1>12, <1>13, <2>1, <3>1
      <4>4. p.dim \in DimsOf(Reports!DayRows(copies, d), p.metric)
        BY <4>2, <4>3, KindsGrow
      <4>5. QED
        BY <1>13, <3>1, <4>4
    <3>2. CASE r \in daily
      BY <1>5, <2>1, <3>2 DEF KindsGiven
    <3>3. QED
      BY <1>14, <3>1, <3>2
  <2>2. QED
    BY <1>1, <1>20, <2>1 DEF KindsGiven
<1>29. JobReads(w)'
  BY <1>17 DEF JobReads
<1>30. ASSUME NEW v \in Workers, v # w PROVE JobSound(v)'
  <2>1. CASE Reports!Crossed(job[v], job[w])
    <3>1. job'[v] = [job[v] EXCEPT !.alone = FALSE]
      BY <1>30, <1>40, <2>1
    <3>2. job[v].pc \in {"window", "write"}
      BY <2>1 DEF Reports!Crossed
    <3>3. QED
      BY <1>1, <1>25, <3>1, <3>2, OtherCrossed
  <2>2. CASE ~Reports!Crossed(job[v], job[w])
    <3>1. job'[v] = job[v]
      BY <1>30, <1>40, <2>2
    <3>2. CASE job[v].pc = "write" /\ job[v].day = d
      <4>1. job[v].points = points
        BY <1>2, <2>2, <3>2 DEF Reports!Crossed
      <4>2. p \in job[v].points /\ job[v].pc = "write" /\ d = job[v].day
        BY <1>12, <3>2, <4>1
      <4>3. DayRow(d, p) \in daily' /\ (\A r \in daily' : r = DayRow(d, p) \/ r \in daily)
        BY <1>3, <1>14
      <4>4. QED
        BY <1>1, <1>15, <1>25, <3>1, <4>2, <4>3, OtherAgrees
    <3>3. CASE ~(job[v].pc = "write" /\ job[v].day = d)
      <4>1. job[v].pc \in {"window", "write"} => job[v].day # d
        BY <1>2, <2>2, <3>3 DEF Reports!Crossed
      <4>2. \A r : r.day # d => (r \in daily' <=> r \in daily)
        BY <1>13, <1>14, <1>15
      <4>3. job[v].pc \in {"window", "write"} =>
              \A r : r.metric \in DayMetrics /\ r.day = job[v].day => (r \in daily' <=> r \in daily)
        BY <4>1, <4>2
      <4>4. QED
        BY <1>1, <3>1, <4>3, OtherStays
    <3>4. QED
      BY <3>2, <3>3
  <2>3. QED
    BY <2>1, <2>2
<1>31. JobSound(w)'
  BY <1>17, <1>19, <1>24, <1>29 DEF JobSound, Stations
<1>32. JobsSound'
  BY <1>30, <1>31, <1>40 DEF JobsSound
<1>33. QED
  BY <1>14, <1>21, <1>27, <1>28, <1>32 DEF RepInv

\* The headline row has the numbers of its points.
LEMMA ScalarIs ==
  ASSUME NEW dr, NEW wr, NEW day, NEW m \in Scalars
  PROVE  Reports!Scalar(Reports!DayPoints(dr, wr, day), m) = ValueOf(dr, wr, day, m, "")
<1>1. PICK found : found = {p \in Reports!DayPoints(dr, wr, day) : p.metric = m /\ p.dim = ""}
  OBVIOUS
<1>2. m \in DayMetrics /\ "" \in DimsOf(dr, m)
  BY DEF Scalars, DayMetrics, DimsOf
<1>3. PICK q : q = Reports!Point(m, "", ValueOf(dr, wr, day, m, ""))
  OBVIOUS
<1>4. q.metric = m /\ q.dim = "" /\ q.value = ValueOf(dr, wr, day, m, "")
  BY <1>3 DEF Reports!Point
<1>5. q \in found
  BY <1>1, <1>2, <1>3, <1>4, PointValue
<1>6. \A p \in found : p = q
  <2>1. TAKE p \in found
  <2>2. p \in Reports!DayPoints(dr, wr, day) /\ p.metric = m /\ p.dim = ""
    BY <1>1
  <2>3. p = Reports!Point(p.metric, p.dim, ValueOf(dr, wr, day, p.metric, p.dim))
    BY <2>2, PointValue
  <2>4. QED
    BY <1>3, <2>2, <2>3
<1>7. Reports!Scalar(Reports!DayPoints(dr, wr, day), m) = (CHOOSE p \in found : TRUE).value
  BY <1>1, <1>5 DEF Reports!Scalar
<1>8. QED
  BY <1>4, <1>5, <1>6, <1>7

\* A day that has been stored stays, and more KPI rows change nothing of it.
LEMMA MoreKpis ==
  ASSUME MirrorTyped, kpis \subseteq kpis', UNCHANGED <<copied, copies, daily>>,
         NEW M, NEW W, NEW day, Holds(M, W, day)
  PROVE  Holds(M, W, day)'
<1>1. OfDay(day)' = OfDay(day) /\ (NoneDeleted' <=> NoneDeleted)
  BY DEF OfDay, NoneDeleted
<1>2. QED
  BY <1>1 DEF Holds, ActionsAmong

LEMMA AppendKeeps == ASSUME RepInv, NEW w \in Workers, Reports!AppendHeadlineKpis(w) PROVE RepInv'
<1>1. /\ job[w].pc = "write" /\ job[w].todo = {}
      /\ UNCHANGED <<now, copied, copies, daily, cohorts, jobs, failures>>
      /\ torn' = IF job[w].alone THEN torn \ {job[w].day} ELSE torn
      /\ settled' = IF job[w].alone /\ job[w].clean THEN settled \cup {job[w].day} ELSE settled
  BY DEF Reports!AppendHeadlineKpis, Reports!reads
<1>100. PICK next : /\ next = IF job[w].day < job[w].upto THEN [job[w] EXCEPT !.pc = "day", !.day = @ + 1, !.points = {}]
                              ELSE IF job[w].kind = "incremental" THEN Reports!Idle
                              ELSE [job[w] EXCEPT !.pc = "installs", !.points = {}]
                    /\ Reports!Turns(w, next)
  BY DEF Reports!AppendHeadlineKpis
<1>101. Others(w) /\ job'[w] = IF job[w].day < job[w].upto THEN [job[w] EXCEPT !.pc = "day", !.day = @ + 1, !.points = {}]
                              ELSE IF job[w].kind = "incremental" THEN Reports!Idle
                              ELSE [job[w] EXCEPT !.pc = "installs", !.points = {}]
  BY <1>100, TurnIs
<1>2. PICK d, points : d = job[w].day /\ points = job[w].points
  OBVIOUS
<1>3. PICK wau, mau, events : /\ wau = Reports!Scalar(points, "wau") /\ mau = Reports!Scalar(points, "mau")
                              /\ events = Reports!Scalar(points, "events")
  OBVIOUS
<1>4. kpis' = kpis \cup {[asOf |-> d + 1, wau |-> wau, mau |-> mau, events |-> events]}
  BY <1>2, <1>3 DEF Reports!AppendHeadlineKpis
<1>5. MirrorTyped /\ RowsKeyed /\ DaysStored /\ KindsGiven /\ IsFiniteSet(daily) /\ daily \subseteq Reports!Rows
  BY DEF RepInv, RepTyped
<1>6. (job[w].alone => \A q \in points : DayRow(d, q) \in daily) /\ HasDau(d)
  BY <1>1, <1>2 DEF RepInv, JobsSound, JobSound, JobWrites
<1>7. PICK M \in SUBSET Seen, W \in SUBSET Seen : Reading(w, M, W)
  BY <1>1 DEF RepInv, JobsSound, JobSound, JobWrites
<1>8. /\ points = PointsOf(M, W, d) /\ (job[w].clean => M = copies /\ W = copies)
      /\ NoneDeleted => M \subseteq W /\ W \subseteq copies /\ (job[w].alone => ActionsAmong(NamesOf(M, d), d))
  BY <1>2, <1>7 DEF Reading
<1>9. PICK j : /\ j = job[w]
               /\ j = [pc |-> j.pc, kind |-> j.kind, day |-> j.day, upto |-> j.upto, at |-> j.at,
                       attempt |-> j.attempt, clean |-> j.clean, alone |-> j.alone, rows |-> j.rows, todo |-> j.todo,
                       points |-> j.points]
  BY <1>1, JobIs
<1>10. /\ j.kind \in {"incremental", "finalize", "cohort", "backfill"}
       /\ j.at \in 0 .. now /\ j.attempt \in Nat /\ j.clean \in BOOLEAN /\ j.alone \in BOOLEAN
       /\ j.day \in Nat /\ j.upto \in Nat /\ j.day <= j.upto /\ j.upto <= Reports!DayOf(j.at)
       /\ j.kind = "finalize" => Reports!DayOf(j.at) >= 1
       /\ d = j.day /\ d \in 0 .. Reports!Today
  <2>1. /\ j.kind \in {"incremental", "finalize", "cohort", "backfill"}
        /\ j.at \in 0 .. now /\ j.attempt \in Nat /\ j.clean \in BOOLEAN /\ j.alone \in BOOLEAN
        /\ j.day \in Nat /\ j.upto \in Nat /\ j.day <= j.upto /\ j.upto <= Reports!DayOf(j.at)
        /\ j.kind = "finalize" => Reports!DayOf(j.at) >= 1
        /\ Reports!DayOf(j.at) \in Nat /\ Reports!Today \in Nat /\ Reports!DayOf(j.at) <= Reports!Today
    BY <1>1, <1>9, JobIs
  <2>2. d = j.day
    BY <1>2, <1>9
  <2>3. d \in 0 .. Reports!Today
    BY <2>1, <2>2
  <2>4. QED
    BY <2>1, <2>2, <2>3
<1>11. /\ wau = Reports!DistinctShops(Reports!Since(Reports!WindowRows(W, d), d + 1, Week))
       /\ wau \in Nat /\ mau \in Nat /\ events \in Nat
  <2>1. PICK dr, wr : dr = Reports!DayRows(M, d) /\ wr = Reports!WindowRows(W, d)
    OBVIOUS
  <2>2. points = Reports!DayPoints(dr, wr, d)
    BY <1>8, <2>1 DEF PointsOf
  <2>3. "wau" \in Scalars /\ "mau" \in Scalars /\ "events" \in Scalars
    BY DEF Scalars
  <2>4. /\ wau = ValueOf(dr, wr, d, "wau", "") /\ mau = ValueOf(dr, wr, d, "mau", "")
        /\ events = ValueOf(dr, wr, d, "events", "")
    BY <1>3, <2>2, <2>3, ScalarIs
  <2>5. IsFiniteSet(M) /\ IsFiniteSet(W) /\ \A r \in W : r.at \in Nat
    BY <1>5, <1>7, ReadsAre, SeenAre
  <2>6. d \in Nat
    BY <1>10
  <2>7. \A m \in {"dau", "wau", "mau", "active30", "active90", "events"} : Valued(M, W, d, m, "") \in Nat
    BY <2>5, <2>6, FamiliesAgree
  <2>8. /\ wau = Valued(M, W, d, "wau", "") /\ mau = Valued(M, W, d, "mau", "")
        /\ events = Valued(M, W, d, "events", "")
    BY <2>1, <2>4 DEF Valued
  <2>9. wau \in Nat /\ mau \in Nat /\ events \in Nat
    BY <2>7, <2>8
  <2>10. ValueOf(dr, wr, d, "wau", "") = Reports!DistinctShops(Reports!Since(wr, d + 1, Week))
    BY DEF ValueOf
  <2>11. QED
    BY <2>1, <2>4, <2>9, <2>10
<1>12. PICK k : /\ k = [asOf |-> d + 1, wau |-> wau, mau |-> mau, events |-> events]
                /\ k.asOf = d + 1 /\ k.wau = wau /\ k \in [asOf : Nat, wau : Nat, mau : Nat, events : Nat]
                /\ kpis' = kpis \cup {k}
  <2>1. d + 1 \in Nat
    BY <1>10
  <2>2. PICK n \in Nat : n = d + 1
    BY <2>1
  <2>3. PICK k : k = [asOf |-> n, wau |-> wau, mau |-> mau, events |-> events]
    OBVIOUS
  <2>4. k.asOf = n /\ k.wau = wau /\ k \in [asOf : Nat, wau : Nat, mau : Nat, events : Nat]
    BY <1>11, <2>2, <2>3
  <2>5. QED
    BY <1>4, <2>2, <2>3, <2>4
<1>14. Reports!Today' = Reports!Today /\ Seen' = Seen /\ MirrorTyped' /\ (NoneDeleted' <=> NoneDeleted)
  BY <1>1, <1>5 DEF Reports!Today, Seen, MirrorTyped, NoneDeleted
<1>15. ASSUME job[w].alone PROVE Holds(M, W, d)'
  <2>1. \A q \in PointsOf(M, W, d) : DayRow(d, q) \in daily'
    BY <1>1, <1>6, <1>8, <1>15
  <2>2. \E h \in kpis' : /\ h.asOf = d + 1
                         /\ h.wau = Reports!DistinctShops(Reports!Since(Reports!WindowRows(W, d), d + 1, Week))
    BY <1>11, <1>12
  <2>3. NoneDeleted' => M \subseteq W /\ ActionsAmong(NamesOf(M, d), d)'
    BY <1>1, <1>8, <1>14, <1>15 DEF ActionsAmong, OfDay
  <2>4. QED
    BY <2>1, <2>2, <2>3 DEF Holds
<1>16. \A e : HasDau(e)' <=> HasDau(e)
  BY <1>1 DEF HasDau, OfDay
<1>17. DaysStored'
  <2>1. \A r \in daily' : r.metric \in DayMetrics => r.day \in 0 .. Reports!Today' /\ HasDau(r.day)'
    BY <1>1, <1>5, <1>14, <1>16 DEF DaysStored
  <2>2. ASSUME NEW h \in kpis' PROVE h.asOf >= 1 /\ HasDau(h.asOf - 1)'
    <3>1. CASE h \in kpis
      BY <1>5, <1>16, <3>1 DEF DaysStored
    <3>2. CASE h = k
      <4>1. (d + 1) - 1 = d /\ d + 1 >= 1
        BY <1>10
      <4>2. QED
        BY <1>6, <1>12, <1>16, <3>2, <4>1
    <3>3. QED
      BY <1>12, <3>1, <3>2
  <2>3. ASSUME NEW r \in daily', r.metric \in DayMetrics, r.day \notin torn' PROVE Whole(r.day)'
    <3>1. CASE r.day = d /\ job[w].alone
      BY <1>7, <1>14, <1>15, <3>1 DEF Whole
    <3>2. CASE ~(r.day = d /\ job[w].alone)
      <4>1. PICK e : e = r.day
        OBVIOUS
      <4>2. r.day \notin torn /\ r \in daily
        BY <1>1, <1>2, <2>3, <3>2
      <4>3. PICK N \in SUBSET Seen : \E V \in SUBSET Seen : Holds(N, V, e)
        BY <1>5, <2>3, <4>1, <4>2 DEF DaysStored, Whole
      <4>4. PICK V \in SUBSET Seen : Holds(N, V, e)
        BY <4>3
      <4>5. Holds(N, V, e)'
        BY <1>1, <1>5, <1>12, <4>4, MoreKpis
      <4>6. QED
        BY <1>14, <4>1, <4>5 DEF Whole
    <3>3. QED
      BY <3>1, <3>2
  <2>4. \A e \in settled' : \A q \in PointsOf(copies', copies', e) : DayRow(e, q) \in daily'
    <3>1. TAKE e \in settled'
    <3>2. CASE e \in settled
      BY <1>1, <1>5, <3>2 DEF DaysStored
    <3>3. CASE e = d /\ job[w].clean /\ job[w].alone
      BY <1>1, <1>6, <1>8, <3>3
    <3>4. QED
      BY <1>1, <1>2, <3>2, <3>3
  <2>5. QED
    BY <2>1, <2>2, <2>3, <2>4 DEF DaysStored
<1>18. KindsGiven' /\ RowsKeyed'
  BY <1>1, <1>5, <1>14 DEF KindsGiven, RowsKeyed
<1>19. /\ job'[w].pc \in {"idle", "day", "installs"} /\ JobTyped(w)'
  <2>1. CASE job'[w] = Reports!Idle
    BY <2>1 DEF Reports!Idle, JobTyped
  <2>2. CASE job[w].day < job[w].upto /\ job'[w] = [job[w] EXCEPT !.pc = "day", !.day = @ + 1, !.points = {}]
    <3>1. job'[w] = [j EXCEPT !.pc = "day", !.day = @ + 1, !.points = {}]
      BY <1>9, <2>2
    <3>2. job'[w] = [pc |-> "day", kind |-> j.kind, day |-> j.day + 1, upto |-> j.upto, at |-> j.at,
                  attempt |-> j.attempt, clean |-> j.clean, alone |-> j.alone, rows |-> j.rows, todo |-> j.todo, points |-> {}]
      BY <1>9, <3>1
    <3>3. /\ job'[w].pc = "day" /\ job'[w].kind = j.kind /\ job'[w].day = j.day + 1 /\ job'[w].upto = j.upto /\ job'[w].at = j.at
          /\ job'[w].attempt = j.attempt /\ job'[w].clean = j.clean /\ job'[w].alone = j.alone /\ job'[w].rows = j.rows /\ job'[w].todo = j.todo
          /\ job'[w].points = {}
      BY <3>2
    <3>4. job'[w] = [pc |-> job'[w].pc, kind |-> job'[w].kind, day |-> job'[w].day, upto |-> job'[w].upto, at |-> job'[w].at,
                  attempt |-> job'[w].attempt, clean |-> job'[w].clean, alone |-> job'[w].alone, rows |-> job'[w].rows, todo |-> job'[w].todo,
                  points |-> job'[w].points]
      BY <3>2, <3>3
    <3>5. j.day + 1 \in Nat /\ j.day + 1 <= j.upto
      BY <1>9, <1>10, <2>2
    <3>6. QED
      BY <1>1, <1>10, <3>3, <3>4, <3>5 DEF JobTyped
  <2>3. CASE job'[w] = [job[w] EXCEPT !.pc = "installs", !.points = {}]
    <3>1. job'[w] = [j EXCEPT !.pc = "installs", !.points = {}]
      BY <1>9, <2>3
    <3>2. job'[w] = [pc |-> "installs", kind |-> j.kind, day |-> j.day, upto |-> j.upto, at |-> j.at,
                  attempt |-> j.attempt, clean |-> j.clean, alone |-> j.alone, rows |-> j.rows, todo |-> j.todo, points |-> {}]
      BY <1>9, <3>1
    <3>3. /\ job'[w].pc = "installs" /\ job'[w].kind = j.kind /\ job'[w].day = j.day /\ job'[w].upto = j.upto /\ job'[w].at = j.at
          /\ job'[w].attempt = j.attempt /\ job'[w].clean = j.clean /\ job'[w].alone = j.alone /\ job'[w].rows = j.rows /\ job'[w].todo = j.todo
          /\ job'[w].points = {}
      BY <3>2
    <3>4. job'[w] = [pc |-> job'[w].pc, kind |-> job'[w].kind, day |-> job'[w].day, upto |-> job'[w].upto, at |-> job'[w].at,
                  attempt |-> job'[w].attempt, clean |-> job'[w].clean, alone |-> job'[w].alone, rows |-> job'[w].rows, todo |-> job'[w].todo,
                  points |-> job'[w].points]
      BY <3>2, <3>3
    <3>5. QED
      BY <1>1, <1>10, <3>3, <3>4 DEF JobTyped
  <2>4. QED
    BY <1>101, <2>1, <2>2, <2>3
<1>20. JobReads(w)' /\ JobWrites(w)'
  BY <1>19 DEF JobReads, JobWrites
<1>21. RepTyped'
  <2>1. torn' \subseteq 0 .. Reports!Today' /\ settled' \subseteq 0 .. Reports!Today'
    BY <1>1, <1>2, <1>10, <1>14 DEF RepInv, RepTyped
  <2>2. \A c \in cohorts' : Labelled(c)'
    BY <1>1 DEF RepInv, RepTyped, Labelled
  <2>3. \A h \in kpis' : h \in [asOf : Nat, wau : Nat, mau : Nat, events : Nat]
    BY <1>12 DEF RepInv, RepTyped
  <2>4. QED
    BY <1>1, <1>5, <1>14, <2>1, <2>2, <2>3 DEF RepInv, RepTyped
<1>22. JobsSound'
  <2>1. ASSUME NEW v \in Workers, v # w PROVE JobSound(v)'
    <3>1. job'[v] = job[v]
      BY <1>101, <2>1 DEF Others
    <3>2. QED
      BY <1>1, <3>1, OtherStays
  <2>2. JobSound(w)'
    BY <1>19, <1>20 DEF JobSound, Stations
  <2>3. QED
    BY <1>101, <2>1, <2>2 DEF JobsSound, Others
<1>23. QED
  BY <1>17, <1>18, <1>21, <1>22 DEF RepInv

\* A row of the retention matrix is a row, and none of a day.
LEMMA MatrixTyped ==
  ASSUME NEW I, IsFiniteSet(I), \A r \in I : r.at \in Nat, NEW A, NEW t, NEW x \in Reports!RetentionRows(I, A, t)
  PROVE  x \in Reports!Rows /\ x.metric \in MatrixMetrics
<1>. DEFINE first(s) == CHOOSE r \in I : r.shop = s /\ \A q \in I : q.shop = s => r.at <= q.at
            shops == {r.shop : r \in I}
<1>. DEFINE cohort == Reports!CohortShops(I)
<1>2. DOMAIN cohort = shops /\ \A s \in shops : cohort[s] = Reports!IsoWeekStart(first(s).at)
  BY DEF Reports!CohortShops
<1>3. \A s \in shops : first(s) \in I
  <2>1. TAKE s \in shops
  <2>2. PICK T : T = {r.at : r \in {q \in I : q.shop = s}}
    OBVIOUS
  <2>3. T \subseteq Nat /\ T # {}
    BY <2>2
  <2>4. PICK l \in T : \A k \in T : l <= k
    BY <2>3, LeastOf
  <2>5. PICK r \in I : r.shop = s /\ r.at = l
    BY <2>2
  <2>6. \A q \in I : q.shop = s => r.at <= q.at
    BY <2>2, <2>4, <2>5
  <2>7. QED
    BY <2>5, <2>6
<1>. HIDE DEF first, cohort
<1>4. \A s \in shops : cohort[s] \in Int
  <2>1. TAKE s \in shops
  <2>2. PICK u \in Nat : u = first(s).at
    BY <1>3
  <2>3. PICK a \in Nat : a = Reports!DayOf(u)
    BY DaysFollow
  <2>4. PICK w \in Nat \ {0} : w = Week
    BY Configuration
  <2>5. (a + 3) % w \in Int /\ a - ((a + 3) % w) \in Int
    OBVIOUS
  <2>6. Reports!IsoWeekStart(u) \in Int
    BY <2>3, <2>4, <2>5 DEF Reports!IsoWeekStart
  <2>7. QED
    BY <1>2, <2>2, <2>6
<1>. DEFINE f == [r \in I |-> r.shop]
<1>5. f \in Surjection(I, shops)
  BY DEF Surjection
<1>6. IsFiniteSet(shops)
  BY <1>5, FS_Surjection
<1>. HIDE DEF f, shops
<1>7. \A S : S \subseteq DOMAIN cohort => Reports!Cardinality(S) \in Nat
  BY <1>2, <1>6, SubsetCounts, ReportsCount
<1>. DEFINE members(w) == {s \in DOMAIN cohort : cohort[s] = w}
            inWeek(r, w) == Reports!DayStart(w) <= r.at /\ r.at < Reports!DayStart(w + Week)
            back(w, n) == {s \in members(w) : \E r \in A : r.shop = s /\ inWeek(r, w + n * Week)}
            weeks(w) == {n \in 0 .. MaxWeeks - 1 : n <= Reports!WeekOffset(w, t)}
            firstWeeks == {cohort[s] : s \in DOMAIN cohort}
            row(w, metric, dim, S) == [day |-> w, metric |-> metric, dim |-> dim, value |-> Reports!Cardinality(S)]
<1>8. Reports!RetentionRows(I, A, t)
        = {row(w, "cohort_size", "", members(w)) : w \in firstWeeks}
          \cup UNION {{row(w, "cohort", OffsetText[n], back(w, n)) : n \in weeks(w)} : w \in firstWeeks}
  BY Zenon DEF Reports!RetentionRows, cohort
<1>9. "" \in Reports!Dims /\ \A n \in 0 .. MaxWeeks - 1 : OffsetText[n] \in Reports!Dims
  <2>1. PICK D : OffsetText \in [D -> STRING] /\ D = 0 .. MaxWeeks - 1
    BY Configuration
  <2>2. DOMAIN OffsetText = 0 .. MaxWeeks - 1
    BY <2>1
  <2>3. QED
    BY <2>2 DEF Reports!Dims
<1>10. \A w \in firstWeeks : w \in Int
  BY <1>2, <1>4
<1>11. \A w, n : members(w) \subseteq DOMAIN cohort /\ back(w, n) \subseteq DOMAIN cohort
  OBVIOUS
<1>12. \A w \in Int, m \in MatrixMetrics, e \in Reports!Dims : \A S \in SUBSET DOMAIN cohort :
         row(w, m, e, S) \in Reports!Rows /\ row(w, m, e, S).metric \in MatrixMetrics
  <2>1. TAKE w \in Int, m \in MatrixMetrics, e \in Reports!Dims
  <2>2. TAKE S \in SUBSET DOMAIN cohort
  <2>3. PICK c \in Nat : c = Reports!Cardinality(S)
    BY <1>7
  <2>4. [day |-> w, metric |-> m, dim |-> e, value |-> c] \in Reports!Rows
    BY DEF Reports!Rows, MatrixMetrics
  <2>5. QED
    BY <2>3, <2>4
<1>13. "cohort" \in MatrixMetrics /\ "cohort_size" \in MatrixMetrics
  BY DEF MatrixMetrics
<1>. HIDE DEF row, members, back, firstWeeks
<1>14. CASE x \in {row(w, "cohort_size", "", members(w)) : w \in firstWeeks}
  <2>1. PICK w \in firstWeeks : x = row(w, "cohort_size", "", members(w))
    BY <1>14
  <2>2. w \in Int /\ members(w) \in SUBSET DOMAIN cohort
    BY <1>10, <1>11
  <2>3. QED
    BY <1>9, <1>12, <1>13, <2>1, <2>2
<1>15. CASE x \in UNION {{row(w, "cohort", OffsetText[n], back(w, n)) : n \in weeks(w)} : w \in firstWeeks}
  <2>1. PICK w \in firstWeeks : \E n \in weeks(w) : x = row(w, "cohort", OffsetText[n], back(w, n))
    BY <1>15
  <2>2. PICK n \in weeks(w) : x = row(w, "cohort", OffsetText[n], back(w, n))
    BY <2>1
  <2>3. w \in Int /\ back(w, n) \in SUBSET DOMAIN cohort /\ n \in 0 .. MaxWeeks - 1
    BY <1>10, <1>11, <2>2
  <2>4. QED
    BY <1>9, <1>12, <1>13, <2>2, <2>3
<1>16. QED
  BY <1>8, <1>14, <1>15

\* The job's record with other contents.
JobWith(w, pc, rows, todo) ==
  [pc |-> pc, kind |-> job[w].kind, day |-> job[w].day, upto |-> job[w].upto, at |-> job[w].at, attempt |-> job[w].attempt,
   clean |-> job[w].clean, alone |-> job[w].alone, rows |-> rows, todo |-> todo, points |-> job[w].points]

LEMMA JobStays ==
  ASSUME RepInv, UNCHANGED <<now, copied>>, NEW w \in Workers, job[w].pc # "idle", NEW pc, NEW rows, NEW todo, job'[w] = JobWith(w, pc, rows, todo),
         pc = "activity" => rows \subseteq Seen,
         pc = "retention" => \A r \in todo : r \in Reports!Rows /\ r.metric \in MatrixMetrics,
         pc = "append" => IsFiniteSet(rows) /\ \A c \in rows : Labelled(c)
  PROVE  JobTyped(w)' /\ job'[w].pc = pc /\ job'[w].day = job[w].day
<1>1. PICK j : /\ j = job[w]
               /\ j = [pc |-> j.pc, kind |-> j.kind, day |-> j.day, upto |-> j.upto, at |-> j.at,
                       attempt |-> j.attempt, clean |-> j.clean, alone |-> j.alone, rows |-> j.rows, todo |-> j.todo,
                       points |-> j.points]
  BY JobIs
<1>2. job'[w] = [pc |-> pc, kind |-> j.kind, day |-> j.day, upto |-> j.upto, at |-> j.at, attempt |-> j.attempt,
              clean |-> j.clean, alone |-> j.alone, rows |-> rows, todo |-> todo, points |-> j.points]
  BY <1>1 DEF JobWith
<1>3. /\ job'[w].pc = pc /\ job'[w].kind = j.kind /\ job'[w].day = j.day /\ job'[w].upto = j.upto /\ job'[w].at = j.at
      /\ job'[w].attempt = j.attempt /\ job'[w].clean = j.clean /\ job'[w].alone = j.alone /\ job'[w].rows = rows /\ job'[w].todo = todo
      /\ job'[w].points = j.points
  BY <1>2
<1>4. job'[w] = [pc |-> job'[w].pc, kind |-> job'[w].kind, day |-> job'[w].day, upto |-> job'[w].upto, at |-> job'[w].at,
              attempt |-> job'[w].attempt, clean |-> job'[w].clean, alone |-> job'[w].alone, rows |-> job'[w].rows, todo |-> job'[w].todo,
              points |-> job'[w].points]
  BY <1>2, <1>3
<1>5. /\ j.kind \in {"incremental", "finalize", "cohort", "backfill"}
      /\ j.at \in 0 .. now /\ j.attempt \in Nat /\ j.clean \in BOOLEAN /\ j.alone \in BOOLEAN
      /\ j.day \in Nat /\ j.upto \in Nat /\ j.day <= j.upto /\ j.upto <= Reports!DayOf(j.at)
      /\ j.kind = "finalize" => Reports!DayOf(j.at) >= 1
  BY <1>1, JobIs
<1>6. Seen' = Seen /\ \A c : Labelled(c)' <=> Labelled(c)
  BY DEF Seen, Labelled
<1>7. JobTyped(w)'
  BY <1>3, <1>4, <1>5, <1>6 DEF JobTyped
<1>8. QED
  BY <1>1, <1>3, <1>7

\* Reads and steps of the matrix and of the assignment, which are about no day.
LEMMA JobElsewhere ==
  ASSUME RepInv, Reads, UNCHANGED cohorts, NEW w \in Workers, Others(w), job[w].pc # "idle", NEW pc \in {"activity", "retention", "append"},
         NEW rows, NEW todo, job'[w] = JobWith(w, pc, rows, todo),
         pc = "activity" => rows \subseteq Seen,
         pc = "retention" => \A r \in todo : r \in Reports!Rows /\ r.metric \in MatrixMetrics,
         pc = "append" => IsFiniteSet(rows) /\ \A c \in rows : Labelled(c)
  PROVE  RepInv'
<1>1. UNCHANGED <<now, copied>>
  BY DEF Reads
<1>2. JobTyped(w)' /\ job'[w].pc = pc
  BY <1>1, JobStays
<1>3. JobReads(w)' /\ JobWrites(w)'
  BY <1>2 DEF JobReads, JobWrites
<1>4. IsFiniteSet(cohorts') /\ \A c \in cohorts' : Labelled(c)'
  BY <1>1 DEF RepInv, RepTyped, Labelled
<1>5. job'[w].pc \in Stations
  BY <1>2 DEF Stations
<1>6. QED
  BY <1>2, <1>3, <1>4, <1>5, JobRuns

LEMMA ReadInstallsKeeps == ASSUME RepInv, NEW w \in Workers, Reports!ReadInstalls(w) PROVE RepInv'
<1>1. PICK R : R = Reports!Named(Reports!ReadWindow(copies, Reports!RetentionFrom(job[w].at),
                                                    Reports!DayStart(Reports!DayOf(job[w].at) + 1)), {"app_installed"})
  OBVIOUS
<1>20. /\ job[w].pc = "installs" /\ Reports!Turns(w, [job[w] EXCEPT !.pc = "activity", !.rows = R])
       /\ UNCHANGED <<now, copied, copies, daily, kpis, cohorts, jobs, failures, settled, torn>>
  BY <1>1 DEF Reports!ReadInstalls, Reports!reads
<1>2. /\ job[w].pc = "installs" /\ job'[w] = [job[w] EXCEPT !.pc = "activity", !.rows = R] /\ Others(w)
      /\ UNCHANGED <<now, copied, copies, daily, kpis, cohorts, jobs, failures, settled, torn>>
  BY <1>20, TurnIs
<1>3. MirrorTyped /\ jobs \in Nat /\ failures \in Nat
  BY DEF RepInv, RepTyped
<1>4. Reads
  BY <1>2, <1>3 DEF Reads
<1>5. R \subseteq Seen
  BY <1>1, <1>3 DEF MirrorTyped, Reports!Named, Reports!ReadWindow
<1>6. job'[w] = JobWith(w, "activity", R, job[w].todo)
  <2>1. PICK j : /\ j = job[w]
                 /\ j = [pc |-> j.pc, kind |-> j.kind, day |-> j.day, upto |-> j.upto, at |-> j.at,
                         attempt |-> j.attempt, clean |-> j.clean, alone |-> j.alone, rows |-> j.rows, todo |-> j.todo,
                         points |-> j.points]
    BY <1>2, JobIs
  <2>2. job'[w] = [j EXCEPT !.pc = "activity", !.rows = R]
    BY <1>2, <2>1
  <2>3. job'[w] = [pc |-> "activity", kind |-> j.kind, day |-> j.day, upto |-> j.upto, at |-> j.at,
                attempt |-> j.attempt, clean |-> j.clean, alone |-> j.alone, rows |-> R, todo |-> j.todo, points |-> j.points]
    BY <2>1, <2>2
  <2>4. QED
    BY <2>1, <2>3 DEF JobWith
<1>7. QED
  BY <1>2, <1>4, <1>5, <1>6, JobElsewhere

LEMMA ReadActivityKeeps == ASSUME RepInv, NEW w \in Workers, Reports!ReadActivity(w) PROVE RepInv'
<1>1. PICK A, I, t : /\ I = job[w].rows /\ t = job[w].at
                     /\ A = Reports!ReadWindow(copies, Reports!RetentionFrom(job[w].at),
                                               Reports!DayStart(Reports!DayOf(job[w].at) + 1))
  OBVIOUS
<1>2. PICK T : T = Reports!RetentionRows(I, A, t)
  OBVIOUS
<1>30. /\ job[w].pc = "activity" /\ Reports!Turns(w, [job[w] EXCEPT !.pc = "retention", !.rows = {}, !.todo = T])
       /\ UNCHANGED <<now, copied, copies, daily, kpis, cohorts, jobs, failures, settled, torn>>
  BY <1>1, <1>2 DEF Reports!ReadActivity, Reports!reads
<1>3. /\ job[w].pc = "activity" /\ job'[w] = [job[w] EXCEPT !.pc = "retention", !.rows = {}, !.todo = T] /\ Others(w)
      /\ UNCHANGED <<now, copied, copies, daily, kpis, cohorts, jobs, failures, settled, torn>>
  BY <1>30, TurnIs
<1>4. MirrorTyped /\ jobs \in Nat /\ failures \in Nat /\ JobTyped(w)
  BY DEF RepInv, RepTyped, JobsSound, JobSound
<1>5. Reads
  BY <1>3, <1>4 DEF Reads
<1>6. I \subseteq Seen
  BY <1>1, <1>3, <1>4 DEF JobTyped
<1>7. IsFiniteSet(I) /\ \A r \in I : r.at \in Nat
  BY <1>4, <1>6, SeenAre, SubsetCounts
<1>8. \A r \in T : r \in Reports!Rows /\ r.metric \in MatrixMetrics
  BY <1>2, <1>7, MatrixTyped
<1>9. job'[w] = JobWith(w, "retention", {}, T)
  <2>1. PICK j : /\ j = job[w]
                 /\ j = [pc |-> j.pc, kind |-> j.kind, day |-> j.day, upto |-> j.upto, at |-> j.at,
                         attempt |-> j.attempt, clean |-> j.clean, alone |-> j.alone, rows |-> j.rows, todo |-> j.todo,
                         points |-> j.points]
    BY <1>3, JobIs
  <2>2. job'[w] = [j EXCEPT !.pc = "retention", !.rows = {}, !.todo = T]
    BY <1>3, <2>1
  <2>3. job'[w] = [pc |-> "retention", kind |-> j.kind, day |-> j.day, upto |-> j.upto, at |-> j.at,
                attempt |-> j.attempt, clean |-> j.clean, alone |-> j.alone, rows |-> {}, todo |-> T, points |-> j.points]
    BY <2>1, <2>2
  <2>4. QED
    BY <2>1, <2>3 DEF JobWith
<1>10. QED
  BY <1>3, <1>5, <1>8, <1>9, JobElsewhere

LEMMA WriteRetentionKeeps == ASSUME RepInv, NEW w \in Workers, Reports!WriteRetention(w) PROVE RepInv'
<1>1. /\ job[w].pc = "retention"
      /\ UNCHANGED <<now, copied, copies, kpis, cohorts, jobs, failures, settled, torn>>
  BY DEF Reports!WriteRetention, Reports!reads
<1>2. /\ MirrorTyped /\ jobs \in Nat /\ failures \in Nat /\ JobTyped(w)
      /\ RowsKeyed /\ DaysStored /\ KindsGiven /\ IsFiniteSet(daily) /\ daily \subseteq Reports!Rows
  BY DEF RepInv, RepTyped, JobsSound, JobSound
<1>3. \A c \in cohorts' : Labelled(c)'
  BY <1>1 DEF RepInv, RepTyped, Labelled
<1>4. CASE job[w].todo = {}
  <2>0. Reports!Turns(w, Reports!Idle) /\ daily' = daily
    BY <1>4 DEF Reports!WriteRetention
  <2>1. job'[w] = Reports!Idle /\ Others(w) /\ daily' = daily
    BY <2>0, TurnIs
  <2>2. job'[w].pc = "idle" /\ job'[w].pc \in Stations
    BY <2>1 DEF Reports!Idle, Stations
  <2>3. JobTyped(w)' /\ JobReads(w)' /\ JobWrites(w)'
    BY <2>2 DEF JobTyped, JobReads, JobWrites
  <2>4. Reads
    BY <1>1, <1>2, <2>1 DEF Reads
  <2>5. IsFiniteSet(cohorts')
    BY <1>1 DEF RepInv, RepTyped
  <2>6. QED
    BY <1>3, <2>1, <2>2, <2>3, <2>4, <2>5, JobRuns
<1>5. CASE job[w].todo # {}
  <2>1. PICK todo : todo = job[w].todo
    OBVIOUS
  <2>2. PICK row : row = CHOOSE r \in todo : TRUE
    OBVIOUS
  <2>30. /\ daily' = Reports!Upsert(daily, row)
         /\ Reports!Turns(w, [job[w] EXCEPT !.todo = todo \ {row}])
    BY <1>5, <2>1, <2>2 DEF Reports!WriteRetention
  <2>3. /\ daily' = Reports!Upsert(daily, row)
        /\ job'[w] = [job[w] EXCEPT !.todo = todo \ {row}] /\ Others(w)
    BY <2>30, TurnIs
  <2>4. \A r \in todo : r \in Reports!Rows /\ r.metric \in MatrixMetrics
    BY <1>1, <1>2, <2>1 DEF JobTyped
  <2>5. row \in todo /\ row \in Reports!Rows /\ row.metric \in MatrixMetrics
    BY <1>5, <2>1, <2>2, <2>4
  <2>6. row.metric \notin DayMetrics
    BY <2>5 DEF MatrixMetrics, DayMetrics
  <2>7. /\ RowsKeyed' /\ IsFiniteSet(daily') /\ daily' \subseteq Reports!Rows
        /\ \A r \in daily' : r = row \/ r \in daily
        /\ \A r \in daily : r \in daily' \/ Reports!SameKey(r, row)
    BY <1>2, <2>3, <2>5, UpsertKeeps
  <2>8. \A r : r.metric \in DayMetrics => (r \in daily' <=> r \in daily)
    BY <2>6, <2>7 DEF Reports!SameKey
  <2>9. \A d : OfDay(d)' = OfDay(d) /\ (HasDau(d)' <=> HasDau(d))
    BY <2>8 DEF OfDay, HasDau
  <2>10. Reports!Today' = Reports!Today /\ Seen' = Seen /\ MirrorTyped' /\ (NoneDeleted' <=> NoneDeleted)
    BY <1>1, <1>2 DEF Reports!Today, Seen, MirrorTyped, NoneDeleted
  <2>11. ASSUME NEW M \in SUBSET Seen, NEW W \in SUBSET Seen, NEW d \in Nat
         PROVE  \A p \in PointsOf(M, W, d) : DayRow(d, p).metric \in DayMetrics
    <3>1. \A p \in PointsOf(M, W, d) : p.metric \in DayMetrics
      BY <1>2, PointsOfReads
    <3>2. QED
      BY <3>1 DEF DayRow
  <2>12. DaysStored'
    <3>1. \A r \in daily' : r.metric \in DayMetrics => r.day \in 0 .. Reports!Today' /\ HasDau(r.day)'
      BY <1>2, <2>8, <2>9, <2>10 DEF DaysStored
    <3>2. \A k \in kpis' : k.asOf >= 1 /\ HasDau(k.asOf - 1)'
      BY <1>1, <1>2, <2>9 DEF DaysStored
    <3>3. ASSUME NEW r \in daily', r.metric \in DayMetrics, r.day \notin torn' PROVE Whole(r.day)'
      <4>1. r \in daily /\ r.day \in 0 .. Reports!Today /\ r.day \notin torn
        BY <1>1, <1>2, <2>8, <3>3 DEF DaysStored
      <4>2. PICK e \in Nat : e = r.day
        <5>1. Reports!Today \in Nat
          BY <1>2, TodayIs
        <5>2. r.day \in Nat
          BY <4>1, <5>1
        <5>3. QED
          BY <5>2
      <4>3. PICK M \in SUBSET Seen : \E W \in SUBSET Seen : Holds(M, W, e)
        BY <1>2, <3>3, <4>1, <4>2 DEF DaysStored, Whole
      <4>4. PICK W \in SUBSET Seen : Holds(M, W, e)
        BY <4>3
      <4>5. \A p \in PointsOf(M, W, e) : DayRow(e, p) \in daily'
        <5>1. \A p \in PointsOf(M, W, e) : DayRow(e, p) \in daily
          BY <4>4 DEF Holds
        <5>2. QED
          BY <2>8, <2>11, <5>1
      <4>6. NoneDeleted' => M \subseteq W /\ ActionsAmong(NamesOf(M, e), e)'
        BY <2>9, <2>10, <4>4 DEF Holds, ActionsAmong
      <4>7. Holds(M, W, e)'
        BY <1>1, <4>4, <4>5, <4>6 DEF Holds
      <4>8. QED
        BY <2>10, <4>2, <4>7 DEF Whole
    <3>4. \A e \in settled' : \A q \in PointsOf(copies', copies', e) : DayRow(e, q) \in daily'
      <4>1. TAKE e \in settled'
      <4>2. TAKE q \in PointsOf(copies', copies', e)
      <4>3. e \in Nat
        <5>1. Reports!Today \in Nat /\ e \in 0 .. Reports!Today
          BY <1>1, <1>2, TodayIs DEF RepInv, RepTyped
        <5>2. QED
          BY <5>1
      <4>4. DayRow(e, q) \in daily
        BY <1>1, <1>2 DEF DaysStored
      <4>5. copies \in SUBSET Seen /\ copies' = copies
        BY <1>1, <1>2 DEF MirrorTyped
      <4>6. DayRow(e, q).metric \in DayMetrics
        BY <2>11, <4>3, <4>5
      <4>7. QED
        BY <2>8, <4>4, <4>6
    <3>5. QED
      BY <3>1, <3>2, <3>3, <3>4 DEF DaysStored
  <2>13. KindsGiven'
    BY <1>1, <1>2, <2>8, <2>10 DEF KindsGiven
  <2>14. job'[w] = JobWith(w, "retention", job[w].rows, todo \ {row})
    <3>1. PICK j : /\ j = job[w]
                   /\ j = [pc |-> j.pc, kind |-> j.kind, day |-> j.day, upto |-> j.upto, at |-> j.at,
                           attempt |-> j.attempt, clean |-> j.clean, alone |-> j.alone, rows |-> j.rows, todo |-> j.todo,
                           points |-> j.points]
      BY <1>1, JobIs
    <3>2. job'[w] = [j EXCEPT !.todo = todo \ {row}]
      BY <2>3, <3>1
    <3>3. job'[w] = [pc |-> j.pc, kind |-> j.kind, day |-> j.day, upto |-> j.upto, at |-> j.at,
                  attempt |-> j.attempt, clean |-> j.clean, alone |-> j.alone, rows |-> j.rows, todo |-> todo \ {row},
                  points |-> j.points]
      BY <3>1, <3>2
    <3>4. QED
      BY <1>1, <3>1, <3>3 DEF JobWith
  <2>15. JobTyped(w)' /\ job'[w].pc = "retention"
    <3>1. \A r \in todo \ {row} : r \in Reports!Rows /\ r.metric \in MatrixMetrics
      BY <2>4
    <3>2. PICK R, T : R = job[w].rows /\ T = todo \ {row}
      OBVIOUS
    <3>3. job'[w] = JobWith(w, "retention", R, T) /\ \A r \in T : r \in Reports!Rows /\ r.metric \in MatrixMetrics
      BY <2>14, <3>1, <3>2
    <3>4. QED
      BY <1>1, <3>3, JobStays
  <2>16. JobReads(w)' /\ JobWrites(w)'
    BY <2>15 DEF JobReads, JobWrites
  <2>17. RepTyped'
    BY <1>1, <1>2, <1>3, <2>7, <2>10 DEF RepInv, RepTyped
  <2>18. JobsSound'
    <3>1. ASSUME NEW v \in Workers, v # w PROVE JobSound(v)'
      <4>1. job'[v] = job[v]
        BY <2>3, <3>1 DEF Others
      <4>2. QED
        BY <1>1, <2>8, <4>1, OtherStays
    <3>2. JobSound(w)'
      BY <2>15, <2>16 DEF JobSound, Stations
    <3>3. QED
      BY <2>3, <3>1, <3>2 DEF JobsSound, Others
  <2>19. QED
    BY <2>7, <2>12, <2>13, <2>17, <2>18 DEF RepInv
<1>6. QED
  BY <1>4, <1>5

\* An assignment has one row, with a label, per shop that has an event.
LEMMA AssignmentsAre ==
  ASSUME MirrorTyped, NEW t \in Nat, t <= now
  PROVE  /\ IsFiniteSet(Reports!ComputeAssignments(copies, t))
         /\ \A c \in Reports!ComputeAssignments(copies, t) : Labelled(c)
<1>. DEFINE live == {r \in copies : ~r.impersonated}
            ofShop(s) == {r \in live : r.shop = s}
            score == [s \in {r.shop : r \in live} |->
                        Reports!IntensityScore(Reports!IntensityCounts(Reports!Trailing(ofShop(s), t)))]
            shops == {r.shop : r \in live}
            row(s) == [shop |-> s, lifecycle |-> Reports!AssignLifecycle(ofShop(s), t),
                       intensity |-> Reports!IntensityBand(score, s),
                       personas |-> Reports!AssignPersonas(Reports!PersonaCounts(Reports!Trailing(ofShop(s), t))), at |-> t]
<1>1. Reports!ComputeAssignments(copies, t) = {row(s) : s \in DOMAIN score}
  BY Zenon DEF Reports!ComputeAssignments
<1>2. DOMAIN score = shops
  OBVIOUS
<1>3. \A R : Reports!AssignLifecycle(R, t) \in Labels
  BY DEF Reports!AssignLifecycle, Labels
<1>4. \A s : row(s).shop = s /\ row(s).at = t /\ row(s).lifecycle \in Labels
  BY <1>3
<1>5. IsFiniteSet(copies) /\ live \subseteq copies /\ IsFiniteSet(live)
  BY SeenAre, SubsetCounts
<1>6. \A s \in shops : s \in Reports!Shops
  BY SeenAre DEF MirrorTyped
<1>. HIDE DEF row
<1>. DEFINE f == [r \in live |-> row(r.shop)]
            made == {row(s) : s \in shops}
<1>7. f \in Surjection(live, made)
  BY DEF Surjection
<1>. HIDE DEF f, live
<1>8. IsFiniteSet(made)
  BY <1>5, <1>7, FS_Surjection
<1>9. \A c \in made : Labelled(c)
  BY <1>4, <1>6 DEF Labelled
<1>10. QED
  BY <1>1, <1>2, <1>8, <1>9

LEMMA RunAssignmentKeeps == ASSUME RepInv, NEW w \in Workers, Reports!RunAssignment(w) PROVE RepInv'
<1>1. /\ job[w].pc \in {"cohort", "append"} /\ job[w].pc # "idle"
      /\ UNCHANGED <<now, copied, copies, daily, kpis, jobs, failures, settled, torn>>
  BY DEF Reports!RunAssignment, Reports!reads
<1>2. MirrorTyped /\ jobs \in Nat /\ failures \in Nat /\ JobTyped(w)
  BY DEF RepInv, RepTyped, JobsSound, JobSound
<1>3. Reads
  BY <1>1, <1>2 DEF Reads
<1>4. CASE job[w].pc = "cohort"
  <2>1. PICK t, R : t = job[w].at /\ R = Reports!ComputeAssignments(copies, t)
    OBVIOUS
  <2>20. Reports!Turns(w, [job[w] EXCEPT !.pc = "append", !.rows = R]) /\ cohorts' = cohorts
    BY <1>4, <2>1 DEF Reports!RunAssignment
  <2>2. job'[w] = [job[w] EXCEPT !.pc = "append", !.rows = R] /\ Others(w) /\ cohorts' = cohorts
    BY <2>20, TurnIs
  <2>3. t \in Nat /\ t <= now
    <3>1. job[w].at \in 0 .. now /\ now \in Nat
      BY <1>1, JobIs
    <3>2. QED
      BY <2>1, <3>1
  <2>4. IsFiniteSet(R) /\ \A c \in R : Labelled(c)
    BY <1>2, <2>1, <2>3, AssignmentsAre
  <2>5. job'[w] = JobWith(w, "append", R, job[w].todo)
    <3>1. PICK j : /\ j = job[w]
                   /\ j = [pc |-> j.pc, kind |-> j.kind, day |-> j.day, upto |-> j.upto, at |-> j.at,
                           attempt |-> j.attempt, clean |-> j.clean, alone |-> j.alone, rows |-> j.rows, todo |-> j.todo,
                           points |-> j.points]
      BY <1>1, JobIs
    <3>2. job'[w] = [j EXCEPT !.pc = "append", !.rows = R]
      BY <2>2, <3>1
    <3>3. job'[w] = [pc |-> "append", kind |-> j.kind, day |-> j.day, upto |-> j.upto, at |-> j.at,
                  attempt |-> j.attempt, clean |-> j.clean, alone |-> j.alone, rows |-> R, todo |-> j.todo, points |-> j.points]
      BY <3>1, <3>2
    <3>4. QED
      BY <3>1, <3>3 DEF JobWith
  <2>6. QED
    BY <1>1, <1>3, <2>2, <2>4, <2>5, JobElsewhere
<1>5. CASE job[w].pc = "append"
  <2>0. Reports!Turns(w, Reports!Idle) /\ cohorts' = cohorts \cup job[w].rows
    BY <1>5 DEF Reports!RunAssignment
  <2>1. job'[w] = Reports!Idle /\ Others(w) /\ cohorts' = cohorts \cup job[w].rows
    BY <2>0, TurnIs
  <2>2. job'[w].pc = "idle" /\ job'[w].pc \in Stations
    BY <2>1 DEF Reports!Idle, Stations
  <2>3. JobTyped(w)' /\ JobReads(w)' /\ JobWrites(w)'
    BY <2>2 DEF JobTyped, JobReads, JobWrites
  <2>4. IsFiniteSet(job[w].rows) /\ \A c \in job[w].rows : Labelled(c)
    BY <1>1, <1>2, <1>5 DEF JobTyped
  <2>5. IsFiniteSet(cohorts) /\ \A c \in cohorts : Labelled(c)
    BY DEF RepInv, RepTyped
  <2>6. IsFiniteSet(cohorts')
    BY <2>1, <2>4, <2>5, FS_Union
  <2>7. \A c \in cohorts' : Labelled(c)'
    BY <1>1, <2>1, <2>4, <2>5 DEF Labelled
  <2>8. QED
    BY <1>3, <2>1, <2>2, <2>3, <2>6, <2>7, JobRuns
<1>6. QED
  BY <1>1, <1>4, <1>5

LEMMA RepStarts == ASSUME Reports!Init PROVE RepInv
<1>1. /\ now = Opening /\ copied = 0 /\ copies = {} /\ daily = {} /\ kpis = {} /\ cohorts = {}
      /\ job = [w \in Workers |-> Reports!Idle] /\ settled = {} /\ torn = {}
  BY DEF Reports!Init
<1>2. jobs \in Nat /\ failures \in Nat
  <2>1. PICK b \in Budgets : jobs = b[1] /\ failures = b[2]
    BY DEF Reports!Init
  <2>2. b \in Nat \X Nat
    BY ReadersAssumption DEF Reports!Configured
  <2>3. QED
    BY <2>1, <2>2
<1>3. MirrorTyped
  <2>1. PICK n \in Nat : n = Len(History)
    BY Configuration, LenProperties
  <2>2. copied \in 0 .. Len(History)
    BY <1>1, <2>1
  <2>3. QED
    BY <1>1, <2>2, Configuration DEF MirrorTyped
<1>4. job = [w \in Workers |-> job[w]] /\ \A w \in Workers : job[w].pc = "idle"
  BY <1>1 DEF Reports!Idle
<1>5. RepTyped
  BY <1>1, <1>2, <1>3, FS_EmptySet DEF RepTyped
<1>6. RowsKeyed /\ DaysStored /\ KindsGiven
  BY <1>1 DEF RowsKeyed, DaysStored, KindsGiven
<1>7. JobsSound
  BY <1>4 DEF JobsSound, JobSound, JobTyped, JobReads, JobWrites, Stations
<1>8. QED
  BY <1>5, <1>6, <1>7 DEF RepInv

LEMMA RepSteps == ASSUME RepInv, [Reports!Next]_(Reports!vars) PROVE RepInv'
<1>1. CASE Reports!Tick \/ Reports!Ingest \/ Reports!Delete \/ UNCHANGED Reports!vars
  BY <1>1, MirrorSteps
<1>2. ASSUME NEW w \in Workers, Reports!Rollup(w) PROVE RepInv'
  <2>1. CASE Reports!Take(w)
    BY <2>1, TakeKeeps
  <2>2. CASE Reports!ReadDay(w)
    BY <2>2, ReadDayKeeps
  <2>3. CASE Reports!ReadWide(w)
    BY <2>3, ReadWideKeeps
  <2>4. CASE Reports!WritePoint(w)
    BY <2>4, WritePointKeeps
  <2>5. CASE Reports!AppendHeadlineKpis(w)
    BY <2>5, AppendKeeps
  <2>6. CASE Reports!ReadInstalls(w)
    BY <2>6, ReadInstallsKeeps
  <2>7. CASE Reports!ReadActivity(w)
    BY <2>7, ReadActivityKeeps
  <2>8. CASE Reports!WriteRetention(w)
    BY <2>8, WriteRetentionKeeps
  <2>9. CASE Reports!RunAssignment(w)
    BY <2>9, RunAssignmentKeeps
  <2>10. CASE Reports!Fail(w)
    BY <2>10, FailKeeps
  <2>11. QED
    BY <1>2, <2>1, <2>2, <2>3, <2>4, <2>5, <2>6, <2>7, <2>8, <2>9, <2>10 DEF Reports!Rollup
<1>3. QED
  BY <1>1, <1>2 DEF Reports!Next

LEMMA RepHolds == Reports!Spec => []RepInv
<1>1. Reports!Init => RepInv
  BY RepStarts
<1>2. RepInv /\ [Reports!Next]_(Reports!vars) => RepInv'
  BY RepSteps
<1>3. QED
  BY <1>1, <1>2, PTL DEF Reports!Spec

-----------------------------------------------------------------------------
(* What the rollups show.                                                  *)

LEMMA RowsTyped ==
  ASSUME RepInv
  PROVE  /\ \A r \in daily : /\ r.metric \in DayMetrics \/ r.metric \in MatrixMetrics
                             /\ r.day \in Int /\ r.dim \in Reports!Dims /\ r.value \in Nat
                             /\ r = [day |-> r.day, metric |-> r.metric, dim |-> r.dim, value |-> r.value]
         /\ settled \subseteq Nat /\ torn \subseteq Nat
<1>1. ASSUME NEW r \in daily
      PROVE  /\ r.metric \in DayMetrics \/ r.metric \in MatrixMetrics
             /\ r.day \in Int /\ r.dim \in Reports!Dims /\ r.value \in Nat
             /\ r = [day |-> r.day, metric |-> r.metric, dim |-> r.dim, value |-> r.value]
  <2>1. r \in Reports!Rows
    BY DEF RepInv, RepTyped
  <2>2. r.metric \in Reports!ToSet(Reports!DayMetrics) \/ r.metric \in MatrixMetrics
    BY <2>1 DEF Reports!Rows, MatrixMetrics
  <2>3. r.metric \in DayMetrics \/ r.metric \in MatrixMetrics
    BY <2>2, MetricsOfDay
  <2>4. QED
    BY <2>1, <2>3 DEF Reports!Rows
<1>2. settled \subseteq 0 .. Reports!Today /\ torn \subseteq 0 .. Reports!Today /\ Reports!Today \in Nat
  BY TodayIs DEF RepInv, RepTyped
<1>3. settled \subseteq Nat /\ torn \subseteq Nat
  BY <1>2
<1>4. QED
  BY <1>1, <1>3

LEMMA DaysShowComputed == ASSUME RepInv PROVE DaysAreComputed
<1>1. Reports!TypeOK
  <2>1. MirrorTyped
    BY DEF RepInv, RepTyped
  <2>2. copied \in 0 .. Len(History) /\ copies \subseteq {History[i] : i \in 1 .. copied} /\ now \in 0 .. MaxNow
    BY <2>1 DEF MirrorTyped, Seen
  <2>3. \A w \in Workers : job[w].pc \in Stations
    BY DEF RepInv, JobsSound, JobSound
  <2>4. QED
    BY <2>2, <2>3 DEF Reports!TypeOK, RepInv, RepTyped, Labelled, Stations
<1>2. ASSUME NEW d \in settled, NEW computed, computed = Reports!ComputedRows(d),
             NEW stored, stored = Reports!StoredRows(d)
      PROVE  /\ computed \subseteq stored
             /\ \A r \in stored \ computed : r.metric = "rule" \/ Reports!Cardinality(copies) < copied
  <2>1. PICK dr, wr : dr = Reports!DayRows(copies, d) /\ wr = Reports!WindowRows(copies, d)
    OBVIOUS
  <2>2. computed = RowsOf(dr, wr, d)
    BY <1>2, <2>1, ComputedAre
  <2>3. \A r : r \in stored <=> r \in daily /\ r.day = d /\ r.metric \notin MatrixMetrics
    BY <1>2 DEF Reports!StoredRows, MatrixMetrics
  <2>4. \A m \in DayMetrics : m \notin MatrixMetrics
    BY DEF DayMetrics, MatrixMetrics
  <2>5. \A r \in computed : r \in daily /\ r.day = d /\ r.metric \in DayMetrics
    <3>1. TAKE r \in computed
    <3>2. r.day = d /\ r.metric \in DayMetrics
      BY <2>2, RowsHave
    <3>3. PICK p \in Reports!DayPoints(dr, wr, d) : r = DayRow(d, p)
      BY <2>2 DEF RowsOf
    <3>4. p \in PointsOf(copies, copies, d)
      BY <2>1, <3>3 DEF PointsOf
    <3>5. r \in daily
      BY <3>3, <3>4 DEF RepInv, DaysStored
    <3>6. QED
      BY <3>2, <3>5
  <2>6. computed \subseteq stored
    BY <2>3, <2>4, <2>5
  <2>7. ASSUME NEW r \in stored, r \notin computed, r.metric # "rule", ~(Reports!Cardinality(copies) < copied)
        PROVE  FALSE
    <3>1. NoneDeleted
      <4>1. Cardinality(copies) \in Nat /\ Cardinality(copies) <= copied /\ copied \in Nat
        BY SeenAre DEF RepInv, RepTyped
      <4>2. Reports!Cardinality(copies) = Cardinality(copies)
        BY ReportsCount
      <4>3. QED
        BY <2>7, <4>1, <4>2 DEF NoneDeleted
    <3>2. r \in daily /\ r.day = d /\ r.metric \in DayMetrics \ {"rule"}
      BY <2>3, <2>7, RowsTyped
    <3>3. r.dim \in DimsOf(dr, r.metric)
      BY <2>1, <3>1, <3>2 DEF RepInv, KindsGiven
    <3>4. PICK m, e : m \in DayMetrics /\ m = r.metric /\ e = r.dim /\ e \in DimsOf(dr, m)
      BY <3>2, <3>3
    <3>5. PICK q : q = [day |-> d, metric |-> m, dim |-> e, value |-> ValueOf(dr, wr, d, m, e)]
      OBVIOUS
    <3>6. q \in computed
      BY <2>2, <3>4, <3>5, RowsHave
    <3>7. Reports!SameKey(r, q)
      BY <3>2, <3>4, <3>5 DEF Reports!SameKey
    <3>8. r = q
      BY <2>5, <3>2, <3>6, <3>7 DEF RepInv, RowsKeyed
    <3>9. QED
      BY <2>7, <3>6, <3>8
  <2>8. QED
    BY <2>6, <2>7
<1>3. Reports!SettledIsComputed
  BY <1>2 DEF Reports!SettledIsComputed
<1>4. QED
  BY <1>1, <1>3 DEF DaysAreComputed

\* A day that has been rolled up from the mirror as it is, through whatever failures, retries
\* and other jobs, has stored what the mirror gives, and nothing else but what deleted events
\* and rules that have dropped out of the top have left.
THEOREM DaysAreComputedHolds == Reports!Spec => []DaysAreComputed
<1>1. RepInv => DaysAreComputed
  BY DaysShowComputed
<1>2. QED
  BY <1>1, RepHolds, PTL

\* The families of metrics of such a day, computed apart, tell one story.
THEOREM DaysAgreeHolds == Reports!Spec => []DaysAgree
<1>1. RepInv => DaysAgree
  BY DaysShowAgreement, RowsTyped DEF RepInv, RepTyped
<1>2. QED
  BY <1>1, RepHolds, PTL

-----------------------------------------------------------------------------
(* What the readers show.                                                  *)

\* Fewer rows add up to no more.
LEMMA TotalGrows ==
  ASSUME NEW R, IsFiniteSet(R), \A r \in R : r.value \in Nat, NEW Q, Q \subseteq R
  PROVE  Reports!Total(Q) \in Nat /\ Reports!Total(R) \in Nat /\ Reports!Total(Q) <= Reports!Total(R)
<1>. DEFINE Pairs(r) == {r} \X (1 .. r.value)
            F == {Pairs(r) : r \in R}
            f == [r \in R |-> Pairs(r)]
<1>1. f \in Surjection(R, F)
  BY DEF Surjection
<1>2. IsFiniteSet(F)
  BY <1>1, FS_Surjection
<1>3. \A P \in F : IsFiniteSet(P)
  <2>1. \A r \in R : IsFiniteSet({r}) /\ IsFiniteSet(1 .. r.value)
    BY FS_Singleton, FS_Interval
  <2>2. \A r \in R : IsFiniteSet(Pairs(r))
    BY <2>1, FS_Product
  <2>3. QED
    BY <2>2
<1>4. IsFiniteSet(UNION F)
  <2>. HIDE DEF F
  <2>1. QED
    BY <1>2, <1>3, FS_UNION
<1>5. PICK A, B : A = UNION {Pairs(r) : r \in Q} /\ B = UNION F
  OBVIOUS
<1>6. A \subseteq B
  BY <1>5
<1>7. IsFiniteSet(B)
  BY <1>4, <1>5
<1>8. Cardinality(A) \in Nat /\ Cardinality(B) \in Nat /\ Cardinality(A) <= Cardinality(B)
  BY <1>6, <1>7, SubsetCounts
<1>9. Reports!Total(Q) = Cardinality(A) /\ Reports!Total(R) = Cardinality(B)
  BY <1>5, ReportsCount DEF Reports!Total
<1>10. QED
  BY <1>8, <1>9

LEMMA TotalOfNone == Reports!Total({}) = 0
  BY ReportsCount, FS_EmptySet DEF Reports!Total

\* The day of the newest active shops is the newest of any day's rows.
LEMMA NewestDay ==
  ASSUME RepInv, NEW r \in Reports!Newest(Reports!OfMetric(daily, "dau"))
  PROVE  /\ r \in daily /\ r.metric = "dau" /\ r.day \in Nat /\ r.day <= Reports!Today
         /\ \A q \in daily : q.metric \in DayMetrics => q.day \in Nat /\ q.day <= r.day
         /\ \A q \in daily : q.metric \in DayMetrics /\ q.day >= r.day => q.day = r.day
         /\ \A k \in kpis : k.asOf \in Nat /\ k.asOf <= r.day + 1
<1>1. /\ r \in daily /\ r.metric = "dau"
      /\ \A q \in daily : q.metric = "dau" => r.day >= q.day
  BY DEF Reports!Newest, Reports!OfMetric
<1>2. "dau" \in DayMetrics
  BY DEF DayMetrics
<1>3. Reports!Today \in Nat
  BY TodayIs DEF RepInv, RepTyped
<1>4. \A q \in daily : q.metric \in DayMetrics => q.day \in 0 .. Reports!Today /\ HasDau(q.day)
  BY DEF RepInv, DaysStored
<1>5. r.day \in Nat /\ r.day <= Reports!Today
  BY <1>1, <1>2, <1>3, <1>4
<1>6. \A d : HasDau(d) => d <= r.day
  BY <1>1 DEF HasDau, OfDay
<1>7. \A q \in daily : q.metric \in DayMetrics => q.day \in Nat /\ q.day <= r.day
  BY <1>3, <1>4, <1>6
<1>8. ASSUME NEW k \in kpis PROVE k.asOf \in Nat /\ k.asOf <= r.day + 1
  <2>1. k.asOf \in Nat
    BY DEF RepInv, RepTyped
  <2>2. k.asOf - 1 <= r.day
    BY <1>6 DEF RepInv, DaysStored
  <2>3. QED
    BY <1>5, <2>1, <2>2
<1>9. \A q \in daily : q.metric \in DayMetrics /\ q.day >= r.day => q.day = r.day
  BY <1>5, <1>7
<1>10. QED
  BY <1>1, <1>5, <1>7, <1>8, <1>9

\* Of a day stored as a whole the readers find the numbers of its two reads.
LEMMA NewestScalar ==
  ASSUME RepInv, NEW r \in Reports!Newest(Reports!OfMetric(daily, "dau")), NEW M, NEW W, Holds(M, W, r.day),
         NEW m \in Scalars
  PROVE  Reports!LatestScalar(daily, m) = {Valued(M, W, r.day, m, "")}
<1>1. PICK D, v : D = r.day /\ v = Valued(M, W, D, m, "")
  OBVIOUS
<1>2. PICK dr, wr : dr = Reports!DayRows(M, D) /\ wr = Reports!WindowRows(W, D)
  OBVIOUS
<1>3. v = ValueOf(dr, wr, D, m, "")
  BY <1>1, <1>2 DEF Valued
<1>4. PICK x : x = [day |-> D, metric |-> m, dim |-> "", value |-> v]
  OBVIOUS
<1>5. x.day = D /\ x.metric = m /\ x.dim = "" /\ x.value = v
  BY <1>4
<1>6. m \in DayMetrics
  BY DEF Scalars, DayMetrics
<1>7. x \in daily
  <2>1. x \in RowsOf(dr, wr, D)
    BY <1>3, <1>4, ScalarRow
  <2>2. PICK p \in Reports!DayPoints(dr, wr, D) : x = DayRow(D, p)
    BY <2>1 DEF RowsOf
  <2>3. QED
    BY <1>1, <1>2, <2>2 DEF Holds, PointsOf
<1>8. \A q \in daily : q.metric \in DayMetrics => q.day \in Nat /\ q.day <= D
  BY <1>1, NewestDay
<1>9. D \in Nat
  BY <1>1, NewestDay
<1>10. PICK N : N = Reports!Newest({q \in Reports!OfMetric(daily, m) : q.dim = ""})
  OBVIOUS
<1>11. \A q : q \in N <=> /\ q \in daily /\ q.metric = m /\ q.dim = ""
                         /\ \A o \in daily : o.metric = m /\ o.dim = "" => q.day >= o.day
  BY <1>10 DEF Reports!Newest, Reports!OfMetric
<1>12. x \in N
  BY <1>5, <1>6, <1>7, <1>8, <1>9, <1>11
<1>13. \A q \in N : q = x
  <2>1. TAKE q \in N
  <2>2. q \in daily /\ q.metric = m /\ q.dim = "" /\ q.day >= D
    BY <1>5, <1>7, <1>11
  <2>3. q.day = D
    <3>1. q.day \in Nat /\ q.day <= D
      BY <1>6, <1>8, <2>2
    <3>2. PICK a \in Nat, b \in Nat : a = q.day /\ b = D
      BY <1>9, <3>1
    <3>3. a >= b /\ a <= b
      BY <2>2, <3>1, <3>2
    <3>4. QED
      BY <3>2, <3>3
  <2>4. Reports!SameKey(q, x)
    BY <1>5, <2>2, <2>3 DEF Reports!SameKey
  <2>5. QED
    BY <1>7, <2>2, <2>4 DEF RepInv, RowsKeyed
<1>14. Reports!LatestScalar(daily, m) = {q.value : q \in N}
  BY <1>10 DEF Reports!LatestScalar
<1>15. QED
  BY <1>1, <1>5, <1>12, <1>13, <1>14

\* What the readers find of a dimension of a day's metric.
Found(M, W, day, m, f) ==
  /\ f \in DOMAIN Reports!LatestDimensionValues(daily, m)
  /\ Reports!LatestDimensionValues(daily, m)[f] = Valued(M, W, day, m, f)
  /\ [day |-> day, metric |-> m, dim |-> f, value |-> Valued(M, W, day, m, f)] \in daily
  /\ \A g \in DOMAIN Reports!LatestDimensionValues(daily, m) :
       g # "" /\ \E q \in daily : q.day = day /\ q.metric = m /\ q.dim = g

\* Of a metric that has a row that day, by dimension.
LEMMA NewestDimension ==
  ASSUME RepInv, NEW r \in Reports!Newest(Reports!OfMetric(daily, "dau")), NEW M, NEW W, Holds(M, W, r.day),
         NEW m \in DayMetrics, NEW f \in DimsOf(Reports!DayRows(M, r.day), m), f # ""
  PROVE  Found(M, W, r.day, m, f)
<1>1. PICK D, v : D = r.day /\ v = Valued(M, W, D, m, f)
  OBVIOUS
<1>2. PICK dr, wr : dr = Reports!DayRows(M, D) /\ wr = Reports!WindowRows(W, D)
  OBVIOUS
<1>3. v = ValueOf(dr, wr, D, m, f) /\ f \in DimsOf(dr, m)
  BY <1>1, <1>2 DEF Valued
<1>4. PICK x : x = [day |-> D, metric |-> m, dim |-> f, value |-> v]
  OBVIOUS
<1>5. x.day = D /\ x.metric = m /\ x.dim = f /\ x.value = v
  BY <1>4
<1>6. x \in daily
  <2>1. x \in RowsOf(dr, wr, D)
    BY <1>3, <1>4, RowsHave
  <2>2. PICK p \in Reports!DayPoints(dr, wr, D) : x = DayRow(D, p)
    BY <2>1 DEF RowsOf
  <2>3. QED
    BY <1>1, <1>2, <2>2 DEF Holds, PointsOf
<1>7. D \in Nat /\ \A q \in daily : q.metric \in DayMetrics => q.day \in Nat /\ q.day <= D
  BY <1>1, NewestDay
<1>21. \A q \in daily : q.metric = m /\ q.day >= D => q.day = D
  BY <1>1, NewestDay
<1>. DEFINE N == {q \in Reports!Newest(Reports!OfMetric(daily, m)) : q.dim # ""}
            L == [d \in {q.dim : q \in N} |-> (CHOOSE q \in N : q.dim = d).value]
<1>8. Reports!LatestDimensionValues(daily, m) = L
  BY Zenon DEF Reports!LatestDimensionValues
<1>9. \A q : q \in N <=> /\ q \in daily /\ q.metric = m /\ q.dim # ""
                        /\ \A o \in daily : o.metric = m => q.day >= o.day
  BY DEF Reports!Newest, Reports!OfMetric
<1>. HIDE DEF N
<1>10. x \in N
  BY <1>5, <1>6, <1>7, <1>9
<1>11. \A q \in N : q \in daily /\ q.day = D /\ q.metric = m /\ q.dim # ""
  <2>1. TAKE q \in N
  <2>2. q \in daily /\ q.metric = m /\ q.dim # "" /\ q.day >= D
    BY <1>5, <1>6, <1>9
  <2>4. q.day = D
    BY <1>21, <2>2
  <2>5. QED
    BY <2>2, <2>4
<1>12. \A q \in N : q.dim = f => q = x
  <2>1. TAKE q \in N
  <2>2. HAVE q.dim = f
  <2>3. Reports!SameKey(q, x) /\ q \in daily
    BY <1>5, <1>11, <2>2 DEF Reports!SameKey
  <2>4. QED
    BY <1>6, <2>3 DEF RepInv, RowsKeyed
<1>15. f \in {q.dim : q \in N}
  BY <1>5, <1>10
<1>16. (CHOOSE q \in N : q.dim = f) = x
  BY <1>5, <1>10, <1>12
<1>17. f \in DOMAIN L /\ L[f] = v
  BY <1>5, <1>15, <1>16
<1>18. \A g \in DOMAIN L : g # "" /\ \E q \in daily : q.day = D /\ q.metric = m /\ q.dim = g
  BY <1>11
<1>. HIDE DEF L
<1>19. QED
  BY <1>1, <1>4, <1>6, <1>8, <1>17, <1>18 DEF Found

LEMMA FeaturesNamed == \A f \in Reports!Adoption : f # ""
  BY Configuration DEF Reports!Adoption

\* What the page of features shows of one.
LEMMA FeatureShown ==
  ASSUME RepInv, NEW r \in Reports!Newest(Reports!OfMetric(daily, "dau")), NEW M, NEW W, Holds(M, W, r.day),
         NEW f \in Reports!Adoption, NEW num \in {"adoption30", "adoption90"}, NEW den \in Scalars
  PROVE  /\ Reports!AdoptionRows(daily, num, den)[f].shops = Valued(M, W, r.day, num, f)
         /\ Reports!AdoptionRows(daily, num, den)[f].active = Valued(M, W, r.day, den, "")
         /\ [day |-> r.day, metric |-> num, dim |-> f, value |-> Valued(M, W, r.day, num, f)] \in daily
<1>1. PICK a, b, c : /\ a = Valued(M, W, r.day, num, f) /\ b = Valued(M, W, r.day, den, "")
                     /\ c = [day |-> r.day, metric |-> num, dim |-> f, value |-> Valued(M, W, r.day, num, f)]
  OBVIOUS
<1>2. num \in DayMetrics /\ f \in DimsOf(Reports!DayRows(M, r.day), num) /\ f # ""
  BY FeaturesNamed DEF DayMetrics, DimsOf
<1>3. PICK L : L = Reports!LatestDimensionValues(daily, num)
  OBVIOUS
<1>11. Found(M, W, r.day, num, f)
  BY <1>2, NewestDimension
<1>4. f \in DOMAIN L /\ L[f] = a /\ c \in daily
  BY <1>1, <1>3, <1>11 DEF Found
<1>5. PICK S : S = Reports!LatestScalar(daily, den)
  OBVIOUS
<1>6. S = {b}
  BY <1>1, <1>5, NewestScalar
<1>7. S # {} /\ (CHOOSE v \in S : TRUE) = b
  BY <1>6
<1>8. Reports!AdoptionRows(daily, num, den)
        = [g \in Reports!Adoption |->
             [shops |-> IF g \in DOMAIN L THEN L[g] ELSE 0, active |-> IF S = {} THEN 0 ELSE CHOOSE v \in S : TRUE]]
  BY <1>3, <1>5 DEF Reports!AdoptionRows
<1>9. Reports!AdoptionRows(daily, num, den)[f] = [shops |-> a, active |-> b]
  BY <1>4, <1>7, <1>8
<1>12. /\ Reports!AdoptionRows(daily, num, den)[f].shops = a
       /\ Reports!AdoptionRows(daily, num, den)[f].active = b
  BY <1>9
<1>10. QED
  BY Zenon, <1>1, <1>4, <1>12

LEMMA FeaturesShow ==
  ASSUME RepInv, NEW r \in Reports!Newest(Reports!OfMetric(daily, "dau")), r.day \notin torn,
         NEW f \in Reports!Adoption
  PROVE  /\ Reports!FeaturesPage(daily, Reports!Today).adoption30[f].shops
              <= Reports!FeaturesPage(daily, Reports!Today).adoption30[f].active
         /\ Reports!FeaturesPage(daily, Reports!Today).adoption90[f].shops
              <= Reports!FeaturesPage(daily, Reports!Today).adoption90[f].active
         /\ \E p \in Reports!FeaturesPage(daily, Reports!Today).trends[f] :
              p = [day |-> r.day, value |-> Reports!FeaturesPage(daily, Reports!Today).adoption30[f].shops,
                   provisional |-> r.day = Reports!Today]
<1>1. r \in daily /\ r.metric = "dau" /\ r.day \in Nat
  BY NewestDay
<1>2. PICK M \in SUBSET Seen : \E W \in SUBSET Seen : Holds(M, W, r.day)
  <2>1. "dau" \in DayMetrics
    BY DEF DayMetrics
  <2>2. Whole(r.day)
    BY <1>1, <2>1 DEF RepInv, DaysStored
  <2>3. QED
    BY <2>2 DEF Whole
<1>3. PICK W \in SUBSET Seen : Holds(M, W, r.day)
  BY <1>2
<1>4. PICK a30, a90, b30, b90 :
        /\ a30 = Valued(M, W, r.day, "adoption30", f) /\ a90 = Valued(M, W, r.day, "adoption90", f)
        /\ b30 = Valued(M, W, r.day, "active30", "") /\ b90 = Valued(M, W, r.day, "active90", "")
  OBVIOUS
<1>5. a30 <= b30 /\ a90 <= b90
  <2>1. MirrorTyped
    BY DEF RepInv, RepTyped
  <2>2. IsFiniteSet(M) /\ IsFiniteSet(W) /\ \A e \in W : e.at \in Nat
    BY <1>2, <1>3, <2>1, ReadsAre, SeenAre
  <2>3. /\ \A g : Valued(M, W, r.day, "adoption30", g) <= Valued(M, W, r.day, "active30", "")
        /\ \A g : Valued(M, W, r.day, "adoption90", g) <= Valued(M, W, r.day, "active90", "")
    BY <1>1, <2>2, FamiliesAgree
  <2>4. QED
    BY <1>4, <2>3
<1>6. PICK c : c = [day |-> r.day, metric |-> "adoption30", dim |-> f, value |-> a30]
  OBVIOUS
<1>7. "active30" \in Scalars /\ "active90" \in Scalars
  BY DEF Scalars
<1>16. "adoption30" \in {"adoption30", "adoption90"} /\ "adoption90" \in {"adoption30", "adoption90"}
  OBVIOUS
<1>17. /\ Reports!AdoptionRows(daily, "adoption30", "active30")[f].shops = Valued(M, W, r.day, "adoption30", f)
       /\ Reports!AdoptionRows(daily, "adoption30", "active30")[f].active = Valued(M, W, r.day, "active30", "")
       /\ [day |-> r.day, metric |-> "adoption30", dim |-> f, value |-> Valued(M, W, r.day, "adoption30", f)] \in daily
  BY Zenon, <1>3, <1>7, <1>16, FeatureShown
<1>19. "adoption90" \in {"adoption30", "adoption90"} /\ "active90" \in Scalars
  BY <1>7
<1>18. /\ Reports!AdoptionRows(daily, "adoption90", "active90")[f].shops = Valued(M, W, r.day, "adoption90", f)
       /\ Reports!AdoptionRows(daily, "adoption90", "active90")[f].active = Valued(M, W, r.day, "active90", "")
       /\ [day |-> r.day, metric |-> "adoption90", dim |-> f, value |-> Valued(M, W, r.day, "adoption90", f)] \in daily
  BY <1>3, <1>19, FeatureShown
<1>8. /\ Reports!AdoptionRows(daily, "adoption30", "active30")[f].shops = a30
      /\ Reports!AdoptionRows(daily, "adoption30", "active30")[f].active = b30
      /\ c \in daily
  BY <1>4, <1>6, <1>17
<1>9. /\ Reports!AdoptionRows(daily, "adoption90", "active90")[f].shops = a90
      /\ Reports!AdoptionRows(daily, "adoption90", "active90")[f].active = b90
  BY <1>4, <1>18
<1>10. PICK page : page = Reports!FeaturesPage(daily, Reports!Today)
  OBVIOUS
<1>11. /\ page.adoption30 = Reports!AdoptionRows(daily, "adoption30", "active30")
       /\ page.adoption90 = Reports!AdoptionRows(daily, "adoption90", "active90")
       /\ page.trends[f] = Reports!Series(daily, "adoption30", f, Reports!Today)
  BY <1>10 DEF Reports!FeaturesPage
<1>12. PICK s : s = [day |-> r.day, value |-> a30, provisional |-> r.day = Reports!Today]
  OBVIOUS
<1>13. s \in Reports!Series(daily, "adoption30", f, Reports!Today)
  <2>1. c.metric = "adoption30" /\ c.dim = f /\ c.day = r.day /\ c.value = a30
    BY <1>6
  <2>2. c \in {q \in Reports!OfMetric(daily, "adoption30") : q.dim = f}
    BY <1>8, <2>1 DEF Reports!OfMetric
  <2>3. s = [day |-> c.day, value |-> c.value, provisional |-> c.day = Reports!Today]
    BY <1>12, <2>1
  <2>4. QED
    BY <2>2, <2>3 DEF Reports!Series
<1>14. page.adoption30[f].shops = a30 /\ page.adoption30[f].active = b30
       /\ page.adoption90[f].shops = a90 /\ page.adoption90[f].active = b90 /\ s \in page.trends[f]
  BY <1>8, <1>9, <1>11, <1>13
<1>15. QED
  BY <1>5, <1>10, <1>12, <1>14

\* The shops of a day are among its month's, and the tile has the stored numbers of the week.
LEMMA TilesShow ==
  ASSUME RepInv, NEW r \in Reports!Newest(Reports!OfMetric(daily, "dau")), r.day \notin torn
  PROVE  /\ NoneDeleted => \A d \in Reports!LatestScalar(daily, "dau") :
                             \A m \in Reports!LatestScalar(daily, "mau") : d <= m
         /\ \A wau \in Reports!LatestScalar(daily, "wau") :
              \E k \in Reports!LatestKpis(kpis) : k.asOf = r.day + 1 /\ k.wau = wau
<1>1. r \in daily /\ r.metric = "dau" /\ r.day \in Nat
  BY NewestDay
<1>2. PICK M \in SUBSET Seen : \E W \in SUBSET Seen : Holds(M, W, r.day)
  <2>1. "dau" \in DayMetrics
    BY DEF DayMetrics
  <2>2. Whole(r.day)
    BY <1>1, <2>1 DEF RepInv, DaysStored
  <2>3. QED
    BY <2>2 DEF Whole
<1>3. PICK W \in SUBSET Seen : Holds(M, W, r.day)
  BY <1>2
<1>4. PICK dau, wau, mau : /\ dau = Valued(M, W, r.day, "dau", "") /\ wau = Valued(M, W, r.day, "wau", "")
                           /\ mau = Valued(M, W, r.day, "mau", "")
  OBVIOUS
<1>5. /\ dau \in Nat /\ wau \in Nat /\ mau \in Nat /\ (M \subseteq W => dau <= wau) /\ wau <= mau
  <2>1. MirrorTyped
    BY DEF RepInv, RepTyped
  <2>2. IsFiniteSet(M) /\ IsFiniteSet(W) /\ \A e \in W : e.at \in Nat
    BY <1>2, <1>3, <2>1, ReadsAre, SeenAre
  <2>3. /\ \A m \in {"dau", "wau", "mau", "active30", "active90", "events"} : Valued(M, W, r.day, m, "") \in Nat
        /\ M \subseteq W => Valued(M, W, r.day, "dau", "") <= Valued(M, W, r.day, "wau", "")
        /\ Valued(M, W, r.day, "wau", "") <= Valued(M, W, r.day, "mau", "")
    BY <1>1, <2>2, FamiliesAgree
  <2>4. QED
    BY <1>4, <2>3
<1>6. "dau" \in Scalars /\ "wau" \in Scalars /\ "mau" \in Scalars
  BY DEF Scalars
<1>7. Reports!LatestScalar(daily, "dau") = {dau} /\ Reports!LatestScalar(daily, "mau") = {mau}
      /\ Reports!LatestScalar(daily, "wau") = {wau}
  BY <1>3, <1>4, <1>6, NewestScalar
<1>8. NoneDeleted => dau <= mau
  BY <1>3, <1>5 DEF Holds
<1>9. PICK k \in kpis :
        /\ k.asOf = r.day + 1
        /\ k.wau = Reports!DistinctShops(Reports!Since(Reports!WindowRows(W, r.day), r.day + 1, Week))
  BY <1>3 DEF Holds
<1>10. k.wau = wau
  BY <1>4, <1>9 DEF Valued, ValueOf
<1>11. k \in Reports!LatestKpis(kpis)
  <2>1. \A q \in kpis : q.asOf \in Nat /\ q.asOf <= r.day + 1
    BY NewestDay
  <2>2. \A q \in kpis : k.asOf >= q.asOf
    BY <1>1, <1>9, <2>1
  <2>3. QED
    BY <2>2 DEF Reports!LatestKpis
<1>12. QED
  BY <1>7, <1>8, <1>9, <1>10, <1>11

\* Where nothing has been deleted the actions shown add up to the events.
LEMMA ActionsShow ==
  ASSUME RepInv, NEW r \in Reports!Newest(Reports!OfMetric(daily, "dau")), r.day \notin torn, NoneDeleted,
         NEW e \in Reports!LatestScalar(daily, "events"), e > 0
  PROVE  Reports!Total(Reports!LatestDimensioned(daily, "action")) = e
<1>1. r \in daily /\ r.metric = "dau" /\ r.day \in Nat
  BY NewestDay
<1>2. PICK M \in SUBSET Seen : \E W \in SUBSET Seen : Holds(M, W, r.day)
  <2>1. "dau" \in DayMetrics
    BY DEF DayMetrics
  <2>2. Whole(r.day)
    BY <1>1, <2>1 DEF RepInv, DaysStored
  <2>3. QED
    BY <2>2 DEF Whole
<1>3. PICK W \in SUBSET Seen : Holds(M, W, r.day)
  BY <1>2
<1>4. PICK D, dr, wr : D = r.day /\ dr = Reports!DayRows(M, D) /\ wr = Reports!WindowRows(W, D)
  OBVIOUS
<1>5. IsFiniteSet(dr) /\ dr \subseteq Seen
  BY <1>2, <1>4, ReadsAre DEF RepInv, RepTyped
<1>6. e = Cardinality(dr)
  <2>1. "events" \in Scalars
    BY DEF Scalars
  <2>2. Reports!LatestScalar(daily, "events") = {Valued(M, W, r.day, "events", "")}
    BY <1>3, <2>1, NewestScalar
  <2>3. e = Valued(M, W, r.day, "events", "")
    BY <2>2
  <2>4. QED
    BY <1>4, <2>3 DEF Valued, ValueOf
<1>7. PICK L : L = Reports!LatestDimensionValues(daily, "action")
  OBVIOUS
<1>8. \A x \in dr : x.name # ""
  <2>1. \A x \in Seen : x \in Reports!Events
    BY SeenAre DEF RepInv, RepTyped
  <2>2. QED
    BY <1>5, <2>1 DEF Reports!Events
<1>9. \A x \in dr : x.name \in DOMAIN L /\ L[x.name] = Cardinality(Reports!Named(dr, {x.name}))
  <2>1. TAKE x \in dr
  <2>2. "action" \in DayMetrics /\ x.name \in DimsOf(Reports!DayRows(M, r.day), "action") /\ x.name # ""
    BY <1>4, <1>8 DEF DayMetrics, DimsOf
  <2>6. Found(M, W, r.day, "action", x.name)
    BY <1>3, <2>2, NewestDimension
  <2>3. x.name \in DOMAIN L /\ L[x.name] = Valued(M, W, r.day, "action", x.name)
    BY <1>7, <2>6 DEF Found
  <2>4. Valued(M, W, r.day, "action", x.name) = Cardinality(Reports!Named(dr, {x.name}))
    BY <1>4 DEF Valued, ValueOf
  <2>5. QED
    BY <2>3, <2>4
<1>10. dr # {}
  BY <1>6, FS_EmptySet
<1>11. \A n \in DOMAIN L : \E x \in dr : x.name = n
  <2>1. TAKE n \in DOMAIN L
  <2>2. PICK y \in dr : TRUE
    BY <1>10
  <2>3. "action" \in DayMetrics /\ y.name \in DimsOf(Reports!DayRows(M, r.day), "action") /\ y.name # ""
    BY <1>4, <1>8 DEF DayMetrics, DimsOf
  <2>9. Found(M, W, r.day, "action", y.name)
    BY <1>3, <2>3, NewestDimension
  <2>4. \A h \in DOMAIN L : \E q \in daily : q.day = r.day /\ q.metric = "action" /\ q.dim = h
    BY <1>7, <2>9 DEF Found
  <2>5. PICK q \in daily : q.day = r.day /\ q.metric = "action" /\ q.dim = n
    BY <2>4
  <2>6. ActionsAmong(NamesOf(M, r.day), r.day)
    BY <1>3 DEF Holds
  <2>7. n \in NamesOf(M, r.day)
    BY <2>3, <2>5, <2>6 DEF ActionsAmong, OfDay
  <2>8. QED
    BY <1>4, <2>7 DEF NamesOf
<1>. DEFINE entry(n) == [name |-> n, value |-> L[n],
                         before |-> Reports!Cardinality({k \in DOMAIN L : L[k] > L[n]})]
            R == {entry(n) : n \in DOMAIN L}
            g == [x \in dr |-> entry(x.name)]
<1>12. Reports!LatestDimensioned(daily, "action") = R
  BY <1>7 DEF Reports!LatestDimensioned, Reports!Rank
<1>13. \A n : entry(n).name = n /\ entry(n).value = L[n]
  OBVIOUS
<1>. HIDE DEF entry
<1>14. g \in [dr -> R]
  BY <1>9
<1>15. \A q \in R : q.value = Cardinality({x \in dr : g[x] = q})
  <2>1. TAKE q \in R
  <2>2. PICK n \in DOMAIN L : q = entry(n)
    OBVIOUS
  <2>3. PICK y \in dr : y.name = n
    BY <1>11
  <2>4. \A x \in dr : g[x] = q <=> x.name = n
    BY <1>13, <2>2
  <2>5. {x \in dr : g[x] = q} = Reports!Named(dr, {n})
    BY <2>4 DEF Reports!Named
  <2>6. q.value = Cardinality(Reports!Named(dr, {n}))
    BY <1>9, <1>13, <2>2, <2>3
  <2>7. QED
    BY <2>5, <2>6
<1>. HIDE DEF g, R
<1>16. Reports!Total(R) = Cardinality(dr)
  BY <1>5, <1>14, <1>15, TotalOfGroups
<1>17. QED
  BY <1>6, <1>12, <1>16

\* A series is about no day to come, and says which is today's.
LEMMA SeriesShown ==
  ASSUME RepInv
  PROVE  \A p \in Reports!Series(daily, "wau", "", Reports!Today) :
           p.day <= Reports!Today /\ p.provisional = (p.day = Reports!Today)
<1>6. \A q \in daily : q.metric \in DayMetrics => q.day <= Reports!Today
  <2>1. Reports!Today \in Nat
    BY TodayIs DEF RepInv, RepTyped
  <2>2. \A q \in daily : q.metric \in DayMetrics => q.day \in 0 .. Reports!Today
    BY DEF RepInv, DaysStored
  <2>3. QED
    BY <2>1, <2>2
<1>1. TAKE p \in Reports!Series(daily, "wau", "", Reports!Today)
<1>2. PICK q \in daily : /\ q.metric = "wau"
                         /\ p = [day |-> q.day, value |-> q.value, provisional |-> q.day = Reports!Today]
  BY DEF Reports!Series, Reports!OfMetric
<1>3. "wau" \in DayMetrics
  BY DEF DayMetrics
<1>4. q.day <= Reports!Today
  BY <1>2, <1>3, <1>6
<1>7. p.day = q.day /\ p.provisional = (q.day = Reports!Today)
  BY <1>2
<1>8. QED
  BY <1>4, <1>7

\* The newest run has one row for each shop.
LEMMA RunIs ==
  ASSUME NEW C, IsFiniteSet(C)
  PROVE  /\ Reports!LatestCohortRows(C) \subseteq C /\ IsFiniteSet(Reports!LatestCohortRows(C))
         /\ \A a, b \in Reports!LatestCohortRows(C) : a.shop = b.shop => a = b
<1>. DEFINE newest == {r \in C : \A q \in C : r.at >= q.at}
            of(s) == CHOOSE r \in newest : r.shop = s
            run == {of(s) : s \in {r.shop : r \in newest}}
<1>1. Reports!LatestCohortRows(C) = run
  BY Zenon DEF Reports!LatestCohortRows
<1>. HIDE DEF newest
<1>2. \A s \in {r.shop : r \in newest} : of(s) \in newest /\ of(s).shop = s
  OBVIOUS
<1>. HIDE DEF of
<1>3. run \subseteq newest
  BY <1>2
<1>4. \A a, b \in run : a.shop = b.shop => a = b
  BY <1>2
<1>. HIDE DEF run
<1>5. newest \subseteq C
  BY DEF newest
<1>6. IsFiniteSet(run)
  BY <1>3, <1>5, FS_Subset
<1>7. QED
  BY <1>1, <1>3, <1>4, <1>5, <1>6

\* The first stage of the ladder has the shops that have not churned.
LEMMA LadderShown ==
  ASSUME RepInv
  PROVE  Reports!Overview(daily, kpis, cohorts, Reports!Today).activationFunnel[1]
           = Cardinality({c.shop : c \in {k \in Reports!ShopsPage(cohorts) : k.lifecycle # "CHURNED"}})
<1>1. PICK run : run = Reports!LatestCohortRows(cohorts)
  OBVIOUS
<1>2. run \subseteq cohorts /\ IsFiniteSet(run) /\ \A a, b \in run : a.shop = b.shop => a = b
  BY <1>1, RunIs DEF RepInv, RepTyped
<1>3. PICK first : first = {k \in run : k.lifecycle # "CHURNED"}
  OBVIOUS
<1>4. \A c \in run : c.lifecycle \in Labels
  BY <1>2 DEF RepInv, RepTyped, Labelled
<1>5. first = {c \in run : c.lifecycle \in Reports!ActivationLadder[1]}
  <2>1. Reports!ActivationLadder[1] = {"NEW", "ONBOARDING", "ACTIVATED", "ENGAGED", "DORMANT"}
    BY DEF Reports!ActivationLadder
  <2>2. QED
    BY <1>3, <1>4, <2>1 DEF Labels
<1>. DEFINE F == {c.shop : c \in first}
            f == [c \in first |-> c.shop]
<1>6. first \subseteq run
  BY <1>3
<1>7. IsFiniteSet(first)
  BY <1>2, <1>6, FS_Subset
<1>15. f \in Bijection(first, F)
  BY <1>2, <1>6 DEF Bijection, Injection, Surjection, IsInjective
<1>8. ExistsBijection(first, F)
  <2>. HIDE DEF F, f
  <2>1. QED
    BY <1>15 DEF ExistsBijection
<1>9. Cardinality(F) = Cardinality(first)
  <2>. HIDE DEF F, f
  <2>1. QED
    BY <1>7, <1>8, FS_Bijection
<1>10. 1 \in DOMAIN Reports!ActivationLadder
  BY DEF Reports!ActivationLadder
<1>11. Reports!Overview(daily, kpis, cohorts, Reports!Today).activationFunnel
         = [i \in DOMAIN Reports!ActivationLadder |->
              Reports!Cardinality({c \in run : c.lifecycle \in Reports!ActivationLadder[i]})]
  BY <1>1 DEF Reports!Overview
<1>12. Reports!Overview(daily, kpis, cohorts, Reports!Today).activationFunnel[1] = Reports!Cardinality(first)
  BY <1>5, <1>10, <1>11
<1>13. Reports!ShopsPage(cohorts) = run
  BY <1>1 DEF Reports!ShopsPage
<1>14. QED
  BY <1>3, <1>9, <1>12, <1>13, ReportsCount

\* The sums of some days are parts of the sums of all days.
LEMMA SumsAre ==
  ASSUME RepInv, NEW metric, NEW dim, NEW days
  PROVE  /\ Reports!WeekSum(daily, metric, dim, days).value \in Nat
         /\ Reports!WeekSum(daily, metric, dim, days).count \in Nat
         /\ Reports!Total({r \in Reports!OfMetric(daily, metric) : r.dim = dim}) \in Nat
         /\ Reports!WeekSum(daily, metric, dim, days).value
              <= Reports!Total({r \in Reports!OfMetric(daily, metric) : r.dim = dim})
<1>1. PICK all, some : /\ all = {r \in Reports!OfMetric(daily, metric) : r.dim = dim}
                       /\ some = {r \in Reports!OfMetric(daily, metric) : r.dim = dim /\ r.day \in days}
  OBVIOUS
<1>2. some \subseteq all /\ all \subseteq daily
  BY <1>1 DEF Reports!OfMetric
<1>3. IsFiniteSet(all) /\ \A r \in all : r.value \in Nat
  <2>1. IsFiniteSet(daily) /\ \A r \in daily : r.value \in Nat
    BY DEF RepInv, RepTyped, Reports!Rows
  <2>2. QED
    BY <1>2, <2>1, FS_Subset
<1>4. Reports!Total(some) \in Nat /\ Reports!Total(all) \in Nat /\ Reports!Total(some) <= Reports!Total(all)
  BY <1>2, <1>3, TotalGrows
<1>5. Reports!Cardinality(some) \in Nat
  BY <1>2, <1>3, SubsetCounts, ReportsCount
<1>6. Reports!WeekSum(daily, metric, dim, days) = [value |-> Reports!Total(some), count |-> Reports!Cardinality(some)]
  BY <1>1 DEF Reports!WeekSum
<1>7. /\ Reports!WeekSum(daily, metric, dim, days).value = Reports!Total(some)
      /\ Reports!WeekSum(daily, metric, dim, days).count = Reports!Cardinality(some)
  BY <1>6
<1>8. QED
  BY <1>1, <1>4, <1>5, <1>7

\* Days without any row have nothing to sum.
LEMMA NothingSummed ==
  ASSUME NEW days, \A r \in daily : r.day \notin days, NEW metric, NEW dim
  PROVE  Reports!WeekSum(daily, metric, dim, days) = [value |-> 0, count |-> 0]
<1>1. {r \in Reports!OfMetric(daily, metric) : r.dim = dim /\ r.day \in days} = {}
  BY DEF Reports!OfMetric
<1>2. Reports!Cardinality({}) = 0
  BY ReportsCount, FS_EmptySet
<1>3. QED
  BY <1>1, <1>2, TotalOfNone DEF Reports!WeekSum

LEMMA StagesShown ==
  ASSUME RepInv, NEW i \in DOMAIN Reports!Stages, NEW days
  PROVE  Reports!WeekSum(daily, "stage", Reports!Stages[i], days).value <= Reports!FunnelPage(daily).stages[i].shops
<1>1. Reports!FunnelPage(daily).stages[i].shops
        = Reports!Total({r \in Reports!OfMetric(daily, "stage") : r.dim = Reports!Stages[i]})
  BY DEF Reports!FunnelPage
<1>2. QED
  BY <1>1, SumsAre

-----------------------------------------------------------------------------
\* Against a week that has no rows the digest claims no movement.
LEMMA NoLastWeek ==
  ASSUME RepInv, \A r \in daily : r.day \notin Reports!LastWeek(Reports!Today)
  PROVE  /\ \A m : Reports!ScalarMover(daily, m, Reports!Today).delta = {}
         /\ Reports!TopMovers(daily, Reports!Today) = {} /\ Reports!BottomMovers(daily, Reports!Today) = {}
<1>1. \A m, d : Reports!WeekSum(daily, m, d, Reports!LastWeek(Reports!Today)) = [value |-> 0, count |-> 0]
  BY NothingSummed
<1>2. \A n, w : Reports!Mover(n, w, [value |-> 0, count |-> 0]) = [name |-> n, delta |-> {}]
  BY DEF Reports!Mover
<1>3. \A m : Reports!ScalarMover(daily, m, Reports!Today).delta = {}
  <2>1. TAKE m
  <2>2. Reports!ScalarMover(daily, m, Reports!Today)
          = Reports!Mover(m, Reports!WeekSum(daily, m, "", Reports!ThisWeek(Reports!Today)), [value |-> 0, count |-> 0])
    BY <1>1 DEF Reports!ScalarMover
  <2>3. Reports!ScalarMover(daily, m, Reports!Today) = [name |-> m, delta |-> {}]
    BY Zenon, <1>2, <2>2
  <2>4. QED
    BY <2>3
<1>4. \A m, d : Reports!SumMover(daily, m, d, Reports!Today).delta = {}
  <2>1. TAKE m, d
  <2>2. PICK this, last : /\ this = Reports!WeekSum(daily, m, d, Reports!ThisWeek(Reports!Today))
                          /\ last = Reports!WeekSum(daily, m, d, Reports!LastWeek(Reports!Today))
    OBVIOUS
  <2>3. last = [value |-> 0, count |-> 0]
    BY <1>1, <2>2
  <2>4. last.value = 0 /\ last.count = 0
    BY <2>3
  <2>. DEFINE total(w) == [value |-> w.value, count |-> IF w.count = 0 THEN 0 ELSE 1]
  <2>5. Reports!SumMover(daily, m, d, Reports!Today) = Reports!Mover(d, total(this), total(last))
    BY Zenon, <2>2 DEF Reports!SumMover
  <2>6. total(last) = [value |-> 0, count |-> 0]
    BY <2>4
  <2>. HIDE DEF total
  <2>7. Reports!SumMover(daily, m, d, Reports!Today) = [name |-> d, delta |-> {}]
    BY Zenon, <1>2, <2>5, <2>6
  <2>8. QED
    BY <2>7
<1>5. \A m \in Reports!AdoptionMovers(daily, Reports!Today) : Reports!Moved(m) = 0
  BY <1>4 DEF Reports!AdoptionMovers, Reports!Moved
<1>6. /\ {m \in Reports!AdoptionMovers(daily, Reports!Today) : Reports!Moved(m) > 0} = {}
      /\ {m \in Reports!AdoptionMovers(daily, Reports!Today) : Reports!Moved(m) < 0} = {}
  BY <1>5
<1>7. Reports!TopMovers(daily, Reports!Today) = {}
  BY <1>6 DEF Reports!TopMovers, Reports!Foremost
<1>8. Reports!BottomMovers(daily, Reports!Today) = {}
  BY <1>6 DEF Reports!BottomMovers, Reports!Foremost
<1>9. QED
  BY <1>3, <1>7, <1>8

\* What is nowhere below zero is no drop.
LEMMA NoDrop ==
  ASSUME NEW observed, observed.num \in Nat, observed.den \in Int
  PROVE  ~Reports!IsBreach("DROP_GT", observed, 0)
<1>1. PICK n \in Nat, d \in Int : n = observed.num /\ d = observed.den
  OBVIOUS
<1>2. ~(-n > 0 * d)
  OBVIOUS
<1>3. QED
  BY <1>1, <1>2 DEF Reports!IsBreach

LEMMA LessNothing == \A n \in Nat : n - 0 \in Nat /\ 1 \in Int
  OBVIOUS

LEMMA NoWeekNoBreach ==
  ASSUME RepInv, \A r \in daily : r.day \notin Reports!LastWeek(Reports!Today),
         NEW kind \in {"METRIC_WOW_POINTS", "METRIC_WOW_PERCENT"}, NEW metric, NEW dim, NEW rule,
         rule = [kind |-> kind, metric |-> metric, dim |-> dim]
  PROVE  ~Reports!IsBreach("DROP_GT", Reports!ObserveDelta(rule, daily, cohorts, Reports!Today), 0)
<1>1. rule.kind = kind /\ rule.metric = metric /\ rule.dim = dim
  OBVIOUS
<1>2. PICK this, last : /\ this = Reports!WeekSum(daily, metric, dim, Reports!ThisWeek(Reports!Today))
                        /\ last = Reports!WeekSum(daily, metric, dim, Reports!LastWeek(Reports!Today))
  OBVIOUS
<1>3. this.value \in Nat /\ this.count \in Nat
  BY <1>2, SumsAre
<1>4. last = [value |-> 0, count |-> 0]
  BY <1>2, NothingSummed
<1>5. last.value = 0 /\ last.count = 0
  BY <1>4
<1>6. PICK observed : observed = Reports!ObserveDelta(rule, daily, cohorts, Reports!Today)
  OBVIOUS
<1>7. CASE kind = "METRIC_WOW_PERCENT"
  <2>1. observed = [num |-> 0, den |-> 1]
    BY <1>1, <1>2, <1>5, <1>6, <1>7 DEF Reports!ObserveDelta
  <2>2. observed.num \in Nat /\ observed.den \in Int
    BY <2>1
  <2>3. QED
    BY <1>6, <2>2, NoDrop
<1>8. CASE kind = "METRIC_WOW_POINTS"
  <2>1. observed = Reports!AverageDelta(this, last)
    BY <1>1, <1>2, <1>6, <1>8 DEF Reports!ObserveDelta
  <2>2. PICK v \in Nat, c \in Nat : v = this.value /\ c = IF this.count = 0 THEN 1 ELSE this.count
    BY <1>3
  <2>3. observed = [num |-> v * 1 - 0 * c, den |-> c * 1]
    BY <1>5, <2>1, <2>2 DEF Reports!AverageDelta
  <2>4. v * 1 - 0 * c \in Nat /\ c * 1 \in Int
    OBVIOUS
  <2>5. observed.num \in Nat /\ observed.den \in Int
    BY <2>3, <2>4
  <2>6. QED
    BY <1>6, <2>5, NoDrop
<1>9. QED
  BY <1>7, <1>8

\* Nor does a rule about cohorts fire that has no cohorts of the last week to compare with.
LEMMA NoRunNoBreach ==
  ASSUME RepInv, NEW lifecycle \in {"ENGAGED", "DORMANT", "CHURNED"},
         Reports!CohortTransitions(cohorts, Reports!Today)[lifecycle] = {},
         NEW rule, rule = [kind |-> "COHORT_TRANSITION", metric |-> lifecycle, dim |-> ""]
  PROVE  ~Reports!IsBreach("DROP_GT", Reports!ObserveDelta(rule, daily, cohorts, Reports!Today), 0)
<1>1. rule.kind = "COHORT_TRANSITION" /\ rule.metric = lifecycle
  OBVIOUS
<1>2. {c \in cohorts : Reports!DayOf(c.at) \in Reports!LastWeek(Reports!Today)} = {}
  BY DEF Reports!CohortTransitions
<1>3. \A days : Reports!LifecycleCount(cohorts, lifecycle, days) \in Nat
  <2>1. TAKE days
  <2>2. PICK C : C = {c \in cohorts : Reports!DayOf(c.at) \in days}
    OBVIOUS
  <2>3. IsFiniteSet(C)
    <3>1. C \subseteq cohorts
      BY <2>2
    <3>2. QED
      BY <3>1, FS_Subset DEF RepInv, RepTyped
  <2>4. PICK S : S = {c \in Reports!LatestCohortRows(C) : c.lifecycle = lifecycle}
    OBVIOUS
  <2>5. S \subseteq Reports!LatestCohortRows(C)
    BY <2>4
  <2>6. Reports!Cardinality(S) \in Nat
    BY <2>3, <2>5, RunIs, SubsetCounts, ReportsCount
  <2>7. QED
    BY <2>2, <2>4, <2>6 DEF Reports!LifecycleCount
<1>4. Reports!LifecycleCount(cohorts, lifecycle, Reports!LastWeek(Reports!Today)) = 0
  <2>1. Reports!LatestCohortRows({}) = {}
    BY FS_EmptySet, RunIs
  <2>2. {c \in Reports!LatestCohortRows({}) : c.lifecycle = lifecycle} = {}
    BY <2>1
  <2>3. Reports!Cardinality({}) = 0
    BY ReportsCount, FS_EmptySet
  <2>4. QED
    BY <1>2, <2>2, <2>3 DEF Reports!LifecycleCount
<1>5. PICK observed : observed = Reports!ObserveDelta(rule, daily, cohorts, Reports!Today)
  OBVIOUS
<1>6. PICK n \in Nat : n = Reports!LifecycleCount(cohorts, lifecycle, Reports!ThisWeek(Reports!Today))
  BY <1>3
<1>7. observed = [num |-> n - 0, den |-> 1]
  BY <1>1, <1>4, <1>5, <1>6 DEF Reports!ObserveDelta
<1>8. observed.num \in Nat /\ observed.den \in Int
  <2>1. n - 0 \in Nat /\ 1 \in Int
    BY <1>6, LessNothing
  <2>2. observed.num = n - 0 /\ observed.den = 1
    BY <1>7
  <2>3. QED
    BY <2>1, <2>2
<1>9. QED
  BY <1>5, <1>8, NoDrop

LEMMA OverviewIs ==
  /\ Reports!Overview(daily, kpis, cohorts, Reports!Today).headline = Reports!LatestKpis(kpis)
  /\ Reports!Overview(daily, kpis, cohorts, Reports!Today).stickiness
       = {<<d, m>> : d \in Reports!LatestScalar(daily, "dau"), m \in Reports!LatestScalar(daily, "mau") \ {0}}
  /\ Reports!Overview(daily, kpis, cohorts, Reports!Today).topActions = Reports!LatestDimensioned(daily, "action")
<1>1. Reports!Overview(daily, kpis, cohorts, Reports!Today).headline = Reports!LatestKpis(kpis)
  BY DEF Reports!Overview
<1>2. Reports!Overview(daily, kpis, cohorts, Reports!Today).stickiness
        = {<<d, m>> : d \in Reports!LatestScalar(daily, "dau"), m \in Reports!LatestScalar(daily, "mau") \ {0}}
  BY DEF Reports!Overview
<1>3. Reports!Overview(daily, kpis, cohorts, Reports!Today).topActions = Reports!LatestDimensioned(daily, "action")
  BY DEF Reports!Overview
<1>4. QED
  BY <1>1, <1>2, <1>3

\* What the newest day's rows show, if all of them have been stored.
LEMMA NewestShown ==
  ASSUME RepInv, NEW r \in Reports!Newest(Reports!OfMetric(daily, "dau")), r.day \notin torn
  PROVE  /\ Reports!Cardinality(copies) = copied =>
              \A s \in Reports!Overview(daily, kpis, cohorts, Reports!Today).stickiness : s[1] <= s[2]
         /\ \A wau \in Reports!LatestScalar(daily, "wau") :
              \E k \in Reports!Overview(daily, kpis, cohorts, Reports!Today).headline :
                k.asOf = r.day + 1 /\ k.wau = wau
         /\ \A e \in Reports!LatestScalar(daily, "events") :
              e > 0 /\ Reports!Cardinality(copies) = copied =>
                Reports!Total(Reports!Overview(daily, kpis, cohorts, Reports!Today).topActions) = e
<1>1. PICK page : page = Reports!Overview(daily, kpis, cohorts, Reports!Today)
  OBVIOUS
<1>2. /\ page.headline = Reports!LatestKpis(kpis)
      /\ page.stickiness = {<<d, m>> : d \in Reports!LatestScalar(daily, "dau"),
                                       m \in Reports!LatestScalar(daily, "mau") \ {0}}
      /\ page.topActions = Reports!LatestDimensioned(daily, "action")
  BY <1>1, OverviewIs
<1>3. Reports!Cardinality(copies) = copied => NoneDeleted
  BY ReportsCount DEF NoneDeleted
<1>4. ASSUME NoneDeleted, NEW s \in page.stickiness PROVE s[1] <= s[2]
  <2>1. PICK d, m : d \in Reports!LatestScalar(daily, "dau") /\ m \in Reports!LatestScalar(daily, "mau") /\ s = <<d, m>>
    BY <1>2, <1>4
  <2>2. d <= m
    BY <1>4, <2>1, TilesShow
  <2>3. QED
    BY <2>1, <2>2
<1>5. \A wau \in Reports!LatestScalar(daily, "wau") : \E k \in page.headline : k.asOf = r.day + 1 /\ k.wau = wau
  BY <1>2, TilesShow
<1>6. ASSUME NoneDeleted, NEW e \in Reports!LatestScalar(daily, "events"), e > 0
      PROVE  Reports!Total(page.topActions) = e
  BY <1>2, <1>6, ActionsShow
<1>7. QED
  BY <1>1, <1>3, <1>4, <1>5, <1>6

\* Against a week without rows nothing is said to have moved.
LEMMA DigestShown ==
  ASSUME RepInv, Reports!Compose(daily, cohorts, Reports!Today).missingLastWeek
  PROVE  /\ Reports!Compose(daily, cohorts, Reports!Today).wau.delta = {}
         /\ Reports!Compose(daily, cohorts, Reports!Today).mau.delta = {}
         /\ Reports!Compose(daily, cohorts, Reports!Today).top = {}
         /\ Reports!Compose(daily, cohorts, Reports!Today).bottom = {}
         /\ \A kind \in {"METRIC_WOW_POINTS", "METRIC_WOW_PERCENT"} :
              ~Reports!IsBreach("DROP_GT",
                 Reports!ObserveDelta([kind |-> kind, metric |-> "wau", dim |-> ""], daily, cohorts, Reports!Today), 0)
<1>1. PICK digest : digest = Reports!Compose(daily, cohorts, Reports!Today)
  OBVIOUS
<1>2. /\ digest.missingLastWeek = ~\E r \in daily : r.day \in Reports!LastWeek(Reports!Today)
      /\ digest.wau = Reports!ScalarMover(daily, "wau", Reports!Today)
      /\ digest.mau = Reports!ScalarMover(daily, "mau", Reports!Today)
      /\ digest.top = Reports!TopMovers(daily, Reports!Today)
      /\ digest.bottom = Reports!BottomMovers(daily, Reports!Today)
  BY <1>1 DEF Reports!Compose
<1>3. \A r \in daily : r.day \notin Reports!LastWeek(Reports!Today)
  BY <1>1, <1>2
<1>4. digest.wau.delta = {} /\ digest.mau.delta = {} /\ digest.top = {} /\ digest.bottom = {}
  BY <1>2, <1>3, NoLastWeek
<1>5. \A kind \in {"METRIC_WOW_POINTS", "METRIC_WOW_PERCENT"} :
        ~Reports!IsBreach("DROP_GT",
           Reports!ObserveDelta([kind |-> kind, metric |-> "wau", dim |-> ""], daily, cohorts, Reports!Today), 0)
  BY <1>3, NoWeekNoBreach
<1>6. QED
  BY <1>1, <1>4, <1>5

LEMMA TransitionsShown ==
  ASSUME RepInv, NEW lifecycle \in DOMAIN Reports!Compose(daily, cohorts, Reports!Today).transitions,
         Reports!Compose(daily, cohorts, Reports!Today).transitions[lifecycle] = {}
  PROVE  ~Reports!IsBreach("DROP_GT",
            Reports!ObserveDelta([kind |-> "COHORT_TRANSITION", metric |-> lifecycle, dim |-> ""],
                                 daily, cohorts, Reports!Today), 0)
<1>1. Reports!Compose(daily, cohorts, Reports!Today).transitions = Reports!CohortTransitions(cohorts, Reports!Today)
  BY DEF Reports!Compose
<1>2. DOMAIN Reports!CohortTransitions(cohorts, Reports!Today) = {"ENGAGED", "DORMANT", "CHURNED"}
  BY DEF Reports!CohortTransitions
<1>3. lifecycle \in {"ENGAGED", "DORMANT", "CHURNED"}
  BY <1>1, <1>2
<1>4. Reports!CohortTransitions(cohorts, Reports!Today)[lifecycle] = {}
  BY <1>1
<1>5. PICK rule : rule = [kind |-> "COHORT_TRANSITION", metric |-> lifecycle, dim |-> ""]
  OBVIOUS
<1>6. QED
  BY <1>3, <1>4, <1>5, NoRunNoBreach

LEMMA ReadersShow == ASSUME RepInv PROVE DashboardsAgree
<1>1. ASSUME NEW r \in Reports!Newest(Reports!OfMetric(daily, "dau")), r.day \notin torn
      PROVE  /\ \A f \in Reports!Adoption :
                  /\ Reports!FeaturesPage(daily, Reports!Today).adoption30[f].shops
                       <= Reports!FeaturesPage(daily, Reports!Today).adoption30[f].active
                  /\ Reports!FeaturesPage(daily, Reports!Today).adoption90[f].shops
                       <= Reports!FeaturesPage(daily, Reports!Today).adoption90[f].active
                  /\ \E p \in Reports!FeaturesPage(daily, Reports!Today).trends[f] :
                       p = [day |-> r.day, value |-> Reports!FeaturesPage(daily, Reports!Today).adoption30[f].shops,
                            provisional |-> r.day = Reports!Today]
             /\ Reports!Cardinality(copies) = copied =>
                  \A s \in Reports!Overview(daily, kpis, cohorts, Reports!Today).stickiness : s[1] <= s[2]
             /\ \A wau \in Reports!LatestScalar(daily, "wau") :
                  \E k \in Reports!Overview(daily, kpis, cohorts, Reports!Today).headline :
                    k.asOf = r.day + 1 /\ k.wau = wau
             /\ \A e \in Reports!LatestScalar(daily, "events") :
                  e > 0 /\ Reports!Cardinality(copies) = copied =>
                    Reports!Total(Reports!Overview(daily, kpis, cohorts, Reports!Today).topActions) = e
  <2>1. \A f \in Reports!Adoption :
          /\ Reports!FeaturesPage(daily, Reports!Today).adoption30[f].shops
               <= Reports!FeaturesPage(daily, Reports!Today).adoption30[f].active
          /\ Reports!FeaturesPage(daily, Reports!Today).adoption90[f].shops
               <= Reports!FeaturesPage(daily, Reports!Today).adoption90[f].active
          /\ \E p \in Reports!FeaturesPage(daily, Reports!Today).trends[f] :
               p = [day |-> r.day, value |-> Reports!FeaturesPage(daily, Reports!Today).adoption30[f].shops,
                    provisional |-> r.day = Reports!Today]
    BY Zenon, <1>1, FeaturesShow
  <2>2. QED
    BY Zenon, <1>1, <2>1, NewestShown
<1>2. \A p \in Reports!Overview(daily, kpis, cohorts, Reports!Today).activeShops :
        p.day <= Reports!Today /\ p.provisional = (p.day = Reports!Today)
  <2>1. Reports!Overview(daily, kpis, cohorts, Reports!Today).activeShops
          = Reports!Series(daily, "wau", "", Reports!Today)
    BY DEF Reports!Overview
  <2>2. QED
    BY <2>1, SeriesShown
<1>3. Reports!Overview(daily, kpis, cohorts, Reports!Today).activationFunnel[1]
        = Reports!Cardinality({c.shop : c \in {k \in Reports!ShopsPage(cohorts) : k.lifecycle # "CHURNED"}})
  BY LadderShown, ReportsCount
<1>4. \A i \in DOMAIN Reports!Stages :
        Reports!WeekSum(daily, "stage", Reports!Stages[i],
                        Reports!ThisWeek(Reports!Today) \cup Reports!LastWeek(Reports!Today)).value
          <= Reports!FunnelPage(daily).stages[i].shops
  BY StagesShown
<1>5. QED
  BY Zenon, <1>1, <1>2, <1>3, <1>4, DigestShown, TransitionsShown DEF DashboardsAgree, Reports!ReadersAgree

\* TLAPS: what the dashboard, the digest and the alert rules read back from the rows of several days
\* and runs is of one piece, whatever failed, was retried, deleted or read meanwhile.
THEOREM DashboardsAgreeHolds == Reports!Spec => []DashboardsAgree
<1>1. RepInv => DashboardsAgree
  BY ReadersShow
<1>2. QED
  BY <1>1, RepHolds, PTL
=============================================================================
