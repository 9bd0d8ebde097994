--------------------------- MODULE MerchantDirectory ---------------------------
(***************************************************************************)
(* The merchant directory: a table that the server searches, sorts and     *)
(* pages over the replica's shops, while shops arrive and change: their    *)
(* status, their plan, and the name and email that are searched.  A page   *)
(* of the table is a query of its own: it is shown from the cache when it  *)
(* is there, and read again each time it is turned to.                     *)
(***************************************************************************)
EXTENDS Integers, SequencesExt

CONSTANTS
  Shops,
  Plan,         \* the plan of each shop at first, a number in the order of the names
  Words,        \* the search terms that are in its name or its email at first
  Found,        \* per search term, the shops whose domain it is in; "" is in all of them
  PageSizes,
  Supplies      \* bounds: shops there at first, arrivals, updates, commands, failures

VARIABLES
  table,        \* the replica's rows, in the order in which they are stored: shop, status, plan, words
  version,      \* observation only: counts the writes
  view,         \* the page's state: input, applied, page, size, sorting
  cache,        \* per query that has been answered: rows, total, version
  fetches,      \* queries being read
  failed,       \* queries whose last read failed
  walk,         \* observation only: the answers last shown of the pages, since the first one was turned to
  supply

\* What the proofs suppose of the constants.
Paged ==
  /\ Shops \subseteq Int /\ Plan \in [Shops -> Int] /\ Words \in [Shops -> SUBSET DOMAIN Found]
  /\ "" \in DOMAIN Found
  /\ PageSizes # {} /\ PageSizes \subseteq Nat \ {0}
  /\ \A s \in Supplies : s.shops \subseteq Shops /\ IsFiniteSet(s.shops)

vars == <<table, version, view, cache, fetches, failed, walk, supply>>

\* The columns that can be sorted; the names and the emails cannot.
Fields == {"installDate", "plan", "status"}
NoSort == [field |-> "none", desc |-> FALSE]

Row(s) == [shop |-> s, status |-> "active", plan |-> Plan[s], words |-> Words[s]]

Key(v) == [search |-> v.applied, sort |-> v.sort, page |-> v.page, size |-> v.size]

Init ==
  /\ supply \in Supplies
  /\ table = SetToSeq({Row(s) : s \in supply.shops})
  /\ version = 0
  /\ view = [input |-> "", applied |-> "", page |-> 1, size |-> Min(PageSizes),
             sort |-> [field |-> "installDate", desc |-> TRUE]]
  /\ cache = <<>> /\ fetches = {Key(view)} /\ failed = {}
  /\ walk = <<>>

Uses(what) ==
  /\ supply[what] > 0
  /\ supply' = [supply EXCEPT ![what] = @ - 1]

-----------------------------------------------------------------------------
(* The replica.  Shops are named by the order of their installation.       *)

Arrive ==
  /\ Uses("arrivals")
  /\ \E s \in Shops \ {table[i].shop : i \in DOMAIN table} :
       table' = Append(table, Row(s))
  /\ version' = version + 1
  /\ UNCHANGED <<view, cache, fetches, failed, walk>>

\* A row that is written is stored anew: a shop leaves or comes back, takes another plan, or has
\* another name or email.
RowChanges(i) ==
  /\ Uses("updates")
  /\ LET old == table[i] IN
       \E new \in {[old EXCEPT !.status = IF @ = "active" THEN "uninstalled" ELSE "active"]}
                  \cup {[old EXCEPT !.plan = Plan[s]] : s \in Shops}
                  \cup {[old EXCEPT !.words = w] : w \in SUBSET (DOMAIN Found \ {""})} :
         new # old /\ table' = Append(RemoveAt(table, i), new)
  /\ version' = version + 1
  /\ UNCHANGED <<view, cache, fetches, failed, walk>>

-----------------------------------------------------------------------------
(* What the server answers.                                                *)

\* Plans and states compare as names; both are numbers here.
Compare(field, row) ==
  CASE field = "plan" -> row.plan
    [] field = "status" -> IF row.status = "active" THEN 1 ELSE 2
    [] OTHER -> row.shop

\* The term is in the domain, or in the name or the email.
Meets(row, search) == row.shop \in Found[search] \/ search \in row.words

\* The places of a table's rows that match.
Matching(t, search) == {i \in DOMAIN t : Meets(t[i], search)}

\* By install date when no field is named, and downwards unless upwards is asked for; rows
\* that compare equal stay as they are stored.
Before(t, sort, i, j) ==
  LET field == IF sort.field = "none" THEN "installDate" ELSE sort.field
      a == Compare(field, t[i])
      b == Compare(field, t[j]) IN
    IF a = b THEN i < j ELSE IF sort.field # "none" /\ ~sort.desc THEN a < b ELSE a > b

Rank(t, search, sort, i) == 1 + Cardinality({j \in Matching(t, search) : Before(t, sort, j, i)})
Nth(t, search, sort, n) == t[CHOOSE i \in Matching(t, search) : Rank(t, search, sort, i) = n]

QueryShops(q) ==
  LET total == Cardinality(Matching(table, q.search))
      start == (q.page - 1) * q.size
      end == IF start + q.size < total THEN start + q.size ELSE total IN
    [rows |-> [n \in 1..(end - start) |-> Nth(table, q.search, q.sort, start + n)],
     total |-> total, version |-> version]

-----------------------------------------------------------------------------
(* The page.                                                               *)

Current == Key(view)
Nothing == [rows |-> <<>>, total |-> 0, version |-> 0]
Shown == IF Current \in DOMAIN cache THEN cache[Current] ELSE Nothing
IsLoading == Current \notin DOMAIN cache /\ Current \in fetches
IsError == Current \in failed

PageCount ==
  IF Shown.total = 0 THEN 1 ELSE (Shown.total + view.size - 1) \div view.size
RangeStart == IF Shown.total = 0 THEN 0 ELSE (view.page - 1) * view.size + 1
RangeEnd == IF view.page * view.size < Shown.total THEN view.page * view.size ELSE Shown.total
NoneFound == ~IsError /\ ~IsLoading /\ Current \in DOMAIN cache /\ Shown.rows = <<>>

\* The arrow of a column's header.
AriaSort(field) ==
  IF view.sort.field # field THEN "none" ELSE IF view.sort.desc THEN "descending" ELSE "ascending"

\* A query that is read again is not in error meanwhile, unless it has rows.
Reads(k) ==
  /\ fetches' = fetches \cup {k}
  /\ failed' = failed \ ({k} \ DOMAIN cache)

\* A page that has been answered is shown at once, and noted in the walk.
Seen(v, w, answers) ==
  LET k == Key(v) IN
    IF k \notin DOMAIN answers THEN w
    ELSE IF v.page \in DOMAIN w THEN [w EXCEPT ![v.page] = answers[k]]
    ELSE Append(w, answers[k])

\* A query that is turned to is read, unless it is being read.
Turned(v) ==
  /\ Uses("commands")
  /\ view' = v
  /\ IF Key(v) = Current THEN UNCHANGED <<fetches, failed>> ELSE Reads(Key(v))
  /\ walk' = Seen(v, IF v.page = 1 \/ [v EXCEPT !.page = view.page] # view THEN <<>> ELSE walk, cache)
  /\ UNCHANGED <<table, version, cache>>

Type ==
  /\ \E t \in DOMAIN Found \ {view.input} : view' = [view EXCEPT !.input = t]
  /\ Uses("commands")
  /\ UNCHANGED <<table, version, cache, fetches, failed, walk>>

\* Mutant: the page is kept.
SubmitSearchKeepsPage == Turned([view EXCEPT !.applied = view.input])

SubmitSearch == Turned([view EXCEPT !.applied = view.input, !.page = 1])

ClearSearch ==
  /\ view.applied # ""
  /\ Turned([view EXCEPT !.input = "", !.applied = "", !.page = 1])

\* A header that is clicked sorts upwards, or downwards when there is no row to tell its type
\* by; the other way when clicked again; then not at all.
SortBy(field) ==
  LET first == Shown.rows = <<>>
      sort == IF view.sort.field # field THEN [field |-> field, desc |-> first]
              ELSE IF view.sort.desc # first THEN NoSort
              ELSE [field |-> field, desc |-> ~view.sort.desc] IN
    Turned([view EXCEPT !.sort = sort, !.page = 1])

SetPageSize(n) == n # view.size /\ Turned([view EXCEPT !.size = n, !.page = 1])

Previous ==
  /\ view.page > 1 /\ ~IsLoading
  /\ Turned([view EXCEPT !.page = @ - 1])

NextPage ==
  /\ view.page < PageCount /\ ~IsLoading
  /\ Turned([view EXCEPT !.page = @ + 1])

Answer(k) ==
  /\ cache' = [q \in DOMAIN cache \cup {k} |-> IF q = k THEN QueryShops(k) ELSE cache[q]]
  /\ walk' = IF k = Current THEN Seen(view, walk, cache') ELSE walk
  /\ fetches' = fetches \ {k}
  /\ failed' = failed \ {k}
  /\ UNCHANGED <<table, version, view, supply>>

\* An error is shown instead of the rows, which are kept.
FetchFails(k) ==
  /\ Uses("failures")
  /\ fetches' = fetches \ {k}
  /\ failed' = failed \cup {k}
  /\ UNCHANGED <<table, version, view, cache, walk>>

\* The window is focused again.
Refetch ==
  /\ Uses("commands")
  /\ Current \notin fetches
  /\ Reads(Current)
  /\ UNCHANGED <<table, version, view, cache, walk>>

Next ==
  \/ Arrive \/ \E i \in DOMAIN table : RowChanges(i)
  \/ Type \/ SubmitSearch \/ ClearSearch \/ Previous \/ NextPage \/ Refetch
  \/ \E f \in Fields : SortBy(f)
  \/ \E n \in PageSizes : SetPageSize(n)
  \/ \E k \in fetches : Answer(k) \/ FetchFails(k)

Spec == Init /\ [][Next]_vars
-----------------------------------------------------------------------------
TypeOK ==
  /\ \A i \in DOMAIN table : table[i].shop \in Shops /\ table[i].status \in {"active", "uninstalled"}
  /\ view.page \in Nat \ {0} /\ view.size \in PageSizes
  /\ view.input \in DOMAIN Found /\ view.applied \in DOMAIN Found
  /\ view.sort.field \in Fields \cup {"none"}
  /\ \A k \in DOMAIN cache : cache[k].version <= version

\* The page is never set back: "No merchants found" is said although merchants match only where
\* the page had been there by the answer it was turned from, and rows have been written between
\* that answer and this one.  The range says how many rows there are, and the rows are in the
\* order that the headers' arrows announce.  Whoever turns the pages from the first one on, while
\* no row of the replica is written, is shown each matching merchant once and by the last page
\* all of them (Merchants, MerchantService.list, queryShops).
DirectoryIsWhole ==
  /\ NoneFound /\ Shown.total > 0 =>
       /\ view.page - 1 \in DOMAIN walk
       /\ walk[view.page - 1].total > (view.page - 1) * view.size
       /\ walk[view.page - 1].version # Shown.version
  /\ Current \in DOMAIN cache =>
       Len(Shown.rows) = IF Shown.total = 0 \/ RangeStart > RangeEnd THEN 0 ELSE RangeEnd - RangeStart + 1
  /\ \A f \in Fields, i, j \in DOMAIN Shown.rows :
       LET a == Compare(f, Shown.rows[i])
           b == Compare(f, Shown.rows[j]) IN
         i < j => /\ AriaSort(f) = "ascending" => a <= b
                  /\ AriaSort(f) = "descending" => a >= b
  /\ walk # <<>> /\ (\A i \in DOMAIN walk : walk[i].version = walk[1].version) =>
       /\ \A i, j \in DOMAIN walk : \A m \in DOMAIN walk[i].rows, n \in DOMAIN walk[j].rows :
            walk[i].rows[m].shop = walk[j].rows[n].shop => i = j /\ m = n
       /\ \A i \in DOMAIN walk : \A m \in DOMAIN walk[i].rows : Meets(walk[i].rows[m], view.applied)
       /\ Len(walk) = (walk[1].total + view.size - 1) \div view.size =>
            Cardinality(UNION {Range(walk[i].rows) : i \in DOMAIN walk}) = walk[1].total
=============================================================================
