------------------------------- MODULE Listing -------------------------------
(***************************************************************************)
(* Pages of the metadata index: List and Search of internal/files/         *)
(* service.go over index_repository.go, and the client that follows their  *)
(* next_cursor while other requests change the index.  The server keeps    *)
(* nothing between two pages: a walk lives in its cursor (index.go) and    *)
(* may go on after a restart or a reindex.  A folder is listed with three  *)
(* statements that share no transaction, a search is one of two.           *)
(*                                                                         *)
(* Strings that are only compared are their rank in byte order, from 1 on. *)
(***************************************************************************)
EXTENDS Namespace, FiniteSets

CONSTANTS
  NormalizedName, Name, NormalizedPath, LogicalPath,  \* columns of a path
  Queries, Matches,  \* Matches[q]: the paths that hold q, after folding
  MaximumLimit       \* MaximumListLimit and MaximumSearchLimit

ASSUME ListingAssumption ==
  /\ IsFiniteSet(Paths)
  /\ \A column \in {NormalizedName, Name, NormalizedPath, LogicalPath} :
       \A p \in Paths : column[p] \in Nat \ {0}
  /\ \A p, q \in Paths : LogicalPath[p] = LogicalPath[q] => p = q
  /\ MaximumLimit \in Nat \ {0}

VARIABLES
  rows,     \* the active rows, as a tree
  healthy,  \* activeGeneration finds a usable generation
  walk      \* the walk of one client

listingVars == <<rows, healthy, walk>>

Requests == [mode : {"list"}, scope : Paths \cup {<<>>}]
            \cup [mode : {"search"}, scope : Queries]

\* The rows a request is about, whatever its cursor.
Listed(tree, r) ==
  {p \in Paths : /\ tree[p] # Absent
                 /\ r.mode = "list" => Front(p) = r.scope
                 /\ r.mode = "search" => p \in Matches[r.scope]}

\* The columns a row is ordered by, which its cursor carries.
Key(r, p) ==
  IF r.mode = "list" THEN <<NormalizedName[p], Name[p], LogicalPath[p]>>
  ELSE <<NormalizedPath[p], LogicalPath[p], 0>>

\* The empty cursor.
Start == <<0, 0, 0>>

\* The order of both queries.
Precedes(k, l) ==
  \/ k[1] < l[1]
  \/ k[1] = l[1] /\ k[2] < l[2]
  \/ k[1] = l[1] /\ k[2] = l[2] /\ k[3] < l[3]

\* Mutants of Beyond: names that differ only in case are passed over; the
\* row of the cursor is selected once more.
BeyondPrimary(k) == walk.after = Start \/ walk.after[1] < k[1]
BeyondOrAt(k) == walk.after \in {Start, k} \/ Precedes(walk.after, k)

\* The rows a cursor leaves.
Beyond(k) == walk.after = Start \/ Precedes(walk.after, k)

Remaining == {p \in Listed(rows, walk.request) : Beyond(Key(walk.request, p))}

\* ORDER BY ... LIMIT: a part of the selected rows that no other precedes.
Leads(part, all) ==
  /\ part \subseteq all
  /\ \A p \in part, q \in all \ part :
       Precedes(Key(walk.request, p), Key(walk.request, q))

ListingInit ==
  /\ rows = EmptyTree
  /\ healthy = TRUE
  /\ walk = [step |-> "idle", request |-> [mode |-> "list", scope |-> <<>>],
             after |-> Start, seen |-> {}, page |-> {}, lasting |-> {}]

-----------------------------------------------------------------------------
(* A request.  lasting and seen are history: the rows that were there from *)
(* the first request on, and what the pages before the latest one held.    *)

\* decodeCursor refuses the cursor of another folder or query.
Continues(r) == walk.after = Start \/ r = walk.request

Ask(r) ==
  /\ walk.step \in {"idle", "done"} /\ Continues(r)
  /\ walk' = IF walk.after = Start
             THEN [step |-> "health", request |-> r, after |-> Start,
                   seen |-> {}, page |-> {}, lasting |-> Listed(rows, r)]
             ELSE [walk EXCEPT !.step = "health", !.request = r]
  /\ UNCHANGED <<rows, healthy>>

To(step) == walk' = [walk EXCEPT !.step = step] /\ UNCHANGED <<rows, healthy>>

\* activeGeneration.  The root needs no row.
CheckHealth ==
  /\ walk.step = "health" /\ healthy
  /\ To(IF walk.request.mode = "list" /\ walk.request.scope # <<>>
        THEN "parent" ELSE "rows")

FindParent ==
  /\ walk.step = "parent" /\ rows[walk.request.scope] = Dir
  /\ To("rows")

\* Mutant of Shown: the row that was fetched beyond the limit is not cut off.
ShownUncut(fetched, shown) ==
  \E last \in fetched :
    /\ \A p \in fetched \ {last} :
         Precedes(Key(walk.request, p), Key(walk.request, last))
    /\ walk' = [walk EXCEPT !.step = "idle", !.seen = @ \cup walk.page,
                            !.page = fetched, !.after = Key(walk.request, last)]

\* The page that stops at its limit; its last row is the next cursor.
Shown(fetched, shown) ==
  /\ Leads(shown, fetched)
  /\ \E last \in shown :
       /\ \A p \in shown \ {last} :
            Precedes(Key(walk.request, p), Key(walk.request, last))
       /\ walk' = [walk EXCEPT !.step = "idle", !.seen = @ \cup walk.page,
                               !.page = shown, !.after = Key(walk.request, last)]

\* The last page.
Finished(fetched) ==
  walk' = [walk EXCEPT !.step = "done", !.seen = @ \cup walk.page,
                       !.page = fetched, !.after = Start]

\* One row more than the limit is fetched: it tells whether a page follows.
ReadRows(limit) ==
  /\ walk.step = "rows"
  /\ \E fetched \in SUBSET Remaining :
       /\ Leads(fetched, Remaining)
       /\ Cardinality(fetched) = limit + 1 \/ fetched = Remaining
       /\ Cardinality(fetched) <= limit + 1
       /\ IF Cardinality(fetched) > limit
          THEN \E shown \in SUBSET fetched :
                 Cardinality(shown) = limit /\ Shown(fetched, shown)
          ELSE Finished(fetched)
  /\ UNCHANGED <<rows, healthy>>

\* An unhealthy index, a folder that is gone, a failed query, a client that
\* hangs up or a restart ends the request; the client keeps its cursor.
Fail == walk.step \in {"health", "parent", "rows"} /\ To("idle")

\* The client starts all over.
GiveUp ==
  /\ walk.step = "idle"
  /\ walk' = [walk EXCEPT !.after = Start, !.seen = {}, !.page = {}, !.lasting = {}]
  /\ UNCHANGED <<rows, healthy>>

-----------------------------------------------------------------------------
(* Everybody else: each action is one transaction on the rows.             *)

Becomes(tree) ==
  /\ rows' = tree
  /\ walk' = [walk EXCEPT !.lasting = @ \cap Listed(tree, walk.request)]
  /\ UNCHANGED healthy

\* A new folder, or an upload that is finished.
CreateRow(p) ==
  /\ IsFree(rows, p)
  /\ \E node \in Contents \cup {Dir} : Becomes(Put(rows, p, node))

MoveRows(p, q) ==
  /\ CanRename(rows, p, q) /\ Fits(rows, p, q)
  /\ Becomes(Moved(rows, p, q))

\* A subtree goes to the trash.
HideRows(p) == rows[p] # Absent /\ Becomes(Cut(rows, p))

\* A restore brings one back; an offline reindex replaces all rows.
ReplaceRows ==
  \E tree \in Trees :
    /\ WellFormed(tree)
    /\ \/ walk.step \in {"idle", "done"}
       \/ \E p \in Paths : /\ IsFree(rows, p) /\ tree[p] # Absent
                           /\ Cut(tree, p) = rows
    /\ Becomes(tree)

\* MarkUnhealthy, and a repair or a reindex that clears it.
ChangeHealth == healthy' = ~healthy /\ UNCHANGED <<rows, walk>>

ListingNext ==
  \/ \E r \in Requests : Ask(r)
  \/ CheckHealth \/ FindParent
  \/ \E limit \in 1 .. MaximumLimit : ReadRows(limit)
  \/ Fail \/ GiveUp
  \/ \E p \in Paths : CreateRow(p) \/ HideRows(p)
  \/ \E p, q \in Paths : MoveRows(p, q)
  \/ ReplaceRows \/ ChangeHealth

ListingSpec == ListingInit /\ [][ListingNext]_listingVars

-----------------------------------------------------------------------------

\* A page is no longer than the limit allows.
ListingTypeOK ==
  /\ rows \in Trees
  /\ healthy \in BOOLEAN
  /\ walk \in [step : {"idle", "health", "parent", "rows", "done"},
               request : Requests, after : Nat \X Nat \X Nat,
               seen : SUBSET Paths, page : SUBSET Paths, lasting : SUBSET Paths]
  /\ Cardinality(walk.page) <= MaximumLimit

\* A client that follows the cursors to the last page has been shown every
\* row that was in the folder (or matched the query) all the time, whatever
\* was created, moved, trashed or reindexed between its pages.
WalkIsComplete == walk.step = "done" => walk.lasting \subseteq walk.seen \cup walk.page

\* No page of a walk shows a path an earlier one has shown, even if the row
\* went away and came back in between.
PagesAreDisjoint == walk.seen \cap walk.page = {}
=============================================================================
