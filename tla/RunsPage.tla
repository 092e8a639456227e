------------------------------- MODULE RunsPage -------------------------------
(* The list of runs as apps/web shows it: pages by keyset, while the runs    *)
(* move up the order under the reader.  The query library reads the pages of *)
(* a refetch one after the other and replaces what is shown by the whole.    *)
EXTENDS Naturals, Sequences, FiniteSets

CONSTANTS
  MaxRuns,    \* runs, numbered as their ids sort
  PageLimit,  \* the page size asked for
  MaxMoments, \* a bound
  MaxWrites,  \* writes to the rows (a bound)
  Missing     \* no row, no cursor, no fetch

ASSUME PageAssumption ==
  /\ PageLimit \in Nat \ {0} /\ {MaxRuns, MaxMoments, MaxWrites} \subseteq Nat
  /\ Missing \notin [at : Nat, id : Nat] \cup [at : Nat, listed : BOOLEAN]

VARIABLES
  moment,
  runRow, \* runs: updated_at and whether the filters match, Missing before the run exists
  writes,
  pages,  \* the pages shown, with the runs written since the first of them was read (ghost)
  fetch   \* the pages of the fetch under way, likewise, and how many are to come

pageVars == <<moment, runRow, writes, pages, fetch>>

Runs == 1..MaxRuns
NoPages == [list |-> <<>>, moved |-> {}]

\* All runs of before may be of the same moment.
PagesBegin(old) ==
  /\ moment = 0 /\ writes = 0 /\ pages = NoPages /\ fetch = Missing
  /\ runRow = [r \in Runs |-> IF r \in old THEN [at |-> 0, listed |-> TRUE] ELSE Missing]

PagesInit == \E old \in SUBSET Runs : PagesBegin(old)

MomentPasses ==
  /\ moment < MaxMoments /\ moment' = moment + 1
  /\ UNCHANGED <<runRow, writes, pages, fetch>>

----------------------------------------------------------------- \* the worker

Touches(r) ==
  /\ writes < MaxWrites /\ writes' = writes + 1
  /\ pages' = [pages EXCEPT !.moved = @ \cup {r}]
  /\ fetch' = IF fetch = Missing THEN Missing ELSE [fetch EXCEPT !.moved = @ \cup {r}]
  /\ UNCHANGED moment

\* createOrGetRun, for a new key.
CreateRun ==
  \E r \in Runs :
    /\ runRow[r] = Missing
    /\ runRow' = [runRow EXCEPT ![r] = [at |-> moment, listed |-> TRUE]]
    /\ Touches(r)

\* Fault: a late projection sets the time it carries.
LateRecency(r, at) == at

\* The projections (casRunStatus, projectRunIndex) never move a run down, late as they may be.
Recency(r, at) == IF at > runRow[r].at THEN at ELSE runRow[r].at

Project ==
  \E r \in Runs, at \in 0..moment, listed \in BOOLEAN :
    /\ runRow[r] # Missing
    /\ runRow' = [runRow EXCEPT ![r] = [at |-> Recency(r, at), listed |-> listed]]
    /\ Touches(r)

\* The order of listRuns, newest first, and by id among runs of one moment.
Precedes(p, q) == p.at > q.at \/ (p.at = q.at /\ p.id > q.id)

\* What a list shows of a run.
Item(r) == [at |-> runRow[r].at, id |-> r]

\* The rows below the cursor, and those of them that sort before a run.
Below(cursor) ==
  {r \in Runs : /\ runRow[r] # Missing
                /\ runRow[r].listed
                /\ cursor = Missing \/ Precedes(cursor, Item(r))}
Ahead(r, cursor) == {s \in Below(cursor) : Precedes(Item(s), Item(r))}

\* listRuns: the first rows below the cursor; one row too many tells that there is more.
Served(cursor) == {r \in Below(cursor) : Cardinality(Ahead(r, cursor)) < PageLimit}
Page(cursor) ==
  [runs |-> {Item(r) : r \in Served(cursor)},
   next |-> IF Cardinality(Below(cursor)) > PageLimit
            THEN Item(CHOOSE r \in Served(cursor) :
                        \A s \in Served(cursor) : s = r \/ Precedes(Item(s), Item(r)))
            ELSE Missing]

------------------------------------------------------------------- \* the page

Cursor(list) == IF list = <<>> THEN Missing ELSE list[Len(list)].next

\* refetchInterval: as many pages as are shown are read anew, unless a fetch is under way.
RefetchPages ==
  /\ fetch = Missing
  /\ fetch' = [list |-> <<>>, moved |-> {}, grows |-> FALSE,
               left |-> IF pages.list = <<>> THEN 1 ELSE Len(pages.list)]
  /\ UNCHANGED <<moment, runRow, writes, pages>>

\* fetchNextPage, at the end of the list: a refetch under way is given up.
FetchNext ==
  /\ pages.list # <<>> /\ Cursor(pages.list) # Missing
  /\ fetch # Missing => ~fetch.grows
  /\ fetch' = [list |-> pages.list, moved |-> pages.moved, grows |-> TRUE, left |-> 1]
  /\ UNCHANGED <<moment, runRow, writes, pages>>

\* GET /api/runs answers the next page; the last of them makes the pages those shown.
ReadPage ==
  /\ fetch # Missing
  /\ LET page == Page(Cursor(fetch.list))
         list == Append(fetch.list, page)
         moved == IF fetch.list = <<>> THEN {} ELSE fetch.moved
     IN  IF fetch.left = 1 \/ page.next = Missing
           THEN pages' = [list |-> list, moved |-> moved] /\ fetch' = Missing
           ELSE /\ fetch' = [fetch EXCEPT !.list = list, !.moved = moved, !.left = @ - 1]
                /\ UNCHANGED pages
  /\ UNCHANGED <<moment, runRow, writes>>

\* A page that cannot be read: what is shown stays.
FetchFails ==
  /\ fetch # Missing /\ fetch' = Missing
  /\ UNCHANGED <<moment, runRow, writes, pages>>

PagesNext ==
  MomentPasses \/ CreateRun \/ Project \/ RefetchPages \/ FetchNext \/ ReadPage \/ FetchFails

PagesSpec == PagesInit /\ [][PagesNext]_pageVars

------------------------------------------------------------------ \* properties

\* Every variable has its type.
PagesTypeOK ==
  /\ moment \in 0..MaxMoments /\ writes \in 0..MaxWrites
  /\ runRow \in [Runs -> [at : 0..moment, listed : BOOLEAN] \cup {Missing}]
  /\ pages.moved \subseteq Runs
  /\ fetch # Missing => fetch.left \in Nat \ {0} /\ fetch.moved \subseteq Runs

\* The pages shown are one list, though read at different times: a page sorts before the
\* next, no run is on two, and a run that was not written since the first page was read is
\* on one exactly if it is not below the end.
OneList ==
  LET list == pages.list
      End == Cursor(list)
      shownItems == UNION {list[n].runs : n \in DOMAIN list}
  IN  /\ \A m, n \in DOMAIN list : m < n =>
           \A i \in list[m].runs, j \in list[n].runs : Precedes(i, j) /\ i.id # j.id
      /\ list # <<>> =>
           \A r \in {s \in Runs \ pages.moved : runRow[s] # Missing} :
             (runRow[r].listed /\ (End = Missing \/ ~Precedes(End, Item(r))))
               <=> Item(r) \in shownItems
=============================================================================
