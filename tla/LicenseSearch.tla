---------------------------- MODULE LicenseSearch ----------------------------
(***************************************************************************)
(* Keyset pagination over current_records while promotions replace them:   *)
(* searchLicenses of services/record-api/src/postgres.ts against the       *)
(* upsert and delete of promote_import.                                    *)
(*                                                                         *)
(* A client fetches page after page, each one query of its own.  Between   *)
(* two pages any number of promotions may commit.  A promotion keeps the   *)
(* id of a record that stays, deletes the others, and gives new records    *)
(* ids that were taken from the sequence when its statement ran: of two    *)
(* promotions the one that commits later may hold the smaller ids.         *)
(***************************************************************************)
EXTENDS Naturals, FiniteSets

CONSTANTS
    License,    \* source record keys that match the search
    MaxId,      \* bound: ids of current_records are 1..MaxId
    PageLimit,  \* query.limit
    NoCursor,   \* nextCursor is null
    NoRow       \* a key without a current record

ASSUME SearchAssumption ==
    /\ MaxId \in Nat /\ PageLimit \in Nat \ {0} /\ NoCursor \notin Nat
    /\ NoRow \notin [id : 1..MaxId, disposition : {"allowed", "withheld"}]

Id == 1..MaxId
Disposition == {"allowed", "withheld"}

VARIABLES
    rows,      \* current_records: id and disposition of each key's record
    used,      \* ids the sequence has given out
    cursor,    \* cursor of the next page; NoCursor after the last one
    returned,  \* ids of the rows returned so far
    page,      \* ids on the last page
    steady     \* history: ids visible ever since the first page was asked for

searchVars == <<rows, used, cursor, returned, page, steady>>

Row == [id : Id, disposition : Disposition]

Present(table) == {k \in License : table[k] # NoRow}
IdsOf(table) == {table[k].id : k \in Present(table)}
VisibleIds(table) ==
    {table[k].id : k \in {l \in Present(table) : table[l].disposition = "allowed"}}

SearchInit ==
    /\ rows = [k \in License |-> NoRow] /\ used = {}
    /\ cursor = 0 /\ returned = {} /\ page = {} /\ steady = {}

-----------------------------------------------------------------------------

\* The ids after a commit: a present key keeps its own, the others get
\* distinct ids nobody had before.
RightIds(old, new) ==
    \A k \in Present(new) :
        /\ IF old[k] # NoRow THEN new[k].id = old[k].id ELSE new[k].id \notin used
        /\ \A l \in Present(new) : new[k].id = new[l].id => k = l

\* promote_import commits a dataset that leaves this table.
PromoteDataset(table) ==
    /\ RightIds(rows, table)
    /\ rows' = table
    /\ used' = used \cup IdsOf(table)
    /\ steady' = steady \cap VisibleIds(table)
    /\ UNCHANGED <<cursor, returned, page>>

\* The ids after the cursor that the query returns, at most PageLimit + 1.
Fetched(after) ==
    LET matching == {i \in VisibleIds(rows) : i > after} IN
    {i \in matching : Cardinality({j \in matching : j < i}) <= PageLimit}

\* The rows of a page, and the cursor after it.
FirstRows(ids) == {i \in ids : Cardinality({j \in ids : j < i}) < PageLimit}

FaultyCursorAfter(ids) ==
    IF Cardinality(ids) > PageLimit
    THEN CHOOSE i \in ids : \A j \in ids : j <= i
    ELSE NoCursor

CursorAfter(ids) ==
    IF Cardinality(ids) > PageLimit
    THEN CHOOSE i \in FirstRows(ids) : \A j \in FirstRows(ids) : j <= i
    ELSE NoCursor

FetchPage ==
    /\ cursor # NoCursor
    /\ page' = FirstRows(Fetched(cursor))
    /\ cursor' = CursorAfter(Fetched(cursor))
    /\ returned' = returned \cup page'
    /\ steady' = IF cursor = 0 THEN VisibleIds(rows) ELSE steady
    /\ UNCHANGED <<rows, used>>

SearchNext ==
    \/ FetchPage
    \/ \E table \in [License -> Row \cup {NoRow}] : PromoteDataset(table)

SearchSpec == SearchInit /\ [][SearchNext]_searchVars

-----------------------------------------------------------------------------
(* Properties.                                                             *)

SearchTypeOK ==
    /\ rows \in [License -> Row \cup {NoRow}] /\ used \subseteq Id
    /\ cursor \in (0..MaxId) \cup {NoCursor}
    /\ returned \subseteq Id /\ page \subseteq Id /\ steady \subseteq Id
    /\ \A k, l \in Present(rows) : rows[k].id = rows[l].id => k = l

\* A client that follows the cursors to the end has every record that stayed
\* published all the while, whatever was promoted between its pages.
SteadyRowsAreReturned == cursor = NoCursor => steady \subseteq returned

\* No row is returned on two pages.
NoRepetition == cursor' # cursor => page' \cap returned = {}

PagesAreDisjoint == [][NoRepetition]_searchVars

\* Paging through the records loses none and repeats none, at every step.
PaginationIsExact == [][SteadyRowsAreReturned' /\ NoRepetition]_searchVars

=============================================================================
