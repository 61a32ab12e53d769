-------------------------------- MODULE Listings --------------------------------
(***************************************************************************)
(* The paged lists of the API (commands, approvals, audit logs,            *)
(* notifications) read by a client that follows has_next from page 1 on,   *)
(* while transactions add rows and move them out of the filter. A page is  *)
(* two queries, the count and the rows, each with a snapshot of its own    *)
(* (READ COMMITTED), and pages are cut by OFFSET from the rows in          *)
(* descending order of created_at, which is the start of the transaction   *)
(* that wrote the row: rows need not appear in that order.                 *)
(***************************************************************************)
EXTENDS Naturals, FiniteSets

CONSTANTS
    MaxRows,    \* bound: transactions that write a row
    MaxReturns, \* bound: decisions that bring an approval back into a state
    PageSize    \* rows of a page

ASSUME RowsAssumption == MaxRows \in Nat \ {0}
ASSUME ReturnsAssumption == MaxReturns \in Nat
ASSUME PageAssumption == PageSize \in Nat \ {0}

\* Rows are numbered by created_at.
Rows == 1..MaxRows

-----------------------------------------------------------------------------
(* What the lists can be filtered by, and what their totals count. "fixed"   *)
(* stands for the columns that are never changed (device, risk level, type,  *)
(* category, dates), "state" for the state of a command or an approval.      *)

CommandList == [filters |-> {"none", "fixed", "state"}, counts |-> "shown"]
ApprovalList == [filters |-> {"none", "fixed", "state"}, counts |-> "shown"]
AuditList == [filters |-> {"none", "fixed"}, counts |-> "shown"]

\* The query of the total leaves the notification_type out.
NotificationList == [filters |-> {"none", "fixed"}, counts |-> "all"]

List == [commands |-> CommandList, approvals |-> ApprovalList,
         audit |-> AuditList, notifications |-> NotificationList]

VARIABLES
    list,     \* the list the client reads
    filter,   \* by what it is filtered
    begun,    \* transactions begun
    visible,  \* rows committed
    match,    \* does a row pass the filter: not (yet), now, no longer
    returns,  \* how often a row has come back into a state
    step,     \* the client's request: before the count, before the rows
    page,     \* page it asks for
    total,    \* result of the count
    seen,     \* rows received so far
    start,    \* rows that were there when it began
    arrived,  \* rows that came into the list between the last count and its rows
    left,     \* rows that left the list since the client began
    blank     \* a page announced by has_next came without rows

database == <<begun, visible, match, returns>>
walk == <<step, page, total, seen, start, blank>>
drift == <<arrived, left>>
listVars == <<list, filter, database, walk, drift>>

ListTypeOK ==
    /\ list \in DOMAIN List /\ filter \in List[list].filters
    /\ begun \in 0..MaxRows
    /\ visible \in SUBSET (1..begun)
    /\ match \in [Rows -> {"no", "yes", "left"}]
    /\ returns \in 0..MaxReturns
    /\ step \in {"idle", "count", "select", "done"}
    /\ page \in 1..(MaxRows + 1)
    /\ total \in 0..MaxRows
    /\ seen \in SUBSET Rows /\ start \in SUBSET Rows
    /\ arrived \in 0..(MaxRows + MaxReturns)
    /\ left \in 0..(MaxRows + MaxReturns)
    /\ blank \in BOOLEAN

ListInit ==
    /\ list \in DOMAIN List /\ filter \in List[list].filters
    /\ begun = 0 /\ visible = {}
    /\ match = [r \in Rows |-> "no"] /\ returns = 0
    /\ step = "idle" /\ page = 1 /\ total = 0 /\ seen = {} /\ start = {}
    /\ arrived = 0 /\ left = 0 /\ blank = FALSE

-----------------------------------------------------------------------------
(* The queries *)

\* Rows the filter lets through.
Shown == {r \in visible : match[r] = "yes"}

\* Mutant of Total: every list counts without its filter.
TotalAll == Cardinality(visible)

Total == Cardinality(IF List[list].counts = "all" THEN visible ELSE Shown)

\* Mutant of Place: the oldest first.
PlaceOldest(r) == Cardinality({s \in Shown : s <= r})

\* ORDER BY created_at DESC
Place(r) == Cardinality({s \in Shown : s >= r})

\* OFFSET (page - 1) * page_size LIMIT page_size
PageRows(p) ==
    {r \in Shown : (p - 1) * PageSize < Place(r) /\ Place(r) <= p * PageSize}

\* Mutant of HasNext: the last page is forgotten.
HasNextShort(p, n) == (p + 1) * PageSize < n

HasNext(p, n) == p * PageSize < n

-----------------------------------------------------------------------------
(* The client and the routes *)

Ask(l) ==
    /\ step = "idle" /\ list = l
    /\ step' = "count"
    /\ start' = Shown
    /\ UNCHANGED <<list, filter, database, page, total, seen, blank, drift>>

AskCommands == Ask("commands")
AskApprovals == Ask("approvals")
AskAudit == Ask("audit")
AskNotifications == Ask("notifications")

Count ==
    /\ step = "count"
    /\ step' = "select"
    /\ total' = Total
    /\ arrived' = 0
    /\ UNCHANGED <<list, filter, database, page, seen, start, left, blank>>

\* The rows, the answer, and the client's request for the page after.
Select ==
    /\ step = "select"
    /\ seen' = seen \cup PageRows(page)
    /\ blank' = (blank \/ (page > 1 /\ PageRows(page) = {}))
    /\ \/ /\ HasNext(page, total)
          /\ page' = page + 1 /\ step' = "count"
       \/ /\ ~HasNext(page, total)
          /\ step' = "done" /\ UNCHANGED page
    /\ UNCHANGED <<list, filter, database, total, start, drift>>

-----------------------------------------------------------------------------
(* Writers *)

\* A transaction begins, and will write a row that passes the filter or not.
\* If it rolls back, the row never shows.
Begin(m) ==
    /\ begun < MaxRows
    /\ filter = "none" => m = "yes"
    /\ begun' = begun + 1
    /\ match' = [match EXCEPT ![begun + 1] = m]
    /\ UNCHANGED <<list, filter, visible, returns, walk, drift>>

\* The list changes under the client.
Drift ==
    /\ arrived' = IF step = "select"
                  THEN arrived + Cardinality(Shown' \ Shown) ELSE arrived
    /\ left' = IF step \in {"count", "select"}
               THEN left + Cardinality(Shown \ Shown') ELSE left

Commit(r) ==
    /\ r \in 1..begun \ visible
    /\ visible' = visible \cup {r}
    /\ UNCHANGED <<list, filter, begun, match, returns, walk>>
    /\ Drift

\* A command or an approval enters a state or leaves it.
Move(r) ==
    /\ filter = "state" /\ r \in visible
    /\ \/ match[r] = "no" /\ match' = [match EXCEPT ![r] = "yes"]
       \/ match[r] = "yes" /\ match' = [match EXCEPT ![r] = "left"]
    /\ UNCHANGED <<list, filter, begun, visible, returns, walk>>
    /\ Drift

\* decide_approval writes the state whatever it is by then: a decision that
\* read the approval as pending brings it back into a state that the sweep or
\* another decision took it out of. Commands have the trigger against that.
Return(r) ==
    /\ filter = "state" /\ list = "approvals" /\ match[r] = "left"
    /\ returns < MaxReturns
    /\ returns' = returns + 1
    /\ match' = [match EXCEPT ![r] = "yes"]
    /\ UNCHANGED <<list, filter, begun, visible, walk>>
    /\ Drift

ListNext ==
    \/ AskCommands \/ AskApprovals \/ AskAudit \/ AskNotifications
    \/ Count \/ Select
    \/ \E m \in {"no", "yes"} : Begin(m)
    \/ \E r \in Rows : Commit(r) \/ Move(r) \/ Return(r)

ListSpec == ListInit /\ [][ListNext]_listVars

-----------------------------------------------------------------------------
(* Properties *)

\* Rows in the list that were in it when the client began, and that it has
\* not received.
Missing == (start \cap Shown) \ seen

\* The pages received have no holes: of the rows newer than one received, only
\* as many can be missing as have left the list under the client, so none
\* where the filter is on columns that do not change, however many rows are
\* added, in whatever order they are committed. (offset and order_by)
NoHoles ==
    \A r \in seen : Cardinality({s \in Missing : s > r}) <= left

\* A client that has followed has_next to the end misses no more rows than
\* came between the last count and its rows and than left under it: without
\* such a race it has everything that was there when it began.
\* (total and rows are two queries)
LossBounded == step = "done" => Cardinality(Missing) <= arrived + left

\* has_next is kept: the next page has rows, unless rows have left the list,
\* or the total of the notifications counted other types. (total and rows
\* have the same filter)
NextPageHasRows ==
    blank => \/ left > 0
             \/ list = "notifications" /\ filter = "fixed"
=============================================================================
