----------------------------- MODULE ServicesPage -----------------------------
(***************************************************************************)
(* The page that lists the registered services (manage.jsp, services.js,   *)
(* cas.js) over the services manager: rows are dragged to change the order *)
(* services are evaluated in, or deleted.                                  *)
(*                                                                         *)
(* The page shows what it was loaded with, and what its own moves changed. *)
(* A move posts the new evaluation order and waits for the answer          *)
(* (async: false).  Forms in other tabs change services meanwhile.         *)
(***************************************************************************)
EXTENDS ServicesManager

CONSTANTS
    Tab         \* the request of the page's tab

ASSUME TabAssumption == Tab \in Admin

VARIABLES
    rows,     \* the table: the id and the evaluation order each row shows
    ppc,      \* the page: "shown", "posted" (a move) or "deleting"
    move,     \* the move that has been posted
    current,  \* the row that asks "Really?", by its service: currentRow
    stale     \* history: services changed since the page was loaded, but by a
              \* move the page knows of

page     == <<rows, ppc, move, current>>
pageVars == <<vars, page, stale>>

-----------------------------------------------------------------------------
NoMove == [id |-> NewId, target |-> NewId, position |-> "before", order |-> 0]

\* The table manage() makes: the services in the order they are evaluated in.
Table ==
    LET Sooner(i, j) == Before(services[i], services[j]) IN
    [n \in 1 .. Cardinality(AllServices) |->
        LET i == CHOOSE i \in AllServices :
                    Cardinality({j \in AllServices : Sooner(j, i)}) = n - 1
        IN  [id |-> i, order |-> services[i].order]]

\* Mutant: counted from the row's own order.
EvalOrder_Own(row, target, position) ==
    IF position = "before" THEN row.order - 1 ELSE row.order + 1

\* updateRegisteredServiceOrder: next to what the target row shows.
EvalOrder(row, target, position) ==
    IF position = "before" THEN target.order - 1 ELSE target.order + 1

\* geometricMove: the row is taken out, and put in again before or after the
\* target.
MoveDom(table, row, target, position) ==
    LET others == RemoveFirstMatch(table, LAMBDA r : r.id = row.id)
        at     == SelectInSeq(others, LAMBDA r : r.id = target)
    IN  InsertAt(others, IF position = "before" THEN at ELSE at + 1, row)

PageInit ==
    /\ Init
    /\ rows = Table
    /\ ppc = "shown" /\ move = NoMove /\ current = NewId
    /\ stale = {}

-----------------------------------------------------------------------------
\* manage.html is loaded again.
Manage ==
    /\ ppc = "shown"
    /\ rows' = Table
    /\ current' = NewId
    /\ stale' = {}
    /\ UNCHANGED <<vars, ppc, move>>

\* A row is dropped before or after another, and the order is posted.  For a
\* service that is not there any more the answer is an error; the row stays
\* where it was.
Move ==
    /\ ppc = "shown"
    /\ \E m, n \in DOMAIN rows, position \in {"before", "after"} :
        LET k == EvalOrder(rows[m], rows[n], position) IN
        /\ m # n
        /\ k \in EvaluationOrder
        /\ UpdateEvaluationOrder(Tab, rows[m].id, k)
        /\ move' = [id |-> rows[m].id, target |-> rows[n].id,
                    position |-> position, order |-> k]
    /\ ppc' = "posted"
    /\ UNCHANGED <<rows, current, stale>>

\* Mutant: the row is moved, its evaluation order is not written.
Moved_OldOrder ==
    /\ ppc = "posted" /\ pc[Tab] = "idle"
    /\ LET row == rows[SelectInSeq(rows, LAMBDA r : r.id = move.id)]
       IN  rows' = MoveDom(rows, row, move.target, move.position)
    /\ ppc' = "shown" /\ move' = NoMove
    /\ UNCHANGED <<vars, current, stale>>

\* success: the cell shows the order, and the row is moved.
Moved ==
    /\ ppc = "posted" /\ pc[Tab] = "idle"
    /\ rows' = MoveDom(rows, [id |-> move.id, order |-> move.order],
                       move.target, move.position)
    /\ ppc' = "shown" /\ move' = NoMove
    /\ UNCHANGED <<vars, current, stale>>

\* error: the answer was lost, the service has been saved.
MoveFailed ==
    /\ ppc = "posted" /\ pc[Tab] = "idle"
    /\ stale' = stale \cup {move.id}
    /\ ppc' = "shown" /\ move' = NoMove
    /\ UNCHANGED <<vars, rows, current>>

\* swapButtonsForConfirm: the row that asked before gets its links back.
SwapButtonsForConfirm ==
    /\ ppc = "shown"
    /\ \E n \in DOMAIN rows : current' = rows[n].id
    /\ UNCHANGED <<vars, rows, ppc, move, stale>>

\* resetOldValue, for the link "No".
ResetOldValue ==
    /\ ppc = "shown"
    /\ current' = NewId
    /\ UNCHANGED <<vars, rows, ppc, move, stale>>

\* The link "Yes".  Of a service that is not there any more the answer is the
\* list all the same (Manage).
Yes ==
    /\ ppc = "shown"
    /\ Delete(Tab, current)
    /\ ppc' = "deleting"
    /\ UNCHANGED <<rows, move, current, stale>>

\* The answer redirects to the list.
Deleted ==
    /\ ppc = "deleting" /\ pc[Tab] = "idle"
    /\ rows' = Table
    /\ current' = NewId
    /\ stale' = {}
    /\ ppc' = "shown"
    /\ UNCHANGED <<vars, move>>

\* The services manager at work, for this tab or another.
Manager ==
    /\ \/ Reload
       \/ \E a \in Admin :
            \/ (a = Tab => ppc = "shown") /\ (Submit(a) \/ \E i \in DOMAIN services : Delete(a, i))
            \/ Proceed(a)
    /\ stale' = stale \cup
                    {i \in DOMAIN services \cup DOMAIN services' :
                        /\ ~(i = move.id /\ pc[Tab] # "idle")
                        /\ ~(/\ i \in DOMAIN services \cap DOMAIN services'
                             /\ services'[i] = services[i])}
    /\ UNCHANGED page

PageNext ==
    \/ Manage \/ Move \/ Moved \/ MoveFailed
    \/ SwapButtonsForConfirm \/ ResetOldValue \/ Yes \/ Deleted
    \/ Manager

PageSpec == PageInit /\ [][PageNext]_pageVars

-----------------------------------------------------------------------------
\* What a row shows is what its service is evaluated by, for every service
\* nobody but this page has changed since it was loaded, and no answer about
\* was lost.
ShownIsStored ==
    ppc = "shown" =>
        \A n \in DOMAIN rows :
            rows[n].id \notin stale => rows[n].order = services[rows[n].id].order

\* A service that has been dropped before (after) another is evaluated before
\* (after) it, whatever has been moved before: the page counts from the order
\* the target row shows.
EvaluatedWhereDropped ==
    [][Moved /\ {move.id, move.target} \cap stale = {} =>
        LET moved == services[move.id].order  target == services[move.target].order
        IN  IF move.position = "before" THEN moved < target ELSE moved > target]_pageVars
=============================================================================
