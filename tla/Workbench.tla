----------------------------- MODULE Workbench -----------------------------
(* A page of the workbench and the entity store behind it, in the tab of     *)
(* Session and against the rows of the server. The store outlives the page;  *)
(* its calls are asynchronous, several can be under way, and the answer that *)
(* arrives last is the one that stays. A call of the page holds one request  *)
(* at a time: its own, and after a success the load that follows.            *)
EXTENDS Session, Sequences, FiniteSets

CONSTANTS
  Starts,      \* what to start from: kind of the page, role of the account, status of the rows
  Rows,        \* rows of the server
  Found,       \* those that the narrow search finds
  PageSize,    \* rows of a list at most
  Parallel,    \* bound: calls under way at once
  MaxAsks,     \* bound: calls the user starts
  MaxOthers    \* bound: changes others make

Kinds == {"CaptureUnit", "PermitRule", "EmissionSample", "ComplianceDecision"}

ASSUME FoundAssumption == Found \subseteq Rows
ASSUME PageSizeAssumption == PageSize \in Nat \ {0}
ASSUME ParallelAssumption == Parallel \in Nat \ {0}
ASSUME AsksAssumption == MaxAsks \in Nat /\ MaxOthers \in Nat

VARIABLES
  kind,        \* the entity of the page; it never changes
  rows,        \* the table, as far as the workbench looks at it
  deleted,     \* the rows that others have (soft-)deleted
  store,       \* what the store shows
  page,        \* the dialogs of the page
  calls,       \* the calls under way
  asks,        \* number of calls the user has started
  others,      \* number of changes others have made
  asked,       \* history: the searches asked for since the page was last at rest
  promised,    \* history: what acked was when the first of them was asked for
  acked        \* history: the version of every row this workbench knows it has stored

table == <<rows, deleted, others>>
wbVars == <<kind, table, store, page, calls, asks, asked, promised, acked>>
vars == <<session, wbVars>>

-----------------------------------------------------------------------------
Graph == [CaptureUnit        |-> CaptureUnitTransitions,
          PermitRule         |-> PermitRuleTransitions,
          EmissionSample     |-> EmissionSampleTransitions,
          ComplianceDecision |-> ComplianceDecisionTransitions]

ASSUME StartsAssumption ==
  \A s \in Starts : s.kind \in Kinds /\ s.role \in Roles /\ s.status \in DOMAIN Graph[s.kind]

\* The statuses in the order in which the workbench offers them.
StatusList ==
  [CaptureUnit        |-> <<"standby", "running", "limited", "stopped">>,
   PermitRule         |-> <<"draft", "active", "superseded", "retired">>,
   EmissionSample     |-> <<"collected", "testing", "verified", "invalid">>,
   ComplianceDecision |-> <<"draft", "review", "accepted", "escalated">>]

Row(v, s) == [version |-> v, status |-> s]
NoRow == Row(0, "none")

Searches == {"all", "found"}
Matching(search) == IF search = "all" THEN Rows ELSE Found

Live(r) == rows[r] # NoRow /\ r \notin deleted

FirstStatus == StatusList[kind][1]

\* The status offered after s, if there is one.
NextStatus(s) ==
  {StatusList[kind][i + 1] : i \in {j \in 1 .. Len(StatusList[kind]) - 1 : StatusList[kind][j] = s}}

Final(s) == kind = "ComplianceDecision" /\ s \in {"accepted", "escalated"}

\* Slip: final decisions offered to everybody who may write.
CanTransitionAnyWriter(target) == HasRole("operator")

\* The button of a move is shown.
CanTransitionTo(target) ==
  /\ HasRole("operator")
  /\ Final(target) => HasRole("reviewer")

NoDialog == [row |-> "none", item |-> NoRow, target |-> "none"]
NoPage == [open |-> FALSE, create |-> FALSE, pending |-> NoDialog]
FreshPage == [NoPage EXCEPT !.open = TRUE]

\* A request: of a load, a move or a create; goal is the operation it is part of,
\* mine says whether the page that waits for it is still there.
NoCall == [op |-> "none", goal |-> "none", mine |-> FALSE, token |-> "none", search |-> "all",
           move |-> NoDialog, answer |-> "none", items |-> [r \in Rows |-> NoRow], version |-> 0]

LoadCall(goal, search, mine) ==
  [NoCall EXCEPT !.op = "load", !.goal = goal, !.mine = mine, !.token = token, !.search = search]

MoveCall(dialog) ==
  [NoCall EXCEPT !.op = "move", !.goal = "move", !.mine = TRUE, !.token = token, !.move = dialog]

CreateCall == [NoCall EXCEPT !.op = "create", !.goal = "create", !.mine = TRUE, !.token = token]

Calls == 1 .. Parallel
Busy(c) == calls[c] # NoCall
Idle == \A c \in Calls : ~Busy(c)

Init ==
  /\ InitSession
  /\ \E s \in Starts :
       /\ kind = s.kind /\ role = s.role
       /\ rows = [r \in Rows |-> IF r \in Found THEN Row(1, s.status) ELSE NoRow]
  /\ store = [items |-> [r \in Rows |-> NoRow], search |-> "all", loading |-> FALSE, error |-> "none"]
  /\ page = NoPage
  /\ calls = [c \in Calls |-> NoCall]
  /\ deleted = {} /\ others = 0
  /\ asks = 0 /\ asked = {}
  /\ acked = [r \in Rows |-> 0] /\ promised = acked

-----------------------------------------------------------------------------
(* The page: what the user does, and what the page does when it appears.     *)

Visible == route = "page" /\ ~waiting /\ page.open

\* An open dialog covers the page.
Uncovered == Visible /\ page.pending = NoDialog /\ ~page.create

\* Request k is sent; calls are numbered from the first free number on.
Start(c, k) ==
  /\ ~Busy(c) /\ \A d \in 1 .. c - 1 : Busy(d)
  /\ calls' = [calls EXCEPT ![c] = k]
  /\ UNCHANGED <<session, kind, table, acked>>

\* A load; it belongs with the calls that are under way, if there are any.
Asking(search) ==
  /\ asked' = (IF Idle THEN {} ELSE asked) \cup {search}
  /\ promised' = IF Idle \/ asked = {} THEN acked ELSE promised

\* A change: its load comes later.
AskingLater ==
  /\ asked' = IF Idle THEN {} ELSE asked
  /\ UNCHANGED promised

\* load clears the error, createRecord and transition do not.
StartLoad(c, goal, search) ==
  /\ Start(c, LoadCall(goal, search, TRUE))
  /\ store' = [store EXCEPT !.loading = TRUE, !.error = "none"]
  /\ Asking(search)

Ask == asks < MaxAsks /\ asks' = asks + 1

\* The shell has its page (again): a new component loads its rows.
Open(c) ==
  /\ route = "page" /\ ~waiting /\ ~page.open
  /\ StartLoad(c, "load", "all")
  /\ page' = FreshPage
  /\ UNCHANGED asks

Query(c) ==
  /\ Uncovered /\ Ask
  /\ \E search \in Searches : StartLoad(c, "load", search)
  /\ UNCHANGED page

OpenTransition(r) ==
  /\ Uncovered
  /\ \E target \in NextStatus(store.items[r].status) :
       /\ CanTransitionTo(target)
       /\ page' = [page EXCEPT !.pending = [row |-> r, item |-> store.items[r], target |-> target]]
  /\ UNCHANGED <<session, kind, table, store, calls, asks, asked, promised, acked>>

CloseTransition ==
  /\ Visible /\ page.pending # NoDialog
  /\ page' = [page EXCEPT !.pending = NoDialog]
  /\ UNCHANGED <<session, kind, table, store, calls, asks, asked, promised, acked>>

\* Slip: the version of the row in the list, which may have been loaded since.
ConfirmedMoveOfList ==
  [page.pending EXCEPT !.item.version = store.items[page.pending.row].version]

\* The move is that of the row the dialog was opened with.
ConfirmedMove == page.pending

\* Slip: the list shows the move before the server has made it.
ConfirmTransitionOptimistic(c) ==
  /\ Visible /\ page.pending # NoDialog /\ CanTransitionTo(page.pending.target)
  /\ Ask
  /\ Start(c, MoveCall(ConfirmedMove))
  /\ store' = [store EXCEPT !.loading = TRUE, !.items[page.pending.row] =
                  Row(page.pending.item.version + 1, page.pending.target)]
  /\ AskingLater
  /\ UNCHANGED page

\* The dialog stays open while the call is under way, and can be confirmed again.
ConfirmTransition(c) ==
  /\ Visible /\ page.pending # NoDialog /\ CanTransitionTo(page.pending.target)
  /\ Ask
  /\ Start(c, MoveCall(ConfirmedMove))
  /\ store' = [store EXCEPT !.loading = TRUE]
  /\ AskingLater
  /\ UNCHANGED page

OpenCreate ==
  /\ Uncovered /\ HasRole("operator")
  /\ page' = [page EXCEPT !.create = TRUE]
  /\ UNCHANGED <<session, kind, table, store, calls, asks, asked, promised, acked>>

CloseCreate ==
  /\ Visible /\ page.create
  /\ page' = [page EXCEPT !.create = FALSE]
  /\ UNCHANGED <<session, kind, table, store, calls, asks, asked, promised, acked>>

CreateDemo(c) ==
  /\ Visible /\ page.create /\ HasRole("operator")
  /\ Ask
  /\ Start(c, CreateCall)
  /\ store' = [store EXCEPT !.loading = TRUE]
  /\ AskingLater
  /\ UNCHANGED page

\* The page goes; what waits for its calls goes with it, the calls do not.
Destroyed ==
  /\ page' = NoPage
  /\ calls' = [c \in Calls |-> [calls[c] EXCEPT !.mine = FALSE]]
  /\ UNCHANGED <<kind, table, store, asked, promised, acked>>

\* The user goes to another page and comes back, past the guard.
Leave ==
  /\ Visible /\ Ask
  /\ route' = "guard"
  /\ Destroyed
  /\ UNCHANGED <<role, token, login, waiting, outages>>

-----------------------------------------------------------------------------
(* The server.                                                               *)

Answer(c, answer) == calls' = [calls EXCEPT ![c].answer = answer]

Waits(c, op) == calls[c].op = op /\ calls[c].answer = "none"

\* The middleware lets in a token that was signed by this server and is not expired.
Accepted(c) == calls[c].token = "valid"

\* The request does not get through, or is answered 401, 409 (a code in use) or 500.
Refuse(c) ==
  /\ Busy(c) /\ calls[c].answer = "none"
  /\ Answer(c, "failed")
  /\ UNCHANGED <<session, kind, table, store, page, asks, asked, promised, acked>>

\* What a list can hold: all live rows that match or, if they are more than a page,
\* a page of them. Which ones come first, those changed last, is left open.
FirstPages(search) ==
  LET live == {r \in Matching(search) : Live(r)} IN
  {top \in SUBSET live : Cardinality(top) = PageSize \/ (top = live /\ Cardinality(top) < PageSize)}

List(c) ==
  /\ Waits(c, "load") /\ Accepted(c)
  /\ \E top \in FirstPages(calls[c].search) :
       calls' = [calls EXCEPT ![c].answer = "ok",
                              ![c].items = [r \in Rows |-> IF r \in top THEN rows[r] ELSE NoRow]]
  /\ UNCHANGED <<session, kind, table, store, page, asks, asked, promised, acked>>

\* The rules of the service: the status graph, and who decides.
Allowed(m) ==
  /\ CanTransition(Graph[kind], rows[m.row].status, m.target)
  /\ Final(m.target) => HasMinimumRole(role, "reviewer")

VersionMatches(m) == rows[m.row].version = m.item.version

Writer == HasMinimumRole(role, "operator")

MoveRefused(c) ==
  LET m == calls[c].move IN
  /\ Waits(c, "move") /\ Accepted(c)
  /\ \/ ~Writer /\ Answer(c, "insufficient_role")
     \/ Writer /\ ~Live(m.row) /\ Answer(c, "not_found")
     \/ Writer /\ Live(m.row) /\ ~Allowed(m) /\ Answer(c, "business_rule")
     \/ Writer /\ Live(m.row) /\ Allowed(m) /\ ~VersionMatches(m) /\ Answer(c, "version_conflict")
  /\ UNCHANGED <<session, kind, table, store, page, asks, asked, promised, acked>>

\* The answer of a change that was made may get lost.
Changed(c, r, row) ==
  /\ rows' = [rows EXCEPT ![r] = row]
  /\ \E answer \in {"ok", "failed"} :
       calls' = [calls EXCEPT ![c].answer = answer, ![c].version = row.version, ![c].move.row = r]
  /\ UNCHANGED <<session, kind, deleted, others, store, page, asks, asked, promised, acked>>

Move(c) ==
  LET m == calls[c].move IN
  /\ Waits(c, "move") /\ Accepted(c)
  /\ Writer /\ Live(m.row) /\ Allowed(m) /\ VersionMatches(m)
  /\ Changed(c, m.row, Row(rows[m.row].version + 1, m.target))

Create(c) ==
  /\ Waits(c, "create") /\ Accepted(c) /\ Writer
  /\ \E r \in Rows : rows[r] = NoRow /\ Changed(c, r, Row(1, FirstStatus))

\* Somebody else edits a row, moves it along the graph, creates one or deletes one.
OthersChange(r) ==
  /\ Live(r)
  /\ \E s \in {rows[r].status} \cup Graph[kind][rows[r].status] :
       rows' = [rows EXCEPT ![r] = Row(rows[r].version + 1, s)]
  /\ UNCHANGED deleted

OthersCreate(r) ==
  /\ rows[r] = NoRow
  /\ rows' = [rows EXCEPT ![r] = Row(1, FirstStatus)]
  /\ UNCHANGED deleted

OthersDelete(r) ==
  /\ Live(r)
  /\ deleted' = deleted \cup {r}
  /\ UNCHANGED rows

Others(r) ==
  /\ others < MaxOthers /\ others' = others + 1
  /\ OthersChange(r) \/ OthersCreate(r) \/ OthersDelete(r)
  /\ UNCHANGED <<session, kind, store, page, calls, asks, asked, promised, acked>>

-----------------------------------------------------------------------------
(* Answers arrive.                                                           *)

\* The end of a call whose page is still there closes the dialog it came from,
\* or whichever of its kind is open by now.
Concluded(c) ==
  page' = IF ~calls[c].mine THEN page
          ELSE IF calls[c].goal = "move" THEN [page EXCEPT !.pending = NoDialog]
          ELSE IF calls[c].goal = "create" THEN [page EXCEPT !.create = FALSE]
          ELSE page

ReceiveLoad(c) ==
  /\ calls[c].op = "load" /\ calls[c].answer # "none"
  /\ store' = IF calls[c].answer = "ok"
              THEN [items |-> calls[c].items, search |-> calls[c].search,
                    loading |-> FALSE, error |-> "none"]
              ELSE [store EXCEPT !.loading = FALSE, !.error = calls[c].answer]
  /\ Concluded(c)
  /\ calls' = [calls EXCEPT ![c] = NoCall]
  /\ UNCHANGED <<session, kind, table, asks, asked, promised, acked>>

\* A change is known to be stored; the rows, all of them, are asked for again.
Stored(c) ==
  /\ acked' = [acked EXCEPT ![calls[c].move.row] = IF calls[c].version > @ THEN calls[c].version ELSE @]
  /\ asked' = asked \cup {"all"}
  /\ promised' = IF asked = {} THEN acked' ELSE promised

\* Slip: the rows asked for together with the change, and not again after it.
ReceiveChangeNoReload(c) ==
  /\ calls[c].op \in {"move", "create"} /\ calls[c].answer = "ok"
  /\ Stored(c)
  /\ calls' = [calls EXCEPT ![c] = NoCall]
  /\ store' = [store EXCEPT !.loading = FALSE, !.search = "all", !.error = "none"]
  /\ Concluded(c)
  /\ UNCHANGED <<session, kind, table, asks>>

\* After a change the rows are loaded again, without a search.
ReceiveChange(c) ==
  /\ calls[c].op \in {"move", "create"} /\ calls[c].answer = "ok"
  /\ Stored(c)
  /\ calls' = [calls EXCEPT ![c] = LoadCall(calls[c].goal, "all", calls[c].mine)]
  /\ store' = [store EXCEPT !.loading = TRUE, !.error = "none"]
  /\ UNCHANGED <<session, kind, table, page, asks>>

\* Slip: the loading flag left as it is.
ReceiveErrorStillLoading(c) ==
  /\ calls[c].op \in {"move", "create"} /\ calls[c].answer \notin {"none", "ok"}
  /\ store' = [store EXCEPT !.error = calls[c].answer]
  /\ calls' = [calls EXCEPT ![c] = NoCall]
  /\ UNCHANGED <<session, kind, table, page, asks, asked, promised, acked>>

\* The error is shown; the dialog stays open, with the row it was opened with.
ReceiveError(c) ==
  /\ calls[c].op \in {"move", "create"} /\ calls[c].answer \notin {"none", "ok"}
  /\ store' = [store EXCEPT !.loading = FALSE, !.error = calls[c].answer]
  /\ calls' = [calls EXCEPT ![c] = NoCall]
  /\ UNCHANGED <<session, kind, table, page, asks, asked, promised, acked>>

-----------------------------------------------------------------------------
Serve(c) == Refuse(c) \/ List(c) \/ MoveRefused(c) \/ Move(c) \/ Create(c)
Receive(c) == ReceiveLoad(c) \/ ReceiveChange(c) \/ ReceiveError(c)

\* Logging out hides the shell, and the page goes with it.
Relogin == Ask /\ Logout /\ Destroyed

\* Between two calls; a token that ends while a call is under way is one more
\* reason for Refuse.
IdleExpire == Idle /\ Expire

\* With no call under way everything may stay as it is.
Finished == Idle /\ UNCHANGED vars

Next ==
  \/ \E c \in Calls :
       \/ Open(c) \/ Query(c) \/ ConfirmTransition(c) \/ CreateDemo(c)
       \/ Serve(c) \/ Receive(c)
  \/ \E r \in Rows : OpenTransition(r) \/ Others(r)
  \/ CloseTransition \/ OpenCreate \/ CloseCreate \/ Leave \/ Relogin
  \/ /\ \/ Authenticate \/ Login \/ LoginFails \/ LoginDone \/ LoginFailed \/ GuardPasses
        \/ IdleExpire
     /\ UNCHANGED wbVars
  \/ Finished

Spec == Init /\ [][Next]_vars

\* The browser runs what is ready, and requests are answered in the end, by the
\* server or by an error; nothing is asked of the users.
Fairness ==
  /\ \A c \in Calls : WF_vars(Open(c)) /\ WF_vars(Serve(c)) /\ WF_vars(Receive(c))
  /\ WF_vars(Authenticate /\ UNCHANGED wbVars)
  /\ WF_vars(Login /\ UNCHANGED wbVars)
  /\ WF_vars(LoginDone /\ UNCHANGED wbVars)
  /\ WF_vars(LoginFailed /\ UNCHANGED wbVars)
  /\ WF_vars(GuardPasses /\ UNCHANGED wbVars)

FairSpec == Spec /\ Fairness

-----------------------------------------------------------------------------
(* Properties.                                                               *)

\* Types of both halves; what the store shows has been in the table.
TypeOK ==
  /\ SessionTypeOK
  /\ kind \in Kinds
  /\ \A r \in Rows : rows[r] = NoRow \/ rows[r].status \in DOMAIN Graph[kind]
  /\ \A r \in Rows : store.items[r].version <= rows[r].version
  /\ store.search \in Searches /\ asked \subseteq Searches
  /\ \A c \in Calls : Busy(c) => calls[c].op \in {"load", "move", "create"}
  /\ asks \in 0 .. MaxAsks

\* The spinner is not left on: while the store says it is loading, a call is under
\* way that will end it, however calls overlap, fail or lose their page.
SpinnerHonest == store.loading => ~Idle

\* The buttons agree with the server's rules: a move the page offered is refused for
\* the role or for the status graph only if the row has been changed since it was
\* shown.
MovesWelcome ==
  \A c \in Calls : calls[c].op = "move" /\ calls[c].answer \in {"insufficient_role", "business_rule"} =>
    rows[calls[c].move.row].version > calls[c].move.item.version

\* What the user confirmed is what is done: the move takes the row from the status the
\* dialog showed to the one it named, although the list, the row and the session may
\* have changed under the dialog and the dialog may have been confirmed before.
ConfirmedMoveExact ==
  [][\A c \in Calls : calls[c].op = "move" /\ calls'[c].answer # calls[c].answer =>
       LET m == calls[c].move IN
         rows' # rows => /\ rows[m.row].status = m.item.status
                         /\ rows'[m.row].status = m.target]_vars

Full(items) == Cardinality({r \in Rows : items[r] # NoRow}) = PageSize

\* A page at rest without an error shows a search that was asked for since it was last
\* at rest, in whatever order the answers came, and in it every change this tab knew to
\* be stored when the first of these loads was sent (after a change alone: that change
\* too), unless others deleted the row or other rows filled the page.
IdleShowsStored ==
  Idle /\ store.error = "none" /\ page.open =>
    /\ store.search \in asked
    /\ \A r \in Matching(store.search) :
         \/ store.items[r].version >= promised[r]
         \/ store.items[r] = NoRow /\ (r \in deleted \/ Full(store.items))

\* A login that fails does not keep the user out for ever: the guard lets the page
\* through in the end.
GuardOpens == route = "guard" ~> route = "page"

=============================================================================
