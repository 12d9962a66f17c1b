-------------------------- MODULE Workbench_proofs --------------------------
(* Theorems about Workbench, for every set of rows, every kind of page and   *)
(* every role, and for any number of calls under way.                        *)
EXTENDS Workbench, TLAPS

-----------------------------------------------------------------------------
(* The status graphs and the order in which the workbench offers statuses.   *)

LEMMA GraphClosed ==
  ASSUME NEW k \in Kinds, NEW s \in DOMAIN Graph[k], NEW t \in Graph[k][s]
  PROVE  t \in DOMAIN Graph[k]
  <1>1. CASE k = "CaptureUnit"
    BY <1>1 DEF Graph, CaptureUnitTransitions
  <1>2. CASE k = "PermitRule"
    BY <1>2 DEF Graph, PermitRuleTransitions
  <1>3. CASE k = "EmissionSample"
    BY <1>3 DEF Graph, EmissionSampleTransitions
  <1>4. CASE k = "ComplianceDecision"
    BY <1>4 DEF Graph, ComplianceDecisionTransitions
  <1> QED
    BY <1>1, <1>2, <1>3, <1>4 DEF Kinds

StatusNames ==
  {"standby", "running", "limited", "stopped", "draft", "active", "superseded", "retired",
   "collected", "testing", "verified", "invalid", "review", "accepted", "escalated", "none"}

LEMMA NamesOfKind ==
  ASSUME NEW k \in Kinds
  PROVE  DOMAIN Graph[k] \subseteq StatusNames \ {"none"} /\ StatusList[k][1] \in DOMAIN Graph[k]
  <1>1. CASE k = "CaptureUnit"
    BY <1>1 DEF Graph, CaptureUnitTransitions, StatusList, StatusNames
  <1>2. CASE k = "PermitRule"
    BY <1>2 DEF Graph, PermitRuleTransitions, StatusList, StatusNames
  <1>3. CASE k = "EmissionSample"
    BY <1>3 DEF Graph, EmissionSampleTransitions, StatusList, StatusNames
  <1>4. CASE k = "ComplianceDecision"
    BY <1>4 DEF Graph, ComplianceDecisionTransitions, StatusList, StatusNames
  <1> QED
    BY <1>1, <1>2, <1>3, <1>4 DEF Kinds

\* The status offered after another is one the server's graph allows.
LEMMA OfferedNext ==
  ASSUME kind \in Kinds, NEW s, NEW t \in NextStatus(s)
  PROVE  s \in DOMAIN Graph[kind] /\ t \in Graph[kind][s]
  <1>1. PICK list : list = StatusList[kind]
    OBVIOUS
  <1>2. PICK i \in 1 .. Len(list) - 1 : list[i] = s /\ t = list[i + 1]
    BY <1>1 DEF NextStatus
  <1>3. Len(list) = 4
    BY <1>1 DEF StatusList, Kinds
  <1>4. i = 1 \/ i = 2 \/ i = 3
    BY <1>2, <1>3
  <1>5. CASE kind = "CaptureUnit"
    BY <1>1, <1>2, <1>4, <1>5 DEF Graph, CaptureUnitTransitions, StatusList
  <1>6. CASE kind = "PermitRule"
    BY <1>1, <1>2, <1>4, <1>6 DEF Graph, PermitRuleTransitions, StatusList
  <1>7. CASE kind = "EmissionSample"
    BY <1>1, <1>2, <1>4, <1>7 DEF Graph, EmissionSampleTransitions, StatusList
  <1>8. CASE kind = "ComplianceDecision"
    BY <1>1, <1>2, <1>4, <1>8 DEF Graph, ComplianceDecisionTransitions, StatusList
  <1> QED
    BY <1>5, <1>6, <1>7, <1>8 DEF Kinds

-----------------------------------------------------------------------------
(* Types, of every field.                                                    *)

RowData == [version : Nat, status : StatusNames]

Dialogs == [row : Rows \cup {"none"}, item : RowData, target : StatusNames]

Answers == {"none", "ok", "failed", "insufficient_role", "business_rule", "version_conflict",
            "not_found"}

StoreData == [items : [Rows -> RowData], search : Searches, loading : BOOLEAN, error : Answers]

PageData == [open : BOOLEAN, create : BOOLEAN, pending : Dialogs]

Ops == {"none", "load", "move", "create"}

CallData ==
  [op : Ops, goal : Ops, mine : BOOLEAN, token : {"none", "valid", "expired"}, search : Searches, move : Dialogs,
   answer : Answers, items : [Rows -> RowData], version : Nat]

Shapes ==
  /\ SessionTypeOK
  /\ kind \in Kinds
  /\ rows \in [Rows -> RowData]
  /\ store \in StoreData
  /\ page \in PageData
  /\ calls \in [Calls -> CallData]
  /\ asks \in 0 .. MaxAsks /\ asked \subseteq Searches /\ promised \in [Rows -> Nat]
  /\ acked \in [Rows -> Nat]

LEMMA NothingShapes ==
  NoRow \in RowData /\ NoDialog \in Dialogs /\ NoPage \in PageData /\ FreshPage \in PageData
  BY DEF NoRow, Row, RowData, NoDialog, Dialogs, NoPage, FreshPage, PageData, StatusNames

LEMMA NoCallShape == NoCall \in CallData /\ NoCall.op = "none" /\ NoCall.mine = FALSE /\ NoCall.answer = "none"
  BY NothingShapes DEF NoCall, CallData, Ops, Answers, Searches

\* A load, a move and a create are calls and say so.
LEMMA LoadShape ==
  ASSUME Shapes, NEW goal \in Ops, NEW search \in Searches, NEW mine \in BOOLEAN
  PROVE  /\ LoadCall(goal, search, mine) \in CallData
         /\ LoadCall(goal, search, mine).op = "load"
         /\ LoadCall(goal, search, mine).answer = "none"
         /\ LoadCall(goal, search, mine).search = search
         /\ LoadCall(goal, search, mine).items = [r \in Rows |-> NoRow]
  <1>1. token \in {"none", "valid", "expired"}
    BY DEF Shapes, SessionTypeOK
  <1>2. PICK base \in CallData : base = NoCall
    BY NoCallShape
  <1>3. base.answer = "none" /\ base.items = [r \in Rows |-> NoRow]
    BY <1>2 DEF NoCall
  <1>4. PICK start : start = [base EXCEPT !.op = "load", !.goal = goal, !.mine = mine]
    OBVIOUS
  <1>5. start \in CallData /\ start.op = "load" /\ start.answer = "none" /\ start.items = base.items
    <2>1. start \in CallData
      BY <1>4 DEF CallData, Ops
    <2>2. start.op = "load" /\ start.answer = base.answer /\ start.items = base.items
      BY <1>4 DEF CallData
    <2> QED
      BY <1>3, <2>1, <2>2
  <1>6. LoadCall(goal, search, mine) = [start EXCEPT !.token = token, !.search = search]
    BY <1>2, <1>4 DEF LoadCall
  <1> QED
    BY <1>1, <1>3, <1>5, <1>6 DEF CallData

LEMMA CallShapes ==
  ASSUME Shapes
  PROVE  /\ \A goal \in Ops, search \in Searches, mine \in BOOLEAN :
              /\ LoadCall(goal, search, mine) \in CallData
              /\ LoadCall(goal, search, mine).op = "load"
              /\ LoadCall(goal, search, mine).answer = "none"
              /\ LoadCall(goal, search, mine).search = search
              /\ LoadCall(goal, search, mine).items = [r \in Rows |-> NoRow]
         /\ \A d \in Dialogs : /\ MoveCall(d) \in CallData /\ MoveCall(d).op = "move"
                               /\ MoveCall(d).move = d /\ MoveCall(d).answer = "none"
                               /\ MoveCall(d).items = [r \in Rows |-> NoRow]
         /\ CreateCall \in CallData /\ CreateCall.op = "create" /\ CreateCall.answer = "none"
         /\ CreateCall.items = [r \in Rows |-> NoRow]
  <1>1. token \in {"none", "valid", "expired"}
    BY DEF Shapes, SessionTypeOK
  <1>2. PICK base \in CallData : base = NoCall
    BY NoCallShape
  <1>3. base.answer = "none" /\ base.items = [r \in Rows |-> NoRow]
    BY <1>2 DEF NoCall
  <1>4. ASSUME NEW goal \in Ops, NEW search \in Searches, NEW mine \in BOOLEAN
        PROVE  /\ LoadCall(goal, search, mine) \in CallData
               /\ LoadCall(goal, search, mine).op = "load"
               /\ LoadCall(goal, search, mine).answer = "none"
               /\ LoadCall(goal, search, mine).search = search
               /\ LoadCall(goal, search, mine).items = [r \in Rows |-> NoRow]
    BY LoadShape
  <1>5. ASSUME NEW d \in Dialogs
        PROVE  /\ MoveCall(d) \in CallData /\ MoveCall(d).op = "move"
               /\ MoveCall(d).move = d /\ MoveCall(d).answer = "none"
               /\ MoveCall(d).items = [r \in Rows |-> NoRow]
    BY <1>1, <1>2, <1>3 DEF MoveCall, CallData, Ops
  <1>6. CreateCall \in CallData /\ CreateCall.op = "create" /\ CreateCall.answer = "none"
         /\ CreateCall.items = [r \in Rows |-> NoRow]
    BY <1>1, <1>2, <1>3 DEF CreateCall, CallData, Ops
  <1> QED
    BY <1>4, <1>5, <1>6

\* What the parts of Shapes have in common with the steps that leave them alone.
TabShapes == SessionTypeOK /\ kind \in Kinds /\ rows \in [Rows -> RowData] /\ acked \in [Rows -> Nat]

ClientShapes ==
  /\ store \in StoreData /\ page \in PageData /\ calls \in [Calls -> CallData]
  /\ asks \in 0 .. MaxAsks /\ asked \subseteq Searches /\ promised \in [Rows -> Nat]

LEMMA ShapesInParts ==
  ASSUME TabShapes', ClientShapes'
  PROVE  Shapes'
  BY DEF Shapes, TabShapes, ClientShapes

LEMMA TabKept ==
  ASSUME Shapes, UNCHANGED <<session, kind, rows, acked>>
  PROVE  TabShapes'
  BY DEF Shapes, TabShapes, session, SessionTypeOK

LEMMA AskShapes ==
  ASSUME Shapes, Ask
  PROVE  asks' \in 0 .. MaxAsks
  BY AsksAssumption DEF Shapes, Ask

LEMMA SessionShapes ==
  ASSUME SessionTypeOK,
         \/ Authenticate \/ Login \/ LoginFails \/ LoginDone \/ LoginFailed \/ GuardPasses
         \/ Logout \/ Expire
         \/ route' = "guard" /\ UNCHANGED <<role, token, login, waiting, outages>>
  PROVE  SessionTypeOK' /\ role' = role
  <1>1. CASE Authenticate \/ Login \/ LoginDone \/ LoginFailed
    BY <1>1 DEF SessionTypeOK, Authenticate, StartLogin, Login, LoginDone, LoginFailed
  <1>2. CASE LoginFails
    BY <1>2, OutagesAssumption DEF SessionTypeOK, LoginFails
  <1>3. CASE GuardPasses \/ Expire
    BY <1>3 DEF SessionTypeOK, GuardPasses, Expire
  <1>4. CASE Logout
    BY <1>4 DEF SessionTypeOK, Logout, StartLogin
  <1>5. CASE route' = "guard" /\ UNCHANGED <<role, token, login, waiting, outages>>
    BY <1>5 DEF SessionTypeOK
  <1> QED
    BY <1>1, <1>2, <1>3, <1>4, <1>5

\* The steps by which a call is started.
Starting(c) == Open(c) \/ Query(c) \/ ConfirmTransition(c) \/ CreateDemo(c)

LEMMA AskingShapes ==
  ASSUME Shapes, NEW search \in Searches, Asking(search)
  PROVE  asked' \subseteq Searches /\ promised' \in [Rows -> Nat]
  BY DEF Shapes, Asking

LEMMA AskingLaterShapes ==
  ASSUME Shapes, AskingLater
  PROVE  asked' \subseteq Searches /\ promised' \in [Rows -> Nat]
  BY DEF Shapes, AskingLater

LEMMA StartingSteps ==
  ASSUME Shapes, NEW c \in Calls, Starting(c)
  PROVE  /\ UNCHANGED <<session, kind, rows, deleted, acked>>
         /\ asks' \in 0 .. MaxAsks
         /\ asked' \subseteq Searches /\ promised' \in [Rows -> Nat]
         /\ store'.loading = TRUE /\ store'.items = store.items /\ store' \in StoreData
         /\ page'.pending = page.pending \/ page' = FreshPage
         /\ page' \in PageData
         /\ ~Busy(c)
         /\ \/ \E search \in Searches : /\ calls' = [calls EXCEPT ![c] = LoadCall("load", search, TRUE)]
                                        /\ Asking(search)
            \/ /\ calls' = [calls EXCEPT ![c] = MoveCall(page.pending)]
               /\ page.pending # NoDialog /\ AskingLater
            \/ calls' = [calls EXCEPT ![c] = CreateCall] /\ AskingLater
  <1>1. ASSUME NEW search \in Searches, NEW goal, StartLoad(c, goal, search)
        PROVE  /\ UNCHANGED <<session, kind, rows, deleted, acked>>
               /\ store'.loading = TRUE /\ store'.items = store.items /\ store' \in StoreData
               /\ calls' = [calls EXCEPT ![c] = LoadCall(goal, search, TRUE)]
               /\ Asking(search) /\ ~Busy(c)
    BY <1>1 DEF StartLoad, Start, Shapes, StoreData, Answers, table
  <1>2. CASE Open(c)
    <2>1. StartLoad(c, "load", "all") /\ page' = FreshPage /\ UNCHANGED asks /\ "all" \in Searches
      BY <1>2 DEF Open, Searches
    <2> QED
      BY <1>1, <2>1, NothingShapes, AskingShapes DEF Shapes
  <1>3. CASE Query(c)
    <2>1. Ask /\ UNCHANGED page
      BY <1>3 DEF Query
    <2>2. PICK search \in Searches : StartLoad(c, "load", search)
      BY <1>3 DEF Query
    <2> QED
      BY <1>1, <2>1, <2>2, AskShapes, AskingShapes DEF Shapes
  <1>4. ASSUME NEW k, Start(c, k), store' = [store EXCEPT !.loading = TRUE], AskingLater,
               UNCHANGED page, Ask
        PROVE  /\ UNCHANGED <<session, kind, rows, deleted, acked>>
               /\ store'.loading = TRUE /\ store'.items = store.items /\ store' \in StoreData
               /\ calls' = [calls EXCEPT ![c] = k] /\ ~Busy(c)
               /\ asks' \in 0 .. MaxAsks /\ page' = page /\ page' \in PageData
               /\ asked' \subseteq Searches /\ promised' \in [Rows -> Nat]
    BY <1>4, AskShapes, AskingLaterShapes DEF Start, Shapes, StoreData, table
  <1>5. CASE ConfirmTransition(c)
    <2>1. /\ Start(c, MoveCall(page.pending)) /\ store' = [store EXCEPT !.loading = TRUE]
          /\ AskingLater /\ UNCHANGED page /\ Ask /\ page.pending # NoDialog
      BY <1>5 DEF ConfirmTransition, ConfirmedMove
    <2> QED
      BY <1>4, <2>1
  <1>6. CASE CreateDemo(c)
    <2>1. /\ Start(c, CreateCall) /\ store' = [store EXCEPT !.loading = TRUE]
          /\ AskingLater /\ UNCHANGED page /\ Ask
      BY <1>6 DEF CreateDemo
    <2> QED
      BY <1>4, <2>1
  <1> QED
    BY <1>2, <1>3, <1>5, <1>6 DEF Starting

LEMMA StartingShapes ==
  ASSUME Shapes, NEW c \in Calls, Starting(c)
  PROVE  Shapes'
  <1>1. PICK k \in CallData : calls' = [calls EXCEPT ![c] = k]
    <2>1. "load" \in Ops /\ TRUE \in BOOLEAN /\ page.pending \in Dialogs
      BY DEF Ops, Shapes, PageData
    <2>2. \A search \in Searches : LoadCall("load", search, TRUE) \in CallData
      BY <2>1, CallShapes
    <2>3. MoveCall(page.pending) \in CallData /\ CreateCall \in CallData
      BY <2>1, CallShapes
    <2> QED
      BY <2>2, <2>3, StartingSteps
  <1>2. calls' \in [Calls -> CallData]
    BY <1>1 DEF Shapes
  <1>3. ClientShapes'
    BY <1>2, StartingSteps DEF ClientShapes
  <1> QED
    BY <1>3, StartingSteps, TabKept, ShapesInParts

-----------------------------------------------------------------------------
(* Copies. A row is copied into an answer, from there into the store, from   *)
(* there into a dialog and from there into a call; meanwhile it may change,  *)
(* and every change gives it the next version.                               *)

\* A copy is as old as its version says.
CopyOK(copy, r) ==
  /\ copy.version <= rows[r].version
  /\ copy.version = rows[r].version => copy = rows[r]

\* What a dialog offers: a move the graph and the role allow, judged by its copy.
Offered(d) ==
  /\ d.row \in Rows /\ CopyOK(d.item, d.row)
  /\ d.item.status \in DOMAIN Graph[kind] /\ d.target \in Graph[kind][d.item.status]
  /\ Writer
  /\ Final(d.target) => HasMinimumRole(role, "reviewer")

RowsOK ==
  \A r \in Rows : rows[r] = NoRow \/ (rows[r].version > 0 /\ rows[r].status \in DOMAIN Graph[kind])

Copies ==
  /\ RowsOK
  /\ \A r \in Rows : CopyOK(store.items[r], r)
  /\ page.pending # NoDialog => Offered(page.pending)
  /\ \A c \in Calls : calls[c].op = "move" => Offered(calls[c].move)
  /\ \A c \in Calls, r \in Rows : CopyOK(calls[c].items[r], r)
  /\ MovesWelcome

\* Every row stays or gets its next version.
RowsGrow == \A r \in Rows : rows'[r] = rows[r] \/ rows'[r].version = rows[r].version + 1

LEMMA CopyStays ==
  ASSUME Shapes, RowsGrow, NEW r \in Rows, NEW copy \in RowData, CopyOK(copy, r)
  PROVE  copy.version <= rows'[r].version /\ (copy.version = rows'[r].version => copy = rows'[r])
  BY DEF Shapes, RowsGrow, CopyOK, RowData

LEMMA OfferStays ==
  ASSUME Shapes, RowsGrow, UNCHANGED <<kind, role>>, NEW d \in Dialogs, Offered(d)
  PROVE  Offered(d)'
  <1>1. d.row \in Rows /\ d.item \in RowData /\ CopyOK(d.item, d.row)
    BY DEF Offered, Dialogs
  <1>2. d.item.version <= rows'[d.row].version /\ (d.item.version = rows'[d.row].version => d.item = rows'[d.row])
    BY <1>1, CopyStays
  <1> QED
    BY <1>2 DEF Offered, CopyOK, Writer, Final

LEMMA NoRowCopy ==
  ASSUME Shapes, RowsOK, NEW r \in Rows
  PROVE  CopyOK(NoRow, r)
  BY DEF Shapes, RowsOK, CopyOK, RowData, NoRow, Row

\* What the server makes of a call: the row it stores, if any, and the answer.
Answered(c, k) ==
  /\ calls' = [calls EXCEPT ![c] = k] /\ k \in CallData
  /\ calls[c].answer = "none" /\ k.answer # "none" /\ Busy(c)
  /\ k.op = calls[c].op /\ k.search = calls[c].search
  /\ k.op = "move" => k.move = calls[c].move
  /\ UNCHANGED <<session, kind, deleted, store, page, asks, asked, promised, acked>>

LEMMA RefusedAnswer ==
  ASSUME Shapes, NEW c \in Calls, Refuse(c)
  PROVE  \E k : /\ Answered(c, k) /\ k.answer = "failed" /\ k.items = calls[c].items /\ rows' = rows
  <1>1. PICK k : k = [calls[c] EXCEPT !.answer = "failed"]
    OBVIOUS
  <1>2. calls[c] \in CallData
    BY DEF Shapes
  <1>3. /\ k \in CallData /\ k.answer = "failed" /\ k.items = calls[c].items /\ k.op = calls[c].op
        /\ k.search = calls[c].search /\ k.move = calls[c].move
    BY <1>1, <1>2 DEF CallData, Answers
  <1>4. calls' = [calls EXCEPT ![c] = k]
    BY <1>1 DEF Refuse, Answer
  <1> QED
    BY <1>3, <1>4 DEF Refuse, Answered, table

LEMMA ListAnswer ==
  ASSUME Shapes, NEW c \in Calls, List(c)
  PROVE  \E k : /\ Answered(c, k) /\ k.answer = "ok" /\ k.op = "load" /\ rows' = rows
                /\ \E top \in FirstPages(calls[c].search) :
                     \A r \in Rows : k.items[r] = IF r \in top THEN rows[r] ELSE NoRow
  <1>0. PICK top \in FirstPages(calls[c].search) :
          calls' = [calls EXCEPT ![c].answer = "ok",
                                 ![c].items = [r \in Rows |-> IF r \in top THEN rows[r] ELSE NoRow]]
    BY DEF List
  <1>1. PICK listed : listed = [r \in Rows |-> IF r \in top THEN rows[r] ELSE NoRow]
    OBVIOUS
  <1>2. PICK k : k = [calls[c] EXCEPT !.answer = "ok", !.items = listed]
    OBVIOUS
  <1>3. calls[c] \in CallData /\ calls[c].op = "load" /\ calls[c].answer = "none"
    BY DEF Shapes, List, Waits
  <1>4. listed \in [Rows -> RowData]
    BY <1>1, NothingShapes DEF Shapes
  <1>5. /\ k \in CallData /\ k.answer = "ok" /\ k.items = listed /\ k.op = "load"
        /\ k.search = calls[c].search
    BY <1>2, <1>3, <1>4 DEF CallData, Answers
  <1>6. calls' = [calls EXCEPT ![c] = k]
    BY <1>0, <1>1, <1>2
  <1>7. Busy(c)
    BY <1>3, NoCallShape DEF Busy
  <1> QED
    <2>1. UNCHANGED <<session, kind, rows, deleted, store, page, asks, asked, promised, acked>>
      BY DEF List, table
    <2>2. Answered(c, k)
      BY <1>3, <1>5, <1>6, <1>7, <2>1 DEF Answered
    <2>3. \A r \in Rows : k.items[r] = IF r \in top THEN rows[r] ELSE NoRow
      BY <1>1, <1>5
    <2>4. rows' = rows
      BY DEF List, table
    <2> QED
      BY <1>5, <2>2, <2>3, <2>4

LEMMA MoveRefusedAnswer ==
  ASSUME Shapes, Copies, NEW c \in Calls, MoveRefused(c)
  PROVE  \E k : /\ Answered(c, k) /\ k.items = calls[c].items /\ rows' = rows /\ k.op = "move"
                /\ k.answer # "ok"
                /\ k.answer \in {"insufficient_role", "business_rule"} => ~(Writer /\ Allowed(calls[c].move))
  <1>1. PICK answer \in {"insufficient_role", "business_rule", "version_conflict", "not_found"} :
          /\ calls' = [calls EXCEPT ![c].answer = answer]
          /\ answer \in {"insufficient_role", "business_rule"} => ~(Writer /\ Allowed(calls[c].move))
    BY DEF MoveRefused, Answer
  <1>2. PICK k : k = [calls[c] EXCEPT !.answer = answer]
    OBVIOUS
  <1>3. calls[c] \in CallData /\ calls[c].op = "move" /\ calls[c].answer = "none"
    BY DEF Shapes, MoveRefused, Waits
  <1>4. /\ k \in CallData /\ k.answer = answer /\ k.items = calls[c].items /\ k.op = "move"
        /\ k.search = calls[c].search /\ k.move = calls[c].move
    BY <1>2, <1>3 DEF CallData, Answers
  <1>5. calls' = [calls EXCEPT ![c] = k]
    BY <1>1, <1>2
  <1>6. Busy(c)
    BY <1>3, NoCallShape DEF Busy
  <1> QED
    BY <1>1, <1>3, <1>4, <1>5, <1>6 DEF MoveRefused, Answered, table

\* A change that is made: r gets its next version, and the answer names it.
LEMMA ChangedAnswer ==
  ASSUME Shapes, NEW c \in Calls, NEW r \in Rows, NEW row \in RowData, Changed(c, r, row),
         calls[c].op \in {"move", "create"}, calls[c].answer = "none",
         calls[c].op = "move" => r = calls[c].move.row
  PROVE  \E k : /\ Answered(c, k) /\ k.items = calls[c].items
                /\ k.answer \in {"ok", "failed"}
                /\ k.version = row.version /\ k.move.row = r /\ rows' = [rows EXCEPT ![r] = row]
  <1>1. PICK answer \in {"ok", "failed"} :
          calls' = [calls EXCEPT ![c].answer = answer, ![c].version = row.version, ![c].move.row = r]
    BY DEF Changed
  <1>2. calls[c] \in CallData
    BY DEF Shapes
  <1>3. PICK moved : moved = [calls[c].move EXCEPT !.row = r]
    OBVIOUS
  <1>4. moved \in Dialogs /\ moved.row = r /\ (calls[c].op = "move" => moved = calls[c].move)
    BY <1>2, <1>3 DEF CallData, Dialogs
  <1>5. PICK k : k = [calls[c] EXCEPT !.answer = answer, !.version = row.version, !.move = moved]
    OBVIOUS
  <1>6. /\ k \in CallData /\ k.answer = answer /\ k.items = calls[c].items /\ k.op = calls[c].op
        /\ k.search = calls[c].search /\ k.move = moved /\ k.version = row.version
    BY <1>2, <1>4, <1>5 DEF CallData, Answers, RowData
  <1>7. calls' = [calls EXCEPT ![c] = k]
    BY <1>1, <1>3, <1>5 DEF Shapes
  <1>8. Busy(c)
    BY NoCallShape DEF Busy
  <1> QED
    BY <1>4, <1>6, <1>7, <1>8 DEF Changed, Answered

\* Row r gets its next version.
Stores(r, row) ==
  /\ row \in RowData /\ row.version = rows[r].version + 1 /\ row.status \in DOMAIN Graph[kind]
  /\ rows' = [rows EXCEPT ![r] = row]

LEMMA StoresGrow ==
  ASSUME Shapes, RowsOK, UNCHANGED kind, NEW r \in Rows, NEW row, Stores(r, row)
  PROVE  RowsGrow /\ RowsOK' /\ rows' \in [Rows -> RowData]
  <1>1. rows \in [Rows -> RowData]
    BY DEF Shapes
  <1>2. \A q \in Rows : rows[q].version \in Nat
    BY <1>1 DEF RowData
  <1>3. \A q \in Rows : rows'[q] = IF q = r THEN row ELSE rows[q]
    BY <1>1 DEF Stores
  <1>4. row.version > 0
    BY <1>2 DEF Stores
  <1>5. RowsOK'
    BY <1>3, <1>4 DEF Stores, RowsOK, NoRow, Row
  <1> QED
    BY <1>1, <1>3, <1>5 DEF RowsGrow, Stores

LEMMA MoveAnswer ==
  ASSUME Shapes, Copies, NEW c \in Calls, Move(c)
  PROVE  \E k : /\ Answered(c, k) /\ k.items = calls[c].items /\ k.op = "move"
                /\ k.answer \in {"ok", "failed"} /\ k.move.row \in Rows
                /\ \E row : Stores(k.move.row, row) /\ k.version = row.version
  <1>1. PICK m : m = calls[c].move
    OBVIOUS
  <1>2. calls[c] \in CallData /\ calls[c].op = "move" /\ calls[c].answer = "none"
    BY DEF Shapes, Move, Waits
  <1>3. Offered(m) /\ m \in Dialogs
    BY <1>1, <1>2 DEF Copies, CallData
  <1>4. m.row \in Rows /\ m.target \in DOMAIN Graph[kind] /\ m.target \in StatusNames
    BY <1>3, GraphClosed DEF Offered, Shapes, Dialogs
  <1>5. PICK row : row = Row(rows[m.row].version + 1, m.target)
    OBVIOUS
  <1>6. row \in RowData /\ row.version = rows[m.row].version + 1 /\ row.status = m.target
    BY <1>4, <1>5 DEF Row, RowData, Shapes
  <1>7. Changed(c, m.row, row)
    BY <1>1, <1>5 DEF Move
  <1>8. PICK k : /\ Answered(c, k) /\ k.items = calls[c].items /\ k.answer \in {"ok", "failed"}
                 /\ k.version = row.version /\ k.move.row = m.row
                 /\ rows' = [rows EXCEPT ![m.row] = row]
    BY <1>1, <1>2, <1>4, <1>6, <1>7, ChangedAnswer
  <1>9. Stores(m.row, row)
    BY <1>4, <1>6, <1>8 DEF Stores
  <1> QED
    BY <1>2, <1>4, <1>8, <1>9 DEF Answered

LEMMA CreateAnswer ==
  ASSUME Shapes, Copies, NEW c \in Calls, Create(c)
  PROVE  \E k : /\ Answered(c, k) /\ k.items = calls[c].items /\ k.op = "create"
                /\ k.answer \in {"ok", "failed"} /\ k.move.row \in Rows
                /\ \E row : Stores(k.move.row, row) /\ k.version = row.version
  <1>1. calls[c].op = "create" /\ calls[c].answer = "none"
    BY DEF Create, Waits
  <1>2. PICK row : row = Row(1, FirstStatus)
    OBVIOUS
  <1>3. PICK r \in Rows : rows[r] = NoRow /\ Changed(c, r, row)
    BY <1>2 DEF Create
  <1>4. FirstStatus \in DOMAIN Graph[kind] /\ FirstStatus \in StatusNames
    BY NamesOfKind DEF FirstStatus, Shapes
  <1>5. row \in RowData /\ row.version = rows[r].version + 1 /\ row.status = FirstStatus
    BY <1>2, <1>3, <1>4 DEF Row, RowData, NoRow
  <1>6. PICK k : /\ Answered(c, k) /\ k.items = calls[c].items /\ k.answer \in {"ok", "failed"}
                 /\ k.version = row.version /\ k.move.row = r
                 /\ rows' = [rows EXCEPT ![r] = row]
    BY <1>1, <1>3, <1>5, ChangedAnswer
  <1>7. Stores(r, row)
    BY <1>4, <1>5, <1>6 DEF Stores
  <1> QED
    BY <1>1, <1>3, <1>6, <1>7 DEF Answered

\* The three kinds of answer: no change, a list, a change.
Unchanging(c, k) ==
  /\ rows' = rows /\ k.items = calls[c].items /\ k.answer # "ok"
  /\ k.op = "move" /\ k.answer \in {"insufficient_role", "business_rule"} =>
       ~(Writer /\ Allowed(k.move))

Listing(c, k) ==
  /\ rows' = rows /\ k.op = "load" /\ k.answer = "ok"
  /\ \E top \in FirstPages(calls[c].search) :
       \A r \in Rows : k.items[r] = IF r \in top THEN rows[r] ELSE NoRow

Changing(c, k) ==
  /\ k.items = calls[c].items /\ k.op \in {"move", "create"} /\ k.answer \in {"ok", "failed"}
  /\ k.move.row \in Rows
  /\ \E row : Stores(k.move.row, row) /\ k.version = row.version

LEMMA ServeAnswer ==
  ASSUME Shapes, Copies, NEW c \in Calls, Serve(c)
  PROVE  \E k : Answered(c, k) /\ (Unchanging(c, k) \/ Listing(c, k) \/ Changing(c, k))
  <1>1. CASE Refuse(c)
    BY <1>1, RefusedAnswer DEF Unchanging
  <1>2. CASE List(c)
    BY <1>2, ListAnswer DEF Listing
  <1>3. CASE MoveRefused(c)
    <2>1. PICK k : /\ Answered(c, k) /\ k.items = calls[c].items /\ rows' = rows /\ k.op = "move"
                   /\ k.answer # "ok"
                   /\ k.answer \in {"insufficient_role", "business_rule"} =>
                        ~(Writer /\ Allowed(calls[c].move))
      BY <1>3, MoveRefusedAnswer
    <2>2. k.move = calls[c].move
      BY <2>1 DEF Answered
    <2> QED
      BY <2>1, <2>2 DEF Unchanging
  <1>4. CASE Move(c)
    BY <1>4, MoveAnswer DEF Changing
  <1>5. CASE Create(c)
    BY <1>5, CreateAnswer DEF Changing
  <1> QED
    BY <1>1, <1>2, <1>3, <1>4, <1>5 DEF Serve

LEMMA AnsweredShapes ==
  ASSUME Shapes, RowsOK, NEW c \in Calls, NEW k, Answered(c, k),
         Unchanging(c, k) \/ Listing(c, k) \/ Changing(c, k)
  PROVE  Shapes' /\ RowsGrow /\ RowsOK'
  <1>1. RowsGrow /\ RowsOK' /\ rows' \in [Rows -> RowData]
    <2>1. CASE rows' = rows
      BY <2>1 DEF RowsGrow, RowsOK, Shapes, Answered
    <2>2. CASE Changing(c, k)
      BY <2>2, StoresGrow DEF Changing, Answered
    <2> QED
      BY <2>1, <2>2 DEF Unchanging, Listing
  <1>2. TabShapes'
    BY <1>1 DEF Answered, TabShapes, Shapes, session, SessionTypeOK
  <1>3. ClientShapes'
    BY DEF Answered, ClientShapes, Shapes
  <1> QED
    BY <1>1, <1>2, <1>3, ShapesInParts

\* The guard of a move agrees with the rules of the server while the copy is current.
LEMMA OfferAllowed ==
  ASSUME Shapes, NEW d \in Dialogs, Offered(d), ~(Writer /\ Allowed(d))
  PROVE  rows[d.row].version > d.item.version
  <1>1. d.row \in Rows /\ CopyOK(d.item, d.row)
    BY DEF Offered
  <1>2. rows[d.row].version \in Nat /\ d.item.version \in Nat
    BY <1>1 DEF Shapes, RowData, Dialogs
  <1>3. ASSUME rows[d.row] = d.item PROVE FALSE
    <2>1. CanTransition(Graph[kind], rows[d.row].status, d.target)
      BY <1>3 DEF Offered, CanTransition
    <2>2. Writer /\ (Final(d.target) => HasMinimumRole(role, "reviewer"))
      BY DEF Offered
    <2> QED
      BY <2>1, <2>2 DEF Allowed
  <1> QED
    BY <1>1, <1>2, <1>3 DEF CopyOK

LEMMA AnsweredCopies ==
  ASSUME Shapes, Copies, NEW c \in Calls, NEW k, Answered(c, k),
         Unchanging(c, k) \/ Listing(c, k) \/ Changing(c, k)
  PROVE  Copies'
  <1>1. Shapes' /\ RowsGrow /\ RowsOK'
    BY AnsweredShapes DEF Copies
  <1>2. UNCHANGED <<store, page, kind, role>> /\ kind \in Kinds
    BY DEF Answered, session, Shapes
  <1>3. ASSUME NEW d \in Calls
        PROVE  calls'[d] = IF d = c THEN k ELSE calls[d]
    BY DEF Answered, Shapes
  <1>4. \A r \in Rows : CopyOK(store.items[r], r)'
    BY <1>1, <1>2, CopyStays DEF Copies, Shapes, StoreData, CopyOK
  <1>5. (page.pending # NoDialog => Offered(page.pending))'
    BY <1>1, <1>2, OfferStays DEF Copies, Shapes, PageData
  <1>6. ASSUME NEW d \in Calls, calls'[d].op = "move" PROVE Offered(calls[d].move) /\ calls'[d].move = calls[d].move
    BY <1>3, <1>6 DEF Copies, Answered
  <1>7. ASSUME NEW d \in Calls, calls'[d].op = "move" PROVE Offered(calls[d].move)'
    <2>1. PICK m : m = calls[d].move
      OBVIOUS
    <2>2. m \in Dialogs
      BY <2>1 DEF Shapes, CallData
    <2>3. Offered(m)'
      BY <1>1, <1>2, <1>6, <1>7, <2>1, <2>2, OfferStays
    <2> QED
      BY <1>6, <1>7, <2>1, <2>3
  <1>8. ASSUME NEW d \in Calls, NEW r \in Rows PROVE CopyOK(calls[d].items[r], r)'
    <2>1. PICK copy : copy = calls'[d].items[r]
      OBVIOUS
    <2>2. copy \in RowData
      BY <1>1, <2>1 DEF Shapes, CallData
    <2>3. CopyOK(copy, r)
      <3>1. CASE Listing(c, k) /\ d = c
        <4>1. copy = rows[r] \/ copy = NoRow
          BY <1>3, <2>1, <3>1 DEF Listing
        <4>2. CopyOK(rows[r], r)
          BY DEF CopyOK, Shapes, RowData
        <4> QED
          BY <4>1, <4>2, NoRowCopy DEF Copies
      <3>2. CASE ~(Listing(c, k) /\ d = c)
        <4>1. copy = calls[d].items[r]
          BY <1>3, <2>1, <3>2 DEF Unchanging, Changing
        <4> QED
          BY <4>1 DEF Copies
      <3> QED
        BY <3>1, <3>2
    <2>4. copy.version <= rows'[r].version /\ (copy.version = rows'[r].version => copy = rows'[r])
      BY <1>1, <2>2, <2>3, CopyStays
    <2> QED
      BY <2>1, <2>4 DEF CopyOK
  <1>9. MovesWelcome'
    <2> SUFFICES ASSUME NEW d \in Calls, calls'[d].op = "move",
                        calls'[d].answer \in {"insufficient_role", "business_rule"}
                 PROVE  rows'[calls'[d].move.row].version > calls'[d].move.item.version
      BY DEF MovesWelcome
    <2>1. PICK m : m = calls[d].move
      OBVIOUS
    <2>2. m \in Dialogs /\ Offered(m) /\ calls'[d].move = m
      BY <1>6, <2>1 DEF Shapes, CallData
    <2>3. m.row \in Rows /\ m.item.version \in Nat
      BY <2>2 DEF Offered, Dialogs, RowData
    <2>4. rows[m.row].version > m.item.version
      <3>1. CASE d = c
        <4>1. k.answer \in {"insufficient_role", "business_rule"} /\ k.op = "move" /\ k.move = m
          BY <1>3, <2>2, <3>1
        <4>2. ~(Writer /\ Allowed(m))
          BY <4>1 DEF Unchanging, Listing, Changing
        <4> QED
          BY <2>2, <4>2, OfferAllowed
      <3>2. CASE d # c
        BY <1>3, <2>1, <3>2 DEF Copies, MovesWelcome
      <3> QED
        BY <3>1, <3>2
    <2>5. rows[m.row].version \in Nat /\ rows'[m.row].version \in Nat
      BY <1>1, <2>3 DEF Shapes, RowData
    <2> QED
      BY <1>1, <2>2, <2>3, <2>4, <2>5 DEF RowsGrow
  <1> QED
    BY <1>1, <1>4, <1>5, <1>7, <1>8, <1>9 DEF Copies

-----------------------------------------------------------------------------
(* The other steps. What matters of most of them is that rows stay, and that *)
(* the store, the dialog and the calls hold copies that somebody held.       *)

\* A call of this step: one that was there, none, a new load or create, or the move
\* the dialog offers.
Plain(k) == k \in CallData /\ k.op # "move" /\ k.items = [r \in Rows |-> NoRow]

Reshuffled ==
  /\ UNCHANGED <<rows, kind, role>>
  /\ store'.items = store.items \/ \E c \in Calls : store'.items = calls[c].items
  /\ \/ page'.pending = page.pending \/ page'.pending = NoDialog
     \/ Offered(page'.pending)
  /\ \A c \in Calls :
       \/ /\ calls'[c].op = calls[c].op /\ calls'[c].move = calls[c].move
          /\ calls'[c].items = calls[c].items /\ calls'[c].answer = calls[c].answer
       \/ Plain(calls'[c])
       \/ /\ calls'[c].op = "move" /\ calls'[c].move = page.pending /\ page.pending # NoDialog
          /\ calls'[c].items = [r \in Rows |-> NoRow] /\ calls'[c].answer = "none"

LEMMA ReshuffledCopies ==
  ASSUME Shapes, Shapes', Copies, Reshuffled
  PROVE  Copies'
  <1>1. UNCHANGED <<rows, kind, role>>
    BY DEF Reshuffled
  <1>2. \A copy, r : CopyOK(copy, r) => (copy.version <= rows'[r].version
                                         /\ (copy.version = rows'[r].version => copy = rows'[r]))
    BY <1>1 DEF CopyOK
  <1>3. ASSUME NEW d \in Dialogs, Offered(d) PROVE Offered(d)'
    BY <1>1, <1>3, OfferStays DEF RowsGrow
  <1>4. RowsOK'
    BY <1>1 DEF Copies, RowsOK
  <1>5. ASSUME NEW r \in Rows PROVE CopyOK(store.items[r], r)'
    <2>1. CopyOK(store'.items[r], r)
      BY DEF Reshuffled, Copies
    <2> QED
      BY <1>1, <2>1 DEF CopyOK
  <1>6. (page.pending # NoDialog => Offered(page.pending))'
    <2>1. PICK d \in Dialogs : d = page'.pending
      BY DEF Shapes, PageData
    <2>2. d # NoDialog => Offered(d)
      BY <2>1 DEF Reshuffled, Copies
    <2>3. d # NoDialog => Offered(d)'
      BY <1>3, <2>2
    <2> QED
      BY <2>1, <2>3
  <1>7. ASSUME NEW c \in Calls, calls'[c].op = "move" PROVE Offered(calls[c].move)'
    <2>1. PICK d \in Dialogs : d = calls'[c].move
      BY DEF Shapes, CallData
    <2>2. Offered(d)
      BY <1>7, <2>1 DEF Reshuffled, Copies, Plain
    <2>3. Offered(d)'
      BY <1>3, <2>2
    <2> QED
      BY <2>1, <2>3
  <1>8. ASSUME NEW c \in Calls, NEW r \in Rows PROVE CopyOK(calls[c].items[r], r)'
    <2>1. calls'[c].items = calls[c].items \/ calls'[c].items[r] = NoRow
      BY DEF Reshuffled, Plain
    <2>2. CopyOK(calls'[c].items[r], r)
      BY <2>1, NoRowCopy DEF Copies
    <2> QED
      BY <1>1, <2>2 DEF CopyOK
  <1>9. MovesWelcome'
    <2> SUFFICES ASSUME NEW c \in Calls, calls'[c].op = "move",
                        calls'[c].answer \in {"insufficient_role", "business_rule"}
                 PROVE  rows'[calls'[c].move.row].version > calls'[c].move.item.version
      BY DEF MovesWelcome
    <2>1. /\ calls[c].op = "move" /\ calls'[c].move = calls[c].move
          /\ calls'[c].answer = calls[c].answer
      BY DEF Reshuffled, Plain
    <2> QED
      BY <1>1, <2>1 DEF Copies, MovesWelcome
  <1> QED
    BY <1>4, <1>5, <1>6, <1>7, <1>8, <1>9 DEF Copies

LEMMA StartingCopies ==
  ASSUME Shapes, Copies, NEW c \in Calls, Starting(c)
  PROVE  Copies'
  <1>1. Shapes'
    BY StartingShapes
  <1>2. "load" \in Ops /\ TRUE \in BOOLEAN /\ page.pending \in Dialogs
    BY DEF Ops, Shapes, PageData
  <1>3. PICK k : /\ calls' = [calls EXCEPT ![c] = k]
                 /\ \/ Plain(k)
                    \/ /\ k.op = "move" /\ k.move = page.pending /\ page.pending # NoDialog
                       /\ k.items = [r \in Rows |-> NoRow] /\ k.answer = "none"
    <2>1. ASSUME NEW search \in Searches PROVE Plain(LoadCall("load", search, TRUE))
      <3>1. PICK goal \in Ops, mine \in BOOLEAN : goal = "load" /\ mine = TRUE
        BY <1>2
      <3>2. PICK l : l = LoadCall(goal, search, mine)
        OBVIOUS
      <3>3. l \in CallData /\ l.op = "load" /\ l.items = [r \in Rows |-> NoRow]
        BY <3>2, LoadShape
      <3>4. Plain(l)
        BY <3>3 DEF Plain
      <3> QED
        BY <3>1, <3>2, <3>4
    <2>2. /\ MoveCall(page.pending).op = "move" /\ MoveCall(page.pending).move = page.pending
          /\ MoveCall(page.pending).items = [r \in Rows |-> NoRow]
          /\ MoveCall(page.pending).answer = "none"
      BY <1>2, CallShapes
    <2>3. Plain(CreateCall)
      BY CallShapes DEF Plain
    <2> QED
      BY <2>1, <2>2, <2>3, StartingSteps
  <1>4. \A d \in Calls : calls'[d] = IF d = c THEN k ELSE calls[d]
    BY <1>3 DEF Shapes
  <1>5. page'.pending = page.pending \/ page'.pending = NoDialog
    BY StartingSteps DEF FreshPage, NoPage
  <1>6. store'.items = store.items /\ UNCHANGED <<rows, kind, role>>
    BY StartingSteps DEF session
  <1>7. Reshuffled
    BY <1>3, <1>4, <1>5, <1>6 DEF Reshuffled
  <1> QED
    BY <1>1, <1>7, ReshuffledCopies

LEMMA ReceiveSteps ==
  ASSUME Shapes, NEW c \in Calls, Receive(c)
  PROVE  /\ UNCHANGED <<session, kind, rows, deleted, asks>>
         /\ store' \in StoreData /\ page' \in PageData
         /\ asked' \subseteq Searches /\ promised' \in [Rows -> Nat]
         /\ acked' \in [Rows -> Nat]
         /\ page'.pending = page.pending \/ page'.pending = NoDialog
         /\ page'.open = page.open
         /\ store'.items = store.items \/ store'.items = calls[c].items
         /\ \E k : Plain(k) /\ calls' = [calls EXCEPT ![c] = k]
  <1>1. calls[c] \in CallData /\ store \in StoreData /\ page \in PageData
    BY DEF Shapes
  <1>2. Plain(NoCall)
    BY NoCallShape DEF Plain, NoCall
  <1>3. ASSUME Concluded(c)
        PROVE  /\ page' \in PageData /\ page'.open = page.open
               /\ page'.pending = page.pending \/ page'.pending = NoDialog
    BY <1>1, <1>3, NothingShapes DEF Concluded, PageData
  <1>4. CASE ReceiveLoad(c)
    <2>1. store' \in StoreData /\ (store'.items = store.items \/ store'.items = calls[c].items)
      <3>1. CASE calls[c].answer = "ok"
        <4>1. store' = [items |-> calls[c].items, search |-> calls[c].search,
                        loading |-> FALSE, error |-> "none"]
          BY <1>4, <3>1 DEF ReceiveLoad
        <4> QED
          BY <1>1, <4>1 DEF StoreData, CallData, Answers
      <3>2. CASE calls[c].answer # "ok"
        <4>1. store' = [store EXCEPT !.loading = FALSE, !.error = calls[c].answer]
          BY <1>4, <3>2 DEF ReceiveLoad
        <4> QED
          BY <1>1, <4>1 DEF StoreData, CallData
      <3> QED
        BY <3>1, <3>2
    <2>2. /\ UNCHANGED <<session, kind, rows, deleted, asks, asked, promised, acked>> /\ Concluded(c)
          /\ calls' = [calls EXCEPT ![c] = NoCall]
      BY <1>4 DEF ReceiveLoad, table
    <2> QED
      BY <1>2, <1>3, <2>1, <2>2 DEF Shapes
  <1>5. CASE ReceiveChange(c)
    <2>1. /\ UNCHANGED <<session, kind, rows, deleted, page, asks>> /\ asked' = asked \cup {"all"}
          /\ promised' = IF asked = {} THEN acked' ELSE promised
          /\ calls' = [calls EXCEPT ![c] = LoadCall(calls[c].goal, "all", calls[c].mine)]
          /\ store' = [store EXCEPT !.loading = TRUE, !.error = "none"]
          /\ acked' = [acked EXCEPT ![calls[c].move.row] = IF calls[c].version > @ THEN calls[c].version ELSE @]
      BY <1>5 DEF ReceiveChange, Stored, table
    <2>2. calls[c].goal \in Ops /\ calls[c].mine \in BOOLEAN /\ "all" \in Searches
      BY <1>1 DEF CallData, Searches
    <2>3. Plain(LoadCall(calls[c].goal, "all", calls[c].mine))
      BY <2>2, CallShapes DEF Plain
    <2>4. store' \in StoreData /\ store'.items = store.items
      BY <1>1, <2>1 DEF StoreData, Answers
    <2>5. acked' \in [Rows -> Nat]
      BY <1>1, <2>1 DEF CallData, Shapes
    <2>6. promised' \in [Rows -> Nat] /\ asked' \subseteq Searches
      BY <2>1, <2>5 DEF Shapes, Searches
    <2> QED
      BY <1>1, <2>1, <2>2, <2>3, <2>4, <2>5, <2>6
  <1>6. CASE ReceiveError(c)
    <2>1. /\ UNCHANGED <<session, kind, rows, deleted, page, asks, asked, promised, acked>>
          /\ calls' = [calls EXCEPT ![c] = NoCall]
          /\ store' = [store EXCEPT !.loading = FALSE, !.error = calls[c].answer]
      BY <1>6 DEF ReceiveError, table
    <2>2. store' \in StoreData /\ store'.items = store.items
      BY <1>1, <2>1 DEF StoreData, CallData
    <2> QED
      BY <1>1, <1>2, <2>1, <2>2 DEF Shapes
  <1> QED
    BY <1>4, <1>5, <1>6 DEF Receive

LEMMA ReceiveKeeps ==
  ASSUME Shapes, Copies, NEW c \in Calls, Receive(c)
  PROVE  Shapes' /\ Copies'
  <1>1. PICK k : Plain(k) /\ calls' = [calls EXCEPT ![c] = k]
    BY ReceiveSteps
  <1>2. calls' \in [Calls -> CallData] /\ \A d \in Calls : calls'[d] = IF d = c THEN k ELSE calls[d]
    BY <1>1 DEF Plain, Shapes
  <1>3. TabShapes'
    BY ReceiveSteps DEF TabShapes, Shapes, session, SessionTypeOK
  <1>4. ClientShapes'
    BY <1>2, ReceiveSteps DEF ClientShapes, Shapes
  <1>5. Reshuffled
    BY <1>1, <1>2, ReceiveSteps DEF Reshuffled, session
  <1> QED
    BY <1>3, <1>4, <1>5, ShapesInParts, ReshuffledCopies

\* Dialogs open and close.
Paging ==
  \/ \E r \in Rows : OpenTransition(r)
  \/ CloseTransition \/ OpenCreate \/ CloseCreate

LEMMA PagingSteps ==
  ASSUME Shapes, Copies, Paging
  PROVE  /\ UNCHANGED <<session, kind, rows, deleted, store, calls, asks, asked, promised, acked>>
         /\ page' \in PageData /\ page'.open = page.open
         /\ page'.pending = page.pending \/ page'.pending = NoDialog \/ Offered(page'.pending)
  <1>1. page \in PageData /\ store \in StoreData
    BY DEF Shapes
  <1>2. ASSUME NEW r \in Rows, OpenTransition(r)
        PROVE  page' \in PageData /\ page'.open = page.open /\ Offered(page'.pending)
    <2>1. PICK item : item = store.items[r]
      OBVIOUS
    <2>2. item \in RowData /\ CopyOK(item, r)
      BY <1>1, <2>1 DEF StoreData, Copies
    <2>3. PICK target \in NextStatus(item.status) :
            /\ CanTransitionTo(target)
            /\ page' = [page EXCEPT !.pending = [row |-> r, item |-> item, target |-> target]]
      BY <1>2, <2>1 DEF OpenTransition
    <2>4. item.status \in DOMAIN Graph[kind] /\ target \in Graph[kind][item.status]
      BY <2>3, OfferedNext DEF Shapes
    <2>5. target \in StatusNames
      BY <2>4, GraphClosed, NamesOfKind DEF Shapes
    <2>6. PICK d : d = [row |-> r, item |-> item, target |-> target]
      OBVIOUS
    <2>7. d \in Dialogs /\ d.row = r /\ d.item = item /\ d.target = target
      BY <2>2, <2>5, <2>6 DEF Dialogs
    <2>8. Offered(d)
      BY <2>2, <2>3, <2>4, <2>7 DEF Offered, CanTransitionTo, HasRole, Writer
    <2>9. page' \in PageData /\ page'.open = page.open /\ page'.pending = d
      BY <1>1, <2>3, <2>6, <2>7 DEF PageData
    <2> QED
      BY <2>8, <2>9
  <1>3. CASE CloseTransition
    BY <1>1, <1>3, NothingShapes DEF CloseTransition, PageData, table
  <1>4. CASE OpenCreate \/ CloseCreate
    BY <1>1, <1>4 DEF OpenCreate, CloseCreate, PageData, table
  <1> QED
    BY <1>2, <1>3, <1>4 DEF Paging, OpenTransition, CloseTransition, OpenCreate, CloseCreate, table

LEMMA PagingKeeps ==
  ASSUME Shapes, Copies, Paging
  PROVE  Shapes' /\ Copies'
  <1>1. UNCHANGED <<session, kind, rows, deleted, store, calls, asks, asked, promised, acked>>
    BY PagingSteps
  <1>2. ClientShapes'
    BY <1>1, PagingSteps DEF ClientShapes, Shapes
  <1>3. Reshuffled
    BY <1>1, PagingSteps DEF Reshuffled, session
  <1> QED
    BY <1>1, <1>2, <1>3, TabKept, ShapesInParts, ReshuffledCopies

\* The page goes.
LEMMA LeavingSteps ==
  ASSUME Shapes, Leave \/ Relogin
  PROVE  /\ Destroyed /\ SessionTypeOK' /\ role' = role /\ asks' \in 0 .. MaxAsks
         /\ page' = NoPage /\ page'.pending = NoDialog /\ page'.open = FALSE
         /\ calls' \in [Calls -> CallData]
         /\ \A c \in Calls : /\ calls'[c].op = calls[c].op /\ calls'[c].move = calls[c].move
                             /\ calls'[c].items = calls[c].items
                             /\ calls'[c].answer = calls[c].answer
                             /\ calls'[c].search = calls[c].search
                             /\ calls'[c].version = calls[c].version
  <1>1. Destroyed /\ Ask
    BY DEF Leave, Relogin
  <1>2. SessionTypeOK' /\ role' = role
    BY SessionShapes DEF Leave, Relogin, Shapes
  <1>3. ASSUME NEW k \in CallData
        PROVE  LET gone == [k EXCEPT !.mine = FALSE] IN
               /\ gone \in CallData /\ gone.op = k.op /\ gone.move = k.move /\ gone.items = k.items
               /\ gone.answer = k.answer /\ gone.search = k.search /\ gone.version = k.version
    BY DEF CallData
  <1>4. calls' = [c \in Calls |-> [calls[c] EXCEPT !.mine = FALSE]] /\ page' = NoPage
    BY <1>1 DEF Destroyed
  <1> QED
    BY <1>1, <1>2, <1>3, <1>4, AskShapes DEF Shapes, NoPage

LEMMA LeavingKeeps ==
  ASSUME Shapes, Copies, Leave \/ Relogin
  PROVE  Shapes' /\ Copies'
  <1>1. UNCHANGED <<kind, rows, store, asked, promised, acked>>
    BY LeavingSteps DEF Destroyed, table
  <1>2. TabShapes' /\ ClientShapes'
    BY <1>1, LeavingSteps, NothingShapes DEF TabShapes, ClientShapes, Shapes
  <1>3. Reshuffled
    BY <1>1, LeavingSteps DEF Reshuffled
  <1> QED
    BY <1>2, <1>3, ShapesInParts, ReshuffledCopies

SessionStep ==
  /\ \/ Authenticate \/ Login \/ LoginFails \/ LoginDone \/ LoginFailed \/ GuardPasses
     \/ IdleExpire
  /\ UNCHANGED wbVars

LEMMA SessionKeeps ==
  ASSUME Shapes, Copies, SessionStep \/ UNCHANGED vars
  PROVE  Shapes' /\ Copies'
  <1>1. SessionTypeOK' /\ role' = role
    BY SessionShapes DEF SessionStep, IdleExpire, Shapes, SessionTypeOK, vars, session
  <1>2. UNCHANGED wbVars
    BY DEF SessionStep, vars
  <1>3. TabShapes' /\ ClientShapes'
    BY <1>1, <1>2 DEF wbVars, table, TabShapes, ClientShapes, Shapes
  <1>4. Reshuffled
    BY <1>1, <1>2 DEF wbVars, table, Reshuffled
  <1> QED
    BY <1>3, <1>4, ShapesInParts, ReshuffledCopies

LEMMA OthersStore ==
  ASSUME Shapes, Copies, NEW r \in Rows, Others(r)
  PROVE  /\ (\E row : Stores(r, row)) \/ rows' = rows
         /\ deleted \subseteq deleted'
         /\ UNCHANGED <<session, kind, store, page, calls, asks, asked, promised, acked>>
  <1>1. UNCHANGED <<session, kind, store, page, calls, asks, asked, promised, acked>>
    BY DEF Others
  <1>2. CASE OthersChange(r)
    <2>1. rows[r].version > 0 /\ rows[r].version \in Nat /\ rows[r].status \in DOMAIN Graph[kind]
      BY <1>2 DEF OthersChange, Live, Shapes, RowData, Copies, RowsOK
    <2>2. PICK s \in {rows[r].status} \cup Graph[kind][rows[r].status] :
            rows' = [rows EXCEPT ![r] = Row(rows[r].version + 1, s)]
      BY <1>2 DEF OthersChange
    <2>3. s \in DOMAIN Graph[kind] /\ s \in StatusNames
      BY <2>1, <2>2, GraphClosed, NamesOfKind DEF Shapes
    <2>4. Stores(r, Row(rows[r].version + 1, s))
      BY <2>1, <2>2, <2>3 DEF Stores, Row, RowData
    <2> QED
      BY <1>1, <1>2, <2>4 DEF OthersChange
  <1>3. CASE OthersCreate(r)
    <2>1. rows[r].version = 0 /\ rows' = [rows EXCEPT ![r] = Row(1, FirstStatus)]
      BY <1>3 DEF OthersCreate, NoRow, Row
    <2>2. FirstStatus \in DOMAIN Graph[kind] /\ FirstStatus \in StatusNames
      BY NamesOfKind DEF FirstStatus, Shapes
    <2>3. Stores(r, Row(1, FirstStatus))
      BY <2>1, <2>2 DEF Stores, Row, RowData
    <2> QED
      BY <1>1, <1>3, <2>3 DEF OthersCreate
  <1>4. CASE OthersDelete(r)
    BY <1>1, <1>4 DEF OthersDelete
  <1> QED
    BY <1>2, <1>3, <1>4 DEF Others

LEMMA OthersKeeps ==
  ASSUME Shapes, Copies, NEW r \in Rows, Others(r)
  PROVE  Shapes' /\ Copies' /\ RowsGrow
  <1>1. UNCHANGED <<session, kind, store, page, calls, asks, asked, promised, acked>>
    BY OthersStore
  <1>2. RowsGrow /\ RowsOK' /\ rows' \in [Rows -> RowData]
    <2>1. CASE rows' = rows
      BY <1>1, <2>1 DEF RowsGrow, RowsOK, Copies, Shapes
    <2>2. ASSUME NEW row, Stores(r, row) PROVE RowsGrow /\ RowsOK' /\ rows' \in [Rows -> RowData]
      BY <1>1, <2>2, StoresGrow DEF Copies
    <2> QED
      BY <2>1, <2>2, OthersStore
  <1>3. TabShapes' /\ ClientShapes'
    BY <1>1, <1>2 DEF TabShapes, ClientShapes, Shapes, session, SessionTypeOK
  <1>4. UNCHANGED <<kind, role>>
    BY <1>1 DEF session
  <1>5. \A q \in Rows : CopyOK(store.items[q], q)'
    BY <1>1, <1>2, CopyStays DEF Copies, Shapes, StoreData, CopyOK
  <1>6. (page.pending # NoDialog => Offered(page.pending))'
    BY <1>1, <1>2, <1>4, OfferStays DEF Copies, Shapes, PageData
  <1>7. ASSUME NEW c \in Calls, calls[c].op = "move" PROVE Offered(calls[c].move)'
    <2>1. PICK d \in Dialogs : d = calls[c].move
      BY DEF Shapes, CallData
    <2>2. Offered(d)'
      BY <1>2, <1>4, <1>7, <2>1, OfferStays DEF Copies
    <2> QED
      BY <1>1, <2>1, <2>2
  <1>8. ASSUME NEW c \in Calls, NEW q \in Rows PROVE CopyOK(calls[c].items[q], q)'
    <2>1. PICK copy \in RowData : copy = calls[c].items[q]
      BY DEF Shapes, CallData
    <2>2. copy.version <= rows'[q].version /\ (copy.version = rows'[q].version => copy = rows'[q])
      BY <1>2, <2>1, CopyStays DEF Copies
    <2> QED
      BY <1>1, <2>1, <2>2 DEF CopyOK
  <1>9. MovesWelcome'
    <2> SUFFICES ASSUME NEW c \in Calls, calls[c].op = "move",
                        calls[c].answer \in {"insufficient_role", "business_rule"}
                 PROVE  rows'[calls[c].move.row].version > calls[c].move.item.version
      BY <1>1 DEF MovesWelcome
    <2>1. PICK m \in Dialogs : m = calls[c].move
      BY DEF Shapes, CallData
    <2>2. m.row \in Rows /\ m.item.version \in Nat /\ rows[m.row].version > m.item.version
      BY <2>1 DEF Copies, Offered, MovesWelcome, Dialogs, RowData
    <2>3. rows[m.row].version \in Nat /\ rows'[m.row].version \in Nat
      BY <1>2, <2>2 DEF Shapes, RowData
    <2> QED
      BY <1>2, <2>1, <2>2, <2>3 DEF RowsGrow
  <1> QED
    BY <1>1, <1>2, <1>3, <1>5, <1>6, <1>7, <1>8, <1>9, ShapesInParts DEF Copies

LEMMA ServeKeeps ==
  ASSUME Shapes, Copies, NEW c \in Calls, Serve(c)
  PROVE  Shapes' /\ Copies'
  BY ServeAnswer, AnsweredShapes, AnsweredCopies DEF Copies

\* The kinds of steps.
LEMMA Steps ==
  ASSUME [Next]_vars
  PROVE  \/ \E c \in Calls : Starting(c) \/ Serve(c) \/ Receive(c)
         \/ Paging \/ Leave \/ Relogin
         \/ \E r \in Rows : Others(r)
         \/ SessionStep \/ UNCHANGED vars
  BY DEF Next, Starting, Paging, SessionStep, Finished

LEMMA NextCopies == Shapes /\ Copies /\ [Next]_vars => Shapes' /\ Copies'
  <1> SUFFICES ASSUME Shapes, Copies, [Next]_vars PROVE Shapes' /\ Copies'
    OBVIOUS
  <1> QED
    BY Steps, StartingShapes, StartingCopies, ServeKeeps, ReceiveKeeps, PagingKeeps, LeavingKeeps,
       OthersKeeps, SessionKeeps

LEMMA InitCopies == Init => Shapes /\ Copies
  <1> SUFFICES ASSUME Init PROVE Shapes /\ Copies
    OBVIOUS
  <1>1. PICK s \in Starts :
          /\ kind = s.kind /\ role = s.role
          /\ rows = [r \in Rows |-> IF r \in Found THEN Row(1, s.status) ELSE NoRow]
    BY DEF Init
  <1>2. kind \in Kinds /\ s.status \in DOMAIN Graph[kind] /\ s.status \in StatusNames
    BY <1>1, StartsAssumption, NamesOfKind
  <1>3. rows \in [Rows -> RowData] /\ RowsOK
    BY <1>1, <1>2, NothingShapes DEF Row, RowData, RowsOK
  <1>4. SessionTypeOK
    BY OutagesAssumption DEF Init, InitSession, SessionTypeOK
  <1>5. store = [items |-> [r \in Rows |-> NoRow], search |-> "all", loading |-> FALSE, error |-> "none"]
    BY DEF Init
  <1>6. store \in StoreData /\ store.items = [r \in Rows |-> NoRow]
    BY <1>5, NothingShapes DEF StoreData, Searches, Answers
  <1>7. calls = [c \in Calls |-> NoCall] /\ calls \in [Calls -> CallData]
    BY NoCallShape DEF Init
  <1>8. Shapes
    <2>1. asks \in 0 .. MaxAsks /\ asked \subseteq Searches
      BY AsksAssumption DEF Init
    <2>2. page \in PageData /\ acked \in [Rows -> Nat] /\ promised \in [Rows -> Nat]
      BY NothingShapes DEF Init
    <2> QED
      BY <1>2, <1>3, <1>4, <1>6, <1>7, <2>1, <2>2 DEF Shapes
  <1>9. page.pending = NoDialog
    BY DEF Init, NoPage
  <1>10. \A c \in Calls : calls[c].op = "none" /\ calls[c].items = [r \in Rows |-> NoRow]
    BY <1>7 DEF NoCall
  <1>11. \A r \in Rows : CopyOK(NoRow, r)
    BY <1>3, <1>8, NoRowCopy
  <1> QED
    BY <1>3, <1>6, <1>8, <1>9, <1>10, <1>11 DEF Copies, MovesWelcome


LEMMA CopiesCorrect == Spec => [](Shapes /\ Copies)
  BY InitCopies, NextCopies, PTL DEF Spec

\* The buttons agree with the server's rules, for every kind of page, every role and any
\* number of overlapping calls: a move the page offered is refused for the role or the
\* status graph only if the row has changed since it was shown.
THEOREM MovesWelcomeCorrect == Spec => []MovesWelcome
  <1>1. Shapes /\ Copies => MovesWelcome
    BY DEF Copies
  <1> QED
    BY <1>1, CopiesCorrect, PTL

\* What the user confirmed is what is done. The version in the dialog says as of when its
\* copy is, so that a move the server makes starts from the very status the user saw.
THEOREM ConfirmedMoveCorrect == Spec => ConfirmedMoveExact
  <1>1. ASSUME Shapes, Copies, [Next]_vars, NEW c \in Calls, calls[c].op = "move",
               calls'[c].answer # calls[c].answer, rows' # rows
        PROVE  /\ rows[calls[c].move.row].status = calls[c].move.item.status
               /\ rows'[calls[c].move.row].status = calls[c].move.target
    <2>1. ASSUME NEW d \in Calls, Serve(d)
          PROVE  d = c /\ Move(c)
      <3>1. Move(d) \/ Create(d)
        BY <1>1, <2>1 DEF Serve, Refuse, List, MoveRefused, table
      <3>2. PICK k : Answered(d, k)
        BY <1>1, <2>1, ServeAnswer
      <3>3. d = c
        BY <1>1, <3>2 DEF Answered, Shapes
      <3> QED
        BY <1>1, <3>1, <3>3 DEF Create, Waits
    <2>2. Move(c)
      <3>1. CASE \E d \in Calls : Starting(d) \/ Receive(d)
        BY <1>1, <3>1, StartingSteps, ReceiveSteps
      <3>2. CASE Paging \/ Leave \/ Relogin \/ SessionStep \/ UNCHANGED vars
        BY <1>1, <3>2, PagingSteps, LeavingSteps DEF SessionStep, vars, wbVars, Destroyed
      <3>3. CASE \E r \in Rows : Others(r)
        BY <1>1, <3>3, OthersStore
      <3> QED
        BY <1>1, <2>1, <3>1, <3>2, <3>3, Steps
    <2>3. PICK m \in Dialogs : m = calls[c].move
      BY <1>1 DEF Shapes, CallData
    <2>4. Offered(m)
      BY <1>1, <2>3 DEF Copies
    <2>5. rows[m.row].version = m.item.version
      BY <2>2, <2>3 DEF Move, VersionMatches
    <2>6. rows[m.row] = m.item /\ m.row \in Rows
      BY <2>4, <2>5 DEF Offered, CopyOK
    <2>7. rows' = [rows EXCEPT ![m.row] = Row(rows[m.row].version + 1, m.target)]
      BY <2>2, <2>3 DEF Move, Changed
    <2>8. rows'[m.row].status = m.target
      BY <1>1, <2>6, <2>7 DEF Shapes, Row
    <2> QED
      BY <2>3, <2>6, <2>8
  <1>2. Shapes /\ Copies /\ [Next]_vars =>
          [\A c \in Calls : calls[c].op = "move" /\ calls'[c].answer # calls[c].answer =>
             LET m == calls[c].move IN
               rows' # rows => /\ rows[m.row].status = m.item.status
                               /\ rows'[m.row].status = m.target]_vars
    BY <1>1
  <1> QED
    BY <1>2, CopiesCorrect, PTL DEF Spec, ConfirmedMoveExact

-----------------------------------------------------------------------------
(* Loading. Whatever ends a call also ends the loading, unless it goes on    *)
(* with another request.                                                     *)

\* A call that says what it is is under way.
Working == \A c \in Calls : Busy(c) <=> calls[c].op # "none"

LInv == Working /\ SpinnerHonest

\* A call replaced by one that says what it is, with the spinner on only if it is one.
LEMMA CallReplaced ==
  ASSUME Shapes, LInv, NEW c \in Calls, NEW k, calls' = [calls EXCEPT ![c] = k],
         \/ k.op # "none" /\ k # NoCall
         \/ k.op = "none" /\ k = NoCall /\ store'.loading = FALSE
  PROVE  LInv'
  <1>1. \A d \in Calls : calls'[d] = IF d = c THEN k ELSE calls[d]
    BY DEF Shapes
  <1>2. Working'
    BY <1>1 DEF LInv, Working, Busy
  <1>3. SpinnerHonest'
    BY <1>1 DEF LInv, SpinnerHonest, Idle, Busy
  <1> QED
    BY <1>2, <1>3 DEF LInv

LEMMA NextSpinner == Shapes /\ Copies /\ LInv /\ [Next]_vars => LInv'
  <1> SUFFICES ASSUME Shapes, Copies, LInv, [Next]_vars PROVE LInv'
    OBVIOUS
  <1>1. ASSUME NEW c \in Calls, Starting(c) PROVE LInv'
    <2>1. "load" \in Ops /\ TRUE \in BOOLEAN /\ page.pending \in Dialogs
      BY DEF Ops, Shapes, PageData
    <2>2. PICK k : calls' = [calls EXCEPT ![c] = k] /\ k.op # "none"
      <3>1. \A search \in Searches : LoadCall("load", search, TRUE).op = "load"
        BY <2>1, CallShapes
      <3>2. MoveCall(page.pending).op = "move" /\ CreateCall.op = "create"
        BY <2>1, CallShapes
      <3> QED
        BY <1>1, <3>1, <3>2, StartingSteps
    <2>3. k # NoCall
      BY <2>2, NoCallShape
    <2> QED
      BY <2>2, <2>3, CallReplaced
  <1>2. ASSUME NEW c \in Calls, Serve(c) PROVE LInv'
    <2>1. PICK k : Answered(c, k)
      BY <1>2, ServeAnswer
    <2>2. k.op # "none" /\ k # NoCall /\ store' = store
      BY <2>1, NoCallShape DEF Answered, LInv, Working
    <2> QED
      BY <2>1, <2>2, CallReplaced DEF Answered
  <1>3. ASSUME NEW c \in Calls, Receive(c) PROVE LInv'
    <2>1. store \in StoreData /\ calls[c] \in CallData
      BY DEF Shapes
    <2>2. CASE ReceiveLoad(c) \/ ReceiveError(c)
      <3>1. PICK k : k = NoCall /\ calls' = [calls EXCEPT ![c] = k]
        BY <2>2 DEF ReceiveLoad, ReceiveError
      <3>2. store'.loading = FALSE
        <4>1. \A error : [store EXCEPT !.loading = FALSE, !.error = error].loading = FALSE
          BY <2>1 DEF StoreData
        <4>2. \/ store'.loading = FALSE
              \/ \E error : store' = [store EXCEPT !.loading = FALSE, !.error = error]
          <5>1. PICK answer, shown : /\ answer = calls[c].answer
                                     /\ shown = [items |-> calls[c].items, search |-> calls[c].search,
                                                 loading |-> FALSE, error |-> "none"]
            OBVIOUS
          <5>2. shown.loading = FALSE
            BY <5>1
          <5>3. store' = shown \/ store' = [store EXCEPT !.loading = FALSE, !.error = answer]
            BY <2>2, <5>1 DEF ReceiveLoad, ReceiveError
          <5> QED
            BY <5>2, <5>3
        <4> QED
          BY <4>1, <4>2
      <3>3. k.op = "none"
        BY <3>1, NoCallShape
      <3> QED
        BY <3>1, <3>2, <3>3, CallReplaced
    <2>3. CASE ReceiveChange(c)
      <3>1. PICK k : calls' = [calls EXCEPT ![c] = k] /\ k = LoadCall(calls[c].goal, "all", calls[c].mine)
        BY <2>3 DEF ReceiveChange
      <3>2. k.op = "load"
        BY <2>1, <3>1, CallShapes DEF CallData, Searches
      <3>3. k # NoCall
        BY <3>2, NoCallShape
      <3> QED
        BY <3>1, <3>2, <3>3, CallReplaced
    <2> QED
      BY <1>3, <2>2, <2>3 DEF Receive
  <1>4. ASSUME Leave \/ Relogin PROVE LInv'
    <2>1. UNCHANGED store /\ calls' = [c \in Calls |-> [calls[c] EXCEPT !.mine = FALSE]]
      BY <1>4, LeavingSteps DEF Destroyed
    <2>2. ASSUME NEW c \in Calls PROVE (calls'[c] # NoCall) <=> calls'[c].op # "none"
      <3>1. CASE calls[c] = NoCall
        <4>1. calls'[c] = NoCall
          BY <2>1, <3>1, NoCallShape DEF CallData
        <4> QED
          BY <4>1, NoCallShape
      <3>2. CASE calls[c] # NoCall
        BY <1>4, <3>2, LeavingSteps, NoCallShape DEF LInv, Working, Busy
      <3> QED
        BY <3>1, <3>2
    <2>3. \A c \in Calls : calls'[c].op = calls[c].op
      BY <1>4, LeavingSteps
    <2> QED
      BY <2>1, <2>2, <2>3 DEF LInv, Working, SpinnerHonest, Idle, Busy
  <1>5. CASE UNCHANGED <<store, calls>>
    BY <1>5 DEF LInv, Working, SpinnerHonest, Idle, Busy
  <1> QED
    BY <1>1, <1>2, <1>3, <1>4, <1>5, Steps, PagingSteps, OthersStore DEF SessionStep, vars, wbVars

LEMMA InitSpinner == Init => LInv
  BY NoCallShape DEF Init, LInv, Working, SpinnerHonest, Busy

\* The spinner is not left on, however calls overlap, fail or lose their page.
THEOREM SpinnerCorrect == Spec => []SpinnerHonest
  <1>1. Init => Shapes /\ Copies /\ LInv
    BY InitCopies, InitSpinner
  <1>2. Shapes /\ Copies /\ LInv /\ [Next]_vars => Shapes' /\ Copies' /\ LInv'
    BY NextCopies, NextSpinner
  <1>3. LInv => SpinnerHonest
    BY DEF LInv
  <1> QED
    BY <1>1, <1>2, <1>3, PTL DEF Spec

\* Type correctness of the session, the store, the page and every call; what the store
\* shows has been in the table.
THEOREM TypeCorrect == Spec => []TypeOK
  <1>1. Init => Shapes /\ Copies /\ LInv
    BY InitCopies, InitSpinner
  <1>2. Shapes /\ Copies /\ LInv /\ [Next]_vars => Shapes' /\ Copies' /\ LInv'
    BY NextCopies, NextSpinner
  <1>3. Shapes /\ Copies /\ LInv => TypeOK
    <2> SUFFICES ASSUME Shapes, Copies, LInv PROVE TypeOK
      OBVIOUS
    <2>1. \A c \in Calls : Busy(c) => calls[c].op \in {"load", "move", "create"}
      BY DEF Shapes, CallData, Ops, LInv, Working
    <2> QED
      BY <2>1 DEF Shapes, StoreData, Copies, RowsOK, CopyOK, TypeOK
  <1> QED
    BY <1>1, <1>2, <1>3, PTL DEF Spec

-----------------------------------------------------------------------------
(* What a page at rest shows. A load shows what was stored when the server   *)
(* answered it, which is after it was sent; and among the loads whose answer *)
(* a page at rest can show, the first was sent when the promise was made.    *)

\* What the workbench knows it has stored is stored.
ChangesOK ==
  /\ \A r \in Rows : acked[r] <= rows[r].version
  /\ \A c \in Calls : calls[c].op \in {"move", "create"} /\ calls[c].answer = "ok" =>
       calls[c].move.row \in Rows /\ calls[c].version <= rows[calls[c].move.row].version

Promises == \A r \in Rows : promised[r] <= rows[r].version

RowShown(items, r) ==
  \/ items[r].version >= promised[r]
  \/ items[r] = NoRow /\ (r \in deleted \/ Full(items))

Covers(items, search) == \A r \in Matching(search) : RowShown(items, r)

LoadOK(c) ==
  calls[c].op = "load" =>
    calls[c].search \in asked /\ (calls[c].answer = "ok" => Covers(calls[c].items, calls[c].search))

Loads == \A c \in Calls : LoadOK(c)

QInv == LInv /\ ChangesOK /\ Promises /\ Loads /\ IdleShowsStored

LEMMA MatchingRows == ASSUME NEW search PROVE Matching(search) \subseteq Rows
  BY FoundAssumption DEF Matching

\* A call that starts is under way and has no answer.
LEMMA StartedCall ==
  ASSUME Shapes, NEW c \in Calls, Starting(c)
  PROVE  \E k : /\ calls' = [calls EXCEPT ![c] = k]
                /\ k # NoCall /\ k.op # "none" /\ k.answer = "none"
                /\ k.op = "load" => k.search \in asked'
  <1>1. "load" \in Ops /\ TRUE \in BOOLEAN /\ page.pending \in Dialogs
    BY DEF Ops, Shapes, PageData
  <1>2. ASSUME NEW search \in Searches, calls' = [calls EXCEPT ![c] = LoadCall("load", search, TRUE)],
               Asking(search)
        PROVE  \E k : /\ calls' = [calls EXCEPT ![c] = k] /\ k.op # "none" /\ k.answer = "none"
                      /\ k.op = "load" => k.search \in asked'
    <2>1. PICK k : k = LoadCall("load", search, TRUE)
      OBVIOUS
    <2>2. k.op = "load" /\ k.answer = "none" /\ k.search = search
      BY <1>1, <2>1, LoadShape
    <2> QED
      BY <1>2, <2>1, <2>2 DEF Asking
  <1>3. ASSUME calls' = [calls EXCEPT ![c] = MoveCall(page.pending)]
               \/ calls' = [calls EXCEPT ![c] = CreateCall]
        PROVE  \E k : /\ calls' = [calls EXCEPT ![c] = k] /\ k.op # "none" /\ k.answer = "none"
                      /\ k.op = "load" => k.search \in asked'
    <2>1. PICK k : /\ calls' = [calls EXCEPT ![c] = k]
                   /\ k = MoveCall(page.pending) \/ k = CreateCall
      BY <1>3
    <2>2. k.op \in {"move", "create"} /\ k.answer = "none"
      BY <1>1, <2>1, CallShapes
    <2> QED
      BY <2>1, <2>2
  <1>4. PICK k : /\ calls' = [calls EXCEPT ![c] = k] /\ k.op # "none" /\ k.answer = "none"
                 /\ k.op = "load" => k.search \in asked'
    BY <1>2, <1>3, StartingSteps
  <1>5. k # NoCall
    BY <1>4, NoCallShape
  <1> QED
    BY <1>4, <1>5

\* An answer ends its call, with what it loaded or with an error shown, or a change is
\* noted and followed by a load of everything.
Ended(c, k) ==
  /\ k = NoCall /\ UNCHANGED <<acked, asked, promised>>
  /\ \/ /\ calls[c].op = "load" /\ calls[c].answer = "ok"
        /\ store'.items = calls[c].items /\ store'.search = calls[c].search
     \/ store'.error # "none"

Continued(c, k) ==
  /\ k # NoCall /\ k.op = "load" /\ k.answer = "none" /\ k.search = "all"
  /\ asked' = asked \cup {"all"} /\ promised' = IF asked = {} THEN acked' ELSE promised
  /\ calls[c].op \in {"move", "create"} /\ calls[c].answer = "ok"
  /\ acked' = [acked EXCEPT ![calls[c].move.row] = IF calls[c].version > @ THEN calls[c].version ELSE @]

LEMMA ReceivedCall ==
  ASSUME Shapes, NEW c \in Calls, Receive(c)
  PROVE  \E k : calls' = [calls EXCEPT ![c] = k] /\ (Ended(c, k) \/ Continued(c, k))
  <1>1. calls[c] \in CallData /\ store \in StoreData
    BY DEF Shapes
  <1>2. ASSUME NEW error PROVE [store EXCEPT !.loading = FALSE, !.error = error].error = error
    BY <1>1 DEF StoreData
  <1>3. PICK answer : answer = calls[c].answer
    OBVIOUS
  <1>4. CASE ReceiveLoad(c) /\ answer = "ok"
    <2>1. PICK shown : shown = [items |-> calls[c].items, search |-> calls[c].search,
                                loading |-> FALSE, error |-> "none"]
      OBVIOUS
    <2>2. store' = shown /\ calls[c].op = "load" /\ UNCHANGED <<acked, asked, promised>>
      BY <1>3, <1>4, <2>1 DEF ReceiveLoad
    <2>3. shown.items = calls[c].items /\ shown.search = calls[c].search
      BY <2>1
    <2>4. Ended(c, NoCall)
      BY <1>3, <1>4, <2>2, <2>3 DEF Ended
    <2> QED
      BY <1>4, <2>4 DEF ReceiveLoad
  <1>5. CASE ReceiveError(c) \/ (ReceiveLoad(c) /\ answer # "ok")
    <2>1. /\ store' = [store EXCEPT !.loading = FALSE, !.error = answer] /\ answer # "none"
          /\ UNCHANGED <<acked, asked, promised>> /\ calls' = [calls EXCEPT ![c] = NoCall]
      BY <1>3, <1>5 DEF ReceiveError, ReceiveLoad
    <2>2. store'.error # "none"
      BY <1>2, <2>1
    <2>3. Ended(c, NoCall)
      BY <2>1, <2>2 DEF Ended
    <2> QED
      BY <2>1, <2>3
  <1>6. CASE ReceiveChange(c)
    <2>1. PICK k : k = LoadCall(calls[c].goal, "all", calls[c].mine)
      OBVIOUS
    <2>2. k.op = "load" /\ k.answer = "none" /\ k.search = "all"
      BY <1>1, <2>1, LoadShape DEF CallData, Searches
    <2>3. k # NoCall
      BY <2>2, NoCallShape
    <2>4. /\ calls' = [calls EXCEPT ![c] = k]
          /\ asked' = asked \cup {"all"} /\ promised' = IF asked = {} THEN acked' ELSE promised
          /\ calls[c].op \in {"move", "create"} /\ calls[c].answer = "ok"
          /\ acked' = [acked EXCEPT ![calls[c].move.row] = IF calls[c].version > @ THEN calls[c].version ELSE @]
      BY <1>6, <2>1 DEF ReceiveChange, Stored
    <2> QED
      BY <2>2, <2>3, <2>4 DEF Continued
  <1> QED
    BY <1>4, <1>5, <1>6 DEF Receive

LEMMA ChangesStay ==
  ASSUME Shapes, Shapes', ChangesOK, RowsGrow, UNCHANGED acked,
         \A c \in Calls : calls'[c].op \in {"move", "create"} /\ calls'[c].answer = "ok" =>
           \/ /\ calls[c].op = calls'[c].op /\ calls[c].answer = calls'[c].answer
              /\ calls[c].move = calls'[c].move /\ calls[c].version = calls'[c].version
           \/ /\ calls'[c].move.row \in Rows
              /\ calls'[c].version <= rows'[calls'[c].move.row].version
  PROVE  ChangesOK'
  <1>1. \A r \in Rows : /\ rows[r].version \in Nat /\ rows'[r].version \in Nat /\ acked[r] \in Nat
                        /\ rows[r].version <= rows'[r].version
    BY DEF Shapes, RowData, RowsGrow
  <1>2. \A r \in Rows : acked'[r] <= rows'[r].version
    BY <1>1 DEF ChangesOK
  <1>3. ASSUME NEW c \in Calls, calls'[c].op \in {"move", "create"}, calls'[c].answer = "ok"
        PROVE  calls'[c].move.row \in Rows /\ calls'[c].version <= rows'[calls'[c].move.row].version
    <2>1. PICK row, version : row = calls'[c].move.row /\ version = calls'[c].version
      OBVIOUS
    <2>2. version \in Nat
      BY <2>1 DEF Shapes, CallData
    <2>3. \/ row \in Rows /\ version <= rows[row].version
          \/ row \in Rows /\ version <= rows'[row].version
      BY <1>3, <2>1 DEF ChangesOK
    <2> QED
      BY <1>1, <2>1, <2>2, <2>3
  <1> QED
    BY <1>2, <1>3 DEF ChangesOK

LEMMA NextChanges ==
  ASSUME Shapes, Copies, Shapes', ChangesOK, [Next]_vars
  PROVE  ChangesOK'
  <1>1. ASSUME NEW c \in Calls, Starting(c) PROVE ChangesOK'
    <2>1. PICK k : calls' = [calls EXCEPT ![c] = k] /\ k.answer = "none"
      BY <1>1, StartedCall
    <2>2. \A d \in Calls : calls'[d] = IF d = c THEN k ELSE calls[d]
      BY <2>1 DEF Shapes
    <2>3. UNCHANGED <<rows, acked>>
      BY <1>1, StartingSteps
    <2> QED
      BY <2>1, <2>2, <2>3, ChangesStay DEF RowsGrow
  <1>2. ASSUME NEW c \in Calls, Serve(c) PROVE ChangesOK'
    <2>1. PICK k : Answered(c, k) /\ (Unchanging(c, k) \/ Listing(c, k) \/ Changing(c, k))
      BY <1>2, ServeAnswer
    <2>2. RowsGrow /\ UNCHANGED acked
      BY <2>1, AnsweredShapes DEF Copies, Answered
    <2>3. \A d \in Calls : calls'[d] = IF d = c THEN k ELSE calls[d]
      BY <2>1 DEF Shapes, Answered
    <2>4. ASSUME k.op \in {"move", "create"}, k.answer = "ok"
          PROVE  k.move.row \in Rows /\ k.version <= rows'[k.move.row].version
      <3>1. PICK row : k.move.row \in Rows /\ Stores(k.move.row, row) /\ k.version = row.version
        BY <2>1, <2>4 DEF Unchanging, Listing, Changing
      <3>2. rows'[k.move.row] = row /\ row.version \in Nat
        BY <3>1 DEF Stores, Shapes, RowData
      <3> QED
        BY <3>1, <3>2
    <2> QED
      BY <2>2, <2>3, <2>4, ChangesStay
  <1>3. ASSUME NEW c \in Calls, Receive(c) PROVE ChangesOK'
    <2>1. PICK k : calls' = [calls EXCEPT ![c] = k] /\ (Ended(c, k) \/ Continued(c, k))
      BY <1>3, ReceivedCall
    <2>2. \A d \in Calls : calls'[d] = IF d = c THEN k ELSE calls[d]
      BY <2>1 DEF Shapes
    <2>3. UNCHANGED rows
      BY <1>3, ReceiveSteps
    <2>4. CASE Ended(c, k)
      BY <2>2, <2>3, <2>4, NoCallShape, ChangesStay DEF Ended, RowsGrow
    <2>5. CASE Continued(c, k)
      <3>1. PICK row, version : row = calls[c].move.row /\ version = calls[c].version
        OBVIOUS
      <3>2. row \in Rows /\ version <= rows[row].version
        BY <2>5, <3>1 DEF Continued, ChangesOK
      <3>3. acked' = [acked EXCEPT ![row] = IF version > @ THEN version ELSE @]
        BY <2>5, <3>1 DEF Continued
      <3>4. \A r \in Rows : (acked'[r] = version /\ r = row) \/ acked'[r] = acked[r]
        BY <3>3 DEF Shapes
      <3>5. \A r \in Rows : acked'[r] <= rows'[r].version
        BY <2>3, <3>2, <3>4 DEF ChangesOK
      <3> QED
        BY <2>2, <2>3, <2>5, <3>5 DEF ChangesOK, Continued
    <2> QED
      BY <2>1, <2>4, <2>5
  <1>4. ASSUME Leave \/ Relogin PROVE ChangesOK'
    <2>1. UNCHANGED <<rows, acked>>
      BY <1>4, LeavingSteps DEF Destroyed, table
    <2> QED
      BY <1>4, <2>1, LeavingSteps, ChangesStay DEF RowsGrow
  <1>5. ASSUME NEW r \in Rows, Others(r) PROVE ChangesOK'
    BY <1>5, OthersStore, OthersKeeps, ChangesStay
  <1>6. CASE Paging \/ SessionStep \/ UNCHANGED vars
    <2>1. UNCHANGED <<rows, acked, calls>>
      BY <1>6, PagingSteps DEF SessionStep, vars, wbVars, table
    <2> QED
      BY <2>1, ChangesStay DEF RowsGrow
  <1> QED
    BY <1>1, <1>2, <1>3, <1>4, <1>5, <1>6, Steps

LEMMA NextPromises ==
  ASSUME Shapes, Copies, Shapes', ChangesOK, ChangesOK', Promises, [Next]_vars
  PROVE  Promises'
  <1>1. RowsGrow
    <2>1. ASSUME NEW c \in Calls, Serve(c) PROVE RowsGrow
      BY <2>1, ServeAnswer, AnsweredShapes DEF Copies
    <2>2. ASSUME NEW r \in Rows, Others(r) PROVE RowsGrow
      BY <2>2, OthersKeeps
    <2>3. ASSUME NEW c \in Calls, Starting(c) \/ Receive(c) PROVE RowsGrow
      BY <2>3, StartingSteps, ReceiveSteps DEF RowsGrow
    <2>4. CASE Paging \/ Leave \/ Relogin \/ SessionStep \/ UNCHANGED vars
      BY <2>4, PagingSteps, LeavingSteps DEF Destroyed, SessionStep, vars, wbVars, table, RowsGrow
    <2> QED
      BY <2>1, <2>2, <2>3, <2>4, Steps
  <1>2. promised' = promised \/ promised' = acked \/ promised' = acked'
    <2>1. ASSUME NEW c \in Calls, Starting(c) PROVE promised' = promised \/ promised' = acked
      BY <2>1, StartingSteps DEF Asking, AskingLater
    <2>2. ASSUME NEW c \in Calls, Receive(c) PROVE promised' = promised \/ promised' = acked'
      BY <2>2, ReceivedCall DEF Ended, Continued
    <2>3. ASSUME NEW c \in Calls, Serve(c) PROVE promised' = promised
      BY <2>3, ServeAnswer DEF Answered
    <2>4. CASE Paging \/ Leave \/ Relogin \/ SessionStep \/ UNCHANGED vars \/ \E r \in Rows : Others(r)
      BY <2>4, PagingSteps, LeavingSteps, OthersStore DEF Destroyed, SessionStep, vars, wbVars
    <2> QED
      BY <2>1, <2>2, <2>3, <2>4, Steps
  <1>3. \A r \in Rows : /\ rows[r].version \in Nat /\ rows'[r].version \in Nat
                        /\ rows[r].version <= rows'[r].version
                        /\ promised[r] \in Nat /\ acked[r] \in Nat /\ acked'[r] \in Nat
    BY <1>1 DEF Shapes, RowData, RowsGrow
  <1> QED
    BY <1>2, <1>3 DEF Promises, ChangesOK

\* A load keeps its promise: the rows deleted only become more, and what is promised
\* does not change while a load is under way.
LEMMA SameLoads ==
  ASSUME asked \subseteq asked', asked # {} => promised' = promised, deleted \subseteq deleted',
         NEW c \in Calls, LoadOK(c),
         calls'[c].op = calls[c].op, calls'[c].search = calls[c].search,
         calls'[c].answer = calls[c].answer, calls'[c].items = calls[c].items
  PROVE  LoadOK(c)'
  <1> SUFFICES ASSUME calls[c].op = "load" PROVE LoadOK(c)'
    BY DEF LoadOK
  <1>1. calls[c].search \in asked /\ promised' = promised
    BY DEF LoadOK
  <1>2. PICK items, search : items = calls[c].items /\ search = calls[c].search
    OBVIOUS
  <1>3. ASSUME NEW r \in Matching(search), RowShown(items, r) PROVE RowShown(items, r)'
    BY <1>1, <1>3 DEF RowShown, Full
  <1>4. Covers(items, search) => Covers(items, search)'
    BY <1>3 DEF Covers, Matching
  <1> QED
    BY <1>1, <1>2, <1>4 DEF LoadOK

\* A list holds every row it promises to, or is full.
LEMMA ListedCovers ==
  ASSUME Shapes, Promises, NEW search \in Searches, NEW top \in FirstPages(search), NEW items,
         \A r \in Rows : items[r] = IF r \in top THEN rows[r] ELSE NoRow
  PROVE  Covers(items, search)
  <1> SUFFICES ASSUME NEW r \in Matching(search) PROVE RowShown(items, r)
    BY DEF Covers
  <1>1. r \in Rows /\ rows[r].version \in Nat /\ promised[r] \in Nat /\ promised[r] <= rows[r].version
    BY MatchingRows DEF Shapes, RowData, Promises
  <1>2. PICK live : live = {q \in Matching(search) : Live(q)}
    OBVIOUS
  <1>3. top \subseteq live /\ (Cardinality(top) = PageSize \/ top = live)
    BY <1>2 DEF FirstPages
  <1>4. CASE r \in top
    BY <1>1, <1>4 DEF RowShown
  <1>5. CASE r \notin top /\ rows[r] = NoRow
    BY <1>1, <1>5 DEF RowShown
  <1>6. CASE r \notin top /\ r \in deleted
    BY <1>1, <1>6 DEF RowShown
  <1>7. CASE r \notin top /\ Live(r)
    <2>1. Cardinality(top) = PageSize
      BY <1>2, <1>3, <1>7
    <2>2. \A q \in Rows : q \in top <=> items[q] # NoRow
      BY <1>2, <1>3 DEF Live
    <2>3. top \subseteq Rows
      BY <1>2, <1>3, MatchingRows
    <2>4. {q \in Rows : items[q] # NoRow} = top
      BY <2>2, <2>3
    <2> QED
      BY <1>1, <1>7, <2>1, <2>4 DEF RowShown, Full
  <1> QED
    BY <1>4, <1>5, <1>6, <1>7 DEF Live

LEMMA NextLoads ==
  ASSUME Shapes, Copies, QInv, LInv', [Next]_vars
  PROVE  Loads' /\ IdleShowsStored'
  <1>1. Working /\ Loads /\ ChangesOK /\ Promises /\ IdleShowsStored
    BY DEF QInv, LInv
  <1>2. ASSUME NEW c \in Calls, Starting(c) PROVE Loads' /\ IdleShowsStored'
    <2>1. PICK k : /\ calls' = [calls EXCEPT ![c] = k]
                   /\ k # NoCall /\ k.answer = "none"
                   /\ k.op = "load" => k.search \in asked'
      BY <1>2, StartedCall
    <2>2. \A d \in Calls : calls'[d] = IF d = c THEN k ELSE calls[d]
      BY <2>1 DEF Shapes
    <2>3. IdleShowsStored'
      BY <2>1, <2>2 DEF IdleShowsStored, Idle, Busy
    <2>4. LoadOK(c)'
      BY <2>1, <2>2 DEF LoadOK
    <2>5. CASE Idle
      <3>1. \A d \in Calls : d # c => calls'[d] = NoCall
        BY <2>2, <2>5 DEF Idle, Busy
      <3>2. \A d \in Calls : d # c => LoadOK(d)'
        BY <3>1, NoCallShape DEF LoadOK
      <3> QED
        BY <2>3, <2>4, <3>2 DEF Loads
    <2>6. CASE ~Idle
      <3>1. asked \subseteq asked' /\ (asked # {} => promised' = promised) /\ deleted' = deleted
        BY <1>2, <2>6, StartingSteps DEF Asking, AskingLater
      <3>2. \A d \in Calls : d # c => LoadOK(d)'
        BY <1>1, <2>2, <3>1, SameLoads DEF Loads
      <3> QED
        BY <2>3, <2>4, <3>2 DEF Loads
    <2> QED
      BY <2>5, <2>6
  <1>3. ASSUME NEW c \in Calls, Serve(c) PROVE Loads' /\ IdleShowsStored'
    <2>1. PICK k : Answered(c, k) /\ (Unchanging(c, k) \/ Listing(c, k) \/ Changing(c, k))
      BY <1>3, ServeAnswer
    <2>2. \A d \in Calls : calls'[d] = IF d = c THEN k ELSE calls[d]
      BY <2>1 DEF Shapes, Answered
    <2>3. k # NoCall /\ UNCHANGED <<asked, promised, deleted>>
      BY <2>1, NoCallShape DEF Answered
    <2>4. IdleShowsStored'
      BY <2>2, <2>3 DEF IdleShowsStored, Idle, Busy
    <2>5. LoadOK(c)'
      <3> SUFFICES ASSUME k.op = "load" PROVE LoadOK(c)'
        BY <2>2 DEF LoadOK
      <3>1. calls[c].op = "load" /\ k.search = calls[c].search
        BY <2>1 DEF Answered
      <3>2. k.search \in asked /\ k.search \in Searches
        BY <1>1, <3>1 DEF Loads, LoadOK, Shapes
      <3>3. ASSUME k.answer = "ok" PROVE Covers(k.items, k.search)
        <4>1. PICK top \in FirstPages(k.search) :
                \A r \in Rows : k.items[r] = IF r \in top THEN rows[r] ELSE NoRow
          BY <2>1, <3>1, <3>3 DEF Unchanging, Listing, Changing
        <4>2. PICK items, search : items = k.items /\ search = k.search
          OBVIOUS
        <4> QED
          BY <1>1, <3>2, <4>1, <4>2, ListedCovers
      <3>4. PICK items, search : items = k.items /\ search = k.search
        OBVIOUS
      <3>5. Covers(items, search) => Covers(items, search)'
        BY <2>3 DEF Covers, RowShown, Matching, Full
      <3> QED
        BY <2>2, <2>3, <3>2, <3>3, <3>4, <3>5 DEF LoadOK
    <2>6. ASSUME NEW d \in Calls, d # c PROVE LoadOK(d)'
      BY <1>1, <2>2, <2>3, <2>6, SameLoads DEF Loads
    <2> QED
      BY <2>4, <2>5, <2>6 DEF Loads
  <1>4. ASSUME NEW c \in Calls, Receive(c) PROVE Loads' /\ IdleShowsStored'
    <2>1. PICK k : calls' = [calls EXCEPT ![c] = k] /\ (Ended(c, k) \/ Continued(c, k))
      BY <1>4, ReceivedCall
    <2>2. \A d \in Calls : calls'[d] = IF d = c THEN k ELSE calls[d]
      BY <2>1 DEF Shapes
    <2>3. deleted' = deleted /\ asked \subseteq asked' /\ (asked # {} => promised' = promised)
      BY <1>4, <2>1, ReceiveSteps DEF Ended, Continued
    <2>4. ASSUME NEW d \in Calls, d # c PROVE LoadOK(d)'
      BY <1>1, <2>2, <2>3, <2>4, SameLoads DEF Loads
    <2>5. LoadOK(c)'
      BY <2>1, <2>2, NoCallShape DEF LoadOK, Ended, Continued
    <2>6. CASE Ended(c, k)
      <3> SUFFICES ASSUME store'.error = "none" PROVE IdleShowsStored'
        BY <2>4, <2>5 DEF Loads, IdleShowsStored
      <3>1. /\ calls[c].op = "load" /\ calls[c].answer = "ok"
            /\ store'.items = calls[c].items /\ store'.search = calls[c].search
            /\ UNCHANGED <<asked, promised>>
        BY <2>6 DEF Ended
      <3>2. PICK items, search : items = calls[c].items /\ search = calls[c].search
        OBVIOUS
      <3>3. search \in asked /\ Covers(items, search)
        BY <1>1, <3>1, <3>2 DEF Loads, LoadOK
      <3>4. Covers(items, search)'
        BY <2>3, <3>1, <3>3 DEF Covers, RowShown, Matching, Full
      <3> QED
        BY <3>1, <3>2, <3>3, <3>4 DEF IdleShowsStored, Covers, RowShown
    <2>7. CASE Continued(c, k)
      <3>1. IdleShowsStored'
        BY <2>2, <2>7 DEF Continued, IdleShowsStored, Idle, Busy
      <3> QED
        BY <2>4, <2>5, <3>1 DEF Loads
    <2> QED
      BY <2>1, <2>6, <2>7
  <1>5. ASSUME Leave \/ Relogin PROVE Loads' /\ IdleShowsStored'
    <2>1. UNCHANGED <<asked, promised, deleted>> /\ page'.open = FALSE
      BY <1>5, LeavingSteps DEF Destroyed, table
    <2>2. ASSUME NEW c \in Calls PROVE LoadOK(c)'
      BY <1>1, <1>5, <2>1, <2>2, LeavingSteps, SameLoads DEF Loads
    <2> QED
      BY <2>1, <2>2 DEF IdleShowsStored, Loads
  <1>6. CASE Paging \/ SessionStep \/ UNCHANGED vars \/ \E r \in Rows : Others(r)
    <2>1. /\ UNCHANGED <<store, calls, asked, promised>> /\ page'.open = page.open
          /\ deleted \subseteq deleted'
      BY <1>6, PagingSteps, OthersStore DEF SessionStep, vars, wbVars, table
    <2>2. Loads'
      BY <1>1, <2>1, SameLoads DEF Loads
    <2>3. IdleShowsStored'
      BY <1>1, <2>1 DEF IdleShowsStored, Idle, Busy, Matching, Full
    <2> QED
      BY <2>2, <2>3
  <1> QED
    BY <1>2, <1>3, <1>4, <1>5, <1>6, Steps

LEMMA InitLoads == Init => QInv
  <1> SUFFICES ASSUME Init PROVE QInv
    OBVIOUS
  <1>1. Shapes /\ LInv
    BY InitCopies, InitSpinner
  <1>2. \A c \in Calls : calls[c] = NoCall /\ calls[c].op = "none"
    BY NoCallShape DEF Init
  <1>3. page = NoPage /\ acked = [r \in Rows |-> 0] /\ promised = acked
    BY DEF Init
  <1>4. ChangesOK /\ Promises
    BY <1>1, <1>2, <1>3 DEF ChangesOK, Promises, Shapes, RowData
  <1>5. Loads /\ IdleShowsStored
    BY <1>2, <1>3 DEF Loads, LoadOK, IdleShowsStored, NoPage
  <1> QED
    BY <1>1, <1>4, <1>5 DEF QInv

\* A page at rest without an error shows a search asked for since it was last at rest, and
\* in it every change this tab knew to be stored when the first of these loads was sent,
\* unless the row is deleted or the page full: for any number of rows, pages of any length
\* and any overlapping of the calls.
THEOREM StoredShown == Spec => []IdleShowsStored
  <1>1. Init => Shapes /\ Copies /\ QInv
    BY InitCopies, InitLoads
  <1>2. Shapes /\ Copies /\ QInv /\ [Next]_vars => Shapes' /\ Copies' /\ QInv'
    <2> SUFFICES ASSUME Shapes, Copies, QInv, [Next]_vars PROVE Shapes' /\ Copies' /\ QInv'
      OBVIOUS
    <2>1. Shapes' /\ Copies' /\ LInv'
      BY NextCopies, NextSpinner DEF QInv
    <2>2. ChangesOK'
      BY <2>1, NextChanges DEF QInv
    <2> QED
      BY <2>1, <2>2, NextPromises, NextLoads DEF QInv
  <1>3. QInv => IdleShowsStored
    BY DEF QInv
  <1> QED
    BY <1>1, <1>2, <1>3, PTL DEF Spec
=============================================================================
