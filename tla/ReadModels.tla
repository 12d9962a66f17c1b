----------------------------- MODULE ReadModels -----------------------------
(* The reading side of the API: one client reads while the tables move under *)
(* it. A call is a sequence of queries, each a snapshot of its own: a page   *)
(* of decisions is counted, read and given its revisions, a page of the log  *)
(* is counted and read, a summary of the log is five counts. The client asks *)
(* for page after page until one is not full.                                *)
EXTENDS Naturals, FiniteSets, SequencesExt

CONSTANTS
  Ids,          \* ids the decision table may hand out, 1, 2, ...
  Events,       \* what the audit log records: actor, action and entity type
  AskedSizes,   \* page sizes the client may ask for
  DefaultSize,  \* the page size of a client that asks for none or for too many
  MaxSize,      \* the largest page
  Window,       \* how far back a summary looks
  Delay,        \* how long before the statement that stores it a time may be taken
  LastTick,     \* bound: the last instant
  MaxChanges    \* bound: changes to the tables

ASSUME SizesAssumption ==
  AskedSizes \subseteq Nat /\ DefaultSize \in 1 .. MaxSize /\ MaxSize \in Nat \ {0}
ASSUME WindowAssumption == Window \in Nat /\ LastTick \in Nat /\ Window < LastTick
ASSUME DelayAssumption == Delay \in Nat
ASSUME IdsAssumption == Ids \subseteq Nat \ {0} /\ IsFiniteSet(Ids)
ASSUME ChangesAssumption == MaxChanges \in Nat

VARIABLES
  now,      \* the clock of the server
  rows,     \* the decisions; a revision is stored with every version of one
  log,      \* the audit log, in the order of its ids
  changes,  \* number of changes so far
  query,    \* what the client asked for: a walk or a summary
  step,     \* the query that comes next, or how the reading ended
  answer,   \* the answer as far as it has been put together
  seen,     \* what the pages received so far have shown
  owed,     \* history: what has been listed and untouched since the reading began
  lost      \* history: how many have left the list or fallen back on it since then, and
            \* how many have left it since the page was counted

tables == <<now, rows, log, changes>>
vars == <<tables, query, step, answer, seen, owed, lost>>

Statuses == {"draft", "review"}
Decision(version, status, at) == [version |-> version, status |-> status, at |-> at]
NoDecision == Decision(0, "draft", 0)

Entry(event, at) == [event |-> event, at |-> at]

Live(i) == rows[i].version > 0 /\ rows[i].status # "deleted"

\* What a walk lists: the decisions with the status asked for, or the log.
Listed ==
  IF query.of = "decisions"
  THEN {i \in Ids : Live(i) /\ query.status \in {"any", rows[i].status}}
  ELSE DOMAIN log

NoAnswer == [page |-> 1, total |-> 0, items |-> <<>>, versions |-> <<>>, revisions |-> <<>>]
NoSummary == [since |-> now - Window, total |-> 0, transitions |-> 0, actors |-> 0,
              actions |-> <<>>, entities |-> <<>>]

\* The reading begins among rows of any age, the first of any status, or a log of two entries.
Init ==
  /\ now = Window + 1
  /\ query \in [of : {"decisions"}, size : AskedSizes, status : {"any", "draft"}]
               \cup [of : {"audits"}, size : AskedSizes, status : {"any"}]
               \cup [of : {"summary"}, size : {0}, status : {"any"}]
  /\ IF query.of = "decisions"
     THEN \E k \in Ids, s \in Statuses : \E at \in [1 .. k -> {now - 1, now}] :
            /\ rows = [i \in Ids |-> IF i <= k THEN Decision(1, IF i = 1 THEN s ELSE "draft", at[i])
                                     ELSE NoDecision]
            /\ log = <<>>
     ELSE \E e \in Events : \E at \in {now - 1, now} :
            log = <<Entry(e, now - 1), Entry(e, at)>> /\ rows = [i \in Ids |-> NoDecision]
  /\ changes = 0
  /\ step = IF query.of = "summary" THEN "total" ELSE "count"
  /\ answer = IF query.of = "summary" THEN NoSummary ELSE NoAnswer
  /\ seen = {} /\ owed = Listed /\ lost = [reading |-> 0, page |-> 0]

-----------------------------------------------------------------------------
(* The tables move. A time is taken before the statement that stores it, so  *)
(* that it may be older than those of statements that came earlier. It may   *)
(* be older than the time it replaces: a statement compares id and version,  *)
(* and a call that names the next version of a row takes its time before     *)
(* that version exists. An edit can so move a row down the list.             *)

Reading == step \notin {"done", "failed"}

Change == Reading /\ changes < MaxChanges /\ changes' = changes + 1

Stamps == {t \in 0 .. now : now <= t + Delay}

UnchangedReader == UNCHANGED <<query, step, answer, seen>>

Leaves(i) == i \in Listed /\ i \notin Listed'
FallsBack(i) == i \in Listed /\ i \in Listed' /\ rows'[i].at < rows[i].at

\* What a change to row i means to the reading.
Noted(i) ==
  /\ owed' = owed \ {i}
  /\ lost' = [reading |-> lost.reading + (IF Leaves(i) \/ FallsBack(i) THEN 1 ELSE 0),
              page    |-> lost.page + (IF Leaves(i) THEN 1 ELSE 0)]

CreateDecision(i) ==
  /\ query.of = "decisions" /\ Change
  /\ rows[i].version = 0 /\ \A j \in 1 .. i - 1 : rows[j].version > 0
  /\ \E t \in Stamps : rows' = [rows EXCEPT ![i] = Decision(1, "draft", t)]
  /\ UNCHANGED <<now, log>> /\ UnchangedReader
  /\ Noted(i)

\* An edit or a move; its revision is part of it.
ChangeDecision(i) ==
  /\ query.of = "decisions" /\ Change
  /\ Live(i)
  /\ \E t \in Stamps, s \in Statuses :
       rows' = [rows EXCEPT ![i] = Decision(rows[i].version + 1, s, t)]
  /\ UNCHANGED <<now, log>> /\ UnchangedReader
  /\ Noted(i)

\* A deleted row keeps its id.
DeleteDecision(i) ==
  /\ query.of = "decisions" /\ Change
  /\ Live(i)
  /\ rows' = [rows EXCEPT ![i].status = "deleted"]
  /\ UNCHANGED <<now, log>> /\ UnchangedReader
  /\ Noted(i)

AppendAudit ==
  /\ query.of # "decisions" /\ Change
  /\ \E e \in Events, t \in Stamps : log' = Append(log, Entry(e, t))
  /\ UNCHANGED <<now, rows, owed, lost>> /\ UnchangedReader

Tick ==
  /\ Reading /\ now < LastTick
  /\ now' = now + 1
  /\ UNCHANGED <<rows, log, changes, owed, lost>> /\ UnchangedReader
-----------------------------------------------------------------------------
(* A page.                                                                   *)

\* The page size the handler works with; what it cannot parse is 0.
bindPage(size) == IF size < 1 \/ size > MaxSize THEN DefaultSize ELSE size

\* The page size the repository works with.
normalizePage(size) == IF size < 1 THEN DefaultSize ELSE IF size > MaxSize THEN MaxSize ELSE size

PageSize == normalizePage(bindPage(query.size))

\* The page size the client is told: that of the repository with the decisions, that
\* of the handler with the log.
ToldSize == IF query.of = "decisions" THEN PageSize ELSE bindPage(query.size)

\* Slip: oldest first.
PrecedesOldest(i, j) ==
  IF query.of = "decisions"
  THEN rows[i].at < rows[j].at \/ (rows[i].at = rows[j].at /\ i < j)
  ELSE log[i].at < log[j].at

\* Newest first; the log leaves entries of one time in any order.
Precedes(i, j) ==
  IF query.of = "decisions"
  THEN rows[i].at > rows[j].at \/ (rows[i].at = rows[j].at /\ i > j)
  ELSE log[i].at > log[j].at

\* The lists a database may read a page from.
Sortings == {list \in SetToSeqs(Listed) : \A m, n \in DOMAIN list : m < n => ~Precedes(list[n], list[m])}

\* Slip: no LIMIT.
PageOfNoLimit(list) == SubSeq(list, (answer.page - 1) * PageSize + 1, Len(list))

PageOf(list) ==
  SubSeq(list, (answer.page - 1) * PageSize + 1, Min({answer.page * PageSize, Len(list)}))

Asks(of, at) == query.of \in of /\ step = at

UnchangedTables == UNCHANGED <<tables, query, owed, lost>>

\* Slip: the status left out of the count.
CountAll ==
  /\ Asks({"decisions", "audits"}, "count")
  /\ answer' = [answer EXCEPT !.total =
                  IF query.of = "decisions" THEN Cardinality({i \in Ids : Live(i)}) ELSE Len(log)]
  /\ step' = "find"
  /\ lost' = [lost EXCEPT !.page = 0]
  /\ UNCHANGED <<tables, query, seen, owed>>

CountListed ==
  /\ Asks({"decisions", "audits"}, "count")
  /\ answer' = [answer EXCEPT !.total = Cardinality(Listed)]
  /\ step' = "find"
  /\ lost' = [lost EXCEPT !.page = 0]
  /\ UNCHANGED <<tables, query, seen, owed>>

\* A page of decisions that is not empty is given its revisions.
FindPage ==
  /\ Asks({"decisions", "audits"}, "find")
  /\ \E list \in Sortings :
       LET items == PageOf(list) IN
         /\ answer' = [answer EXCEPT !.items = items,
                         !.versions = [n \in DOMAIN items |->
                            IF query.of = "decisions" THEN rows[items[n]].version ELSE 1]]
         /\ step' = IF query.of = "decisions" /\ items # <<>> THEN "revisions" ELSE "reply"
  /\ UNCHANGED seen /\ UnchangedTables

\* Slip: the revisions handed out by position, in the order of the ids.
FindRevisionsByPosition ==
  /\ Asks({"decisions"}, "revisions")
  /\ answer' = [answer EXCEPT !.revisions =
       LET ids == SetToSortSeq(ToSet(answer.items), <)
       IN [n \in DOMAIN answer.items |-> 1 .. rows[ids[n]].version]]
  /\ step' = "reply"
  /\ UNCHANGED seen /\ UnchangedTables

\* Every version of a row has one revision.
FindRevisions ==
  /\ Asks({"decisions"}, "revisions")
  /\ answer' = [answer EXCEPT !.revisions =
                  [n \in DOMAIN answer.items |-> 1 .. rows[answer.items[n]].version]]
  /\ step' = "reply"
  /\ UNCHANGED seen /\ UnchangedTables

\* The client takes the page and asks for the next one if this one is full.
ReceivePage ==
  /\ Asks({"decisions", "audits"}, "reply")
  /\ seen' = seen \cup ToSet(answer.items)
  /\ IF Len(answer.items) < ToldSize
     THEN step' = "done" /\ UNCHANGED answer
     ELSE step' = "count" /\ answer' = [NoAnswer EXCEPT !.page = answer.page + 1]
  /\ UnchangedTables

-----------------------------------------------------------------------------
(* A summary.                                                                *)

\* Slip: the beginning of the window worked out for every count.
SinceNow == now - Window

\* The beginning of the window, worked out once.
Since == answer.since

Recent == {i \in DOMAIN log : log[i].at >= Since}

\* GROUP BY: how many recent entries have each value of the column that occurs.
Grouped(column) ==
  [v \in {log[i].event[column] : i \in Recent} |->
     Cardinality({i \in Recent : log[i].event[column] = v})]

Count(at, filled, next) ==
  /\ Asks({"summary"}, at)
  /\ answer' = filled
  /\ step' = next
  /\ UNCHANGED seen /\ UnchangedTables

SummarizeAudits ==
  \/ Count("total", [answer EXCEPT !.total = Cardinality(Recent)], "transitions")
  \/ Count("transitions", [answer EXCEPT !.transitions =
             Cardinality({i \in Recent : log[i].event.action = "transition"})], "actors")
  \/ Count("actors", [answer EXCEPT !.actors = Cardinality({log[i].event.actor : i \in Recent})], "actions")
  \/ Count("actions", [answer EXCEPT !.actions = Grouped("action")], "entities")
  \/ Count("entities", [answer EXCEPT !.entities = Grouped("entity")], "done")

\* A query fails, and the reading ends with an error.
QueryFails ==
  /\ Reading /\ step # "reply"
  /\ step' = "failed" /\ answer' = NoAnswer
  /\ UNCHANGED seen /\ UnchangedTables

Finished == ~Reading /\ UNCHANGED vars

Next ==
  \/ \E i \in Ids : CreateDecision(i) \/ ChangeDecision(i) \/ DeleteDecision(i)
  \/ AppendAudit \/ Tick
  \/ CountListed \/ FindPage \/ FindRevisions \/ ReceivePage
  \/ SummarizeAudits \/ QueryFails
  \/ Finished

Spec == Init /\ [][Next]_vars

-----------------------------------------------------------------------------
(* Properties.                                                               *)

Steps == {"count", "find", "revisions", "reply", "total", "transitions", "actors",
          "actions", "entities", "done", "failed"}

\* Types; a page is never longer than the client was told.
TypeOK ==
  /\ now \in 0 .. LastTick /\ changes \in 0 .. MaxChanges
  /\ rows \in [Ids -> [version : 0 .. MaxChanges + 1, status : Statuses \cup {"deleted"}, at : 0 .. LastTick]]
  /\ \A e \in ToSet(log) : e.event \in Events /\ e.at \in 0 .. LastTick
  /\ step \in Steps /\ owed \subseteq Listed
  /\ lost \in [reading : 0 .. MaxChanges, page : 0 .. MaxChanges]
  /\ query.of # "summary" => Len(answer.items) <= ToldSize

\* No other entry of the list has the same place in the order, which only entries of
\* the log may: decisions of one time are ordered by their ids.
Distinct(i) == \A j \in Listed : j # i => Precedes(i, j) \/ Precedes(j, i)

\* A client that asks for pages until one is not full sees everything that was listed
\* all the while and not touched, but for one row per row that has left the list or
\* fallen back on it since, and no page shows it more of what it has seen than there
\* were changes to the tables: rows shift between the pages by no more than that,
\* whatever the page size. Entries of the log written at the same time as others are
\* left out, as the log may order them anew for every page; the others stay exact.
WalkExactUpToChanges ==
  query.of # "summary" =>
    /\ step = "done" => Cardinality({i \in owed \ seen : Distinct(i)}) <= lost.reading
    /\ step = "reply" =>
         Cardinality({i \in ToSet(answer.items) \cap seen : Distinct(i)}) <= changes

\* A page is not shorter than the total that comes with it says, but for the rows that
\* have left the list since they were counted; rows added in between make it longer at
\* most.
PageKeepsItsPromise ==
  query.of # "summary" /\ step = "reply" =>
    \/ Len(answer.items) = ToldSize
    \/ (answer.page - 1) * ToldSize + Len(answer.items) + lost.page >= answer.total

\* Every decision on a page comes with all revisions up to the version shown, although
\* the row may have been edited between the two queries.
PageShowsItsHistory ==
  query.of = "decisions" /\ step = "reply" =>
    \A n \in DOMAIN answer.items : 1 .. answer.versions[n] \subseteq answer.revisions[n]

\* Sum of the counts of a group, as the size of a union of disjoint sets.
InAll(group) == Cardinality(UNION {{v} \X (1 .. group[v]) : v \in DOMAIN group})

\* The parts of a summary are counted one after the other over a log that only grows:
\* each count covers what the counts before it did.
SummaryAddsUp ==
  query.of = "summary" /\ step = "done" =>
    /\ answer.total <= InAll(answer.actions)
    /\ InAll(answer.actions) <= InAll(answer.entities)
    /\ answer.transitions > 0 => answer.transitions <= answer.actions["transition"]
    /\ answer.actors <= InAll(answer.actions)

=============================================================================
