------------------------------ MODULE AuditTrail ------------------------------
(***************************************************************************)
(* Reading the audit trail while it is being written and pruned: the CSV   *)
(* export of internal/team/audit.go walks audit_events page by page, each  *)
(* page a query of its own, while requests append records and the          *)
(* retention loop of cmd/toolbox-server/main.go deletes old ones.          *)
(***************************************************************************)
EXTENDS Integers, FiniteSets

CONSTANTS
  Exports,    \* requests for audit.csv, all with the same filter
  PageSize,   \* MaxAuditLimit (1000 in the code)
  Days,       \* the retention window; 0 keeps everything
  MaxTime,    \* bound: days that pass
  MaxRecords  \* bound: records ever written

ASSUME AuditAssumption ==
  /\ PageSize \in Nat \ {0}
  /\ Days \in Nat
  /\ MaxTime \in Nat
  /\ MaxRecords \in Nat

VARIABLES
  trail,      \* audit_events
  lastId,     \* the highest id ever given out (sqlite_sequence)
  today,      \* the clock, in days
  pc,         \* where each export is
  cursor,     \* AuditQuery.Cursor of its next page, 0 at first
  started,    \* history: the matching records when it read its first page
  csv,        \* the records written to it
  rows,       \* how many rows that took
  response    \* what its client sees: "open", "ended" as HTTP wants it, or "cut"

exportVars == <<pc, cursor, started, csv, rows, response>>
vars == <<trail, lastId, today, exportVars>>

\* A record; hit says whether the filter selects it.
Event == [id : Nat \ {0}, at : Nat, hit : BOOLEAN]

Init ==
  /\ trail = {}
  /\ lastId = 0
  /\ today = 0
  /\ pc = [x \in Exports |-> "idle"]
  /\ cursor = [x \in Exports |-> 0]
  /\ started = [x \in Exports |-> {}]
  /\ csv = [x \in Exports |-> {}]
  /\ rows = [x \in Exports |-> 0]
  /\ response = [x \in Exports |-> "open"]
-------------------------------------------------------------------------------
\* Mutant: without AUTOINCREMENT, the next id is one more than the highest present.
RecordByRowid(hit) ==
  LET next == 1 + (IF trail = {} THEN 0
                   ELSE CHOOSE i \in {r.id : r \in trail} : \A r \in trail : r.id <= i)
  IN  /\ lastId < MaxRecords
      /\ lastId' = lastId + 1
      /\ trail' = trail \union {[id |-> next, at |-> today, hit |-> hit]}
      /\ UNCHANGED <<today, exportVars>>

\* Mutant: created_at is given the day the record may be pruned.
RecordExpiry(hit) ==
  /\ lastId < MaxRecords
  /\ lastId' = lastId + 1
  /\ trail' = trail \union {[id |-> lastId + 1, at |-> today + Days, hit |-> hit]}
  /\ UNCHANGED <<today, exportVars>>

\* A write of the team store commits its record. Ids are AUTOINCREMENT.
Record(hit) ==
  /\ lastId < MaxRecords
  /\ lastId' = lastId + 1
  /\ trail' = trail \union {[id |-> lastId + 1, at |-> today, hit |-> hit]}
  /\ UNCHANGED <<today, exportVars>>

\* PruneAuditRecords with the cutoff Days ago.
Kept == IF Days = 0 THEN trail ELSE {r \in trail : r.at >= today - Days}

\* The retention loop's daily turn.
Prune ==
  /\ trail' = Kept
  /\ UNCHANGED <<lastId, today, exportVars>>

Tick ==
  /\ today < MaxTime
  /\ today' = today + 1
  /\ UNCHANGED <<trail, lastId, exportVars>>
-------------------------------------------------------------------------------
Goto(x, label) == pc' = [pc EXCEPT ![x] = label]
Show(x, state) == response' = [response EXCEPT ![x] = state]

\* QueryAuditRecords, newest first: what the filter and the cursor leave, and the
\* first PageSize of that.
Matching == {r \in trail : r.hit}
Beyond(c) == IF c = 0 THEN Matching ELSE {r \in Matching : r.id < c}
Page(c) == {r \in Beyond(c) : Cardinality({q \in Beyond(c) : q.id > r.id}) < PageSize}

\* Mutant: the cursor names the record after the page, which id < cursor then skips.
NextCursorSkips(c) ==
  IF Beyond(c) = Page(c) THEN 0
  ELSE (CHOOSE i \in {r.id : r \in Page(c)} : \A r \in Page(c) : i <= r.id) - 1

\* The last record's id when one row more was found than the page takes, else 0.
NextCursor(c) ==
  IF Beyond(c) = Page(c) THEN 0
  ELSE CHOOSE i \in {r.id : r \in Page(c)} : \A r \in Page(c) : i <= r.id

\* The route is entered: an admin asked, the filter parsed, the 200 is on its way.
Ask(x) ==
  /\ pc[x] = "idle"
  /\ Goto(x, "paging")
  /\ UNCHANGED <<trail, lastId, today, cursor, started, csv, rows, response>>

\* Mutant: the cursor is not moved on, so a first page that is not the last is read
\* again and again (a repeated record counts as one row here, to keep rows finite).
WritePageAgain(x) ==
  LET c == cursor[x]
  IN  /\ pc[x] = "paging"
      /\ started' = IF c = 0 THEN [started EXCEPT ![x] = Matching] ELSE started
      /\ csv' = [csv EXCEPT ![x] = @ \union Page(c)]
      /\ rows' = [rows EXCEPT ![x] = Cardinality(csv'[x])]
      /\ IF NextCursor(c) = 0
         THEN Goto(x, "done") /\ Show(x, IF response[x] = "open" THEN "ended" ELSE "cut")
         ELSE UNCHANGED <<pc, response>>
      /\ UNCHANGED <<trail, lastId, today, cursor>>

\* One turn of WriteAuditCSV: a page is read under Store.mu and written out.
WritePage(x) ==
  LET c == cursor[x]
  IN  /\ pc[x] = "paging"
      /\ started' = IF c = 0 THEN [started EXCEPT ![x] = Matching] ELSE started
      /\ csv' = [csv EXCEPT ![x] = @ \union Page(c)]
      /\ rows' = [rows EXCEPT ![x] = @ + Cardinality(Page(c))]
      /\ cursor' = [cursor EXCEPT ![x] = NextCursor(c)]
      /\ IF NextCursor(c) = 0
         THEN Goto(x, "done") /\ Show(x, IF response[x] = "open" THEN "ended" ELSE "cut")
         ELSE UNCHANGED <<pc, response>>
      /\ UNCHANGED <<trail, lastId, today>>

\* The query, or a write to a client that is gone, fails between pages. The handler
\* logs it and returns, which ends the response of a client still there.
GiveUp(x) ==
  /\ pc[x] = "paging"
  /\ Goto(x, "failed")
  /\ Show(x, IF response[x] = "open" THEN "ended" ELSE "cut")
  /\ UNCHANGED <<trail, lastId, today, cursor, started, csv, rows>>

\* The client goes away, or the server's write timeout closes the connection.
Disconnect(x) ==
  /\ pc[x] = "paging"
  /\ response[x] = "open"
  /\ Show(x, "cut")
  /\ UNCHANGED <<trail, lastId, today, pc, cursor, started, csv, rows>>

\* The server stops and starts again: downloads are cut off, the tables stay, and
\* the retention loop prunes at once.
Restart ==
  LET running == {x \in Exports : pc[x] = "paging"}
  IN  /\ pc' = [x \in Exports |-> IF x \in running THEN "failed" ELSE pc[x]]
      /\ response' = [x \in Exports |-> IF x \in running THEN "cut" ELSE response[x]]
      /\ trail' = Kept
      /\ UNCHANGED <<lastId, today, cursor, started, csv, rows>>

Export(x) == Ask(x) \/ WritePage(x) \/ GiveUp(x) \/ Disconnect(x)

Next ==
  \/ \E hit \in BOOLEAN : Record(hit)
  \/ Prune \/ Tick \/ Restart
  \/ \E x \in Exports : Export(x)

Spec == Init /\ [][Next]_vars

\* A handler that has a page to read reads it.
FairSpec == Spec /\ \A x \in Exports : WF_vars(WritePage(x))
-------------------------------------------------------------------------------
TypeOK ==
  /\ trail \subseteq Event
  /\ IsFiniteSet(trail)
  /\ lastId \in Nat
  /\ \A r \in trail : r.id <= lastId /\ r.at <= today
  /\ today \in Nat
  /\ pc \in [Exports -> {"idle", "paging", "done", "failed"}]
  /\ cursor \in [Exports -> Nat]
  /\ \A x \in Exports : IsFiniteSet(started[x]) /\ started[x] \subseteq Event
  /\ \A x \in Exports : IsFiniteSet(csv[x]) /\ csv[x] \subseteq Event
  /\ started \in [Exports -> SUBSET Event]
  /\ csv \in [Exports -> SUBSET Event]
  /\ rows \in [Exports -> Nat]
  /\ response \in [Exports -> {"open", "ended", "cut"}]

\* What an export has still to write of the records it started with.
Missing(x) == (started[x] \intersect trail) \ csv[x]

\* Whatever is appended and pruned while it pages, an export writes only records
\* that were there at its start, none of them twice, and when it is done it has
\* written every one of them that was not pruned meanwhile.
ExportIsExact ==
  \A x \in Exports :
    /\ csv[x] \subseteq started[x]
    /\ rows[x] = Cardinality(csv[x])
    /\ pc[x] = "done" => Missing(x) = {}

\* An id never comes to mean another record, so that a cursor an auditor holds, or
\* a row already exported, keeps its meaning through pruning and restarts.
IdsAreNeverReused ==
  \A x \in Exports : \A r \in trail \union csv[x], q \in csv[x] : r.id = q.id => r = q

\* An export comes to an end although records keep arriving.
ExportEnds == \A x \in Exports : pc[x] = "paging" ~> pc[x] # "paging"

\* team_routes.go:354-356: after a failure in mid-stream the truncated download is
\* the signal to the caller. So a download that ends as it should is a whole one.
EndedDownloadIsWhole ==
  \A x \in Exports : response[x] = "ended" => Missing(x) = {}
===============================================================================
