----------------------------- MODULE LogStream -----------------------------
(***************************************************************************)
(* The log lines of a task or a tenant and the SSE stream that shows them  *)
(* to one client: lines are stored and published, a connection replays     *)
(* what is stored and then forwards what is published, and a client that   *)
(* comes back says how far it got.                                         *)
(*                                                                         *)
(* There are two clocks.  The database's stamps the lines, and the table   *)
(* keeps its readings as they are; the process's stamps the events, and    *)
(* may be ahead of it or behind.  What passes through a JavaScript Date,   *)
(* the ids of events and the positions a client sends back, is cut to the  *)
(* millisecond.  Lines of other tasks and tenants are left out, and the 24 *)
(* hours a first connection looks back are longer than any behaviour here. *)
(***************************************************************************)
EXTENDS Naturals, FiniteSets, Sequences, Functions

CONSTANTS
  Fine,         \* readings of the database's clock in a millisecond
  Skew,         \* milliseconds the process's clock may be before or after the
                \* last reading of the database's
  Page,         \* lines a replay is limited to; 500
  MaxLines,     \* bound: lines appended
  MaxOpen,      \* bound: appendTaskLog calls open at once
  MaxConnects,  \* bound: connections opened
  MaxFailures   \* bound: appends that fail, deaths of the process

ASSUME LogStreamBounds ==
  /\ Fine \in Nat \ {0} /\ Skew \in Nat /\ Page \in Nat /\ MaxLines \in Nat
  /\ MaxOpen \in Nat /\ MaxConnects \in Nat /\ MaxFailures \in Nat

VARIABLES
  kind,      \* the stream of one task, or of the tenant with its cursor
  now,       \* the last reading of the database's clock
  log,       \* task_logs, in the order of created_at, and the calls under way
  conn,      \* the connection: the SSE handler
  wire,      \* events written and not received
  got,       \* history: the events the client has received
  lastId,    \* the client's Last-Event-ID, 0 for none
  cursor,    \* user_stream_cursors.cursor_at, 0 for no row
  connects, failures,   \* counters of the bounds
  atRisk     \* history: the lines a stream may miss for good
client  == <<got, lastId, cursor>>
bounds  == <<connects, failures>>
streamVars == <<kind, now, log, conn, wire, client, bounds, atRisk>>

\* Both clocks have left 0 behind, which stands for no position.
Start == Fine * (Skew + 1)
MaxTime == Start + Fine * MaxLines
MaxId == MaxTime + Skew
Lines == 1..MaxLines

\* Cut to the millisecond, and read back.
Ms(t) == t \div Fine
Reading(ms) == ms * Fine

\* sent: the INSERT is under way.  stored: it committed.  silent: it committed
\* and is never published.  gone: it failed.
Line == [created : 1..MaxTime, pc : {"sent", "stored", "published", "silent", "gone"}]
Event == [line : Lines, id : 0..MaxId]
\* left: history, the lines the replay left out, beyond its limit.
Conn == [pc : {"closed", "opened", "queried", "live"}, since : 0..MaxId,
         rows : Seq(Lines), left : SUBSET Lines]
Closed == [pc |-> "closed", since |-> 0, rows |-> <<>>, left |-> {}]

StreamTypeOK ==
  /\ kind \in {"task", "tenant"} /\ now \in Start..MaxTime
  /\ log \in Seq(Line) /\ Len(log) <= MaxLines
  /\ conn \in Conn /\ wire \in Seq(Event) /\ got \in SUBSET Event
  /\ Len(conn.rows) <= Page
  /\ lastId \in 0..MaxId /\ cursor \in 0..MaxId
  /\ connects \in Nat /\ failures \in Nat
  /\ atRisk \in SUBSET Lines

StreamInit ==
  /\ kind \in {"task", "tenant"}
  /\ now = Start /\ log = <<>> /\ conn = Closed /\ wire = <<>>
  /\ got = {} /\ lastId = 0 /\ cursor = 0
  /\ connects = 0 /\ failures = 0
  /\ atRisk = {}

Reads == \E t \in (now + 1)..(now + Fine) : now' = t

\* What the process's clock may say.
Stamps == {n \in 1..MaxId : n <= Ms(now) + Skew /\ Ms(now) <= n + Skew}

\* A position at the event's id is not before the line.
Passes(e, created) == created <= Reading(e.id)
Fails == failures < MaxFailures /\ failures' = failures + 1

-----------------------------------------------------------------------------
(* appendTaskLog: INSERT, then publish.                                    *)

Underway(i) == log[i].pc \in {"sent", "stored"}

\* The statement starts, and created_at defaults to its start.  A line is at
\* risk if the process's clock is so far ahead that an event has a later id.
AppendSends ==
  /\ Len(log) < MaxLines
  /\ Cardinality({i \in DOMAIN log : Underway(i)}) < MaxOpen
  /\ Reads
  /\ log' = Append(log, [created |-> now', pc |-> "sent"])
  /\ atRisk' = IF \E e \in got \cup Range(wire) : Passes(e, now')
               THEN atRisk \cup {Len(log) + 1} ELSE atRisk
  /\ UNCHANGED <<kind, conn, wire, client, bounds>>

AppendStores(i) ==
  /\ log[i].pc = "sent"
  /\ log' = [log EXCEPT ![i].pc = "stored"]
  /\ UNCHANGED <<kind, now, conn, wire, client, bounds, atRisk>>

AppendFails(i) ==
  /\ log[i].pc = "sent" /\ Fails
  /\ log' = [log EXCEPT ![i].pc = "gone"]
  /\ UNCHANGED <<kind, now, conn, wire, client, connects, atRisk>>

\* The lines an event overtakes: those under way that were sent before its own
\* or that its id passes.
Overtaken(e) ==
  {j \in DOMAIN log : Underway(j) /\ j # e.line
                       /\ (j < e.line \/ Passes(e, log[j].created))}

\* The event is stamped anew, with the process's clock, and handed to the
\* subscribers there are.  It puts at risk what it overtakes and what the replay
\* before it left out; it is at risk itself if the replay has been read without
\* its line and nobody has subscribed yet.
AppendPublishes(i) ==
  /\ log[i].pc = "stored"
  /\ log' = [log EXCEPT ![i].pc = "published"]
  /\ \E n \in Stamps :
       LET e == [line |-> i, id |-> n] IN
       IF conn.pc = "live"
       THEN wire' = Append(wire, e) /\ atRisk' = atRisk \cup Overtaken(e) \cup conn.left
       ELSE /\ wire' = wire
            /\ atRisk' = IF conn.pc = "queried" /\ i \notin Range(conn.rows)
                         THEN atRisk \cup {i} ELSE atRisk
  /\ UNCHANGED <<kind, now, conn, client, bounds>>

-----------------------------------------------------------------------------
(* The handlers of sse.ts.                                                 *)

\* Where a replay starts: at Last-Event-ID; without one at the user's cursor
\* if it is the tenant's stream; else at the beginning.
Since == IF lastId # 0 THEN lastId
         ELSE IF kind = "tenant" THEN cursor
         ELSE 0

StreamOpens ==
  /\ conn.pc = "closed" /\ connects < MaxConnects /\ connects' = connects + 1
  /\ conn' = [Closed EXCEPT !.pc = "opened", !.since = Since]
  /\ UNCHANGED <<kind, now, log, wire, client, failures, atRisk>>

Visible(i) == log[i].pc \in {"stored", "published", "silent"}

\* gt(created_at, since).
Newer(i, since) == log[i].created > Reading(since)

\* The numbers of S up to m, in order.
InOrder(S, m) ==
  LET upTo[n \in 0..m] == IF n = 0 THEN <<>>
                          ELSE IF n \in S THEN Append(upTo[n - 1], n) ELSE upTo[n - 1]
  IN upTo[m]

\* The lines after the position.
Matching == InOrder({i \in DOMAIN log : Visible(i) /\ Newer(i, conn.since)}, Len(log))

Beyond == Len(Matching) > Page
LeftOut == {Matching[n] : n \in (Page + 1)..Len(Matching)}

\* Mutant: no limit.
Rows_Unlimited == Matching

\* Mutant: the latest of them, as without a position.
Rows_Latest ==
  IF Beyond THEN SubSeq(Matching, Len(Matching) - Page + 1, Len(Matching))
            ELSE Matching

\* listTaskLogs, and listTenantLogs with a position: the earliest of them.
Rows == IF Beyond THEN SubSeq(Matching, 1, Page) ELSE Matching

StreamQueries ==
  /\ conn.pc = "opened"
  /\ conn' = [conn EXCEPT !.pc = "queried", !.rows = Rows, !.left = LeftOut]
  /\ UNCHANGED <<kind, now, log, wire, client, bounds, atRisk>>

\* The rows are written under their created_at, and the handler subscribes.
\* They put at risk the lines sent before them that were not stored in time.
StreamReplays ==
  /\ conn.pc = "queried"
  /\ conn' = [conn EXCEPT !.pc = "live", !.since = 0, !.rows = <<>>]
  /\ wire' = [n \in DOMAIN conn.rows |->
                [line |-> conn.rows[n], id |-> Ms(log[conn.rows[n]].created)]]
  /\ atRisk' = atRisk \cup {j \in UNION {Overtaken(e) : e \in Range(wire')} :
                              j \notin Range(conn.rows)}
  /\ UNCHANGED <<kind, now, log, client, bounds>>

\* close: unsubscribed and ended.  A handler the client leaves before it is
\* live subscribes later still, for nobody.
Disconnects ==
  /\ conn.pc # "closed"
  /\ conn' = Closed
  /\ wire' = <<>>
  /\ UNCHANGED <<kind, now, log, client, bounds, atRisk>>

\* The process dies with its subscriptions; calls of appendTaskLog never get
\* to publish, whether the INSERT committed or not.
ProcessDies ==
  /\ Fails
  /\ \E failed \in SUBSET {i \in DOMAIN log : log[i].pc = "sent"} :
       log' = [i \in DOMAIN log |->
                 IF ~Underway(i) THEN log[i]
                 ELSE [log[i] EXCEPT !.pc = IF i \in failed THEN "gone" ELSE "silent"]]
  /\ conn' = Closed
  /\ wire' = <<>>
  /\ UNCHANGED <<kind, now, client, connects, atRisk>>

-----------------------------------------------------------------------------
(* The client.                                                             *)

ClientReceives ==
  /\ wire # <<>>
  /\ got' = got \cup {Head(wire)} /\ lastId' = Head(wire).id
  /\ wire' = Tail(wire)
  /\ UNCHANGED <<kind, now, log, conn, cursor, bounds, atRisk>>

\* PUT /stream/cursor: the user has read what is shown.
ClientReads ==
  /\ kind = "tenant" /\ lastId # 0 /\ cursor # lastId
  /\ cursor' = lastId
  /\ UNCHANGED <<kind, now, log, conn, wire, got, lastId, bounds, atRisk>>

\* The page is loaded anew and has no Last-Event-ID.
ClientReloads ==
  /\ conn.pc = "closed" /\ lastId # 0
  /\ lastId' = 0
  /\ UNCHANGED <<kind, now, log, conn, wire, got, cursor, bounds, atRisk>>

StreamNext ==
  \/ AppendSends
  \/ \E i \in DOMAIN log : AppendStores(i) \/ AppendFails(i) \/ AppendPublishes(i)
  \/ StreamOpens \/ StreamQueries \/ StreamReplays \/ Disconnects \/ ProcessDies
  \/ ClientReceives \/ ClientReads \/ ClientReloads

StreamSpec == StreamInit /\ [][StreamNext]_streamVars

-----------------------------------------------------------------------------
Shown == {e.line : e \in got \cup Range(wire)}

\* "Otherwise the timeline and the live stream drift apart"
\* (tasks/repository.ts:539); "take the earliest N after the cursor so SSE
\* bootstrap doesn't skip a gap" (:594).  Over any number of disconnects,
\* crashes, reloads and reads the client is shown no line before every earlier
\* one that was stored, and a live stream has shown them all but what its replay
\* left out.  Only four kinds of lines may be missing: one that an event
\* overtook while its append was open; one published between a replay's query
\* and its subscription; one beyond a replay's limit, once a later one came
\* live; and one the database stamped no later than an event whose id the
\* process's clock, running ahead, had given out before.
NothingIsSkipped ==
  \A i \in DOMAIN log \ atRisk :
    (/\ log[i].pc \in {"published", "silent"}
     /\ (conn.pc = "live" /\ i \notin conn.left) \/ \E j \in Shown : i < j)
    => i \in Shown

\* The same of every line, as the comments have it.
NoLineIsSkipped ==
  \A i \in DOMAIN log :
    (log[i].pc \in {"published", "silent"} /\ \E j \in Shown : i < j) => i \in Shown

\* "The server replays from the cursor and does not resend what has been read"
\* (docs/API_GUIDE.md:1093).
ReadIsNotResent ==
  (conn.pc = "queried" /\ conn.since # 0 /\ conn.since = cursor) =>
    \A e \in got : e.id <= cursor => e.line \notin Range(conn.rows)
=============================================================================
