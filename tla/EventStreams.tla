------------------------------ MODULE EventStreams ------------------------------
(***************************************************************************)
(* Reading one of the server-sent event streams: the routes and filters of *)
(* src/broker/events.rs, src/data/events.rs and src/sse.rs, the parser's   *)
(* persisting id, and a caller that resumes with the cursor the way Event  *)
(* and EventStreamRequest tell it to.  The place of an event in the log    *)
(* stands for its ULID; 0 is no id.                                        *)
(***************************************************************************)
EXTENDS Integers, Sequences, Endpoints

CONSTANTS MaxLog,    \* bound: the events the server emits
          MaxFaults  \* bound: the times a connection breaks or loses an event

ASSUME EventAssumption == MaxLog \in Nat \ {0} /\ MaxFaults \in Nat

(***************************************************************************)
(* The streams: the version each lives on, and the filter it takes.        *)
(***************************************************************************)
Older(version, names) == [name : names, version : {version}, filter : {"GetEventsRequest"}]
Newer(version, names) == [name : names, version : {version}, filter : {"EventStreamRequest"}]

BrokerEvents ==
  Older("V1", {"account_status", "non_trading_activity"})
    \cup Older("V2", {"trades", "journals", "transfers"})
    \cup Newer("V2", {"admin_actions", "ipos", "system"})
    \cup Newer("V2Beta1", {"account_activities"})

TradingEvents == Newer("V2Beta1", {"activities"})

CorporateActionEvents == Newer("V1Beta1", {"corporate_actions"})

EventRoutes == BrokerEvents \cup TradingEvents \cup CorporateActionEvents

VARIABLES
  route,      \* the stream read
  inclusive,  \* the server sends the event of the cursor again
  window,     \* the caller asked for what came before, by date or time
  goal,       \* the last event the caller asked for, or 0
  log,        \* the events emitted: whether each brings an id line
  conn,       \* the connection
  cursor,     \* the id of the last event the caller has handled
  taken,      \* the events handled
  lost,       \* the events the server dropped for a slow reader
  anchor,     \* the first event the caller may expect, or 0
  finished,   \* the caller holds that it has everything up to its goal
  faults

evars == <<route, inclusive, window, goal, log, conn, cursor, taken, lost, anchor, finished, faults>>

\* Not connected; connected, with the next event to be sent, the last one that
\* will be, and the parser: the id it holds and whether it has seen an event.
Down == [up |-> FALSE, next |-> 0, limit |-> 0, lastId |-> 0, fresh |-> TRUE]
Connected(next, limit) == [up |-> TRUE, next |-> next, limit |-> limit, lastId |-> 0, fresh |-> TRUE]

EInit ==
  /\ route \in EventRoutes /\ inclusive \in BOOLEAN
  /\ window \in BOOLEAN
  /\ goal \in IF window THEN {0, MaxLog} ELSE {0}
  /\ log = <<>> /\ conn = Down /\ cursor = 0 /\ taken = {} /\ lost = {}
  /\ anchor = IF window THEN 1 ELSE 0
  /\ finished = FALSE /\ faults = 0

(***************************************************************************)
(* Filters.                                                                *)
(***************************************************************************)
\* A bug to catch: one spelling for every version.
CursorParams_OneName(version) == [since |-> "since_id", until |-> "until_id"]

\* EventVersion::cursor_params.
CursorParams(version) == IF version = "V1" THEN [since |-> "since_ulid", until |-> "until_ulid"]
                         ELSE [since |-> "since_id", until |-> "until_id"]

Param(name, form, place) == [name |-> name, form |-> form, place |-> place]

\* A field that is None has no parameter.
Given(present, param) == IF present THEN {param} ELSE {}

\* EventVersion::query and EventStreamRequest::query.
Query(r, f) ==
  LET older == r.filter = "GetEventsRequest"
      names == IF older THEN CursorParams(r.version) ELSE CursorParams("V2")
  IN  Given(f.since, Param("since", IF older THEN "date" ELSE "timestamp", 0))
        \cup Given(f.sinceId # 0, Param(names.since, "ulid", f.sinceId))
        \cup Given(f.untilId # 0, Param(names.until, "ulid", f.untilId))

\* What the caller asks for: from_id once it has handled an event with an id.
Resumption == [since |-> window /\ cursor = 0, sinceId |-> cursor, untilId |-> goal]

(***************************************************************************)
(* The server.                                                             *)
(***************************************************************************)
\* What it reads in a query: the other parameters change nothing.
Understood ==
  LET old == route.version = "V1"
  IN  [since |-> IF route.filter = "GetEventsRequest" THEN "date" ELSE "timestamp",
       from |-> IF old THEN "since_ulid" ELSE "since_id",
       until |-> IF old THEN "until_ulid" ELSE "until_id"]

Place(q, name) == LET ps == {p \in q : p.name = name}
                  IN  IF ps = {} THEN 0 ELSE (CHOOSE p \in ps : TRUE).place

\* From the cursor, from the beginning of the window, or live from now on.
FirstSent(q) ==
  LET from == Place(q, Understood.from)
  IN  IF from # 0 THEN IF inclusive THEN from ELSE from + 1
      ELSE IF \E p \in q : p.name = "since" /\ p.form = Understood.since THEN 1
      ELSE Len(log) + 1

\* The event the caller has named as its goal has an id.
Emit(id) == /\ Len(log) < MaxLog
            /\ Len(log) + 1 = goal => id
            /\ log' = Append(log, id)
            /\ UNCHANGED <<route, inclusive, window, goal, conn, cursor, taken, lost, anchor, finished, faults>>

Due == /\ conn.up
       /\ conn.next <= Len(log)
       /\ conn.limit # 0 => conn.next <= conn.limit

\* "you are reading too slowly, dropped messages": a comment, which the parser
\* discards.
DropMessage ==
  /\ Due /\ faults < MaxFaults
  /\ faults' = faults + 1
  /\ lost' = lost \cup {conn.next}
  /\ conn' = [conn EXCEPT !.next = @ + 1]
  /\ UNCHANGED <<route, inclusive, window, goal, log, cursor, taken, anchor, finished>>

(***************************************************************************)
(* The caller, through subscribe and the stream it returns.                *)
(***************************************************************************)
Subscribe ==
  /\ ~conn.up /\ ~finished
  /\ LET q == Query(route, Resumption)
     IN  conn' = Connected(FirstSent(q), Place(q, Understood.until))
  /\ UNCHANGED <<route, inclusive, window, goal, log, cursor, taken, lost, anchor, finished, faults>>

\* A bug to catch: the end of the stream is taken for the end of the events.
Concluded_AtEnd(id, ended) == goal # 0 /\ (ended \/ id = goal)

Concluded(id, ended) == goal # 0 /\ id = goal

\* Event::from: the id line, or the one before, or None.
SurfacedId == IF log[conn.next] THEN conn.next ELSE conn.lastId

\* The first event after a resume may be the one of the cursor; a later one with
\* its id has only brought none of its own.
IsDuplicate(id) == conn.fresh /\ id # 0 /\ id = cursor

Deliver ==
  /\ Due
  /\ conn' = [conn EXCEPT !.next = @ + 1, !.lastId = SurfacedId, !.fresh = FALSE]
  /\ finished' = (finished \/ Concluded(SurfacedId, FALSE))
  /\ IF IsDuplicate(SurfacedId) THEN UNCHANGED <<taken, cursor, anchor>>
     ELSE /\ taken' = taken \cup {conn.next}
          /\ cursor' = IF SurfacedId = 0 THEN cursor ELSE SurfacedId
          /\ anchor' = IF anchor = 0 /\ SurfacedId # 0 THEN conn.next ELSE anchor
  /\ UNCHANGED <<route, inclusive, window, goal, log, lost, faults>>

\* None, or an error and no more: all the caller learns is that it is over.
Ended == /\ conn' = Down
         /\ finished' = (finished \/ Concluded(cursor, TRUE))
         /\ UNCHANGED <<route, inclusive, window, goal, log, cursor, taken, lost, anchor>>

\* The server fails and closes cleanly, the transport breaks, what it carries
\* cannot be parsed; or a deadline passes, if the HTTP client has one although
\* a timeout is configured for the other requests.
Disconnect == /\ conn.up
              /\ faults < MaxFaults \/ StreamingHttp({}, TRUE).deadline
              /\ faults' = IF faults < MaxFaults THEN faults + 1 ELSE faults
              /\ Ended

\* The server has sent the last event asked for.
Close == /\ conn.up /\ conn.limit # 0 /\ conn.next > conn.limit
         /\ Ended /\ UNCHANGED faults

ENext == \/ \E id \in BOOLEAN : Emit(id)
         \/ DropMessage \/ Subscribe \/ Deliver \/ Disconnect \/ Close

ESpec == EInit /\ [][ENext]_evars

(***************************************************************************)
(* Properties.                                                             *)
(***************************************************************************)
\* Resuming by cursor passes over nothing but what the server dropped, on every
\* version of the API, whether the cursor is inclusive or not and whether every
\* event brings an id or not.
Reader == INSTANCE LogReader
ImplementsLogReader == Reader!LogSpec

\* A caller who resumes until it sees its goal among the ids comes to every event
\* that is not dropped: the transport ends no stream of its own, although a
\* timeout is configured, and None is not taken for the end of the events.
CatchesUp ==
  \A p \in 1..MaxLog :
    (p <= Len(log) /\ anchor # 0 /\ anchor <= p) ~> (p \in taken \cup lost)
=============================================================================
