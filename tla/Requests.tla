------------------------------ MODULE Requests ------------------------------
(***************************************************************************)
(* The requests under way in the API server.  The server has one database  *)
(* connection: a request takes it for one statement at a time, so that     *)
(* requests interleave between their statements, and a request whose       *)
(* client disconnects is dropped between two of them.                      *)
(***************************************************************************)
EXTENDS UserApi

CONSTANTS
  Task,      \* the tasks of the agent of a device, with one request each
  Walker     \* the user that walks through lists, page by page

Client == User \cup Task
ASSUME ClientAssumption == User \cap Task = {} /\ Walker \in User

VARIABLES
  server,    \* up, or down because it failed to start
  req,       \* the request of each client
  todo,      \* bounded: the calls each user still makes
  walk       \* the list the walker is going through, and what it saw of it

requestVars == <<server, req, todo, walk>>
cloudVars == <<dbVars, requestVars>>

NoRequest == [phase |-> "answered", steps |-> <<>>, status |-> 0, found |-> 0, made |-> 0]

-----------------------------------------------------------------------------
(* Lists.                                                                  *)

Column(rows, id, f) == IF f = "id" THEN id ELSE rows[id][f]
MatchingIn(rows, where) ==
  { id \in DOMAIN rows : \A f \in DOMAIN where : Column(rows, id, f) \in where[f] }
Matching(t, where) == MatchingIn(tables[t], where)

(* By id; pings by the time of the report, the latest first.               *)
Before(t, a, b) ==
  IF t = "pings" THEN tables[t][a].at > tables[t][b].at ELSE a < b
Preceding(t, where, r) == { o \in Matching(t, where) : Before(t, o, r) }

(* OFFSET and LIMIT: the rows whose places in the list are on page n.      *)
Offset(n, size) == (n - 1) * size
PageOf(t, where, n, size) ==
  { r \in Matching(t, where) :
      Cardinality(Preceding(t, where, r)) \in Offset(n, size)..(Offset(n, size) + size - 1) }

BugPages(total, size) == total \div size
Pages(total, size) == (total + size - 1) \div size     \* div_ceil

NoWalk == [table |-> "none", where |-> Everything, size |-> 1, page |-> 0, total |-> 0,
           seen |-> {}, stay |-> {}, gone |-> {}, came |-> {}]
Walking == walk.page > 0

StartWalk(s) ==
  walk' = [table |-> s.table, where |-> s.where, size |-> s.size, page |-> 1, total |-> 0,
           seen |-> {}, stay |-> Matching(s.table, s.where), gone |-> {}, came |-> {}]

(* What a change of the tables means for the walk.                         *)
Observe ==
  LET old == Matching(walk.table, walk.where)
      new == MatchingIn(tables'[walk.table], walk.where)
      moved == IF walk.table # "pings" THEN {}
               ELSE { i \in old \cap new : tables[walk.table][i].at # tables'[walk.table][i].at }
      fetching == req[Walker].phase = "run" /\ req[Walker].steps[1].do = "fetch"
  IN walk' = IF ~Walking THEN walk
             ELSE [walk EXCEPT !.stay = (@ \cap new) \ moved, !.gone = @ \cup (old \ new),
                               !.came = IF fetching THEN @ \cup (new \ old) \cup moved ELSE @]

-----------------------------------------------------------------------------
(* A request from its arrival to its answer.                               *)

Answer(c, status) == req' = [req EXCEPT ![c] = [NoRequest EXCEPT !.status = status]]

Proceed(c, found, made) ==
  IF Len(req[c].steps) = 1 THEN Answer(c, req[c].status)
  ELSE req' = [req EXCEPT ![c].steps = Tail(@), ![c].found = found, ![c].made = made]

Start(c, handler, phase) ==
  req' = [req EXCEPT ![c] = [phase |-> phase, steps |-> handler.steps,
                             status |-> handler.status, found |-> 0, made |-> 0]]

Run(c, handler) ==
  IF handler.steps = <<>> THEN Answer(c, handler.status) ELSE Start(c, handler, "run")

(* A user sends the next request; its token is verified, with no wait.     *)
Send(c) ==
  /\ server = "up"
  /\ req[c].phase = "answered"
  /\ todo[c] # <<>>
  /\ Start(c, Head(todo[c]), "upsert")
  /\ todo' = [todo EXCEPT ![c] = Tail(@)]
  /\ IF c = Walker /\ IsList(Head(todo[c])) /\ ~Walking THEN StartWalk(Head(todo[c]).steps[1])
     ELSE UNCHANGED walk
  /\ UNCHANGED <<dbVars, server>>

MiddlewareUpserts(c) ==
  /\ req[c].phase = "upsert"
  /\ UpsertUser(c)
  /\ req' = [req EXCEPT ![c].phase = "set"]
  /\ UNCHANGED <<server, todo, walk>>

(* jwt_middleware sets the user of the connection, then calls the handler. *)
MiddlewareSets(c) ==
  /\ req[c].phase = "set"
  /\ SetSessionUser(c)
  /\ Run(c, req[c])
  /\ UNCHANGED <<server, todo, walk>>

-----------------------------------------------------------------------------
(* Statements.                                                             *)

Refused(c, status) == Answer(c, status) /\ UNCHANGED <<dbVars, todo, walk>>

ExecuteInsert(c, s) ==
  LET id == nextId[s.table] IN
  /\ s.do = "insert"
  /\ \/ /\ Allowed(tables, s.table, id, s.row)
        /\ PutRow(s.table, id, s.row)
        /\ nextId' = [nextId EXCEPT ![s.table] = @ + 1]
        /\ Proceed(c, req[c].found, id)
        /\ Observe /\ UNCHANGED todo
     \/ ~Allowed(tables, s.table, id, s.row) /\ Refused(c, 500)

(* A row that is found, and what is known of it while it may change.       *)
ExecuteFind(c, s) ==
  /\ s.do = "find"
  /\ \/ \E id \in Matching(s.table, s.where) :
          Proceed(c, id, 0) /\ UNCHANGED <<dbVars, todo, walk>>
     \/ Matching(s.table, s.where) = {} /\ Refused(c, s.otherwise)

(* ActiveModel::update: the columns that are set, of the row with this id; *)
(* with none, the row is only read.                                        *)
Updated(c, s) ==
  LET columns == IF s.do = "supersede" THEN [superseded_by |-> req[c].made] ELSE s.columns
  IN [f \in DOMAIN RowOf(s.table, req[c].found) |->
        IF f \in DOMAIN columns THEN columns[f] ELSE RowOf(s.table, req[c].found)[f]]

ExecuteUpdate(c, s) ==
  LET id == req[c].found IN
  /\ s.do \in {"set", "supersede"}
  /\ \/ /\ id \in DOMAIN tables[s.table] /\ Allowed(tables, s.table, id, Updated(c, s))
        /\ s.do = "set" => DOMAIN s.columns # {}
        /\ PutRow(s.table, id, Updated(c, s))
        /\ Proceed(c, id, req[c].made)
        /\ Observe /\ UNCHANGED <<nextId, todo>>
     \/ /\ s.do = "set" /\ DOMAIN s.columns = {} /\ id \in DOMAIN tables[s.table]
        /\ Proceed(c, id, req[c].made)
        /\ UNCHANGED <<dbVars, todo, walk>>
     \/ /\ id \notin DOMAIN tables[s.table] \/ ~Allowed(tables, s.table, id, Updated(c, s))
        /\ Refused(c, 500)

ExecuteDelete(c, s) ==
  /\ s.do = "delete"
  /\ \/ /\ s.id \in DOMAIN tables[s.table] /\ ~Referenced(s.table, s.id)
        /\ RemoveRow(s.table, s.id)
        /\ Proceed(c, s.id, 0)
        /\ Observe /\ UNCHANGED todo
     \/ s.id \in DOMAIN tables[s.table] /\ Referenced(s.table, s.id) /\ Refused(c, 500)
     \/ s.id \notin DOMAIN tables[s.table] /\ Refused(c, 404)

(* Whether it removed the row does not matter to the handler.              *)
ExecuteDiscard(c, s) ==
  /\ s.do = "discard"
  /\ Proceed(c, 0, 0)
  /\ \/ /\ req[c].found \in DOMAIN tables[s.table]
        /\ RemoveRow(s.table, req[c].found)
        /\ Observe /\ UNCHANGED todo
     \/ req[c].found \notin DOMAIN tables[s.table] /\ UNCHANGED <<dbVars, todo, walk>>

(* INSERT ... ON CONFLICT DO UPDATE; a ping is now the latest report: its  *)
(* stamp, taken just before the statement waits for the connection, is     *)
(* taken to be the time at which it runs.                                  *)
Latest(t, id) == \A o \in DOMAIN tables[t] \ {id} : tables[t][o].at < tables[t][id].at
NextTime(t) == 1 + Max({0} \cup { tables[t][o].at : o \in DOMAIN tables[t] })
Stamped(t, id, row) ==
  IF t # "pings" \/ (id \in DOMAIN tables[t] /\ Latest(t, id)) THEN row
  ELSE [row EXCEPT !.at = NextTime(t)]

ExecuteUpsert(c, s) ==
  LET t == s.table
      same == { o \in DOMAIN tables[t] : Same(tables[t][o], s.row, Unique(t)) }
      fresh == IF t = "pings" THEN s.row.device ELSE nextId[t]
  IN
  /\ s.do = "upsert"
  /\ \/ \E id \in same :
          /\ PutRow(t, id, Stamped(t, id, [f \in DOMAIN s.row |->
               IF f \in DOMAIN s.columns THEN s.columns[f] ELSE tables[t][id][f]]))
          /\ Proceed(c, id, 0)
          /\ Observe /\ UNCHANGED <<nextId, todo>>
     \/ /\ same = {} /\ ReferencesHold(tables, t, s.row)
        /\ PutRow(t, fresh, Stamped(t, fresh, s.row))
        /\ nextId' = IF t = "pings" THEN nextId ELSE [nextId EXCEPT ![t] = @ + 1]
        /\ Proceed(c, fresh, 0)
        /\ Observe /\ UNCHANGED todo
     \/ same = {} /\ ~ReferencesHold(tables, t, s.row) /\ Refused(c, 500)

ExecuteCount(c, s) ==
  /\ s.do = "count"
  /\ walk' = IF c # Walker THEN walk
             ELSE [walk EXCEPT !.total = Cardinality(Matching(s.table, s.where))]
  /\ Proceed(c, 0, 0)
  /\ UNCHANGED <<dbVars, todo>>

(* The rows of one page, and the client asks for the next one, if the      *)
(* answer says there is one.                                               *)
ExecuteFetch(c, s) ==
  LET page == PageOf(s.table, s.where, walk.page, s.size)
      more == c = Walker /\ walk.page < Pages(walk.total, s.size)
  IN
  /\ s.do = "fetch"
  /\ Proceed(c, 0, 0)
  /\ walk' = IF c # Walker THEN walk
             ELSE [walk EXCEPT !.seen = @ \cup page, !.page = IF more THEN @ + 1 ELSE -1]
  /\ todo' = IF more
             THEN [todo EXCEPT ![c] = << Listing(s.size, List(s.table, s.where, s.size)) >> \o @]
             ELSE todo
  /\ UNCHANGED dbVars

Execute(c) ==
  /\ req[c].phase = "run"
  /\ LET s == Head(req[c].steps) IN
       \/ ExecuteInsert(c, s) \/ ExecuteFind(c, s) \/ ExecuteUpdate(c, s)
       \/ ExecuteDelete(c, s) \/ ExecuteDiscard(c, s) \/ ExecuteUpsert(c, s)
       \/ ExecuteCount(c, s) \/ ExecuteFetch(c, s)
  /\ UNCHANGED server

-----------------------------------------------------------------------------

(* The client is gone: its request ends where it waits.                    *)
Disconnect(c) ==
  /\ req[c].phase # "answered"
  /\ Answer(c, 0)
  /\ walk' = IF c = Walker THEN NoWalk ELSE walk
  /\ UNCHANGED <<dbVars, server, todo>>

(* The server stops, with the requests under way, and starts again; if it  *)
(* cannot reconcile the triggers it does not come up.                      *)
Restart(tracked) ==
  /\ Reconcile(tracked)
  /\ server' = IF Reconciles(tracked) THEN "up" ELSE "down"
  /\ req' = [c \in Client |-> NoRequest]
  /\ walk' = NoWalk
  /\ UNCHANGED todo

RequestsInit(calls) ==
  /\ server = "up"
  /\ req = [c \in Client |-> NoRequest]
  /\ todo = calls
  /\ walk = NoWalk

UserStep(c) == Send(c) \/ MiddlewareUpserts(c) \/ MiddlewareSets(c) \/ Execute(c)

-----------------------------------------------------------------------------

RequestsTypeOK ==
  /\ server \in {"up", "down"}
  /\ \A c \in Client :
       /\ req[c].phase \in {"upsert", "set", "auth", "run", "answered"}
       /\ req[c].phase = "run" => req[c].steps # <<>>
  /\ server = "down" => \A c \in Client : req[c].phase = "answered"

(* A client that reads a list page by page, to the last page it was told   *)
(* of, has seen every row that was in the list all along, unless a row     *)
(* before it left the list, or came into it between the COUNT and the rows *)
(* of a page; pings, the latest first, can only come in (pagination.rs:    *)
(* 23-40, common/src/lib.rs:23-32, the list functions of db).              *)
WalkEnded == walk.page = -1
WalkSeesWhatStays ==
  WalkEnded => \A r \in walk.stay \ walk.seen :
    IF walk.table = "pings" THEN walk.came # {}
    ELSE \E g \in walk.gone \cup walk.came : g < r
=============================================================================
