------------------------------ MODULE Assignments ------------------------------
(***************************************************************************)
(* The target state the API server keeps for its devices, and the requests *)
(* that read and write it (api-server/src/api_v1/db, routes): a table of   *)
(* definitions, os_versions or application_configs, and a table of         *)
(* assignments of them to devices and groups.  Rows are never changed in   *)
(* place: an edit inserts a row and marks the old one superseded, a delete *)
(* marks it deleted.                                                       *)
(*                                                                         *)
(* The server has one database connection.  A request takes it for each of *)
(* its statements, so that requests interleave between statements, except  *)
(* for a POST, whose transaction holds it to the end.  One statement is    *)
(* one action; a request that ends without having written anything (an    *)
(* unknown id, a body that is refused) changes nothing and is left out.    *)
(***************************************************************************)
EXTENDS Naturals, Sequences

CONSTANTS
  Client,          \* administrators, with one request in flight each
  Device, Group,   \* what an assignment may name as its owner
  NoOwner,         \* the device or group column that is not set
  Name,            \* the commit_hash of an OS version
  App,             \* the applications configs belong to
  Setting,         \* what a run is about: which tables, in which database,
                   \* and a bound on the requests of administrators
  Seed,            \* for each area, the tables a run starts with
  HomeGroup,       \* the group each device is in at first
  MaxEvents        \* bound on abandoned requests and group changes together

Owner == Device \cup Group
Table == {"defs", "asgs"}
Free == "free"   \* of the connection

ASSUME ClientAssumption == Free \notin Client
ASSUME OwnerAssumption ==
  /\ Device \cap Group = {}
  /\ NoOwner \notin Owner
ASSUME SettingAssumption ==
  Setting \subseteq [area : {"os", "apps"}, backend : {"postgres", "sqlite"}, requests : Nat]
ASSUME BoundAssumption == MaxEvents \in Nat

ASSUME SeedAssumption ==
  /\ HomeGroup \in [Device -> Group \cup {NoOwner}]
  /\ \A a \in {"os", "apps"} :
       /\ Seed[a] \in [Table -> Seq([ref : Name \cup App \cup Nat, owner : Owner \cup {NoOwner},
                                   deleted : {FALSE}, by : {0}])]
       /\ \A i \in DOMAIN Seed[a]["asgs"] : Seed[a]["asgs"][i].ref \in DOMAIN Seed[a]["defs"]

VARIABLES
  setting,         \* the tables and the database of this behaviour
  db,              \* the rows of both tables; a row's id is its position
  conn,            \* who holds the one connection in an open transaction
  req,             \* the request each administrator has in flight
  groupOf,         \* the group of each device
  ask,             \* the request for its target state each device has in flight
  requests, events   \* bounded counters

vars == <<setting, db, conn, req, groupOf, ask, requests, events>>

Idle == [pc |-> "idle"]

Ids(t) == DOMAIN db[t]

(* What a row holds besides its bookkeeping.  An assignment refers to a    *)
(* definition that has a row, whether or not the row is still active.      *)
Body(t) ==
  IF t = "asgs" THEN [ref : Ids("defs"), owner : Owner]
  ELSE IF setting.area = "os" THEN [ref : Name, owner : {NoOwner}]
  ELSE [ref : App, owner : Owner]

Row(x) == [ref |-> x.ref, owner |-> x.owner, deleted |-> FALSE, by |-> 0]

IsActive(r) == ~r.deleted /\ r.by = 0
Active(t) == {i \in Ids(t) : IsActive(db[t][i])}

(* The key of which there is to be one active row: the owner of an OS      *)
(* assignment, the application and the owner of a config, the config and   *)
(* the owner of an application assignment; OS versions have none.          *)
SameKey(t, x, y) ==
  /\ x.owner = y.owner
  /\ IF setting.area = "os" THEN t = "asgs" ELSE x.ref = y.ref

Holders(t, x) == {i \in Active(t) : SameKey(t, db[t][i], x)}

(* PostgreSQL has a unique index on the key of the active rows, checked by *)
(* every insert; the migration creates none in SQLite.                     *)
Accepts(t, x) == setting.backend = "postgres" => Holders(t, x) = {}

-----------------------------------------------------------------------------
(* Requests of administrators.                                             *)

Receive ==
  /\ conn = Free
  /\ requests < setting.requests
  /\ requests' = requests + 1

Respond(c) == req' = [req EXCEPT ![c] = Idle] /\ UNCHANGED requests

(* POST opens a transaction and reads the rows the new one will supersede. *)
PostBegin(c) ==
  /\ req[c] = Idle /\ Receive
  /\ \E t \in Table : \E x \in Body(t) :
       req' = [req EXCEPT ![c] =
                 [pc |-> "post", table |-> t, body |-> x, old |-> Holders(t, x)]]
  /\ conn' = c
  /\ UNCHANGED <<setting, db, groupOf, ask, events>>

(* A definition whose name starts with Bug is the definition after it with *)
(* a plausible mistake in the code.  Nothing uses it: it is substituted to *)
(* show that a property notices the mistake.                               *)

(* The insert, the supersessions and the commit.                           *)
PostCommit(c) ==
  /\ req[c].pc = "post" /\ conn = c
  /\ LET t == req[c].table
         new == Len(db[t]) + 1
     IN /\ Accepts(t, req[c].body)
        /\ db' = [db EXCEPT ![t] =
                    Append([i \in Ids(t) |-> IF i \in req[c].old
                                             THEN [db[t][i] EXCEPT !.by = new]
                                             ELSE db[t][i]],
                           Row(req[c].body))]
  /\ conn' = Free
  /\ Respond(c)
  /\ UNCHANGED <<setting, groupOf, ask, events>>

BugPostRefused(c) ==
  /\ req[c].pc = "post" /\ conn = c
  /\ ~Accepts(req[c].table, req[c].body)
  /\ Respond(c)
  /\ UNCHANGED <<setting, db, conn, groupOf, ask, events>>

(* The unique index refuses the insert, and the transaction is rolled back. *)
PostRefused(c) ==
  /\ req[c].pc = "post" /\ conn = c
  /\ ~Accepts(req[c].table, req[c].body)
  /\ conn' = Free
  /\ Respond(c)
  /\ UNCHANGED <<setting, db, groupOf, ask, events>>

BugPutFind(c) ==
  /\ req[c] = Idle /\ Receive
  /\ \E t \in Table : \E i \in Active(t), x \in Body(t) :
       /\ req' = [req EXCEPT ![c] = [pc |-> "insert", table |-> t, id |-> i, body |-> x]]
       /\ db' = [db EXCEPT ![t][i].by = Len(db[t]) + 1]
  /\ UNCHANGED <<setting, conn, groupOf, ask, events>>

(* PUT finds the active row it replaces ...                                *)
PutFind(c) ==
  /\ req[c] = Idle /\ Receive
  /\ \E t \in Table : \E i \in Active(t), x \in Body(t) :
       req' = [req EXCEPT ![c] = [pc |-> "insert", table |-> t, id |-> i, body |-> x]]
  /\ UNCHANGED <<setting, db, conn, groupOf, ask, events>>

BugPutInsert(c) ==
  /\ req[c].pc = "insert" /\ conn = Free
  /\ LET t == req[c].table IN
       /\ db' = [db EXCEPT ![t][req[c].id] = Row(req[c].body)]
       /\ Respond(c)
  /\ UNCHANGED <<setting, conn, groupOf, ask, events>>

(* ... inserts its successor ...                                           *)
PutInsert(c) ==
  /\ req[c].pc = "insert" /\ conn = Free
  /\ LET t == req[c].table IN
       /\ Accepts(t, req[c].body)
       /\ db' = [db EXCEPT ![t] = Append(@, Row(req[c].body))]
       /\ req' = [req EXCEPT ![c] = [pc |-> "supersede", table |-> t, id |-> req[c].id,
                                     new |-> Len(db[t]) + 1]]
  /\ UNCHANGED <<setting, conn, groupOf, ask, requests, events>>

(* (or is refused by the index) ...                                        *)
PutRefused(c) ==
  /\ req[c].pc = "insert" /\ conn = Free
  /\ ~Accepts(req[c].table, req[c].body)
  /\ Respond(c)
  /\ UNCHANGED <<setting, db, conn, groupOf, ask, events>>

(* ... and supersedes the row, whatever has become of it in the meantime.  *)
PutSupersede(c) ==
  /\ req[c].pc = "supersede" /\ conn = Free
  /\ db' = [db EXCEPT ![req[c].table][req[c].id].by = req[c].new]
  /\ Respond(c)
  /\ UNCHANGED <<setting, conn, groupOf, ask, events>>

DeleteFind(c) ==
  /\ req[c] = Idle /\ Receive
  /\ \E t \in Table : \E i \in Active(t) :
       req' = [req EXCEPT ![c] = [pc |-> "delete", table |-> t, id |-> i]]
  /\ UNCHANGED <<setting, db, conn, groupOf, ask, events>>

DeleteMark(c) ==
  /\ req[c].pc = "delete" /\ conn = Free
  /\ db' = [db EXCEPT ![req[c].table][req[c].id].deleted = TRUE]
  /\ Respond(c)
  /\ UNCHANGED <<setting, conn, groupOf, ask, events>>

(* A statement fails, or the handler is dropped with its client's          *)
(* connection: what was committed stays, an open transaction is undone.    *)
Abandon(c) ==
  /\ req[c] # Idle
  /\ events < MaxEvents
  /\ events' = events + 1
  /\ conn' = IF conn = c THEN Free ELSE conn
  /\ Respond(c)
  /\ UNCHANGED <<setting, db, groupOf, ask>>

(* PUT or PATCH /devices moves a device to another group.                  *)
MoveDevice(d) ==
  /\ conn = Free /\ events < MaxEvents
  /\ \E g \in Group \cup {NoOwner} : g # groupOf[d] /\ groupOf' = [groupOf EXCEPT ![d] = g]
  /\ events' = events + 1
  /\ UNCHANGED <<setting, db, conn, req, ask, requests>>

-----------------------------------------------------------------------------
(* A device asks what it should run: GET /device/os, GET /device/apps.     *)

Applies(d, g) == {i \in Active("asgs") : db["asgs"][i].owner \in {d, g}}

IsDirect(i) == db["asgs"][i].owner \in Device
Definition(i) == db["asgs"][i].ref

BugBefore(i, j) ==
  IF IsDirect(i) = IsDirect(j) THEN i <= j
  ELSE IsDirect(i) = (setting.backend = "postgres")

(* ORDER BY device_id DESC, id ASC: a group's row has no device_id, and    *)
(* NULL is the largest value in PostgreSQL, the smallest in SQLite.        *)
Before(i, j) ==
  IF IsDirect(i) = IsDirect(j) THEN i <= j
  ELSE IsDirect(i) = (setting.backend = "sqlite")

First(S) == CHOOSE i \in S : \A j \in S : Before(i, j)

(* A device runs one OS, and one config of each application.               *)
SameApplication(i, j) ==
  setting.area = "apps" => db["defs"][Definition(i)].ref = db["defs"][Definition(j)].ref

BugWinners(S) == {i \in S : Definition(i) \in Active("defs")}

(* The first assignment of each application, among those whose config is   *)
(* active.                                                                 *)
Winners(S) ==
  LET live == {i \in S : Definition(i) \in Active("defs")}
  IN {i \in live : \A j \in live : SameApplication(i, j) => Before(i, j)}

(* What the device should run, if it is in group g.                        *)
TargetOf(d, g) ==
  LET all == Applies(d, g) IN
  IF setting.area = "apps" THEN Winners(all)
  ELSE {i \in all : i = First(all) /\ Definition(i) \in Active("defs")}

AskGoto(d, s) ==
  /\ ask' = [ask EXCEPT ![d] = s]
  /\ UNCHANGED <<setting, db, conn, req, groupOf, requests, events>>

(* Answered when nothing is left to look up.  target and seen are history: *)
(* the target at the moment of the list, and how many rows it saw.         *)
Lookup(a, todo, served) ==
  [pc |-> IF todo = {} THEN "answered" ELSE "lookup",
   todo |-> todo, served |-> served, target |-> a.target, seen |-> a.seen]

(* The middleware reads the device and its group.                          *)
AskAuth(d) ==
  /\ ask[d].pc \in {"idle", "answered", "failed"} /\ conn = Free
  /\ AskGoto(d, [pc |-> "list", group |-> groupOf[d]])

Listed(d) == [target |-> TargetOf(d, ask[d].group), seen |-> Len(db["asgs"])]

AskListOs(d) ==
  /\ ask[d].pc = "list" /\ conn = Free /\ setting.area = "os"
  /\ LET all == Applies(d, ask[d].group) IN
       AskGoto(d, IF all = {} THEN [pc |-> "failed"]
                  ELSE Lookup(Listed(d), {First(all)}, {}))

AskListApps(d) ==
  /\ ask[d].pc = "list" /\ conn = Free /\ setting.area = "apps"
  /\ AskGoto(d, [pc |-> "dedup", all |-> Applies(d, ask[d].group),
                 target |-> Listed(d).target, seen |-> Listed(d).seen])

AskDedup(d) ==
  /\ ask[d].pc = "dedup" /\ conn = Free
  /\ AskGoto(d, Lookup(ask[d], Winners(ask[d].all), {}))

BugAskLookup(d) ==
  /\ ask[d].pc = "lookup" /\ conn = Free
  /\ LET i == First(ask[d].todo) IN
       AskGoto(d, Lookup(ask[d], ask[d].todo \ {i}, ask[d].served \cup {i}))

(* The definitions are read one by one; one that is gone leaves no trace   *)
(* in a list of applications, and fails the request for an OS.             *)
AskLookup(d) ==
  /\ ask[d].pc = "lookup" /\ conn = Free
  /\ LET i == First(ask[d].todo)
         rest == ask[d].todo \ {i}
         found == Definition(i) \in Active("defs")
     IN AskGoto(d, IF found THEN Lookup(ask[d], rest, ask[d].served \cup {i})
                   ELSE IF setting.area = "os" THEN [pc |-> "failed"]
                   ELSE Lookup(ask[d], rest, ask[d].served))

-----------------------------------------------------------------------------
Init ==
  /\ setting \in Setting
  /\ db = Seed[setting.area]
  /\ conn = Free
  /\ req = [c \in Client |-> Idle]
  /\ groupOf = HomeGroup
  /\ ask = [d \in Device |-> Idle]
  /\ requests = 0 /\ events = 0

Next ==
  \/ \E c \in Client :
       \/ PostBegin(c) \/ PostCommit(c) \/ PostRefused(c)
       \/ PutFind(c) \/ PutInsert(c) \/ PutRefused(c) \/ PutSupersede(c)
       \/ DeleteFind(c) \/ DeleteMark(c)
       \/ Abandon(c)
  \/ \E d \in Device :
       \/ AskAuth(d) \/ AskListOs(d) \/ AskListApps(d) \/ AskDedup(d) \/ AskLookup(d)
       \/ MoveDevice(d)

Spec == Init /\ [][Next]_vars

-----------------------------------------------------------------------------
AskPC == {"idle", "list", "dedup", "lookup", "answered", "failed"}

RowType == [ref : Name \cup App \cup Nat, owner : Owner \cup {NoOwner},
            deleted : BOOLEAN, by : Nat]

(* Type correctness; what a request holds refers to rows that exist, an    *)
(* assignment to a definition that exists, and only a transaction holds    *)
(* the connection.                                                         *)
TypeOK ==
  /\ setting \in Setting
  /\ db \in [Table -> Seq(RowType)]
  /\ \A i \in Ids("asgs") : Definition(i) \in Ids("defs")
  /\ conn \in Client \cup {Free}
  /\ \A c \in Client :
       /\ conn = c <=> req[c].pc = "post"
       /\ req[c].pc \in {"insert", "supersede", "delete"} => req[c].id \in Ids(req[c].table)
       /\ req[c].pc = "supersede" => req[c].new \in Ids(req[c].table)
  /\ groupOf \in [Device -> Group \cup {NoOwner}]
  /\ \A d \in Device : ask[d].pc \in AskPC
  /\ requests \in 0..setting.requests /\ events \in 0..MaxEvents

(* The tables are append-only histories, whatever requests race: a row     *)
(* keeps what it says, one that was replaced or deleted never comes back,  *)
(* and a replaced row points to a later one, so that the chain of its      *)
(* successors ends (api-server/src/api_v1/db/*.rs, "append-only").         *)
HistoryIsKept ==
  [][\A t \in Table : \A i \in Ids(t) :
       /\ Len(db[t]) <= Len(db'[t])
       /\ LET r == db[t][i]
              r2 == db'[t][i]
          IN /\ r2.ref = r.ref /\ r2.owner = r.owner
             /\ ~IsActive(r) => ~IsActive(r2)
             /\ r2.by # r.by => i < r2.by /\ r2.by <= Len(db'[t])]_vars

(* The request that c is about to finish takes the key of row r away: it   *)
(* deletes, or supersedes by a row of another key or one no longer active. *)
Withdraws(c, t, r) ==
  \/ req[c].pc = "delete"
  \/ /\ req[c].pc = "supersede"
     /\ LET n == db[req[c].table][req[c].new] IN ~IsActive(n) \/ ~SameKey(t, n, r)

(* A roll-out leaves no gap: whoever had an active row of a key keeps one  *)
(* until a request deletes it, moves it to another key, or replaces it by  *)
(* a row that has itself been withdrawn since.  A POST and the insert of a *)
(* PUT come before the supersession (os_assignments.rs:123, :176).         *)
NoGap ==
  [][\A t \in Table : \A i \in Active(t) :
       \/ Holders(t, db[t][i]) = {} \/ Holders(t, db[t][i])' # {}
       \/ \E c \in Client : req'[c] # req[c] /\ Withdraws(c, t, db[t][i])]_vars

(* The OS a device is told to run is the one assigned to it, in the group  *)
(* it was authenticated in, at the moment the assignments were listed,     *)
(* though its version is read in a statement of its own after other        *)
(* requests have edited both tables (routes/device/os.rs:44).              *)
OsAnswerIsCurrent ==
  \A d \in Device :
    setting.area = "os" /\ ask[d].pc = "answered" => ask[d].served = ask[d].target

(* No answer holds two configs of one application, although assignments,   *)
(* configs and every single config are read at different moments: two      *)
(* would be one container name asked for twice                             *)
(* (application_assignments.rs:90).                                        *)
OneConfigPerApplication ==
  \A d \in Device : ask[d].pc = "answered" =>
    \A i, j \in ask[d].served : SameApplication(i, j) => i = j

(* "a assignment with device_id will always win against a assignment with  *)
(* group_id" (application_assignments.rs:92, os_assignments.rs:64): what a *)
(* device is served by way of its group is not assigned to it directly,    *)
(* by an assignment that was listed and is still in force.                 *)
DeviceWins ==
  \A d \in Device : ask[d].pc = "answered" =>
    \A i \in ask[d].served : ~IsDirect(i) =>
      ~\E j \in Applies(d, d) : /\ j <= ask[d].seen
                                /\ Definition(j) \in Active("defs")
                                /\ SameApplication(i, j)

DeviceWinsOnSqlite == setting.backend = "sqlite" => DeviceWins

(* "PUT /os-assignments/{id} - repoint an assignment to a different OS     *)
(* version or target" (Update OS Assignment.bru:27): a PUT is refused only *)
(* when a row other than the one it replaces holds the key.                *)
RepointIsAccepted ==
  [][\A c \in Client :
       LET t == req[c].table IN
       req[c].pc = "insert" /\ req'[c] = Idle /\ events' = events
         => \E i \in Holders(t, req[c].body) : i # req[c].id]_vars

(* "The device picks the new version up on its next poll" (Update App      *)
(* Config.bru:35): once a PUT has replaced a config by another of the same *)
(* application and owner, a device it was assigned to is told to run the   *)
(* new one.                                                                *)
EditReachesDevice ==
  [][\A c \in Client : \A d \in Device :
       LET old == req[c].id
           new == req[c].new
       IN /\ req[c].pc = "supersede" /\ req[c].table = "defs" /\ req'[c] = Idle
          /\ db' # db
          /\ SameKey("defs", db["defs"][old], db["defs"][new])
          /\ \E i \in Applies(d, d) : Definition(i) = old
          => \E j \in TargetOf(d, groupOf[d])' : Definition(j)' = new]_vars
=============================================================================
