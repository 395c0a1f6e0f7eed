------------------------------- MODULE UserApi -------------------------------
(***************************************************************************)
(* What each endpoint of the API server asks of the database: the handlers *)
(* (api_v1/routes) and the queries they are built from (api_v1/db).  A     *)
(* query is a sequence of statements; a handler is the queries it runs and *)
(* its status code, or the status code with which it refuses a body.       *)
(* Statements are executed in module Requests, those of assignments and    *)
(* application configs in module Assignments.                              *)
(***************************************************************************)
EXTENDS Database, FiniteSetsExt, Functions

CONSTANT Blank      \* text that is empty once trimmed

-----------------------------------------------------------------------------
(* Statements.  A "find" takes one of the rows that match and answers      *)
(* otherwise; "set" and "supersede" then change that row.                  *)

Insert(t, row)           == [do |-> "insert", table |-> t, row |-> row]
Find(t, where, otherwise) ==
  [do |-> "find", table |-> t, where |-> where, otherwise |-> otherwise]
Set(t, columns)          == [do |-> "set", table |-> t, columns |-> columns]
Supersede(t)             == [do |-> "supersede", table |-> t]
Delete(t, id)            == [do |-> "delete", table |-> t, id |-> id]
DeleteFound(t)           == [do |-> "discard", table |-> t]
Upsert(t, row, columns)  ==
  [do |-> "upsert", table |-> t, row |-> row, columns |-> columns]

ById(id) == [id |-> {id}]
Everything == <<>>

(* paginate: COUNT, then the rows of the page.                             *)
List(t, where, size) ==
  << [do |-> "count", table |-> t, where |-> where, size |-> size],
     [do |-> "fetch", table |-> t, where |-> where, size |-> size] >>

(* What the queries of the code keep to, whatever ids and bodies they are  *)
(* given: a ping is only ever upserted, from a device, and never removed;  *)
(* an upsert leaves what is unique and what refers to other rows alone;    *)
(* only a pending registration, to which nothing refers, is removed        *)
(* without more ado; the list of the pings is not filtered.                *)
IsSequence(q) == q \in Seq(Range(q))
IsQuery(s) ==
  /\ s.table \in Table
  /\ \/ s.do = "find"
     \/ s.do \in {"insert", "set", "supersede", "delete"} /\ s.table # "pings"
     \/ s.do = "discard" /\ s.table = "pending"
     \/ /\ s.do = "upsert" /\ s.table \in {"pings", "reported_os", "reported_apps"}
        /\ Unique(s.table) \subseteq DOMAIN s.row \ DOMAIN s.columns
        /\ s.table = "pings" => "at" \in DOMAIN s.row \ DOMAIN s.columns
     \/ /\ s.do \in {"count", "fetch"} /\ s.size \in 1..200
        /\ s.table = "pings" => s.where = Everything

-----------------------------------------------------------------------------
(* Handlers.                                                               *)

Reply(queries, status)  == [steps |-> queries, status |-> status]
Refuse(status)          == [steps |-> <<>>, status |-> status]
Unless(bad, queries, status) == IF bad THEN Refuse(422) ELSE Reply(queries, status)

IsList(handler) == handler.steps # <<>> /\ handler.steps[1].do = "count"
IsHandler(h) ==
  /\ IsSequence(h.steps)
  /\ \A i \in DOMAIN h.steps : IsQuery(h.steps[i])
  /\ IF IsList(h)
     THEN h.steps = List(h.steps[1].table, h.steps[1].where, h.steps[1].size)
     ELSE \A i \in DOMAIN h.steps : h.steps[i].do \notin {"count", "fetch"}

(* PageParams::validate, for the page numbers a client walks through.      *)
Listing(size, queries) == Unless(size \notin 1..200, queries, 200)

TenantQueries(id, b) ==
  [ list   |-> List("tenants", [name |-> b.like], b.size),
    get    |-> << Find("tenants", ById(id), 404) >>,
    add    |-> << Insert("tenants", [name |-> b.name, more |-> b.more]) >>,
    update |-> << Find("tenants", ById(id), 500),
                  Set("tenants", [name |-> b.name, more |-> b.more]) >>,
    delete |-> << Delete("tenants", id) >> ]

Tenants(id, b) == LET q == TenantQueries(id, b) IN
  [ list   |-> Listing(b.size, q.list),
    get    |-> Reply(q.get, 200),
    post   |-> Unless(b.name = Blank, q.add, 201),
    put    |-> Unless(b.name = Blank, q.update, 200),
    delete |-> Reply(q.delete, 204) ]

GroupQueries(id, b) ==
  [ list   |-> List("groups", [name |-> b.like], b.size),
    get    |-> << Find("groups", ById(id), 404) >>,
    add    |-> << Insert("groups", [name |-> b.name]) >>,
    update |-> << Find("groups", ById(id), 500), Set("groups", [name |-> b.name]) >>,
    delete |-> << Delete("groups", id) >> ]

Groups(id, b) == LET q == GroupQueries(id, b) IN
  [ list   |-> Listing(b.size, q.list),
    get    |-> Reply(q.get, 200),
    post   |-> Unless(b.name = Blank, q.add, 201),
    put    |-> Unless(b.name = Blank, q.update, 200),
    delete |-> Reply(q.delete, 204) ]

ApplicationQueries(id, b) ==
  [ list   |-> List("applications", [name |-> b.like], b.size),
    get    |-> << Find("applications", ById(id), 404) >>,
    add    |-> << Insert("applications", [name |-> b.name, more |-> b.more]) >>,
    update |-> << Find("applications", ById(id), 500),
                  Set("applications", [name |-> b.name, more |-> b.more]) >>,
    delete |-> << Delete("applications", id) >> ]

Applications(id, b) == LET q == ApplicationQueries(id, b) IN
  [ list   |-> Listing(b.size, q.list),
    get    |-> Reply(q.get, 200),
    post   |-> Unless(b.name = Blank, q.add, 201),
    put    |-> Unless(b.name = Blank, q.update, 200),
    delete |-> Reply(q.delete, 204) ]

(* A version is never changed or removed: PUT appends one and marks the    *)
(* old one superseded, DELETE marks it deleted.                            *)
Live == [deleted |-> {FALSE}, superseded_by |-> {Null}]
LiveById(id) == [id |-> {id}, deleted |-> {FALSE}, superseded_by |-> {Null}]
NewVersion(b) ==
  [name |-> b.name, more |-> b.more, deleted |-> FALSE, superseded_by |-> Null]

OsVersionQueries(id, b) ==
  [ list   |-> List("os_versions", Live, b.size),
    get    |-> << Find("os_versions", LiveById(id), 404) >>,
    add    |-> << Insert("os_versions", NewVersion(b)) >>,
    update |-> << Find("os_versions", LiveById(id), 500),
                  Insert("os_versions", NewVersion(b)), Supersede("os_versions") >>,
    delete |-> << Find("os_versions", LiveById(id), 404),
                  Set("os_versions", [deleted |-> TRUE]) >> ]

OsVersions(id, b) == LET q == OsVersionQueries(id, b) IN
  [ list   |-> Listing(b.size, q.list),
    get    |-> Reply(q.get, 200),
    post   |-> Unless(Blank \in {b.name, b.more}, q.add, 201),
    put    |-> Unless(Blank \in {b.name, b.more}, q.update, 200),
    delete |-> Reply(q.delete, 204) ]

(* PUT writes every column, the key too, which its body may leave out;     *)
(* PATCH writes the columns that are given, and checks none of them.       *)
Columns(b) ==
  [uuid |-> b.uuid, key |-> b.key, serial |-> b.serial, tenant |-> b.tenant, group |-> b.group]

DeviceQueries(id, b) ==
  [ list   |-> List("devices", [uuid |-> b.like], b.size),
    get    |-> << Find("devices", ById(id), 404) >>,
    add    |-> << Insert("devices", Columns(b)) >>,
    update |-> << Find("devices", ById(id), 500), Set("devices", Columns(b)) >>,
    patch  |-> << Find("devices", ById(id), 404),
                  Set("devices", [f \in b.given |-> b[f]]) >>,
    delete |-> << Delete("devices", id) >> ]

Devices(id, b) == LET q == DeviceQueries(id, b) IN
  [ list   |-> Listing(b.size, q.list),
    get    |-> Reply(q.get, 200),
    post   |-> Unless(Blank \in {b.uuid, b.serial}, q.add, 201),
    put    |-> Unless(Blank \in {b.uuid, b.serial}, q.update, 200),
    patch  |-> Reply(q.patch, 200),
    delete |-> Reply(q.delete, 204) ]

PendingQueries(id, b) ==
  [ list   |-> List("pending", Everything, b.size),
    search |-> << Find("pending", [serial |-> {b.serial}, endorsement |-> {b.endorsement}], 400) >>,
    add    |-> << Insert("pending", [serial |-> b.serial, endorsement |-> b.endorsement]) >>,
    delete |-> << Delete("pending", id) >> ]

PendingDeviceRegistrations(id, b) == LET q == PendingQueries(id, b) IN
  [ list   |-> Listing(b.size, q.list),
    post   |-> Reply(q.add, 201),
    delete |-> Reply(q.delete, 204) ]

(* The reports of a device: one row for each thing it ever reported.       *)
ReportedOsQueries(id, device, version, size) ==
  [ list   |-> List("reported_os", [device |-> {device}], size),
    get    |-> << Find("reported_os", ById(id), 404) >>,
    add    |-> << Upsert("reported_os", [device |-> device, version |-> version], <<>>) >>,
    delete |-> << Delete("reported_os", id) >> ]

ReportedOsAssignments(id, b) == LET q == ReportedOsQueries(id, b.device, Null, b.size) IN
  [ list   |-> Listing(b.size, q.list),
    get    |-> Reply(q.get, 200),
    delete |-> Reply(q.delete, 204) ]

ReportedAppQueries(id, device, config, size) ==
  [ list   |-> List("reported_apps", [device |-> {device}], size),
    get    |-> << Find("reported_apps", ById(id), 404) >>,
    add    |-> << Upsert("reported_apps", [device |-> device, config |-> config], <<>>) >>,
    delete |-> << Delete("reported_apps", id) >> ]

ReportedApplicationAssignments(id, b) == LET q == ReportedAppQueries(id, b.device, Null, b.size) IN
  [ list   |-> Listing(b.size, q.list),
    get    |-> Reply(q.get, 200),
    delete |-> Reply(q.delete, 204) ]

PingQueries(device, uptime, size) ==
  [ list   |-> List("pings", Everything, size),
    upsert |-> << Upsert("pings", [device |-> device, uptime |-> uptime, at |-> 0],
                         [uptime |-> uptime]) >> ]

Pings(b) == [ list |-> Listing(b.size, PingQueries(Null, Null, b.size).list) ]

-----------------------------------------------------------------------------
(* The endpoints of devices, and the unprotected one for those that are    *)
(* not registered yet.                                                     *)

DeviceReport(device, call) ==
  CASE call.path = "ping" -> Reply(PingQueries(device, call.uptime, 1).upsert, 201)
    [] call.path = "os"   -> Reply(ReportedOsQueries(Null, device, call.version, 1).add, 201)
    [] call.path = "apps" ->
         Reply([i \in DOMAIN call.configs |->
                  ReportedAppQueries(Null, device, call.configs[i], 1).add[1]], 201)

(* POST /register: the tenant is a guess.                                  *)
Register(b) ==
  IF Blank \in {b.uuid, b.serial, b.endorsement, b.key} THEN Refuse(400)
  ELSE Reply(PendingQueries(Null, b).search
             \o DeviceQueries(Null, [b EXCEPT !.tenant = 1, !.group = Null]).add
             \o <<DeleteFound("pending")>>, 201)
=============================================================================
