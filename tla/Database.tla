------------------------------ MODULE Database ------------------------------
(***************************************************************************)
(* The relational database of the API server, as far as its catalogue,     *)
(* device and report tables go: the rows with their foreign keys and       *)
(* unique columns (dtos, db_migration), the audit triggers on them, and    *)
(* the reconciliation of these triggers when the server starts             *)
(* (api_v1/db/mod.rs).  The database outlives the server.                  *)
(*                                                                         *)
(* A row is a record of the columns that matter; text is a value of a      *)
(* small set.  Every statement runs in a transaction of its own.           *)
(***************************************************************************)
EXTENDS Naturals, Sequences, FiniteSets

CONSTANT User      \* the people whose tokens the server accepts

System == "system"
ASSUME UserAssumption == System \notin User

VARIABLES
  tables,     \* table -> id -> row
  nextId,     \* table -> the next id of its sequence
  users,      \* the rows of users
  session,    \* app.audit_user of the one connection
  triggers,   \* the tables with an audit trigger
  audit,      \* the rows of audit_log, in order
  base, since \* history: a table, and the length of the log, when it got its trigger

dbVars == <<tables, nextId, users, session, triggers, audit, base, since>>

Null == 0
Gone == [gone |-> TRUE]

Default ==    \* DEFAULT_AUDIT_TABLES, less the two tables of assignments
  {"tenants", "groups", "devices", "applications", "application_configs", "os_versions",
   "reported_apps", "reported_os", "pings"}
Table == Default \cup {"pending"}

Reference(c, f, p) == [child |-> c, column |-> f, parent |-> p]
References ==
  { Reference("devices", "tenant", "tenants"), Reference("devices", "group", "groups"),
    Reference("pings", "device", "devices"), Reference("reported_os", "device", "devices"),
    Reference("reported_os", "version", "os_versions"),
    Reference("reported_apps", "device", "devices"),
    Reference("reported_apps", "config", "application_configs"),
    Reference("application_configs", "application", "applications") }

(* The columns that are unique together.                                   *)
Unique(t) ==
  CASE t = "devices"       -> {"uuid"}
    [] t = "pings"         -> {"device"}
    [] t = "reported_os"   -> {"device", "version"}
    [] t = "reported_apps" -> {"device", "config"}
    [] OTHER               -> {}

Same(row, other, columns) == \A f \in columns : row[f] = other[f]
(* The primary key of pings is the device; the other ids are sequences,    *)
(* without the gaps that refused inserts leave in PostgreSQL's.            *)
Ids(t) == 1..(nextId[IF t = "pings" THEN "devices" ELSE t] - 1)
RowOf(t, id) == IF id \in DOMAIN tables[t] THEN tables[t][id] ELSE Gone

(* Only the group of a device may be NULL.                                 *)
ReferencesHold(db, t, row) ==
  \A r \in References : r.child = t =>
    \/ row[r.column] \in DOMAIN db[r.parent]
    \/ r.column = "group" /\ row.group = Null

BugReferenced(t, id) == FALSE

Referenced(t, id) ==
  \E r \in References : /\ r.parent = t
                        /\ \E c \in DOMAIN tables[r.child] : tables[r.child][c][r.column] = id

Clashes(db, t, id, row) ==
  /\ Unique(t) # {}
  /\ \E o \in DOMAIN db[t] \ {id} : Same(db[t][o], row, Unique(t))

Allowed(db, t, id, row) == ReferencesHold(db, t, row) /\ ~Clashes(db, t, id, row)
IsConsistent(db) == \A t \in Table : \A id \in DOMAIN db[t] : Allowed(db, t, id, db[t][id])

-----------------------------------------------------------------------------
(* A row changes, and its trigger writes what it was, what it is, and who  *)
(* the connection says it was.                                             *)

Entry(t, id, old, new) == [table |-> t, id |-> id, old |-> old, new |-> new, by |-> session]

BugLogged(t, id, new) ==
  audit' = IF t \in triggers /\ new # Gone THEN Append(audit, Entry(t, id, RowOf(t, id), new))
           ELSE audit

Logged(t, id, new) ==
  audit' = IF t \in triggers THEN Append(audit, Entry(t, id, RowOf(t, id), new)) ELSE audit

PutRow(t, id, row) ==
  /\ tables' = [tables EXCEPT ![t] =
                  [i \in DOMAIN @ \cup {id} |-> IF i = id THEN row ELSE @[i]]]
  /\ Logged(t, id, row)
  /\ UNCHANGED <<users, session, triggers, base, since>>

RemoveRow(t, id) ==
  /\ tables' = [tables EXCEPT ![t] = [i \in DOMAIN @ \ {id} |-> @[i]]]
  /\ Logged(t, id, Gone)
  /\ UNCHANGED <<nextId, users, session, triggers, base, since>>

(* upsert_user, and SET app.audit_user, which lasts until the connection   *)
(* is closed or another user sets it.                                      *)
UpsertUser(u) ==
  /\ users' = users \cup {u}
  /\ UNCHANGED <<tables, nextId, session, triggers, audit, base, since>>

SetSessionUser(u) ==
  /\ session' = u
  /\ UNCHANGED <<tables, nextId, users, triggers, audit, base, since>>

-----------------------------------------------------------------------------
(* initialialize_db: the server opens its connection, drops the triggers   *)
(* of the default tables and creates those of the configured ones, in      *)
(* order.  A trigger that is still there makes CREATE TRIGGER fail.        *)

Kept == triggers \ Default
FirstFailure(tracked) ==
  { i \in DOMAIN tracked : tracked[i] \in Kept \cup {tracked[j] : j \in 1..(i - 1)} }
Reconciles(tracked) == FirstFailure(tracked) = {}
Created(tracked) ==
  { tracked[i] : i \in { n \in DOMAIN tracked : \A f \in FirstFailure(tracked) : n < f } }

Reconcile(tracked) ==
  /\ session' = System
  /\ triggers' = Kept \cup Created(tracked)
  /\ base' = [t \in Table |-> IF t \in triggers' \ triggers THEN tables[t] ELSE base[t]]
  /\ since' = [t \in Table |-> IF t \in triggers' \ triggers THEN Len(audit) ELSE since[t]]
  /\ UNCHANGED <<tables, nextId, users, audit>>

-----------------------------------------------------------------------------

DatabaseInit(rows, tracked) ==
  /\ tables = rows
  /\ nextId = [t \in Table |-> Len(rows[t]) + 1]
  /\ users = {System}
  /\ session = System
  /\ triggers = tracked
  /\ audit = <<>>
  /\ base = rows
  /\ since = [t \in Table |-> 0]

(* Every row's references hold, no two rows share what is unique, every    *)
(* entry of the log names a user there is.                                 *)
DatabaseTypeOK ==
  /\ \A t \in Table : DOMAIN tables[t] \subseteq Ids(t)
  /\ IsConsistent(tables)
  /\ System \in users /\ users \subseteq User \cup {System}
  /\ session \in users
  /\ triggers \subseteq Table
  /\ \A i \in DOMAIN audit : audit[i].by \in users

(* What the first n entries of the log say of a row.                       *)
EntriesOf(t, id, n) ==
  { i \in (since[t] + 1)..n : audit[i].table = t /\ audit[i].id = id }
Told(t, id, n) ==
  IF EntriesOf(t, id, n) = {}
  THEN IF id \in DOMAIN base[t] THEN base[t][id] ELSE Gone
  ELSE audit[CHOOSE i \in EntriesOf(t, id, n) :
               \A j \in EntriesOf(t, id, n) : j <= i].new

(* "Full audit history": the log of a tracked table, replayed on what the  *)
(* table held when its trigger was created, gives the table; each entry    *)
(* starts from where the one before it ended.  Restarts of the server,     *)
(* which drop and create the triggers, lose nothing (db/mod.rs:88-135,     *)
(* m20260614_000001_add_audit_log.rs:60-128).                              *)
LogReplaysTables ==
  \A t \in triggers : \A id \in Ids(t) :
    /\ Told(t, id, Len(audit)) = RowOf(t, id)
    /\ \A i \in EntriesOf(t, id, Len(audit)) : audit[i].old = Told(t, id, i - 1)
=============================================================================
