---------------------------- MODULE MCAssignments -----------------------------
(* One edge device in one group, two administrators.  The group has an OS  *)
(* and the application web, and the device has a config of its own of web. *)
EXTENDS Assignments, TLC

CONSTANTS alice, bob, edge, line, web, v1

Administrators == Permutations({alice, bob})

MCHomeGroup == [d \in Device |-> line]

At(a, b, n) == [area |-> a, backend |-> b, requests |-> n]

MCSettings == {At("os", "postgres", 3), At("os", "sqlite", 3),
               At("apps", "postgres", 3), At("apps", "sqlite", 2)}
MCConfigsOnSqlite == {At("apps", "sqlite", 2)}
MCOsOnPostgres == {At("os", "postgres", 2)}
MCAppsOnPostgres == {At("apps", "postgres", 1)}

MCSeed ==
  [a \in {"os", "apps"} |->
     IF a = "os"
     THEN [defs |-> <<Row([ref |-> v1, owner |-> NoOwner]), Row([ref |-> v1, owner |-> NoOwner])>>,
           asgs |-> <<Row([ref |-> 1, owner |-> line])>>]
     ELSE [defs |-> <<Row([ref |-> web, owner |-> line]), Row([ref |-> web, owner |-> edge])>>,
           asgs |-> <<Row([ref |-> 1, owner |-> line]), Row([ref |-> 2, owner |-> edge])>>]]
=============================================================================
