----------------------------- MODULE MCCloudApi -----------------------------
EXTENDS CloudApi

Ann == "ann"
Bob == "bob"
Body ==
  [name |-> "x", more |-> "m", like |-> {"x", "y"}, size |-> 2, uuid |-> "u1", key |-> NoKey,
   serial |-> "s1", tenant |-> 1, group |-> Null, given |-> {}, endorsement |-> "ek",
   device |-> 1]
MCSelf == [Body EXCEPT !.uuid = "self", !.serial = "s0", !.like = {}]

MCCallOf == [t \in Task |->
  IF t = "ping" THEN [path |-> "ping", uptime |-> 7]
  ELSE IF t = "os" THEN [path |-> "os", version |-> 1]
  ELSE [path |-> "apps", configs |-> <<1, 2>>]]

Named(n) == [name |-> n, more |-> "m"]
Device(u, k, g) == [uuid |-> u, key |-> k, serial |-> "s1", tenant |-> 1, group |-> g]
SelfRow(k) == [Device("self", k, Null) EXCEPT !.serial = "s0"]
Pending == [serial |-> "s0", endorsement |-> "ek"]
Version == [name |-> "v", more |-> "o", deleted |-> FALSE, superseded_by |-> Null]

Empty == [t \in Table |-> <<>>]
Catalogue ==
  [Empty EXCEPT !["tenants"] = <<Named("x"), Named("y"), Named("x")>>,
                !["groups"] = <<[name |-> "x"]>>,
                !["applications"] = <<Named("x"), Named("y")>>,
                !["application_configs"] = <<[application |-> 1]>>,
                !["os_versions"] = <<Version, Version, Version>>,
                !["devices"] = <<Device("u1", NoKey, 1), Device("u2", "k1", Null)>>,
                !["pings"] = <<[device |-> 1, uptime |-> 7, at |-> 1],
                               [device |-> 2, uptime |-> 7, at |-> 2]>>,
                !["reported_os"] = <<[device |-> 1, version |-> 1]>>]
Enrolling == [Empty EXCEPT !["tenants"] = <<Named("x")>>, !["applications"] = <<Named("x")>>,
                           !["pending"] = <<Pending>>,
                           !["os_versions"] = <<Version>>,
                           !["application_configs"] = <<[application |-> 1]>>]

NoCalls == [u \in User |-> <<>>]
Calls(a, b) == [u \in User |-> IF u = Ann THEN a ELSE IF u = Bob THEN b ELSE <<>>]

MCTracked == << <<"tenants", "devices">>, <<"application_configs", "pending">> >>

Quiet == [rows |-> Catalogue, tracked |-> Default, calls |-> NoCalls,
          has |-> [agent |-> FALSE, clock |-> FALSE, faults |-> 0, faultKinds |-> {}]]
Faulty(l, n, kinds) == [l EXCEPT !.has.faults = n, !.has.faultKinds = kinds]
Talk(a, b) == Faulty([Quiet EXCEPT !.calls = Calls(a, b)], 1, {"disconnect", "restart"})
Enrol == [Quiet EXCEPT !.rows = Enrolling, !.tracked = {"devices"}, !.has.agent = TRUE]

B == Body
Y == [Body EXCEPT !.name = "y"]
NoName == [Body EXCEPT !.name = Blank, !.uuid = Blank]
Moved == [Body EXCEPT !.given = {"tenant", "group"}, !.tenant = 2, !.group = 1]
Unmoved == [Body EXCEPT !.given = {}]
One == [Body EXCEPT !.size = 1]

MCLoads ==
  { Talk(<<Tenants(1, Y).put, Tenants(2, B).delete>>, <<Tenants(1, B).delete, Tenants(0, B).post>>),
    Talk(<<Groups(1, Y).put, Groups(1, B).delete>>, <<Devices(2, Moved).patch, Groups(0, B).post>>),
    Talk(<<Applications(1, Y).put, Applications(2, B).delete>>,
         <<Applications(1, B).delete, Applications(0, Y).post>>),
    Talk(<<OsVersions(1, Y).put>>, <<OsVersions(1, B).put, OsVersions(1, B).delete>>),
    Talk(<<Devices(1, B).put, Devices(2, B).delete>>, <<Devices(2, B).put, Devices(0, B).post>>),
    Talk(<<Devices(1, Unmoved).patch>>, <<Devices(1, Moved).patch, Devices(1, B).delete>>),
    Talk(<<PendingDeviceRegistrations(0, B).post, PendingDeviceRegistrations(1, B).delete>>,
         <<Tenants(0, NoName).post, ReportedOsAssignments(1, B).delete>>),
    Talk(<<Tenants(0, One).list>>, <<Tenants(2, B).delete, Tenants(0, B).post>>),
    Talk(<<Tenants(0, [One EXCEPT !.like = {"x"}]).list>>, <<Tenants(2, B).put>>),
    Talk(<<OsVersions(0, B).list>>, <<OsVersions(1, B).put>>),
    [Talk(<<Pings(One).list>>, <<Tenants(1, B).get>>) EXCEPT
       !.rows["devices"] = Append(@, SelfRow("k1")), !.has.agent = TRUE, !.tracked = {}],
    Faulty(Enrol, 2, {"lost", "agent", "tpm"}),
    [Enrol EXCEPT !.calls = Calls(<<Devices(1, B).delete>>,
       <<PendingDeviceRegistrations(0, [B EXCEPT !.serial = "s0"]).post>>)],
    Faulty(Enrol, 1, {"restart"}),
    [Faulty(Quiet, 2, {"restart"}) EXCEPT
       !.calls = Calls(<<Tenants(1, Y).put>>,
                       <<PendingDeviceRegistrations(0, B).post, Tenants(0, B).post>>)],
    Faulty([Enrol EXCEPT !.has.clock = TRUE], 1, {"sign"}) }
=============================================================================
