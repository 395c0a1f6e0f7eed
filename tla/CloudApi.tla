------------------------------ MODULE CloudApi ------------------------------
(***************************************************************************)
(* Users and a device at the API server: users send requests for the       *)
(* catalogue, while the tasks of the device's agent send theirs            *)
(* (orchestrator/src/api_client.rs), are authenticated, and register the   *)
(* device when the server does not know it (auth/device.rs,                *)
(* routes/register.rs).                                                    *)
(***************************************************************************)
EXTENDS Requests, DeviceToken

CONSTANTS
  Self,       \* what the device says of itself when it registers
  CallOf,     \* the endpoint each task of the agent calls
  NoKey,      \* public_key is NULL
  Tracked,    \* the configurations of the audit a restart may bring
  Loads       \* what a behaviour starts with, and how much of everything it has

FaultKinds == {"disconnect", "restart", "lost", "agent", "tpm", "sign"}

ASSUME CloudAssumption ==
  /\ Requester = Task
  /\ NoKey \notin Key
  /\ \A l \in Loads :
       l.has \in [agent : BOOLEAN, clock : BOOLEAN, faults : Nat, faultKinds : SUBSET FaultKinds]

(* The database a behaviour starts from is as its constraints want it, and *)
(* users call what UserApi describes.                                      *)
ASSUME LoadAssumption ==
  \A l \in Loads :
    /\ l.rows = [t \in Table |-> l.rows[t]] /\ IsConsistent(l.rows)
    /\ \A t \in Table : IsSequence(l.rows[t])
    /\ \A p \in DOMAIN l.rows["pings"] :
         l.rows["pings"][p].device = p /\ l.rows["pings"][p].at \in Nat
    /\ l.tracked \subseteq Table
    /\ l.calls = [u \in User |-> l.calls[u]]
    /\ \A u \in User : IsSequence(l.calls[u]) /\ \A i \in DOMAIN l.calls[u] : IsHandler(l.calls[u][i])
ASSUME CallAssumption ==
  \A t \in Task : CallOf[t].path \in {"ping", "os", "apps"}
                /\ (CallOf[t].path = "apps" => CallOf[t].configs \in Seq(Nat))
ASSUME TrackedAssumption == \A n \in DOMAIN Tracked : Range(Tracked[n]) \subseteq Table

VARIABLES
  at,       \* what each task of the agent waits for
  load,     \* how much of everything this behaviour has
  faults    \* bounded counter of the environment

vars == <<cloudVars, tokenVars, at, load, faults>>

Fault(kind) ==
  /\ kind \in load.faultKinds
  /\ faults < load.faults
  /\ faults' = faults + 1

-----------------------------------------------------------------------------
(* ApiClient::req.                                                         *)

TaskSends(t) ==
  /\ load.agent
  /\ at[t] = "rest" /\ server = "up"
  /\ Reuse(t) \/ Refresh(t)
  /\ Start(t, Refuse(0), "auth")
  /\ at' = [at EXCEPT ![t] = "asked"]
  /\ UNCHANGED <<dbVars, server, todo, walk, faults>>

SigningFails ==
  /\ load.agent
  /\ Fault("sign")
  /\ SignFails
  /\ UNCHANGED <<cloudVars, at>>

(* jwt_middleware and device::validate_token.                              *)
ThisDevice == Matching("devices", [uuid |-> {Self.uuid}])
Verifies(t, id) == carried[t].key = tables["devices"][id].key /\ InTime(carried[t])

BugAuthenticate(t) ==
  /\ req[t].phase = "auth"
  /\ \/ ThisDevice = {} /\ Answer(t, 401)
     \/ \E id \in ThisDevice :
          IF Verifies(t, id) THEN Run(t, DeviceReport(id, CallOf[t])) ELSE Answer(t, 418)
  /\ UNCHANGED <<dbVars, server, todo, walk, tokenVars, at, faults>>

Authenticate(t) ==
  /\ req[t].phase = "auth"
  /\ \/ carried[t] = NoToken /\ Answer(t, 401)
     \/ carried[t] # NoToken /\ ThisDevice = {} /\ Answer(t, 418)
     \/ /\ carried[t] # NoToken
        /\ \E id \in ThisDevice :
             IF Verifies(t, id) THEN Run(t, DeviceReport(id, CallOf[t])) ELSE Answer(t, 401)
  /\ UNCHANGED <<dbVars, server, todo, walk, tokenVars, at, faults>>

(* A device the server does not know registers itself; its request has     *)
(* failed all the same.                                                    *)
TaskRegisters(t) ==
  /\ at[t] = "asked"
  /\ req[t].phase = "answered" /\ req[t].status = 418
  /\ Return(t)
  /\ Run(t, Register([Self EXCEPT !.key = tpm]))
  /\ at' = [at EXCEPT ![t] = "registering"]
  /\ UNCHANGED <<dbVars, server, todo, walk, faults>>

TaskRests(t) ==
  /\ at[t] = "registering" \/ (at[t] = "asked" /\ req[t].status # 418)
  /\ req[t].phase = "answered"
  /\ Return(t)
  /\ Answer(t, 0)
  /\ at' = [at EXCEPT ![t] = "rest"]
  /\ UNCHANGED <<dbVars, server, todo, walk, faults>>

AgentStep(t) ==
  \/ TaskSends(t) \/ Authenticate(t) \/ TaskRegisters(t) \/ TaskRests(t)
  \/ /\ at[t] # "rest" /\ Execute(t)
     /\ UNCHANGED <<tokenVars, at, faults>>

(* The connection breaks: under way, the request is dropped; once it is    *)
(* answered, the answer is lost.                                           *)
ConnectionLost(t) ==
  /\ at[t] # "rest" /\ Fault("lost")
  /\ Answer(t, 0)
  /\ UNCHANGED <<dbVars, server, todo, walk, tokenVars, at>>

AgentRestarts ==
  /\ load.agent
  /\ \/ Fault("agent") /\ NewProvider(tpm)
     \/ Fault("tpm") /\ \E k \in Key : NewProvider(k)
  /\ at' = [t \in Task |-> "rest"]
  /\ req' = [c \in Client |-> IF c \in Task THEN NoRequest ELSE req[c]]
  /\ UNCHANGED <<dbVars, server, todo, walk>>

TimePasses == load.clock /\ Pass /\ UNCHANGED <<cloudVars, at, faults>>

-----------------------------------------------------------------------------

UserActs ==
  /\ \E u \in User : UserStep(u)
  /\ UNCHANGED <<tokenVars, at, faults>>

UserLeaves ==
  /\ Fault("disconnect")
  /\ \E u \in User : Disconnect(u)
  /\ UNCHANGED <<tokenVars, at>>

ServerRestarts ==
  /\ Fault("restart")
  /\ \E n \in DOMAIN Tracked : Restart(Tracked[n])
  /\ UNCHANGED <<tokenVars, at>>

Init ==
  /\ \E l \in Loads : /\ load = l.has
                      /\ DatabaseInit(l.rows, l.tracked)
                      /\ RequestsInit(l.calls)
  /\ faults = 0
  /\ TokenInit
  /\ at = [t \in Task |-> "rest"]

Next ==
  /\ \/ UserActs \/ UserLeaves \/ ServerRestarts
     \/ \E t \in Task : AgentStep(t) \/ ConnectionLost(t)
     \/ SigningFails \/ AgentRestarts \/ TimePasses
  /\ UNCHANGED load

(* Every task of the agent calls its endpoint at an interval; the server   *)
(* polls every request, and its one connection is handed out in order.     *)
Fairness ==
  /\ \A t \in Task : WF_vars(AgentStep(t) /\ UNCHANGED load)
  /\ WF_vars(TimePasses /\ UNCHANGED load)

CloudSpec == Init /\ [][Next]_vars
FairCloudSpec == CloudSpec /\ Fairness

-----------------------------------------------------------------------------

CloudTypeOK ==
  /\ DatabaseTypeOK /\ RequestsTypeOK /\ TokenTypeOK
  /\ at \in [Task -> {"rest", "asked", "registering"}]
  /\ \A t \in Task : at[t] = "asked" <=> carried[t] # Nothing

(* A device that the server may admit gets in: while it is registered with *)
(* the key of its TPM, or is unknown and a registration is pending for it, *)
(* its requests are in the end answered, whatever happened before: lost    *)
(* answers, two tasks registering at once, a registration that was cut off *)
(* (api_client.rs:125-205, register.rs:50-83).                             *)
Admissible ==
  /\ server = "up"
  /\ 1 \in DOMAIN tables["tenants"]
  /\ IF ThisDevice = {}
     THEN \E p \in DOMAIN tables["pending"] :
            Same(tables["pending"][p], Self, {"serial", "endorsement"})
     ELSE \A id \in ThisDevice : tables["devices"][id].key = tpm
Accepted == \E t \in Task : at[t] = "asked" /\ req[t].phase = "answered" /\ req[t].status = 201
ComesOnline == <>[]Admissible => []<>Accepted

(* "All operations within a single request share the same connection,      *)
(* preventing user-context leakage across requests": what a user's request *)
(* changes is logged under that user (auth/mod.rs:97-109).                 *)
ChangesNameTheirUser ==
  [][\A u \in User : Execute(u) /\ audit' # audit => audit'[Len(audit')].by = u]_vars
=============================================================================
