----------------------------- MODULE DeviceToken -----------------------------
(***************************************************************************)
(* The token of a device: the provider that signs one and hands it out     *)
(* until it is about to expire (orchestrator/src/util/device_jwt.rs), the  *)
(* requests that carry it, and the checks of its time on the server        *)
(* (api-server/src/auth/device.rs).                                        *)
(*                                                                         *)
(* Times are relative to the clock of the device, which runs steadily: the *)
(* provider's expire_time is so many units from now, a token expires in so *)
(* many units.                                                             *)
(***************************************************************************)
EXTENDS Integers

CONSTANTS
  Requester,      \* the tasks that send requests through the one provider
  Key,            \* the signing keys the TPM of the device may have
  Lifetime,       \* MAX_TOKEN_LIFETIME
  RefreshBefore,  \* REFRESH_BEFORE
  MaxDelay,       \* the timeout of a request
  Leeway,         \* what jsonwebtoken tolerates of an expired token
  Drift,          \* what the server tolerates of a token valid for too long
  Skew,           \* how far the clock of the server is ahead of the device's
  Horizon         \* bound: a time further in the past is the same as this one

ASSUME TimeAssumption ==
  /\ {Lifetime, RefreshBefore, MaxDelay, Leeway, Drift, Horizon} \subseteq Nat
  /\ 0 < RefreshBefore /\ RefreshBefore <= Lifetime
  /\ MaxDelay <= Horizon
(* The clocks agree well enough.                                           *)
ASSUME SkewAssumption ==
  /\ Skew \in Int
  /\ -Drift <= Skew
  /\ Skew <= RefreshBefore + Leeway - MaxDelay

NoToken == [key |-> "none", expires |-> 0]      \* String::new()
Nothing == [key |-> "nothing", expires |-> 0]   \* no request is under way
ASSUME KeyAssumption == {"none", "nothing"} \cap Key = {}

Signed == [key : Key, expires : -Horizon..Lifetime]

VARIABLES
  expiresIn,   \* DeviceJwtProvider.expire_time
  token,       \* DeviceJwtProvider.current_token
  tpm,         \* the signing key of the TPM
  carried,     \* the token of the request each task has under way
  age,         \* for how long it has been under way
  unsigned,    \* history: expire_time was set, but the signing failed
  misled       \* history: the tasks that got an older token because of that

tokenVars == <<expiresIn, token, tpm, carried, age, unsigned, misled>>

Earlier(n) == IF n <= -Horizon THEN n ELSE n - 1
Older(t) == IF t \in {NoToken, Nothing} THEN t ELSE [t EXCEPT !.expires = Earlier(@)]

-----------------------------------------------------------------------------
(* DeviceJwtProvider::token.                                               *)

BugIsFresh == 0 <= expiresIn
IsFresh == RefreshBefore <= expiresIn

Carry(r, t) ==
  /\ carried' = [carried EXCEPT ![r] = t]
  /\ age' = [age EXCEPT ![r] = 0]

Reuse(r) ==
  /\ IsFresh
  /\ Carry(r, token)
  /\ misled' = IF unsigned THEN misled \cup {r} ELSE misled \ {r}
  /\ UNCHANGED <<expiresIn, token, tpm, unsigned>>

Refresh(r) ==
  /\ ~IsFresh
  /\ expiresIn' = Lifetime
  /\ token' = [key |-> tpm, expires |-> Lifetime]
  /\ unsigned' = FALSE
  /\ Carry(r, token')
  /\ misled' = misled \ {r}
  /\ UNCHANGED tpm

(* expire_time is set before the TPM fails to sign: until it is near, the  *)
(* old token, or none, is handed out as if it were new.                    *)
SignFails ==
  /\ ~IsFresh
  /\ expiresIn' = Lifetime
  /\ unsigned' = TRUE
  /\ UNCHANGED <<token, tpm, carried, age, misled>>

Return(r) ==
  /\ Carry(r, Nothing)
  /\ UNCHANGED <<expiresIn, token, tpm, unsigned, misled>>

(* A request that takes longer has timed out.                              *)
Pass ==
  /\ \A r \in Requester : carried[r] # Nothing => age[r] < MaxDelay
  /\ expiresIn' = Earlier(expiresIn)
  /\ token' = Older(token)
  /\ carried' = [r \in Requester |-> Older(carried[r])]
  /\ age' = [r \in Requester |-> IF carried[r] = Nothing THEN 0 ELSE age[r] + 1]
  /\ UNCHANGED <<tpm, unsigned, misled>>

(* A new process: expire_time is UNIX_EPOCH.                               *)
NewProvider(key) ==
  /\ tpm' = key
  /\ expiresIn' = -Horizon
  /\ token' = NoToken
  /\ carried' = [r \in Requester |-> Nothing]
  /\ age' = [r \in Requester |-> 0]
  /\ unsigned' = FALSE
  /\ misled' = {}

TokenInit ==
  /\ tpm \in Key
  /\ expiresIn = -Horizon
  /\ token = NoToken
  /\ carried = [r \in Requester |-> Nothing]
  /\ age = [r \in Requester |-> 0]
  /\ unsigned = FALSE
  /\ misled = {}

TokenNext ==
  \/ \E r \in Requester : Reuse(r) \/ Refresh(r) \/ Return(r)
  \/ SignFails \/ Pass
  \/ \E k \in Key : NewProvider(k)

TokenSpec == TokenInit /\ [][TokenNext]_tokenVars

-----------------------------------------------------------------------------
(* validate_token: what the server says of the time of a token.            *)

OnServer(t) == t.expires - Skew
InTime(t) == -Leeway <= OnServer(t) /\ OnServer(t) - Drift <= Lifetime

TokenTypeOK ==
  /\ expiresIn \in -Horizon..Lifetime
  /\ token \in Signed \cup {NoToken}
  /\ tpm \in Key
  /\ carried \in [Requester -> Signed \cup {NoToken, Nothing}]
  /\ age \in [Requester -> Nat]
  /\ unsigned \in BOOLEAN
  /\ misled \subseteq Requester

(* Unless the signing of a new token failed, no request carries a token    *)
(* that the server turns down for its time, however long it was cached and *)
(* however long the request takes (device_jwt.rs:31-40,                    *)
(* auth/device.rs:64-78).                                                  *)
TokensAreInTime ==
  \A r \in Requester :
    carried[r] # Nothing /\ r \notin misled => carried[r] # NoToken /\ InTime(carried[r])
=============================================================================
