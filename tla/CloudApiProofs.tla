---------------------------- MODULE CloudApiProofs ----------------------------
(***************************************************************************)
(* Proofs about the API server and the device that calls it, for all sets  *)
(* of users, tasks, loads and faults: the token of the device is in time   *)
(* when it arrives; the constraints of the database hold; the audit log    *)
(* replays the tables; a walk through a list misses only what moved.       *)
(***************************************************************************)
EXTENDS CloudApi, FiniteSetTheorems, SequenceTheorems, WellFoundedInduction, TLAPS

-----------------------------------------------------------------------------
(* The token of the device, for every lifetime, leeway and skew that       *)
(* satisfy the assumptions.                                                *)

(* The provider hands out its token for as long as expire_time says, so    *)
(* the two must agree; and a token carried for some time had RefreshBefore *)
(* left when it was handed out.                                            *)
CacheAgrees ==
  ~unsigned => IF token = NoToken THEN expiresIn = -Horizon ELSE token.expires = expiresIn
RequestsEnd == \A r \in Requester : age[r] <= MaxDelay
InTimeWhenSent ==
  \A r \in Requester :
    carried[r] # Nothing /\ r \notin misled =>
      carried[r] # NoToken /\ RefreshBefore - age[r] <= carried[r].expires

TokenInv == TokenTypeOK /\ CacheAgrees /\ RequestsEnd /\ InTimeWhenSent

LEMMA TimesTyped ==
  /\ Lifetime \in Nat /\ RefreshBefore \in Nat /\ MaxDelay \in Nat
  /\ Leeway \in Nat /\ Drift \in Nat /\ Horizon \in Nat /\ Skew \in Int
  /\ 0 < RefreshBefore /\ RefreshBefore <= Lifetime /\ MaxDelay <= Horizon
BY TimeAssumption, SkewAssumption

LEMMA Distinct == NoToken # Nothing /\ NoToken \notin Signed /\ Nothing \notin Signed
BY KeyAssumption DEF NoToken, Nothing, Signed

LEMMA NothingCarried ==
  /\ [r \in Requester |-> Nothing] \in [Requester -> Signed \cup {NoToken, Nothing}]
  /\ [r \in Requester |-> 0] \in [Requester -> Nat]
  /\ -Horizon \in -Horizon..Lifetime
BY TimesTyped

LEMMA EarlierProperties ==
  ASSUME NEW n \in -Horizon..Lifetime
  PROVE  /\ Earlier(n) \in -Horizon..Lifetime
         /\ n - 1 <= Earlier(n)
BY TimesTyped DEF Earlier

LEMMA OlderProperties ==
  /\ Older(NoToken) = NoToken
  /\ Older(Nothing) = Nothing
  /\ \A t \in Signed : Older(t) \in Signed /\ Older(t).expires = Earlier(t.expires)
<1>1. Older(NoToken) = NoToken /\ Older(Nothing) = Nothing
  BY DEF Older
<1>2. ASSUME NEW t \in Signed PROVE Older(t) \in Signed /\ Older(t).expires = Earlier(t.expires)
  <2>1. Older(t) = [t EXCEPT !.expires = Earlier(t.expires)]
    BY Distinct DEF Older
  <2>2. Earlier(t.expires) \in -Horizon..Lifetime
    BY EarlierProperties DEF Signed
  <2>3. QED
    BY <2>1, <2>2 DEF Signed
<1>3. QED
  BY <1>1, <1>2

-----------------------------------------------------------------------------

LEMMA TokenInitInv == TokenInit => TokenInv
<1> SUFFICES ASSUME TokenInit PROVE TokenInv
  OBVIOUS
<1>1. TokenTypeOK
  BY NothingCarried DEF TokenInit, TokenTypeOK
<1>2. CacheAgrees /\ RequestsEnd /\ InTimeWhenSent
  BY TimesTyped DEF TokenInit, CacheAgrees, RequestsEnd, InTimeWhenSent
<1>3. QED
  BY <1>1, <1>2 DEF TokenInv

LEMMA ReuseInv ==
  ASSUME TokenInv, NEW r \in Requester, Reuse(r)
  PROVE  TokenInv'
<1> USE DEF TokenInv
<1>1. TokenTypeOK'
  BY DEF TokenTypeOK, Reuse, Carry
<1>2. CacheAgrees'
  BY DEF CacheAgrees, Reuse, Carry
<1>3. RequestsEnd'
  BY TimesTyped DEF RequestsEnd, Reuse, Carry, TokenTypeOK
<1>4. InTimeWhenSent'
  <2> SUFFICES ASSUME NEW q \in Requester, carried'[q] # Nothing, q \notin misled'
               PROVE  carried'[q] # NoToken /\ RefreshBefore - age'[q] <= carried'[q].expires
    BY DEF InTimeWhenSent
  <2>1. CASE q = r
    <3>1. ~unsigned /\ carried'[q] = token /\ age'[q] = 0
      BY <2>1 DEF Reuse, Carry, TokenTypeOK
    <3>2. expiresIn # -Horizon /\ expiresIn \in Int
      BY TimesTyped DEF Reuse, IsFresh, TokenTypeOK
    <3>3. token # NoToken /\ token.expires = expiresIn
      BY <3>1, <3>2 DEF CacheAgrees
    <3>4. QED
      BY <3>1, <3>2, <3>3, TimesTyped DEF Reuse, IsFresh
  <2>2. CASE q # r
    BY <2>2 DEF InTimeWhenSent, Reuse, Carry, TokenTypeOK
  <2>3. QED
    BY <2>1, <2>2
<1>5. QED
  BY <1>1, <1>2, <1>3, <1>4

LEMMA RefreshInv ==
  ASSUME TokenInv, NEW r \in Requester, Refresh(r)
  PROVE  TokenInv'
<1> USE DEF TokenInv
<1>1. token' \in Signed /\ token' # NoToken /\ token'.expires = Lifetime
  BY TimesTyped, Distinct DEF Refresh, Signed, TokenTypeOK
<1>2. TokenTypeOK'
  <2>1. /\ carried' = [carried EXCEPT ![r] = token']
        /\ age' = [age EXCEPT ![r] = 0]
    BY DEF Refresh, Carry
  <2>2. carried' \in [Requester -> Signed \cup {NoToken, Nothing}]
    BY <1>1, <2>1 DEF TokenTypeOK
  <2>3. age' \in [Requester -> Nat]
    BY <2>1 DEF TokenTypeOK
  <2>4. expiresIn' \in -Horizon..Lifetime
    BY TimesTyped DEF Refresh
  <2>5. unsigned' \in BOOLEAN /\ misled' \subseteq Requester /\ tpm' \in Key
    BY DEF Refresh, TokenTypeOK
  <2>6. QED
    BY <1>1, <2>2, <2>3, <2>4, <2>5 DEF TokenTypeOK
<1>3. CacheAgrees'
  BY <1>1 DEF CacheAgrees, Refresh
<1>4. RequestsEnd'
  BY TimesTyped DEF RequestsEnd, Refresh, Carry, TokenTypeOK
<1>5. InTimeWhenSent'
  <2> SUFFICES ASSUME NEW q \in Requester, carried'[q] # Nothing, q \notin misled'
               PROVE  carried'[q] # NoToken /\ RefreshBefore - age'[q] <= carried'[q].expires
    BY DEF InTimeWhenSent
  <2>1. CASE q = r
    <3>1. carried'[q] = token' /\ age'[q] = 0
      BY <2>1 DEF Refresh, Carry, TokenTypeOK
    <3>2. QED
      BY <1>1, <3>1, TimesTyped
  <2>2. CASE q # r
    BY <2>2 DEF InTimeWhenSent, Refresh, Carry, TokenTypeOK
  <2>3. QED
    BY <2>1, <2>2
<1>6. QED
  BY <1>2, <1>3, <1>4, <1>5

LEMMA SignFailsInv ==
  ASSUME TokenInv, SignFails
  PROVE  TokenInv'
<1>1. TokenTypeOK'
  BY TimesTyped DEF TokenInv, TokenTypeOK, SignFails
<1>2. CacheAgrees' /\ RequestsEnd' /\ InTimeWhenSent'
  BY DEF TokenInv, CacheAgrees, RequestsEnd, InTimeWhenSent, SignFails
<1>3. QED
  BY <1>1, <1>2 DEF TokenInv

LEMMA ReturnInv ==
  ASSUME TokenInv, NEW r \in Requester, Return(r)
  PROVE  TokenInv'
<1>1. TokenTypeOK'
  BY DEF TokenInv, TokenTypeOK, Return, Carry
<1>2. CacheAgrees' /\ RequestsEnd'
  BY TimesTyped DEF TokenInv, TokenTypeOK, CacheAgrees, RequestsEnd, Return, Carry
<1>3. InTimeWhenSent'
  BY DEF TokenInv, TokenTypeOK, InTimeWhenSent, Return, Carry
<1>4. QED
  BY <1>1, <1>2, <1>3 DEF TokenInv

(* Time takes one unit of what a token has left, and a request is one unit *)
(* older for it.                                                           *)
LEMMA PassInv ==
  ASSUME TokenInv, Pass
  PROVE  TokenInv'
<1> USE DEF TokenInv
<1>1. /\ expiresIn' \in -Horizon..Lifetime
      /\ token' \in Signed \cup {NoToken}
      /\ \A r \in Requester : carried'[r] \in Signed \cup {NoToken, Nothing}
  BY EarlierProperties, OlderProperties DEF Pass, TokenTypeOK
<1>2. \A r \in Requester : /\ age[r] \in Nat /\ age'[r] \in Nat
                           /\ age'[r] <= MaxDelay
                           /\ carried[r] # Nothing => age'[r] = age[r] + 1
  BY TimesTyped DEF Pass, TokenTypeOK, RequestsEnd
<1>3. TokenTypeOK'
  <2>1. carried' \in [Requester -> Signed \cup {NoToken, Nothing}]
    BY <1>1 DEF Pass
  <2>2. age' \in [Requester -> Nat]
    BY <1>2 DEF Pass
  <2>3. QED
    BY <1>1, <2>1, <2>2 DEF Pass, TokenTypeOK
<1>4. CacheAgrees'
  <2> SUFFICES ASSUME ~unsigned
               PROVE  IF token' = NoToken THEN expiresIn' = -Horizon
                      ELSE token'.expires = expiresIn'
    BY DEF CacheAgrees, Pass
  <2>1. CASE token = NoToken
    <3>1. expiresIn = -Horizon
      BY <2>1 DEF CacheAgrees
    <3>2. expiresIn' = -Horizon
      BY <3>1, TimesTyped DEF Pass, Earlier
    <3>3. token' = NoToken
      BY <2>1, OlderProperties DEF Pass
    <3>4. QED
      BY <3>2, <3>3
  <2>2. CASE token \in Signed
    <3>1. token.expires = expiresIn
      BY <2>2, Distinct DEF CacheAgrees
    <3>2. token' \in Signed /\ token'.expires = Earlier(token.expires)
      BY <2>2, OlderProperties DEF Pass
    <3>3. QED
      BY <3>1, <3>2, Distinct DEF Pass
  <2>3. QED
    BY <2>1, <2>2 DEF TokenTypeOK
<1>5. RequestsEnd'
  BY <1>2 DEF RequestsEnd
<1>6. InTimeWhenSent'
  <2> SUFFICES ASSUME NEW q \in Requester, carried'[q] # Nothing, q \notin misled'
               PROVE  carried'[q] # NoToken /\ RefreshBefore - age'[q] <= carried'[q].expires
    BY DEF InTimeWhenSent
  <2>1. carried'[q] = Older(carried[q]) /\ q \notin misled
    BY DEF Pass
  <2>2. carried[q] # Nothing
    BY <2>1, OlderProperties
  <2>3. carried[q] # NoToken /\ RefreshBefore - age[q] <= carried[q].expires
    BY <2>1, <2>2 DEF InTimeWhenSent
  <2>4. carried[q] \in Signed
    BY <2>2, <2>3 DEF TokenTypeOK
  <2>5. carried'[q] \in Signed /\ carried'[q].expires = Earlier(carried[q].expires)
    BY <2>1, <2>4, OlderProperties
  <2>6. carried[q].expires \in -Horizon..Lifetime
    BY <2>4 DEF Signed
  <2>7. carried[q].expires - 1 <= carried'[q].expires /\ carried'[q].expires \in Int
    BY <2>5, <2>6, EarlierProperties, TimesTyped
  <2>8. age'[q] = age[q] + 1 /\ age[q] \in Nat
    BY <1>2, <2>2
  <2>9. RefreshBefore - age'[q] <= carried'[q].expires
    BY <2>3, <2>6, <2>7, <2>8, TimesTyped
  <2>10. QED
    BY <2>5, <2>9, Distinct
<1>7. QED
  BY <1>3, <1>4, <1>5, <1>6

LEMMA NewProviderInv ==
  ASSUME TokenInv, NEW k \in Key, NewProvider(k)
  PROVE  TokenInv'
<1>1. TokenTypeOK'
  BY NothingCarried DEF TokenTypeOK, NewProvider
<1>2. CacheAgrees' /\ RequestsEnd' /\ InTimeWhenSent'
  BY TimesTyped DEF CacheAgrees, RequestsEnd, InTimeWhenSent, NewProvider
<1>3. QED
  BY <1>1, <1>2 DEF TokenInv

LEMMA TokenStepInv == TokenInv /\ [TokenNext]_tokenVars => TokenInv'
<1> SUFFICES ASSUME TokenInv, [TokenNext]_tokenVars PROVE TokenInv'
  OBVIOUS
<1>1. CASE \E r \in Requester : Reuse(r) \/ Refresh(r) \/ Return(r)
  BY <1>1, ReuseInv, RefreshInv, ReturnInv
<1>2. CASE SignFails
  BY <1>2, SignFailsInv
<1>3. CASE Pass
  BY <1>3, PassInv
<1>4. CASE \E k \in Key : NewProvider(k)
  BY <1>4, NewProviderInv
<1>5. CASE UNCHANGED tokenVars
  BY <1>5 DEF tokenVars, TokenInv, TokenTypeOK, CacheAgrees, RequestsEnd, InTimeWhenSent
<1>6. QED
  BY <1>1, <1>2, <1>3, <1>4, <1>5 DEF TokenNext

-----------------------------------------------------------------------------

(* The variables of the provider and of its requests keep their types.     *)
THEOREM TokenTypeCorrect == TokenSpec => []TokenTypeOK
<1>1. TokenInv => TokenTypeOK
  BY DEF TokenInv
<1>2. QED
  BY <1>1, TokenInitInv, TokenStepInv, PTL DEF TokenSpec

(* What is left of a token when it arrives covers the delay of the request *)
(* and the skew of the clocks, for every lifetime and every skew allowed   *)
(* (device_jwt.rs:31-40, auth/device.rs:64-78).                            *)
THEOREM TokensStayInTime == TokenSpec => []TokensAreInTime
<1>1. TokenInv => TokensAreInTime
  <2> SUFFICES ASSUME TokenInv, NEW r \in Requester, carried[r] # Nothing, r \notin misled
               PROVE  carried[r] # NoToken /\ InTime(carried[r])
    BY DEF TokensAreInTime
  <2>1. carried[r] # NoToken /\ RefreshBefore - age[r] <= carried[r].expires
    BY DEF TokenInv, InTimeWhenSent
  <2>2. carried[r].expires \in -Horizon..Lifetime
    BY <2>1 DEF TokenInv, TokenTypeOK, Signed
  <2>3. age[r] \in Nat /\ age[r] <= MaxDelay
    BY DEF TokenInv, TokenTypeOK, RequestsEnd
  <2>4. InTime(carried[r])
    BY <2>1, <2>2, <2>3, TimesTyped, SkewAssumption DEF InTime, OnServer
  <2>5. QED
    BY <2>1, <2>4
<1>2. QED
  BY <1>1, TokenInitInv, TokenStepInv, PTL DEF TokenSpec

-----------------------------------------------------------------------------
(* Sequences whose elements have no type of their own.                     *)

LEMMA SequenceOf ==
  ASSUME NEW S, NEW q \in Seq(S)
  PROVE  IsSequence(q)
BY SeqOfRange DEF IsSequence

LEMMA LengthOf ==
  ASSUME NEW q, IsSequence(q)
  PROVE  Len(q) \in Nat /\ DOMAIN q = 1..Len(q) /\ (q = <<>> <=> Len(q) = 0)
BY LenProperties, EmptySeq DEF IsSequence

LEMMA TailOf ==
  ASSUME NEW q, IsSequence(q), q # <<>>
  PROVE  /\ IsSequence(Tail(q)) /\ Len(Tail(q)) = Len(q) - 1
         /\ \A i \in 1..Len(Tail(q)) : i + 1 \in 1..Len(q) /\ Tail(q)[i] = q[i + 1]
         /\ Head(q) = q[1] /\ 1 \in 1..Len(q)
<1>1. Tail(q) \in Seq(Range(q)) /\ Len(Tail(q)) = Len(q) - 1
  BY HeadTailProperties DEF IsSequence
<1>2. \A i \in 1..Len(Tail(q)) : Tail(q)[i] = q[i + 1]
  BY HeadTailProperties DEF IsSequence
<1>3. Len(q) \in Nat \ {0}
  BY EmptySeq DEF IsSequence
<1>4. IsSequence(Tail(q))
  BY <1>1, SequenceOf
<1>5. Head(q) = q[1]
  BY DEF IsSequence
<1>6. QED
  BY <1>1, <1>2, <1>3, <1>4, <1>5

LEMMA AppendOf ==
  ASSUME NEW q, IsSequence(q), NEW e
  PROVE  /\ IsSequence(Append(q, e)) /\ Len(Append(q, e)) = Len(q) + 1
         /\ \A i \in 1..Len(q) : Append(q, e)[i] = q[i]
         /\ Append(q, e)[Len(q) + 1] = e
<1> DEFINE S == Range(q) \cup {e}
<1>1. q \in Seq(S) /\ e \in S
  BY SeqMonotonic DEF IsSequence
<1>2. Append(q, e) \in Seq(S)
  BY <1>1, AppendProperties
<1>3. IsSequence(Append(q, e))
  BY <1>2, SequenceOf
<1> HIDE DEF S
<1>4. /\ Len(Append(q, e)) = Len(q) + 1
      /\ \A i \in 1..Len(q) : Append(q, e)[i] = q[i]
      /\ Append(q, e)[Len(q) + 1] = e
  BY <1>1, AppendProperties
<1>5. QED
  BY <1>3, <1>4

LEMMA ConcatOf ==
  ASSUME NEW p, IsSequence(p), NEW q, IsSequence(q)
  PROVE  /\ IsSequence(p \o q) /\ Len(p \o q) = Len(p) + Len(q)
         /\ \A i \in 1..(Len(p) + Len(q)) :
              (p \o q)[i] = IF i <= Len(p) THEN p[i] ELSE q[i - Len(p)]
<1> DEFINE S == Range(p) \cup Range(q)
<1>1. p \in Seq(S) /\ q \in Seq(S)
  BY SeqMonotonic DEF IsSequence
<1>2. p \o q \in Seq(S)
  BY <1>1, ConcatProperties
<1>3. QED
  BY <1>1, <1>2, ConcatProperties, SequenceOf

LEMMA ShortSequences ==
  /\ IsSequence(<<>>) /\ Len(<<>>) = 0
  /\ \A a : IsSequence(<<a>>) /\ Len(<<a>>) = 1 /\ <<a>>[1] = a /\ Tail(<<a>>) = <<>>
  /\ \A a, b : IsSequence(<<a, b>>) /\ Len(<<a, b>>) = 2 /\ <<a, b>>[1] = a /\ <<a, b>>[2] = b
               /\ Tail(<<a, b>>) = <<b>>
  /\ \A a, b, c : IsSequence(<<a, b, c>>) /\ Len(<<a, b, c>>) = 3
                  /\ <<a, b, c>>[1] = a /\ <<a, b, c>>[2] = b /\ <<a, b, c>>[3] = c
<1>1. IsSequence(<<>>)
  <2>1. <<>> \in Seq({})
    OBVIOUS
  <2>2. QED
    BY <2>1, SequenceOf
<1>2. \A a : IsSequence(<<a>>)
  <2>1. \A a : <<a>> \in Seq({a})
    OBVIOUS
  <2>2. QED
    BY <2>1, SequenceOf
<1>3. \A a, b : IsSequence(<<a, b>>)
  <2>1. \A a, b : <<a, b>> \in Seq({a, b})
    OBVIOUS
  <2>2. QED
    BY <2>1, SequenceOf
<1>4. \A a, b, c : IsSequence(<<a, b, c>>)
  <2>1. \A a, b, c : <<a, b, c>> \in Seq({a, b, c})
    OBVIOUS
  <2>2. QED
    BY <2>1, SequenceOf
<1>5. QED
  BY <1>1, <1>2, <1>3, <1>4

LEMMA ConcatOfOnes ==
  ASSUME NEW a, NEW b, NEW c
  PROVE  <<a>> \o <<b>> = <<a, b>> /\ <<a, b>> \o <<c>> = <<a, b, c>>
<1> DEFINE S == {a, b, c}
<1>1. /\ <<a>> \in Seq(S) /\ <<b>> \in Seq(S) /\ <<c>> \in Seq(S)
      /\ <<a, b>> \in Seq(S) /\ <<a, b, c>> \in Seq(S)
  OBVIOUS
<1> HIDE DEF S
<1>2. <<a>> \o <<b>> = <<a, b>>
  <2>1. /\ <<a>> \o <<b>> \in Seq(S) /\ Len(<<a>> \o <<b>>) = 2
        /\ (<<a>> \o <<b>>)[1] = a /\ (<<a>> \o <<b>>)[2] = b
    BY <1>1, ShortSequences, ConcatProperties
  <2>2. \A i \in 1..Len(<<a>> \o <<b>>) : (<<a>> \o <<b>>)[i] = <<a, b>>[i]
    BY <2>1
  <2>3. QED
    BY <1>1, <2>1, <2>2, ShortSequences, SeqEqual
<1>3. <<a, b>> \o <<c>> = <<a, b, c>>
  <2>1. /\ <<a, b>> \o <<c>> \in Seq(S) /\ Len(<<a, b>> \o <<c>>) = 3
        /\ (<<a, b>> \o <<c>>)[1] = a /\ (<<a, b>> \o <<c>>)[2] = b
        /\ (<<a, b>> \o <<c>>)[3] = c
    BY <1>1, ShortSequences, ConcatProperties
  <2>2. \A i \in 1..Len(<<a, b>> \o <<c>>) : (<<a, b>> \o <<c>>)[i] = <<a, b, c>>[i]
    BY <2>1
  <2>3. QED
    BY <1>1, <2>1, <2>2, ShortSequences, SeqEqual
<1>4. QED
  BY <1>2, <1>3

-----------------------------------------------------------------------------
(* What the endpoints ask for.                                             *)

LEMMA RefuseIsHandler == \A status : IsHandler(Refuse(status))
BY ShortSequences DEF IsHandler, IsList, Refuse

IsStatement(a) == IsQuery(a) /\ a.do \notin {"count", "fetch"}

LEMMA OneIsHandler ==
  ASSUME NEW status, NEW a, IsStatement(a)
  PROVE  IsHandler(Reply(<<a>>, status))
BY ShortSequences DEF IsHandler, IsList, Reply, IsStatement

LEMMA TwoAreHandler ==
  ASSUME NEW status, NEW a, IsStatement(a), NEW b, IsStatement(b)
  PROVE  IsHandler(Reply(<<a, b>>, status))
BY ShortSequences DEF IsHandler, IsList, Reply, IsStatement

LEMMA ThreeAreHandler ==
  ASSUME NEW status, NEW a, IsStatement(a), NEW b, IsStatement(b), NEW c, IsStatement(c)
  PROVE  IsHandler(Reply(<<a, b, c>>, status))
BY ShortSequences DEF IsHandler, IsList, Reply, IsStatement

LEMMA ListingIsHandler ==
  ASSUME NEW t \in Table, NEW where, NEW size, t = "pings" => where = Everything
  PROVE  IsHandler(Listing(size, List(t, where, size)))
<1>1. CASE size \notin 1..200
  BY <1>1, RefuseIsHandler DEF Listing, Unless
<1>2. CASE size \in 1..200
  <2> DEFINE h == Reply(List(t, where, size), 200)
  <2>1. IsSequence(h.steps) /\ Len(h.steps) = 2
    BY ShortSequences DEF List, Reply
  <2>2. /\ h.steps[1].do = "count" /\ h.steps[2].do = "fetch"
        /\ \A i \in 1..2 : h.steps[i].table = t /\ h.steps[i].where = where /\ h.steps[i].size = size
    BY DEF List, Reply
  <2>3. h.steps # <<>> /\ DOMAIN h.steps = 1..2
    BY <2>1, LengthOf
  <2>4. h.steps = List(t, where, size)
    BY DEF Reply
  <2> HIDE DEF h
  <2>5. \A i \in DOMAIN h.steps : IsQuery(h.steps[i])
    <3>1. \A i \in 1..2 : i = 1 \/ i = 2
      OBVIOUS
    <3>2. QED
      BY <1>2, <2>2, <2>3, <3>1 DEF IsQuery
  <2>6. IsHandler(h)
    BY <2>1, <2>2, <2>3, <2>4, <2>5 DEF IsHandler, IsList
  <2>7. QED
    BY <1>2, <2>6 DEF Listing, Unless, h
<1>3. QED
  BY <1>1, <1>2

LEMMA StatementsOf ==
  ASSUME NEW t \in Table, t # "pings", NEW id, NEW row, NEW where, NEW otherwise
  PROVE  /\ IsStatement(Find(t, where, otherwise))
         /\ IsStatement(Insert(t, row)) /\ IsStatement(Set(t, row))
         /\ IsStatement(Supersede(t)) /\ IsStatement(Delete(t, id))
BY DEF IsStatement, IsQuery, Find, Insert, Set, Supersede, Delete

(* Every endpoint of the catalogue asks for what the schema is made for,   *)
(* whatever identifier and body it is given (api_v1/routes, api_v1/db).    *)
Methods == {"list", "get", "post", "put", "delete"}

LEMMA TenantsAreHandlers ==
  ASSUME NEW id, NEW b, NEW m \in Methods
  PROVE  IsHandler(Tenants(id, b)[m])
<1> DEFINE q == TenantQueries(id, b)
<1>t. "tenants" \in Table /\ "tenants" # "pings"
  BY DEF Table, Default
<1>1. IsHandler(Listing(b.size, q.list))
  BY <1>t, ListingIsHandler DEF TenantQueries
<1>2. IsHandler(Reply(q.get, 200))
  BY <1>t, StatementsOf, OneIsHandler DEF TenantQueries
<1>3. IsHandler(Reply(q.add, 201))
  BY <1>t, StatementsOf, OneIsHandler DEF TenantQueries
<1>4. IsHandler(Reply(q.update, 200))
  BY <1>t, StatementsOf, TwoAreHandler DEF TenantQueries
<1>5. IsHandler(Reply(q.delete, 204))
  BY <1>t, StatementsOf, OneIsHandler DEF TenantQueries
<1>6. QED
  BY <1>1, <1>2, <1>3, <1>4, <1>5, RefuseIsHandler DEF Tenants, Unless, Methods

LEMMA GroupsAreHandlers ==
  ASSUME NEW id, NEW b, NEW m \in Methods
  PROVE  IsHandler(Groups(id, b)[m])
<1> DEFINE q == GroupQueries(id, b)
<1>t. "groups" \in Table /\ "groups" # "pings"
  BY DEF Table, Default
<1>1. IsHandler(Listing(b.size, q.list))
  BY <1>t, ListingIsHandler DEF GroupQueries
<1>2. IsHandler(Reply(q.get, 200))
  BY <1>t, StatementsOf, OneIsHandler DEF GroupQueries
<1>3. IsHandler(Reply(q.add, 201))
  BY <1>t, StatementsOf, OneIsHandler DEF GroupQueries
<1>4. IsHandler(Reply(q.update, 200))
  BY <1>t, StatementsOf, TwoAreHandler DEF GroupQueries
<1>5. IsHandler(Reply(q.delete, 204))
  BY <1>t, StatementsOf, OneIsHandler DEF GroupQueries
<1>6. QED
  BY <1>1, <1>2, <1>3, <1>4, <1>5, RefuseIsHandler DEF Groups, Unless, Methods

LEMMA ApplicationsAreHandlers ==
  ASSUME NEW id, NEW b, NEW m \in Methods
  PROVE  IsHandler(Applications(id, b)[m])
<1> DEFINE q == ApplicationQueries(id, b)
<1>t. "applications" \in Table /\ "applications" # "pings"
  BY DEF Table, Default
<1>1. IsHandler(Listing(b.size, q.list))
  BY <1>t, ListingIsHandler DEF ApplicationQueries
<1>2. IsHandler(Reply(q.get, 200))
  BY <1>t, StatementsOf, OneIsHandler DEF ApplicationQueries
<1>3. IsHandler(Reply(q.add, 201))
  BY <1>t, StatementsOf, OneIsHandler DEF ApplicationQueries
<1>4. IsHandler(Reply(q.update, 200))
  BY <1>t, StatementsOf, TwoAreHandler DEF ApplicationQueries
<1>5. IsHandler(Reply(q.delete, 204))
  BY <1>t, StatementsOf, OneIsHandler DEF ApplicationQueries
<1>6. QED
  BY <1>1, <1>2, <1>3, <1>4, <1>5, RefuseIsHandler DEF Applications, Unless, Methods

LEMMA OsVersionsAreHandlers ==
  ASSUME NEW id, NEW b, NEW m \in Methods
  PROVE  IsHandler(OsVersions(id, b)[m])
<1> DEFINE q == OsVersionQueries(id, b)
<1>t. "os_versions" \in Table /\ "os_versions" # "pings"
  BY DEF Table, Default
<1>1. IsHandler(Listing(b.size, q.list))
  BY <1>t, ListingIsHandler DEF OsVersionQueries
<1>2. IsHandler(Reply(q.get, 200))
  BY <1>t, StatementsOf, OneIsHandler DEF OsVersionQueries
<1>3. IsHandler(Reply(q.add, 201))
  BY <1>t, StatementsOf, OneIsHandler DEF OsVersionQueries
<1>4. IsHandler(Reply(q.update, 200))
  BY <1>t, StatementsOf, ThreeAreHandler DEF OsVersionQueries
<1>5. IsHandler(Reply(q.delete, 204))
  BY <1>t, StatementsOf, TwoAreHandler DEF OsVersionQueries
<1>6. QED
  BY <1>1, <1>2, <1>3, <1>4, <1>5, RefuseIsHandler DEF OsVersions, Unless, Methods

LEMMA DevicesAreHandlers ==
  ASSUME NEW id, NEW b, NEW m \in Methods \cup {"patch"}
  PROVE  IsHandler(Devices(id, b)[m])
<1> DEFINE q == DeviceQueries(id, b)
<1>t. "devices" \in Table /\ "devices" # "pings"
  BY DEF Table, Default
<1>1. IsHandler(Listing(b.size, q.list))
  BY <1>t, ListingIsHandler DEF DeviceQueries
<1>2. IsHandler(Reply(q.get, 200))
  BY <1>t, StatementsOf, OneIsHandler DEF DeviceQueries
<1>3. IsHandler(Reply(q.add, 201))
  BY <1>t, StatementsOf, OneIsHandler DEF DeviceQueries
<1>4. IsHandler(Reply(q.update, 200))
  BY <1>t, StatementsOf, TwoAreHandler DEF DeviceQueries
<1>5. IsHandler(Reply(q.delete, 204))
  BY <1>t, StatementsOf, OneIsHandler DEF DeviceQueries
<1>6. IsHandler(Reply(q.patch, 200))
  BY <1>t, StatementsOf, TwoAreHandler DEF DeviceQueries
<1>7. QED
  BY <1>1, <1>2, <1>3, <1>4, <1>5, <1>6, RefuseIsHandler DEF Devices, Unless, Methods

LEMMA PendingAreHandlers ==
  ASSUME NEW id, NEW b, NEW m \in {"list", "post", "delete"}
  PROVE  IsHandler(PendingDeviceRegistrations(id, b)[m])
<1> DEFINE q == PendingQueries(id, b)
<1>t. "pending" \in Table /\ "pending" # "pings"
  BY DEF Table
<1>1. IsHandler(Listing(b.size, q.list))
  BY <1>t, ListingIsHandler DEF PendingQueries
<1>2. IsHandler(Reply(q.add, 201))
  BY <1>t, StatementsOf, OneIsHandler DEF PendingQueries
<1>3. IsHandler(Reply(q.delete, 204))
  BY <1>t, StatementsOf, OneIsHandler DEF PendingQueries
<1>4. QED
  BY <1>1, <1>2, <1>3 DEF PendingDeviceRegistrations

LEMMA ReportListsAreHandlers ==
  ASSUME NEW id, NEW b, NEW m \in {"list", "get", "delete"}
  PROVE  /\ IsHandler(ReportedOsAssignments(id, b)[m])
         /\ IsHandler(ReportedApplicationAssignments(id, b)[m])
         /\ IsHandler(Pings(b).list)
<1> DEFINE q == ReportedOsQueries(id, b.device, Null, b.size)
           a == ReportedAppQueries(id, b.device, Null, b.size)
<1>t. /\ "reported_os" \in Table /\ "reported_os" # "pings"
      /\ "reported_apps" \in Table /\ "reported_apps" # "pings"
      /\ "pings" \in Table
  BY DEF Table, Default
<1>1. IsHandler(Listing(b.size, q.list)) /\ IsHandler(Listing(b.size, a.list))
  BY <1>t, ListingIsHandler DEF ReportedOsQueries, ReportedAppQueries
<1>2. IsHandler(Reply(q.get, 200)) /\ IsHandler(Reply(a.get, 200))
  BY <1>t, StatementsOf, OneIsHandler DEF ReportedOsQueries, ReportedAppQueries
<1>3. IsHandler(Reply(q.delete, 204)) /\ IsHandler(Reply(a.delete, 204))
  BY <1>t, StatementsOf, OneIsHandler DEF ReportedOsQueries, ReportedAppQueries
<1>4. IsHandler(Pings(b).list)
  BY <1>t, ListingIsHandler DEF Pings, PingQueries
<1>5. QED
  BY <1>1, <1>2, <1>3, <1>4 DEF ReportedOsAssignments, ReportedApplicationAssignments

LEMMA UpsertsOf ==
  /\ \A device, version : IsStatement(ReportedOsQueries(Null, device, version, 1).add[1])
  /\ \A device, config : IsStatement(ReportedAppQueries(Null, device, config, 1).add[1])
  /\ \A device, uptime : IsStatement(PingQueries(device, uptime, 1).upsert[1])
<1>1. ASSUME NEW device, NEW version
      PROVE  IsStatement(ReportedOsQueries(Null, device, version, 1).add[1])
  BY DEF IsStatement, IsQuery, ReportedOsQueries, Upsert, Unique, Table, Default
<1>2. ASSUME NEW device, NEW config
      PROVE  IsStatement(ReportedAppQueries(Null, device, config, 1).add[1])
  BY DEF IsStatement, IsQuery, ReportedAppQueries, Upsert, Unique, Table, Default
<1>3. ASSUME NEW device, NEW uptime
      PROVE  IsStatement(PingQueries(device, uptime, 1).upsert[1])
  BY DEF IsStatement, IsQuery, PingQueries, Upsert, Unique, Table, Default
<1>4. QED
  BY <1>1, <1>2, <1>3

LEMMA DeviceReportIsHandler ==
  ASSUME NEW t \in Task, NEW device
  PROVE  IsHandler(DeviceReport(device, CallOf[t]))
<1> DEFINE call == CallOf[t]
<1>1. CASE call.path = "ping"
  <2>1. PingQueries(device, call.uptime, 1).upsert = <<PingQueries(device, call.uptime, 1).upsert[1]>>
    BY DEF PingQueries
  <2>2. QED
    BY <1>1, <2>1, UpsertsOf, OneIsHandler DEF DeviceReport
<1>2. CASE call.path = "os"
  <2> DEFINE q == ReportedOsQueries(Null, device, call.version, 1).add
  <2>1. q = <<q[1]>>
    BY DEF ReportedOsQueries
  <2>2. QED
    BY <1>2, <2>1, UpsertsOf, OneIsHandler DEF DeviceReport
<1>3. CASE call.path = "apps"
  <2> DEFINE q == [i \in DOMAIN call.configs |->
                     ReportedAppQueries(Null, device, call.configs[i], 1).add[1]]
  <2>1. call.configs \in Seq(Nat)
    BY <1>3, CallAssumption
  <2>2. PICK n : n = Len(call.configs)
    OBVIOUS
  <2>3. n \in Nat /\ DOMAIN call.configs = 1..n
    BY <2>1, <2>2
  <2>4. \A i \in 1..n : IsStatement(q[i])
    BY <2>3, UpsertsOf
  <2>5. q \in [1..n -> Range(q)]
    BY <2>3 DEF Range
  <2>6. IsSequence(q)
    BY <2>3, <2>5 DEF IsSequence
  <2>7. DOMAIN q = 1..n /\ (q # <<>> => 1 \in 1..n)
    BY <2>3, <2>6, LengthOf
  <2> HIDE DEF q
  <2>8. IsHandler(Reply(q, 201))
    BY <2>4, <2>6, <2>7 DEF IsHandler, IsStatement, IsList, Reply
  <2>9. QED
    BY <1>3, <2>8 DEF DeviceReport, q
<1>4. QED
  BY <1>1, <1>2, <1>3, CallAssumption

LEMMA RegisterIsHandler ==
  ASSUME NEW b
  PROVE  IsHandler(Register(b))
<1> DEFINE c == [b EXCEPT !.tenant = 1, !.group = Null]
           s == PendingQueries(Null, b).search
           a == DeviceQueries(Null, c).add
           d == DeleteFound("pending")
<1>1. s = <<s[1]>> /\ IsStatement(s[1])
  <2>1. "pending" \in Table /\ "pending" # "pings"
    BY DEF Table
  <2>2. QED
    BY <2>1, StatementsOf DEF PendingQueries
<1>2. a = <<a[1]>> /\ IsStatement(a[1])
  <2>1. "devices" \in Table /\ "devices" # "pings"
    BY DEF Table, Default
  <2>2. QED
    BY <2>1, StatementsOf DEF DeviceQueries
<1>3. IsStatement(d)
  BY DEF IsStatement, IsQuery, DeleteFound, Table
<1> HIDE DEF s, a, d
<1>4. s \o a \o <<d>> = <<s[1], a[1], d>>
  <2>1. s \o a = <<s[1], a[1]>>
    BY <1>1, <1>2, ConcatOfOnes
  <2>2. <<s[1], a[1]>> \o <<d>> = <<s[1], a[1], d>>
    BY ConcatOfOnes
  <2>3. QED
    BY <2>1, <2>2
<1>5. IsHandler(Reply(s \o a \o <<d>>, 201))
  BY <1>1, <1>2, <1>3, <1>4, ThreeAreHandler
<1>6. QED
  BY <1>5, RefuseIsHandler DEF Register, s, a, d, c

-----------------------------------------------------------------------------
(* A finite set of numbers has a largest one: otherwise what lies above    *)
(* each would be ever smaller.                                             *)
LEMMA LargestExists ==
  ASSUME NEW S \in SUBSET Nat, IsFiniteSet(S), S # {}
  PROVE  \E m \in S : \A x \in S : x <= m
<1> DEFINE Above(m) == { x \in S : m <= x }
           T == { Above(m) : m \in S }
           R == StrictSubsetOrdering(S)
<1>1. IsWellFoundedOn(R, FiniteSubsetsOf(S))
  BY FS_StrictSubsetOrderingWellFounded
<1>2. T \subseteq FiniteSubsetsOf(S) /\ T # {}
  <2>1. T \subseteq SUBSET S /\ T # {}
    OBVIOUS
  <2>2. FiniteSubsetsOf(S) = SUBSET S
    BY FS_FiniteSubsetsOfFinite
  <2>3. QED
    BY <2>1, <2>2
<1> HIDE DEF T, R
<1>3. PICK U \in T : \A V \in T : <<V, U>> \notin R
  BY <1>1, <1>2, WFMin
<1>4. PICK m \in S : U = Above(m)
  BY <1>3 DEF T
<1>5. ASSUME NEW x \in S, ~(x <= m) PROVE FALSE
  <2>1. Above(x) \in T /\ Above(x) \subseteq S /\ Above(m) \subseteq S
    BY DEF T
  <2>2. Above(x) \subseteq Above(m) /\ m \in Above(m) /\ m \notin Above(x)
    <3>1. x \in Nat /\ m \in Nat /\ m <= x /\ ~(x <= m)
      BY <1>5
    <3>2. \A y \in S : y \in Nat /\ (x <= y => m <= y)
      BY <3>1
    <3>3. m \in Above(m) /\ m \notin Above(x)
      BY <3>1
    <3>4. ASSUME NEW y \in Above(x) PROVE y \in Above(m)
      BY <3>2
    <3>5. QED
      BY <3>3, <3>4
  <2>3. <<Above(x), Above(m)>> \in R
    BY <2>1, <2>2 DEF R, StrictSubsetOrdering
  <2>4. QED
    BY <1>3, <1>4, <2>1, <2>3
<1>6. QED
  BY <1>5

LEMMA MaxOf ==
  ASSUME NEW S \in SUBSET Nat, IsFiniteSet(S), S # {}
  PROVE  Max(S) \in S /\ \A x \in S : x <= Max(S)
<1>1. PICK m \in S : \A x \in S : x <= m
  BY LargestExists
<1>2. \A x \in S : m >= x
  BY <1>1
<1>3. Max(S) \in S /\ \A x \in S : Max(S) >= x
  BY <1>2 DEF Max
<1>4. QED
  BY <1>3

LEMMA LatestEntry ==
  ASSUME NEW n \in Nat, NEW E \in SUBSET (1..n), E # {}
  PROVE  LET m == CHOOSE i \in E : \A j \in E : j <= i
         IN  m \in E /\ \A j \in E : j <= m
<1>1. IsFiniteSet(1..n)
  BY FS_Interval
<1>2. IsFiniteSet(E) /\ E \subseteq Nat
  <2>1. IsFiniteSet(E)
    BY <1>1, FS_Subset
  <2>2. 1..n \subseteq Nat
    OBVIOUS
  <2>3. QED
    BY <2>1, <2>2
<1>3. \E m \in E : \A j \in E : j <= m
  BY <1>2, LargestExists
<1>4. QED
  BY <1>3

-----------------------------------------------------------------------------
(* The audit log.  Rows have identifiers that were given out, and so do    *)
(* the rows the log speaks of: a new row starts with a clean record.       *)

TablesAreTyped ==
  /\ tables = [t \in Table |-> tables[t]]
  /\ nextId \in [Table -> Nat \ {0}]
  /\ \A t \in Table : DOMAIN tables[t] \subseteq Ids(t)
LogIsTyped ==
  /\ IsSequence(audit)
  /\ \A i \in 1..Len(audit) : \E t \in Table : audit[i].table = t /\ audit[i].id \in Ids(t)
  /\ since \in [Table -> Nat] /\ \A t \in Table : since[t] <= Len(audit)
  /\ \A t \in Table : DOMAIN base[t] \subseteq Ids(t)
LogInv == LogIsTyped /\ LogReplaysTables

LEMMA EntriesTyped ==
  ASSUME LogIsTyped, NEW t \in Table, NEW id, NEW n \in 0..Len(audit)
  PROVE  /\ EntriesOf(t, id, n) \subseteq 1..n
         /\ id \notin Ids(t) => EntriesOf(t, id, n) = {}
<1>1. since[t] \in Nat /\ Len(audit) \in Nat
  BY LengthOf DEF LogIsTyped
<1>2. \A i \in EntriesOf(t, id, n) : i \in 1..n /\ i \in 1..Len(audit)
  BY <1>1 DEF EntriesOf
<1>3. \A i \in EntriesOf(t, id, n) : audit[i].table = t /\ audit[i].id = id
  BY DEF EntriesOf
<1>4. QED
  BY <1>2, <1>3 DEF LogIsTyped

(* The past stays as it was told.                                          *)
LEMMA ToldStays ==
  ASSUME LogIsTyped, UNCHANGED <<base, since>>,
         \A i \in 1..Len(audit) : audit'[i] = audit[i],
         NEW t \in Table, NEW id, NEW n \in 0..Len(audit)
  PROVE  /\ EntriesOf(t, id, n)' = EntriesOf(t, id, n)
         /\ Told(t, id, n)' = Told(t, id, n)
<1>1. since[t] \in Nat /\ Len(audit) \in Nat
  BY LengthOf DEF LogIsTyped
<1>2. EntriesOf(t, id, n)' = EntriesOf(t, id, n)
  BY <1>1 DEF EntriesOf
<1>3. CASE EntriesOf(t, id, n) = {}
  BY <1>2, <1>3 DEF Told
<1>4. CASE EntriesOf(t, id, n) # {}
  <2>1. PICK E : E = EntriesOf(t, id, n)
    OBVIOUS
  <2>2. PICK m : m = CHOOSE i \in E : \A j \in E : j <= i
    OBVIOUS
  <2>3. E \subseteq 1..n /\ E # {}
    BY <1>4, <2>1, EntriesTyped
  <2>4. m \in E
    <3>1. n \in Nat /\ E \in SUBSET (1..n)
      BY <1>1, <2>3
    <3>2. (CHOOSE i \in E : \A j \in E : j <= i) \in E
      BY <2>3, <3>1, LatestEntry
    <3>3. QED
      BY <2>2, <3>2
  <2>5. audit'[m] = audit[m]
    BY <1>1, <2>3, <2>4
  <2>6. Told(t, id, n) = audit[m].new
    BY <1>4, <2>1, <2>2 DEF Told
  <2>7. Told(t, id, n)' = audit'[m].new
    BY <1>2, <1>4, <2>1, <2>2 DEF Told
  <2>8. QED
    BY <1>2, <2>5, <2>6, <2>7
<1>5. QED
  BY <1>3, <1>4

(* Where nothing was told, the row is what it was when the trigger came.   *)
LEMMA NothingTold ==
  ASSUME TablesAreTyped, LogIsTyped, NEW t \in Table, NEW id, id \notin Ids(t)
  PROVE  /\ EntriesOf(t, id, Len(audit)) = {}
         /\ Told(t, id, Len(audit)) = Gone /\ RowOf(t, id) = Gone
<1>1. Len(audit) \in 0..Len(audit)
  BY LengthOf DEF LogIsTyped
<1>2. EntriesOf(t, id, Len(audit)) = {}
  BY <1>1, EntriesTyped
<1>3. id \notin DOMAIN base[t] /\ id \notin DOMAIN tables[t]
  BY DEF LogIsTyped, TablesAreTyped
<1>4. QED
  BY <1>2, <1>3 DEF Told, RowOf

(* A row is written and the trigger, if there is one, takes it down.       *)
LEMMA WriteKeepsLog ==
  ASSUME TablesAreTyped, LogInv, triggers \subseteq Table,
         NEW t \in Table, NEW id, NEW new, Logged(t, id, new), id \in Ids(t)',
         UNCHANGED <<triggers, base, since>>,
         \A u \in Table : Ids(u) \subseteq Ids(u)',
         RowOf(t, id)' = new,
         \A u \in Table : \A j : u # t \/ j # id => RowOf(u, j)' = RowOf(u, j)
  PROVE  LogInv'
<1>n. PICK n : n = Len(audit)
  OBVIOUS
<1>1. n \in Nat /\ n \in 0..n
  BY <1>n, LengthOf DEF LogInv, LogIsTyped
<1>2. PICK e : e = Entry(t, id, RowOf(t, id), new)
  OBVIOUS
<1>3. e.table = t /\ e.id = id /\ e.old = RowOf(t, id) /\ e.new = new
  BY <1>2 DEF Entry
<1>4. CASE t \notin triggers
  <2>1. UNCHANGED audit
    BY <1>4 DEF Logged
  <2>2. LogIsTyped'
    BY <2>1 DEF LogInv, LogIsTyped
  <2>3. ASSUME NEW u \in triggers, NEW j \in Ids(u)'
        PROVE  /\ Told(u, j, n)' = RowOf(u, j)'
               /\ \A i \in EntriesOf(u, j, n)' : audit[i].old = Told(u, j, i - 1)'
    <3>1. u \in Table /\ u # t /\ RowOf(u, j)' = RowOf(u, j)
      BY <1>4
    <3>2. /\ EntriesOf(u, j, n)' = EntriesOf(u, j, n)
          /\ \A k : Told(u, j, k)' = Told(u, j, k)
      BY <2>1 DEF Told, EntriesOf
    <3>3. CASE j \in Ids(u)
      BY <1>n, <3>1, <3>2, <3>3 DEF LogInv, LogReplaysTables
    <3>4. CASE j \notin Ids(u)
      BY <1>n, <3>1, <3>2, <3>4, NothingTold DEF LogInv
    <3>5. QED
      BY <3>3, <3>4
  <2>4. LogReplaysTables'
    BY <1>n, <2>1, <2>3 DEF LogReplaysTables
  <2>5. QED
    BY <2>2, <2>4 DEF LogInv
<1>5. CASE t \in triggers
  <2>1. /\ IsSequence(audit') /\ Len(audit') = n + 1
        /\ \A i \in 1..n : audit'[i] = audit[i]
        /\ audit'[n + 1] = e
    <3>1. audit' = Append(audit, e)
      BY <1>2, <1>5 DEF Logged
    <3>2. IsSequence(audit)
      BY DEF LogInv, LogIsTyped
    <3>3. QED
      BY <1>n, <3>1, <3>2, AppendOf
  <2>2. LogIsTyped'
    <3>1. ASSUME NEW i \in 1..(n + 1)
          PROVE  \E u \in Table : audit'[i].table = u /\ audit'[i].id \in Ids(u)'
      <4>1. CASE i = n + 1
        BY <1>3, <2>1, <4>1
      <4>2. CASE i \in 1..n
        BY <1>n, <2>1, <4>2 DEF LogInv, LogIsTyped
      <4>3. QED
        BY <1>1, <4>1, <4>2
    <3>2. since' \in [Table -> Nat] /\ \A u \in Table : since'[u] <= n + 1
      BY <1>1, <1>n DEF LogInv, LogIsTyped
    <3>3. \A u \in Table : DOMAIN base'[u] \subseteq Ids(u)'
      BY DEF LogInv, LogIsTyped
    <3>4. QED
      BY <2>1, <3>1, <3>2, <3>3 DEF LogIsTyped
  <2>3. ASSUME NEW u \in triggers, NEW j, NEW k \in 0..n
        PROVE  /\ EntriesOf(u, j, k)' = EntriesOf(u, j, k)
               /\ Told(u, j, k)' = Told(u, j, k)
    BY <1>n, <2>1, ToldStays DEF LogInv
  <2>4. ASSUME NEW u \in triggers, NEW j \in Ids(u)'
        PROVE  /\ Told(u, j, n)' = RowOf(u, j)
               /\ \A i \in EntriesOf(u, j, n)' : audit'[i].old = Told(u, j, i - 1)'
    <3>1. u \in Table
      OBVIOUS
    <3>2. /\ Told(u, j, n) = RowOf(u, j)
          /\ \A i \in EntriesOf(u, j, n) : audit[i].old = Told(u, j, i - 1)
      <4>1. CASE j \in Ids(u)
        BY <1>n, <3>1, <4>1 DEF LogInv, LogReplaysTables
      <4>2. CASE j \notin Ids(u)
        BY <1>n, <3>1, <4>2, NothingTold DEF LogInv
      <4>3. QED
        BY <4>1, <4>2
    <3>3. EntriesOf(u, j, n) \subseteq 1..n
      BY <1>1, <1>n, <3>1, EntriesTyped DEF LogInv
    <3>4. ASSUME NEW i \in EntriesOf(u, j, n)'
          PROVE  audit'[i].old = Told(u, j, i - 1)'
      <4>1. i \in EntriesOf(u, j, n) /\ i \in 1..n /\ i - 1 \in 0..n
        BY <1>1, <2>3, <3>3
      <4>2. audit'[i] = audit[i] /\ Told(u, j, i - 1)' = Told(u, j, i - 1)
        BY <2>1, <2>3, <4>1
      <4>3. QED
        BY <3>2, <4>1, <4>2
    <3>5. QED
      BY <1>1, <2>3, <3>2, <3>4
  <2>5. ASSUME NEW u \in triggers, NEW j \in Ids(u)', u # t \/ j # id
        PROVE  EntriesOf(u, j, n + 1)' = EntriesOf(u, j, n)' /\ Told(u, j, n + 1)' = Told(u, j, n)'
    <3>1. since'[u] \in Nat
      BY <2>2 DEF LogIsTyped
    <3>2. ~(audit'[n + 1].table = u /\ audit'[n + 1].id = j)
      BY <1>3, <2>1, <2>5
    <3>3. EntriesOf(u, j, n + 1)' = EntriesOf(u, j, n)'
      BY <1>1, <3>1, <3>2 DEF EntriesOf
    <3>4. PICK E : E = EntriesOf(u, j, n + 1)'
      OBVIOUS
    <3>5. PICK m : m = CHOOSE i \in E : \A k \in E : k <= i
      OBVIOUS
    <3>6. E = EntriesOf(u, j, n)'
      BY <3>3, <3>4
    <3>7. CASE E = {}
      BY <3>3, <3>4, <3>6, <3>7 DEF Told
    <3>8. CASE E # {}
      <4>1. Told(u, j, n)' = audit'[m].new
        BY <3>5, <3>6, <3>8 DEF Told
      <4>2. Told(u, j, n + 1)' = audit'[m].new
        BY <3>4, <3>5, <3>8 DEF Told
      <4>3. QED
        BY <3>3, <4>1, <4>2
    <3>9. QED
      BY <3>7, <3>8
  <2>6. /\ EntriesOf(t, id, n + 1)' = EntriesOf(t, id, n)' \cup {n + 1}
        /\ Told(t, id, n + 1)' = new
    <3>1. since'[t] \in Nat /\ since'[t] <= n
      BY <1>n DEF LogInv, LogIsTyped
    <3>2. EntriesOf(t, id, n + 1)' = EntriesOf(t, id, n)' \cup {n + 1}
      BY <1>1, <1>3, <2>1, <3>1 DEF EntriesOf
    <3>3. PICK E : E = EntriesOf(t, id, n + 1)'
      OBVIOUS
    <3>4. PICK m : m = CHOOSE i \in E : \A k \in E : k <= i
      OBVIOUS
    <3>5. E \subseteq 1..(n + 1) /\ E # {} /\ n + 1 \in E
      <4>1. EntriesOf(t, id, n)' \subseteq 1..n
        BY <1>1, <1>5, <1>n, <2>3, EntriesTyped DEF LogInv
      <4>2. QED
        BY <1>1, <3>2, <3>3, <4>1
    <3>6. m \in E /\ \A k \in E : k <= m
      <4>1. n + 1 \in Nat /\ E \in SUBSET (1..(n + 1))
        BY <1>1, <3>5
      <4>2. \A x \in Nat : \A S \in SUBSET (1..x) :
              S # {} => LET y == CHOOSE i \in S : \A k \in S : k <= i
                        IN  y \in S /\ \A k \in S : k <= y
        BY LatestEntry
      <4>3. QED
        BY <3>4, <3>5, <4>1, <4>2
    <3>7. m = n + 1
      BY <1>1, <3>5, <3>6
    <3>8. Told(t, id, n + 1)' = audit'[m].new
      BY <3>3, <3>4, <3>5 DEF Told
    <3>9. QED
      BY <1>3, <2>1, <3>2, <3>7, <3>8
  <2>7. ASSUME NEW u \in triggers, NEW j \in Ids(u)'
        PROVE  /\ Told(u, j, n + 1)' = RowOf(u, j)'
               /\ \A i \in EntriesOf(u, j, n + 1)' : audit'[i].old = Told(u, j, i - 1)'
    <3>1. CASE u # t \/ j # id
      BY <2>4, <2>5, <3>1
    <3>2. CASE u = t /\ j = id
      <4>1. audit'[n + 1].old = Told(t, id, (n + 1) - 1)'
        <5>1. audit'[n + 1].old = RowOf(t, id) /\ Told(t, id, n)' = RowOf(t, id)
          BY <1>3, <2>1, <2>4, <3>2
        <5>2. (n + 1) - 1 = n
          BY <1>1
        <5>3. QED
          BY <5>1, <5>2
      <4>2. QED
        BY <2>4, <2>6, <3>2, <4>1
    <3>3. QED
      BY <3>1, <3>2
  <2>8. LogReplaysTables'
    BY <2>1, <2>7 DEF LogReplaysTables
  <2>9. QED
    BY <2>2, <2>8 DEF LogInv
<1>6. QED
  BY <1>4, <1>5

(* A trigger that is created starts a record of its own; the others go on. *)
LEMMA ReconcileKeepsLog ==
  ASSUME TablesAreTyped, LogInv, triggers \subseteq Table, NEW tracked, Reconcile(tracked),
         triggers' \subseteq Table
  PROVE  LogInv'
<1>n. PICK n : n = Len(audit)
  OBVIOUS
<1>1. n \in Nat
  BY <1>n, LengthOf DEF LogInv, LogIsTyped
<1>2. UNCHANGED <<tables, nextId, audit>>
  BY DEF Reconcile
<1>3. \A u \in Table : u \in triggers' /\ u \notin triggers => base'[u] = tables[u] /\ since'[u] = n
  BY <1>n DEF Reconcile
<1>4. \A u \in Table : ~(u \in triggers' /\ u \notin triggers) => base'[u] = base[u] /\ since'[u] = since[u]
  BY DEF Reconcile
<1>5. LogIsTyped'
  <2>1. since' \in [Table -> Nat] /\ \A u \in Table : since'[u] <= n
    <3>1. \A u \in Table : since'[u] \in Nat /\ since'[u] <= n
      BY <1>1, <1>3, <1>4, <1>n DEF LogInv, LogIsTyped
    <3>2. since' = [u \in Table |-> since'[u]]
      BY DEF Reconcile
    <3>3. QED
      BY <3>1, <3>2
  <2>2. ASSUME NEW u \in Table PROVE DOMAIN base'[u] \subseteq Ids(u)'
    <3>1. Ids(u)' = Ids(u) /\ DOMAIN base[u] \subseteq Ids(u) /\ DOMAIN tables[u] \subseteq Ids(u)
      BY <1>2 DEF Ids, LogInv, LogIsTyped, TablesAreTyped
    <3>2. QED
      BY <1>3, <1>4, <3>1
  <2>3. \A i \in 1..n : \E u \in Table : audit'[i].table = u /\ audit'[i].id \in Ids(u)'
    BY <1>2, <1>n DEF LogInv, LogIsTyped, Ids
  <2>4. QED
    BY <1>2, <1>n, <2>1, <2>2, <2>3 DEF LogInv, LogIsTyped
<1>6. ASSUME NEW u \in triggers', NEW j \in Ids(u)'
      PROVE  /\ Told(u, j, n)' = RowOf(u, j)'
             /\ \A i \in EntriesOf(u, j, n)' : audit'[i].old = Told(u, j, i - 1)'
  <2>1. u \in Table /\ j \in Ids(u) /\ RowOf(u, j)' = RowOf(u, j)
    BY <1>2 DEF Ids, RowOf
  <2>2. CASE u \in triggers
    <3>1. base'[u] = base[u] /\ since'[u] = since[u]
      BY <1>4, <2>1, <2>2
    <3>2. /\ EntriesOf(u, j, n)' = EntriesOf(u, j, n)
          /\ \A k : Told(u, j, k)' = Told(u, j, k)
      BY <1>2, <3>1 DEF Told, EntriesOf
    <3>3. QED
      BY <1>2, <1>n, <2>1, <2>2, <3>2 DEF LogInv, LogReplaysTables
  <2>3. CASE u \notin triggers
    <3>1. base'[u] = tables[u] /\ since'[u] = n
      BY <1>3, <2>1, <2>3
    <3>2. EntriesOf(u, j, n)' = {}
      BY <1>1, <3>1 DEF EntriesOf
    <3>3. QED
      BY <1>2, <3>1, <3>2 DEF Told, RowOf
  <2>4. QED
    BY <2>2, <2>3
<1>7. QED
  BY <1>2, <1>5, <1>6, <1>n DEF LogInv, LogReplaysTables

-----------------------------------------------------------------------------
(* The constraints of the database.                                        *)

IsPing(t, id, row) == t = "pings" => row.device = id /\ row.at \in Nat
PingsAreSound ==
  \A p \in DOMAIN tables["pings"] :
    tables["pings"][p].device = p /\ tables["pings"][p].at \in Nat
UsersAreKnown ==
  /\ System \in users /\ users \subseteq User \cup {System}
  /\ session \in users
  /\ triggers \subseteq Table
  /\ \A i \in DOMAIN audit : audit[i].by \in users

DbInv == TablesAreTyped /\ IsConsistent(tables) /\ PingsAreSound /\ UsersAreKnown /\ LogInv

LEMMA SchemaTyped ==
  \A r \in References : r.child \in Table /\ r.parent \in Table /\ r.parent # "pending"
BY DEF References, Reference, Table, Default

LEMMA LogKeepsUsers ==
  ASSUME UsersAreKnown, IsSequence(audit), NEW t, NEW id, NEW new, Logged(t, id, new),
         UNCHANGED <<users, session, triggers>>
  PROVE  UsersAreKnown'
<1>1. CASE t \notin triggers
  BY <1>1 DEF UsersAreKnown, Logged
<1>2. CASE t \in triggers
  <2>1. PICK e : e = Entry(t, id, RowOf(t, id), new)
    OBVIOUS
  <2>2. audit' = Append(audit, e) /\ e.by = session
    BY <1>2, <2>1 DEF Logged, Entry
  <2>3. DOMAIN audit' = 1..(Len(audit) + 1) /\ DOMAIN audit = 1..Len(audit) /\ Len(audit) \in Nat
    BY <2>2, AppendOf, LengthOf
  <2>4. ASSUME NEW i \in DOMAIN audit' PROVE audit'[i].by \in users
    <3>1. CASE i = Len(audit) + 1
      BY <2>2, <3>1, AppendOf DEF UsersAreKnown
    <3>2. CASE i \in DOMAIN audit
      BY <2>2, <2>3, <3>2, AppendOf DEF UsersAreKnown
    <3>3. QED
      BY <2>3, <3>1, <3>2
  <2>5. QED
    BY <2>4 DEF UsersAreKnown
<1>3. QED
  BY <1>1, <1>2

LEMMA PutKeepsDb ==
  ASSUME DbInv, NEW t \in Table, NEW id, NEW row, PutRow(t, id, row),
         Allowed(tables, t, id, row), IsPing(t, id, row),
         nextId' \in [Table -> Nat \ {0}], \A u \in Table : nextId[u] <= nextId'[u],
         id \in Ids(t)'
  PROVE  /\ DbInv'
         /\ \A u \in Table : DOMAIN tables'[u] = IF u = t THEN DOMAIN tables[u] \cup {id} ELSE DOMAIN tables[u]
         /\ \A u \in Table : \A j \in DOMAIN tables'[u] :
              tables'[u][j] = IF u = t /\ j = id THEN row ELSE tables[u][j]
<1> USE DEF DbInv
<1>1. /\ tables' = [tables EXCEPT ![t] = [i \in DOMAIN @ \cup {id} |-> IF i = id THEN row ELSE @[i]]]
      /\ Logged(t, id, row)
      /\ UNCHANGED <<users, session, triggers, base, since>>
  BY DEF PutRow
<1>2. tables = [u \in Table |-> tables[u]]
  BY DEF TablesAreTyped
<1>3. \A u \in Table : tables'[u] = IF u = t THEN [i \in DOMAIN tables[t] \cup {id} |-> IF i = id THEN row ELSE tables[t][i]]
                                    ELSE tables[u]
  BY <1>1, <1>2
<1>4. \A u \in Table : DOMAIN tables'[u] = IF u = t THEN DOMAIN tables[u] \cup {id} ELSE DOMAIN tables[u]
  BY <1>3
<1>5. ASSUME NEW u \in Table, NEW j \in DOMAIN tables'[u]
      PROVE  tables'[u][j] = IF u = t /\ j = id THEN row ELSE tables[u][j]
  BY <1>3, <1>4, <1>5
<1>6. \A u \in Table : Ids(u) \subseteq Ids(u)'
  <2>1. ASSUME NEW u \in Table, NEW v \in Table, v = IF u = "pings" THEN "devices" ELSE u
        PROVE  Ids(u) \subseteq Ids(u)'
    <3>1. nextId[v] \in Nat /\ nextId'[v] \in Nat /\ nextId[v] <= nextId'[v]
      BY DEF TablesAreTyped
    <3>2. Ids(u) = 1..(nextId[v] - 1) /\ Ids(u)' = 1..(nextId'[v] - 1)
      BY <2>1 DEF Ids
    <3>3. QED
      BY <3>1, <3>2
  <2>2. "devices" \in Table
    BY DEF Table, Default
  <2>3. QED
    BY <2>1, <2>2
<1>7. TablesAreTyped'
  <2>1. tables' = [u \in Table |-> tables'[u]]
    BY <1>1, <1>2
  <2>2. ASSUME NEW u \in Table PROVE DOMAIN tables'[u] \subseteq Ids(u)'
    BY <1>4, <1>6 DEF TablesAreTyped
  <2>3. QED
    BY <2>1, <2>2 DEF TablesAreTyped
<1>8. IsConsistent(tables')
  <2>1. ASSUME NEW u \in Table, NEW j \in DOMAIN tables'[u]
        PROVE  ReferencesHold(tables', u, tables'[u][j])
    <3>1. ReferencesHold(tables, u, tables'[u][j])
      <4>1. CASE u = t /\ j = id
        BY <1>5, <4>1 DEF Allowed
      <4>2. CASE ~(u = t /\ j = id)
        BY <1>4, <1>5, <4>2 DEF IsConsistent, Allowed
      <4>3. QED
        BY <4>1, <4>2
    <3>2. \A v \in Table : DOMAIN tables[v] \subseteq DOMAIN tables'[v]
      BY <1>4
    <3>3. QED
      BY <3>1, <3>2, SchemaTyped DEF ReferencesHold
  <2>2. ASSUME NEW u \in Table, NEW j \in DOMAIN tables'[u]
        PROVE  ~Clashes(tables', u, j, tables'[u][j])
    <3> SUFFICES ASSUME Unique(u) # {}, NEW o \in DOMAIN tables'[u], o # j,
                        Same(tables'[u][o], tables'[u][j], Unique(u))
                 PROVE  FALSE
      BY DEF Clashes
    <3>1. CASE u = t /\ j = id
      <4>1. o \in DOMAIN tables[t] \ {id} /\ tables'[u][o] = tables[t][o] /\ tables'[u][j] = row
        BY <1>4, <1>5, <3>1
      <4>2. QED
        BY <3>1, <4>1 DEF Allowed, Clashes
    <3>2. CASE u = t /\ o = id
      <4>1. j \in DOMAIN tables[t] \ {id} /\ tables'[u][j] = tables[t][j] /\ tables'[u][o] = row
        <5>1. j # id /\ j \in DOMAIN tables'[t] /\ id \in DOMAIN tables'[t]
          BY <3>2
        <5>2. j \in DOMAIN tables[t]
          BY <1>4, <5>1
        <5>3. tables'[t][j] = tables[t][j] /\ tables'[t][id] = row
          BY <1>5, <5>1
        <5>4. QED
          BY <3>2, <5>1, <5>2, <5>3
      <4>2. Same(tables[t][j], row, Unique(t))
        BY <3>2, <4>1 DEF Same
      <4>3. QED
        BY <3>2, <4>1, <4>2 DEF Allowed, Clashes
    <3>3. CASE ~(u = t /\ j = id) /\ ~(u = t /\ o = id)
      <4>1. /\ j \in DOMAIN tables[u] /\ tables'[u][j] = tables[u][j]
            /\ o \in DOMAIN tables[u] /\ tables'[u][o] = tables[u][o]
        BY <1>4, <1>5, <3>3
      <4>2. ~Clashes(tables, u, j, tables[u][j])
        BY <4>1 DEF IsConsistent, Allowed
      <4>3. QED
        BY <4>1, <4>2 DEF Clashes
    <3>4. QED
      BY <3>1, <3>2, <3>3
  <2>3. QED
    BY <2>1, <2>2 DEF IsConsistent, Allowed
<1>9. PingsAreSound'
  <2>1. "pings" \in Table
    BY DEF Table, Default
  <2>2. ASSUME NEW p \in DOMAIN tables'["pings"]
        PROVE  tables'["pings"][p].device = p /\ tables'["pings"][p].at \in Nat
    <3>0. tables'["pings"][p] = IF t = "pings" /\ p = id THEN row ELSE tables["pings"][p]
      BY <1>5, <2>1
    <3>1. CASE t = "pings" /\ p = id
      <4>1. row.device = p /\ row.at \in Nat
        BY <3>1 DEF IsPing
      <4>2. tables'["pings"][p] = row
        BY <3>0, <3>1
      <4>3. QED
        BY <4>1, <4>2
    <3>2. CASE ~(t = "pings" /\ p = id)
      <4>1. p \in DOMAIN tables["pings"]
        BY <1>4, <2>1, <3>2
      <4>2. tables'["pings"][p] = tables["pings"][p]
        BY <3>0, <3>2
      <4>3. QED
        BY <4>1, <4>2 DEF PingsAreSound
    <3>3. QED
      BY <3>1, <3>2
  <2>3. QED
    BY <2>2 DEF PingsAreSound
<1>10. UsersAreKnown'
  BY <1>1, LogKeepsUsers DEF LogInv, LogIsTyped
<1>11. LogInv'
  <2>1. RowOf(t, id)' = row
    BY <1>4, <1>5 DEF RowOf
  <2>2. ASSUME NEW u \in Table, NEW j, u # t \/ j # id PROVE RowOf(u, j)' = RowOf(u, j)
    BY <1>4, <1>5, <2>2 DEF RowOf
  <2>3. triggers \subseteq Table
    BY DEF UsersAreKnown
  <2>4. QED
    BY <1>1, <1>6, <2>1, <2>2, <2>3, WriteKeepsLog
<1>12. QED
  BY <1>4, <1>5, <1>7, <1>8, <1>9, <1>10, <1>11

LEMMA RemoveKeepsDb ==
  ASSUME DbInv, NEW t \in Table, NEW id \in DOMAIN tables[t], RemoveRow(t, id),
         ~Referenced(t, id)
  PROVE  /\ DbInv'
         /\ \A u \in Table : DOMAIN tables'[u] = IF u = t THEN DOMAIN tables[u] \ {id} ELSE DOMAIN tables[u]
         /\ \A u \in Table : \A j \in DOMAIN tables'[u] : tables'[u][j] = tables[u][j]
<1> USE DEF DbInv
<1>1. /\ tables' = [tables EXCEPT ![t] = [i \in DOMAIN @ \ {id} |-> @[i]]]
      /\ Logged(t, id, Gone)
      /\ UNCHANGED <<nextId, users, session, triggers, base, since>>
  BY DEF RemoveRow
<1>2. tables = [u \in Table |-> tables[u]]
  BY DEF TablesAreTyped
<1>3. \A u \in Table : tables'[u] = IF u = t THEN [i \in DOMAIN tables[t] \ {id} |-> tables[t][i]]
                                    ELSE tables[u]
  BY <1>1, <1>2
<1>4. \A u \in Table : DOMAIN tables'[u] = IF u = t THEN DOMAIN tables[u] \ {id} ELSE DOMAIN tables[u]
  BY <1>3
<1>5. ASSUME NEW u \in Table, NEW j \in DOMAIN tables'[u]
      PROVE  j \in DOMAIN tables[u] /\ tables'[u][j] = tables[u][j]
  BY <1>3, <1>4, <1>5
<1>6. \A u \in Table : Ids(u)' = Ids(u)
  BY <1>1 DEF Ids
<1>7. TablesAreTyped'
  <2>1. tables' = [u \in Table |-> tables'[u]]
    BY <1>1, <1>2
  <2>2. ASSUME NEW u \in Table PROVE DOMAIN tables'[u] \subseteq Ids(u)'
    BY <1>4, <1>6 DEF TablesAreTyped
  <2>3. QED
    BY <1>1, <2>1, <2>2 DEF TablesAreTyped
<1>8. IsConsistent(tables')
  <2>1. ASSUME NEW u \in Table, NEW j \in DOMAIN tables'[u]
        PROVE  ReferencesHold(tables', u, tables'[u][j])
    <3> SUFFICES ASSUME NEW r \in References, r.child = u,
                        ~(r.column = "group" /\ tables'[u][j].group = Null)
                 PROVE  tables'[u][j][r.column] \in DOMAIN tables'[r.parent]
      BY DEF ReferencesHold
    <3>1. j \in DOMAIN tables[u] /\ tables'[u][j] = tables[u][j]
      BY <1>5
    <3>2. tables[u][j][r.column] \in DOMAIN tables[r.parent]
      BY <3>1 DEF IsConsistent, Allowed, ReferencesHold
    <3>3. ~(r.parent = t /\ tables[u][j][r.column] = id)
      BY <3>1 DEF Referenced
    <3>4. QED
      BY <1>4, <3>1, <3>2, <3>3, SchemaTyped
  <2>2. ASSUME NEW u \in Table, NEW j \in DOMAIN tables'[u]
        PROVE  ~Clashes(tables', u, j, tables'[u][j])
    <3>1. ~Clashes(tables, u, j, tables[u][j])
      BY <1>5 DEF IsConsistent, Allowed
    <3>2. QED
      BY <1>5, <3>1 DEF Clashes
  <2>3. QED
    BY <2>1, <2>2 DEF IsConsistent, Allowed
<1>9. PingsAreSound'
  <2>1. "pings" \in Table
    BY DEF Table, Default
  <2>2. QED
    BY <1>5, <2>1 DEF PingsAreSound
<1>10. UsersAreKnown'
  BY <1>1, LogKeepsUsers DEF LogInv, LogIsTyped
<1>11. LogInv'
  <2>1. RowOf(t, id)' = Gone
    BY <1>4 DEF RowOf
  <2>2. ASSUME NEW u \in Table, NEW j, u # t \/ j # id PROVE RowOf(u, j)' = RowOf(u, j)
    BY <1>4, <1>5, <2>2 DEF RowOf
  <2>3. triggers \subseteq Table
    BY DEF UsersAreKnown
  <2>4. id \in Ids(t)'
    BY <1>6 DEF TablesAreTyped
  <2>5. QED
    BY <1>1, <1>6, <2>1, <2>2, <2>3, <2>4, WriteKeepsLog
<1>12. QED
  BY <1>4, <1>5, <1>7, <1>8, <1>9, <1>10, <1>11

LEMMA LogStays ==
  ASSUME LogInv, UNCHANGED <<tables, nextId, triggers, audit, base, since>>
  PROVE  LogInv'
<1>1. /\ \A t, id, n : EntriesOf(t, id, n)' = EntriesOf(t, id, n)
      /\ \A t : Ids(t)' = Ids(t)
      /\ \A t, id : RowOf(t, id)' = RowOf(t, id)
  BY DEF EntriesOf, Ids, RowOf
<1>2. \A t, id, n : Told(t, id, n)' = Told(t, id, n)
  BY DEF Told, EntriesOf
<1>3. LogIsTyped'
  BY <1>1 DEF LogInv, LogIsTyped
<1>4. LogReplaysTables'
  BY <1>1, <1>2 DEF LogInv, LogReplaysTables
<1>5. QED
  BY <1>3, <1>4 DEF LogInv

(* The users, the session and a start of the server.                       *)
LEMMA SessionKeepsDb ==
  ASSUME DbInv, NEW u \in User,
         UpsertUser(u) \/ (u \in users /\ SetSessionUser(u))
  PROVE  DbInv'
<1>1. UNCHANGED <<tables, nextId, triggers, audit, base, since>>
  BY DEF UpsertUser, SetSessionUser
<1>2. /\ TablesAreTyped' /\ IsConsistent(tables') /\ PingsAreSound'
  BY <1>1 DEF DbInv, TablesAreTyped, Ids, PingsAreSound
<1>3. LogInv'
  BY <1>1, LogStays DEF DbInv
<1>4. UsersAreKnown'
  BY <1>1 DEF DbInv, UsersAreKnown, UpsertUser, SetSessionUser
<1>5. QED
  BY <1>2, <1>3, <1>4 DEF DbInv

LEMMA ReconcileKeepsDb ==
  ASSUME DbInv, NEW n \in DOMAIN Tracked, Reconcile(Tracked[n])
  PROVE  DbInv'
<1>1. UNCHANGED <<tables, nextId, users, audit>> /\ session' = System
  BY DEF Reconcile
<1>2. triggers' \subseteq Table
  <2>1. Created(Tracked[n]) \subseteq Table
    BY TrackedAssumption DEF Created, Range
  <2>2. QED
    BY <2>1 DEF Reconcile, Kept, DbInv, UsersAreKnown
<1>3. /\ TablesAreTyped' /\ IsConsistent(tables') /\ PingsAreSound'
  BY <1>1 DEF DbInv, TablesAreTyped, Ids, PingsAreSound
<1>4. UsersAreKnown'
  BY <1>1, <1>2 DEF DbInv, UsersAreKnown
<1>5. LogInv'
  BY <1>2, ReconcileKeepsLog DEF DbInv, UsersAreKnown
<1>6. QED
  BY <1>3, <1>4, <1>5 DEF DbInv

LEMMA QuietKeepsDb ==
  ASSUME DbInv, UNCHANGED dbVars
  PROVE  DbInv'
<1>1. LogInv'
  BY LogStays DEF DbInv, dbVars
<1>2. QED
  BY <1>1 DEF DbInv, TablesAreTyped, Ids, PingsAreSound, UsersAreKnown, dbVars

-----------------------------------------------------------------------------
(* The time of a report is later than all there are.                       *)

LEMMA RowsAreFinite ==
  ASSUME TablesAreTyped, NEW t \in Table
  PROVE  /\ DOMAIN tables[t] \subseteq Nat /\ IsFiniteSet(DOMAIN tables[t])
         /\ Ids(t) \subseteq Nat
<1>1. PICK u \in Table : Ids(t) = 1..(nextId[u] - 1)
  BY DEF Ids, Table, Default
<1>2. nextId[u] \in Nat \ {0}
  BY DEF TablesAreTyped
<1>3. IsFiniteSet(1..(nextId[u] - 1)) /\ 1..(nextId[u] - 1) \subseteq Nat
  BY <1>2, FS_Interval
<1>4. DOMAIN tables[t] \subseteq 1..(nextId[u] - 1)
  BY <1>1 DEF TablesAreTyped
<1>5. QED
  BY <1>1, <1>3, <1>4, FS_Subset

LEMMA NextTimeIsLater ==
  ASSUME TablesAreTyped, PingsAreSound
  PROVE  /\ NextTime("pings") \in Nat
         /\ \A o \in DOMAIN tables["pings"] : tables["pings"][o].at <= NextTime("pings")
<1> DEFINE D == DOMAIN tables["pings"]
           S == { tables["pings"][o].at : o \in D }
           f == [o \in D |-> tables["pings"][o].at]
<1>1. IsFiniteSet(D)
  <2>1. "pings" \in Table
    BY DEF Table, Default
  <2>2. QED
    BY <2>1, RowsAreFinite
<1>2. f \in Surjection(D, S)
  BY DEF Surjection
<1>3. IsFiniteSet(S)
  <2> HIDE DEF D, S, f
  <2>1. QED
    BY <1>1, <1>2, FS_Surjection
<1>4. S \subseteq Nat
  BY DEF PingsAreSound
<1>5. {0} \cup S \subseteq Nat /\ IsFiniteSet({0} \cup S) /\ {0} \cup S # {}
  <2>1. {0} \cup S = S \cup {0}
    OBVIOUS
  <2> HIDE DEF S
  <2>2. IsFiniteSet(S \cup {0})
    BY <1>3, FS_AddElement
  <2>3. QED
    BY <1>4, <2>1, <2>2
<1>6. PICK m : m = Max({0} \cup S)
  OBVIOUS
<1>7. m \in Nat /\ \A x \in S : x <= m
  <2> HIDE DEF S
  <2>1. m \in {0} \cup S /\ \A x \in {0} \cup S : x <= m
    BY <1>5, <1>6, MaxOf
  <2>2. QED
    BY <1>5, <2>1
<1>8. NextTime("pings") = 1 + m
  BY <1>6 DEF NextTime
<1>9. ASSUME NEW o \in D PROVE tables["pings"][o].at <= 1 + m
  <2>1. tables["pings"][o].at \in S /\ tables["pings"][o].at \in Nat
    BY <1>4
  <2>2. QED
    BY <1>7, <2>1
<1>10. QED
  BY <1>7, <1>8, <1>9

LEMMA StampedOf ==
  ASSUME NEW t, NEW id, NEW row
  PROVE  /\ \A f \in DOMAIN row \ {"at"} : Stamped(t, id, row)[f] = row[f]
         /\ t = "pings" /\ "at" \in DOMAIN row
              => Stamped(t, id, row).at \in {NextTime(t)} \cup (IF id \in DOMAIN tables[t] THEN {row.at} ELSE {})
BY DEF Stamped

LEMMA ForeignKeysAreUnique ==
  ASSUME NEW t \in {"pings", "reported_os", "reported_apps"}
  PROVE  /\ \A r \in References : r.child = t => r.column \in Unique(t) /\ r.column # "group"
         /\ "at" \notin Unique(t) /\ t \in Table
BY DEF References, Reference, Unique, Table, Default

-----------------------------------------------------------------------------
(* The statements.                                                         *)

PingsRise ==
  /\ DOMAIN tables["pings"] \subseteq DOMAIN tables'["pings"]
  /\ \A p \in DOMAIN tables["pings"] : tables["pings"][p].at <= tables'["pings"][p].at

LEMMA QuietRise == ASSUME PingsAreSound, UNCHANGED tables PROVE PingsRise
BY DEF PingsRise, PingsAreSound

LEMMA OtherTableRise ==
  ASSUME DbInv, NEW t \in Table, t # "pings",
         \A u \in Table : u # t => DOMAIN tables'[u] = DOMAIN tables[u],
         \A u \in Table : u # t => \A j \in DOMAIN tables'[u] : tables'[u][j] = tables[u][j]
  PROVE  PingsRise
<1>1. "pings" \in Table
  BY DEF Table, Default
<1>2. QED
  BY <1>1 DEF PingsRise, DbInv, PingsAreSound

LEMMA InsertKeepsDb ==
  ASSUME DbInv, NEW c, NEW s, IsQuery(s), ExecuteInsert(c, s)
  PROVE  DbInv' /\ PingsRise
<1>1. s.table \in Table /\ s.table # "pings"
  BY DEF IsQuery, ExecuteInsert
<1>2. CASE UNCHANGED dbVars
  BY <1>2, QuietKeepsDb, QuietRise DEF DbInv, dbVars
<1>3. CASE ~UNCHANGED dbVars
  <2>1. PICK t \in Table : t = s.table
    BY <1>1
  <2>2. PICK id : id = nextId[t]
    OBVIOUS
  <2>3. /\ Allowed(tables, t, id, s.row) /\ PutRow(t, id, s.row)
        /\ nextId' = [nextId EXCEPT ![t] = @ + 1]
    BY <1>3, <2>1, <2>2 DEF ExecuteInsert, Refused
  <2>4. nextId \in [Table -> Nat \ {0}]
    BY DEF DbInv, TablesAreTyped
  <2>5. /\ nextId' \in [Table -> Nat \ {0}] /\ \A u \in Table : nextId[u] <= nextId'[u]
        /\ nextId'[t] = id + 1 /\ id \in Nat \ {0}
    BY <2>2, <2>3, <2>4
  <2>6. id \in Ids(t)'
    BY <1>1, <2>1, <2>5 DEF Ids
  <2>7. /\ DbInv'
        /\ \A u \in Table : DOMAIN tables'[u] = IF u = t THEN DOMAIN tables[u] \cup {id} ELSE DOMAIN tables[u]
        /\ \A u \in Table : \A j \in DOMAIN tables'[u] :
             tables'[u][j] = IF u = t /\ j = id THEN s.row ELSE tables[u][j]
    <3>1. IsPing(t, id, s.row)
      BY <1>1, <2>1 DEF IsPing
    <3>2. QED
      BY <2>3, <2>5, <2>6, <3>1, PutKeepsDb
  <2>8. QED
    BY <1>1, <2>1, <2>7, OtherTableRise
<1>4. QED
  BY <1>2, <1>3

LEMMA UpdateKeepsDb ==
  ASSUME DbInv, NEW c, NEW s, IsQuery(s), ExecuteUpdate(c, s)
  PROVE  DbInv' /\ PingsRise
<1>1. s.table \in Table /\ s.table # "pings"
  BY DEF IsQuery, ExecuteUpdate
<1>2. CASE UNCHANGED dbVars
  BY <1>2, QuietKeepsDb, QuietRise DEF DbInv, dbVars
<1>3. CASE ~UNCHANGED dbVars
  <2>1. PICK t \in Table : t = s.table
    BY <1>1
  <2>2. PICK row : row = Updated(c, s)
    OBVIOUS
  <2>3. PICK id : id = req[c].found
    OBVIOUS
  <2>4. /\ id \in DOMAIN tables[t] /\ Allowed(tables, t, id, row) /\ PutRow(t, id, row)
        /\ nextId' = nextId
    BY <1>3, <2>1, <2>2, <2>3 DEF ExecuteUpdate, Refused
  <2>5. nextId' \in [Table -> Nat \ {0}] /\ \A u \in Table : nextId[u] <= nextId'[u]
    BY <2>4 DEF DbInv, TablesAreTyped
  <2>6. id \in Ids(t)'
    BY <2>4 DEF Ids, DbInv, TablesAreTyped
  <2>7. /\ DbInv'
        /\ \A u \in Table : DOMAIN tables'[u] = IF u = t THEN DOMAIN tables[u] \cup {id} ELSE DOMAIN tables[u]
        /\ \A u \in Table : \A j \in DOMAIN tables'[u] :
             tables'[u][j] = IF u = t /\ j = id THEN row ELSE tables[u][j]
    <3>1. IsPing(t, id, row)
      BY <1>1, <2>1 DEF IsPing
    <3>2. QED
      BY <2>4, <2>5, <2>6, <3>1, PutKeepsDb
  <2>8. QED
    BY <1>1, <2>1, <2>7, OtherTableRise
<1>4. QED
  BY <1>2, <1>3

LEMMA DeleteKeepsDb ==
  ASSUME DbInv, NEW c, NEW s, IsQuery(s), ExecuteDelete(c, s) \/ ExecuteDiscard(c, s)
  PROVE  DbInv' /\ PingsRise
<1>1. s.table \in Table /\ s.table # "pings"
  BY DEF IsQuery, ExecuteDelete, ExecuteDiscard
<1>2. CASE UNCHANGED dbVars
  BY <1>2, QuietKeepsDb, QuietRise DEF DbInv, dbVars
<1>3. ASSUME NEW id \in DOMAIN tables[s.table], RemoveRow(s.table, id), ~Referenced(s.table, id)
      PROVE  DbInv' /\ PingsRise
  <2>1. PICK t \in Table : t = s.table
    BY <1>1
  <2>2. /\ DbInv'
        /\ \A u \in Table : DOMAIN tables'[u] = IF u = t THEN DOMAIN tables[u] \ {id} ELSE DOMAIN tables[u]
        /\ \A u \in Table : \A j \in DOMAIN tables'[u] : tables'[u][j] = tables[u][j]
    BY <1>3, <2>1, RemoveKeepsDb
  <2>3. QED
    BY <1>1, <2>1, <2>2, OtherTableRise
<1>4. CASE ExecuteDelete(c, s)
  BY <1>2, <1>3, <1>4 DEF ExecuteDelete, Refused
<1>5. CASE ExecuteDiscard(c, s)
  <2>1. s.table = "pending"
    BY <1>5 DEF IsQuery, ExecuteDiscard
  <2>2. \A id : ~Referenced(s.table, id)
    BY <2>1, SchemaTyped DEF Referenced
  <2>3. QED
    BY <1>2, <1>3, <1>5, <2>2 DEF ExecuteDiscard
<1>6. QED
  BY <1>4, <1>5

LEMMA UpsertKeepsDb ==
  ASSUME DbInv, NEW c, NEW s, IsQuery(s), ExecuteUpsert(c, s)
  PROVE  DbInv' /\ PingsRise
<1>t. PICK t \in Table : t = s.table
  BY DEF IsQuery
<1>1. /\ t \in {"pings", "reported_os", "reported_apps"}
      /\ Unique(t) \subseteq DOMAIN s.row \ DOMAIN s.columns
      /\ t = "pings" => "at" \in DOMAIN s.row \ DOMAIN s.columns
  BY <1>t DEF IsQuery, ExecuteUpsert
<1>2. CASE UNCHANGED dbVars
  BY <1>2, QuietKeepsDb, QuietRise DEF DbInv, dbVars
<1>p. "pings" \in Table /\ "devices" \in Table
  BY DEF Table, Default
<1>4. /\ NextTime("pings") \in Nat
      /\ \A o \in DOMAIN tables["pings"] : tables["pings"][o].at <= NextTime("pings")
  BY NextTimeIsLater DEF DbInv
<1>5. ASSUME NEW id, NEW new, PutRow(t, id, new), Allowed(tables, t, id, new), id \in Ids(t)',
             nextId' \in [Table -> Nat \ {0}], \A u \in Table : nextId[u] <= nextId'[u],
             IsPing(t, id, new),
             t = "pings" /\ id \in DOMAIN tables[t] => tables[t][id].at <= new.at
      PROVE  DbInv' /\ PingsRise
  <2>1. /\ DbInv'
        /\ \A u \in Table : DOMAIN tables'[u] = IF u = t THEN DOMAIN tables[u] \cup {id} ELSE DOMAIN tables[u]
        /\ \A u \in Table : \A j \in DOMAIN tables'[u] :
             tables'[u][j] = IF u = t /\ j = id THEN new ELSE tables[u][j]
    BY <1>5, PutKeepsDb
  <2>2. CASE t # "pings"
    <3>1. /\ \A u \in Table : u # t => DOMAIN tables'[u] = DOMAIN tables[u]
          /\ \A u \in Table : \A j \in DOMAIN tables'[u] : u # t => tables'[u][j] = tables[u][j]
      BY <2>1
    <3>2. QED
      BY <2>1, <2>2, <3>1, OtherTableRise
  <2>3. CASE t = "pings"
    <3>1. DOMAIN tables["pings"] \subseteq DOMAIN tables'["pings"]
      BY <1>p, <2>1
    <3>2. ASSUME NEW p \in DOMAIN tables["pings"]
          PROVE  tables["pings"][p].at <= tables'["pings"][p].at
      <4>1. tables["pings"][p].at \in Nat
        BY DEF DbInv, PingsAreSound
      <4>2. tables'["pings"][p] = IF p = id THEN new ELSE tables["pings"][p]
        BY <1>p, <2>1, <2>3, <3>1
      <4>3. QED
        BY <1>5, <2>3, <4>1, <4>2 DEF IsPing
    <3>3. QED
      BY <2>1, <3>1, <3>2 DEF PingsRise
  <2>4. QED
    BY <2>2, <2>3
(* The row there is: what is unique in it, and refers to others, stays.    *)
<1>6. ASSUME NEW id \in DOMAIN tables[t], NEW row, UNCHANGED nextId,
             row = [f \in DOMAIN s.row |->
                      IF f \in DOMAIN s.columns THEN s.columns[f] ELSE tables[t][id][f]],
             PutRow(t, id, Stamped(t, id, row))
      PROVE  DbInv' /\ PingsRise
  <2>1. PICK new : new = Stamped(t, id, row)
    OBVIOUS
  <2>2. \A f \in Unique(t) : new[f] = tables[t][id][f]
    <3>1. \A f \in Unique(t) : f \in DOMAIN row \ {"at"} /\ row[f] = tables[t][id][f]
      BY <1>1, <1>6, ForeignKeysAreUnique
    <3>2. QED
      BY <2>1, <3>1, StampedOf
  <2>3. Allowed(tables, t, id, tables[t][id])
    BY <1>1 DEF DbInv, IsConsistent
  <2>4. ReferencesHold(tables, t, new)
    BY <1>1, <2>2, <2>3, ForeignKeysAreUnique DEF Allowed, ReferencesHold
  <2>5. ~Clashes(tables, t, id, new)
    BY <2>2, <2>3 DEF Allowed, Clashes, Same
  <2>6. t = "pings" => new.device = id /\ new.at \in Nat /\ tables[t][id].at <= new.at
    <3> SUFFICES ASSUME t = "pings"
                 PROVE  new.device = id /\ new.at \in Nat /\ tables[t][id].at <= new.at
      OBVIOUS
    <3>0. new.device = id
      BY <1>6, <2>2 DEF Unique, DbInv, PingsAreSound
    <3>1. "at" \in DOMAIN row /\ row.at = tables[t][id].at /\ row.at \in Nat
      BY <1>1, <1>6 DEF DbInv, PingsAreSound
    <3>2. new.at \in {NextTime(t), row.at}
      BY <1>6, <2>1, <3>1, StampedOf
    <3>3. QED
      BY <1>4, <1>6, <3>0, <3>1, <3>2
  <2>7. nextId' \in [Table -> Nat \ {0}] /\ \A u \in Table : nextId[u] <= nextId'[u]
    BY <1>6 DEF DbInv, TablesAreTyped
  <2>8. id \in Ids(t)'
    BY <1>1, <1>6 DEF Ids, DbInv, TablesAreTyped
  <2>9. IsPing(t, id, new) /\ (t = "pings" => tables[t][id].at <= new.at)
    BY <2>6 DEF IsPing
  <2>10. QED
    BY <1>5, <1>6, <2>1, <2>4, <2>5, <2>7, <2>8, <2>9 DEF Allowed
(* A row that is new.                                                      *)
<1>7. ASSUME NEW id, PutRow(t, id, Stamped(t, id, s.row)), ReferencesHold(tables, t, s.row),
             { o \in DOMAIN tables[t] : Same(tables[t][o], s.row, Unique(t)) } = {},
             IF t = "pings" THEN id = s.row.device /\ UNCHANGED nextId
             ELSE id = nextId[t] /\ nextId' = [nextId EXCEPT ![t] = @ + 1]
      PROVE  DbInv' /\ PingsRise
  <2>1. PICK new : new = Stamped(t, id, s.row)
    OBVIOUS
  <2>2. \A f \in Unique(t) : new[f] = s.row[f]
    BY <1>1, <2>1, ForeignKeysAreUnique, StampedOf
  <2>3. ReferencesHold(tables, t, new)
    BY <1>1, <1>7, <2>2, ForeignKeysAreUnique DEF ReferencesHold
  <2>4. ~Clashes(tables, t, id, new)
    <3>1. \A o \in DOMAIN tables[t] : ~Same(tables[t][o], s.row, Unique(t))
      BY <1>7
    <3>2. \A o \in DOMAIN tables[t] : ~Same(tables[t][o], new, Unique(t))
      BY <2>2, <3>1 DEF Same
    <3>3. QED
      BY <3>2 DEF Clashes
  <2>5. nextId \in [Table -> Nat \ {0}]
    BY DEF DbInv, TablesAreTyped
  <2>6. nextId' \in [Table -> Nat \ {0}] /\ \A u \in Table : nextId[u] <= nextId'[u]
    <3>1. CASE t = "pings"
      BY <1>7, <2>5, <3>1
    <3>2. CASE t # "pings"
      BY <1>1, <1>7, <2>5, <3>2
    <3>3. QED
      BY <3>1, <3>2
  <2>7. CASE t = "pings"
    <3>1. id \in DOMAIN tables["devices"]
      <4>1. Reference("pings", "device", "devices") \in References
        BY DEF References
      <4>2. PICK r \in References : r.child = "pings" /\ r.column = "device" /\ r.parent = "devices"
        BY <4>1 DEF Reference
      <4>3. QED
        BY <1>7, <2>7, <4>2 DEF ReferencesHold
    <3>2. id \in Ids(t)'
      BY <1>7, <1>p, <2>7, <3>1 DEF Ids, DbInv, TablesAreTyped
    <3>3. id \notin DOMAIN tables[t]
      BY <1>7, <2>7 DEF Unique, Same, DbInv, PingsAreSound
    <3>4. new.at \in Nat /\ new.device = id
      BY <1>1, <1>4, <1>7, <2>1, <2>2, <2>7, <3>3, StampedOf DEF Unique
    <3>5. QED
      BY <1>5, <1>7, <2>1, <2>3, <2>4, <2>6, <2>7, <3>2, <3>3, <3>4 DEF Allowed, IsPing
  <2>8. CASE t # "pings"
    <3>1. id \in Ids(t)'
      BY <1>1, <1>7, <2>5, <2>8 DEF Ids
    <3>2. QED
      BY <1>5, <1>7, <2>1, <2>3, <2>4, <2>6, <2>8, <3>1 DEF Allowed, IsPing
  <2>9. QED
    BY <2>7, <2>8
<1>8. QED
  BY <1>2, <1>6, <1>7, <1>t DEF ExecuteUpsert, Refused

(* The eight statements.                                                   *)
Statement(c, s) ==
  \/ ExecuteInsert(c, s) \/ ExecuteFind(c, s) \/ ExecuteUpdate(c, s)
  \/ ExecuteDelete(c, s) \/ ExecuteDiscard(c, s) \/ ExecuteUpsert(c, s)
  \/ ExecuteCount(c, s) \/ ExecuteFetch(c, s)

LEMMA StatementKeepsDb ==
  ASSUME DbInv, NEW c, NEW s, IsQuery(s), Statement(c, s)
  PROVE  DbInv' /\ PingsRise
<1>1. CASE ExecuteFind(c, s) \/ ExecuteCount(c, s) \/ ExecuteFetch(c, s)
  <2>1. UNCHANGED dbVars
    BY <1>1 DEF ExecuteFind, ExecuteCount, ExecuteFetch, Refused
  <2>2. QED
    BY <2>1, QuietKeepsDb, QuietRise DEF DbInv, dbVars
<1>2. QED
  BY <1>1, InsertKeepsDb, UpdateKeepsDb, DeleteKeepsDb, UpsertKeepsDb DEF Statement

-----------------------------------------------------------------------------
(* The requests: what each asks the database is what the queries keep to,  *)
(* a user is known before the connection is told of it, and a server that  *)
(* is down has none.                                                       *)

IsRequest(r) ==
  /\ r = [phase |-> r.phase, steps |-> r.steps, status |-> r.status,
          found |-> r.found, made |-> r.made]
  /\ r.phase \in {"upsert", "set", "auth", "run", "answered"}
  /\ IsSequence(r.steps) /\ \A i \in DOMAIN r.steps : IsQuery(r.steps[i])
  /\ r.phase = "run" => r.steps # <<>>
IsCalls(calls) ==
  /\ calls = [u \in User |-> calls[u]]
  /\ \A u \in User : IsSequence(calls[u]) /\ \A i \in DOMAIN calls[u] : IsHandler(calls[u][i])

ReqInv ==
  /\ server \in {"up", "down"}
  /\ req = [c \in Client |-> req[c]]
  /\ \A c \in Client : IsRequest(req[c])
  /\ \A c \in Client : req[c].phase = "set" => c \in users
  /\ server = "down" => \A c \in Client : req[c] = NoRequest
  /\ IsCalls(todo)

(* The request of one client becomes r.                                    *)
Turns(c, r) == req' = [d \in Client |-> IF d = c THEN r ELSE req[d]]

LEMMA TurnKeepsReq ==
  ASSUME ReqInv, NEW c \in Client, NEW r, IsRequest(r), Turns(c, r),
         users \subseteq users', server' = server, IsCalls(todo'),
         r.phase = "set" => c \in users', server = "up" \/ r = NoRequest
  PROVE  ReqInv'
<1>1. \A d \in Client : req'[d] = IF d = c THEN r ELSE req[d]
  BY DEF Turns
<1>2. req' = [d \in Client |-> req'[d]]
  BY DEF Turns
<1>3. \A d \in Client : IsRequest(req'[d])
  BY <1>1 DEF ReqInv
<1>4. \A d \in Client : req'[d].phase = "set" => d \in users'
  BY <1>1 DEF ReqInv
<1>5. server' = "down" => \A d \in Client : req'[d] = NoRequest
  BY <1>1 DEF ReqInv
<1>6. QED
  BY <1>2, <1>3, <1>4, <1>5 DEF ReqInv

LEMMA AnswersAreRequests ==
  /\ IsRequest(NoRequest) /\ NoRequest.phase = "answered" /\ NoRequest.steps = <<>>
  /\ [NoRequest EXCEPT !.status = 0] = NoRequest
  /\ \A status : LET r == [NoRequest EXCEPT !.status = status]
                 IN  IsRequest(r) /\ r.phase = "answered" /\ r.steps = <<>>
<1>1. IsSequence(<<>>) /\ DOMAIN <<>> = {}
  BY ShortSequences
<1>2. QED
  BY <1>1 DEF IsRequest, NoRequest

LEMMA AnswerOf ==
  ASSUME ReqInv, NEW c \in Client, NEW status, Answer(c, status)
  PROVE  \E r : Turns(c, r) /\ IsRequest(r) /\ r.phase = "answered" /\ r.steps = <<>>
                /\ (status = 0 => r = NoRequest)
<1>1. PICK r : r = [NoRequest EXCEPT !.status = status]
  OBVIOUS
<1>2. Turns(c, r)
  BY <1>1 DEF ReqInv, Answer, Turns
<1>3. QED
  BY <1>1, <1>2, AnswersAreRequests

LEMMA StartOf ==
  ASSUME ReqInv, NEW c \in Client, NEW h, NEW phase, Start(c, h, phase),
         phase \in {"upsert", "set", "auth", "run"},
         IsSequence(h.steps), \A i \in DOMAIN h.steps : IsQuery(h.steps[i]),
         phase = "run" => h.steps # <<>>
  PROVE  \E r : Turns(c, r) /\ IsRequest(r) /\ r.phase = phase /\ r.steps = h.steps
<1>1. PICK r : r = [phase |-> phase, steps |-> h.steps, status |-> h.status, found |-> 0, made |-> 0]
  OBVIOUS
<1>2. Turns(c, r)
  BY <1>1 DEF ReqInv, Start, Turns
<1>3. IsRequest(r) /\ r.phase = phase /\ r.steps = h.steps
  BY <1>1 DEF IsRequest
<1>4. QED
  BY <1>2, <1>3

LEMMA RunOf ==
  ASSUME ReqInv, NEW c \in Client, NEW h, Run(c, h),
         IsSequence(h.steps), \A i \in DOMAIN h.steps : IsQuery(h.steps[i])
  PROVE  \E r : /\ Turns(c, r) /\ IsRequest(r)
                /\ r.steps = h.steps
                /\ r.phase = IF h.steps = <<>> THEN "answered" ELSE "run"
<1>1. CASE h.steps = <<>>
  BY <1>1, AnswerOf DEF Run
<1>2. CASE h.steps # <<>>
  BY <1>2, StartOf DEF Run
<1>3. QED
  BY <1>1, <1>2

LEMMA ProceedOf ==
  ASSUME ReqInv, NEW c \in Client, req[c].phase = "run", NEW found, NEW made,
         Proceed(c, found, made)
  PROVE  \E r : /\ Turns(c, r) /\ IsRequest(r)
                /\ r.steps = Tail(req[c].steps)
                /\ r.phase = IF r.steps = <<>> THEN "answered" ELSE "run"
<1>1. /\ IsSequence(req[c].steps) /\ req[c].steps # <<>> /\ IsRequest(req[c])
      /\ \A i \in DOMAIN req[c].steps : IsQuery(req[c].steps[i])
  BY DEF ReqInv, IsRequest
<1>2. PICK q : q = Tail(req[c].steps)
  OBVIOUS
<1>3. /\ IsSequence(q) /\ Len(q) = Len(req[c].steps) - 1 /\ Len(req[c].steps) \in Nat
      /\ DOMAIN q = 1..Len(q) /\ DOMAIN req[c].steps = 1..Len(req[c].steps)
      /\ \A i \in 1..Len(q) : i + 1 \in 1..Len(req[c].steps) /\ q[i] = req[c].steps[i + 1]
      /\ (q = <<>> <=> Len(q) = 0)
  BY <1>1, <1>2, TailOf, LengthOf
<1>4. \A i \in DOMAIN q : IsQuery(q[i])
  BY <1>1, <1>3
<1>5. CASE Len(req[c].steps) = 1
  <2>1. q = <<>>
    BY <1>3, <1>5
  <2>2. Answer(c, req[c].status)
    BY <1>5 DEF Proceed
  <2>3. PICK r : Turns(c, r) /\ IsRequest(r) /\ r.phase = "answered" /\ r.steps = <<>>
    BY <2>2, AnswerOf
  <2>4. QED
    BY <1>2, <2>1, <2>3
<1>6. CASE Len(req[c].steps) # 1
  <2>1. PICK r : r = [phase |-> "run", steps |-> q, status |-> req[c].status,
                      found |-> found, made |-> made]
    OBVIOUS
  <2>2. Turns(c, r)
    <3>1. req' = [req EXCEPT ![c].steps = q, ![c].found = found, ![c].made = made]
      BY <1>2, <1>6 DEF Proceed
    <3>2. [req[c] EXCEPT !.steps = q, !.found = found, !.made = made] = r
      <4>1. PICK steps, status, f, m :
              req[c] = [phase |-> "run", steps |-> steps, status |-> status, found |-> f, made |-> m]
        BY <1>1 DEF IsRequest
      <4>2. req[c].status = status
        BY <4>1
      <4>3. [[phase |-> "run", steps |-> steps, status |-> status, found |-> f, made |-> m]
               EXCEPT !.steps = q, !.found = found, !.made = made]
              = [phase |-> "run", steps |-> q, status |-> status, found |-> found, made |-> made]
        <5>1. /\ [[phase |-> "run", steps |-> steps, status |-> status, found |-> f, made |-> m]
                    EXCEPT !.steps = q]
                   = [phase |-> "run", steps |-> q, status |-> status, found |-> f, made |-> m]
              /\ [[phase |-> "run", steps |-> q, status |-> status, found |-> f, made |-> m]
                    EXCEPT !.found = found]
                   = [phase |-> "run", steps |-> q, status |-> status, found |-> found, made |-> m]
              /\ [[phase |-> "run", steps |-> q, status |-> status, found |-> found, made |-> m]
                    EXCEPT !.made = made]
                   = [phase |-> "run", steps |-> q, status |-> status, found |-> found, made |-> made]
          OBVIOUS
        <5>2. QED
          BY <5>1
      <4>4. QED
        BY <2>1, <4>1, <4>2, <4>3
    <3>3. req' = [req EXCEPT ![c] = r]
      BY <3>1, <3>2 DEF ReqInv
    <3>4. QED
      BY <3>3 DEF ReqInv, Turns
  <2>3. Len(q) # 0
    BY <1>3, <1>6
  <2>4. IsRequest(r)
    BY <1>3, <1>4, <2>1, <2>3 DEF IsRequest
  <2>5. r.steps = Tail(req[c].steps) /\ r.phase = "run" /\ r.steps # <<>>
    BY <1>2, <1>3, <2>1, <2>3
  <2>6. QED
    BY <2>2, <2>4, <2>5
<1>7. QED
  BY <1>5, <1>6

(* A statement of a request: it fails, and the request is answered, or the *)
(* request goes on.                                                        *)
LEMMA ExecuteOf ==
  ASSUME ReqInv, NEW c \in Client, Execute(c)
  PROVE  \E s, r :
           /\ s = req[c].steps[1] /\ 1 \in DOMAIN req[c].steps
           /\ IsQuery(s) /\ Statement(c, s) /\ req[c].phase = "run"
           /\ Turns(c, r) /\ IsRequest(r)
           /\ r.phase = IF r.steps = <<>> THEN "answered" ELSE "run"
           /\ users' = users /\ server = "up" /\ server' = server
           /\ r.steps = Tail(req[c].steps) \/ (r.steps = <<>> /\ s.do \notin {"count", "fetch"})
           /\ \/ s.do \notin {"count", "fetch"} /\ UNCHANGED <<tables, walk, todo>>
              \/ s.do \notin {"count", "fetch"} /\ Observe /\ UNCHANGED todo
              \/ ExecuteCount(c, s) \/ ExecuteFetch(c, s)
<1>1. /\ IsSequence(req[c].steps) /\ req[c].steps # <<>> /\ req[c].phase = "run"
      /\ \A i \in DOMAIN req[c].steps : IsQuery(req[c].steps[i])
  BY DEF Execute, ReqInv, IsRequest
<1>2. /\ Head(req[c].steps) = req[c].steps[1] /\ 1 \in DOMAIN req[c].steps
  BY <1>1, TailOf, LengthOf
<1>3. PICK s : s = req[c].steps[1]
  OBVIOUS
<1>4. IsQuery(s) /\ Statement(c, s) /\ UNCHANGED server
  BY <1>1, <1>2, <1>3 DEF Execute, Statement
<1>5. server = "up"
  BY <1>1 DEF ReqInv, NoRequest
<1>6. users' = users
  BY <1>4 DEF Statement, ExecuteInsert, ExecuteFind, ExecuteUpdate, ExecuteDelete, ExecuteDiscard,
              ExecuteUpsert, ExecuteCount, ExecuteFetch, Refused, PutRow, RemoveRow, dbVars
<1>7. ASSUME NEW found, NEW made, Proceed(c, found, made)
      PROVE  \E r : /\ Turns(c, r) /\ IsRequest(r)
                    /\ r.phase = IF r.steps = <<>> THEN "answered" ELSE "run"
                    /\ r.steps = Tail(req[c].steps)
  BY <1>1, <1>7, ProceedOf
<1>8. ASSUME NEW status, Answer(c, status)
      PROVE  \E r : Turns(c, r) /\ IsRequest(r) /\ r.phase = "answered" /\ r.steps = <<>>
  BY <1>8, AnswerOf
<1>9. \/ \E status : s.do \notin {"count", "fetch"} /\ Refused(c, status)
      \/ /\ \E found, made : Proceed(c, found, made)
         /\ \/ s.do \notin {"count", "fetch"} /\ UNCHANGED <<tables, walk, todo>>
            \/ s.do \notin {"count", "fetch"} /\ Observe /\ UNCHANGED todo
            \/ ExecuteCount(c, s) \/ ExecuteFetch(c, s)
  <2>1. CASE ExecuteInsert(c, s)
    BY <2>1 DEF ExecuteInsert
  <2>2. CASE ExecuteFind(c, s)
    BY <2>2 DEF ExecuteFind, dbVars
  <2>3. CASE ExecuteUpdate(c, s)
    BY <2>3 DEF ExecuteUpdate, dbVars
  <2>4. CASE ExecuteDelete(c, s)
    BY <2>4 DEF ExecuteDelete
  <2>5. CASE ExecuteDiscard(c, s)
    BY <2>5 DEF ExecuteDiscard, dbVars
  <2>6. CASE ExecuteUpsert(c, s)
    BY <2>6 DEF ExecuteUpsert
  <2>7. CASE ExecuteCount(c, s)
    BY <2>7 DEF ExecuteCount
  <2>8. CASE ExecuteFetch(c, s)
    BY <2>8 DEF ExecuteFetch
  <2>9. QED
    BY <1>4, <2>1, <2>2, <2>3, <2>4, <2>5, <2>6, <2>7, <2>8 DEF Statement
<1>10. CASE \E status : s.do \notin {"count", "fetch"} /\ Refused(c, status)
  <2>1. PICK status : s.do \notin {"count", "fetch"} /\ Refused(c, status)
    BY <1>10
  <2>2. Answer(c, status) /\ UNCHANGED <<tables, walk, todo>>
    BY <2>1 DEF Refused, dbVars
  <2>3. PICK r : Turns(c, r) /\ IsRequest(r) /\ r.phase = "answered" /\ r.steps = <<>>
    BY <1>8, <2>2
  <2>4. QED
    BY <1>1, <1>2, <1>3, <1>4, <1>5, <1>6, <2>1, <2>2, <2>3
<1>11. CASE /\ \E found, made : Proceed(c, found, made)
            /\ \/ s.do \notin {"count", "fetch"} /\ UNCHANGED <<tables, walk, todo>>
               \/ s.do \notin {"count", "fetch"} /\ Observe /\ UNCHANGED todo
               \/ ExecuteCount(c, s) \/ ExecuteFetch(c, s)
  <2>1. PICK r : /\ Turns(c, r) /\ IsRequest(r)
                 /\ r.phase = IF r.steps = <<>> THEN "answered" ELSE "run"
                 /\ r.steps = Tail(req[c].steps)
    BY <1>7, <1>11
  <2>2. QED
    BY <1>1, <1>2, <1>3, <1>4, <1>5, <1>6, <1>11, <2>1
<1>12. QED
  BY <1>9, <1>10, <1>11

LEMMA UsersAreClients == User \subseteq Client /\ Task \subseteq Client /\ Walker \in User \ Task
BY ClientAssumption DEF Client

(* The list's next page is put before what the walker calls next.          *)
LEMMA FetchKeepsCalls ==
  ASSUME IsCalls(todo), NEW c, NEW s, IsQuery(s), ExecuteFetch(c, s)
  PROVE  /\ IsCalls(todo')
         /\ c = Walker /\ walk.page < Pages(walk.total, s.size)
              => /\ todo'[Walker] # <<>>
                 /\ Head(todo'[Walker]) = Reply(List(s.table, s.where, s.size), 200)
<1>1. CASE ~(c = Walker /\ walk.page < Pages(walk.total, s.size))
  BY <1>1 DEF ExecuteFetch
<1>2. CASE c = Walker /\ walk.page < Pages(walk.total, s.size)
  <2>1. PICK h : h = Listing(s.size, List(s.table, s.where, s.size))
    OBVIOUS
  <2>2. c = Walker /\ todo' = [todo EXCEPT ![c] = <<h>> \o @]
    BY <1>2, <2>1 DEF ExecuteFetch
  <2>3. s.table \in Table /\ (s.table = "pings" => s.where = Everything) /\ s.size \in 1..200
    BY DEF ExecuteFetch, IsQuery
  <2>4. IsHandler(h) /\ h = Reply(List(s.table, s.where, s.size), 200)
    BY <2>1, <2>3, ListingIsHandler DEF Listing, Unless
  <2>5. Walker \in User
    BY UsersAreClients
  <2>6. PICK p : p = todo[Walker]
    OBVIOUS
  <2>7. IsSequence(p) /\ \A i \in DOMAIN p : IsHandler(p[i])
    BY <2>5, <2>6 DEF IsCalls
  <2>8. PICK q : q = <<h>> \o p
    OBVIOUS
  <2>9. /\ IsSequence(q) /\ Len(q) = 1 + Len(p) /\ Len(p) \in Nat /\ DOMAIN p = 1..Len(p)
        /\ \A i \in 1..(1 + Len(p)) : q[i] = IF i <= 1 THEN h ELSE p[i - 1]
        /\ DOMAIN q = 1..(1 + Len(p))
    <3>1. PICK o : o = <<h>>
      OBVIOUS
    <3>2. IsSequence(o) /\ Len(o) = 1 /\ o[1] = h
      BY <3>1, ShortSequences
    <3>3. /\ IsSequence(q) /\ Len(q) = 1 + Len(p)
          /\ \A i \in 1..(1 + Len(p)) : q[i] = IF i <= 1 THEN o[i] ELSE p[i - 1]
      BY <2>7, <2>8, <3>1, <3>2, ConcatOf
    <3>4. Len(p) \in Nat /\ DOMAIN p = 1..Len(p) /\ DOMAIN q = 1..Len(q)
      BY <2>7, <3>3, LengthOf
    <3>5. \A i \in 1..(1 + Len(p)) : i <= 1 => i = 1
      BY <3>4
    <3>6. QED
      BY <3>2, <3>3, <3>4, <3>5
  <2>10. \A i \in DOMAIN q : IsHandler(q[i])
    BY <2>4, <2>7, <2>9
  <2>11. todo' = [u \in User |-> IF u = Walker THEN q ELSE todo[u]]
    BY <2>2, <2>6, <2>8 DEF IsCalls
  <2>12. IsCalls(todo')
    BY <2>9, <2>10, <2>11 DEF IsCalls
  <2>13. todo'[Walker] = q
    BY <2>5, <2>11
  <2>14. q # <<>> /\ q[1] = h
    BY <2>9
  <2>15. Head(q) = h
    BY <2>9, <2>14, TailOf
  <2>16. QED
    BY <2>4, <2>12, <2>13, <2>14, <2>15
<1>3. QED
  BY <1>1, <1>2

LEMMA ExecuteKeepsReq ==
  ASSUME DbInv, ReqInv, NEW c \in Client, Execute(c)
  PROVE  DbInv' /\ ReqInv' /\ PingsRise
<1>1. PICK s, r :
        /\ IsQuery(s) /\ Statement(c, s)
        /\ Turns(c, r) /\ IsRequest(r) /\ r.phase \in {"run", "answered"}
        /\ users' = users /\ server = "up" /\ server' = server
        /\ \/ s.do \notin {"count", "fetch"} /\ UNCHANGED <<tables, walk, todo>>
           \/ s.do \notin {"count", "fetch"} /\ Observe /\ UNCHANGED todo
           \/ ExecuteCount(c, s) \/ ExecuteFetch(c, s)
  BY ExecuteOf
<1>2. DbInv' /\ PingsRise
  BY <1>1, StatementKeepsDb
<1>3. IsCalls(todo')
  <2>1. IsCalls(todo)
    BY DEF ReqInv
  <2>2. CASE UNCHANGED todo
    BY <2>1, <2>2
  <2>3. CASE ExecuteFetch(c, s)
    BY <1>1, <2>1, <2>3, FetchKeepsCalls
  <2>4. QED
    BY <1>1, <2>2, <2>3 DEF ExecuteCount
<1>4. ReqInv'
  BY <1>1, <1>3, TurnKeepsReq
<1>5. QED
  BY <1>2, <1>4

LEMMA SendOf ==
  ASSUME ReqInv, NEW u \in User, Send(u)
  PROVE  \E h, r :
           /\ h = Head(todo[u]) /\ IsHandler(h)
           /\ Turns(u, r) /\ IsRequest(r) /\ r.phase = "upsert" /\ r.steps = h.steps
           /\ IsCalls(todo') /\ \A v \in User \ {u} : todo'[v] = todo[v]
           /\ IF u = Walker /\ IsList(h) /\ ~Walking THEN StartWalk(h.steps[1]) ELSE UNCHANGED walk
           /\ UNCHANGED <<dbVars, server>> /\ server = "up"
<1>1. PICK q : q = todo[u]
  OBVIOUS
<1>2. IsSequence(q) /\ (\A i \in DOMAIN q : IsHandler(q[i])) /\ q # <<>>
  BY <1>1 DEF ReqInv, IsCalls, Send
<1>3. PICK p : p = Tail(q)
  OBVIOUS
<1>4. PICK h : h = Head(q)
  OBVIOUS
<1>5. /\ IsSequence(p) /\ DOMAIN p = 1..Len(p) /\ DOMAIN q = 1..Len(q)
      /\ \A i \in 1..Len(p) : i + 1 \in 1..Len(q) /\ p[i] = q[i + 1]
      /\ h = q[1] /\ 1 \in 1..Len(q)
  BY <1>2, <1>3, <1>4, TailOf, LengthOf
<1>6. IsHandler(h) /\ \A i \in DOMAIN p : IsHandler(p[i])
  BY <1>2, <1>5
<1>7. todo' = [v \in User |-> IF v = u THEN p ELSE todo[v]]
  BY <1>1, <1>3 DEF ReqInv, IsCalls, Send
<1>8. IsCalls(todo')
  BY <1>5, <1>6, <1>7 DEF ReqInv, IsCalls
<1>9. u \in Client
  BY UsersAreClients
<1>10. Start(u, h, "upsert")
  BY <1>1, <1>4 DEF Send
<1>11. IsSequence(h.steps) /\ \A i \in DOMAIN h.steps : IsQuery(h.steps[i])
  BY <1>6 DEF IsHandler
<1>12. PICK r : Turns(u, r) /\ IsRequest(r) /\ r.phase = "upsert" /\ r.steps = h.steps
  BY <1>9, <1>10, <1>11, StartOf
<1>13. IF u = Walker /\ IsList(h) /\ ~Walking THEN StartWalk(h.steps[1]) ELSE UNCHANGED walk
  BY <1>1, <1>4 DEF Send
<1>14. \A v \in User \ {u} : todo'[v] = todo[v]
  BY <1>7
<1>15. UNCHANGED <<dbVars, server>> /\ server = "up" /\ h = Head(todo[u])
  BY <1>1, <1>4 DEF Send
<1>16. QED
  BY <1>6, <1>8, <1>12, <1>13, <1>14, <1>15

(* The middleware: the user becomes known, then the connection's, and the  *)
(* handler begins.                                                         *)
LEMMA MiddlewareOf ==
  ASSUME ReqInv, NEW u \in User, MiddlewareUpserts(u) \/ MiddlewareSets(u)
  PROVE  /\ UpsertUser(u) \/ (u \in users /\ SetSessionUser(u))
         /\ UNCHANGED <<tables, server, todo, walk>> /\ server = "up"
         /\ \E r : /\ Turns(u, r) /\ IsRequest(r) /\ r.steps = req[u].steps
                   /\ \/ r.phase = "set" /\ u \in users'
                      \/ r.phase = IF req[u].steps = <<>> THEN "answered" ELSE "run"
                   /\ req[u].phase \in {"upsert", "set"}
<1>1. u \in Client /\ IsRequest(req[u])
  BY UsersAreClients DEF ReqInv
<1>2. server = "up"
  BY <1>1 DEF ReqInv, NoRequest, MiddlewareUpserts, MiddlewareSets
<1>3. CASE MiddlewareUpserts(u)
  <2>1. PICK steps, status, f, m :
          req[u] = [phase |-> "upsert", steps |-> steps, status |-> status, found |-> f, made |-> m]
    BY <1>1, <1>3 DEF IsRequest, MiddlewareUpserts
  <2>2. PICK r : r = [phase |-> "set", steps |-> steps, status |-> status, found |-> f, made |-> m]
    OBVIOUS
  <2>3. [req[u] EXCEPT !.phase = "set"] = r
    BY <2>1, <2>2
  <2>4. req' = [req EXCEPT ![u] = r]
    BY <1>3, <2>3 DEF MiddlewareUpserts, ReqInv
  <2>5. Turns(u, r)
    BY <2>4 DEF Turns, ReqInv
  <2>6. IsSequence(steps) /\ \A i \in DOMAIN steps : IsQuery(steps[i])
    BY <1>1, <2>1 DEF IsRequest
  <2>7. IsRequest(r)
    BY <2>2, <2>6 DEF IsRequest
  <2>8. r.phase = "set" /\ r.steps = req[u].steps /\ req[u].phase = "upsert"
    BY <2>1, <2>2
  <2>9. UpsertUser(u) /\ u \in users' /\ UNCHANGED <<tables, server, todo, walk>>
    BY <1>3 DEF MiddlewareUpserts, UpsertUser
  <2>10. QED
    BY <1>2, <2>5, <2>7, <2>8, <2>9
<1>4. CASE MiddlewareSets(u)
  <2>1. req[u].phase = "set" /\ u \in users
    BY <1>1, <1>4 DEF MiddlewareSets, ReqInv
  <2>2. PICK h : h = req[u]
    OBVIOUS
  <2>3. IsSequence(h.steps) /\ (\A i \in DOMAIN h.steps : IsQuery(h.steps[i])) /\ Run(u, h)
    BY <1>1, <1>4, <2>2 DEF IsRequest, MiddlewareSets
  <2>4. PICK r : /\ Turns(u, r) /\ IsRequest(r) /\ r.steps = h.steps
                 /\ r.phase = IF h.steps = <<>> THEN "answered" ELSE "run"
    BY <1>1, <2>3, RunOf
  <2>5. SetSessionUser(u) /\ UNCHANGED <<tables, server, todo, walk>>
    BY <1>4 DEF MiddlewareSets, SetSessionUser
  <2>6. QED
    BY <1>2, <2>1, <2>2, <2>4, <2>5
<1>5. QED
  BY <1>3, <1>4

LEMMA UserKeepsReq ==
  ASSUME DbInv, ReqInv, NEW u \in User, UserStep(u)
  PROVE  DbInv' /\ ReqInv' /\ PingsRise
<1>1. u \in Client
  BY UsersAreClients
<1>2. CASE Send(u)
  <2>1. UNCHANGED dbVars /\ UNCHANGED server /\ server = "up"
    BY <1>2 DEF Send
  <2>2. PICK r : Turns(u, r) /\ IsRequest(r) /\ r.phase = "upsert" /\ IsCalls(todo')
    BY <1>2, SendOf
  <2>3. ReqInv'
    BY <1>1, <2>1, <2>2, TurnKeepsReq DEF dbVars
  <2>4. QED
    BY <2>1, <2>3, QuietKeepsDb, QuietRise DEF DbInv, dbVars
<1>3. CASE MiddlewareUpserts(u) \/ MiddlewareSets(u)
  <2>1. /\ UpsertUser(u) \/ (u \in users /\ SetSessionUser(u))
        /\ UNCHANGED <<tables, server, todo, walk>> /\ server = "up"
    BY <1>3, MiddlewareOf
  <2>2. PICK r : Turns(u, r) /\ IsRequest(r) /\ (r.phase = "set" => u \in users')
    BY <1>3, MiddlewareOf
  <2>3. users \subseteq users'
    BY <2>1 DEF UpsertUser, SetSessionUser
  <2>4. IsCalls(todo')
    BY <2>1 DEF ReqInv
  <2>5. ReqInv'
    BY <1>1, <2>1, <2>2, <2>3, <2>4, TurnKeepsReq
  <2>6. QED
    BY <2>1, <2>5, SessionKeepsDb, QuietRise DEF DbInv
<1>4. CASE Execute(u)
  BY <1>1, <1>4, ExecuteKeepsReq
<1>5. QED
  BY <1>2, <1>3, <1>4 DEF UserStep

LEMMA DisconnectKeepsReq ==
  ASSUME DbInv, ReqInv, NEW u \in User, Disconnect(u)
  PROVE  DbInv' /\ ReqInv' /\ PingsRise /\ \E r : Turns(u, r) /\ r = NoRequest
<1>1. u \in Client /\ UNCHANGED dbVars /\ UNCHANGED <<server, todo>> /\ Answer(u, 0)
  BY UsersAreClients DEF Disconnect
<1>2. PICK r : Turns(u, r) /\ IsRequest(r) /\ r.phase = "answered" /\ r = NoRequest
  BY <1>1, AnswerOf
<1>3. IsCalls(todo') /\ users' = users
  BY <1>1 DEF ReqInv, dbVars
<1>4. ReqInv'
  BY <1>1, <1>2, <1>3, TurnKeepsReq
<1>5. QED
  BY <1>1, <1>2, <1>4, QuietKeepsDb, QuietRise DEF DbInv, dbVars

LEMMA RestartKeepsReq ==
  ASSUME DbInv, ReqInv, NEW n \in DOMAIN Tracked, Restart(Tracked[n])
  PROVE  DbInv' /\ ReqInv' /\ PingsRise
<1>1. Reconcile(Tracked[n]) /\ UNCHANGED tables
  BY DEF Restart, Reconcile
<1>2. /\ server' \in {"up", "down"} /\ req' = [c \in Client |-> NoRequest] /\ todo' = todo
  BY DEF Restart
<1>3. \A c \in Client : req'[c] = NoRequest /\ IsRequest(req'[c]) /\ req'[c].phase = "answered"
  BY <1>2, AnswersAreRequests
<1>4. ReqInv'
  BY <1>2, <1>3 DEF ReqInv
<1>5. QED
  BY <1>1, <1>4, ReconcileKeepsDb, QuietRise DEF DbInv

-----------------------------------------------------------------------------
(* The agent of the device: a task carries a token exactly while it waits  *)
(* for the answer to its call.                                             *)

AgentInv ==
  /\ at \in [Task -> {"rest", "asked", "registering"}]
  /\ \A t \in Task : at[t] = "asked" <=> carried[t] # Nothing

LEMMA RequesterIsTask == Requester = Task
BY CloudAssumption

LEMMA CarryOf ==
  ASSUME TokenTypeOK, AgentInv, NEW t \in Task, NEW o, NEW state, Carry(t, o),
         at' = [at EXCEPT ![t] = state], state \in {"rest", "asked", "registering"},
         state = "asked" <=> o # Nothing
  PROVE  AgentInv'
BY RequesterIsTask DEF AgentInv, TokenTypeOK, Carry

LEMMA AgentStays ==
  ASSUME AgentInv, UNCHANGED <<at, carried>>
  PROVE  AgentInv'
BY DEF AgentInv

LEMMA TaskSendsKeeps ==
  ASSUME DbInv, ReqInv, AgentInv, TokenInv, NEW t \in Task, TaskSends(t)
  PROVE  ReqInv' /\ AgentInv' /\ TokenNext
<1>1. t \in Client /\ t \in Requester
  BY UsersAreClients, RequesterIsTask
<1>2. TokenNext
  BY <1>1 DEF TaskSends, TokenNext
<1>3. PICK o : Carry(t, o) /\ o # Nothing
  <2>1. CASE Reuse(t)
    BY <2>1, Distinct DEF Reuse, TokenInv, TokenTypeOK
  <2>2. CASE Refresh(t)
    <3>1. token' # Nothing
      BY <2>2, KeyAssumption DEF Refresh, Nothing, TokenInv, TokenTypeOK
    <3>2. QED
      BY <2>2, <3>1 DEF Refresh
  <2>3. QED
    BY <2>1, <2>2 DEF TaskSends
<1>4. AgentInv'
  BY <1>3, CarryOf DEF TaskSends, TokenInv
<1>5. PICK h : h = Refuse(0)
  OBVIOUS
<1>6. IsSequence(h.steps) /\ \A i \in DOMAIN h.steps : IsQuery(h.steps[i])
  BY <1>5, RefuseIsHandler DEF IsHandler
<1>7. PICK r : Turns(t, r) /\ IsRequest(r) /\ r.phase = "auth"
  BY <1>1, <1>5, <1>6, StartOf DEF TaskSends
<1>8. IsCalls(todo') /\ users' = users /\ server' = server /\ server = "up"
  BY DEF ReqInv, TaskSends, dbVars
<1>9. ReqInv'
  BY <1>1, <1>7, <1>8, TurnKeepsReq
<1>10. QED
  BY <1>2, <1>4, <1>9

LEMMA AuthenticateKeeps ==
  ASSUME DbInv, ReqInv, NEW t \in Task, Authenticate(t)
  PROVE  ReqInv'
<1>1. t \in Client
  BY UsersAreClients
<1>2. server = "up"
  BY <1>1 DEF Authenticate, ReqInv, NoRequest
<1>3. IsCalls(todo') /\ users' = users /\ server' = server
  BY DEF ReqInv, Authenticate, dbVars
<1>4. ASSUME NEW status, Answer(t, status) PROVE ReqInv'
  <2>1. PICK r : Turns(t, r) /\ IsRequest(r) /\ r.phase = "answered"
    BY <1>1, <1>4, AnswerOf
  <2>2. QED
    BY <1>1, <1>2, <1>3, <2>1, TurnKeepsReq
<1>5. ASSUME NEW id, Run(t, DeviceReport(id, CallOf[t])) PROVE ReqInv'
  <2>1. PICK h : h = DeviceReport(id, CallOf[t])
    OBVIOUS
  <2>2. IsSequence(h.steps) /\ \A i \in DOMAIN h.steps : IsQuery(h.steps[i])
    BY <2>1, DeviceReportIsHandler DEF IsHandler
  <2>3. PICK r : /\ Turns(t, r) /\ IsRequest(r)
                 /\ r.phase = IF h.steps = <<>> THEN "answered" ELSE "run"
    BY <1>1, <1>5, <2>1, <2>2, RunOf
  <2>4. QED
    BY <1>1, <1>2, <1>3, <2>3, TurnKeepsReq
<1>6. QED
  BY <1>4, <1>5 DEF Authenticate

LEMMA TaskRegistersKeeps ==
  ASSUME DbInv, ReqInv, AgentInv, TokenInv, NEW t \in Task, TaskRegisters(t)
  PROVE  ReqInv' /\ AgentInv' /\ TokenNext
<1>1. t \in Client /\ t \in Requester
  BY UsersAreClients, RequesterIsTask
<1>2. TokenNext
  BY <1>1 DEF TaskRegisters, TokenNext
<1>3. AgentInv'
  <2>1. /\ TokenTypeOK /\ Carry(t, Nothing) /\ at' = [at EXCEPT ![t] = "registering"]
        /\ "registering" \in {"rest", "asked", "registering"}
        /\ "registering" = "asked" <=> Nothing # Nothing
    BY DEF TaskRegisters, Return, TokenInv
  <2>2. QED
    BY <2>1, CarryOf
<1>4. server = "up"
  BY <1>1 DEF TaskRegisters, ReqInv, NoRequest
<1>5. IsCalls(todo') /\ users' = users /\ server' = server
  BY DEF ReqInv, TaskRegisters, dbVars
<1>6. PICK h : h = Register([Self EXCEPT !.key = tpm])
  OBVIOUS
<1>7. IsSequence(h.steps) /\ \A i \in DOMAIN h.steps : IsQuery(h.steps[i])
  BY <1>6, RegisterIsHandler DEF IsHandler
<1>8. PICK r : /\ Turns(t, r) /\ IsRequest(r)
               /\ r.phase = IF h.steps = <<>> THEN "answered" ELSE "run"
  BY <1>1, <1>6, <1>7, RunOf DEF TaskRegisters
<1>9. ReqInv'
  BY <1>1, <1>4, <1>5, <1>8, TurnKeepsReq
<1>10. QED
  BY <1>2, <1>3, <1>9

(* A request of the agent ends: it was answered, or the connection broke.  *)
LEMMA AgentAnswerKeeps ==
  ASSUME ReqInv, NEW t \in Task, Answer(t, 0), UNCHANGED <<dbVars, server, todo>>
  PROVE  ReqInv'
<1>1. t \in Client
  BY UsersAreClients
<1>2. PICK r : Turns(t, r) /\ IsRequest(r) /\ r.phase = "answered" /\ r = NoRequest
  BY <1>1, AnswerOf
<1>3. IsCalls(todo') /\ users' = users
  BY DEF ReqInv, dbVars
<1>4. QED
  BY <1>1, <1>2, <1>3, TurnKeepsReq

LEMMA TaskRestsKeeps ==
  ASSUME ReqInv, AgentInv, TokenInv, NEW t \in Task, TaskRests(t)
  PROVE  ReqInv' /\ AgentInv' /\ TokenNext
<1>1. TokenNext
  BY RequesterIsTask DEF TaskRests, TokenNext
<1>2. AgentInv'
  BY CarryOf DEF TaskRests, Return, TokenInv
<1>3. ReqInv'
  BY AgentAnswerKeeps DEF TaskRests
<1>4. QED
  BY <1>1, <1>2, <1>3

LEMMA AgentRestartsKeeps ==
  ASSUME ReqInv, AgentInv, TokenInv, AgentRestarts
  PROVE  ReqInv' /\ AgentInv' /\ TokenNext
<1>1. PICK k \in Key : NewProvider(k)
  BY DEF AgentRestarts, TokenInv, TokenTypeOK
<1>2. TokenNext
  BY <1>1 DEF TokenNext
<1>3. AgentInv'
  <2>1. at' = [t \in Task |-> "rest"] /\ carried' = [t \in Task |-> Nothing]
    BY <1>1, RequesterIsTask DEF AgentRestarts, NewProvider
  <2>2. at' \in [Task -> {"rest", "asked", "registering"}]
    BY <2>1
  <2>3. \A t \in Task : at'[t] = "rest" /\ carried'[t] = Nothing
    BY <2>1
  <2>4. QED
    BY <2>2, <2>3 DEF AgentInv
<1>4. /\ req' = [c \in Client |-> IF c \in Task THEN NoRequest ELSE req[c]]
      /\ UNCHANGED <<server, todo, users>>
  BY DEF AgentRestarts, dbVars
<1>5. IsRequest(NoRequest) /\ NoRequest.phase = "answered"
  BY AnswersAreRequests
<1>6. req' = [c \in Client |-> req'[c]]
  BY <1>4
<1>7. \A c \in Client : req'[c] = IF c \in Task THEN NoRequest ELSE req[c]
  BY <1>4
<1>8. ReqInv'
  BY <1>4, <1>5, <1>6, <1>7 DEF ReqInv
<1>9. QED
  BY <1>2, <1>3, <1>8

CloudInv == DbInv /\ ReqInv /\ AgentInv /\ TokenInv

LEMMA CloudInitInv == Init => CloudInv
<1> SUFFICES ASSUME Init PROVE CloudInv
  OBVIOUS
<1>1. PICK l \in Loads : DatabaseInit(l.rows, l.tracked) /\ RequestsInit(l.calls)
  BY DEF Init
<1>2. PICK rows, calls, tracked : rows = l.rows /\ calls = l.calls /\ tracked = l.tracked
  OBVIOUS
<1>3. /\ rows = [t \in Table |-> rows[t]] /\ IsConsistent(rows)
      /\ \A t \in Table : IsSequence(rows[t])
      /\ \A p \in DOMAIN rows["pings"] : rows["pings"][p].device = p /\ rows["pings"][p].at \in Nat
      /\ tracked \subseteq Table
      /\ IsCalls(calls)
  BY <1>2, LoadAssumption DEF IsCalls
<1>4. /\ tables = rows /\ nextId = [t \in Table |-> Len(rows[t]) + 1]
      /\ users = {System} /\ session = System /\ triggers = tracked
      /\ audit = <<>> /\ base = rows /\ since = [t \in Table |-> 0]
  BY <1>1, <1>2 DEF DatabaseInit
<1>5. /\ server = "up" /\ req = [c \in Client |-> NoRequest] /\ todo = calls
  BY <1>1, <1>2 DEF RequestsInit
<1>6. \A t \in Table : Len(rows[t]) \in Nat /\ DOMAIN rows[t] = 1..Len(rows[t])
  BY <1>3, LengthOf
<1>7. TablesAreTyped
  <2>1. nextId \in [Table -> Nat \ {0}] /\ \A t \in Table : nextId[t] = Len(rows[t]) + 1
    BY <1>4, <1>6
  <2>2. ASSUME NEW t \in Table, t # "pings" PROVE DOMAIN tables[t] \subseteq Ids(t)
    BY <1>4, <1>6, <2>1, <2>2 DEF Ids
  <2>3. ASSUME NEW p \in DOMAIN tables["pings"] PROVE p \in Ids("pings")
    <3>1. tables["pings"][p].device = p /\ ReferencesHold(tables, "pings", tables["pings"][p])
      BY <1>3, <1>4 DEF IsConsistent, Allowed, Table, Default
    <3>2. PICK r \in References : r.child = "pings" /\ r.column = "device" /\ r.parent = "devices"
      BY DEF References, Reference
    <3>3. p \in DOMAIN tables["devices"]
      BY <3>1, <3>2 DEF ReferencesHold
    <3>4. "devices" \in Table /\ "devices" # "pings"
      BY DEF Table, Default
    <3>5. DOMAIN tables["devices"] \subseteq 1..(nextId["devices"] - 1)
      BY <2>2, <3>4 DEF Ids
    <3>6. QED
      BY <3>3, <3>5 DEF Ids
  <2>4. QED
    BY <1>3, <1>4, <2>1, <2>2, <2>3 DEF TablesAreTyped
<1>8. UsersAreKnown
  BY <1>3, <1>4 DEF UsersAreKnown
<1>9. PingsAreSound /\ IsConsistent(tables)
  BY <1>3, <1>4 DEF PingsAreSound
<1>10. LogInv
  <2>1. IsSequence(audit) /\ Len(audit) = 0 /\ since \in [Table -> Nat]
    BY <1>4, ShortSequences
  <2>2. \A t \in Table : since[t] = 0 /\ DOMAIN base[t] \subseteq Ids(t)
    BY <1>4, <1>7 DEF TablesAreTyped
  <2>3. LogIsTyped
    BY <2>1, <2>2 DEF LogIsTyped
  <2>4. \A t \in Table : \A id : EntriesOf(t, id, Len(audit)) = {}
    BY <2>1, <2>2 DEF EntriesOf
  <2>5. \A t \in Table : \A id : Told(t, id, Len(audit)) = RowOf(t, id)
    BY <1>4, <2>4 DEF Told, RowOf
  <2>6. LogReplaysTables
    BY <1>3, <1>4, <2>4, <2>5 DEF LogReplaysTables
  <2>7. QED
    BY <2>3, <2>6 DEF LogInv
<1>11. ReqInv
  BY <1>3, <1>5, AnswersAreRequests DEF ReqInv
<1>12. TokenInv
  BY TokenInitInv DEF Init
<1>13. AgentInv
  <2>1. at = [t \in Task |-> "rest"] /\ carried = [t \in Task |-> Nothing]
    BY RequesterIsTask DEF Init, TokenInit
  <2>2. at \in [Task -> {"rest", "asked", "registering"}]
    BY <2>1
  <2>3. \A t \in Task : at[t] = "rest" /\ carried[t] = Nothing
    BY <2>1
  <2>4. QED
    BY <2>2, <2>3 DEF AgentInv
<1>14. QED
  BY <1>7, <1>8, <1>9, <1>10, <1>11, <1>12, <1>13 DEF CloudInv, DbInv

(* Every step keeps the invariant, is a step of the token or leaves it     *)
(* alone, and takes no ping back.                                          *)
LEMMA CloudStepInv ==
  ASSUME CloudInv, [Next]_vars
  PROVE  CloudInv' /\ [TokenNext]_tokenVars /\ PingsRise
<1> USE DEF CloudInv
<1>1. ASSUME DbInv', ReqInv', PingsRise, UNCHANGED <<tokenVars, at>>
      PROVE  CloudInv' /\ [TokenNext]_tokenVars /\ PingsRise
  <2>1. TokenInv'
    BY <1>1, TokenStepInv
  <2>2. AgentInv'
    BY <1>1, AgentStays DEF tokenVars
  <2>3. QED
    BY <1>1, <2>1, <2>2
<1>2. ASSUME UNCHANGED dbVars, ReqInv', AgentInv', TokenNext
      PROVE  CloudInv' /\ [TokenNext]_tokenVars /\ PingsRise
  <2>1. TokenInv'
    BY <1>2, TokenStepInv
  <2>2. DbInv' /\ PingsRise
    BY <1>2, QuietKeepsDb, QuietRise DEF DbInv, dbVars
  <2>3. QED
    BY <1>2, <2>1, <2>2
<1>3. ASSUME UNCHANGED dbVars, ReqInv', UNCHANGED <<tokenVars, at>>
      PROVE  CloudInv' /\ [TokenNext]_tokenVars /\ PingsRise
  <2>1. DbInv' /\ PingsRise
    BY <1>3, QuietKeepsDb, QuietRise DEF DbInv, dbVars
  <2>2. QED
    BY <1>1, <1>3, <2>1
<1>4. CASE UserActs
  BY <1>1, <1>4, UserKeepsReq DEF UserActs
<1>5. CASE UserLeaves
  BY <1>1, <1>5, DisconnectKeepsReq DEF UserLeaves
<1>6. CASE ServerRestarts
  BY <1>1, <1>6, RestartKeepsReq DEF ServerRestarts
<1>7. ASSUME NEW t \in Task, AgentStep(t)
      PROVE  CloudInv' /\ [TokenNext]_tokenVars /\ PingsRise
  <2>1. CASE TaskSends(t)
    BY <1>2, <2>1, TaskSendsKeeps DEF TaskSends
  <2>2. CASE Authenticate(t)
    BY <1>3, <2>2, AuthenticateKeeps DEF Authenticate
  <2>3. CASE TaskRegisters(t)
    BY <1>2, <2>3, TaskRegistersKeeps DEF TaskRegisters
  <2>4. CASE TaskRests(t)
    BY <1>2, <2>4, TaskRestsKeeps DEF TaskRests
  <2>5. CASE Execute(t) /\ UNCHANGED <<tokenVars, at, faults>>
    BY <1>1, <2>5, UsersAreClients, ExecuteKeepsReq
  <2>6. QED
    BY <1>7, <2>1, <2>2, <2>3, <2>4, <2>5 DEF AgentStep
<1>8. ASSUME NEW t \in Task, ConnectionLost(t)
      PROVE  CloudInv' /\ [TokenNext]_tokenVars /\ PingsRise
  BY <1>3, <1>8, AgentAnswerKeeps DEF ConnectionLost
<1>9. ASSUME UNCHANGED <<cloudVars, at>> PROVE UNCHANGED dbVars /\ ReqInv'
  BY <1>9 DEF ReqInv, cloudVars, requestVars, dbVars
<1>10. CASE SigningFails
  <2>1. AgentInv'
    BY <1>10, AgentStays DEF SigningFails, SignFails
  <2>2. TokenNext /\ UNCHANGED <<cloudVars, at>>
    BY <1>10 DEF SigningFails, TokenNext
  <2>3. QED
    BY <1>2, <1>9, <2>1, <2>2
<1>11. CASE AgentRestarts
  BY <1>2, <1>11, AgentRestartsKeeps DEF AgentRestarts
<1>12. CASE TimePasses
  <2>1. TokenNext /\ UNCHANGED <<cloudVars, at>>
    BY <1>12 DEF TimePasses, TokenNext
  <2>2. \A t \in Task : carried'[t] = Older(carried[t])
    BY <1>12, RequesterIsTask DEF TimePasses, Pass
  <2>3. \A t \in Task : carried[t] \in Signed \cup {NoToken, Nothing}
    BY RequesterIsTask DEF TokenInv, TokenTypeOK
  <2>4. \A t \in Task : carried'[t] = Nothing <=> carried[t] = Nothing
    BY <2>2, <2>3, OlderProperties, Distinct
  <2>5. AgentInv'
    BY <2>1, <2>4 DEF AgentInv
  <2>6. QED
    BY <1>2, <1>9, <2>1, <2>5
<1>13. CASE UNCHANGED vars
  BY <1>3, <1>9, <1>13 DEF vars
<1>14. QED
  BY <1>4, <1>5, <1>6, <1>7, <1>8, <1>10, <1>11, <1>12, <1>13 DEF Next

(* The cloud as a whole keeps its types: references hold and what is       *)
(* unique is unique after any sequence of requests, failed or cut off; a   *)
(* server that is down holds no request; a task carries a token exactly    *)
(* while it waits for its answer (dtos, db/mod.rs, routes, api_client.rs). *)
THEOREM CloudTypeCorrect == CloudSpec => []CloudTypeOK
<1>1. CloudInv => CloudTypeOK
  <2> SUFFICES ASSUME CloudInv PROVE CloudTypeOK
    OBVIOUS
  <2>1. DatabaseTypeOK
    BY DEF CloudInv, DbInv, TablesAreTyped, UsersAreKnown, DatabaseTypeOK
  <2>2. RequestsTypeOK
    <3>1. \A c \in Client : IsRequest(req[c])
      BY DEF CloudInv, ReqInv
    <3>2. server = "down" => \A c \in Client : req[c].phase = "answered"
      BY AnswersAreRequests DEF CloudInv, ReqInv
    <3>3. server \in {"up", "down"}
      BY DEF CloudInv, ReqInv
    <3>4. QED
      BY <3>1, <3>2, <3>3 DEF RequestsTypeOK, IsRequest
  <2>3. QED
    BY <2>1, <2>2 DEF CloudInv, AgentInv, TokenInv, CloudTypeOK
<1>2. CloudInv /\ [Next]_vars => CloudInv'
  BY CloudStepInv
<1>3. QED
  BY <1>1, <1>2, CloudInitInv, PTL DEF CloudSpec

(* The audit log is a full history, whatever the requests and however      *)
(* often the server restarts, with whatever configuration of the audit     *)
(* (db/mod.rs:88-135, m20260614_000001_add_audit_log.rs:60-128).           *)
THEOREM LogIsHistory == CloudSpec => []LogReplaysTables
<1>1. CloudInv => LogReplaysTables
  BY DEF CloudInv, DbInv, LogInv
<1>2. CloudInv /\ [Next]_vars => CloudInv'
  BY CloudStepInv
<1>3. QED
  BY <1>1, <1>2, CloudInitInv, PTL DEF CloudSpec

(* What the agent and the server do with the token is what module          *)
(* DeviceToken describes: every step of the cloud is a step of the token,  *)
(* or leaves it alone (device_jwt.rs, api_client.rs:125-205).              *)
THEOREM CloudImplementsToken == CloudSpec => TokenSpec
<1>1. Init => TokenInit
  BY DEF Init
<1>2. CloudInv /\ [Next]_vars => CloudInv' /\ [TokenNext]_tokenVars
  BY CloudStepInv
<1>3. QED
  BY <1>1, <1>2, CloudInitInv, PTL DEF CloudSpec, TokenSpec

(* So none of its requests is turned down for the time of its token, in    *)
(* the cloud as it is composed.                                            *)
THEOREM CloudTokensStayInTime == CloudSpec => []TokensAreInTime
BY CloudImplementsToken, TokensStayInTime, PTL

-----------------------------------------------------------------------------
(* The walk.  The request of the walker asks for the next page of the list *)
(* it is going through, or is about to; a row that stays and was not seen  *)
(* has at least as many before it as the pages so far had rows, and while  *)
(* the rows of a page are fetched, fewer than were counted.                *)

Excused(r) ==
  IF walk.table = "pings" THEN walk.came # {}
  ELSE \E g \in walk.gone \cup walk.came : g < r
Place(r) == Cardinality(Preceding(walk.table, walk.where, r))
PageAsked == List(walk.table, walk.where, walk.size)
Fetching == req[Walker].phase = "run" /\ req[Walker].steps[1].do = "fetch"

Asks ==
  \/ req[Walker].phase \in {"upsert", "set", "run"} /\ req[Walker].steps = PageAsked
  \/ req[Walker].phase = "run" /\ req[Walker].steps = <<PageAsked[2]>>
  \/ /\ req[Walker].phase = "answered" /\ todo[Walker] # <<>>
     /\ Head(todo[Walker]) = Reply(PageAsked, 200)
AsksNothing ==
  \A i \in DOMAIN req[Walker].steps : req[Walker].steps[i].do \notin {"count", "fetch"}

PlacesAreKept ==
  \A r \in walk.stay \ walk.seen : ~Excused(r) =>
    Offset(walk.page, walk.size) <= Place(r) /\ (Fetching => Place(r) < walk.total)

WalkIsSound ==
  /\ walk.table \in Table /\ walk.size \in 1..200 /\ walk.total \in Nat
  /\ walk.table = "pings" => walk.where = Everything
  /\ walk.stay \subseteq Matching(walk.table, walk.where)
  /\ Asks /\ PlacesAreKept

IsWalk(x) ==
  x = [table |-> x.table, where |-> x.where, size |-> x.size, page |-> x.page, total |-> x.total,
       seen |-> x.seen, stay |-> x.stay, gone |-> x.gone, came |-> x.came]

WalkInv ==
  /\ IsWalk(walk)
  /\ walk.page \in Nat \cup {-1}
  /\ IF Walking THEN WalkIsSound ELSE AsksNothing /\ WalkSeesWhatStays

(* The rows before a row, as a function of the rows of the table.          *)
Ahead(rows, pings, where, r) ==
  { o \in MatchingIn(rows, where) : IF pings THEN rows[o].at > rows[r].at ELSE o < r }

LEMMA PlaceOf ==
  \A r : /\ Place(r) = Cardinality(Ahead(tables[walk.table], walk.table = "pings", walk.where, r))
         /\ Place(r)' = Cardinality(Ahead(tables'[walk'.table], walk'.table = "pings", walk'.where, r))
BY DEF Place, Preceding, Ahead, Before, Matching

LEMMA AheadIsFinite ==
  ASSUME TablesAreTyped, NEW t \in Table, NEW pings, NEW where, NEW r
  PROVE  /\ MatchingIn(tables[t], where) \subseteq Nat /\ IsFiniteSet(MatchingIn(tables[t], where))
         /\ IsFiniteSet(Ahead(tables[t], pings, where, r))
         /\ Cardinality(MatchingIn(tables[t], where)) \in Nat
         /\ Cardinality(Ahead(tables[t], pings, where, r)) \in Nat
<1>1. DOMAIN tables[t] \subseteq Nat /\ IsFiniteSet(DOMAIN tables[t])
  BY RowsAreFinite
<1>2. /\ MatchingIn(tables[t], where) \subseteq DOMAIN tables[t]
      /\ Ahead(tables[t], pings, where, r) \subseteq DOMAIN tables[t]
  BY DEF MatchingIn, Ahead
<1>3. QED
  BY <1>1, <1>2, FS_Subset, FS_CardinalityType

LEMMA AheadIsFewer ==
  ASSUME TablesAreTyped, PingsAreSound, NEW t \in Table, NEW where,
         NEW r \in MatchingIn(tables[t], where)
  PROVE  Cardinality(Ahead(tables[t], t = "pings", where, r)) < Cardinality(MatchingIn(tables[t], where))
<1>1. r \in DOMAIN tables[t] /\ r \in Nat
  BY AheadIsFinite DEF MatchingIn
<1>2. t = "pings" => tables[t][r].at \in Nat
  BY <1>1 DEF PingsAreSound
<1>3. Ahead(tables[t], t = "pings", where, r) \subseteq MatchingIn(tables[t], where) \ {r}
  BY <1>1, <1>2 DEF Ahead
<1>4. PICK M : M = MatchingIn(tables[t], where)
  OBVIOUS
<1>5. IsFiniteSet(M) /\ Cardinality(M) \in Nat
  BY <1>4, AheadIsFinite
<1>6. IsFiniteSet(M \ {r}) /\ Cardinality(M \ {r}) = Cardinality(M) - 1
  BY <1>4, <1>5, FS_RemoveElement
<1>7. Cardinality(Ahead(tables[t], t = "pings", where, r)) <= Cardinality(M \ {r})
  BY <1>3, <1>4, <1>6, FS_Subset
<1>8. Cardinality(Ahead(tables[t], t = "pings", where, r)) \in Nat
  BY AheadIsFinite
<1>9. QED
  BY <1>4, <1>5, <1>6, <1>7, <1>8

ObservedAs(x, stay, gone, came, y) ==
  y = [x EXCEPT !.stay = stay, !.gone = gone, !.came = came]

LEMMA WalkObserved ==
  ASSUME NEW x, IsWalk(x), NEW stay, NEW gone, NEW came, NEW y, ObservedAs(x, stay, gone, came, y)
  PROVE  /\ IsWalk(y) /\ y.table = x.table /\ y.where = x.where /\ y.size = x.size
         /\ y.page = x.page /\ y.total = x.total /\ y.seen = x.seen
         /\ y.stay = stay /\ y.gone = gone /\ y.came = came
<1>1. PICK t, w, z, p, n, e, s, g, c :
        x = [table |-> t, where |-> w, size |-> z, page |-> p, total |-> n,
             seen |-> e, stay |-> s, gone |-> g, came |-> c]
  BY DEF IsWalk
<1>2. [x EXCEPT !.stay = stay] =
        [table |-> t, where |-> w, size |-> z, page |-> p, total |-> n,
         seen |-> e, stay |-> stay, gone |-> g, came |-> c]
  BY <1>1
<1>3. [[table |-> t, where |-> w, size |-> z, page |-> p, total |-> n,
        seen |-> e, stay |-> stay, gone |-> g, came |-> c] EXCEPT !.gone = gone] =
        [table |-> t, where |-> w, size |-> z, page |-> p, total |-> n,
         seen |-> e, stay |-> stay, gone |-> gone, came |-> c]
  OBVIOUS
<1>4. y = [[table |-> t, where |-> w, size |-> z, page |-> p, total |-> n,
            seen |-> e, stay |-> stay, gone |-> gone, came |-> c] EXCEPT !.came = came]
  <2>1. y = [[[x EXCEPT !.stay = stay] EXCEPT !.gone = gone] EXCEPT !.came = came]
    BY DEF ObservedAs
  <2>2. QED
    BY <1>2, <1>3, <2>1
<1>5. y = [table |-> t, where |-> w, size |-> z, page |-> p, total |-> n,
           seen |-> e, stay |-> stay, gone |-> gone, came |-> came]
  BY <1>4
<1>6. QED
  BY <1>1, <1>5 DEF IsWalk

LEMMA WalkCounted ==
  ASSUME NEW x, IsWalk(x), NEW total, NEW y, y = [x EXCEPT !.total = total]
  PROVE  /\ IsWalk(y) /\ y.table = x.table /\ y.where = x.where /\ y.size = x.size
         /\ y.page = x.page /\ y.total = total /\ y.seen = x.seen
         /\ y.stay = x.stay /\ y.gone = x.gone /\ y.came = x.came
<1>1. PICK t, w, z, p, n, e, s, g, c :
        x = [table |-> t, where |-> w, size |-> z, page |-> p, total |-> n,
             seen |-> e, stay |-> s, gone |-> g, came |-> c]
  BY DEF IsWalk
<1>2. y = [table |-> t, where |-> w, size |-> z, page |-> p, total |-> total,
           seen |-> e, stay |-> s, gone |-> g, came |-> c]
  BY <1>1
<1>3. QED
  BY <1>1, <1>2 DEF IsWalk

FetchedAs(x, seen, page, y) == y = [x EXCEPT !.seen = seen, !.page = page]

LEMMA WalkFetched ==
  ASSUME NEW x, IsWalk(x), NEW seen, NEW page, NEW y, FetchedAs(x, seen, page, y)
  PROVE  /\ IsWalk(y) /\ y.table = x.table /\ y.where = x.where /\ y.size = x.size
         /\ y.page = page /\ y.total = x.total /\ y.seen = seen
         /\ y.stay = x.stay /\ y.gone = x.gone /\ y.came = x.came
<1>1. PICK t, w, z, p, n, e, s, g, c :
        x = [table |-> t, where |-> w, size |-> z, page |-> p, total |-> n,
             seen |-> e, stay |-> s, gone |-> g, came |-> c]
  BY DEF IsWalk
<1>2. [x EXCEPT !.seen = seen] =
        [table |-> t, where |-> w, size |-> z, page |-> p, total |-> n,
         seen |-> seen, stay |-> s, gone |-> g, came |-> c]
  BY <1>1
<1>3. y = [[x EXCEPT !.seen = seen] EXCEPT !.page = page]
  BY DEF FetchedAs
<1>4. y = [table |-> t, where |-> w, size |-> z, page |-> page, total |-> n,
           seen |-> seen, stay |-> s, gone |-> g, came |-> c]
  BY <1>2, <1>3
<1>5. QED
  BY <1>1, <1>4 DEF IsWalk

(* A change of the table, and the rows before a row r that stays: unless   *)
(* one of them left the list there are no fewer, and unless one came into  *)
(* it there are no more.                                                   *)
LEMMA AheadGrows ==
  ASSUME NEW rows, NEW next, NEW pings \in BOOLEAN, NEW where, NEW r,
         NEW gone, MatchingIn(rows, where) \ MatchingIn(next, where) \subseteq gone,
         ~pings => ~\E g \in gone : g < r,
         pings => /\ gone = {}
                  /\ \A o \in MatchingIn(rows, where) : rows[o].at \in Nat /\ next[o].at \in Nat
                                                        /\ rows[o].at <= next[o].at
                  /\ r \in MatchingIn(rows, where) /\ next[r].at = rows[r].at
  PROVE  Ahead(rows, pings, where, r) \subseteq Ahead(next, pings, where, r)
<1> SUFFICES ASSUME NEW o \in Ahead(rows, pings, where, r)
             PROVE  o \in Ahead(next, pings, where, r)
  OBVIOUS
<1>1. o \in MatchingIn(rows, where)
  BY DEF Ahead
<1>2. CASE pings
  <2>1. o \in MatchingIn(next, where) /\ rows[o].at > rows[r].at
    BY <1>1, <1>2 DEF Ahead
  <2>2. next[o].at > next[r].at
    BY <1>1, <1>2, <2>1
  <2>3. QED
    BY <1>2, <2>1, <2>2 DEF Ahead
<1>3. CASE ~pings
  <2>1. o < r
    BY <1>3 DEF Ahead
  <2>2. o \in MatchingIn(next, where)
    BY <1>1, <1>3, <2>1
  <2>3. QED
    BY <1>3, <2>1, <2>2 DEF Ahead
<1>4. QED
  BY <1>2, <1>3

LEMMA AheadShrinks ==
  ASSUME NEW rows, NEW next, NEW pings \in BOOLEAN, NEW where, NEW r,
         NEW came, MatchingIn(next, where) \ MatchingIn(rows, where) \subseteq came,
         ~pings => ~\E g \in came : g < r,
         pings => /\ came = {}
                  /\ \A o \in MatchingIn(next, where) : next[o].at = rows[o].at
                  /\ r \in MatchingIn(next, where)
  PROVE  Ahead(next, pings, where, r) \subseteq Ahead(rows, pings, where, r)
<1> SUFFICES ASSUME NEW o \in Ahead(next, pings, where, r)
             PROVE  o \in Ahead(rows, pings, where, r)
  OBVIOUS
<1>1. o \in MatchingIn(next, where)
  BY DEF Ahead
<1>2. CASE pings
  <2>1. o \in MatchingIn(rows, where) /\ next[o].at > next[r].at
    BY <1>1, <1>2 DEF Ahead
  <2>2. rows[o].at > rows[r].at
    BY <1>1, <1>2, <2>1
  <2>3. QED
    BY <1>2, <2>1, <2>2 DEF Ahead
<1>3. CASE ~pings
  <2>1. o < r
    BY <1>3 DEF Ahead
  <2>2. o \in MatchingIn(rows, where)
    BY <1>1, <1>3, <2>1
  <2>3. QED
    BY <1>3, <2>1, <2>2 DEF Ahead
<1>4. QED
  BY <1>2, <1>3

LEMMA ObserveKeepsWalk ==
  ASSUME DbInv, DbInv', PingsRise, WalkInv, Walking, Observe,
         req'[Walker] = req[Walker], todo'[Walker] = todo[Walker]
  PROVE  WalkInv'
<1>0. /\ IsWalk(walk) /\ walk.page \in Nat \cup {-1} /\ WalkIsSound
      /\ Fetching' = Fetching
  BY DEF WalkInv, Fetching
<1>1. PICK t, w, old, new : /\ t = walk.table /\ w = walk.where
                            /\ old = MatchingIn(tables[t], w) /\ new = MatchingIn(tables'[t], w)
  OBVIOUS
<1>2. PICK moved : moved = IF t # "pings" THEN {}
                           ELSE { i \in old \cap new : tables[t][i].at # tables'[t][i].at }
  OBVIOUS
<1>3. walk' = [walk EXCEPT !.stay = (walk.stay \cap new) \ moved,
                           !.gone = walk.gone \cup (old \ new),
                           !.came = IF Fetching THEN walk.came \cup (new \ old) \cup moved
                                    ELSE walk.came]
  BY <1>1, <1>2 DEF Observe, Fetching, Matching
<1>4. PICK stay, gone, came : /\ stay = (walk.stay \cap new) \ moved
                              /\ gone = walk.gone \cup (old \ new)
                              /\ came = IF Fetching THEN walk.came \cup (new \ old) \cup moved
                                        ELSE walk.came
  OBVIOUS
<1>5. /\ IsWalk(walk') /\ walk'.table = t /\ walk'.where = w /\ walk'.size = walk.size
      /\ walk'.page = walk.page /\ walk'.total = walk.total /\ walk'.seen = walk.seen
      /\ walk'.stay = stay /\ walk'.gone = gone /\ walk'.came = came
  <2>1. PICK x, y : x = walk /\ y = walk'
    OBVIOUS
  <2>2. IsWalk(x) /\ ObservedAs(x, stay, gone, came, y)
    BY <1>0, <1>3, <1>4, <2>1 DEF ObservedAs
  <2>3. /\ IsWalk(y) /\ y.table = x.table /\ y.where = x.where /\ y.size = x.size
        /\ y.page = x.page /\ y.total = x.total /\ y.seen = x.seen
        /\ y.stay = stay /\ y.gone = gone /\ y.came = came
    BY <2>2, WalkObserved
  <2>4. QED
    BY <1>1, <2>1, <2>3
<1>6. t \in Table /\ (t = "pings" => w = Everything) /\ walk.stay \subseteq old
  BY <1>0, <1>1 DEF WalkIsSound, Matching
<1>7. walk'.stay \subseteq Matching(walk.table, walk.where)'
  <2>1. Matching(walk.table, walk.where)' = new
    BY <1>1, <1>5 DEF Matching
  <2>2. QED
    BY <1>4, <1>5, <2>1
<1>8. Asks'
  BY <1>0, <1>1, <1>5 DEF WalkIsSound, Asks, PageAsked
<1>9. ASSUME NEW r \in stay \ walk.seen, ~Excused(r)'
      PROVE  /\ Offset(walk.page, walk.size) <= Place(r)'
             /\ Fetching => Place(r)' < walk.total
  <2>1. r \in walk.stay \ walk.seen /\ r \in old \cap new /\ r \notin moved
    BY <1>4, <1>6, <1>9
  <2>2. IF t = "pings" THEN came = {} ELSE ~\E g \in gone \cup came : g < r
    BY <1>5, <1>9 DEF Excused
  <2>3. ~Excused(r)
    BY <1>1, <1>4, <2>2 DEF Excused
  <2>4. PICK A, B : /\ A = Ahead(tables[t], t = "pings", w, r)
                    /\ B = Ahead(tables'[t], t = "pings", w, r)
    OBVIOUS
  <2>5. Place(r) = Cardinality(A) /\ Place(r)' = Cardinality(B)
    BY <1>1, <1>5, <2>4, PlaceOf
  <2>6. /\ IsFiniteSet(A) /\ IsFiniteSet(B)
        /\ Cardinality(A) \in Nat /\ Cardinality(B) \in Nat
    <3>1. IsFiniteSet(A) /\ Cardinality(A) \in Nat
      BY <1>6, <2>4, AheadIsFinite DEF DbInv
    <3>2. DOMAIN tables'[t] \subseteq Ids(t)' /\ IsFiniteSet(Ids(t)')
      <4>1. PICK u \in Table : Ids(t)' = 1..(nextId'[u] - 1)
        BY <1>6 DEF Ids, Table, Default
      <4>2. nextId'[u] \in Nat \ {0}
        BY DEF DbInv, TablesAreTyped
      <4>3. IsFiniteSet(1..(nextId'[u] - 1))
        BY <4>2, FS_Interval
      <4>4. DOMAIN tables'[t] \subseteq Ids(t)'
        BY <1>6 DEF DbInv, TablesAreTyped
      <4>5. QED
        BY <4>1, <4>3, <4>4
    <3>3. B \subseteq DOMAIN tables'[t]
      BY <2>4 DEF Ahead, MatchingIn
    <3>4. QED
      BY <3>1, <3>2, <3>3, FS_Subset, FS_CardinalityType
  <2>7. t = "pings" => /\ old = DOMAIN tables[t] /\ new = DOMAIN tables'[t] /\ old \subseteq new
                       /\ \A o \in old : tables[t][o].at \in Nat /\ tables'[t][o].at \in Nat
                                         /\ tables[t][o].at <= tables'[t][o].at
    <3> SUFFICES ASSUME t = "pings"
                 PROVE  /\ old = DOMAIN tables[t] /\ new = DOMAIN tables'[t] /\ old \subseteq new
                        /\ \A o \in old : tables[t][o].at \in Nat /\ tables'[t][o].at \in Nat
                                          /\ tables[t][o].at <= tables'[t][o].at
      OBVIOUS
    <3>1. old = DOMAIN tables[t] /\ new = DOMAIN tables'[t]
      BY <1>1, <1>6 DEF MatchingIn, Everything
    <3>2. QED
      BY <3>1 DEF PingsRise, DbInv, PingsAreSound
  <2>8. A \subseteq B
    <3>1. CASE t = "pings"
      <4>1. tables'[t][r].at = tables[t][r].at
        BY <1>2, <2>1, <3>1
      <4>2. old \ new \subseteq {}
        BY <2>7, <3>1
      <4>3. QED
        BY <1>1, <2>1, <2>4, <2>7, <3>1, <4>1, <4>2, AheadGrows
    <3>2. CASE t # "pings"
      <4>1. old \ new \subseteq gone /\ ~\E g \in gone : g < r
        BY <1>4, <2>2, <3>2
      <4>2. QED
        BY <1>1, <2>4, <3>2, <4>1, AheadGrows
    <3>3. QED
      BY <3>1, <3>2
  <2>9. Fetching => B \subseteq A
    <3> SUFFICES ASSUME Fetching PROVE B \subseteq A
      OBVIOUS
    <3>0. came = walk.came \cup (new \ old) \cup moved
      BY <1>4
    <3>1. CASE t = "pings"
      <4>1. new \subseteq old /\ \A o \in new : tables'[t][o].at = tables[t][o].at
        BY <1>2, <2>2, <3>0, <3>1
      <4>2. new \ old \subseteq {} /\ r \in new
        BY <2>1, <4>1
      <4>3. QED
        BY <1>1, <2>4, <3>1, <4>1, <4>2, AheadShrinks
    <3>2. CASE t # "pings"
      <4>1. new \ old \subseteq came /\ ~\E g \in came : g < r
        BY <2>2, <3>0, <3>2
      <4>2. QED
        BY <1>1, <2>4, <3>2, <4>1, AheadShrinks
    <3>3. QED
      BY <3>1, <3>2
  <2>10. Offset(walk.page, walk.size) <= Place(r) /\ (Fetching => Place(r) < walk.total)
    BY <1>0, <2>1, <2>3 DEF WalkIsSound, PlacesAreKept
  <2>11. Cardinality(A) <= Cardinality(B)
    BY <2>6, <2>8, FS_Subset
  <2>12. Fetching => Cardinality(B) <= Cardinality(A)
    BY <2>6, <2>9, FS_Subset
  <2>13. Offset(walk.page, walk.size) \in Int /\ walk.total \in Int
    BY <1>0 DEF WalkIsSound, Offset
  <2>14. QED
    BY <2>5, <2>6, <2>10, <2>11, <2>12, <2>13
<1>10. PlacesAreKept'
  BY <1>0, <1>5, <1>9 DEF PlacesAreKept
<1>11. WalkIsSound'
  BY <1>0, <1>5, <1>6, <1>7, <1>8, <1>10 DEF WalkIsSound
<1>12. Walking'
  BY <1>5 DEF Walking
<1>13. QED
  BY <1>0, <1>5, <1>11, <1>12 DEF WalkInv

LEMMA ListOf ==
  ASSUME NEW t, NEW where, NEW size
  PROVE  LET q == List(t, where, size)
         IN  /\ q # <<>> /\ DOMAIN q = 1..2 /\ Tail(q) = <<q[2]>> /\ q # <<q[2]>>
             /\ q[1].do = "count" /\ q[2].do = "fetch"
             /\ \A i \in 1..2 : q[i].table = t /\ q[i].where = where /\ q[i].size = size
             /\ <<q[2]>> # <<>> /\ Tail(<<q[2]>>) = <<>> /\ <<q[2]>>[1] = q[2]
<1>1. PICK a, b : List(t, where, size) = <<a, b>> /\ a = List(t, where, size)[1]
                  /\ b = List(t, where, size)[2]
  BY DEF List
<1>2. Len(<<a, b>>) = 2 /\ Len(<<b>>) = 1 /\ Len(<<>>) = 0
  BY ShortSequences
<1>3. DOMAIN <<a, b>> = 1..2 /\ Tail(<<a, b>>) = <<b>> /\ Tail(<<b>>) = <<>> /\ <<b>>[1] = b
  BY ShortSequences, LengthOf
<1>4. <<a, b>> # <<>> /\ <<b>> # <<>> /\ <<a, b>> # <<b>>
  BY <1>2
<1>5. /\ a = [do |-> "count", table |-> t, where |-> where, size |-> size]
      /\ b = [do |-> "fetch", table |-> t, where |-> where, size |-> size]
  BY <1>1 DEF List
<1>6. \A i \in 1..2 : i = 1 \/ i = 2
  OBVIOUS
<1>7. QED
  BY <1>1, <1>3, <1>4, <1>5, <1>6

LEMMA IdleKeepsWalk ==
  ASSUME WalkInv, ~Walking, UNCHANGED walk, AsksNothing'
  PROVE  WalkInv'
BY DEF WalkInv, Walking, WalkSeesWhatStays, WalkEnded

LEMMA NoWalkIsFine ==
  ASSUME walk' = NoWalk, req'[Walker] = NoRequest
  PROVE  WalkInv'
<1>1. walk'.page = 0 /\ IsWalk(walk')
  BY DEF NoWalk, IsWalk
<1>2. AsksNothing'
  BY ShortSequences DEF AsksNothing, NoRequest
<1>3. QED
  BY <1>1, <1>2 DEF WalkInv, Walking, WalkSeesWhatStays, WalkEnded

(* What the others do.                                                     *)
LEMMA StillKeepsWalk ==
  ASSUME WalkInv, UNCHANGED <<tables, walk>>,
         req'[Walker] = req[Walker], todo'[Walker] = todo[Walker]
  PROVE  WalkInv'
<1>1. CASE ~Walking
  BY <1>1, IdleKeepsWalk DEF WalkInv, AsksNothing
<1>2. CASE Walking
  <2>1. Fetching' = Fetching /\ Walking'
    BY <1>2 DEF Fetching, Walking
  <2>2. \A r : Place(r)' = Place(r) /\ (Excused(r)' <=> Excused(r))
    BY PlaceOf DEF Excused
  <2>3. Asks' /\ Matching(walk.table, walk.where)' = Matching(walk.table, walk.where)
    BY <1>2 DEF WalkInv, WalkIsSound, Asks, PageAsked, Matching
  <2>4. PlacesAreKept'
    BY <1>2, <2>1, <2>2 DEF WalkInv, WalkIsSound, PlacesAreKept
  <2>5. QED
    BY <1>2, <2>1, <2>3, <2>4 DEF WalkInv, WalkIsSound
<1>3. QED
  BY <1>1, <1>2

LEMMA OthersKeepWalk ==
  ASSUME CloudInv, WalkInv, DbInv', PingsRise, UNCHANGED <<tables, walk>> \/ Observe,
         req'[Walker] = req[Walker], todo'[Walker] = todo[Walker]
  PROVE  WalkInv'
<1>1. CASE UNCHANGED <<tables, walk>>
  BY <1>1, StillKeepsWalk
<1>2. CASE Observe /\ Walking
  BY <1>2, ObserveKeepsWalk DEF CloudInv
<1>3. CASE Observe /\ ~Walking
  <2>1. UNCHANGED walk
    BY <1>3 DEF Observe
  <2>2. AsksNothing'
    BY <1>3 DEF WalkInv, AsksNothing
  <2>3. QED
    BY <1>3, <2>1, <2>2, IdleKeepsWalk
<1>4. QED
  BY <1>1, <1>2, <1>3

LEMMA OthersExecute ==
  ASSUME CloudInv, WalkInv, NEW c \in Client, c # Walker, Execute(c)
  PROVE  WalkInv'
<1>1. DbInv' /\ PingsRise
  BY ExecuteKeepsReq DEF CloudInv
<1>2. PICK s, r :
        /\ IsQuery(s) /\ Turns(c, r)
        /\ \/ s.do \notin {"count", "fetch"} /\ UNCHANGED <<tables, walk, todo>>
           \/ s.do \notin {"count", "fetch"} /\ Observe /\ UNCHANGED todo
           \/ ExecuteCount(c, s) \/ ExecuteFetch(c, s)
  BY ExecuteOf DEF CloudInv
<1>3. Walker \in Client
  BY UsersAreClients
<1>4. req'[Walker] = req[Walker]
  BY <1>2, <1>3 DEF Turns
<1>5. todo' = todo
  BY <1>2 DEF ExecuteCount, ExecuteFetch
<1>6. UNCHANGED <<tables, walk>> \/ Observe
  BY <1>2 DEF ExecuteCount, ExecuteFetch, dbVars
<1>7. QED
  BY <1>1, <1>4, <1>5, <1>6, OthersKeepWalk

(* The walker sends: the list it is going through, a list to go through,   *)
(* or something else.                                                      *)
LEMMA WalkerSends ==
  ASSUME CloudInv, WalkInv, Send(Walker)
  PROVE  WalkInv'
<1>u. Walker \in User /\ Walker \in Client
  BY UsersAreClients
<1>1. PICK h, r :
        /\ h = Head(todo[Walker]) /\ IsHandler(h)
        /\ Turns(Walker, r) /\ r.phase = "upsert" /\ r.steps = h.steps
        /\ IF IsList(h) /\ ~Walking THEN StartWalk(h.steps[1]) ELSE UNCHANGED walk
        /\ UNCHANGED dbVars
  BY <1>u, SendOf DEF CloudInv
<1>2. req'[Walker] = r
  BY <1>1, <1>u DEF Turns
<1>3. ~Fetching'
  BY <1>1, <1>2 DEF Fetching
<1>4. UNCHANGED tables
  BY <1>1 DEF dbVars
<1>5. CASE Walking
  <2>1. walk' = walk /\ Walking' /\ WalkIsSound
    BY <1>1, <1>5 DEF Walking, WalkInv
  <2>2. h = Reply(PageAsked, 200)
    BY <1>1, <2>1 DEF WalkIsSound, Asks, Send
  <2>3. h.steps = PageAsked
    BY <2>2 DEF Reply
  <2>4. Asks'
    BY <1>1, <1>2, <2>1, <2>3 DEF Asks, PageAsked
  <2>5. \A q : Place(q)' = Place(q) /\ (Excused(q)' <=> Excused(q))
    BY <1>4, <2>1, PlaceOf DEF Excused
  <2>6. PlacesAreKept'
    BY <1>3, <2>1, <2>5 DEF WalkIsSound, PlacesAreKept
  <2>7. Matching(walk.table, walk.where)' = Matching(walk.table, walk.where)
    BY <1>4, <2>1 DEF Matching
  <2>8. QED
    BY <2>1, <2>4, <2>6, <2>7 DEF WalkInv, WalkIsSound
<1>6. CASE ~Walking /\ IsList(h)
  <2>1. PICK s : s = h.steps[1]
    OBVIOUS
  <2>2. /\ h.steps = List(s.table, s.where, s.size)
        /\ s.do = "count" /\ IsQuery(s)
    <3>1. h.steps # <<>> /\ h.steps[1].do = "count" /\ IsSequence(h.steps)
      BY <1>1, <1>6 DEF IsHandler, IsList
    <3>2. 1 \in DOMAIN h.steps
      BY <3>1, TailOf, LengthOf
    <3>3. QED
      BY <1>1, <1>6, <2>1, <3>1, <3>2 DEF IsHandler
  <2>3. s.table \in Table /\ s.size \in 1..200 /\ (s.table = "pings" => s.where = Everything)
    BY <2>2 DEF IsQuery
  <2>4. walk' = [table |-> s.table, where |-> s.where, size |-> s.size, page |-> 1, total |-> 0,
                 seen |-> {}, stay |-> Matching(s.table, s.where), gone |-> {}, came |-> {}]
    BY <1>1, <1>6, <2>1 DEF StartWalk
  <2>5. Asks'
    BY <1>1, <1>2, <2>2, <2>4 DEF Asks, PageAsked
  <2>6. PlacesAreKept'
    <3>1. \A q : Place(q)' \in Nat
      <4>1. \A q : Place(q)' = Cardinality(Ahead(tables[s.table], s.table = "pings", s.where, q))
        BY <1>4, <2>4, PlaceOf
      <4>2. QED
        BY <2>3, <4>1, AheadIsFinite DEF CloudInv, DbInv
    <3>2. Offset(1, s.size) = 0
      BY <2>3 DEF Offset
    <3>3. \A q : Offset(walk.page, walk.size)' <= Place(q)'
      BY <2>4, <3>1, <3>2
    <3>4. QED
      BY <1>3, <3>3 DEF PlacesAreKept
  <2>7. Matching(walk.table, walk.where)' = Matching(s.table, s.where)
    BY <1>4, <2>4 DEF Matching
  <2>8. WalkIsSound' /\ Walking' /\ IsWalk(walk') /\ walk'.page \in Nat
    BY <2>3, <2>4, <2>5, <2>6, <2>7 DEF WalkIsSound, Walking, IsWalk
  <2>9. QED
    BY <2>8 DEF WalkInv
<1>7. CASE ~Walking /\ ~IsList(h)
  <2>1. \A i \in DOMAIN h.steps : h.steps[i].do \notin {"count", "fetch"}
    BY <1>1, <1>7 DEF IsHandler
  <2>2. AsksNothing'
    BY <1>1, <1>2, <2>1 DEF AsksNothing
  <2>3. UNCHANGED walk
    BY <1>1, <1>7
  <2>4. QED
    BY <1>7, <2>2, <2>3, IdleKeepsWalk
<1>8. QED
  BY <1>5, <1>6, <1>7

LEMMA WalkerWaits ==
  ASSUME CloudInv, WalkInv, MiddlewareUpserts(Walker) \/ MiddlewareSets(Walker)
  PROVE  WalkInv'
<1>u. Walker \in User /\ Walker \in Client
  BY UsersAreClients
<1>1. PICK r : /\ Turns(Walker, r) /\ r.steps = req[Walker].steps
               /\ r.phase = "set" \/ r.phase = IF req[Walker].steps = <<>> THEN "answered" ELSE "run"
  BY <1>u, MiddlewareOf DEF CloudInv
<1>2. UNCHANGED <<tables, todo, walk>> /\ req[Walker].phase \in {"upsert", "set"}
  BY <1>u, MiddlewareOf DEF CloudInv
<1>3. req'[Walker] = r
  BY <1>1, <1>u DEF Turns
<1>4. CASE ~Walking
  <2>1. AsksNothing'
    BY <1>1, <1>3, <1>4 DEF WalkInv, AsksNothing
  <2>2. QED
    BY <1>2, <1>4, <2>1, IdleKeepsWalk
<1>5. CASE Walking
  <2>1. WalkIsSound /\ Walking'
    BY <1>2, <1>5 DEF WalkInv, Walking
  <2>2. req[Walker].steps = PageAsked
    BY <1>2, <2>1 DEF WalkIsSound, Asks
  <2>3. PageAsked # <<>> /\ PageAsked[1].do = "count"
    BY ListOf DEF PageAsked
  <2>4. r.phase \in {"set", "run"} /\ r.steps = PageAsked
    BY <1>1, <2>2, <2>3
  <2>5. Asks' /\ ~Fetching'
    BY <1>2, <1>3, <2>3, <2>4 DEF Asks, Fetching, PageAsked
  <2>6. \A q : Place(q)' = Place(q) /\ (Excused(q)' <=> Excused(q))
    BY <1>2, PlaceOf DEF Excused
  <2>7. PlacesAreKept'
    BY <1>2, <2>1, <2>5, <2>6 DEF WalkIsSound, PlacesAreKept
  <2>8. Matching(walk.table, walk.where)' = Matching(walk.table, walk.where)
    BY <1>2 DEF Matching
  <2>9. QED
    BY <1>2, <2>1, <2>5, <2>7, <2>8 DEF WalkInv, WalkIsSound
<1>6. QED
  BY <1>4, <1>5

(* The last page asked for is the last page there was.                     *)
LEMMA PagesReachTheEnd ==
  ASSUME NEW total \in Nat, NEW size \in 1..200, NEW page \in Nat, Pages(total, size) <= page
  PROVE  total <= page * size
<1>1. PICK q : q = (total + size - 1) \div size
  OBVIOUS
<1>2. q \in Int /\ total <= size * q
  BY <1>1
<1>3. size * q <= size * page
  <2>1. q <= page
    BY <1>1 DEF Pages
  <2>2. QED
    BY <1>2, <2>1
<1>4. QED
  BY <1>2, <1>3

LEMMA OffsetOf ==
  ASSUME NEW page \in Nat, NEW size \in 1..200
  PROVE  /\ Offset(page, size) \in Int
         /\ Offset(page + 1, size) = page * size
         /\ Offset(page, size) + size = page * size
BY DEF Offset

LEMMA BeyondThePage ==
  ASSUME NEW page \in Nat, NEW size \in 1..200, NEW place \in Nat, Offset(page, size) <= place,
         place \notin Offset(page, size)..(Offset(page, size) + size - 1)
  PROVE  page * size <= place
<1>1. PICK o, n : o = Offset(page, size) /\ n = page * size
  OBVIOUS
<1>2. o \in Int /\ o + size = n /\ o <= place /\ place \notin o..(o + size - 1)
  BY <1>1, OffsetOf
<1>3. QED
  BY <1>1, <1>2

(* The walker is told how many rows there are.                             *)
LEMMA WalkerCounts ==
  ASSUME CloudInv, WalkInv, Walking, NEW s, s = PageAsked[1], ExecuteCount(Walker, s),
         req'[Walker].phase = "run", req'[Walker].steps = <<PageAsked[2]>>
  PROVE  WalkInv'
<1>1. WalkIsSound /\ IsWalk(walk) /\ UNCHANGED <<tables, todo>>
  BY DEF WalkInv, ExecuteCount, dbVars
<1>2. s.table = walk.table /\ s.where = walk.where
  BY ListOf DEF PageAsked
<1>3. PICK total : total = Cardinality(MatchingIn(tables[walk.table], walk.where))
  OBVIOUS
<1>4. walk' = [walk EXCEPT !.total = total]
  BY <1>2, <1>3 DEF ExecuteCount, Matching
<1>5. /\ IsWalk(walk') /\ walk'.table = walk.table /\ walk'.where = walk.where
      /\ walk'.size = walk.size /\ walk'.page = walk.page /\ walk'.total = total
      /\ walk'.seen = walk.seen /\ walk'.stay = walk.stay /\ walk'.gone = walk.gone
      /\ walk'.came = walk.came
  <2>1. PICK x, y : x = walk /\ y = walk'
    OBVIOUS
  <2>2. IsWalk(x) /\ y = [x EXCEPT !.total = total]
    BY <1>1, <1>4, <2>1
  <2>3. /\ IsWalk(y) /\ y.table = x.table /\ y.where = x.where /\ y.size = x.size
        /\ y.page = x.page /\ y.total = total /\ y.seen = x.seen
        /\ y.stay = x.stay /\ y.gone = x.gone /\ y.came = x.came
    BY <2>2, WalkCounted
  <2>4. QED
    BY <2>1, <2>3
<1>6. /\ total \in Nat
      /\ \A r \in walk.stay : Place(r)' = Place(r) /\ Place(r) < total
  <2>1. PICK t : t = walk.table /\ t \in Table
    BY <1>1 DEF WalkIsSound
  <2>2. total \in Nat
    BY <1>3, <2>1, AheadIsFinite DEF CloudInv, DbInv
  <2>3. ASSUME NEW r \in walk.stay PROVE Place(r)' = Place(r) /\ Place(r) < total
    <3>1. r \in MatchingIn(tables[t], walk.where)
      BY <1>1, <2>1 DEF WalkIsSound, Matching
    <3>2. Cardinality(Ahead(tables[t], t = "pings", walk.where, r)) < total
      BY <1>3, <2>1, <3>1, AheadIsFewer DEF CloudInv, DbInv
    <3>3. QED
      BY <1>1, <1>5, <2>1, <3>2, PlaceOf
  <2>4. QED
    BY <2>2, <2>3
<1>7. Asks' /\ Walking'
  BY <1>5 DEF Asks, PageAsked, Walking
<1>8. \A r : Excused(r)' <=> Excused(r)
  BY <1>5 DEF Excused
<1>9. PlacesAreKept'
  BY <1>1, <1>5, <1>6, <1>8 DEF WalkIsSound, PlacesAreKept
<1>10. Matching(walk.table, walk.where)' = Matching(walk.table, walk.where)
  BY <1>1, <1>5 DEF Matching
<1>11. WalkIsSound'
  BY <1>1, <1>5, <1>6, <1>7, <1>9, <1>10 DEF WalkIsSound
<1>12. QED
  BY <1>1, <1>5, <1>7, <1>11 DEF WalkInv

(* The walker gets a page, and asks for the next one or has seen them all. *)
LEMMA WalkerFetches ==
  ASSUME CloudInv, WalkInv, Walking, Fetching, NEW s, s = PageAsked[2], IsQuery(s),
         ExecuteFetch(Walker, s), req'[Walker].phase = "answered", req'[Walker].steps = <<>>
  PROVE  WalkInv'
<1>1. WalkIsSound /\ IsWalk(walk) /\ UNCHANGED tables /\ walk.page \in Nat
  BY DEF WalkInv, Walking, ExecuteFetch, dbVars
<1>2. s.table = walk.table /\ s.where = walk.where /\ s.size = walk.size
  BY ListOf DEF PageAsked
<1>3. PICK rows : rows = PageOf(walk.table, walk.where, walk.page, walk.size)
  OBVIOUS
<1>4. PICK page : page = IF walk.page < Pages(walk.total, walk.size) THEN walk.page + 1 ELSE -1
  OBVIOUS
<1>5. walk' = [walk EXCEPT !.seen = walk.seen \cup rows, !.page = page]
  BY <1>2, <1>3, <1>4 DEF ExecuteFetch
<1>6. /\ IsWalk(walk') /\ walk'.table = walk.table /\ walk'.where = walk.where
      /\ walk'.size = walk.size /\ walk'.page = page /\ walk'.total = walk.total
      /\ walk'.seen = walk.seen \cup rows /\ walk'.stay = walk.stay /\ walk'.gone = walk.gone
      /\ walk'.came = walk.came
  <2>1. PICK x, y, seen : x = walk /\ y = walk' /\ seen = walk.seen \cup rows
    OBVIOUS
  <2>2. IsWalk(x) /\ FetchedAs(x, seen, page, y)
    BY <1>1, <1>5, <2>1 DEF FetchedAs
  <2>3. /\ IsWalk(y) /\ y.table = x.table /\ y.where = x.where /\ y.size = x.size
        /\ y.page = page /\ y.total = x.total /\ y.seen = seen
        /\ y.stay = x.stay /\ y.gone = x.gone /\ y.came = x.came
    BY <2>2, WalkFetched
  <2>4. QED
    BY <2>1, <2>3
<1>7. \A r : Place(r)' = Place(r) /\ (Excused(r)' <=> Excused(r))
  BY <1>1, <1>6, PlaceOf DEF Excused
(* What is still unseen comes after this page, and there is more of it.    *)
<1>8. ASSUME NEW r \in walk.stay \ (walk.seen \cup rows), ~Excused(r)
      PROVE  Offset(walk.page + 1, walk.size) <= Place(r) /\ walk.page < Pages(walk.total, walk.size)
  <2>1. Offset(walk.page, walk.size) <= Place(r) /\ Place(r) < walk.total
    BY <1>1, <1>8 DEF WalkIsSound, PlacesAreKept
  <2>2. Place(r) \in Nat /\ walk.total \in Nat /\ walk.size \in 1..200
    BY <1>1, PlaceOf, AheadIsFinite DEF WalkIsSound, CloudInv, DbInv
  <2>3. Place(r) \notin Offset(walk.page, walk.size)..(Offset(walk.page, walk.size) + walk.size - 1)
    BY <1>1, <1>3, <1>8 DEF WalkIsSound, PageOf, Place
  <2>4. /\ Offset(walk.page, walk.size) \in Int
        /\ Offset(walk.page + 1, walk.size) = walk.page * walk.size
        /\ Offset(walk.page, walk.size) + walk.size = walk.page * walk.size
    BY <1>1, <2>2, OffsetOf
  <2>5. walk.page * walk.size <= Place(r)
    BY <1>1, <2>1, <2>2, <2>3, BeyondThePage
  <2>6. walk.page < Pages(walk.total, walk.size)
    <3> SUFFICES ASSUME ~(walk.page < Pages(walk.total, walk.size)) PROVE FALSE
      OBVIOUS
    <3>1. PICK t, z, p, m, n : /\ t = walk.total /\ z = walk.size /\ p = walk.page
                               /\ m = Place(r) /\ n = walk.page * walk.size
      OBVIOUS
    <3>2. t \in Nat /\ z \in 1..200 /\ p \in Nat /\ m \in Nat /\ n = p * z
      BY <1>1, <2>2, <3>1
    <3>3. Pages(t, z) \in Int
      BY <3>2 DEF Pages
    <3>4. Pages(t, z) <= p
      BY <3>1, <3>2, <3>3
    <3>5. t <= n
      BY <3>2, <3>4, PagesReachTheEnd
    <3>6. n <= m /\ m < t
      BY <2>1, <2>5, <3>1
    <3>7. n \in Int
      BY <3>2
    <3>8. QED
      BY <3>2, <3>5, <3>6, <3>7
  <2>7. QED
    BY <2>4, <2>5, <2>6
<1>9. CASE walk.page < Pages(walk.total, walk.size)
  <2>1. page = walk.page + 1 /\ Walking' /\ walk'.page \in Nat
    BY <1>1, <1>4, <1>6, <1>9 DEF Walking
  <2>2. Asks'
    <3>1. /\ todo'[Walker] # <<>>
          /\ Head(todo'[Walker]) = Reply(List(s.table, s.where, s.size), 200)
      BY <1>2, <1>9, FetchKeepsCalls DEF CloudInv, ReqInv
    <3>2. QED
      BY <1>2, <1>6, <3>1 DEF Asks, PageAsked
  <2>3. PlacesAreKept'
    <3>1. ~Fetching'
      BY DEF Fetching
    <3>2. QED
      BY <1>6, <1>7, <1>8, <2>1, <3>1 DEF PlacesAreKept
  <2>4. Matching(walk.table, walk.where)' = Matching(walk.table, walk.where)
    BY <1>1, <1>6 DEF Matching
  <2>5. WalkIsSound'
    BY <1>1, <1>6, <2>2, <2>3, <2>4 DEF WalkIsSound
  <2>6. QED
    BY <1>6, <2>1, <2>5 DEF WalkInv
<1>10. CASE ~(walk.page < Pages(walk.total, walk.size))
  <2>1. walk'.page = -1 /\ ~Walking'
    BY <1>4, <1>6, <1>10 DEF Walking
  <2>2. \A r \in walk.stay \ (walk.seen \cup rows) : Excused(r)
    BY <1>8, <1>10
  <2>3. WalkSeesWhatStays'
    BY <1>6, <1>7, <2>2 DEF WalkSeesWhatStays, Excused
  <2>4. AsksNothing'
    BY ShortSequences DEF AsksNothing
  <2>5. QED
    BY <1>6, <2>1, <2>3, <2>4 DEF WalkInv
<1>11. QED
  BY <1>9, <1>10

LEMMA WalkerExecutes ==
  ASSUME CloudInv, WalkInv, Execute(Walker)
  PROVE  WalkInv'
<1>u. Walker \in User /\ Walker \in Client
  BY UsersAreClients
<1>1. PICK s, r :
        /\ s = req[Walker].steps[1] /\ 1 \in DOMAIN req[Walker].steps
        /\ IsQuery(s) /\ req[Walker].phase = "run" /\ Turns(Walker, r)
        /\ r.phase = IF r.steps = <<>> THEN "answered" ELSE "run"
        /\ r.steps = Tail(req[Walker].steps) \/ (r.steps = <<>> /\ s.do \notin {"count", "fetch"})
        /\ \/ s.do \notin {"count", "fetch"} /\ UNCHANGED <<tables, walk, todo>>
           \/ s.do \notin {"count", "fetch"} /\ Observe /\ UNCHANGED todo
           \/ ExecuteCount(Walker, s) \/ ExecuteFetch(Walker, s)
  BY <1>u, ExecuteOf DEF CloudInv
<1>2. req'[Walker] = r
  BY <1>1, <1>u DEF Turns
<1>3. CASE ~Walking
  <2>1. s.do \notin {"count", "fetch"}
    BY <1>1, <1>3 DEF WalkInv, AsksNothing
  <2>2. UNCHANGED walk
    BY <1>1, <1>3, <2>1 DEF Observe, ExecuteCount, ExecuteFetch
  <2>3. AsksNothing'
    <3>1. PICK q : q = req[Walker].steps
      OBVIOUS
    <3>2. IsSequence(q) /\ \A i \in DOMAIN q : q[i].do \notin {"count", "fetch"}
      BY <1>3, <1>u, <3>1 DEF WalkInv, AsksNothing, CloudInv, ReqInv, IsRequest
    <3>3. CASE r.steps = <<>>
      BY <1>2, <3>3, ShortSequences DEF AsksNothing
    <3>4. CASE r.steps = Tail(q)
      <4>1. PICK p : p = Tail(q)
        OBVIOUS
      <4>2. q # <<>>
        BY <1>1, <3>1, <3>2, LengthOf
      <4>3. /\ DOMAIN p = 1..Len(p) /\ DOMAIN q = 1..Len(q)
            /\ \A i \in 1..Len(p) : i + 1 \in 1..Len(q) /\ p[i] = q[i + 1]
        BY <3>2, <4>1, <4>2, TailOf, LengthOf
      <4>4. \A i \in DOMAIN p : p[i].do \notin {"count", "fetch"}
        BY <3>2, <4>3
      <4>5. QED
        BY <1>2, <3>4, <4>1, <4>4 DEF AsksNothing
    <3>5. QED
      BY <1>1, <3>1, <3>3, <3>4
  <2>4. QED
    BY <1>3, <2>2, <2>3, IdleKeepsWalk
<1>4. CASE Walking
  <2>1. \/ req[Walker].steps = PageAsked
        \/ req[Walker].steps = <<PageAsked[2]>>
    BY <1>1, <1>4 DEF WalkInv, WalkIsSound, Asks
  <2>2. /\ PageAsked # <<>> /\ Tail(PageAsked) = <<PageAsked[2]>> /\ <<PageAsked[2]>> # <<>>
        /\ PageAsked[1].do = "count" /\ PageAsked[2].do = "fetch"
        /\ Tail(<<PageAsked[2]>>) = <<>> /\ <<PageAsked[2]>>[1] = PageAsked[2]
    BY ListOf DEF PageAsked
  <2>3. CASE req[Walker].steps = PageAsked
    <3>1. s = PageAsked[1] /\ s.do = "count"
      BY <1>1, <2>2, <2>3
    <3>2. ExecuteCount(Walker, s)
      BY <1>1, <3>1 DEF ExecuteFetch
    <3>3. r.steps = <<PageAsked[2]>> /\ r.phase = "run"
      BY <1>1, <2>2, <2>3, <3>1
    <3>4. QED
      BY <1>2, <1>4, <3>1, <3>2, <3>3, WalkerCounts
  <2>4. CASE req[Walker].steps = <<PageAsked[2]>>
    <3>1. s = PageAsked[2] /\ s.do = "fetch" /\ Fetching
      BY <1>1, <2>2, <2>4 DEF Fetching
    <3>2. ExecuteFetch(Walker, s)
      BY <1>1, <3>1 DEF ExecuteCount
    <3>3. r.steps = <<>> /\ r.phase = "answered"
      BY <1>1, <2>2, <2>4, <3>1
    <3>4. QED
      BY <1>1, <1>2, <1>4, <3>1, <3>2, <3>3, WalkerFetches
  <2>5. QED
    BY <2>1, <2>3, <2>4
<1>5. QED
  BY <1>3, <1>4

LEMMA WalkStepInv ==
  ASSUME CloudInv, CloudInv', PingsRise, WalkInv, [Next]_vars
  PROVE  WalkInv'
<1>u. Walker \in User /\ Walker \in Client /\ Walker \notin Task
  BY UsersAreClients
<1>1. DbInv' /\ DbInv /\ ReqInv
  BY DEF CloudInv
<1>2. ASSUME NEW c \in Client, c # Walker, NEW r, Turns(c, r)
      PROVE  req'[Walker] = req[Walker]
  BY <1>2, <1>u DEF Turns
<1>3. ASSUME NEW u \in User, u # Walker, UserStep(u) PROVE WalkInv'
  <2>1. u \in Client
    BY UsersAreClients
  <2>2. CASE Send(u)
    <3>1. PICK r : /\ Turns(u, r) /\ \A v \in User \ {u} : todo'[v] = todo[v]
                   /\ UNCHANGED walk /\ UNCHANGED dbVars
      BY <1>1, <1>3, <2>2, SendOf
    <3>2. QED
      BY <1>2, <1>3, <1>u, <2>1, <3>1, StillKeepsWalk DEF dbVars
  <2>3. CASE MiddlewareUpserts(u) \/ MiddlewareSets(u)
    <3>1. UNCHANGED <<tables, todo, walk>>
      BY <1>1, <2>3, MiddlewareOf
    <3>2. PICK r : Turns(u, r)
      BY <1>1, <2>3, MiddlewareOf
    <3>3. QED
      BY <1>2, <1>3, <2>1, <3>1, <3>2, StillKeepsWalk
  <2>4. CASE Execute(u)
    BY <1>3, <2>1, <2>4, OthersExecute
  <2>5. QED
    BY <1>3, <2>2, <2>3, <2>4 DEF UserStep
<1>4. ASSUME UserStep(Walker) PROVE WalkInv'
  BY <1>4, WalkerSends, WalkerWaits, WalkerExecutes DEF UserStep
<1>5. ASSUME NEW t \in Task, UNCHANGED <<dbVars, todo, walk>>, NEW r, Turns(t, r)
      PROVE  WalkInv'
  BY <1>2, <1>5, <1>u, UsersAreClients, StillKeepsWalk DEF dbVars
<1>6. ASSUME NEW t \in Task, UNCHANGED <<dbVars, todo, walk>>,
             (\E status : Answer(t, status)) \/ (\E h, phase : Start(t, h, phase))
      PROVE  WalkInv'
  <2>1. t \in Client /\ t # Walker
    BY <1>u, UsersAreClients
  <2>2. \E r : req' = [req EXCEPT ![t] = r]
    BY <1>6 DEF Answer, Start
  <2>3. \E r : Turns(t, r)
    BY <2>1, <2>2, <1>1 DEF Turns, ReqInv
  <2>4. QED
    BY <1>5, <1>6, <2>3
<1>7. CASE UserActs
  BY <1>3, <1>4, <1>7 DEF UserActs
<1>8. CASE UserLeaves
  <2>1. PICK u \in User : Disconnect(u)
    BY <1>8 DEF UserLeaves
  <2>2. u \in Client
    BY UsersAreClients
  <2>3. PICK r : Turns(u, r) /\ r = NoRequest
    BY <1>1, <2>1, DisconnectKeepsReq
  <2>4. UNCHANGED <<tables, todo>> /\ walk' = IF u = Walker THEN NoWalk ELSE walk
    BY <2>1 DEF Disconnect, dbVars
  <2>5. CASE u = Walker
    BY <1>u, <2>3, <2>4, <2>5, NoWalkIsFine DEF Turns
  <2>6. CASE u # Walker
    BY <1>2, <2>2, <2>3, <2>4, <2>6, StillKeepsWalk
  <2>7. QED
    BY <2>5, <2>6
<1>9. CASE ServerRestarts
  BY <1>9, <1>u, NoWalkIsFine DEF ServerRestarts, Restart
<1>10. ASSUME NEW t \in Task, AgentStep(t) PROVE WalkInv'
  <2>1. CASE TaskSends(t)
    BY <1>6, <2>1 DEF TaskSends
  <2>2. CASE Authenticate(t)
    BY <1>6, <2>2 DEF Authenticate, Run
  <2>3. CASE TaskRegisters(t)
    BY <1>6, <2>3 DEF TaskRegisters, Run
  <2>4. CASE TaskRests(t)
    BY <1>6, <2>4 DEF TaskRests
  <2>5. CASE Execute(t)
    BY <1>u, <2>5, UsersAreClients, OthersExecute
  <2>6. QED
    BY <1>10, <2>1, <2>2, <2>3, <2>4, <2>5 DEF AgentStep
<1>11. ASSUME NEW t \in Task, ConnectionLost(t) PROVE WalkInv'
  BY <1>6, <1>11 DEF ConnectionLost
<1>12. CASE AgentRestarts
  <2>1. req'[Walker] = req[Walker]
    BY <1>12, <1>u DEF AgentRestarts
  <2>2. QED
    BY <1>12, <2>1, StillKeepsWalk DEF AgentRestarts, dbVars
<1>13. CASE UNCHANGED cloudVars
  BY <1>13, StillKeepsWalk DEF cloudVars, requestVars, dbVars
<1>14. QED
  BY <1>7, <1>8, <1>9, <1>10, <1>11, <1>12, <1>13 DEF Next, SigningFails, TimePasses, vars

(* A user who reads a list page by page has seen every row that was in it  *)
(* all along, whatever others do to the list between the pages and between *)
(* the two statements of a page, unless a row before it left the list or   *)
(* came into it at the wrong moment (pagination.rs:23-40, the list         *)
(* functions of db).                                                       *)
THEOREM WalksSeeWhatStays == CloudSpec => []WalkSeesWhatStays
<1>1. Init => WalkInv
  <2> SUFFICES ASSUME Init PROVE WalkInv
    OBVIOUS
  <2>1. walk = NoWalk /\ req[Walker] = NoRequest
    BY UsersAreClients DEF Init, RequestsInit
  <2>2. walk.page = 0 /\ IsWalk(walk)
    BY <2>1 DEF NoWalk, IsWalk
  <2>3. AsksNothing
    BY <2>1, ShortSequences DEF AsksNothing, NoRequest
  <2>4. QED
    BY <2>2, <2>3 DEF WalkInv, Walking, WalkSeesWhatStays, WalkEnded
<1>2. CloudInv /\ WalkInv /\ [Next]_vars => CloudInv' /\ WalkInv'
  BY CloudStepInv, WalkStepInv
<1>3. WalkInv => WalkSeesWhatStays
  BY DEF WalkInv, Walking, WalkSeesWhatStays, WalkEnded
<1>4. QED
  BY <1>1, <1>2, <1>3, CloudInitInv, PTL DEF CloudSpec
===============================================================================
