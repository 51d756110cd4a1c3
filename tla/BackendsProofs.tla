--------------------------- MODULE BackendsProofs ---------------------------
(***************************************************************************)
(* Proofs about the parts that face other systems, for every value of the  *)
(* constants of MCBackends, the setups among them.  Each part has its own  *)
(* inductive invariant; a behaviour runs one part, so an invariant of a    *)
(* part is an invariant of BackendsSpec (the last section).                *)
(***************************************************************************)
EXTENDS MCBackends, FiniteSetTheorems, NaturalsInduction, WellFoundedInduction, TLAPS

-----------------------------------------------------------------------------
(* Discovery.  SetCacheTTL may bring an expired map back to life, so what  *)
(* the cache holds must be current until its age is beyond every TTL.      *)

IDSets == SUBSET (DNames \X Nat)
DTypeOK ==
  /\ consul \in [ids : IDSets, own : Nat, given : Nat]
  /\ cache \in [ids : IDSets, age : Nat, ttl : 1..MaxTTL, own : Nat, raced : BOOLEAN]
  /\ dcall \in [DClients -> [pc : {"idle", "clear", "fetch", "update"}, ids : IDSets, own : Nat]]

HeldIsCurrent ==
  \/ cache.age > MaxTTL
  \/ \E c \in DClients : dcall[c].pc = "clear"
  \/ cache.own = consul.own \/ cache.raced

DInv == DTypeOK /\ HeldIsCurrent

\* The initial state satisfies the invariant.
LEMMA DiscoveryInit == DInit => DInv
BY DiscoveryAssumption DEF IDSets, DInit, DInv, DTypeOK, HeldIsCurrent, DIdle, Expired

CacheType == [ids : IDSets, age : Nat, ttl : 1..MaxTTL, own : Nat, raced : BOOLEAN]

\* A cleared cache is older than every TTL.
LEMMA Cleared ==
  ASSUME DTypeOK, DCacheClear
  PROVE  cache' \in CacheType /\ cache'.age > MaxTTL
<1>1. PICK e \in IDSets : cache' = [cache EXCEPT !.ids = e, !.age = Expired, !.raced = FALSE]
  BY DEF DCacheClear, IDSets
<1>2. Expired \in Nat /\ Expired > MaxTTL
  BY DiscoveryAssumption DEF Expired
<1>3. cache \in CacheType
  BY DEF DTypeOK, CacheType
<1> QED BY <1>1, <1>2, <1>3 DEF CacheType

\* Every step of the discovery and its clients preserves it.
LEMMA DiscoveryStep == DInv /\ [DNext]_dvars => DInv'
<1> SUFFICES ASSUME DInv, [DNext]_dvars PROVE DInv'
  OBVIOUS
<1> USE DiscoveryAssumption DEF DInv, DTypeOK, HeldIsCurrent
<1>0. /\ {} \in IDSets /\ \A S \in IDSets : \A x : S \ {x} \in IDSets
      /\ \A S \in IDSets, n \in DNames, k \in Nat : S \cup {<<n, k>>} \in IDSets
  BY DEF IDSets
<1>1. ASSUME NEW c \in DClients, NEW n \in DNames, DRegisterService(c, n) PROVE DInv'
  <2>1. CASE UNCHANGED dcall /\ consul'.own = consul.own
    <3> DEFINE e == consul.ids \cup {<<n, consul.given + 1>>}
    <3>0. e \in IDSets
      BY <1>0
    <3>1. \/ consul' = consul
          \/ \E k \in Nat : consul' = [ids |-> e, own |-> k, given |-> consul.given + 1]
      BY <1>1 DEF DRegisterService
    <3> HIDE DEF e
    <3>2. consul' \in [ids : IDSets, own : Nat, given : Nat]
      BY <3>0, <3>1
    <3> QED BY <1>1, <2>1, <3>2 DEF DRegisterService
  <2>2. CASE /\ consul' = [ids |-> consul.ids \cup {<<n, consul.given + 1>>},
                           own |-> consul.own + 1, given |-> consul.given + 1]
             /\ dcall' = [dcall EXCEPT ![c].pc = "clear"]
    <3>1. DTypeOK'
      BY <1>0, <1>1, <2>2 DEF DRegisterService
    <3>2. dcall'[c].pc = "clear"
      BY <2>2
    <3> QED BY <3>1, <3>2
  <2> QED BY <1>1, <2>1, <2>2 DEF DRegisterService
<1>2. ASSUME NEW c \in DClients, NEW n \in DNames, DDeregisterService(c, n) PROVE DInv'
  <2> DEFINE e == consul.ids \ {<<n, 0>>}
  <2>0. e \in IDSets
    BY <1>0
  <2> HIDE DEF e
  <2>3. \/ consul' = [consul EXCEPT !.ids = e, !.own = @ + 1]
        \/ consul' = [consul EXCEPT !.ids = e]
        \/ consul' = consul
    <3>0. consul = [consul EXCEPT !.ids = consul.ids]
      OBVIOUS
    <3>3. CASE \E ids \in {consul.ids, e} : consul' = [consul EXCEPT !.ids = ids]
      BY <3>0, <3>3
    <3>4. CASE consul' = [consul EXCEPT !.ids = @ \ {<<n, 0>>},
                                       !.own = IF <<n, 0>> \in consul.ids THEN @ + 1 ELSE @]
      <4>1. CASE <<n, 0>> \in consul.ids
        BY <3>4, <4>1 DEF e
      <4>2. CASE <<n, 0>> \notin consul.ids
        BY <3>4, <4>2 DEF e
      <4> QED BY <4>1, <4>2
    <3> QED BY <1>2, <3>3, <3>4 DEF DDeregisterService, e
  <2>4. consul' \in [ids : IDSets, own : Nat, given : Nat]
    <3>1. consul.own + 1 \in Nat /\ consul \in [ids : IDSets, own : Nat, given : Nat]
      OBVIOUS
    <3> QED BY ONLY <2>0, <2>3, <3>1
  <2>1. DTypeOK'
    BY <1>2, <2>4 DEF DDeregisterService
  <2>2. dcall'[c].pc = "clear" \/ (dcall' = dcall /\ consul'.own = consul.own)
    BY <1>0, <1>2 DEF DDeregisterService
  <2> QED BY <1>2, <2>1, <2>2 DEF DDeregisterService
<1>3. ASSUME NEW c \in DClients, NEW n \in DNames, DGetService(c, n) PROVE DInv'
  BY <1>3 DEF DGetService
<1>4. ASSUME NEW c \in DClients, DClearAfterChange(c) PROVE DInv'
  <2>1. cache' \in CacheType /\ cache'.age > MaxTTL
    BY <1>4, Cleared DEF DClearAfterChange
  <2> QED BY <1>4, <2>1 DEF DClearAfterChange, CacheType
<1>5. ASSUME NEW c \in DClients, DFetch(c) PROVE DInv'
  <2>1. CASE dcall' = [dcall EXCEPT ![c] = [pc |-> "update", ids |-> consul.ids, own |-> consul.own]]
    BY <1>5, <2>1 DEF DFetch
  <2>2. CASE dcall' = [dcall EXCEPT ![c] = DIdle]
    <3>1. DIdle \in [pc : {"idle", "clear", "fetch", "update"}, ids : IDSets, own : Nat]
      BY <1>0 DEF DIdle
    <3>2. \A x \in DClients : dcall[x].pc = "clear" => dcall'[x].pc = "clear"
      BY <1>5, <2>2 DEF DFetch
    <3> QED BY <1>5, <2>2, <3>1, <3>2 DEF DFetch
  <2> QED BY <1>5, <2>1, <2>2 DEF DFetch
<1>6. ASSUME NEW c \in DClients, DUpdate(c) PROVE DInv'
  <2>1. DTypeOK'
    BY <1>0, <1>6 DEF DUpdate, DCacheUpdate, DIdle
  <2>2. cache'.own = consul'.own \/ cache'.raced
    BY <1>0, <1>6 DEF DUpdate, DCacheUpdate, DIdle
  <2> QED BY <2>1, <2>2
<1>7. CASE DSetCacheTTL
  BY <1>7 DEF DSetCacheTTL
<1>8. CASE DClearCache
  <2>1. cache' \in CacheType /\ cache'.age > MaxTTL
    BY <1>8, Cleared DEF DClearCache
  <2> QED BY <1>8, <2>1 DEF DClearCache, CacheType
<1>9. CASE DTick
  BY <1>9 DEF DTick
<1>10. ASSUME NEW n \in DNames, DForeignChange(n) PROVE DInv'
  <2>1. ASSUME NEW id, consul' = [consul EXCEPT !.ids = @ \ {id}]
        PROVE  consul'.own = consul.own /\ consul' \in [ids : IDSets, own : Nat, given : Nat]
    <3> DEFINE e == consul.ids \ {id}
    <3>1. e \in IDSets
      BY <1>0
    <3>2. consul' = [consul EXCEPT !.ids = e]
      BY <2>1
    <3> HIDE DEF e
    <3> QED BY <3>1, <3>2
  <2>2. ASSUME consul' = [consul EXCEPT !.ids = @ \cup {<<n, 0>>}, !.given = @ + 1]
        PROVE  consul'.own = consul.own /\ consul' \in [ids : IDSets, own : Nat, given : Nat]
    <3> DEFINE e == consul.ids \cup {<<n, 0>>}
    <3>1. e \in IDSets
      BY <1>0
    <3>2. consul' = [consul EXCEPT !.ids = e, !.given = @ + 1]
      BY <2>2
    <3>3. consul.given + 1 \in Nat /\ consul \in [ids : IDSets, own : Nat, given : Nat]
      OBVIOUS
    <3> HIDE DEF e
    <3> QED BY ONLY <3>1, <3>2, <3>3
  <2>3. cache' = cache /\ dcall' = dcall
    BY <1>10 DEF DForeignChange
  <2>4. consul'.own = consul.own /\ consul' \in [ids : IDSets, own : Nat, given : Nat]
    BY <1>10, <2>1, <2>2 DEF DForeignChange
  <2> QED BY <2>3, <2>4
<1>11. CASE UNCHANGED dvars
  BY <1>11 DEF dvars
<1> QED
  BY <1>1, <1>2, <1>3, <1>4, <1>5, <1>6, <1>7, <1>8, <1>9, <1>10, <1>11 DEF DNext

\* A valid cache has an age that no TTL exceeds.
LEMMA DiscoveryGoal == DInv => CacheCurrentUnlessRaced
BY DiscoveryAssumption DEF DInv, DTypeOK, HeldIsCurrent, CacheCurrentUnlessRaced, DCacheValid
-----------------------------------------------------------------------------
(* Service calls.  A pooled connection has a number of its own, and an     *)
(* open one is pooled; the legs a call has run follow from its strategy    *)
(* and from where it is.                                                   *)

Somewhere == Addresses \cup {NoAddress}
LegSets == SUBSET {"local", "remote"}
CallType ==
  [pc : {"idle", "local", "remote", "connect", "lookup", "dial", "ok", "failed"},
   to : Somewhere, svc : SvcNames \cup {NoAddress}, strategy : Strategies \cup {"none"},
   ran : LegSets, address : Somewhere]
GrpcType ==
  [state : {"off", "on", "closed"}, own : [SvcNames -> Somewhere], consul : [SvcNames -> Somewhere], changes : Nat]
PoolType == [conn : [SvcNames -> Nat], open : SUBSET Nat, dialled : Nat]

\* Where a call may be, after which legs.
Way(r) ==
  /\ r.pc # "idle" => r.svc \in SvcNames
  /\ \/ r.pc \in {"idle", "ok"}
     \/ r.pc = "local" /\ r.strategy \in {"local_first", "local_only"} /\ r.ran = {}
     \/ r.pc = "local" /\ r.strategy = "remote_first" /\ r.ran = {"remote"}
     \/ r.pc = "remote" /\ r.strategy \in {"remote_first", "remote_only"} /\ r.ran = {}
     \/ r.pc = "remote" /\ r.strategy = "local_first" /\ r.ran = {"local"}
     \/ /\ r.pc \in {"connect", "lookup", "dial"}
        /\ \/ r.strategy \in {"remote_first", "remote_only"} /\ r.ran = {"remote"}
           \/ r.strategy = "local_first" /\ r.ran = {"local", "remote"}
     \/ /\ r.pc = "failed"
        /\ \/ r.strategy = "local_only" /\ r.ran = {"local"}
           \/ r.strategy = "remote_only" /\ r.ran = {"remote"}
           \/ r.strategy \in {"local_first", "remote_first"} /\ r.ran = {"local", "remote"}

CallsSound == scall \in [SvcCallers -> CallType] /\ \A c \in SvcCallers : Way(scall[c])

PoolSound ==
  /\ pool \in PoolType
  /\ \A n \in SvcNames : pool.conn[n] <= pool.dialled
  /\ \A n, m \in SvcNames : pool.conn[n] = pool.conn[m] /\ pool.conn[n] # 0 => n = m
  /\ \A k \in pool.open : k # 0 /\ \E n \in SvcNames : pool.conn[n] = k

SvcInv == grpcReg \in GrpcType /\ CallsSound /\ PoolSound

\* The record of a call that has not begun.
LEMMA QuietCall == Quiet \in CallType /\ Quiet.pc = "idle" /\ Quiet.ran = {}
<1>1. PICK none \in LegSets : none = {}
  BY DEF LegSets
<1>2. NoAddress \in Somewhere
  BY DEF Somewhere
<1>3. Quiet = [pc |-> "idle", to |-> NoAddress, svc |-> NoAddress, strategy |-> "none",
               ran |-> none, address |-> NoAddress]
  BY <1>1 DEF Quiet
<1>4. Quiet \in CallType /\ Quiet.pc = "idle" /\ Quiet.ran = none
  BY <1>2, <1>3 DEF CallType
<1> QED BY <1>1, <1>4

\* A call that has not begun, and the pool before the first dial.
LEMMA SvcStart == SvcInit => SvcInv
<1> SUFFICES ASSUME SvcInit PROVE SvcInv
  OBVIOUS
<1>1. grpcReg \in GrpcType
  <2>1. PICK on \in {"off", "on"}, where \in [SvcNames -> Somewhere] :
          grpcReg = [state |-> on, own |-> [n \in SvcNames |-> NoAddress],
                     consul |-> where, changes |-> 0]
    BY DEF SvcInit, Somewhere
  <2> QED BY <2>1 DEF GrpcType, Somewhere
<1>2. CallsSound
  <2>1. Quiet \in CallType /\ Quiet.pc = "idle"
    BY QuietCall
  <2>2. scall = [c \in SvcCallers |-> Quiet]
    BY DEF SvcInit
  <2> HIDE DEF Quiet
  <2> QED BY <2>1, <2>2 DEF CallsSound, Way
<1>3. PoolSound
  BY DEF SvcInit, PoolSound, PoolType
<1> QED BY <1>1, <1>2, <1>3 DEF SvcInv

\* One call is replaced by a sound one.
LEMMA CallReplaced ==
  ASSUME CallsSound, NEW c \in SvcCallers, NEW q \in CallType, Way(q),
         scall' = [scall EXCEPT ![c] = q]
  PROVE  CallsSound'
BY DEF CallsSound

\* Where a failed leg leads, for a call that has just run it.
LEMMA LegFailed ==
  ASSUME NEW r \in CallType, r.svc \in SvcNames,
         \/ r.strategy = "local_only" /\ r.ran = {"local"}
         \/ r.strategy = "remote_only" /\ r.ran = {"remote"}
         \/ r.strategy = "local_first" /\ r.ran = {"local"}
         \/ r.strategy = "remote_first" /\ r.ran = {"remote"}
         \/ r.strategy \in {"local_first", "remote_first"} /\ r.ran = {"local", "remote"}
  PROVE  /\ [r EXCEPT !.pc = AfterFailedLeg(r)] \in CallType
         /\ Way([r EXCEPT !.pc = AfterFailedLeg(r)])
<1> DEFINE to == AfterFailedLeg(r)
           q == [r EXCEPT !.pc = to]
<1>1. \/ /\ r.strategy \in {"local_only", "remote_only"} \/ r.ran = {"local", "remote"}
         /\ to = "failed"
      \/ r.strategy = "local_first" /\ r.ran = {"local"} /\ to = "remote"
      \/ r.strategy = "remote_first" /\ r.ran = {"remote"} /\ to = "local"
  <2>1. "remote" \notin {"local"} /\ "local" \notin {"remote"}
        /\ "remote" \in {"local", "remote"} /\ "local" \in {"local", "remote"}
    OBVIOUS
  <2>2. CASE r.strategy = "local_only" /\ r.ran = {"local"}
    BY <2>2 DEF AfterFailedLeg, callLocalFirst
  <2>3. CASE r.strategy = "remote_only" /\ r.ran = {"remote"}
    BY <2>3 DEF AfterFailedLeg, callLocalFirst
  <2>4. CASE r.strategy = "local_first" /\ r.ran = {"local"}
    BY <2>1, <2>4 DEF AfterFailedLeg, callLocalFirst
  <2>5. CASE r.strategy = "remote_first" /\ r.ran = {"remote"}
    BY <2>1, <2>5 DEF AfterFailedLeg, callRemoteFirst
  <2>6. CASE r.strategy = "local_first" /\ r.ran = {"local", "remote"}
    BY <2>1, <2>6 DEF AfterFailedLeg, callLocalFirst
  <2>7. CASE r.strategy = "remote_first" /\ r.ran = {"local", "remote"}
    BY <2>1, <2>7 DEF AfterFailedLeg, callRemoteFirst
  <2> HIDE DEF to
  <2> QED BY <2>2, <2>3, <2>4, <2>5, <2>6, <2>7
<1>2. to \in {"local", "remote", "failed"}
  BY <1>1
<1> HIDE DEF to
<1>3. /\ q \in CallType /\ q.pc = to /\ q.strategy = r.strategy /\ q.ran = r.ran
      /\ q.svc = r.svc
  BY <1>2 DEF CallType
<1> HIDE DEF q
<1>4. Way(q)
  BY <1>1, <1>3 DEF Way
<1> QED BY <1>3, <1>4 DEF q, to

\* Every step of a call preserves CallsSound; only a dial changes the pool.
LEMMA CallStep ==
  ASSUME SvcInv, NEW c \in SvcCallers,
         \/ \E n \in SvcNames, s \in Strategies : CallServiceWithOptions(c, n, s)
         \/ callLocal(c) \/ callRemote(c) \/ RegistryGetConnection(c)
         \/ LookupConnection(c) \/ GetConnection(c)
  PROVE  CallsSound'
<1> DEFINE r == scall[c]
<1>0. /\ r \in CallType /\ Way(r) /\ CallsSound /\ scall \in [SvcCallers -> CallType]
      /\ r.pc \in {"idle", "local", "remote", "connect", "lookup", "dial", "ok", "failed"}
      /\ r.address \in Somewhere /\ r.ran \in LegSets
  BY DEF SvcInv, CallsSound, CallType
<1>1. ASSUME NEW n \in SvcNames, NEW s \in Strategies, CallServiceWithOptions(c, n, s)
      PROVE  CallsSound'
  <2> DEFINE q == [Quiet EXCEPT !.pc = FirstLeg(s), !.svc = n, !.strategy = s]
  <2>1. scall' = [scall EXCEPT ![c] = q]
    BY <1>1 DEF CallServiceWithOptions
  <2>4. /\ FirstLeg(s) \in {"local", "remote"}
        /\ FirstLeg(s) = "local" => s \in {"local_first", "local_only"}
        /\ FirstLeg(s) = "remote" => s \in {"remote_first", "remote_only"}
    BY DEF FirstLeg, Strategies
  <2>5. Quiet \in CallType /\ Quiet.ran = {}
    BY QuietCall
  <2>6. q \in CallType /\ q.pc = FirstLeg(s) /\ q.svc = n /\ q.strategy = s /\ q.ran = Quiet.ran
    BY <2>4, <2>5 DEF CallType
  <2> HIDE DEF q
  <2>7. Way(q)
    BY <2>4, <2>5, <2>6 DEF Way
  <2> QED BY <1>0, <2>1, <2>6, <2>7, CallReplaced
<1> HIDE DEF r
<1>2. CASE callLocal(c)
  <2> DEFINE ran == [r EXCEPT !.ran = @ \cup {"local"}]
             ok == [ran EXCEPT !.pc = "ok"]
             no == [ran EXCEPT !.pc = AfterFailedLeg(ran)]
  <2>1. r.pc = "local" /\ r.svc \in SvcNames
        /\ (\/ r.strategy \in {"local_first", "local_only"} /\ r.ran = {}
            \/ r.strategy = "remote_first" /\ r.ran = {"remote"})
    BY <1>0, <1>2 DEF callLocal, Way, r
  <2>2. r.ran \cup {"local"} \in LegSets
    BY <1>0 DEF LegSets
  <2>3. /\ ran \in CallType /\ ran.strategy = r.strategy /\ ran.svc = r.svc
        /\ ran.ran = r.ran \cup {"local"}
    BY <1>0, <2>2 DEF CallType
  <2>4. \/ scall' = [scall EXCEPT ![c] = ok] \/ scall' = [scall EXCEPT ![c] = no]
        \/ scall' = [scall EXCEPT ![c] = Quiet]
    <3>1. CASE invokeServiceMethod(c)
      BY <3>1 DEF invokeServiceMethod, r
    <3>2. CASE scall' = [scall EXCEPT ![c].ran = @ \cup {"local"},
                  ![c].pc = AfterFailedLeg([scall[c] EXCEPT !.ran = @ \cup {"local"}])]
      BY <1>0, <3>2 DEF r
    <3> QED BY <1>2, <3>1, <3>2 DEF callLocal
  <2>5. \/ ran.strategy = "local_only" /\ ran.ran = {"local"}
        \/ ran.strategy = "local_first" /\ ran.ran = {"local"}
        \/ ran.strategy = "remote_first" /\ ran.ran = {"local", "remote"}
    BY <2>1, <2>3
  <2> HIDE DEF ran
  <2>6. no \in CallType /\ Way(no)
    BY <2>1, <2>3, <2>5, LegFailed
  <2>7. ok \in CallType /\ Way(ok)
    BY <2>1, <2>3 DEF CallType, Way
  <2>8. Quiet \in CallType /\ Way(Quiet)
    BY QuietCall DEF Way
  <2> HIDE DEF ok, no
  <2> QED BY <1>0, <2>4, <2>6, <2>7, <2>8, CallReplaced
<1>3. CASE callRemote(c)
  <2> DEFINE ran == [r EXCEPT !.ran = @ \cup {"remote"}]
             go == [ran EXCEPT !.pc = "connect"]
             no == [ran EXCEPT !.pc = AfterFailedLeg(ran)]
  <2>1. r.pc = "remote" /\ r.svc \in SvcNames
        /\ (\/ r.strategy \in {"remote_first", "remote_only"} /\ r.ran = {}
            \/ r.strategy = "local_first" /\ r.ran = {"local"})
    BY <1>0, <1>3 DEF callRemote, Way, r
  <2>2. r.ran \cup {"remote"} \in LegSets
    BY <1>0 DEF LegSets
  <2>3. /\ ran \in CallType /\ ran.strategy = r.strategy /\ ran.svc = r.svc
        /\ ran.ran = r.ran \cup {"remote"}
    BY <1>0, <2>2 DEF CallType
  <2>4. scall' = [scall EXCEPT ![c] = go] \/ scall' = [scall EXCEPT ![c] = no]
    BY <1>3 DEF callRemote, r
  <2>5. \/ ran.strategy = "remote_only" /\ ran.ran = {"remote"}
        \/ ran.strategy = "remote_first" /\ ran.ran = {"remote"}
        \/ ran.strategy = "local_first" /\ ran.ran = {"local", "remote"}
    BY <2>1, <2>3
  <2> HIDE DEF ran
  <2>7. no \in CallType /\ Way(no)
    BY <2>1, <2>3, <2>5, LegFailed
  <2>8. /\ go \in CallType /\ go.pc = "connect" /\ go.svc = ran.svc /\ go.ran = ran.ran
        /\ go.strategy = ran.strategy
    BY <2>3 DEF CallType
  <2> HIDE DEF go, no
  <2>9. Way(go)
    BY <2>1, <2>3, <2>5, <2>8 DEF Way
  <2> QED BY <1>0, <2>4, <2>7, <2>8, <2>9, CallReplaced
<1>4. ASSUME LookupConnection(c) \/ GetConnection(c) PROVE CallsSound'
  <2> DEFINE ok == [r EXCEPT !.pc = "ok"]
             dial == [r EXCEPT !.pc = "dial"]
             no == [r EXCEPT !.pc = AfterFailedLeg(r)]
  <2>1. r.svc \in SvcNames
        /\ (\/ r.strategy \in {"remote_first", "remote_only"} /\ r.ran = {"remote"}
            \/ r.strategy = "local_first" /\ r.ran = {"local", "remote"})
    BY <1>0, <1>4 DEF LookupConnection, GetConnection, Way, r
  <2>2. \/ scall' = [scall EXCEPT ![c] = ok] \/ scall' = [scall EXCEPT ![c] = dial]
        \/ scall' = [scall EXCEPT ![c] = no]
    BY <1>0, <1>4 DEF LookupConnection, GetConnection, Marshalled, r
  <2>3. no \in CallType /\ Way(no)
    BY <1>0, <2>1, LegFailed
  <2>4. /\ ok \in CallType /\ ok.pc = "ok" /\ ok.svc = r.svc
        /\ dial \in CallType /\ dial.pc = "dial" /\ dial.svc = r.svc /\ dial.ran = r.ran
        /\ dial.strategy = r.strategy
    BY <1>0 DEF CallType
  <2> HIDE DEF ok, dial, no
  <2>5. Way(ok) /\ Way(dial)
    BY <2>1, <2>4 DEF Way
  <2> QED BY <1>0, <2>2, <2>3, <2>4, <2>5, CallReplaced
<1>5. CASE RegistryGetConnection(c)
  <2> DEFINE a == DiscoverService(r.svc)
             go == [r EXCEPT !.pc = "lookup", !.address = a]
             no == [r EXCEPT !.pc = AfterFailedLeg(r)]
  <2>1. r.svc \in SvcNames
        /\ (\/ r.strategy \in {"remote_first", "remote_only"} /\ r.ran = {"remote"}
            \/ r.strategy = "local_first" /\ r.ran = {"local", "remote"})
    BY <1>0, <1>5 DEF RegistryGetConnection, Way, r
  <2>2. \/ scall' = [scall EXCEPT ![c] = go] \/ scall' = [scall EXCEPT ![c] = Quiet]
        \/ scall' = [scall EXCEPT ![c] = no]
    BY <1>5 DEF RegistryGetConnection, r
  <2>3. no \in CallType /\ Way(no)
    BY <1>0, <2>1, LegFailed
  <2>4. a \in Somewhere
    BY <2>1 DEF SvcInv, GrpcType, DiscoverService
  <2> HIDE DEF a
  <2>5. /\ Quiet \in CallType /\ Quiet.pc = "idle"
        /\ go \in CallType /\ go.pc = "lookup" /\ go.svc = r.svc /\ go.ran = r.ran
        /\ go.strategy = r.strategy
    BY <1>0, <2>4, QuietCall DEF CallType
  <2> HIDE DEF go, no
  <2>6. Way(go) /\ Way(Quiet)
    BY <2>1, <2>5 DEF Way
  <2> QED BY <1>0, <2>2, <2>3, <2>5, <2>6, CallReplaced
<1> QED BY <1>1, <1>2, <1>3, <1>4, <1>5

\* A dial gives the service a number that no other has, and Close forgets them all.
LEMMA PoolStep ==
  ASSUME SvcInv,
         \/ PoolClose
         \/ \E c \in SvcCallers : GetConnection(c)
  PROVE  PoolSound'
<1>1. CASE PoolClose
  <2>1. \A k \in pool.open : \E n \in SvcNames : pool.conn[n] = k
    BY DEF SvcInv, PoolSound
  <2>2. pool.open \ {pool.conn[n] : n \in SvcNames} = {}
    BY <2>1
  <2>3. pool' = [conn |-> [n \in SvcNames |-> 0], open |-> {}, dialled |-> pool.dialled]
        /\ pool.dialled \in Nat
    BY <1>1, <2>2 DEF PoolClose, SvcInv, PoolSound, PoolType
  <2> QED BY <2>3 DEF PoolSound, PoolType
<1>2. ASSUME NEW c \in SvcCallers, GetConnection(c) PROVE PoolSound'
  <2> DEFINE m == scall[c].svc
             k == pool.dialled + 1
  <2>1. m \in SvcNames
    BY <1>2 DEF GetConnection, SvcInv, CallsSound, Way
  <2>2. CASE pool' = pool
    BY <2>2 DEF SvcInv, PoolSound
  <2>3. CASE /\ pool.conn[m] = 0
             /\ pool' = [conn |-> [pool.conn EXCEPT ![m] = k], open |-> pool.open \cup {k},
                         dialled |-> k]
    <3>1. /\ pool.conn \in [SvcNames -> Nat] /\ pool.open \subseteq Nat /\ pool.dialled \in Nat
          /\ \A n \in SvcNames : pool.conn[n] <= pool.dialled
          /\ \A n, o \in SvcNames : pool.conn[n] = pool.conn[o] /\ pool.conn[n] # 0 => n = o
          /\ \A j \in pool.open : j # 0 /\ \E n \in SvcNames : pool.conn[n] = j
      BY DEF SvcInv, PoolSound, PoolType
    <3> DEFINE conn == [pool.conn EXCEPT ![m] = k]
    <3>2. /\ conn \in [SvcNames -> Nat] /\ k \in Nat /\ k # 0
          /\ \A n \in SvcNames : conn[n] = IF n = m THEN k ELSE pool.conn[n]
      BY <2>1, <3>1
    <3>3. pool'.conn = conn /\ pool'.open = pool.open \cup {k} /\ pool'.dialled = k
      BY <2>3
    <3> HIDE DEF conn
    <3>4. pool' \in PoolType
      BY <2>3, <3>1, <3>2 DEF PoolType, conn
    <3>5. \A n \in SvcNames : conn[n] <= k
      BY <3>1, <3>2
    <3>6. \A n, o \in SvcNames : conn[n] = conn[o] /\ conn[n] # 0 => n = o
      BY <3>1, <3>2
    <3>7. \A j \in pool.open \cup {k} : j # 0 /\ \E n \in SvcNames : conn[n] = j
      BY <2>1, <2>3, <3>1, <3>2
    <3> HIDE DEF k, m
    <3> QED BY <3>3, <3>4, <3>5, <3>6, <3>7 DEF PoolSound
  <2> QED BY <1>2, <2>2, <2>3 DEF GetConnection
<1> QED BY <1>1, <1>2

\* Every step of the calls, the registry, the pool and the breakers preserves SvcInv.
LEMMA SvcStep == SvcInv /\ [SvcNext]_svars => SvcInv'
<1> SUFFICES ASSUME SvcInv, [SvcNext]_svars PROVE SvcInv'
  OBVIOUS
<1>1. ASSUME NEW c \in SvcCallers,
             \/ \E n \in SvcNames, s \in Strategies : CallServiceWithOptions(c, n, s)
             \/ callLocal(c) \/ callRemote(c) \/ RegistryGetConnection(c)
             \/ LookupConnection(c) \/ GetConnection(c)
      PROVE  SvcInv'
  <2>1. CallsSound'
    BY <1>1, CallStep
  <2>2. grpcReg' = grpcReg
    BY <1>1 DEF CallServiceWithOptions, callLocal, callRemote, RegistryGetConnection, LookupConnection,
                GetConnection
  <2>3. PoolSound'
    <3>1. GetConnection(c) \/ pool' = pool
      BY <1>1 DEF CallServiceWithOptions, callLocal, callRemote, RegistryGetConnection, LookupConnection
    <3>2. CASE pool' = pool
      BY <3>2 DEF SvcInv, PoolSound
    <3> QED BY <3>1, <3>2, PoolStep
  <2> QED BY <2>1, <2>2, <2>3 DEF SvcInv
<1>2. ASSUME scall' = scall, pool' = pool, grpcReg' = grpcReg PROVE SvcInv'
  BY <1>2 DEF SvcInv, CallsSound, PoolSound
<1>3. ASSUME NEW n \in SvcNames,
             \/ RegisterCrossService(n) \/ UnloadService(n) \/ registerExtensionRoutes(n)
             \/ ExecuteWithCircuitBreaker(n) \/ BreakerTimer(n)
      PROVE  SvcInv'
  BY <1>2, <1>3 DEF RegisterCrossService, UnloadService, registerExtensionRoutes,
                    ExecuteWithCircuitBreaker, BreakerTimer
<1>4. ASSUME NEW n \in SvcNames, NEW a \in Addresses, GrpcRegisterService(n, a) PROVE SvcInv'
  <2>1. scall' = scall /\ pool' = pool
    BY <1>4 DEF GrpcRegisterService
  <2>2. grpcReg' \in GrpcType
    <3> DEFINE own == [grpcReg.own EXCEPT ![n] = a]
    <3>1. grpcReg \in GrpcType /\ a \in Somewhere
      BY DEF SvcInv, Somewhere
    <3>2. own \in [SvcNames -> Somewhere] /\ grpcReg.changes + 1 \in Nat
      BY <3>1 DEF GrpcType
    <3>3. grpcReg' = [grpcReg EXCEPT !.own = own, !.changes = grpcReg.changes + 1]
      BY <1>4, <3>1 DEF GrpcRegisterService, GrpcType
    <3> HIDE DEF own
    <3> QED BY ONLY <3>1, <3>2, <3>3 DEF GrpcType
  <2> QED BY <2>1, <2>2 DEF SvcInv, CallsSound, PoolSound
<1>5. CASE PoolClose
  <2>1. scall' = scall /\ grpcReg' \in GrpcType
    BY <1>5 DEF PoolClose, SvcInv, GrpcType
  <2>2. PoolSound'
    BY <1>5, PoolStep
  <2> QED BY <2>1, <2>2 DEF SvcInv, CallsSound
<1>6. CASE UNCHANGED svars
  BY <1>2, <1>6 DEF svars
<1>7. CASE DropRegistry
  <2>1. scall' = scall /\ pool' = pool /\ grpcReg' \in GrpcType
    BY <1>7 DEF DropRegistry, SvcInv, GrpcType
  <2> QED BY <2>1 DEF SvcInv, CallsSound, PoolSound
<1> QED BY <1>1, <1>3, <1>4, <1>5, <1>6, <1>7 DEF SvcNext

\* What the invariant says of connections and of failed calls.
LEMMA SvcGoal == SvcInv => ConnectionsAccounted /\ LegsExhausted
<1> SUFFICES ASSUME SvcInv PROVE ConnectionsAccounted /\ LegsExhausted
  OBVIOUS
<1>1. ConnectionsAccounted
  <2> SUFFICES ASSUME NEW k \in pool.open
               PROVE  Cardinality({n \in SvcNames : pool.conn[n] = k}) = 1
    BY DEF ConnectionsAccounted
  <2>1. PICK m \in SvcNames : pool.conn[m] = k
    BY DEF SvcInv, PoolSound
  <2>2. {n \in SvcNames : pool.conn[n] = k} = {m}
    BY <2>1 DEF SvcInv, PoolSound
  <2> QED BY <2>2, FS_Singleton
<1>2. LegsExhausted
  <2> SUFFICES ASSUME NEW c \in SvcCallers, scall[c].pc = "failed"
               PROVE  scall[c].ran = CASE scall[c].strategy = "local_only" -> {"local"}
                                       [] scall[c].strategy = "remote_only" -> {"remote"}
                                       [] OTHER -> {"local", "remote"}
    BY DEF LegsExhausted
  <2>1. \/ scall[c].strategy = "local_only" /\ scall[c].ran = {"local"}
        \/ scall[c].strategy = "remote_only" /\ scall[c].ran = {"remote"}
        \/ scall[c].strategy \in {"local_first", "remote_first"} /\ scall[c].ran = {"local", "remote"}
    BY DEF SvcInv, CallsSound, Way
  <2> QED BY <2>1
<1> QED BY <1>1, <1>2

-----------------------------------------------------------------------------
(* The data layer.  What a user's call may assume of its instance, and how *)
(* often each connection was closed.                                       *)

\* The call of user u is record q.
CallOK(u, q) ==
  /\ q.pc \in {"start", "connect"} => q.tx = "none" /\ q.result = "none" /\ ~inst[u].made
  /\ q.pc \notin {"start", "connect", "none"} => q.on \in Users /\ inst[q.on].made
  /\ q.pc = "close" => inst[q.on].closed
  /\ q.pc \in {"node", "slave", "begin"} => q.tx = "none" /\ q.result = "none" /\ q.reports = 0
  /\ q.pc = "fn" => q.result = "none" /\ q.reports = 0
  /\ q.pc = "health" => q.tx = "none" /\ q.result = "none"
  /\ q.pc = "ready" =>
       /\ q.tx = "open" => q.result = "panic"
       /\ q.result = "ok" => q.tx = "committed"
       /\ q.result \in {"ok", "error"} => q.reports = 1
  /\ q.result = "nil" => q.on \in Users /\ inst[q.on].closed

\* An instance loses its connections by being closed, and is not closed before it is made.
InstSound ==
  /\ shared # NoUser => inst[shared].made
  /\ \A d \in Users : /\ inst[d].made /\ ~inst[d].conn => inst[d].closed
                      /\ inst[d].closed => inst[d].made

\* A connection of d to s that is open was never closed, and none of d is closed before d.
LinkSound(d, s) ==
  /\ <<d, s>> \in links.open =>
       /\ links.closed[d][s] = 0
       /\ \/ inst[d].made /\ (~inst[d].closed \/ inst[d].lock)
          \/ inst[d].failed
          \/ s \notin Recognised
  /\ ~inst[d].closed => links.closed[d][s] = 0
  /\ links.closed[d][s] <= 1

LInv ==
  /\ LTypeOK /\ InstSound
  /\ \A u \in Users : CallOK(u, user[u])
  /\ \A d \in Users, s \in Services : LinkSound(d, s)

\* Nothing is open at the start.
LEMMA LayerInit == LInit => LInv
<1> SUFFICES ASSUME LInit PROVE LInv
  OBVIOUS
<1>1. LTypeOK
  <2>1. lset.faults \in Nat
    BY LayerAssumption DEF LInit, LSetupType
  <2>2. inst \in [Users -> InstType] /\ user \in [Users -> UserType]
    BY DEF LInit, InstType, UserType
  <2>3. links \in [open : SUBSET (Users \X Services), closed : [Users -> [Services -> Nat]]]
    BY DEF LInit
  <2> QED BY <2>1, <2>2, <2>3 DEF LInit, LTypeOK
<1>2. InstSound
  BY DEF LInit, InstSound
<1>3. \A u \in Users : CallOK(u, user[u])
  BY DEF LInit, CallOK
<1>4. \A d \in Users, s \in Services : LinkSound(d, s)
  BY DEF LInit, LinkSound
<1> QED BY <1>1, <1>2, <1>3, <1>4 DEF LInv

\* A step of one user's call that leaves the instances and their connections alone.
LEMMA UserMoves ==
  ASSUME LInv, NEW u \in Users, NEW q \in UserType, CallOK(u, q),
         user' = [user EXCEPT ![u] = q], lfaults' \in 0..lset.faults,
         UNCHANGED <<lset, shared, inst, links>>
  PROVE  LInv'
<1>1. /\ user \in [Users -> UserType] /\ \A v \in Users : CallOK(v, user[v])
      /\ inst \in [Users -> InstType]
      /\ links \in [open : SUBSET (Users \X Services), closed : [Users -> [Services -> Nat]]]
      /\ shared \in Users \cup {NoUser} /\ lset \in LSetups
  BY DEF LInv, LTypeOK
<1>2. LTypeOK'
  BY <1>1 DEF LTypeOK
<1>3. InstSound'
  BY DEF LInv, InstSound
<1>4. ASSUME NEW v \in Users PROVE CallOK(v, user[v])'
  <2>1. CASE v = u
    <3>1. user'[v] = q
      BY <1>1, <2>1
    <3> QED BY <2>1, <3>1 DEF CallOK
  <2>2. CASE v # u
    <3>1. user'[v] = user[v] /\ CallOK(v, user[v])
      BY <1>1, <2>2
    <3> QED BY <3>1 DEF CallOK
  <2> QED BY <2>1, <2>2
<1>5. \A d \in Users, s \in Services : LinkSound(d, s)'
  BY DEF LInv, LinkSound
<1> QED BY <1>2, <1>3, <1>4, <1>5 DEF LInv

\* New, transactions and health checks.
LEMMA UserStep ==
  ASSUME LInv, NEW u \in Users,
         \/ New(u) \/ WithTx(u) \/ WithTxRead(u) \/ GetMasterDB(u) \/ GetSlaveDB(u)
         \/ TxBegin(u) \/ TxEnd(u) \/ Health(u) \/ HealthUse(u)
  PROVE  LInv'
<1> DEFINE r == user[u]
<1>0. /\ r \in UserType /\ CallOK(u, r) /\ user \in [Users -> UserType]
      /\ shared \in Users \cup {NoUser} /\ (shared # NoUser => inst[shared].made)
      /\ inst \in [Users -> InstType] /\ InstSound /\ NoUser \notin Users
  BY LayerAssumption DEF LInv, LTypeOK, InstSound
<1>1. UNCHANGED <<lset, shared, inst, links>>
  BY DEF New, WithTx, WithTxRead, TxEnter, GetMasterDB, GetSlaveDB, TxBegin, TxEnd, Health, HealthUse
<1>2. lfaults' \in 0..lset.faults
  <2>1. lfaults \in 0..lset.faults /\ lset.faults \in Nat
    BY LayerAssumption DEF LInv, LTypeOK, LSetupType
  <2>2. lfaults' = lfaults \/ LFault
    BY DEF New, WithTx, WithTxRead, TxEnter, GetMasterDB, GetSlaveDB, TxBegin, TxEnd, Health, HealthUse
  <2> QED BY <2>1, <2>2 DEF LFault
<1>3. ASSUME NEW q \in UserType, CallOK(u, q), user' = [user EXCEPT ![u] = q] PROVE LInv'
  BY <1>1, <1>2, <1>3, UserMoves
<1>4. CASE New(u)
  <2>1. r.pc = "start" /\ r.tx = "none" /\ r.result = "none" /\ ~inst[u].made
    BY <1>0, <1>4 DEF New, CallOK
  <2>2. CASE ~lset.createNew[u] /\ shared # NoUser
    <3> DEFINE q == [r EXCEPT !.pc = "ready", !.on = shared]
    <3>1. user' = [user EXCEPT ![u] = q]
      BY <1>0, <1>4, <2>2 DEF New
    <3>2. /\ q \in UserType /\ q.pc = "ready" /\ q.on = shared /\ q.tx = "none"
          /\ q.result = "none" /\ shared \in Users
      BY <1>0, <2>1, <2>2 DEF UserType
    <3> HIDE DEF q
    <3>3. CallOK(u, q)
      BY <1>0, <2>2, <3>2 DEF CallOK
    <3> QED BY <1>3, <3>1, <3>2, <3>3
  <2>3. CASE ~(~lset.createNew[u] /\ shared # NoUser)
    <3> DEFINE q == [r EXCEPT !.pc = "connect"]
    <3>1. user' = [user EXCEPT ![u] = q]
      BY <1>0, <1>4, <2>3 DEF New, Goes
    <3>2. q \in UserType /\ q.pc = "connect" /\ q.tx = "none" /\ q.result = "none"
      BY <1>0, <2>1 DEF UserType
    <3> HIDE DEF q
    <3>3. CallOK(u, q)
      BY <2>1, <3>2 DEF CallOK
    <3> QED BY <1>3, <3>1, <3>2, <3>3
  <2> QED BY <2>2, <2>3
<1>5. ASSUME WithTx(u) \/ WithTxRead(u) PROVE LInv'
  <2>1. PICK pc \in {"node", "slave"} : TxEnter(u, pc)
    BY <1>5 DEF WithTx, WithTxRead
  <2>2. r.pc = "ready" /\ r.on \in Users /\ inst[r.on].made
    BY <1>0, <2>1 DEF TxEnter, CallOK
  <2> DEFINE s == [r EXCEPT !.calls = @ + 1, !.tx = "none", !.result = "none", !.reports = 0]
             no == [s EXCEPT !.result = "error", !.reports = 1]
             go == [s EXCEPT !.pc = pc]
  <2>3. user' = [user EXCEPT ![u] = no] \/ user' = [user EXCEPT ![u] = go]
    BY <2>1 DEF TxEnter
  <2>4. r.calls + 1 \in Nat
    BY <1>0 DEF UserType
  <2>5. /\ s \in UserType /\ s.pc = "ready" /\ s.on = r.on /\ s.tx = "none" /\ s.result = "none"
        /\ s.reports = 0
    BY <1>0, <2>2, <2>4 DEF UserType
  <2> HIDE DEF s
  <2>6. /\ no \in UserType /\ no.pc = "ready" /\ no.on = r.on /\ no.tx = "none"
        /\ no.result = "error" /\ no.reports = 1
    BY <2>5 DEF UserType
  <2>7. /\ go \in UserType /\ go.pc = pc /\ go.on = r.on /\ go.tx = "none"
        /\ go.result = "none" /\ go.reports = 0
    BY <2>5 DEF UserType
  <2> HIDE DEF no, go
  <2>8. CallOK(u, no) /\ CallOK(u, go)
    BY <2>2, <2>6, <2>7 DEF CallOK
  <2> QED BY <1>3, <2>3, <2>6, <2>7, <2>8
<1>6. ASSUME NEW tx \in {"none", "committed", "aborted"}, NEW res \in {"ok", "error"},
             res = "ok" => tx = "committed", Returns(u, tx, res),
             r.pc \in {"node", "slave", "begin", "fn"}
      PROVE  LInv'
  <2> DEFINE q == [r EXCEPT !.pc = "ready", !.tx = tx, !.result = res, !.reports = @ + 1]
  <2>1. r.on \in Users /\ inst[r.on].made /\ r.reports = 0 /\ r.reports + 1 = 1
    BY <1>0, <1>6 DEF CallOK
  <2>2. user' = [user EXCEPT ![u] = q]
    BY <1>0, <1>6 DEF Returns
  <2>3. /\ q \in UserType /\ q.pc = "ready" /\ q.on = r.on /\ q.tx = tx /\ q.result = res
        /\ q.reports = 1
    <3>1. r \in UserType /\ r.reports + 1 \in Nat
      BY <1>0, <2>1
    <3> HIDE DEF r
    <3>2. /\ q \in UserType /\ q.pc = "ready" /\ q.on = r.on /\ q.tx = tx /\ q.result = res
          /\ q.reports = r.reports + 1
      BY <3>1 DEF UserType
    <3> QED BY <2>1, <3>2
  <2> HIDE DEF q
  <2>4. CallOK(u, q)
    BY <1>6, <2>1, <2>3 DEF CallOK
  <2> QED BY <1>3, <2>2, <2>3, <2>4
<1>7. ASSUME NEW pc \in {"begin", "fn"}, NEW tx \in {"none", "open"}, pc = "begin" => tx = "none",
             user' = [user EXCEPT ![u].pc = pc, ![u].tx = tx],
             r.pc \in {"node", "slave", "begin"}
      PROVE  LInv'
  <2> DEFINE q == [r EXCEPT !.pc = pc, !.tx = tx]
  <2>1. r.on \in Users /\ inst[r.on].made /\ r.reports = 0 /\ r.result = "none"
    BY <1>0, <1>7 DEF CallOK
  <2>2. user' = [user EXCEPT ![u] = q]
    BY <1>0, <1>7
  <2>3. /\ q \in UserType /\ q.pc = pc /\ q.on = r.on /\ q.tx = tx /\ q.result = r.result
        /\ q.reports = r.reports
    BY <1>0 DEF UserType
  <2> HIDE DEF q
  <2>4. CallOK(u, q)
    BY <1>7, <2>1, <2>3 DEF CallOK
  <2> QED BY <1>3, <2>2, <2>3, <2>4
<1>8. ASSUME Goes(u, "begin"), r.pc \in {"node", "slave"} PROVE LInv'
  <2>1. r.tx = "none"
    BY <1>0, <1>8 DEF CallOK
  <2>2. user' = [user EXCEPT ![u].pc = "begin", ![u].tx = "none"]
    BY <1>0, <1>8, <2>1 DEF Goes, UserType
  <2> QED BY <1>7, <1>8, <2>2
<1>9. ASSUME GetMasterDB(u) \/ GetSlaveDB(u) PROVE LInv'
  BY <1>6, <1>8, <1>9 DEF GetMasterDB, GetSlaveDB
<1>10. CASE TxBegin(u)
  BY <1>6, <1>7, <1>10 DEF TxBegin
<1>11. CASE TxEnd(u)
  <2>1. CASE user' = [user EXCEPT ![u].pc = "ready", ![u].result = "panic"]
    <3> DEFINE q == [r EXCEPT !.pc = "ready", !.result = "panic"]
    <3>1. user' = [user EXCEPT ![u] = q]
      BY <1>0, <2>1
    <3>2. q \in UserType /\ q.pc = "ready" /\ q.on = r.on /\ q.result = "panic"
      BY <1>0 DEF UserType
    <3>3. r.pc = "fn" /\ r.on \in Users /\ inst[r.on].made
      BY <1>0, <1>11 DEF TxEnd, CallOK
    <3> HIDE DEF q
    <3>4. CallOK(u, q)
      BY <3>2, <3>3 DEF CallOK
    <3> QED BY <1>3, <3>1, <3>2, <3>4
  <2>2. r.pc = "fn"
    BY <1>11 DEF TxEnd
  <2>3. CASE \/ Returns(u, "committed", "ok") \/ Returns(u, "aborted", "error")
             \/ \E tx \in {"committed", "aborted"} : Returns(u, tx, "error")
    BY <1>6, <2>2, <2>3
  <2> QED BY <1>11, <2>1, <2>3 DEF TxEnd
<1>12. CASE Health(u)
  <2> DEFINE pc == IF Mine(u).conn /\ lset.services # {} THEN "health" ELSE "ready"
  <2>1. /\ user' = [user EXCEPT ![u].pc = pc, ![u].calls = @ + 1, ![u].tx = "none",
                                ![u].result = "none"]
        /\ pc \in {"health", "ready"}
    BY <1>12 DEF Health
  <2> HIDE DEF pc
  <2> DEFINE q == [r EXCEPT !.pc = pc, !.calls = @ + 1, !.tx = "none", !.result = "none"]
  <2>2. r.calls + 1 \in Nat /\ r.on \in Users /\ inst[r.on].made
    <3>1. r.calls \in Nat
      BY <1>0 DEF UserType
    <3>2. r.pc = "ready"
      BY <1>12 DEF Health
    <3> QED BY <1>0, <3>1, <3>2 DEF CallOK
  <2>3. user' = [user EXCEPT ![u] = q]
    BY <1>0, <2>1
  <2>4. q \in UserType /\ q.pc = pc /\ q.on = r.on /\ q.tx = "none" /\ q.result = "none"
    BY <1>0, <2>1, <2>2 DEF UserType
  <2> HIDE DEF q
  <2>5. CallOK(u, q)
    BY <2>1, <2>2, <2>4 DEF CallOK
  <2> QED BY <1>3, <2>3, <2>4, <2>5
<1>13. CASE HealthUse(u)
  <2>1. /\ r.pc = "health" /\ r.on \in Users /\ inst[r.on].made /\ r.tx = "none"
        /\ r.result = "none"
    BY <1>0, <1>13 DEF HealthUse, CallOK
  <2>2. CASE Mine(u).conn
    <3> DEFINE q == [r EXCEPT !.pc = "ready"]
    <3>1. user' = [user EXCEPT ![u] = q]
      BY <1>0, <1>13, <2>2 DEF HealthUse, Goes
    <3>2. q \in UserType /\ q.pc = "ready" /\ q.on = r.on /\ q.tx = "none" /\ q.result = "none"
      BY <1>0, <2>1 DEF UserType
    <3> HIDE DEF q
    <3>3. CallOK(u, q)
      BY <2>1, <3>2 DEF CallOK
    <3> QED BY <1>3, <3>1, <3>2, <3>3
  <2>3. CASE ~Mine(u).conn
    <3> DEFINE q == [r EXCEPT !.pc = "ready", !.result = "nil"]
    <3>1. user' = [user EXCEPT ![u] = q]
      BY <1>0, <1>13, <2>3 DEF HealthUse
    <3>2. q \in UserType /\ q.pc = "ready" /\ q.on = r.on /\ q.tx = "none" /\ q.result = "nil"
      BY <1>0, <2>1 DEF UserType
    <3>3. inst[r.on].closed
      BY <1>0, <2>1, <2>3 DEF Mine, InstSound
    <3> HIDE DEF q
    <3>4. CallOK(u, q)
      BY <2>1, <3>2, <3>3 DEF CallOK
    <3> QED BY <1>3, <3>1, <3>2, <3>4
  <2> QED BY <2>2, <2>3
<1> QED BY <1>4, <1>5, <1>9, <1>10, <1>11, <1>12, <1>13

\* New opens connections, all of those configured or those before the one that failed.
LEMMA NewStep ==
  ASSUME LInv, NEW u \in Users, NewConnections(u)
  PROVE  LInv'
<1> DEFINE LinkType == [open : SUBSET (Users \X Services), closed : [Users -> [Services -> Nat]]]
           r == user[u]
<1>0. /\ r \in UserType /\ CallOK(u, r) /\ user \in [Users -> UserType] /\ InstSound
      /\ shared \in Users \cup {NoUser} /\ inst \in [Users -> InstType] /\ links \in LinkType
      /\ lset \in LSetups /\ lset.services \subseteq Services /\ NoUser \notin Users
      /\ \A d \in Users, s \in Services : LinkSound(d, s)
      /\ \A v \in Users : CallOK(v, user[v])
  BY LayerAssumption DEF LInv, LTypeOK, LSetupType
<1>1. r.pc = "connect" /\ ~inst[u].made /\ ~inst[u].closed /\ r.tx = "none" /\ r.result = "none"
  BY <1>0 DEF NewConnections, CallOK, InstSound
<1>2. lfaults' \in 0..lset.faults /\ lset' = lset
  <2>1. lfaults \in 0..lset.faults /\ lset.faults \in Nat
    BY LayerAssumption DEF LInv, LTypeOK, LSetupType
  <2>2. (lfaults' = lfaults \/ LFault) /\ lset' = lset
    BY DEF NewConnections
  <2> QED BY <2>1, <2>2 DEF LFault
<1>3. PICK S \in SUBSET Services, ok \in BOOLEAN :
        /\ links' = [links EXCEPT !.open = @ \cup ({u} \X S)]
        /\ inst' = IF ok THEN [inst EXCEPT ![u].conn = TRUE, ![u].made = TRUE]
                   ELSE [inst EXCEPT ![u].failed = TRUE]
        /\ user' = IF ok THEN [user EXCEPT ![u].pc = "ready", ![u].on = u]
                   ELSE [user EXCEPT ![u].pc = "none"]
        /\ shared' = shared \/ (ok /\ shared' = u)
  <2>1. CASE \E lost \in SUBSET (Optional \cap lset.services) :
               /\ links' = [links EXCEPT !.open = @ \cup ({u} \X (lset.services \ lost))]
               /\ inst' = [inst EXCEPT ![u].conn = TRUE, ![u].made = TRUE]
               /\ shared' = IF lset.createNew[u] THEN shared ELSE u
               /\ user' = [user EXCEPT ![u].pc = "ready", ![u].on = u]
    <3>1. PICK lost :
               /\ links' = [links EXCEPT !.open = @ \cup ({u} \X (lset.services \ lost))]
               /\ inst' = [inst EXCEPT ![u].conn = TRUE, ![u].made = TRUE]
               /\ shared' = IF lset.createNew[u] THEN shared ELSE u
               /\ user' = [user EXCEPT ![u].pc = "ready", ![u].on = u]
      BY <2>1
    <3>2. lset.services \ lost \in SUBSET Services
      BY <1>0
    <3>3. shared' = shared \/ shared' = u
      BY <3>1
    <3> QED BY <3>1, <3>2, <3>3
  <2>2. CASE \E s \in lset.services \ Optional :
               /\ links' = [links EXCEPT !.open = @ \cup ({u} \X OpenBefore(s))]
               /\ inst' = [inst EXCEPT ![u].failed = TRUE]
               /\ Goes(u, "none") /\ UNCHANGED shared
    <3>1. PICK s :
               /\ links' = [links EXCEPT !.open = @ \cup ({u} \X OpenBefore(s))]
               /\ inst' = [inst EXCEPT ![u].failed = TRUE]
               /\ user' = [user EXCEPT ![u].pc = "none"] /\ shared' = shared
      BY <2>2 DEF Goes
    <3>2. OpenBefore(s) \in SUBSET Services
      BY <1>0 DEF OpenBefore
    <3> QED BY <3>1, <3>2
  <2> QED BY <2>1, <2>2 DEF NewConnections
<1> DEFINE i == IF ok THEN [inst[u] EXCEPT !.conn = TRUE, !.made = TRUE]
                ELSE [inst[u] EXCEPT !.failed = TRUE]
           q == IF ok THEN [r EXCEPT !.pc = "ready", !.on = u] ELSE [r EXCEPT !.pc = "none"]
<1>4. /\ i \in InstType /\ i.closed = inst[u].closed /\ i.lock = inst[u].lock
      /\ IF ok THEN i.made /\ i.conn /\ i.failed = inst[u].failed
         ELSE i.failed /\ i.made = inst[u].made /\ i.conn = inst[u].conn
  <2>1. inst[u] \in InstType
    BY <1>0
  <2> QED BY <2>1 DEF InstType
<1>5. /\ q \in UserType /\ q.tx = "none" /\ q.result = "none"
      /\ IF ok THEN q.pc = "ready" /\ q.on = u ELSE q.pc = "none"
  BY <1>0, <1>1 DEF UserType
<1>6. inst' = [inst EXCEPT ![u] = i] /\ user' = [user EXCEPT ![u] = q]
  BY <1>0, <1>3
<1> HIDE DEF i, q, r
<1>7. /\ inst' \in [Users -> InstType] /\ user' \in [Users -> UserType]
      /\ \A d \in Users : /\ inst'[d] = IF d = u THEN i ELSE inst[d]
                          /\ user'[d] = IF d = u THEN q ELSE user[d]
  BY <1>0, <1>4, <1>5, <1>6
<1>8. /\ links' \in LinkType /\ links'.closed = links.closed
      /\ \A d \in Users, s \in Services :
           <<d, s>> \in links'.open => <<d, s>> \in links.open \/ d = u
  <2> DEFINE more == links.open \cup ({u} \X S)
  <2>1. more \in SUBSET (Users \X Services)
    BY <1>0
  <2>2. links' = [links EXCEPT !.open = more]
    BY <1>3
  <2>3. \A d, s : <<d, s>> \in more => <<d, s>> \in links.open \/ d = u
    OBVIOUS
  <2> HIDE DEF more
  <2> QED BY <1>0, <2>1, <2>2, <2>3
<1>9. LTypeOK'
  <2>1. shared' \in Users \cup {NoUser}
    BY <1>0, <1>3
  <2> QED BY <1>0, <1>2, <1>7, <1>8, <2>1 DEF LTypeOK
<1>10. \A d \in Users : /\ inst'[d].closed = inst[d].closed /\ inst'[d].lock = inst[d].lock
                        /\ inst[d].made => inst'[d].made
                        /\ inst[d].failed => inst'[d].failed
  BY <1>1, <1>4, <1>7
<1>11. InstSound'
  <2>1. shared' # NoUser => inst'[shared'].made
    <3>1. CASE shared' = u /\ ok
      BY <1>4, <1>7, <3>1
    <3>2. CASE shared' = shared /\ shared # NoUser
      BY <1>0, <1>10, <3>2 DEF InstSound
    <3> QED BY <1>3, <3>1, <3>2
  <2>2. ASSUME NEW d \in Users
        PROVE  /\ inst'[d].made /\ ~inst'[d].conn => inst'[d].closed
               /\ inst'[d].closed => inst'[d].made
    BY <1>0, <1>1, <1>4, <1>7 DEF InstSound
  <2> QED BY <2>1, <2>2 DEF InstSound
<1>12. ASSUME NEW v \in Users PROVE CallOK(v, user[v])'
  <2>1. CASE v = u
    <3>1. user'[v] = q /\ inst'[u] = i
      BY <1>7, <2>1
    <3> QED BY <1>4, <1>5, <2>1, <3>1 DEF CallOK
  <2>2. CASE v # u
    <3>1. user'[v] = user[v] /\ inst'[v] = inst[v] /\ CallOK(v, user[v])
      BY <1>0, <1>7, <2>2
    <3>2. user[v].on \in Users => /\ inst'[user[v].on].closed = inst[user[v].on].closed
                                  /\ inst[user[v].on].made => inst'[user[v].on].made
      BY <1>10
    <3> QED BY <3>1, <3>2 DEF CallOK
  <2> QED BY <2>1, <2>2
<1>13. ASSUME NEW d \in Users, NEW s \in Services PROVE LinkSound(d, s)'
  <2>1. LinkSound(d, s)
    BY <1>0
  <2>2. CASE d = u
    <3>1. links.closed[d][s] = 0 /\ ~inst'[d].closed /\ (inst'[d].made \/ inst'[d].failed)
      BY <1>1, <1>4, <1>7, <2>1, <2>2 DEF LinkSound
    <3> QED BY <1>8, <3>1 DEF LinkSound
  <2>3. CASE d # u
    <3>1. <<d, s>> \in links'.open => <<d, s>> \in links.open
      BY <1>8, <2>3
    <3> QED BY <1>7, <1>8, <2>1, <2>3, <3>1 DEF LinkSound
  <2> QED BY <2>2, <2>3
<1> QED BY <1>9, <1>11, <1>12, <1>13 DEF LInv

\* The cleanup function: Close under the lock, then the connections.
LEMMA CloseStep ==
  ASSUME LInv, NEW u \in Users, CloseData(u) \/ CloseConnections(u)
  PROVE  LInv'
<1> DEFINE LinkType == [open : SUBSET (Users \X Services), closed : [Users -> [Services -> Nat]]]
           r == user[u]
           e == r.on
<1>0. /\ r \in UserType /\ CallOK(u, r) /\ user \in [Users -> UserType] /\ InstSound
      /\ shared \in Users \cup {NoUser} /\ inst \in [Users -> InstType] /\ links \in LinkType
      /\ lset \in LSetups /\ lfaults \in 0..lset.faults /\ NoUser \notin Users
      /\ \A d \in Users, s \in Services : LinkSound(d, s)
      /\ \A v \in Users : CallOK(v, user[v])
  BY LayerAssumption DEF LInv, LTypeOK
<1>1. e \in Users /\ inst[e].made /\ inst[e] \in InstType
  BY <1>0 DEF CloseData, CloseConnections, CallOK
<1>2. lset' = lset /\ shared' = shared /\ lfaults' = lfaults
  BY DEF CloseData, CloseConnections
<1>3. ASSUME NEW i \in InstType, i.made, i.closed, NEW q \in UserType, CallOK(u, r),
             q.pc \in {"none", "close"}, q.on = r.on, q.result = r.result,
             inst' = [inst EXCEPT ![e] = i], user' = [user EXCEPT ![u] = q], links' \in LinkType
      PROVE  LTypeOK' /\ InstSound' /\ \A v \in Users : CallOK(v, user[v])'
  <2> HIDE DEF e, r
  <2>1. /\ inst' \in [Users -> InstType] /\ user' \in [Users -> UserType]
        /\ \A d \in Users : /\ inst'[d] = IF d = e THEN i ELSE inst[d]
                            /\ user'[d] = IF d = u THEN q ELSE user[d]
    BY <1>0, <1>1, <1>3
  <2>2. LTypeOK'
    BY <1>0, <1>2, <1>3, <2>1 DEF LTypeOK
  <2>3. \A d \in Users : /\ inst[d].closed => inst'[d].closed
                         /\ inst'[d].made = inst[d].made
    <3>1. i.made = inst[e].made
      BY <1>1, <1>3 DEF InstType
    <3> QED BY <1>3, <2>1, <3>1
  <2>4. InstSound'
    <3>1. shared' # NoUser => inst'[shared'].made
      BY <1>0, <1>2, <2>3 DEF InstSound
    <3>2. ASSUME NEW d \in Users
          PROVE  /\ inst'[d].made /\ ~inst'[d].conn => inst'[d].closed
                 /\ inst'[d].closed => inst'[d].made
      BY <1>0, <1>3, <2>1 DEF InstSound
    <3> QED BY <3>1, <3>2 DEF InstSound
  <2>5. ASSUME NEW v \in Users PROVE CallOK(v, user[v])'
    <3>1. CASE v = u
      <4>1. user'[v] = q /\ inst'[e] = i /\ q.on = e
        BY <1>1, <1>3, <2>1, <3>1 DEF e
      <4> QED BY <1>1, <1>3, <3>1, <4>1 DEF CallOK
    <3>2. CASE v # u
      <4>1. user'[v] = user[v] /\ CallOK(v, user[v]) /\ inst'[v].made = inst[v].made
        BY <1>0, <2>1, <2>3, <3>2
      <4>2. user[v].on \in Users => /\ inst[user[v].on].closed => inst'[user[v].on].closed
                                    /\ inst'[user[v].on].made = inst[user[v].on].made
        BY <2>3
      <4> QED BY <4>1, <4>2 DEF CallOK
    <3> QED BY <3>1, <3>2
  <2> QED BY <2>2, <2>4, <2>5
<1>4. CASE CloseData(u) /\ Mine(u).closed
  <2> DEFINE q == [r EXCEPT !.pc = "none"]
  <2>1. user' = [user EXCEPT ![u] = q] /\ inst' = inst /\ links' = links
    BY <1>0, <1>4 DEF CloseData, Goes
  <2>2. q \in UserType /\ q.pc = "none" /\ q.on = r.on /\ q.result = r.result
    BY <1>0 DEF UserType
  <2> HIDE DEF q
  <2>3. CallOK(u, q)
    BY <1>0, <2>2 DEF CallOK
  <2> QED BY <1>2, <2>1, <2>2, <2>3, <1>0, UserMoves
<1>5. CASE CloseData(u) /\ ~Mine(u).closed
  <2> DEFINE q == [r EXCEPT !.pc = "close"]
             i == [inst[e] EXCEPT !.closed = TRUE, !.lock = TRUE]
  <2>1. user' = [user EXCEPT ![u] = q] /\ inst' = [inst EXCEPT ![e] = i] /\ links' = links
    BY <1>0, <1>1, <1>5 DEF CloseData, Goes
  <2>2. q \in UserType /\ q.pc = "close" /\ q.on = r.on /\ q.result = r.result
    BY <1>0 DEF UserType
  <2>3. i \in InstType /\ i.made /\ i.closed /\ i.lock /\ i.failed = inst[e].failed
    BY <1>1 DEF InstType
  <2> HIDE DEF q, i, e, r
  <2>4. LTypeOK' /\ InstSound' /\ \A v \in Users : CallOK(v, user[v])'
    BY <1>0, <1>3, <2>1, <2>2, <2>3
  <2>5. ASSUME NEW d \in Users, NEW s \in Services PROVE LinkSound(d, s)'
    <3>1. LinkSound(d, s) /\ inst'[d] = IF d = e THEN i ELSE inst[d]
      BY <1>0, <1>1, <2>1
    <3> QED BY <1>1, <2>1, <2>3, <3>1 DEF LinkSound
  <2> QED BY <2>4, <2>5 DEF LInv
<1>6. CASE CloseConnections(u)
  <2> DEFINE q == [r EXCEPT !.pc = "none"]
             i == [inst[e] EXCEPT !.conn = FALSE, !.lock = FALSE]
             gone == {e} \X Recognised
             row == [s \in Services |->
                       links.closed[e][s] + (IF <<e, s>> \in links.open \cap gone THEN 1 ELSE 0)]
  <2>0. inst[e].closed
    BY <1>0, <1>6 DEF CloseConnections, CallOK
  <2>1. user' = [user EXCEPT ![u] = q] /\ inst' = [inst EXCEPT ![e] = i]
    BY <1>0, <1>1, <1>6 DEF CloseConnections, Goes
  <2>2. q \in UserType /\ q.pc = "none" /\ q.on = r.on /\ q.result = r.result
    BY <1>0 DEF UserType
  <2>3. i \in InstType /\ i.made /\ i.closed /\ i.failed = inst[e].failed
    BY <1>1, <2>0 DEF InstType
  <2>4. links' = [open |-> links.open \ gone, closed |-> [links.closed EXCEPT ![e] = row]]
    BY <1>6 DEF CloseConnections
  <2>5. row \in [Services -> Nat]
    BY <1>0, <1>1
  <2>6. \A s \in Services : row[s] = links.closed[e][s] + (IF <<e, s>> \in links.open \cap gone THEN 1 ELSE 0)
    OBVIOUS
  <2>7. \A d, s : <<d, s>> \in links.open \ gone <=>
                    <<d, s>> \in links.open /\ (d = e => s \notin Recognised)
    OBVIOUS
  <2> HIDE DEF q, i, row
  <2>8. links' \in LinkType
    BY <1>0, <1>1, <2>4, <2>5
  <2>9. LTypeOK' /\ InstSound' /\ \A v \in Users : CallOK(v, user[v])'
    BY <1>0, <1>3, <2>1, <2>2, <2>3, <2>8
  <2>10. ASSUME NEW d \in Users, NEW s \in Services PROVE LinkSound(d, s)'
    <3>1. LinkSound(d, s) /\ inst'[d] = IF d = e THEN i ELSE inst[d]
      BY <1>0, <1>1, <2>1
    <3>2. links'.open = links.open \ gone /\ links'.closed[d] = IF d = e THEN row ELSE links.closed[d]
      BY <1>0, <1>1, <2>4
    <3>3. <<d, s>> \in links'.open <=> <<d, s>> \in links.open /\ (d = e => s \notin Recognised)
      BY <2>7, <3>2
    <3> HIDE DEF e, r, gone
    <3>4. CASE d = e
      <4>1. links'.closed[d][s] = links.closed[d][s]
              + (IF <<d, s>> \in links.open /\ s \in Recognised THEN 1 ELSE 0)
        BY <2>6, <3>2, <3>4 DEF gone
      <4>2. links.closed[d][s] \in Nat /\ i.closed
        BY <1>0, <2>3
      <4> QED BY <2>3, <3>1, <3>3, <3>4, <4>1, <4>2 DEF LinkSound
    <3>5. CASE d # e
      BY <3>1, <3>2, <3>3, <3>5 DEF LinkSound
    <3> QED BY <3>4, <3>5
  <2> QED BY <2>9, <2>10 DEF LInv
<1> QED BY <1>4, <1>5, <1>6

\* Every step of the data layer preserves its invariant.
LEMMA LayerStep == LInv /\ [LNext]_lvars => LInv'
<1> SUFFICES ASSUME LInv, [LNext]_lvars PROVE LInv'
  OBVIOUS
<1>1. CASE UNCHANGED lvars
  BY <1>1 DEF lvars, LInv, LTypeOK, InstSound, CallOK, LinkSound
<1> QED BY <1>1, UserStep, NewStep, CloseStep DEF LNext

\* What it says of transactions, connections and health checks.
LEMMA LayerGoal == LInv => LayerSound
<1> SUFFICES ASSUME LInv PROVE LayerSound
  OBVIOUS
<1>1. LTypeOK /\ TxSettled
  BY DEF LInv, TxSettled, CallOK
<1>2. LinksAccounted
  <2>1. ASSUME NEW l \in links.open
        PROVE  \/ inst[l[1]].made /\ (~inst[l[1]].closed \/ inst[l[1]].lock)
               \/ inst[l[1]].failed
               \/ l[2] \notin Recognised
    <3>1. l \in Users \X Services
      BY DEF LInv, LTypeOK
    <3>2. l[1] \in Users /\ l[2] \in Services /\ <<l[1], l[2]>> = l
      BY <3>1
    <3> QED BY <3>2 DEF LInv, LinkSound
  <2>2. \A v \in Users, s \in Services : links.closed[v][s] <= 1
    BY DEF LInv, LinkSound
  <2> QED BY <2>1, <2>2 DEF LinksAccounted
<1>3. NilNeedsClose
  BY DEF LInv, CallOK, NilNeedsClose, Mine
<1> QED BY <1>1, <1>2, <1>3 DEF LayerSound

-----------------------------------------------------------------------------
(* The data collector.  Each step moves metrics from one place to another; *)
(* that they stay apart is a fact about sets, stated once for each move.   *)

Metrics == Reporters \X (1..MaxReports)
RepType == [n : 0..MaxReports, hand : Batches, pc : {"idle", "error", "record", "flush", "store"}]
CloserType == [pc : {"no", "store", "drop", "closed"}, hand : Batches]
Hands == [r \in Reporters |-> InHand(r)]
Flushers == {r \in Reporters : rep[r].pc = "flush"}

\* B, K, D, C and the H[r] hold R between them, each metric in one place.
Apart(B, K, D, C, H, R) ==
  /\ \A x : x \in R <=> x \in B \/ x \in K \/ x \in D \/ x \in C \/ \E r \in Reporters : x \in H[r]
  /\ \A x : /\ x \in B => x \notin K /\ x \notin D /\ x \notin C
            /\ x \in K => x \notin D /\ x \notin C
            /\ x \in D => x \notin C
  /\ \A r \in Reporters : \A x \in H[r] :
       /\ x \notin B /\ x \notin K /\ x \notin D /\ x \notin C
       /\ \A q \in Reporters : q # r => x \notin H[q]

ColInv ==
  /\ ColTypeOK
  /\ buffer \in Batches
  /\ storage \in [kept : SUBSET Metrics, dropped : SUBSET Metrics]
  /\ \A r \in Reporters : /\ rep[r].pc # "store" => rep[r].hand = <<>>
                          /\ rep[r].pc \in {"error", "record"} => rep[r].n >= 1
  /\ closer.pc # "store" => closer.hand = <<>>
  /\ Apart(Range(buffer), storage.kept, storage.dropped, Range(closer.hand), Hands, Recorded)
  /\ Len(buffer) < BatchSize + Cardinality(Flushers)

\* A batch of none, and one with a metric more.
LEMMA BatchRange ==
  /\ <<>> \in Batches /\ Range(<<>>) = {}
  /\ \A s \in Batches : Range(s) \in SUBSET Metrics /\ Len(s) \in Nat
  /\ \A s \in Batches, x \in Metrics :
       /\ Append(s, x) \in Batches /\ Len(Append(s, x)) = Len(s) + 1
       /\ Range(Append(s, x)) = Range(s) \cup {x}
<1>1. <<>> \in Batches /\ Range(<<>>) = {}
  BY DEF Batches, Range
<1>2. \A s \in Batches : Range(s) \in SUBSET Metrics /\ Len(s) \in Nat
  BY DEF Batches, Range, Metrics
<1>3. ASSUME NEW s \in Batches, NEW x \in Metrics
      PROVE  /\ Append(s, x) \in Batches /\ Len(Append(s, x)) = Len(s) + 1
             /\ Range(Append(s, x)) = Range(s) \cup {x}
  <2>1. s \in Seq(Metrics)
    BY DEF Batches, Metrics
  <2>2. /\ Append(s, x) \in Seq(Metrics) /\ Len(Append(s, x)) = Len(s) + 1
        /\ \A i \in 1..Len(s) : Append(s, x)[i] = s[i]
        /\ Append(s, x)[Len(s) + 1] = x /\ Len(s) \in Nat
        /\ DOMAIN s = 1..Len(s) /\ DOMAIN Append(s, x) = 1..(Len(s) + 1)
    BY <2>1
  <2>3. Append(s, x) \in Batches
    BY <2>2 DEF Batches, Metrics
  <2> DEFINE a == Append(s, x)
  <2> HIDE DEF a
  <2>4. Range(a) = Range(s) \cup {x}
    <3>1. ASSUME NEW i \in 1..(Len(s) + 1) PROVE a[i] \in Range(s) \cup {x}
      <4>1. CASE i = Len(s) + 1
        BY <2>2, <4>1 DEF a
      <4>2. CASE i \in 1..Len(s)
        BY <2>2, <4>2 DEF a, Range
      <4> QED BY <2>2, <4>1, <4>2
    <3>2. ASSUME NEW y \in Range(s) \cup {x} PROVE \E i \in 1..(Len(s) + 1) : a[i] = y
      <4>1. CASE y = x
        BY <2>2, <4>1 DEF a
      <4>2. CASE y \in Range(s)
        <5>1. PICK i \in 1..Len(s) : s[i] = y
          BY <2>2, <4>2 DEF Range
        <5>2. i \in 1..(Len(s) + 1) /\ a[i] = y
          BY <2>2, <5>1 DEF a
        <5> QED BY <5>2
      <4> QED BY <4>1, <4>2
    <3>3. DOMAIN a = 1..(Len(s) + 1)
      BY <2>2 DEF a
    <3> QED BY <3>1, <3>2, <3>3 DEF Range
  <2> QED BY <2>2, <2>3, <2>4 DEF a
<1> QED BY <1>1, <1>2, <1>3

\* The moves that leave the reporters' hands alone.
LEMMA ApartMoves ==
  ASSUME NEW B, NEW K, NEW D, NEW C, NEW H, NEW R, Apart(B, K, D, C, H, R)
  PROVE  /\ \A x : x \notin R => Apart(B \cup {x}, K, D, C, H, R \cup {x})
         /\ C = {} => Apart({}, K, D, B, H, R)
         /\ Apart(B, K \cup C, D, {}, H, R)
         /\ Apart(B, {}, D \cup K, C, H, R)
<1>1. ASSUME NEW x, x \notin R PROVE Apart(B \cup {x}, K, D, C, H, R \cup {x})
  BY <1>1 DEF Apart
<1>2. ASSUME C = {} PROVE Apart({}, K, D, B, H, R)
  BY <1>2 DEF Apart
<1>3. Apart(B, K \cup C, D, {}, H, R)
  BY DEF Apart
<1>4. Apart(B, {}, D \cup K, C, H, R)
  BY DEF Apart
<1> QED BY <1>1, <1>2, <1>3, <1>4

\* The two moves between the hand of a reporter and elsewhere.
LEMMA ApartHands ==
  ASSUME NEW B, NEW K, NEW D, NEW C, NEW H, NEW R, Apart(B, K, D, C, H, R),
         NEW r \in Reporters, NEW G
  PROVE  /\ H[r] = {} /\ G[r] = B /\ (\A q \in Reporters : q # r => G[q] = H[q])
              => Apart({}, K, D, C, G, R)
         /\ G[r] = {} /\ (\A q \in Reporters : q # r => G[q] = H[q])
              => Apart(B, K \cup H[r], D, C, G, R)
         /\ (\A q \in Reporters : G[q] = H[q]) => Apart(B, K, D, C, G, R)
<1>1. ASSUME H[r] = {}, G[r] = B, \A q \in Reporters : q # r => G[q] = H[q]
      PROVE  Apart({}, K, D, C, G, R)
  <2>1. \A q \in Reporters : G[q] = IF q = r THEN B ELSE H[q]
    BY <1>1
  <2>2. \A x : (\E q \in Reporters : x \in G[q]) <=> x \in B \/ \E q \in Reporters : x \in H[q]
    BY <1>1, <2>1
  <2> QED BY <1>1, <2>1, <2>2 DEF Apart
<1>2. ASSUME G[r] = {}, \A q \in Reporters : q # r => G[q] = H[q]
      PROVE  Apart(B, K \cup H[r], D, C, G, R)
  <2>1. \A q \in Reporters : G[q] = IF q = r THEN {} ELSE H[q]
    BY <1>2
  <2>2. \A x : (\E q \in Reporters : x \in H[q]) <=> x \in H[r] \/ \E q \in Reporters : x \in G[q]
    BY <2>1
  <2> QED BY <2>1, <2>2 DEF Apart
<1>3. ASSUME \A q \in Reporters : G[q] = H[q] PROVE Apart(B, K, D, C, G, R)
  BY <1>3 DEF Apart
<1> QED BY <1>1, <1>2, <1>3

\* The collector starts with no metric anywhere.
LEMMA ColStart == ColInit => ColInv
<1> SUFFICES ASSUME ColInit PROVE ColInv
  OBVIOUS
<1>1. BatchSize \in Nat \ {0} /\ MaxReports \in Nat /\ IsFiniteSet(Reporters)
  BY CollectorAssumption
<1>2. <<>> \in Batches /\ Range(<<>>) = {}
  BY BatchRange
<1>3. counts \in [queries : Nat, errors : Nat]
  BY DEF ColInit
<1>4. \A r \in Reporters : rep[r] = [n |-> 0, pc |-> "idle", hand |-> <<>>]
  BY DEF ColInit
<1>5. [n |-> 0, pc |-> "idle", hand |-> <<>>] \in RepType
  BY <1>1, <1>2 DEF RepType
<1>6. rep \in [Reporters -> RepType]
  BY <1>4, <1>5 DEF ColInit
<1>7. closer \in CloserType /\ closer.pc = "no" /\ closer.hand = <<>>
  BY <1>2 DEF ColInit, CloserType
<1>8. ColTypeOK
  BY <1>3, <1>6, <1>7 DEF ColTypeOK, RepType, CloserType
<1>9. storage \in [kept : SUBSET Metrics, dropped : SUBSET Metrics] /\ storage.kept = {} /\ storage.dropped = {}
  BY DEF ColInit
<1>10. \A x : x \notin Recorded
  <2>1. \A r \in Reporters : Past(r) = 0
    BY <1>4 DEF Past
  <2> QED BY <2>1 DEF Recorded
<1>11. \A r \in Reporters : Hands[r] = {}
  BY <1>2, <1>4 DEF Hands, InHand
<1>12. Apart(Range(buffer), storage.kept, storage.dropped, Range(closer.hand), Hands, Recorded)
  <2>1. Range(buffer) = {} /\ Range(closer.hand) = {}
    BY <1>2, <1>7 DEF ColInit
  <2> QED BY <1>9, <1>10, <1>11, <2>1 DEF Apart
<1>13. Len(buffer) < BatchSize + Cardinality(Flushers)
  <2>1. Flushers = {}
    BY <1>4 DEF Flushers
  <2>2. Cardinality(Flushers) = 0
    BY <2>1, FS_EmptySet
  <2>3. Len(buffer) = 0
    BY DEF ColInit
  <2> QED BY <1>1, <2>2, <2>3
<1>14. \A r \in Reporters : /\ rep[r].pc # "store" => rep[r].hand = <<>>
                            /\ rep[r].pc \in {"error", "record"} => rep[r].n >= 1
  BY <1>4
<1> QED BY <1>2, <1>7, <1>8, <1>9, <1>12, <1>13, <1>14 DEF ColInv, ColInit

\* What a step leaves of a reporter decides what is recorded, held and awaited.
LEMMA RepMoves ==
  ASSUME ColInv, NEW r \in Reporters, NEW v \in RepType, rep' = [rep EXCEPT ![r] = v]
  PROVE  /\ rep' \in [Reporters -> RepType] /\ rep'[r] = v
         /\ \A q \in Reporters : q # r => rep'[q] = rep[q] /\ Past(q)' = Past(q) /\ Hands'[q] = Hands[q]
         /\ Hands'[r] = Range(v.hand)
         /\ Past(r)' = v.n - (IF v.pc \in {"error", "record"} THEN 1 ELSE 0)
<1>1. rep \in [Reporters -> RepType]
  BY DEF ColInv, ColTypeOK, RepType
<1>2. rep' \in [Reporters -> RepType] /\ rep'[r] = v /\ \A q \in Reporters : q # r => rep'[q] = rep[q]
  BY <1>1
<1>3. \A q \in Reporters : Hands'[q] = Range(rep'[q].hand) /\ Hands[q] = Range(rep[q].hand)
  BY DEF Hands, InHand
<1>4. \A q \in Reporters : q # r => Past(q)' = Past(q)
  BY <1>2 DEF Past
<1>5. Past(r)' = v.n - (IF v.pc \in {"error", "record"} THEN 1 ELSE 0)
  BY <1>2 DEF Past
<1> QED BY <1>2, <1>3, <1>4, <1>5

\* A set of reporters is finite, and one with fewer members is no larger.
LEMMA FlushersFinite ==
  /\ Cardinality(Flushers) \in Nat /\ Cardinality(Flushers') \in Nat
  /\ \A r \in Reporters : Flushers' = Flushers \cup {r} /\ r \notin Flushers
        => Cardinality(Flushers') = Cardinality(Flushers) + 1
<1>1. IsFiniteSet(Reporters)
  BY CollectorAssumption
<1>2. Flushers \subseteq Reporters /\ Flushers' \subseteq Reporters
  BY DEF Flushers
<1>3. IsFiniteSet(Flushers) /\ IsFiniteSet(Flushers')
  BY <1>1, <1>2, FS_Subset
<1>4. Cardinality(Flushers) \in Nat /\ Cardinality(Flushers') \in Nat
  BY <1>3, FS_CardinalityType
<1>5. ASSUME NEW r \in Reporters, Flushers' = Flushers \cup {r}, r \notin Flushers
      PROVE  Cardinality(Flushers') = Cardinality(Flushers) + 1
  BY <1>3, <1>5, FS_AddElement
<1> QED BY <1>4, <1>5

\* The steps that leave the metrics where they are: a report counted, and its error.
LEMMA CountStep ==
  ASSUME ColInv, NEW r \in Reporters, Report(r) \/ CountError(r)
  PROVE  ColInv'
<1>1. rep \in [Reporters -> RepType] /\ rep[r] \in RepType
  BY DEF ColInv, ColTypeOK, RepType
<1>2. MaxReports \in Nat /\ rep[r].n \in 0..MaxReports
  BY <1>1, CollectorAssumption DEF RepType
<1>3. counts' \in [queries : Nat, errors : Nat]
  BY DEF ColInv, ColTypeOK, Report, CountError
<1>4. \E v \in RepType : /\ rep' = [rep EXCEPT ![r] = v]
                         /\ v.hand = rep[r].hand /\ v.pc \in {"error", "record"} /\ v.n >= 1
                         /\ v.n - 1 = Past(r)
  <2>1. CASE Report(r)
    <3>1. PICK err \in BOOLEAN :
            rep' = [rep EXCEPT ![r].n = @ + 1, ![r].pc = IF err THEN "error" ELSE "record"]
      BY <2>1 DEF Report
    <3> DEFINE v == [rep[r] EXCEPT !.n = rep[r].n + 1, !.pc = IF err THEN "error" ELSE "record"]
    <3>2. rep' = [rep EXCEPT ![r] = v]
      BY <1>1, <3>1
    <3>3. rep[r].n + 1 \in 0..MaxReports /\ rep[r].n + 1 >= 1
      BY <1>2, <2>1 DEF Report
    <3>4. v \in RepType /\ v.hand = rep[r].hand /\ v.pc \in {"error", "record"} /\ v.n = rep[r].n + 1
      BY <1>1, <3>3 DEF RepType
    <3>5. Past(r) = rep[r].n
      BY <2>1, <1>2 DEF Report, Past
    <3>6. v.n - 1 = Past(r) /\ v.n >= 1
      BY <1>2, <3>3, <3>4, <3>5
    <3> QED BY <3>2, <3>4, <3>6
  <2>2. CASE CountError(r)
    <3> DEFINE v == [rep[r] EXCEPT !.pc = "record"]
    <3>1. rep' = [rep EXCEPT ![r] = v]
      BY <1>1, <2>2 DEF CountError
    <3>2. v \in RepType /\ v.hand = rep[r].hand /\ v.pc = "record" /\ v.n = rep[r].n
      BY <1>1 DEF RepType
    <3>3. Past(r) = rep[r].n - 1 /\ rep[r].n >= 1
      BY <2>2 DEF CountError, Past, ColInv
    <3> QED BY <3>1, <3>2, <3>3
  <2> QED BY <2>1, <2>2
<1>5. PICK v \in RepType : /\ rep' = [rep EXCEPT ![r] = v]
                           /\ v.hand = rep[r].hand /\ v.pc \in {"error", "record"} /\ v.n >= 1
                           /\ v.n - 1 = Past(r)
  BY <1>4
<1>6. /\ rep' \in [Reporters -> RepType] /\ rep'[r] = v
      /\ \A q \in Reporters : q # r => rep'[q] = rep[q] /\ Past(q)' = Past(q) /\ Hands'[q] = Hands[q]
      /\ Hands'[r] = Range(v.hand)
      /\ Past(r)' = v.n - (IF v.pc \in {"error", "record"} THEN 1 ELSE 0)
  BY <1>5, RepMoves
<1>7. UNCHANGED <<buffer, storage, closer>>
  BY DEF Report, CountError
<1>8. rep[r].pc \in {"idle", "error"}
  BY DEF Report, CountError
<1>9. \A q \in Reporters : Past(q)' = Past(q) /\ Hands'[q] = Hands[q]
  BY <1>5, <1>6 DEF Hands, InHand
<1>10. Recorded' = Recorded
  BY <1>9 DEF Recorded
<1>11. Apart(Range(buffer), storage.kept, storage.dropped, Range(closer.hand), Hands', Recorded)
  BY <1>9, ApartHands DEF ColInv
<1>12. Apart(Range(buffer), storage.kept, storage.dropped, Range(closer.hand), Hands, Recorded)'
  BY <1>7, <1>10, <1>11
<1>13. Flushers' = Flushers
  BY <1>5, <1>6, <1>8 DEF Flushers
<1>14. Len(buffer)' < BatchSize + Cardinality(Flushers)'
  BY <1>7, <1>13 DEF ColInv
<1>15. \A q \in Reporters : /\ rep'[q].pc # "store" => rep'[q].hand = <<>>
                            /\ rep'[q].pc \in {"error", "record"} => rep'[q].n >= 1
  <2>1. v.hand = <<>>
    BY <1>5, <1>8 DEF ColInv
  <2> QED BY <1>5, <1>6, <2>1 DEF ColInv
<1>16. ColTypeOK'
  BY <1>3, <1>6, <1>7 DEF ColInv, ColTypeOK, RepType
<1> QED BY <1>7, <1>12, <1>14, <1>15, <1>16 DEF ColInv

\* A recorded metric is new, and goes to the buffer; who fills it will flush it.
LEMMA RecordStep ==
  ASSUME ColInv, NEW r \in Reporters, recordMetric(r)
  PROVE  ColInv'
<1> DEFINE x == <<r, rep[r].n>>
           pc == IF Len(buffer') >= BatchSize THEN "flush" ELSE "idle"
           v == [rep[r] EXCEPT !.pc = pc]
<1>1. rep \in [Reporters -> RepType] /\ rep[r] \in RepType
  BY DEF ColInv, ColTypeOK, RepType
<1>2. MaxReports \in Nat /\ BatchSize \in Nat \ {0} /\ rep[r].n \in 0..MaxReports
  BY <1>1, CollectorAssumption DEF RepType
<1>3. rep[r].n >= 1 /\ rep[r].pc = "record" /\ rep[r].hand = <<>>
  BY DEF recordMetric, ColInv
<1>4. rep[r].n \in 1..MaxReports
  BY <1>2, <1>3
<1>5. x \in Metrics
  BY <1>4 DEF Metrics
<1>6. v \in RepType /\ v.hand = rep[r].hand /\ v.pc = pc /\ v.n = rep[r].n
  BY <1>1 DEF RepType
<1>7. rep' = [rep EXCEPT ![r] = v]
  BY <1>1 DEF recordMetric
<1>8. v.pc \in {"flush", "idle"} /\ (v.pc = "flush" <=> Len(buffer') >= BatchSize)
  BY <1>6
<1> HIDE DEF v, pc
<1>9. /\ rep' \in [Reporters -> RepType] /\ rep'[r] = v
      /\ \A q \in Reporters : q # r => rep'[q] = rep[q] /\ Past(q)' = Past(q) /\ Hands'[q] = Hands[q]
      /\ Hands'[r] = Range(v.hand)
      /\ Past(r)' = v.n - (IF v.pc \in {"error", "record"} THEN 1 ELSE 0)
  BY <1>6, <1>7, RepMoves
<1>10. buffer \in Batches /\ buffer' = Append(buffer, x) /\ UNCHANGED <<counts, storage, closer>>
  BY DEF recordMetric, ColInv
<1>11. buffer' \in Batches /\ Len(buffer') = Len(buffer) + 1 /\ Range(buffer') = Range(buffer) \cup {x}
  BY <1>5, <1>10, BatchRange
<1>12. Past(r) = rep[r].n - 1 /\ Past(r)' = rep[r].n
  BY <1>2, <1>3, <1>6, <1>8, <1>9 DEF Past
<1>13. \A y : y \in Recorded <=> \E q \in Reporters : \E i \in 1..Past(q) : y = <<q, i>>
  BY DEF Recorded
<1>14. \A y : y \in Recorded' <=> \E q \in Reporters : \E i \in 1..(Past(q)') : y = <<q, i>>
  BY DEF Recorded
<1>15. x \notin Recorded
  <2>1. SUFFICES ASSUME NEW q \in Reporters, NEW i \in 1..Past(q), x = <<q, i>> PROVE FALSE
    BY <1>13
  <2>2. q = r /\ i = rep[r].n
    BY <2>1
  <2> QED BY <1>2, <1>12, <2>2
<1>16. Recorded' = Recorded \cup {x}
  <2>1. ASSUME NEW y \in Recorded PROVE y \in Recorded'
    <3>1. PICK q \in Reporters : \E i \in 1..Past(q) : y = <<q, i>>
      BY <1>13, <2>1
    <3>2. PICK i \in 1..Past(q) : y = <<q, i>>
      BY <3>1
    <3>3. i \in 1..(Past(q)')
      BY <1>2, <1>9, <1>12
    <3> QED BY <1>14, <3>2, <3>3
  <2>2. x \in Recorded'
    <3>1. rep[r].n \in 1..(Past(r)')
      BY <1>2, <1>3, <1>12
    <3> QED BY <1>14, <3>1
  <2>3. ASSUME NEW y \in Recorded', y # x PROVE y \in Recorded
    <3>1. PICK q \in Reporters : \E i \in 1..(Past(q)') : y = <<q, i>>
      BY <1>14, <2>3
    <3>2. PICK i \in 1..(Past(q)') : y = <<q, i>>
      BY <3>1
    <3>3. i \in 1..Past(q)
      <4>1. CASE q # r
        BY <1>9, <4>1
      <4>2. CASE q = r
        <5>1. i # rep[r].n
          BY <2>3, <3>2, <4>2
        <5> QED BY <1>2, <1>12, <4>2, <5>1
      <4> QED BY <4>1, <4>2
    <3> QED BY <1>13, <3>2, <3>3
  <2> QED BY <2>1, <2>2, <2>3
<1> HIDE DEF x
<1>17. Apart(Range(buffer) \cup {x}, storage.kept, storage.dropped, Range(closer.hand), Hands, Recorded \cup {x})
  BY <1>15, ApartMoves DEF ColInv
<1>18. \A q \in Reporters : Hands'[q] = Hands[q]
  BY <1>6, <1>9 DEF Hands, InHand
<1>19. Apart(Range(buffer) \cup {x}, storage.kept, storage.dropped, Range(closer.hand), Hands', Recorded \cup {x})
  BY <1>17, <1>18, ApartHands
<1>20. Apart(Range(buffer), storage.kept, storage.dropped, Range(closer.hand), Hands, Recorded)'
  BY <1>10, <1>11, <1>16, <1>19
<1>21. Len(buffer)' < BatchSize + Cardinality(Flushers)'
  <2>1. /\ Cardinality(Flushers) \in Nat /\ Cardinality(Flushers') \in Nat
        /\ (Flushers' = Flushers \cup {r} /\ r \notin Flushers
              => Cardinality(Flushers') = Cardinality(Flushers) + 1)
    BY FlushersFinite
  <2>2. Len(buffer) \in Nat /\ Len(buffer) < BatchSize + Cardinality(Flushers)
    BY <1>10, BatchRange DEF ColInv
  <2>3. CASE v.pc = "flush"
    <3>1. Flushers' = Flushers \cup {r} /\ r \notin Flushers
      BY <1>3, <1>9, <2>3 DEF Flushers
    <3> QED BY <1>2, <1>11, <2>1, <2>2, <3>1
  <2>4. CASE v.pc # "flush"
    BY <1>2, <1>8, <1>11, <2>1, <2>2, <2>4
  <2> QED BY <2>3, <2>4
<1>22. \A q \in Reporters : /\ rep'[q].pc # "store" => rep'[q].hand = <<>>
                            /\ rep'[q].pc \in {"error", "record"} => rep'[q].n >= 1
  BY <1>3, <1>6, <1>8, <1>9 DEF ColInv
<1>23. ColTypeOK'
  BY <1>9, <1>10 DEF ColInv, ColTypeOK, RepType
<1> QED BY <1>10, <1>11, <1>20, <1>21, <1>22, <1>23 DEF ColInv

\* A reporter takes the buffer as its batch, or finds it already taken.
LEMMA FlushStep ==
  ASSUME ColInv, NEW r \in Reporters, flush(r)
  PROVE  ColInv'
<1> DEFINE pc == IF buffer = <<>> THEN "idle" ELSE "store"
           v == [rep[r] EXCEPT !.pc = pc, !.hand = buffer]
<1>1. rep \in [Reporters -> RepType] /\ rep[r] \in RepType /\ buffer \in Batches
  BY DEF ColInv, ColTypeOK, RepType
<1>2. BatchSize \in Nat \ {0} /\ rep[r].hand = <<>> /\ rep[r].pc = "flush"
  BY CollectorAssumption DEF flush, ColInv
<1>3. v \in RepType /\ v.hand = buffer /\ v.pc = pc /\ v.n = rep[r].n
  BY <1>1 DEF RepType
<1>4. rep' = [rep EXCEPT ![r] = v]
  BY <1>1 DEF flush
<1>5. v.pc \in {"idle", "store"} /\ (v.pc # "store" => buffer = <<>>)
  BY <1>3
<1> HIDE DEF v, pc
<1>6. /\ rep' \in [Reporters -> RepType] /\ rep'[r] = v
      /\ \A q \in Reporters : q # r => rep'[q] = rep[q] /\ Past(q)' = Past(q) /\ Hands'[q] = Hands[q]
      /\ Hands'[r] = Range(v.hand)
      /\ Past(r)' = v.n - (IF v.pc \in {"error", "record"} THEN 1 ELSE 0)
  BY <1>3, <1>4, RepMoves
<1>7. buffer' = <<>> /\ UNCHANGED <<counts, storage, closer>>
  BY DEF flush
<1>8. <<>> \in Batches /\ Range(<<>>) = {} /\ Len(<<>>) = 0
  BY BatchRange
<1>9. Recorded' = Recorded
  <2>1. Past(r)' = Past(r)
    BY <1>2, <1>3, <1>5, <1>6 DEF Past
  <2>2. \A q \in Reporters : Past(q)' = Past(q)
    BY <1>6, <2>1
  <2> QED BY <2>2 DEF Recorded
<1>10. Hands[r] = {} /\ Hands'[r] = Range(buffer)
  BY <1>2, <1>3, <1>6, <1>8 DEF Hands, InHand
<1>11. Apart({}, storage.kept, storage.dropped, Range(closer.hand), Hands', Recorded)
  <2>1. \A q \in Reporters : q # r => Hands'[q] = Hands[q]
    BY <1>6
  <2>2. Apart(Range(buffer), storage.kept, storage.dropped, Range(closer.hand), Hands, Recorded)
    BY DEF ColInv
  <2>3. /\ Hands[r] = {} /\ Hands'[r] = Range(buffer) /\ (\A q \in Reporters : q # r => Hands'[q] = Hands[q])
           => Apart({}, storage.kept, storage.dropped, Range(closer.hand), Hands', Recorded)
    BY <2>2, ApartHands
  <2> QED BY <1>10, <2>1, <2>3
<1>12. Apart(Range(buffer), storage.kept, storage.dropped, Range(closer.hand), Hands, Recorded)'
  BY <1>7, <1>8, <1>9, <1>11
<1>13. Len(buffer)' < BatchSize + Cardinality(Flushers)'
  <2>1. Cardinality(Flushers') \in Nat
    BY FlushersFinite
  <2> QED BY <1>2, <1>7, <1>8, <2>1
<1>14. \A q \in Reporters : /\ rep'[q].pc # "store" => rep'[q].hand = <<>>
                            /\ rep'[q].pc \in {"error", "record"} => rep'[q].n >= 1
  BY <1>3, <1>5, <1>6 DEF ColInv
<1>15. ColTypeOK'
  BY <1>6, <1>7 DEF ColInv, ColTypeOK, RepType
<1> QED BY <1>7, <1>8, <1>12, <1>13, <1>14, <1>15 DEF ColInv

\* The batch of a reporter reaches the storage.
LEMMA StoreStep ==
  ASSUME ColInv, NEW r \in Reporters, Store(r)
  PROVE  ColInv'
<1> DEFINE none == <<>>
           v == [rep[r] EXCEPT !.pc = "idle", !.hand = none]
<1> HIDE DEF none
<1>1. rep \in [Reporters -> RepType] /\ rep[r] \in RepType /\ buffer \in Batches
  BY DEF ColInv, ColTypeOK, RepType
<1>2. none \in Batches /\ Range(none) = {}
  BY BatchRange DEF none
<1>3. v \in RepType /\ v.hand = none /\ v.pc = "idle" /\ v.n = rep[r].n
  BY <1>1, <1>2 DEF RepType
<1>4. rep' = [rep EXCEPT ![r] = v]
  BY <1>1 DEF Store, none
<1>5. rep[r].pc = "store" /\ UNCHANGED <<counts, buffer, closer>>
  BY DEF Store
<1> HIDE DEF v
<1>6. /\ rep' \in [Reporters -> RepType] /\ rep'[r] = v
      /\ \A q \in Reporters : q # r => rep'[q] = rep[q] /\ Past(q)' = Past(q) /\ Hands'[q] = Hands[q]
      /\ Hands'[r] = Range(v.hand)
      /\ Past(r)' = v.n - (IF v.pc \in {"error", "record"} THEN 1 ELSE 0)
  BY <1>3, <1>4, RepMoves
<1>7. Hands[r] = Range(rep[r].hand) /\ Hands[r] \in SUBSET Metrics
  BY <1>1, BatchRange DEF Hands, InHand, RepType
<1>8. /\ storage' \in [kept : SUBSET Metrics, dropped : SUBSET Metrics]
      /\ storage'.kept = storage.kept \cup Hands[r] /\ storage'.dropped = storage.dropped
  BY <1>7 DEF Store, ColInv
<1>9. Recorded' = Recorded
  <2>1. Past(r)' = Past(r)
    BY <1>3, <1>5, <1>6 DEF Past
  <2>2. \A q \in Reporters : Past(q)' = Past(q)
    BY <1>6, <2>1
  <2> QED BY <2>2 DEF Recorded
<1>10. Apart(Range(buffer), storage.kept \cup Hands[r], storage.dropped, Range(closer.hand), Hands', Recorded)
  <2>1. \A q \in Reporters : q # r => Hands'[q] = Hands[q]
    BY <1>6
  <2>2. Hands'[r] = {}
    BY <1>2, <1>3, <1>6
  <2> QED BY <2>1, <2>2, ApartHands DEF ColInv
<1>11. Apart(Range(buffer), storage.kept, storage.dropped, Range(closer.hand), Hands, Recorded)'
  BY <1>5, <1>8, <1>9, <1>10
<1>12. Flushers' = Flushers
  BY <1>3, <1>5, <1>6 DEF Flushers
<1>13. Len(buffer)' < BatchSize + Cardinality(Flushers)'
  BY <1>5, <1>12 DEF ColInv
<1>14. \A q \in Reporters : /\ rep'[q].pc # "store" => rep'[q].hand = <<>>
                            /\ rep'[q].pc \in {"error", "record"} => rep'[q].n >= 1
  BY <1>3, <1>6 DEF ColInv, none
<1>15. ColTypeOK'
  BY <1>5, <1>6 DEF ColInv, ColTypeOK, RepType
<1> QED BY <1>5, <1>8, <1>11, <1>13, <1>14, <1>15 DEF ColInv

\* Close takes the buffer, stores it, and the storage forgets what it holds.
LEMMA ColCloseStep ==
  ASSUME ColInv, CloseFlush \/ CloseStore \/ StorageClose
  PROVE  ColInv'
<1>1. /\ BatchSize \in Nat \ {0} /\ buffer \in Batches /\ closer \in CloserType
      /\ <<>> \in Batches /\ Range(<<>>) = {} /\ Len(<<>>) = 0
  BY CollectorAssumption, BatchRange DEF ColInv, ColTypeOK, CloserType
<1>2. Cardinality(Flushers) \in Nat
  BY FlushersFinite
<1>3. UNCHANGED <<counts, rep>>
  BY DEF CloseFlush, CloseStore, StorageClose
<1>4. Recorded' = Recorded /\ Hands' = Hands /\ Flushers' = Flushers
  BY <1>3 DEF Recorded, Past, Hands, InHand, Flushers
<1>5. \A r \in Reporters : /\ rep'[r].pc # "store" => rep'[r].hand = <<>>
                           /\ rep'[r].pc \in {"error", "record"} => rep'[r].n >= 1
  BY <1>3 DEF ColInv
<1>6. Apart(Range(buffer), storage.kept, storage.dropped, Range(closer.hand), Hands, Recorded)
  BY DEF ColInv
<1>7. ASSUME closer' \in CloserType PROVE ColTypeOK'
  BY <1>3, <1>7 DEF ColInv, ColTypeOK, CloserType
<1>8. CASE CloseFlush
  <2> DEFINE pc == IF buffer = <<>> THEN "drop" ELSE "store"
  <2>1. closer' = [pc |-> pc, hand |-> buffer] /\ buffer' = <<>> /\ storage' = storage /\ closer.hand = <<>>
    BY <1>8 DEF CloseFlush, ColInv
  <2>2. closer' \in CloserType /\ closer'.hand = buffer /\ (closer'.pc # "store" => buffer = <<>>)
    BY <1>1, <2>1 DEF CloserType
  <2>3. Apart({}, storage.kept, storage.dropped, Range(buffer), Hands, Recorded)
    BY <1>1, <1>6, <2>1, ApartMoves
  <2>4. Apart(Range(buffer), storage.kept, storage.dropped, Range(closer.hand), Hands, Recorded)'
    BY <1>1, <1>4, <2>1, <2>2, <2>3
  <2>5. Len(buffer)' < BatchSize + Cardinality(Flushers)'
    BY <1>1, <1>2, <1>4, <2>1
  <2> QED BY <1>1, <1>5, <1>7, <2>1, <2>2, <2>4, <2>5 DEF ColInv
<1>9. CASE CloseStore
  <2>1. Range(closer.hand) \in SUBSET Metrics
    BY <1>1, BatchRange DEF CloserType
  <2>2. /\ storage' \in [kept : SUBSET Metrics, dropped : SUBSET Metrics]
        /\ storage'.kept = storage.kept \cup Range(closer.hand) /\ storage'.dropped = storage.dropped
    BY <1>9, <2>1 DEF CloseStore, ColInv
  <2>3. closer' \in CloserType /\ closer'.hand = <<>> /\ buffer' = buffer
    BY <1>1, <1>9 DEF CloseStore, CloserType
  <2>4. Apart(Range(buffer), storage.kept \cup Range(closer.hand), storage.dropped, {}, Hands, Recorded)
    BY <1>6, ApartMoves
  <2>5. Apart(Range(buffer), storage.kept, storage.dropped, Range(closer.hand), Hands, Recorded)'
    BY <1>1, <1>4, <2>2, <2>3, <2>4
  <2>6. Len(buffer)' < BatchSize + Cardinality(Flushers)'
    BY <1>4, <2>3 DEF ColInv
  <2> QED BY <1>1, <1>5, <1>7, <2>2, <2>3, <2>5, <2>6 DEF ColInv
<1>10. CASE StorageClose
  <2>1. closer' = [closer EXCEPT !.pc = "closed"] /\ closer.pc = "drop" /\ closer.hand = <<>> /\ buffer' = buffer
    BY <1>10 DEF StorageClose, ColInv
  <2>2. closer' \in CloserType /\ closer'.hand = closer.hand
    BY <1>1, <2>1 DEF CloserType
  <2>3. storage \in [kept : SUBSET Metrics, dropped : SUBSET Metrics]
    BY DEF ColInv
  <2>4. /\ storage' \in [kept : SUBSET Metrics, dropped : SUBSET Metrics]
        /\ storage'.kept = {} /\ storage'.dropped = storage.dropped \cup storage.kept
    BY <1>10, <2>3 DEF StorageClose
  <2>5. Apart(Range(buffer), {}, storage.dropped \cup storage.kept, Range(closer.hand), Hands, Recorded)
    BY <1>6, ApartMoves
  <2>6. Apart(Range(buffer), storage.kept, storage.dropped, Range(closer.hand), Hands, Recorded)'
    BY <1>4, <2>1, <2>2, <2>4, <2>5
  <2>7. Len(buffer)' < BatchSize + Cardinality(Flushers)'
    BY <1>4, <2>1 DEF ColInv
  <2> QED BY <1>1, <1>5, <1>7, <2>1, <2>2, <2>4, <2>6, <2>7 DEF ColInv
<1> QED BY <1>8, <1>9, <1>10

\* Every step of the collector leaves each metric in one place.
LEMMA ColStep == ColInv /\ [ColNext]_colvars => ColInv'
<1> SUFFICES ASSUME ColInv, [ColNext]_colvars PROVE ColInv'
  OBVIOUS
<1>1. CASE \E r \in Reporters : Report(r) \/ CountError(r) \/ recordMetric(r) \/ flush(r) \/ Store(r)
  BY <1>1, CountStep, RecordStep, FlushStep, StoreStep
<1>2. CASE CloseFlush \/ CloseStore \/ StorageClose
  BY <1>2, ColCloseStep
<1>3. CASE UNCHANGED colvars
  <2>1. Recorded' = Recorded /\ Hands' = Hands /\ Flushers' = Flushers
    BY <1>3 DEF colvars, Recorded, Past, Hands, InHand, Flushers
  <2>2. ColTypeOK'
    BY <1>3 DEF colvars, ColInv, ColTypeOK
  <2>3. Apart(Range(buffer), storage.kept, storage.dropped, Range(closer.hand), Hands, Recorded)'
    BY <1>3, <2>1 DEF colvars, ColInv
  <2>4. Len(buffer)' < BatchSize + Cardinality(Flushers)'
    BY <1>3, <2>1 DEF colvars, ColInv
  <2> QED BY <1>3, <2>2, <2>3, <2>4 DEF colvars, ColInv
<1> QED BY <1>1, <1>2, <1>3 DEF ColNext

\* What the collector promises follows.
LEMMA ColGoal == ColInv => DataMetricsSound
<1> SUFFICES ASSUME ColInv PROVE DataMetricsSound
  OBVIOUS
<1>1. Apart(Range(buffer), storage.kept, storage.dropped, Range(closer.hand), Hands, Recorded)
  BY DEF ColInv
<1>2. \A r \in Reporters : Hands[r] = InHand(r)
  BY DEF Hands
<1>3. /\ Places[1] = Range(buffer) /\ Places[2] = storage.kept
      /\ Places[3] = storage.dropped /\ Places[4] = Range(closer.hand)
  BY DEF Places
<1>4. (UNION {Places[i] : i \in 1..4}) \cup (UNION {InHand(r) : r \in Reporters}) = Recorded
  <2>1. \A x : x \in UNION {Places[i] : i \in 1..4} <=> x \in Places[1] \/ x \in Places[2] \/ x \in Places[3] \/ x \in Places[4]
    OBVIOUS
  <2>2. \A x : x \in UNION {InHand(r) : r \in Reporters} <=> \E r \in Reporters : x \in Hands[r]
    BY <1>2
  <2>3. \A x : x \in Recorded <=> x \in UNION {Places[i] : i \in 1..4} \/ x \in UNION {InHand(r) : r \in Reporters}
    BY <1>1, <1>3, <2>1, <2>2 DEF Apart
  <2> DEFINE P == UNION {Places[i] : i \in 1..4}
             Q == UNION {InHand(r) : r \in Reporters}
  <2>4. \A x : x \in Recorded <=> x \in P \/ x \in Q
    BY <2>3
  <2> HIDE DEF P, Q
  <2>5. P \cup Q = Recorded
    BY <2>4
  <2> QED BY <2>5 DEF P, Q
<1>5. ASSUME NEW i \in 1..4, NEW j \in 1..4, i # j PROVE Places[i] \cap Places[j] = {}
  <2>1. i \in {1, 2, 3, 4} /\ j \in {1, 2, 3, 4}
    OBVIOUS
  <2>2. \A x : ~(x \in Places[i] /\ x \in Places[j])
    BY <1>1, <1>3, <1>5, <2>1 DEF Apart
  <2> QED BY <2>2
<1>6. ASSUME NEW r \in Reporters, NEW i \in 1..4 PROVE InHand(r) \cap Places[i] = {}
  <2>1. i \in {1, 2, 3, 4}
    OBVIOUS
  <2> QED BY <1>1, <1>2, <1>3, <2>1 DEF Apart
<1>7. ASSUME NEW r \in Reporters, NEW q \in Reporters, r # q PROVE InHand(r) \cap InHand(q) = {}
  BY <1>1, <1>2, <1>7 DEF Apart
<1>8. Len(buffer) < BatchSize + Cardinality({r \in Reporters : rep[r].pc = "flush"})
  BY DEF ColInv, Flushers
<1> QED BY <1>4, <1>5, <1>6, <1>7, <1>8 DEF DataMetricsSound, MetricsConserved, ColInv

-----------------------------------------------------------------------------
(* The cache: every key of a plain cache holds one string, its own          *)

\* What the key of field f of a plain cache c holds is what c last wrote there.
HeldPlain(c, f) ==
  LET k == CacheKey(c, f)
  IN  IF k \in DOMAIN redis
      THEN /\ redis[k].hash = FALSE /\ DOMAIN redis[k].at = {f}
           /\ redis[k].at[f] = wrote[c][f] /\ wrote[c][f] # NoValue
      ELSE wrote[c][f] = NoValue
PlainHeld == \A c \in Caches : ~IsHash(c) => \A f \in Fields : HeldPlain(c, f)

EntryOK(e) ==
  e.hash \in BOOLEAN /\ DOMAIN e.at \subseteq Fields /\ \A f \in DOMAIN e.at : e.at[f] \in Values
Piped(p) == DOMAIN p \subseteq Fields /\ \A f \in DOMAIN p : p[f] \in Values
WroteType == [Caches -> [Fields -> Values \cup {NoValue}]]

CacheInv ==
  /\ cset \in CSetups /\ writes \in 0..cset.writes /\ ttl \subseteq DOMAIN redis
  /\ wrote \in WroteType
  /\ \A k \in DOMAIN redis : EntryOK(redis[k])
  /\ DOMAIN pipe = Caches
  /\ \A c \in Caches : Piped(pipe[c]) /\ (IsHash(c) => DOMAIN pipe[c] = {})
  /\ PlainHeld

\* No other cache, and no other field, has the key of a plain cache's field.
LEMMA KeysApart ==
  ASSUME cset \in CSetups, NEW c \in Caches, NEW d \in Caches, NEW f, NEW g,
         ~IsHash(c), CacheKey(c, f) = CacheKey(d, g)
  PROVE  c = d /\ f = g
<1>1. CacheKey(c, f) = <<cset.caches[c].key, f>>
  BY DEF CacheKey
<1>2. /\ cset.caches[c].key # ""
      /\ d # c => cset.caches[d].useHash \/ cset.caches[d].key # cset.caches[c].key
  BY CacheAssumption DEF Caches, IsHash
<1>0. \A a, b, x, y : <<a, x>> = <<b, y>> => a = b /\ x = y
  OBVIOUS
<1>3. CASE IsHash(d)
  <2>1. CacheKey(d, g) = <<"", g>>
    BY <1>3 DEF CacheKey
  <2>2. cset.caches[c].key = ""
    BY <1>0, <1>1, <2>1
  <2> QED BY <1>2, <2>2
<1>4. CASE ~IsHash(d)
  <2>1. CacheKey(d, g) = <<cset.caches[d].key, g>>
    BY <1>4 DEF CacheKey
  <2>2. <<cset.caches[c].key, f>> = <<cset.caches[d].key, g>>
    BY <1>1, <2>1
  <2>3. cset.caches[c].key = cset.caches[d].key /\ f = g
    BY <2>2, <1>0
  <2> QED BY <1>2, <1>4, <2>3 DEF IsHash
<1> QED BY <1>3, <1>4

\* A command on one key leaves the plain fields of all other keys as they are.
LEMMA OneKey ==
  ASSUME CacheInv, cset' = cset, NEW k,
         \A j : j # k => /\ j \in DOMAIN redis' <=> j \in DOMAIN redis
                         /\ j \in DOMAIN redis => redis'[j] = redis[j],
         \A c \in Caches, f \in Fields :
           ~IsHash(c) => /\ CacheKey(c, f) = k => HeldPlain(c, f)'
                         /\ CacheKey(c, f) # k => wrote'[c][f] = wrote[c][f]
  PROVE  PlainHeld'
<1>1. Caches' = Caches /\ \A c : IsHash(c)' = IsHash(c)
  BY DEF Caches, IsHash
<1>2. \A c, f : CacheKey(c, f)' = CacheKey(c, f)
  BY <1>1 DEF CacheKey
<1>3. SUFFICES ASSUME NEW c \in Caches, NEW f \in Fields, ~IsHash(c), CacheKey(c, f) # k
               PROVE  HeldPlain(c, f)'
  BY <1>1 DEF PlainHeld
<1>4. HeldPlain(c, f) /\ wrote'[c][f] = wrote[c][f]
  BY <1>3 DEF CacheInv, PlainHeld
<1>5. CASE CacheKey(c, f) \in DOMAIN redis
  <2>1. CacheKey(c, f) \in DOMAIN redis' /\ redis'[CacheKey(c, f)] = redis[CacheKey(c, f)]
    BY <1>3, <1>5
  <2> QED BY <1>2, <1>4, <1>5, <2>1 DEF HeldPlain
<1>6. CASE CacheKey(c, f) \notin DOMAIN redis
  <2>1. CacheKey(c, f) \notin DOMAIN redis'
    BY <1>3, <1>6
  <2> QED BY <1>2, <1>4, <1>6, <2>1 DEF HeldPlain
<1> QED BY <1>5, <1>6

\* SET, whoever calls it.
LEMMA SetStep ==
  ASSUME CacheInv, cset' = cset, NEW c \in Caches, NEW f \in Fields, NEW v \in Values, ~IsHash(c),
         redis' = SetKey(CacheKey(c, f), f, v), wrote' = [wrote EXCEPT ![c][f] = v]
  PROVE  /\ wrote' \in WroteType /\ PlainHeld'
         /\ DOMAIN redis' = DOMAIN redis \cup {CacheKey(c, f)}
         /\ \A k \in DOMAIN redis' : EntryOK(redis'[k])
<1> DEFINE k == CacheKey(c, f)
           e == [hash |-> FALSE, at |-> [g \in {f} |-> v]]
<1>1. /\ DOMAIN redis' = DOMAIN redis \cup {k} /\ redis'[k] = e
      /\ \A j \in DOMAIN redis : j # k => redis'[j] = redis[j]
  BY DEF SetKey
<1>2. e.hash = FALSE /\ DOMAIN e.at = {f} /\ e.at[f] = v
  OBVIOUS
<1>3. EntryOK(e)
  BY <1>2 DEF EntryOK
<1>4. wrote' \in WroteType /\ wrote'[c][f] = v
  BY DEF CacheInv, WroteType
<1>5. v # NoValue
  BY CacheAssumption
<1>6. CacheKey(c, f)' = k
  BY DEF CacheKey, IsHash
<1> HIDE DEF e
<1>7. HeldPlain(c, f)'
  BY <1>1, <1>2, <1>4, <1>5, <1>6 DEF HeldPlain
<1>8. ASSUME NEW d \in Caches, NEW g \in Fields, ~IsHash(d)
      PROVE  /\ CacheKey(d, g) = k => HeldPlain(d, g)'
             /\ CacheKey(d, g) # k => wrote'[d][g] = wrote[d][g]
  <2>1. CASE CacheKey(d, g) = k
    <3>1. d = c /\ g = f
      BY <1>8, <2>1, KeysApart DEF CacheInv
    <3> QED BY <1>7, <2>1, <3>1
  <2>2. CASE CacheKey(d, g) # k
    <3>1. ~(d = c /\ g = f)
      BY <2>2
    <3>2. wrote \in [Caches -> [Fields -> Values \cup {NoValue}]]
      BY DEF CacheInv, WroteType
    <3>3. wrote'[d][g] = wrote[d][g]
      BY <3>1, <3>2
    <3> QED BY <2>2, <3>3
  <2> QED BY <2>1, <2>2
<1> HIDE DEF k
<1>9. PlainHeld'
  <2>1. \A j : j # k => /\ j \in DOMAIN redis' <=> j \in DOMAIN redis
                        /\ j \in DOMAIN redis => redis'[j] = redis[j]
    BY <1>1
  <2>2. \A d \in Caches, g \in Fields :
          ~IsHash(d) => /\ CacheKey(d, g) = k => HeldPlain(d, g)'
                        /\ CacheKey(d, g) # k => wrote'[d][g] = wrote[d][g]
    BY <1>8
  <2>3. CacheInv /\ cset' = cset
    OBVIOUS
  <2> QED BY ONLY <2>1, <2>2, <2>3, OneKey
<1>10. \A j \in DOMAIN redis' : EntryOK(redis'[j])
  BY <1>1, <1>3 DEF CacheInv
<1> QED BY <1>1, <1>4, <1>9, <1>10 DEF k

\* HSET, of a hashed cache.
LEMMA HSetStep ==
  ASSUME CacheInv, cset' = cset, NEW c \in Caches, NEW f \in Fields, NEW given, Piped(given), IsHash(c),
         redis' = HSet(CacheKey(c, f), given), wrote' \in WroteType,
         \A d \in Caches \ {c} : wrote'[d] = wrote[d]
  PROVE  /\ PlainHeld' /\ DOMAIN redis \subseteq DOMAIN redis'
         /\ \A k \in DOMAIN redis' : EntryOK(redis'[k])
<1> DEFINE k == CacheKey(c, f)
           old == IF k \in DOMAIN redis THEN redis[k].at ELSE [g \in {} |-> NoValue]
           new == [g \in DOMAIN old \cup DOMAIN given |-> IF g \in DOMAIN given THEN given[g] ELSE old[g]]
           e == [hash |-> TRUE, at |-> new]
<1>1. /\ DOMAIN redis' = DOMAIN redis \cup {k} /\ redis'[k] = e
      /\ \A j \in DOMAIN redis : j # k => redis'[j] = redis[j]
  BY DEF HSet
<1>2. Piped(old)
  <2>1. CASE k \in DOMAIN redis
    BY <2>1 DEF CacheInv, EntryOK, Piped
  <2>2. CASE k \notin DOMAIN redis
    BY <2>2 DEF Piped
  <2> QED BY <2>1, <2>2
<1> HIDE DEF old
<1>3. Piped(new)
  BY <1>2 DEF Piped
<1> HIDE DEF new
<1>4. EntryOK(e)
  <2>1. e.hash = TRUE /\ e.at = new
    OBVIOUS
  <2> QED BY <1>3, <2>1 DEF Piped, EntryOK
<1> HIDE DEF e
<1>5. ASSUME NEW d \in Caches, NEW g \in Fields, ~IsHash(d)
      PROVE  CacheKey(d, g) # k /\ wrote'[d][g] = wrote[d][g]
  <2>1. d # c
    BY <1>5
  <2>2. CacheKey(d, g) # k
    BY <1>5, <2>1, KeysApart DEF CacheInv
  <2> QED BY <2>1, <2>2
<1> HIDE DEF k
<1>6. PlainHeld'
  <2>1. \A j : j # k => /\ j \in DOMAIN redis' <=> j \in DOMAIN redis
                        /\ j \in DOMAIN redis => redis'[j] = redis[j]
    BY <1>1
  <2> QED BY <1>5, <2>1, OneKey
<1>7. \A j \in DOMAIN redis' : EntryOK(redis'[j])
  BY <1>1, <1>4 DEF CacheInv
<1> QED BY <1>1, <1>6, <1>7

\* DEL, and a key that expires: the key goes, and with it what was written there.
LEMMA GoneStep ==
  ASSUME CacheInv, cset' = cset, NEW k, redis' = Without(k), wrote' \in WroteType,
         \A c \in Caches, f \in Fields :
           ~IsHash(c) => wrote'[c][f] = IF CacheKey(c, f) = k THEN NoValue ELSE wrote[c][f]
  PROVE  /\ PlainHeld' /\ DOMAIN redis' = DOMAIN redis \ {k}
         /\ \A j \in DOMAIN redis' : EntryOK(redis'[j])
<1>1. DOMAIN redis' = DOMAIN redis \ {k} /\ \A j \in DOMAIN redis' : redis'[j] = redis[j]
  BY DEF Without, Restrict
<1>2. \A c, f : CacheKey(c, f)' = CacheKey(c, f)
  BY DEF CacheKey, IsHash
<1>3. ASSUME NEW c \in Caches, NEW f \in Fields, ~IsHash(c)
      PROVE  /\ CacheKey(c, f) = k => HeldPlain(c, f)'
             /\ CacheKey(c, f) # k => wrote'[c][f] = wrote[c][f]
  BY <1>1, <1>2, <1>3 DEF HeldPlain
<1>4. PlainHeld'
  <2>1. \A j : j # k => /\ j \in DOMAIN redis' <=> j \in DOMAIN redis
                        /\ j \in DOMAIN redis => redis'[j] = redis[j]
    BY <1>1
  <2> QED BY <1>3, <2>1, OneKey
<1> QED BY <1>1, <1>4 DEF CacheInv

\* Nothing is cached at first.
LEMMA CacheStart == CInit => CacheInv
<1> SUFFICES ASSUME CInit PROVE CacheInv
  OBVIOUS
<1>1. cset \in CSetups /\ cset.writes \in Nat /\ writes = 0 /\ ttl = {} /\ DOMAIN redis = {}
  BY CacheAssumption DEF CInit
<1>2. wrote \in WroteType /\ \A c \in Caches, f \in Fields : wrote[c][f] = NoValue
  BY DEF CInit, WroteType
<1>3. DOMAIN pipe = Caches /\ \A c \in Caches : DOMAIN pipe[c] = {}
  BY DEF CInit
<1>4. PlainHeld
  BY <1>1, <1>2 DEF PlainHeld, HeldPlain
<1> QED BY <1>1, <1>2, <1>3, <1>4 DEF CacheInv, Piped

\* The part that reading and writing leave alone.
LEMMA PlainKept ==
  ASSUME CacheInv, UNCHANGED <<cset, redis, wrote>>
  PROVE  PlainHeld'
<1>1. \A c, f : CacheKey(c, f)' = CacheKey(c, f) /\ IsHash(c)' = IsHash(c)
  BY DEF CacheKey, IsHash
<1>2. \A c, f : HeldPlain(c, f)' <=> HeldPlain(c, f)
  BY <1>1 DEF HeldPlain
<1> QED BY <1>1, <1>2 DEF PlainHeld, CacheInv, Caches

\* A write is counted within its bound.
LEMMA WriteCounted ==
  ASSUME CacheInv, CacheWrite
  PROVE  writes' \in 0..cset.writes
<1>1. cset.writes \in Nat
  BY CacheAssumption DEF CacheInv
<1>2. writes \in 0..cset.writes
  BY DEF CacheInv
<1> QED BY <1>1, <1>2 DEF CacheWrite

\* Set, plain or hashed.
LEMMA CacheSetStep ==
  ASSUME CacheInv, NEW c \in Caches, NEW f \in Fields, NEW v \in Values, CacheSet(c, f, v)
  PROVE  CacheInv'
<1>1. cset' = cset /\ pipe' = pipe /\ Caches' = Caches /\ \A d : IsHash(d)' = IsHash(d)
  BY DEF CacheSet, Caches, IsHash
<1>2. writes' \in 0..cset.writes
  BY WriteCounted DEF CacheSet
<1>3. /\ DOMAIN pipe' = Caches'
      /\ \A d \in Caches' : Piped(pipe'[d]) /\ (IsHash(d)' => DOMAIN pipe'[d] = {})
  BY <1>1 DEF CacheInv
<1>4. WroteType' = WroteType
  BY <1>1 DEF WroteType
<1>5. CASE ~IsHash(c)
  <2>1. redis' = SetKey(CacheKey(c, f), f, v) /\ wrote' = [wrote EXCEPT ![c][f] = v]
    BY <1>5 DEF CacheSet
  <2>2. /\ wrote' \in WroteType /\ PlainHeld'
        /\ DOMAIN redis' = DOMAIN redis \cup {CacheKey(c, f)}
        /\ \A k \in DOMAIN redis' : EntryOK(redis'[k])
    BY <1>1, <1>5, <2>1, SetStep
  <2>3. ttl' \subseteq DOMAIN redis'
    BY <1>5, <2>2 DEF CacheSet, CacheInv
  <2> QED BY <1>1, <1>2, <1>3, <1>4, <2>2, <2>3 DEF CacheInv
<1>6. CASE IsHash(c) /\ WrongType(CacheKey(c, f), TRUE)
  <2>1. UNCHANGED <<redis, ttl, wrote>>
    BY <1>6 DEF CacheSet
  <2> QED BY <1>1, <1>2, <1>3, <1>4, <2>1, PlainKept DEF CacheInv
<1>7. CASE IsHash(c) /\ ~WrongType(CacheKey(c, f), TRUE)
  <2> DEFINE given == [g \in {f} |-> v]
  <2>1. redis' = HSet(CacheKey(c, f), given) /\ wrote' = [wrote EXCEPT ![c][f] = v] /\ ttl' = ttl
    BY <1>7 DEF CacheSet
  <2>2. Piped(given)
    BY DEF Piped
  <2> HIDE DEF given
  <2>3. wrote' \in WroteType /\ \A d \in Caches \ {c} : wrote'[d] = wrote[d]
    BY <2>1 DEF CacheInv, WroteType
  <2>4. /\ PlainHeld' /\ DOMAIN redis \subseteq DOMAIN redis'
        /\ \A k \in DOMAIN redis' : EntryOK(redis'[k])
    BY <1>1, <1>7, <2>1, <2>2, <2>3, HSetStep
  <2> QED BY <1>1, <1>2, <1>3, <1>4, <2>1, <2>3, <2>4 DEF CacheInv
<1> QED BY <1>5, <1>6, <1>7

\* Delete removes a key, or one field of a hash.
LEMMA CacheDeleteStep ==
  ASSUME CacheInv, NEW c \in Caches, NEW f \in Fields, CacheDelete(c, f)
  PROVE  CacheInv'
<1> DEFINE k == CacheKey(c, f)
<1>1. UNCHANGED <<cset, pipe, writes>> /\ Caches' = Caches /\ \A d : IsHash(d)' = IsHash(d)
  BY DEF CacheDelete, Caches, IsHash
<1>2. /\ DOMAIN pipe' = Caches'
      /\ \A d \in Caches' : Piped(pipe'[d]) /\ (IsHash(d)' => DOMAIN pipe'[d] = {})
  BY <1>1 DEF CacheInv
<1>3. WroteType' = WroteType
  BY <1>1 DEF WroteType
<1>4. wrote' = [wrote EXCEPT ![c][f] = NoValue] /\ wrote \in [Caches -> [Fields -> Values \cup {NoValue}]]
  BY DEF CacheDelete, CacheInv, WroteType
<1>5. /\ wrote' \in WroteType /\ wrote'[c][f] = NoValue
      /\ \A d \in Caches, g \in Fields : d # c \/ g # f => wrote'[d][g] = wrote[d][g]
  BY <1>4 DEF WroteType
<1>6. ASSUME NEW d \in Caches, NEW g \in Fields, ~IsHash(d)
      PROVE  /\ wrote'[d][g] = (IF CacheKey(d, g) = k THEN NoValue ELSE wrote[d][g])
             /\ IsHash(c) => CacheKey(d, g) # k
  <2>1. CacheKey(d, g) = k => d = c /\ g = f
    BY <1>6, KeysApart DEF CacheInv
  <2>2. d = c /\ g = f => CacheKey(d, g) = k
    OBVIOUS
  <2> HIDE DEF k
  <2> QED BY <1>5, <1>6, <2>1, <2>2
<1>7. k \in DOMAIN redis
  BY DEF CacheDelete, CacheFetch
<1> DEFINE gone == ~IsHash(c) \/ DOMAIN redis[k].at = {f}
           less == Restrict(redis[k].at, DOMAIN redis[k].at \ {f})
<1>8. /\ redis' = IF gone THEN Without(k) ELSE [redis EXCEPT ![k].at = less]
      /\ ttl' = IF gone THEN ttl \ {k} ELSE ttl
  BY DEF CacheDelete
<1>9. CASE gone
  <2>1. redis' = Without(k) /\ ttl' = ttl \ {k}
    BY <1>8, <1>9
  <2>2. \A d \in Caches, g \in Fields :
          ~IsHash(d) => wrote'[d][g] = IF CacheKey(d, g) = k THEN NoValue ELSE wrote[d][g]
    BY <1>6
  <2> HIDE DEF k, gone, less
  <2>3. /\ PlainHeld' /\ DOMAIN redis' = DOMAIN redis \ {k}
        /\ \A j \in DOMAIN redis' : EntryOK(redis'[j])
    BY <1>1, <1>5, <2>1, <2>2, GoneStep
  <2> QED BY <1>1, <1>2, <1>3, <1>5, <2>1, <2>3 DEF CacheInv
<1>10. CASE ~gone
  <2>1. redis' = [redis EXCEPT ![k].at = less] /\ ttl' = ttl /\ IsHash(c)
    BY <1>8, <1>10
  <2>2. Piped(less) /\ EntryOK(redis[k])
    BY <1>7 DEF CacheInv, EntryOK, Piped, Restrict
  <2> HIDE DEF k, gone, less
  <2>3. /\ DOMAIN redis' = DOMAIN redis /\ redis'[k] = [redis[k] EXCEPT !.at = less]
        /\ \A j \in DOMAIN redis : j # k => redis'[j] = redis[j]
    BY <1>7, <2>1
  <2>4. EntryOK(redis'[k])
    BY <2>2, <2>3 DEF EntryOK, Piped
  <2>5. PlainHeld'
    <3>1. \A j : j # k => /\ j \in DOMAIN redis' <=> j \in DOMAIN redis
                          /\ j \in DOMAIN redis => redis'[j] = redis[j]
      BY <2>3
    <3>2. \A d \in Caches, g \in Fields :
            ~IsHash(d) => /\ CacheKey(d, g) = k => HeldPlain(d, g)'
                          /\ CacheKey(d, g) # k => wrote'[d][g] = wrote[d][g]
      BY <1>6, <2>1
    <3> QED BY <1>1, <3>1, <3>2, OneKey
  <2> QED BY <1>1, <1>2, <1>3, <1>5, <2>1, <2>3, <2>4, <2>5 DEF CacheInv
<1> QED BY <1>9, <1>10

\* SetMultiple starts a pipeline, or fills a hash.
LEMMA CacheSetMultipleStep ==
  ASSUME CacheInv, NEW c \in Caches, NEW given \in [Fields -> Values], CacheSetMultiple(c, given)
  PROVE  CacheInv'
<1>1. cset' = cset /\ Caches' = Caches /\ \A d : IsHash(d)' = IsHash(d)
  BY DEF CacheSetMultiple, Caches, IsHash
<1>2. writes' \in 0..cset.writes
  BY WriteCounted DEF CacheSetMultiple
<1>3. WroteType' = WroteType
  BY <1>1 DEF WroteType
<1>4. Piped(given)
  BY DEF Piped
<1>5. CASE ~IsHash(c)
  <2>1. pipe' = [pipe EXCEPT ![c] = given] /\ UNCHANGED <<redis, ttl, wrote>>
    BY <1>5 DEF CacheSetMultiple
  <2>2. /\ DOMAIN pipe' = Caches'
        /\ \A d \in Caches' : Piped(pipe'[d]) /\ (IsHash(d)' => DOMAIN pipe'[d] = {})
    <3>1. DOMAIN pipe' = Caches /\ pipe'[c] = given /\ \A d \in Caches \ {c} : pipe'[d] = pipe[d]
      BY <2>1 DEF CacheInv
    <3> QED BY <1>1, <1>4, <1>5, <3>1 DEF CacheInv
  <2> QED BY <1>1, <1>2, <1>3, <2>1, <2>2, PlainKept DEF CacheInv
<1>6. CASE IsHash(c)
  <2>1. PICK first \in DOMAIN given :
          /\ UNCHANGED <<pipe, ttl>>
          /\ IF WrongType(CacheKey(c, first), TRUE) THEN UNCHANGED <<redis, wrote>>
             ELSE /\ redis' = HSet(CacheKey(c, first), given)
                  /\ wrote' = [wrote EXCEPT ![c] =
                                 [f \in Fields |-> IF f \in DOMAIN given THEN given[f] ELSE @[f]]]
    BY <1>6 DEF CacheSetMultiple
  <2>2. /\ DOMAIN pipe' = Caches'
        /\ \A d \in Caches' : Piped(pipe'[d]) /\ (IsHash(d)' => DOMAIN pipe'[d] = {})
    BY <1>1, <2>1 DEF CacheInv
  <2>3. CASE WrongType(CacheKey(c, first), TRUE)
    BY <1>1, <1>2, <1>3, <2>1, <2>2, <2>3, PlainKept DEF CacheInv
  <2>4. CASE ~WrongType(CacheKey(c, first), TRUE)
    <3> DEFINE row == [f \in Fields |-> IF f \in DOMAIN given THEN given[f] ELSE wrote[c][f]]
    <3>1. redis' = HSet(CacheKey(c, first), given) /\ wrote' = [wrote EXCEPT ![c] = row]
      BY <2>1, <2>4
    <3>2. row \in [Fields -> Values \cup {NoValue}]
      BY DEF CacheInv, WroteType
    <3> HIDE DEF row
    <3>3. wrote' \in WroteType /\ \A d \in Caches \ {c} : wrote'[d] = wrote[d]
      BY <3>1, <3>2 DEF CacheInv, WroteType
    <3>4. first \in Fields
      OBVIOUS
    <3>5. /\ PlainHeld' /\ DOMAIN redis \subseteq DOMAIN redis'
          /\ \A k \in DOMAIN redis' : EntryOK(redis'[k])
      BY <1>1, <1>4, <1>6, <3>1, <3>3, <3>4, HSetStep
    <3> QED BY <1>1, <1>2, <1>3, <2>1, <2>2, <3>3, <3>5 DEF CacheInv
  <2> QED BY <2>3, <2>4
<1> QED BY <1>5, <1>6

\* A pipeline's SETs are those of a plain cache.
LEMMA PipelineStep ==
  ASSUME CacheInv, NEW c \in Caches, PipelineSet(c) \/ PipelineFails(c)
  PROVE  CacheInv'
<1>1. UNCHANGED <<cset, writes>> /\ Caches' = Caches /\ \A d : IsHash(d)' = IsHash(d)
  BY DEF PipelineSet, PipelineFails, Caches, IsHash
<1>2. WroteType' = WroteType
  BY <1>1 DEF WroteType
<1>3. ASSUME NEW p, pipe' = [pipe EXCEPT ![c] = p], Piped(p), IsHash(c) => DOMAIN p = {}
      PROVE  /\ DOMAIN pipe' = Caches'
             /\ \A d \in Caches' : Piped(pipe'[d]) /\ (IsHash(d)' => DOMAIN pipe'[d] = {})
  <2>1. DOMAIN pipe' = Caches /\ pipe'[c] = p /\ \A d \in Caches \ {c} : pipe'[d] = pipe[d]
    BY <1>3 DEF CacheInv
  <2> QED BY <1>1, <1>3, <2>1 DEF CacheInv
<1>4. CASE PipelineSet(c)
  <2>1. PICK f \in DOMAIN pipe[c] :
          /\ redis' = SetKey(CacheKey(c, f), f, pipe[c][f])
          /\ \E expire \in BOOLEAN :
               ttl' = IF expire THEN ttl \cup {CacheKey(c, f)} ELSE ttl \ {CacheKey(c, f)}
          /\ wrote' = [wrote EXCEPT ![c][f] = pipe[c][f]]
          /\ pipe' = [pipe EXCEPT ![c] = Restrict(@, DOMAIN @ \ {f})]
    BY <1>4 DEF PipelineSet
  <2> DEFINE p == Restrict(pipe[c], DOMAIN pipe[c] \ {f})
  <2>2. f \in Fields /\ pipe[c][f] \in Values /\ ~IsHash(c)
    BY DEF CacheInv, Piped
  <2>3. /\ wrote' \in WroteType /\ PlainHeld'
        /\ DOMAIN redis' = DOMAIN redis \cup {CacheKey(c, f)}
        /\ \A k \in DOMAIN redis' : EntryOK(redis'[k])
    BY <1>1, <2>1, <2>2, SetStep
  <2>4. ttl' \subseteq DOMAIN redis'
    BY <2>1, <2>3 DEF CacheInv
  <2>5. Piped(p) /\ pipe' = [pipe EXCEPT ![c] = p]
    BY <2>1 DEF CacheInv, Piped, Restrict
  <2> HIDE DEF p
  <2>6. /\ DOMAIN pipe' = Caches'
        /\ \A d \in Caches' : Piped(pipe'[d]) /\ (IsHash(d)' => DOMAIN pipe'[d] = {})
    BY <1>3, <2>2, <2>5
  <2> QED BY <1>1, <1>2, <2>3, <2>4, <2>6 DEF CacheInv
<1>5. CASE PipelineFails(c)
  <2> DEFINE p == [f \in {} |-> NoValue]
  <2>1. pipe' = [pipe EXCEPT ![c] = p] /\ UNCHANGED <<redis, ttl, wrote>>
    BY <1>5 DEF PipelineFails
  <2>2. Piped(p) /\ DOMAIN p = {}
    BY DEF Piped
  <2> HIDE DEF p
  <2>3. /\ DOMAIN pipe' = Caches'
        /\ \A d \in Caches' : Piped(pipe'[d]) /\ (IsHash(d)' => DOMAIN pipe'[d] = {})
    BY <1>3, <2>1, <2>2
  <2> QED BY <1>1, <1>2, <2>1, <2>3, PlainKept DEF CacheInv
<1> QED BY <1>4, <1>5

\* Every command leaves the plain fields as their cache wrote them.
LEMMA CacheStep == CacheInv /\ [CNext]_cvars => CacheInv'
<1> SUFFICES ASSUME CacheInv, [CNext]_cvars PROVE CacheInv'
  OBVIOUS
<1>1. ASSUME NEW c \in Caches, NEW f \in Fields, CacheExpire(c, f) PROVE CacheInv'
  <2>1. UNCHANGED <<cset, redis, pipe, wrote, writes>> /\ ttl' \subseteq DOMAIN redis
    BY <1>1 DEF CacheExpire, CacheInv
  <2>2. Caches' = Caches /\ WroteType' = WroteType /\ \A d : IsHash(d)' = IsHash(d)
    BY <2>1 DEF Caches, IsHash, WroteType
  <2> QED BY <2>1, <2>2, PlainKept DEF CacheInv
<1>2. ASSUME NEW k \in DOMAIN redis, RedisExpires(k) PROVE CacheInv'
  <2>1. UNCHANGED <<cset, pipe, writes>> /\ redis' = Without(k) /\ ttl' = ttl \ {k}
    BY <1>2 DEF RedisExpires
  <2>2. Caches' = Caches /\ WroteType' = WroteType /\ \A d : IsHash(d)' = IsHash(d)
    BY <2>1 DEF Caches, IsHash, WroteType
  <2>3. /\ wrote' \in WroteType
        /\ \A c \in Caches, f \in Fields : wrote'[c][f] = IF CacheKey(c, f) = k THEN NoValue ELSE wrote[c][f]
    BY <1>2 DEF RedisExpires, CacheInv, WroteType
  <2>4. /\ PlainHeld' /\ DOMAIN redis' = DOMAIN redis \ {k}
        /\ \A j \in DOMAIN redis' : EntryOK(redis'[j])
    BY <2>1, <2>3, GoneStep
  <2> QED BY <2>1, <2>2, <2>3, <2>4 DEF CacheInv
<1>3. CASE UNCHANGED cvars
  <2>1. UNCHANGED <<cset, redis, ttl, pipe, wrote, writes>>
    BY <1>3 DEF cvars
  <2>2. Caches' = Caches /\ WroteType' = WroteType /\ \A d : IsHash(d)' = IsHash(d)
    BY <2>1 DEF Caches, IsHash, WroteType
  <2> QED BY <2>1, <2>2, PlainKept DEF CacheInv
<1>4. CASE CNext
  BY <1>1, <1>2, <1>4, CacheSetStep, CacheDeleteStep, CacheSetMultipleStep, PipelineStep DEF CNext
<1> QED BY <1>3, <1>4

\* And so it reads them back, one at a time or together.
LEMMA CacheGoal == CacheInv => CTypeOK /\ PlainReadsBack
<1> SUFFICES ASSUME CacheInv PROVE CTypeOK /\ PlainReadsBack
  OBVIOUS
<1>1. CTypeOK
  BY DEF CTypeOK, CacheInv, WroteType, EntryOK
<1>2. ASSUME NEW c \in Caches, NEW f \in Fields, ~IsHash(c)
      PROVE  /\ CacheGet(c, f) = wrote[c][f] /\ CacheFetch(CacheKey(c, f), f) = wrote[c][f]
             /\ ~WrongType(CacheKey(c, f), FALSE)
             /\ CacheExists(c, f) = (CacheGet(c, f) # NoValue)
  <2> DEFINE k == CacheKey(c, f)
  <2>1. HeldPlain(c, f)
    BY <1>2 DEF CacheInv, PlainHeld
  <2>2. IsHash(c) = FALSE
    BY <1>2 DEF IsHash, CacheInv, CacheAssumption, Caches
  <2>3. ~WrongType(k, FALSE) /\ CacheFetch(k, f) = wrote[c][f] /\ (k \in DOMAIN redis <=> wrote[c][f] # NoValue)
    BY <2>1 DEF HeldPlain, WrongType, CacheFetch
  <2> HIDE DEF k
  <2>4. CacheGet(c, f) = wrote[c][f]
    BY <2>2, <2>3 DEF CacheGet, k
  <2>5. CacheExists(c, f) = (CacheGet(c, f) # NoValue)
    BY <1>2, <2>3, <2>4 DEF CacheExists, k
  <2> QED BY <2>3, <2>4, <2>5 DEF k
<1>3. ASSUME NEW c \in Caches, NEW f \in Fields, ~IsHash(c)
      PROVE  CacheGetMultiple(c, Fields, f) =
               [g \in {h \in Fields : CacheGet(c, h) # NoValue} |-> CacheGet(c, g)]
  <2>1. \A g \in Fields : /\ CacheGet(c, g) = CacheFetch(CacheKey(c, g), g)
                          /\ ~WrongType(CacheKey(c, g), FALSE)
    BY <1>2, <1>3
  <2>2. IsHash(c) = FALSE
    BY <1>3, CacheAssumption DEF IsHash, CacheInv, Caches
  <2>3. CacheGetMultiple(c, Fields, f) =
          [g \in {h \in Fields : ~WrongType(CacheKey(c, h), FALSE) /\ CacheFetch(CacheKey(c, h), h) # NoValue} |->
             CacheFetch(CacheKey(c, g), g)]
    BY <2>2 DEF CacheGetMultiple
  <2>4. {h \in Fields : ~WrongType(CacheKey(c, h), FALSE) /\ CacheFetch(CacheKey(c, h), h) # NoValue}
          = {h \in Fields : CacheGet(c, h) # NoValue}
    BY <2>1
  <2> DEFINE S == {h \in Fields : CacheGet(c, h) # NoValue}
  <2>5. CacheGetMultiple(c, Fields, f) = [g \in S |-> CacheFetch(CacheKey(c, g), g)]
    BY <2>3, <2>4
  <2>6. \A g \in S : CacheFetch(CacheKey(c, g), g) = CacheGet(c, g)
    BY <2>1
  <2> QED BY <2>5, <2>6
<1>4. PlainReadsBack
  BY <1>2, <1>3 DEF PlainReadsBack
<1> QED BY <1>1, <1>4

-----------------------------------------------------------------------------
(* The concurrency manager: tokens, goroutines and counters                 *)

SlotStates == {"out", "rejected", "current", "total", "in", "release", "panic"}
Entered == {"current", "total", "in"}
SlotInv ==
  /\ slotUser \in [SlotUsers -> SlotStates]
  /\ slotCounts \in [current : Int, total : Int, rejected : Int]
  /\ slotUsed \in [calls : Int, extra : Nat]
  /\ tokens \in 0..MaxSlots
  /\ Cardinality(Inside) <= tokens + slotUsed.extra
  /\ slotUsed.extra = 0 => tokens = Cardinality(Inside) /\ SlotsAt({"panic"}) = {}
  /\ slotCounts.current = tokens - Cardinality(SlotsAt({"current"})) + Cardinality(SlotsAt({"release"}))

\* How many are in a set of states, before and after one goroutine moves.
LEMMA SlotMoves ==
  ASSUME slotUser \in [SlotUsers -> SlotStates], NEW u \in SlotUsers, NEW pc \in SlotStates, GoesTo(u, pc),
         NEW A
  PROVE  /\ Cardinality(SlotsAt(A)) \in Nat /\ Cardinality(SlotsAt(A)') \in Nat
         /\ (pc \in A <=> slotUser[u] \in A) => Cardinality(SlotsAt(A)') = Cardinality(SlotsAt(A))
         /\ pc \in A /\ slotUser[u] \notin A => Cardinality(SlotsAt(A)') = Cardinality(SlotsAt(A)) + 1
         /\ pc \notin A /\ slotUser[u] \in A => Cardinality(SlotsAt(A)) = Cardinality(SlotsAt(A)') + 1
<1>1. slotUser'[u] = pc /\ \A w \in SlotUsers : w # u => slotUser'[w] = slotUser[w]
  BY DEF GoesTo
<1>2. SlotsAt(A) \subseteq SlotUsers /\ SlotsAt(A)' \subseteq SlotUsers
  BY DEF SlotsAt
<1>3. IsFiniteSet(SlotsAt(A)) /\ IsFiniteSet(SlotsAt(A)')
  BY <1>2, SlotsAssumption, FS_Subset
<1>4. Cardinality(SlotsAt(A)) \in Nat /\ Cardinality(SlotsAt(A)') \in Nat
  BY <1>3, FS_CardinalityType
<1>5. ASSUME pc \in A <=> slotUser[u] \in A
      PROVE  Cardinality(SlotsAt(A)') = Cardinality(SlotsAt(A))
  <2>1. SlotsAt(A)' = SlotsAt(A)
    BY <1>1, <1>5 DEF SlotsAt
  <2> QED BY <2>1
<1>6. ASSUME pc \in A, slotUser[u] \notin A
      PROVE  Cardinality(SlotsAt(A)') = Cardinality(SlotsAt(A)) + 1
  <2>1. SlotsAt(A)' = SlotsAt(A) \cup {u} /\ u \notin SlotsAt(A)
    BY <1>1, <1>6 DEF SlotsAt
  <2> QED BY <1>3, <2>1, FS_AddElement
<1>7. ASSUME pc \notin A, slotUser[u] \in A
      PROVE  Cardinality(SlotsAt(A)) = Cardinality(SlotsAt(A)') + 1
  <2>1. SlotsAt(A) = SlotsAt(A)' \cup {u} /\ u \notin SlotsAt(A)'
    BY <1>1, <1>7 DEF SlotsAt
  <2> QED BY <1>3, <2>1, FS_AddElement
<1> QED BY <1>4, <1>5, <1>6, <1>7

\* The manager starts with a full complement of slots.
LEMMA SlotStart == SlotInit => SlotInv
<1> SUFFICES ASSUME SlotInit PROVE SlotInv
  OBVIOUS
<1>1. MaxSlots \in Nat \ {0}
  BY SlotsAssumption
<1>2. Inside = {} /\ SlotsAt({"panic"}) = {} /\ SlotsAt({"current"}) = {} /\ SlotsAt({"release"}) = {}
  BY DEF SlotInit, Inside, SlotsAt
<1>3. Cardinality({}) = 0
  BY FS_EmptySet
<1>4. tokens = 0 /\ slotCounts.current = 0 /\ slotUsed.extra = 0
  BY DEF SlotInit
<1>5. slotUser \in [SlotUsers -> SlotStates]
  BY DEF SlotInit, SlotStates
<1>6. slotCounts \in [current : Int, total : Int, rejected : Int] /\ slotUsed \in [calls : Int, extra : Nat]
  BY DEF SlotInit
<1>7. tokens \in 0..MaxSlots
  BY <1>1, <1>4
<1>8. Cardinality(Inside) = 0 /\ Cardinality(SlotsAt({"current"})) = 0 /\ Cardinality(SlotsAt({"release"})) = 0
  BY <1>2, <1>3
<1> QED BY <1>2, <1>4, <1>5, <1>6, <1>7, <1>8 DEF SlotInv

\* Token and count move one goroutine at a time.
LEMMA SlotStep == SlotInv /\ [SlotNext]_slotVars => SlotInv'
<1> SUFFICES ASSUME SlotInv, [SlotNext]_slotVars PROVE SlotInv'
  OBVIOUS
<1>1. MaxSlots \in Nat \ {0}
  BY SlotsAssumption
<1>2. CASE UNCHANGED slotVars
  BY <1>2 DEF slotVars, SlotInv, Inside, SlotsAt
<1>3. CASE SlotNext
  <2>1. PICK u \in SlotUsers :
          \/ Acquire(u) \/ TryAcquire(u) \/ CountCurrent(u) \/ CountTotal(u) \/ CountRejected(u)
          \/ Release(u) \/ ReleaseCount(u)
    BY <1>3 DEF SlotNext
  <2> DEFINE n == Cardinality(Inside)
             k == Cardinality(SlotsAt({"current"}))
             r == Cardinality(SlotsAt({"release"}))
             from == slotUser[u]
  <2>2. ASSUME NEW pc \in SlotStates, GoesTo(u, pc)
        PROVE  /\ slotUser' \in [SlotUsers -> SlotStates] /\ n \in Nat /\ n' \in Nat
               /\ k \in Nat /\ k' \in Nat /\ r \in Nat /\ r' \in Nat
               /\ (pc \in Entered <=> from \in Entered) => n' = n
               /\ pc \in Entered /\ from \notin Entered => n' = n + 1
               /\ pc \notin Entered /\ from \in Entered => n = n' + 1
               /\ (pc = "current" <=> from = "current") => k' = k
               /\ pc = "current" /\ from # "current" => k' = k + 1
               /\ pc # "current" /\ from = "current" => k = k' + 1
               /\ (pc = "release" <=> from = "release") => r' = r
               /\ pc = "release" /\ from # "release" => r' = r + 1
               /\ pc # "release" /\ from = "release" => r = r' + 1
               /\ pc # "panic" /\ SlotsAt({"panic"}) = {} => SlotsAt({"panic"})' = {}
    <3>1. slotUser \in [SlotUsers -> SlotStates]
      BY DEF SlotInv
    <3>2. slotUser' \in [SlotUsers -> SlotStates]
      BY <2>2, <3>1 DEF GoesTo
    <3>3. Inside = SlotsAt(Entered) /\ Inside' = SlotsAt(Entered)'
      BY DEF Inside, Entered
    <3>4. /\ n \in Nat /\ n' \in Nat
          /\ (pc \in Entered <=> from \in Entered) => n' = n
          /\ pc \in Entered /\ from \notin Entered => n' = n + 1
          /\ pc \notin Entered /\ from \in Entered => n = n' + 1
      BY <2>2, <3>1, <3>3, SlotMoves
    <3>5. /\ k \in Nat /\ k' \in Nat
          /\ (pc \in {"current"} <=> from \in {"current"}) => k' = k
          /\ pc \in {"current"} /\ from \notin {"current"} => k' = k + 1
          /\ pc \notin {"current"} /\ from \in {"current"} => k = k' + 1
      BY <2>2, <3>1, SlotMoves
    <3>6. /\ r \in Nat /\ r' \in Nat
          /\ (pc \in {"release"} <=> from \in {"release"}) => r' = r
          /\ pc \in {"release"} /\ from \notin {"release"} => r' = r + 1
          /\ pc \notin {"release"} /\ from \in {"release"} => r = r' + 1
      BY <2>2, <3>1, SlotMoves
    <3>7. ASSUME pc # "panic", SlotsAt({"panic"}) = {} PROVE SlotsAt({"panic"})' = {}
      BY <2>2, <3>1, <3>7 DEF SlotsAt, GoesTo
    <3> HIDE DEF n, k, r, from
    <3> QED BY <3>2, <3>4, <3>5, <3>6, <3>7
  <2>3. /\ tokens \in 0..MaxSlots /\ slotCounts.current \in Int /\ slotUsed.extra \in Nat
        /\ n <= tokens + slotUsed.extra
        /\ slotUsed.extra = 0 => tokens = n /\ SlotsAt({"panic"}) = {}
        /\ slotCounts.current = tokens - k + r
    BY DEF SlotInv
  <2>4. slotCounts \in [current : Int, total : Int, rejected : Int] /\ slotUsed \in [calls : Int, extra : Nat]
    BY DEF SlotInv
  <2>5. SUFFICES
          /\ slotUser' \in [SlotUsers -> SlotStates]
          /\ slotCounts' \in [current : Int, total : Int, rejected : Int]
          /\ slotUsed' \in [calls : Int, extra : Nat]
          /\ tokens' \in 0..MaxSlots
          /\ n' <= tokens' + slotUsed'.extra
          /\ slotUsed'.extra = 0 => tokens' = n' /\ SlotsAt({"panic"})' = {}
          /\ slotCounts'.current = tokens' - k' + r'
    BY DEF SlotInv
  <2>6. /\ Begins => slotUsed' \in [calls : Int, extra : Nat] /\ slotUsed'.extra = slotUsed.extra
        /\ "current" \in SlotStates /\ "rejected" \in SlotStates /\ "total" \in SlotStates
        /\ "in" \in SlotStates /\ "out" \in SlotStates /\ "release" \in SlotStates /\ "panic" \in SlotStates
    BY <2>4 DEF Begins, SlotStates
  <2>7. \A s : s \in Entered <=> s = "current" \/ s = "total" \/ s = "in"
    BY DEF Entered
  <2> HIDE DEF n, k, r, from
  <2>8. CASE Acquire(u) \/ TryAcquire(u)
    <3>1. from = "out" /\ Begins /\ slotCounts' = slotCounts
      BY <2>8 DEF Acquire, TryAcquire, from
    <3>2. CASE tokens < MaxSlots /\ tokens' = tokens + 1 /\ GoesTo(u, "current")
      BY <1>1, <2>2, <2>3, <2>4, <2>6, <2>7, <3>1, <3>2
    <3>3. CASE GoesTo(u, "rejected") /\ tokens' = tokens
      BY <1>1, <2>2, <2>3, <2>4, <2>6, <2>7, <3>1, <3>3
    <3>4. CASE tokens' = tokens /\ slotUser' = slotUser
      <4>1. n' = n /\ k' = k /\ r' = r /\ SlotsAt({"panic"})' = SlotsAt({"panic"})
        BY <3>4 DEF n, k, r, Inside, SlotsAt
      <4>2. slotUser' \in [SlotUsers -> SlotStates]
        BY <3>4 DEF SlotInv
      <4> QED BY <2>3, <2>4, <2>6, <3>1, <3>4, <4>1, <4>2
    <3> QED BY <2>8, <3>2, <3>3, <3>4 DEF Acquire, TryAcquire
  <2>9. CASE CountCurrent(u) \/ CountTotal(u) \/ CountRejected(u) \/ ReleaseCount(u)
    <3>1. tokens' = tokens /\ slotUsed' = slotUsed
      BY <2>9 DEF CountCurrent, CountTotal, CountRejected, ReleaseCount
    <3>2. CASE CountCurrent(u)
      <4>1. from = "current" /\ GoesTo(u, "total")
        BY <3>2 DEF CountCurrent, from
      <4>2. /\ slotCounts' \in [current : Int, total : Int, rejected : Int]
            /\ slotCounts'.current = slotCounts.current + 1
        BY <2>4, <3>2 DEF CountCurrent
      <4> QED BY <2>2, <2>3, <2>4, <2>6, <2>7, <3>1, <4>1, <4>2
    <3>3. CASE CountTotal(u)
      <4>1. from = "total" /\ GoesTo(u, "in")
        BY <3>3 DEF CountTotal, from
      <4>2. /\ slotCounts' \in [current : Int, total : Int, rejected : Int]
            /\ slotCounts'.current = slotCounts.current
        BY <2>4, <3>3 DEF CountTotal
      <4> QED BY <2>2, <2>3, <2>4, <2>6, <2>7, <3>1, <4>1, <4>2
    <3>4. CASE CountRejected(u)
      <4>1. from = "rejected" /\ GoesTo(u, "out")
        BY <3>4 DEF CountRejected, from
      <4>2. /\ slotCounts' \in [current : Int, total : Int, rejected : Int]
            /\ slotCounts'.current = slotCounts.current
        BY <2>4, <3>4 DEF CountRejected
      <4> QED BY <2>2, <2>3, <2>4, <2>6, <2>7, <3>1, <4>1, <4>2
    <3>5. CASE ReleaseCount(u)
      <4>1. from = "release" /\ GoesTo(u, "out")
        BY <3>5 DEF ReleaseCount, from
      <4>2. /\ slotCounts' \in [current : Int, total : Int, rejected : Int]
            /\ slotCounts'.current = slotCounts.current - 1
        BY <2>4, <3>5 DEF ReleaseCount
      <4> QED BY <2>2, <2>3, <2>4, <2>6, <2>7, <3>1, <4>1, <4>2
    <3> QED BY <2>9, <3>2, <3>3, <3>4, <3>5
  <2>10. CASE Release(u)
    <3>1. slotCounts' = slotCounts
      BY <2>10 DEF Release
    <3>2. /\ slotUsed' \in [calls : Int, extra : Nat]
          /\ \/ from = "in" /\ slotUsed'.extra = slotUsed.extra
             \/ from = "out" /\ slotUsed'.extra = slotUsed.extra + 1
      BY <2>4, <2>10 DEF Release, from
    <3>3. CASE tokens > 0
      <4>1. tokens' = tokens - 1 /\ GoesTo(u, "release")
        BY <2>10, <3>3 DEF Release
      <4> QED BY <1>1, <2>2, <2>3, <2>4, <2>6, <2>7, <3>1, <3>2, <3>3, <4>1
    <3>4. CASE ~(tokens > 0)
      <4>1. tokens' = tokens /\ GoesTo(u, "panic") /\ tokens = 0
        BY <1>1, <2>3, <2>10, <3>4 DEF Release
      <4> QED BY <1>1, <2>2, <2>3, <2>4, <2>6, <2>7, <3>1, <3>2, <4>1
    <3> QED BY <3>3, <3>4
  <2> QED BY <2>1, <2>8, <2>9, <2>10
<1> QED BY <1>2, <1>3

\* At most MaxSlots goroutines, and the counts trail the tokens exactly.
LEMMA SlotGoal == SlotInv => SlotsExact
<1> SUFFICES ASSUME SlotInv PROVE SlotsExact
  OBVIOUS
<1>1. MaxSlots \in Nat \ {0}
  BY SlotsAssumption
<1>2. Inside \subseteq SlotUsers /\ SlotsAt({"current"}) \subseteq SlotUsers /\ SlotsAt({"release"}) \subseteq SlotUsers
  BY DEF Inside, SlotsAt
<1>3. /\ IsFiniteSet(Inside) /\ IsFiniteSet(SlotsAt({"current"})) /\ IsFiniteSet(SlotsAt({"release"}))
  BY <1>2, SlotsAssumption, FS_Subset
<1>4. /\ Cardinality(Inside) \in Nat /\ Cardinality(SlotsAt({"current"})) \in Nat
      /\ Cardinality(SlotsAt({"release"})) \in Nat
  BY <1>3, FS_CardinalityType
<1>5. slotUsed.extra \in Nat /\ tokens \in 0..MaxSlots /\ slotCounts.current \in Int
  BY DEF SlotInv
<1>6. Cardinality(Inside) <= MaxSlots + slotUsed.extra
  BY <1>1, <1>4, <1>5 DEF SlotInv
<1>7. Available = MaxSlots - tokens + Cardinality(SlotsAt({"current"})) - Cardinality(SlotsAt({"release"}))
  BY <1>1, <1>4, <1>5 DEF SlotInv, Available
<1> QED BY <1>6, <1>7 DEF SlotInv, SlotsExact

-----------------------------------------------------------------------------
(* Object storage.  Writers of one object that overlap are both known not  *)
(* to be alone, so a call that is alone has the object to itself from its  *)
(* first request to its answer; the object is what acked says of it unless *)
(* a Put has touched it and not answered yet.  Until it copies, a local    *)
(* Put that is alone finds its file as it emptied it, or not at all.       *)

IsLocal(cfg) == Providers[cfg.provider].driver = "filesystem"
KeyAt(cfg, p) == IF IsLocal(cfg) THEN GetFullPath(p) ELSE p
KeySet(cfg) == {KeyAt(cfg, p) : p \in Range(OPaths)}
AllKeys == Range(OPaths) \cup {GetFullPath(p) : p \in Range(OPaths)}

OFileType == [content : OContents \cup {Cut}, ino : Nat]
FilesOK(cfg, fs) ==
  /\ fs \in [DOMAIN fs -> OFileType] /\ IsFiniteSet(DOMAIN fs) /\ DOMAIN fs \subseteq KeySet(cfg)
  /\ IsLocal(cfg) => Outside \notin DOMAIN fs

OCallType ==
  [op : {"none", "Put", "Get", "Delete", "List"},
   at : {"idle", "done", "send", "attrs", "mkdir", "create", "copy", "open", "temp", "fetch",
         "request", "stat", "remove", "page"},
   p : Range(OPaths) \cup {<<>>}, v : OContents \cup {NoContent, Cut}, ino : Nat,
   left : SUBSET DOMAIN OPaths, seen : Seq(Range(OPaths)), stay : SUBSET AllKeys, alone : BOOLEAN,
   result : {"none", "ok", "fault", "missing", "refused"}]

\* Which call is at which step, and on what.
OWay(cfg, r) ==
  /\ r.op = "Get" \/ r.at \notin {"idle", "done"} => r.p \in Range(OPaths)
  /\ r.at \in {"send", "attrs", "mkdir", "create", "copy"} => r.op = "Put" /\ r.v \in OContents
  /\ r.at \in {"request", "stat", "remove"} => r.op = "Delete"
  /\ r.at \in {"open", "temp", "fetch"} => r.op = "Get"
  /\ r.at = "page" <=> r.op = "List" /\ r.at # "done"
  /\ r.at = "idle" <=> r.op = "none"
  /\ r.at \in {"send", "attrs", "request", "temp", "fetch"} => ~IsLocal(cfg)
  /\ r.at \in {"mkdir", "create", "copy", "stat", "remove"} => IsLocal(cfg)

\* What a listing has seen and what it has yet to come to.
PathsOf(left) == {OPaths[i] : i \in left}
ListWay(fs, r) ==
  /\ r.stay \subseteq DOMAIN fs
  /\ r.op = "List" =>
       /\ IsInjective(r.seen) /\ Range(r.seen) \cap PathsOf(r.left) = {}
       /\ r.at = "page" => r.stay \subseteq Range(r.seen) \cup PathsOf(r.left) /\ r.result = "none"
       /\ r.result = "ok" => r.stay \subseteq Range(r.seen)

\* A Put or Delete that has not answered; a Put that has touched the object before.
OWrites(r) == r.at \notin {"idle", "done"} /\ r.op \in {"Put", "Delete"}
ODirty(r) == r.op = "Put" /\ r.at \in {"attrs", "copy"}

Overlaps(cfg, r, q) == OWrites(r) /\ OWrites(q) /\ KeyAt(cfg, r.p) = KeyAt(cfg, q.p)
StoredBy(fs, r) == r.p \in DOMAIN fs /\ fs[r.p].content = r.v
CutFor(cfg, fs, r) == KeyAt(cfg, r.p) \in DOMAIN fs => fs[KeyAt(cfg, r.p)].content = Cut
HoldsFor(fs, x, k) == IF k \in DOMAIN fs THEN fs[k].content = x /\ x # NoContent ELSE x = NoContent

OverlapKnown ==
  \A c, d \in OClients : c # d /\ Overlaps(ocfg, ocall[c], ocall[d]) => ~ocall[c].alone
AttrsStored ==
  \A c \in OClients : ocall[c].at = "attrs" /\ ocall[c].alone => StoredBy(files, ocall[c])
CopyCut ==
  \A c \in OClients : ocall[c].at = "copy" /\ ocall[c].alone => CutFor(ocfg, files, ocall[c])
AckedHolds ==
  \A k \in KeySet(ocfg) :
    \/ acked[k] = "any"
    \/ \E c \in OClients : ODirty(ocall[c]) /\ KeyAt(ocfg, ocall[c].p) = k
    \/ HoldsFor(files, acked[k], k)

\* The directories of the filesystem store.
DirsOK(cfg, fs, ds) ==
  IsLocal(cfg) => DOMAIN fs \cap ds = {} /\ \A k \in DOMAIN fs : Ancestors(k) \subseteq ds

\* The calls that have a temporary file.
HoldsTemp(cfg, r) ==
  r.op = "Get" /\ ~IsLocal(cfg) /\ (r.at = "fetch" \/ (r.at = "done" /\ r.result = "ok"))
TempHolders == {c \in OClients : HoldsTemp(ocfg, ocall[c])}

OTypes ==
  /\ ocfg \in OConfigs /\ Validate(ocfg) /\ ocalls \in 0..ocfg.calls
  /\ FilesOK(ocfg, files)
  /\ ocall \in [OClients -> OCallType] /\ \A c \in OClients : OWay(ocfg, ocall[c])
  /\ acked = [k \in KeySet(ocfg) |-> acked[k]]

OInv ==
  /\ OTypes /\ \A c \in OClients : ListWay(files, ocall[c])
  /\ OverlapKnown /\ AttrsStored /\ CopyCut /\ AckedHolds
  /\ DirsOK(ocfg, files, dirs)
  /\ IsFiniteSet(TempHolders) /\ temps = Cardinality(TempHolders)

Results == {"none", "ok", "fault", "missing", "refused"}

\* Local, ObjectKey and Keys are functions of the configuration, which no step changes.
LEMMA KeyFacts ==
  /\ Local <=> IsLocal(ocfg)
  /\ \A p : ObjectKey(p) = KeyAt(ocfg, p)
  /\ Keys = KeySet(ocfg)
  /\ \A p \in Range(OPaths) : KeyAt(ocfg, p) \in KeySet(ocfg)
<1>1. Local <=> IsLocal(ocfg)
  BY DEF Local, IsLocal
<1>2. \A p : ObjectKey(p) = KeyAt(ocfg, p)
  BY <1>1 DEF ObjectKey, KeyAt
<1>3. \A p \in Range(OPaths) : KeyAt(ocfg, p) \in KeySet(ocfg)
  BY DEF KeySet
<1>4. Keys = KeySet(ocfg)
  BY <1>2, Zenon DEF Keys, KeySet
<1> QED BY <1>1, <1>2, <1>3, <1>4

\* a is q, except that it has forgotten the objects that are gone.
Follows(a, q, new) ==
  /\ a.op = q.op /\ a.at = q.at /\ a.p = q.p /\ a.v = q.v /\ a.left = q.left /\ a.seen = q.seen
  /\ (a.alone <=> q.alone) /\ a.result = q.result /\ a.stay = q.stay \cap DOMAIN new

\* The record that Go writes for a call.
LEMMA FollowsType ==
  ASSUME NEW q \in OCallType, NEW new
  PROVE  LET a == [q EXCEPT !.stay = @ \cap DOMAIN new] IN a \in OCallType /\ Follows(a, q, new)
<1> DEFINE s == q.stay \cap DOMAIN new
<1>1. s \in SUBSET AllKeys
  BY DEF OCallType
<1>2. s = q.stay \cap DOMAIN new
  OBVIOUS
<1> HIDE DEF s
<1> DEFINE a == [q EXCEPT !.stay = s]
<1>3. a \in OCallType
  BY <1>1 DEF OCallType
<1>4. /\ a.op = q.op /\ a.at = q.at /\ a.p = q.p /\ a.v = q.v /\ a.left = q.left /\ a.seen = q.seen
      /\ a.result = q.result /\ a.stay = s
  BY DEF OCallType
<1>5. a.alone = q.alone
  BY DEF OCallType
<1>6. a = [q EXCEPT !.stay = @ \cap DOMAIN new]
  BY <1>2
<1> QED BY <1>2, <1>3, <1>4, <1>5, <1>6, Zenon DEF Follows

\* One call goes on with a record of the right type, the others only forget.
LEMMA GoFields ==
  ASSUME ocall \in [OClients -> OCallType], NEW c \in OClients, NEW r \in OCallType, NEW new, Go(c, r, new)
  PROVE  /\ files' = new /\ ocfg' = ocfg /\ ocalls' = ocalls
         /\ ocall' \in [OClients -> OCallType]
         /\ Follows(ocall'[c], r, new)
         /\ \A d \in OClients : d # c => Follows(ocall'[d], ocall[d], new)
<1> DEFINE w(d) == [(IF d = c THEN r ELSE ocall[d]) EXCEPT !.stay = @ \cap DOMAIN new]
<1>1. ocall' = [d \in OClients |-> w(d)] /\ files' = new /\ ocfg' = ocfg /\ ocalls' = ocalls
  BY DEF Go
<1>2. w(c) \in OCallType /\ Follows(w(c), r, new)
  BY FollowsType
<1>3. ASSUME NEW d \in OClients, d # c PROVE w(d) \in OCallType /\ Follows(w(d), ocall[d], new)
  <2>1. ocall[d] \in OCallType
    OBVIOUS
  <2> QED BY <1>3, <2>1, FollowsType
<1> HIDE DEF w
<1>4. \A d \in OClients : w(d) \in OCallType
  BY <1>2, <1>3, Zenon
<1>5. \A d \in OClients : ocall'[d] = w(d)
  BY <1>1, Zenon
<1>6. ocall' \in [OClients -> OCallType]
  BY <1>1, <1>4, Zenon
<1> QED BY <1>1, <1>2, <1>3, <1>5, <1>6, Zenon

\* What a record says of its call is said of one that follows it.
LEMMA WayFollows ==
  ASSUME NEW cfg, NEW q, NEW a, NEW new, Follows(a, q, new)
  PROVE  /\ OWay(cfg, q) => OWay(cfg, a)
         /\ OWrites(a) <=> OWrites(q)
         /\ ODirty(a) <=> ODirty(q)
         /\ HoldsTemp(cfg, a) <=> HoldsTemp(cfg, q)
         /\ KeyAt(cfg, a.p) = KeyAt(cfg, q.p)
<1>1. a.op = q.op /\ a.at = q.at /\ a.p = q.p /\ a.v = q.v /\ a.result = q.result
  BY DEF Follows
<1>2. OWay(cfg, q) => OWay(cfg, a)
  BY <1>1 DEF OWay
<1>3. (OWrites(a) <=> OWrites(q)) /\ (ODirty(a) <=> ODirty(q))
  BY <1>1 DEF OWrites, ODirty
<1>4. HoldsTemp(cfg, a) <=> HoldsTemp(cfg, q)
  BY <1>1 DEF HoldsTemp
<1>5. KeyAt(cfg, a.p) = KeyAt(cfg, q.p)
  BY <1>1
<1> QED BY <1>2, <1>3, <1>4, <1>5

ListTail(r) ==
  r.op = "List" =>
    /\ IsInjective(r.seen) /\ Range(r.seen) \cap PathsOf(r.left) = {}
    /\ r.at = "page" => r.stay \subseteq Range(r.seen) \cup PathsOf(r.left) /\ r.result = "none"
    /\ r.result = "ok" => r.stay \subseteq Range(r.seen)

\* What holds of a listing holds once it has forgotten the objects that are gone.
LEMMA ListFollows ==
  ASSUME NEW q, NEW a, NEW new, Follows(a, q, new), ListTail(q)
  PROVE  ListWay(new, a)
<1>1. /\ a.op = q.op /\ a.at = q.at /\ a.left = q.left /\ a.seen = q.seen
      /\ a.result = q.result /\ a.stay = q.stay \cap DOMAIN new
  BY DEF Follows
<1> QED BY <1>1 DEF ListTail, ListWay

\* Types, listings and overlaps after a call has gone on.
LEMMA GoKeeps ==
  ASSUME OInv, NEW c \in OClients, NEW r \in OCallType, NEW new, Go(c, r, new),
         FilesOK(ocfg, new), acked' = [k \in KeySet(ocfg) |-> acked'[k]],
         OWay(ocfg, r), ListTail(r),
         OWrites(r) => /\ OWrites(ocall[c]) /\ r.p = ocall[c].p
                       /\ (r.alone <=> ocall[c].alone)
  PROVE  OTypes' /\ (\A d \in OClients : ListWay(files, ocall[d]))' /\ OverlapKnown'
<1>1. /\ ocall \in [OClients -> OCallType] /\ ocfg \in OConfigs /\ Validate(ocfg) /\ ocalls \in 0..ocfg.calls
      /\ \A d \in OClients : OWay(ocfg, ocall[d])
  BY DEF OInv, OTypes
<1>2. /\ files' = new /\ ocfg' = ocfg /\ ocalls' = ocalls
      /\ ocall' \in [OClients -> OCallType]
      /\ Follows(ocall'[c], r, new)
      /\ \A d \in OClients : d # c => Follows(ocall'[d], ocall[d], new)
  BY <1>1, GoFields
<1>3. OTypes'
  <2>1. \A d \in OClients : OWay(ocfg', ocall'[d])
    <3>1. OWay(ocfg, ocall'[c])
      BY <1>2, WayFollows
    <3>2. ASSUME NEW d \in OClients, d # c PROVE OWay(ocfg, ocall'[d])
      BY <1>1, <1>2, <3>2, WayFollows
    <3> QED BY <1>2, <3>1, <3>2, Zenon
  <2>2. Validate(ocfg)' /\ ocfg' \in OConfigs /\ ocalls' \in 0..ocfg'.calls
    <3>1. Validate(ocfg')
      BY <1>1, <1>2, Zenon
    <3> QED BY <1>1, <1>2, <3>1, Zenon
  <2>3. FilesOK(ocfg', files') /\ acked' = [k \in KeySet(ocfg') |-> acked'[k]]
    BY <1>2, Zenon
  <2> QED BY <1>2, <2>1, <2>2, <2>3, Zenon DEF OTypes
<1>4. \A d \in OClients : ListWay(files', ocall'[d])
  <2>1. ListWay(new, ocall'[c])
    BY <1>2, ListFollows
  <2>2. ASSUME NEW d \in OClients, d # c PROVE ListWay(new, ocall'[d])
    <3>1. ListTail(ocall[d])
      BY Zenon DEF OInv, ListWay, ListTail
    <3> QED BY <1>2, <2>2, <3>1, ListFollows
  <2> QED BY <1>2, <2>1, <2>2, Zenon
<1>5. OverlapKnown'
  <2> SUFFICES ASSUME NEW d \in OClients, NEW e \in OClients, d # e, Overlaps(ocfg', ocall'[d], ocall'[e])
               PROVE  ~ocall'[d].alone
    BY DEF OverlapKnown
  <2>1. ASSUME NEW x \in OClients, OWrites(ocall'[x])
        PROVE  /\ OWrites(ocall[x]) /\ KeyAt(ocfg, ocall[x].p) = KeyAt(ocfg, ocall'[x].p)
               /\ (ocall'[x].alone <=> ocall[x].alone)
    <3>1. CASE x = c
      <4>1. OWrites(r) /\ KeyAt(ocfg, ocall'[c].p) = KeyAt(ocfg, r.p)
        BY <1>2, <2>1, <3>1, WayFollows
      <4>2. ocall'[c].alone <=> r.alone
        BY <1>2, Zenon DEF Follows
      <4> QED BY <3>1, <4>1, <4>2, Zenon
    <3>2. CASE x # c
      <4>1. OWrites(ocall[x]) /\ KeyAt(ocfg, ocall'[x].p) = KeyAt(ocfg, ocall[x].p)
        BY <1>2, <2>1, <3>2, WayFollows
      <4>2. ocall'[x].alone <=> ocall[x].alone
        BY <1>2, <3>2, Zenon DEF Follows
      <4> QED BY <4>1, <4>2, Zenon
    <3> QED BY <3>1, <3>2
  <2>2. OWrites(ocall'[d]) /\ OWrites(ocall'[e]) /\ KeyAt(ocfg, ocall'[d].p) = KeyAt(ocfg, ocall'[e].p)
    BY <1>2, Zenon DEF Overlaps
  <2>3. Overlaps(ocfg, ocall[d], ocall[e])
    BY <2>1, <2>2, Zenon DEF Overlaps
  <2>4. ~ocall[d].alone
    BY <2>3, Zenon DEF OInv, OverlapKnown
  <2> QED BY <2>1, <2>2, <2>4, Zenon
<1> QED BY <1>3, <1>4, <1>5, Zenon

\* Only the object k differs between two contents of the store.
Elsewhere(k, old, new) ==
  \A j : j # k => (j \in DOMAIN new <=> j \in DOMAIN old) /\ (j \in DOMAIN old => new[j] = old[j])

\* A call that changes no object.
LEMMA WritesUntouched ==
  ASSUME OInv, NEW c \in OClients, NEW r \in OCallType, Go(c, r, files), acked' = acked,
         r.at \notin {"attrs", "copy"}, ~ODirty(ocall[c])
  PROVE  AttrsStored' /\ CopyCut' /\ AckedHolds'
<1>1. ocall \in [OClients -> OCallType]
  BY DEF OInv, OTypes
<1>2. /\ files' = files /\ ocfg' = ocfg
      /\ Follows(ocall'[c], r, files)
      /\ \A d \in OClients : d # c => Follows(ocall'[d], ocall[d], files)
  BY <1>1, GoFields
<1>3. AttrsStored'
  <2> SUFFICES ASSUME NEW d \in OClients, ocall'[d].at = "attrs", ocall'[d].alone
               PROVE  StoredBy(files', ocall'[d])
    BY DEF AttrsStored
  <2>1. d # c
    BY <1>2 DEF Follows
  <2>2. ocall[d].at = "attrs" /\ ocall[d].alone /\ ocall'[d].p = ocall[d].p /\ ocall'[d].v = ocall[d].v
    BY <1>2, <2>1, Zenon DEF Follows
  <2>3. StoredBy(files, ocall[d])
    BY <2>2, Zenon DEF OInv, AttrsStored
  <2> QED BY <1>2, <2>2, <2>3, Zenon DEF StoredBy
<1>4. AckedHolds'
  <2> SUFFICES ASSUME NEW k \in KeySet(ocfg)
               PROVE  \/ acked'[k] = "any"
                      \/ \E d \in OClients : ODirty(ocall'[d]) /\ KeyAt(ocfg, ocall'[d].p) = k
                      \/ HoldsFor(files, acked'[k], k)
    BY <1>2, Zenon DEF AckedHolds
  <2>1. ASSUME NEW d \in OClients, ODirty(ocall[d]), KeyAt(ocfg, ocall[d].p) = k
        PROVE  ODirty(ocall'[d]) /\ KeyAt(ocfg, ocall'[d].p) = k
    <3>1. d # c
      BY <2>1
    <3> QED BY <1>2, <2>1, <3>1, WayFollows
  <2> QED BY <2>1, Zenon DEF OInv, AckedHolds
<1>5. CopyCut'
  <2> SUFFICES ASSUME NEW d \in OClients, ocall'[d].at = "copy", ocall'[d].alone
               PROVE  CutFor(ocfg, files, ocall'[d])
    BY <1>2, Zenon DEF CopyCut
  <2>1. d # c
    BY <1>2 DEF Follows
  <2>2. ocall[d].at = "copy" /\ ocall[d].alone /\ ocall'[d].p = ocall[d].p
    BY <1>2, <2>1, Zenon DEF Follows
  <2>3. CutFor(ocfg, files, ocall[d])
    BY <2>2, Zenon DEF OInv, CopyCut
  <2> QED BY <2>2, <2>3, Zenon DEF CutFor
<1> QED BY <1>3, <1>4, <1>5

\* A call that answers, and what is then known of its object; or a caller that has
\* removed the file it was given.
LEMMA WritesKnown ==
  ASSUME OInv, NEW c \in OClients, NEW r \in OCallType, NEW new, Go(c, r, new), NEW k \in KeySet(ocfg),
         k = KeyAt(ocfg, ocall[c].p), Elsewhere(k, files, new), NEW x,
         acked' = [acked EXCEPT ![k] = x], r.at \notin {"attrs", "copy"},
         x = "any" \/ HoldsFor(new, x, k),
         OWrites(ocall[c]) \/ (IsLocal(ocfg) /\ k \notin DOMAIN new)
  PROVE  AttrsStored' /\ CopyCut' /\ AckedHolds'
<1>1. ocall \in [OClients -> OCallType] /\ (\A d \in OClients : OWay(ocfg, ocall[d]))
  BY DEF OInv, OTypes
<1>2. /\ files' = new /\ ocfg' = ocfg
      /\ Follows(ocall'[c], r, new)
      /\ \A d \in OClients : d # c => Follows(ocall'[d], ocall[d], new)
  BY <1>1, GoFields
<1>3. AttrsStored'
  <2> SUFFICES ASSUME NEW d \in OClients, ocall'[d].at = "attrs", ocall'[d].alone
               PROVE  StoredBy(new, ocall'[d])
    BY <1>2, Zenon DEF AttrsStored
  <2>1. d # c
    BY <1>2 DEF Follows
  <2>2. ocall[d].at = "attrs" /\ ocall[d].alone /\ ocall'[d].p = ocall[d].p /\ ocall'[d].v = ocall[d].v
    BY <1>2, <2>1, Zenon DEF Follows
  <2>3. StoredBy(files, ocall[d])
    BY <2>2, Zenon DEF OInv, AttrsStored
  <2>4. ~IsLocal(ocfg) /\ OWrites(ocall[d]) /\ KeyAt(ocfg, ocall[d].p) = ocall[d].p
    BY <1>1, <2>2 DEF OWay, OWrites, KeyAt
  <2>5. ocall[d].p # k
    <3>1. ~Overlaps(ocfg, ocall[d], ocall[c])
      BY <2>1, <2>2, Zenon DEF OInv, OverlapKnown
    <3> QED BY <2>4, <3>1, Zenon DEF Overlaps
  <2> QED BY <2>2, <2>3, <2>5, Zenon DEF StoredBy, Elsewhere
<1>4. AckedHolds'
  <2> SUFFICES ASSUME NEW j \in KeySet(ocfg)
               PROVE  \/ acked'[j] = "any"
                      \/ \E d \in OClients : ODirty(ocall'[d]) /\ KeyAt(ocfg, ocall'[d].p) = j
                      \/ HoldsFor(new, acked'[j], j)
    BY <1>2, Zenon DEF AckedHolds
  <2>0. acked = [i \in KeySet(ocfg) |-> acked[i]]
    BY DEF OInv, OTypes
  <2>1. CASE j = k
    <3>1. acked'[k] = x
      BY <2>0
    <3> QED BY <2>1, <3>1, Zenon
  <2>2. CASE j # k
    <3>1. acked'[j] = acked[j]
      BY <2>0, <2>2
    <3>2. ASSUME NEW d \in OClients, ODirty(ocall[d]), KeyAt(ocfg, ocall[d].p) = j
          PROVE  ODirty(ocall'[d]) /\ KeyAt(ocfg, ocall'[d].p) = j
      <4>1. d # c
        BY <2>2, <3>2
      <4> QED BY <1>2, <3>2, <4>1, WayFollows
    <3>3. HoldsFor(files, acked[j], j) => HoldsFor(new, acked[j], j)
      BY <2>2, Zenon DEF HoldsFor, Elsewhere
    <3> QED BY <3>1, <3>2, <3>3, Zenon DEF OInv, AckedHolds
  <2> QED BY <2>1, <2>2
<1>5. CopyCut'
  <2> SUFFICES ASSUME NEW d \in OClients, ocall'[d].at = "copy", ocall'[d].alone
               PROVE  CutFor(ocfg, new, ocall'[d])
    BY <1>2, Zenon DEF CopyCut
  <2>1. d # c
    BY <1>2 DEF Follows
  <2>2. ocall[d].at = "copy" /\ ocall[d].alone /\ ocall'[d].p = ocall[d].p
    BY <1>2, <2>1, Zenon DEF Follows
  <2>3. CutFor(ocfg, files, ocall[d])
    BY <2>2, Zenon DEF OInv, CopyCut
  <2>4. OWrites(ocall[d])
    BY <1>1, <2>2 DEF OWay, OWrites
  <2>5. KeyAt(ocfg, ocall[d].p) # k \/ k \notin DOMAIN new
    <3>1. ~Overlaps(ocfg, ocall[d], ocall[c])
      BY <2>1, <2>2, Zenon DEF OInv, OverlapKnown
    <3> QED BY <2>4, <3>1, Zenon DEF Overlaps
  <2> QED BY <2>2, <2>3, <2>5, Zenon DEF CutFor, Elsewhere
<1> QED BY <1>3, <1>4, <1>5

\* A Put that has touched its object and goes on.
LEMMA WritesDirty ==
  ASSUME OInv, NEW c \in OClients, NEW r \in OCallType, NEW new, Go(c, r, new), NEW k,
         k = KeyAt(ocfg, ocall[c].p), Elsewhere(k, files, new), acked' = acked,
         OWrites(ocall[c]), ODirty(r), r.p = ocall[c].p, r.at = "attrs" => StoredBy(new, r),
         r.at = "copy" => CutFor(ocfg, new, r)
  PROVE  AttrsStored' /\ CopyCut' /\ AckedHolds'
<1>1. ocall \in [OClients -> OCallType] /\ (\A d \in OClients : OWay(ocfg, ocall[d]))
  BY DEF OInv, OTypes
<1>2. /\ files' = new /\ ocfg' = ocfg
      /\ Follows(ocall'[c], r, new)
      /\ \A d \in OClients : d # c => Follows(ocall'[d], ocall[d], new)
  BY <1>1, GoFields
<1>3. AttrsStored'
  <2> SUFFICES ASSUME NEW d \in OClients, ocall'[d].at = "attrs", ocall'[d].alone
               PROVE  StoredBy(new, ocall'[d])
    BY <1>2, Zenon DEF AttrsStored
  <2>0. CASE d = c
    BY <1>2, <2>0, Zenon DEF Follows, StoredBy
  <2>1. CASE d # c
    <3>2. ocall[d].at = "attrs" /\ ocall[d].alone /\ ocall'[d].p = ocall[d].p /\ ocall'[d].v = ocall[d].v
      BY <1>2, <2>1, Zenon DEF Follows
    <3>3. StoredBy(files, ocall[d])
      BY <3>2, Zenon DEF OInv, AttrsStored
    <3>4. OWrites(ocall[d]) /\ KeyAt(ocfg, ocall[d].p) = ocall[d].p
      BY <1>1, <3>2 DEF OWay, OWrites, KeyAt
    <3>5. ocall[d].p # k
      <4>1. ~Overlaps(ocfg, ocall[d], ocall[c])
        BY <2>1, <3>2, Zenon DEF OInv, OverlapKnown
      <4> QED BY <3>4, <4>1, Zenon DEF Overlaps
    <3> QED BY <3>2, <3>3, <3>5, Zenon DEF StoredBy, Elsewhere
  <2> QED BY <2>0, <2>1
<1>4. AckedHolds'
  <2> SUFFICES ASSUME NEW j \in KeySet(ocfg)
               PROVE  \/ acked[j] = "any"
                      \/ \E d \in OClients : ODirty(ocall'[d]) /\ KeyAt(ocfg, ocall'[d].p) = j
                      \/ HoldsFor(new, acked[j], j)
    BY <1>2, Zenon DEF AckedHolds
  <2>1. CASE j = k
    <3>1. ODirty(ocall'[c]) /\ KeyAt(ocfg, ocall'[c].p) = KeyAt(ocfg, r.p)
      BY <1>2, WayFollows
    <3> QED BY <2>1, <3>1, Zenon
  <2>2. CASE j # k
    <3>2. ASSUME NEW d \in OClients, ODirty(ocall[d]), KeyAt(ocfg, ocall[d].p) = j
          PROVE  ODirty(ocall'[d]) /\ KeyAt(ocfg, ocall'[d].p) = j
      <4>1. d # c
        BY <2>2, <3>2
      <4> QED BY <1>2, <3>2, <4>1, WayFollows
    <3>3. HoldsFor(files, acked[j], j) => HoldsFor(new, acked[j], j)
      BY <2>2, Zenon DEF HoldsFor, Elsewhere
    <3> QED BY <3>2, <3>3, Zenon DEF OInv, AckedHolds
  <2> QED BY <2>1, <2>2
<1>5. CopyCut'
  <2> SUFFICES ASSUME NEW d \in OClients, ocall'[d].at = "copy", ocall'[d].alone
               PROVE  CutFor(ocfg, new, ocall'[d])
    BY <1>2, Zenon DEF CopyCut
  <2>0. CASE d = c
    BY <1>2, <2>0, Zenon DEF Follows, CutFor
  <2>1. CASE d # c
    <3>2. ocall[d].at = "copy" /\ ocall[d].alone /\ ocall'[d].p = ocall[d].p
      BY <1>2, <2>1, Zenon DEF Follows
    <3>3. CutFor(ocfg, files, ocall[d])
      BY <3>2, Zenon DEF OInv, CopyCut
    <3>4. OWrites(ocall[d])
      BY <1>1, <3>2 DEF OWay, OWrites
    <3>5. KeyAt(ocfg, ocall[d].p) # k
      <4>1. ~Overlaps(ocfg, ocall[d], ocall[c])
        BY <2>1, <3>2, Zenon DEF OInv, OverlapKnown
      <4> QED BY <3>4, <4>1, Zenon DEF Overlaps
    <3> QED BY <3>2, <3>3, <3>5, Zenon DEF CutFor, Elsewhere
  <2> QED BY <2>0, <2>1
<1> QED BY <1>3, <1>4, <1>5

\* The temporary files: a call that has one before and after, or neither, or gets one,
\* or loses it.
LEMMA GoTemps ==
  ASSUME OInv, NEW c \in OClients, NEW r \in OCallType, NEW new, Go(c, r, new),
         \/ (HoldsTemp(ocfg, r) <=> HoldsTemp(ocfg, ocall[c])) /\ temps' = temps
         \/ HoldsTemp(ocfg, r) /\ ~HoldsTemp(ocfg, ocall[c]) /\ temps' = temps + 1
         \/ ~HoldsTemp(ocfg, r) /\ HoldsTemp(ocfg, ocall[c]) /\ temps' = temps - 1
  PROVE  (IsFiniteSet(TempHolders) /\ temps = Cardinality(TempHolders))'
<1>1. ocall \in [OClients -> OCallType] /\ IsFiniteSet(TempHolders) /\ temps = Cardinality(TempHolders)
  BY DEF OInv, OTypes
<1>2. /\ ocfg' = ocfg /\ Follows(ocall'[c], r, new)
      /\ \A d \in OClients : d # c => Follows(ocall'[d], ocall[d], new)
  BY <1>1, GoFields
<1>3. HoldsTemp(ocfg, ocall'[c]) <=> HoldsTemp(ocfg, r)
  BY <1>2, WayFollows
<1>4. \A d \in OClients : d # c => (HoldsTemp(ocfg, ocall'[d]) <=> HoldsTemp(ocfg, ocall[d]))
  BY <1>2, WayFollows
<1> DEFINE A == TempHolders
           B == TempHolders'
<1>5. /\ c \in A <=> HoldsTemp(ocfg, ocall[c])
      /\ c \in B <=> HoldsTemp(ocfg, r)
      /\ \A d : d # c => (d \in B <=> d \in A)
  BY <1>2, <1>3, <1>4, Zenon DEF TempHolders
<1>6. IsFiniteSet(A) /\ temps = Cardinality(A)
  BY <1>1
<1> HIDE DEF A, B
<1>7. CASE (HoldsTemp(ocfg, r) <=> HoldsTemp(ocfg, ocall[c])) /\ temps' = temps
  <2>0. c \in B <=> c \in A
    BY <1>5, <1>7, Zenon
  <2>1. A = B
    BY <1>5, <2>0, SMT
  <2> QED BY <1>6, <1>7, <2>1, Zenon DEF B
<1>8. CASE HoldsTemp(ocfg, r) /\ ~HoldsTemp(ocfg, ocall[c]) /\ temps' = temps + 1
  <2>1. B = A \cup {c} /\ c \notin A
    BY <1>5, <1>8, Zenon
  <2>2. IsFiniteSet(B) /\ Cardinality(B) = Cardinality(A) + 1
    BY <1>6, <2>1, FS_AddElement
  <2> QED BY <1>6, <1>8, <2>2 DEF B
<1>9. CASE ~HoldsTemp(ocfg, r) /\ HoldsTemp(ocfg, ocall[c]) /\ temps' = temps - 1
  <2>1. B = A \ {c} /\ c \in A
    BY <1>5, <1>9, Zenon
  <2>2. IsFiniteSet(B) /\ Cardinality(B) = Cardinality(A) - 1
    BY <1>6, <2>1, FS_RemoveElement
  <2> QED BY <1>6, <1>9, <2>2 DEF B
<1> QED BY <1>7, <1>8, <1>9

\* a is q, which may have learnt that it is not alone.
Kin(a, q) ==
  /\ a.op = q.op /\ a.at = q.at /\ a.p = q.p /\ a.v = q.v /\ a.left = q.left /\ a.seen = q.seen
  /\ a.result = q.result /\ a.stay = q.stay /\ (a.alone => q.alone)

\* What a record says of its call is said of its kin.
LEMMA KinWay ==
  ASSUME NEW cfg, NEW fs, NEW q, NEW a, Kin(a, q)
  PROVE  /\ OWay(cfg, q) => OWay(cfg, a)
         /\ ListWay(fs, q) => ListWay(fs, a)
         /\ OWrites(a) <=> OWrites(q)
         /\ ODirty(a) <=> ODirty(q)
         /\ HoldsTemp(cfg, a) <=> HoldsTemp(cfg, q)
         /\ KeyAt(cfg, a.p) = KeyAt(cfg, q.p)
<1>1. /\ a.op = q.op /\ a.at = q.at /\ a.p = q.p /\ a.v = q.v /\ a.left = q.left /\ a.seen = q.seen
      /\ a.result = q.result /\ a.stay = q.stay
  BY DEF Kin
<1>2. OWay(cfg, q) => OWay(cfg, a)
  BY <1>1 DEF OWay
<1>3. ListWay(fs, q) => ListWay(fs, a)
  BY <1>1 DEF ListWay
<1>4. (OWrites(a) <=> OWrites(q)) /\ (ODirty(a) <=> ODirty(q))
  BY <1>1 DEF OWrites, ODirty
<1>5. HoldsTemp(cfg, a) <=> HoldsTemp(cfg, q)
  BY <1>1 DEF HoldsTemp
<1>6. KeyAt(cfg, a.p) = KeyAt(cfg, q.p)
  BY <1>1
<1> QED BY <1>2, <1>3, <1>4, <1>5, <1>6

\* A call begins, or is refused, with record n; nothing but the calls changes.
LEMMA CallBegins ==
  ASSUME OInv, NEW c \in OClients, NEW n, ocall[c].at = "idle",
         ocall' \in [OClients -> OCallType], ocall'[c] = n,
         \A d \in OClients : d # c => Kin(ocall'[d], ocall[d]),
         ocalls' \in 0..ocfg.calls, UNCHANGED <<ocfg, files, dirs, temps, acked>>,
         OWay(ocfg, n), ListWay(files, n), n.at \notin {"attrs", "copy"}, ~ODirty(n), ~HoldsTemp(ocfg, n),
         \A d \in OClients : d # c /\ Overlaps(ocfg, n, ocall[d]) => ~n.alone /\ ~ocall'[d].alone
  PROVE  OInv'
<1>0. /\ ocfg' = ocfg /\ files' = files /\ dirs' = dirs /\ temps' = temps /\ acked' = acked
  OBVIOUS
<1>1. /\ ocfg \in OConfigs /\ Validate(ocfg) /\ FilesOK(ocfg, files) /\ acked = [k \in KeySet(ocfg) |-> acked[k]]
      /\ \A d \in OClients : OWay(ocfg, ocall[d]) /\ ListWay(files, ocall[d])
  BY DEF OInv, OTypes
<1>2. ~OWrites(ocall[c]) /\ ~ODirty(ocall[c]) /\ ~HoldsTemp(ocfg, ocall[c])
  BY DEF OWrites, ODirty, HoldsTemp
<1>3. ASSUME NEW d \in OClients, d # c
      PROVE  /\ OWay(ocfg, ocall'[d]) /\ ListWay(files, ocall'[d])
             /\ OWrites(ocall'[d]) <=> OWrites(ocall[d])
             /\ ODirty(ocall'[d]) <=> ODirty(ocall[d])
             /\ HoldsTemp(ocfg, ocall'[d]) <=> HoldsTemp(ocfg, ocall[d])
             /\ KeyAt(ocfg, ocall'[d].p) = KeyAt(ocfg, ocall[d].p)
  BY <1>1, <1>3, KinWay
<1>4. OTypes'
  <2>1. \A d \in OClients : OWay(ocfg', ocall'[d])
    BY <1>0, <1>3, Zenon
  <2>2. Validate(ocfg')
    BY <1>0, <1>1, Zenon
  <2> QED BY <1>0, <1>1, <2>1, <2>2, Zenon DEF OTypes
<1>5. (\A d \in OClients : ListWay(files, ocall[d]))'
  BY <1>0, <1>3, Zenon
<1>6. OverlapKnown'
  <2> SUFFICES ASSUME NEW d \in OClients, NEW e \in OClients, d # e, Overlaps(ocfg, ocall'[d], ocall'[e])
               PROVE  ~ocall'[d].alone
    BY <1>0, Zenon DEF OverlapKnown
  <2>1. CASE d = c
    <3>1. Overlaps(ocfg, n, ocall[e])
      BY <1>3, <2>1, Zenon DEF Overlaps
    <3> QED BY <2>1, <3>1, Zenon
  <2>2. CASE e = c
    <3>1. Overlaps(ocfg, n, ocall[d])
      BY <1>3, <2>2, Zenon DEF Overlaps
    <3> QED BY <2>2, <3>1, Zenon
  <2>3. CASE d # c /\ e # c
    <3>1. Overlaps(ocfg, ocall[d], ocall[e])
      BY <1>3, <2>3, Zenon DEF Overlaps
    <3>2. ~ocall[d].alone
      BY <3>1, Zenon DEF OInv, OverlapKnown
    <3> QED BY <2>3, <3>2, Zenon DEF Kin
  <2> QED BY <2>1, <2>2, <2>3
<1>7. AttrsStored'
  <2> SUFFICES ASSUME NEW d \in OClients, ocall'[d].at = "attrs", ocall'[d].alone
               PROVE  StoredBy(files, ocall'[d])
    BY <1>0, Zenon DEF AttrsStored
  <2>1. d # c
    OBVIOUS
  <2>2. ocall[d].at = "attrs" /\ ocall[d].alone /\ ocall'[d].p = ocall[d].p /\ ocall'[d].v = ocall[d].v
    BY <2>1, Zenon DEF Kin
  <2>3. StoredBy(files, ocall[d])
    BY <2>2, Zenon DEF OInv, AttrsStored
  <2> QED BY <2>2, <2>3, Zenon DEF StoredBy
<1>8. AckedHolds'
  <2> SUFFICES ASSUME NEW k \in KeySet(ocfg)
               PROVE  \/ acked[k] = "any"
                      \/ \E d \in OClients : ODirty(ocall'[d]) /\ KeyAt(ocfg, ocall'[d].p) = k
                      \/ HoldsFor(files, acked[k], k)
    BY <1>0, Zenon DEF AckedHolds
  <2>1. ASSUME NEW d \in OClients, ODirty(ocall[d]), KeyAt(ocfg, ocall[d].p) = k
        PROVE  ODirty(ocall'[d]) /\ KeyAt(ocfg, ocall'[d].p) = k
    BY <1>2, <1>3, <2>1, Zenon
  <2> QED BY <2>1, Zenon DEF OInv, AckedHolds
<1>9. TempHolders' = TempHolders
  <2>1. \A d \in OClients : HoldsTemp(ocfg', ocall'[d]) <=> HoldsTemp(ocfg, ocall[d])
    BY <1>0, <1>2, <1>3, Zenon
  <2> QED BY <2>1, Zenon DEF TempHolders
<1>10. DirsOK(ocfg', files', dirs') /\ (IsFiniteSet(TempHolders) /\ temps = Cardinality(TempHolders))'
  BY <1>0, <1>9, Zenon DEF OInv
<1>11. CopyCut'
  <2> SUFFICES ASSUME NEW d \in OClients, ocall'[d].at = "copy", ocall'[d].alone
               PROVE  CutFor(ocfg, files, ocall'[d])
    BY <1>0, Zenon DEF CopyCut
  <2>1. d # c
    OBVIOUS
  <2>2. ocall[d].at = "copy" /\ ocall[d].alone /\ ocall'[d].p = ocall[d].p
    BY <2>1, Zenon DEF Kin
  <2>3. CutFor(ocfg, files, ocall[d])
    BY <2>2, Zenon DEF OInv, CopyCut
  <2> QED BY <2>2, <2>3, Zenon DEF CutFor
<1> QED BY <1>4, <1>5, <1>6, <1>7, <1>8, <1>10, <1>11, Zenon DEF OInv

\* Nothing has been seen yet.
LEMMA NothingSeen ==
  <<>> \in Seq(Range(OPaths)) /\ IsInjective(<<>>) /\ Range(<<>>) = {}
<1>1. <<>> \in Seq(Range(OPaths)) /\ DOMAIN <<>> = {}
  OBVIOUS
<1>2. IsInjective(<<>>) /\ Range(<<>>) = {}
  BY <1>1, Zenon DEF IsInjective, Range
<1> QED BY <1>1, <1>2

\* The record of no call.
LEMMA RestingType ==
  /\ Resting \in OCallType /\ Resting.op = "none" /\ Resting.at = "idle" /\ Resting.left = {}
  /\ Resting.seen = <<>> /\ Resting.result = "none" /\ Resting.stay = {}
<1> DEFINE none == {k \in AllKeys : FALSE}
           n == [op |-> "none", at |-> "idle", p |-> <<>>, v |-> NoContent, ino |-> 0, left |-> {}, seen |-> <<>>,
                 stay |-> none, alone |-> TRUE, result |-> "none"]
<1>1. none = {} /\ none \in SUBSET AllKeys
  OBVIOUS
<1>2. Resting = n
  BY <1>1, Zenon DEF Resting
<1>3. 0 \in Nat /\ <<>> \in Seq(Range(OPaths)) /\ {} \in SUBSET DOMAIN OPaths
  BY NothingSeen
<1>4. <<>> \in Range(OPaths) \cup {<<>>} /\ NoContent \in OContents \cup {NoContent, Cut}
  OBVIOUS
<1>5. n \in OCallType
  <2> HIDE DEF none
  <2> QED BY <1>1, <1>3, <1>4 DEF OCallType
<1>6. n.op = "none" /\ n.at = "idle" /\ n.left = {} /\ n.seen = <<>> /\ n.result = "none" /\ n.stay = none
  BY Zenon
<1> QED BY <1>1, <1>2, <1>5, <1>6, Zenon

\* A call that the store accepts.
LEMMA CallStarts ==
  ASSUME OInv, NEW c \in OClients, NEW op \in {"Put", "Get", "Delete", "List"},
         NEW at \in {"send", "mkdir", "open", "request", "stat", "page"}, NEW p \in Range(OPaths),
         NEW v \in OContents \cup {NoContent}, NEW left \in SUBSET DOMAIN OPaths,
         StartCall(c, op, at, p, v, left),
         op = "Put" => v \in OContents /\ at = (IF Local THEN "mkdir" ELSE "send"),
         op = "Get" => at = "open",
         op = "Delete" => at = (IF Local THEN "stat" ELSE "request"),
         op = "List" => at = "page" /\ {j \in DOMAIN files : Covers(ObjectKey(p), j)} \subseteq PathsOf(left)
  PROVE  OInv'
<1> DEFINE k == ObjectKey(p)
           stay == {j \in DOMAIN files : op = "List" /\ Covers(k, j)}
           alone == \A d \in OClients : ~Writing(d, k)
<1>0. /\ ocall \in [OClients -> OCallType] /\ FilesOK(ocfg, files) /\ ocalls \in 0..ocfg.calls
      /\ ocfg \in OConfigs
  BY DEF OInv, OTypes
<1>2. /\ ocall[c].at = "idle" /\ ocalls < ocfg.calls /\ ocalls' = ocalls + 1
      /\ ocall' = [d \in OClients |->
                     IF d = c
                     THEN [Resting EXCEPT !.op = op, !.at = at, !.p = p, !.v = v, !.left = left,
                                          !.stay = stay, !.alone = alone]
                     ELSE IF op \in {"Put", "Delete"} /\ Writing(d, k) THEN [ocall[d] EXCEPT !.alone = FALSE]
                     ELSE ocall[d]]
      /\ UNCHANGED <<ocfg, files, dirs, temps, acked>>
  BY Zenon DEF StartCall
<1>3. stay \in SUBSET AllKeys /\ alone \in BOOLEAN /\ stay \subseteq DOMAIN files
  <2>1. KeySet(ocfg) \subseteq AllKeys
    BY DEF KeySet, KeyAt, AllKeys
  <2> QED BY <1>0, <2>1 DEF FilesOK
<1>4. k = KeyAt(ocfg, p) /\ \A d \in OClients : Writing(d, k) <=> OWrites(ocall[d]) /\ KeyAt(ocfg, ocall[d].p) = k
  BY KeyFacts, Zenon DEF Writing, Busy, OWrites
<1>5. op = "List" => stay \subseteq PathsOf(left)
  OBVIOUS
<1>6. op # "List" => stay = {}
  OBVIOUS
<1> DEFINE s2 == stay
           a2 == alone
           n2 == [Resting EXCEPT !.op = op, !.at = at, !.p = p, !.v = v, !.left = left, !.stay = s2, !.alone = a2]
<1>7. ocall' = [d \in OClients |->
                     IF d = c THEN n2
                     ELSE IF op \in {"Put", "Delete"} /\ Writing(d, k) THEN [ocall[d] EXCEPT !.alone = FALSE]
                     ELSE ocall[d]]
  BY <1>2, Zenon
<1>8. a2 <=> \A d \in OClients : ~Writing(d, k)
  OBVIOUS
<1>9. /\ s2 \in SUBSET AllKeys /\ a2 \in BOOLEAN /\ s2 \subseteq DOMAIN files
      /\ op = "List" => s2 \subseteq PathsOf(left)
  BY <1>3, <1>5
<1> HIDE DEF s2, a2
<1>10. /\ n2.op = op /\ n2.at = at /\ n2.p = p /\ n2.v = v /\ n2.left = left /\ n2.seen = <<>>
       /\ n2.stay = s2 /\ n2.result = "none"
  BY RestingType DEF OCallType
<1>11. n2.alone = a2 /\ n2 \in OCallType
  <2>1. v \in OContents \cup {NoContent, Cut} /\ p \in Range(OPaths) \cup {<<>>}
    OBVIOUS
  <2>2. n2 \in OCallType
    BY <1>9, <2>1, RestingType DEF OCallType
  <2>3. n2.alone = a2
    BY RestingType DEF OCallType
  <2> QED BY <2>2, <2>3
<1> HIDE DEF n2
<1> HIDE DEF k
<1>13. ocall'[c] = n2
  BY <1>7, Zenon
<1>14. ASSUME NEW d \in OClients, d # c
       PROVE  /\ ocall'[d] \in OCallType /\ Kin(ocall'[d], ocall[d])
              /\ op \in {"Put", "Delete"} /\ Writing(d, k) => ~ocall'[d].alone
  <2>1. ocall[d] \in OCallType
    BY <1>0
  <2>2. CASE op \in {"Put", "Delete"} /\ Writing(d, k)
    <3> DEFINE q == ocall[d]
               z == [q EXCEPT !.alone = FALSE]
    <3>1. ocall'[d] = z
      BY <1>7, <1>14, <2>2, Zenon
    <3>0. q \in OCallType
      BY <2>1
    <3> HIDE DEF q
    <3>2. /\ z.op = q.op /\ z.at = q.at /\ z.p = q.p /\ z.v = q.v /\ z.left = q.left /\ z.seen = q.seen
          /\ z.result = q.result /\ z.stay = q.stay
      BY <3>0 DEF OCallType
    <3>3. z.alone = FALSE
      BY <3>0 DEF OCallType
    <3>4. z \in OCallType
      BY <3>0 DEF OCallType
    <3>5. Kin(z, q)
      BY <3>2, <3>3, Zenon DEF Kin
    <3> QED BY <3>1, <3>3, <3>4, <3>5, Zenon DEF q
  <2>3. CASE ~(op \in {"Put", "Delete"} /\ Writing(d, k))
    <3>1. ocall'[d] = ocall[d]
      BY <1>7, <1>14, <2>3, Zenon
    <3> QED BY <2>1, <2>3, <3>1, Zenon DEF Kin
  <2> QED BY <2>2, <2>3
<1>15. ocall' \in [OClients -> OCallType]
  <2>1. \A d \in OClients : ocall'[d] \in OCallType
    BY <1>11, <1>13, <1>14, Zenon
  <2>2. ocall' = [d \in OClients |-> ocall'[d]]
    BY <1>7, Zenon
  <2> QED BY <2>1, <2>2, Zenon
<1>16. OWay(ocfg, n2)
  <2>1. Local <=> IsLocal(ocfg)
    BY KeyFacts
  <2> QED BY <1>10, <2>1 DEF OWay
<1>17. ListWay(files, n2)
  <2>1. IsInjective(n2.seen) /\ Range(n2.seen) = {}
    BY <1>10, NothingSeen
  <2> QED BY <1>9, <1>10, <2>1 DEF ListWay
<1>18. n2.at \notin {"attrs", "copy"} /\ ~ODirty(n2) /\ ~HoldsTemp(ocfg, n2)
  BY <1>10 DEF ODirty, HoldsTemp
<1>19. \A d \in OClients : d # c /\ Overlaps(ocfg, n2, ocall[d]) => ~n2.alone /\ ~ocall'[d].alone
  <2> SUFFICES ASSUME NEW d \in OClients, d # c, Overlaps(ocfg, n2, ocall[d])
               PROVE  ~n2.alone /\ ~ocall'[d].alone
    OBVIOUS
  <2>1. op \in {"Put", "Delete"} /\ Writing(d, k)
    BY <1>4, <1>10, Zenon DEF Overlaps, OWrites
  <2> QED BY <1>8, <1>11, <1>14, <2>1, Zenon
<1>20. ocalls' \in 0..ocfg.calls
  <2>1. ocfg.calls \in Nat /\ ocalls \in 0..ocfg.calls
    BY <1>0, ObjectAssumption
  <2>2. ocalls < ocfg.calls /\ ocalls' = ocalls + 1
    BY <1>2, Zenon
  <2> QED BY ONLY <2>1, <2>2
<1> QED BY <1>2, <1>13, <1>14, <1>15, <1>16, <1>17, <1>18, <1>19, <1>20, CallBegins

\* A call with an empty path, or of what is below a file.
LEMMA CallRefused ==
  ASSUME OInv, NEW c \in OClients, NEW op \in {"Put", "Delete", "List"}, Refuse(c, op)
  PROVE  OInv'
<1> DEFINE n == [Resting EXCEPT !.op = op, !.at = "done", !.result = "refused"]
<1>0. /\ ocall \in [OClients -> OCallType] /\ ocalls \in 0..ocfg.calls /\ ocfg \in OConfigs
  BY DEF OInv, OTypes
<1>3. /\ ocall[c].at = "idle" /\ ocalls < ocfg.calls /\ ocalls' = ocalls + 1
      /\ ocall' = [ocall EXCEPT ![c] = n]
      /\ UNCHANGED <<ocfg, files, dirs, temps, acked>>
  BY Zenon DEF Refuse
<1>4. /\ n.op = op /\ n.at = "done" /\ n.seen = <<>> /\ n.stay = {} /\ n.result = "refused" /\ n.left = {}
  BY RestingType DEF OCallType
<1>5. n \in OCallType
  BY RestingType DEF OCallType
<1> HIDE DEF n
<1>6. ocall' \in [OClients -> OCallType] /\ ocall'[c] = n /\ \A d \in OClients : d # c => ocall'[d] = ocall[d]
  BY <1>0, <1>3, <1>5
<1>7. \A d \in OClients : d # c => Kin(ocall'[d], ocall[d])
  BY <1>6, Zenon DEF Kin
<1>8. OWay(ocfg, n) /\ n.at \notin {"attrs", "copy"} /\ ~ODirty(n) /\ ~HoldsTemp(ocfg, n) /\ ~OWrites(n)
  BY <1>4 DEF OWay, ODirty, HoldsTemp, OWrites
<1>9. ListWay(files, n)
  <2>1. IsInjective(n.seen) /\ Range(n.seen) = {}
    BY <1>4, NothingSeen
  <2> QED BY <1>4, <2>1 DEF ListWay
<1>10. \A d \in OClients : d # c /\ Overlaps(ocfg, n, ocall[d]) => ~n.alone /\ ~ocall'[d].alone
  BY <1>8, Zenon DEF Overlaps
<1>11. ocalls' \in 0..ocfg.calls
  <2>1. ocfg.calls \in Nat
    BY <1>0, ObjectAssumption
  <2> QED BY <1>0, <1>3, <2>1
<1> QED BY <1>3, <1>6, <1>7, <1>8, <1>9, <1>10, <1>11, CallBegins

\* The store with an object more, or replaced, and with one less.
LEMMA FilesWith ==
  ASSUME OInv, NEW k \in KeySet(ocfg), NEW v \in OContents \cup {Cut}, NEW ino \in Nat,
         IsLocal(ocfg) => k # Outside
  PROVE  LET w == With(k, v, ino) IN
         /\ FilesOK(ocfg, w) /\ Elsewhere(k, files, w)
         /\ DOMAIN w = DOMAIN files \cup {k} /\ w[k].content = v
<1> DEFINE w == With(k, v, ino)
           D == DOMAIN files \cup {k}
           f == [content |-> v, ino |-> ino]
<1>0. FilesOK(ocfg, files)
  BY DEF OInv, OTypes
<1>1. w = [j \in D |-> IF j = k THEN f ELSE files[j]]
  BY Zenon DEF With
<1>2. f \in OFileType /\ f.content = v
  BY DEF OFileType
<1> HIDE DEF f, w
<1>3. DOMAIN w = D /\ w[k] = f /\ \A j \in DOMAIN files : j # k => w[j] = files[j]
  BY <1>1, Zenon
<1>4. \A j \in DOMAIN files : files[j] \in OFileType
  BY <1>0, Zenon DEF FilesOK
<1>5. \A j \in D : w[j] \in OFileType
  BY <1>2, <1>3, <1>4, Zenon
<1>6. w \in [DOMAIN w -> OFileType]
  <2>1. w = [j \in DOMAIN w |-> w[j]]
    BY <1>1, Zenon
  <2> QED BY <1>3, <1>5, <2>1, Zenon
<1>7. IsFiniteSet(D)
  BY <1>0, FS_AddElement DEF FilesOK
<1>8. D \subseteq KeySet(ocfg) /\ (IsLocal(ocfg) => Outside \notin D)
  BY <1>0, Zenon DEF FilesOK
<1>9. FilesOK(ocfg, w)
  BY <1>3, <1>6, <1>7, <1>8, Zenon DEF FilesOK
<1>10. Elsewhere(k, files, w)
  BY <1>3, Zenon DEF Elsewhere
<1> QED BY <1>2, <1>3, <1>9, <1>10, Zenon DEF w

\* The store with one object less.
LEMMA FilesLess ==
  ASSUME OInv, NEW k
  PROVE  LET w == Less(k) IN
         FilesOK(ocfg, w) /\ Elsewhere(k, files, w) /\ DOMAIN w = DOMAIN files \ {k}
<1> DEFINE w == Less(k)
           D == DOMAIN files \ {k}
<1>0. FilesOK(ocfg, files)
  BY DEF OInv, OTypes
<1>1. w = [j \in D |-> files[j]]
  BY Zenon DEF Less, Restrict
<1> HIDE DEF w
<1>3. DOMAIN w = D /\ \A j \in D : w[j] = files[j]
  BY <1>1, Zenon
<1>4. \A j \in DOMAIN files : files[j] \in OFileType
  BY <1>0, Zenon DEF FilesOK
<1>6. w \in [DOMAIN w -> OFileType]
  <2>1. w = [j \in DOMAIN w |-> w[j]]
    BY <1>1, Zenon
  <2> QED BY <1>3, <1>4, <2>1, Zenon
<1>7. IsFiniteSet(D)
  BY <1>0, FS_RemoveElement DEF FilesOK
<1>8. D \subseteq KeySet(ocfg) /\ (IsLocal(ocfg) => Outside \notin D)
  BY <1>0, Zenon DEF FilesOK
<1>9. FilesOK(ocfg, w)
  BY <1>3, <1>6, <1>7, <1>8, Zenon DEF FilesOK
<1>10. Elsewhere(k, files, w)
  BY <1>3, Zenon DEF Elsewhere
<1> QED BY <1>3, <1>9, <1>10, Zenon DEF w

\* What a step may do to the temporary files.
TempsMove(c, r) ==
  \/ (HoldsTemp(ocfg, r) <=> HoldsTemp(ocfg, ocall[c])) /\ temps' = temps
  \/ HoldsTemp(ocfg, r) /\ ~HoldsTemp(ocfg, ocall[c]) /\ temps' = temps + 1
  \/ ~HoldsTemp(ocfg, r) /\ HoldsTemp(ocfg, ocall[c]) /\ temps' = temps - 1

\* A call goes on and changes no object.
LEMMA QuietStep ==
  ASSUME OInv, NEW c \in OClients, NEW r \in OCallType, Go(c, r, files), acked' = acked,
         OWay(ocfg, r), ListTail(r), r.at \notin {"attrs", "copy"}, ~ODirty(ocall[c]), TempsMove(c, r),
         OWrites(r) => OWrites(ocall[c]) /\ r.p = ocall[c].p /\ (r.alone <=> ocall[c].alone),
         DirsOK(ocfg, files, dirs')
  PROVE  OInv'
<1>1. FilesOK(ocfg, files) /\ acked' = [k \in KeySet(ocfg) |-> acked'[k]]
  BY Zenon DEF OInv, OTypes
<1>2. OTypes' /\ (\A d \in OClients : ListWay(files, ocall[d]))' /\ OverlapKnown'
  BY <1>1, GoKeeps
<1>3. AttrsStored' /\ CopyCut' /\ AckedHolds'
  BY WritesUntouched
<1>4. (IsFiniteSet(TempHolders) /\ temps = Cardinality(TempHolders))'
  BY GoTemps DEF TempsMove
<1>5. DirsOK(ocfg', files', dirs')
  BY Zenon DEF Go
<1> QED BY <1>2, <1>3, <1>4, <1>5, Zenon DEF OInv

\* A call answers with what is then known of its object.
LEMMA KnownStep ==
  ASSUME OInv, NEW c \in OClients, NEW r \in OCallType, NEW new, Go(c, r, new), NEW k \in KeySet(ocfg),
         k = KeyAt(ocfg, ocall[c].p), Elsewhere(k, files, new), NEW x,
         acked' = [acked EXCEPT ![k] = x], x = "any" \/ HoldsFor(new, x, k),
         OWrites(ocall[c]) \/ (IsLocal(ocfg) /\ k \notin DOMAIN new), FilesOK(ocfg, new),
         OWay(ocfg, r), ListTail(r), r.at \in {"idle", "done"}, TempsMove(c, r),
         DirsOK(ocfg, new, dirs')
  PROVE  OInv'
<1>0. acked = [j \in KeySet(ocfg) |-> acked[j]]
  BY Zenon DEF OInv, OTypes
<1>1. acked' = [j \in KeySet(ocfg) |-> acked'[j]]
  BY <1>0
<1>2. OTypes' /\ (\A d \in OClients : ListWay(files, ocall[d]))' /\ OverlapKnown'
  <2>1. ~OWrites(r)
    BY DEF OWrites
  <2> QED BY <1>1, <2>1, GoKeeps
<1>3. AttrsStored' /\ CopyCut' /\ AckedHolds'
  <2>1. r.at \notin {"attrs", "copy"}
    OBVIOUS
  <2> QED BY <2>1, WritesKnown
<1>4. (IsFiniteSet(TempHolders) /\ temps = Cardinality(TempHolders))'
  BY GoTemps DEF TempsMove
<1>5. DirsOK(ocfg', files', dirs')
  BY Zenon DEF Go
<1> QED BY <1>2, <1>3, <1>4, <1>5, Zenon DEF OInv

\* A Put touches its object and goes on.
LEMMA DirtyStep ==
  ASSUME OInv, NEW c \in OClients, NEW r \in OCallType, NEW new, Go(c, r, new), acked' = acked,
         NEW k, k = KeyAt(ocfg, ocall[c].p), Elsewhere(k, files, new), FilesOK(ocfg, new),
         OWrites(ocall[c]), ODirty(r), r.p = ocall[c].p, (r.alone <=> ocall[c].alone),
         r.at = "attrs" => StoredBy(new, r), r.at = "copy" => CutFor(ocfg, new, r), OWay(ocfg, r),
         temps' = temps, DirsOK(ocfg, new, dirs')
  PROVE  OInv'
<1>0. acked = [j \in KeySet(ocfg) |-> acked[j]]
  BY Zenon DEF OInv, OTypes
<1>1. acked' = [j \in KeySet(ocfg) |-> acked'[j]]
  BY <1>0, Zenon
<1>2. OTypes' /\ (\A d \in OClients : ListWay(files, ocall[d]))' /\ OverlapKnown'
  <2>1. ListTail(r)
    BY DEF ListTail, ODirty
  <2> QED BY <1>1, <2>1, GoKeeps
<1>3. AttrsStored' /\ CopyCut' /\ AckedHolds'
  BY WritesDirty
<1>4. (IsFiniteSet(TempHolders) /\ temps = Cardinality(TempHolders))'
  <2>1. ~HoldsTemp(ocfg, r) /\ ~HoldsTemp(ocfg, ocall[c])
    BY DEF HoldsTemp, ODirty, OWrites
  <2> QED BY <2>1, GoTemps
<1>5. DirsOK(ocfg', files', dirs')
  BY Zenon DEF Go
<1> QED BY <1>2, <1>3, <1>4, <1>5, Zenon DEF OInv

\* The record of a call that answers, and of one that goes to its next step.
LEMMA AnswerFields ==
  ASSUME OInv, NEW c \in OClients, NEW result \in Results, ocall[c].at \notin {"idle", "done"}
  PROVE  LET r == Answer(c, result) IN
         /\ r \in OCallType /\ r.op = ocall[c].op /\ r.at = "done" /\ r.p = ocall[c].p
         /\ r.result = result /\ r.stay = ocall[c].stay /\ r.seen = ocall[c].seen /\ r.left = ocall[c].left
         /\ OWay(ocfg, r) /\ ~OWrites(r) /\ ~ODirty(r)
         /\ (ocall[c].op = "List" /\ result = "ok" => ocall[c].stay \subseteq Range(ocall[c].seen)) => ListTail(r)
<1> DEFINE q == ocall[c]
           r == [q EXCEPT !.at = "done", !.result = result]
<1>1. q \in OCallType /\ OWay(ocfg, q) /\ ListWay(files, q)
  BY DEF OInv, OTypes
<1>2. Answer(c, result) = r /\ q.at \notin {"idle", "done"}
  BY DEF Answer
<1> HIDE DEF q
<1>3. /\ r \in OCallType /\ r.op = q.op /\ r.at = "done" /\ r.p = q.p
      /\ r.result = result /\ r.stay = q.stay /\ r.seen = q.seen /\ r.left = q.left
  BY <1>1 DEF OCallType, Results
<1> HIDE DEF r
<1>4. OWay(ocfg, r) /\ ~OWrites(r) /\ ~ODirty(r)
  BY <1>1, <1>2, <1>3 DEF OWay, OWrites, ODirty
<1>5. (q.op = "List" /\ result = "ok" => q.stay \subseteq Range(q.seen)) => ListTail(r)
  BY <1>1, <1>3 DEF ListTail, ListWay
<1> QED BY <1>2, <1>3, <1>4, <1>5, Zenon DEF q

\* The record of a call that goes to its next step.
LEMMA StepFields ==
  ASSUME OInv, NEW c \in OClients,
         NEW at \in {"attrs", "create", "copy", "temp", "fetch", "remove"}
  PROVE  LET r == StepTo(c, at) IN
         /\ r \in OCallType /\ r.op = ocall[c].op /\ r.at = at /\ r.p = ocall[c].p /\ r.v = ocall[c].v
         /\ r.result = ocall[c].result /\ r.stay = ocall[c].stay /\ r.seen = ocall[c].seen
         /\ r.left = ocall[c].left /\ (r.alone <=> ocall[c].alone)
<1> DEFINE q == ocall[c]
           r == [q EXCEPT !.at = at]
<1>1. q \in OCallType
  BY DEF OInv, OTypes
<1>2. StepTo(c, at) = r
  BY DEF StepTo
<1> HIDE DEF q
<1>3. /\ r \in OCallType /\ r.op = q.op /\ r.at = at /\ r.p = q.p /\ r.v = q.v
      /\ r.result = q.result /\ r.stay = q.stay /\ r.seen = q.seen /\ r.left = q.left
  BY <1>1 DEF OCallType
<1>4. r.alone = q.alone
  BY <1>1 DEF OCallType
<1> HIDE DEF r
<1> QED BY <1>2, <1>3, <1>4, Zenon DEF q

\* A call that answers and has changed nothing.
LEMMA AnswersQuietly ==
  ASSUME OInv, NEW c \in OClients, NEW result \in Results, ocall[c].at \notin {"idle", "done"},
         Go(c, Answer(c, result), files), acked' = acked, dirs' = dirs, ~ODirty(ocall[c]),
         TempsMove(c, Answer(c, result)),
         ocall[c].op = "List" /\ result = "ok" => ocall[c].stay \subseteq Range(ocall[c].seen)
  PROVE  OInv'
<1> DEFINE r == Answer(c, result)
<1>1. /\ r \in OCallType /\ OWay(ocfg, r) /\ ~OWrites(r) /\ ListTail(r) /\ r.at = "done"
  BY AnswerFields
<1>2. DirsOK(ocfg, files, dirs')
  BY Zenon DEF OInv
<1>3. Go(c, r, files) /\ TempsMove(c, r)
  OBVIOUS
<1> HIDE DEF r
<1> QED BY <1>1, <1>2, <1>3, QuietStep

\* A Put or Delete that answers, with what is then known of its object.
LEMMA AnswersKnowing ==
  ASSUME OInv, NEW c \in OClients, NEW result \in Results, OWrites(ocall[c]), NEW new,
         Go(c, Answer(c, result), new), FilesOK(ocfg, new),
         Elsewhere(KeyAt(ocfg, ocall[c].p), files, new),
         NEW content, NEW certain, Know(c, content, certain),
         certain /\ ocall[c].alone => HoldsFor(new, content, KeyAt(ocfg, ocall[c].p)),
         temps' = temps, DirsOK(ocfg, new, dirs')
  PROVE  OInv'
<1> DEFINE r == Answer(c, result)
           k == KeyAt(ocfg, ocall[c].p)
           x == IF certain /\ ocall[c].alone THEN content ELSE "any"
<1>0. ocall[c].at \notin {"idle", "done"} /\ ocall[c].op \in {"Put", "Delete"} /\ OWay(ocfg, ocall[c])
  BY DEF OWrites, OInv, OTypes
<1>1. /\ r \in OCallType /\ OWay(ocfg, r) /\ ~OWrites(r) /\ r.op = ocall[c].op /\ r.at = "done"
  BY <1>0, AnswerFields
<1>2. ListTail(r)
  BY <1>0, <1>1 DEF ListTail
<1>3. TempsMove(c, r)
  BY <1>0, <1>1 DEF TempsMove, HoldsTemp
<1>4. k \in KeySet(ocfg)
  BY <1>0, KeyFacts DEF OWay
<1>5. acked' = [acked EXCEPT ![k] = x]
  BY KeyFacts, Zenon DEF Know
<1>6. x = "any" \/ HoldsFor(new, x, k)
  BY Zenon
<1>7. Go(c, r, new) /\ k = KeyAt(ocfg, ocall[c].p) /\ Elsewhere(k, files, new)
  OBVIOUS
<1> HIDE DEF r, k, x
<1> QED BY <1>1, <1>2, <1>3, <1>4, <1>5, <1>6, <1>7, KnownStep

\* Where a busy call is, and on which object.
LEMMA CallFacts ==
  ASSUME OInv, NEW c \in OClients
  PROVE  /\ ocall[c] \in OCallType /\ OWay(ocfg, ocall[c]) /\ ListWay(files, ocall[c]) /\ FilesOK(ocfg, files)
         /\ temps \in Nat /\ DirsOK(ocfg, files, dirs)
         /\ ObjectKey(ocall[c].p) = KeyAt(ocfg, ocall[c].p) /\ (Local <=> IsLocal(ocfg))
         /\ ocall[c].op = "Get" \/ ocall[c].at \notin {"idle", "done"} =>
              KeyAt(ocfg, ocall[c].p) \in KeySet(ocfg)
         /\ ~IsLocal(ocfg) => KeyAt(ocfg, ocall[c].p) = ocall[c].p
<1>1. ocall[c] \in OCallType /\ OWay(ocfg, ocall[c]) /\ ListWay(files, ocall[c]) /\ FilesOK(ocfg, files)
  BY DEF OInv, OTypes
<1>2. temps \in Nat /\ DirsOK(ocfg, files, dirs)
  BY FS_CardinalityType DEF OInv
<1>3. ocall[c].op = "Get" \/ ocall[c].at \notin {"idle", "done"} => ocall[c].p \in Range(OPaths)
  BY <1>1, Zenon DEF OWay
<1>4. ~IsLocal(ocfg) => KeyAt(ocfg, ocall[c].p) = ocall[c].p
  BY DEF KeyAt
<1> QED BY <1>1, <1>2, <1>3, <1>4, KeyFacts

\* Nothing has changed.
LEMMA SameElsewhere == \A k, fs : Elsewhere(k, fs, fs)
BY Zenon DEF Elsewhere

\* The request of a cloud Put: stored, refused, or in doubt.
LEMMA PutSendStep ==
  ASSUME OInv, NEW c \in OClients, PutSend(c)
  PROVE  OInv'
<1> DEFINE k == ocall[c].p
           stored == With(k, ocall[c].v, 0)
<1>1. /\ ocall[c].op = "Put" /\ ocall[c].at = "send" /\ dirs' = dirs /\ temps' = temps
      /\ \/ Adapter.again /\ Go(c, StepTo(c, "attrs"), stored) /\ acked' = acked
         \/ Go(c, Answer(c, "ok"), stored) /\ Know(c, ocall[c].v, TRUE)
         \/ Go(c, Answer(c, "fault"), files) /\ Know(c, NoContent, FALSE)
         \/ Go(c, Answer(c, "fault"), stored) /\ Know(c, NoContent, FALSE)
  BY DEF PutSend
<1>2. /\ ~IsLocal(ocfg) /\ KeyAt(ocfg, ocall[c].p) = k /\ k \in KeySet(ocfg) /\ ocall[c].v \in OContents
      /\ OWrites(ocall[c]) /\ FilesOK(ocfg, files)
  BY <1>1, CallFacts DEF OWay, OWrites
<1>3. /\ FilesOK(ocfg, stored) /\ Elsewhere(k, files, stored)
      /\ DOMAIN stored = DOMAIN files \cup {k} /\ stored[k].content = ocall[c].v
  BY <1>2, FilesWith
<1>4. DirsOK(ocfg, files, dirs') /\ DirsOK(ocfg, stored, dirs')
  BY <1>2 DEF DirsOK
<1>5. HoldsFor(stored, ocall[c].v, k)
  <2>1. ocall[c].v # NoContent
    BY <1>2, ObjectAssumption
  <2> QED BY <1>3, <2>1, Zenon DEF HoldsFor
<1>6. StoredBy(stored, ocall[c])
  BY <1>3, Zenon DEF StoredBy
<1> HIDE DEF stored
<1>7. CASE Go(c, StepTo(c, "attrs"), stored) /\ acked' = acked
  <2> DEFINE r == StepTo(c, "attrs")
  <2>1. /\ r \in OCallType /\ r.op = "Put" /\ r.at = "attrs" /\ r.p = k /\ r.v = ocall[c].v
        /\ (r.alone <=> ocall[c].alone)
    BY <1>1, StepFields
  <2>2. Go(c, r, stored)
    BY <1>7
  <2> HIDE DEF r
  <2>3. OWay(ocfg, r) /\ ODirty(r)
    BY <1>2, <2>1, CallFacts, <1>1 DEF OWay, ODirty
  <2>4. StoredBy(stored, r)
    BY <1>6, <2>1, Zenon DEF StoredBy
  <2> QED BY <1>1, <1>2, <1>3, <1>4, <1>7, <2>1, <2>2, <2>3, <2>4, DirtyStep
<1>8. CASE Go(c, Answer(c, "ok"), stored) /\ Know(c, ocall[c].v, TRUE)
  <2>1. "ok" \in Results
    BY DEF Results
  <2> QED BY <1>1, <1>2, <1>3, <1>4, <1>5, <1>8, <2>1, AnswersKnowing
<1>9. CASE Go(c, Answer(c, "fault"), files) /\ Know(c, NoContent, FALSE)
  <2>1. "fault" \in Results /\ Elsewhere(k, files, files)
    BY SameElsewhere DEF Results
  <2> QED BY <1>1, <1>2, <1>4, <1>9, <2>1, AnswersKnowing
<1>10. CASE Go(c, Answer(c, "fault"), stored) /\ Know(c, NoContent, FALSE)
  <2>1. "fault" \in Results
    BY DEF Results
  <2> QED BY <1>1, <1>2, <1>3, <1>4, <1>10, <2>1, AnswersKnowing
<1> QED BY <1>1, <1>7, <1>8, <1>9, <1>10

\* The second request of a cloud Put, of an object that is stored.
LEMMA PutAttrsStep ==
  ASSUME OInv, NEW c \in OClients, PutAttrs(c)
  PROVE  OInv'
<1> DEFINE k == ocall[c].p
<1>1. ocall[c].at = "attrs" /\ dirs' = dirs /\ temps' = temps
  BY DEF PutAttrs
<1>2. PICK result \in {"fault", "ok"} : Go(c, Answer(c, result), files) /\ Know(c, ocall[c].v, TRUE)
  BY DEF PutAttrs
<1>3. /\ ~IsLocal(ocfg) /\ KeyAt(ocfg, ocall[c].p) = k /\ ocall[c].v \in OContents
      /\ OWrites(ocall[c]) /\ FilesOK(ocfg, files)
  BY <1>1, CallFacts DEF OWay, OWrites
<1>4. result \in Results /\ Elsewhere(k, files, files)
  BY SameElsewhere DEF Results
<1>5. ocall[c].alone => HoldsFor(files, ocall[c].v, k)
  <2>1. ocall[c].v # NoContent
    BY <1>3, ObjectAssumption
  <2>2. ocall[c].alone => StoredBy(files, ocall[c])
    BY <1>1, Zenon DEF OInv, AttrsStored
  <2> QED BY <2>1, <2>2, Zenon DEF HoldsFor, StoredBy
<1>6. DirsOK(ocfg, files, dirs')
  BY <1>3 DEF DirsOK
<1> QED BY <1>1, <1>2, <1>3, <1>4, <1>5, <1>6, AnswersKnowing

\* The directories of a local Put.
LEMMA LocalMkdirStep ==
  ASSUME OInv, NEW c \in OClients, LocalMkdir(c)
  PROVE  OInv'
<1> DEFINE k == KeyAt(ocfg, ocall[c].p)
           more == IF k = Outside THEN {} ELSE Ancestors(k)
           r == StepTo(c, "create")
<1>0. ObjectKey(ocall[c].p) = k
  BY CallFacts
<1>1. /\ ocall[c].at = "mkdir" /\ temps' = temps /\ acked' = acked
      /\ \/ Go(c, Answer(c, "refused"), files) /\ dirs' = dirs
         \/ /\ ~(k # Outside /\ Ancestors(k) \cap DOMAIN files # {})
            /\ Go(c, r, files) /\ dirs' = dirs \cup more
  BY <1>0, Zenon DEF LocalMkdir
<1>2. IsLocal(ocfg) /\ ocall[c].op = "Put" /\ OWrites(ocall[c]) /\ ~ODirty(ocall[c]) /\ DirsOK(ocfg, files, dirs)
  BY <1>1, CallFacts DEF OWay, OWrites, ODirty
<1>3. CASE Go(c, Answer(c, "refused"), files) /\ dirs' = dirs
  <2>1. "refused" \in Results
    BY DEF Results
  <2>2. Answer(c, "refused").op = "Put"
    BY <1>1, <1>2, <2>1, AnswerFields
  <2>3. TempsMove(c, Answer(c, "refused"))
    BY <1>1, <1>2, <2>2 DEF TempsMove, HoldsTemp
  <2> QED BY <1>1, <1>2, <1>3, <2>1, <2>3, AnswersQuietly
<1>4. CASE /\ ~(k # Outside /\ Ancestors(k) \cap DOMAIN files # {})
           /\ Go(c, r, files) /\ dirs' = dirs \cup more
  <2>1. more \cap DOMAIN files = {}
    BY <1>4
  <2> HIDE DEF more
  <2>2. DirsOK(ocfg, files, dirs')
    BY <1>2, <1>4, <2>1 DEF DirsOK
  <2>3. /\ r \in OCallType /\ r.op = "Put" /\ r.at = "create" /\ r.p = ocall[c].p /\ r.v = ocall[c].v
        /\ (r.alone <=> ocall[c].alone)
    BY <1>2, StepFields
  <2> HIDE DEF r
  <2>4. OWay(ocfg, r) /\ ListTail(r) /\ TempsMove(c, r)
    BY <1>1, <1>2, <2>3, CallFacts DEF OWay, ListTail, TempsMove, HoldsTemp
  <2> QED BY <1>1, <1>2, <1>4, <2>2, <2>3, <2>4, QuietStep
<1> QED BY <1>1, <1>3, <1>4

\* A local Put makes its file or truncates the one that is there.
LEMMA LocalCreateStep ==
  ASSUME OInv, NEW c \in OClients, LocalCreate(c)
  PROVE  OInv'
<1> DEFINE k == KeyAt(ocfg, ocall[c].p)
           ino == IF k \in DOMAIN files THEN files[k].ino ELSE ocalls * 10 + Cardinality(DOMAIN files)
           r == [StepTo(c, "copy") EXCEPT !.ino = ino]
           new == With(k, Cut, ino)
<1>0. ObjectKey(ocall[c].p) = k
  BY CallFacts
<1>1. /\ ocall[c].at = "create" /\ temps' = temps /\ acked' = acked /\ dirs' = dirs
      /\ \/ Go(c, Answer(c, "refused"), files)
         \/ /\ ~(k = Outside \/ StatPath(k) = "dir" \/ ~(Ancestors(k) \subseteq dirs))
            /\ Go(c, r, new)
  BY <1>0, Zenon DEF LocalCreate
<1>2. /\ IsLocal(ocfg) /\ ocall[c].op = "Put" /\ OWrites(ocall[c]) /\ ~ODirty(ocall[c])
      /\ DirsOK(ocfg, files, dirs) /\ FilesOK(ocfg, files) /\ k \in KeySet(ocfg)
  BY <1>1, CallFacts DEF OWay, OWrites, ODirty
<1>3. CASE Go(c, Answer(c, "refused"), files)
  <2>1. "refused" \in Results
    BY DEF Results
  <2>2. Answer(c, "refused").op = "Put"
    BY <1>1, <1>2, <2>1, AnswerFields
  <2>3. TempsMove(c, Answer(c, "refused"))
    BY <1>1, <1>2, <2>2 DEF TempsMove, HoldsTemp
  <2> QED BY <1>1, <1>2, <1>3, <2>1, <2>3, AnswersQuietly
<1>4. CASE /\ ~(k = Outside \/ StatPath(k) = "dir" \/ ~(Ancestors(k) \subseteq dirs))
           /\ Go(c, r, new)
  <2>1. ino \in Nat
    <3>1. CASE k \in DOMAIN files
      <4>1. files[k] \in OFileType
        BY <1>2, <3>1, Zenon DEF FilesOK
      <4> QED BY <3>1, <4>1 DEF OFileType
    <3>2. CASE k \notin DOMAIN files
      <4>1. Cardinality(DOMAIN files) \in Nat
        BY <1>2, FS_CardinalityType DEF FilesOK
      <4>2. ocfg.calls \in Nat /\ ocalls \in 0..ocfg.calls
        BY ObjectAssumption DEF OInv, OTypes
      <4>3. ocalls \in Nat
        BY ONLY <4>2
      <4> QED BY <3>2, <4>1, <4>3
    <3> QED BY <3>1, <3>2
  <2> HIDE DEF ino
  <2>2. /\ FilesOK(ocfg, new) /\ Elsewhere(k, files, new) /\ DOMAIN new = DOMAIN files \cup {k}
        /\ new[k].content = Cut
    <3>1. Cut \in OContents \cup {Cut}
      OBVIOUS
    <3> QED BY <1>2, <1>4, <2>1, <3>1, FilesWith
  <2>3. k \notin dirs
    <3>1. k \in DOMAIN files => k \notin dirs
      BY <1>2 DEF DirsOK
    <3>2. k \notin DOMAIN files => k \notin dirs
      BY <1>4 DEF StatPath
    <3> QED BY <3>1, <3>2
  <2>4. DirsOK(ocfg, new, dirs')
    BY <1>1, <1>2, <1>4, <2>2, <2>3 DEF DirsOK
  <2> DEFINE q == StepTo(c, "copy")
  <2>5. /\ q \in OCallType /\ q.op = "Put" /\ q.at = "copy" /\ q.p = ocall[c].p /\ q.v = ocall[c].v
        /\ (q.alone <=> ocall[c].alone)
    BY <1>2, StepFields
  <2>6. r = [q EXCEPT !.ino = ino] /\ Go(c, r, new)
    BY <1>4
  <2> HIDE DEF q, r, new, k
  <2>7. r \in OCallType /\ r.op = q.op /\ r.at = q.at /\ r.p = q.p /\ r.v = q.v
    BY <2>1, <2>5, <2>6 DEF OCallType
  <2>8. r.alone = q.alone
    BY <2>5, <2>6 DEF OCallType
  <2>9. OWay(ocfg, r) /\ ODirty(r) /\ r.at # "attrs"
    BY <1>1, <1>2, <2>5, <2>7, CallFacts DEF OWay, ODirty
  <2>10. k = KeyAt(ocfg, ocall[c].p)
    BY DEF k
  <2>11. r.p = ocall[c].p /\ (r.alone <=> ocall[c].alone)
    BY <2>5, <2>7, <2>8, Zenon
  <2>12. CutFor(ocfg, new, r)
    BY <2>2, <2>10, <2>11, Zenon DEF CutFor
  <2> QED BY <1>1, <1>2, <2>2, <2>4, <2>6, <2>7, <2>9, <2>10, <2>11, <2>12, DirtyStep
<1> QED BY <1>1, <1>3, <1>4

\* A local Put copies; or fails before that, and leaves the file it emptied; or fails in
\* the copy, and removes what the path names.
LEMMA LocalCopyStep ==
  ASSUME OInv, NEW c \in OClients, LocalCopy(c)
  PROVE  OInv'
<1> DEFINE k == KeyAt(ocfg, ocall[c].p)
           mine == k \in DOMAIN files /\ files[k].ino = ocall[c].ino
<1>0. ObjectKey(ocall[c].p) = k
  BY CallFacts
<1>1. /\ ocall[c].at = "copy" /\ temps' = temps /\ dirs' = dirs
      /\ \/ \E v \in {ocall[c].v} \cup (IF ocall[c].alone THEN {} ELSE {Cut}) :
              \E result \in {"ok", "fault"} :
                /\ Go(c, Answer(c, result), IF mine THEN With(k, v, ocall[c].ino) ELSE files)
                /\ Know(c, v, mine)
         \/ Go(c, Answer(c, "fault"), files) /\ Know(c, Cut, mine)
         \/ Go(c, Answer(c, "fault"), Less(k)) /\ Know(c, NoContent, TRUE)
  BY <1>0, Zenon DEF LocalCopy
<1>2. /\ IsLocal(ocfg) /\ ocall[c].op = "Put" /\ OWrites(ocall[c]) /\ ocall[c].v \in OContents
      /\ DirsOK(ocfg, files, dirs) /\ FilesOK(ocfg, files) /\ k \in KeySet(ocfg) /\ ocall[c] \in OCallType
  BY <1>1, CallFacts DEF OWay, OWrites
<1>3. ASSUME NEW v \in OContents \cup {Cut}, k # Outside
       PROVE  LET w == With(k, v, ocall[c].ino) IN
              /\ FilesOK(ocfg, w) /\ Elsewhere(k, files, w) /\ DOMAIN w = DOMAIN files \cup {k}
              /\ w[k].content = v
  <2>1. ocall[c].ino \in Nat
    BY <1>2 DEF OCallType
  <2> QED BY <1>2, <1>3, <2>1, FilesWith
<1>4. ASSUME NEW v \in {ocall[c].v} \cup (IF ocall[c].alone THEN {} ELSE {Cut}), NEW result \in {"ok", "fault"},
             Go(c, Answer(c, result), IF mine THEN With(k, v, ocall[c].ino) ELSE files),
             Know(c, v, mine)
      PROVE  OInv'
  <2>1. v \in OContents \cup {Cut} /\ (ocall[c].alone => v \in OContents) /\ result \in Results
    BY <1>2 DEF Results
  <2>2. CASE mine
    <3> DEFINE new == With(k, v, ocall[c].ino)
    <3>1. k \in DOMAIN files /\ k # Outside /\ ocall[c].ino \in Nat
      BY <1>2, <2>2 DEF FilesOK, OCallType
    <3>2. /\ FilesOK(ocfg, new) /\ Elsewhere(k, files, new) /\ DOMAIN new = DOMAIN files \cup {k}
          /\ new[k].content = v
      <4>1. v \in OContents \cup {Cut}
        BY <2>1
      <4> HIDE DEF k
      <4> QED BY ONLY <1>3, <3>1, <4>1, Zenon
    <3>3. Go(c, Answer(c, result), new)
      BY <1>4, <2>2
    <3>4. DOMAIN new = DOMAIN files
      BY <3>1, <3>2
    <3>5. DirsOK(ocfg, new, dirs')
      BY <1>1, <1>2, <3>4, Zenon DEF DirsOK
    <3>6. ocall[c].alone => HoldsFor(new, v, k)
      <4>1. ocall[c].alone => v # NoContent
        BY <2>1, ObjectAssumption
      <4> QED BY <3>1, <3>2, <3>4, <4>1, Zenon DEF HoldsFor
    <3> HIDE DEF new, mine
    <3> QED BY <1>1, <1>2, <1>4, <2>1, <3>2, <3>3, <3>5, <3>6, AnswersKnowing
  <2>3. CASE ~mine
    <3>1. Go(c, Answer(c, result), files) /\ Elsewhere(k, files, files) /\ DirsOK(ocfg, files, dirs')
      BY <1>1, <1>2, <1>4, <2>3, SameElsewhere
    <3> HIDE DEF mine
    <3> QED BY <1>1, <1>2, <1>4, <2>1, <2>3, <3>1, AnswersKnowing
  <2> QED BY <2>2, <2>3
<1>5. ASSUME Go(c, Answer(c, "fault"), Less(k)), Know(c, NoContent, TRUE)
      PROVE  OInv'
  <2>1. FilesOK(ocfg, Less(k)) /\ Elsewhere(k, files, Less(k)) /\ DOMAIN Less(k) = DOMAIN files \ {k}
    BY FilesLess
  <2>2. DirsOK(ocfg, Less(k), dirs')
    BY <1>1, <1>2, <2>1 DEF DirsOK
  <2>3. HoldsFor(Less(k), NoContent, k)
    BY <2>1, Zenon DEF HoldsFor
  <2>4. "fault" \in Results
    BY DEF Results
  <2> QED BY <1>1, <1>2, <1>5, <2>1, <2>2, <2>3, <2>4, AnswersKnowing
<1>6. ASSUME Go(c, Answer(c, "fault"), files), Know(c, Cut, mine)
      PROVE  OInv'
  <2>1. Elsewhere(k, files, files) /\ DirsOK(ocfg, files, dirs') /\ "fault" \in Results
    BY <1>1, <1>2, SameElsewhere DEF Results
  <2>2. mine /\ ocall[c].alone => HoldsFor(files, Cut, k)
    <3>1. ocall[c].alone => CutFor(ocfg, files, ocall[c])
      BY <1>1, Zenon DEF OInv, CopyCut
    <3>2. Cut # NoContent
      BY ObjectAssumption
    <3> QED BY <3>1, <3>2, Zenon DEF HoldsFor, CutFor
  <2> HIDE DEF mine
  <2> QED BY <1>1, <1>2, <1>6, <2>1, <2>2, AnswersKnowing
<1> QED BY <1>1, <1>4, <1>5, <1>6

\* A call whose stream is opened has the object's content.
LEMMA ValueFields ==
  ASSUME NEW q \in OCallType, NEW v \in OContents \cup {NoContent, Cut}
  PROVE  LET r == [q EXCEPT !.v = v] IN
         /\ r \in OCallType /\ r.op = q.op /\ r.at = q.at /\ r.p = q.p /\ r.result = q.result
         /\ r.stay = q.stay /\ r.seen = q.seen /\ r.left = q.left
BY DEF OCallType

\* A stream is opened; a local Get is done with that.
LEMMA GetStreamStep ==
  ASSUME OInv, NEW c \in OClients, GetStream(c)
  PROVE  OInv'
<1> DEFINE k == KeyAt(ocfg, ocall[c].p)
           content == IF k \in DOMAIN files THEN files[k].content ELSE NoContent
           q == IF Local THEN Answer(c, "ok") ELSE StepTo(c, "temp")
           r == [q EXCEPT !.v = content]
<1>0. ObjectKey(ocall[c].p) = k
  BY CallFacts
<1>1. /\ ocall[c].at = "open" /\ temps' = temps /\ acked' = acked /\ dirs' = dirs
      /\ \/ Go(c, r, files) \/ Go(c, Answer(c, "missing"), files) \/ Go(c, Answer(c, "fault"), files)
  BY <1>0, Zenon DEF GetStream
<1>2. /\ ocall[c].op = "Get" /\ ocall[c].p \in Range(OPaths) /\ ~ODirty(ocall[c]) /\ DirsOK(ocfg, files, dirs')
      /\ FilesOK(ocfg, files) /\ ~HoldsTemp(ocfg, ocall[c]) /\ (Local <=> IsLocal(ocfg))
  BY <1>1, CallFacts DEF OWay, ODirty, HoldsTemp
<1>3. ASSUME NEW result \in {"missing", "fault"}, Go(c, Answer(c, result), files)
      PROVE  OInv'
  <2>1. result \in Results
    BY DEF Results
  <2>2. Answer(c, result).result = result /\ Answer(c, result).at = "done"
    BY <1>1, <2>1, AnswerFields
  <2>3. TempsMove(c, Answer(c, result))
    BY <1>1, <1>2, <2>2 DEF TempsMove, HoldsTemp
  <2> QED BY <1>1, <1>2, <1>3, <2>1, <2>3, AnswersQuietly
<1>4. CASE Go(c, r, files)
  <2>1. content \in OContents \cup {NoContent, Cut}
    <3>1. k \in DOMAIN files => files[k] \in OFileType
      BY <1>2, Zenon DEF FilesOK
    <3> QED BY <3>1 DEF OFileType
  <2> HIDE DEF content
  <2>2. /\ q \in OCallType /\ q.op = "Get" /\ q.p = ocall[c].p
        /\ \/ IsLocal(ocfg) /\ q.at = "done"
           \/ ~IsLocal(ocfg) /\ q.at = "temp"
    <3>1. CASE Local
      <4>1. "ok" \in Results
        BY DEF Results
      <4> QED BY <1>1, <1>2, <3>1, <4>1, AnswerFields
    <3>2. CASE ~Local
      BY <1>2, <3>2, StepFields
    <3> QED BY <3>1, <3>2
  <2>3. r = [q EXCEPT !.v = content] /\ Go(c, r, files)
    BY <1>4, Zenon
  <2> HIDE DEF q, r
  <2>4. r \in OCallType /\ r.op = "Get" /\ r.at = q.at /\ r.p = ocall[c].p
    BY ONLY <2>1, <2>2, <2>3, ValueFields
  <2>5. OWay(ocfg, r) /\ ListTail(r) /\ ~OWrites(r) /\ r.at \notin {"attrs", "copy"} /\ ~HoldsTemp(ocfg, r)
    BY <1>2, <2>2, <2>4 DEF OWay, ListTail, OWrites, HoldsTemp
  <2>6. TempsMove(c, r)
    BY <1>1, <1>2, <2>5, Zenon DEF TempsMove
  <2> QED BY <1>1, <1>2, <2>3, <2>4, <2>5, <2>6, QuietStep
<1> QED BY <1>1, <1>3, <1>4

\* A cloud Get makes its temporary file.
LEMMA CreateTempStep ==
  ASSUME OInv, NEW c \in OClients, CreateTemp(c)
  PROVE  OInv'
<1> DEFINE r == StepTo(c, "fetch")
<1>1. /\ ocall[c].at = "temp" /\ acked' = acked /\ dirs' = dirs
      /\ \/ Go(c, r, files) /\ temps' = temps + 1
         \/ Go(c, Answer(c, "fault"), files) /\ temps' = temps
  BY DEF CreateTemp
<1>2. /\ ocall[c].op = "Get" /\ ocall[c].p \in Range(OPaths) /\ ~ODirty(ocall[c]) /\ DirsOK(ocfg, files, dirs')
      /\ ~HoldsTemp(ocfg, ocall[c]) /\ ~IsLocal(ocfg)
  BY <1>1, CallFacts DEF OWay, ODirty, HoldsTemp
<1>3. CASE Go(c, Answer(c, "fault"), files) /\ temps' = temps
  <2>1. "fault" \in Results
    BY DEF Results
  <2>2. Answer(c, "fault").result = "fault" /\ Answer(c, "fault").at = "done"
    BY <1>1, <2>1, AnswerFields
  <2>3. TempsMove(c, Answer(c, "fault"))
    BY <1>2, <1>3, <2>2 DEF TempsMove, HoldsTemp
  <2> QED BY <1>1, <1>2, <1>3, <2>1, <2>3, AnswersQuietly
<1>4. CASE Go(c, r, files) /\ temps' = temps + 1
  <2>1. r \in OCallType /\ r.op = "Get" /\ r.at = "fetch" /\ r.p = ocall[c].p
    BY <1>2, StepFields
  <2> HIDE DEF r
  <2>2. OWay(ocfg, r) /\ ListTail(r) /\ ~OWrites(r) /\ r.at \notin {"attrs", "copy"} /\ HoldsTemp(ocfg, r)
    BY <1>2, <2>1 DEF OWay, ListTail, OWrites, HoldsTemp
  <2>3. TempsMove(c, r)
    BY <1>2, <1>4, <2>2, Zenon DEF TempsMove
  <2> QED BY <1>1, <1>2, <1>4, <2>1, <2>2, <2>3, QuietStep
<1> QED BY <1>1, <1>3, <1>4

\* A cloud Get fills its temporary file, or fails and removes it.
LEMMA CopyToTempStep ==
  ASSUME OInv, NEW c \in OClients, CopyToTemp(c)
  PROVE  OInv'
<1>1. /\ ocall[c].at = "fetch" /\ acked' = acked /\ dirs' = dirs
  BY DEF CopyToTemp
<1>2. PICK result \in {"ok", "missing", "fault"} :
        /\ Go(c, Answer(c, result), files)
        /\ temps' = IF result = "ok" THEN temps ELSE temps - 1
  <2>1. CASE Go(c, Answer(c, "ok"), files) /\ temps' = temps
    BY <2>1
  <2>2. CASE Go(c, Answer(c, IF ocall[c].v = NoContent THEN "missing" ELSE "fault"), files) /\ temps' = temps - 1
    <3>1. CASE ocall[c].v = NoContent
      BY <2>2, <3>1
    <3>2. CASE ocall[c].v # NoContent
      BY <2>2, <3>2
    <3> QED BY <3>1, <3>2
  <2> QED BY <2>1, <2>2 DEF CopyToTemp
<1>3. /\ ocall[c].op = "Get" /\ ~ODirty(ocall[c]) /\ HoldsTemp(ocfg, ocall[c]) /\ ~IsLocal(ocfg)
  BY <1>1, CallFacts DEF OWay, ODirty, HoldsTemp
<1>4. result \in Results
  BY DEF Results
<1> DEFINE r == Answer(c, result)
<1>5. r.op = "Get" /\ r.result = result /\ r.at = "done"
  BY <1>1, <1>3, <1>4, AnswerFields
<1> HIDE DEF r
<1>6. TempsMove(c, r)
  BY <1>2, <1>3, <1>5 DEF TempsMove, HoldsTemp
<1> QED BY <1>1, <1>2, <1>3, <1>4, <1>6, AnswersQuietly DEF r

\* The request of a cloud Delete.
LEMMA DeleteRequestStep ==
  ASSUME OInv, NEW c \in OClients, DeleteRequest(c)
  PROVE  OInv'
<1> DEFINE k == ocall[c].p
           new == Less(k)
<1>1. ocall[c].at = "request" /\ dirs' = dirs /\ temps' = temps
  BY DEF DeleteRequest
<1>2. PICK result \in {"missing", "ok", "fault"}, after \in {files, new}, certain \in BOOLEAN :
        /\ Go(c, Answer(c, result), after) /\ Know(c, NoContent, certain)
        /\ certain => after = new
  <2>1. CASE /\ Go(c, Answer(c, IF k \notin DOMAIN files /\ Adapter.missing THEN "missing" ELSE "ok"), new)
             /\ Know(c, NoContent, TRUE)
    <3>1. CASE k \notin DOMAIN files /\ Adapter.missing
      BY <2>1, <3>1
    <3>2. CASE ~(k \notin DOMAIN files /\ Adapter.missing)
      BY <2>1, <3>2
    <3> QED BY <3>1, <3>2
  <2>2. CASE \E after \in {files, new} : Go(c, Answer(c, "fault"), after) /\ Know(c, NoContent, FALSE)
    BY <2>2
  <2> QED BY <2>1, <2>2 DEF DeleteRequest
<1>3. /\ ~IsLocal(ocfg) /\ KeyAt(ocfg, ocall[c].p) = k /\ OWrites(ocall[c]) /\ FilesOK(ocfg, files)
  BY <1>1, CallFacts DEF OWay, OWrites
<1>4. FilesOK(ocfg, new) /\ Elsewhere(k, files, new) /\ DOMAIN new = DOMAIN files \ {k}
  BY FilesLess
<1>5. HoldsFor(new, NoContent, k)
  BY <1>4, Zenon DEF HoldsFor
<1>6. FilesOK(ocfg, after) /\ Elsewhere(k, files, after) /\ (certain => HoldsFor(after, NoContent, k))
  BY <1>2, <1>3, <1>4, <1>5, SameElsewhere, Zenon
<1>7. DirsOK(ocfg, after, dirs') /\ result \in Results
  BY <1>3 DEF DirsOK, Results
<1> QED BY <1>1, <1>2, <1>3, <1>6, <1>7, AnswersKnowing

\* What os.Stat finds.
LEMMA StatFacts ==
  ASSUME NEW k
  PROVE  /\ StatPath(k) \in {"absent", "file", "dir", "notdir"}
         /\ k # Outside => (StatPath(k) = "file" <=> k \in DOMAIN files)
         /\ StatPath(k) = "file" => k # Outside
BY DEF StatPath

\* A local Delete looks first.
LEMMA LocalDeleteStatStep ==
  ASSUME OInv, NEW c \in OClients, LocalDeleteStat(c)
  PROVE  OInv'
<1> DEFINE k == KeyAt(ocfg, ocall[c].p)
           found == StatPath(k)
           r == StepTo(c, "remove")
<1>0. ObjectKey(ocall[c].p) = k
  BY CallFacts
<1>1. ocall[c].at = "stat" /\ dirs' = dirs /\ temps' = temps
  BY DEF LocalDeleteStat
<1>2. \/ found = "absent" /\ Go(c, Answer(c, "ok"), files) /\ Know(c, NoContent, TRUE)
      \/ found = "notdir" /\ Go(c, Answer(c, "refused"), files) /\ acked' = acked
      \/ Go(c, r, files) /\ acked' = acked
  <2> DEFINE body ==
        CASE found = "absent" -> Go(c, Answer(c, "ok"), files) /\ Know(c, NoContent, TRUE)
          [] found = "notdir" -> Go(c, Answer(c, "refused"), files) /\ acked' = acked
          [] OTHER -> Go(c, r, files) /\ acked' = acked
  <2>1. body
    BY <1>0 DEF LocalDeleteStat
  <2> HIDE DEF found
  <2> QED BY <2>1
<1>3. /\ IsLocal(ocfg) /\ ocall[c].op = "Delete" /\ OWrites(ocall[c]) /\ ~ODirty(ocall[c])
      /\ DirsOK(ocfg, files, dirs') /\ FilesOK(ocfg, files) /\ k \in KeySet(ocfg) /\ ocall[c].p \in Range(OPaths)
  BY <1>1, CallFacts DEF OWay, OWrites, ODirty
<1>4. CASE found = "absent" /\ Go(c, Answer(c, "ok"), files) /\ Know(c, NoContent, TRUE)
  <2>1. k \notin DOMAIN files
    BY <1>3, <1>4, StatFacts DEF FilesOK
  <2>2. HoldsFor(files, NoContent, k) /\ Elsewhere(k, files, files) /\ "ok" \in Results
    BY <2>1, SameElsewhere DEF HoldsFor, Results
  <2> QED BY <1>1, <1>3, <1>4, <2>2, AnswersKnowing
<1>5. CASE Go(c, Answer(c, "refused"), files) /\ acked' = acked
  <2>1. "refused" \in Results
    BY DEF Results
  <2>2. Answer(c, "refused").op = "Delete"
    BY <1>1, <1>3, <2>1, AnswerFields
  <2>3. TempsMove(c, Answer(c, "refused"))
    BY <1>1, <1>3, <2>2 DEF TempsMove, HoldsTemp
  <2> QED BY <1>1, <1>3, <1>5, <2>1, <2>3, AnswersQuietly
<1>6. CASE Go(c, r, files) /\ acked' = acked
  <2>1. /\ r \in OCallType /\ r.op = "Delete" /\ r.at = "remove" /\ r.p = ocall[c].p
        /\ (r.alone <=> ocall[c].alone)
    BY <1>3, StepFields
  <2> HIDE DEF r
  <2>2. OWay(ocfg, r) /\ ListTail(r) /\ TempsMove(c, r)
    BY <1>1, <1>3, <2>1 DEF OWay, ListTail, TempsMove, HoldsTemp
  <2> QED BY <1>1, <1>3, <1>6, <2>1, <2>2, QuietStep
<1> QED BY <1>2, <1>4, <1>5, <1>6

\* A local Delete removes a file, an empty directory, or nothing.
LEMMA LocalRemoveStep ==
  ASSUME OInv, NEW c \in OClients, LocalRemove(c)
  PROVE  OInv'
<1> DEFINE k == KeyAt(ocfg, ocall[c].p)
           none == \A j \in DOMAIN files \cup dirs : k \notin Ancestors(j)
           some == \E j \in DOMAIN files \cup dirs : k \in Ancestors(j)
<1>0. ObjectKey(ocall[c].p) = k
  BY CallFacts
<1>1. ocall[c].at = "remove" /\ temps' = temps
  BY DEF LocalRemove
<1>2. /\ IsLocal(ocfg) /\ ocall[c].op = "Delete" /\ OWrites(ocall[c]) /\ ~ODirty(ocall[c])
      /\ DirsOK(ocfg, files, dirs) /\ FilesOK(ocfg, files)
  BY <1>1, CallFacts DEF OWay, OWrites, ODirty
<1>3. some <=> ~none
  BY Zenon
<1>4. ~(k \in DOMAIN files /\ k \in dirs)
  BY <1>2 DEF DirsOK
<1> DEFINE A1 == Go(c, Answer(c, "ok"), Less(k)) /\ Know(c, NoContent, TRUE) /\ dirs' = dirs
           A2 == Go(c, Answer(c, "ok"), files) /\ Know(c, NoContent, TRUE) /\ dirs' = dirs \ {k}
           A3 == Go(c, Answer(c, "refused"), files) /\ dirs' = dirs /\ acked' = acked
           A4 == Go(c, Answer(c, "missing"), files) /\ Know(c, NoContent, TRUE) /\ dirs' = dirs
<1>5. \/ A1
      \/ k \notin DOMAIN files /\ none /\ A2
      \/ A3
      \/ k \notin DOMAIN files /\ A4
  <2> DEFINE body ==
        CASE k \in DOMAIN files -> A1
          [] k \in dirs /\ none -> A2
          [] k \in dirs /\ some -> A3
          [] OTHER -> A4
  <2>1. body
    BY <1>0, Zenon DEF LocalRemove
  <2> HIDE DEF A1, A2, A3, A4, none, some, k
  <2> QED BY <1>3, <1>4, <2>1
<1>6. "ok" \in Results /\ "missing" \in Results /\ "refused" \in Results
  BY DEF Results
<1>7. CASE A1
  <2>1. FilesOK(ocfg, Less(k)) /\ Elsewhere(k, files, Less(k)) /\ DOMAIN Less(k) = DOMAIN files \ {k}
    BY FilesLess
  <2>2. DirsOK(ocfg, Less(k), dirs')
    BY <1>2, <1>7, <2>1 DEF DirsOK
  <2>3. HoldsFor(Less(k), NoContent, k)
    BY <2>1, Zenon DEF HoldsFor
  <2> QED BY <1>1, <1>2, <1>6, <1>7, <2>1, <2>2, <2>3, AnswersKnowing
<1>8. CASE k \notin DOMAIN files /\ none /\ A2
  <2>1. HoldsFor(files, NoContent, k) /\ Elsewhere(k, files, files)
    BY <1>8, SameElsewhere DEF HoldsFor
  <2>2. DirsOK(ocfg, files, dirs')
    <3>1. DOMAIN files \cap dirs' = {}
      BY <1>2, <1>8 DEF DirsOK
    <3>2. \A j \in DOMAIN files : Ancestors(j) \subseteq dirs'
      BY <1>2, <1>8 DEF DirsOK
    <3> QED BY <3>1, <3>2 DEF DirsOK
  <2> QED BY <1>1, <1>2, <1>6, <1>8, <2>1, <2>2, AnswersKnowing
<1>9. CASE A3
  <2>2. Answer(c, "refused").op = "Delete"
    BY <1>1, <1>2, <1>6, AnswerFields
  <2>3. TempsMove(c, Answer(c, "refused"))
    BY <1>1, <1>2, <2>2 DEF TempsMove, HoldsTemp
  <2> QED BY <1>1, <1>2, <1>6, <1>9, <2>3, AnswersQuietly
<1>10. CASE k \notin DOMAIN files /\ A4
  <2>1. HoldsFor(files, NoContent, k) /\ Elsewhere(k, files, files) /\ DirsOK(ocfg, files, dirs')
    BY <1>2, <1>10, SameElsewhere DEF HoldsFor
  <2> QED BY <1>1, <1>2, <1>6, <1>10, <2>1, AnswersKnowing
<1> QED BY <1>5, <1>7, <1>8, <1>9, <1>10

\* Every set of numbers that has one has a least.
LEMMA LeastNumber ==
  ASSUME NEW T \in SUBSET Nat, T # {}
  PROVE  Min(T) \in T /\ \A y \in T : Min(T) <= y
<1>1. PICK x \in T : \A y \in T : ~ (<<y, x>> \in OpToRel(<, Nat))
  BY WFMin, NatLessThanWellFounded
<1>2. \A y \in T : ~(y < x)
  BY <1>1 DEF OpToRel
<1>3. \A y \in T : x <= y
  BY <1>2
<1> QED BY <1>3, Zenon DEF Min

\* A listing comes to its next object and leaves what is before that behind.
LEMMA PageFields ==
  ASSUME NEW q \in OCallType, NEW n \in DOMAIN OPaths
  PROVE  LET r == [q EXCEPT !.seen = Append(@, OPaths[n]), !.left = {i \in @ : i > n}] IN
         /\ r \in OCallType /\ r.op = q.op /\ r.at = q.at /\ r.p = q.p /\ r.result = q.result
         /\ r.stay = q.stay /\ r.seen = Append(q.seen, OPaths[n]) /\ r.left = {i \in q.left : i > n}
         /\ r.v = q.v
<1> DEFINE s == Append(q.seen, OPaths[n])
           l == {i \in q.left : i > n}
<1>1. OPaths[n] \in Range(OPaths)
  BY DEF Range
<1>2. s \in Seq(Range(OPaths)) /\ l \in SUBSET DOMAIN OPaths
  <2>1. q.seen \in Seq(Range(OPaths)) /\ q.left \in SUBSET DOMAIN OPaths
    BY DEF OCallType
  <2> QED BY <1>1, <2>1
<1>3. [q EXCEPT !.seen = Append(@, OPaths[n]), !.left = {i \in @ : i > n}] = [q EXCEPT !.seen = s, !.left = l]
  OBVIOUS
<1> HIDE DEF s, l
<1> DEFINE r == [q EXCEPT !.seen = s, !.left = l]
<1>4. r \in OCallType
  BY <1>2 DEF OCallType
<1>5. /\ r.op = q.op /\ r.at = q.at /\ r.p = q.p /\ r.result = q.result /\ r.stay = q.stay
      /\ r.seen = s /\ r.left = l /\ r.v = q.v
  BY DEF OCallType
<1> HIDE DEF r
<1> QED BY <1>3, <1>4, <1>5, Zenon DEF r, s, l

\* One object more has been seen.
LEMMA SeenOneMore ==
  ASSUME NEW seen \in Seq(Range(OPaths)), IsInjective(seen), NEW o, o \notin Range(seen)
  PROVE  IsInjective(Append(seen, o)) /\ Range(Append(seen, o)) = Range(seen) \cup {o}
<1> DEFINE z == Append(seen, o)
<1>1. /\ DOMAIN seen = 1..Len(seen) /\ DOMAIN z = 1..(Len(seen) + 1) /\ Len(seen) \in Nat
      /\ z[Len(seen) + 1] = o /\ \A i \in 1..Len(seen) : z[i] = seen[i]
  OBVIOUS
<1> HIDE DEF z
<1>2. \A i \in DOMAIN z : i \in DOMAIN seen \/ i = Len(seen) + 1
  BY <1>1
<1>3. \A i \in DOMAIN seen : z[i] = seen[i] /\ seen[i] # o /\ i \in DOMAIN z
  BY <1>1 DEF Range
<1>4. IsInjective(z)
  <2> SUFFICES ASSUME NEW a \in DOMAIN z, NEW b \in DOMAIN z, z[a] = z[b] PROVE a = b
    BY Zenon DEF IsInjective
  <2> QED BY <1>1, <1>2, <1>3 DEF IsInjective
<1>5. Range(z) = Range(seen) \cup {o}
  <2>1. Len(seen) + 1 \in DOMAIN z
    BY <1>1
  <2> QED BY <1>1, <1>2, <1>3, <2>1 DEF Range
<1> QED BY <1>4, <1>5 DEF z

\* A listing comes to its next object, to its end, or to a file that is gone.
LEMMA ListPageStep ==
  ASSUME OInv, NEW c \in OClients, ListPage(c)
  PROVE  OInv'
<1> DEFINE left == ocall[c].left
           there == IF Local THEN left ELSE {i \in left : OPaths[i] \in DOMAIN files}
           n == Min(there)
           r == [ocall[c] EXCEPT !.seen = Append(@, OPaths[n]), !.left = {i \in @ : i > n}]
<1>1. /\ ocall[c].at = "page" /\ dirs' = dirs /\ temps' = temps /\ acked' = acked
      /\ \/ there = {} /\ Go(c, Answer(c, "ok"), files)
         \/ Go(c, Answer(c, "fault"), files)
         \/ there # {} /\ Go(c, r, files)
  BY Zenon DEF ListPage
<1>2. /\ ocall[c] \in OCallType /\ ListWay(files, ocall[c])
  BY DEF OInv, OTypes
<1>3. /\ ocall[c].op = "List" /\ ocall[c].p \in Range(OPaths) /\ ~ODirty(ocall[c]) /\ ~OWrites(ocall[c])
      /\ DirsOK(ocfg, files, dirs') /\ ~HoldsTemp(ocfg, ocall[c]) /\ OWay(ocfg, ocall[c])
  BY <1>1, CallFacts DEF OWay, ODirty, OWrites, HoldsTemp
<1>4. /\ IsInjective(ocall[c].seen) /\ Range(ocall[c].seen) \cap PathsOf(left) = {}
      /\ ocall[c].stay \subseteq Range(ocall[c].seen) \cup PathsOf(left) /\ ocall[c].result = "none"
      /\ ocall[c].stay \subseteq DOMAIN files
  BY <1>1, <1>2, <1>3, Zenon DEF ListWay
<1>5. ASSUME NEW result \in {"ok", "fault"}, Go(c, Answer(c, result), files),
             result = "ok" => ocall[c].stay \subseteq Range(ocall[c].seen)
      PROVE  OInv'
  <2>1. result \in Results
    BY DEF Results
  <2>2. Answer(c, result).op = "List"
    BY <1>1, <1>3, <2>1, AnswerFields
  <2>3. TempsMove(c, Answer(c, result))
    BY <1>1, <1>3, <2>2 DEF TempsMove, HoldsTemp
  <2> QED BY <1>1, <1>3, <1>5, <2>1, <2>3, AnswersQuietly
<1>6. CASE there = {} /\ Go(c, Answer(c, "ok"), files)
  <2>1. PathsOf(left) \cap DOMAIN files = {}
    BY <1>6 DEF PathsOf
  <2>2. ocall[c].stay \subseteq Range(ocall[c].seen)
    BY <1>4, <2>1, Zenon
  <2> QED BY <1>5, <1>6, <2>2
<1>7. CASE there # {} /\ Go(c, r, files)
  <2>1. left \in SUBSET DOMAIN OPaths /\ there \subseteq left /\ DOMAIN OPaths \subseteq Nat /\ IsInjective(OPaths)
    <3>1. left \in SUBSET DOMAIN OPaths
      BY <1>2 DEF OCallType
    <3>2. DOMAIN OPaths \subseteq Nat /\ IsInjective(OPaths)
      BY ObjectAssumption
    <3> QED BY <3>1, <3>2, Zenon
  <2>2. n \in there /\ \A y \in there : n <= y
    <3>1. there \in SUBSET Nat /\ there # {}
      BY <1>7, <2>1, Zenon
    <3> HIDE DEF there
    <3> QED BY <3>1, LeastNumber
  <2>3. \A i \in left : i <= n => i = n \/ OPaths[i] \notin DOMAIN files
    <3> SUFFICES ASSUME NEW i \in left, i <= n, OPaths[i] \in DOMAIN files PROVE i = n
      OBVIOUS
    <3>1. i \in there
      BY Zenon
    <3>2. i \in Nat /\ n \in Nat /\ n <= i
      BY <2>1, <2>2, <3>1, Zenon
    <3> HIDE DEF n
    <3> QED BY <3>2
  <2> DEFINE o == OPaths[n]
             q == ocall[c]
  <2>4. n \in left /\ n \in DOMAIN OPaths /\ n \in Nat /\ o \in PathsOf(left)
    BY <2>1, <2>2, Zenon DEF PathsOf
  <2>5. r = [q EXCEPT !.seen = Append(@, OPaths[n]), !.left = {i \in @ : i > n}]
    OBVIOUS
  <2>6. q \in OCallType /\ q.left = left
    BY <1>2
  <2> HIDE DEF n, r, there
  <2>7. /\ r \in OCallType /\ r.op = q.op /\ r.at = q.at /\ r.p = q.p /\ r.result = q.result
        /\ r.stay = q.stay /\ r.seen = Append(q.seen, o) /\ r.left = {i \in left : i > n} /\ r.v = q.v
    <3> HIDE DEF q
    <3>1. /\ r \in OCallType /\ r.op = q.op /\ r.at = q.at /\ r.p = q.p /\ r.result = q.result
          /\ r.stay = q.stay /\ r.seen = Append(q.seen, OPaths[n]) /\ r.left = {i \in q.left : i > n} /\ r.v = q.v
      BY ONLY <2>4, <2>5, <2>6, PageFields, Zenon
    <3>2. {i \in q.left : i > n} = {i \in left : i > n}
      BY <2>6, Zenon
    <3> QED BY <3>1, <3>2, Zenon
  <2>8. o \notin Range(q.seen)
    BY <1>4, <2>4
  <2>9. IsInjective(r.seen) /\ Range(r.seen) = Range(q.seen) \cup {o}
    <3>1. q.seen \in Seq(Range(OPaths))
      BY <1>2 DEF OCallType
    <3> QED BY <1>4, <2>7, <2>8, <3>1, SeenOneMore
  <2>10. Range(r.seen) \cap PathsOf(r.left) = {}
    <3>1. \A i \in r.left : i \in left /\ i # n
      BY <2>1, <2>4, <2>7
    <3>2. \A i \in r.left : OPaths[i] # o
      BY <2>1, <2>4, <3>1 DEF IsInjective
    <3>3. PathsOf(r.left) \subseteq PathsOf(left) /\ o \notin PathsOf(r.left)
      BY <3>1, <3>2, Zenon DEF PathsOf
    <3> QED BY <1>4, <2>9, <3>3, Zenon
  <2>11. r.stay \subseteq Range(r.seen) \cup PathsOf(r.left)
    <3> SUFFICES ASSUME NEW k \in r.stay, k \notin Range(r.seen) PROVE k \in PathsOf(r.left)
      OBVIOUS
    <3>1. k \in PathsOf(left) /\ k \in DOMAIN files /\ k # o
      BY <1>4, <2>7, <2>9, Zenon
    <3>2. PICK i \in left : k = OPaths[i]
      BY <3>1 DEF PathsOf
    <3>3. i # n /\ ~(i <= n) /\ i \in Nat
      BY <2>1, <2>3, <3>1, <3>2, Zenon
    <3>4. i \in r.left
      BY <2>4, <2>7, <3>3
    <3> QED BY <3>2, <3>4, Zenon DEF PathsOf
  <2>12. OWay(ocfg, r) /\ ~OWrites(r) /\ ~HoldsTemp(ocfg, r) /\ r.at \notin {"attrs", "copy"}
    BY <1>1, <1>3, <2>7 DEF OWay, OWrites, HoldsTemp
  <2>13. ListTail(r)
    BY <1>3, <1>4, <2>7, <2>9, <2>10, <2>11 DEF ListTail
  <2>14. TempsMove(c, r)
    BY <1>1, <1>3, <2>12, Zenon DEF TempsMove
  <2> QED BY <1>1, <1>3, <1>7, <2>7, <2>12, <2>13, <2>14, QuietStep
<1> QED BY <1>1, <1>5, <1>6, <1>7

\* The caller is done; of a local Get, the file that it then removes is the object itself.
LEMMA CallerDoneStep ==
  ASSUME OInv, NEW c \in OClients, CallerDone(c)
  PROVE  OInv'
<1> DEFINE k == KeyAt(ocfg, ocall[c].p)
           given == ocall[c].op = "Get" /\ ocall[c].result = "ok"
           new == Less(k)
<1>0. ObjectKey(ocall[c].p) = k /\ (Local <=> IsLocal(ocfg))
  BY KeyFacts
<1>1. /\ ocall[c].at = "done" /\ dirs' = dirs
      /\ \/ given /\ Local /\ Go(c, Resting, new) /\ acked' = [acked EXCEPT ![k] = "any"] /\ temps' = temps
         \/ /\ ~(given /\ Local) /\ Go(c, Resting, files) /\ acked' = acked
            /\ temps' = temps - (IF given THEN 1 ELSE 0)
  BY <1>0, Zenon DEF CallerDone
<1>2. /\ OWay(ocfg, ocall[c]) /\ ~ODirty(ocall[c]) /\ ~OWrites(ocall[c]) /\ DirsOK(ocfg, files, dirs')
      /\ (HoldsTemp(ocfg, ocall[c]) <=> given /\ ~IsLocal(ocfg))
  <2>1. OWay(ocfg, ocall[c]) /\ DirsOK(ocfg, files, dirs')
    BY <1>1, Zenon DEF OInv, OTypes
  <2> QED BY <1>1, <2>1 DEF ODirty, OWrites, HoldsTemp
<1>3. /\ Resting \in OCallType /\ OWay(ocfg, Resting) /\ ListTail(Resting) /\ ~HoldsTemp(ocfg, Resting)
      /\ ~OWrites(Resting) /\ Resting.at = "idle"
  BY RestingType DEF OWay, ListTail, HoldsTemp, OWrites
<1>4. CASE given /\ Local /\ Go(c, Resting, new) /\ acked' = [acked EXCEPT ![k] = "any"] /\ temps' = temps
  <2>1. FilesOK(ocfg, new) /\ Elsewhere(k, files, new) /\ DOMAIN new = DOMAIN files \ {k}
    BY FilesLess
  <2>2. k \in KeySet(ocfg)
    BY <1>2, <1>4, KeyFacts DEF OWay
  <2>3. DirsOK(ocfg, new, dirs')
    BY <1>2, <2>1 DEF DirsOK
  <2>4. TempsMove(c, Resting)
    BY <1>0, <1>2, <1>3, <1>4, Zenon DEF TempsMove
  <2>5. /\ IsLocal(ocfg) /\ k = KeyAt(ocfg, ocall[c].p) /\ Resting.at \in {"idle", "done"}
        /\ k \notin DOMAIN new
    BY <1>0, <1>3, <1>4, <2>1
  <2> HIDE DEF k, new
  <2> QED BY <1>3, <1>4, <2>1, <2>2, <2>3, <2>4, <2>5, KnownStep
<1>5. CASE /\ ~(given /\ Local) /\ Go(c, Resting, files) /\ acked' = acked
           /\ temps' = temps - (IF given THEN 1 ELSE 0)
  <2>1. TempsMove(c, Resting)
    <3>1. CASE given
      BY <1>0, <1>2, <1>3, <1>5, <3>1 DEF TempsMove
    <3>2. CASE ~given
      <4>1. temps' = temps - 0 /\ temps \in Nat
        BY <1>5, <3>2, FS_CardinalityType DEF OInv
      <4>2. temps' = temps
        BY <4>1
      <4> QED BY <1>2, <1>3, <3>2, <4>2, Zenon DEF TempsMove
    <3> QED BY <3>1, <3>2
  <2> QED BY <1>2, <1>3, <1>5, <2>1, QuietStep
<1> QED BY <1>1, <1>4, <1>5

\* An object is stored under a path that callers use.
LEMMA StoredPaths == OInv => DOMAIN files \subseteq Range(OPaths)
<1> SUFFICES ASSUME OInv, NEW j \in DOMAIN files PROVE j \in Range(OPaths)
  OBVIOUS
<1>1. j \in KeySet(ocfg) /\ (IsLocal(ocfg) => j # Outside)
  BY DEF OInv, OTypes, FilesOK
<1>2. PICK p \in Range(OPaths) : j = KeyAt(ocfg, p)
  BY <1>1 DEF KeySet
<1> QED BY <1>1, <1>2, PathAssumption DEF KeyAt

\* A Put begins, or is refused.
LEMMA PutStarts ==
  ASSUME OInv, NEW c \in OClients, NEW p \in Range(OPaths), NEW v \in OContents, Put(c, p, v)
  PROVE  OInv'
<1>1. CASE p = <<>>
  BY <1>1, CallRefused DEF Put
<1>2. CASE p # <<>>
  <2> DEFINE at == IF Local THEN "mkdir" ELSE "send"
  <2>1. StartCall(c, "Put", at, p, v, {})
    BY <1>2, Zenon DEF Put
  <2>2. at \in {"send", "mkdir", "open", "request", "stat", "page"} /\ {} \in SUBSET DOMAIN OPaths
        /\ v \in OContents \cup {NoContent}
    OBVIOUS
  <2> QED BY <2>1, <2>2, CallStarts
<1> QED BY <1>1, <1>2

\* A Delete begins, or is refused.
LEMMA DeleteStarts ==
  ASSUME OInv, NEW c \in OClients, NEW p \in Range(OPaths), Delete(c, p)
  PROVE  OInv'
<1>1. CASE p = <<>>
  BY <1>1, CallRefused DEF Delete
<1>2. CASE p # <<>>
  <2> DEFINE at == IF Local THEN "stat" ELSE "request"
  <2>1. StartCall(c, "Delete", at, p, NoContent, {})
    BY <1>2, Zenon DEF Delete
  <2>2. at \in {"send", "mkdir", "open", "request", "stat", "page"} /\ {} \in SUBSET DOMAIN OPaths
        /\ NoContent \in OContents \cup {NoContent}
    OBVIOUS
  <2> QED BY <2>1, <2>2, CallStarts
<1> QED BY <1>1, <1>2

\* A Get begins.
LEMMA GetStarts ==
  ASSUME OInv, NEW c \in OClients, NEW p \in Range(OPaths), Get(c, p)
  PROVE  OInv'
<1>1. StartCall(c, "Get", "open", p, NoContent, {})
  BY Zenon DEF Get
<1>2. {} \in SUBSET DOMAIN OPaths /\ NoContent \in OContents \cup {NoContent}
  OBVIOUS
<1> QED BY <1>1, <1>2, CallStarts

\* A listing begins with every object it covers ahead of it.
LEMMA ListStarts ==
  ASSUME OInv, NEW c \in OClients, NEW p \in Range(OPaths), List(c, p)
  PROVE  OInv'
<1> DEFINE all == {i \in DOMAIN OPaths : Covers(ObjectKey(p), OPaths[i])}
           left == IF Local THEN {i \in all : OPaths[i] \in DOMAIN files} ELSE all
<1>1. \/ Refuse(c, "List")
      \/ StartCall(c, "List", "page", p, NoContent, left)
  BY Zenon DEF List
<1>2. CASE Refuse(c, "List")
  BY <1>2, CallRefused
<1>3. CASE StartCall(c, "List", "page", p, NoContent, left)
  <2>1. left \in SUBSET DOMAIN OPaths
    OBVIOUS
  <2>2. {j \in DOMAIN files : Covers(ObjectKey(p), j)} \subseteq PathsOf(left)
    <3> SUFFICES ASSUME NEW j \in DOMAIN files, Covers(ObjectKey(p), j) PROVE j \in PathsOf(left)
      BY Zenon
    <3>1. PICK i \in DOMAIN OPaths : j = OPaths[i]
      BY StoredPaths DEF Range
    <3>2. i \in left
      BY <3>1, Zenon
    <3> QED BY <3>1, <3>2, Zenon DEF PathsOf
  <2>3. NoContent \in OContents \cup {NoContent}
    OBVIOUS
  <2> HIDE DEF left
  <2> QED BY <1>3, <2>1, <2>2, <2>3, CallStarts
<1> QED BY <1>1, <1>2, <1>3

\* The initial states satisfy the invariant.
LEMMA ObjectStart == OInit => OInv
<1> SUFFICES ASSUME OInit PROVE OInv
  OBVIOUS
<1>0. Local <=> IsLocal(ocfg)
  BY KeyFacts
<1>1. /\ ocfg \in OConfigs /\ Validate(ocfg) /\ ocalls = 0 /\ temps = 0 /\ ocfg.calls \in Nat
      /\ DOMAIN files = {} /\ files = [k \in {} |-> {}]
      /\ ocall = [c \in OClients |-> Resting]
      /\ acked = [k \in KeySet(ocfg) |-> NoContent]
  BY KeyFacts, ObjectAssumption DEF OInit
<1>2. FilesOK(ocfg, files)
  <2>1. files \in [DOMAIN files -> OFileType]
    BY <1>1
  <2>2. IsFiniteSet(DOMAIN files)
    BY <1>1, FS_EmptySet
  <2> QED BY <1>1, <2>1, <2>2 DEF FilesOK
<1>3. /\ Resting \in OCallType /\ OWay(ocfg, Resting) /\ ListWay(files, Resting) /\ ~HoldsTemp(ocfg, Resting)
      /\ ~OWrites(Resting) /\ Resting.at = "idle"
  BY RestingType DEF OWay, ListWay, HoldsTemp, OWrites
<1>4. \A c \in OClients : ocall[c] = Resting
  BY <1>1, Zenon
<1>5. ocall \in [OClients -> OCallType]
  BY <1>1, <1>3, Zenon
<1>6. OTypes
  <2>1. ocalls \in 0..ocfg.calls
    BY ONLY <1>1
  <2>2. acked = [k \in KeySet(ocfg) |-> acked[k]]
    BY <1>1, Zenon
  <2> QED BY <1>1, <1>2, <1>3, <1>4, <1>5, <2>1, <2>2, Zenon DEF OTypes
<1>7. OverlapKnown /\ AttrsStored /\ CopyCut
  <2>1. OverlapKnown
    BY <1>3, <1>4, Zenon DEF OverlapKnown, Overlaps
  <2>2. AttrsStored /\ CopyCut
    BY <1>3, <1>4 DEF AttrsStored, CopyCut
  <2> QED BY <2>1, <2>2
<1>8. AckedHolds
  BY <1>1, Zenon DEF AckedHolds, HoldsFor
<1>9. DirsOK(ocfg, files, dirs)
  BY <1>1 DEF DirsOK
<1>10. IsFiniteSet(TempHolders) /\ temps = Cardinality(TempHolders)
  <2>1. TempHolders = {}
    BY <1>3, <1>4, Zenon DEF TempHolders
  <2> QED BY <1>1, <2>1, FS_EmptySet
<1>11. \A c \in OClients : ListWay(files, ocall[c])
  BY <1>3, <1>4, Zenon
<1> QED BY <1>6, <1>7, <1>8, <1>9, <1>10, <1>11, Zenon DEF OInv

\* Every step of a client, and of the store for it, preserves it.
LEMMA ObjectStep == OInv /\ [ONext]_ovars => OInv'
<1> SUFFICES ASSUME OInv, [ONext]_ovars PROVE OInv'
  OBVIOUS
<1>1. CASE UNCHANGED ovars
  <2>1. /\ ocfg' = ocfg /\ files' = files /\ dirs' = dirs /\ ocall' = ocall /\ temps' = temps
        /\ acked' = acked /\ ocalls' = ocalls
    BY <1>1, Zenon DEF ovars
  <2>2. OTypes' /\ DirsOK(ocfg', files', dirs')
    BY <2>1, Zenon DEF OInv, OTypes
  <2>3. \A c \in OClients : ListWay(files', ocall'[c])
    BY <2>1, Zenon DEF OInv
  <2>4. OverlapKnown' /\ AttrsStored' /\ CopyCut' /\ AckedHolds'
    BY <2>1, Zenon DEF OInv, OverlapKnown, AttrsStored, CopyCut, AckedHolds
  <2>5. TempHolders' = TempHolders
    BY <2>1, Zenon DEF TempHolders
  <2>6. (IsFiniteSet(TempHolders) /\ temps = Cardinality(TempHolders))'
    BY <2>1, <2>5, Zenon DEF OInv
  <2> QED BY <2>2, <2>3, <2>4, <2>6, Zenon DEF OInv
<1>2. CASE ONext
  <2>1. PICK c \in OClients :
          \/ \E p \in Range(OPaths) :
               (\E v \in OContents : Put(c, p, v)) \/ Get(c, p) \/ Delete(c, p) \/ List(c, p)
          \/ PutSend(c) \/ PutAttrs(c) \/ LocalMkdir(c) \/ LocalCreate(c) \/ LocalCopy(c)
          \/ GetStream(c) \/ CreateTemp(c) \/ CopyToTemp(c)
          \/ DeleteRequest(c) \/ LocalDeleteStat(c) \/ LocalRemove(c)
          \/ ListPage(c) \/ CallerDone(c)
    BY <1>2, Zenon DEF ONext
  <2>2. ASSUME NEW p \in Range(OPaths),
               (\E v \in OContents : Put(c, p, v)) \/ Get(c, p) \/ Delete(c, p) \/ List(c, p)
        PROVE  OInv'
    BY <2>2, PutStarts, GetStarts, DeleteStarts, ListStarts
  <2> QED BY <2>1, <2>2, PutSendStep, PutAttrsStep, LocalMkdirStep, LocalCreateStep, LocalCopyStep,
             GetStreamStep, CreateTempStep, CopyToTempStep, DeleteRequestStep, LocalDeleteStatStep,
             LocalRemoveStep, ListPageStep, CallerDoneStep
<1> QED BY <1>1, <1>2

\* It implies what the run checks of the object storage.
LEMMA ObjectGoal == OInv => ObjectsSound
<1> SUFFICES ASSUME OInv PROVE ObjectsSound
  OBVIOUS
<1>1. /\ ocfg \in OConfigs /\ Validate(ocfg) /\ FilesOK(ocfg, files) /\ ocalls \in 0..ocfg.calls
      /\ DirsOK(ocfg, files, dirs) /\ IsFiniteSet(TempHolders) /\ temps = Cardinality(TempHolders)
  BY DEF OInv, OTypes
<1>2. OTypeOK
  <2>1. DOMAIN files \subseteq Keys
    BY <1>1, KeyFacts, Zenon DEF FilesOK
  <2>2. temps \in Nat
    BY <1>1, FS_CardinalityType
  <2>3. \A k \in DOMAIN files : files[k].content \in OContents \cup {Cut}
    <3> SUFFICES ASSUME NEW k \in DOMAIN files PROVE files[k].content \in OContents \cup {Cut}
      OBVIOUS
    <3>1. files[k] \in OFileType
      BY <1>1, Zenon DEF FilesOK
    <3> QED BY <3>1 DEF OFileType
  <2>4. Local => \A k \in DOMAIN files : Ancestors(k) \subseteq dirs
    BY <1>1, KeyFacts, Zenon DEF DirsOK
  <2> QED BY <1>1, <2>1, <2>2, <2>3, <2>4, Zenon DEF OTypeOK
<1>3. LastWriteStands
  <2> SUFFICES ASSUME NEW p \in Range(OPaths), p # <<>>, ObjectKey(p) # Outside, acked[ObjectKey(p)] # "any",
                      \A c \in OClients : ~Writing(c, ObjectKey(p))
               PROVE  /\ Stat(p) = acked[ObjectKey(p)]
                      /\ Exists(p) = (acked[ObjectKey(p)] # NoContent)
    BY Zenon DEF LastWriteStands
  <2> DEFINE k == ObjectKey(p)
  <2>1. k = KeyAt(ocfg, p) /\ k \in KeySet(ocfg) /\ (Local <=> IsLocal(ocfg)) /\ (~Local => k = p)
    BY KeyFacts DEF ObjectKey
  <2>2. ASSUME NEW c \in OClients, ODirty(ocall[c]), KeyAt(ocfg, ocall[c].p) = k PROVE FALSE
    <3>1. ~Writing(c, k) /\ ObjectKey(ocall[c].p) = k
      BY <2>2, KeyFacts, Zenon
    <3> QED BY <2>2, <3>1 DEF Writing, Busy, ODirty
  <2>3. HoldsFor(files, acked[k], k)
    BY <2>1, <2>2, Zenon DEF OInv, AckedHolds
  <2>4. Exists(p) <=> k \in DOMAIN files
    BY <2>1, StatFacts DEF Exists
  <2>5. Exists(p) \in BOOLEAN
    <3>1. CASE Local
      <4>1. Exists(p) = (StatPath(k) = "file")
        BY <3>1, Zenon DEF Exists
      <4> QED BY <4>1, Zenon
    <3>2. CASE ~Local
      <4>1. Exists(p) = (p \in DOMAIN files)
        BY <3>2, Zenon DEF Exists
      <4>2. (p \in DOMAIN files) \in BOOLEAN
        BY ONLY SMT
      <4> QED BY <4>1, <4>2, Zenon
    <3> QED BY <3>1, <3>2
  <2>6. CASE k \in DOMAIN files
    <3>1. files[k].content = acked[k] /\ acked[k] # NoContent
      BY <2>3, <2>6, Zenon DEF HoldsFor
    <3> QED BY <2>4, <2>5, <2>6, <3>1, Zenon DEF Stat
  <2>7. CASE k \notin DOMAIN files
    <3>1. acked[k] = NoContent
      BY <2>3, <2>7, Zenon DEF HoldsFor
    <3> QED BY <2>4, <2>5, <2>7, <3>1, Zenon DEF Stat
  <2> QED BY <2>6, <2>7
<1>4. ListComplete
  BY Zenon DEF OInv, ListWay, ListComplete
<1>5. TempsAccounted
  <2>1. TempHolders = {c \in OClients : ocall[c].op = "Get" /\ ~Local
                        /\ (ocall[c].at = "fetch" \/ (ocall[c].at = "done" /\ ocall[c].result = "ok"))}
    BY KeyFacts, Zenon DEF TempHolders, HoldsTemp
  <2> QED BY <1>1, <2>1, Zenon DEF TempsAccounted
<1> QED BY <1>2, <1>3, <1>4, <1>5 DEF ObjectsSound

-----------------------------------------------------------------------------
(* The replicas.  A round-robin call that is still undisturbed has missed  *)
(* exactly the nodes the counter last passed; a sweep keeps a part of what *)
(* it has passed; and the list never grows.                                *)

Nodes(s) == Range(s.slaves) \cup {Master}
ReaderType ==
  [pc : {"idle", "failed", "slave", "probe", "panic", "lock", "sweep"}, tries : Nat, probes : Nat, clean : BOOLEAN]
ReachType(s) == [up : SUBSET Nodes(s), flips : Nat]
ManagerType(s) == [list : Seq(Nodes(s)), counter : 0..(CounterCycle - 1), checks : Nat]
HandlesType(s) == [open : SUBSET Nodes(s), closed : BOOLEAN]
SweepType(s) == [by : SUBSET RCallers, at : Nat, kept : Seq(Nodes(s))]

RTypes ==
  /\ rset \in RSetups
  /\ reach \in ReachType(rset) /\ reach.flips <= rset.flips
  /\ manager \in ManagerType(rset) /\ handles \in HandlesType(rset)
  /\ reader \in [RCallers -> ReaderType] /\ sweep \in SweepType(rset)

\* The list may be used.
GoodList(s, l) ==
  /\ l # <<>> /\ IsInjective(l) /\ (Master \in Range(l) => l = <<Master>>)
  /\ Len(l) <= Len(s.slaves) \/ Len(l) = 1

\* What a sweep has kept of the nodes it has passed.
PartOf(kept, l, at) ==
  /\ IsInjective(kept) /\ Len(kept) <= at
  /\ \A i \in 1..Len(kept) : \E j \in 1..at : kept[i] = l[j]
SweepOK(sw, l) == sw.at <= Len(l) /\ PartOf(sw.kept, l, sw.at)
SweeperKnown ==
  /\ \A c \in RCallers : reader[c].pc = "sweep" => sweep.by = {c}
  /\ sweep.by # {} => \A c \in RCallers : reader[c].pc # "slave"

\* How far the counter is past a place of a list of n.
Behind(pos, i, n) == IF i <= pos THEN pos - i ELSE pos + n - i
Answers(re, h, node) == node \in re.up /\ node \in h.open

\* What an undisturbed call has missed.
Missed(s, re, h, m, r) ==
  s.kind = "sql" /\ s.strategy = "round_robin" /\ ~h.closed /\ r.clean /\ r.pc = "slave" =>
    \A i \in 0..(Len(m.list) - 1) :
      Behind(m.counter % Len(m.list), i, Len(m.list)) < r.tries => ~Answers(re, h, m.list[i + 1])
FailedRightly(s, re, h, m, r) ==
  r.pc = "failed" /\ r.clean /\ ~h.closed /\ s.strategy = "round_robin" /\ s.maxRetry + 1 >= Len(m.list)
    => \A n \in Range(m.list) : ~Answers(re, h, n)
CallRight(s, re, h, m, r) == Missed(s, re, h, m, r) /\ FailedRightly(s, re, h, m, r)
PanicNeedsGap ==
  rset.strategy = "weight" /\ rset.slaves # <<>> /\ (\E c \in RCallers : reader[c].pc = "panic")
    => Len(manager.list) < Len(rset.slaves)

RInv ==
  /\ RTypes /\ GoodList(rset, manager.list) /\ SweepOK(sweep, manager.list) /\ SweeperKnown
  /\ \A c \in RCallers : CallRight(rset, reach, handles, manager, reader[c])
  /\ PanicNeedsGap /\ CloseReleasesListed

\* Division with remainder, in numbers.
LEMMA Remainder ==
  ASSUME NEW x \in Nat, NEW n \in Nat \ {0}
  PROVE  /\ x % n \in 0..(n - 1) /\ x \div n \in Nat
         /\ x = n * (x \div n) + (x % n)
OBVIOUS

\* The remainder is the only number that divides so.
LEMMA RemainderIs ==
  ASSUME NEW x \in Nat, NEW n \in Nat \ {0}, NEW q \in Int, NEW r \in 0..(n - 1), x = n * q + r
  PROVE  x % n = r
<1> DEFINE p == x \div n
           s == x % n
<1>1. s \in 0..(n - 1) /\ p \in Nat /\ x = n * p + s
  BY Remainder
<1> HIDE DEF p, s
<1>2. n * (p - q) = r - s
  BY <1>1
<1>3. CASE p - q >= 1
  <2>1. n * (p - q) >= n
    BY <1>1, <1>3
  <2> QED BY <1>1, <1>2, <2>1
<1>4. CASE p - q <= -1
  <2>1. n * (p - q) <= -n
    BY <1>1, <1>4
  <2> QED BY <1>1, <1>2, <2>1
<1>5. CASE p = q
  BY <1>1, <1>5 DEF s
<1> QED BY <1>1, <1>3, <1>4, <1>5

\* The counter moves on by one place of the list, at its own end as well.
MovesOn(c, m, n) == ((c + 1) % m) % n = IF (c % n) + 1 = n THEN 0 ELSE (c % n) + 1

\* It does, from wherever it stands, if the cycle is a multiple of the length.
LEMMA CounterMoves ==
  ASSUME NEW m \in Nat \ {0}, NEW n \in Nat \ {0}, m % n = 0, NEW c \in 0..(m - 1)
  PROVE  MovesOn(c, m, n)
<1> USE DEF MovesOn
<1> DEFINE q == c \div n
           r == c % n
           k == m \div n
<1>1. r \in 0..(n - 1) /\ q \in Nat /\ c = n * q + r
  <2>1. c \in Nat
    OBVIOUS
  <2> QED BY <2>1, Remainder
<1>2. k \in Nat /\ m = n * k
  <2>1. k \in Nat /\ m = n * k + (m % n)
    BY Remainder
  <2> HIDE DEF k
  <2> QED BY <2>1
<1> HIDE DEF q, r, k
<1>3. CASE c + 1 < m
  <2>1. (c + 1) % m = c + 1
    <3>1. c + 1 = m * 0 + (c + 1) /\ c + 1 \in 0..(m - 1) /\ c + 1 \in Nat
      BY <1>3
    <3> QED BY <3>1, RemainderIs
  <2>2. CASE r + 1 = n
    <3>1. c + 1 = n * (q + 1) + 0
      BY <1>1, <2>2
    <3>2. (c + 1) % n = 0
      BY <1>1, <3>1, RemainderIs
    <3> QED BY <2>1, <2>2, <3>2 DEF r
  <2>3. CASE r + 1 # n
    <3>1. c + 1 = n * q + (r + 1) /\ r + 1 \in 0..(n - 1) /\ c + 1 \in Nat
      BY <1>1, <2>3
    <3>2. (c + 1) % n = r + 1
      BY <1>1, <3>1, RemainderIs
    <3> QED BY <2>1, <2>3, <3>2 DEF r
  <2> QED BY <2>2, <2>3
<1>4. CASE c + 1 = m
  <2>1. m % m = 0 /\ 0 % n = 0
    <3>1. m = m * 1 + 0 /\ 0 = n * 0 + 0
      OBVIOUS
    <3> QED BY <3>1, RemainderIs
  <2>2. r = n - 1
    <3>1. c = n * (k - 1) + (n - 1) /\ k - 1 \in Int /\ n - 1 \in 0..(n - 1) /\ c \in Nat
      BY <1>2, <1>4
    <3>2. c % n = n - 1
      BY ONLY <3>1, n \in Nat \ {0}, RemainderIs
    <3> QED BY <3>2 DEF r
  <2> QED BY <1>4, <2>1, <2>2 DEF r
<1> QED BY <1>3, <1>4

\* Among t consecutive numbers, each remainder comes up once.
LEMMA RoundShare ==
  ASSUME NEW t \in Nat \ {0}, NEW c \in Nat, NEW a \in Nat, NEW b \in Nat, a < b, b <= t
  PROVE  Cardinality({k \in 1..t : a <= (c + k) % t /\ (c + k) % t < b}) = b - a
<1> DEFINE q == c \div t
           r == c % t
           K == {k \in 1..t : a <= (c + k) % t /\ (c + k) % t < b}
<1>1. r \in 0..(t - 1) /\ q \in Nat /\ c = t * q + r
  BY Remainder
<1> HIDE DEF q, r
<1>2. ASSUME NEW k \in 1..t
      PROVE  (c + k) % t = IF r + k < t THEN r + k ELSE r + k - t
  <2>1. CASE r + k < t
    <3>1. c + k = t * q + (r + k) /\ r + k \in 0..(t - 1) /\ c + k \in Nat
      BY <1>1, <2>1
    <3> QED BY <1>1, <2>1, <3>1, RemainderIs
  <2>2. CASE r + k >= t
    <3>1. c + k = t * (q + 1) + (r + k - t) /\ r + k - t \in 0..(t - 1) /\ c + k \in Nat /\ q + 1 \in Int
      BY <1>1, <2>2
    <3>2. (c + k) % t = r + k - t
      BY ONLY <3>1, t \in Nat \ {0}, RemainderIs
    <3> QED BY <1>1, <2>2, <3>2
  <2> QED BY <1>1, <2>1, <2>2
<1>3. K = {k \in 1..t : LET s == IF r + k < t THEN r + k ELSE r + k - t IN a <= s /\ s < b}
  BY <1>2
<1> HIDE DEF K
<1>0. ASSUME NEW x \in Int, NEW y \in Int, x <= y + 1
      PROVE  IsFiniteSet(x..y) /\ Cardinality(x..y) = y - x + 1
  <2>1. IsFiniteSet(x..y) /\ Cardinality(x..y) = IF x > y THEN 0 ELSE y - x + 1
    BY FS_Interval
  <2> QED BY <1>0, <2>1
<1>4. CASE r < a
  <2> DEFINE x == a - r
             y == b - 1 - r
  <2>1. K = x..y
    BY <1>1, <1>3, <1>4
  <2>2. x \in Int /\ y \in Int /\ x <= y + 1 /\ y - x + 1 = b - a
    BY <1>1
  <2> HIDE DEF x, y
  <2>3. Cardinality(x..y) = y - x + 1
    BY <1>0, <2>2
  <2> QED BY <2>1, <2>2, <2>3 DEF K
<1>5. CASE r >= b
  <2> DEFINE x == a + t - r
             y == b - 1 + t - r
  <2>1. K = x..y
    BY <1>1, <1>3, <1>5
  <2>2. x \in Int /\ y \in Int /\ x <= y + 1 /\ y - x + 1 = b - a
    BY <1>1
  <2> HIDE DEF x, y
  <2>3. Cardinality(x..y) = y - x + 1
    BY <1>0, <2>2
  <2> QED BY <2>1, <2>2, <2>3 DEF K
<1>6. CASE a <= r /\ r < b
  <2> DEFINE A == 1..(b - 1 - r)
             B == (a + t - r)..t
  <2>1. K = A \cup B /\ A \cap B = {}
    BY <1>1, <1>3, <1>6
  <2>2. IsFiniteSet(A) /\ Cardinality(A) = b - 1 - r
    <3> DEFINE y == b - 1 - r
    <3>1. y \in Int /\ 1 <= y + 1
      BY <1>1, <1>6
    <3> HIDE DEF y
    <3>2. IsFiniteSet(1..y) /\ Cardinality(1..y) = y - 1 + 1
      BY <1>0, <3>1
    <3> QED BY <3>1, <3>2 DEF y
  <2>3. IsFiniteSet(B) /\ Cardinality(B) = r - a + 1
    <3> DEFINE x == a + t - r
    <3>1. x \in Int /\ t \in Int /\ x <= t + 1 /\ t - x + 1 = r - a + 1
      BY <1>1, <1>6
    <3> HIDE DEF x
    <3>2. IsFiniteSet(x..t) /\ Cardinality(x..t) = t - x + 1
      BY <1>0, <3>1
    <3> QED BY <3>1, <3>2 DEF x
  <2>4. IsFiniteSet({}) /\ Cardinality({}) = 0
    BY FS_EmptySet
  <2> HIDE DEF A, B
  <2>5. Cardinality(A \cup B) = Cardinality(A) + Cardinality(B) - Cardinality(A \cap B)
    BY <2>2, <2>3, FS_Union
  <2>6. Cardinality(K) = (b - 1 - r) + (r - a + 1) - 0
    BY <2>1, <2>2, <2>3, <2>4, <2>5
  <2> QED BY <1>1, <2>6 DEF K
<1> QED BY <1>1, <1>4, <1>5, <1>6

\* There is a function up to n that starts at base and goes on by step.
Unfolds(S, base, step, n) ==
  \E g \in [0..n -> S] : g[0] = base /\ \A i \in 1..n : g[i] = step[<<i, g[i - 1]>>]

\* What is defined by recursion on a number exists, up to any number.
LEMMA RecursionUpTo ==
  ASSUME NEW S, NEW base \in S, NEW step \in [Nat \X S -> S], NEW n \in Nat
  PROVE  Unfolds(S, base, step, n)
<1> DEFINE Good(k) == \E g \in [0..k -> S] : g[0] = base /\ \A i \in 1..k : g[i] = step[<<i, g[i - 1]>>]
           bad == {k \in Nat : ~Good(k)}
<1> SUFFICES ASSUME ~Good(n) PROVE FALSE
  BY DEF Unfolds
<1>1. bad \in SUBSET Nat /\ bad # {}
  OBVIOUS
<1> DEFINE k == Min(bad)
<1>2. k \in bad /\ \A y \in bad : k <= y
  <2> HIDE DEF bad
  <2> QED BY <1>1, LeastNumber
<1>3. k \in Nat /\ ~Good(k)
  BY <1>2
<1>4. \A y \in Nat : y < k => Good(y)
  <2> SUFFICES ASSUME NEW y \in Nat, y < k, ~Good(y) PROVE FALSE
    OBVIOUS
  <2>1. y \in bad
    OBVIOUS
  <2>2. k <= y /\ k \in Nat
    BY <1>2, <2>1
  <2> HIDE DEF k
  <2> QED BY <2>2
<1> HIDE DEF k, bad
<1>5. CASE k = 0
  <2> DEFINE g == [i \in 0..0 |-> base]
  <2>1. g \in [0..k -> S] /\ g[0] = base /\ \A i \in 1..k : g[i] = step[<<i, g[i - 1]>>]
    BY <1>5
  <2> QED BY <1>3, <2>1
<1>6. CASE k # 0
  <2>1. k - 1 \in Nat /\ k - 1 < k
    BY <1>3, <1>6
  <2>2. PICK g \in [0..(k - 1) -> S] : g[0] = base /\ \A i \in 1..(k - 1) : g[i] = step[<<i, g[i - 1]>>]
    BY <1>4, <2>1
  <2> DEFINE last == step[<<k, g[k - 1]>>]
             h == [i \in 0..k |-> IF i = k THEN last ELSE g[i]]
  <2>3. last \in S
    BY <1>3, <2>1
  <2> HIDE DEF last
  <2>4. h \in [0..k -> S] /\ h[0] = base /\ h[k] = last /\ \A i \in 0..(k - 1) : h[i] = g[i]
    BY <1>3, <1>6, <2>2, <2>3
  <2>5. ASSUME NEW i \in 1..k PROVE h[i] = step[<<i, h[i - 1]>>]
    <3> HIDE DEF h
    <3>1. CASE i = k
      <4>1. h[i - 1] = g[k - 1]
        BY <1>3, <2>1, <2>4, <3>1
      <4> QED BY <2>4, <3>1, <4>1 DEF last
    <3>2. CASE i # k
      <4>1. i \in 1..(k - 1) /\ i - 1 \in 0..(k - 1) /\ i \in 0..(k - 1)
        BY <1>3, <3>2
      <4>2. h[i] = g[i] /\ h[i - 1] = g[i - 1] /\ g[i] = step[<<i, g[i - 1]>>]
        BY <2>2, <2>4, <4>1
      <4> QED BY <4>2
    <3> QED BY <3>1, <3>2
  <2> HIDE DEF h
  <2> QED BY <1>3, <2>4, <2>5
<1> QED BY <1>5, <1>6

\* A number of a set that is right up to a bound, by least counterexample.
LEMMA StepsUp ==
  ASSUME NEW n \in Nat, NEW Good, Good \subseteq 0..n, 0 \in Good, \A i \in 1..n : i - 1 \in Good => i \in Good
  PROVE  \A i \in 0..n : i \in Good
<1> DEFINE bad == (0..n) \ Good
<1> SUFFICES ASSUME bad # {} PROVE FALSE
  OBVIOUS
<1>1. bad \in SUBSET Nat
  OBVIOUS
<1> DEFINE k == Min(bad)
<1>2. k \in bad /\ \A y \in bad : k <= y
  <2> HIDE DEF bad
  <2> QED BY <1>1, LeastNumber
<1> HIDE DEF k
<1>3. k \in 1..n /\ k - 1 \in 0..n /\ k - 1 < k
  BY <1>2
<1>4. k - 1 \in Good
  <2> SUFFICES ASSUME k - 1 \notin Good PROVE FALSE
    OBVIOUS
  <2>1. k <= k - 1
    BY <1>2, <1>3
  <2> QED BY <1>3, <2>1
<1> QED BY <1>2, <1>3, <1>4

\* What a setup is made of.
LEMMA SetupIs ==
  ASSUME rset \in RSetups
  PROVE  /\ rset.slaves \in Seq(STRING) /\ rset.weights \in Seq(Int) /\ rset.maxRetry \in Nat
         /\ rset.flips \in Nat /\ rset.health \in Nat
         /\ rset.strategy \in {"round_robin", "random", "weight"} /\ rset.kind \in {"sql", "mongo"}
         /\ Len(rset.weights) = Len(rset.slaves) /\ Len(rset.slaves) \in Nat
         /\ IsInjective(rset.slaves) /\ Master \notin Range(rset.slaves)
         /\ CounterCycle \in Nat \ {0} /\ NodeProbes \in Nat
         /\ \A n \in 1..Len(rset.slaves) : CounterCycle % n = 0
<1>1. rset \in RSetupType
  BY ReplicasAssumption
<1>2. /\ rset.slaves \in Seq(STRING) /\ rset.weights \in Seq(Int) /\ rset.maxRetry \in Nat
      /\ rset.flips \in Nat /\ rset.health \in Nat
      /\ rset.strategy \in {"round_robin", "random", "weight"} /\ rset.kind \in {"sql", "mongo"}
  BY <1>1 DEF RSetupType
<1>3. /\ Len(rset.weights) = Len(rset.slaves)
      /\ IsInjective(rset.slaves) /\ Master \notin Range(rset.slaves)
      /\ CounterCycle \in Nat \ {0} /\ NodeProbes \in Nat
      /\ \A n \in 1..Len(rset.slaves) : CounterCycle % n = 0
  BY ReplicasAssumption
<1>4. Len(rset.slaves) \in Nat
  BY <1>2
<1> QED BY <1>2, <1>3, <1>4

\* A weight that is not positive counts as one.
LEMMA WeightIs ==
  ASSUME rset \in RSetups, NEW i \in 1..Len(rset.weights)
  PROVE  Weight(i) \in Nat \ {0}
<1>1. rset.weights[i] \in Int
  BY SetupIs
<1> QED BY <1>1 DEF Weight

\* The accumulator of the weights starts at nothing and takes in one weight after another.
LEMMA AccumulatorIs ==
  ASSUME rset \in RSetups
  PROVE  /\ Accumulator[0] = 0
         /\ \A i \in 1..Len(rset.weights) : Accumulator[i] = Accumulator[i - 1] + Weight(i)
         /\ \A i \in 0..Len(rset.weights) : Accumulator[i] \in Nat
<1> DEFINE n == Len(rset.weights)
           W(i) == IF i \in 1..n THEN Weight(i) ELSE 0
           step == [p \in Nat \X Nat |-> p[2] + W(p[1])]
<1>0. n \in Nat
  BY SetupIs
<1>1. \A i \in 1..n : Weight(i) \in Nat
  BY WeightIs
<1>2. step \in [Nat \X Nat -> Nat]
  <2> HIDE DEF n
  <2>1. \A i \in Nat : W(i) \in Nat
    BY <1>1
  <2> HIDE DEF W
  <2> QED BY <2>1
<1>3. PICK g \in [0..n -> Nat] : g[0] = 0 /\ \A i \in 1..n : g[i] = step[<<i, g[i - 1]>>]
  <2> HIDE DEF n, step
  <2>1. 0 \in Nat /\ n \in Nat
    BY <1>0
  <2>2. Unfolds(Nat, 0, step, n)
    BY ONLY <1>2, <2>1, RecursionUpTo, Zenon
  <2> QED BY <2>2 DEF Unfolds
<1>4. \A i \in 1..n : g[i] = g[i - 1] + Weight(i)
  <2> SUFFICES ASSUME NEW i \in 1..n PROVE g[i] = g[i - 1] + Weight(i)
    OBVIOUS
  <2> HIDE DEF n
  <2>1. i \in Nat /\ i - 1 \in 0..n /\ g[i - 1] \in Nat
    BY <1>0, <1>3
  <2> QED BY <1>3, <2>1
<1> DEFINE Body(a) == [i \in 0..n |-> IF i = 0 THEN 0 ELSE a[i - 1] + Weight(i)]
<1>5. g = Body(g)
  <2> HIDE DEF n
  <2> QED BY <1>0, <1>3, <1>4
<1> DEFINE acc == CHOOSE a : a = Body(a)
<1>6. Accumulator = acc
  BY DEF Accumulator
<1>7. acc = Body(acc)
  <2> HIDE DEF Body
  <2> QED BY <1>5
<1> HIDE DEF acc
<1>8. acc[0] = 0 /\ \A i \in 1..n : acc[i] = acc[i - 1] + Weight(i)
  <2> HIDE DEF n
  <2>1. \A i \in 0..n : acc[i] = IF i = 0 THEN 0 ELSE acc[i - 1] + Weight(i)
    BY <1>7
  <2> QED BY <1>0, <2>1
<1>9. \A i \in 0..n : acc[i] \in Nat
  <2> HIDE DEF n, Body
  <2> DEFINE Good == {i \in 0..n : acc[i] \in Nat}
  <2>1. Good \subseteq 0..n /\ 0 \in Good
    BY <1>0, <1>8
  <2>2. \A i \in 1..n : i - 1 \in Good => i \in Good
    BY <1>0, <1>1, <1>8
  <2>3. \A i \in 0..n : i \in Good
    <3> HIDE DEF Good
    <3> QED BY <1>0, <2>1, <2>2, StepsUp
  <2> QED BY <2>3
<1> QED BY <1>6, <1>8, <1>9

\* It only ever grows.
LEMMA AccumulatorGrows ==
  ASSUME rset \in RSetups, NEW i \in 0..Len(rset.weights), NEW j \in 0..Len(rset.weights), i < j
  PROVE  Accumulator[i] < Accumulator[j]
<1> DEFINE n == Len(rset.weights)
           A == Accumulator
           Good == {k \in 0..n : i < k => A[i] < A[k]}
<1>0. n \in Nat /\ i \in 0..n /\ j \in 0..n
  BY SetupIs
<1>1. /\ \A k \in 1..n : A[k] = A[k - 1] + Weight(k) /\ Weight(k) \in Nat \ {0}
      /\ \A k \in 0..n : A[k] \in Nat
  BY AccumulatorIs, WeightIs
<1> HIDE DEF n, A
<1>2. Good \subseteq 0..n /\ 0 \in Good
  BY <1>0
<1>3. \A k \in 1..n : k - 1 \in Good => k \in Good
  <2> SUFFICES ASSUME NEW k \in 1..n, k - 1 \in Good, i < k PROVE A[i] < A[k]
    BY <1>0
  <2>1. A[k] = A[k - 1] + Weight(k) /\ Weight(k) \in Nat \ {0} /\ A[k - 1] \in Nat /\ A[i] \in Nat
    BY <1>0, <1>1
  <2>2. CASE i = k - 1
    BY <2>1, <2>2
  <2>3. CASE i < k - 1
    BY <2>1, <2>3
  <2> QED BY <1>0, <2>2, <2>3
<1>4. \A k \in 0..n : k \in Good
  <2> HIDE DEF Good
  <2> QED BY <1>0, <1>2, <1>3, StepsUp
<1> QED BY <1>0, <1>4 DEF A

\* The weighted balancer picks a configured slave: the one in whose part of the sum of
\* the weights the counter stands.
LEMMA WeightNextIs ==
  ASSUME rset \in RSetups, rset.weights # <<>>, NEW c \in Nat
  PROVE  /\ TotalWeight \in Nat \ {0}
         /\ \E i \in 1..Len(rset.weights) : WeightNext(c) = {i}
         /\ \A i \in 1..Len(rset.weights) :
              WeightNext(c) = {i} <=>
                (Accumulator[i - 1] <= c % TotalWeight /\ c % TotalWeight < Accumulator[i])
<1> DEFINE n == Len(rset.weights)
           A == Accumulator
           T == TotalWeight
           x == c % T
           P(i) == A[i] > x /\ \A j \in 1..i - 1 : A[j] <= x
           pick == CHOOSE i \in 1..n : P(i)
<1>0. n \in Nat \ {0}
  BY SetupIs
<1>1. A[0] = 0 /\ T = A[n] /\ \A i \in 0..n : A[i] \in Nat
  BY AccumulatorIs DEF TotalWeight, WeightUpTo
<1>2. \A i, j \in 0..n : i < j => A[i] < A[j]
  BY AccumulatorGrows
<1>3. DOMAIN rset.weights = 1..n
  BY SetupIs
<1> HIDE DEF n, A
<1>4. T \in Nat \ {0}
  BY <1>0, <1>1, <1>2
<1>5. WeightNext(c) = {pick}
  BY <1>3, <1>4 DEF WeightNext, WeightUpTo, A
<1> HIDE DEF T
<1>6. x \in 0..(T - 1)
  BY <1>4, Remainder
<1> HIDE DEF x
<1>7. \E i \in 1..n : P(i)
  <2> DEFINE above == {i \in 1..n : A[i] > x}
             k == Min(above)
  <2>1. above \in SUBSET Nat /\ above # {}
    BY <1>0, <1>1, <1>6
  <2>2. k \in above /\ \A y \in above : k <= y
    <3> HIDE DEF above
    <3> QED BY <2>1, LeastNumber
  <2> HIDE DEF k
  <2>3. P(k)
    <3> SUFFICES ASSUME NEW j \in 1..k - 1, ~(A[j] <= x) PROVE FALSE
      BY <2>2
    <3>1. j \in 1..n /\ A[j] \in Nat
      BY <1>0, <1>1, <2>2
    <3>2. j \in above
      BY <1>6, <3>1
    <3> QED BY <2>2, <3>2
  <2> QED BY <2>2, <2>3
<1>8. pick \in 1..n /\ P(pick)
  BY <1>7
<1> HIDE DEF pick
<1>9. ASSUME NEW i \in 1..n PROVE pick = i <=> (A[i - 1] <= x /\ x < A[i])
  <2>0. i - 1 \in 0..n /\ i \in 0..n /\ A[i] \in Nat /\ A[i - 1] \in Nat
    BY <1>0, <1>1
  <2>1. P(i) => A[i - 1] <= x /\ x < A[i]
    <3>1. CASE i = 1
      BY <1>1, <1>6, <2>0, <3>1
    <3>2. CASE i > 1
      BY <2>0, <3>2
    <3> QED BY <3>1, <3>2
  <2>2. ASSUME A[i - 1] <= x, x < A[i] PROVE pick = i
    <3>1. CASE pick < i
      <4>1. pick = i - 1 \/ A[pick] < A[i - 1]
        BY <1>0, <1>2, <1>8, <2>0, <3>1
      <4>2. A[pick] \in Nat
        BY <1>0, <1>1, <1>8
      <4> QED BY <1>6, <1>8, <2>0, <2>2, <4>1, <4>2
    <3>2. CASE pick > i
      <4>1. A[i] <= x
        BY <1>8, <3>2
      <4> QED BY <1>6, <2>0, <2>2, <4>1
    <3> QED BY <1>8, <3>1, <3>2
  <2> QED BY <1>8, <2>1, <2>2
<1> QED BY <1>4, <1>5, <1>8, <1>9 DEF n, A, T, x

\* Each configured slave gets its weight of every round.
LEMMA EachItsWeight ==
  ASSUME rset \in RSetups, NEW c \in Nat, NEW i \in DOMAIN rset.weights
  PROVE  Cardinality({k \in 1..TotalWeight : WeightNext(c + k) = {i}}) = Weight(i)
<1> DEFINE n == Len(rset.weights)
           a == Accumulator[i - 1]
           b == Accumulator[i]
           T == TotalWeight
<1>1. i \in 1..n /\ n \in Nat \ {0} /\ rset.weights # <<>>
  BY SetupIs
<1>2. b = a + Weight(i) /\ a \in Nat /\ b \in Nat /\ Weight(i) \in Nat \ {0} /\ T = Accumulator[n]
  BY <1>1, AccumulatorIs, WeightIs DEF TotalWeight, WeightUpTo
<1>3. b <= T /\ T \in Nat
  <2>1. i \in 0..n /\ n \in 0..n /\ Accumulator[n] \in Nat
    BY <1>1, AccumulatorIs
  <2>2. CASE i = n
    BY <1>2, <2>1, <2>2
  <2>3. CASE i < n
    <3>1. Accumulator[i] < Accumulator[n]
      BY <2>1, <2>3, AccumulatorGrows
    <3> QED BY <1>2, <2>1, <3>1
  <2> QED BY <1>1, <2>2, <2>3
<1>4. \A k \in 1..T : WeightNext(c + k) = {i} <=> (a <= (c + k) % T /\ (c + k) % T < b)
  <2> SUFFICES ASSUME NEW k \in 1..T
               PROVE  WeightNext(c + k) = {i} <=> (a <= (c + k) % T /\ (c + k) % T < b)
    OBVIOUS
  <2>1. c + k \in Nat
    BY <1>3
  <2> QED BY <1>1, <2>1, WeightNextIs
<1>5. T \in Nat \ {0}
  BY <1>1, WeightNextIs
<1>6. {k \in 1..T : WeightNext(c + k) = {i}} = {k \in 1..T : a <= (c + k) % T /\ (c + k) % T < b}
  BY <1>4
<1> HIDE DEF a, b, T
<1>7. Cardinality({k \in 1..T : a <= (c + k) % T /\ (c + k) % T < b}) = b - a
  <2>1. c \in Nat /\ a \in Nat /\ b \in Nat /\ a < b
    BY <1>2
  <2> QED BY ONLY <1>3, <1>5, <2>1, RoundShare
<1>8. b - a = Weight(i)
  BY <1>2
<1> QED BY <1>6, <1>7, <1>8 DEF T

\* A part of a list may take in the list's next place, or leave it out.
LEMMA PartGrows ==
  ASSUME NEW S, NEW l \in Seq(S), NEW kept \in Seq(S), NEW at \in Nat,
         IsInjective(l), at < Len(l), PartOf(kept, l, at)
  PROVE  /\ PartOf(kept, l, at + 1) /\ PartOf(Append(kept, l[at + 1]), l, at + 1)
         /\ Append(kept, l[at + 1]) \in Seq(S)
<1> DEFINE e == l[at + 1]
           k == Len(kept)
           more == Append(kept, e)
<1>0. k \in Nat /\ k <= at /\ at + 1 \in 1..Len(l) /\ Len(l) \in Nat /\ e \in S /\ DOMAIN kept = 1..k /\ DOMAIN l = 1..Len(l)
  BY DEF PartOf
<1>1. more \in Seq(S) /\ Len(more) = k + 1 /\ more[k + 1] = e /\ DOMAIN more = 1..(k + 1)
  BY <1>0
<1>2. \A i \in 1..k : more[i] = kept[i]
  BY <1>0
<1>3. \A i \in 1..k : \E j \in 1..at : kept[i] = l[j]
  BY DEF PartOf
<1>4. \A i, j \in 1..k : kept[i] = kept[j] => i = j
  BY <1>0 DEF PartOf, IsInjective
<1>5. \A i, j \in 1..Len(l) : l[i] = l[j] => i = j
  BY <1>0 DEF IsInjective
<1> HIDE DEF more, k
<1>6. \A i \in 1..k : kept[i] # e
  <2> SUFFICES ASSUME NEW i \in 1..k, kept[i] = e PROVE FALSE
    OBVIOUS
  <2>1. PICK j \in 1..at : kept[i] = l[j]
    BY <1>3
  <2>2. j \in 1..Len(l) /\ j # at + 1 /\ l[j] = l[at + 1]
    BY <1>0, <2>1
  <2> QED BY <1>0, <1>5, <2>2
<1> HIDE DEF e
<1>7. \A i, j \in 1..(k + 1) : more[i] = more[j] => i = j
  <2> SUFFICES ASSUME NEW i \in 1..(k + 1), NEW j \in 1..(k + 1), more[i] = more[j] PROVE i = j
    OBVIOUS
  <2>1. CASE i \in 1..k /\ j \in 1..k
    BY <1>2, <1>4, <2>1
  <2>2. CASE i = k + 1 /\ j \in 1..k
    BY <1>1, <1>2, <1>6, <2>2
  <2>3. CASE j = k + 1 /\ i \in 1..k
    BY <1>1, <1>2, <1>6, <2>3
  <2>4. i \in 1..k \/ i = k + 1
    BY <1>0
  <2>5. j \in 1..k \/ j = k + 1
    BY <1>0
  <2> QED BY <2>1, <2>2, <2>3, <2>4, <2>5
<1>8. \A i \in 1..(k + 1) : \E j \in 1..(at + 1) : more[i] = l[j]
  <2> SUFFICES ASSUME NEW i \in 1..(k + 1) PROVE \E j \in 1..(at + 1) : more[i] = l[j]
    OBVIOUS
  <2>1. CASE i \in 1..k
    <3>1. PICK j \in 1..at : kept[i] = l[j]
      BY <1>3, <2>1
    <3>2. j \in 1..(at + 1) /\ more[i] = l[j]
      BY <1>2, <2>1, <3>1
    <3> QED BY <3>2
  <2>2. CASE i = k + 1
    <3>1. at + 1 \in 1..(at + 1) /\ more[i] = l[at + 1]
      BY <1>0, <1>1, <2>2 DEF e
    <3> QED BY <3>1
  <2>3. i \in 1..k \/ i = k + 1
    BY <1>0
  <2> QED BY <2>1, <2>2, <2>3
<1>9. PartOf(kept, l, at + 1)
  <2>1. \A i \in 1..k : \E j \in 1..(at + 1) : kept[i] = l[j]
    BY <1>3
  <2>2. IsInjective(kept) /\ k <= at + 1
    BY <1>0 DEF PartOf
  <2> QED BY <2>1, <2>2 DEF PartOf, k
<1>10. PartOf(more, l, at + 1)
  BY <1>0, <1>1, <1>7, <1>8 DEF PartOf, IsInjective
<1> QED BY <1>1, <1>9, <1>10 DEF more, e

\* A part of the configured slaves, or the master alone, is a list that may be used.
LEMMA MasterAlone ==
  ASSUME NEW s
  PROVE  <<Master>> \in Seq(Nodes(s)) /\ GoodList(s, <<Master>>)
<1>1. Master \in Nodes(s)
  BY DEF Nodes
<1>2. <<Master>> \in Seq(Nodes(s)) /\ Len(<<Master>>) = 1 /\ <<Master>> # <<>> /\ DOMAIN <<Master>> = {1}
  BY <1>1
<1> QED BY <1>2 DEF GoodList, IsInjective

\* The slaves that could be reached are a part of those configured; if there is none, the
\* master stands in.
LEMMA NewList ==
  ASSUME rset \in RSetups, NEW up
  PROVE  NewDBManager(rset, up) \in Seq(Nodes(rset)) /\ GoodList(rset, NewDBManager(rset, up))
<1> DEFINE conf == rset.slaves
           n == Len(conf)
           S == Seq(Range(conf))
           step == [p \in Nat \X S |->
                      IF p[1] \in 1..n /\ conf[p[1]] \in up THEN Append(p[2], conf[p[1]]) ELSE p[2]]
           Body(a) == [i \in 0..n |-> IF i = 0 THEN <<>>
                                      ELSE IF conf[i] \in up THEN Append(a[i - 1], conf[i]) ELSE a[i - 1]]
           sl == CHOOSE a : a = Body(a)
<1>0. n \in Nat /\ DOMAIN conf = 1..n /\ IsInjective(conf) /\ Master \notin Range(conf)
  BY SetupIs
<1>1. NewDBManager(rset, up) = IF sl[n] = <<>> THEN <<Master>> ELSE sl[n]
  BY DEF NewDBManager
<1>2. conf \in S /\ \A i \in 1..n : conf[i] \in Range(conf)
  <2>1. conf \in Seq(STRING)
    BY SetupIs
  <2>2. \A i \in 1..n : conf[i] \in Range(conf)
    BY <1>0 DEF Range
  <2> HIDE DEF conf
  <2> QED BY <2>1, <2>2
<1> HIDE DEF conf
<1>3. <<>> \in S /\ \A t \in S : \A i \in 1..n : Append(t, conf[i]) \in S
  BY <1>2
<1> HIDE DEF n, S
<1>4. step \in [Nat \X S -> S]
  BY <1>3
<1>5. PICK g \in [0..n -> S] : g[0] = <<>> /\ \A i \in 1..n : g[i] = step[<<i, g[i - 1]>>]
  <2> HIDE DEF step
  <2>1. <<>> \in S /\ n \in Nat
    BY <1>0, <1>3
  <2>2. Unfolds(S, <<>>, step, n)
    BY ONLY <1>4, <2>1, RecursionUpTo, Zenon
  <2> QED BY <2>2 DEF Unfolds
<1>6. \A i \in 1..n : g[i] = IF conf[i] \in up THEN Append(g[i - 1], conf[i]) ELSE g[i - 1]
  <2> SUFFICES ASSUME NEW i \in 1..n
               PROVE  g[i] = IF conf[i] \in up THEN Append(g[i - 1], conf[i]) ELSE g[i - 1]
    OBVIOUS
  <2>1. i \in Nat /\ i - 1 \in 0..n /\ g[i - 1] \in S
    BY <1>0, <1>5
  <2> QED BY <1>5, <2>1
<1>7. g = Body(g)
  <2> DEFINE V(i) == IF i = 0 THEN <<>> ELSE IF conf[i] \in up THEN Append(g[i - 1], conf[i]) ELSE g[i - 1]
  <2>1. ASSUME NEW i \in 0..n PROVE g[i] = V(i)
    <3>1. i = 0 \/ i \in 1..n
      BY <1>0
    <3>2. CASE i = 0
      BY <1>5, <3>2
    <3>3. CASE i \in 1..n
      <4>1. i # 0
        BY <1>0, <3>3
      <4> QED BY <1>6, <3>3, <4>1, Zenon
    <3> QED BY <3>1, <3>2, <3>3
  <2>2. Body(g) = [i \in 0..n |-> V(i)]
    OBVIOUS
  <2> HIDE DEF V, Body
  <2> QED BY <1>5, <2>1, <2>2
<1>8. sl = Body(sl)
  <2> HIDE DEF Body
  <2> QED BY <1>7
<1> HIDE DEF sl
<1>9. sl[0] = <<>> /\ \A i \in 1..n : sl[i] = IF conf[i] \in up THEN Append(sl[i - 1], conf[i]) ELSE sl[i - 1]
  <2>1. \A i \in 0..n : sl[i] = IF i = 0 THEN <<>>
                               ELSE IF conf[i] \in up THEN Append(sl[i - 1], conf[i]) ELSE sl[i - 1]
    BY <1>8
  <2> QED BY <1>0, <2>1
<1> HIDE DEF Body, step
<1> DEFINE Good == {i \in 0..n : sl[i] \in S /\ PartOf(sl[i], conf, i)}
<1>10. Good \subseteq 0..n /\ 0 \in Good
  BY <1>0, <1>3, <1>9 DEF PartOf, IsInjective
<1>11. \A i \in 1..n : i - 1 \in Good => i \in Good
  <2> SUFFICES ASSUME NEW i \in 1..n, i - 1 \in Good PROVE i \in Good
    OBVIOUS
  <2> DEFINE at == i - 1
             kept == sl[i - 1]
  <2>1. at \in Nat /\ at < Len(conf) /\ at + 1 = i /\ i \in 0..n
    BY <1>0 DEF n
  <2>2. kept \in S /\ PartOf(kept, conf, at)
    BY <2>1
  <2> HIDE DEF at, kept
  <2>3. PartOf(kept, conf, at + 1) /\ PartOf(Append(kept, conf[at + 1]), conf, at + 1)
        /\ Append(kept, conf[at + 1]) \in S
    BY <1>0, <1>2, <2>1, <2>2, PartGrows DEF S
  <2>4. sl[i] = IF conf[i] \in up THEN Append(kept, conf[i]) ELSE kept
    BY <1>9 DEF kept
  <2> QED BY <2>1, <2>2, <2>3, <2>4
<1>12. sl[n] \in S /\ PartOf(sl[n], conf, n)
  <2>1. \A i \in 0..n : i \in Good
    <3> HIDE DEF Good
    <3> QED BY <1>0, <1>10, <1>11, StepsUp
  <2>2. n \in 0..n
    BY <1>0
  <2> QED BY <2>1, <2>2
<1>13. CASE sl[n] = <<>>
  BY <1>1, <1>13, MasterAlone
<1>14. CASE sl[n] # <<>>
  <2> DEFINE l == sl[n]
  <2>1. l \in Seq(Range(conf)) /\ l # <<>> /\ IsInjective(l) /\ Len(l) <= n
    BY <1>12, <1>14 DEF PartOf, S
  <2> HIDE DEF l
  <2>2. l \in Seq(Nodes(rset))
    BY <2>1 DEF Nodes, conf
  <2>3. Range(l) \subseteq Range(conf)
    BY <2>1 DEF Range
  <2>4. GoodList(rset, l)
    BY <1>0, <2>1, <2>3 DEF GoodList, conf, n
  <2> QED BY <1>1, <1>14, <2>2, <2>4 DEF l
<1> QED BY <1>13, <1>14

\* The replicas start as the invariant says.
LEMMA RStarts ==
  ASSUME RInit
  PROVE  RInv
<1>0. rset \in RSetups
  BY DEF RInit
<1>1. PICK lost \in SUBSET Range(rset.slaves) :
        LET up == (Range(rset.slaves) \cup {Master}) \ lost IN
        /\ reach = [up |-> up, flips |-> 0]
        /\ manager = [list |-> IF rset.kind = "sql" THEN NewDBManager(rset, up)
                               ELSE NewMongoManager(rset, up),
                      counter |-> 0, checks |-> 0]
        /\ handles = [open |-> up, closed |-> FALSE]
  BY DEF RInit
<1> DEFINE up == (Range(rset.slaves) \cup {Master}) \ lost
           l == NewDBManager(rset, up)
<1>2. reach = [up |-> up, flips |-> 0] /\ manager = [list |-> l, counter |-> 0, checks |-> 0]
      /\ handles = [open |-> up, closed |-> FALSE]
  BY <1>1 DEF NewMongoManager
<1>3. reader = [c \in RCallers |-> Idle] /\ sweep = NoSweep
  BY DEF RInit
<1>4. l \in Seq(Nodes(rset)) /\ GoodList(rset, l)
  BY <1>0, NewList
<1>5. up \subseteq Nodes(rset)
  BY DEF Nodes
<1> HIDE DEF l, up
<1>6. reach \in ReachType(rset) /\ reach.flips <= rset.flips
  BY <1>0, <1>2, <1>5, SetupIs DEF ReachType
<1>7. manager \in ManagerType(rset) /\ manager.list = l
  <2>1. 0 \in 0..(CounterCycle - 1)
    BY <1>0, SetupIs
  <2> QED BY <1>2, <1>4, <2>1 DEF ManagerType
<1>8. handles \in HandlesType(rset) /\ ~handles.closed
  BY <1>2, <1>5 DEF HandlesType
<1>9. \A c \in RCallers : reader[c] = Idle
  BY <1>3
<1>10. Idle \in ReaderType /\ Idle.pc = "idle"
  BY DEF Idle, ReaderType
<1>11. reader \in [RCallers -> ReaderType]
  BY <1>3, <1>10
<1>12. sweep \in SweepType(rset) /\ sweep.at = 0 /\ sweep.kept = <<>> /\ sweep.by = {}
  BY <1>3 DEF NoSweep, SweepType
<1>13. RTypes
  BY <1>0, <1>6, <1>7, <1>8, <1>11, <1>12 DEF RTypes
<1>14. SweepOK(sweep, manager.list)
  <2>1. Len(l) \in Nat
    BY <1>4
  <2> QED BY <1>7, <1>12, <2>1 DEF SweepOK, PartOf, IsInjective
<1>15. SweeperKnown
  BY <1>9, <1>10, <1>12 DEF SweeperKnown
<1>16. \A c \in RCallers : CallRight(rset, reach, handles, manager, reader[c])
  BY <1>9, <1>10 DEF CallRight, Missed, FailedRightly
<1>17. PanicNeedsGap /\ CloseReleasesListed
  BY <1>8, <1>9, <1>10 DEF PanicNeedsGap, CloseReleasesListed
<1> QED BY <1>4, <1>7, <1>13, <1>14, <1>15, <1>16, <1>17 DEF RInv

\* What the invariant says of the parts, in one place.
LEMMA RFacts ==
  ASSUME RInv
  PROVE  /\ rset \in RSetups /\ reach \in ReachType(rset) /\ manager \in ManagerType(rset)
         /\ handles \in HandlesType(rset) /\ reader \in [RCallers -> ReaderType] /\ sweep \in SweepType(rset)
         /\ manager.list \in Seq(Nodes(rset)) /\ Len(manager.list) \in Nat \ {0}
         /\ DOMAIN manager.list = 1..Len(manager.list)
         /\ manager.counter \in 0..(CounterCycle - 1) /\ CounterCycle \in Nat \ {0}
         /\ CounterCycle % Len(manager.list) = 0 /\ Len(rset.slaves) \in Nat
<1>1. /\ rset \in RSetups /\ reach \in ReachType(rset) /\ manager \in ManagerType(rset)
      /\ handles \in HandlesType(rset) /\ reader \in [RCallers -> ReaderType] /\ sweep \in SweepType(rset)
  BY DEF RInv, RTypes
<1>2. manager.list \in Seq(Nodes(rset)) /\ manager.counter \in 0..(CounterCycle - 1)
  BY <1>1 DEF ManagerType
<1> DEFINE l == manager.list
<1>3. l # <<>> /\ (Len(l) <= Len(rset.slaves) \/ Len(l) = 1)
  BY DEF RInv, GoodList
<1> HIDE DEF l
<1>4. Len(l) \in Nat \ {0} /\ DOMAIN l = 1..Len(l)
  BY <1>2, <1>3 DEF l
<1>5. CounterCycle \in Nat \ {0} /\ Len(rset.slaves) \in Nat /\ \A n \in 1..Len(rset.slaves) : CounterCycle % n = 0
  BY <1>1, SetupIs
<1>6. CounterCycle % Len(l) = 0
  <2>1. CASE Len(l) = 1
    <3>1. CounterCycle = 1 * CounterCycle + 0 /\ CounterCycle \in Nat /\ CounterCycle \in Int /\ 0 \in 0..(1 - 1) /\ 1 \in Nat \ {0}
      BY <1>5
    <3>2. CounterCycle % 1 = 0
      BY ONLY <3>1, RemainderIs
    <3> QED BY <2>1, <3>2
  <2>2. CASE Len(l) <= Len(rset.slaves)
    <3>1. Len(l) \in 1..Len(rset.slaves)
      BY <1>4, <1>5, <2>2
    <3> QED BY <1>5, <3>1
  <2> QED BY <1>3, <2>1, <2>2 DEF l
<1> QED BY <1>1, <1>2, <1>4, <1>5, <1>6 DEF l

\* A call's record, changed.
LEMMA ReaderIs ==
  ASSUME NEW r \in ReaderType
  PROVE  /\ r.pc \in {"idle", "failed", "slave", "probe", "panic", "lock", "sweep"}
         /\ r.tries \in Nat /\ r.probes \in Nat /\ r.clean \in BOOLEAN
BY DEF ReaderType

\* The call is somewhere else.
LEMMA ReaderMoves ==
  ASSUME NEW r \in ReaderType, NEW p \in {"idle", "failed", "slave", "probe", "panic", "lock", "sweep"}
  PROVE  [r EXCEPT !.pc = p] \in ReaderType /\ [r EXCEPT !.pc = p].pc = p
BY DEF ReaderType

\* The call has one try more behind it.
LEMMA ReaderTries ==
  ASSUME NEW r \in ReaderType
  PROVE  /\ [r EXCEPT !.tries = @ + 1] \in ReaderType /\ [r EXCEPT !.tries = @ + 1].pc = r.pc
         /\ [r EXCEPT !.tries = @ + 1].tries = r.tries + 1
BY DEF ReaderType

\* A try leaves it as undisturbed as it was.
LEMMA ReaderTriesClean ==
  ASSUME NEW r \in ReaderType
  PROVE  [r EXCEPT !.tries = @ + 1].clean = r.clean
BY DEF ReaderType

\* The call has failed.
LEMMA ReaderFails ==
  ASSUME NEW r \in ReaderType, NEW b \in BOOLEAN
  PROVE  [r EXCEPT !.pc = "failed", !.clean = b] \in ReaderType /\ [r EXCEPT !.pc = "failed", !.clean = b].pc = "failed"
BY DEF ReaderType

\* It remembers whether anything ran into it.
LEMMA ReaderFailsClean ==
  ASSUME NEW r \in ReaderType, NEW b \in BOOLEAN
  PROVE  [r EXCEPT !.pc = "failed", !.clean = b].clean = b
BY DEF ReaderType

\* GetDatabaseNodes calls Slave once more.
LEMMA ReaderProbes ==
  ASSUME NEW r \in ReaderType
  PROVE  /\ [r EXCEPT !.pc = "slave", !.probes = @ + 1, !.tries = 0] \in ReaderType
         /\ [r EXCEPT !.pc = "slave", !.probes = @ + 1, !.tries = 0].pc = "slave"
         /\ [r EXCEPT !.pc = "slave", !.probes = @ + 1, !.tries = 0].tries = 0
<1> DEFINE a == [r EXCEPT !.pc = "slave", !.probes = @ + 1, !.tries = 0]
<1>1. r.probes + 1 \in Nat /\ 0 \in Nat
  BY ReaderIs
<1>2. a.pc = "slave"
  BY DEF ReaderType
<1>3. a.tries = 0
  BY DEF ReaderType
<1>4. a \in ReaderType
  BY <1>1 DEF ReaderType
<1> QED BY <1>2, <1>3, <1>4

\* Something ran into the call, which is where it was.
LEMMA ReaderDisturbed ==
  ASSUME NEW r \in ReaderType
  PROVE  [r EXCEPT !.clean = FALSE] \in ReaderType /\ [r EXCEPT !.clean = FALSE].pc = r.pc
BY DEF ReaderType

\* It is not undisturbed any more.
LEMMA ReaderNotClean ==
  ASSUME NEW r \in ReaderType
  PROVE  [r EXCEPT !.clean = FALSE].clean = FALSE
BY DEF ReaderType

\* No call.
LEMMA IdleIs == Idle \in ReaderType /\ Idle.pc = "idle" /\ Idle.tries = 0 /\ Idle.probes = 0
BY DEF Idle, ReaderType

\* A call that is not under way, or not undisturbed, promises nothing.
LEMMA NothingPromised ==
  ASSUME NEW s, NEW re, NEW h, NEW m, NEW r, r.pc \in {"slave", "failed"} => r.clean = FALSE
  PROVE  CallRight(s, re, h, m, r)
BY DEF CallRight, Missed, FailedRightly

\* Disturb leaves everyone where they are, and no one undisturbed.
LEMMA Disturbs ==
  ASSUME NEW rd \in [RCallers -> ReaderType], NEW c \in RCallers, NEW d \in RCallers
  PROVE  /\ Disturb(rd, c) \in [RCallers -> ReaderType]
         /\ Disturb(rd, c)[d].pc = rd[d].pc /\ (d = c => Disturb(rd, c)[d] = rd[d])
         /\ d # c /\ Disturb(rd, c)[d].pc \in {"slave", "failed"} => Disturb(rd, c)[d].clean = FALSE
<1> DEFINE V(e) == IF e = c \/ rd[e].pc \notin {"slave", "failed"} THEN rd[e] ELSE [rd[e] EXCEPT !.clean = FALSE]
<1>1. Disturb(rd, c) = [e \in RCallers |-> V(e)]
  BY DEF Disturb
<1>2. ASSUME NEW e \in RCallers
      PROVE  /\ V(e) \in ReaderType /\ V(e).pc = rd[e].pc /\ (e = c => V(e) = rd[e])
             /\ e # c /\ V(e).pc \in {"slave", "failed"} => V(e).clean = FALSE
  <2>1. rd[e] \in ReaderType
    OBVIOUS
  <2>2. [rd[e] EXCEPT !.clean = FALSE] \in ReaderType /\ [rd[e] EXCEPT !.clean = FALSE].pc = rd[e].pc
        /\ [rd[e] EXCEPT !.clean = FALSE].clean = FALSE
    BY <2>1, ReaderDisturbed, ReaderNotClean
  <2>3. CASE e = c \/ rd[e].pc \notin {"slave", "failed"}
    <3>1. V(e) = rd[e]
      BY <2>3
    <3> QED BY <2>1, <2>3, <3>1
  <2>4. CASE ~(e = c \/ rd[e].pc \notin {"slave", "failed"})
    <3>1. V(e) = [rd[e] EXCEPT !.clean = FALSE]
      BY <2>4
    <3> QED BY <2>2, <2>4, <3>1
  <2> QED BY <2>3, <2>4
<1> HIDE DEF V
<1> QED BY <1>1, <1>2

\* While the counter stands and nothing changes outside, what a call has missed stays missed.
LEMMA CallStays ==
  ASSUME NEW s, NEW re, NEW h, NEW m, NEW w, NEW r, CallRight(s, re, h, m, r), w.list = m.list, w.counter = m.counter
  PROVE  CallRight(s, re, h, w, r)
BY DEF CallRight, Missed, FailedRightly

\* A call that has not tried yet has missed nothing.
LEMMA ReadBegins ==
  ASSUME RInv, NEW r, r.pc = "slave", r.tries = 0
  PROVE  CallRight(rset, reach, handles, manager, r)
<1> DEFINE n == Len(manager.list)
           pos == manager.counter % n
<1>1. n \in Nat \ {0} /\ manager.counter \in Nat
  BY RFacts
<1>2. pos \in 0..(n - 1)
  BY <1>1, Remainder
<1> HIDE DEF n, pos
<1>3. \A i \in 0..(n - 1) : ~(Behind(pos, i, n) < 0)
  BY <1>1, <1>2 DEF Behind
<1>4. Missed(rset, reach, handles, manager, r)
  BY <1>3 DEF Missed, n, pos
<1>5. FailedRightly(rset, reach, handles, manager, r)
  BY DEF FailedRightly
<1> QED BY <1>4, <1>5 DEF CallRight

\* Where nothing but a caller's record and the sweep change, the caller's new record is
\* what has to be right.
LEMMA ReaderOnly ==
  ASSUME RInv, NEW c \in RCallers, NEW r \in ReaderType, reader' = [reader EXCEPT ![c] = r],
         rset' = rset, reach' = reach, handles' = handles, manager' = manager,
         sweep' \in SweepType(rset), SweepOK(sweep', manager.list),
         CallRight(rset, reach, handles, manager, r), r.pc # "panic",
         r.pc = "sweep" => sweep'.by = {c}, sweep'.by # {} => r.pc # "slave",
         \A d \in RCallers \ {c} : /\ reader[d].pc = "sweep" => sweep'.by = {d}
                                   /\ sweep'.by # {} => reader[d].pc # "slave"
  PROVE  RInv'
<1>1. /\ reader' \in [RCallers -> ReaderType] /\ reader'[c] = r
      /\ \A d \in RCallers \ {c} : reader'[d] = reader[d]
  BY RFacts
<1>2. RTypes'
  BY <1>1 DEF RInv, RTypes
<1>3. SweeperKnown'
  BY <1>1 DEF SweeperKnown
<1>4. \A d \in RCallers : CallRight(rset', reach', handles', manager', reader'[d])
  BY <1>1 DEF RInv
<1>5. PanicNeedsGap'
  BY <1>1 DEF RInv, PanicNeedsGap
<1>6. CloseReleasesListed'
  BY DEF RInv, CloseReleasesListed
<1>7. GoodList(rset', manager'.list) /\ SweepOK(sweep', manager'.list)
  BY DEF RInv
<1> QED BY <1>2, <1>3, <1>4, <1>5, <1>6, <1>7 DEF RInv

\* A call that begins takes the read lock and has missed nothing.
LEMMA SlaveBeginKeeps ==
  ASSUME RInv, NEW c \in RCallers, SlaveBegin(c)
  PROVE  RInv'
<1> DEFINE r == [Idle EXCEPT !.pc = "slave"]
<1>1. r \in ReaderType /\ r.pc = "slave" /\ r.tries = 0
  BY DEF Idle, ReaderType
<1>2. reader' = [reader EXCEPT ![c] = r] /\ rset' = rset /\ reach' = reach /\ handles' = handles
      /\ manager' = manager /\ sweep' = sweep /\ sweep.by = {}
  BY DEF SlaveBegin, NoWriter
<1> HIDE DEF r
<1>3. CallRight(rset, reach, handles, manager, r)
  BY <1>1, ReadBegins
<1>4. sweep \in SweepType(rset) /\ SweepOK(sweep, manager.list)
      /\ \A d \in RCallers : reader[d].pc = "sweep" => sweep.by = {d}
  BY RFacts DEF RInv, SweeperKnown
<1> QED BY <1>1, <1>2, <1>3, <1>4, ReaderOnly

\* So has each call of GetDatabaseNodes.
LEMMA GetDatabaseNodesKeeps ==
  ASSUME RInv, NEW c \in RCallers, GetDatabaseNodes(c)
  PROVE  RInv'
<1> DEFINE q == IF reader[c].pc = "probe" THEN reader[c] ELSE Idle
           p == [q EXCEPT !.pc = "slave", !.probes = @ + 1, !.tries = 0]
           r == IF q.probes < NodeProbes THEN p ELSE Idle
<1>1. q \in ReaderType
  BY RFacts, IdleIs
<1>2. reader' = [reader EXCEPT ![c] = r] /\ rset' = rset /\ reach' = reach /\ handles' = handles
      /\ manager' = manager /\ sweep' = sweep /\ sweep.by = {}
  BY DEF GetDatabaseNodes, NoWriter
<1> HIDE DEF q
<1>3. p \in ReaderType /\ p.pc = "slave" /\ p.tries = 0
  BY <1>1, ReaderProbes
<1> HIDE DEF p
<1>4. r \in ReaderType /\ ((r.pc = "slave" /\ r.tries = 0) \/ r.pc = "idle")
  BY <1>3, IdleIs
<1> HIDE DEF r
<1>5. CallRight(rset, reach, handles, manager, r)
  BY <1>4, ReadBegins, NothingPromised
<1>6. sweep \in SweepType(rset) /\ SweepOK(sweep, manager.list)
      /\ \A d \in RCallers : reader[d].pc = "sweep" => sweep.by = {d}
  BY RFacts DEF RInv, SweeperKnown
<1>7. r.pc # "panic" /\ r.pc # "sweep"
  BY <1>4
<1> QED BY <1>2, <1>4, <1>5, <1>6, <1>7, ReaderOnly

\* The write lock keeps calls and other health checks out.
LEMMA HealthLockKeeps ==
  ASSUME RInv, NEW c \in RCallers, HealthLock(c)
  PROVE  RInv'
<1> DEFINE r == [reader[c] EXCEPT !.pc = "sweep"]
<1>1. r \in ReaderType /\ r.pc = "sweep"
  BY RFacts, ReaderMoves
<1>2. reader' = [reader EXCEPT ![c] = r] /\ rset' = rset /\ reach' = reach /\ handles' = handles
      /\ manager' = manager /\ sweep' = [NoSweep EXCEPT !.by = {c}] /\ sweep.by = {} /\ Readers = {}
  BY DEF HealthLock, NoWriter
<1> HIDE DEF r
<1>3. CallRight(rset, reach, handles, manager, r)
  BY <1>1, NothingPromised
<1>4. sweep' \in SweepType(rset) /\ sweep'.by = {c} /\ sweep'.at = 0 /\ sweep'.kept = <<>>
  <2>1. NoSweep \in SweepType(rset) /\ NoSweep.at = 0 /\ NoSweep.kept = <<>>
    BY DEF NoSweep, SweepType
  <2>2. {c} \in SUBSET RCallers
    OBVIOUS
  <2>3. sweep' \in SweepType(rset)
    BY ONLY <1>2, <2>1, <2>2 DEF SweepType
  <2>4. sweep'.by = {c} /\ sweep'.at = NoSweep.at /\ sweep'.kept = NoSweep.kept
    BY ONLY <1>2, <2>1 DEF SweepType
  <2> QED BY <2>1, <2>3, <2>4
<1>5. SweepOK(sweep', manager.list)
  <2>1. Len(manager.list) \in Nat
    BY RFacts
  <2> QED BY <1>4, <2>1 DEF SweepOK, PartOf, IsInjective
<1>6. \A d \in RCallers : reader[d].pc # "sweep" /\ reader[d].pc # "slave"
  BY <1>2 DEF RInv, SweeperKnown, Readers
<1> QED BY <1>1, <1>2, <1>3, <1>4, <1>5, <1>6, ReaderOnly

\* The sweep goes on by one node, kept or not.
LEMMA HealthPingKeeps ==
  ASSUME RInv, NEW c \in RCallers, HealthPing(c)
  PROVE  RInv'
<1> DEFINE l == manager.list
           n == l[sweep.at + 1]
           kept == sweep.kept
           more == IF Ping(n) THEN Append(kept, n) ELSE kept
           r == reader[c]
<1>1. r.pc = "sweep" /\ sweep.at < Len(l) /\ sweep' = [sweep EXCEPT !.at = @ + 1, !.kept = IF Ping(n) THEN Append(@, n) ELSE @]
      /\ rset' = rset /\ reach' = reach /\ handles' = handles /\ manager' = manager /\ reader' = reader
  BY DEF HealthPing
<1>2. sweep \in SweepType(rset) /\ l \in Seq(Nodes(rset)) /\ reader \in [RCallers -> ReaderType] /\ Len(l) \in Nat
  BY RFacts
<1>3. sweep.at \in Nat /\ kept \in Seq(Nodes(rset)) /\ sweep.by \in SUBSET RCallers
  BY <1>2 DEF SweepType
<1>4. IsInjective(l) /\ PartOf(kept, l, sweep.at)
  BY DEF RInv, GoodList, SweepOK
<1>5. PartOf(more, l, sweep.at + 1) /\ more \in Seq(Nodes(rset))
  <2> HIDE DEF l, kept
  <2>1. /\ PartOf(kept, l, sweep.at + 1) /\ PartOf(Append(kept, n), l, sweep.at + 1)
        /\ Append(kept, n) \in Seq(Nodes(rset))
    BY <1>1, <1>2, <1>3, <1>4, PartGrows
  <2> HIDE DEF n
  <2> QED BY <1>3, <2>1
<1>6. sweep' = [sweep EXCEPT !.at = @ + 1, !.kept = more]
  BY <1>1
<1> HIDE DEF more
<1>7. sweep' \in SweepType(rset) /\ sweep'.at = sweep.at + 1 /\ sweep'.kept = more /\ sweep'.by = sweep.by
  <2> HIDE DEF l, n, kept
  <2>1. sweep'.at = sweep.at + 1 /\ sweep'.kept = more /\ sweep'.by = sweep.by
    BY ONLY <1>2, <1>6 DEF SweepType
  <2>2. sweep' \in SweepType(rset)
    <3>1. sweep.at + 1 \in Nat
      BY <1>3
    <3> QED BY ONLY <1>2, <1>5, <1>6, <3>1 DEF SweepType
  <2> QED BY <2>1, <2>2
<1>8. SweepOK(sweep', manager.list)
  <2>1. sweep.at + 1 <= Len(manager.list)
    BY <1>1, <1>2, <1>3
  <2> HIDE DEF l, n, kept
  <2> QED BY ONLY <1>5, <1>7, <2>1 DEF SweepOK, l
<1>9. reader' = [reader EXCEPT ![c] = r] /\ r \in ReaderType
  BY <1>1, <1>2
<1>10. /\ \A d \in RCallers : reader[d].pc = "sweep" => sweep'.by = {d}
       /\ sweep'.by # {} => \A d \in RCallers : reader[d].pc # "slave"
  BY <1>7 DEF RInv, SweeperKnown
<1>11. CallRight(rset, reach, handles, manager, r)
  BY DEF RInv
<1> QED BY <1>1, <1>7, <1>8, <1>9, <1>10, <1>11, ReaderOnly

\* Pinging the master touches neither the list nor the counter.
LEMMA HealthBeginKeeps ==
  ASSUME RInv, NEW c \in RCallers, HealthBegin(c)
  PROVE  RInv'
<1> DEFINE p == IF Ping(Master) THEN "lock" ELSE "idle"
           r == [reader[c] EXCEPT !.pc = p]
<1>1. r \in ReaderType /\ r.pc \in {"lock", "idle"}
  <2>1. p \in {"lock", "idle"}
    OBVIOUS
  <2> HIDE DEF p
  <2>2. reader[c] \in ReaderType
    BY RFacts
  <2>3. p \in {"idle", "failed", "slave", "probe", "panic", "lock", "sweep"}
    BY <2>1
  <2>4. r \in ReaderType /\ r.pc = p
    BY ONLY <2>2, <2>3, ReaderMoves
  <2> QED BY <2>1, <2>4
<1>2. reader' = [reader EXCEPT ![c] = r] /\ rset' = rset /\ reach' = reach /\ handles' = handles
      /\ manager' = [manager EXCEPT !.checks = @ + 1] /\ sweep' = sweep
  BY DEF HealthBegin
<1> HIDE DEF r
<1>3. manager' \in ManagerType(rset) /\ manager'.list = manager.list /\ manager'.counter = manager.counter
  <2>1. manager \in ManagerType(rset)
    BY RFacts
  <2> QED BY ONLY <1>2, <2>1 DEF ManagerType
<1>4. /\ reader' \in [RCallers -> ReaderType] /\ reader'[c] = r
      /\ \A d \in RCallers \ {c} : reader'[d] = reader[d]
  BY <1>1, <1>2, RFacts
<1>5. RTypes'
  BY <1>2, <1>3, <1>4 DEF RInv, RTypes
<1>6. SweeperKnown'
  BY <1>1, <1>2, <1>4 DEF RInv, SweeperKnown
<1>7. \A d \in RCallers : CallRight(rset', reach', handles', manager', reader'[d])
  <2> SUFFICES ASSUME NEW d \in RCallers PROVE CallRight(rset, reach, handles, manager', reader'[d])
    BY <1>2
  <2>1. CASE d = c
    BY <1>1, <1>4, <2>1, NothingPromised
  <2>2. CASE d # c
    <3>1. CallRight(rset, reach, handles, manager, reader[d]) /\ reader'[d] = reader[d]
      BY <1>4, <2>2 DEF RInv
    <3> QED BY <1>3, <3>1, CallStays
  <2> QED BY <2>1, <2>2
<1>8. PanicNeedsGap'
  BY <1>1, <1>2, <1>3, <1>4 DEF RInv, PanicNeedsGap
<1>9. CloseReleasesListed' /\ GoodList(rset', manager'.list) /\ SweepOK(sweep', manager'.list)
  BY <1>2, <1>3 DEF RInv, CloseReleasesListed
<1> QED BY <1>5, <1>6, <1>7, <1>8, <1>9 DEF RInv

\* Where everyone else is disturbed, what has to be right is the caller's record and the list.
LEMMA OthersDisturbed ==
  ASSUME RInv, NEW c \in RCallers, NEW r \in ReaderType, reader' = Disturb([reader EXCEPT ![c] = r], c),
         rset' = rset, reach' = reach, handles' = handles, manager' \in ManagerType(rset),
         GoodList(rset, manager'.list), Len(manager'.list) <= Len(manager.list),
         Range(manager'.list) \subseteq Range(manager.list) \cup {Master},
         sweep' \in SweepType(rset), SweepOK(sweep', manager'.list),
         CallRight(rset, reach, handles, manager', r), r.pc # "sweep", sweep'.by = {},
         \A d \in RCallers \ {c} : reader[d].pc # "sweep",
         r.pc = "panic" /\ rset.strategy = "weight" /\ rset.slaves # <<>> => Len(manager'.list) < Len(rset.slaves)
  PROVE  RInv'
<1> DEFINE rd == [reader EXCEPT ![c] = r]
<1>1. rd \in [RCallers -> ReaderType] /\ rd[c] = r /\ \A d \in RCallers \ {c} : rd[d] = reader[d]
  BY RFacts
<1> HIDE DEF rd
<1>2. reader' = Disturb(rd, c)
  BY DEF rd
<1>3. reader' \in [RCallers -> ReaderType] /\ reader'[c] = r
  <2>1. Disturb(rd, c) \in [RCallers -> ReaderType] /\ Disturb(rd, c)[c] = rd[c]
    BY <1>1, Disturbs
  <2> QED BY <1>1, <1>2, <2>1
<1>4. ASSUME NEW d \in RCallers, d # c
      PROVE  /\ reader'[d].pc = reader[d].pc
             /\ reader'[d].pc \in {"slave", "failed"} => reader'[d].clean = FALSE
  <2> DEFINE x == Disturb(rd, c)[d]
  <2>1. x.pc = rd[d].pc /\ (x.pc \in {"slave", "failed"} => x.clean = FALSE)
    BY ONLY <1>1, <1>4, Disturbs, c \in RCallers
  <2>2. reader'[d] = x /\ rd[d] = reader[d]
    BY <1>1, <1>2, <1>4
  <2> HIDE DEF x
  <2> QED BY <2>1, <2>2
<1>5. RTypes'
  BY <1>3 DEF RInv, RTypes
<1>6. SweeperKnown'
  BY <1>3, <1>4 DEF SweeperKnown
<1>7. \A d \in RCallers : CallRight(rset', reach', handles', manager', reader'[d])
  <2> SUFFICES ASSUME NEW d \in RCallers PROVE CallRight(rset, reach, handles, manager', reader'[d])
    OBVIOUS
  <2>1. CASE d = c
    BY <1>3, <2>1
  <2>2. CASE d # c
    BY <1>4, <2>2, NothingPromised
  <2> QED BY <2>1, <2>2
<1>8. PanicNeedsGap'
  <2> SUFFICES ASSUME rset.strategy = "weight", rset.slaves # <<>>, NEW d \in RCallers, reader'[d].pc = "panic"
               PROVE  Len(manager'.list) < Len(rset.slaves)
    BY DEF PanicNeedsGap
  <2>1. CASE d = c
    BY <1>3, <2>1
  <2>2. CASE d # c
    <3>1. reader[d].pc = "panic"
      BY <1>4, <2>2
    <3>2. Len(manager.list) < Len(rset.slaves)
      BY <3>1 DEF RInv, PanicNeedsGap
    <3>3. Len(manager.list) \in Nat /\ Len(rset.slaves) \in Nat /\ Len(manager'.list) \in Nat
      <4>1. manager'.list \in Seq(Nodes(rset))
        BY DEF ManagerType
      <4> QED BY <4>1, RFacts
    <3> QED BY <3>2, <3>3
  <2> QED BY <2>1, <2>2
<1>9. CloseReleasesListed'
  BY DEF RInv, CloseReleasesListed
<1> QED BY <1>5, <1>6, <1>7, <1>8, <1>9 DEF RInv

\* With no sweep under way, nothing was kept.
LEMMA NoSweepOK ==
  ASSUME NEW s, NEW l \in Seq(Nodes(s))
  PROVE  NoSweep \in SweepType(s) /\ SweepOK(NoSweep, l) /\ NoSweep.by = {}
<1>1. NoSweep \in SweepType(s) /\ NoSweep.at = 0 /\ NoSweep.kept = <<>> /\ NoSweep.by = {}
  BY DEF NoSweep, SweepType
<1>2. Len(l) \in Nat
  OBVIOUS
<1> QED BY <1>1, <1>2 DEF SweepOK, PartOf, IsInjective

\* What a whole sweep has kept may be used, unless it is nothing.
LEMMA KeptIsGood ==
  ASSUME NEW s, Len(s.slaves) \in Nat, NEW l \in Seq(Nodes(s)), NEW kept \in Seq(Nodes(s)), kept # <<>>,
         GoodList(s, l), PartOf(kept, l, Len(l))
  PROVE  GoodList(s, kept) /\ Len(kept) <= Len(l) /\ Range(kept) \subseteq Range(l)
<1>1. Len(kept) \in Nat \ {0} /\ Len(l) \in Nat \ {0} /\ Len(kept) <= Len(l) /\ IsInjective(kept)
      /\ DOMAIN kept = 1..Len(kept) /\ DOMAIN l = 1..Len(l)
  BY DEF GoodList, PartOf
<1>2. Range(kept) \subseteq Range(l)
  BY <1>1 DEF PartOf, Range
<1>3. Len(kept) <= Len(s.slaves) \/ Len(kept) = 1
  BY <1>1 DEF GoodList
<1>4. ASSUME Master \in Range(kept) PROVE kept = <<Master>>
  <2>1. l = <<Master>>
    BY <1>2, <1>4 DEF GoodList
  <2>2. Len(l) = 1 /\ l[1] = Master
    BY <2>1
  <2>3. Len(kept) = 1
    BY <1>1, <2>2
  <2>4. kept[1] = Master
    BY <1>1, <2>2, <2>3 DEF PartOf
  <2> QED BY <2>3, <2>4
<1> QED BY <1>1, <1>2, <1>3, <1>4 DEF GoodList

\* The list becomes what the sweep kept, or the master.
LEMMA HealthUpdateKeeps ==
  ASSUME RInv, NEW c \in RCallers, HealthUpdate(c)
  PROVE  RInv'
<1> DEFINE l == manager.list
           kept == sweep.kept
           new == IF kept = <<>> THEN <<Master>> ELSE kept
<1>1. reader[c].pc = "sweep" /\ sweep.at = Len(l) /\ manager' = [manager EXCEPT !.list = new] /\ sweep' = NoSweep
      /\ reader' = Disturb([reader EXCEPT ![c] = Idle], c)
      /\ rset' = rset /\ reach' = reach /\ handles' = handles
  BY DEF HealthUpdate
<1>2. l \in Seq(Nodes(rset)) /\ Len(l) \in Nat \ {0} /\ Len(rset.slaves) \in Nat /\ manager \in ManagerType(rset)
      /\ sweep \in SweepType(rset)
  BY RFacts
<1>3. kept \in Seq(Nodes(rset))
  BY <1>2 DEF SweepType
<1>4. GoodList(rset, l) /\ PartOf(kept, l, Len(l))
  BY <1>1 DEF RInv, SweepOK
<1>5. new \in Seq(Nodes(rset)) /\ GoodList(rset, new) /\ Len(new) <= Len(l) /\ Range(new) \subseteq Range(l) \cup {Master}
  <2> HIDE DEF l, kept
  <2>1. CASE kept = <<>>
    <3>1. new = <<Master>>
      BY <2>1
    <3>2. <<Master>> \in Seq(Nodes(rset)) /\ GoodList(rset, <<Master>>)
      BY MasterAlone
    <3>3. Len(<<Master>>) <= Len(l)
      BY <1>2
    <3>4. Range(<<Master>>) \subseteq {Master}
      BY DEF Range
    <3> QED BY <3>1, <3>2, <3>3, <3>4
  <2>2. CASE kept # <<>>
    <3>1. new = kept
      BY <2>2
    <3>2. GoodList(rset, kept) /\ Len(kept) <= Len(l) /\ Range(kept) \subseteq Range(l)
      BY <1>2, <1>3, <1>4, <2>2, KeptIsGood
    <3> QED BY <1>3, <3>1, <3>2
  <2> QED BY <2>1, <2>2
<1> HIDE DEF new
<1>6. manager' \in ManagerType(rset) /\ manager'.list = new
  BY ONLY <1>1, <1>2, <1>5 DEF ManagerType
<1>7. NoSweep \in SweepType(rset) /\ SweepOK(NoSweep, new) /\ NoSweep.by = {}
  BY <1>5, NoSweepOK
<1>8. \A d \in RCallers \ {c} : reader[d].pc # "sweep"
  <2>1. \A d \in RCallers : reader[d].pc = "sweep" => sweep.by = {d}
    BY DEF RInv, SweeperKnown
  <2> QED BY <1>1, <2>1
<1>9. Idle \in ReaderType /\ Idle.pc = "idle"
  BY IdleIs
<1>10. CallRight(rset, reach, handles, manager', Idle)
  BY <1>9, NothingPromised
<1>11. Idle.pc # "sweep" /\ Idle.pc # "panic"
  BY <1>9
<1> QED BY <1>1, <1>5, <1>6, <1>7, <1>8, <1>9, <1>10, <1>11, OthersDisturbed

\* Close releases what is listed at that moment.
LEMMA CloseManagerKeeps ==
  ASSUME RInv, CloseManager
  PROVE  RInv'
<1>1. handles' = [open |-> handles.open \ (Range(manager.list) \cup {Master}), closed |-> TRUE]
      /\ rset' = rset /\ reach' = reach /\ manager' = manager /\ reader' = reader /\ sweep' = sweep
  BY DEF CloseManager
<1>2. handles \in HandlesType(rset)
  BY RFacts
<1>3. handles.open \in SUBSET Nodes(rset)
  BY <1>2 DEF HandlesType
<1>4. handles' \in HandlesType(rset)
  BY <1>1, <1>3 DEF HandlesType
<1>5. handles'.closed /\ handles'.open = handles.open \ (Range(manager.list) \cup {Master})
  BY <1>1
<1>6. RTypes'
  BY <1>1, <1>4 DEF RInv, RTypes
<1>7. SweeperKnown' /\ PanicNeedsGap' /\ GoodList(rset', manager'.list) /\ SweepOK(sweep', manager'.list)
  BY <1>1 DEF RInv, SweeperKnown, PanicNeedsGap
<1>8. \A d \in RCallers : CallRight(rset', reach', handles', manager', reader'[d])
  BY <1>5 DEF CallRight, Missed, FailedRightly
<1>9. CloseReleasesListed'
  BY <1>1, <1>5 DEF CloseReleasesListed
<1> QED BY <1>6, <1>7, <1>8, <1>9 DEF RInv

\* When a node comes or goes, no call under way is undisturbed.
LEMMA FlipKeeps ==
  ASSUME RInv, NEW n \in Range(rset.slaves) \cup {Master}, Flip(n)
  PROVE  RInv'
<1> DEFINE up == IF n \in reach.up THEN reach.up \ {n} ELSE reach.up \cup {n}
           V(c) == IF reader[c].pc \in {"slave", "failed"} THEN [reader[c] EXCEPT !.clean = FALSE] ELSE reader[c]
<1>1. reach.flips < rset.flips /\ reach' = [up |-> up, flips |-> reach.flips + 1]
      /\ reader' = [c \in RCallers |-> V(c)]
      /\ rset' = rset /\ manager' = manager /\ handles' = handles /\ sweep' = sweep
  BY DEF Flip
<1>2. reach \in ReachType(rset) /\ rset.flips \in Nat
  BY RFacts, SetupIs
<1>3. reach.flips \in Nat /\ reach.up \in SUBSET Nodes(rset)
  BY <1>2 DEF ReachType
<1>4. up \in SUBSET Nodes(rset)
  BY <1>3 DEF Nodes
<1> HIDE DEF up
<1>5. reach' \in ReachType(rset) /\ reach'.flips <= rset.flips
  BY <1>1, <1>2, <1>3, <1>4 DEF ReachType
<1>6. ASSUME NEW c \in RCallers
      PROVE  V(c) \in ReaderType /\ V(c).pc = reader[c].pc /\ (V(c).pc \in {"slave", "failed"} => V(c).clean = FALSE)
  <2>1. reader[c] \in ReaderType
    BY RFacts
  <2>2. [reader[c] EXCEPT !.clean = FALSE] \in ReaderType /\ [reader[c] EXCEPT !.clean = FALSE].pc = reader[c].pc
        /\ [reader[c] EXCEPT !.clean = FALSE].clean = FALSE
    BY <2>1, ReaderDisturbed, ReaderNotClean
  <2>3. CASE reader[c].pc \notin {"slave", "failed"}
    <3>1. V(c) = reader[c]
      BY <2>3
    <3> QED BY <2>1, <2>3, <3>1
  <2>4. CASE reader[c].pc \in {"slave", "failed"}
    <3>1. V(c) = [reader[c] EXCEPT !.clean = FALSE]
      BY <2>4
    <3> QED BY <2>2, <3>1
  <2> QED BY <2>3, <2>4
<1> HIDE DEF V
<1>7. reader' \in [RCallers -> ReaderType]
      /\ \A c \in RCallers : /\ reader'[c].pc = reader[c].pc
                             /\ reader'[c].pc \in {"slave", "failed"} => reader'[c].clean = FALSE
  BY <1>1, <1>6
<1>8. RTypes'
  BY <1>1, <1>5, <1>7 DEF RInv, RTypes
<1>9. SweeperKnown' /\ PanicNeedsGap'
  BY <1>1, <1>7 DEF RInv, SweeperKnown, PanicNeedsGap
<1>10. \A d \in RCallers : CallRight(rset', reach', handles', manager', reader'[d])
  BY <1>7, NothingPromised
<1>11. CloseReleasesListed' /\ GoodList(rset', manager'.list) /\ SweepOK(sweep', manager'.list)
  BY <1>1 DEF RInv, CloseReleasesListed
<1> QED BY <1>8, <1>9, <1>10, <1>11 DEF RInv

\* When the counter moves on, every other place is one further behind.
LEMMA BehindMoves ==
  ASSUME NEW n \in Nat \ {0}, NEW pos \in 0..(n - 1), NEW j \in 0..(n - 1), NEW new,
         new = IF pos + 1 = n THEN 0 ELSE pos + 1
  PROVE  /\ Behind(new, j, n) \in 0..(n - 1) /\ Behind(pos, j, n) \in Nat
         /\ j # new => Behind(new, j, n) = Behind(pos, j, n) + 1
BY DEF Behind

\* What a balancer may pick.
LEMMA PickIs ==
  ASSUME RInv, NEW count \in Nat, NEW i \in Next(count, manager.list)
  PROVE  /\ rset.strategy # "weight" => i \in DOMAIN manager.list
         /\ rset.strategy = "round_robin" => i = (count % Len(manager.list)) + 1
         /\ rset.strategy = "weight" /\ rset.slaves # <<>> => i \in 1..Len(rset.slaves)
<1> DEFINE l == manager.list
           n == Len(l)
<1>1. n \in Nat \ {0} /\ DOMAIN l = 1..n /\ rset \in RSetups
  BY RFacts
<1>2. rset.strategy \in {"round_robin", "random", "weight"}
  BY <1>1, SetupIs
<1>3. CASE rset.strategy = "round_robin"
  <2>1. Next(count, l) = RoundRobinNext(count, l)
    BY <1>3 DEF Next
  <2>2. i = (count % n) + 1
    BY <2>1 DEF RoundRobinNext
  <2> HIDE DEF n, l
  <2>3. count % n \in 0..(n - 1)
    BY <1>1, Remainder
  <2>4. i \in 1..n
    BY <1>1, <2>2, <2>3
  <2> QED BY <1>1, <1>3, <2>2, <2>4 DEF n, l
<1>4. CASE rset.strategy = "random"
  <2>1. Next(count, l) = RandomNext(l)
    BY <1>4 DEF Next
  <2> QED BY <1>4, <2>1 DEF RandomNext
<1>5. CASE rset.strategy = "weight"
  <2> SUFFICES ASSUME rset.slaves # <<>> PROVE i \in 1..Len(rset.slaves)
    BY <1>5
  <2>1. Next(count, l) = WeightNext(count)
    BY <1>5 DEF Next
  <2>2. rset.weights # <<>> /\ Len(rset.weights) = Len(rset.slaves)
    <3>1. Len(rset.weights) = Len(rset.slaves) /\ rset.slaves \in Seq(STRING) /\ rset.weights \in Seq(Int)
      BY <1>1, SetupIs
    <3>2. Len(rset.slaves) # 0
      BY <3>1
    <3> QED BY <3>1, <3>2
  <2>3. \E k \in 1..Len(rset.weights) : WeightNext(count) = {k}
    BY <1>1, <2>2, WeightNextIs
  <2> QED BY <2>1, <2>2, <2>3
<1> QED BY <1>2, <1>3, <1>4, <1>5

\* A miss: the call goes on, or has missed every node of a list it had the tries for.
LEMMA MissMoves ==
  ASSUME RInv, NEW r \in ReaderType, r.pc = "slave", rset.kind = "sql",
         CallRight(rset, reach, handles, manager, r), NEW m, m.list = manager.list,
         rset.strategy = "round_robin" =>
           /\ m.counter = (manager.counter + 1) % CounterCycle
           /\ ~Ping(manager.list[(m.counter % Len(manager.list)) + 1])
  PROVE  /\ AfterMiss(r) \in ReaderType /\ AfterMiss(r).pc \in {"slave", "failed", "idle"}
         /\ CallRight(rset, reach, handles, m, AfterMiss(r))
<1> DEFINE l == manager.list
           n == Len(l)
           pos == manager.counter % n
           new == m.counter % n
           on == [r EXCEPT !.tries = @ + 1]
           off == [Idle EXCEPT !.pc = "failed", !.clean = r.clean]
<1>0. r.tries \in Nat /\ r.clean \in BOOLEAN
  BY ReaderIs
<1>1. n \in Nat \ {0} /\ DOMAIN l = 1..n /\ rset.maxRetry \in Nat /\ manager.counter \in 0..(CounterCycle - 1)
      /\ CounterCycle \in Nat \ {0} /\ CounterCycle % n = 0
  BY RFacts, SetupIs
<1>2. on \in ReaderType /\ on.pc = "slave" /\ on.tries = r.tries + 1 /\ on.clean = r.clean
  BY ReaderTries, ReaderTriesClean
<1>3. off \in ReaderType /\ off.pc = "failed" /\ off.clean = r.clean
  BY <1>0, IdleIs, ReaderFails, ReaderFailsClean
<1>4. AfterMiss(r) = IF r.tries < rset.maxRetry THEN on ELSE IF r.probes = 0 THEN off ELSE Idle
  BY DEF AfterMiss
<1> HIDE DEF on, off
<1>4a. pos \in 0..(n - 1)
  <2> HIDE DEF n
  <2>1. manager.counter \in Nat
    BY <1>1
  <2> QED BY ONLY <1>1, <2>1, Remainder
<1>4b. ASSUME rset.strategy = "round_robin" PROVE new = IF pos + 1 = n THEN 0 ELSE pos + 1
  <2> DEFINE at == manager.counter
  <2>1. new = ((at + 1) % CounterCycle) % n
    BY <1>4b
  <2> HIDE DEF n, at
  <2>2. at \in 0..(CounterCycle - 1)
    BY <1>1 DEF at
  <2>3. ((at + 1) % CounterCycle) % n = IF (at % n) + 1 = n THEN 0 ELSE (at % n) + 1
    <3>1. CounterCycle \in Nat \ {0} /\ n \in Nat \ {0} /\ CounterCycle % n = 0
      BY <1>1
    <3>2. MovesOn(at, CounterCycle, n)
      BY ONLY <2>2, <3>1, CounterMoves
    <3> QED BY <3>2 DEF MovesOn
  <2> QED BY <2>1, <2>3 DEF at
<1>5. ASSUME rset.strategy = "round_robin", ~handles.closed, r.clean, NEW j \in 0..(n - 1), Behind(new, j, n) < r.tries + 1
      PROVE  ~Answers(reach, handles, l[j + 1])
  <2>1. new = IF pos + 1 = n THEN 0 ELSE pos + 1
    BY <1>5, <1>4b
  <2>2. pos \in 0..(n - 1)
    BY <1>4a
  <2>3. CASE j = new
    BY <1>5, <2>3 DEF Ping, Answers
  <2>4. CASE j # new
    <3> HIDE DEF l, n, pos, new
    <3>1. Behind(new, j, n) = Behind(pos, j, n) + 1 /\ Behind(pos, j, n) \in Nat
      <4>1. n \in Nat \ {0} /\ j \in 0..(n - 1)
        BY <1>1, <1>5
      <4> QED BY ONLY <2>1, <2>2, <2>4, <4>1, BehindMoves
    <3>2. Behind(pos, j, n) < r.tries
      BY <1>0, <1>5, <3>1
    <3>3. Missed(rset, reach, handles, manager, r)
      BY DEF CallRight
    <3> QED BY <1>5, <3>2, <3>3 DEF Missed, l, n, pos
  <2> QED BY <2>3, <2>4
<1>6. CASE r.tries < rset.maxRetry
  <2>1. AfterMiss(r) = on
    BY <1>4, <1>6
  <2>2. Missed(rset, reach, handles, m, on)
    BY <1>2, <1>5 DEF Missed
  <2>3. FailedRightly(rset, reach, handles, m, on)
    BY <1>2 DEF FailedRightly
  <2> QED BY <1>2, <2>1, <2>2, <2>3 DEF CallRight
<1>7. CASE ~(r.tries < rset.maxRetry) /\ r.probes = 0
  <2>1. AfterMiss(r) = off
    BY <1>4, <1>7
  <2>2. Missed(rset, reach, handles, m, off)
    BY <1>3 DEF Missed
  <2>3. ASSUME r.clean, ~handles.closed, rset.strategy = "round_robin", rset.maxRetry + 1 >= n, NEW x \in Range(l)
        PROVE  ~Answers(reach, handles, x)
    <3>1. PICK k \in 1..n : x = l[k]
      BY <1>1, <2>3 DEF Range
    <3> DEFINE j == k - 1
    <3>2. j \in 0..(n - 1) /\ x = l[j + 1]
      <4> HIDE DEF l, n
      <4> QED BY <1>1, <3>1
    <3>3. new = IF pos + 1 = n THEN 0 ELSE pos + 1
      BY <1>4b, <2>3
    <3>4. pos \in 0..(n - 1)
      BY <1>4a
    <3>5. Behind(new, j, n) < r.tries + 1
      <4> HIDE DEF l, n, pos, new, j
      <4>1. Behind(new, j, n) \in 0..(n - 1)
        BY <1>1, <3>2, <3>3, <3>4, BehindMoves
      <4> QED BY <1>0, <1>1, <1>7, <2>3, <4>1
    <3> HIDE DEF j, new, pos, n, l
    <3> QED BY <1>5, <2>3, <3>2, <3>5
  <2>4. FailedRightly(rset, reach, handles, m, off)
    BY <1>3, <2>3 DEF FailedRightly
  <2> QED BY <1>3, <2>1, <2>2, <2>4 DEF CallRight
<1>8. CASE ~(r.tries < rset.maxRetry) /\ r.probes # 0
  <2>1. AfterMiss(r) = Idle
    BY <1>4, <1>8
  <2> QED BY <2>1, IdleIs, NothingPromised
<1> QED BY <1>6, <1>7, <1>8

\* A call has picked: what is common to both managers.
LEMMA CallerMoves ==
  ASSUME RInv, NEW c \in RCallers, reader[c].pc = "slave", NEW after \in ReaderType,
         reader' = Disturb([reader EXCEPT ![c] = after], c),
         rset' = rset, reach' = reach, handles' = handles, sweep' = sweep,
         manager' \in ManagerType(rset), manager'.list = manager.list,
         CallRight(rset, reach, handles, manager', after), after.pc # "sweep",
         after.pc = "panic" /\ rset.strategy = "weight" /\ rset.slaves # <<>> => Len(manager.list) < Len(rset.slaves)
  PROVE  RInv'
<1>1. sweep.by = {} /\ \A d \in RCallers : reader[d].pc # "sweep"
  BY DEF RInv, SweeperKnown
<1>2. GoodList(rset, manager.list) /\ SweepOK(sweep, manager.list) /\ sweep \in SweepType(rset)
  BY RFacts DEF RInv
<1>3. Len(manager.list) <= Len(manager.list)
  BY RFacts
<1> QED BY <1>1, <1>2, <1>3, OthersDisturbed

\* What a pick does to the manager.
LEMMA CounterIs ==
  ASSUME RInv, NEW k, k = (manager.counter + 1) % CounterCycle,
         manager' = [manager EXCEPT !.counter = IF rset.strategy = "random" THEN @ ELSE k]
  PROVE  /\ k \in 0..(CounterCycle - 1) /\ k \in Nat
         /\ manager' \in ManagerType(rset) /\ manager'.list = manager.list
         /\ rset.strategy # "random" => manager'.counter = k
<1>1. manager \in ManagerType(rset) /\ manager.counter \in 0..(CounterCycle - 1) /\ CounterCycle \in Nat \ {0}
  BY RFacts
<1>2. k \in 0..(CounterCycle - 1)
  <2>1. manager.counter + 1 \in Nat
    BY <1>1
  <2> QED BY <1>1, <2>1, Remainder
<1> DEFINE v == IF rset.strategy = "random" THEN manager.counter ELSE k
<1>3. manager' = [manager EXCEPT !.counter = v]
  BY <1>1
<1>4. v \in 0..(CounterCycle - 1) /\ (rset.strategy # "random" => v = k)
  BY <1>1, <1>2
<1> HIDE DEF v
<1>5. manager' \in ManagerType(rset) /\ manager'.list = manager.list /\ manager'.counter = v
  BY ONLY <1>1, <1>3, <1>4 DEF ManagerType
<1>6. k \in Nat
  BY <1>1, <1>2
<1> QED BY <1>2, <1>4, <1>5, <1>6

\* A pick outside the list.
LEMMA PanicIsGap ==
  ASSUME RInv, NEW count \in Nat, NEW i \in Next(count, manager.list), i \notin DOMAIN manager.list,
         rset.strategy = "weight", rset.slaves # <<>>
  PROVE  Len(manager.list) < Len(rset.slaves)
<1>1. i \in 1..Len(rset.slaves)
  BY PickIs
<1>2. Len(manager.list) \in Nat /\ Len(rset.slaves) \in Nat /\ DOMAIN manager.list = 1..Len(manager.list)
  BY RFacts
<1> QED BY <1>1, <1>2

\* A pick and a ping of the SQL manager.
LEMMA SlaveKeeps ==
  ASSUME RInv, NEW c \in RCallers, Slave(c)
  PROVE  RInv'
<1> DEFINE k == (manager.counter + 1) % CounterCycle
           r == reader[c]
<1>1. r.pc = "slave" /\ rset.kind = "sql" /\ rset' = rset /\ reach' = reach /\ handles' = handles /\ sweep' = sweep
  BY DEF Slave
<1>2. PICK i \in Next(k, manager.list) :
        /\ manager' = [manager EXCEPT !.counter = IF rset.strategy = "random" THEN @ ELSE k]
        /\ LET after == IF i \notin DOMAIN manager.list THEN [r EXCEPT !.pc = "panic"]
                        ELSE IF Ping(manager.list[i]) THEN AfterPing(r)
                        ELSE AfterMiss(r)
           IN reader' = Disturb([reader EXCEPT ![c] = after], c)
  BY DEF Slave
<1> DEFINE after == IF i \notin DOMAIN manager.list THEN [r EXCEPT !.pc = "panic"]
                    ELSE IF Ping(manager.list[i]) THEN AfterPing(r)
                    ELSE AfterMiss(r)
<1>3. reader' = Disturb([reader EXCEPT ![c] = after], c)
  BY <1>2
<1>4. /\ k \in Nat /\ manager' \in ManagerType(rset) /\ manager'.list = manager.list
      /\ rset.strategy # "random" => manager'.counter = k
  BY <1>2, CounterIs
<1>5. r \in ReaderType /\ CallRight(rset, reach, handles, manager, r)
  BY RFacts DEF RInv
<1>6. /\ after \in ReaderType /\ after.pc \in {"panic", "idle", "probe", "slave", "failed"}
      /\ CallRight(rset, reach, handles, manager', after)
      /\ after.pc = "panic" => i \notin DOMAIN manager.list
  <2>1. CASE i \notin DOMAIN manager.list
    <3>1. after = [r EXCEPT !.pc = "panic"]
      BY <2>1
    <3>2. [r EXCEPT !.pc = "panic"] \in ReaderType /\ [r EXCEPT !.pc = "panic"].pc = "panic"
      BY <1>5, ReaderMoves
    <3> HIDE DEF after
    <3> QED BY <2>1, <3>1, <3>2, NothingPromised
  <2>2. CASE i \in DOMAIN manager.list /\ Ping(manager.list[i])
    <3>1. after = AfterPing(r)
      BY <2>2
    <3>2. [r EXCEPT !.pc = "probe"] \in ReaderType /\ [r EXCEPT !.pc = "probe"].pc = "probe"
      BY <1>5, ReaderMoves
    <3>3. AfterPing(r) = IF r.probes = 0 THEN Idle ELSE [r EXCEPT !.pc = "probe"]
      BY DEF AfterPing
    <3> HIDE DEF after, r
    <3>4. after \in ReaderType /\ after.pc \in {"idle", "probe"}
      BY <3>1, <3>2, <3>3, IdleIs
    <3> QED BY <3>4, NothingPromised
  <2>3. CASE i \in DOMAIN manager.list /\ ~Ping(manager.list[i])
    <3>1. after = AfterMiss(r)
      BY <2>3
    <3>2. rset.strategy = "round_robin" =>
            /\ manager'.counter = (manager.counter + 1) % CounterCycle
            /\ ~Ping(manager.list[(manager'.counter % Len(manager.list)) + 1])
      <4> SUFFICES ASSUME rset.strategy = "round_robin"
                   PROVE  manager'.counter = k /\ ~Ping(manager.list[(manager'.counter % Len(manager.list)) + 1])
        OBVIOUS
      <4>1. manager'.counter = k
        BY <1>4
      <4>2. i = (k % Len(manager.list)) + 1
        <5> HIDE DEF k
        <5> QED BY <1>4, PickIs
      <4> HIDE DEF k
      <4> QED BY <2>3, <4>1, <4>2
    <3>3. /\ AfterMiss(r) \in ReaderType /\ AfterMiss(r).pc \in {"slave", "failed", "idle"}
          /\ CallRight(rset, reach, handles, manager', AfterMiss(r))
      <4> HIDE DEF r, after
      <4> QED BY <1>1, <1>4, <1>5, <3>2, MissMoves
    <3> HIDE DEF after
    <3> QED BY <3>1, <3>3
  <2> QED BY <2>1, <2>2, <2>3
<1>7. after.pc = "panic" /\ rset.strategy = "weight" /\ rset.slaves # <<>> => Len(manager.list) < Len(rset.slaves)
  <2> HIDE DEF after, k
  <2> QED BY <1>4, <1>6, PanicIsGap
<1> HIDE DEF after, k
<1>8. after.pc # "sweep"
  BY <1>6
<1> QED BY <1>1, <1>3, <1>4, <1>6, <1>7, <1>8, CallerMoves

\* A pick of the MongoDB manager, which falls back on the master.
LEMMA MongoSlaveKeeps ==
  ASSUME RInv, NEW c \in RCallers, MongoSlave(c)
  PROVE  RInv'
<1> DEFINE k == (manager.counter + 1) % CounterCycle
           r == reader[c]
<1>1. r.pc = "slave" /\ rset' = rset /\ reach' = reach /\ handles' = handles /\ sweep' = sweep
  BY DEF MongoSlave
<1>2. PICK i \in Next(k, manager.list) :
        /\ manager' = [manager EXCEPT !.counter = IF rset.strategy = "random" THEN @ ELSE k]
        /\ LET after == IF i \notin DOMAIN manager.list THEN [r EXCEPT !.pc = "panic"] ELSE Idle
           IN reader' = Disturb([reader EXCEPT ![c] = after], c)
  BY DEF MongoSlave, MongoNext
<1> DEFINE after == IF i \notin DOMAIN manager.list THEN [r EXCEPT !.pc = "panic"] ELSE Idle
<1>3. reader' = Disturb([reader EXCEPT ![c] = after], c)
  BY <1>2
<1>4. k \in Nat /\ manager' \in ManagerType(rset) /\ manager'.list = manager.list
  BY <1>2, CounterIs
<1>5. r \in ReaderType
  BY RFacts
<1>6. /\ after \in ReaderType /\ after.pc \in {"panic", "idle"}
      /\ after.pc = "panic" => i \notin DOMAIN manager.list
  <2>1. CASE i \notin DOMAIN manager.list
    <3>1. after = [r EXCEPT !.pc = "panic"]
      BY <2>1
    <3>2. [r EXCEPT !.pc = "panic"] \in ReaderType /\ [r EXCEPT !.pc = "panic"].pc = "panic"
      BY <1>5, ReaderMoves
    <3> HIDE DEF after
    <3> QED BY <2>1, <3>1, <3>2
  <2>2. CASE i \in DOMAIN manager.list
    <3>1. after = Idle
      BY <2>2
    <3> HIDE DEF after
    <3> QED BY <3>1, IdleIs
  <2> QED BY <2>1, <2>2
<1>7. after.pc = "panic" /\ rset.strategy = "weight" /\ rset.slaves # <<>> => Len(manager.list) < Len(rset.slaves)
  <2> HIDE DEF after, k
  <2> QED BY <1>4, <1>6, PanicIsGap
<1> HIDE DEF after, k
<1>8. after.pc # "sweep" /\ CallRight(rset, reach, handles, manager', after)
  BY <1>6, NothingPromised
<1> QED BY <1>1, <1>3, <1>4, <1>6, <1>7, <1>8, CallerMoves

\* No step of the managers breaks the invariant.
LEMMA RMoves ==
  ASSUME RInv, [RNext]_rvars
  PROVE  RInv'
<1>1. CASE UNCHANGED rvars
  <2>1. rset' = rset /\ reach' = reach /\ manager' = manager /\ handles' = handles /\ reader' = reader /\ sweep' = sweep
    BY <1>1 DEF rvars
  <2>2. RTypes' /\ SweeperKnown' /\ PanicNeedsGap' /\ CloseReleasesListed'
    BY <2>1 DEF RInv, RTypes, SweeperKnown, PanicNeedsGap, CloseReleasesListed
  <2> QED BY <2>1, <2>2 DEF RInv
<1>2. ASSUME NEW c \in RCallers, SlaveBegin(c) \/ Slave(c) \/ MongoSlave(c) \/ GetDatabaseNodes(c)
      PROVE  RInv'
  BY <1>2, SlaveBeginKeeps, SlaveKeeps, MongoSlaveKeeps, GetDatabaseNodesKeeps
<1>3. ASSUME NEW c \in RCallers, HealthBegin(c) \/ HealthLock(c) \/ HealthPing(c) \/ HealthUpdate(c)
      PROVE  RInv'
  BY <1>3, HealthBeginKeeps, HealthLockKeeps, HealthPingKeeps, HealthUpdateKeeps
<1>4. CASE CloseManager
  BY <1>4, CloseManagerKeeps
<1>5. ASSUME NEW n \in Range(rset.slaves) \cup {Master}, Flip(n)
      PROVE  RInv'
  BY <1>5, FlipKeeps
<1> QED BY <1>1, <1>2, <1>3, <1>4, <1>5 DEF RNext

\* What the invariant promises.
LEMMA RServes ==
  ASSUME RInv
  PROVE  SlavesServe
<1>1. /\ rset \in RSetups /\ reach \in ReachType(rset) /\ reach.flips <= rset.flips /\ handles \in HandlesType(rset)
      /\ reader \in [RCallers -> ReaderType] /\ manager.counter \in 0..(CounterCycle - 1)
      /\ manager.list \in Seq(Nodes(rset)) /\ CounterCycle \in Nat \ {0}
  BY RFacts DEF RInv, RTypes
<1>2. RTypeOK
  <2>1. reach.up \in SUBSET Nodes(rset) /\ reach.flips \in Nat /\ handles.open \in SUBSET Nodes(rset) /\ rset.flips \in Nat
    BY <1>1, SetupIs DEF ReachType, HandlesType
  <2>2. \A c \in RCallers : reader[c].pc \in {"idle", "failed", "slave", "probe", "panic", "lock", "sweep"}
    BY <1>1, ReaderIs
  <2>3. reach.flips \in 0..rset.flips
    BY <1>1, <2>1
  <2> QED BY <1>1, <2>1, <2>2, <2>3 DEF RTypeOK, Nodes, Returned
<1>3. ListSound
  BY DEF RInv, GoodList, ListSound
<1>4. CleanCallFindsLive
  BY DEF RInv, CallRight, FailedRightly, Answers, CleanCallFindsLive, Ping
<1>5. WeightedShare
  <2>1. manager.counter \in Nat
    BY <1>1
  <2>2. \A i \in DOMAIN rset.weights :
          Cardinality({k \in 1..TotalWeight : WeightNext(manager.counter + k) = {i}}) = Weight(i)
    BY <1>1, <2>1, EachItsWeight
  <2>3. PanicNeedsGap
    BY DEF RInv
  <2> QED BY <2>2, <2>3 DEF WeightedShare, PanicNeedsGap
<1>6. CloseReleasesListed
  BY DEF RInv
<1> QED BY <1>2, <1>3, <1>4, <1>5, <1>6 DEF SlavesServe

-----------------------------------------------------------------------------
(* The parts together: a behaviour of one of them is a behaviour of each,   *)
(* the others stutter                                                       *)

\* Every part starts as it does alone.
LEMMA BackendsStart == BackendsInit => DInit /\ SvcInit /\ LInit /\ ColInit /\ CInit /\ SlotInit /\ OInit /\ RInit
BY DEF BackendsInit

\* Every step is one of the part, or leaves it as it is.
LEMMA BackendsMoves ==
  [BackendsNext]_backendsVars =>
    /\ [DNext]_dvars /\ [SvcNext]_svars /\ [LNext]_lvars
    /\ [ColNext]_colvars /\ [CNext]_cvars /\ [SlotNext]_slotVars /\ [ONext]_ovars /\ [RNext]_rvars
<1> SUFFICES ASSUME [BackendsNext]_backendsVars
             PROVE  /\ [DNext]_dvars /\ [SvcNext]_svars /\ [LNext]_lvars
                    /\ [ColNext]_colvars /\ [CNext]_cvars /\ [SlotNext]_slotVars /\ [ONext]_ovars /\ [RNext]_rvars
  OBVIOUS
<1>1. CASE UNCHANGED backendsVars
  BY <1>1 DEF backendsVars
<1>2. CASE BackendsNext
  BY <1>2 DEF BackendsNext
<1> QED BY <1>1, <1>2

\* The discovery cache never hides a change that its own process made unless a lookup
\* raced it; every open connection is pooled for exactly one service, where Close finds
\* it; a call that failed has tried every leg its strategy allows.
THEOREM RemoteSoundThm == BackendsSpec => []RemoteSound
<1>1. BackendsInit => DInv /\ SvcInv
  BY BackendsStart, DiscoveryInit, SvcStart
<1>2. (DInv /\ SvcInv) /\ [BackendsNext]_backendsVars => (DInv /\ SvcInv)'
  BY BackendsMoves, DiscoveryStep, SvcStep
<1>3. DInv /\ SvcInv => RemoteSound
  BY DiscoveryGoal, SvcGoal DEF RemoteSound
<1> QED BY <1>1, <1>2, <1>3, PTL DEF BackendsSpec

\* Whatever fails while the data layer is made, used and closed, WithTx settles its
\* transaction and reports it once, every connection is open for a reason and closed at
\* most once, and a nil connection is met only after somebody's Close.
THEOREM LayerSoundThm == BackendsSpec => []LayerSound
<1>1. BackendsInit => LInv
  BY BackendsStart, LayerInit
<1>2. LInv /\ [BackendsNext]_backendsVars => LInv'
  BY BackendsMoves, LayerStep
<1>3. LInv => LayerSound
  BY LayerGoal
<1> QED BY <1>1, <1>2, <1>3, PTL DEF BackendsSpec

\* However many reporters, flushes and a Close interleave, a metric recorded with the data
\* collector is in exactly one place: the buffer, one batch, the storage, or dropped with
\* it; and the buffer outgrows its batch only by those about to flush it.
THEOREM DataMetricsSoundThm == BackendsSpec => []DataMetricsSound
<1>1. BackendsInit => ColInv
  BY BackendsStart, ColStart
<1>2. ColInv /\ [BackendsNext]_backendsVars => ColInv'
  BY BackendsMoves, ColStep
<1>3. ColInv => DataMetricsSound
  BY ColGoal
<1> QED BY <1>1, <1>2, <1>3, PTL DEF BackendsSpec

\* A plain cache reads back what it last wrote, one field at a time or several together,
\* until it is removed or expires, whatever the caches with other keys, hashed ones
\* included, pipelines under way and failing ones do meanwhile.
THEOREM CacheSoundThm == BackendsSpec => []CacheSound
<1>1. BackendsInit => CacheInv
  BY BackendsStart, CacheStart
<1>2. CacheInv /\ [BackendsNext]_backendsVars => CacheInv'
  BY BackendsMoves, CacheStep
<1>3. CacheInv => CacheSound
  BY CacheGoal DEF CacheSound
<1> QED BY <1>1, <1>2, <1>3, PTL DEF BackendsSpec

\* For any number of goroutines and slots: at most MaxSlots of them are between Acquire
\* and Release and no Release of one that acquired panics, unless some Release was called
\* once too often; and Available trails the channel by exactly those between their token
\* and their count.
THEOREM SlotsExactThm == BackendsSpec => []SlotsExact
<1>1. BackendsInit => SlotInv
  BY BackendsStart, SlotStart
<1>2. SlotInv /\ [BackendsNext]_backendsVars => SlotInv'
  BY BackendsMoves, SlotStep
<1>3. SlotInv => SlotsExact
  BY SlotGoal
<1> QED BY <1>1, <1>2, <1>3, PTL DEF BackendsSpec

\* For any clients, paths, contents and configurations of the object storage, local or in a
\* cloud: with no call on a path under way, Exists and Stat say what its last Put or Delete
\* left - a failed one of the local store included, which leaves the new object, none, or
\* an emptied file - unless two overlapped or a request to a service failed; a listing that
\* succeeds has every object that was there throughout, once; every temporary file of Get is
\* being filled or its caller's to remove.
THEOREM ObjectsSoundThm == BackendsSpec => []ObjectsSound
<1>1. BackendsInit => OInv
  BY BackendsStart, ObjectStart
<1>2. OInv /\ [BackendsNext]_backendsVars => OInv'
  BY BackendsMoves, ObjectStep
<1>3. OInv => ObjectsSound
  BY ObjectGoal
<1> QED BY <1>1, <1>2, <1>3, PTL DEF BackendsSpec

\* For any callers, any slaves with any weights, any number of tries, health checks and
\* outages: reads always have a node to go to, the master only when no slave is left; a
\* round-robin call with as many tries as listed slaves that nothing ran into fails only if
\* none answers; every round of the weighted balancer gives each configured slave its
\* weight, and its pick is outside the list only once a configured slave is missing (or
\* none was configured); Close leaves open only what a health check had taken off the list.
THEOREM SlavesServeThm == BackendsSpec => []SlavesServe
<1>1. BackendsInit => RInv
  BY BackendsStart, RStarts
<1>2. RInv /\ [BackendsNext]_backendsVars => RInv'
  BY BackendsMoves, RMoves
<1>3. RInv => SlavesServe
  BY RServes
<1> QED BY <1>1, <1>2, <1>3, PTL DEF BackendsSpec
=============================================================================
