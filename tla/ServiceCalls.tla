---------------------------- MODULE ServiceCalls ----------------------------
(***************************************************************************)
(* Calls between extensions: manager/service_call.go with the registry and *)
(* the connection pool of extension/grpc, and the circuit breakers that    *)
(* manager/http.go sets up.  A call goes to the local service (found by    *)
(* reflection) or over gRPC, in the order of its strategy; the transport   *)
(* is a stub that succeeds once there is a connection.  A breaker is       *)
(* sony/gobreaker's, with the settings the manager gives it.               *)
(***************************************************************************)
EXTENDS Naturals, FiniteSets

CONSTANTS
  SvcNames,       \* extension names
  SvcCallers,     \* goroutines that call services
  Addresses,      \* where gRPC services listen
  NoAddress,
  SvcSetups,      \* bounds: connections, registrations, requests to a breaker
  HalfOpenMax     \* MaxRequests of the breaker

ASSUME ServiceCallsAssumption ==
  /\ NoAddress \notin Addresses
  /\ SvcSetups \subseteq [conns : Nat, changes : Nat, requests : Nat]
  /\ HalfOpenMax \in Nat \ {0}

Strategies == {"local_first", "remote_first", "local_only", "remote_only"}

VARIABLES
  svcset,       \* the bounds in force
  services,   \* extensions loaded with a service; keys of crossServices
  grpcReg,    \* ServiceRegistry: whether there is one; its own map; what Consul would answer
  pool,       \* ClientPool: connection per service; connections not yet closed
  scall,      \* each goroutine's call
  breakers    \* circuit breaker per extension, and trips reported to the metrics

svars == <<svcset, services, grpcReg, pool, scall, breakers>>

Quiet == [pc |-> "idle", to |-> NoAddress, svc |-> NoAddress, strategy |-> "none",
          ran |-> {}, address |-> NoAddress]
NoBreaker == [state |-> "none", requests |-> 0, failures |-> 0, successes |-> 0]

SvcInit ==
  /\ svcset \in SvcSetups
  /\ services = [loaded |-> SvcNames, cross |-> {}]
  /\ \E on \in {"off", "on"}, where \in [SvcNames -> Addresses \cup {NoAddress}] :
       grpcReg = [state |-> on, own |-> [n \in SvcNames |-> NoAddress],
                  consul |-> where, changes |-> 0]
  /\ pool = [conn |-> [n \in SvcNames |-> 0], open |-> {}, dialled |-> 0]
  /\ scall = [c \in SvcCallers |-> Quiet]
  /\ breakers = [of |-> [n \in SvcNames |-> NoBreaker], trips |-> 0, calls |-> 0]

-----------------------------------------------------------------------------
(* CallServiceWithOptions: the first leg by strategy, the other on failure *)

FirstLeg(s) == IF s \in {"local_first", "local_only"} THEN "local" ELSE "remote"

\* Where a failed leg leads: the other leg once, or the error.
callLocalFirst(call) ==
  IF call.strategy = "local_first" /\ "remote" \notin call.ran THEN "remote" ELSE "failed"

callRemoteFirst(call) ==
  IF call.strategy = "remote_first" /\ "local" \notin call.ran THEN "local" ELSE "failed"

AfterFailedLeg(call) ==
  IF call.strategy = "remote_first" THEN callRemoteFirst(call) ELSE callLocalFirst(call)

CallServiceWithOptions(c, n, s) ==
  /\ scall[c].pc \in {"idle", "ok", "failed"} /\ pool.dialled < svcset.conns
  /\ scall' = [scall EXCEPT ![c] = [Quiet EXCEPT !.pc = FirstLeg(s), !.svc = n, !.strategy = s]]
  /\ UNCHANGED <<svcset, services, grpcReg, pool, breakers>>

GetServiceByName(n) == n \in services.loaded
GetCrossService(n) == n \in services.cross \/ GetServiceByName(n)

\* The method runs, with its effects, whatever it returns; reflection may panic, on an
\* argument the method does not take or on a result that cannot be nil.  A panic ends the
\* call with no other leg tried.
invokeServiceMethod(c) ==
  LET ran == [scall[c] EXCEPT !.ran = @ \cup {"local"}]
  IN  \/ \E pc \in {"ok", AfterFailedLeg(ran)} : scall' = [scall EXCEPT ![c] = [ran EXCEPT !.pc = pc]]
      \/ scall' = [scall EXCEPT ![c] = Quiet]

callLocal(c) ==
  /\ scall[c].pc = "local"
  /\ \/ GetCrossService(scall[c].svc) /\ invokeServiceMethod(c)
     \/ ~GetCrossService(scall[c].svc)
        /\ scall' = [scall EXCEPT ![c].ran = @ \cup {"local"},
                                  ![c].pc = AfterFailedLeg([scall[c] EXCEPT !.ran = @ \cup {"local"}])]
  /\ UNCHANGED <<svcset, services, grpcReg, pool, breakers>>

RegisterCrossService(n) ==
  /\ n \notin services.cross
  /\ services' = [services EXCEPT !.cross = @ \cup {n}]
  /\ UNCHANGED <<svcset, grpcReg, pool, scall, breakers>>

-----------------------------------------------------------------------------
(* callRemote: ServiceRegistry.DiscoverService, then ClientPool            *)

\* A service registered here is preferred to what Consul knows.
DiscoverService(n) == IF grpcReg.own[n] # NoAddress THEN grpcReg.own[n] ELSE grpcReg.consul[n]

callRemote(c) ==
  /\ scall[c].pc = "remote"
  /\ LET ran == [scall[c] EXCEPT !.ran = @ \cup {"remote"}]
     IN scall' = [scall EXCEPT ![c] =
          [ran EXCEPT !.pc = IF grpcReg.state = "off" THEN AfterFailedLeg(ran) ELSE "connect"]]
  /\ UNCHANGED <<svcset, services, grpcReg, pool, breakers>>

\* The registry is read again: one that has gone since panics.
RegistryGetConnection(c) ==
  /\ scall[c].pc = "connect"
  /\ LET a == DiscoverService(scall[c].svc)
     IN scall' = [scall EXCEPT ![c] =
          IF grpcReg.state = "off" THEN Quiet
          ELSE IF a = NoAddress THEN [scall[c] EXCEPT !.pc = AfterFailedLeg(scall[c])]
          ELSE [scall[c] EXCEPT !.pc = "lookup", !.address = a]]
  /\ UNCHANGED <<svcset, services, grpcReg, pool, breakers>>

\* With a connection, all that is left is to marshal the request.
Marshalled(c) ==
  \E pc \in {"ok", AfterFailedLeg(scall[c])} : scall' = [scall EXCEPT ![c].pc = pc]

\* Under the read lock: a pooled connection is used, whatever its address is.
LookupConnection(c) ==
  /\ scall[c].pc = "lookup"
  /\ IF pool.conn[scall[c].svc] # 0 THEN Marshalled(c) ELSE scall' = [scall EXCEPT ![c].pc = "dial"]
  /\ UNCHANGED <<svcset, services, grpcReg, pool, breakers>>

\* Under the write lock: another caller's connection, or a new one.
GetConnection(c) ==
  /\ scall[c].pc = "dial"
  /\ \/ /\ pool.conn[scall[c].svc] # 0
        /\ Marshalled(c) /\ UNCHANGED pool
     \/ /\ pool.conn[scall[c].svc] = 0
        /\ pool' = [conn |-> [pool.conn EXCEPT ![scall[c].svc] = pool.dialled + 1],
                    open |-> pool.open \cup {pool.dialled + 1}, dialled |-> pool.dialled + 1]
        /\ Marshalled(c)
     \/ /\ pool.conn[scall[c].svc] = 0                            \* the dial fails
        /\ scall' = [scall EXCEPT ![c].pc = AfterFailedLeg(scall[c])] /\ UNCHANGED pool
  /\ UNCHANGED <<svcset, services, grpcReg, breakers>>

\* ServiceRegistry.RegisterService: an address registered again leaves the pool as it is.
GrpcRegisterService(n, a) ==
  /\ grpcReg.state # "off" /\ grpcReg.changes < svcset.changes
  /\ grpcReg' = [grpcReg EXCEPT !.own[n] = a, !.changes = @ + 1]
  /\ UNCHANGED <<svcset, services, pool, scall, breakers>>

\* The manager's Cleanup closes the pool, ServiceRegistry.Close; a call that comes after
\* that, or is under way, may dial again.
PoolClose ==
  /\ grpcReg.state = "on"
  /\ grpcReg' = [grpcReg EXCEPT !.state = "closed"]
  /\ pool' = [conn |-> [n \in SvcNames |-> 0],
              open |-> pool.open \ {pool.conn[n] : n \in SvcNames}, dialled |-> pool.dialled]
  /\ UNCHANGED <<svcset, services, scall, breakers>>

\* Then it forgets the registry.
DropRegistry ==
  /\ grpcReg.state = "closed"
  /\ grpcReg' = [grpcReg EXCEPT !.state = "off"]
  /\ UNCHANGED <<svcset, services, pool, scall, breakers>>

-----------------------------------------------------------------------------
(* Circuit breakers                                                        *)

registerExtensionRoutes(n) ==
  /\ breakers.of[n].state = "none" /\ GetServiceByName(n)
  /\ breakers' = [breakers EXCEPT !.of[n] = [NoBreaker EXCEPT !.state = "closed"]]
  /\ UNCHANGED <<svcset, services, grpcReg, pool, scall>>

ReadyToTrip(b) == b.requests >= 3 /\ 10 * b.failures >= 6 * b.requests

\* gobreaker's afterRequest.
AfterExecute(b, succeeded) ==
  LET counted == [b EXCEPT !.requests = @ + 1,
                           !.failures = IF succeeded THEN @ ELSE @ + 1,
                           !.successes = IF succeeded THEN @ + 1 ELSE @]
      to(s) == [NoBreaker EXCEPT !.state = s]
  IN CASE b.state = "closed" -> IF ReadyToTrip(counted) /\ ~succeeded THEN to("open") ELSE counted
       [] b.state = "half_open" -> IF ~succeeded THEN to("open")
                                   ELSE IF counted.successes >= HalfOpenMax THEN to("closed")
                                   ELSE counted

\* Every call that leaves the breaker not closed is reported as a trip.
ExecuteWithCircuitBreaker(n) ==
  /\ breakers.of[n].state # "none" /\ breakers.calls < svcset.requests
  /\ LET b == breakers.of[n] IN
     \E after \in IF b.state = "open" THEN {b} ELSE {AfterExecute(b, s) : s \in BOOLEAN} :
       breakers' = [of |-> [breakers.of EXCEPT ![n] = after], calls |-> breakers.calls + 1,
                    trips |-> IF after.state # "closed" THEN breakers.trips + 1 ELSE breakers.trips]
  /\ UNCHANGED <<svcset, services, grpcReg, pool, scall>>

\* Timeout ends the open state, Interval clears the counts of the closed one.
BreakerTimer(n) ==
  /\ breakers.of[n].state \in {"open", "closed"}
  /\ breakers' = [breakers EXCEPT !.of[n] =
       [NoBreaker EXCEPT !.state = IF breakers.of[n].state = "open" THEN "half_open" ELSE "closed"]]
  /\ UNCHANGED <<svcset, services, grpcReg, pool, scall>>

\* UnloadPlugin drops the service and the breaker; ReloadPlugin loads the service
\* again, but routes, and so breakers, are registered only at startup.
UnloadService(n) ==
  /\ GetServiceByName(n)
  /\ services' = [loaded |-> services.loaded \ {n}, cross |-> services.cross \ {n}]
  /\ breakers' = [breakers EXCEPT !.of[n] = NoBreaker]
  /\ UNCHANGED <<svcset, grpcReg, pool, scall>>

SvcNext ==
  \/ \E c \in SvcCallers :
       \/ \E n \in SvcNames, s \in Strategies : CallServiceWithOptions(c, n, s)
       \/ callLocal(c) \/ callRemote(c) \/ RegistryGetConnection(c)
       \/ LookupConnection(c) \/ GetConnection(c)
  \/ \E n \in SvcNames :
       \/ RegisterCrossService(n) \/ UnloadService(n)
       \/ registerExtensionRoutes(n) \/ ExecuteWithCircuitBreaker(n) \/ BreakerTimer(n)
       \/ \E a \in Addresses : GrpcRegisterService(n, a)
  \/ PoolClose \/ DropRegistry

SvcSpec == SvcInit /\ [][SvcNext]_svars

-----------------------------------------------------------------------------
(* Properties                                                              *)

\* However callers of one service race for its first connection, and whenever the
\* registry is closed, every connection that is open is the pooled connection of exactly
\* one service: Close, if it comes, closes it.  (A call that passed the check for a
\* registry and dials after Close leaves one in a pool that nobody closes again.)
ConnectionsAccounted ==
  \A k \in pool.open : Cardinality({n \in SvcNames : pool.conn[n] = k}) = 1

\* A call takes each leg at most once, both only with a fallback strategy, and one
\* that returned an error has tried every leg its strategy allows.
LegsExhausted ==
  \A c \in SvcCallers :
    scall[c].pc = "failed" =>
      scall[c].ran = CASE scall[c].strategy = "local_only" -> {"local"}
                       [] scall[c].strategy = "remote_only" -> {"remote"}
                       [] OTHER -> {"local", "remote"}
=============================================================================
