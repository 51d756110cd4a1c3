------------------------------ MODULE Discovery ------------------------------
(***************************************************************************)
(* extension/discovery: service registration in Consul, and the lookup     *)
(* cache in front of it.  Consul names an instance by an ID: the service's *)
(* name and a random suffix for those registered here, <<name, k>>; the    *)
(* bare name, <<name, 0>>, for those registered elsewhere without an ID.   *)
(* The cache keeps Consul's whole map and expires as a whole.  Each call   *)
(* to Consul and each hold of the cache's mutex is a step.  The counters   *)
(* of calls, hits and misses are left out.                                 *)
(***************************************************************************)
EXTENDS Naturals, FiniteSets

CONSTANTS
  DNames,     \* service names
  DClients,   \* goroutines that use the discovery
  MaxTTL,     \* the longest cache TTL, in ticks
  MaxIDs      \* bound: changes of Consul's catalogue

ASSUME DiscoveryAssumption == MaxTTL \in Nat \ {0} /\ MaxIDs \in Nat

VARIABLES
  consul,   \* the catalogue: IDs, changes this process made and knows of, IDs given out
  cache,    \* ServiceCache: IDs, age since lastUpdate, and (history) its source
  dcall     \* each goroutine's call

dvars == <<consul, cache, dcall>>

DIdle == [pc |-> "idle", ids |-> {}, own |-> 0]
Expired == MaxTTL + 1   \* the age of a zero lastUpdate

DInit ==
  /\ consul = [ids |-> {}, own |-> 0, given |-> 0]
  /\ cache = [ids |-> {}, age |-> Expired, ttl |-> MaxTTL, own |-> 0, raced |-> FALSE]
  /\ dcall = [c \in DClients |-> DIdle]

-----------------------------------------------------------------------------
(* ServiceCache                                                            *)

DCacheValid == cache.age <= cache.ttl

DCacheGet(n) == DCacheValid /\ <<n, 0>> \in cache.ids

DCacheUpdate(ids, own) ==
  cache' = [cache EXCEPT !.ids = ids, !.age = 0, !.own = own, !.raced = own # consul.own]

\* Mutant of DCacheClear: the entries go but the cache stays valid.
DCacheClearKeepsAge ==
  cache' = [cache EXCEPT !.ids = {}, !.raced = FALSE]

DCacheClear ==
  cache' = [cache EXCEPT !.ids = {}, !.age = Expired, !.raced = FALSE]

-----------------------------------------------------------------------------
(* RegisterService and DeregisterService: Consul first, then the cache     *)

DRegisterService(c, n) ==
  /\ dcall[c].pc = "idle"
  /\ \/ /\ consul.given < MaxIDs
        /\ consul' = [ids |-> consul.ids \cup {<<n, consul.given + 1>>},
                      own |-> consul.own + 1, given |-> consul.given + 1]
        /\ dcall' = [dcall EXCEPT ![c].pc = "clear"]
     \/ UNCHANGED <<consul, dcall>>     \* invalid info, or Consul's error
     \/ /\ consul.given < MaxIDs         \* the reply is lost: registered, and an error
        /\ consul' = [ids |-> consul.ids \cup {<<n, consul.given + 1>>},
                      own |-> consul.own, given |-> consul.given + 1]
        /\ UNCHANGED dcall
  /\ UNCHANGED cache

\* The name is passed where Consul expects an ID.
DDeregisterService(c, n) ==
  /\ dcall[c].pc = "idle"
  /\ \/ /\ consul' = [consul EXCEPT !.ids = @ \ {<<n, 0>>},
                                    !.own = IF <<n, 0>> \in consul.ids THEN @ + 1 ELSE @]
        /\ dcall' = [dcall EXCEPT ![c].pc = "clear"]
     \/ \E ids \in {consul.ids, consul.ids \ {<<n, 0>>}} :     \* an error, or a lost reply
          consul' = [consul EXCEPT !.ids = ids] /\ UNCHANGED dcall
  /\ UNCHANGED cache

DClearAfterChange(c) ==
  /\ dcall[c].pc = "clear"
  /\ DCacheClear
  /\ dcall' = [dcall EXCEPT ![c].pc = "idle"]
  /\ UNCHANGED consul

-----------------------------------------------------------------------------
(* GetService: the cache, then Consul's whole map                          *)

DGetService(c, n) ==
  /\ dcall[c].pc = "idle"
  /\ ~DCacheGet(n)
  /\ dcall' = [dcall EXCEPT ![c].pc = "fetch"]
  /\ UNCHANGED <<consul, cache>>

DFetch(c) ==
  /\ dcall[c].pc = "fetch"
  /\ \/ dcall' = [dcall EXCEPT ![c] = [pc |-> "update", ids |-> consul.ids, own |-> consul.own]]
     \/ dcall' = [dcall EXCEPT ![c] = DIdle]     \* Consul's error
  /\ UNCHANGED <<consul, cache>>

DUpdate(c) ==
  /\ dcall[c].pc = "update"
  /\ DCacheUpdate(dcall[c].ids, dcall[c].own)
  /\ dcall' = [dcall EXCEPT ![c] = DIdle]
  /\ UNCHANGED consul

DSetCacheTTL ==
  \E ttl \in 1..MaxTTL : cache' = [cache EXCEPT !.ttl = ttl] /\ UNCHANGED <<consul, dcall>>

DClearCache == DCacheClear /\ UNCHANGED <<consul, dcall>>

\* Another process registers an instance under its bare name, or removes one.
DForeignChange(n) ==
  /\ \/ <<n, 0>> \notin consul.ids /\ consul.given < MaxIDs
        /\ consul' = [consul EXCEPT !.ids = @ \cup {<<n, 0>>}, !.given = @ + 1]
     \/ \E id \in consul.ids : consul' = [consul EXCEPT !.ids = @ \ {id}]
  /\ UNCHANGED <<cache, dcall>>

DTick ==
  /\ cache.age < Expired
  /\ cache' = [cache EXCEPT !.age = @ + 1]
  /\ UNCHANGED <<consul, dcall>>

DNext ==
  \/ \E c \in DClients :
       \/ \E n \in DNames : DRegisterService(c, n) \/ DDeregisterService(c, n) \/ DGetService(c, n)
       \/ DClearAfterChange(c) \/ DFetch(c) \/ DUpdate(c)
  \/ DSetCacheTTL \/ DClearCache \/ DTick
  \/ \E n \in DNames : DForeignChange(n)

DSpec == DInit /\ [][DNext]_dvars

-----------------------------------------------------------------------------
(* Properties                                                              *)

\* A change this process made to the catalogue is never hidden by its own cache,
\* once the call that made it has returned without error (one whose reply was lost leaves
\* the cache as it is, as a change made elsewhere does): what the cache still answers with was
\* read after the change, or by a lookup that was between its fetch and its update
\* when the change was made (that one puts the old map back for a whole TTL).
CacheCurrentUnlessRaced ==
  (DCacheValid /\ \A c \in DClients : dcall[c].pc # "clear")
  => cache.own = consul.own \/ cache.raced
=============================================================================
