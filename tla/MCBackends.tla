----------------------------- MODULE MCBackends -----------------------------
(***************************************************************************)
(* Instances for TLC of the parts that face other systems: the replicas of *)
(* a database, the data layer, the cache, the search client, the data      *)
(* collector, the object storage, service discovery and service calls; and *)
(* of two helpers that goroutines share, the expression cache and the      *)
(* concurrency manager.                                                    *)
(* They share no variables: a behaviour runs one of them, named by part,   *)
(* and leaves the others as they started.                                  *)
(***************************************************************************)
EXTENDS Replicas, DataLayer, CacheStore, SearchClient, DataCollector, ObjectStorage,
        Discovery, ServiceCalls, ExpressionCache, ConcurrencyManager

CONSTANTS d1, d2

VARIABLE part

Slaves(kind, strategy, slaves, weights, maxRetry) ==
  [kind |-> kind, strategy |-> strategy, slaves |-> slaves, weights |-> weights,
   maxRetry |-> maxRetry, flips |-> 1, health |-> 1]
MCRSetups ==
  { Slaves("sql", "round_robin", <<"s1", "s2">>, <<0, 0>>, 1),
    [Slaves("sql", "random", <<"s1", "s2">>, <<0, 0>>, 0) EXCEPT !.flips = 0],
    Slaves("sql", "weight", <<"s1", "s2">>, <<2, 0>>, 0),
    Slaves("mongo", "weight", <<"s1", "s2">>, <<2, 1>>, 0),
    Slaves("sql", "weight", <<>>, <<>>, 0),
    [Slaves("mongo", "round_robin", <<"s1", "s2">>, <<1, 1>>, 0) EXCEPT !.flips = 0] }

Layer(parts, apart, calls, faultBound) ==
  [services |-> parts, createNew |-> [u \in Users |-> apart], calls |-> calls, faults |-> faultBound]
MCLSetups ==
  { Layer({"database", "neo4j"}, FALSE, 2, 1),
    Layer({"database", "redis", "rabbitmq", "kafka"}, FALSE, 1, 1),
    Layer({"database", "search", "mongodb"}, TRUE, 1, 1),
    Layer({}, FALSE, 1, 0) }

MCCSetups ==
  LET two(hashed) == [c \in {"a", "b"} |-> [key |-> c, useHash |-> c \in hashed]]
  IN { [caches |-> two(h), writes |-> 3] : h \in {{}, {"b"}} }

Lists == {<<d1>>, <<d1, d2>>}
Searches(adapters, ops, direct, calls, changes) ==
  [adapters |-> adapters, default |-> IF adapters = {} THEN NoEngine ELSE "elasticsearch",
   auto |-> adapters # {}, ops |-> ops, direct |-> direct, lists |-> Lists, docs |-> {"map"}, calls |-> calls,
   changes |-> changes]
MCSSetups ==
  { [Searches({"elasticsearch", "meilisearch"}, {"index"}, FALSE, 2, 1) EXCEPT !.lists = {<<d1>>}],
    [Searches({"meilisearch"}, {"index", "bulk_index"}, FALSE, 2, 0) EXCEPT !.docs = DocKinds],
    [Searches({"opensearch"}, {"index", "search"}, FALSE, 2, 2) EXCEPT !.lists = {<<d1>>}],
    Searches({"elasticsearch"}, SearchOps, FALSE, 2, 0),
    Searches({"meilisearch"}, {"index", "bulk_delete"}, TRUE, 2, 1),
    Searches({"opensearch"}, SearchOps, FALSE, 3, 0),
    Searches({}, SearchOps, FALSE, 1, 0) }

MCOPaths == << <<>>, <<"a">>, <<"a", "b">>, <<"a", "..", "..", "b">> >>
MCOConfigs ==
  { [provider |-> p, given |-> {"id", "secret", "bucket", "endpoint", "region"},
     goodEndpoint |-> TRUE, appID |-> "", suffix |-> "1", calls |-> IF p \in {"local", "s3"} THEN 3 ELSE 2] :
    p \in {"local", "s3", "gcs", "minio", "azure"} }

backendsVars == <<part, rvars, lvars, cvars, searchVars, colvars, ovars, dvars, svars, xvars, slotVars>>

MCSvcSetups ==
  { [conns |-> 2, changes |-> 1, requests |-> 0], [conns |-> 0, changes |-> 0, requests |-> 6] }

MCXSetups ==
  { [ops |-> {"evaluate", "expire"}, calls |-> 4, elems |-> 3],
    [ops |-> {"add", "evaluate"}, calls |-> 5, elems |-> 3],
    [ops |-> {"add", "remove", "clear", "purge", "expire"}, calls |-> 4, elems |-> 3],
    [ops |-> {"evaluate", "clear", "expire"}, calls |-> 4, elems |-> 3] }

\* The part that runs starts in any of its initial states, the others in a fixed one.
Pinned(p, setup, setups) == part # p => setup = CHOOSE s \in setups : TRUE
BackendsInit ==
  /\ part \in {"replicas", "layer", "cache", "search", "collector", "objects",
             "discovery", "calls", "expressions", "slots"}
  /\ RInit /\ Pinned("replicas", rset, RSetups) /\ (part # "replicas" => reach.up = Range(rset.slaves) \cup {Master})
  /\ LInit /\ Pinned("layer", lset, LSetups)
  /\ CInit /\ Pinned("cache", cset, CSetups)
  /\ SInit /\ Pinned("search", sset, SSetups) /\ (part # "search" => healthy = sset.adapters)
  /\ ColInit
  /\ OInit /\ Pinned("objects", ocfg, OConfigs)
  /\ DInit
  /\ SvcInit /\ Pinned("calls", svcset, SvcSetups)
  /\ part # "calls" => grpcReg.state = "off" /\ \A n \in SvcNames : grpcReg.consul[n] = NoAddress
  /\ XInit /\ Pinned("expressions", xset, XSetups)
  /\ SlotInit

BackendsNext ==
  /\ UNCHANGED part
  /\ \/ /\ part = "replicas" /\ RNext
        /\ UNCHANGED <<lvars, cvars, searchVars, colvars, ovars, dvars, svars, xvars, slotVars>>
     \/ /\ part = "layer" /\ LNext
        /\ UNCHANGED <<rvars, cvars, searchVars, colvars, ovars, dvars, svars, xvars, slotVars>>
     \/ /\ part = "cache" /\ CNext
        /\ UNCHANGED <<rvars, lvars, searchVars, colvars, ovars, dvars, svars, xvars, slotVars>>
     \/ /\ part = "search" /\ SNext
        /\ UNCHANGED <<rvars, lvars, cvars, colvars, ovars, dvars, svars, xvars, slotVars>>
     \/ /\ part = "collector" /\ ColNext
        /\ UNCHANGED <<rvars, lvars, cvars, searchVars, ovars, dvars, svars, xvars, slotVars>>
     \/ /\ part = "objects" /\ ONext
        /\ UNCHANGED <<rvars, lvars, cvars, searchVars, colvars, dvars, svars, xvars, slotVars>>
     \/ /\ part = "discovery" /\ DNext
        /\ UNCHANGED <<rvars, lvars, cvars, searchVars, colvars, ovars, svars, xvars, slotVars>>
     \/ /\ part = "calls" /\ SvcNext
        /\ UNCHANGED <<rvars, lvars, cvars, searchVars, colvars, ovars, dvars, xvars, slotVars>>
     \/ /\ part = "expressions" /\ XNext
        /\ UNCHANGED <<rvars, lvars, cvars, searchVars, colvars, ovars, dvars, svars, slotVars>>
     \/ /\ part = "slots" /\ SlotNext
        /\ UNCHANGED <<rvars, lvars, cvars, searchVars, colvars, ovars, dvars, svars, xvars>>

BackendsSpec == BackendsInit /\ [][BackendsNext]_backendsVars

\* The two callers of a part are alike.  One part runs and the others stay in an initial
\* state, so those of all parts may change places at once.
Pairs == {RCallers, Users, SCallers, Reporters, OClients, DClients, SvcCallers, XCallers}
OtherOf(x) == CHOOSE y \in UNION Pairs : y # x /\ {x, y} \in Pairs
Symmetry ==
  { [x \in UNION Pairs |-> IF swap THEN OtherOf(x) ELSE x] : swap \in BOOLEAN }

-----------------------------------------------------------------------------
(* What each part promises                                                 *)

\* Reads are given somewhere to go whatever fails in whatever order (ListSound), an
\* undisturbed round-robin call finds a slave that answers (CleanCallFindsLive), the
\* weighted balancer gives every slave its share (WeightedShare), and Close forgets only
\* slaves that left the list (CloseReleasesListed).
SlavesServe ==
  RTypeOK /\ ListSound /\ CleanCallFindsLive /\ WeightedShare /\ CloseReleasesListed

\* WithTx settles its transaction and reports it once (TxSettled), a connection is open
\* for a reason and closed at most once (LinksAccounted), and a nil one is met only
\* after somebody's Close (NilNeedsClose).
LayerSound == LTypeOK /\ TxSettled /\ LinksAccounted /\ NilNeedsClose

\* A plain cache reads back what it wrote, whatever other caches do (PlainReadsBack).
CacheSound == CTypeOK /\ PlainReadsBack


\* A recorded metric is in one place: buffer, batch, storage or dropped (MetricsConserved).
DataMetricsSound == ColTypeOK /\ MetricsConserved

\* An object is what the last Put or Delete left (LastWriteStands), a listing misses and
\* repeats nothing (ListComplete), and no temporary file is lost (TempsAccounted).
ObjectsSound == OTypeOK /\ LastWriteStands /\ ListComplete /\ TempsAccounted

\* The discovery cache never hides a change that its own process made, unless a lookup
\* raced it (CacheCurrentUnlessRaced), every open connection is pooled for exactly one
\* service, where Close finds it (ConnectionsAccounted), and a call that failed has tried
\* every leg its strategy allows (LegsExhausted).
RemoteSound == CacheCurrentUnlessRaced /\ ConnectionsAccounted /\ LegsExhausted

\* Map, list and size of the expression cache agree unless two readers or a late removal
\* raced (LruUnlessRaced), and the concurrency manager lets in no more than it has slots
\* for and counts them exactly (SlotsExact).
LimitsSound == XTypeOK /\ LruUnlessRaced /\ SlotsExact
=============================================================================
