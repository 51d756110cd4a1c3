------------------------------ MODULE Replicas ------------------------------
(***************************************************************************)
(* Read-write splitting: the DBManager of data/connection (SQL) and the    *)
(* MongoManager of data/mongodb, which repeats it.  Reads go to a slave    *)
(* picked by a balancer; Health takes unreachable slaves out of the list,  *)
(* for good, and puts the master in when none is left.  Slave holds the    *)
(* read lock over its tries, Health the write lock over its sweep, Close   *)
(* takes no lock.  One manager is modelled, of the kind the setup names;   *)
(* the balancer's counter is kept modulo a common multiple of the lengths  *)
(* and weights, which is all that Next looks at (it wraps at 2^64).        *)
(***************************************************************************)
EXTENDS Integers, Sequences, FiniteSets, SequencesExt

CONSTANTS
  Master,         \* the master node
  RCallers,       \* goroutines that use the manager
  RSetups,        \* configurations to check, see RSetupType
  CounterCycle,   \* the counter is kept modulo this
  NodeProbes      \* the 10 tries of GetDatabaseNodes

RSetupType ==
  [ kind : {"sql", "mongo"}, strategy : {"round_robin", "random", "weight"},
    slaves : Seq(STRING), weights : Seq(Int), maxRetry : Nat,
    flips : Nat, health : Nat ] \* bounds: reachability changes, health checks

ASSUME ReplicasAssumption ==
  /\ RSetups # {} /\ NodeProbes \in Nat /\ CounterCycle \in Nat \ {0}
  /\ \A s \in RSetups : /\ s \in RSetupType /\ Len(s.weights) = Len(s.slaves) /\ IsInjective(s.slaves)
                        /\ Master \notin Range(s.slaves)
                        /\ \A n \in 1..Len(s.slaves) : CounterCycle % n = 0

VARIABLES
  rset,     \* the configuration
  reach,    \* nodes that answer, and how often that changed
  manager,  \* the list of slaves, the balancer's counter
  handles,  \* nodes with an open client; what Close was given
  reader,   \* each goroutine's call
  sweep     \* the Health that holds the write lock: slaves seen, slaves kept

rvars == <<rset, reach, manager, handles, reader, sweep>>

Idle == [pc |-> "idle", tries |-> 0, probes |-> 0, clean |-> TRUE]
Returned == {"idle", "failed"}
NoSweep == [by |-> {}, at |-> 0, kept |-> <<>>]

RTypeOK ==
  /\ rset \in RSetups
  /\ reach.up \subseteq Range(rset.slaves) \cup {Master} /\ reach.flips \in 0..rset.flips
  /\ manager.list \in Seq(Range(rset.slaves) \cup {Master})
  /\ manager.counter \in 0..CounterCycle - 1
  /\ handles.open \subseteq Range(rset.slaves) \cup {Master}
  /\ \A c \in RCallers :
       reader[c].pc \in Returned \cup {"slave", "probe", "panic", "lock", "sweep"}

\* Nodes that cannot be reached are left out, and never tried again.
NewDBManager(conf, up) ==
  LET n == Len(conf.slaves)
      slaves[i \in 0..n] == IF i = 0 THEN <<>>
                            ELSE IF conf.slaves[i] \in up THEN Append(slaves[i - 1], conf.slaves[i])
                            ELSE slaves[i - 1]
  IN  IF slaves[n] = <<>> THEN <<Master>> ELSE slaves[n]

NewMongoManager(conf, up) == NewDBManager(conf, up)

RInit ==
  /\ rset \in RSetups
  /\ \E lost \in SUBSET Range(rset.slaves) :
       LET up == (Range(rset.slaves) \cup {Master}) \ lost IN
       /\ reach = [up |-> up, flips |-> 0]
       /\ manager = [list |-> IF rset.kind = "sql" THEN NewDBManager(rset, up)
                              ELSE NewMongoManager(rset, up),
                     counter |-> 0, checks |-> 0]
       /\ handles = [open |-> up, closed |-> FALSE]
  /\ reader = [c \in RCallers |-> Idle]
  /\ sweep = NoSweep

-----------------------------------------------------------------------------
(* The balancers: Next gives the set of indices it may pick.               *)

Weight(i) == IF rset.weights[i] <= 0 THEN 1 ELSE rset.weights[i]
Accumulator ==
  LET acc[i \in 0..Len(rset.weights)] == IF i = 0 THEN 0 ELSE acc[i - 1] + Weight(i) IN acc
WeightUpTo(k) == Accumulator[k]
TotalWeight == WeightUpTo(Len(rset.weights))

RoundRobinNext(counter, list) == {(counter % Len(list)) + 1}

RandomNext(list) == DOMAIN list

\* The weights are those of all configured slaves, whichever are in the list; with
\* no configured slave the division by their sum panics, as a pick past the list does.
WeightNext(counter) ==
  IF TotalWeight = 0 THEN {0}
  ELSE LET next == counter % TotalWeight
       IN  {CHOOSE i \in DOMAIN rset.weights :
              /\ WeightUpTo(i) > next
              /\ \A j \in 1..i - 1 : WeightUpTo(j) <= next}

Next(counter, list) ==
  CASE rset.strategy = "round_robin" -> RoundRobinNext(counter, list)
    [] rset.strategy = "random" -> RandomNext(list)
    [] rset.strategy = "weight" -> WeightNext(counter)

\* MongoDB's balancers are the same three.
MongoNext(counter, list) == Next(counter, list)

Ping(n) == n \in reach.up /\ n \in handles.open

\* Others' calls that are under way are no longer undisturbed.
Disturb(rd, c) ==
  [d \in RCallers |-> IF d = c \/ rd[d].pc \notin {"slave", "failed"} THEN rd[d]
                       ELSE [rd[d] EXCEPT !.clean = FALSE]]

NoWriter == sweep.by = {}
Readers == {c \in RCallers : reader[c].pc = "slave"}

-----------------------------------------------------------------------------
(* DBManager.Slave and MongoManager.Slave                                  *)

SlaveBegin(c) ==
  /\ reader[c].pc \in Returned /\ NoWriter
  /\ reader' = [reader EXCEPT ![c] = [Idle EXCEPT !.pc = "slave"]]
  /\ UNCHANGED <<rset, reach, manager, handles, sweep>>

\* Mutant of AfterMiss: the loop runs maxRetry times.
AfterMissEarly(r) ==
  IF r.tries + 1 < rset.maxRetry THEN [r EXCEPT !.tries = @ + 1]
  ELSE IF r.probes = 0 THEN [Idle EXCEPT !.pc = "failed", !.clean = r.clean]
  ELSE Idle

\* A node did not answer: the next of maxRetry + 1 tries, or the last error.
AfterMiss(r) ==
  IF r.tries < rset.maxRetry THEN [r EXCEPT !.tries = @ + 1]
  ELSE IF r.probes = 0 THEN [Idle EXCEPT !.pc = "failed", !.clean = r.clean]
  ELSE Idle

\* A node answered: it is returned, perhaps to the loop of GetDatabaseNodes.
AfterPing(r) == IF r.probes = 0 THEN Idle ELSE [r EXCEPT !.pc = "probe"]

\* One pick and one ping.  An index outside the list panics.
Slave(c) ==
  /\ reader[c].pc = "slave" /\ rset.kind = "sql"
  /\ LET count == (manager.counter + 1) % CounterCycle
         r == reader[c]
     IN \E i \in Next(count, manager.list) :
          /\ manager' = [manager EXCEPT !.counter = IF rset.strategy = "random" THEN @ ELSE count]
          /\ LET after == IF i \notin DOMAIN manager.list THEN [r EXCEPT !.pc = "panic"]
                          ELSE IF Ping(manager.list[i]) THEN AfterPing(r)
                          ELSE AfterMiss(r)
             IN reader' = Disturb([reader EXCEPT ![c] = after], c)
  /\ UNCHANGED <<rset, reach, handles, sweep>>

\* MongoDB tries once, and returns the master if the slave does not answer.
MongoSlave(c) ==
  /\ reader[c].pc = "slave" /\ rset.kind = "mongo"
  /\ LET count == (manager.counter + 1) % CounterCycle
         r == reader[c]
     IN \E i \in MongoNext(count, manager.list) :
          /\ manager' = [manager EXCEPT !.counter = IF rset.strategy = "random" THEN @ ELSE count]
          /\ LET after == IF i \notin DOMAIN manager.list THEN [r EXCEPT !.pc = "panic"]
                          ELSE Idle
             IN reader' = Disturb([reader EXCEPT ![c] = after], c)
  /\ UNCHANGED <<rset, reach, handles, sweep>>

\* Data.GetDatabaseNodes: Slave until it fails, at most NodeProbes times.
GetDatabaseNodes(c) ==
  /\ rset.kind = "sql" /\ NoWriter
  /\ LET r == IF reader[c].pc = "probe" THEN reader[c] ELSE Idle IN
     /\ reader[c].pc \in Returned \cup {"probe"}
     /\ reader' = [reader EXCEPT ![c] =
                     IF r.probes < NodeProbes
                     THEN [r EXCEPT !.pc = "slave", !.probes = @ + 1, !.tries = 0]
                     ELSE Idle]
  /\ UNCHANGED <<rset, reach, manager, handles, sweep>>

-----------------------------------------------------------------------------
(* Health: the master first, then the slaves under the write lock          *)

HealthBegin(c) ==
  /\ reader[c].pc \in Returned
  /\ manager.checks < rset.health
  /\ manager' = [manager EXCEPT !.checks = @ + 1]
  /\ reader' = [reader EXCEPT ![c].pc = IF Ping(Master) THEN "lock" ELSE "idle"]
  /\ UNCHANGED <<rset, reach, handles, sweep>>

HealthLock(c) ==
  /\ reader[c].pc = "lock" /\ NoWriter /\ Readers = {}
  /\ sweep' = [NoSweep EXCEPT !.by = {c}]
  /\ reader' = [reader EXCEPT ![c].pc = "sweep"]
  /\ UNCHANGED <<rset, reach, manager, handles>>

HealthPing(c) ==
  /\ reader[c].pc = "sweep" /\ sweep.at < Len(manager.list)
  /\ LET n == manager.list[sweep.at + 1]
     IN sweep' = [sweep EXCEPT !.at = @ + 1, !.kept = IF Ping(n) THEN Append(@, n) ELSE @]
  /\ UNCHANGED <<rset, reach, manager, handles, reader>>

\* The healthy slaves, or the master, become the list.  A slave left out keeps
\* its client open.
HealthUpdate(c) ==
  /\ reader[c].pc = "sweep" /\ sweep.at = Len(manager.list)
  /\ manager' = [manager EXCEPT !.list = IF sweep.kept = <<>> THEN <<Master>> ELSE sweep.kept]
  /\ sweep' = NoSweep
  /\ reader' = Disturb([reader EXCEPT ![c] = Idle], c)
  /\ UNCHANGED <<rset, reach, handles>>

\* Close: the master and what is in the list at this moment, without the lock.
CloseManager ==
  /\ ~handles.closed
  /\ handles' = [open |-> handles.open \ (Range(manager.list) \cup {Master}), closed |-> TRUE]
  /\ UNCHANGED <<rset, reach, manager, reader, sweep>>

\* A node becomes unreachable, or is reachable again.
Flip(n) ==
  /\ reach.flips < rset.flips
  /\ reach' = [up |-> IF n \in reach.up THEN reach.up \ {n} ELSE reach.up \cup {n},
               flips |-> reach.flips + 1]
  /\ reader' = [c \in RCallers |-> IF reader[c].pc \in {"slave", "failed"}
                                    THEN [reader[c] EXCEPT !.clean = FALSE] ELSE reader[c]]
  /\ UNCHANGED <<rset, manager, handles, sweep>>

RNext ==
  \/ \E c \in RCallers :
       \/ SlaveBegin(c) \/ Slave(c) \/ MongoSlave(c) \/ GetDatabaseNodes(c)
       \/ HealthBegin(c) \/ HealthLock(c) \/ HealthPing(c) \/ HealthUpdate(c)
  \/ CloseManager
  \/ \E n \in Range(rset.slaves) \cup {Master} : Flip(n)

RSpec == RInit /\ [][RNext]_rvars

-----------------------------------------------------------------------------
(* Properties                                                              *)

\* Reads are always given somewhere to go: whatever fails in whatever order, the
\* list is never empty, holds no node twice, and the master stands in only alone.
ListSound ==
  /\ manager.list # <<>> /\ IsInjective(manager.list)
  /\ Master \in Range(manager.list) => manager.list = <<Master>>

\* With as many tries as listed slaves, a round-robin Slave call that no other
\* call and no outage ran into finds a slave that answers if there is one.
CleanCallFindsLive ==
  \A c \in RCallers :
    ( /\ reader[c].pc = "failed" /\ reader[c].clean /\ ~handles.closed
      /\ rset.strategy = "round_robin" /\ rset.maxRetry + 1 >= Len(manager.list) )
    => \A n \in Range(manager.list) : ~Ping(n)

\* The weighted balancer gives every configured slave exactly its weight in each
\* round of picks, from wherever the counter stands, and it picks past the list
\* (a panic) only once a configured slave is missing from it, or none was configured.
WeightedShare ==
  rset.strategy = "weight" =>
    /\ \A i \in DOMAIN rset.weights :
         Cardinality({k \in 1..TotalWeight : WeightNext(manager.counter + k) = {i}}) = Weight(i)
    /\ rset.slaves # <<>> /\ (\E c \in RCallers : reader[c].pc = "panic")
         => Len(manager.list) < Len(rset.slaves)

\* Close releases the master and every slave that is still listed: what it leaves open is
\* a slave that a health check had taken off the list.
CloseReleasesListed ==
  handles.closed => /\ Master \notin handles.open
                    /\ handles.open \cap Range(manager.list) = {}
=============================================================================
