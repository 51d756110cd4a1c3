----------------------------- MODULE DataLayer ------------------------------
(***************************************************************************)
(* The life of a Data layer: New with its shared instance, the connections *)
(* it opens, the accessors, transactions, health checks and Close          *)
(* (data/factory.go, access.go, transaction.go, health.go, lifecycle.go    *)
(* and connection/connection.go).  An instance is named after the user     *)
(* whose New made it.  The servers behind the connections are external.    *)
(***************************************************************************)
EXTENDS Naturals, Sequences, FiniteSets, SequencesExt

CONSTANTS
  Users,     \* parts of the program that call New, each in its own goroutine
  NoUser,    \* no instance
  LSetups    \* configurations to check, see LSetupType

\* The order in which New opens them.
OpenOrder == <<"database", "redis", "search", "mongodb", "neo4j", "rabbitmq", "kafka">>
Services == Range(OpenOrder)
Optional == {"rabbitmq", "kafka"}

\* The clients Connections.Close recognises by their methods.  It also tries to
\* ping the Redis and Kafka clients and to ask RabbitMQ's whether it is closed,
\* by interfaces none of the three has; search clients hold nothing.
Recognised == {"database", "mongodb", "neo4j"}

LSetupType ==
  [ services : SUBSET Services, createNew : [Users -> BOOLEAN],
    calls : Nat, faults : Nat ] \* bounds: calls per user, failures in all

ASSUME LayerAssumption == NoUser \notin Users /\ LSetups \subseteq LSetupType

VARIABLES
  lset,    \* the configuration
  shared,  \* sharedInstance
  inst,    \* the Data structs
  links,   \* open connections, as <<instance, service>>; how often each was closed
  user,    \* each user's progress, its instance, its transaction
  lfaults

lvars == <<lset, shared, inst, links, user, lfaults>>

InstType == [closed : BOOLEAN, lock : BOOLEAN, conn : BOOLEAN, made : BOOLEAN, failed : BOOLEAN]
UserType ==
  [pc : {"start", "connect", "ready", "node", "slave", "begin", "fn", "health", "close", "none"},
   on : Users \cup {NoUser}, tx : {"none", "open", "committed", "aborted"},
   result : {"none", "ok", "error", "panic", "nil"}, reports : Nat, calls : Nat]

LTypeOK ==
  /\ lset \in LSetups /\ shared \in Users \cup {NoUser} /\ lfaults \in 0..lset.faults
  /\ inst \in [Users -> InstType] /\ user \in [Users -> UserType]
  /\ links \in [open : SUBSET (Users \X Services), closed : [Users -> [Services -> Nat]]]

LInit ==
  /\ lset \in LSetups /\ shared = NoUser /\ lfaults = 0
  /\ inst = [u \in Users |-> [closed |-> FALSE, lock |-> FALSE, conn |-> FALSE,
                              made |-> FALSE, failed |-> FALSE]]
  /\ links = [open |-> {}, closed |-> [u \in Users |-> [s \in Services |-> 0]]]
  /\ user = [u \in Users |-> [pc |-> "start", on |-> NoUser, tx |-> "none",
                              result |-> "none", reports |-> 0, calls |-> 0]]

LFault == lfaults < lset.faults /\ lfaults' = lfaults + 1

Goes(u, pc) == user' = [user EXCEPT ![u].pc = pc]

\* WithTx returns r, having told the collector once.
Returns(u, tx, r) ==
  user' = [user EXCEPT ![u].pc = "ready", ![u].tx = tx, ![u].result = r, ![u].reports = @ + 1]

Mine(u) == inst[user[u].on]

-----------------------------------------------------------------------------
(* New: nothing guards sharedInstance between the look and the assignment.  *)

New(u) ==
  /\ user[u].pc = "start"
  /\ IF ~lset.createNew[u] /\ shared # NoUser
     THEN user' = [user EXCEPT ![u].pc = "ready", ![u].on = shared]
     ELSE Goes(u, "connect")
  /\ UNCHANGED <<lset, shared, inst, links, lfaults>>

\* What connection.New has open when the connection to s fails.
OpenBefore(s) == {OpenOrder[i] : i \in {j \in DOMAIN OpenOrder :
                    \A k \in 1..j : OpenOrder[k] # s}} \cap lset.services

\* The brokers may fail; any other failure ends New and leaves open what was opened.
NewConnections(u) ==
  /\ user[u].pc = "connect"
  /\ \/ \E lost \in SUBSET (Optional \cap lset.services) :
          /\ IF lost = {} THEN UNCHANGED lfaults ELSE LFault
          /\ links' = [links EXCEPT !.open = @ \cup ({u} \X (lset.services \ lost))]
          /\ inst' = [inst EXCEPT ![u].conn = TRUE, ![u].made = TRUE]
          /\ shared' = IF lset.createNew[u] THEN shared ELSE u
          /\ user' = [user EXCEPT ![u].pc = "ready", ![u].on = u]
     \/ \E s \in lset.services \ Optional :
          /\ LFault
          /\ links' = [links EXCEPT !.open = @ \cup ({u} \X OpenBefore(s))]
          /\ inst' = [inst EXCEPT ![u].failed = TRUE]
          /\ Goes(u, "none")
          /\ UNCHANGED shared
  /\ UNCHANGED lset

-----------------------------------------------------------------------------
(* WithTx; WithTxRead differs in the node it takes.                         *)

\* The first look at d.closed, under the read lock.
TxEnter(u, pc) ==
  /\ user[u].pc = "ready" /\ user[u].calls < lset.calls /\ ~Mine(u).lock
  /\ LET r == [user[u] EXCEPT !.calls = @ + 1, !.tx = "none", !.result = "none", !.reports = 0]
     IN user' = [user EXCEPT ![u] = IF Mine(u).closed
                                    THEN [r EXCEPT !.result = "error", !.reports = 1]
                                    ELSE [r EXCEPT !.pc = pc]]
  /\ UNCHANGED <<lset, shared, inst, links, lfaults>>

WithTx(u) == TxEnter(u, "node")
WithTxRead(u) == TxEnter(u, "slave")

Connected(u) == ~Mine(u).closed /\ Mine(u).conn /\ "database" \in lset.services

\* GetMasterDB: the node, or nil and an error for the caller.
GetMasterDB(u) ==
  /\ user[u].pc = "node" /\ ~Mine(u).lock
  /\ IF Connected(u) THEN Goes(u, "begin") ELSE Returns(u, "none", "error")
  /\ UNCHANGED <<lset, shared, inst, links, lfaults>>

\* GetSlaveDB: as above, but no slave may answer.
GetSlaveDB(u) ==
  /\ user[u].pc = "slave" /\ ~Mine(u).lock
  /\ \/ Connected(u) /\ Goes(u, "begin") /\ UNCHANGED lfaults
     \/ Connected(u) /\ LFault /\ Returns(u, "none", "error")
     \/ ~Connected(u) /\ Returns(u, "none", "error") /\ UNCHANGED lfaults
  /\ UNCHANGED <<lset, shared, inst, links>>

\* BeginTx, which fails on a database that was closed meanwhile.
TxBegin(u) ==
  /\ user[u].pc = "begin"
  /\ \/ /\ <<user[u].on, "database">> \in links.open
        /\ user' = [user EXCEPT ![u].pc = "fn", ![u].tx = "open"]
        /\ UNCHANGED lfaults
     \/ /\ IF <<user[u].on, "database">> \in links.open THEN LFault ELSE UNCHANGED lfaults
        /\ Returns(u, "none", "error")
  /\ UNCHANGED <<lset, shared, inst, links>>

\* Mutant of TxEnd: the error of fn is returned without a rollback.
TxEndNoRollback(u) ==
  /\ user[u].pc = "fn"
  /\ \/ Returns(u, "committed", "ok") \/ Returns(u, "open", "error")
     \/ user' = [user EXCEPT ![u].pc = "ready", ![u].result = "panic"]
  /\ UNCHANGED <<lset, shared, inst, links, lfaults>>

\* fn ran: commit, or roll back on its error.  Either may fail, and then the driver
\* has let go of the transaction, committed or not.  Nothing recovers a panic of fn.
TxEnd(u) ==
  /\ user[u].pc = "fn"
  /\ \/ Returns(u, "committed", "ok") /\ UNCHANGED lfaults
     \/ Returns(u, "aborted", "error") /\ UNCHANGED lfaults
     \/ LFault /\ \E tx \in {"committed", "aborted"} : Returns(u, tx, "error")
     \/ user' = [user EXCEPT ![u].pc = "ready", ![u].result = "panic"] /\ UNCHANGED lfaults
  /\ UNCHANGED <<lset, shared, inst, links>>

-----------------------------------------------------------------------------
(* Health reads d.Conn without the lock, twice                              *)

Health(u) ==
  /\ user[u].pc = "ready" /\ user[u].calls < lset.calls
  /\ user' = [user EXCEPT ![u].pc = IF Mine(u).conn /\ lset.services # {} THEN "health" ELSE "ready",
                          ![u].calls = @ + 1, ![u].tx = "none", ![u].result = "none"]
  /\ UNCHANGED <<lset, shared, inst, links, lfaults>>

\* d.Conn was set when it was compared with nil; now it is dereferenced.
HealthUse(u) ==
  /\ user[u].pc = "health"
  /\ IF Mine(u).conn THEN Goes(u, "ready")
     ELSE user' = [user EXCEPT ![u].pc = "ready", ![u].result = "nil"]
  /\ UNCHANGED <<lset, shared, inst, links, lfaults>>

-----------------------------------------------------------------------------
(* The cleanup function New returned: Data.Close                            *)

CloseData(u) ==
  /\ user[u].pc = "ready" /\ user[u].on # NoUser /\ ~Mine(u).lock
  /\ IF Mine(u).closed THEN UNCHANGED inst /\ Goes(u, "none")
     ELSE /\ inst' = [inst EXCEPT ![user[u].on].closed = TRUE, ![user[u].on].lock = TRUE]
          /\ Goes(u, "close")
  /\ UNCHANGED <<lset, shared, links, lfaults>>

CloseConnections(u) ==
  /\ user[u].pc = "close"
  /\ LET d == user[u].on
         gone == {d} \X Recognised IN
     /\ links' = [open |-> links.open \ gone,
                  closed |-> [links.closed EXCEPT ![d] = [s \in Services |->
                    @[s] + (IF <<d, s>> \in links.open \cap gone THEN 1 ELSE 0)]]]
     /\ inst' = [inst EXCEPT ![d].conn = FALSE, ![d].lock = FALSE]
  /\ Goes(u, "none")
  /\ UNCHANGED <<lset, shared, lfaults>>

LNext ==
  \E u \in Users :
    \/ New(u) \/ NewConnections(u)
    \/ WithTx(u) \/ WithTxRead(u) \/ GetMasterDB(u) \/ GetSlaveDB(u) \/ TxBegin(u) \/ TxEnd(u)
    \/ Health(u) \/ HealthUse(u)
    \/ CloseData(u) \/ CloseConnections(u)

LSpec == LInit /\ [][LNext]_lvars

-----------------------------------------------------------------------------
(* Properties                                                              *)

\* However Close, a failing driver and fn's error fall together, WithTx comes back
\* with the transaction settled, succeeds only if it was committed, and tells the
\* collector exactly once.  Only a panic of fn leaves a transaction open.
TxSettled ==
  \A u \in Users :
    user[u].pc = "ready" =>
      /\ user[u].tx = "open" => user[u].result = "panic"
      /\ user[u].result = "ok" => user[u].tx = "committed"
      /\ user[u].result \in {"ok", "error"} => user[u].reports = 1

\* A connection is open for one of three reasons: its instance is in use, the New
\* that opened it failed later on, or Close does not recognise its client.  None
\* is closed twice, though users of the shared instance all hold a cleanup.
LinksAccounted ==
  /\ \A l \in links.open :
       \/ inst[l[1]].made /\ (~inst[l[1]].closed \/ inst[l[1]].lock)
       \/ inst[l[1]].failed
       \/ l[2] \notin Recognised
  /\ \A u \in Users, s \in Services : links.closed[u][s] <= 1

\* Health dereferences a nil connection only if somebody closed the instance.
NilNeedsClose ==
  \A u \in Users : user[u].result = "nil" => Mine(u).closed
=============================================================================
