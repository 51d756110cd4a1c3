---------------------------- MODULE DataCollector ---------------------------
(***************************************************************************)
(* data/metrics: the DataCollector that the data layer's operations report *)
(* to.  Each report adds to atomic counters, then appends a metric to the  *)
(* buffer; whoever fills the buffer to batchSize takes it and stores it,   *)
(* outside the lock.  Close flushes and closes the storage, and nothing    *)
(* keeps reporters from going on.  The kinds of report (DBQuery,           *)
(* DBTransaction, RedisCommand, MongoOperation, SearchQuery, MQPublish,    *)
(* MQConsume, HealthCheck) differ in the counters they name.               *)
(***************************************************************************)
EXTENDS Naturals, Sequences, FiniteSets, SequencesExt

CONSTANTS
  Reporters,  \* goroutines that report
  BatchSize,  \* batchSize, 100 if configured as 0 or less
  MaxReports  \* bound on the reports of each

ASSUME CollectorAssumption ==
  IsFiniteSet(Reporters) /\ BatchSize \in Nat \ {0} /\ MaxReports \in Nat

VARIABLES
  counts,    \* queries and errors, as the atomic counters hold them
  buffer,    \* metrics not yet flushed, as <<reporter, number>>
  storage,   \* stored metrics; dropped by Close
  rep,       \* each reporter: number of the report, progress, batch taken
  closer     \* the goroutine in Close

colvars == <<counts, buffer, storage, rep, closer>>

Batches == Seq(Reporters \X (1..MaxReports))
ColTypeOK ==
  /\ counts \in [queries : Nat, errors : Nat]
  /\ rep \in [Reporters -> [n : 0..MaxReports, hand : Batches,
                            pc : {"idle", "error", "record", "flush", "store"}]]
  /\ closer \in [pc : {"no", "store", "drop", "closed"}, hand : Batches]

ColInit ==
  /\ counts = [queries |-> 0, errors |-> 0]
  /\ buffer = <<>> /\ storage = [kept |-> {}, dropped |-> {}]
  /\ rep = [r \in Reporters |-> [n |-> 0, pc |-> "idle", hand |-> <<>>]]
  /\ closer = [pc |-> "no", hand |-> <<>>]

\* DBQuery and its like: first the total, then the errors.
Report(r) ==
  /\ rep[r].pc = "idle" /\ rep[r].n < MaxReports
  /\ counts' = [counts EXCEPT !.queries = @ + 1]
  /\ \E err \in BOOLEAN :
       rep' = [rep EXCEPT ![r].n = @ + 1, ![r].pc = IF err THEN "error" ELSE "record"]
  /\ UNCHANGED <<buffer, storage, closer>>

CountError(r) ==
  /\ rep[r].pc = "error"
  /\ counts' = [counts EXCEPT !.errors = @ + 1]
  /\ rep' = [rep EXCEPT ![r].pc = "record"]
  /\ UNCHANGED <<buffer, storage, closer>>

recordMetric(r) ==
  /\ rep[r].pc = "record"
  /\ buffer' = Append(buffer, <<r, rep[r].n>>)
  /\ rep' = [rep EXCEPT ![r].pc = IF Len(buffer') >= BatchSize THEN "flush" ELSE "idle"]
  /\ UNCHANGED <<counts, storage, closer>>

\* Mutant of flush: the batch shares the buffer's array, which the next append
\* overwrites, so the first metric is lost.
flushShared(r) ==
  /\ rep[r].pc = "flush"
  /\ rep' = [rep EXCEPT ![r].pc = IF buffer = <<>> THEN "idle" ELSE "store",
                        ![r].hand = IF buffer = <<>> THEN <<>> ELSE Tail(buffer)]
  /\ buffer' = <<>>
  /\ UNCHANGED <<counts, storage, closer>>

\* Another reporter may have emptied the buffer first.
flush(r) ==
  /\ rep[r].pc = "flush"
  /\ rep' = [rep EXCEPT ![r].pc = IF buffer = <<>> THEN "idle" ELSE "store", ![r].hand = buffer]
  /\ buffer' = <<>>
  /\ UNCHANGED <<counts, storage, closer>>

Store(r) ==
  /\ rep[r].pc = "store"
  /\ storage' = [storage EXCEPT !.kept = @ \cup Range(rep[r].hand)]
  /\ rep' = [rep EXCEPT ![r].pc = "idle", ![r].hand = <<>>]
  /\ UNCHANGED <<counts, buffer, closer>>

CloseFlush ==
  /\ closer.pc = "no"
  /\ closer' = [pc |-> IF buffer = <<>> THEN "drop" ELSE "store", hand |-> buffer]
  /\ buffer' = <<>>
  /\ UNCHANGED <<counts, storage, rep>>

CloseStore ==
  /\ closer.pc = "store"
  /\ storage' = [storage EXCEPT !.kept = @ \cup Range(closer.hand)]
  /\ closer' = [pc |-> "drop", hand |-> <<>>]
  /\ UNCHANGED <<counts, buffer, rep>>

\* MemoryStorage.Close forgets everything, but a later Store works again.
StorageClose ==
  /\ closer.pc = "drop"
  /\ storage' = [kept |-> {}, dropped |-> storage.dropped \cup storage.kept]
  /\ closer' = [closer EXCEPT !.pc = "closed"]
  /\ UNCHANGED <<counts, buffer, rep>>

ColNext ==
  \/ \E r \in Reporters : Report(r) \/ CountError(r) \/ recordMetric(r) \/ flush(r) \/ Store(r)
  \/ CloseFlush \/ CloseStore \/ StorageClose

ColSpec == ColInit /\ [][ColNext]_colvars

-----------------------------------------------------------------------------
(* Properties                                                              *)

\* The reports of r that are past recordMetric.
Past(r) == rep[r].n - (IF rep[r].pc \in {"error", "record"} THEN 1 ELSE 0)
Recorded == UNION {{<<r, i>> : i \in 1..Past(r)} : r \in Reporters}

Places == <<Range(buffer), storage.kept, storage.dropped, Range(closer.hand)>>
InHand(r) == Range(rep[r].hand)

\* However reporters, flushes and Close interleave, a recorded metric is in exactly
\* one place: the buffer, a batch on its way, the storage, or dropped with it.
\* The buffer outgrows its batch by no more than those about to flush it.
MetricsConserved ==
  /\ (UNION {Places[i] : i \in 1..4}) \cup (UNION {InHand(r) : r \in Reporters}) = Recorded
  /\ \A i, j \in 1..4 : i # j => Places[i] \cap Places[j] = {}
  /\ \A r \in Reporters : /\ \A i \in 1..4 : InHand(r) \cap Places[i] = {}
                          /\ \A q \in Reporters : r # q => InHand(r) \cap InHand(q) = {}
  /\ Len(buffer) < BatchSize + Cardinality({r \in Reporters : rep[r].pc = "flush"})
=============================================================================
