-------------------------- MODULE MetricsCollector --------------------------
(***************************************************************************)
(* extension/metrics: the Collector the manager reports to, its flush      *)
(* routine, Stop, the upgrade from memory to Redis storage, and what both  *)
(* storages answer to a query.  Snapshots of one extension and one type    *)
(* are modelled as [value, time], with PerSecond moments to a second: the  *)
(* memory storage compares moments, Redis the seconds they fall in.  Redis *)
(* itself is external: a sorted set by second, whose commands may fail.    *)
(***************************************************************************)
EXTENDS Integers, Sequences, FiniteSets, SequencesExt

CONSTANTS
  Recorders,   \* goroutines that record
  Batch,       \* batchSize
  Moments,     \* the clock's range, a set of naturals
  PerSecond,   \* moments in a second
  Vals,        \* values of snapshots
  MSetups      \* what is recorded; bounds: snapshots, ticks, faults

ASSUME MetricsAssumption ==
  /\ IsFiniteSet(Recorders)
  /\ Batch \in Nat \ {0} /\ PerSecond \in Nat \ {0} /\ Moments \subseteq Nat /\ Moments # {} /\ Vals \subseteq Nat
  /\ \A s \in MSetups : s.ops \subseteq {"call", "lifecycle", "system", "cleanup", "clock"}

VARIABLES
  mset,
  col,      \* stopped, mu, ticker, channel, which storage
  pending,  \* batchBuffer
  stores,   \* the two storages' snapshots; lost: snapshots of batches that failed
  unit,     \* real-time metrics: the extension's struct, by generation, 0 if none
  recorder, \* each recording goroutine
  flusher,  \* the flush routine
  stopper,  \* the goroutine in Stop
  cleaner,  \* the goroutine in CleanupOldMetrics
  used      \* how much of the bounds is used; the clock

mvars == <<mset, col, pending, stores, unit, recorder, flusher, stopper, cleaner, used>>

Free == "free"

\* Timestamp.Unix()
Unix(t) == t \div PerSecond

MTypeOK ==
  /\ mset \in MSetups
  /\ col \in [stopped : BOOLEAN, mu : {Free, "stop", "report"}, left : 0..3, ticker : BOOLEAN,
              chan : {"open", "closed", "nil"}, storage : {"memory", "redis"}]
  /\ flusher \in {"select", "wait", "deaf", "tick", "done", "panic"}
  /\ stopper \in {"no", "ticker", "chan", "wait", "done"}
  /\ unit \in [gen : Nat, live : BOOLEAN, calls : Nat, orphans : Nat]

NoCleanup == [storage |-> "none", before |-> 0]

NewCollector ==
  /\ col = [stopped |-> FALSE, mu |-> Free, left |-> 0, ticker |-> TRUE, chan |-> "open", storage |-> "memory"]
  /\ pending = <<>>
  /\ stores = [memory |-> <<>>, redis |-> <<>>, lost |-> <<>>, cleaned |-> 0]
  /\ unit = [gen |-> 0, live |-> FALSE, calls |-> 0, orphans |-> 0]
  /\ flusher = "select"

MInit ==
  /\ mset \in MSetups
  /\ NewCollector
  /\ recorder = [r \in Recorders |-> [pc |-> "idle", gen |-> 0]]
  /\ stopper = "no"
  /\ cleaner = NoCleanup
  /\ used = [snapshots |-> 0, ticks |-> 0, faults |-> 0, now |-> Min(Moments)]

Unlocked == col.mu = Free

-----------------------------------------------------------------------------
(* Recording                                                               *)

\* StoreBatch of either storage.  Redis keeps a sorted set per type, with the second as the
\* score and the snapshot's text, its time to the nanosecond included, as the member: none
\* is taken for another.  The set is written here as it was stored; RedisBefore orders it.
MemoryStoreBatch(s, batch) == s \o batch
RedisStoreBatch(s, batch) == s \o batch
StoreBatch(storage, batch) ==
  [stores EXCEPT ![storage] = IF storage = "memory" THEN MemoryStoreBatch(@, batch)
                              ELSE RedisStoreBatch(@, batch)]

\* Mutant of flushUnsafe: a failed batch stays in the buffer and is stored again.
flushUnsafeKeeps(buffer, failed) ==
  /\ stores' = StoreBatch(col.storage, buffer)
  /\ pending' = IF failed THEN buffer ELSE <<>>

\* StoreBatch of the buffer; an error is logged and the batch is gone.
flushUnsafe(buffer, failed) ==
  /\ pending' = <<>>
  /\ stores' = IF failed THEN [stores EXCEPT !.lost = @ \o buffer]
               ELSE StoreBatch(col.storage, buffer)

\* Only Redis fails.  u is what the bounds are after the rest of the step.
BatchOutcome(failed, u) ==
  /\ failed => col.storage = "redis" /\ used.faults < mset.faults
  /\ used' = IF failed THEN [u EXCEPT !.faults = @ + 1] ELSE u

storeSnapshotUnsafe(s, u) ==
  IF col.stopped THEN used' = u /\ UNCHANGED <<pending, stores>>
  ELSE LET buffer == Append(pending, s) IN
       IF Len(buffer) >= Batch
       THEN \E failed \in BOOLEAN : BatchOutcome(failed, u) /\ flushUnsafe(buffer, failed)
       ELSE pending' = buffer /\ used' = u /\ UNCHANGED stores

\* ServiceCall, EventPublished, EventReceived, CircuitBreakerTripped: IsEnabled,
\* then the struct of the extension, found or created, and one of its counters.
Counted(r) ==
  /\ "call" \in mset.ops /\ recorder[r].pc = "idle" /\ Unlocked /\ ~col.stopped
  /\ used.snapshots < mset.snapshots
  /\ used' = [used EXCEPT !.snapshots = @ + 1]
  /\ recorder' = [recorder EXCEPT ![r].pc = "lookup"]
  /\ UNCHANGED <<mset, cleaner, col, pending, stores, unit, flusher, stopper>>

ServiceCall(r) == Counted(r)
EventPublished(r) == Counted(r)
EventReceived(r) == Counted(r)
CircuitBreakerTripped(r) == Counted(r)

getOrCreateExtensionMetrics(r) ==
  /\ recorder[r].pc = "lookup" /\ Unlocked
  /\ LET found == IF unit.live THEN unit
                  ELSE [unit EXCEPT !.gen = @ + 1, !.live = TRUE, !.calls = 0] IN
     /\ unit' = found
     /\ recorder' = [recorder EXCEPT ![r] = [pc |-> "count", gen |-> found.gen]]
  /\ UNCHANGED <<mset, cleaner, col, pending, stores, flusher, stopper, used>>

\* The counter is that of the struct found, even if it was unloaded since.
CountCall(r) ==
  /\ recorder[r].pc = "count"
  /\ unit' = IF unit.live /\ recorder[r].gen = unit.gen THEN [unit EXCEPT !.calls = @ + 1]
             ELSE [unit EXCEPT !.orphans = @ + 1]
  /\ recorder' = [recorder EXCEPT ![r].pc = "store"]
  /\ UNCHANGED <<mset, cleaner, col, pending, stores, flusher, stopper, used>>

storeSnapshot(r) ==
  /\ recorder[r].pc = "store" /\ Unlocked
  /\ \E v \in Vals : storeSnapshotUnsafe([value |-> v, time |-> used.now], used)
  /\ recorder' = [recorder EXCEPT ![r] = [pc |-> "idle", gen |-> 0]]
  /\ UNCHANGED <<mset, cleaner, col, unit, flusher, stopper>>

\* ExtensionLoaded and ExtensionInitialized create the struct, ExtensionUnloaded
\* removes it if there is one; the snapshot is stored under the same lock.
ExtensionLoaded ==
  /\ "lifecycle" \in mset.ops
  /\ Unlocked /\ ~col.stopped /\ used.snapshots < mset.snapshots
  /\ unit' = IF unit.live THEN unit ELSE [unit EXCEPT !.gen = @ + 1, !.live = TRUE, !.calls = 0]
  /\ \E v \in Vals :
       storeSnapshotUnsafe([value |-> v, time |-> used.now], [used EXCEPT !.snapshots = @ + 1])
  /\ UNCHANGED <<mset, cleaner, col, recorder, flusher, stopper>>

ExtensionInitialized == ExtensionLoaded

ExtensionUnloaded ==
  /\ Unlocked /\ ~col.stopped /\ used.snapshots < mset.snapshots
  /\ unit' = [unit EXCEPT !.live = FALSE, !.orphans = @ + unit.calls, !.calls = 0]
  /\ storeSnapshotUnsafe([value |-> 1, time |-> used.now], [used EXCEPT !.snapshots = @ + 1])
  /\ UNCHANGED <<mset, cleaner, col, recorder, flusher, stopper>>

\* Three snapshots, one after the other, under the lock.
UpdateServiceDiscoveryMetrics ==
  /\ "system" \in mset.ops
  /\ Unlocked /\ ~col.stopped /\ used.snapshots + 3 <= mset.snapshots
  /\ col' = [col EXCEPT !.mu = "report", !.left = 3]
  /\ UNCHANGED <<mset, cleaner, pending, stores, unit, recorder, flusher, stopper, used>>

\* Only if the last flush is more than a minute ago; otherwise it stores nothing.
UpdateSystemMetrics == UpdateServiceDiscoveryMetrics

ReportSnapshot ==
  /\ col.mu = "report"
  /\ storeSnapshotUnsafe([value |-> 1, time |-> used.now], [used EXCEPT !.snapshots = @ + 1])
  /\ col' = [col EXCEPT !.left = @ - 1, !.mu = IF col.left = 1 THEN Free ELSE @]
  /\ UNCHANGED <<mset, cleaner, unit, recorder, flusher, stopper>>

\* The elements of s for which keep holds, in their order.
Keeping(s, keep(_)) ==
  LET at == {i \in DOMAIN s : keep(s[i])} IN
  [k \in 1..Cardinality(at) |-> s[CHOOSE i \in at : Cardinality({j \in at : j < i}) = k - 1]]

\* Old snapshots go, those of the time given too; from Redis the whole of its second.
MemoryCleanup(s, before) == Keeping(s, LAMBDA x : x.time > before)
RedisCleanup(s, before) == Keeping(s, LAMBDA x : ~(Unix(x.time) <= Unix(before)))

\* CleanupOldMetrics takes the storage without the lock; it may have been replaced by
\* the time it is cleaned.
CleanupOldMetrics(before) ==
  /\ "cleanup" \in mset.ops /\ cleaner = NoCleanup /\ stores.cleaned = 0
  /\ cleaner' = [storage |-> col.storage, before |-> before]
  /\ UNCHANGED <<mset, col, pending, stores, unit, recorder, flusher, stopper, used>>

Cleanup ==
  /\ cleaner # NoCleanup
  /\ LET old == stores[cleaner.storage]
         new == IF cleaner.storage = "memory" THEN MemoryCleanup(old, cleaner.before)
                ELSE RedisCleanup(old, cleaner.before)
     IN stores' = [stores EXCEPT ![cleaner.storage] = new,
          !.cleaned = IF cleaner.storage = col.storage THEN @ + (Len(old) - Len(new)) ELSE @]
  /\ cleaner' = NoCleanup
  /\ UNCHANGED <<mset, col, pending, unit, recorder, flusher, stopper, used>>

Tick ==
  /\ "clock" \in mset.ops /\ used.now + 1 \in Moments
  /\ used' = [used EXCEPT !.now = @ + 1]
  /\ UNCHANGED <<mset, cleaner, col, pending, stores, unit, recorder, flusher, stopper>>

-----------------------------------------------------------------------------
(* The flush routine reads flushTicker and stopChan without the lock.      *)

FlushSelect ==
  /\ flusher = "select"
  /\ flusher' = IF ~col.ticker THEN "panic" ELSE IF col.chan = "nil" THEN "deaf" ELSE "wait"
  /\ UNCHANGED <<mset, cleaner, col, pending, stores, unit, recorder, stopper, used>>

\* The ticker fires, unless it was stopped.
FlushTick ==
  /\ flusher \in {"wait", "deaf"} /\ col.ticker /\ used.ticks < mset.ticks
  /\ used' = [used EXCEPT !.ticks = @ + 1]
  /\ flusher' = "tick"
  /\ UNCHANGED <<mset, cleaner, col, pending, stores, unit, recorder, stopper>>

FlushLocked ==
  /\ flusher = "tick" /\ Unlocked
  /\ flusher' = "select"
  /\ IF col.stopped THEN UNCHANGED <<pending, stores, used>>
     ELSE \E failed \in BOOLEAN : BatchOutcome(failed, used) /\ flushUnsafe(pending, failed)
  /\ UNCHANGED <<mset, cleaner, col, unit, recorder, stopper>>

FlushEnd ==
  /\ flusher = "wait" /\ col.chan # "open"
  /\ flusher' = "done"
  /\ UNCHANGED <<mset, cleaner, col, pending, stores, unit, recorder, stopper, used>>

-----------------------------------------------------------------------------
(* Stop keeps c.mu to the end.                                             *)

Stop ==
  /\ stopper = "no" /\ Unlocked
  /\ stopper' = "ticker"
  /\ col' = [col EXCEPT !.stopped = TRUE, !.mu = "stop"]
  /\ UNCHANGED <<mset, cleaner, pending, stores, unit, recorder, flusher, used>>

StopTicker ==
  /\ stopper = "ticker"
  /\ stopper' = "chan"
  /\ col' = [col EXCEPT !.ticker = FALSE]
  /\ UNCHANGED <<mset, cleaner, pending, stores, unit, recorder, flusher, used>>

\* Mutant of StopChan: the channel is not closed.
StopChanForgets ==
  /\ stopper = "chan"
  /\ stopper' = "wait"
  /\ UNCHANGED <<mset, col, cleaner, pending, stores, unit, recorder, flusher, used>>

StopChan ==
  /\ stopper = "chan"
  /\ stopper' = "wait"
  /\ col' = [col EXCEPT !.chan = "nil"]
  /\ UNCHANGED <<mset, cleaner, pending, stores, unit, recorder, flusher, used>>

\* wg.Wait; the final flushUnsafe does nothing, as stopped is set.
StopWait ==
  /\ stopper = "wait" /\ flusher = "done"
  /\ stopper' = "done"
  /\ col' = [col EXCEPT !.mu = Free]
  /\ UNCHANGED <<mset, cleaner, pending, stores, unit, recorder, flusher, used>>

\* The memory storage's snapshots are stored in Redis, then it is used.  A failure
\* leaves everything as it was.
UpgradeToRedisStorage ==
  /\ Unlocked /\ ~col.stopped /\ col.storage = "memory"
  /\ stores' = StoreBatch("redis", stores.memory)
  /\ col' = [col EXCEPT !.storage = "redis"]
  /\ UNCHANGED <<mset, cleaner, pending, unit, recorder, flusher, stopper, used>>

FlushStep == FlushSelect \/ FlushLocked \/ FlushEnd
StopStep == StopTicker \/ StopChan \/ StopWait

MNext ==
  \/ \E r \in Recorders :
       ServiceCall(r) \/ EventPublished(r) \/ EventReceived(r) \/ CircuitBreakerTripped(r)
       \/ getOrCreateExtensionMetrics(r) \/ CountCall(r) \/ storeSnapshot(r)
  \/ ExtensionLoaded \/ ExtensionInitialized \/ ExtensionUnloaded
  \/ UpdateServiceDiscoveryMetrics \/ UpdateSystemMetrics \/ ReportSnapshot
  \/ Cleanup \/ \E t \in Moments : CleanupOldMetrics(t)
  \/ Tick \/ UpgradeToRedisStorage
  \/ FlushStep \/ FlushTick \/ Stop \/ StopStep

\* The goroutines run; nobody has to call Stop.
MSpec == MInit /\ [][MNext]_mvars /\ WF_mvars(FlushStep) /\ WF_mvars(StopStep)

-----------------------------------------------------------------------------
(* Queries                                                                 *)

Aggregations == {"", "sum", "avg", "max", "min", "count", "raw"}

Sum(s) == FoldLeft(LAMBDA a, x : a + x.value, 0, s)
Largest(s) == FoldLeft(LAMBDA a, x : IF x.value > a THEN x.value ELSE a, s[1].value, s)
Smallest(s) == FoldLeft(LAMBDA a, x : IF x.value < a THEN x.value ELSE a, s[1].value, s)

\* The values of the newest snapshots: the sort by time leaves open which of them is last.
Newest(s) == {s[i].value : i \in {i \in DOMAIN s : \A j \in DOMAIN s : s[j].time <= s[i].time}}

\* calculateAggregation of the memory storage: the values it may return.
MemoryAggregate(s, agg) ==
  CASE agg \in {"sum", ""} -> {Sum(s)}
    [] agg = "avg" -> {Sum(s) \div Len(s)}
    [] agg = "max" -> {Largest(s)}
    [] agg = "min" -> {Smallest(s)}
    [] agg = "count" -> {Len(s)}
    [] OTHER -> Newest(s)

\* Redis gives the newest value for "", where memory gives the sum.
RedisAggregate(s, agg) == IF agg = "" THEN Newest(s) ELSE MemoryAggregate(s, agg)

\* The buckets of w seconds with a snapshot in them, in order of time.
Buckets(s, w) == SetToSortSeq({Unix(s[i].time) \div w : i \in DOMAIN s}, LAMBDA a, b : a < b)
InBucket(s, w, b) == Keeping(s, LAMBDA x : Unix(x.time) \div w = b)

\* The values of each bucket, under the second it begins with; each storage has its own aggregation.
aggregateByInterval(s, w, agg, storage) ==
  LET value(b) == IF storage = "redis" THEN RedisAggregate(b, agg) ELSE MemoryAggregate(b, agg) IN
  [k \in DOMAIN Buckets(s, w) |->
     [second |-> Buckets(s, w)[k] * w, values |-> value(InBucket(s, w, Buckets(s, w)[k]))]]

\* MemoryStorage.Query: the moments strictly inside the range, the first limit buckets.
MemoryQuery(s, q) ==
  LET in == Keeping(s, LAMBDA x : q.start < x.time /\ x.time < q.end)
      out == aggregateByInterval(in, q.interval, q.agg, "memory")
  IN  IF q.limit > 0 /\ Len(out) > q.limit THEN SubSeq(out, 1, q.limit) ELSE out

\* RedisStorage.Query: from the second of one bound to that of the other, both included;
\* limit is not applied.  No aggregation depends on the order of the snapshots.
RedisQuery(s, q) ==
  LET in == Keeping(s, LAMBDA x : Unix(q.start) <= Unix(x.time) /\ Unix(x.time) <= Unix(q.end))
  IN  aggregateByInterval(in, q.interval, q.agg, "redis")

\* GetLatest: the last n snapshots, newest first.  The memory storage sorts them all by
\* time.  Redis takes the last n of the sorted set, where the members of one second lie in
\* the order of their texts, which name the value before the time, and sorts those.
Sorted(s, before(_, _)) ==
  LET first(j, i) == before(s[j], s[i]) \/ (j < i /\ ~before(s[i], s[j])) IN
  [k \in DOMAIN s |-> s[CHOOSE i \in DOMAIN s : Cardinality({j \in DOMAIN s : first(j, i)}) = k - 1]]
ByTime(s) == Sorted(s, LAMBDA a, b : a.time > b.time)
MemoryLatest(s, n) == SubSeq(ByTime(s), 1, IF Len(s) > n THEN n ELSE Len(s))
RedisBefore(a, b) ==
  Unix(a.time) < Unix(b.time) \/ (Unix(a.time) = Unix(b.time) /\ a.value < b.value)
RedisLatest(s, n) ==
  LET sorted == Reverse(Sorted(s, RedisBefore)) IN
  ByTime(SubSeq(sorted, 1, IF Len(s) > n THEN n ELSE Len(s)))
SecondsOf(s) == [i \in DOMAIN s |-> Unix(s[i].time)]

-----------------------------------------------------------------------------
(* Properties                                                              *)

\* A snapshot that was taken in before Stop is in the buffer, in the storage in use,
\* in a batch reported lost or cleaned up, once: flushes by recorders and by the
\* routine, the upgrade, a cleanup and failing batches neither drop nor repeat one.
SnapshotsConserved ==
  /\ Len(pending) < Batch
  /\ LET kept == Len(pending) + Len(stores[col.storage]) + Len(stores.lost) + stores.cleaned IN
     /\ kept <= used.snapshots
     /\ (~col.stopped /\ \A r \in Recorders : recorder[r].pc = "idle") => kept = used.snapshots

\* Upgrading is invisible to queries by interval, provided the aggregation is named, no
\* snapshot lies in the second of a bound of the range, and limit leaves nothing out: Redis
\* keeps seconds where memory keeps moments.  GetLatest answers with snapshots of the same
\* seconds; which of a second's snapshots it takes is another matter, as Redis orders them
\* by their texts.
UpgradeTransparent ==
  col.storage = "redis" =>
    \A w \in 1..2 :
      /\ \A agg \in Aggregations \ {""}, from, to \in {0} \cup { t + 1 : t \in Moments } :
           LET q == [start |-> from, end |-> to, agg |-> agg, interval |-> w, limit |-> 0] IN
           (/\ from < to
            /\ \A i \in DOMAIN stores.memory : Unix(stores.memory[i].time) \notin {Unix(from), Unix(to)}) =>
             RedisQuery(stores.memory, q) = MemoryQuery(stores.memory, q)
      /\ SecondsOf(RedisLatest(stores.memory, w)) = SecondsOf(MemoryLatest(stores.memory, w))

\* "Stop gracefully stops the collector" (collector.go:138).  Stop waits for the flush
\* routine with the lock in hand and both its channels unset: it returns if the routine
\* was parked in its select when the ticker was stopped.  One that was between two
\* selects panics, goes deaf or waits for the lock, and then Stop never returns.
StopMeetsWaiting == (stopper = "chan" /\ flusher = "wait") ~> (stopper = "done")
=============================================================================
