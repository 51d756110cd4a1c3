------------------------------ MODULE AppEvents ------------------------------
(***************************************************************************)
(* The event-driven applications: example 06 (users, bus, SQLite store,    *)
(* subscribers) and the domain event bus of example 08 (memory and Mongo   *)
(* stores).  A service writes its row and then publishes: the event is     *)
(* saved, offered to the buffered channel, taken by a worker and handed to *)
(* a goroutine per handler.  In 06 a full buffer refuses at once and the   *)
(* worker does not wait for the handlers; in 08 the publisher waits, and   *)
(* so does the worker.  Events are numbered in the order of their          *)
(* timestamps: AppTimes gives them in tenths of a millisecond, all within  *)
(* the first ten milliseconds of one second.                               *)
(***************************************************************************)
EXTENDS Naturals, Sequences, FiniteSets, SequencesExt

CONSTANTS
  AppTimes,      \* timestamps of the events, increasing
  AppUsers,      \* aggregates
  AppHandlers,   \* subscribers of every event type; one is "analytics"
  AppWorkers,    \* worker goroutines of the bus
  AppSetups      \* version: "06" or "08"; store; capacity of the buffer; faults

AppSetupType ==
  [version : {"06", "08"}, store : {"none", "sqlite", "memory", "mongo"}, cap : Nat, faults : Nat]

ASSUME AppEventsAssumption ==
  /\ AppSetups \subseteq AppSetupType
  /\ AppTimes \in Seq(0..99)
  /\ \A i, j \in DOMAIN AppTimes : i < j => AppTimes[i] < AppTimes[j]

VARIABLES
  aset,      \* the setup
  ausers,    \* rows of the users table
  abus,      \* buffer, whether the workers' context lives, Shutdown's result, faults
  astore,    \* events in the store
  aev,       \* each event: its publisher's state and its aggregate
  awork,     \* the event each worker is dispatching
  atasks,    \* handler goroutines: <<event, handler>>
  analytics  \* AnalyticsService.events, and what a running append has read

avars == <<aset, ausers, abus, astore, aev, awork, atasks, analytics>>

AppEventIds == DOMAIN AppTimes
NoEvent == 0
Published == {e \in AppEventIds : aev[e].pc # "none"}

AppInit ==
  /\ aset \in AppSetups
  /\ ausers = {}
  /\ abus = [buffer |-> <<>>, running |-> TRUE, shutdown |-> "none", faults |-> 0]
  /\ astore = {}
  /\ aev = [e \in AppEventIds |-> [pc |-> "none", of |-> NoEvent, ran |-> {}]]
  /\ awork = [w \in AppWorkers |-> NoEvent]
  /\ atasks = {}
  /\ analytics = [events |-> {}, seen |-> [e \in AppEventIds |-> {}]]

-----------------------------------------------------------------------------
(* Services: the row, then Publish; a failed Publish is only logged        *)

NextEvent == Cardinality(Published) + 1

BeginPublish(u) ==
  /\ NextEvent \in AppEventIds
  /\ aev' = [aev EXCEPT ![NextEvent] = [pc |-> "save", of |-> u, ran |-> {}]]

RegisterUser(u) ==
  /\ u \notin ausers
  /\ ausers' = ausers \cup {u}
  /\ BeginPublish(u)
  /\ UNCHANGED <<aset, abus, astore, awork, atasks, analytics>>

\* FindByID, Update, Publish; name and email are written as a whole.
UpdateUser(u) ==
  /\ u \in ausers
  /\ BeginPublish(u)
  /\ UNCHANGED <<aset, ausers, abus, astore, awork, atasks, analytics>>

\* The PublishEvent endpoint: any aggregate, no row.
PublishCustom(u) ==
  /\ u \notin ausers
  /\ BeginPublish(u)
  /\ UNCHANGED <<aset, ausers, abus, astore, awork, atasks, analytics>>

-----------------------------------------------------------------------------
(* Bus.Publish                                                             *)

\* SQLite inserts, memory and Mongo upsert by ID; publishing goes on without a
\* store and after a failed Save.
SaveEvent(e) ==
  /\ aev[e].pc = "save"
  /\ aev' = [aev EXCEPT ![e].pc = "offer"]
  /\ \/ /\ aset.store # "none"
        /\ astore' = astore \cup {e} /\ UNCHANGED abus
     \/ /\ aset.store = "none"
        /\ UNCHANGED <<astore, abus>>
     \/ /\ aset.store \in {"sqlite", "mongo"} /\ abus.faults < aset.faults
        /\ abus' = [abus EXCEPT !.faults = @ + 1] /\ UNCHANGED astore
  /\ UNCHANGED <<aset, ausers, awork, atasks, analytics>>

\* Mutant of OfferEvent: a full buffer counts as published.
OfferEventLossy(e) ==
  /\ aev[e].pc = "offer"
  /\ abus' = [abus EXCEPT !.buffer = IF Len(@) < aset.cap THEN Append(@, e) ELSE @]
  /\ aev' = [aev EXCEPT ![e].pc = "accepted"]
  /\ UNCHANGED <<aset, ausers, astore, awork, atasks, analytics>>

OfferEvent(e) ==
  /\ aev[e].pc = "offer"
  /\ Len(abus.buffer) < aset.cap
  /\ abus' = [abus EXCEPT !.buffer = Append(@, e)]
  /\ aev' = [aev EXCEPT ![e].pc = "accepted"]
  /\ UNCHANGED <<aset, ausers, astore, awork, atasks, analytics>>

\* 06: the default case of a full buffer.  08: five seconds pass.  Either may also find the
\* request's context done, with room in the buffer.  The event stays in the store.
RefuseEvent(e) ==
  /\ aev[e].pc = "offer"
  /\ aev' = [aev EXCEPT ![e].pc = "refused"]
  /\ UNCHANGED <<aset, ausers, abus, astore, awork, atasks, analytics>>

-----------------------------------------------------------------------------
(* Workers and handlers                                                    *)

\* worker and dispatch: a goroutine per handler.
TakeEvent(w) ==
  /\ awork[w] = NoEvent /\ abus.running /\ abus.buffer # <<>>
  /\ LET e == Head(abus.buffer) IN
     /\ awork' = [awork EXCEPT ![w] = IF aset.version = "08" THEN e ELSE NoEvent]
     /\ atasks' = atasks \cup {<<e, h>> : h \in AppHandlers}
  /\ abus' = [abus EXCEPT !.buffer = Tail(@)]
  /\ UNCHANGED <<aset, ausers, astore, aev, analytics>>

\* A handler returns, with or without an error, which is logged.
HandlerReturns(e, h) ==
  /\ <<e, h>> \in atasks /\ h # "analytics"
  /\ atasks' = atasks \ {<<e, h>>}
  /\ aev' = [aev EXCEPT ![e].ran = @ \cup {h}]
  /\ UNCHANGED <<aset, ausers, abus, astore, awork, analytics>>

\* AnalyticsService.HandleEvent appends to a slice without a lock.
AnalyticsRead(e) ==
  /\ <<e, "analytics">> \in atasks /\ analytics.seen[e] = {}
  /\ analytics' = [analytics EXCEPT !.seen[e] = analytics.events \cup {e}]
  /\ UNCHANGED <<aset, ausers, abus, astore, aev, awork, atasks>>

AnalyticsWrite(e) ==
  /\ <<e, "analytics">> \in atasks /\ analytics.seen[e] # {}
  /\ analytics' = [events |-> analytics.seen[e], seen |-> [analytics.seen EXCEPT ![e] = {}]]
  /\ atasks' = atasks \ {<<e, "analytics">>}
  /\ aev' = [aev EXCEPT ![e].ran = @ \cup {"analytics"}]
  /\ UNCHANGED <<aset, ausers, abus, astore, awork>>

\* dispatch of 08 returns when its handlers have, or after a minute.
DispatchReturns(w) ==
  /\ awork[w] # NoEvent
  /\ awork' = [awork EXCEPT ![w] = NoEvent]
  /\ \/ /\ \A h \in AppHandlers : <<awork[w], h>> \notin atasks
        /\ UNCHANGED abus
     \/ /\ abus.faults < aset.faults
        /\ abus' = [abus EXCEPT !.faults = @ + 1]
  /\ UNCHANGED <<aset, ausers, astore, aev, atasks, analytics>>

\* Shutdown of 08 waits until the buffer is empty, not for the handlers.
Shutdown ==
  /\ aset.version = "08" /\ abus.shutdown = "none" /\ abus.buffer = <<>>
  /\ abus' = [abus EXCEPT !.shutdown = "complete"]
  /\ UNCHANGED <<aset, ausers, astore, aev, awork, atasks, analytics>>

\* The application cancels the workers' context and exits: 06 at once, 08 after Shutdown.
StopWorkers ==
  /\ abus.running /\ abus.faults < aset.faults
  /\ aset.version = "06" \/ abus.shutdown = "complete"
  /\ abus' = [abus EXCEPT !.running = FALSE, !.faults = @ + 1]
  /\ UNCHANGED <<aset, ausers, astore, aev, awork, atasks, analytics>>

AppNext ==
  \/ \E u \in AppUsers : RegisterUser(u) \/ UpdateUser(u) \/ PublishCustom(u)
  \/ \E e \in AppEventIds :
       \/ SaveEvent(e) \/ OfferEvent(e) \/ RefuseEvent(e)
       \/ AnalyticsRead(e) \/ AnalyticsWrite(e)
       \/ \E h \in AppHandlers : HandlerReturns(e, h)
  \/ \E w \in AppWorkers : TakeEvent(w) \/ DispatchReturns(w)
  \/ Shutdown \/ StopWorkers

AppSpec == AppInit /\ [][AppNext]_avars

-----------------------------------------------------------------------------
(* What the stores return                                                  *)

\* RFC3339Nano leaves out trailing zeros, and an empty fraction: the characters
\* after the seconds but for the two zeros all have, by their order as text (dot < digits < Z).
RFC3339Nano(t) ==
  CASE t = 0 -> <<11>>
    [] t # 0 /\ t % 10 = 0 -> <<0, 1 + t \div 10, 11>>
    [] OTHER -> <<0, 1 + t \div 10, 1 + (t % 10), 11>>

TextBefore(s, t) ==
  \E i \in 1..Len(s) : /\ i <= Len(t) /\ s[i] < t[i]
                       /\ \A j \in 1..i - 1 : s[j] = t[j]

OfAggregate(u) == {e \in astore : aev[e].of = u}

\* Sorting: the row with i - 1 rows before it comes i-th.
OrderedBy(rows, before(_, _)) ==
  [i \in 1..Cardinality(rows) |->
     CHOOSE e \in rows : Cardinality({d \in rows : before(d, e)}) = i - 1]

\* SELECT ... ORDER BY timestamp ASC over the text column.
SQLiteLoadByAggregate(u) ==
  OrderedBy(OfAggregate(u),
            LAMBDA d, e : TextBefore(RFC3339Nano(AppTimes[d]), RFC3339Nano(AppTimes[e])))

\* The memory store goes over its map: all of them, in any order.
MemoryLoadByAggregate(u) == OfAggregate(u)

\* Event has no bson tags: AggregateID is stored as aggregateid, and the filter asks for
\* a key that no document has.
EventKeys == {"id", "type", "aggregateid", "aggregatename", "workspaceid", "userid",
              "payload", "metadata", "timestamp", "version"}
MongoLoadByAggregate(u) == {e \in OfAggregate(u) : "aggregate_id" \in EventKeys}

\* A BSON date, and the date of a query, keep milliseconds.
Milliseconds(t) == t \div 10

\* LoadSince: from the given event's time on; the memory store leaves that one out.
MemoryLoadSince(e) == {d \in astore : AppTimes[d] > AppTimes[e]}
MongoLoadSince(e) == {d \in astore : Milliseconds(AppTimes[d]) >= Milliseconds(AppTimes[e])}
SQLiteLoadSince(e) ==
  {d \in astore : ~TextBefore(RFC3339Nano(AppTimes[d]), RFC3339Nano(AppTimes[e]))}

-----------------------------------------------------------------------------
(* Properties                                                              *)

\* An event whose publication the caller was told of is never dropped, however
\* publishers, workers and slow handlers interleave: it waits in the buffer, or each
\* handler has run it or is running it; and a handler runs it once.
AcceptedAccounted ==
  \A e \in AppEventIds, h \in AppHandlers :
    LET queued == Cardinality({i \in DOMAIN abus.buffer : abus.buffer[i] = e})
        running == IF <<e, h>> \in atasks THEN 1 ELSE 0
        ran == IF h \in aev[e].ran THEN 1 ELSE 0
    IN  queued + running + ran = IF aev[e].pc = "accepted" THEN 1 ELSE 0

\* A replay gives every stored event of an aggregate, in the order in which they happened
\* and from the asked one on, as long as the SQLite store, which compares times as text,
\* has to compare fractions with the same number of digits.  The memory store gives the
\* same events in any order; the Mongo store gives no other events, and misses none by
\* time, but adds earlier ones of the asked one's millisecond.
ReplayInOrder ==
  LET alike(d, e) == Len(RFC3339Nano(AppTimes[d])) = Len(RFC3339Nano(AppTimes[e])) IN
  /\ \A u \in AppUsers :
       LET log == SQLiteLoadByAggregate(u) IN
       /\ Range(log) = MemoryLoadByAggregate(u)
       /\ MongoLoadByAggregate(u) \subseteq Range(log)
       /\ \A i, j \in DOMAIN log : i < j /\ alike(log[i], log[j]) => log[i] < log[j]
  /\ \A e \in astore :
       /\ MemoryLoadSince(e) \cup {e} \subseteq MongoLoadSince(e)
       /\ \A d \in MongoLoadSince(e) :
            d >= e \/ Milliseconds(AppTimes[d]) = Milliseconds(AppTimes[e])
       /\ \A d \in astore : alike(d, e) => (d \in SQLiteLoadSince(e) <=> d >= e)
=============================================================================
