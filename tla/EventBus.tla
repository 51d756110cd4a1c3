------------------------------ MODULE EventBus ------------------------------
(***************************************************************************)
(* Events from PublishEvent to the handlers: the in-memory dispatcher of   *)
(* extension/event, the manager's choice of target (manager/events.go),    *)
(* the data layer's broker access (data/messaging.go) and the RabbitMQ and *)
(* Kafka clients.  One event name is modelled, names do not interact.      *)
(* Every queue consumer of that name shares one RabbitMQ queue, and one    *)
(* Kafka reader: getReader caches it by topic and group.                   *)
(* The brokers themselves are external: RabbitMQ keeps what it stored      *)
(* until it is acknowledged, a Kafka reader moves on with every fetch and  *)
(* resumes at the committed offset only in a new process.                  *)
(***************************************************************************)
EXTENDS Naturals, Sequences, FiniteSets, SequencesExt

CONSTANTS
  Events,        \* the published events
  Handlers,      \* the handlers given to SubscribeEvent
  NoEvent,       \* nothing in hand
  Setups,        \* configurations to check, see SetupType
  RetryAttempts  \* config.Messaging.RetryAttempts, of a Kafka write

SetupType ==
  [ target : (SUBSET {"memory", "queue"}) \cup {{"default"}},
    source : (SUBSET {"memory", "queue"}) \cup {{"default"}},
    fallback : BOOLEAN, rabbit : BOOLEAN, kafka : BOOLEAN,
    retries : Nat,                \* 0 for PublishEvent, else maxRetries of ...WithRetry
    faults : Nat, crashes : Nat ] \* bounds: what may go wrong, and how often

ASSUME BusAssumption ==
  /\ IsFiniteSet(Events) /\ IsFiniteSet(Handlers) /\ NoEvent \notin Events
  /\ Setups \subseteq SetupType
  /\ RetryAttempts \in Nat

VARIABLES
  setup,    \* the configuration
  closed,   \* Data.closed
  joining,  \* progress of each SubscribeEvent
  mem,      \* the Dispatcher: subscriptions and running handlers, metrics
  outcome,  \* history: how often each handler handled, or failed on, each event
  pub,      \* each PublishEvent: progress, target, tries; history of what it was told
  rmq,      \* RabbitMQ: connection, queue, consumers, the delivery each has in hand
  kfk,      \* Kafka: log, reader position, committed offset, consumers, offset in hand, start
  faults, crashes

busVars == <<setup, closed, joining, mem, outcome, pub, rmq, kfk, faults, crashes>>

None == [h \in Handlers |-> 0]
Counts == [Events -> [Handlers -> Nat]]

BusTypeOK ==
  /\ setup \in Setups /\ closed \in BOOLEAN /\ faults \in Nat /\ crashes \in Nat
  /\ joining \in [Handlers -> {"new", "check", "consume", "ready"}]
  /\ mem \in [subs : [Handlers -> 0..2], inflight : Counts, published : Nat,
               delivered : Nat, failed : Nat, unheard : Nat]
  /\ outcome \in [heard : Counts, broken : Counts]
  /\ pub \in [Events -> [pc : {"idle", "memory", "check", "rabbit", "kafka", "done", "failed"},
                         target : SUBSET {"memory", "queue"}, tries : Nat,
                         writes : 0..RetryAttempts, accepted : BOOLEAN, doubt : BOOLEAN]]
  /\ rmq \in [up : BOOLEAN, queue : Seq(Events), subs : SUBSET Handlers,
               hand : [Handlers -> Events \cup {NoEvent}], done : [Handlers -> BOOLEAN],
               stored : [Events -> Nat]]
  /\ kfk \in [log : Seq(Events), pos : 0..Len(kfk.log), commit : 0..Len(kfk.log),
               subs : SUBSET Handlers, hand : [Handlers -> 0..Len(kfk.log)],
               done : [Handlers -> BOOLEAN], from : 0..Len(kfk.log)]

NewDispatcher ==
  [subs |-> None, inflight |-> [e \in Events |-> None],
   published |-> 0, delivered |-> 0, failed |-> 0, unheard |-> 0]

BusInit ==
  /\ setup \in Setups
  /\ closed = FALSE /\ faults = 0 /\ crashes = 0
  /\ joining = [h \in Handlers |-> "new"]
  /\ mem = NewDispatcher
  /\ outcome = [heard |-> [e \in Events |-> None], broken |-> [e \in Events |-> None]]
  /\ pub = [e \in Events |-> [pc |-> "idle", target |-> {}, tries |-> 0, writes |-> 0,
                              accepted |-> FALSE, doubt |-> FALSE]]
  /\ rmq = [up |-> setup.rabbit, queue |-> <<>>, subs |-> {}, stored |-> [e \in Events |-> 0],
            hand |-> [h \in Handlers |-> NoEvent], done |-> [h \in Handlers |-> FALSE]]
  /\ kfk = [log |-> <<>>, pos |-> 0, commit |-> 0, subs |-> {}, from |-> 0,
            hand |-> None, done |-> [h \in Handlers |-> FALSE]]

-----------------------------------------------------------------------------
(* Which targets there are                                                 *)

\* Messaging is enabled in every setup: a disabled one has no behaviour.
IsMessagingEnabled == ~closed

\* Kafka's IsConnected only asks whether the client was ever made.
IsQueueAvailable == IsMessagingEnabled /\ (rmq.up \/ setup.kafka)

ShouldUseMemoryFallback == IsMessagingEnabled /\ setup.fallback

determineEventTarget(asked) ==
  IF asked # {"default"} THEN asked
  ELSE IF IsQueueAvailable THEN {"memory", "queue"}
  ELSE IF ShouldUseMemoryFallback THEN {"memory"}
  ELSE {}

RabbitUsable == rmq.up /\ ~closed
KafkaUsable == setup.kafka /\ ~closed

\* Something outside the program goes wrong.
Fault == faults < setup.faults /\ faults' = faults + 1

\* Handler h is run for event e; it returns, or fails.
Succeeds(e, h) == outcome' = [outcome EXCEPT !.heard[e][h] = @ + 1] /\ UNCHANGED faults
Fails(e, h) == outcome' = [outcome EXCEPT !.broken[e][h] = @ + 1] /\ Fault

-----------------------------------------------------------------------------
(* SubscribeEvent: the memory part, the second look at the queue, and the  *)
(* registration of a consumer, between which the connection may be lost.   *)

Subscribe(h) == mem' = [mem EXCEPT !.subs[h] = @ + 1]

SubscribeEvent(h) ==
  /\ joining[h] = "new"
  /\ IsMessagingEnabled
  /\ LET src == determineEventTarget(setup.source) IN
       /\ IF "memory" \in src THEN Subscribe(h) ELSE UNCHANGED mem
       /\ joining' = [joining EXCEPT ![h] = IF "queue" \in src THEN "check" ELSE "ready"]
  /\ UNCHANGED <<setup, closed, outcome, pub, rmq, kfk, faults, crashes>>

SubscribeCheck(h) ==
  /\ joining[h] = "check"
  /\ joining' = [joining EXCEPT ![h] = IF IsQueueAvailable THEN "consume" ELSE "ready"]
  /\ UNCHANGED <<setup, closed, mem, outcome, pub, rmq, kfk, faults, crashes>>

\* The reader all consumers share; a new one starts at the committed offset, or
\* at the end of the log if there is none.
getReader ==
  IF kfk.subs # {} THEN kfk.pos ELSE IF kfk.commit = 0 THEN Len(kfk.log) ELSE kfk.commit

ConsumeFromRabbitMQ(h) ==
  /\ RabbitUsable
  /\ rmq' = [rmq EXCEPT !.subs = @ \cup {h}]

\* The client is not usable, or a channel or a declaration fails.
RabbitRefuses == IF RabbitUsable THEN Fault ELSE UNCHANGED faults

ConsumeFromKafka(h) ==
  /\ KafkaUsable
  /\ kfk' = [kfk EXCEPT !.subs = @ \cup {h}, !.pos = getReader,
                     !.from = IF kfk.subs = {} /\ kfk.commit = 0 THEN getReader ELSE @]

SubscribeToMessages(h) ==
  \/ ConsumeFromRabbitMQ(h) /\ UNCHANGED <<kfk, faults>>
  \/ RabbitRefuses /\ ConsumeFromKafka(h) /\ UNCHANGED rmq

\* Where both brokers refuse, memory takes over if the configuration says so.
subscribeToQueue(h) ==
  /\ joining[h] = "consume"
  /\ joining' = [joining EXCEPT ![h] = "ready"]
  /\ \/ SubscribeToMessages(h) /\ UNCHANGED mem
     \/ /\ RabbitRefuses /\ ~KafkaUsable
        /\ IF ShouldUseMemoryFallback THEN Subscribe(h) ELSE UNCHANGED mem
        /\ UNCHANGED <<rmq, kfk>>
  /\ UNCHANGED <<setup, closed, outcome, pub, crashes>>

-----------------------------------------------------------------------------
(* PublishEvent and PublishEventWithRetry                                  *)

PublishEvent(e) ==
  /\ pub[e].pc = "idle"
  /\ LET to == IF IsMessagingEnabled THEN determineEventTarget(setup.target) ELSE {} IN
       pub' = [pub EXCEPT ![e].target = to,
                          ![e].pc = IF "memory" \in to THEN "memory"
                                    ELSE IF "queue" \in to THEN "check" ELSE "done"]
  /\ UNCHANGED <<setup, closed, joining, mem, outcome, rmq, kfk, faults, crashes>>

\* Publish: a goroutine per subscription of this moment.  With no subscriber
\* Publish returns, and PublishWithRetry counts a failure; it never retries.
DispatcherPublish(e) ==
  /\ pub[e].pc = "memory"
  /\ pub' = [pub EXCEPT ![e].pc = IF "queue" \in pub[e].target THEN "check" ELSE "done"]
  /\ LET handlerCount == SumFunction(mem.subs)
         missed == IF handlerCount = 0 /\ setup.retries > 0 THEN 1 ELSE 0
     IN mem' = [mem EXCEPT !.published = @ + handlerCount, !.inflight[e] = mem.subs,
                           !.failed = @ + missed, !.unheard = @ + missed]
  /\ UNCHANGED <<setup, closed, joining, outcome, rmq, kfk, faults, crashes>>

\* wrapHandler: a panic is recovered and counted.
DispatcherHandle(e, h) ==
  /\ mem.inflight[e][h] > 0
  /\ \/ Succeeds(e, h) /\ mem' = [mem EXCEPT !.inflight[e][h] = @ - 1, !.delivered = @ + 1]
     \/ Fails(e, h) /\ mem' = [mem EXCEPT !.inflight[e][h] = @ - 1, !.failed = @ + 1]
  /\ UNCHANGED <<setup, closed, joining, pub, rmq, kfk, crashes>>

\* The goroutine of publishToQueue or publishToQueueWithRetry.
publishToQueue(e) ==
  /\ pub[e].pc = "check"
  /\ pub' = [pub EXCEPT ![e].pc = IF IsQueueAvailable THEN "rabbit" ELSE "failed"]
  /\ UNCHANGED <<setup, closed, joining, mem, outcome, rmq, kfk, faults, crashes>>

\* RabbitMQ.PublishMessage stores and confirms, or reports an error, in which
\* case the message may have been stored.
RabbitPublish(e) ==
  /\ pub[e].pc = "rabbit"
  /\ \/ /\ RabbitUsable
        /\ rmq' = [rmq EXCEPT !.queue = Append(@, e), !.stored[e] = @ + 1]
        /\ \/ pub' = [pub EXCEPT ![e].pc = "done", ![e].accepted = TRUE] /\ UNCHANGED faults
           \/ pub' = [pub EXCEPT ![e].pc = "kafka", ![e].doubt = TRUE] /\ Fault
     \/ /\ RabbitRefuses
        /\ pub' = [pub EXCEPT ![e].pc = "kafka"]
        /\ UNCHANGED rmq
  /\ UNCHANGED <<setup, closed, joining, mem, outcome, kfk, crashes>>

\* A failed PublishMessage: another try with retries left, else a warning.
AfterFailure(p) ==
  IF p.tries < setup.retries
  THEN [p EXCEPT !.pc = "rabbit", !.tries = @ + 1, !.writes = 0]
  ELSE [p EXCEPT !.pc = "failed", !.writes = 0]

\* One WriteMessages of Kafka.PublishMessage, which has retries of its own.
KafkaPublish(e) ==
  /\ pub[e].pc = "kafka"
  /\ \/ /\ KafkaUsable
        /\ kfk' = [kfk EXCEPT !.log = Append(@, e)]
        /\ pub' = [pub EXCEPT ![e].pc = "done", ![e].accepted = TRUE]
        /\ UNCHANGED faults
     \/ /\ KafkaUsable /\ Fault
        /\ \E stored \in BOOLEAN :
             LET p == [pub[e] EXCEPT !.doubt = @ \/ stored] IN
             /\ kfk' = IF stored THEN [kfk EXCEPT !.log = Append(@, e)] ELSE kfk
             /\ pub' = [pub EXCEPT ![e] = IF p.writes < RetryAttempts
                                          THEN [p EXCEPT !.writes = @ + 1]
                                          ELSE AfterFailure(p)]
     \/ /\ ~KafkaUsable
        /\ pub' = [pub EXCEPT ![e] = AfterFailure(@)]
        /\ UNCHANGED <<kfk, faults>>
  /\ UNCHANGED <<setup, closed, joining, mem, outcome, rmq, crashes>>

-----------------------------------------------------------------------------
(* RabbitMQ.ConsumeMessages: prefetch 1, handler, acknowledgement          *)

RabbitDeliver(h) ==
  /\ rmq.up /\ h \in rmq.subs /\ rmq.hand[h] = NoEvent /\ rmq.queue # <<>>
  /\ rmq' = [rmq EXCEPT !.hand[h] = Head(rmq.queue), !.queue = Tail(@)]
  /\ UNCHANGED <<setup, closed, joining, mem, outcome, pub, kfk, faults, crashes>>

\* A handler's error is printed and the message acknowledged all the same.
RabbitHandle(h) ==
  /\ rmq.hand[h] # NoEvent /\ ~rmq.done[h]
  /\ Succeeds(rmq.hand[h], h) \/ Fails(rmq.hand[h], h)
  /\ rmq' = [rmq EXCEPT !.done[h] = TRUE]
  /\ UNCHANGED <<setup, closed, joining, mem, pub, kfk, crashes>>

\* Mutant of RabbitAck: the acknowledgement is forgotten.
RabbitAckForgotten(h) == rmq.done[h] /\ UNCHANGED busVars

RabbitAck(h) ==
  /\ rmq.done[h]
  /\ rmq' = [rmq EXCEPT !.hand[h] = NoEvent, !.done[h] = FALSE]
  /\ UNCHANGED <<setup, closed, joining, mem, outcome, pub, kfk, faults, crashes>>

\* Mutant of Disconnected: messages were acknowledged on delivery.
DisconnectedAutoAck ==
  [rmq EXCEPT !.subs = {}, !.hand = [h \in Handlers |-> NoEvent],
              !.done = [h \in Handlers |-> FALSE]]

\* The broker without its consumers: what they had not acknowledged is queued again.
Disconnected ==
  LET unacked == SetToSeq({h \in Handlers : rmq.hand[h] # NoEvent}) IN
  [rmq EXCEPT !.queue = [i \in DOMAIN unacked |-> rmq.hand[unacked[i]]] \o @,
              !.subs = {}, !.hand = [h \in Handlers |-> NoEvent],
              !.done = [h \in Handlers |-> FALSE]]

\* The connection is lost: consumers end, nothing reconnects.
ConnectionLost ==
  /\ rmq.up /\ Fault
  /\ rmq' = [Disconnected EXCEPT !.up = FALSE]
  /\ UNCHANGED <<setup, closed, joining, mem, outcome, pub, kfk, crashes>>

-----------------------------------------------------------------------------
(* Kafka.ConsumeMessages                                                   *)

KafkaFetch(h) ==
  /\ h \in kfk.subs /\ kfk.hand[h] = 0 /\ kfk.pos < Len(kfk.log)
  /\ kfk' = [kfk EXCEPT !.hand[h] = kfk.pos + 1, !.pos = @ + 1]
  /\ UNCHANGED <<setup, closed, joining, mem, outcome, pub, rmq, faults, crashes>>

\* An error leaves the offset uncommitted and goes on to the next fetch; a
\* panic is recovered by ending this consumer.
KafkaHandle(h) ==
  /\ kfk.hand[h] # 0 /\ ~kfk.done[h]
  /\ LET e == kfk.log[kfk.hand[h]] IN
     \/ Succeeds(e, h) /\ kfk' = [kfk EXCEPT !.done[h] = TRUE]
     \/ /\ Fails(e, h)
        /\ \E panics \in BOOLEAN :
             kfk' = [kfk EXCEPT !.hand[h] = 0, !.subs = IF panics THEN @ \ {h} ELSE @]
  /\ UNCHANGED <<setup, closed, joining, mem, pub, rmq, crashes>>

KafkaCommit(h) ==
  /\ kfk.done[h]
  /\ \E committed \in BOOLEAN :
       /\ IF committed THEN UNCHANGED faults ELSE Fault
       /\ kfk' = [kfk EXCEPT !.commit = IF committed THEN Max({@, kfk.hand[h]}) ELSE @,
                             !.hand[h] = 0, !.done[h] = FALSE]
  /\ UNCHANGED <<setup, closed, joining, mem, outcome, pub, rmq, crashes>>

-----------------------------------------------------------------------------
(* Data.Close: the broker clients lack the methods by which                *)
(* Connections.Close would recognise them, so their connections stay open  *)
(* and consumers go on.                                                    *)
DataClose ==
  /\ ~closed /\ closed' = TRUE
  /\ UNCHANGED <<setup, joining, mem, outcome, pub, rmq, kfk, faults, crashes>>

\* The process ends (a handler's panic in a RabbitMQ consumer is enough) and is
\* started anew: what was in memory is gone, the brokers keep their messages.
Crash ==
  /\ crashes < setup.crashes /\ crashes' = crashes + 1
  /\ closed' = FALSE
  /\ joining' = [h \in Handlers |-> "new"]
  /\ mem' = NewDispatcher
  /\ pub' = [e \in Events |-> IF pub[e].pc \in {"idle", "done"} THEN pub[e]
                              ELSE [pub[e] EXCEPT !.pc = "failed", !.writes = 0]]
  /\ rmq' = [Disconnected EXCEPT !.up = setup.rabbit]
  /\ kfk' = [kfk EXCEPT !.subs = {}, !.hand = None, !.done = [h \in Handlers |-> FALSE]]
  /\ UNCHANGED <<setup, outcome, faults>>

HandlerStep(h) ==
  \/ SubscribeCheck(h) \/ subscribeToQueue(h)
  \/ RabbitDeliver(h) \/ RabbitHandle(h) \/ RabbitAck(h)
  \/ KafkaFetch(h) \/ KafkaHandle(h) \/ KafkaCommit(h)
  \/ \E e \in Events : DispatcherHandle(e, h)

PublisherStep(e) ==
  DispatcherPublish(e) \/ publishToQueue(e) \/ RabbitPublish(e) \/ KafkaPublish(e)

BusNext ==
  \/ \E h \in Handlers : SubscribeEvent(h) \/ HandlerStep(h)
  \/ \E e \in Events : PublishEvent(e) \/ PublisherStep(e)
  \/ ConnectionLost \/ DataClose \/ Crash

\* Goroutines run on: consumers, publishers and handlers return.
BusFairness ==
  /\ \A h \in Handlers : WF_busVars(HandlerStep(h))
  /\ \A e \in Events : WF_busVars(PublisherStep(e))

BusSpec == BusInit /\ [][BusNext]_busVars /\ BusFairness

-----------------------------------------------------------------------------
(* Properties                                                              *)

Attempts(e) == SumFunction(outcome.heard[e]) + SumFunction(outcome.broken[e])
InKafka(e) == Cardinality({i \in DOMAIN kfk.log : kfk.log[i] = e})

\* The dispatcher's counters account for every goroutine that Publish started:
\* each is running, delivered or failed, whatever Subscribe does meanwhile, and
\* the other failures are publishes that met no subscriber.
DeliveriesAccounted ==
  mem.published + mem.unheard =
    mem.delivered + mem.failed
      + SumFunction([e \in Events |-> SumFunction(mem.inflight[e])])

\* When PublishMessage reports success a broker holds the message, and two copies
\* of a message come only from a write that was stored and reported as failed:
\* falling back from RabbitMQ to Kafka, and the retries of both, add no others.
PublishedOnceOrInDoubt ==
  \A e \in Events :
    /\ pub[e].accepted => rmq.stored[e] + InKafka(e) > 0
    /\ rmq.stored[e] + InKafka(e) > 1 => pub[e].doubt

\* Every copy that RabbitMQ stored waits in the queue, is in a consumer's hand, or
\* some handler was run for the event: neither losing the connection between
\* handler and acknowledgement nor a crash makes a message vanish unhandled.
RabbitNeverForgets ==
  \A e \in Events :
    rmq.stored[e] > 0 =>
      \/ e \in Range(rmq.queue) \/ \E h \in Handlers : rmq.hand[h] = e
      \/ Attempts(e) > 0

\* A stored message reaches a handler as long as a consumer is connected: the
\* handlers that compete for one queue never leave it to each other.
QueuedIsHandled ==
  \A e \in Events : e \in Range(rmq.queue) ~> (Attempts(e) > 0 \/ rmq.subs = {})

\* The committed offset passes no message of Kafka that no handler was run for, except
\* what was stored before a consumer came that found no offset and reads from the last, and
\* one that another consumer had in its hand, then or when the process ended.
KafkaPassesOnlyTried ==
  \A i \in kfk.from + 1..kfk.commit :
    Attempts(kfk.log[i]) > 0 \/ crashes > 0 \/ \E h \in Handlers : kfk.hand[h] = i
=============================================================================
