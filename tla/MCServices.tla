----------------------------- MODULE MCServices -----------------------------
(***************************************************************************)
(* Instances for TLC of two services of the extension manager: its event   *)
(* bus, with default and queue-only targets, with and without each broker  *)
(* and the fallback to memory, and its metrics collector.  They share no   *)
(* variables: a behaviour runs one of them, named by part.                 *)
(***************************************************************************)
EXTENDS MetricsCollector, EventBus

VARIABLE part

MCMSetups ==
  { [ops |-> {"call"}, snapshots |-> 3, ticks |-> 1, faults |-> 0],
    [ops |-> {"lifecycle", "system"}, snapshots |-> 3, ticks |-> 1, faults |-> 1],
    [ops |-> {"lifecycle", "cleanup", "clock"}, snapshots |-> 3, ticks |-> 0, faults |-> 0] }

Bus(to, fallback, rabbit, kafka, retries, faultBound, crashBound) ==
  [target |-> {to}, source |-> {to}, fallback |-> fallback, rabbit |-> rabbit,
   kafka |-> kafka, retries |-> retries, faults |-> faultBound, crashes |-> crashBound]
MCSetups ==
  { Bus("default", TRUE, TRUE, FALSE, 0, 0, 0),
    Bus("default", TRUE, FALSE, FALSE, 1, 1, 1),
    Bus("queue", TRUE, TRUE, TRUE, 1, 1, 0),
    Bus("queue", TRUE, TRUE, FALSE, 0, 1, 1),
    Bus("queue", FALSE, FALSE, TRUE, 0, 1, 0) }

servicesVars == <<part, mvars, busVars>>

\* The part that runs starts in any of its initial states, the other in a fixed one.
ServicesInit ==
  /\ part \in {"metrics", "bus"}
  /\ MInit /\ (part # "metrics" => mset = CHOOSE s \in MSetups : TRUE)
  /\ BusInit /\ (part # "bus" => setup = CHOOSE s \in Setups : TRUE)

ServicesNext ==
  /\ UNCHANGED part
  /\ \/ part = "metrics" /\ MNext /\ UNCHANGED busVars
     \/ part = "bus" /\ BusNext /\ UNCHANGED mvars

\* The fairness of MSpec and BusSpec, for the behaviours that run those parts.
Metrics(A) == part = "metrics" /\ A /\ UNCHANGED <<part, busVars>>
OnBus(A) == part = "bus" /\ A /\ UNCHANGED <<part, mvars>>
ServicesFairness ==
  /\ WF_mvars(Metrics(FlushStep)) /\ WF_mvars(Metrics(StopStep))
  /\ \A h \in Handlers : WF_busVars(OnBus(HandlerStep(h)))
  /\ \A e \in Events : WF_busVars(OnBus(PublisherStep(e)))

ServicesSpec == ServicesInit /\ [][ServicesNext]_servicesVars /\ ServicesFairness

-----------------------------------------------------------------------------
(* What each part promises                                                 *)

\* Every snapshot is in one place (SnapshotsConserved), and moving them to Redis changes
\* the answer of no query (UpgradeTransparent).
CollectorSound == MTypeOK /\ SnapshotsConserved /\ UpgradeTransparent

\* The dispatcher's counters account for its goroutines (DeliveriesAccounted), the brokers
\* hold a message once unless its write was in doubt (PublishedOnceOrInDoubt), and neither
\* RabbitMQ (RabbitNeverForgets) nor Kafka (KafkaPassesOnlyTried) loses one unhandled.
BusSound ==
  /\ BusTypeOK /\ DeliveriesAccounted /\ PublishedOnceOrInDoubt
  /\ RabbitNeverForgets /\ KafkaPassesOnlyTried
=============================================================================
