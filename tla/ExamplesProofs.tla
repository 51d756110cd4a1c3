--------------------------- MODULE ExamplesProofs ---------------------------
(***************************************************************************)
(* What the applications under examples/ promise, proved: one inductive    *)
(* invariant per part, with a lemma that it holds at the start, one for    *)
(* every step, and one that it says what the part promises; the theorems   *)
(* at the end put the parts together.                                      *)
(***************************************************************************)
EXTENDS MCExamples, FiniteSetTheorems, SequenceTheorems, TLAPS

-----------------------------------------------------------------------------
(* The event buses                                                         *)

EventRow == [pc : {"none", "save", "offer", "accepted", "refused"}, of : AppUsers \cup {NoEvent}, ran : SUBSET AppHandlers]
EventBusType == [buffer : Seq(AppEventIds), running : BOOLEAN, shutdown : {"none", "complete"}, faults : Nat]

Waiting(e) == \E i \in DOMAIN abus.buffer : abus.buffer[i] = e

\* Where an event is for a handler: waiting, running or run, and in one of these
\* places exactly when its publication was accepted.
OnePlace(e, h) ==
  /\ Waiting(e) => <<e, h>> \notin atasks /\ h \notin aev[e].ran
  /\ <<e, h>> \in atasks => aev[e].pc = "accepted" /\ h \notin aev[e].ran
  /\ h \in aev[e].ran => aev[e].pc = "accepted"
  /\ aev[e].pc = "accepted" => Waiting(e) \/ <<e, h>> \in atasks \/ h \in aev[e].ran

\* Events are published in their order, none waits twice, and each is in one place for
\* each handler.
EventsInv ==
  /\ abus \in EventBusType
  /\ aev \in [AppEventIds -> EventRow]
  /\ atasks \subseteq AppEventIds \X AppHandlers
  /\ \E n \in 0..Len(AppTimes) : Published = 1..n
  /\ \A i, j \in DOMAIN abus.buffer : abus.buffer[i] = abus.buffer[j] => i = j
  /\ \A e \in AppEventIds : Waiting(e) => aev[e].pc = "accepted"
  /\ \A e \in AppEventIds, h \in AppHandlers : OnePlace(e, h)

\* Events are numbered from one.
LEMMA EventNumbers == AppEventIds = 1..Len(AppTimes) /\ Len(AppTimes) \in Nat
BY AppEventsAssumption DEF AppEventIds

\* The bus starts empty, with nothing published.
LEMMA EventsStart == AppInit => EventsInv
<1> SUFFICES ASSUME AppInit PROVE EventsInv OBVIOUS
<1>1. abus \in EventBusType /\ abus.buffer = <<>> BY DEF AppInit, EventBusType
<1>2. aev \in [AppEventIds -> EventRow] BY DEF AppInit, EventRow
<1>3. \A e \in AppEventIds : aev[e].pc = "none" /\ aev[e].ran = {} BY DEF AppInit
<1>4. Published = 1..0 BY <1>3 DEF Published
<1>5. 0 \in 0..Len(AppTimes) BY EventNumbers
<1>6. atasks = {} BY DEF AppInit
<1> QED BY <1>1, <1>2, <1>3, <1>4, <1>5, <1>6 DEF EventsInv, OnePlace, Waiting

\* An event in one place for each handler is accounted for, as the counts say.
LEMMA EventsPromise == EventsInv => AcceptedAccounted
<1> SUFFICES ASSUME EventsInv, NEW e \in AppEventIds, NEW h \in AppHandlers
             PROVE  Cardinality({i \in DOMAIN abus.buffer : abus.buffer[i] = e})
                      + (IF <<e, h>> \in atasks THEN 1 ELSE 0) + (IF h \in aev[e].ran THEN 1 ELSE 0)
                    = IF aev[e].pc = "accepted" THEN 1 ELSE 0
  BY DEF AcceptedAccounted
<1> DEFINE places == {i \in DOMAIN abus.buffer : abus.buffer[i] = e}
<1>1. OnePlace(e, h) /\ (Waiting(e) => aev[e].pc = "accepted") BY DEF EventsInv
<1>2. CASE Waiting(e)
  <2>1. PICK k \in DOMAIN abus.buffer : abus.buffer[k] = e BY <1>2 DEF Waiting
  <2>2. places = {k} BY <2>1 DEF EventsInv
  <2>3. Cardinality(places) = 1 BY <2>2, FS_Singleton
  <2> QED BY <1>1, <1>2, <2>3 DEF OnePlace
<1>3. CASE ~Waiting(e)
  <2>1. places = {} BY <1>3 DEF Waiting
  <2>2. Cardinality(places) = 0 BY <2>1, FS_EmptySet
  <2> QED BY <1>1, <1>3, <2>2 DEF OnePlace
<1> QED BY <1>2, <1>3

\* A publisher's own steps: the event is not yet accepted, and no handler knows of it.
LEMMA PublisherKeeps ==
  ASSUME EventsInv, NEW e \in AppEventIds, NEW v \in EventRow, aev' = [aev EXCEPT ![e] = v],
         aev[e].pc # "accepted", v.pc # "accepted", v.ran = {},
         abus' \in EventBusType, abus'.buffer = abus.buffer, atasks' = atasks,
         \E n \in 0..Len(AppTimes) : Published' = 1..n
  PROVE  EventsInv'
<1>1. aev' \in [AppEventIds -> EventRow] /\ \A d \in AppEventIds : aev'[d] = IF d = e THEN v ELSE aev[d] BY DEF EventsInv
<1>2. \A d \in AppEventIds : Waiting(d)' <=> Waiting(d) BY DEF Waiting
<1>3. ~Waiting(e) BY DEF EventsInv
<1>4. \A d \in AppEventIds : Waiting(d)' => aev'[d].pc = "accepted" BY <1>1, <1>2, <1>3 DEF EventsInv
<1>5. ASSUME NEW d \in AppEventIds, NEW h \in AppHandlers PROVE OnePlace(d, h)'
  <2>1. OnePlace(d, h) BY DEF EventsInv
  <2>2. Waiting(d)' <=> Waiting(d) BY <1>2
  <2>3. CASE d = e BY <1>1, <1>3, <2>1, <2>2, <2>3 DEF OnePlace
  <2>4. CASE d # e BY <1>1, <2>1, <2>2, <2>4 DEF OnePlace
  <2> QED BY <2>3, <2>4
<1> QED BY <1>1, <1>4, <1>5 DEF EventsInv

\* The next event's number is the first that no publisher has.
LEMMA NextEventIsNew ==
  ASSUME EventsInv, NextEvent \in AppEventIds
  PROVE  \E n \in 0..Len(AppTimes) - 1 : NextEvent = n + 1 /\ Published = 1..n /\ aev[n + 1].pc = "none"
<1>1. PICK n \in 0..Len(AppTimes) : Published = 1..n BY DEF EventsInv
<1>2. n \in Nat /\ Len(AppTimes) \in Nat BY EventNumbers, <1>1
<1>3. Cardinality(1..n) = n BY <1>2, FS_Interval
<1>4. NextEvent = n + 1 BY <1>1, <1>3 DEF NextEvent
<1>5. n + 1 \in 1..Len(AppTimes) BY <1>4, EventNumbers
<1>6. n + 1 \notin Published /\ n + 1 \in AppEventIds BY <1>1, <1>2, <1>4
<1>7. aev[n + 1].pc = "none" BY <1>6 DEF Published
<1>8. n \in 0..Len(AppTimes) - 1 BY <1>2, <1>5
<1> QED BY <1>1, <1>4, <1>7, <1>8

\* A service publishes the next event, which no publisher has yet.
LEMMA ServicesKeep ==
  ASSUME EventsInv, NEW u \in AppUsers, RegisterUser(u) \/ UpdateUser(u) \/ PublishCustom(u) PROVE EventsInv'
<1>1. BeginPublish(u) /\ abus' = abus /\ atasks' = atasks BY DEF RegisterUser, UpdateUser, PublishCustom
<1>2. PICK n \in 0..Len(AppTimes) - 1 : NextEvent = n + 1 /\ Published = 1..n /\ aev[n + 1].pc = "none"
  BY <1>1, NextEventIsNew DEF BeginPublish
<1> DEFINE v == [pc |-> "save", of |-> u, ran |-> {}]
<1>3. v \in EventRow /\ v.pc = "save" /\ v.ran = {} BY DEF EventRow
<1>4. n + 1 \in AppEventIds /\ aev' = [aev EXCEPT ![n + 1] = v] BY <1>1, <1>2 DEF BeginPublish
<1> HIDE DEF v
<1>5. \A d \in AppEventIds : aev'[d].pc # "none" <=> d = n + 1 \/ aev[d].pc # "none" BY <1>3, <1>4 DEF EventsInv
<1>6. Published' = Published \cup {n + 1} BY <1>4, <1>5 DEF Published
<1>7. n \in Nat /\ n + 1 \in 0..Len(AppTimes) BY <1>2, EventNumbers
<1>8. Published' = 1..(n + 1) BY <1>2, <1>6, <1>7
<1>9. abus' \in EventBusType BY <1>1 DEF EventsInv
<1> QED BY <1>1, <1>2, <1>3, <1>4, <1>7, <1>8, <1>9, PublisherKeeps

\* Saving, failing to save and being refused leave the event unaccepted.
LEMMA SaveOrRefuseKeeps ==
  ASSUME EventsInv, NEW e \in AppEventIds, SaveEvent(e) \/ RefuseEvent(e) PROVE EventsInv'
<1>1. aev[e] \in EventRow /\ aev[e].pc \in {"save", "offer"} /\ atasks' = atasks BY DEF EventsInv, SaveEvent, RefuseEvent
<1>2. PICK p \in {"offer", "refused"} : aev' = [aev EXCEPT ![e].pc = p] BY DEF SaveEvent, RefuseEvent
<1> DEFINE v == [aev[e] EXCEPT !.pc = p]
<1>3. aev' = [aev EXCEPT ![e] = v] BY <1>2
<1>4. v \in EventRow /\ v.pc = p /\ v.ran = aev[e].ran BY <1>1 DEF EventRow
<1>5. aev[e].ran = {}
  <2>1. \A h \in AppHandlers : h \notin aev[e].ran BY <1>1 DEF EventsInv, OnePlace
  <2> QED BY <1>1, <2>1 DEF EventRow
<1> HIDE DEF v
<1>6. abus' \in EventBusType /\ abus'.buffer = abus.buffer
  <2>1. abus \in EventBusType BY DEF EventsInv
  <2>2. abus' = abus \/ abus' = [abus EXCEPT !.faults = @ + 1] BY DEF SaveEvent, RefuseEvent
  <2> QED BY <2>1, <2>2 DEF EventBusType
<1>7. \A d \in AppEventIds : aev'[d].pc # "none" <=> aev[d].pc # "none" BY <1>1, <1>3, <1>4 DEF EventsInv
<1>8. Published' = Published BY <1>7 DEF Published
<1>9. \E n \in 0..Len(AppTimes) : Published' = 1..n BY <1>8 DEF EventsInv
<1> QED BY <1>1, <1>3, <1>4, <1>5, <1>6, <1>9, PublisherKeeps

\* The accepted event is new in the buffer.
LEMMA OfferEventKeeps == ASSUME EventsInv, NEW e \in AppEventIds, OfferEvent(e) PROVE EventsInv'
<1> DEFINE b == abus.buffer
<1> DEFINE c == Append(b, e)
<1> DEFINE v == [aev[e] EXCEPT !.pc = "accepted"]
<1>1. aev[e].pc = "offer" /\ aev' = [aev EXCEPT ![e] = v] /\ abus' = [abus EXCEPT !.buffer = c] /\ atasks' = atasks
  BY DEF OfferEvent
<1>2. aev[e] \in EventRow /\ abus \in EventBusType /\ b \in Seq(AppEventIds) BY DEF EventsInv, EventBusType
<1>3. v \in EventRow /\ v.pc = "accepted" /\ v.ran = aev[e].ran BY <1>2 DEF EventRow
<1>4. c \in Seq(AppEventIds) /\ Len(c) = Len(b) + 1 /\ c[Len(b) + 1] = e /\ \A i \in 1..Len(b) : c[i] = b[i]
  BY <1>2, AppendProperties
<1> HIDE DEF c, v
<1>5. abus' \in EventBusType /\ abus'.buffer = c BY <1>1, <1>2, <1>4 DEF EventBusType
<1>6. aev' \in [AppEventIds -> EventRow] /\ \A d \in AppEventIds : aev'[d] = IF d = e THEN v ELSE aev[d]
  BY <1>1, <1>3 DEF EventsInv
<1>7. Len(b) \in Nat /\ DOMAIN b = 1..Len(b) /\ DOMAIN c = 1..(Len(b) + 1) BY <1>2, <1>4
<1>8. ~Waiting(e) /\ \A i \in 1..Len(b) : b[i] # e BY <1>1, <1>7 DEF EventsInv, Waiting
<1>9. \A d \in AppEventIds : Waiting(d)' <=> d = e \/ Waiting(d)
  <2> SUFFICES ASSUME NEW d \in AppEventIds
               PROVE  (\E i \in DOMAIN c : c[i] = d) <=> d = e \/ (\E i \in DOMAIN b : b[i] = d)
    BY <1>5 DEF Waiting
  <2> HIDE DEF b
  <2> QED BY <1>4, <1>7
<1>10. \A i, j \in DOMAIN c : c[i] = c[j] => i = j
  <2>1. \A i, j \in 1..Len(b) : b[i] = b[j] => i = j BY <1>7 DEF EventsInv
  <2> HIDE DEF b
  <2> QED BY <1>4, <1>7, <1>8, <2>1
<1>11. \A d \in AppEventIds : aev'[d].pc # "none" <=> aev[d].pc # "none" BY <1>1, <1>3, <1>6
<1>12. Published' = Published BY <1>11 DEF Published
<1>13. ASSUME NEW d \in AppEventIds, NEW h \in AppHandlers PROVE OnePlace(d, h)'
  <2>1. OnePlace(d, h) BY DEF EventsInv
  <2>2. Waiting(d)' <=> d = e \/ Waiting(d) BY <1>9
  <2>3. CASE d = e BY <1>1, <1>3, <1>6, <1>8, <2>1, <2>2, <2>3 DEF OnePlace
  <2>4. CASE d # e BY <1>1, <1>6, <2>1, <2>2, <2>4 DEF OnePlace
  <2> QED BY <2>3, <2>4
<1>14. \A d \in AppEventIds : Waiting(d)' => aev'[d].pc = "accepted" BY <1>3, <1>6, <1>9 DEF EventsInv
<1> QED BY <1>1, <1>5, <1>6, <1>10, <1>12, <1>13, <1>14 DEF EventsInv

\* The taken event leaves the buffer, where it was once, for every handler.
LEMMA TakeEventKeeps == ASSUME EventsInv, NEW w \in AppWorkers, TakeEvent(w) PROVE EventsInv'
<1> DEFINE b == abus.buffer
<1> DEFINE c == Tail(b)
<1> DEFINE e == Head(b)
<1>1. b # <<>> /\ aev' = aev /\ abus' = [abus EXCEPT !.buffer = c] /\ atasks' = atasks \cup {<<e, h>> : h \in AppHandlers}
  BY DEF TakeEvent
<1>2. abus \in EventBusType /\ b \in Seq(AppEventIds) BY DEF EventsInv, EventBusType
<1>3. e \in AppEventIds /\ e = b[1] /\ c \in Seq(AppEventIds) /\ Len(c) = Len(b) - 1 /\ Len(b) \in Nat /\ Len(b) > 0
      /\ \A i \in 1..Len(c) : c[i] = b[i + 1]
  BY <1>1, <1>2, HeadTailProperties
<1>4. DOMAIN b = 1..Len(b) /\ DOMAIN c = 1..(Len(b) - 1) BY <1>2, <1>3
<1>5. \A i, j \in 1..Len(b) : b[i] = b[j] => i = j BY <1>4 DEF EventsInv
<1>6. Waiting(e) BY <1>3, <1>4 DEF Waiting
<1> HIDE DEF c, e
<1>7. abus' \in EventBusType /\ abus'.buffer = c BY <1>1, <1>2, <1>3 DEF EventBusType
<1>8. ASSUME NEW d \in AppEventIds PROVE Waiting(d)' <=> d # e /\ Waiting(d)
  <2> SUFFICES (\E i \in DOMAIN c : c[i] = d) <=> d # e /\ (\E i \in DOMAIN b : b[i] = d) BY <1>7 DEF Waiting
  <2> HIDE DEF b
  <2>1. ASSUME NEW i \in DOMAIN c, c[i] = d PROVE d # e /\ \E j \in DOMAIN b : b[j] = d
    <3>1. i + 1 \in 1..Len(b) /\ b[i + 1] = d /\ 1 \in 1..Len(b) /\ i + 1 # 1 BY <1>3, <1>4, <2>1
    <3> QED BY <1>3, <1>4, <1>5, <3>1
  <2>2. ASSUME NEW i \in DOMAIN b, b[i] = d, d # e PROVE \E j \in DOMAIN c : c[j] = d
    <3>1. i # 1 BY <1>3, <2>2
    <3>2. i - 1 \in 1..Len(c) /\ i - 1 + 1 = i BY <1>3, <1>4, <3>1
    <3>3. c[i - 1] = d BY <1>3, <2>2, <3>2
    <3> QED BY <1>3, <1>4, <3>2, <3>3
  <2> QED BY <2>1, <2>2
<1>9. \A i, j \in DOMAIN c : c[i] = c[j] => i = j
  <2> SUFFICES ASSUME NEW i \in DOMAIN c, NEW j \in DOMAIN c, c[i] = c[j] PROVE i = j OBVIOUS
  <2> HIDE DEF b
  <2>1. i + 1 \in 1..Len(b) /\ j + 1 \in 1..Len(b) /\ b[i + 1] = b[j + 1] /\ i \in Int /\ j \in Int BY <1>3, <1>4
  <2>2. i + 1 = j + 1 BY <1>5, <2>1
  <2> QED BY <2>1, <2>2
<1>10. atasks' \subseteq AppEventIds \X AppHandlers BY <1>1, <1>3 DEF EventsInv
<1>11. ASSUME NEW d \in AppEventIds, NEW h \in AppHandlers PROVE OnePlace(d, h)'
  <2>1. OnePlace(d, h) /\ (Waiting(d) => aev[d].pc = "accepted") BY DEF EventsInv
  <2>2. Waiting(d)' <=> d # e /\ Waiting(d) BY <1>8
  <2>3. <<d, h>> \in atasks' <=> d = e \/ <<d, h>> \in atasks BY <1>1
  <2>4. CASE d = e BY <1>1, <1>6, <2>1, <2>2, <2>3, <2>4 DEF OnePlace
  <2>5. CASE d # e BY <1>1, <2>1, <2>2, <2>3, <2>5 DEF OnePlace
  <2> QED BY <2>4, <2>5
<1>12. \A d \in AppEventIds : Waiting(d)' => aev'[d].pc = "accepted" BY <1>1, <1>8 DEF EventsInv
<1>13. Published' = Published BY <1>1 DEF Published
<1> QED BY <1>1, <1>7, <1>9, <1>10, <1>11, <1>12, <1>13 DEF EventsInv

\* A handler's return moves the event from running to run, for that handler.
LEMMA HandlersKeep ==
  ASSUME EventsInv, NEW e \in AppEventIds, NEW h, <<e, h>> \in atasks, atasks' = atasks \ {<<e, h>>},
         aev' = [aev EXCEPT ![e].ran = @ \cup {h}], abus' = abus
  PROVE  EventsInv'
<1>1. aev[e] \in EventRow /\ h \in AppHandlers BY DEF EventsInv
<1> DEFINE v == [aev[e] EXCEPT !.ran = @ \cup {h}]
<1>2. v \in EventRow /\ v.pc = aev[e].pc /\ v.ran = aev[e].ran \cup {h} BY <1>1 DEF EventRow
<1>3. aev' = [aev EXCEPT ![e] = v] OBVIOUS
<1> HIDE DEF v
<1>4. aev' \in [AppEventIds -> EventRow] /\ \A d \in AppEventIds : aev'[d] = IF d = e THEN v ELSE aev[d]
  BY <1>2, <1>3 DEF EventsInv
<1>5. \A d \in AppEventIds : Waiting(d)' <=> Waiting(d) BY DEF Waiting
<1>6. ASSUME NEW d \in AppEventIds, NEW k \in AppHandlers PROVE OnePlace(d, k)'
  <2>1. OnePlace(d, k) BY DEF EventsInv
  <2>2. Waiting(d)' <=> Waiting(d) BY <1>5
  <2>3. <<d, k>> \in atasks' <=> <<d, k>> \in atasks /\ ~(d = e /\ k = h) OBVIOUS
  <2>4. k \in aev'[d].ran <=> k \in aev[d].ran \/ (d = e /\ k = h) BY <1>2, <1>4
  <2>5. aev'[d].pc = aev[d].pc BY <1>2, <1>4
  <2> QED BY <2>1, <2>2, <2>3, <2>4, <2>5 DEF OnePlace
<1>7. Published' = Published /\ \A d \in AppEventIds : aev'[d].pc = aev[d].pc
  <2>1. \A d \in AppEventIds : aev'[d].pc = aev[d].pc BY <1>2, <1>4
  <2> QED BY <2>1 DEF Published
<1>8. \A d \in AppEventIds : Waiting(d)' => aev'[d].pc = "accepted" BY <1>5, <1>7 DEF EventsInv
<1> QED BY <1>4, <1>6, <1>7, <1>8 DEF EventsInv

\* What changes neither events, tasks nor buffer.
LEMMA BusAsideKeeps ==
  ASSUME EventsInv, UNCHANGED <<aev, atasks>>, abus' \in EventBusType, abus'.buffer = abus.buffer
  PROVE  EventsInv'
<1>1. \A d \in AppEventIds : Waiting(d)' <=> Waiting(d) BY DEF Waiting
<1>2. Published' = Published BY DEF Published
<1>3. \A d \in AppEventIds, k \in AppHandlers : OnePlace(d, k)' <=> OnePlace(d, k) BY <1>1 DEF OnePlace
<1> QED BY <1>1, <1>2, <1>3 DEF EventsInv

\* No step of a bus breaks its invariant.
LEMMA EventsStep == EventsInv /\ [AppNext]_avars => EventsInv'
<1> SUFFICES ASSUME EventsInv, [AppNext]_avars PROVE EventsInv' OBVIOUS
<1>1. abus \in EventBusType BY DEF EventsInv
<1>2. CASE UNCHANGED avars BY <1>1, <1>2, BusAsideKeeps DEF avars
<1>3. CASE AppNext
  <2>1. ASSUME NEW u \in AppUsers, RegisterUser(u) \/ UpdateUser(u) \/ PublishCustom(u) PROVE EventsInv' BY <2>1, ServicesKeep
  <2>2. ASSUME NEW e \in AppEventIds, SaveEvent(e) \/ RefuseEvent(e) PROVE EventsInv' BY <2>2, SaveOrRefuseKeeps
  <2>3. ASSUME NEW e \in AppEventIds, OfferEvent(e) PROVE EventsInv' BY <2>3, OfferEventKeeps
  <2>4. ASSUME NEW e \in AppEventIds, AnalyticsRead(e) PROVE EventsInv' BY <1>1, <2>4, BusAsideKeeps DEF AnalyticsRead
  <2>5. ASSUME NEW e \in AppEventIds, AnalyticsWrite(e) PROVE EventsInv' BY <2>5, HandlersKeep DEF AnalyticsWrite
  <2>6. ASSUME NEW e \in AppEventIds, NEW h \in AppHandlers, HandlerReturns(e, h) PROVE EventsInv'
    BY <2>6, HandlersKeep DEF HandlerReturns
  <2>7. ASSUME NEW w \in AppWorkers, TakeEvent(w) PROVE EventsInv' BY <2>7, TakeEventKeeps
  <2>8. ASSUME NEW w \in AppWorkers, DispatchReturns(w) PROVE EventsInv'
    <3>1. abus' = abus \/ abus' = [abus EXCEPT !.faults = @ + 1] BY <2>8 DEF DispatchReturns
    <3>2. abus' \in EventBusType /\ abus'.buffer = abus.buffer BY <1>1, <3>1 DEF EventBusType
    <3> QED BY <2>8, <3>2, BusAsideKeeps DEF DispatchReturns
  <2>9. CASE Shutdown
    <3>1. abus' = [abus EXCEPT !.shutdown = "complete"] BY <2>9 DEF Shutdown
    <3>2. abus' \in EventBusType /\ abus'.buffer = abus.buffer BY <1>1, <3>1 DEF EventBusType
    <3> QED BY <2>9, <3>2, BusAsideKeeps DEF Shutdown
  <2>10. CASE StopWorkers
    <3>1. abus' = [abus EXCEPT !.running = FALSE, !.faults = @ + 1] BY <2>10 DEF StopWorkers
    <3> DEFINE k == abus.faults + 1
    <3>2. k \in Nat BY <1>1 DEF EventBusType
    <3>3. abus' = [abus EXCEPT !.running = FALSE, !.faults = k] BY <3>1
    <3> HIDE DEF k
    <3>4. abus' \in EventBusType /\ abus'.buffer = abus.buffer BY <1>1, <3>2, <3>3 DEF EventBusType
    <3> QED BY <2>10, <3>4, BusAsideKeeps DEF StopWorkers
  <2> QED BY <1>3, <2>1, <2>2, <2>3, <2>4, <2>5, <2>6, <2>7, <2>8, <2>9, <2>10 DEF AppNext
<1> QED BY <1>2, <1>3

-----------------------------------------------------------------------------
(* What the stores replay                                                  *)

\* The rows with a smaller key.
Below(S, key, e) == {d \in S : key[d] < key[e]}

\* A replay's order, by numbers: the rows below, and each place taken once.
LEMMA Ranked ==
  ASSUME NEW S, IsFiniteSet(S), NEW key \in [S -> Int], \A d, e \in S : key[d] = key[e] => d = e,
         NEW r \in [S -> Nat], \A e \in S : r[e] = Cardinality(Below(S, key, e))
  PROVE  /\ r \in [S -> 0..(Cardinality(S) - 1)]
         /\ \A d, e \in S : key[d] < key[e] => r[d] < r[e]
         /\ \A k \in 0..(Cardinality(S) - 1) : \E e \in S : r[e] = k
<1> DEFINE below(e) == Below(S, key, e)
           n == Cardinality(S)
<1>1. n \in Nat BY FS_CardinalityType
<1>2. ASSUME NEW e \in S PROVE r[e] = Cardinality(below(e)) /\ IsFiniteSet(below(e)) /\ r[e] \in 0..(n - 1)
  <2>1. below(e) \subseteq S /\ e \in S \ below(e) BY DEF Below
  <2>2. IsFiniteSet(below(e)) /\ Cardinality(below(e)) <= n /\ (n = Cardinality(below(e)) => below(e) = S)
    BY <2>1, FS_Subset
  <2>3. Cardinality(below(e)) \in Nat BY <2>2, FS_CardinalityType
  <2>4. Cardinality(below(e)) # n BY <2>1, <2>2
  <2>5. r[e] = Cardinality(below(e)) OBVIOUS
  <2> HIDE DEF below, n
  <2> QED BY <1>1, <2>2, <2>3, <2>4, <2>5
<1>3. r \in [S -> 0..(n - 1)] BY <1>2
<1>4. ASSUME NEW d \in S, NEW e \in S, key[d] < key[e] PROVE r[d] < r[e]
  <2>1. below(d) \subseteq below(e) /\ d \in below(e) /\ d \notin below(d) BY <1>4 DEF Below
  <2>2. Cardinality(below(d)) <= Cardinality(below(e)) /\ (Cardinality(below(e)) = Cardinality(below(d)) => below(e) = below(d))
    BY <1>2, <2>1, FS_Subset
  <2>3. Cardinality(below(d)) # Cardinality(below(e)) BY <2>1, <2>2
  <2> HIDE DEF below
  <2> QED BY <1>2, <1>1, <2>2, <2>3
<1>5. \A d, e \in S : r[d] = r[e] => d = e
  <2> SUFFICES ASSUME NEW d \in S, NEW e \in S, r[d] = r[e], d # e PROVE FALSE OBVIOUS
  <2>1. key[d] # key[e] /\ key[d] \in Int /\ key[e] \in Int OBVIOUS
  <2>2. key[d] < key[e] \/ key[e] < key[d] BY <2>1
  <2>3. r[d] < r[e] \/ r[e] < r[d] BY <1>4, <2>2
  <2>4. r[d] \in 0..(n - 1) /\ r[e] \in 0..(n - 1) BY <1>2
  <2> HIDE DEF n
  <2> QED BY <1>1, <2>3, <2>4
<1>6. r \in Injection(S, 0..(n - 1)) BY <1>3, <1>5 DEF Injection, IsInjective
<1>7. IsFiniteSet(0..(n - 1)) /\ Cardinality(0..(n - 1)) = n
  <2> HIDE DEF n
  <2> QED BY <1>1, FS_Interval
<1>8. r \in Surjection(S, 0..(n - 1)) BY <1>6, <1>7, FS_Injection
<1>9. \A k \in 0..(n - 1) : \E e \in S : r[e] = k BY <1>8 DEF Surjection
<1> QED BY <1>3, <1>4, <1>9

\* The fraction of a time as a number with the order of its text.
TextKey(t) ==
  IF t = 0 THEN 10000
  ELSE IF t % 10 = 0 THEN 12 * (1 + t \div 10) + 11
  ELSE 12 * (1 + t \div 10) + 1 + (t % 10)

\* A text by its characters.
LEMMA Text1 == ASSUME NEW a \in Nat, NEW v, v = <<a>> PROVE v \in Seq(Nat) /\ Len(v) = 1 /\ v[1] = a
OBVIOUS

\* The same for three.
LEMMA Text3 ==
  ASSUME NEW a \in Nat, NEW b \in Nat, NEW c \in Nat, NEW v, v = <<a, b, c>>
  PROVE  v \in Seq(Nat) /\ Len(v) = 3 /\ v[1] = a /\ v[2] = b /\ v[3] = c
OBVIOUS

\* The same for four.
LEMMA Text4 ==
  ASSUME NEW a \in Nat, NEW b \in Nat, NEW c \in Nat, NEW d \in Nat, NEW v, v = <<a, b, c, d>>
  PROVE  v \in Seq(Nat) /\ Len(v) = 4 /\ v[1] = a /\ v[2] = b /\ v[3] = c /\ v[4] = d
OBVIOUS

\* A time in hundredths is its two digits.
LEMMA Hundredths ==
  ASSUME NEW t \in 0..99
  PROVE  t \div 10 \in 0..9 /\ t % 10 \in 0..9 /\ t = 10 * (t \div 10) + (t % 10)
OBVIOUS

\* Texts are compared where they first differ.
LEMMA TextsDiffer ==
  ASSUME NEW s \in Seq(Nat), NEW t \in Seq(Nat), NEW i \in 1..Len(s), i <= Len(t), s[i] # t[i], \A j \in 1..(i - 1) : s[j] = t[j]
  PROVE  TextBefore(s, t) <=> s[i] < t[i]
<1>1. s[i] < t[i] => TextBefore(s, t) BY DEF TextBefore
<1>2. ASSUME TextBefore(s, t) PROVE s[i] < t[i]
  <2>1. PICK k \in 1..Len(s) : k <= Len(t) /\ s[k] < t[k] /\ \A j \in 1..(k - 1) : s[j] = t[j] BY <1>2 DEF TextBefore
  <2>2. i \in Nat /\ k \in Nat /\ i >= 1 /\ k >= 1 /\ Len(s) \in Nat /\ Len(t) \in Nat /\ s[k] \in Nat /\ t[k] \in Nat BY <2>1
  <2>3. ~(i < k)
    <3>1. i < k => i \in 1..(k - 1) BY <2>2
    <3> QED BY <2>1, <3>1
  <2>4. ~(k < i)
    <3>1. k < i => k \in 1..(i - 1) BY <2>2
    <3>2. s[k] # t[k] BY <2>1, <2>2
    <3> QED BY <3>1, <3>2
  <2>5. i = k BY <2>2, <2>3, <2>4
  <2> QED BY <2>1, <2>5
<1> QED BY <1>1, <1>2

\* No text is before itself.
LEMMA TextSame == ASSUME NEW s \in Seq(Nat) PROVE ~TextBefore(s, s)
<1>1. \A i \in 1..Len(s) : s[i] \in Nat OBVIOUS
<1> QED BY <1>1 DEF TextBefore

\* RFC3339Nano keeps times apart, orders them by TextKey, and of the same length by time.
LEMMA TextOrder ==
  ASSUME NEW a \in 0..99, NEW b \in 0..99
  PROVE  /\ RFC3339Nano(a) \in Seq(Nat)
         /\ TextBefore(RFC3339Nano(a), RFC3339Nano(b)) <=> TextKey(a) < TextKey(b)
         /\ TextKey(a) \in Int
         /\ TextKey(a) = TextKey(b) => a = b
         /\ Len(RFC3339Nano(a)) = Len(RFC3339Nano(b)) => (TextKey(a) < TextKey(b) <=> a < b)
<1> DEFINE s == RFC3339Nano(a)
           t == RFC3339Nano(b)
           p == a \div 10
           q == a % 10
           x == b \div 10
           y == b % 10
<1>1. /\ p \in 0..9 /\ q \in 0..9 /\ a = 10 * p + q /\ x \in 0..9 /\ y \in 0..9 /\ b = 10 * x + y BY Hundredths
<1>2. a = 0 => s = <<11>> /\ TextKey(a) = 10000 BY DEF RFC3339Nano, TextKey
<1>3. a # 0 /\ q = 0 => s = <<0, 1 + p, 11>> /\ TextKey(a) = 12 * (1 + p) + 11 BY DEF RFC3339Nano, TextKey
<1>4. a # 0 /\ q # 0 => s = <<0, 1 + p, 1 + q, 11>> /\ TextKey(a) = 12 * (1 + p) + 1 + q BY DEF RFC3339Nano, TextKey
<1>5. b = 0 => t = <<11>> /\ TextKey(b) = 10000 BY DEF RFC3339Nano, TextKey
<1>6. b # 0 /\ y = 0 => t = <<0, 1 + x, 11>> /\ TextKey(b) = 12 * (1 + x) + 11 BY DEF RFC3339Nano, TextKey
<1>7. b # 0 /\ y # 0 => t = <<0, 1 + x, 1 + y, 11>> /\ TextKey(b) = 12 * (1 + x) + 1 + y BY DEF RFC3339Nano, TextKey
<1> HIDE DEF s, t, p, q, x, y
<1>8. a = 0 => s \in Seq(Nat) /\ Len(s) = 1 /\ s[1] = 11
  BY <1>2, Text1
<1>9. a # 0 /\ q = 0 => s \in Seq(Nat) /\ Len(s) = 3 /\ s[1] = 0 /\ s[2] = 1 + p /\ s[3] = 11
  BY <1>1, <1>3, Text3
<1>10. a # 0 /\ q # 0 => s \in Seq(Nat) /\ Len(s) = 4 /\ s[1] = 0 /\ s[2] = 1 + p /\ s[3] = 1 + q /\ s[4] = 11
  BY <1>1, <1>4, Text4
<1>11. b = 0 => t \in Seq(Nat) /\ Len(t) = 1 /\ t[1] = 11
  BY <1>5, Text1
<1>12. b # 0 /\ y = 0 => t \in Seq(Nat) /\ Len(t) = 3 /\ t[1] = 0 /\ t[2] = 1 + x /\ t[3] = 11
  BY <1>1, <1>6, Text3
<1>13. b # 0 /\ y # 0 => t \in Seq(Nat) /\ Len(t) = 4 /\ t[1] = 0 /\ t[2] = 1 + x /\ t[3] = 1 + y /\ t[4] = 11
  BY <1>1, <1>7, Text4
<1> DEFINE k == TextKey(a)
           m == TextKey(b)
<1>21. /\ a = 0 => k = 10000
       /\ a # 0 /\ q = 0 => k = 12 * (1 + p) + 11
       /\ a # 0 /\ q # 0 => k = 12 * (1 + p) + 1 + q
  BY <1>2, <1>3, <1>4
<1>22. /\ b = 0 => m = 10000
       /\ b # 0 /\ y = 0 => m = 12 * (1 + x) + 11
       /\ b # 0 /\ y # 0 => m = 12 * (1 + x) + 1 + y
  BY <1>5, <1>6, <1>7
<1> HIDE DEF k, m
<1>14. s \in Seq(Nat) /\ t \in Seq(Nat) BY <1>8, <1>9, <1>10, <1>11, <1>12, <1>13
<1>15. k \in Int /\ m \in Int BY <1>1, <1>21, <1>22
<1>16. k = m => a = b
  <2> QED BY <1>1, <1>21, <1>22
<1>17. Len(s) = Len(t) => (k < m <=> a < b)
  <2>1. (a = 0 => Len(s) = 1) /\ (a # 0 /\ q = 0 => Len(s) = 3) /\ (a # 0 /\ q # 0 => Len(s) = 4) BY <1>8, <1>9, <1>10
  <2>2. (b = 0 => Len(t) = 1) /\ (b # 0 /\ y = 0 => Len(t) = 3) /\ (b # 0 /\ y # 0 => Len(t) = 4) BY <1>11, <1>12, <1>13
  <2> SUFFICES ASSUME Len(s) = Len(t) PROVE k < m <=> a < b OBVIOUS
  <2>3. CASE a = 0 /\ b = 0 BY ONLY <1>21, <1>22, <2>3
  <2>4. CASE a # 0 /\ b # 0 /\ q = 0 /\ y = 0 BY ONLY <1>1, <1>21, <1>22, <2>4
  <2>5. CASE a # 0 /\ b # 0 /\ q # 0 /\ y # 0
    <3>1. k = 12 * (1 + p) + 1 + q /\ m = 12 * (1 + x) + 1 + y BY ONLY <1>21, <1>22, <2>5
    <3>2. p = x => (k < m <=> a < b) BY ONLY <1>1, <3>1
    <3>3. p < x => k < m /\ a < b BY ONLY <1>1, <3>1
    <3>4. x < p => m < k /\ b < a BY ONLY <1>1, <3>1
    <3>5. p < x \/ x < p \/ p = x BY ONLY <1>1
    <3>6. k \in Int /\ m \in Int /\ a \in Int /\ b \in Int BY <1>1, <3>1
    <3>7. m < k /\ b < a => ~(k < m) /\ ~(a < b) BY ONLY <3>6
    <3> QED BY ONLY <3>2, <3>3, <3>4, <3>5, <3>7, Zenon
  <2>6. \/ a = 0 /\ b = 0
        \/ a # 0 /\ b # 0 /\ q = 0 /\ y = 0
        \/ a # 0 /\ b # 0 /\ q # 0 /\ y # 0
    BY <2>1, <2>2
  <2> QED BY ONLY <2>3, <2>4, <2>5, <2>6, Zenon
<1>18. TextBefore(s, t) <=> k < m
  <2>1. CASE a = b
    BY <1>14, <1>15, <2>1, TextSame DEF s, t, k, m
  <2>2. CASE (a = 0 \/ b = 0) /\ a # b
    <3>1. s[1] # t[1] /\ 1 \in 1..Len(s) /\ 1 <= Len(t)
      <4>1. (a = 0 => Len(s) = 1 /\ s[1] = 11) /\ (a # 0 => Len(s) \in {3, 4} /\ s[1] = 0)
        BY ONLY <1>8, <1>9, <1>10
      <4>2. (b = 0 => Len(t) = 1 /\ t[1] = 11) /\ (b # 0 => Len(t) \in {3, 4} /\ t[1] = 0)
        BY ONLY <1>11, <1>12, <1>13
      <4> QED BY ONLY <2>2, <4>1, <4>2
    <3>2. TextBefore(s, t) <=> s[1] < t[1] BY <1>14, <3>1, TextsDiffer
    <3>3. CASE a = 0
      <4>1. s[1] = 11 /\ t[1] = 0 BY <2>2, <3>3, <1>8, <1>12, <1>13
      <4>2. k = 10000 BY ONLY <1>21, <3>3
      <4>3. b # 0 BY <2>2, <3>3
      <4>4. ~(k < m) BY ONLY <1>1, <1>22, <4>2, <4>3
      <4> QED BY ONLY <3>2, <4>1, <4>4
    <3>4. CASE b = 0
      <4>1. s[1] = 0 /\ t[1] = 11 BY <2>2, <3>4, <1>9, <1>10, <1>11
      <4>2. m = 10000 BY ONLY <1>22, <3>4
      <4>3. a # 0 BY <2>2, <3>4
      <4>4. k < m BY ONLY <1>1, <1>21, <4>2, <4>3
      <4> QED BY ONLY <3>2, <4>1, <4>4
    <3> QED BY <2>2, <3>3, <3>4
  <2>3. CASE a # 0 /\ b # 0 /\ p # x
    <3>1. s[1] = t[1] /\ s[2] = 1 + p /\ t[2] = 1 + x /\ 2 \in 1..Len(s) /\ 2 <= Len(t)
      BY <2>3, <1>9, <1>10, <1>12, <1>13
    <3>2. \A j \in 1..(2 - 1) : s[j] = t[j] BY <3>1
    <3>3. s[2] # t[2] BY <1>1, <2>3, <3>1
    <3>4. TextBefore(s, t) <=> s[2] < t[2] BY <1>14, <3>1, <3>2, <3>3, TextsDiffer
    <3>5. s[2] < t[2] <=> p < x BY ONLY <1>1, <3>1
    <3>6. p < x => k < m BY ONLY <1>1, <1>21, <1>22, <2>3
    <3>7. x < p => ~(k < m) BY ONLY <1>1, <1>21, <1>22, <2>3
    <3>8. p < x \/ x < p BY ONLY <1>1, <2>3
    <3>9. p < x => ~(x < p) BY ONLY <1>1
    <3> QED BY ONLY <3>4, <3>5, <3>6, <3>7, <3>8, <3>9, Zenon
  <2>4. CASE a # 0 /\ b # 0 /\ p = x /\ q # y
    <3>1. s[1] = t[1] /\ s[2] = t[2] /\ 3 \in 1..Len(s) /\ 3 <= Len(t)
      BY <1>1, <2>4, <1>9, <1>10, <1>12, <1>13
    <3>2. \A j \in 1..(3 - 1) : s[j] = t[j] BY <3>1
    <3>3. s[3] # t[3] BY <1>1, <2>4, <1>9, <1>10, <1>12, <1>13
    <3>4. TextBefore(s, t) <=> s[3] < t[3] BY <1>14, <3>1, <3>2, <3>3, TextsDiffer
    <3>5. s[3] = (IF q = 0 THEN 11 ELSE 1 + q) /\ t[3] = (IF y = 0 THEN 11 ELSE 1 + y)
      BY <2>4, <1>9, <1>10, <1>12, <1>13
    <3>6. k = 12 * (1 + p) + s[3] /\ m = 12 * (1 + p) + t[3]
      BY ONLY <1>1, <1>21, <1>22, <2>4, <3>5
    <3>7. s[3] \in Int /\ t[3] \in Int BY ONLY <1>1, <3>5
    <3>8. s[3] < t[3] <=> k < m BY ONLY <1>1, <3>6, <3>7
    <3> QED BY ONLY <3>4, <3>8, Zenon
  <2> QED BY <1>1, <2>1, <2>2, <2>3, <2>4
<1> QED BY <1>14, <1>15, <1>16, <1>17, <1>18 DEF s, t, k, m

\* Only published events are stored.
StoreInv == astore \subseteq AppEventIds

\* Nothing is stored at the start.
LEMMA StoreStart == AppInit => StoreInv
BY DEF AppInit, StoreInv

\* Only SaveEvent stores, and only a publisher's event.
LEMMA StoreStep == StoreInv /\ [AppNext]_avars => StoreInv'
<1> SUFFICES ASSUME StoreInv, [AppNext]_avars PROVE StoreInv' OBVIOUS
<1>1. \A u \in AppUsers : RegisterUser(u) \/ UpdateUser(u) \/ PublishCustom(u) => UNCHANGED astore
  BY DEF RegisterUser, UpdateUser, PublishCustom
<1>2. \A e \in AppEventIds : SaveEvent(e) => astore' \subseteq astore \cup {e}
  BY DEF SaveEvent
<1>3. \A e \in AppEventIds : OfferEvent(e) \/ RefuseEvent(e) \/ AnalyticsRead(e) \/ AnalyticsWrite(e) => UNCHANGED astore
  BY DEF OfferEvent, RefuseEvent, AnalyticsRead, AnalyticsWrite
<1>4. \A e \in AppEventIds : \A h \in AppHandlers : HandlerReturns(e, h) => UNCHANGED astore
  BY DEF HandlerReturns
<1>5. \A w \in AppWorkers : TakeEvent(w) \/ DispatchReturns(w) => UNCHANGED astore
  BY DEF TakeEvent, DispatchReturns
<1>6. Shutdown \/ StopWorkers \/ UNCHANGED avars => UNCHANGED astore
  BY DEF Shutdown, StopWorkers, avars
<1> QED BY <1>1, <1>2, <1>3, <1>4, <1>5, <1>6 DEF AppNext, StoreInv

\* The times of events are two digits in the order of their numbers.
LEMMA EventTimes ==
  /\ AppEventIds \subseteq Nat
  /\ \A d \in AppEventIds : AppTimes[d] \in 0..99
  /\ \A d, e \in AppEventIds : (AppTimes[d] < AppTimes[e] <=> d < e) /\ (AppTimes[d] = AppTimes[e] => d = e)
<1>1. AppEventIds \subseteq Nat BY AppEventsAssumption DEF AppEventIds
<1>2. \A d \in AppEventIds : AppTimes[d] \in 0..99
  <2>1. AppTimes \in Seq(0..99) /\ AppEventIds = 1..Len(AppTimes) BY AppEventsAssumption DEF AppEventIds
  <2> QED BY <2>1, ElementOfSeq
<1>3. \A d, e \in AppEventIds : d < e => AppTimes[d] < AppTimes[e] BY AppEventsAssumption DEF AppEventIds
<1>4. ASSUME NEW d \in AppEventIds, NEW e \in AppEventIds
      PROVE  (AppTimes[d] < AppTimes[e] <=> d < e) /\ (AppTimes[d] = AppTimes[e] => d = e)
  <2>1. d \in Nat /\ e \in Nat /\ AppTimes[d] \in 0..99 /\ AppTimes[e] \in 0..99 BY <1>1, <1>2
  <2>2. (d < e => AppTimes[d] < AppTimes[e]) /\ (e < d => AppTimes[e] < AppTimes[d]) BY <1>3
  <2> QED BY <2>1, <2>2
<1> QED BY <1>1, <1>2, <1>4

\* A list in the order of a key, with each place the row that has as many rows before it.
LEMMA Listed ==
  ASSUME NEW S, IsFiniteSet(S), NEW key \in [S -> Int], \A d, e \in S : key[d] = key[e] => d = e,
         NEW log, DOMAIN log = 1..Cardinality(S),
         \A i \in 1..Cardinality(S) :
           (\E e \in S : Cardinality(Below(S, key, e)) = i - 1)
           => log[i] \in S /\ Cardinality(Below(S, key, log[i])) = i - 1
  PROVE  /\ Range(log) = S
         /\ \A i, j \in DOMAIN log : i < j => key[log[i]] < key[log[j]]
<1> DEFINE n == Cardinality(S)
<1>1. n \in Nat BY FS_CardinalityType
<1>0. \A e \in S : Cardinality(Below(S, key, e)) \in Nat
  <2>1. \A e \in S : Below(S, key, e) \subseteq S BY DEF Below
  <2> QED BY <2>1, FS_Subset, FS_CardinalityType
<1>2. PICK r \in [S -> Nat] : \A e \in S : r[e] = Cardinality(Below(S, key, e))
  <2> DEFINE f == [e \in S |-> Cardinality(Below(S, key, e))]
  <2>1. f \in [S -> Nat] /\ \A e \in S : f[e] = Cardinality(Below(S, key, e)) BY <1>0
  <2> QED BY <2>1
<1>3. /\ r \in [S -> 0..(n - 1)]
      /\ \A d, e \in S : key[d] < key[e] => r[d] < r[e]
      /\ \A k \in 0..(n - 1) : \E e \in S : r[e] = k
  <2>1. IsFiniteSet(S) /\ key \in [S -> Int] /\ \A d, e \in S : key[d] = key[e] => d = e OBVIOUS
  <2>2. r \in [S -> Nat] /\ \A e \in S : r[e] = Cardinality(Below(S, key, e)) BY <1>2
  <2>3. r \in [S -> 0..(n - 1)] BY ONLY <2>1, <2>2, Ranked
  <2>4. \A d, e \in S : key[d] < key[e] => r[d] < r[e] BY ONLY <2>1, <2>2, Ranked
  <2>5. \A k \in 0..(n - 1) : \E e \in S : r[e] = k BY ONLY <2>1, <2>2, Ranked
  <2> QED BY <2>3, <2>4, <2>5
<1>4. DOMAIN log = 1..n OBVIOUS
<1>5. ASSUME NEW i \in 1..n PROVE log[i] \in S /\ r[log[i]] = i - 1
  <2> HIDE DEF n
  <2>2. i - 1 \in 0..(n - 1) BY <1>1
  <2>3. \E e \in S : r[e] = i - 1 BY <1>3, <2>2
  <2>4. \E e \in S : Cardinality(Below(S, key, e)) = i - 1 BY <1>2, <2>3
  <2>5. log[i] \in S /\ Cardinality(Below(S, key, log[i])) = i - 1 BY <2>4 DEF n
  <2> QED BY <1>2, <2>5
<1> HIDE DEF n
<1>6. \A d, e \in S : r[d] = r[e] => d = e
  <2> SUFFICES ASSUME NEW d \in S, NEW e \in S, r[d] = r[e], d # e PROVE FALSE OBVIOUS
  <2>1. key[d] # key[e] /\ key[d] \in Int /\ key[e] \in Int OBVIOUS
  <2>2. key[d] < key[e] \/ key[e] < key[d] BY <2>1
  <2>3. r[d] < r[e] \/ r[e] < r[d] BY <1>3, <2>2
  <2> QED BY <1>1, <1>3, <2>3
<1>7. ASSUME NEW e \in S PROVE \E i \in 1..n : log[i] = e
  <2>1. r[e] \in 0..(n - 1) BY <1>3
  <2>2. r[e] + 1 \in 1..n /\ (r[e] + 1) - 1 = r[e] BY <1>1, <2>1
  <2>3. log[r[e] + 1] \in S /\ r[log[r[e] + 1]] = r[e] BY <1>5, <2>2
  <2> QED BY <1>6, <2>2, <2>3
<1>8. Range(log) = S
  <2>1. \A e \in Range(log) : e \in S BY <1>4, <1>5 DEF Range
  <2>2. \A e \in S : e \in Range(log) BY <1>4, <1>7 DEF Range
  <2> QED BY <2>1, <2>2
<1>9. ASSUME NEW i \in 1..n, NEW j \in 1..n, i < j PROVE key[log[i]] < key[log[j]]
  <2>1. log[i] \in S /\ log[j] \in S /\ r[log[i]] = i - 1 /\ r[log[j]] = j - 1 BY <1>5
  <2>2. r[log[i]] < r[log[j]] BY <1>1, <1>9, <2>1
  <2>3. key[log[i]] \in Int /\ key[log[j]] \in Int BY <2>1
  <2>4. ~(key[log[j]] < key[log[i]])
    <3> SUFFICES ASSUME key[log[j]] < key[log[i]] PROVE FALSE OBVIOUS
    <3>1. r[log[j]] < r[log[i]] BY <1>3, <2>1
    <3> QED BY <1>1, <1>9, <2>1, <3>1
  <2>5. key[log[i]] # key[log[j]]
    <3> SUFFICES ASSUME key[log[i]] = key[log[j]] PROVE FALSE OBVIOUS
    <3>1. log[i] = log[j] BY <2>1
    <3> QED BY <1>1, <1>9, <2>1, <3>1
  <2> QED BY <2>3, <2>4, <2>5
<1> QED BY <1>4, <1>8, <1>9

\* What each store replays is sorted and complete.
LEMMA ReplayPromise == StoreInv => ReplayInOrder
<1> SUFFICES ASSUME StoreInv PROVE ReplayInOrder OBVIOUS
<1>1. astore \subseteq AppEventIds /\ IsFiniteSet(AppEventIds)
  <2>1. AppEventIds = 1..Len(AppTimes) /\ Len(AppTimes) \in Nat BY AppEventsAssumption DEF AppEventIds
  <2> QED BY <2>1, FS_Interval DEF StoreInv
<1> DEFINE text(e) == RFC3339Nano(AppTimes[e])
<1>2. \A d, e \in AppEventIds : TextBefore(text(d), text(e)) <=> TextKey(AppTimes[d]) < TextKey(AppTimes[e])
  BY EventTimes, TextOrder
<1>3. \A d, e \in AppEventIds : TextKey(AppTimes[d]) \in Int /\ (TextKey(AppTimes[d]) = TextKey(AppTimes[e]) => d = e)
  BY EventTimes, TextOrder
<1>4. \A d, e \in AppEventIds : Len(text(d)) = Len(text(e)) => (TextKey(AppTimes[d]) < TextKey(AppTimes[e]) <=> d < e)
  BY EventTimes, TextOrder
<1>5. ASSUME NEW u \in AppUsers
      PROVE  /\ Range(SQLiteLoadByAggregate(u)) = MemoryLoadByAggregate(u)
             /\ MongoLoadByAggregate(u) \subseteq Range(SQLiteLoadByAggregate(u))
             /\ \A i, j \in DOMAIN SQLiteLoadByAggregate(u) :
                  i < j /\ Len(text(SQLiteLoadByAggregate(u)[i])) = Len(text(SQLiteLoadByAggregate(u)[j]))
                  => SQLiteLoadByAggregate(u)[i] < SQLiteLoadByAggregate(u)[j]
  <2> DEFINE S == OfAggregate(u)
             K == [e \in S |-> TextKey(AppTimes[e])]
             log == SQLiteLoadByAggregate(u)
  <2>1. S \subseteq AppEventIds /\ IsFiniteSet(S) BY <1>1, FS_Subset DEF OfAggregate
  <2>2. log = [i \in 1..Cardinality(S) |-> CHOOSE e \in S : Cardinality({d \in S : TextBefore(text(d), text(e))}) = i - 1]
    BY DEF SQLiteLoadByAggregate, OrderedBy
  <2>3. MemoryLoadByAggregate(u) = S /\ MongoLoadByAggregate(u) \subseteq S
    BY Zenon DEF MemoryLoadByAggregate, MongoLoadByAggregate
  <2> HIDE DEF S, log, text
  <2>4. K \in [S -> Int] /\ \A d, e \in S : K[d] = K[e] => d = e BY <1>3, <2>1
  <2>6. \A e \in S : {d \in S : TextBefore(text(d), text(e))} = Below(S, K, e) BY <1>2, <2>1 DEF Below
  <2>8. \A e \in S : K[e] = TextKey(AppTimes[e]) OBVIOUS
  <2> HIDE DEF K
  <2>9. DOMAIN log = 1..Cardinality(S) BY <2>2
  <2>10. ASSUME NEW i \in 1..Cardinality(S)
         PROVE  (\E e \in S : Cardinality(Below(S, K, e)) = i - 1)
                  => log[i] \in S /\ Cardinality(Below(S, K, log[i])) = i - 1
    <3>1. log[i] = CHOOSE e \in S : Cardinality({d \in S : TextBefore(text(d), text(e))}) = i - 1 BY <2>2
    <3>3. (\E e \in S : Cardinality({d \in S : TextBefore(text(d), text(e))}) = i - 1)
            => log[i] \in S /\ Cardinality({d \in S : TextBefore(text(d), text(log[i]))}) = i - 1
      BY ONLY <3>1, Zenon
    <3> QED BY <2>6, <3>3
  <2>11. Range(log) = S /\ \A i, j \in DOMAIN log : i < j => K[log[i]] < K[log[j]] BY <2>1, <2>4, <2>9, <2>10, Listed
  <2>13. ASSUME NEW i \in DOMAIN log, NEW j \in DOMAIN log, i < j, Len(text(log[i])) = Len(text(log[j])) PROVE log[i] < log[j]
    <3>1. log[i] \in S /\ log[j] \in S BY <2>11 DEF Range
    <3>2. K[log[i]] < K[log[j]] BY <2>11, <2>13
    <3> QED BY <1>4, <2>1, <2>8, <2>13, <3>1, <3>2
  <2> QED BY <2>3, <2>11, <2>13 DEF log
<1>6. ASSUME NEW e \in astore
      PROVE  /\ MemoryLoadSince(e) \cup {e} \subseteq MongoLoadSince(e)
             /\ \A d \in MongoLoadSince(e) : d >= e \/ Milliseconds(AppTimes[d]) = Milliseconds(AppTimes[e])
             /\ \A d \in astore : Len(text(d)) = Len(text(e)) => (d \in SQLiteLoadSince(e) <=> d >= e)
  <2>1. \A d \in astore : d \in AppEventIds /\ d \in Nat /\ AppTimes[d] \in 0..99 BY <1>1, EventTimes
  <2>2. ASSUME NEW d \in astore
        PROVE  /\ AppTimes[d] >= AppTimes[e] => Milliseconds(AppTimes[d]) >= Milliseconds(AppTimes[e])
               /\ Milliseconds(AppTimes[d]) >= Milliseconds(AppTimes[e])
                  => d >= e \/ Milliseconds(AppTimes[d]) = Milliseconds(AppTimes[e])
    <3> DEFINE a == AppTimes[d]
               b == AppTimes[e]
    <3>1. a \in 0..99 /\ b \in 0..99 /\ d \in Nat /\ e \in Nat BY <2>1
    <3>2. a < b <=> d < e BY <2>1, EventTimes
    <3> HIDE DEF a, b
    <3>3. a >= b => a \div 10 >= b \div 10 BY ONLY <3>1
    <3>4. a < b => a \div 10 <= b \div 10 BY ONLY <3>1
    <3>5. a \div 10 \in Int /\ b \div 10 \in Int BY ONLY <3>1
    <3>6. a \div 10 >= b \div 10 => d >= e \/ a \div 10 = b \div 10 BY ONLY <3>1, <3>2, <3>4, <3>5
    <3> QED BY <3>3, <3>6 DEF Milliseconds, a, b
  <2>4. ASSUME NEW d \in MemoryLoadSince(e) \cup {e} PROVE d \in astore /\ AppTimes[d] >= AppTimes[e]
    <3>1. d \in astore /\ (d = e \/ AppTimes[d] > AppTimes[e]) BY DEF MemoryLoadSince
    <3>2. AppTimes[d] \in 0..99 /\ AppTimes[e] \in 0..99 BY <2>1, <3>1
    <3> QED BY <3>1, <3>2
  <2>5. MemoryLoadSince(e) \cup {e} \subseteq MongoLoadSince(e) BY <2>2, <2>4 DEF MongoLoadSince
  <2>6. \A d \in MongoLoadSince(e) : d >= e \/ Milliseconds(AppTimes[d]) = Milliseconds(AppTimes[e])
    BY <2>2 DEF MongoLoadSince
  <2>3. ASSUME NEW d \in astore, Len(text(d)) = Len(text(e)) PROVE d \in SQLiteLoadSince(e) <=> d >= e
    <3>1. TextBefore(text(d), text(e)) <=> d < e BY <1>2, <1>4, <2>1, <2>3
    <3>2. d \in SQLiteLoadSince(e) <=> ~TextBefore(text(d), text(e)) BY DEF SQLiteLoadSince
    <3> QED BY <2>1, <3>1, <3>2
  <2> QED BY <2>3, <2>5, <2>6
<1> QED BY <1>5, <1>6 DEF ReplayInOrder

-----------------------------------------------------------------------------
(* The WebSocket hub                                                       *)

HubPeer == [reader : {"none", "register", "read", "unregister", "gone"}, room : Rooms \cup {All}, queued : Nat,
            closed : BOOLEAN, writing : BOOLEAN]

\* The hub knows a client from its registration to its departure, and closes its
\* channel when it departs; members of rooms are known clients.
HubInv ==
  /\ hset \in HubSetups
  /\ hub \in [clients : SUBSET HubClients, rooms : [Rooms -> SUBSET HubClients], broadcast : Seq(Rooms \cup {All}),
              pc : {"run", "stuck"}, sent : Nat]
  /\ peer \in [HubClients -> HubPeer]
  /\ \A c \in HubClients : c \in hub.clients <=> peer[c].reader \in {"read", "unregister"}
  /\ \A c \in HubClients : peer[c].closed <=> peer[c].reader = "gone"
  /\ \A r \in Rooms : hub.rooms[r] \subseteq hub.clients

\* The hub starts without clients.
LEMMA HubStart == HubInit => HubInv
<1> SUFFICES ASSUME HubInit PROVE HubInv OBVIOUS
<1>1. NoPeer \in HubPeer /\ NoPeer.reader = "none" /\ NoPeer.closed = FALSE BY DEF NoPeer, HubPeer
<1>2. hub \in [clients : SUBSET HubClients, rooms : [Rooms -> SUBSET HubClients], broadcast : Seq(Rooms \cup {All}),
              pc : {"run", "stuck"}, sent : Nat]
  BY DEF HubInit
<1>3. \A c \in HubClients : peer[c] = NoPeer BY DEF HubInit
<1>4. peer \in [HubClients -> HubPeer] BY <1>1 DEF HubInit
<1>5. hub.clients = {} /\ \A r \in Rooms : hub.rooms[r] = {} BY DEF HubInit
<1> QED BY <1>1, <1>2, <1>3, <1>4, <1>5 DEF HubInv, HubInit

\* A known client has not departed, so its channel is open.
LEMMA HubPromise == HubInv => NoSendOnClosed
<1> SUFFICES ASSUME HubInv PROVE NoSendOnClosed OBVIOUS
<1>1. hub.pc # "panic" /\ hub.clients \subseteq HubClients BY DEF HubInv
<1>2. \A c \in hub.clients : ~peer[c].closed BY <1>1 DEF HubInv
<1> QED BY <1>1, <1>2 DEF HubInv, NoSendOnClosed

\* One client changes, and the hub with it as far as it knows the client.
LEMMA OnePeer ==
  ASSUME HubInv, NEW c \in HubClients, NEW v \in HubPeer, peer' = [peer EXCEPT ![c] = v], UNCHANGED <<hset, hub>>,
         v.reader \in {"read", "unregister"} <=> peer[c].reader \in {"read", "unregister"},
         v.closed <=> v.reader = "gone"
  PROVE  HubInv'
<1>1. peer' \in [HubClients -> HubPeer] /\ \A d \in HubClients : peer'[d] = IF d = c THEN v ELSE peer[d] BY DEF HubInv
<1>2. \A d \in HubClients : d \in hub'.clients <=> peer'[d].reader \in {"read", "unregister"} BY <1>1 DEF HubInv
<1>3. \A d \in HubClients : peer'[d].closed <=> peer'[d].reader = "gone" BY <1>1 DEF HubInv
<1> QED BY <1>1, <1>2, <1>3 DEF HubInv

\* A connecting client is not yet known.
LEMMA HandleWebSocketKeeps ==
  ASSUME HubInv, NEW c \in HubClients, NEW r \in Rooms, HandleWebSocket(c, r) PROVE HubInv'
<1> DEFINE v == [NoPeer EXCEPT !.reader = "register", !.room = IF hset.version = "08" THEN r ELSE All]
<1>1. v \in HubPeer /\ v.reader = "register" /\ v.closed = FALSE BY DEF NoPeer, HubPeer
<1>2. peer[c].reader = "none" /\ peer' = [peer EXCEPT ![c] = v] /\ UNCHANGED <<hset, hub>> BY DEF HandleWebSocket
<1> HIDE DEF v
<1> QED BY <1>1, <1>2, OnePeer

\* Only a client that reads, and so is known, joins or leaves a room.
LEMMA RoomsKeep ==
  ASSUME HubInv, NEW c \in HubClients, NEW r \in Rooms, JoinRoom(c, r) \/ LeaveRoom(c, r) PROVE HubInv'
<1>1. peer[c].reader = "read" /\ UNCHANGED <<hset, peer>> BY DEF JoinRoom, LeaveRoom, Live
<1>2. c \in hub.clients BY <1>1 DEF HubInv
<1>3. PICK S \in {hub.rooms[r] \cup {c}, hub.rooms[r] \ {c}} : hub' = [hub EXCEPT !.rooms[r] = S]
  BY DEF JoinRoom, LeaveRoom
<1>4. hub.rooms \in [Rooms -> SUBSET HubClients] /\ S \subseteq hub.clients /\ S \subseteq HubClients BY <1>2 DEF HubInv
<1> DEFINE R == [hub.rooms EXCEPT ![r] = S]
<1>5. hub' = [hub EXCEPT !.rooms = R] BY <1>3
<1>6. R \in [Rooms -> SUBSET HubClients] /\ \A q \in Rooms : R[q] \subseteq hub.clients BY <1>4 DEF HubInv
<1> HIDE DEF R
<1>7. /\ hub' \in [clients : SUBSET HubClients, rooms : [Rooms -> SUBSET HubClients], broadcast : Seq(Rooms \cup {All}),
                   pc : {"run", "stuck"}, sent : Nat]
      /\ hub'.clients = hub.clients /\ hub'.rooms = R
  BY <1>5, <1>6 DEF HubInv
<1> QED BY <1>1, <1>6, <1>7 DEF HubInv

\* A message queued for Run changes no client.
LEMMA SendBroadcastKeeps ==
  ASSUME HubInv, NEW to \in Rooms \cup {All}, SendBroadcast(to) PROVE HubInv'
<1>1. UNCHANGED <<hset, peer>> /\ hub' = [hub EXCEPT !.broadcast = Append(@, to), !.sent = @ + 1] BY DEF SendBroadcast
<1>2. hub.broadcast \in Seq(Rooms \cup {All}) /\ hub.sent \in Nat BY DEF HubInv
<1>3. Append(hub.broadcast, to) \in Seq(Rooms \cup {All}) /\ hub.sent + 1 \in Nat BY <1>2
<1>4. /\ hub' \in [clients : SUBSET HubClients, rooms : [Rooms -> SUBSET HubClients], broadcast : Seq(Rooms \cup {All}),
                   pc : {"run", "stuck"}, sent : Nat]
      /\ hub'.clients = hub.clients /\ hub'.rooms = hub.rooms
  BY <1>1, <1>3 DEF HubInv
<1> QED BY <1>1, <1>4 DEF HubInv

\* A message read from a client is queued for its room or for a room it names.
LEMMA ReadMessageKeeps == ASSUME HubInv, NEW c \in HubClients, ReadMessage(c) PROVE HubInv'
<1>1. peer[c].room \in Rooms \cup {All} BY DEF HubInv, HubPeer
<1> QED BY <1>1, SendBroadcastKeeps DEF ReadMessage

\* The reader's and the writer's own steps.
LEMMA PumpsKeep ==
  ASSUME HubInv, NEW c \in HubClients, Pong(c) \/ ReadFails(c) \/ WriteMessage(c) PROVE HubInv'
<1>1. UNCHANGED <<hset, hub>> BY DEF Pong, ReadFails, WriteMessage
<1>2. peer[c] \in HubPeer /\ (peer[c].closed <=> peer[c].reader = "gone") BY DEF HubInv
<1>3. ASSUME NEW n \in Nat, peer' = [peer EXCEPT ![c].queued = n] PROVE HubInv'
  <2> DEFINE v == [peer[c] EXCEPT !.queued = n]
  <2>1. v \in HubPeer /\ v.reader = peer[c].reader /\ v.closed = peer[c].closed BY <1>2 DEF HubPeer
  <2>2. peer' = [peer EXCEPT ![c] = v] BY <1>3
  <2> HIDE DEF v
  <2> QED BY <1>1, <1>2, <2>1, <2>2, OnePeer
<1>4. ASSUME peer' = [peer EXCEPT ![c].writing = FALSE] PROVE HubInv'
  <2> DEFINE v == [peer[c] EXCEPT !.writing = FALSE]
  <2>1. v \in HubPeer /\ v.reader = peer[c].reader /\ v.closed = peer[c].closed BY <1>2 DEF HubPeer
  <2>2. peer' = [peer EXCEPT ![c] = v] BY <1>4
  <2> HIDE DEF v
  <2> QED BY <1>1, <1>2, <2>1, <2>2, OnePeer
<1>5. CASE Pong(c)
  <2>1. peer[c].queued + 1 \in Nat BY <1>2 DEF HubPeer
  <2>2. peer' = [peer EXCEPT ![c].queued = peer[c].queued + 1] BY <1>5 DEF Pong
  <2> QED BY <1>3, <2>1, <2>2
<1>6. CASE ReadFails(c)
  <2> DEFINE v == [peer[c] EXCEPT !.reader = "unregister"]
  <2>1. peer[c].reader = "read" /\ peer' = [peer EXCEPT ![c] = v] BY <1>6 DEF ReadFails, Live
  <2>2. v \in HubPeer /\ v.reader = "unregister" /\ v.closed = peer[c].closed BY <1>2 DEF HubPeer
  <2> HIDE DEF v
  <2> QED BY <1>1, <1>2, <2>1, <2>2, OnePeer
<1>7. CASE WriteMessage(c)
  <2>1. CASE peer[c].queued > 0 /\ peer' = [peer EXCEPT ![c].queued = @ - 1]
    <3>1. peer[c].queued \in Nat BY <1>2 DEF HubPeer
    <3>2. peer[c].queued - 1 \in Nat /\ peer' = [peer EXCEPT ![c].queued = peer[c].queued - 1] BY <2>1, <3>1
    <3> QED BY <1>3, <3>2
  <2>2. CASE ~peer[c].closed /\ peer' = [peer EXCEPT ![c].writing = FALSE,
                                                      ![c].reader = IF Live(c) THEN "unregister" ELSE @]
    <3> DEFINE s == IF Live(c) THEN "unregister" ELSE peer[c].reader
    <3> DEFINE v == [peer[c] EXCEPT !.writing = FALSE, !.reader = s]
    <3>1. s \in {"none", "register", "read", "unregister", "gone"} /\ (s \in {"read", "unregister"} <=> peer[c].reader \in {"read", "unregister"})
          /\ s # "gone"
      BY <1>2, <2>2 DEF HubPeer, Live
    <3>2. peer' = [peer EXCEPT ![c] = v] BY <2>2
    <3> HIDE DEF s
    <3>3. v \in HubPeer /\ v.reader = s /\ v.closed = peer[c].closed BY <1>2, <3>1 DEF HubPeer
    <3> HIDE DEF v
    <3> QED BY <1>1, <1>2, <2>2, <3>1, <3>2, <3>3, OnePeer
  <2> QED BY <1>4, <1>7, <2>1, <2>2 DEF WriteMessage
<1> QED BY <1>5, <1>6, <1>7

\* Registration and departure change hub and client together.
LEMMA RegistersKeep ==
  ASSUME HubInv, NEW c \in HubClients, RegisterClient(c) \/ UnregisterClient(c) PROVE HubInv'
<1>1. peer[c] \in HubPeer /\ (peer[c].closed <=> peer[c].reader = "gone") BY DEF HubInv
<1>2. hub.clients \subseteq HubClients /\ hub.rooms \in [Rooms -> SUBSET HubClients] BY DEF HubInv
<1>3. CASE RegisterClient(c)
  <2> DEFINE v == [peer[c] EXCEPT !.reader = "read", !.writing = TRUE]
  <2> DEFINE C == hub.clients \cup {c}
  <2> DEFINE R == [r \in Rooms |-> IF r = peer[c].room THEN hub.rooms[r] \cup {c} ELSE hub.rooms[r]]
  <2>1. peer[c].reader = "register" /\ peer' = [peer EXCEPT ![c] = v] /\ hset' = hset
        /\ hub' = [hub EXCEPT !.clients = C, !.rooms = R]
    BY <1>3 DEF RegisterClient
  <2>2. v \in HubPeer /\ v.reader = "read" /\ v.closed = peer[c].closed BY <1>1 DEF HubPeer
  <2>3. C \subseteq HubClients /\ R \in [Rooms -> SUBSET HubClients] /\ \A r \in Rooms : R[r] \subseteq C
    BY <1>2 DEF HubInv
  <2> HIDE DEF v, R
  <2>4. /\ hub' \in [clients : SUBSET HubClients, rooms : [Rooms -> SUBSET HubClients], broadcast : Seq(Rooms \cup {All}),
                     pc : {"run", "stuck"}, sent : Nat]
        /\ hub'.clients = C /\ hub'.rooms = R
    BY <2>1, <2>3 DEF HubInv
  <2>5. peer' \in [HubClients -> HubPeer] /\ \A d \in HubClients : peer'[d] = IF d = c THEN v ELSE peer[d]
    BY <2>1, <2>2 DEF HubInv
  <2>6. \A d \in HubClients : d \in C <=> peer'[d].reader \in {"read", "unregister"} BY <2>2, <2>5 DEF HubInv
  <2>7. \A d \in HubClients : peer'[d].closed <=> peer'[d].reader = "gone" BY <1>1, <2>1, <2>2, <2>5 DEF HubInv
  <2> QED BY <2>1, <2>3, <2>4, <2>5, <2>6, <2>7 DEF HubInv
<1>4. CASE UnregisterClient(c)
  <2> DEFINE v == [peer[c] EXCEPT !.reader = "gone", !.closed = TRUE]
  <2> DEFINE C == hub.clients \ {c}
  <2> DEFINE R == [r \in Rooms |-> hub.rooms[r] \ {c}]
  <2>1. peer' = [peer EXCEPT ![c] = v] /\ hset' = hset /\ hub' = [hub EXCEPT !.clients = C, !.rooms = R]
    BY <1>4 DEF UnregisterClient, WithoutClient
  <2>2. v \in HubPeer /\ v.reader = "gone" /\ v.closed = TRUE BY <1>1 DEF HubPeer
  <2>3. C \subseteq HubClients /\ R \in [Rooms -> SUBSET HubClients] /\ \A r \in Rooms : R[r] \subseteq C
    BY <1>2 DEF HubInv
  <2> HIDE DEF v, R
  <2>4. /\ hub' \in [clients : SUBSET HubClients, rooms : [Rooms -> SUBSET HubClients], broadcast : Seq(Rooms \cup {All}),
                     pc : {"run", "stuck"}, sent : Nat]
        /\ hub'.clients = C /\ hub'.rooms = R
    BY <2>1, <2>3 DEF HubInv
  <2>5. peer' \in [HubClients -> HubPeer] /\ \A d \in HubClients : peer'[d] = IF d = c THEN v ELSE peer[d]
    BY <2>1, <2>2 DEF HubInv
  <2>6. \A d \in HubClients : d \in C <=> peer'[d].reader \in {"read", "unregister"} BY <2>2, <2>5 DEF HubInv
  <2>7. \A d \in HubClients : peer'[d].closed <=> peer'[d].reader = "gone" BY <2>2, <2>5 DEF HubInv
  <2> QED BY <2>1, <2>3, <2>4, <2>5, <2>6, <2>7 DEF HubInv
<1> QED BY <1>3, <1>4

\* A broadcast reaches only known clients, none of whose channels is closed.
LEMMA BroadcastKeeps == ASSUME HubInv, BroadcastMessage PROVE HubInv'
<1> DEFINE to == Targets(Head(hub.broadcast))
<1>1. hub.broadcast \in Seq(Rooms \cup {All}) /\ hub.broadcast # <<>> /\ hset' = hset BY DEF BroadcastMessage, HubInv
<1>2. Head(hub.broadcast) \in Rooms \cup {All} /\ Tail(hub.broadcast) \in Seq(Rooms \cup {All}) BY <1>1, HeadTailProperties
<1>3. to \subseteq hub.clients /\ hub.clients \subseteq HubClients BY <1>2 DEF Targets, HubInv
<1>4. ~\E c \in to : peer[c].closed BY <1>3 DEF HubInv
<1> DEFINE full == {c \in to : peer[c].queued >= hset.cap}
<1> DEFINE stuck == hset.version = "08" /\ full # {}
<1> DEFINE p == IF stuck THEN "stuck" ELSE "run"
<1>11. PICK reached \in (IF stuck THEN SUBSET (to \ full) ELSE {to \ full}) :
        /\ hub' = [hub EXCEPT !.broadcast = Tail(@),
                              !.pc = IF \E c \in to : peer[c].closed THEN "panic" ELSE IF stuck THEN "stuck" ELSE @]
        /\ peer' = [c \in HubClients |-> IF c \in reached THEN [peer[c] EXCEPT !.queued = @ + 1] ELSE peer[c]]
  BY DEF BroadcastMessage
<1>12. hub.pc = "run" BY DEF BroadcastMessage, HubRuns
<1> HIDE DEF full, to
<1>13. hub' = [hub EXCEPT !.broadcast = Tail(@), !.pc = p] BY <1>4, <1>11, <1>12
<1>14. p \in {"run", "stuck"} OBVIOUS
<1> HIDE DEF stuck, p
<1>5. /\ hub' = [hub EXCEPT !.broadcast = Tail(@), !.pc = p]
      /\ peer' = [c \in HubClients |-> IF c \in reached THEN [peer[c] EXCEPT !.queued = @ + 1] ELSE peer[c]]
  BY <1>11, <1>13
<1>6. /\ hub' \in [clients : SUBSET HubClients, rooms : [Rooms -> SUBSET HubClients], broadcast : Seq(Rooms \cup {All}),
                   pc : {"run", "stuck"}, sent : Nat]
      /\ hub'.clients = hub.clients /\ hub'.rooms = hub.rooms
  BY <1>2, <1>5, <1>14 DEF HubInv
<1>7. ASSUME NEW c \in HubClients
      PROVE  peer'[c] \in HubPeer /\ peer'[c].reader = peer[c].reader /\ peer'[c].closed = peer[c].closed
  <2>1. peer[c] \in HubPeer BY DEF HubInv
  <2>2. CASE c \in reached
    <3>1. peer'[c] = [peer[c] EXCEPT !.queued = @ + 1] BY <1>5, <2>2
    <3> QED BY <2>1, <3>1 DEF HubPeer
  <2>3. CASE c \notin reached
    <3>1. peer'[c] = peer[c] BY <1>5, <2>3
    <3> QED BY <2>1, <3>1
  <2> QED BY <2>2, <2>3
<1>8. DOMAIN peer' = HubClients /\ peer' = [c \in HubClients |-> peer'[c]] BY <1>5
<1>9. peer' \in [HubClients -> HubPeer] BY <1>7, <1>8
<1> QED BY <1>1, <1>6, <1>7, <1>9 DEF HubInv

\* No step of the hub breaks its invariant.
LEMMA HubStep == HubInv /\ [HubNext]_hvars => HubInv'
<1> SUFFICES ASSUME HubInv, [HubNext]_hvars PROVE HubInv' OBVIOUS
<1>1. CASE UNCHANGED hvars BY <1>1 DEF hvars, HubInv
<1>2. CASE HubNext
  <2>1. ASSUME NEW c \in HubClients, NEW r \in Rooms, HandleWebSocket(c, r) PROVE HubInv' BY <2>1, HandleWebSocketKeeps
  <2>2. ASSUME NEW c \in HubClients, NEW r \in Rooms, JoinRoom(c, r) \/ LeaveRoom(c, r) PROVE HubInv' BY <2>2, RoomsKeep
  <2>3. ASSUME NEW c \in HubClients, ReadMessage(c) PROVE HubInv' BY <2>3, ReadMessageKeeps
  <2>4. ASSUME NEW c \in HubClients, Pong(c) \/ ReadFails(c) \/ WriteMessage(c) PROVE HubInv' BY <2>4, PumpsKeep
  <2>5. ASSUME NEW c \in HubClients, RegisterClient(c) \/ UnregisterClient(c) PROVE HubInv' BY <2>5, RegistersKeep
  <2>6. ASSUME NEW r \in Rooms, handleTaskEvent(r) \/ handleCommentEvent(r) PROVE HubInv'
    BY <2>6, SendBroadcastKeeps DEF handleTaskEvent, handleCommentEvent
  <2>7. CASE BroadcastMessage BY <2>7, BroadcastKeeps
  <2> QED BY <1>2, <2>1, <2>2, <2>3, <2>4, <2>5, <2>6, <2>7 DEF HubNext
<1> QED BY <1>1, <1>2

-----------------------------------------------------------------------------
(* Repositories and their twins                                            *)

TwinRows == [owner : RUsers, name : {"x", "y"}]

\* A store of rows with the columns the calls write.
TwinStore(s) ==
  /\ DOMAIN s = RepoKinds
  /\ \A t \in RepoKinds : IsFiniteSet(DOMAIN s[t])
  /\ \A k \in DOMAIN s["workspace"] : s["workspace"][k] \in TwinRows
  /\ \A t \in {"task", "comment", "export"} : \A k \in DOMAIN s[t] : s[t][k] \in Rows

TwinInv == TwinStore(rdb) /\ rmap = rdb /\ rsame = TRUE

\* Both stores start empty.
LEMMA TwinStart == RepoInit => TwinInv
<1> SUFFICES ASSUME RepoInit PROVE TwinInv OBVIOUS
<1>1. DOMAIN rdb = RepoKinds /\ \A t \in RepoKinds : DOMAIN rdb[t] = {} BY DEF RepoInit, EmptyStore, EmptyTable
<1>2. IsFiniteSet({}) BY FS_EmptySet
<1> QED BY <1>1, <1>2 DEF RepoInit, TwinInv, TwinStore, RepoKinds

\* A page of the sorted rows is as long as a slice of the unsorted ones.
LEMMA PagesAlike ==
  ASSUME NEW ids, IsFiniteSet(ids), NEW limit \in Nat, limit > 0, NEW offset \in Nat
  PROVE  Len(Limited(ids, limit, offset)) = Sliced(ids, limit, offset)
<1> DEFINE n == Cardinality(ids)
<1> DEFINE end == offset + limit
<1> DEFINE last == IF end < n THEN end ELSE n
<1> DEFINE s == NewestFirst(ids)
<1>1. n \in Nat BY FS_CardinalityType
<1>2. Limited(ids, limit, offset) = SubSeq(s, offset + 1, last)
  <2>1. (IF limit <= 0 THEN 20 ELSE limit) = limit OBVIOUS
  <2>2. Limited(ids, limit, offset) =
          SubSeq(s, offset + 1, IF offset + (IF limit <= 0 THEN 20 ELSE limit) < n
                                THEN offset + (IF limit <= 0 THEN 20 ELSE limit) ELSE n)
    BY Zenon DEF Limited
  <2> QED BY ONLY <2>1, <2>2
<1>3. Sliced(ids, limit, offset) = IF offset >= n THEN 0 ELSE (IF end > n THEN n ELSE end) - offset BY DEF Sliced
<1> HIDE DEF n, s
<1>4. last \in Int /\ offset + 1 \in Int /\ last \in Nat BY <1>1
<1>5. Len(SubSeq(s, offset + 1, last)) = IF offset + 1 <= last THEN last - (offset + 1) + 1 ELSE 0
  <2> DEFINE S == {s[i] : i \in (offset + 1)..last}
  <2>1. \A i \in (offset + 1)..last : s[i] \in S OBVIOUS
  <2> HIDE DEF S, last
  <2> QED BY <1>4, <2>1, SubSeqProperties
<1> QED BY <1>1, <1>2, <1>3, <1>5

\* What the twins promise.
LEMMA TwinPromise == TwinInv => StoresAgree
<1> SUFFICES ASSUME TwinInv PROVE StoresAgree OBVIOUS
<1>1. rmap = rdb /\ rsame = TRUE /\ TwinStore(rdb) BY DEF TwinInv
<1>2. ASSUME NEW w \in RIds, NEW u \in RUsers
      PROVE  /\ PgFindByOwner(rdb, u) = MemFindByOwner(rmap, u)
             /\ MemListWorkspaces(rmap, u) \subseteq PgListWorkspaces(rdb, u)
             /\ PgFindByWorkspace(rdb, w) = MemFindByWorkspace(rmap, w)
             /\ PgFindByUser(rdb, u) = MemFindByUser(rmap, u)
             /\ PgIsMember(rdb, w, u) = MemIsMember(rmap, w, u)
             /\ PgGetRole(rdb, w, u) = MemGetRole(rmap, w, u)
  <2>1. PgFindByOwner(rdb, u) = MemFindByOwner(rmap, u) BY <1>1 DEF PgFindByOwner, MemFindByOwner
  <2>2. MemListWorkspaces(rmap, u) \subseteq PgListWorkspaces(rdb, u) BY <2>1 DEF MemListWorkspaces, PgListWorkspaces
  <2>3. PgFindByWorkspace(rdb, w) = MemFindByWorkspace(rmap, w) BY <1>1 DEF PgFindByWorkspace, MemFindByWorkspace
  <2>4. PgFindByUser(rdb, u) = MemFindByUser(rmap, u) BY <1>1 DEF PgFindByUser, MemFindByUser
  <2>5. PgIsMember(rdb, w, u) = MemIsMember(rmap, w, u) BY <1>1 DEF PgIsMember, MemIsMember
  <2>6. PgGetRole(rdb, w, u) = MemGetRole(rmap, w, u) BY <1>1 DEF PgGetRole, MemGetRole
  <2> QED BY <2>1, <2>2, <2>3, <2>4, <2>5, <2>6
<1>3. ASSUME NEW t \in RepoKinds, NEW S, S \subseteq DOMAIN rdb[t] PROVE IsFiniteSet(S)
  BY <1>1, <1>3, FS_Subset DEF TwinStore
<1>4. ASSUME NEW w \in RIds, NEW u \in RUsers, NEW limit \in {1, 2}, NEW offset \in {0, 1}
      PROVE  /\ Len(PgTasksOf(rdb, w, limit, offset)) = MemTasksOf(rmap, w, limit, offset)
             /\ Len(PgTasksAssigned(rdb, u, limit, offset)) = MemTasksAssigned(rmap, u, limit, offset)
             /\ \A filter \in [{"status"} -> {"pending", "done"}] \cup [{"assigned"} -> RUsers] :
                  Len(PgListTasks(rdb, w, filter, limit, offset)) = MemListTasks(rmap, w, filter, limit, offset)
             /\ Len(PgFindByTask(rdb, w, limit, offset)) = MemFindByTask(rmap, w, limit, offset)
             /\ Len(MongoJobsOf(rdb, w, limit, offset)) <= MemJobsOf(rmap, w, limit, offset)
  <2>1. limit \in Nat /\ limit > 0 /\ offset \in Nat OBVIOUS
  <2>2. Len(PgTasksOf(rdb, w, limit, offset)) = MemTasksOf(rmap, w, limit, offset)
    <3> DEFINE S == {k \in DOMAIN rdb["task"] : rdb["task"][k].of = w}
    <3>1. IsFiniteSet(S) BY <1>3 DEF RepoKinds
    <3>2. PgTasksOf(rdb, w, limit, offset) = Limited(S, limit, offset) BY DEF PgTasksOf, Where
    <3>3. MemTasksOf(rmap, w, limit, offset) = Sliced(S, limit, offset) BY <1>1 DEF MemTasksOf, Where
    <3> HIDE DEF S
    <3> QED BY <2>1, <3>1, <3>2, <3>3, PagesAlike
  <2>3. Len(PgTasksAssigned(rdb, u, limit, offset)) = MemTasksAssigned(rmap, u, limit, offset)
    <3> DEFINE S == {k \in DOMAIN rdb["task"] : rdb["task"][k].assigned = u}
    <3>1. IsFiniteSet(S) BY <1>3 DEF RepoKinds
    <3>2. PgTasksAssigned(rdb, u, limit, offset) = Limited(S, limit, offset) BY DEF PgTasksAssigned, Where
    <3>3. MemTasksAssigned(rmap, u, limit, offset) = Sliced(S, limit, offset) BY <1>1 DEF MemTasksAssigned, Where
    <3> HIDE DEF S
    <3> QED BY <2>1, <3>1, <3>2, <3>3, PagesAlike
  <2>4. ASSUME NEW filter \in [{"status"} -> {"pending", "done"}] \cup [{"assigned"} -> RUsers]
        PROVE  Len(PgListTasks(rdb, w, filter, limit, offset)) = MemListTasks(rmap, w, filter, limit, offset)
    <3> DEFINE S == {k \in DOMAIN rdb["task"] :
                       rdb["task"][k].of = w /\ \A c \in DOMAIN filter : filter[c] \in {"", rdb["task"][k][c]}}
    <3> DEFINE T == {k \in DOMAIN rdb["task"] :
                       rdb["task"][k].of = w /\ \A c \in DOMAIN filter : rdb["task"][k][c] = filter[c]}
    <3>1. IsFiniteSet(S) BY <1>3 DEF RepoKinds
    <3>2. PgListTasks(rdb, w, filter, limit, offset) = Limited(S, limit, offset) BY DEF PgListTasks, Where
    <3>3. MemListTasks(rmap, w, filter, limit, offset) = Sliced(T, limit, offset) BY <1>1 DEF MemListTasks, Where
    <3>4. \A c \in DOMAIN filter : filter[c] # "" BY RepositoriesAssumption
    <3>5. S = T BY <3>4
    <3> HIDE DEF S, T
    <3> QED BY <2>1, <3>1, <3>2, <3>3, <3>5, PagesAlike
  <2>5. Len(PgFindByTask(rdb, w, limit, offset)) = MemFindByTask(rmap, w, limit, offset)
    <3> DEFINE S == {k \in DOMAIN rdb["comment"] : rdb["comment"][k].of = w}
    <3>1. IsFiniteSet(S) BY <1>3 DEF RepoKinds
    <3>2. PgFindByTask(rdb, w, limit, offset) = Limited(S, limit, offset) BY DEF PgFindByTask, Where
    <3>3. MemFindByTask(rmap, w, limit, offset) = Sliced(S, limit, offset) BY <1>1 DEF MemFindByTask, Where
    <3> HIDE DEF S
    <3> QED BY <2>1, <3>1, <3>2, <3>3, PagesAlike
  <2>6. Len(MongoJobsOf(rdb, w, limit, offset)) <= MemJobsOf(rmap, w, limit, offset)
    <3> DEFINE S == {k \in DOMAIN rdb["export"] : rdb["export"][k].of = w}
               T == {k \in DOMAIN rdb["export"] :
                       \E c \in DOMAIN JobKeys : JobKeys[c] = "workspace_id" /\ rdb["export"][k][c] = w}
    <3>1. IsFiniteSet(S) BY <1>3 DEF RepoKinds
    <3>2. MongoJobsOf(rdb, w, limit, offset) = Limited(T, limit, offset) BY DEF MongoJobsOf, Where
    <3>3. MemJobsOf(rmap, w, limit, offset) = Sliced(S, limit, offset) BY <1>1 DEF MemJobsOf, Where
    <3>4. \A c \in DOMAIN JobKeys : JobKeys[c] # "workspace_id" BY DEF JobKeys
    <3>5. T = {} BY <3>4
    <3> HIDE DEF S, T
    <3>6. Sliced({}, limit, offset) = 0 BY <2>1, FS_EmptySet DEF Sliced
    <3>7. Len(MongoJobsOf(rdb, w, limit, offset)) = 0 BY <2>1, <3>2, <3>5, <3>6, FS_EmptySet, PagesAlike
    <3>8. Cardinality(S) \in Nat BY <3>1, FS_CardinalityType
    <3>9. Sliced(S, limit, offset) >= 0 BY <2>1, <3>8 DEF Sliced
    <3> QED BY <3>3, <3>7, <3>9
  <2> QED BY <2>2, <2>3, <2>4, <2>5, <2>6
<1> QED BY <1>1, <1>2, <1>4 DEF StoresAgree

\* A call that does the same to both stores.
LEMMA TwinCall ==
  ASSUME TwinInv, NEW kind, NEW db, NEW map, Both(kind, db, map), db = map, TwinStore(db.store)
  PROVE  TwinInv'
BY DEF TwinInv, Both, TwinStore

\* Rows the calls add, write and erase leave a store of such rows.
RowFits(t, row) == (t = "workspace" => row \in TwinRows) /\ (t \in {"task", "comment", "export"} => row \in Rows)

\* Insert keeps the columns of a store right.
LEMMA InsertFits ==
  ASSUME NEW s, TwinStore(s), NEW t \in RepoKinds, NEW k, NEW row, RowFits(t, row)
  PROVE  TwinStore(Insert(s, t, k, row).store)
<1>1. CASE k \in DOMAIN s[t] BY <1>1 DEF Insert, Refused
<1>2. CASE k \notin DOMAIN s[t]
  <2> DEFINE n == [s EXCEPT ![t] = WithRow(@, k, row)]
  <2>1. Insert(s, t, k, row).store = n BY <1>2 DEF Insert, Done
  <2>2. DOMAIN n = RepoKinds /\ \A u \in RepoKinds \ {t} : n[u] = s[u] BY DEF TwinStore
  <2>3. DOMAIN n[t] = DOMAIN s[t] \cup {k} /\ n[t][k] = row /\ \A i \in DOMAIN s[t] : n[t][i] = s[t][i]
    BY <1>2 DEF TwinStore, WithRow
  <2> HIDE DEF n
  <2>4. IsFiniteSet(DOMAIN n[t]) BY <2>3, FS_AddElement DEF TwinStore
  <2>5. \A u \in RepoKinds : IsFiniteSet(DOMAIN n[u]) BY <2>2, <2>4 DEF TwinStore
  <2>6. \A i \in DOMAIN n["workspace"] : n["workspace"][i] \in TwinRows
    BY <2>2, <2>3 DEF TwinStore, RowFits, RepoKinds
  <2>7. \A u \in {"task", "comment", "export"} : \A i \in DOMAIN n[u] : n[u][i] \in Rows
    BY <2>2, <2>3 DEF TwinStore, RowFits, RepoKinds
  <2>8. TwinStore(n) BY <2>2, <2>5, <2>6, <2>7 DEF TwinStore
  <2> QED BY <2>1, <2>8
<1> QED BY <1>1, <1>2

\* So does replacing a row,
LEMMA ReplaceFits ==
  ASSUME NEW s, TwinStore(s), NEW t \in RepoKinds, NEW k, NEW row, RowFits(t, row)
  PROVE  TwinStore(Replace(s, t, k, row).store)
<1>1. CASE k \notin DOMAIN s[t] BY <1>1 DEF Replace, Refused
<1>2. CASE k \in DOMAIN s[t]
  <2> DEFINE n == [s EXCEPT ![t][k] = row]
  <2>1. Replace(s, t, k, row).store = n BY <1>2 DEF Replace, Done
  <2>2. DOMAIN n = RepoKinds /\ \A u \in RepoKinds \ {t} : n[u] = s[u] BY DEF TwinStore
  <2>3. DOMAIN n[t] = DOMAIN s[t] /\ n[t][k] = row /\ \A i \in DOMAIN s[t] \ {k} : n[t][i] = s[t][i]
    BY <1>2 DEF TwinStore
  <2> HIDE DEF n
  <2>5. \A u \in RepoKinds : IsFiniteSet(DOMAIN n[u]) BY <2>2, <2>3 DEF TwinStore
  <2>6. \A i \in DOMAIN n["workspace"] : n["workspace"][i] \in TwinRows
    BY <2>2, <2>3 DEF TwinStore, RowFits, RepoKinds
  <2>7. \A u \in {"task", "comment", "export"} : \A i \in DOMAIN n[u] : n[u][i] \in Rows
    BY <2>2, <2>3 DEF TwinStore, RowFits, RepoKinds
  <2>8. TwinStore(n) BY <2>2, <2>5, <2>6, <2>7 DEF TwinStore
  <2> QED BY <2>1, <2>8
<1> QED BY <1>1, <1>2

\* and so does erasing one.
LEMMA EraseFits ==
  ASSUME NEW s, TwinStore(s), NEW t \in RepoKinds, NEW k
  PROVE  TwinStore(Erase(s, t, k).store)
<1>1. CASE k \notin DOMAIN s[t] BY <1>1 DEF Erase, Refused
<1>2. CASE k \in DOMAIN s[t]
  <2> DEFINE n == [s EXCEPT ![t] = [i \in DOMAIN @ \ {k} |-> @[i]]]
  <2>1. Erase(s, t, k).store = n BY <1>2 DEF Erase, Done
  <2>2. DOMAIN n = RepoKinds /\ \A u \in RepoKinds \ {t} : n[u] = s[u] BY DEF TwinStore
  <2>3. DOMAIN n[t] = DOMAIN s[t] \ {k} /\ \A i \in DOMAIN n[t] : n[t][i] = s[t][i]
    BY DEF TwinStore
  <2> HIDE DEF n
  <2>4. IsFiniteSet(DOMAIN n[t]) BY <2>3, FS_Subset DEF TwinStore
  <2>5. \A u \in RepoKinds : IsFiniteSet(DOMAIN n[u]) BY <2>2, <2>4 DEF TwinStore
  <2>6. \A i \in DOMAIN n["workspace"] : n["workspace"][i] \in TwinRows
    BY <2>2, <2>3 DEF TwinStore, RepoKinds
  <2>7. \A u \in {"task", "comment", "export"} : \A i \in DOMAIN n[u] : n[u][i] \in Rows
    BY <2>2, <2>3 DEF TwinStore, RepoKinds
  <2>8. TwinStore(n) BY <2>2, <2>5, <2>6, <2>7 DEF TwinStore
  <2> QED BY <2>1, <2>8
<1> QED BY <1>1, <1>2

\* Writing the columns that may differ is writing the row.
LEMMA ColumnsReplace ==
  ASSUME NEW s, NEW t, NEW k, NEW row, NEW cols,
         k \in DOMAIN s[t] => row = [c \in DOMAIN s[t][k] |-> IF c \in cols THEN row[c] ELSE s[t][k][c]]
  PROVE  SetColumns(s, t, k, row, cols) = Replace(s, t, k, row)
<1>1. CASE k \in DOMAIN s[t]
  <2> DEFINE new == [c \in DOMAIN s[t][k] |-> IF c \in cols THEN row[c] ELSE s[t][k][c]]
  <2>1. SetColumns(s, t, k, row, cols) = Done([s EXCEPT ![t][k] = new]) BY <1>1 DEF SetColumns
  <2>2. new = row BY <1>1
  <2> QED BY <1>1, <2>1, <2>2 DEF Replace
<1>2. CASE k \notin DOMAIN s[t] BY <1>2 DEF SetColumns, Replace
<1> QED BY <1>1, <1>2

\* Assign writes one column of a task.
LEMMA AssignFits ==
  ASSUME NEW s, TwinStore(s), NEW k, NEW u \in RUsers
  PROVE  TwinStore(PgAssign(s, k, u).store)
<1> DEFINE arg == [assigned |-> u]
<1>1. PgAssign(s, k, u) = SetColumns(s, "task", k, arg, {"assigned"}) BY DEF PgAssign
<1>2. CASE k \notin DOMAIN s["task"] BY <1>1, <1>2 DEF SetColumns, Refused
<1>3. CASE k \in DOMAIN s["task"]
  <2> DEFINE new == [c \in DOMAIN s["task"][k] |-> IF c \in {"assigned"} THEN arg[c] ELSE s["task"][k][c]]
  <2>1. SetColumns(s, "task", k, arg, {"assigned"}) = Done([s EXCEPT !["task"][k] = new]) BY <1>3 DEF SetColumns
  <2>2. s["task"][k] \in Rows BY <1>3 DEF TwinStore
  <2>3. new \in Rows BY <2>2 DEF Rows
  <2> HIDE DEF new
  <2>4. Done([s EXCEPT !["task"][k] = new]) = Replace(s, "task", k, new) BY <1>3 DEF Replace
  <2>5. "task" \in RepoKinds /\ RowFits("task", new) BY <2>3 DEF RepoKinds, RowFits
  <2>6. TwinStore(Replace(s, "task", k, new).store) BY <2>5, ReplaceFits
  <2> QED BY <1>1, <2>1, <2>4, <2>6
<1> QED BY <1>2, <1>3

\* The workspace repository.
LEMMA WorkspaceCallKeeps == ASSUME TwinInv, WorkspaceCall PROVE TwinInv'
<1>1. PICK w \in RIds, row \in [owner : RUsers, name : {"x", "y"}] :
        \/ Both("workspace", PgCreateWorkspace(rdb, w, row), MemCreateWorkspace(rmap, w, row))
        \/ Both("workspace", PgUpdateWorkspace(rdb, w, row), MemUpdateWorkspace(rmap, w, row))
        \/ Both("workspace", PgDeleteWorkspace(rdb, w), MemDeleteWorkspace(rmap, w))
  BY DEF WorkspaceCall
<1>2. TwinStore(rdb) /\ rmap = rdb BY DEF TwinInv
<1>3. "workspace" \in RepoKinds /\ RowFits("workspace", row) BY DEF RepoKinds, RowFits, TwinRows
<1>4. CASE Both("workspace", PgCreateWorkspace(rdb, w, row), MemCreateWorkspace(rmap, w, row))
  <2>1. Both("workspace", Insert(rdb, "workspace", w, row), Insert(rdb, "workspace", w, row))
    BY <1>2, <1>4 DEF PgCreateWorkspace, MemCreateWorkspace
  <2>2. TwinStore(Insert(rdb, "workspace", w, row).store) BY <1>2, <1>3, InsertFits
  <2> QED BY <2>1, <2>2, TwinCall
<1>5. CASE Both("workspace", PgUpdateWorkspace(rdb, w, row), MemUpdateWorkspace(rmap, w, row))
  <2>1. w \in DOMAIN rdb["workspace"] =>
          row = [c \in DOMAIN rdb["workspace"][w] |-> IF c \in {"name", "owner"} THEN row[c] ELSE rdb["workspace"][w][c]]
    <3> SUFFICES ASSUME w \in DOMAIN rdb["workspace"]
                 PROVE  row = [c \in DOMAIN rdb["workspace"][w] |-> IF c \in {"name", "owner"} THEN row[c] ELSE rdb["workspace"][w][c]]
      OBVIOUS
    <3>1. rdb["workspace"][w] \in TwinRows BY <1>2 DEF TwinStore
    <3> QED BY <3>1 DEF TwinRows
  <2>2. SetColumns(rdb, "workspace", w, row, {"name", "owner"}) = Replace(rdb, "workspace", w, row)
    <3> DEFINE cols == {"name", "owner"}
    <3>1. w \in DOMAIN rdb["workspace"] =>
            row = [c \in DOMAIN rdb["workspace"][w] |-> IF c \in cols THEN row[c] ELSE rdb["workspace"][w][c]]
      BY <2>1
    <3> HIDE DEF cols
    <3>2. SetColumns(rdb, "workspace", w, row, cols) = Replace(rdb, "workspace", w, row) BY ONLY <3>1, ColumnsReplace
    <3> QED BY ONLY <3>2 DEF cols
  <2>3. Both("workspace", Replace(rdb, "workspace", w, row), Replace(rdb, "workspace", w, row))
    <3>1. PgUpdateWorkspace(rdb, w, row) = Replace(rdb, "workspace", w, row) BY ONLY <2>2, Zenon DEF PgUpdateWorkspace
    <3>2. MemUpdateWorkspace(rmap, w, row) = Replace(rdb, "workspace", w, row) BY ONLY <1>2 DEF MemUpdateWorkspace
    <3> QED BY ONLY <1>5, <3>1, <3>2
  <2>4. TwinStore(Replace(rdb, "workspace", w, row).store) BY <1>2, <1>3, ReplaceFits
  <2> QED BY <2>3, <2>4, TwinCall
<1>6. CASE Both("workspace", PgDeleteWorkspace(rdb, w), MemDeleteWorkspace(rmap, w))
  <2>1. Both("workspace", Erase(rdb, "workspace", w), Erase(rdb, "workspace", w))
    BY <1>2, <1>6 DEF PgDeleteWorkspace, MemDeleteWorkspace
  <2>2. TwinStore(Erase(rdb, "workspace", w).store) BY <1>2, <1>3, EraseFits
  <2> QED BY <2>1, <2>2, TwinCall
<1> QED BY <1>1, <1>4, <1>5, <1>6

\* The member repository.
LEMMA MemberCallKeeps == ASSUME TwinInv, MemberCall PROVE TwinInv'
<1>1. PICK w \in RIds, u \in RUsers, role \in {"owner", "admin", "member"} :
        \/ Both("member", PgAddMember(rdb, w, u, role), MemAddMember(rmap, w, u, role))
        \/ Both("member", PgUpdateRole(rdb, w, u, role), MemUpdateRole(rmap, w, u, role))
        \/ Both("member", PgRemoveMember(rdb, w, u), MemRemoveMember(rmap, w, u))
  BY DEF MemberCall
<1> DEFINE k == <<w, u>>
<1>2. TwinStore(rdb) /\ rmap = rdb BY DEF TwinInv
<1>3. "member" \in RepoKinds /\ RowFits("member", role) BY DEF RepoKinds, RowFits
<1>4. \/ Both("member", Insert(rdb, "member", k, role), Insert(rdb, "member", k, role))
      \/ Both("member", Replace(rdb, "member", k, role), Replace(rdb, "member", k, role))
      \/ Both("member", Erase(rdb, "member", k), Erase(rdb, "member", k))
  BY <1>1, <1>2 DEF PgAddMember, MemAddMember, PgUpdateRole, MemUpdateRole, PgRemoveMember, MemRemoveMember
<1> HIDE DEF k
<1>5. TwinStore(Insert(rdb, "member", k, role).store) BY <1>2, <1>3, InsertFits
<1>6. TwinStore(Replace(rdb, "member", k, role).store) BY <1>2, <1>3, ReplaceFits
<1>7. TwinStore(Erase(rdb, "member", k).store) BY <1>2, <1>3, EraseFits
<1> QED BY <1>4, <1>5, <1>6, <1>7, TwinCall

\* The task repository.
LEMMA TaskCallKeeps == ASSUME TwinInv, TaskCall PROVE TwinInv'
<1>1. PICK i \in RIds :
    \/ \E row \in RowsFor("task", i) :
         \/ Both("task", PgCreateTask(rdb, i, row), MemCreateTask(rmap, i, row))
         \/ Both("task", PgUpdateTask(rdb, i, row), MemUpdateTask(rmap, i, row))
    \/ \E u \in RUsers : Both("task", PgAssign(rdb, i, u), MemAssign(rmap, i, u))
    \/ Both("task", PgDeleteTask(rdb, i), MemDeleteTask(rmap, i))
  BY DEF TaskCall
<1>2. TwinStore(rdb) /\ rmap = rdb /\ "task" \in RepoKinds BY DEF TwinInv, RepoKinds
<1>3. ASSUME NEW row \in RowsFor("task", i), Both("task", PgCreateTask(rdb, i, row), MemCreateTask(rmap, i, row))
      PROVE  TwinInv'
  <2>1. Both("task", Insert(rdb, "task", i, row), Insert(rdb, "task", i, row))
    BY <1>2, <1>3 DEF PgCreateTask, MemCreateTask
  <2>2. RowFits("task", row) BY DEF RowFits, RowsFor
  <2>3. TwinStore(Insert(rdb, "task", i, row).store) BY <1>2, <2>2, InsertFits
  <2> QED BY <2>1, <2>3, TwinCall
<1>4. ASSUME NEW row \in RowsFor("task", i), Both("task", PgUpdateTask(rdb, i, row), MemUpdateTask(rmap, i, row))
      PROVE  TwinInv'
  <2>1. row \in Rows /\ (i \in DOMAIN rdb["task"] => row.of = rdb["task"][i].of) BY DEF RowsFor
  <2>2. i \in DOMAIN rdb["task"] =>
          row = [c \in DOMAIN rdb["task"][i] |-> IF c \in TaskColumns THEN row[c] ELSE rdb["task"][i][c]]
    <3> SUFFICES ASSUME i \in DOMAIN rdb["task"]
                 PROVE  row = [c \in DOMAIN rdb["task"][i] |-> IF c \in TaskColumns THEN row[c] ELSE rdb["task"][i][c]]
      OBVIOUS
    <3>1. rdb["task"][i] \in Rows BY <1>2 DEF TwinStore
    <3> QED BY <2>1, <3>1 DEF Rows, TaskColumns
  <2>3. SetColumns(rdb, "task", i, row, TaskColumns) = Replace(rdb, "task", i, row) BY <2>2, ColumnsReplace
  <2>4. Both("task", Replace(rdb, "task", i, row), Replace(rdb, "task", i, row))
    BY <1>2, <1>4, <2>3 DEF PgUpdateTask, MemUpdateTask
  <2>5. RowFits("task", row) BY <2>1 DEF RowFits
  <2>6. TwinStore(Replace(rdb, "task", i, row).store) BY <1>2, <2>5, ReplaceFits
  <2> QED BY <2>4, <2>6, TwinCall
<1>5. ASSUME NEW u \in RUsers, Both("task", PgAssign(rdb, i, u), MemAssign(rmap, i, u)) PROVE TwinInv'
  <2>1. PgAssign(rdb, i, u) = MemAssign(rmap, i, u) BY <1>2 DEF PgAssign, MemAssign
  <2>2. TwinStore(PgAssign(rdb, i, u).store) BY <1>2, AssignFits
  <2> QED BY <1>5, <2>1, <2>2, TwinCall
<1>6. ASSUME Both("task", PgDeleteTask(rdb, i), MemDeleteTask(rmap, i)) PROVE TwinInv'
  <2>1. Both("task", Erase(rdb, "task", i), Erase(rdb, "task", i)) BY <1>2, <1>6 DEF PgDeleteTask, MemDeleteTask
  <2>2. TwinStore(Erase(rdb, "task", i).store) BY <1>2, EraseFits
  <2> QED BY <2>1, <2>2, TwinCall
<1> QED BY <1>1, <1>3, <1>4, <1>5, <1>6

\* The comment repository.
LEMMA CommentCallKeeps == ASSUME TwinInv, CommentCall PROVE TwinInv'
<1>1. PICK i \in RIds :
    \/ \E row \in RowsFor("comment", i) :
         \/ Both("comment", PgCreateComment(rdb, i, row), MemCreateComment(rmap, i, row))
         \/ /\ i \in DOMAIN rdb["comment"] => row.assigned = rdb["comment"][i].assigned
            /\ Both("comment", PgUpdateComment(rdb, i, row), MemUpdateComment(rmap, i, row))
    \/ Both("comment", PgDeleteComment(rdb, i), MemDeleteComment(rmap, i))
  BY DEF CommentCall
<1>2. TwinStore(rdb) /\ rmap = rdb /\ "comment" \in RepoKinds BY DEF TwinInv, RepoKinds
<1>3. ASSUME NEW row \in RowsFor("comment", i), Both("comment", PgCreateComment(rdb, i, row), MemCreateComment(rmap, i, row))
      PROVE  TwinInv'
  <2>1. Both("comment", Insert(rdb, "comment", i, row), Insert(rdb, "comment", i, row))
    BY <1>2, <1>3 DEF PgCreateComment, MemCreateComment
  <2>2. RowFits("comment", row) BY DEF RowFits, RowsFor
  <2>3. TwinStore(Insert(rdb, "comment", i, row).store) BY <1>2, <2>2, InsertFits
  <2> QED BY <2>1, <2>3, TwinCall
<1>4. ASSUME NEW row \in RowsFor("comment", i), i \in DOMAIN rdb["comment"] => row.assigned = rdb["comment"][i].assigned,
             Both("comment", PgUpdateComment(rdb, i, row), MemUpdateComment(rmap, i, row))
      PROVE  TwinInv'
  <2>1. row \in Rows /\ (i \in DOMAIN rdb["comment"] => row.of = rdb["comment"][i].of) BY DEF RowsFor
  <2>2. i \in DOMAIN rdb["comment"] =>
          row = [c \in DOMAIN rdb["comment"][i] |-> IF c \in {"status"} THEN row[c] ELSE rdb["comment"][i][c]]
    <3> SUFFICES ASSUME i \in DOMAIN rdb["comment"]
                 PROVE  row = [c \in DOMAIN rdb["comment"][i] |-> IF c \in {"status"} THEN row[c] ELSE rdb["comment"][i][c]]
      OBVIOUS
    <3>1. rdb["comment"][i] \in Rows BY <1>2 DEF TwinStore
    <3> QED BY <1>4, <2>1, <3>1 DEF Rows
  <2>3. SetColumns(rdb, "comment", i, row, {"status"}) = Replace(rdb, "comment", i, row) BY <2>2, ColumnsReplace
  <2>4. Both("comment", Replace(rdb, "comment", i, row), Replace(rdb, "comment", i, row))
    BY <1>2, <1>4, <2>3 DEF PgUpdateComment, MemUpdateComment
  <2>5. RowFits("comment", row) BY <2>1 DEF RowFits
  <2>6. TwinStore(Replace(rdb, "comment", i, row).store) BY <1>2, <2>5, ReplaceFits
  <2> QED BY <2>4, <2>6, TwinCall
<1>5. ASSUME Both("comment", PgDeleteComment(rdb, i), MemDeleteComment(rmap, i)) PROVE TwinInv'
  <2>1. Both("comment", Erase(rdb, "comment", i), Erase(rdb, "comment", i)) BY <1>2, <1>5 DEF PgDeleteComment, MemDeleteComment
  <2>2. TwinStore(Erase(rdb, "comment", i).store) BY <1>2, EraseFits
  <2> QED BY <2>1, <2>2, TwinCall
<1> QED BY <1>1, <1>3, <1>4, <1>5

\* The repository of export jobs.
LEMMA ExportCallKeeps == ASSUME TwinInv, ExportCall PROVE TwinInv'
<1>1. PICK i \in RIds :
    \/ \E row \in RowsFor("export", i) :
         \/ Both("export", MongoCreateJob(rdb, i, row), MemCreateJob(rmap, i, row))
         \/ Both("export", MongoUpdateJob(rdb, i, row), MemUpdateJob(rmap, i, row))
    \/ Both("export", MongoDeleteJob(rdb, i), MemDeleteJob(rmap, i))
  BY DEF ExportCall
<1>2. TwinStore(rdb) /\ rmap = rdb /\ "export" \in RepoKinds BY DEF TwinInv, RepoKinds
<1>3. ASSUME NEW row \in RowsFor("export", i),
             \/ Both("export", MongoCreateJob(rdb, i, row), MemCreateJob(rmap, i, row))
             \/ Both("export", MongoUpdateJob(rdb, i, row), MemUpdateJob(rmap, i, row))
      PROVE  TwinInv'
  <2>1. \/ Both("export", Insert(rdb, "export", i, row), Insert(rdb, "export", i, row))
        \/ Both("export", Replace(rdb, "export", i, row), Replace(rdb, "export", i, row))
    BY <1>2, <1>3 DEF MongoCreateJob, MemCreateJob, MongoUpdateJob, MemUpdateJob
  <2>2. RowFits("export", row) BY DEF RowFits, RowsFor
  <2>3. TwinStore(Insert(rdb, "export", i, row).store) BY <1>2, <2>2, InsertFits
  <2>4. TwinStore(Replace(rdb, "export", i, row).store) BY <1>2, <2>2, ReplaceFits
  <2> QED BY <2>1, <2>3, <2>4, TwinCall
<1>4. ASSUME Both("export", MongoDeleteJob(rdb, i), MemDeleteJob(rmap, i)) PROVE TwinInv'
  <2>1. Both("export", Erase(rdb, "export", i), Erase(rdb, "export", i)) BY <1>2, <1>4 DEF MongoDeleteJob, MemDeleteJob
  <2>2. TwinStore(Erase(rdb, "export", i).store) BY <1>2, EraseFits
  <2> QED BY <2>1, <2>2, TwinCall
<1> QED BY <1>1, <1>3, <1>4

\* No call sets the twins apart.
LEMMA TwinStep == TwinInv /\ [RepoNext]_rvars => TwinInv'
<1> SUFFICES ASSUME TwinInv, [RepoNext]_rvars PROVE TwinInv' OBVIOUS
<1>1. CASE UNCHANGED rvars BY <1>1 DEF rvars, TwinInv, TwinStore
<1>2. CASE RepoNext
  BY <1>2, WorkspaceCallKeeps, MemberCallKeeps, TaskCallKeeps, CommentCallKeeps, ExportCallKeeps DEF RepoNext
<1> QED BY <1>1, <1>2

-----------------------------------------------------------------------------
(* Workspaces, tasks and comments                                          *)

\* Identifiers whose row is no longer to come, and those of workspaces whose owner,
\* too, is no longer to come.
Awaited(q) == q.pc \in {"insert", "cache", "addOwner"}
BornIds == {i \in 1..wlog.drawn : \A q \in WRequests : wreq[q].pc = "insert" => wreq[q].id # i}
SettledIds == {i \in 1..wlog.drawn : \A q \in WRequests : Awaited(wreq[q]) => wreq[q].id # i}
Owned(created) == {c[1] : c \in created}

TaskOps == {"createTask", "updateTask", "assignTask", "deleteTask"}
CommentOps == {"createComment", "updateComment", "deleteComment"}
RequestFields == {"op", "pc", "id", "by", "to", "role", "row"}

\* What a request has made sure of by the time it is where it is.
RequestSound(q, kind, born, created, comments) ==
  /\ DOMAIN q = RequestFields
  /\ q.op \in {"createWorkspace", "deleteWorkspace"} => kind = "workspace"
  /\ q.op \in TaskOps \/ q.pc = "findTask" => kind = "task"
  /\ q.op \in CommentOps \/ q.pc = "findComment" => kind = "comment"
  /\ q.pc \in {"fill", "cache", "erase", "write"} => q.id \in born
  /\ q.op = "addMember" => q.role \in {"admin", "member"}
  /\ q.op = "addMember" /\ q.pc \in {"exists", "add"} => q.id \in Owned(created)
  /\ q.op = "removeMember" /\ q.pc = "remove" => q.id \in Owned(created) /\ <<q.id, q.to>> \notin created
  /\ q.op = "updateComment" /\ q.pc = "write" =>
       /\ "status" \in DOMAIN q.row
       /\ q.id \in DOMAIN comments => comments[q.id].assigned = q.by

RequestsSound ==
  \A q \in WRequests : RequestSound(wreq[q], wset.kind, BornIds, wlog.created, wdb["comment"])

\* Creations under way have identifiers of their own.
CreationsApart ==
  /\ \A q \in WRequests : Awaited(wreq[q]) => wreq[q].id \in 1..wlog.drawn
  /\ \A p, q \in WRequests : Awaited(wreq[p]) /\ Awaited(wreq[q]) /\ wreq[p].id = wreq[q].id => p = q

RowTables == {"workspace", "task", "comment"}

\* Only rows of the service that runs, each born and not deleted.
RowsStand ==
  /\ DOMAIN wdb = RepoKinds
  /\ \A t \in RowTables : t # wset.kind => DOMAIN wdb[t] = {}
  /\ \A t \in RowTables : DOMAIN wdb[t] \subseteq BornIds \ wlog.deleted
  /\ wlog.deleted \subseteq BornIds
  /\ DOMAIN wcache \subseteq BornIds

\* Comments are their authors'.
CommentsSigned ==
  \A i \in DOMAIN wdb["comment"] :
    /\ DOMAIN wdb["comment"][i] = {"of", "status", "assigned"}
    /\ wdb["comment"][i].status \in {"", wdb["comment"][i].assigned}

\* Only workspaces whose creation succeeded have members.
MembersOwned ==
  /\ Owned(wlog.created) \subseteq SettledIds
  /\ \A k \in DOMAIN wdb["member"] : k[1] \in Owned(wlog.created)
  /\ OwnerStays

WorkspacesInv ==
  /\ wset \in WSetups
  /\ DOMAIN wlog = {"drawn", "deleted", "created", "stale", "faults", "ops"} /\ wlog.drawn \in Nat
  /\ DOMAIN wreq = WRequests
  /\ RequestsSound /\ CreationsApart /\ RowsStand /\ CommentsSigned /\ MembersOwned

\* A worker without a request promises nothing.
LEMMA IdleSound ==
  ASSUME NEW kind, NEW born, NEW created, NEW comments
  PROVE  RequestSound(NoRequest, kind, born, created, comments) /\ ~Awaited(NoRequest) /\ NoRequest.pc = "idle"
BY DEF RequestSound, NoRequest, RequestFields, TaskOps, CommentOps, Awaited

\* The services start with empty tables and no request.
LEMMA WorkspacesStart == WInit => WorkspacesInv
<1> SUFFICES ASSUME WInit PROVE WorkspacesInv OBVIOUS
<1>1. wset \in WSetups /\ DOMAIN wreq = WRequests BY DEF WInit
<1>2. DOMAIN wlog = {"drawn", "deleted", "created", "stale", "faults", "ops"} /\ wlog.drawn = 0
      /\ wlog.created = {} /\ wlog.deleted = {}
  BY DEF WInit
<1>3. \A q \in WRequests : wreq[q] = NoRequest BY DEF WInit
<1>4. RequestsSound BY <1>3, IdleSound DEF RequestsSound
<1>5. CreationsApart BY <1>3, IdleSound DEF CreationsApart
<1>6. DOMAIN wdb = RepoKinds /\ \A t \in RepoKinds : DOMAIN wdb[t] = {} BY DEF WInit, EmptyStore, EmptyTable
<1>7. DOMAIN wcache = {} BY DEF WInit, EmptyTable
<1>8. RowsStand BY <1>2, <1>6, <1>7 DEF RowsStand, RowTables, RepoKinds
<1>9. CommentsSigned BY <1>6 DEF CommentsSigned, RepoKinds
<1>10. MembersOwned BY <1>2, <1>6 DEF MembersOwned, Owned, OwnerStays, RepoKinds
<1> QED BY <1>1, <1>2, <1>4, <1>5, <1>8, <1>9, <1>10 DEF WorkspacesInv

\* A deleted workspace is in the cache, or about to be, only if it may be stale, or until
\* it is evicted.
CacheInv ==
  /\ wset.kind # "workspace" => DOMAIN wcache = {} /\ \A q \in WRequests : ~Filling(q)
  /\ \A q \in WRequests : Filling(q) /\ wreq[q].id \in wlog.deleted => wreq[q].id \in wlog.stale
  /\ \A w \in wlog.deleted \cap DOMAIN wcache :
       w \in wlog.stale \/ \E q \in WRequests : wreq[q].pc = "evict" /\ wreq[q].id = w

\* The invariants say what the workspace services promise.
LEMMA WorkspacesPromise == WorkspacesInv /\ CacheInv => OwnerStays /\ DeletedStaysDeleted
<1> SUFFICES ASSUME WorkspacesInv, CacheInv PROVE OwnerStays /\ DeletedStaysDeleted OBVIOUS
<1>1. OwnerStays BY DEF WorkspacesInv, MembersOwned
<1>2. \A t \in RowTables : wlog.deleted \cap DOMAIN wdb[t] = {} BY DEF WorkspacesInv, RowsStand
<1>3. \A i \in DOMAIN wdb["comment"] : wdb["comment"][i].status \in {"", wdb["comment"][i].assigned}
  BY DEF WorkspacesInv, CommentsSigned
<1>4. \A w \in wlog.deleted \cap DOMAIN wcache :
       w \in wlog.stale \/ \E r \in WRequests : wreq[r].pc = "evict" /\ wreq[r].id = w
  BY DEF CacheInv
<1> QED BY <1>1, <1>2, <1>3, <1>4 DEF DeletedStaysDeleted, RowTables

\* What a call makes of a store: the other tables stay, and in its own one row comes,
\* goes, or has columns written.
OnlyTable(s, n, t) == DOMAIN n = RepoKinds /\ \A u \in RepoKinds \ {t} : n[u] = s[u]
RowAdded(s, n, t, k, row) ==
  /\ OnlyTable(s, n, t) /\ DOMAIN n[t] = DOMAIN s[t] \cup {k}
  /\ \A i \in DOMAIN s[t] : n[t][i] = s[t][i]
  /\ k \notin DOMAIN s[t] => n[t][k] = row
RowErased(s, n, t, k) ==
  /\ OnlyTable(s, n, t) /\ DOMAIN n[t] = DOMAIN s[t] \ {k}
  /\ \A i \in DOMAIN n[t] : n[t][i] = s[t][i]
ColumnsWritten(s, n, t, k, row, cols) ==
  /\ OnlyTable(s, n, t) /\ DOMAIN n[t] = DOMAIN s[t]
  /\ \A i \in DOMAIN s[t] \ {k} : n[t][i] = s[t][i]
  /\ k \in DOMAIN s[t] => n[t][k] = [c \in DOMAIN s[t][k] |-> IF c \in cols THEN row[c] ELSE s[t][k][c]]

\* What Insert does to the tables,
LEMMA InsertTable ==
  ASSUME NEW s, DOMAIN s = RepoKinds, NEW t \in RepoKinds, NEW k, NEW row
  PROVE  RowAdded(s, Insert(s, t, k, row).store, t, k, row)
BY DEF Insert, WithRow, Done, Refused, RowAdded, OnlyTable

\* what Erase does,
LEMMA EraseTable ==
  ASSUME NEW s, DOMAIN s = RepoKinds, NEW t \in RepoKinds, NEW k
  PROVE  RowErased(s, Erase(s, t, k).store, t, k)
<1>1. CASE k \in DOMAIN s[t] BY <1>1 DEF Erase, Done, RowErased, OnlyTable
<1>2. CASE k \notin DOMAIN s[t] BY <1>2 DEF Erase, Refused, RowErased, OnlyTable
<1> QED BY <1>1, <1>2

\* and what an UPDATE of some columns does.
LEMMA ColumnsTable ==
  ASSUME NEW s, DOMAIN s = RepoKinds, NEW t \in RepoKinds, NEW k, NEW row, NEW cols
  PROVE  ColumnsWritten(s, SetColumns(s, t, k, row, cols).store, t, k, row, cols)
<1>1. CASE k \in DOMAIN s[t] BY <1>1 DEF SetColumns, Done, ColumnsWritten, OnlyTable
<1>2. CASE k \notin DOMAIN s[t] BY <1>2 DEF SetColumns, Refused, ColumnsWritten, OnlyTable
<1> QED BY <1>1, <1>2

\* A request moves on without a new identifier.
LEMMA RequestMoves ==
  ASSUME WorkspacesInv, NEW r \in WRequests, NEW v, wreq' = [wreq EXCEPT ![r] = v], wlog'.drawn = wlog.drawn,
         Awaited(v) => Awaited(wreq[r]) /\ v.id = wreq[r].id, v.pc = "insert" => wreq[r].pc = "insert"
  PROVE  /\ DOMAIN wreq' = WRequests /\ \A q \in WRequests : wreq'[q] = IF q = r THEN v ELSE wreq[q]
         /\ BornIds \subseteq BornIds' /\ SettledIds \subseteq SettledIds' /\ CreationsApart'
<1>1. DOMAIN wreq' = WRequests /\ \A q \in WRequests : wreq'[q] = IF q = r THEN v ELSE wreq[q]
  BY DEF WorkspacesInv
<1>2. \A q \in WRequests : wreq'[q].pc = "insert" => wreq[q].pc = "insert" /\ wreq'[q].id = wreq[q].id
  BY <1>1 DEF Awaited
<1>3. \A q \in WRequests : Awaited(wreq'[q]) => Awaited(wreq[q]) /\ wreq'[q].id = wreq[q].id
  BY <1>1
<1>4. BornIds \subseteq BornIds' BY <1>2 DEF BornIds
<1>5. SettledIds \subseteq SettledIds' BY <1>3 DEF SettledIds, Awaited
<1>6. CreationsApart' BY <1>3 DEF WorkspacesInv, CreationsApart, Awaited
<1> QED BY <1>1, <1>4, <1>5, <1>6

\* The other requests still have what they made sure of.
LEMMA RequestsCarry ==
  ASSUME WorkspacesInv, NEW r \in WRequests, NEW v, wset' = wset,
         \A q \in WRequests : wreq'[q] = IF q = r THEN v ELSE wreq[q],
         RequestSound(v, wset.kind, BornIds', wlog'.created, wdb'["comment"]),
         BornIds \subseteq BornIds', wlog.created \subseteq wlog'.created,
         \A c \in wlog'.created \ wlog.created : c[1] \notin Owned(wlog.created),
         \A i \in BornIds \cap DOMAIN wdb'["comment"] :
           i \in DOMAIN wdb["comment"] /\ wdb'["comment"][i].assigned = wdb["comment"][i].assigned
  PROVE  RequestsSound'
<1>1. ASSUME NEW q \in WRequests PROVE RequestSound(wreq'[q], wset.kind, BornIds', wlog'.created, wdb'["comment"])
  <2>1. CASE q = r BY <2>1
  <2>2. CASE q # r
    <3>1. wreq'[q] = wreq[q] BY <2>2
    <3>2. RequestSound(wreq[q], wset.kind, BornIds, wlog.created, wdb["comment"])
      BY DEF WorkspacesInv, RequestsSound
    <3>3. Owned(wlog.created) \subseteq Owned(wlog'.created) BY DEF Owned
    <3>4. <<wreq[q].id, wreq[q].to>>[1] = wreq[q].id OBVIOUS
    <3> QED BY <3>1, <3>2, <3>3, <3>4 DEF RequestSound
  <2> QED BY <2>1, <2>2
<1>2. wset'.kind = wset.kind OBVIOUS
<1> QED BY <1>1, <1>2 DEF RequestsSound

\* A request moves on and only the cache changes.
LEMMA QuietStep ==
  ASSUME WorkspacesInv, NEW r \in WRequests, NEW v, wreq' = [wreq EXCEPT ![r] = v],
         wset' = wset, wdb' = wdb, DOMAIN wlog' = DOMAIN wlog,
         wlog'.drawn = wlog.drawn, wlog'.created = wlog.created, wlog'.deleted = wlog.deleted,
         DOMAIN wcache' \subseteq BornIds,
         RequestSound(v, wset.kind, BornIds, wlog.created, wdb["comment"]),
         Awaited(v) => Awaited(wreq[r]) /\ v.id = wreq[r].id, v.pc = "insert" => wreq[r].pc = "insert"
  PROVE  WorkspacesInv'
<1>1. /\ DOMAIN wreq' = WRequests /\ \A q \in WRequests : wreq'[q] = IF q = r THEN v ELSE wreq[q]
      /\ BornIds \subseteq BornIds' /\ SettledIds \subseteq SettledIds' /\ CreationsApart'
  BY RequestMoves
<1>2. RequestSound(v, wset.kind, BornIds', wlog'.created, wdb'["comment"])
  BY <1>1 DEF RequestSound
<1>3. RequestsSound'
  <2>1. \A i \in BornIds \cap DOMAIN wdb'["comment"] :
           i \in DOMAIN wdb["comment"] /\ wdb'["comment"][i].assigned = wdb["comment"][i].assigned
    OBVIOUS
  <2> QED BY <1>1, <1>2, <2>1, RequestsCarry
<1>4. RowsStand' BY <1>1 DEF WorkspacesInv, RowsStand
<1>5. CommentsSigned' BY DEF WorkspacesInv, CommentsSigned
<1>6. MembersOwned' BY <1>1 DEF WorkspacesInv, MembersOwned, OwnerStays
<1> QED BY <1>1, <1>3, <1>4, <1>5, <1>6 DEF WorkspacesInv

\* A counted fault leaves the rest of the log alone.
LEMMA FaultLogs == ASSUME WorkspacesInv, Fault
  PROVE DOMAIN wlog' = DOMAIN wlog /\ wlog'.drawn = wlog.drawn /\ wlog'.created = wlog.created /\ wlog'.deleted = wlog.deleted
BY DEF WorkspacesInv, Fault

\* The request is answered, or it moves to a place where nothing new must hold.
LEMMA MovedTo ==
  ASSUME WorkspacesInv, NEW r \in WRequests, NEW p, Goto(r, p)
  PROVE  LET v == [wreq[r] EXCEPT !.pc = p] IN
         /\ wreq' = [wreq EXCEPT ![r] = v]
         /\ DOMAIN v = RequestFields /\ v.pc = p /\ v.op = wreq[r].op /\ v.id = wreq[r].id /\ v.by = wreq[r].by
         /\ v.to = wreq[r].to /\ v.role = wreq[r].role /\ v.row = wreq[r].row
<1>1. DOMAIN wreq[r] = RequestFields BY DEF WorkspacesInv, RequestsSound, RequestSound
<1> QED BY <1>1 DEF Goto, WorkspacesInv, RequestFields

\* The answer.
LEMMA AnswerStep ==
  ASSUME WorkspacesInv, NEW r \in WRequests, Answer(r), wset' = wset, wdb' = wdb, DOMAIN wlog' = DOMAIN wlog,
         wlog'.drawn = wlog.drawn, wlog'.created = wlog.created, wlog'.deleted = wlog.deleted,
         DOMAIN wcache' \subseteq BornIds
  PROVE  WorkspacesInv'
<1>1. wreq' = [wreq EXCEPT ![r] = NoRequest] BY DEF Answer
<1>2. RequestSound(NoRequest, wset.kind, BornIds, wlog.created, wdb["comment"]) /\ ~Awaited(NoRequest)
      /\ NoRequest.pc # "insert"
  BY IdleSound
<1> QED BY <1>1, <1>2, QuietStep

\* A request for a row that exists, or did.
LEMMA BeginKeeps ==
  ASSUME WorkspacesInv, NEW r \in WRequests, NEW op, NEW pc \in {"find", "member", "role", "findTask", "findComment"},
         NEW id, NEW by, NEW to, NEW role, Begin(r, op, pc, id, by, to, role),
         op \in {"createWorkspace", "deleteWorkspace"} => wset.kind = "workspace",
         op \in TaskOps \/ pc = "findTask" => wset.kind = "task",
         op \in CommentOps \/ pc = "findComment" => wset.kind = "comment",
         op = "addMember" => role \in {"admin", "member"}
  PROVE  WorkspacesInv'
<1> DEFINE v == [NoRequest EXCEPT !.op = op, !.pc = pc, !.id = id, !.by = by, !.to = to, !.role = role]
<1>1. wreq' = [wreq EXCEPT ![r] = v] /\ UNCHANGED <<wset, wdb, wcache>> BY DEF Begin
<1>2. DOMAIN wlog' = DOMAIN wlog /\ wlog'.drawn = wlog.drawn /\ wlog'.created = wlog.created
      /\ wlog'.deleted = wlog.deleted
  BY DEF Begin, WorkspacesInv
<1>3. DOMAIN v = RequestFields /\ v.op = op /\ v.pc = pc /\ v.role = role BY DEF NoRequest, RequestFields
<1> HIDE DEF v
<1>4. RequestSound(v, wset.kind, BornIds, wlog.created, wdb["comment"]) BY <1>3 DEF RequestSound
<1>5. ~Awaited(v) /\ v.pc # "insert" BY <1>3 DEF Awaited
<1>6. DOMAIN wcache' \subseteq BornIds BY <1>1 DEF WorkspacesInv, RowsStand
<1> QED BY <1>1, <1>2, <1>4, <1>5, <1>6, QuietStep

\* A request for a new row draws an identifier.
LEMMA BeginCreateKeeps ==
  ASSUME WorkspacesInv, NEW r \in WRequests, NEW op, NEW id, NEW by, BeginCreate(r, op, id, by),
         op = "createWorkspace" => wset.kind = "workspace",
         op = "createTask" => wset.kind = "task",
         op = "createComment" => wset.kind = "comment",
         op \in {"createWorkspace", "createTask", "createComment"}
  PROVE  WorkspacesInv'
<1> DEFINE n == wlog.drawn + 1
<1> DEFINE v == [NoRequest EXCEPT !.op = op, !.pc = "insert", !.id = n, !.by = by, !.to = id]
<1>1. wreq' = [wreq EXCEPT ![r] = v] /\ UNCHANGED <<wset, wdb, wcache>> /\ wreq[r].pc = "idle" BY DEF BeginCreate
<1>2. DOMAIN wlog' = DOMAIN wlog /\ wlog'.drawn = n /\ wlog'.created = wlog.created /\ wlog'.deleted = wlog.deleted
  BY DEF BeginCreate, WorkspacesInv
<1>3. DOMAIN v = RequestFields /\ v.op = op /\ v.pc = "insert" /\ v.id = n BY DEF NoRequest, RequestFields
<1> HIDE DEF v
<1>4. wlog.drawn \in Nat /\ n \in Nat /\ \A i \in 1..wlog.drawn : i \in 1..n /\ i # n BY DEF WorkspacesInv
<1>5. DOMAIN wreq' = WRequests /\ \A q \in WRequests : wreq'[q] = IF q = r THEN v ELSE wreq[q]
  BY <1>1 DEF WorkspacesInv
<1>6. BornIds \subseteq BornIds' BY <1>2, <1>3, <1>4, <1>5 DEF BornIds
<1>7. SettledIds \subseteq SettledIds' BY <1>2, <1>3, <1>4, <1>5 DEF SettledIds, Awaited
<1>8. CreationsApart'
  <2>1. \A q \in WRequests \ {r} : Awaited(wreq'[q]) => wreq'[q].id \in 1..wlog.drawn /\ wreq'[q] = wreq[q]
    BY <1>5 DEF WorkspacesInv, CreationsApart
  <2>2. wreq'[r] = v BY <1>5
  <2>3. \A q \in WRequests : Awaited(wreq'[q]) => wreq'[q].id \in 1..wlog'.drawn
    BY <1>2, <1>3, <1>4, <2>1, <2>2
  <2>4. \A p, q \in WRequests : Awaited(wreq'[p]) /\ Awaited(wreq'[q]) /\ wreq'[p].id = wreq'[q].id => p = q
    BY <1>3, <1>4, <2>1, <2>2 DEF WorkspacesInv, CreationsApart
  <2> QED BY <2>3, <2>4 DEF CreationsApart, Awaited
<1>9. RequestSound(v, wset.kind, BornIds', wlog'.created, wdb'["comment"])
  BY <1>3 DEF RequestSound, TaskOps, CommentOps
<1>10. RequestsSound'
  <2>1. \A i \in BornIds \cap DOMAIN wdb'["comment"] :
           i \in DOMAIN wdb["comment"] /\ wdb'["comment"][i].assigned = wdb["comment"][i].assigned
    BY <1>1
  <2> QED BY <1>1, <1>2, <1>5, <1>6, <1>9, <2>1, RequestsCarry
<1>11. RowsStand' BY <1>1, <1>2, <1>6 DEF WorkspacesInv, RowsStand
<1>12. CommentsSigned' BY <1>1 DEF WorkspacesInv, CommentsSigned
<1>13. MembersOwned' BY <1>1, <1>2, <1>7 DEF WorkspacesInv, MembersOwned, OwnerStays
<1> QED BY <1>1, <1>2, <1>4, <1>5, <1>8, <1>10, <1>11, <1>12, <1>13 DEF WorkspacesInv

\* After FindByID: the answer, or on to the deletion of a row that was born.
LEMMA AfterFindKeeps ==
  ASSUME WorkspacesInv, NEW r \in WRequests, NEW row, AfterFind(r, row), wreq[r].id \in BornIds,
         wset' = wset, wdb' = wdb, DOMAIN wlog' = DOMAIN wlog,
         wlog'.drawn = wlog.drawn, wlog'.created = wlog.created, wlog'.deleted = wlog.deleted,
         DOMAIN wcache' \subseteq BornIds
  PROVE  WorkspacesInv'
<1>1. CASE Answer(r) BY <1>1, AnswerStep
<1>2. CASE wreq[r].op = "deleteWorkspace" /\ Goto(r, "erase")
  <2> DEFINE v == [wreq[r] EXCEPT !.pc = "erase"]
  <2>1. wreq' = [wreq EXCEPT ![r] = v] /\ DOMAIN v = RequestFields /\ v.pc = "erase" /\ v.op = "deleteWorkspace"
        /\ v.id = wreq[r].id
    BY <1>2, MovedTo
  <2> HIDE DEF v
  <2>2. RequestSound(wreq[r], wset.kind, BornIds, wlog.created, wdb["comment"]) BY DEF WorkspacesInv, RequestsSound
  <2>3. RequestSound(v, wset.kind, BornIds, wlog.created, wdb["comment"])
    BY <1>2, <2>1, <2>2 DEF RequestSound, TaskOps, CommentOps
  <2>4. ~Awaited(v) /\ v.pc # "insert" BY <2>1 DEF Awaited
  <2> QED BY <2>1, <2>3, <2>4, QuietStep
<1> QED BY <1>1, <1>2 DEF AfterFind

\* A hit reads a copy the cache may hold.
LEMMA CacheHitKeeps == ASSUME WorkspacesInv, NEW r \in WRequests, CacheHit(r) PROVE WorkspacesInv'
<1>1. wreq[r].id \in BornIds /\ DOMAIN wcache' \subseteq BornIds BY DEF CacheHit, WorkspacesInv, RowsStand
<1>2. AfterFind(r, wcache[wreq[r].id]) /\ UNCHANGED <<wset, wdb, wlog>> BY DEF CacheHit
<1> QED BY <1>1, <1>2, AfterFindKeeps

\* A copy put into the cache is one of a workspace that was created.
LEMMA CacheFillKeeps == ASSUME WorkspacesInv, NEW r \in WRequests, CacheFill(r) PROVE WorkspacesInv'
<1>1. wreq[r].pc = "fill" /\ AfterFind(r, wreq[r].row) /\ UNCHANGED <<wset, wdb>> BY DEF CacheFill
<1>2. wreq[r].id \in BornIds BY <1>1 DEF WorkspacesInv, RequestsSound, RequestSound
<1>3. DOMAIN wcache' \subseteq BornIds BY <1>2 DEF CacheFill, WithRow, WorkspacesInv, RowsStand
<1>4. DOMAIN wlog' = DOMAIN wlog /\ wlog'.drawn = wlog.drawn /\ wlog'.created = wlog.created /\ wlog'.deleted = wlog.deleted
  BY FaultLogs DEF CacheFill
<1> QED BY <1>1, <1>2, <1>3, <1>4, AfterFindKeeps

\* A miss only moves the request on.
LEMMA CacheMissKeeps == ASSUME WorkspacesInv, NEW r \in WRequests, CacheMiss(r) PROVE WorkspacesInv'
<1>1. wreq[r].pc = "find" /\ UNCHANGED <<wset, wdb, wcache>> BY DEF CacheMiss
<1>2. DOMAIN wlog' = DOMAIN wlog /\ wlog'.drawn = wlog.drawn /\ wlog'.created = wlog.created /\ wlog'.deleted = wlog.deleted
  BY FaultLogs DEF CacheMiss
<1>3. DOMAIN wcache' \subseteq BornIds BY <1>1 DEF WorkspacesInv, RowsStand
<1>4. CASE Answer(r) BY <1>1, <1>2, <1>3, <1>4, AnswerStep
<1>5. CASE wreq[r].id \in DOMAIN wdb["workspace"]
           /\ wreq' = [wreq EXCEPT ![r].pc = "fill", ![r].row = wdb["workspace"][wreq[r].id]]
  <2> DEFINE v == [wreq[r] EXCEPT !.pc = "fill", !.row = wdb["workspace"][wreq[r].id]]
  <2>1. RequestSound(wreq[r], wset.kind, BornIds, wlog.created, wdb["comment"]) BY DEF WorkspacesInv, RequestsSound
  <2>2. wreq' = [wreq EXCEPT ![r] = v] BY <1>5 DEF WorkspacesInv
  <2>3. DOMAIN v = RequestFields /\ v.pc = "fill" /\ v.op = wreq[r].op /\ v.id = wreq[r].id /\ v.role = wreq[r].role
    BY <2>1 DEF RequestSound, RequestFields
  <2> HIDE DEF v
  <2>4. v.id \in BornIds BY <1>5, <2>3 DEF WorkspacesInv, RowsStand, RowTables
  <2>5. RequestSound(v, wset.kind, BornIds, wlog.created, wdb["comment"]) BY <2>1, <2>3, <2>4 DEF RequestSound
  <2>6. ~Awaited(v) /\ v.pc # "insert" BY <2>3 DEF Awaited
  <2> QED BY <1>1, <1>2, <1>3, <2>2, <2>5, <2>6, QuietStep
<1> QED BY <1>4, <1>5 DEF CacheMiss

\* A cache with fewer copies is still right.
LEMMA CacheExpiresKeeps == ASSUME WorkspacesInv, NEW id, CacheExpires(id) PROVE WorkspacesInv'
<1>1. UNCHANGED <<wset, wdb, wreq, wlog>> /\ DOMAIN wcache' \subseteq DOMAIN wcache BY DEF CacheExpires
<1>2. BornIds' = BornIds /\ SettledIds' = SettledIds BY <1>1 DEF BornIds, SettledIds, Awaited
<1>3. RequestsSound' /\ CreationsApart' BY <1>1, <1>2 DEF WorkspacesInv, RequestsSound, RequestSound, CreationsApart, Awaited
<1>4. RowsStand' /\ CommentsSigned' BY <1>1, <1>2 DEF WorkspacesInv, RowsStand, CommentsSigned
<1>5. MembersOwned' BY <1>1, <1>2 DEF WorkspacesInv, MembersOwned, OwnerStays
<1> QED BY <1>1, <1>3, <1>4, <1>5 DEF WorkspacesInv

\* The steps of AddMember and RemoveMember before their writes, and the ends of requests.
LEMMA EvictKeepsWorkspaces == ASSUME WorkspacesInv, NEW r \in WRequests, EvictWorkspace(r) PROVE WorkspacesInv'
<1>1. Answer(r) /\ UNCHANGED <<wset, wdb>> BY DEF EvictWorkspace
<1>2. DOMAIN wlog' = DOMAIN wlog /\ wlog'.drawn = wlog.drawn /\ wlog'.created = wlog.created /\ wlog'.deleted = wlog.deleted
  BY DEF EvictWorkspace, WorkspacesInv
<1>3. DOMAIN wcache' \subseteq BornIds BY DEF EvictWorkspace, WorkspacesInv, RowsStand
<1> QED BY <1>1, <1>2, <1>3, AnswerStep

\* A request that fails or ends leaves the tables alone.
LEMMA EndKeeps ==
  ASSUME WorkspacesInv, NEW r \in WRequests, RepositoryFails(r) \/ PublishChange(r) PROVE WorkspacesInv'
<1>1. Answer(r) /\ UNCHANGED <<wset, wdb, wcache>> BY DEF RepositoryFails, PublishChange
<1>2. DOMAIN wlog' = DOMAIN wlog /\ wlog'.drawn = wlog.drawn /\ wlog'.created = wlog.created /\ wlog'.deleted = wlog.deleted
  BY FaultLogs DEF RepositoryFails, PublishChange
<1>3. DOMAIN wcache' \subseteq BornIds BY <1>1 DEF WorkspacesInv, RowsStand
<1> QED BY <1>1, <1>2, <1>3, AnswerStep

\* A role is held only in a workspace that has its owner.
LEMMA RoleMeansOwned ==
  ASSUME WorkspacesInv, NEW id, NEW u, PgGetRole(wdb, id, u) # "error"
  PROVE  <<id, u>> \in DOMAIN wdb["member"] /\ id \in Owned(wlog.created)
<1>1. <<id, u>> \in DOMAIN wdb["member"] BY DEF PgGetRole
<1>2. <<id, u>>[1] = id OBVIOUS
<1> QED BY <1>1, <1>2 DEF WorkspacesInv, MembersOwned

\* The checks of AddMember.
LEMMA AddChecksKeep ==
  ASSUME WorkspacesInv, NEW r \in WRequests, AddMemberMember(r) \/ AddMemberRole(r) \/ AddMemberExists(r)
  PROVE  WorkspacesInv'
<1>1. UNCHANGED <<wset, wdb, wcache, wlog>> BY DEF AddMemberMember, AddMemberRole, AddMemberExists
<1>2. DOMAIN wcache' \subseteq BornIds BY <1>1 DEF WorkspacesInv, RowsStand
<1>3. RequestSound(wreq[r], wset.kind, BornIds, wlog.created, wdb["comment"]) BY DEF WorkspacesInv, RequestsSound
<1>4. CASE Answer(r) BY <1>1, <1>2, <1>4, AnswerStep
<1>5. ASSUME NEW p \in {"role", "exists", "add"}, Goto(r, p), wreq[r].op = "addMember",
             p # "role" => wreq[r].id \in Owned(wlog.created)
      PROVE  WorkspacesInv'
  <2> DEFINE v == [wreq[r] EXCEPT !.pc = p]
  <2>1. wreq' = [wreq EXCEPT ![r] = v] /\ DOMAIN v = RequestFields /\ v.pc = p /\ v.op = "addMember"
        /\ v.id = wreq[r].id /\ v.role = wreq[r].role
    BY <1>5, MovedTo
  <2> HIDE DEF v
  <2>2. RequestSound(v, wset.kind, BornIds, wlog.created, wdb["comment"])
    BY <1>3, <1>5, <2>1 DEF RequestSound, TaskOps, CommentOps
  <2>3. ~Awaited(v) /\ v.pc # "insert" BY <2>1 DEF Awaited
  <2> QED BY <1>1, <1>2, <2>1, <2>2, <2>3, QuietStep
<1>6. CASE AddMemberRole(r)
  <2>1. Answer(r) \/ (Goto(r, "exists") /\ PgGetRole(wdb, wreq[r].id, wreq[r].by) \in {"owner", "admin"})
    BY <1>6 DEF AddMemberRole
  <2>2. PgGetRole(wdb, wreq[r].id, wreq[r].by) \in {"owner", "admin"} => wreq[r].id \in Owned(wlog.created)
    BY RoleMeansOwned
  <2>3. wreq[r].op = "addMember" BY <1>6 DEF AddMemberRole, At
  <2> QED BY <1>4, <1>5, <2>1, <2>2, <2>3
<1>7. CASE AddMemberExists(r)
  <2>1. Answer(r) \/ Goto(r, "add") BY <1>7 DEF AddMemberExists
  <2>2. wreq[r].op = "addMember" /\ wreq[r].pc = "exists" BY <1>7 DEF AddMemberExists, At
  <2>3. wreq[r].id \in Owned(wlog.created) BY <1>3, <2>2 DEF RequestSound
  <2> QED BY <1>4, <1>5, <2>1, <2>2, <2>3
<1>8. CASE AddMemberMember(r)
  <2>1. (Answer(r) \/ Goto(r, "role")) /\ wreq[r].op = "addMember" BY <1>8 DEF AddMemberMember, At
  <2> QED BY <1>4, <1>5, <2>1
<1> QED BY <1>6, <1>7, <1>8

\* The checks of RemoveMember: whoever passes them is not the owner.
LEMMA RemoveChecksKeep ==
  ASSUME WorkspacesInv, NEW r \in WRequests, RemoveMemberRole(r) \/ RemoveMemberCheck(r) PROVE WorkspacesInv'
<1>1. UNCHANGED <<wset, wdb, wcache, wlog>> BY DEF RemoveMemberRole, RemoveMemberCheck
<1>2. DOMAIN wcache' \subseteq BornIds BY <1>1 DEF WorkspacesInv, RowsStand
<1>3. RequestSound(wreq[r], wset.kind, BornIds, wlog.created, wdb["comment"]) BY DEF WorkspacesInv, RequestsSound
<1>4. CASE Answer(r) BY <1>1, <1>2, <1>4, AnswerStep
<1>5. CASE RemoveMemberRole(r) /\ ~Answer(r)
  <2> DEFINE role == PgGetRole(wdb, wreq[r].id, wreq[r].by)
  <2>1. wreq' = [wreq EXCEPT ![r].pc = "check", ![r].role = role] /\ wreq[r].op = "removeMember"
    BY <1>5 DEF RemoveMemberRole, At
  <2> HIDE DEF role
  <2> DEFINE v == [wreq[r] EXCEPT !.pc = "check", !.role = role]
  <2>2. wreq' = [wreq EXCEPT ![r] = v] BY <2>1 DEF WorkspacesInv
  <2>3. DOMAIN v = RequestFields /\ v.pc = "check" /\ v.op = "removeMember"
    BY <1>3, <2>1 DEF RequestSound, RequestFields
  <2> HIDE DEF v
  <2>4. RequestSound(v, wset.kind, BornIds, wlog.created, wdb["comment"])
    BY <2>3 DEF RequestSound, TaskOps, CommentOps
  <2>5. ~Awaited(v) /\ v.pc # "insert" BY <2>3 DEF Awaited
  <2> QED BY <1>1, <1>2, <2>2, <2>4, <2>5, QuietStep
<1>6. CASE RemoveMemberCheck(r) /\ ~Answer(r)
  <2> DEFINE k == <<wreq[r].id, wreq[r].to>>
  <2>1. MayRemove(wreq[r].role, PgGetRole(wdb, wreq[r].id, wreq[r].to)) /\ Goto(r, "remove") /\ wreq[r].op = "removeMember"
    BY <1>6 DEF RemoveMemberCheck, At
  <2>2. PgGetRole(wdb, wreq[r].id, wreq[r].to) \notin {"error", "owner"} BY <2>1 DEF MayRemove
  <2>3. k \in DOMAIN wdb["member"] /\ wreq[r].id \in Owned(wlog.created) BY <2>2, RoleMeansOwned
  <2>4. wdb["member"][k] # "owner" BY <2>2, <2>3 DEF PgGetRole
  <2>5. k \notin wlog.created BY <2>4 DEF WorkspacesInv, MembersOwned, OwnerStays
  <2> DEFINE v == [wreq[r] EXCEPT !.pc = "remove"]
  <2>6. wreq' = [wreq EXCEPT ![r] = v] /\ DOMAIN v = RequestFields /\ v.pc = "remove" /\ v.op = "removeMember"
        /\ v.id = wreq[r].id /\ v.to = wreq[r].to
    BY <2>1, MovedTo
  <2> HIDE DEF v
  <2>7. RequestSound(v, wset.kind, BornIds, wlog.created, wdb["comment"])
    BY <2>3, <2>5, <2>6 DEF RequestSound, TaskOps, CommentOps
  <2>8. ~Awaited(v) /\ v.pc # "insert" BY <2>6 DEF Awaited
  <2> QED BY <1>1, <1>2, <2>6, <2>7, <2>8, QuietStep
<1> QED BY <1>4, <1>5, <1>6

\* FindByID of the task and the comment repository.
LEMMA FindTaskKeeps == ASSUME WorkspacesInv, NEW r \in WRequests, FindTask(r) PROVE WorkspacesInv'
<1>1. UNCHANGED <<wset, wdb, wcache, wlog>> /\ wreq[r].pc = "findTask" BY DEF FindTask
<1>2. DOMAIN wcache' \subseteq BornIds BY <1>1 DEF WorkspacesInv, RowsStand
<1>3. RequestSound(wreq[r], wset.kind, BornIds, wlog.created, wdb["comment"]) BY DEF WorkspacesInv, RequestsSound
<1>4. CASE Answer(r) BY <1>1, <1>2, <1>4, AnswerStep
<1>5. CASE ~Answer(r)
  <2> DEFINE row == wdb["task"][wreq[r].id]
  <2>1. wreq[r].id \in DOMAIN wdb["task"] /\ wreq' = [wreq EXCEPT ![r].pc = "write", ![r].row = row] BY <1>5 DEF FindTask
  <2>2. wreq[r].id \in BornIds BY <2>1 DEF WorkspacesInv, RowsStand, RowTables
  <2> HIDE DEF row
  <2> DEFINE v == [wreq[r] EXCEPT !.pc = "write", !.row = row]
  <2>3. wreq' = [wreq EXCEPT ![r] = v] BY <2>1 DEF WorkspacesInv
  <2>4. DOMAIN v = RequestFields /\ v.pc = "write" /\ v.op = wreq[r].op /\ v.id = wreq[r].id /\ v.role = wreq[r].role
    BY <1>3 DEF RequestSound, RequestFields
  <2> HIDE DEF v
  <2>5. wset.kind = "task" /\ v.op \notin CommentOps BY <1>1, <1>3, <2>4 DEF RequestSound
  <2>6. RequestSound(v, wset.kind, BornIds, wlog.created, wdb["comment"])
    BY <1>3, <2>2, <2>4, <2>5 DEF RequestSound, CommentOps
  <2>7. ~Awaited(v) /\ v.pc # "insert" BY <2>4 DEF Awaited
  <2> QED BY <1>1, <1>2, <2>3, <2>6, <2>7, QuietStep
<1> QED BY <1>4, <1>5

\* The comment a request goes on with is one it read.
LEMMA FindCommentKeeps == ASSUME WorkspacesInv, NEW r \in WRequests, FindComment(r) PROVE WorkspacesInv'
<1>1. UNCHANGED <<wset, wdb, wcache, wlog>> /\ wreq[r].pc = "findComment" BY DEF FindComment
<1>2. DOMAIN wcache' \subseteq BornIds BY <1>1 DEF WorkspacesInv, RowsStand
<1>3. RequestSound(wreq[r], wset.kind, BornIds, wlog.created, wdb["comment"]) BY DEF WorkspacesInv, RequestsSound
<1>4. CASE Answer(r) BY <1>1, <1>2, <1>4, AnswerStep
<1>5. CASE ~Answer(r)
  <2> DEFINE row == wdb["comment"][wreq[r].id]
  <2>1. wreq[r].id \in DOMAIN wdb["comment"] /\ row.assigned = wreq[r].by
        /\ wreq' = [wreq EXCEPT ![r].pc = "write", ![r].row = row]
    BY <1>5 DEF FindComment
  <2>2. wreq[r].id \in BornIds BY <2>1 DEF WorkspacesInv, RowsStand, RowTables
  <2>3. DOMAIN row = {"of", "status", "assigned"} BY <2>1 DEF WorkspacesInv, CommentsSigned
  <2> DEFINE v == [wreq[r] EXCEPT !.pc = "write", !.row = row]
  <2>5. wreq' = [wreq EXCEPT ![r] = v] BY <2>1 DEF WorkspacesInv
  <2>6. DOMAIN v = RequestFields /\ v.pc = "write" /\ v.op = wreq[r].op /\ v.id = wreq[r].id /\ v.role = wreq[r].role
        /\ v.by = wreq[r].by /\ v.row = row
    BY <1>3 DEF RequestSound, RequestFields
  <2> HIDE DEF v
  <2>7. wset.kind = "comment" BY <1>1, <1>3 DEF RequestSound
  <2>8. RequestSound(v, wset.kind, BornIds, wlog.created, wdb["comment"])
    BY <1>3, <2>1, <2>2, <2>3, <2>6, <2>7 DEF RequestSound
  <2>9. ~Awaited(v) /\ v.pc # "insert" BY <2>6 DEF Awaited
  <2> QED BY <1>1, <1>2, <2>5, <2>8, <2>9, QuietStep
<1> QED BY <1>4, <1>5

\* A step that writes the table of the service that runs.
LEMMA RowWrite ==
  ASSUME WorkspacesInv, NEW r \in WRequests, NEW v, wreq' = [wreq EXCEPT ![r] = v], wset' = wset,
         Awaited(v) => Awaited(wreq[r]) /\ v.id = wreq[r].id, v.pc # "insert",
         DOMAIN wlog' = DOMAIN wlog, wlog'.drawn = wlog.drawn, wlog'.created = wlog.created,
         RequestSound(v, wset.kind, BornIds', wlog.created, wdb'["comment"]),
         NEW t \in RowTables, t = wset.kind, DOMAIN wdb' = RepoKinds, \A u \in RepoKinds \ {t} : wdb'[u] = wdb[u],
         DOMAIN wdb'[t] \subseteq BornIds' \ wlog'.deleted, wlog'.deleted \subseteq BornIds', DOMAIN wcache' \subseteq BornIds',
         \A i \in BornIds \cap DOMAIN wdb'["comment"] :
           i \in DOMAIN wdb["comment"] /\ wdb'["comment"][i].assigned = wdb["comment"][i].assigned,
         CommentsSigned'
  PROVE  WorkspacesInv'
<1>1. /\ DOMAIN wreq' = WRequests /\ \A q \in WRequests : wreq'[q] = IF q = r THEN v ELSE wreq[q]
      /\ BornIds \subseteq BornIds' /\ SettledIds \subseteq SettledIds' /\ CreationsApart'
  BY RequestMoves
<1>2. RequestsSound' BY <1>1, RequestsCarry
<1>3. RowTables \subseteq RepoKinds /\ "member" \in RepoKinds \ RowTables BY DEF RowTables, RepoKinds
<1>4. RowsStand'
  <2>1. \A u \in RowTables : u # wset'.kind => DOMAIN wdb'[u] = {} BY <1>3 DEF WorkspacesInv, RowsStand
  <2>2. \A u \in RowTables : DOMAIN wdb'[u] \subseteq BornIds' \ wlog'.deleted BY <2>1
  <2> QED BY <2>1, <2>2 DEF RowsStand
<1>5. MembersOwned'
  <2>1. wdb'["member"] = wdb["member"] BY <1>3
  <2> QED BY <1>1, <2>1 DEF WorkspacesInv, MembersOwned, OwnerStays
<1> QED BY <1>1, <1>2, <1>4, <1>5 DEF WorkspacesInv

\* A row is inserted under an identifier that was awaited.
LEMMA InsertBorn ==
  ASSUME WorkspacesInv, NEW r \in WRequests, NEW v, wreq' = [wreq EXCEPT ![r] = v], wreq[r].pc = "insert",
         Awaited(v) => v.id = wreq[r].id, v.pc # "insert", wlog'.drawn = wlog.drawn
  PROVE  wreq[r].id \in BornIds' /\ wreq[r].id \notin BornIds /\ wreq[r].id \notin wlog.deleted /\ BornIds \subseteq BornIds'
<1>1. Awaited(wreq[r]) BY DEF Awaited
<1>2. \A q \in WRequests : wreq'[q] = IF q = r THEN v ELSE wreq[q] BY DEF WorkspacesInv
<1>3. wreq[r].id \in 1..wlog.drawn BY <1>1 DEF WorkspacesInv, CreationsApart
<1>4. \A q \in WRequests : wreq'[q].pc = "insert" => wreq'[q].id # wreq[r].id
  BY <1>1, <1>2 DEF WorkspacesInv, CreationsApart, Awaited
<1>5. wreq[r].id \in BornIds' BY <1>3, <1>4 DEF BornIds
<1>6. wreq[r].id \notin BornIds BY DEF BornIds
<1>7. wreq[r].id \notin wlog.deleted BY <1>6 DEF WorkspacesInv, RowsStand
<1>8. BornIds \subseteq BornIds' BY <1>1, RequestMoves
<1> QED BY <1>5, <1>6, <1>7, <1>8

\* After a write the request is answered, or has only an eviction or an event left.
LEMMA WrittenMoves ==
  ASSUME WorkspacesInv, NEW r \in WRequests, NEW p \in {"publish", "evict"}, Answer(r) \/ Goto(r, p)
  PROVE  \E v : /\ wreq' = [wreq EXCEPT ![r] = v] /\ ~Awaited(v) /\ v.pc # "insert"
                /\ \A born, created, comments : RequestSound(v, wset.kind, born, created, comments)
<1>1. CASE Answer(r)
  <2>1. wreq' = [wreq EXCEPT ![r] = NoRequest] BY <1>1 DEF Answer
  <2>2. ~Awaited(NoRequest) /\ NoRequest.pc # "insert"
        /\ \A born, created, comments : RequestSound(NoRequest, wset.kind, born, created, comments)
    BY IdleSound
  <2> QED BY <2>1, <2>2
<1>2. CASE Goto(r, p)
  <2> DEFINE v == [wreq[r] EXCEPT !.pc = p]
  <2>1. wreq' = [wreq EXCEPT ![r] = v] /\ DOMAIN v = RequestFields /\ v.pc = p /\ v.op = wreq[r].op
        /\ v.role = wreq[r].role
    BY <1>2, MovedTo
  <2> HIDE DEF v
  <2>2. RequestSound(wreq[r], wset.kind, BornIds, wlog.created, wdb["comment"]) BY DEF WorkspacesInv, RequestsSound
  <2>3. \A born, created, comments : RequestSound(v, wset.kind, born, created, comments)
    BY <2>1, <2>2 DEF RequestSound
  <2>4. ~Awaited(v) /\ v.pc # "insert" BY <2>1 DEF Awaited
  <2> QED BY <2>1, <2>3, <2>4
<1> QED BY <1>1, <1>2

\* A new workspace has its identifier for itself, and no owner before its row.
LEMMA CreateWorkspaceKeeps == ASSUME WorkspacesInv, NEW r \in WRequests, CreateWorkspace(r) PROVE WorkspacesInv'
<1> DEFINE id == wreq[r].id
<1> DEFINE row == [owner |-> wreq[r].by]
<1> DEFINE v == [wreq[r] EXCEPT !.pc = "cache"]
<1>1. wreq[r].op = "createWorkspace" /\ wreq[r].pc = "insert" /\ UNCHANGED <<wset, wcache, wlog>> /\ Goto(r, "cache")
  BY DEF CreateWorkspace, At
<1>2. wdb' = Insert(wdb, "workspace", id, row).store BY DEF CreateWorkspace, PgCreateWorkspace
<1>3. DOMAIN wdb = RepoKinds /\ "workspace" \in RepoKinds BY DEF WorkspacesInv, RowsStand, RepoKinds
<1>4. DOMAIN wlog' = DOMAIN wlog /\ wlog'.drawn = wlog.drawn /\ wlog'.created = wlog.created /\ wlog'.deleted = wlog.deleted
  BY <1>1
<1>6. wreq' = [wreq EXCEPT ![r] = v] /\ DOMAIN v = RequestFields /\ v.pc = "cache" /\ v.op = wreq[r].op /\ v.id = id
  BY <1>1, MovedTo
<1> HIDE DEF v, row
<1>7. id \in BornIds' /\ id \notin BornIds /\ id \notin wlog.deleted /\ BornIds \subseteq BornIds'
  BY <1>1, <1>4, <1>6, InsertBorn
<1>80. RowAdded(wdb, wdb', "workspace", id, row) BY ONLY <1>2, <1>3, InsertTable
<1>8. DOMAIN wdb' = RepoKinds /\ \A u \in RepoKinds \ {"workspace"} : wdb'[u] = wdb[u] BY <1>80 DEF RowAdded, OnlyTable
<1>9. DOMAIN wdb'["workspace"] = DOMAIN wdb["workspace"] \cup {id} BY <1>80 DEF RowAdded
<1>10. wset.kind = "workspace" BY <1>1 DEF WorkspacesInv, RequestsSound, RequestSound
<1>11. wdb'["comment"] = wdb["comment"] BY <1>8 DEF RepoKinds
<1>12. CommentsSigned' BY <1>11 DEF WorkspacesInv, CommentsSigned
<1>13. RequestSound(v, wset.kind, BornIds', wlog.created, wdb'["comment"])
  BY <1>1, <1>6, <1>7, <1>10 DEF RequestSound, TaskOps, CommentOps
<1>14. DOMAIN wdb'["workspace"] \subseteq BornIds' \ wlog'.deleted
  BY <1>4, <1>7, <1>9 DEF WorkspacesInv, RowsStand, RowTables
<1>15. wlog'.deleted \subseteq BornIds' /\ DOMAIN wcache' \subseteq BornIds'
  BY <1>1, <1>4, <1>7 DEF WorkspacesInv, RowsStand
<1>16. Awaited(wreq[r]) /\ v.pc # "insert" /\ "workspace" \in RowTables BY <1>1, <1>6 DEF Awaited, RowTables
<1>17. \A i \in BornIds \cap DOMAIN wdb'["comment"] :
           i \in DOMAIN wdb["comment"] /\ wdb'["comment"][i].assigned = wdb["comment"][i].assigned
  BY <1>11
<1> QED BY ONLY WorkspacesInv, r \in WRequests, <1>1, <1>4, <1>6, <1>8, <1>10, <1>12, <1>13, <1>14, <1>15, <1>16, <1>17, RowWrite

\* Its copy is put into the cache, and its owner is still to come.
LEMMA CacheCreatedKeeps == ASSUME WorkspacesInv, NEW r \in WRequests, CacheCreated(r) PROVE WorkspacesInv'
<1> DEFINE v == [wreq[r] EXCEPT !.pc = "addOwner"]
<1>1. wreq[r].op = "createWorkspace" /\ wreq[r].pc = "cache" /\ UNCHANGED <<wset, wdb>> /\ Goto(r, "addOwner")
  BY DEF CacheCreated, At
<1>2. RequestSound(wreq[r], wset.kind, BornIds, wlog.created, wdb["comment"]) BY DEF WorkspacesInv, RequestsSound
<1>3. wreq[r].id \in BornIds BY <1>1, <1>2 DEF RequestSound
<1>4. DOMAIN wcache' \subseteq BornIds BY <1>3 DEF CacheCreated, WithRow, WorkspacesInv, RowsStand
<1>5. DOMAIN wlog' = DOMAIN wlog /\ wlog'.drawn = wlog.drawn /\ wlog'.created = wlog.created /\ wlog'.deleted = wlog.deleted
  BY FaultLogs DEF CacheCreated
<1>6. wreq' = [wreq EXCEPT ![r] = v] /\ DOMAIN v = RequestFields /\ v.pc = "addOwner" /\ v.op = wreq[r].op
      /\ v.id = wreq[r].id
  BY <1>1, MovedTo
<1> HIDE DEF v
<1>7. RequestSound(v, wset.kind, BornIds, wlog.created, wdb["comment"])
  BY <1>1, <1>2, <1>6 DEF RequestSound, TaskOps, CommentOps
<1>8. Awaited(wreq[r]) /\ v.pc # "insert" BY <1>1, <1>6 DEF Awaited
<1> QED BY <1>1, <1>4, <1>5, <1>6, <1>7, <1>8, QuietStep

\* A new task or comment.
LEMMA CreateRowKeeps ==
  ASSUME WorkspacesInv, NEW r \in WRequests, CreateTask(r) \/ CreateComment(r) PROVE WorkspacesInv'
<1> DEFINE id == wreq[r].id
<1>1. wreq[r].pc = "insert" /\ UNCHANGED <<wset, wcache, wlog>> /\ Goto(r, "publish")
  BY DEF CreateTask, CreateComment, At
<1>2. PICK t \in {"task", "comment"} :
        /\ wset.kind = t
        /\ \E row : /\ wdb' = Insert(wdb, t, id, row).store
                    /\ t = "comment" => DOMAIN row = {"of", "status", "assigned"} /\ row.status = ""
  <2>1. RequestSound(wreq[r], wset.kind, BornIds, wlog.created, wdb["comment"]) BY DEF WorkspacesInv, RequestsSound
  <2>2. CASE CreateTask(r)
    <3> DEFINE row == [of |-> 0, status |-> "pending", assigned |-> wreq[r].to]
    <3>1. wreq[r].op \in TaskOps BY <2>2 DEF CreateTask, At, TaskOps
    <3>2. wset.kind = "task" BY <2>1, <3>1 DEF RequestSound
    <3>3. wdb' = Insert(wdb, "task", id, row).store BY <2>2 DEF CreateTask, PgCreateTask
    <3> QED BY <3>2, <3>3
  <2>3. CASE CreateComment(r)
    <3> DEFINE row == [of |-> 0, status |-> "", assigned |-> wreq[r].by]
    <3>1. wreq[r].op \in CommentOps BY <2>3 DEF CreateComment, At, CommentOps
    <3>2. wset.kind = "comment" BY <2>1, <3>1 DEF RequestSound
    <3>3. wdb' = Insert(wdb, "comment", id, row).store BY <2>3 DEF CreateComment, PgCreateComment
    <3>4. DOMAIN row = {"of", "status", "assigned"} /\ row.status = "" OBVIOUS
    <3> HIDE DEF row
    <3> QED BY <3>2, <3>3, <3>4
  <2> QED BY <2>2, <2>3
<1>3. PICK row : /\ wdb' = Insert(wdb, t, id, row).store
                 /\ t = "comment" => DOMAIN row = {"of", "status", "assigned"} /\ row.status = ""
  BY <1>2
<1>4. PICK v : /\ wreq' = [wreq EXCEPT ![r] = v] /\ ~Awaited(v) /\ v.pc # "insert"
               /\ \A born, created, comments : RequestSound(v, wset.kind, born, created, comments)
  BY <1>1, WrittenMoves
<1>5. DOMAIN wdb = RepoKinds /\ t \in RepoKinds /\ t \in RowTables BY DEF WorkspacesInv, RowsStand, RepoKinds, RowTables
<1>6. id \in BornIds' /\ id \notin BornIds /\ id \notin wlog.deleted /\ BornIds \subseteq BornIds'
  BY <1>1, <1>4, InsertBorn
<1>61. wdb' = Insert(wdb, t, id, row).store BY <1>3
<1>62. RowAdded(wdb, wdb', t, id, row) BY ONLY <1>61, <1>5, InsertTable
<1>7. DOMAIN wdb' = RepoKinds /\ \A u \in RepoKinds \ {t} : wdb'[u] = wdb[u] BY <1>62 DEF RowAdded, OnlyTable
<1>8. DOMAIN wdb'[t] = DOMAIN wdb[t] \cup {id} /\ (\A i \in DOMAIN wdb[t] : wdb'[t][i] = wdb[t][i])
      /\ (id \notin DOMAIN wdb[t] => wdb'[t][id] = row)
  BY <1>62 DEF RowAdded
<1>9. id \notin DOMAIN wdb[t] BY <1>5, <1>6 DEF WorkspacesInv, RowsStand
<1>10. ASSUME t = "task" PROVE CommentsSigned' /\ \A i \in BornIds \cap DOMAIN wdb'["comment"] :
           i \in DOMAIN wdb["comment"] /\ wdb'["comment"][i].assigned = wdb["comment"][i].assigned
  <2>1. wdb'["comment"] = wdb["comment"] BY <1>7, <1>10 DEF RepoKinds
  <2>2. CommentsSigned' BY <2>1 DEF WorkspacesInv, CommentsSigned
  <2>3. \A i \in BornIds \cap DOMAIN wdb'["comment"] :
           i \in DOMAIN wdb["comment"] /\ wdb'["comment"][i].assigned = wdb["comment"][i].assigned
    BY <2>1
  <2> QED BY <2>2, <2>3
<1>11. ASSUME t = "comment" PROVE CommentsSigned' /\ \A i \in BornIds \cap DOMAIN wdb'["comment"] :
           i \in DOMAIN wdb["comment"] /\ wdb'["comment"][i].assigned = wdb["comment"][i].assigned
  <2>0. row.status = "" /\ DOMAIN row = {"of", "status", "assigned"} BY <1>3, <1>11
  <2>3. \A i \in DOMAIN wdb["comment"] : DOMAIN wdb["comment"][i] = {"of", "status", "assigned"}
          /\ wdb["comment"][i].status \in {"", wdb["comment"][i].assigned}
    BY DEF WorkspacesInv, CommentsSigned
  <2>4. \A i \in DOMAIN wdb'["comment"] : i = id \/ (i \in DOMAIN wdb["comment"] /\ wdb'["comment"][i] = wdb["comment"][i])
    BY <1>8, <1>11
  <2>5. wdb'["comment"][id] = row BY <1>8, <1>9, <1>11
  <2>1. CommentsSigned' BY <2>0, <2>3, <2>4, <2>5 DEF CommentsSigned
  <2>2. \A i \in BornIds \cap DOMAIN wdb'["comment"] :
           i \in DOMAIN wdb["comment"] /\ wdb'["comment"][i].assigned = wdb["comment"][i].assigned
    BY <1>6, <1>8, <1>11
  <2> QED BY <2>1, <2>2
<1>12. CommentsSigned' /\ \A i \in BornIds \cap DOMAIN wdb'["comment"] :
           i \in DOMAIN wdb["comment"] /\ wdb'["comment"][i].assigned = wdb["comment"][i].assigned
  BY <1>10, <1>11
<1>13. DOMAIN wdb'[t] \subseteq BornIds' \ wlog'.deleted
  BY <1>1, <1>5, <1>6, <1>8 DEF WorkspacesInv, RowsStand
<1>14. wlog'.deleted \subseteq BornIds' /\ DOMAIN wcache' \subseteq BornIds' BY <1>1, <1>6 DEF WorkspacesInv, RowsStand
<1> QED BY ONLY WorkspacesInv, r \in WRequests, <1>1, <1>2, <1>4, <1>5, <1>7, <1>12, <1>13, <1>14, RowWrite

\* A row that was born is written in place, or erased and noted.
LEMMA WriteRowStep ==
  ASSUME WorkspacesInv, NEW r \in WRequests, NEW p \in {"publish", "evict"}, Answer(r) \/ Goto(r, p),
         NEW t \in RowTables, t = wset.kind, wset' = wset, wcache' = wcache,
         DOMAIN wlog' = DOMAIN wlog, wlog'.drawn = wlog.drawn, wlog'.created = wlog.created,
         DOMAIN wdb' = RepoKinds, \A u \in RepoKinds \ {t} : wdb'[u] = wdb[u],
         DOMAIN wdb'[t] \subseteq DOMAIN wdb[t], wlog'.deleted \subseteq BornIds,
         DOMAIN wdb'[t] \cap wlog'.deleted = {},
         t = "comment" => \A i \in DOMAIN wdb'[t] :
           /\ wdb'[t][i].assigned = wdb[t][i].assigned
           /\ DOMAIN wdb'[t][i] = {"of", "status", "assigned"} /\ wdb'[t][i].status \in {"", wdb'[t][i].assigned}
  PROVE  WorkspacesInv'
<1>1. PICK v : /\ wreq' = [wreq EXCEPT ![r] = v] /\ ~Awaited(v) /\ v.pc # "insert"
               /\ \A born, created, comments : RequestSound(v, wset.kind, born, created, comments)
  BY WrittenMoves
<1>2. BornIds \subseteq BornIds' BY <1>1, RequestMoves
<1>3. DOMAIN wdb'[t] \subseteq BornIds' \ wlog'.deleted BY <1>2 DEF WorkspacesInv, RowsStand
<1>4. wlog'.deleted \subseteq BornIds' /\ DOMAIN wcache' \subseteq BornIds' BY <1>2 DEF WorkspacesInv, RowsStand
<1>5. ASSUME t # "comment" PROVE CommentsSigned' /\ \A i \in BornIds \cap DOMAIN wdb'["comment"] :
           i \in DOMAIN wdb["comment"] /\ wdb'["comment"][i].assigned = wdb["comment"][i].assigned
  <2>1. wdb'["comment"] = wdb["comment"] BY <1>5 DEF RepoKinds
  <2>2. CommentsSigned' BY <2>1 DEF WorkspacesInv, CommentsSigned
  <2>3. \A i \in BornIds \cap DOMAIN wdb'["comment"] :
           i \in DOMAIN wdb["comment"] /\ wdb'["comment"][i].assigned = wdb["comment"][i].assigned
    BY <2>1
  <2> QED BY <2>2, <2>3
<1>6. ASSUME t = "comment" PROVE CommentsSigned' /\ \A i \in BornIds \cap DOMAIN wdb'["comment"] :
           i \in DOMAIN wdb["comment"] /\ wdb'["comment"][i].assigned = wdb["comment"][i].assigned
  <2>1. CommentsSigned' BY <1>6 DEF CommentsSigned
  <2>2. \A i \in BornIds \cap DOMAIN wdb'["comment"] :
           i \in DOMAIN wdb["comment"] /\ wdb'["comment"][i].assigned = wdb["comment"][i].assigned
    BY <1>6
  <2> QED BY <2>1, <2>2
<1>7. CommentsSigned' /\ \A i \in BornIds \cap DOMAIN wdb'["comment"] :
           i \in DOMAIN wdb["comment"] /\ wdb'["comment"][i].assigned = wdb["comment"][i].assigned
  BY <1>5, <1>6
<1> QED BY <1>1, <1>3, <1>4, <1>7, RowWrite

\* Columns of a task are written.
LEMMA UpdateTaskKeeps ==
  ASSUME WorkspacesInv, NEW r \in WRequests, UpdateTask(r) \/ AssignTask(r) PROVE WorkspacesInv'
<1>1. PICK row : Wrote(r, PgUpdateTask(wdb, wreq[r].id, row)) BY DEF UpdateTask, AssignTask
<1>2. UNCHANGED <<wset, wcache, wlog>> /\ wreq[r].op \in TaskOps BY DEF UpdateTask, AssignTask, At, TaskOps
<1>3. wset.kind = "task" BY <1>2 DEF WorkspacesInv, RequestsSound, RequestSound
<1>4. (Answer(r) \/ Goto(r, "publish")) /\ wdb' = SetColumns(wdb, "task", wreq[r].id, row, TaskColumns).store
  BY <1>1 DEF Wrote, PgUpdateTask
<1>5. DOMAIN wdb = RepoKinds /\ "task" \in RepoKinds /\ "task" \in RowTables BY DEF WorkspacesInv, RowsStand, RepoKinds, RowTables
<1>6. DOMAIN wdb' = RepoKinds /\ (\A u \in RepoKinds \ {"task"} : wdb'[u] = wdb[u]) /\ DOMAIN wdb'["task"] = DOMAIN wdb["task"]
  <2>1. wdb' = SetColumns(wdb, "task", wreq[r].id, row, TaskColumns).store BY <1>4
  <2>2. ColumnsWritten(wdb, wdb', "task", wreq[r].id, row, TaskColumns) BY ONLY <1>5, <2>1, ColumnsTable
  <2> QED BY <2>2 DEF ColumnsWritten, OnlyTable
<1>7. wlog'.deleted \subseteq BornIds /\ DOMAIN wdb'["task"] \cap wlog'.deleted = {}
  BY <1>2, <1>5, <1>6 DEF WorkspacesInv, RowsStand
<1> QED BY <1>2, <1>3, <1>4, <1>5, <1>6, <1>7, WriteRowStep

\* A workspace, task or comment is erased, and noted as deleted if it was there.
LEMMA DeleteKeeps ==
  ASSUME WorkspacesInv, NEW r \in WRequests, EraseWorkspace(r) \/ DeleteTask(r) \/ DeleteComment(r) PROVE WorkspacesInv'
<1> DEFINE id == wreq[r].id
<1>0. RequestSound(wreq[r], wset.kind, BornIds, wlog.created, wdb["comment"]) BY DEF WorkspacesInv, RequestsSound
<1>1. PICK t \in RowTables : t = wset.kind /\ wdb' = Erase(wdb, t, id).store
  <2>1. CASE EraseWorkspace(r)
    <3>1. wset.kind = "workspace" BY <1>0, <2>1 DEF EraseWorkspace, At, RequestSound
    <3> QED BY <2>1, <3>1 DEF EraseWorkspace, PgDeleteWorkspace, RowTables
  <2>2. CASE DeleteTask(r)
    <3>1. wset.kind = "task" BY <1>0, <2>2 DEF DeleteTask, At, RequestSound, TaskOps
    <3> QED BY <2>2, <3>1 DEF DeleteTask, Wrote, PgDeleteTask, RowTables
  <2>3. CASE DeleteComment(r)
    <3>1. wset.kind = "comment" BY <1>0, <2>3 DEF DeleteComment, At, RequestSound, CommentOps
    <3> QED BY <2>3, <3>1 DEF DeleteComment, Wrote, PgDeleteComment, RowTables
  <2> QED BY <2>1, <2>2, <2>3
<1>2. PICK p \in {"publish", "evict"} : Answer(r) \/ Goto(r, p) BY DEF EraseWorkspace, DeleteTask, DeleteComment, Wrote
<1>3. UNCHANGED <<wset, wcache>> BY DEF EraseWorkspace, DeleteTask, DeleteComment
<1>5. DOMAIN wlog' = DOMAIN wlog /\ wlog'.drawn = wlog.drawn /\ wlog'.created = wlog.created
      /\ wlog'.deleted \subseteq wlog.deleted \cup {id}
  BY DEF EraseWorkspace, DeleteTask, DeleteComment, WorkspacesInv
<1>6. id \in BornIds BY <1>0 DEF EraseWorkspace, DeleteTask, DeleteComment, At, RequestSound
<1>7. DOMAIN wdb = RepoKinds /\ t \in RepoKinds BY DEF WorkspacesInv, RowsStand, RepoKinds, RowTables
<1>8. DOMAIN wdb' = RepoKinds /\ (\A u \in RepoKinds \ {t} : wdb'[u] = wdb[u]) /\ DOMAIN wdb'[t] = DOMAIN wdb[t] \ {id}
      /\ \A i \in DOMAIN wdb'[t] : wdb'[t][i] = wdb[t][i]
  <2>1. wdb' = Erase(wdb, t, id).store BY <1>1
  <2>2. RowErased(wdb, wdb', t, id) BY ONLY <1>7, <2>1, EraseTable
  <2> QED BY <2>2 DEF RowErased, OnlyTable
<1>9. wlog'.deleted \subseteq BornIds BY <1>5, <1>6 DEF WorkspacesInv, RowsStand
<1>10. DOMAIN wdb'[t] \cap wlog'.deleted = {} BY <1>5, <1>8 DEF WorkspacesInv, RowsStand
<1>11. t = "comment" => \A i \in DOMAIN wdb'[t] :
           /\ wdb'[t][i].assigned = wdb[t][i].assigned
           /\ DOMAIN wdb'[t][i] = {"of", "status", "assigned"} /\ wdb'[t][i].status \in {"", wdb'[t][i].assigned}
  BY <1>8 DEF WorkspacesInv, CommentsSigned
<1>12. DOMAIN wdb'[t] \subseteq DOMAIN wdb[t] BY <1>8
<1>13. t \in RowTables /\ t = wset.kind /\ wset' = wset /\ wcache' = wcache BY <1>1, <1>3
<1>14. DOMAIN wdb' = RepoKinds /\ \A u \in RepoKinds \ {t} : wdb'[u] = wdb[u] BY <1>8
<1>15. p \in {"publish", "evict"} /\ (Answer(r) \/ Goto(r, p)) BY <1>2
<1>16. DOMAIN wlog' = DOMAIN wlog /\ wlog'.drawn = wlog.drawn /\ wlog'.created = wlog.created BY <1>5
<1> QED BY ONLY WorkspacesInv, r \in WRequests, <1>9, <1>10, <1>11, <1>12, <1>13, <1>14, <1>15, <1>16, WriteRowStep

\* The author's name goes with the author's content.
LEMMA UpdateCommentKeeps == ASSUME WorkspacesInv, NEW r \in WRequests, UpdateComment(r) PROVE WorkspacesInv'
<1> DEFINE id == wreq[r].id
<1> DEFINE row == [wreq[r].row EXCEPT !.status = wreq[r].by]
<1>0. RequestSound(wreq[r], wset.kind, BornIds, wlog.created, wdb["comment"]) BY DEF WorkspacesInv, RequestsSound
<1>1. wreq[r].op = "updateComment" /\ wreq[r].pc = "write" /\ UNCHANGED <<wset, wcache, wlog>> BY DEF UpdateComment, At
<1>2. (Answer(r) \/ Goto(r, "publish")) /\ wdb' = SetColumns(wdb, "comment", id, row, {"status"}).store
  BY DEF UpdateComment, Wrote, PgUpdateComment
<1>3. wset.kind = "comment" BY <1>0, <1>1 DEF RequestSound, CommentOps
<1>4. row.status = wreq[r].by /\ (id \in DOMAIN wdb["comment"] => wdb["comment"][id].assigned = wreq[r].by)
  BY <1>0, <1>1 DEF RequestSound
<1> HIDE DEF row
<1>5. DOMAIN wdb = RepoKinds /\ "comment" \in RepoKinds /\ "comment" \in RowTables
  BY DEF WorkspacesInv, RowsStand, RepoKinds, RowTables
<1>6. /\ DOMAIN wdb' = RepoKinds /\ \A u \in RepoKinds \ {"comment"} : wdb'[u] = wdb[u]
      /\ DOMAIN wdb'["comment"] = DOMAIN wdb["comment"]
      /\ \A i \in DOMAIN wdb["comment"] \ {id} : wdb'["comment"][i] = wdb["comment"][i]
      /\ id \in DOMAIN wdb["comment"] =>
           wdb'["comment"][id] = [c \in DOMAIN wdb["comment"][id] |-> IF c \in {"status"} THEN row[c] ELSE wdb["comment"][id][c]]
  <2>1. wdb' = SetColumns(wdb, "comment", id, row, {"status"}).store BY <1>2
  <2>2. ColumnsWritten(wdb, wdb', "comment", id, row, {"status"}) BY ONLY <1>5, <2>1, ColumnsTable
  <2> QED BY <2>2 DEF ColumnsWritten, OnlyTable
<1>7. wlog'.deleted \subseteq BornIds /\ DOMAIN wdb'["comment"] \cap wlog'.deleted = {}
  BY <1>1, <1>5, <1>6 DEF WorkspacesInv, RowsStand
<1>8. \A i \in DOMAIN wdb["comment"] : DOMAIN wdb["comment"][i] = {"of", "status", "assigned"}
        /\ wdb["comment"][i].status \in {"", wdb["comment"][i].assigned}
  BY DEF WorkspacesInv, CommentsSigned
<1>9. \A i \in DOMAIN wdb'["comment"] :
           /\ wdb'["comment"][i].assigned = wdb["comment"][i].assigned
           /\ DOMAIN wdb'["comment"][i] = {"of", "status", "assigned"}
           /\ wdb'["comment"][i].status \in {"", wdb'["comment"][i].assigned}
  <2> SUFFICES ASSUME NEW i \in DOMAIN wdb'["comment"]
               PROVE  /\ wdb'["comment"][i].assigned = wdb["comment"][i].assigned
                      /\ DOMAIN wdb'["comment"][i] = {"of", "status", "assigned"}
                      /\ wdb'["comment"][i].status \in {"", wdb'["comment"][i].assigned}
    OBVIOUS
  <2>1. CASE i # id BY <1>6, <1>8, <2>1
  <2>2. CASE i = id BY <1>4, <1>6, <1>8, <2>2
  <2> QED BY <2>1, <2>2
<1> QED BY <1>1, <1>2, <1>3, <1>5, <1>6, <1>7, <1>9, WriteRowStep

\* A step that writes the members and leaves the rows.
LEMMA MemberWrite ==
  ASSUME WorkspacesInv, NEW r \in WRequests, Answer(r), UNCHANGED <<wset, wcache>>,
         DOMAIN wlog' = DOMAIN wlog, wlog'.drawn = wlog.drawn, wlog'.deleted = wlog.deleted,
         wlog.created \subseteq wlog'.created, \A c \in wlog'.created \ wlog.created : c[1] \notin Owned(wlog.created),
         OnlyTable(wdb, wdb', "member"), MembersOwned'
  PROVE  WorkspacesInv'
<1>1. wreq' = [wreq EXCEPT ![r] = NoRequest] BY DEF Answer
<1>2. ~Awaited(NoRequest) /\ NoRequest.pc # "insert"
      /\ RequestSound(NoRequest, wset.kind, BornIds', wlog'.created, wdb'["comment"])
  BY IdleSound
<1>3. /\ DOMAIN wreq' = WRequests /\ \A q \in WRequests : wreq'[q] = IF q = r THEN NoRequest ELSE wreq[q]
      /\ BornIds \subseteq BornIds' /\ CreationsApart'
  BY <1>1, <1>2, RequestMoves
<1>4. DOMAIN wdb' = RepoKinds /\ \A t \in RowTables : wdb'[t] = wdb[t] BY DEF OnlyTable, RowTables, RepoKinds
<1>5. wdb'["comment"] = wdb["comment"] BY <1>4 DEF RowTables
<1>6. \A i \in BornIds \cap DOMAIN wdb'["comment"] :
           i \in DOMAIN wdb["comment"] /\ wdb'["comment"][i].assigned = wdb["comment"][i].assigned
  BY <1>5
<1>7. RequestsSound' BY <1>2, <1>3, <1>6, RequestsCarry
<1>8. RowsStand' BY <1>3, <1>4 DEF WorkspacesInv, RowsStand
<1>9. CommentsSigned' BY <1>5 DEF WorkspacesInv, CommentsSigned
<1> QED BY <1>3, <1>7, <1>8, <1>9 DEF WorkspacesInv

\* The creator becomes the first member of a workspace that had none.
LEMMA AddOwnerKeeps == ASSUME WorkspacesInv, NEW r \in WRequests, AddOwner(r) PROVE WorkspacesInv'
<1> DEFINE id == wreq[r].id
<1> DEFINE c == <<id, wreq[r].by>>
<1>1. wreq[r].pc = "addOwner" /\ UNCHANGED <<wset, wcache>> /\ Answer(r) BY DEF AddOwner, At
<1>2. wdb' = Insert(wdb, "member", c, "owner").store BY DEF AddOwner, PgAddMember
<1>3. wlog' = [wlog EXCEPT !.created = @ \cup {c}] BY DEF AddOwner
<1>4. DOMAIN wlog' = DOMAIN wlog /\ wlog'.drawn = wlog.drawn /\ wlog'.deleted = wlog.deleted
      /\ wlog'.created = wlog.created \cup {c}
  BY <1>3 DEF WorkspacesInv
<1>5. c[1] = id OBVIOUS
<1> HIDE DEF c
<1>6. DOMAIN wdb = RepoKinds /\ "member" \in RepoKinds BY DEF WorkspacesInv, RowsStand, RepoKinds
<1>7. RowAdded(wdb, wdb', "member", c, "owner") BY ONLY <1>2, <1>6, InsertTable
<1>8. Awaited(wreq[r]) BY <1>1 DEF Awaited
<1>9. id \in 1..wlog.drawn /\ id \notin SettledIds BY <1>8 DEF WorkspacesInv, CreationsApart, SettledIds
<1>10. id \notin Owned(wlog.created) BY <1>9 DEF WorkspacesInv, MembersOwned
<1>11. \A k \in DOMAIN wdb["member"] : k[1] \in Owned(wlog.created) /\ k[1] # id /\ k # c
  BY <1>5, <1>10 DEF WorkspacesInv, MembersOwned
<1>12. DOMAIN wdb'["member"] = DOMAIN wdb["member"] \cup {c} /\ wdb'["member"][c] = "owner"
       /\ \A k \in DOMAIN wdb["member"] : wdb'["member"][k] = wdb["member"][k]
  BY <1>7, <1>11 DEF RowAdded
<1>13. Owned(wlog'.created) = Owned(wlog.created) \cup {id} BY <1>4, <1>5 DEF Owned
<1>14. wreq' = [wreq EXCEPT ![r] = NoRequest] /\ ~Awaited(NoRequest) /\ NoRequest.pc # "insert"
  BY <1>1, IdleSound DEF Answer
<1>15. SettledIds \subseteq SettledIds' BY <1>4, <1>14, RequestMoves
<1>16. id \in SettledIds'
  <2>1. \A q \in WRequests : wreq'[q] = IF q = r THEN NoRequest ELSE wreq[q] BY <1>14 DEF WorkspacesInv
  <2>2. \A q \in WRequests : Awaited(wreq'[q]) => wreq'[q].id # id
    BY <1>8, <1>14, <2>1 DEF WorkspacesInv, CreationsApart
  <2> QED BY <1>4, <1>9, <2>2 DEF SettledIds, Awaited
<1>17. OwnerStays'
  <2> DEFINE Owners(d) == {k \in DOMAIN wdb["member"] : k[1] = d[1] /\ wdb["member"][k] = "owner"}
  <2> DEFINE OwnersNext(d) == {k \in DOMAIN wdb'["member"] : k[1] = d[1] /\ wdb'["member"][k] = "owner"}
  <2>1. ASSUME NEW d \in wlog.created PROVE OwnersNext(d) = {d}
    <3>1. Owners(d) = {d} BY DEF WorkspacesInv, MembersOwned, OwnerStays
    <3>2. d[1] # id BY <1>10 DEF Owned
    <3>3. OwnersNext(d) = Owners(d) BY <1>5, <1>12, <3>2
    <3> QED BY <3>1, <3>3
  <2>2. OwnersNext(c) = {c} BY <1>5, <1>11, <1>12
  <2>3. \A d \in wlog'.created : OwnersNext(d) = {d} BY <1>4, <2>1, <2>2
  <2> QED BY <2>3 DEF OwnerStays
<1>18. MembersOwned'
  <2>1. Owned(wlog'.created) \subseteq SettledIds' BY <1>13, <1>15, <1>16 DEF WorkspacesInv, MembersOwned
  <2>2. \A k \in DOMAIN wdb'["member"] : k[1] \in Owned(wlog'.created) BY <1>5, <1>11, <1>12, <1>13
  <2> QED BY <1>17, <2>1, <2>2 DEF MembersOwned, Owned
<1>19. OnlyTable(wdb, wdb', "member") BY <1>7 DEF RowAdded
<1>20. wlog.created \subseteq wlog'.created /\ \A d \in wlog'.created \ wlog.created : d[1] \notin Owned(wlog.created)
  BY <1>4, <1>5, <1>10
<1> QED BY <1>1, <1>4, <1>18, <1>19, <1>20, MemberWrite

\* A member who is not an owner comes or goes.
LEMMA MembersChange ==
  ASSUME WorkspacesInv, NEW r \in WRequests, AddMember(r) \/ RemoveMember(r) PROVE WorkspacesInv'
<1> DEFINE id == wreq[r].id
<1> DEFINE k == <<id, wreq[r].to>>
<1>0. RequestSound(wreq[r], wset.kind, BornIds, wlog.created, wdb["comment"]) BY DEF WorkspacesInv, RequestsSound
<1>1. UNCHANGED <<wset, wcache, wlog>> /\ Answer(r) BY DEF AddMember, RemoveMember
<1>2. DOMAIN wdb = RepoKinds /\ "member" \in RepoKinds BY DEF WorkspacesInv, RowsStand, RepoKinds
<1>3. k[1] = id OBVIOUS
<1>4. wreq' = [wreq EXCEPT ![r] = NoRequest] /\ ~Awaited(NoRequest) /\ NoRequest.pc # "insert"
  BY <1>1, IdleSound DEF Answer
<1>5. SettledIds \subseteq SettledIds' BY <1>1, <1>4, RequestMoves
<1> DEFINE Owners(d) == {m \in DOMAIN wdb["member"] : m[1] = d[1] /\ wdb["member"][m] = "owner"}
<1> DEFINE OwnersNext(d) == {m \in DOMAIN wdb'["member"] : m[1] = d[1] /\ wdb'["member"][m] = "owner"}
<1>6. \A d \in wlog.created : Owners(d) = {d} BY DEF WorkspacesInv, MembersOwned, OwnerStays
<1>7. ASSUME OnlyTable(wdb, wdb', "member"), \A m \in DOMAIN wdb'["member"] : m[1] \in Owned(wlog.created),
             \A d \in wlog.created : OwnersNext(d) = Owners(d)
      PROVE  WorkspacesInv'
  <2>1. \A d \in wlog'.created : OwnersNext(d) = {d} BY <1>1, <1>6, <1>7
  <2>2. OwnerStays' BY <2>1 DEF OwnerStays
  <2>3. MembersOwned' BY <1>1, <1>5, <1>7, <2>2 DEF WorkspacesInv, MembersOwned
  <2> QED BY <1>1, <1>7, <2>3, MemberWrite
<1>8. CASE AddMember(r)
  <2>1. wreq[r].op = "addMember" /\ wreq[r].pc = "add" /\ wdb' = Insert(wdb, "member", k, wreq[r].role).store
    BY <1>8 DEF AddMember, At, PgAddMember
  <2>2. wreq[r].role # "owner" /\ id \in Owned(wlog.created) BY <1>0, <2>1 DEF RequestSound
  <2> HIDE DEF k
  <2>3. RowAdded(wdb, wdb', "member", k, wreq[r].role) BY ONLY <1>2, <2>1, InsertTable
  <2>4. DOMAIN wdb'["member"] = DOMAIN wdb["member"] \cup {k} /\ (\A m \in DOMAIN wdb["member"] : wdb'["member"][m] = wdb["member"][m])
        /\ (k \notin DOMAIN wdb["member"] => wdb'["member"][k] = wreq[r].role)
    BY <2>3 DEF RowAdded
  <2>5. \A m \in DOMAIN wdb'["member"] : m[1] \in Owned(wlog.created)
    BY <1>3, <2>2, <2>4 DEF WorkspacesInv, MembersOwned
  <2>6. ASSUME NEW d \in wlog.created PROVE OwnersNext(d) = Owners(d) BY <2>2, <2>4
  <2>7. OnlyTable(wdb, wdb', "member") BY <2>3 DEF RowAdded
  <2> QED BY <1>7, <2>5, <2>6, <2>7
<1>9. CASE RemoveMember(r)
  <2>1. wreq[r].op = "removeMember" /\ wreq[r].pc = "remove" /\ wdb' = Erase(wdb, "member", k).store
    BY <1>9 DEF RemoveMember, At, PgRemoveMember
  <2>2. k \notin wlog.created BY <1>0, <2>1 DEF RequestSound
  <2>20. id \in Owned(wlog.created) BY <1>0, <2>1 DEF RequestSound
  <2> HIDE DEF k
  <2>3. RowErased(wdb, wdb', "member", k) BY ONLY <1>2, <2>1, EraseTable
  <2>4. DOMAIN wdb'["member"] = DOMAIN wdb["member"] \ {k} /\ \A m \in DOMAIN wdb'["member"] : wdb'["member"][m] = wdb["member"][m]
    BY <2>3 DEF RowErased
  <2>5. \A m \in DOMAIN wdb'["member"] : m[1] \in Owned(wlog.created) BY <2>4 DEF WorkspacesInv, MembersOwned
  <2>6. ASSUME NEW d \in wlog.created PROVE OwnersNext(d) = Owners(d)
    <3>1. k \notin Owners(d) BY <1>6, <2>2
    <3> QED BY <2>4, <3>1
  <2>7. OnlyTable(wdb, wdb', "member") BY <2>3 DEF RowErased
  <2> QED BY <1>7, <2>5, <2>6, <2>7
<1> QED BY <1>8, <1>9

\* No step of the services breaks their invariant.
LEMMA WorkspacesStep == WorkspacesInv /\ [WNext]_wvars => WorkspacesInv'
<1> SUFFICES ASSUME WorkspacesInv, [WNext]_wvars PROVE WorkspacesInv' OBVIOUS
<1>1. CASE UNCHANGED wvars
  <2>1. UNCHANGED <<wset, wdb, wcache, wreq, wlog>> BY <1>1 DEF wvars
  <2>2. BornIds' = BornIds /\ SettledIds' = SettledIds BY <2>1 DEF BornIds, SettledIds, Awaited
  <2>3. RequestsSound' /\ CreationsApart' BY <2>1, <2>2 DEF WorkspacesInv, RequestsSound, RequestSound, CreationsApart, Awaited
  <2>4. RowsStand' /\ CommentsSigned' BY <2>1, <2>2 DEF WorkspacesInv, RowsStand, CommentsSigned
  <2>5. MembersOwned' BY <2>1, <2>2 DEF WorkspacesInv, MembersOwned, OwnerStays
  <2> QED BY <2>1, <2>3, <2>4, <2>5 DEF WorkspacesInv
<1>2. CASE WNext
  <2>1. ASSUME NEW id \in WIds, CacheExpires(id) PROVE WorkspacesInv' BY <2>1, CacheExpiresKeeps
  <2>2. ASSUME NEW r \in WRequests, WorkspaceNext(r) PROVE WorkspacesInv'
    <3>1. ASSUME wset.kind = "workspace", NEW u \in WUsers, BeginCreate(r, "createWorkspace", "", u) PROVE WorkspacesInv'
      BY <3>1, BeginCreateKeeps
    <3>2. ASSUME wset.kind = "workspace", NEW u, NEW w, NEW op \in {"getWorkspace", "deleteWorkspace"},
                 Begin(r, op, "find", w, u, "", "") PROVE WorkspacesInv'
      <4>1. op \notin TaskOps \cup CommentOps \cup {"addMember"} BY DEF TaskOps, CommentOps
      <4> QED BY <3>2, <4>1, BeginKeeps
    <3>3. ASSUME wset.kind = "workspace", NEW u, NEW w, NEW v, Begin(r, "removeMember", "role", w, u, v, "")
          PROVE WorkspacesInv'
      <4>1. "removeMember" \notin TaskOps \cup CommentOps \cup {"addMember"} BY DEF TaskOps, CommentOps
      <4> QED BY <3>3, <4>1, BeginKeeps
    <3>4. ASSUME wset.kind = "workspace", NEW u, NEW w, NEW v, NEW role \in {"admin", "member"},
                 Begin(r, "addMember", "member", w, u, v, role) PROVE WorkspacesInv'
      <4>1. "addMember" \notin TaskOps \cup CommentOps BY DEF TaskOps, CommentOps
      <4> QED BY <3>4, <4>1, BeginKeeps
    <3>5. CASE CacheHit(r) BY <3>5, CacheHitKeeps
    <3>6. CASE CacheMiss(r) BY <3>6, CacheMissKeeps
    <3>7. CASE CacheFill(r) BY <3>7, CacheFillKeeps
    <3>8. CASE CreateWorkspace(r) BY <3>8, CreateWorkspaceKeeps
    <3>9. CASE AddOwner(r) BY <3>9, AddOwnerKeeps
    <3>10. CASE EraseWorkspace(r) BY <3>10, DeleteKeeps
    <3>11. CASE EvictWorkspace(r) BY <3>11, EvictKeepsWorkspaces
    <3>12. CASE AddMemberMember(r) \/ AddMemberRole(r) \/ AddMemberExists(r) BY <3>12, AddChecksKeep
    <3>13. CASE RemoveMemberRole(r) \/ RemoveMemberCheck(r) BY <3>13, RemoveChecksKeep
    <3>14. CASE AddMember(r) \/ RemoveMember(r) BY <3>14, MembersChange
    <3>15. CASE CacheCreated(r) BY <3>15, CacheCreatedKeeps
    <3> QED BY <2>2, <3>1, <3>2, <3>3, <3>4, <3>5, <3>6, <3>7, <3>8, <3>9, <3>10, <3>11, <3>12, <3>13, <3>14, <3>15
            DEF WorkspaceNext
  <2>3. ASSUME NEW r \in WRequests, TaskNext(r) PROVE WorkspacesInv'
    <3>1. ASSUME wset.kind = "task", NEW u \in WUsers, BeginCreate(r, "createTask", u, u) PROVE WorkspacesInv'
      BY <3>1, BeginCreateKeeps
    <3>2. ASSUME wset.kind = "task", NEW u, NEW i, NEW op \in {"updateTask", "assignTask", "deleteTask"},
                 Begin(r, op, "findTask", i, u, u, "") PROVE WorkspacesInv'
      <4>1. op \notin CommentOps \cup {"addMember", "createWorkspace", "deleteWorkspace"} BY DEF CommentOps
      <4> QED BY <3>2, <4>1, BeginKeeps
    <3>3. CASE CreateTask(r) BY <3>3, CreateRowKeeps
    <3>4. CASE FindTask(r) BY <3>4, FindTaskKeeps
    <3>5. CASE UpdateTask(r) \/ AssignTask(r) BY <3>5, UpdateTaskKeeps
    <3>6. CASE DeleteTask(r) BY <3>6, DeleteKeeps
    <3> QED BY <2>3, <3>1, <3>2, <3>3, <3>4, <3>5, <3>6 DEF TaskNext
  <2>4. ASSUME NEW r \in WRequests, CommentNext(r) PROVE WorkspacesInv'
    <3>1. ASSUME wset.kind = "comment", NEW u \in WUsers, BeginCreate(r, "createComment", "", u) PROVE WorkspacesInv'
      BY <3>1, BeginCreateKeeps
    <3>2. ASSUME wset.kind = "comment", NEW u, NEW i, NEW op \in {"updateComment", "deleteComment"},
                 Begin(r, op, "findComment", i, u, "", "") PROVE WorkspacesInv'
      <4>1. op \notin TaskOps \cup {"addMember", "createWorkspace", "deleteWorkspace"} BY DEF TaskOps
      <4> QED BY <3>2, <4>1, BeginKeeps
    <3>3. CASE CreateComment(r) BY <3>3, CreateRowKeeps
    <3>4. CASE FindComment(r) BY <3>4, FindCommentKeeps
    <3>5. CASE UpdateComment(r) BY <3>5, UpdateCommentKeeps
    <3>6. CASE DeleteComment(r) BY <3>6, DeleteKeeps
    <3> QED BY <2>4, <3>1, <3>2, <3>3, <3>4, <3>5, <3>6 DEF CommentNext
  <2>5. ASSUME NEW r \in WRequests, PublishChange(r) \/ RepositoryFails(r) PROVE WorkspacesInv' BY <2>5, EndKeeps
  <2> QED BY <1>2, <2>1, <2>2, <2>3, <2>4, <2>5 DEF WNext
<1> QED BY <1>1, <1>2

\* The cache starts empty.
LEMMA CacheStart == WInit => CacheInv
<1> SUFFICES ASSUME WInit PROVE CacheInv OBVIOUS
<1>1. wlog.deleted = {}
  BY DEF WInit
<1>2. DOMAIN wcache = {}
  BY DEF WInit, EmptyTable
<1>3. ASSUME NEW q \in WRequests PROVE wreq[q].pc = "idle"
  <2>1. wreq[q] = NoRequest BY DEF WInit
  <2>2. NoRequest.pc = "idle" BY IdleSound
  <2> QED BY <2>1, <2>2
<1> QED BY <1>1, <1>2, <1>3 DEF CacheInv, Filling

\* A step of one request that puts nothing into the cache and deletes nothing.
LEMMA CacheCarries ==
  ASSUME WorkspacesInv, CacheInv, NEW r \in WRequests, wset' = wset, DOMAIN wcache' \subseteq DOMAIN wcache,
         wlog'.deleted = wlog.deleted, wlog'.stale = wlog.stale, wreq[r].pc # "evict",
         \A q \in WRequests \ {r} : wreq'[q] = wreq[q],
         wreq'[r].pc \in {"fill", "cache"} =>
           wset.kind = "workspace" /\ (wreq'[r].id \in wlog.deleted => wreq'[r].id \in wlog.stale)
  PROVE  CacheInv'
<1>1. wset'.kind # "workspace" => DOMAIN wcache' = {} /\ \A q \in WRequests : ~Filling(q)' BY DEF CacheInv, Filling
<1>2. \A q \in WRequests : Filling(q)' /\ wreq'[q].id \in wlog'.deleted => wreq'[q].id \in wlog'.stale
  BY DEF CacheInv, Filling
<1>3. ASSUME NEW w \in wlog'.deleted \cap DOMAIN wcache'
      PROVE  w \in wlog'.stale \/ \E q \in WRequests : wreq'[q].pc = "evict" /\ wreq'[q].id = w
  BY DEF CacheInv
<1> QED BY <1>1, <1>2, <1>3 DEF CacheInv

\* Where a request goes, and that no other goes with it.
LEMMA OneMoves ==
  ASSUME WorkspacesInv, NEW r \in WRequests
  PROVE  /\ \A v : wreq' = [wreq EXCEPT ![r] = v] => wreq'[r] = v /\ \A q \in WRequests \ {r} : wreq'[q] = wreq[q]
         /\ Answer(r) => wreq'[r].pc = "idle" /\ \A q \in WRequests \ {r} : wreq'[q] = wreq[q]
         /\ \A p : Goto(r, p) => /\ wreq'[r].pc = p /\ wreq'[r].id = wreq[r].id
                                 /\ \A q \in WRequests \ {r} : wreq'[q] = wreq[q]
<1>1. \A v : wreq' = [wreq EXCEPT ![r] = v] => wreq'[r] = v /\ \A q \in WRequests \ {r} : wreq'[q] = wreq[q]
  BY DEF WorkspacesInv
<1>2. NoRequest.pc = "idle" BY DEF NoRequest
<1>3. \A p : Goto(r, p) => /\ wreq'[r].pc = p /\ wreq'[r].id = wreq[r].id
                           /\ \A q \in WRequests \ {r} : wreq'[q] = wreq[q]
  <2>1. DOMAIN wreq = WRequests /\ DOMAIN wreq[r] = RequestFields BY DEF WorkspacesInv, RequestsSound, RequestSound
  <2> QED BY <2>1 DEF Goto, RequestFields
<1> QED BY <1>1, <1>2, <1>3 DEF Answer

\* A request begins; it fills nothing yet.
LEMMA BeginCaches ==
  ASSUME WorkspacesInv, CacheInv, NEW r \in WRequests, NEW op, NEW id, NEW by, NEW to, NEW role,
         BeginCreate(r, op, id, by)
           \/ \E pc \in {"find", "member", "role", "findTask", "findComment"} : Begin(r, op, pc, id, by, to, role)
  PROVE  CacheInv'
<1>1. wreq[r].pc = "idle" /\ UNCHANGED <<wset, wcache>> BY DEF Begin, BeginCreate
<1>2. wlog'.deleted = wlog.deleted /\ wlog'.stale = wlog.stale BY DEF Begin, BeginCreate, WorkspacesInv
<1>3. wreq'[r].pc \notin {"fill", "cache"} /\ \A q \in WRequests \ {r} : wreq'[q] = wreq[q]
  BY DEF Begin, BeginCreate, WorkspacesInv, NoRequest
<1> QED BY <1>1, <1>2, <1>3, CacheCarries

\* Steps that neither fill, delete nor evict.
LEMMA AsideCaches ==
  ASSUME WorkspacesInv, CacheInv, NEW r \in WRequests,
         \/ CacheHit(r) \/ AddOwner(r) \/ AddMemberMember(r) \/ AddMemberRole(r) \/ AddMemberExists(r) \/ AddMember(r)
         \/ RemoveMemberRole(r) \/ RemoveMemberCheck(r) \/ RemoveMember(r)
         \/ CreateTask(r) \/ FindTask(r) \/ UpdateTask(r) \/ AssignTask(r)
         \/ CreateComment(r) \/ FindComment(r) \/ UpdateComment(r) \/ PublishChange(r) \/ RepositoryFails(r)
  PROVE  CacheInv'
<1>1. UNCHANGED <<wset, wcache>> /\ wreq[r].pc # "evict"
  BY DEF CacheHit, AddOwner, AddMemberMember, AddMemberRole, AddMemberExists, AddMember, RemoveMemberRole,
         RemoveMemberCheck, RemoveMember, CreateTask, FindTask, UpdateTask, AssignTask, CreateComment, FindComment,
         UpdateComment, PublishChange, RepositoryFails, At
<1>2. wlog'.deleted = wlog.deleted /\ wlog'.stale = wlog.stale
  BY DEF CacheHit, AddOwner, AddMemberMember, AddMemberRole, AddMemberExists, AddMember, RemoveMemberRole,
         RemoveMemberCheck, RemoveMember, CreateTask, FindTask, UpdateTask, AssignTask, CreateComment, FindComment,
         UpdateComment, PublishChange, RepositoryFails, Fault, WorkspacesInv
<1>3. DOMAIN wreq = WRequests /\ DOMAIN wreq[r] = RequestFields BY DEF WorkspacesInv, RequestsSound, RequestSound
<1>4. wreq'[r].pc \notin {"fill", "cache"} /\ \A q \in WRequests \ {r} : wreq'[q] = wreq[q]
  <2>1. CASE Answer(r) BY <2>1, OneMoves
  <2>2. ASSUME NEW p \in {"erase", "publish", "role", "exists", "add", "remove"}, Goto(r, p)
        PROVE  wreq'[r].pc \notin {"fill", "cache"} /\ \A q \in WRequests \ {r} : wreq'[q] = wreq[q]
    BY <2>2, OneMoves
  <2>3. ASSUME NEW x, wreq' = [wreq EXCEPT ![r].pc = "check", ![r].role = x] \/ wreq' = [wreq EXCEPT ![r].pc = "write", ![r].row = x]
        PROVE  wreq'[r].pc \notin {"fill", "cache"} /\ \A q \in WRequests \ {r} : wreq'[q] = wreq[q]
    BY <1>3, <2>3 DEF RequestFields
  <2>4. CASE CacheHit(r) BY <2>1, <2>2, <2>4 DEF CacheHit, AfterFind
  <2>5. CASE AddOwner(r) \/ AddMember(r) \/ RemoveMember(r) \/ PublishChange(r) \/ RepositoryFails(r)
    BY <2>1, <2>5 DEF AddOwner, AddMember, RemoveMember, PublishChange, RepositoryFails
  <2>6. CASE AddMemberMember(r) \/ AddMemberRole(r) \/ AddMemberExists(r) \/ RemoveMemberCheck(r)
    BY <2>1, <2>2, <2>6 DEF AddMemberMember, AddMemberRole, AddMemberExists, RemoveMemberCheck
  <2>7. CASE RemoveMemberRole(r) BY <2>1, <2>3, <2>7 DEF RemoveMemberRole
  <2>8. CASE FindTask(r) \/ FindComment(r) BY <2>1, <2>3, <2>8 DEF FindTask, FindComment
  <2>9. CASE CreateTask(r) \/ CreateComment(r) BY <2>2, <2>9 DEF CreateTask, CreateComment
  <2>10. CASE UpdateTask(r) \/ AssignTask(r) \/ UpdateComment(r)
    BY <2>1, <2>2, <2>10 DEF UpdateTask, AssignTask, UpdateComment, Wrote
  <2> QED BY <2>4, <2>5, <2>6, <2>7, <2>8, <2>9, <2>10
<1> QED BY <1>1, <1>2, <1>4, CacheCarries

\* A request that has read a row found one that was not deleted.
LEMMA CacheMissCaches == ASSUME WorkspacesInv, CacheInv, NEW r \in WRequests, CacheMiss(r) PROVE CacheInv'
<1>1. wreq[r].pc = "find" /\ UNCHANGED <<wset, wcache>> BY DEF CacheMiss
<1>2. wlog'.deleted = wlog.deleted /\ wlog'.stale = wlog.stale BY DEF CacheMiss, Fault, WorkspacesInv
<1>3. CASE Answer(r)
  <2>1. wreq'[r].pc = "idle" /\ \A q \in WRequests \ {r} : wreq'[q] = wreq[q] BY <1>3, OneMoves
  <2> QED BY <1>1, <1>2, <2>1, CacheCarries
<1>4. CASE wreq[r].id \in DOMAIN wdb["workspace"]
           /\ wreq' = [wreq EXCEPT ![r].pc = "fill", ![r].row = wdb["workspace"][wreq[r].id]]
  <2>1. DOMAIN wreq = WRequests /\ DOMAIN wreq[r] = RequestFields BY DEF WorkspacesInv, RequestsSound, RequestSound
  <2>2. wreq'[r].id = wreq[r].id /\ \A q \in WRequests \ {r} : wreq'[q] = wreq[q] BY <1>4, <2>1 DEF RequestFields
  <2>3. wset.kind = "workspace" /\ wreq[r].id \notin wlog.deleted
    BY <1>4 DEF WorkspacesInv, RowsStand, RowTables
  <2> QED BY <1>1, <1>2, <2>2, <2>3, CacheCarries
<1> QED BY <1>3, <1>4 DEF CacheMiss

\* What is put into the cache was not deleted, or may be stale.
LEMMA FillCaches == ASSUME WorkspacesInv, CacheInv, NEW r \in WRequests, CacheFill(r) \/ CacheCreated(r) PROVE CacheInv'
<1>1. Filling(r) /\ UNCHANGED wset BY DEF CacheFill, CacheCreated, Filling, At
<1>2. wlog'.deleted = wlog.deleted /\ wlog'.stale = wlog.stale BY DEF CacheFill, CacheCreated, Fault, WorkspacesInv
<1>3. DOMAIN wcache' \subseteq DOMAIN wcache \cup {wreq[r].id} BY DEF CacheFill, CacheCreated, WithRow
<1>4. wreq'[r].pc \notin {"fill", "cache"} /\ \A q \in WRequests \ {r} : wreq'[q] = wreq[q]
  <2>1. Answer(r) \/ Goto(r, "erase") \/ Goto(r, "addOwner") BY DEF CacheFill, CacheCreated, AfterFind
  <2> QED BY <2>1, OneMoves
<1>5. wset.kind = "workspace" BY <1>1 DEF CacheInv
<1>6. \A q \in WRequests : Filling(q)' /\ wreq'[q].id \in wlog'.deleted => wreq'[q].id \in wlog'.stale
  BY <1>2, <1>4 DEF CacheInv, Filling
<1>7. ASSUME NEW w \in wlog'.deleted \cap DOMAIN wcache'
      PROVE  w \in wlog'.stale \/ \E q \in WRequests : wreq'[q].pc = "evict" /\ wreq'[q].id = w
  <2>1. CASE w = wreq[r].id BY <1>1, <1>2, <2>1 DEF CacheInv
  <2>2. CASE w # wreq[r].id
    <3>1. w \in wlog.stale \/ \E q \in WRequests : wreq[q].pc = "evict" /\ wreq[q].id = w
      BY <1>2, <1>3, <2>2 DEF CacheInv
    <3>2. wreq[r].pc # "evict" BY <1>1 DEF Filling
    <3> QED BY <1>2, <1>4, <3>1, <3>2
  <2> QED BY <2>1, <2>2
<1> QED BY <1>1, <1>5, <1>6, <1>7 DEF CacheInv

\* A new workspace was never deleted.
LEMMA CreateCaches == ASSUME WorkspacesInv, CacheInv, NEW r \in WRequests, CreateWorkspace(r) PROVE CacheInv'
<1>1. wreq[r].pc = "insert" /\ wreq[r].op = "createWorkspace" /\ UNCHANGED <<wset, wcache, wlog>> /\ Goto(r, "cache")
  BY DEF CreateWorkspace, At
<1>2. wreq'[r].id = wreq[r].id /\ \A q \in WRequests \ {r} : wreq'[q] = wreq[q] BY <1>1, OneMoves
<1>3. wset.kind = "workspace" BY <1>1 DEF WorkspacesInv, RequestsSound, RequestSound
<1>4. wreq[r].id \notin BornIds BY <1>1 DEF BornIds
<1>5. wreq[r].id \notin wlog.deleted BY <1>4 DEF WorkspacesInv, RowsStand
<1> QED BY <1>1, <1>2, <1>3, <1>5, CacheCarries

\* A deletion is followed by its eviction; what others fill meanwhile is noted.
LEMMA EraseCaches == ASSUME WorkspacesInv, CacheInv, NEW r \in WRequests, EraseWorkspace(r) PROVE CacheInv'
<1> DEFINE id == wreq[r].id
           late == {i \in {id} : \E q \in WRequests : Filling(q) /\ wreq[q].id = i}
<1>1. wreq[r].op = "deleteWorkspace" /\ wreq[r].pc = "erase" /\ UNCHANGED <<wset, wcache>> BY DEF EraseWorkspace, At
<1>2. wset.kind = "workspace" BY <1>1 DEF WorkspacesInv, RequestsSound, RequestSound
<1>3. CASE Answer(r) /\ UNCHANGED wlog
  <2>1. wreq'[r].pc = "idle" /\ \A q \in WRequests \ {r} : wreq'[q] = wreq[q] BY <1>3, OneMoves
  <2> QED BY <1>1, <1>3, <2>1, CacheCarries
<1>4. CASE Goto(r, "evict") /\ wlog' = [wlog EXCEPT !.deleted = @ \cup {id}, !.stale = @ \cup late]
  <2>1. wlog'.deleted = wlog.deleted \cup {id} /\ wlog'.stale = wlog.stale \cup late BY <1>4 DEF WorkspacesInv
  <2>2. wreq'[r].pc = "evict" /\ wreq'[r].id = id /\ \A q \in WRequests \ {r} : wreq'[q] = wreq[q] BY <1>4, OneMoves
  <2>3. \A q \in WRequests : Filling(q)' /\ wreq'[q].id \in wlog'.deleted => wreq'[q].id \in wlog'.stale
    <3> SUFFICES ASSUME NEW q \in WRequests, Filling(q)', wreq'[q].id \in wlog'.deleted PROVE wreq'[q].id \in wlog'.stale
      OBVIOUS
    <3>1. q # r /\ wreq'[q] = wreq[q] /\ Filling(q) BY <2>2 DEF Filling
    <3>2. CASE wreq[q].id = id BY <2>1, <3>1, <3>2
    <3>3. CASE wreq[q].id \in wlog.deleted BY <2>1, <3>1, <3>3 DEF CacheInv
    <3> QED BY <2>1, <3>1, <3>2, <3>3
  <2>4. ASSUME NEW w \in wlog'.deleted \cap DOMAIN wcache'
        PROVE  w \in wlog'.stale \/ \E q \in WRequests : wreq'[q].pc = "evict" /\ wreq'[q].id = w
    <3>1. CASE w = id BY <2>2, <3>1
    <3>2. CASE w \in wlog.deleted
      <4>1. w \in wlog.stale \/ \E q \in WRequests : wreq[q].pc = "evict" /\ wreq[q].id = w BY <1>1, <3>2 DEF CacheInv
      <4> QED BY <1>1, <2>1, <2>2, <4>1
    <3> QED BY <2>1, <3>1, <3>2
  <2> QED BY <1>1, <1>2, <2>3, <2>4 DEF CacheInv
<1> QED BY <1>3, <1>4 DEF EraseWorkspace

\* Evicted, or noted as not evicted.
LEMMA EvictCaches == ASSUME WorkspacesInv, CacheInv, NEW r \in WRequests, EvictWorkspace(r) PROVE CacheInv'
<1> DEFINE id == wreq[r].id
<1>1. wreq[r].pc = "evict" /\ Answer(r) /\ UNCHANGED wset BY DEF EvictWorkspace
<1>2. wreq'[r].pc = "idle" /\ \A q \in WRequests \ {r} : wreq'[q] = wreq[q] BY <1>1, OneMoves
<1>3. wlog'.deleted = wlog.deleted /\ wlog.stale \subseteq wlog'.stale /\ DOMAIN wcache' \subseteq DOMAIN wcache
      /\ (id \notin DOMAIN wcache' \/ id \in wlog'.stale)
  BY DEF EvictWorkspace, WorkspacesInv
<1>4. \A q \in WRequests : Filling(q)' => Filling(q) /\ wreq'[q] = wreq[q] BY <1>2 DEF Filling
<1>5. ASSUME NEW w \in wlog'.deleted \cap DOMAIN wcache'
      PROVE  w \in wlog'.stale \/ \E q \in WRequests : wreq'[q].pc = "evict" /\ wreq'[q].id = w
  <2>1. w \in wlog.stale \/ \E q \in WRequests : wreq[q].pc = "evict" /\ wreq[q].id = w BY <1>3 DEF CacheInv
  <2> QED BY <1>2, <1>3, <2>1
<1> QED BY <1>1, <1>3, <1>4, <1>5 DEF CacheInv

\* The cache holds workspaces only, whatever else is deleted.
LEMMA DeleteCaches == ASSUME WorkspacesInv, CacheInv, NEW r \in WRequests, DeleteTask(r) \/ DeleteComment(r) PROVE CacheInv'
<1>1. wreq[r].op \in TaskOps \cup CommentOps /\ UNCHANGED <<wset, wcache>>
  BY DEF DeleteTask, DeleteComment, At, TaskOps, CommentOps
<1>2. wset.kind # "workspace" BY <1>1 DEF WorkspacesInv, RequestsSound, RequestSound
<1>3. wreq'[r].pc \notin {"fill", "cache"} /\ \A q \in WRequests \ {r} : wreq'[q] = wreq[q]
  <2>1. Answer(r) \/ Goto(r, "publish") BY DEF DeleteTask, DeleteComment, Wrote
  <2> QED BY <2>1, OneMoves
<1>4. DOMAIN wcache = {} /\ \A q \in WRequests : ~Filling(q) BY <1>2 DEF CacheInv
<1>5. \A q \in WRequests : ~Filling(q)' BY <1>3, <1>4 DEF Filling
<1> QED BY <1>1, <1>4, <1>5 DEF CacheInv

\* No step of the services lets a deleted workspace into the cache unnoticed.
LEMMA CacheStep == WorkspacesInv /\ CacheInv /\ [WNext]_wvars => CacheInv'
<1> SUFFICES ASSUME WorkspacesInv, CacheInv, [WNext]_wvars PROVE CacheInv' OBVIOUS
<1>1. CASE UNCHANGED wvars BY <1>1 DEF wvars, CacheInv, Filling
<1>2. ASSUME NEW id, CacheExpires(id) PROVE CacheInv'
  <2>1. UNCHANGED <<wset, wdb, wreq, wlog>> /\ DOMAIN wcache' \subseteq DOMAIN wcache BY <1>2 DEF CacheExpires
  <2> QED BY <2>1 DEF CacheInv, Filling
<1>3. ASSUME NEW r \in WRequests, WorkspaceNext(r) PROVE CacheInv'
  <2>1. ASSUME NEW u, BeginCreate(r, "createWorkspace", "", u) PROVE CacheInv' BY <2>1, BeginCaches
  <2>2. ASSUME NEW op, NEW pc \in {"find", "member", "role"}, NEW w, NEW u, NEW v, NEW role, Begin(r, op, pc, w, u, v, role)
        PROVE  CacheInv'
    BY <2>2, BeginCaches
  <2>3. CASE CacheHit(r) \/ AddOwner(r) \/ AddMemberMember(r) \/ AddMemberRole(r) \/ AddMemberExists(r) \/ AddMember(r)
             \/ RemoveMemberRole(r) \/ RemoveMemberCheck(r) \/ RemoveMember(r)
    BY <2>3, AsideCaches
  <2>4. CASE CacheMiss(r) BY <2>4, CacheMissCaches
  <2>5. CASE CacheFill(r) \/ CacheCreated(r) BY <2>5, FillCaches
  <2>6. CASE CreateWorkspace(r) BY <2>6, CreateCaches
  <2>7. CASE EraseWorkspace(r) BY <2>7, EraseCaches
  <2>8. CASE EvictWorkspace(r) BY <2>8, EvictCaches
  <2> QED BY <1>3, <2>1, <2>2, <2>3, <2>4, <2>5, <2>6, <2>7, <2>8 DEF WorkspaceNext
<1>4. ASSUME NEW r \in WRequests, TaskNext(r) PROVE CacheInv'
  <2>1. ASSUME NEW u, BeginCreate(r, "createTask", u, u) PROVE CacheInv' BY <2>1, BeginCaches
  <2>2. ASSUME NEW op, NEW i, NEW u, Begin(r, op, "findTask", i, u, u, "") PROVE CacheInv' BY <2>2, BeginCaches
  <2>3. CASE CreateTask(r) \/ FindTask(r) \/ UpdateTask(r) \/ AssignTask(r) BY <2>3, AsideCaches
  <2>4. CASE DeleteTask(r) BY <2>4, DeleteCaches
  <2> QED BY <1>4, <2>1, <2>2, <2>3, <2>4 DEF TaskNext
<1>5. ASSUME NEW r \in WRequests, CommentNext(r) PROVE CacheInv'
  <2>1. ASSUME NEW u, BeginCreate(r, "createComment", "", u) PROVE CacheInv' BY <2>1, BeginCaches
  <2>2. ASSUME NEW op, NEW i, NEW u, Begin(r, op, "findComment", i, u, "", "") PROVE CacheInv' BY <2>2, BeginCaches
  <2>3. CASE CreateComment(r) \/ FindComment(r) \/ UpdateComment(r) BY <2>3, AsideCaches
  <2>4. CASE DeleteComment(r) BY <2>4, DeleteCaches
  <2> QED BY <1>5, <2>1, <2>2, <2>3, <2>4 DEF CommentNext
<1>6. ASSUME NEW r \in WRequests, PublishChange(r) \/ RepositoryFails(r) PROVE CacheInv' BY <1>6, AsideCaches
<1> QED BY <1>1, <1>2, <1>3, <1>4, <1>5, <1>6 DEF WNext

-----------------------------------------------------------------------------
(* Jobs and exports                                                        *)

JobStatus == {"none", "pending", "running", "completed", "failed"}
JobRecord == [status : JobStatus, progress : 0..(PSteps + 1)]
Job == [type : {"none", "email", "export", "unknown", "tasks", "comments"},
        req : {"none", "offering", "answering", "closed"},
        exec : {"none", "queued", "starting", "working", "ending", "gone"},
        held : BOOLEAN, ctx : BOOLEAN, mem : JobRecord, row : JobRecord,
        outcome : {"none", "ok", "error"}, lost : BOOLEAN, told : {"none", "completed", "failed"}]

\* What is completed has full progress, and full progress is running or completed.
ProgressFits(m) ==
  /\ m.status = "completed" => m.progress = PSteps + 1
  /\ m.progress = PSteps + 1 => m.status \in {"running", "completed"}

\* The process stopped its pool, or began anew.
Interrupted == ~jpool.open \/ jpool.restarts > 0

\* A job of the manager, by how far it has come.
ManagedJob(r) ==
  /\ ProgressFits(r.mem) /\ ProgressFits(r.row)
  /\ r.mem # NoRecord => r.row.progress <= r.mem.progress
  /\ r.req = "offering" \/ r.exec \in {"queued", "starting"} =>
       r.mem.status = "pending" /\ r.row.status = "pending" /\ r.outcome = "none"
  /\ r.exec = "working" => r.mem.status = "running" /\ r.row.status = "running" /\ r.outcome = "none"
  /\ r.exec = "ending" => r.mem.status = "running" /\ r.row.status = "running" /\ r.outcome \in {"ok", "error"}
  /\ r.exec = "ending" /\ r.outcome = "error" => r.mem.progress # PSteps + 1
  /\ r.row.status = "completed" => r.outcome = "ok"
  /\ r.row.status = "failed" => (r.outcome = "error" \/ (r.exec \in {"none", "gone"} /\ r.outcome = "none"))
  /\ r.row # NoRecord /\ ~TerminalStatus(r.row.status) /\ r.exec \in {"none", "gone"} /\ r.req \in {"answering", "closed"}
       => r.lost \/ Interrupted

JobSound(r) ==
  /\ r \in Job
  /\ r.req \in {"none", "offering"} => r.exec = "none"
  /\ ~Manager /\ r.exec = "gone" /\ jpool.restarts = 0 => TerminalStatus(r.mem.status)
  /\ Manager => ManagedJob(r)

QueueSound ==
  /\ jqueue \in Seq(JobIDs) /\ Len(jqueue) <= jset.queue
  /\ \A k \in 1..Len(jqueue) : jobs[jqueue[k]].exec = "queued"
  /\ \A k, l \in 1..Len(jqueue) : jqueue[k] = jqueue[l] => k = l

JobsInv ==
  /\ jset \in JSetups /\ jpool \in [open : BOOLEAN, restarts : Nat]
  /\ DOMAIN jobs = JobIDs /\ \A j \in JobIDs : JobSound(jobs[j])
  /\ QueueSound

\* A setup of the jobs.
LEMMA JobsConstants ==
  /\ PSteps \in Nat /\ PSteps > 0
  /\ \A s \in JSetups : s.app \in {"manager", "export"} /\ s.queue \in Nat
BY JobsAssumption

\* A job that was never submitted is sound.
LEMMA UnbornSound == JobSound(Unborn)
<1>1. NoRecord \in JobRecord BY JobsConstants DEF NoRecord, JobRecord, JobStatus
<1>2. Unborn \in Job BY <1>1 DEF Unborn, Job
<1>3. ProgressFits(NoRecord) BY JobsConstants DEF ProgressFits, NoRecord
<1> QED BY <1>2, <1>3 DEF JobSound, ManagedJob, Unborn, NoRecord

\* The manager starts without jobs.
LEMMA JobsStart == JInit => JobsInv
<1> SUFFICES ASSUME JInit PROVE JobsInv OBVIOUS
<1>1. DOMAIN jobs = JobIDs /\ \A j \in JobIDs : JobSound(jobs[j])
  BY UnbornSound DEF JInit
<1>2. QueueSound
  BY JobsConstants DEF JInit, QueueSound
<1> QED BY <1>1, <1>2 DEF JInit, JobsInv

\* What the jobs promise.
LEMMA JobsPromise == JobsInv => JTypeOK /\ RowHonest /\ StuckNeedsCause /\ FinishedIsReported
<1> SUFFICES ASSUME JobsInv PROVE JTypeOK /\ RowHonest /\ StuckNeedsCause /\ FinishedIsReported
  OBVIOUS
<1>1. JTypeOK
  <2>1. IsInjective(jqueue) BY DEF IsInjective, JobsInv, QueueSound
  <2>2. \A j \in JobIDs :
       /\ jobs[j].row.status \in {"none", "pending", "running", "completed", "failed"}
       /\ jobs[j].mem.progress \in 0..(PSteps + 1)
       /\ jobs[j].exec \in {"none", "queued", "starting", "working", "ending", "gone"}
    BY DEF JobsInv, JobSound, Job, JobRecord, JobStatus
  <2> QED BY <2>1, <2>2 DEF JTypeOK, JobsInv, QueueSound
<1>2. RowHonest
  BY DEF RowHonest, JobsInv, JobSound, ManagedJob, ProgressFits
<1>3. StuckNeedsCause
  BY DEF StuckNeedsCause, JobsInv, JobSound, ManagedJob, Interrupted, ListJobs
<1>4. FinishedIsReported
  <2> SUFFICES ASSUME NEW j \in ListJobs, jobs[j].exec = "gone", jpool.open, jpool.restarts = 0, ~jobs[j].lost
               PROVE  TerminalStatus(GetJob(j).status)
    BY DEF FinishedIsReported
  <2>1. JobSound(jobs[j]) /\ jobs[j].row # NoRecord BY DEF JobsInv, ListJobs
  <2>2. jobs[j].req \in {"answering", "closed"} BY <2>1 DEF JobSound, Job
  <2>3. CASE Manager
    BY <2>1, <2>2, <2>3 DEF JobSound, ManagedJob, Interrupted, GetJob
  <2>4. CASE ~Manager
    <3>1. TerminalStatus(jobs[j].mem.status) BY <2>1, <2>4 DEF JobSound
    <3>2. jobs[j].mem # NoRecord BY <3>1 DEF TerminalStatus, NoRecord
    <3> QED BY <2>4, <3>1, <3>2 DEF GetJob
  <2> QED BY <2>3, <2>4
<1> QED BY <1>1, <1>2, <1>3, <1>4

\* What updateJobStatus makes of a job: memory follows, the row if it can.
RowWritten(r, s, ok, v) ==
  /\ v \in Job /\ v.mem.status = s /\ v.mem # NoRecord
  /\ v.mem.progress = IF s = "completed" THEN PSteps + 1 ELSE r.mem.progress
  /\ r.mem.progress <= v.mem.progress
  /\ ok => v.row = v.mem /\ v.lost = r.lost
  /\ ~ok => v.row = r.row /\ v.lost
  /\ v.type = r.type /\ v.req = r.req /\ v.exec = r.exec /\ v.held = r.held /\ v.ctx = r.ctx
  /\ v.outcome = r.outcome /\ v.told = r.told

\* What updateJobStatus does to the job in memory and, if saved, to its row.
LEMMA StatusUpdated ==
  ASSUME NEW r \in Job, NEW s \in {"running", "completed", "failed"}, NEW ok \in BOOLEAN
  PROVE  RowWritten(r, s, ok, updateJobStatus(r, s, ok))
<1> DEFINE v == updateJobStatus(r, s, ok)
<1> SUFFICES RowWritten(r, s, ok, v) OBVIOUS
<1> DEFINE m == [status |-> s, progress |-> IF s = "completed" THEN PSteps + 1 ELSE r.mem.progress]
<1>1. m \in JobRecord /\ m.status = s /\ m.progress = (IF s = "completed" THEN PSteps + 1 ELSE r.mem.progress)
      /\ r.mem.progress <= m.progress
  BY JobsConstants DEF Job, JobRecord, JobStatus
<1>2. m # NoRecord BY <1>1 DEF NoRecord
<1>3. v = IF ok THEN [[r EXCEPT !.mem = m] EXCEPT !.row = [r EXCEPT !.mem = m].mem]
          ELSE [[r EXCEPT !.mem = m] EXCEPT !.lost = TRUE]
  BY DEF updateJobStatus, RowUpdate, v
<1>4. m = [status |-> s, progress |-> IF s = "completed" THEN PSteps + 1 ELSE r.mem.progress] OBVIOUS
<1> HIDE DEF m, v
<1> DEFINE x == [r EXCEPT !.mem = m]
<1>5. x \in Job /\ x.mem = m /\ x.row = r.row /\ x.lost = r.lost
      /\ x.type = r.type /\ x.req = r.req /\ x.exec = r.exec /\ x.held = r.held /\ x.ctx = r.ctx
      /\ x.outcome = r.outcome /\ x.told = r.told
  BY <1>1 DEF Job
<1> HIDE DEF x
<1>6. v = IF ok THEN [x EXCEPT !.row = m] ELSE [x EXCEPT !.lost = TRUE] BY <1>3, <1>5 DEF x
<1>7. CASE ok
  <2>1. v = [x EXCEPT !.row = m] BY <1>6, <1>7
  <2>2. v \in Job /\ v.mem = m /\ v.row = m /\ v.lost = x.lost
      /\ v.type = x.type /\ v.req = x.req /\ v.exec = x.exec /\ v.held = x.held /\ v.ctx = x.ctx
      /\ v.outcome = x.outcome /\ v.told = x.told
    BY <1>1, <1>5, <2>1 DEF Job
  <2> QED BY <1>1, <1>2, <1>4, <1>5, <1>7, <2>2 DEF RowWritten
<1>8. CASE ~ok
  <2>1. v = [x EXCEPT !.lost = TRUE] BY <1>6, <1>8
  <2>2. v \in Job /\ v.mem = m /\ v.row = x.row /\ v.lost
      /\ v.type = x.type /\ v.req = x.req /\ v.exec = x.exec /\ v.held = x.held /\ v.ctx = x.ctx
      /\ v.outcome = x.outcome /\ v.told = x.told
    BY <1>5, <2>1 DEF Job
  <2> QED BY <1>1, <1>2, <1>4, <1>5, <1>8, <2>2 DEF RowWritten
<1> QED BY <1>7, <1>8

\* Jobs are judged by themselves while setup and pool stay.
LEMMA SameJobs ==
  ASSUME UNCHANGED <<jset, jpool>>, DOMAIN jobs' = JobIDs, \A j \in JobIDs : JobSound(jobs'[j])
  PROVE  (DOMAIN jobs = JobIDs /\ \A j \in JobIDs : JobSound(jobs[j]))'
BY DEF JobSound, ManagedJob, Interrupted, Manager

\* A step of one job that is neither queued nor taken from the queue by it.
LEMMA OneJob ==
  ASSUME JobsInv, NEW j \in JobIDs, NEW v, JobSound(v), Only(j, v),
         jobs[j].exec = "queued" => v.exec = "queued"
  PROVE  JobsInv'
<1>1. UNCHANGED <<jset, jqueue, jpool>> /\ DOMAIN jobs' = JobIDs
      /\ \A i \in JobIDs : jobs'[i] = IF i = j THEN v ELSE jobs[i]
  BY DEF Only, JobsInv
<1>2. \A i \in JobIDs : JobSound(jobs'[i]) BY <1>1 DEF JobsInv
<1>3. (DOMAIN jobs = JobIDs /\ \A i \in JobIDs : JobSound(jobs[i]))' BY <1>1, <1>2, SameJobs
<1>4. QueueSound'
  <2>1. \A k \in 1..Len(jqueue) : jqueue[k] \in JobIDs BY DEF JobsInv, QueueSound
  <2> QED BY <1>1, <2>1 DEF JobsInv, QueueSound
<1> QED BY <1>1, <1>3, <1>4 DEF JobsInv

\* Of a job that goes on or ends, the parts that matter here.
LEMMA CreateJobKeeps ==
  ASSUME JobsInv, NEW j \in JobIDs, NEW t \in Types \cup {"fault"}, CreateJob(j, t) PROVE JobsInv'
<1>1. jobs[j].exec = "none" BY DEF CreateJob, Unborn
<1>2. NoRecord \in JobRecord /\ Pending \in JobRecord
  BY JobsConstants DEF NoRecord, Pending, JobRecord, JobStatus
<1>3. ProgressFits(NoRecord) /\ ProgressFits(Pending)
  BY JobsConstants DEF ProgressFits, NoRecord, Pending
<1>4. CASE t = "fault"
  <2> DEFINE v == [Unborn EXCEPT !.req = "closed"]
  <2>1. Only(j, v) BY <1>4 DEF CreateJob
  <2>2. v \in Job /\ v.req = "closed" /\ v.exec = "none" /\ v.mem = NoRecord /\ v.row = NoRecord
    BY <1>2 DEF Unborn, Job
  <2> HIDE DEF v
  <2>3. NoRecord.status = "none" BY DEF NoRecord
  <2>4. JobSound(v) BY <1>3, <2>2, <2>3 DEF JobSound, ManagedJob
  <2> QED BY <1>1, <2>1, <2>4, OneJob
<1>5. CASE t # "fault"
  <2> DEFINE v == [Unborn EXCEPT !.type = t, !.req = "offering", !.ctx = TRUE, !.mem = Pending, !.row = Pending]
  <2>1. Only(j, v) BY <1>5 DEF CreateJob
  <2>2. v \in Job /\ v.req = "offering" /\ v.exec = "none" /\ v.mem = Pending /\ v.row = Pending /\ v.outcome = "none"
    BY <1>2, <1>5 DEF Unborn, Job, Types
  <2> HIDE DEF v
  <2>3. Pending.status = "pending" /\ Pending.progress <= Pending.progress BY DEF Pending
  <2>4. JobSound(v) BY <1>3, <2>2, <2>3 DEF JobSound, ManagedJob
  <2> QED BY <1>1, <2>1, <2>4, OneJob
<1> QED BY <1>4, <1>5

\* Steps that leave what the job is and how far it has come.
LEMMA AsideKeeps ==
  ASSUME JobsInv, NEW j \in JobIDs, Respond(j) \/ Disconnect(j) \/ WorkerLeaves(j) PROVE JobsInv'
<1> DEFINE r == jobs[j]
<1>0. JobSound(r) BY DEF JobsInv
<1>1. CASE Respond(j)
  <2> DEFINE v == [r EXCEPT !.req = "closed", !.ctx = FALSE]
  <2>1. Only(j, v) /\ r.req = "answering" BY <1>1 DEF Respond
  <2>2. v \in Job /\ v.req = "closed" /\ v.exec = r.exec /\ v.mem = r.mem /\ v.row = r.row
        /\ v.outcome = r.outcome /\ v.lost = r.lost
    BY <1>0 DEF JobSound, Job
  <2> HIDE DEF v
  <2>3. JobSound(v) BY <1>0, <2>1, <2>2 DEF JobSound, ManagedJob
  <2> QED BY <2>1, <2>2, <2>3, OneJob
<1>2. CASE Disconnect(j)
  <2> DEFINE v == [r EXCEPT !.ctx = FALSE]
  <2>1. Only(j, v) BY <1>2 DEF Disconnect
  <2>2. v \in Job /\ v.req = r.req /\ v.exec = r.exec /\ v.mem = r.mem /\ v.row = r.row
        /\ v.outcome = r.outcome /\ v.lost = r.lost
    BY <1>0 DEF JobSound, Job
  <2> HIDE DEF v
  <2>3. JobSound(v) BY <1>0, <2>2 DEF JobSound, ManagedJob
  <2> QED BY <2>1, <2>2, <2>3, OneJob
<1>3. CASE WorkerLeaves(j)
  <2> DEFINE v == [r EXCEPT !.held = FALSE]
  <2>1. Only(j, v) BY <1>3 DEF WorkerLeaves
  <2>2. v \in Job /\ v.req = r.req /\ v.exec = r.exec /\ v.mem = r.mem /\ v.row = r.row
        /\ v.outcome = r.outcome /\ v.lost = r.lost
    BY <1>0 DEF JobSound, Job
  <2> HIDE DEF v
  <2>3. JobSound(v) BY <1>0, <2>2 DEF JobSound, ManagedJob
  <2> QED BY <2>1, <2>2, <2>3, OneJob
<1> QED BY <1>1, <1>2, <1>3

\* executeJob of the manager.
LEMMA StartJobKeeps ==
  ASSUME JobsInv, NEW j \in JobIDs, StartJob(j) PROVE JobsInv'
<1> DEFINE r == jobs[j]
<1>1. r.exec = "starting" /\ Manager BY DEF StartJob
<1>2. JobSound(r) /\ r \in Job /\ ManagedJob(r) BY <1>1 DEF JobsInv, JobSound
<1>3. PICK ok \in CanUpdate(j) :
       LET x == updateJobStatus(r, "running", ok) IN
       IF ~ok THEN Only(j, [x EXCEPT !.exec = "gone"])
       ELSE IF x.type = "unknown"
       THEN \E saved \in CanUpdate(j) :
              Only(j, [updateJobStatus(x, "failed", saved) EXCEPT !.exec = "gone", !.outcome = "error"])
       ELSE Only(j, [x EXCEPT !.exec = "working"])
  BY DEF StartJob
<1>4. ok \in BOOLEAN /\ CanUpdate(j) \subseteq BOOLEAN BY DEF CanUpdate
<1> DEFINE x == updateJobStatus(r, "running", ok)
<1>5. /\ x \in Job /\ x.mem.status = "running" /\ x.mem # NoRecord /\ x.mem.progress = r.mem.progress
      /\ ok => x.row = x.mem /\ x.lost = r.lost
      /\ ~ok => x.row = r.row /\ x.lost
      /\ x.req = r.req /\ x.exec = r.exec /\ x.outcome = r.outcome
  <2>1. r \in Job /\ ok \in BOOLEAN /\ "running" \in {"running", "completed", "failed"} BY <1>2, <1>4
  <2>2. RowWritten(r, "running", ok, x) BY ONLY <2>1, StatusUpdated
  <2> HIDE DEF x
  <2> QED BY <2>2 DEF RowWritten
<1> HIDE DEF x
<1>6. ProgressFits(x.mem) /\ x.mem.progress \in Nat /\ x.req \notin {"none", "offering"}
      /\ r.row.progress <= x.mem.progress /\ x.mem.progress # PSteps + 1
  <2>1. r.mem.progress \in 0..(PSteps + 1) BY <1>2 DEF Job, JobRecord
  <2>2. r.mem.status = "pending" /\ ProgressFits(r.mem) BY <1>1, <1>2 DEF ManagedJob
  <2>3. ProgressFits(x.mem) /\ x.mem.progress # PSteps + 1 BY <1>5, <2>2 DEF ProgressFits
  <2>4. r.mem # NoRecord BY <2>2 DEF NoRecord
  <2>5. r.row.progress <= r.mem.progress BY <1>2, <2>4 DEF ManagedJob
  <2>6. x.req \notin {"none", "offering"} BY <1>1, <1>2, <1>5 DEF JobSound
  <2> QED BY <1>5, <2>1, <2>3, <2>5, <2>6, JobsConstants
<1>7. CASE ~ok
  <2> DEFINE v == [x EXCEPT !.exec = "gone"]
  <2>1. Only(j, v) BY <1>3, <1>7 DEF x
  <2>2. v \in Job /\ v.exec = "gone" /\ v.mem = x.mem /\ v.row = x.row /\ v.req = x.req /\ v.outcome = x.outcome /\ v.lost
    BY <1>5, <1>7 DEF Job
  <2> HIDE DEF v
  <2>3. ManagedJob(v) BY <1>1, <1>2, <1>5, <1>6, <1>7, <2>2 DEF ManagedJob
  <2>4. JobSound(v) BY <1>1, <1>6, <2>2, <2>3 DEF JobSound
  <2> QED BY <1>1, <2>1, <2>4, OneJob
<1>8. CASE ok /\ x.type # "unknown"
  <2> DEFINE v == [x EXCEPT !.exec = "working"]
  <2>1. Only(j, v) BY <1>3, <1>8 DEF x
  <2>2. v \in Job /\ v.exec = "working" /\ v.mem = x.mem /\ v.row = x.row /\ v.req = x.req /\ v.outcome = x.outcome
    BY <1>5, <1>8 DEF Job
  <2> HIDE DEF v
  <2>3. JobSound(v) BY <1>1, <1>2, <1>5, <1>6, <1>8, <2>2 DEF JobSound, ManagedJob
  <2> QED BY <1>1, <2>1, <2>3, OneJob
<1>9. CASE ok /\ x.type = "unknown"
  <2>1. PICK saved \in CanUpdate(j) :
          Only(j, [updateJobStatus(x, "failed", saved) EXCEPT !.exec = "gone", !.outcome = "error"])
    BY <1>3, <1>9 DEF x
  <2> DEFINE y == updateJobStatus(x, "failed", saved)
  <2> DEFINE v == [y EXCEPT !.exec = "gone", !.outcome = "error"]
  <2>2. saved \in BOOLEAN BY <1>4
  <2>3. /\ y \in Job /\ y.mem.status = "failed" /\ y.mem # NoRecord /\ y.mem.progress = x.mem.progress
        /\ saved => y.row = y.mem /\ y.lost = x.lost
        /\ ~saved => y.row = x.row /\ y.lost
        /\ y.req = x.req
    <3>1. x \in Job /\ "failed" \in {"running", "completed", "failed"} BY <1>5
    <3>2. RowWritten(x, "failed", saved, y) BY ONLY <2>2, <3>1, StatusUpdated
    <3> HIDE DEF y
    <3> QED BY <3>2 DEF RowWritten
  <2>4. Only(j, v) BY <2>1
  <2> HIDE DEF y
  <2>5. v \in Job /\ v.exec = "gone" /\ v.mem = y.mem /\ v.row = y.row /\ v.req = y.req /\ v.outcome = "error" /\ v.lost = y.lost
    BY <2>3 DEF Job
  <2> HIDE DEF v
  <2>6. ProgressFits(v.mem) /\ ProgressFits(v.row) /\ v.row.progress <= v.mem.progress
    BY <1>5, <1>6, <1>9, <2>2, <2>3, <2>5 DEF ProgressFits
  <2>7. ManagedJob(v)
    BY <1>6, <1>9, <1>5, <2>2, <2>3, <2>5, <2>6 DEF ManagedJob, TerminalStatus
  <2>8. JobSound(v) BY <1>1, <1>6, <2>3, <2>5, <2>7 DEF JobSound
  <2> QED BY <1>1, <2>4, <2>8, OneJob
<1> QED BY <1>4, <1>7, <1>8, <1>9

\* Progress is reported up to the last report, while the job runs.
LEMMA ReportProgressKeeps ==
  ASSUME JobsInv, NEW j \in JobIDs, ReportProgress(j) PROVE JobsInv'
<1> DEFINE r == jobs[j]
<1> DEFINE n == r.mem.progress + 1
<1>1. r.exec = "working" /\ Manager /\ r.mem.progress < LastReport(j) BY DEF ReportProgress
<1>2. JobSound(r) /\ r \in Job /\ ManagedJob(r) BY <1>1 DEF JobsInv, JobSound
<1>3. r.mem \in JobRecord /\ r.mem.progress \in 0..(PSteps + 1) BY <1>2 DEF Job, JobRecord
<1>4. PICK ok \in CanUpdate(j) : Only(j, RowUpdate([r EXCEPT !.mem.progress = @ + 1], ok))
  BY DEF ReportProgress
<1>5. ok \in BOOLEAN BY DEF CanUpdate
<1> DEFINE m == [r.mem EXCEPT !.progress = n]
<1>6. m \in JobRecord /\ m.status = r.mem.status /\ m.progress = n /\ n \in Nat /\ r.mem.progress <= n
  <2>1. n \in 0..(PSteps + 1) BY <1>1, <1>3, JobsConstants DEF LastReport
  <2> QED BY <1>3, <2>1, JobsConstants DEF JobRecord
<1> DEFINE x == [r EXCEPT !.mem = m]
<1>9. [r EXCEPT !.mem.progress = @ + 1] = x OBVIOUS
<1> HIDE DEF m, n
<1>10. x \in Job /\ x.mem = m /\ x.row = r.row /\ x.lost = r.lost /\ x.req = r.req /\ x.exec = r.exec /\ x.outcome = r.outcome
  BY <1>2, <1>6 DEF Job
<1> HIDE DEF x
<1>11. r.row.progress <= r.mem.progress
  <2>1. r.mem # NoRecord BY <1>1, <1>2 DEF ManagedJob, NoRecord
  <2> QED BY <1>2, <2>1 DEF ManagedJob
<1>12. r.row.progress \in Nat /\ r.row.progress <= n BY <1>2, <1>3, <1>6, <1>11 DEF Job, JobRecord
<1>13. ProgressFits(m) BY <1>1, <1>2, <1>6 DEF ProgressFits, ManagedJob
<1>14. CASE ok
  <2> DEFINE v == [x EXCEPT !.row = m]
  <2>1. Only(j, v) BY <1>4, <1>9, <1>10, <1>14 DEF RowUpdate
  <2>2. v \in Job /\ v.mem = m /\ v.row = m /\ v.lost = r.lost /\ v.req = r.req /\ v.exec = r.exec /\ v.outcome = r.outcome
    BY <1>6, <1>10 DEF Job
  <2> HIDE DEF v
  <2>3. ManagedJob(v) BY <1>1, <1>2, <1>6, <1>13, <2>2 DEF ManagedJob
  <2>4. JobSound(v) BY <1>1, <1>2, <2>2, <2>3 DEF JobSound
  <2> QED BY <1>1, <2>1, <2>4, OneJob
<1>15. CASE ~ok
  <2> DEFINE v == [x EXCEPT !.lost = TRUE]
  <2>1. Only(j, v) BY <1>4, <1>9, <1>10, <1>15 DEF RowUpdate
  <2>2. v \in Job /\ v.mem = m /\ v.row = r.row /\ v.lost /\ v.req = r.req /\ v.exec = r.exec /\ v.outcome = r.outcome
    BY <1>6, <1>10 DEF Job
  <2> HIDE DEF v
  <2>3. ManagedJob(v) BY <1>1, <1>2, <1>6, <1>12, <1>13, <2>2 DEF ManagedJob
  <2>4. JobSound(v) BY <1>1, <1>2, <2>2, <2>3 DEF JobSound
  <2> QED BY <1>1, <2>1, <2>4, OneJob
<1> QED BY <1>5, <1>14, <1>15

\* A handler ends with an outcome, once.
LEMMA JobHandlerKeeps ==
  ASSUME JobsInv, NEW j \in JobIDs, JobHandlerReturns(j) PROVE JobsInv'
<1> DEFINE r == jobs[j]
<1>1. r.exec = "working" /\ Manager BY DEF JobHandlerReturns
<1>2. JobSound(r) /\ r \in Job /\ ManagedJob(r) BY <1>1 DEF JobsInv, JobSound
<1>3. PICK o \in {"ok", "error"} : /\ Only(j, [r EXCEPT !.exec = "ending", !.outcome = o])
                                   /\ o = "error" => r.mem.progress # PSteps + 1
  <2>1. r.mem.progress \in 0..(PSteps + 1) BY <1>2 DEF Job, JobRecord
  <2> QED BY <2>1, JobsConstants DEF JobHandlerReturns, LastReport
<1> DEFINE v == [r EXCEPT !.exec = "ending", !.outcome = o]
<1>4. v \in Job /\ v.exec = "ending" /\ v.outcome = o /\ v.mem = r.mem /\ v.row = r.row /\ v.lost = r.lost /\ v.req = r.req
  BY <1>2 DEF Job
<1>5. Only(j, v) BY <1>3
<1> HIDE DEF v
<1>6. ManagedJob(v) BY <1>1, <1>2, <1>3, <1>4 DEF ManagedJob
<1>7. JobSound(v) BY <1>1, <1>2, <1>4, <1>6 DEF JobSound
<1> QED BY <1>1, <1>5, <1>7, OneJob

\* The end of a job is written after its outcome is known.
LEMMA EndJobKeeps ==
  ASSUME JobsInv, NEW j \in JobIDs, EndJob(j) PROVE JobsInv'
<1> DEFINE r == jobs[j]
<1> DEFINE s == IF r.outcome = "ok" THEN "completed" ELSE "failed"
<1>1. r.exec = "ending" /\ Manager BY DEF EndJob
<1>2. JobSound(r) /\ r \in Job /\ ManagedJob(r) BY <1>1 DEF JobsInv, JobSound
<1>3. PICK ok \in CanUpdate(j) : Only(j, [updateJobStatus(r, s, ok) EXCEPT !.exec = "gone"])
  BY DEF EndJob
<1>4. ok \in BOOLEAN /\ s \in {"running", "completed", "failed"} BY DEF CanUpdate
<1> DEFINE x == updateJobStatus(r, s, ok)
<1> DEFINE v == [x EXCEPT !.exec = "gone"]
<1>5. Only(j, v) BY <1>3
<1>6. /\ x \in Job /\ x.mem.status = s /\ x.mem # NoRecord
      /\ x.mem.progress = (IF s = "completed" THEN PSteps + 1 ELSE r.mem.progress)
      /\ r.mem.progress <= x.mem.progress
      /\ ok => x.row = x.mem /\ x.lost = r.lost
      /\ ~ok => x.row = r.row /\ x.lost
      /\ x.req = r.req /\ x.outcome = r.outcome
  <2> HIDE DEF s
  <2>1. RowWritten(r, s, ok, x) BY ONLY <1>2, <1>4, StatusUpdated
  <2> HIDE DEF x
  <2> QED BY <2>1 DEF RowWritten
<1> HIDE DEF x
<1>7. v \in Job /\ v.exec = "gone" /\ v.mem = x.mem /\ v.row = x.row /\ v.lost = x.lost /\ v.req = x.req /\ v.outcome = x.outcome
  BY <1>6 DEF Job
<1> HIDE DEF v
<1>8. r.outcome \in {"ok", "error"} /\ r.mem.status = "running" /\ r.row.status = "running"
      /\ r.row.progress <= r.mem.progress
  <2>1. r.outcome \in {"ok", "error"} /\ r.mem.status = "running" /\ r.row.status = "running" BY <1>1, <1>2 DEF ManagedJob
  <2>2. r.mem # NoRecord BY <2>1 DEF NoRecord
  <2> QED BY <1>2, <2>1, <2>2 DEF ManagedJob
<1>9. r.mem.progress \in Nat /\ x.mem.progress \in Nat /\ r.row.progress \in Nat
  BY <1>2, <1>6, JobsConstants DEF Job, JobRecord
<1>10. (s = "failed" => r.mem.progress # PSteps + 1) /\ ProgressFits(r.row) BY <1>1, <1>2, <1>8 DEF ManagedJob
<1>11. ProgressFits(x.mem) /\ ProgressFits(x.row) /\ x.row.progress <= x.mem.progress
  <2>1. ProgressFits(x.mem) BY <1>4, <1>6, <1>10 DEF ProgressFits
  <2>2. CASE ok BY <1>6, <1>9, <2>1, <2>2
  <2>3. CASE ~ok BY <1>6, <1>8, <1>9, <1>10, <2>1, <2>3
  <2> QED BY <1>4, <2>2, <2>3
<1>12. ManagedJob(v)
  <2>1. x.row.status = s \/ (x.row.status = "running" /\ x.lost) BY <1>4, <1>6, <1>8
  <2>2. v.req \notin {"none", "offering"} BY <1>1, <1>2, <1>6, <1>7 DEF JobSound
  <2> QED BY <1>6, <1>7, <1>8, <1>11, <2>1, <2>2 DEF ManagedJob, TerminalStatus
<1>13. JobSound(v) BY <1>1, <1>2, <1>6, <1>7, <1>12 DEF JobSound
<1> QED BY <1>1, <1>5, <1>13, OneJob

\* executeExport: only the memory of the service changes.
LEMMA ExportKeeps ==
  ASSUME JobsInv, NEW j \in JobIDs, StartExport(j) \/ RunExport(j) \/ EndExport(j) PROVE JobsInv'
<1> DEFINE r == jobs[j]
<1>1. ~Manager /\ r.exec \in {"starting", "working", "ending"} BY DEF StartExport, RunExport, EndExport
<1>2. JobSound(r) /\ r \in Job /\ r.mem \in JobRecord BY DEF JobsInv, JobSound, Job
<1>3. CASE StartExport(j)
  <2> DEFINE m == [r.mem EXCEPT !.status = "running"]
  <2> DEFINE v == [r EXCEPT !.exec = "working", !.mem = m]
  <2>1. Only(j, v) BY <1>3 DEF StartExport
  <2>2. m \in JobRecord BY <1>2 DEF JobRecord, JobStatus
  <2> HIDE DEF m
  <2>3. v \in Job /\ v.exec = "working" /\ v.req = r.req BY <1>2, <2>2 DEF Job
  <2> HIDE DEF v
  <2>4. JobSound(v) BY <1>1, <1>2, <2>3 DEF JobSound
  <2> QED BY <1>1, <2>1, <2>4, OneJob
<1>4. CASE RunExport(j)
  <2>1. PICK o \in {"ok", "error"} : Only(j, [r EXCEPT !.exec = "ending", !.outcome = o])
    BY <1>4 DEF RunExport
  <2> DEFINE v == [r EXCEPT !.exec = "ending", !.outcome = o]
  <2>2. v \in Job /\ v.exec = "ending" /\ v.req = r.req BY <1>2 DEF Job
  <2>3. Only(j, v) BY <2>1
  <2> HIDE DEF v
  <2>4. JobSound(v) BY <1>1, <1>2, <2>2 DEF JobSound
  <2> QED BY <1>1, <2>3, <2>4, OneJob
<1>5. CASE EndExport(j)
  <2> DEFINE s == IF r.outcome = "ok" THEN "completed" ELSE "failed"
  <2> DEFINE m == [r.mem EXCEPT !.status = s]
  <2> DEFINE v == [r EXCEPT !.exec = "gone", !.mem = m, !.told = s]
  <2>1. Only(j, v) BY <1>5 DEF EndExport
  <2>2. s \in {"completed", "failed"} OBVIOUS
  <2> HIDE DEF s
  <2>3. m \in JobRecord /\ m.status = s BY <1>2, <2>2 DEF JobRecord, JobStatus
  <2> HIDE DEF m
  <2>4. v \in Job /\ v.exec = "gone" /\ v.req = r.req /\ v.mem = m BY <1>2, <2>2, <2>3 DEF Job
  <2> HIDE DEF v
  <2>5. JobSound(v) BY <1>1, <1>2, <2>2, <2>3, <2>4 DEF JobSound, TerminalStatus
  <2> QED BY <1>1, <2>1, <2>5, OneJob
<1> QED BY <1>3, <1>4, <1>5

\* Submit: the job is queued, or refused, or the pool is closed.
LEMMA SubmitKeeps ==
  ASSUME JobsInv, NEW j \in JobIDs, Submit(j) PROVE JobsInv'
<1> DEFINE r == jobs[j]
<1>1. r.req = "offering" /\ UNCHANGED <<jset, jpool>> BY DEF Submit
<1>2. JobSound(r) /\ r \in Job /\ r.exec = "none" /\ (Manager => ManagedJob(r)) BY <1>1 DEF JobsInv, JobSound
<1>3. Manager => r.mem.status = "pending" /\ r.row.status = "pending" /\ r.outcome = "none"
  BY <1>1, <1>2 DEF ManagedJob
<1>4. CASE Len(jqueue) < jset.queue /\ jqueue' = Append(jqueue, j)
           /\ jobs' = [jobs EXCEPT ![j].req = "answering", ![j].exec = "queued"]
  <2> DEFINE v == [r EXCEPT !.req = "answering", !.exec = "queued"]
  <2>1. v \in Job /\ v.req = "answering" /\ v.exec = "queued" /\ v.mem = r.mem /\ v.row = r.row
        /\ v.outcome = r.outcome /\ v.lost = r.lost
    BY <1>2 DEF Job
  <2>2. DOMAIN jobs' = JobIDs /\ \A i \in JobIDs : jobs'[i] = IF i = j THEN v ELSE jobs[i]
    BY <1>4 DEF JobsInv
  <2> HIDE DEF v
  <2>3. Manager => ManagedJob(v) BY <1>1, <1>2, <1>3, <2>1 DEF ManagedJob
  <2>4. JobSound(v) BY <2>1, <2>3 DEF JobSound
  <2>5. \A i \in JobIDs : JobSound(jobs'[i]) BY <2>2, <2>4 DEF JobsInv
  <2>6. (DOMAIN jobs = JobIDs /\ \A i \in JobIDs : JobSound(jobs[i]))' BY <1>1, <2>2, <2>5, SameJobs
  <2>7. QueueSound'
    <3>1. jqueue \in Seq(JobIDs) /\ Len(jqueue) \in Nat /\ jset.queue \in Nat
      BY JobsConstants DEF JobsInv, QueueSound
    <3>2. jqueue' \in Seq(JobIDs) /\ Len(jqueue') = Len(jqueue) + 1
          /\ \A k \in 1..Len(jqueue') : jqueue'[k] = IF k = Len(jqueue) + 1 THEN j ELSE jqueue[k]
      BY <1>4, <3>1
    <3>3. \A k \in 1..Len(jqueue) : jqueue[k] \in JobIDs /\ jqueue[k] # j /\ jobs[jqueue[k]].exec = "queued"
      BY <1>2, <3>1 DEF JobsInv, QueueSound
    <3>4. \A k \in 1..Len(jqueue') : jobs'[jqueue'[k]].exec = "queued"
      BY <2>1, <2>2, <3>1, <3>2, <3>3
    <3>5. \A k, l \in 1..Len(jqueue') : jqueue'[k] = jqueue'[l] => k = l
      <4> SUFFICES ASSUME NEW k \in 1..Len(jqueue'), NEW l \in 1..Len(jqueue'), jqueue'[k] = jqueue'[l] PROVE k = l
        OBVIOUS
      <4>1. CASE k \in 1..Len(jqueue) /\ l \in 1..Len(jqueue)
        BY <3>1, <3>2, <4>1 DEF JobsInv, QueueSound
      <4> QED BY <3>1, <3>2, <3>3, <4>1
    <3>6. Len(jqueue') <= jset'.queue BY <1>1, <1>4, <3>1, <3>2
    <3> QED BY <3>2, <3>4, <3>5, <3>6 DEF QueueSound
  <2> QED BY <1>1, <2>6, <2>7 DEF JobsInv
<1>5. ASSUME NEW w \in Job, ~jpool.open \/ ~Manager, w = [r EXCEPT !.req = "answering"], Only(j, w) PROVE JobsInv'
  <2>1. w.req = "answering" /\ w.exec = "none" /\ w.mem = r.mem /\ w.row = r.row
        /\ w.outcome = r.outcome /\ w.lost = r.lost
    BY <1>2, <1>5 DEF Job
  <2>2. Manager => ManagedJob(w) BY <1>1, <1>2, <1>3, <1>5, <2>1 DEF ManagedJob, Interrupted
  <2>3. JobSound(w) BY <1>5, <2>1, <2>2 DEF JobSound
  <2> QED BY <1>2, <1>5, <2>3, OneJob
<1>6. [r EXCEPT !.req = "answering"] \in Job BY <1>2 DEF Job
<1>7. CASE ~jpool.open /\ UNCHANGED jqueue /\ jobs' = [jobs EXCEPT ![j].req = "answering"]
  <2>1. Only(j, [r EXCEPT !.req = "answering"]) BY <1>1, <1>7 DEF Only
  <2> QED BY <1>5, <1>6, <1>7, <2>1
<1>8. ASSUME NEW ok \in CanUpdate(j), UNCHANGED jqueue,
             jobs' = [jobs EXCEPT ![j] =
                        [(IF Manager THEN updateJobStatus(@, "failed", ok) ELSE @) EXCEPT !.req = "answering"]]
      PROVE  JobsInv'
  <2>1. CASE ~Manager
    <3>1. Only(j, [r EXCEPT !.req = "answering"]) BY <1>1, <1>8, <2>1 DEF Only
    <3> QED BY <1>5, <1>6, <2>1, <3>1
  <2>2. CASE Manager
    <3> DEFINE x == updateJobStatus(r, "failed", ok)
    <3> DEFINE v == [x EXCEPT !.req = "answering"]
    <3>1. Only(j, v) BY <1>1, <1>8, <2>2 DEF Only
    <3>2. ok \in BOOLEAN BY DEF CanUpdate
    <3>3. /\ x \in Job /\ x.mem.status = "failed" /\ x.mem # NoRecord /\ x.mem.progress = r.mem.progress
          /\ ok => x.row = x.mem /\ x.lost = r.lost
          /\ ~ok => x.row = r.row /\ x.lost
          /\ x.exec = r.exec /\ x.outcome = r.outcome
      <4>1. "failed" \in {"running", "completed", "failed"} OBVIOUS
      <4>2. RowWritten(r, "failed", ok, x) BY ONLY <1>2, <3>2, <4>1, StatusUpdated
      <4> HIDE DEF x
      <4> QED BY <4>2 DEF RowWritten
    <3> HIDE DEF x
    <3>4. v \in Job /\ v.req = "answering" /\ v.exec = "none" /\ v.mem = x.mem /\ v.row = x.row
          /\ v.outcome = "none" /\ v.lost = x.lost
      BY <1>2, <1>3, <2>2, <3>3 DEF Job
    <3> HIDE DEF v
    <3>5. r.mem.progress \in Nat /\ r.row.progress \in Nat /\ r.row.progress <= r.mem.progress
          /\ r.mem.progress # PSteps + 1 /\ ProgressFits(r.row)
      <4>1. r.mem.progress \in Nat /\ r.row.progress \in Nat BY <1>2 DEF Job, JobRecord
      <4>2. r.mem # NoRecord BY <1>3, <2>2 DEF NoRecord
      <4> QED BY <1>2, <1>3, <2>2, <4>1, <4>2 DEF ManagedJob, ProgressFits
    <3>6. ProgressFits(x.mem) BY <3>3, <3>5 DEF ProgressFits
    <3>7. ProgressFits(x.row) /\ x.row.progress <= x.mem.progress BY <3>2, <3>3, <3>5, <3>6
    <3>8. x.row.status = "failed" \/ (x.row.status = "pending" /\ x.lost) BY <1>3, <2>2, <3>2, <3>3
    <3>9. ManagedJob(v) BY <3>4, <3>6, <3>7, <3>8 DEF ManagedJob, TerminalStatus
    <3>10. JobSound(v) BY <2>2, <3>4, <3>9 DEF JobSound
    <3> QED BY <1>2, <3>1, <3>10, OneJob
  <2> QED BY <2>1, <2>2
<1> QED BY <1>4, <1>7, <1>8 DEF Submit

\* A worker takes the first of the queue.
LEMMA TakeJobKeeps == ASSUME JobsInv, TakeJob PROVE JobsInv'
<1> DEFINE j == Head(jqueue)
<1> DEFINE r == jobs[j]
<1>1. jqueue \in Seq(JobIDs) /\ jqueue # <<>> /\ Len(jqueue) \in Nat /\ Len(jqueue) > 0
  BY DEF JobsInv, QueueSound, TakeJob
<1>2. j = jqueue[1] /\ 1 \in 1..Len(jqueue) /\ j \in JobIDs BY <1>1
<1>3. r.exec = "queued" BY <1>2 DEF JobsInv, QueueSound
<1>4. JobSound(r) /\ r \in Job BY <1>2 DEF JobsInv, JobSound
<1> DEFINE v == [r EXCEPT !.exec = "starting", !.held = TRUE]
<1>5. v \in Job /\ v.req = r.req /\ v.exec = "starting" /\ v.mem = r.mem /\ v.row = r.row
      /\ v.outcome = r.outcome /\ v.lost = r.lost
  BY <1>4 DEF Job
<1>6. DOMAIN jobs' = JobIDs /\ \A i \in JobIDs : jobs'[i] = IF i = j THEN v ELSE jobs[i]
  BY <1>2 DEF JobsInv, TakeJob
<1> HIDE DEF v
<1>7. UNCHANGED <<jset, jpool>> /\ jqueue' = Tail(jqueue) BY DEF TakeJob
<1>8. Manager => ManagedJob(v) BY <1>3, <1>4, <1>5 DEF JobSound, ManagedJob
<1>9. JobSound(v) BY <1>3, <1>4, <1>5, <1>8 DEF JobSound
<1>10. \A i \in JobIDs : JobSound(jobs'[i]) BY <1>6, <1>9 DEF JobsInv
<1>11. (DOMAIN jobs = JobIDs /\ \A i \in JobIDs : JobSound(jobs[i]))' BY <1>6, <1>7, <1>10, SameJobs
<1>12. QueueSound'
  <2>1. jqueue' \in Seq(JobIDs) /\ Len(jqueue') = Len(jqueue) - 1
        /\ \A k \in 1..Len(jqueue') : jqueue'[k] = jqueue[k + 1] /\ k + 1 \in 1..Len(jqueue)
    BY <1>1, <1>7
  <2>2. jset.queue \in Nat /\ Len(jqueue) <= jset.queue BY JobsConstants DEF JobsInv, QueueSound
  <2>3. \A k, l \in 1..Len(jqueue) : jqueue[k] = jqueue[l] => k = l BY DEF JobsInv, QueueSound
  <2>4. \A k \in 1..Len(jqueue') : jqueue'[k] \in JobIDs /\ jqueue'[k] # j /\ jobs[jqueue'[k]].exec = "queued"
    <3> SUFFICES ASSUME NEW k \in 1..Len(jqueue')
                 PROVE jqueue'[k] \in JobIDs /\ jqueue'[k] # j /\ jobs[jqueue'[k]].exec = "queued"
      OBVIOUS
    <3>1. jqueue'[k] = jqueue[k + 1] /\ k + 1 \in 1..Len(jqueue) /\ k + 1 # 1 BY <2>1
    <3>2. jqueue[k + 1] # j BY <1>2, <2>3, <3>1
    <3> QED BY <1>1, <3>1, <3>2 DEF JobsInv, QueueSound
  <2>5. \A k \in 1..Len(jqueue') : jobs'[jqueue'[k]].exec = "queued" BY <1>6, <2>4
  <2>6. \A k, l \in 1..Len(jqueue') : jqueue'[k] = jqueue'[l] => k = l
    <3> SUFFICES ASSUME NEW k \in 1..Len(jqueue'), NEW l \in 1..Len(jqueue'), jqueue'[k] = jqueue'[l] PROVE k = l
      OBVIOUS
    <3>1. k + 1 = l + 1 BY <2>1, <2>3
    <3> QED BY <3>1
  <2>7. Len(jqueue') <= jset'.queue BY <1>1, <1>7, <2>1, <2>2
  <2> QED BY <2>1, <2>5, <2>6, <2>7 DEF QueueSound
<1> QED BY <1>7, <1>11, <1>12 DEF JobsInv

\* The pool stops: from now on what is left unfinished has a cause.
LEMMA PoolStopKeeps == ASSUME JobsInv, PoolStop PROVE JobsInv'
<1>1. UNCHANGED <<jset, jobs, jqueue>> /\ jpool' = [jpool EXCEPT !.open = FALSE] BY DEF PoolStop
<1>2. jpool' \in [open : BOOLEAN, restarts : Nat] /\ ~jpool'.open /\ jpool'.restarts = jpool.restarts
  BY <1>1 DEF JobsInv
<1>3. (\A j \in JobIDs : JobSound(jobs[j]))'
  BY <1>1, <1>2 DEF JobsInv, JobSound, ManagedJob, Interrupted, Manager
<1>4. QueueSound' BY <1>1 DEF JobsInv, QueueSound
<1> QED BY <1>1, <1>2, <1>3, <1>4 DEF JobsInv

\* A restart leaves the rows alone and forgets the rest.
LEMMA JobsRestartKeeps == ASSUME JobsInv, JobsRestart PROVE JobsInv'
<1>1. jpool' = [open |-> TRUE, restarts |-> jpool.restarts + 1] /\ jqueue' = <<>> /\ jset' = jset BY DEF JobsRestart
<1>2. jpool' \in [open : BOOLEAN, restarts : Nat] /\ jpool'.restarts > 0 BY <1>1 DEF JobsInv
<1>3. Interrupted' BY <1>2 DEF Interrupted
<1>4. ASSUME NEW j \in JobIDs PROVE JobSound(jobs[j])'
  <2> DEFINE r == jobs[j]
  <2>1. CASE r = Unborn
    <3>1. jobs'[j] = Unborn BY <2>1 DEF JobsRestart
    <3>2. Manager' <=> Manager BY <1>1 DEF Manager
    <3>3. JobSound(Unborn) BY UnbornSound
    <3>4. Unborn.exec = "none" /\ Unborn.req = "none" BY DEF Unborn
    <3> QED BY <1>2, <1>3, <3>1, <3>2, <3>3, <3>4 DEF JobSound, ManagedJob
  <2>2. CASE r # Unborn
    <3> DEFINE v == [r EXCEPT !.req = "closed", !.exec = "gone", !.held = FALSE, !.ctx = FALSE, !.mem = NoRecord]
    <3>1. jobs'[j] = v BY <2>2 DEF JobsRestart
    <3>2. JobSound(r) /\ r \in Job BY DEF JobsInv, JobSound
    <3>3. NoRecord \in JobRecord /\ ProgressFits(NoRecord)
      BY JobsConstants DEF NoRecord, JobRecord, JobStatus, ProgressFits
    <3>4. v \in Job /\ v.req = "closed" /\ v.exec = "gone" /\ v.mem = NoRecord /\ v.row = r.row
          /\ v.outcome = r.outcome /\ v.lost = r.lost
      BY <3>2, <3>3 DEF Job
    <3> HIDE DEF v
    <3>5. Manager' <=> Manager BY <1>1 DEF Manager
    <3>6. Manager => ProgressFits(r.row) /\ (r.row.status = "completed" => r.outcome = "ok")
            /\ (r.row.status = "failed" => r.outcome \in {"error", "none"})
      BY <3>2 DEF JobSound, ManagedJob
    <3> QED BY <1>2, <1>3, <3>1, <3>3, <3>4, <3>5, <3>6 DEF JobSound, ManagedJob
  <2> QED BY <2>1, <2>2
<1>5. DOMAIN jobs' = JobIDs BY DEF JobsRestart
<1>6. QueueSound' BY <1>1, JobsConstants DEF JobsInv, QueueSound
<1> QED BY <1>1, <1>2, <1>4, <1>5, <1>6 DEF JobsInv

\* No step of the jobs breaks their invariant.
LEMMA JobsStep == JobsInv /\ [JNext]_jvars => JobsInv'
<1> SUFFICES ASSUME JobsInv, [JNext]_jvars PROVE JobsInv' OBVIOUS
<1>1. CASE UNCHANGED jvars
  BY <1>1 DEF jvars, JobsInv, QueueSound, JobSound, ManagedJob, Interrupted, Manager
<1>2. CASE JNext
  <2>1. CASE TakeJob BY <2>1, TakeJobKeeps
  <2>2. CASE PoolStop BY <2>2, PoolStopKeeps
  <2>3. CASE JobsRestart BY <2>3, JobsRestartKeeps
  <2>4. ASSUME NEW j \in JobIDs, NEW t \in Types \cup {"fault"}, CreateJob(j, t) PROVE JobsInv'
    BY <2>4, CreateJobKeeps
  <2>5. ASSUME NEW j \in JobIDs, Submit(j) PROVE JobsInv' BY <2>5, SubmitKeeps
  <2>6. ASSUME NEW j \in JobIDs, Respond(j) \/ Disconnect(j) \/ WorkerLeaves(j) PROVE JobsInv' BY <2>6, AsideKeeps
  <2>7. ASSUME NEW j \in JobIDs, StartJob(j) PROVE JobsInv' BY <2>7, StartJobKeeps
  <2>8. ASSUME NEW j \in JobIDs, ReportProgress(j) PROVE JobsInv' BY <2>8, ReportProgressKeeps
  <2>9. ASSUME NEW j \in JobIDs, JobHandlerReturns(j) PROVE JobsInv' BY <2>9, JobHandlerKeeps
  <2>10. ASSUME NEW j \in JobIDs, EndJob(j) PROVE JobsInv' BY <2>10, EndJobKeeps
  <2>11. ASSUME NEW j \in JobIDs, StartExport(j) \/ RunExport(j) \/ EndExport(j) PROVE JobsInv' BY <2>11, ExportKeeps
  <2> QED BY <1>2, <2>1, <2>2, <2>3, <2>4, <2>5, <2>6, <2>7, <2>8, <2>9, <2>10, <2>11 DEF JNext
<1> QED BY <1>1, <1>2

-----------------------------------------------------------------------------
(* Accounts and tokens                                                     *)

Tokens == [kind : {"access", "refresh"}, user : AccountIDs, role : Roles, iat : Nat]
UserRow == [id : AccountIDs, email : Emails, role : Roles]
CallFields == {"op", "at", "user", "email", "role", "token", "new"}

\* What a call carries where it will use it.
CallSound(q) ==
  /\ DOMAIN q = CallFields
  /\ q.at = "insert" => q.op = "Register" /\ q.user \in AccountIDs /\ q.email \in Emails /\ q.role \in Roles
  /\ q.at = "session" => /\ q.op \in {"Login", "Refresh"}
                         /\ q.new \in Tokens /\ q.new.kind = "refresh" /\ q.new.iat <= now /\ q.new.user = q.user
  /\ q.at \in {"user", "drop"} => q.op = "Refresh"
  /\ q.at = "row" => q.op = "Delete"

\* A session is its token's: of the same user, and no shorter than the token.
SessionSound(s) ==
  /\ s.token \in Tokens /\ s.token.kind = "refresh"
  /\ s.user = s.token.user
  /\ s.expires \in Nat /\ s.token.iat + RefreshTTL <= s.expires

\* Neither a session of this user nor a call that may yet store one.
NoEntry(id) ==
  /\ \A s \in sessions : s.user # id
  /\ \A d \in AClients : acall[d].op \in {"Login", "Refresh"} => acall[d].user # id

\* A used-up token has no session and no call holds it; two calls that hold one token are noted.
TokensOnce ==
  /\ \A s \in sessions : s.token \notin spent \ doubtful
  /\ \A d \in AClients : acall[d].op = "Refresh" => acall[d].token \notin spent \ doubtful
  /\ \A d, e \in AClients :
       d # e /\ acall[d].op = "Refresh" /\ acall[e].op = "Refresh" /\ acall[d].token = acall[e].token
         => acall[d].token \in doubtful

\* An ID being registered is new, to the table and to the other calls.
NewIDs ==
  \A d \in AClients : acall[d].op = "Register" =>
    /\ acall[d].user \notin removed /\ \A u \in users : u.id # acall[d].user
    /\ \A e \in AClients : d # e /\ acall[e].op = "Register" => acall[e].user # acall[d].user

\* A user whose sessions were deleted, and one deleted, gets none unless a call raced.
Departed ==
  /\ \A d \in AClients : acall[d].at = "row" /\ acall[d].user \notin raced => NoEntry(acall[d].user)
  /\ \A id \in removed : (\A u \in users : u.id # id) /\ (id \notin raced => NoEntry(id))

AccountsTypes ==
  /\ now \in 0..LastSecond /\ acalls \in 0..ACalls
  /\ users \subseteq UserRow
  /\ DOMAIN acall = AClients /\ \A c \in AClients : CallSound(acall[c])
  /\ \A s \in sessions : SessionSound(s)

AccountsInv == AccountsTypes /\ TokensOnce /\ NewIDs /\ Departed

\* The lifetimes and bounds are numbers.
LEMMA AccountsConstants ==
  AccessTTL \in Nat /\ RefreshTTL \in Nat /\ LastSecond \in Nat /\ ACalls \in Nat
BY AccountsAssumption

\* A client without a call carries nothing.
LEMMA ANoneSound == CallSound(ANone) /\ ANone.op = "none" /\ ANone.at = "idle"
BY DEF ANone, CallSound, CallFields

\* A call that begins or goes on stays within its bound.
LEMMA CallBegins ==
  ASSUME AccountsTypes, NEW c \in AClients, NEW r, BeginCall(c, r) \/ Onward(c, r)
  PROVE  /\ acalls' \in 0..ACalls /\ DOMAIN acall' = AClients
         /\ \A d \in AClients : acall'[d] = IF d = c THEN r ELSE acall[d]
BY AccountsConstants DEF AccountsTypes, BeginCall, Onward

\* The types, after a step of one call.
LEMMA TypesKept ==
  ASSUME AccountsTypes, UNCHANGED now, NEW c \in AClients, NEW r, CallSound(r),
         BeginCall(c, r) \/ Onward(c, r), users' \subseteq UserRow, \A s \in sessions' : SessionSound(s)
  PROVE  AccountsTypes'
<1>1. /\ acalls' \in 0..ACalls /\ DOMAIN acall' = AClients
      /\ \A d \in AClients : acall'[d] = IF d = c THEN r ELSE acall[d]
  BY CallBegins
<1>2. \A d \in AClients : CallSound(acall[d])' <=> CallSound(acall'[d])
  BY DEF CallSound
<1>3. \A d \in AClients : CallSound(acall'[d])
  BY <1>1 DEF AccountsTypes
<1>4. (\A s \in sessions : SessionSound(s))'
  BY DEF SessionSound
<1> QED BY <1>1, <1>2, <1>3, <1>4 DEF AccountsTypes

\* What a call may become when it begins, goes on or returns.
MayBe(c, r) ==
  /\ r.op = "Refresh" =>
       /\ r.token \notin spent \ doubtful'
       /\ \A d \in AClients : d # c /\ acall[d].op = "Refresh" /\ acall[d].token = r.token => r.token \in doubtful'
  /\ r.op = "Register" =>
       /\ r.user \notin removed /\ \A u \in users : u.id # r.user
       /\ \A d \in AClients : d # c /\ acall[d].op = "Register" => acall[d].user # r.user
  /\ r.op \in {"Login", "Refresh"} =>
       /\ r.user \in removed => r.user \in raced'
       /\ \A d \in AClients : d # c /\ acall[d].at = "row" /\ acall[d].user = r.user => r.user \in raced'
  /\ r.at = "row" =>
       \/ r.user \in raced'
       \/ /\ \A s \in sessions' : s.user # r.user
          /\ \A d \in AClients : d # c /\ acall[d].op \in {"Login", "Refresh"} => acall[d].user # r.user

\* A step of one call that stores no session, no user, and ends no token or user.
LEMMA CallMoves ==
  ASSUME AccountsInv, NEW c \in AClients, NEW r, CallSound(r), BeginCall(c, r) \/ Onward(c, r), MayBe(c, r),
         UNCHANGED <<now, users, spent, removed>>, sessions' \subseteq sessions,
         doubtful \subseteq doubtful', raced \subseteq raced'
  PROVE  AccountsInv'
<1>1. AccountsTypes'
  BY TypesKept DEF AccountsInv, AccountsTypes
<1>2. \A d \in AClients : acall'[d] = IF d = c THEN r ELSE acall[d]
  BY CallBegins DEF AccountsInv
<1>3. r.at = "row" => r.op = "Delete"
  BY DEF CallSound
<1>4. TokensOnce'
  BY <1>2 DEF AccountsInv, TokensOnce, MayBe
<1>5. NewIDs'
  BY <1>2 DEF AccountsInv, NewIDs, MayBe
<1>6. Departed'
  BY <1>2, <1>3 DEF AccountsInv, Departed, NoEntry, MayBe
<1> QED BY <1>1, <1>4, <1>5, <1>6 DEF AccountsInv

\* A call returns, or is refused at once.
LEMMA CallReturns ==
  ASSUME AccountsInv, NEW c \in AClients, BeginCall(c, ANone) \/ ReturnCall(c),
         UNCHANGED <<now, users, accLog>>, sessions' \subseteq sessions
  PROVE  AccountsInv'
<1>1. MayBe(c, ANone)
  BY ANoneSound DEF MayBe
<1>2. BeginCall(c, ANone) \/ Onward(c, ANone)
  BY DEF ReturnCall
<1> QED BY <1>1, <1>2, ANoneSound, CallMoves DEF accLog

\* Register draws an ID nobody has.
LEMMA RegisterKeeps ==
  ASSUME AccountsInv, NEW c \in AClients, NEW id \in AccountIDs, NEW e \in Emails, NEW role \in Roles,
         Register(c, id, e, role)
  PROVE  AccountsInv'
<1>1. UNCHANGED <<now, users, sessions, accLog>> /\ sessions' \subseteq sessions
  BY DEF Register
<1>2. CASE ByEmail(e) # {}
  <2>1. BeginCall(c, ANone) BY <1>2 DEF Register
  <2> QED BY <1>1, <2>1, CallReturns
<1>3. CASE ByEmail(e) = {}
  <2> DEFINE r == [ANone EXCEPT !.op = "Register", !.at = "insert", !.user = id, !.email = e, !.role = role]
  <2>1. BeginCall(c, r) BY <1>3 DEF Register
  <2>2. CallSound(r) /\ r.op = "Register" /\ r.user = id /\ r.at = "insert"
    BY DEF ANone, CallSound, CallFields
  <2> HIDE DEF r
  <2>3. (\A u \in users : u.id # id) /\ id \notin removed /\ \A d \in AClients : acall[d].user # id
    BY DEF Register, ByID
  <2>4. MayBe(c, r)
    BY <2>2, <2>3 DEF MayBe
  <2> QED BY <1>1, <2>1, <2>2, <2>4, CallMoves DEF accLog
<1> QED BY <1>2, <1>3

\* Login finds a user who is not deleted; one being deleted is noted.
LEMMA LoginKeeps ==
  ASSUME AccountsInv, NEW c \in AClients, NEW e, Login(c, e)
  PROVE  AccountsInv'
<1>1. UNCHANGED <<now, users, sessions, spent, doubtful, removed>> /\ sessions' \subseteq sessions
  BY DEF Login
<1>2. CASE ByEmail(e) = {} /\ BeginCall(c, ANone) /\ UNCHANGED raced
  BY <1>1, <1>2, CallReturns DEF accLog
<1>3. CASE \E u \in ByEmail(e) :
          /\ BeginCall(c, [ANone EXCEPT !.op = "Login", !.at = "session", !.user = u.id, !.role = u.role,
                                        !.new = generateToken("refresh", u.id, u.role)])
          /\ raced' = IF Deleting(u.id) # {} THEN raced \cup {u.id} ELSE raced
  <2>1. PICK u \in ByEmail(e) :
          /\ BeginCall(c, [ANone EXCEPT !.op = "Login", !.at = "session", !.user = u.id, !.role = u.role,
                                        !.new = generateToken("refresh", u.id, u.role)])
          /\ raced' = IF Deleting(u.id) # {} THEN raced \cup {u.id} ELSE raced
    BY <1>3
  <2> DEFINE t == generateToken("refresh", u.id, u.role)
  <2> DEFINE r == [ANone EXCEPT !.op = "Login", !.at = "session", !.user = u.id, !.role = u.role, !.new = t]
  <2>2. u \in users /\ u \in UserRow
    BY DEF ByEmail, AccountsInv, AccountsTypes
  <2>3. t \in Tokens /\ t.kind = "refresh" /\ t.iat <= now /\ t.user = u.id
    BY <2>2, AccountsConstants DEF generateToken, Tokens, AccountsInv, AccountsTypes, UserRow
  <2>4. BeginCall(c, r) BY <2>1
  <2> HIDE DEF t
  <2>5. CallSound(r) /\ r.op = "Login" /\ r.user = u.id /\ r.at = "session"
    BY <2>3 DEF ANone, CallSound, CallFields
  <2> HIDE DEF r
  <2>6. raced \subseteq raced' /\ \A d \in AClients : acall[d].at = "row" /\ acall[d].user = u.id => u.id \in raced'
    BY <2>1 DEF Deleting
  <2>7. u.id \notin removed
    BY <2>2 DEF AccountsInv, Departed
  <2>8. MayBe(c, r)
    BY <2>5, <2>6, <2>7 DEF MayBe
  <2> QED BY <1>1, <2>4, <2>5, <2>6, <2>8, CallMoves
<1> QED BY <1>2, <1>3 DEF Login

\* RefreshToken never meets a session that has run out before its token; a second call on
\* one token is noted.
LEMMA RefreshTokenKeeps ==
  ASSUME AccountsInv, NEW c \in AClients, NEW t, RefreshToken(c, t)
  PROVE  AccountsInv'
<1>1. UNCHANGED <<now, users, spent, removed, raced>>
  BY DEF RefreshToken
<1>2. CASE ~DecodeToken(t) \/ ~IsRefreshToken(t) \/ ByToken(t) = {}
  <2>1. BeginCall(c, ANone) /\ UNCHANGED <<sessions, doubtful>>
    BY <1>2 DEF RefreshToken
  <2> QED BY <1>1, <2>1, CallReturns DEF accLog
<1>3. CASE DecodeToken(t) /\ IsRefreshToken(t) /\ ByToken(t) # {}
  <2>1. PICK s \in ByToken(t) :
            IF now > s.expires
            THEN BeginCall(c, ANone) /\ sessions' = sessions \ {s} /\ UNCHANGED doubtful
            ELSE /\ BeginCall(c, [ANone EXCEPT !.op = "Refresh", !.at = "user", !.token = t, !.user = s.user])
                 /\ doubtful' = IF Refreshing(t) # {} THEN doubtful \cup {t} ELSE doubtful
                 /\ UNCHANGED sessions
    BY <1>3 DEF RefreshToken
  <2>2. s \in sessions /\ s.token = t /\ SessionSound(s) BY DEF ByToken, AccountsInv, AccountsTypes
  <2>3. t.iat \in Nat /\ t.kind = "refresh" BY <2>2 DEF SessionSound, Tokens
  <2>4. now < t.iat + RefreshTTL BY <1>3, <2>3 DEF DecodeToken, TTL
  <2>5. ~(now > s.expires)
    BY <2>2, <2>3, <2>4, AccountsConstants DEF SessionSound, AccountsInv, AccountsTypes
  <2> DEFINE r == [ANone EXCEPT !.op = "Refresh", !.at = "user", !.token = t, !.user = s.user]
  <2>6. /\ BeginCall(c, r) /\ UNCHANGED sessions
        /\ doubtful' = IF Refreshing(t) # {} THEN doubtful \cup {t} ELSE doubtful
    BY <2>1, <2>5
  <2>7. CallSound(r) /\ r.op = "Refresh" /\ r.token = t /\ r.user = s.user /\ r.at = "user"
    BY DEF CallSound, ANone, CallFields
  <2> HIDE DEF r
  <2>8. /\ doubtful \subseteq doubtful'
        /\ \A d \in AClients : acall[d].op = "Refresh" /\ acall[d].token = t => t \in doubtful'
    BY <2>6 DEF Refreshing
  <2>9. t \notin spent \ doubtful'
    BY <2>2, <2>8 DEF AccountsInv, TokensOnce
  <2>10. /\ s.user \in removed => s.user \in raced'
         /\ \A d \in AClients : acall[d].at = "row" /\ acall[d].user = s.user => s.user \in raced'
    BY <1>1, <2>2 DEF AccountsInv, Departed, NoEntry
  <2>11. MayBe(c, r)
    BY <2>7, <2>8, <2>9, <2>10 DEF MayBe
  <2> QED BY <1>1, <2>6, <2>7, <2>8, <2>11, CallMoves
<1> QED BY <1>2, <1>3

\* The refresh goes on with the user it found.
LEMMA RefreshUserKeeps ==
  ASSUME AccountsInv, NEW c \in AClients, RefreshUser(c)
  PROVE  AccountsInv'
<1>1. UNCHANGED <<now, users, sessions, accLog>> /\ sessions' \subseteq sessions /\ acall[c].at = "user"
  BY DEF RefreshUser
<1>2. CASE ReturnCall(c)
  BY <1>1, <1>2, CallReturns
<1>3. CASE \E u \in ByID(acall[c].user) :
          Onward(c, [acall[c] EXCEPT !.at = "session", !.new = generateToken("refresh", u.id, u.role)])
  <2>1. PICK u \in ByID(acall[c].user) :
          Onward(c, [acall[c] EXCEPT !.at = "session", !.new = generateToken("refresh", u.id, u.role)])
    BY <1>3
  <2> DEFINE t == generateToken("refresh", u.id, u.role)
  <2> DEFINE r == [acall[c] EXCEPT !.at = "session", !.new = t]
  <2>2. u \in UserRow /\ u.id = acall[c].user
    BY DEF ByID, AccountsInv, AccountsTypes
  <2>3. t \in Tokens /\ t.kind = "refresh" /\ t.iat <= now /\ t.user = u.id
    BY <2>2, AccountsConstants DEF generateToken, Tokens, AccountsInv, AccountsTypes, UserRow
  <2>4. Onward(c, r) BY <2>1
  <2> HIDE DEF t
  <2>5. DOMAIN acall[c] = CallFields /\ acall[c].op = "Refresh"
    BY <1>1 DEF AccountsInv, AccountsTypes, CallSound
  <2>6. /\ DOMAIN r = CallFields /\ r.op = "Refresh" /\ r.token = acall[c].token /\ r.user = acall[c].user
        /\ r.at = "session" /\ r.new = t
    BY <2>5 DEF CallFields
  <2> HIDE DEF r
  <2>7. CallSound(r)
    BY <2>2, <2>3, <2>6 DEF CallSound
  <2>8. MayBe(c, r)
    BY <1>1, <2>5, <2>6 DEF MayBe, AccountsInv, TokensOnce, Departed, NoEntry, accLog
  <2> QED BY <1>1, <2>4, <2>7, <2>8, CallMoves DEF accLog
<1> QED BY <1>1, <1>2, <1>3 DEF RefreshUser

\* DeleteUser takes the sessions of a user, and notes the calls that may store another.
LEMMA DeleteUserKeeps ==
  ASSUME AccountsInv, NEW c \in AClients, NEW t, NEW id \in AccountIDs, DeleteUser(c, t, id)
  PROVE  AccountsInv'
<1>1. UNCHANGED <<now, users, spent, doubtful, removed>>
  BY DEF DeleteUser
<1>2. CASE ~Authorized(t, {"admin"})
  <2>1. BeginCall(c, ANone) /\ UNCHANGED <<sessions, raced>>
    BY <1>2 DEF DeleteUser
  <2> QED BY <1>1, <2>1, CallReturns DEF accLog
<1>3. CASE Authorized(t, {"admin"})
  <2> DEFINE r == [ANone EXCEPT !.op = "Delete", !.at = "row", !.user = id]
  <2>1. /\ BeginCall(c, r)
        /\ sessions' = {s \in sessions : s.user # id}
        /\ raced' = IF Entering(id) # {} THEN raced \cup {id} ELSE raced
    BY <1>3 DEF DeleteUser
  <2>2. CallSound(r) /\ r.op = "Delete" /\ r.at = "row" /\ r.user = id
    BY DEF CallSound, ANone, CallFields
  <2> HIDE DEF r
  <2>3. /\ raced \subseteq raced'
        /\ id \in raced' \/ \A d \in AClients : acall[d].op \in {"Login", "Refresh"} => acall[d].user # id
    BY <2>1 DEF Entering
  <2>4. MayBe(c, r)
    BY <2>1, <2>2, <2>3 DEF MayBe
  <2> QED BY <1>1, <2>1, <2>2, <2>3, <2>4, CallMoves
<1> QED BY <1>2, <1>3

\* Storing a session: its call is one that no deletion overlooked.
LEMMA StoreSessionKeeps ==
  ASSUME AccountsInv, NEW c \in AClients, NEW r, CallSound(r), acall[c].at = "session", StoreSession(c, r),
         \/ r = ANone
         \/ r.op = acall[c].op /\ r.user = acall[c].user /\ r.token = acall[c].token /\ r.at = "drop"
  PROVE  AccountsInv'
<1> DEFINE t == acall[c].new
<1>1. /\ t \in Tokens /\ t.kind = "refresh" /\ t.iat <= now /\ t.user = acall[c].user
      /\ acall[c].op \in {"Login", "Refresh"}
  BY DEF AccountsInv, AccountsTypes, CallSound
<1>2. /\ sessions' = sessions \cup {SessionFor(t)} /\ spent' = spent \ {t}
      /\ Onward(c, r) /\ UNCHANGED <<now, users, doubtful, removed, raced>>
  BY DEF StoreSession
<1>3. SessionSound(SessionFor(t)) /\ SessionFor(t).token = t /\ SessionFor(t).user = acall[c].user
  BY <1>1, AccountsConstants DEF SessionSound, SessionFor, AccountsInv, AccountsTypes, Tokens
<1> HIDE DEF t
<1>4. AccountsTypes'
  <2>1. \A s \in sessions' : SessionSound(s) BY <1>2, <1>3 DEF AccountsInv, AccountsTypes
  <2>2. users' \subseteq UserRow BY <1>2 DEF AccountsInv, AccountsTypes
  <2> QED BY <1>2, <2>1, <2>2, TypesKept DEF AccountsInv
<1>5. \A d \in AClients : acall'[d] = IF d = c THEN r ELSE acall[d]
  BY <1>2, CallBegins DEF AccountsInv
<1>6. \/ r.op = "none" /\ r.at = "idle"
      \/ r.op = acall[c].op /\ r.user = acall[c].user /\ r.token = acall[c].token /\ r.at = "drop"
  BY ANoneSound
<1>7. \A s \in sessions' : s \in sessions \/ (s.token = t /\ s.user = acall[c].user)
  BY <1>2, <1>3
<1>8. TokensOnce'
  BY <1>2, <1>5, <1>6, <1>7 DEF AccountsInv, TokensOnce
<1>9. NewIDs'
  BY <1>1, <1>2, <1>5, <1>6 DEF AccountsInv, NewIDs
<1>10. Departed'
  BY <1>1, <1>2, <1>5, <1>6, <1>7 DEF AccountsInv, Departed, NoEntry
<1> QED BY <1>4, <1>8, <1>9, <1>10 DEF AccountsInv

\* The old token is used up: its session goes, or the failure to delete it is noted.
LEMMA RefreshDropKeeping ==
  ASSUME AccountsInv, NEW c \in AClients, RefreshDrop(c)
  PROVE  AccountsInv'
<1> DEFINE t == acall[c].token
<1>1. /\ acall[c].at = "drop" /\ Onward(c, ANone) /\ spent' = spent \cup {t}
      /\ UNCHANGED <<now, users, removed, raced>>
      /\ \/ sessions' = sessions \ ByToken(t) /\ doubtful' = doubtful
         \/ doubtful' = doubtful \cup {t} /\ sessions' = sessions
  BY DEF RefreshDrop, ReturnCall
<1>2. acall[c].op = "Refresh"
  BY <1>1 DEF AccountsInv, AccountsTypes, CallSound
<1>3. /\ sessions' \subseteq sessions /\ doubtful \subseteq doubtful'
      /\ t \in doubtful' \/ \A s \in sessions' : s.token # t
  BY <1>1 DEF ByToken
<1>4. \A d \in AClients : acall'[d] = IF d = c THEN ANone ELSE acall[d]
  BY <1>1, CallBegins DEF AccountsInv
<1>5. AccountsTypes'
  <2>1. (\A s \in sessions' : SessionSound(s)) /\ users' \subseteq UserRow
    BY <1>1, <1>3 DEF AccountsInv, AccountsTypes
  <2> QED BY <1>1, <2>1, ANoneSound, TypesKept DEF AccountsInv
<1>6. TokensOnce'
  BY <1>1, <1>2, <1>3, <1>4, ANoneSound DEF AccountsInv, TokensOnce
<1>7. NewIDs'
  BY <1>1, <1>4, ANoneSound DEF AccountsInv, NewIDs
<1>8. Departed'
  BY <1>1, <1>3, <1>4, ANoneSound DEF AccountsInv, Departed, NoEntry
<1> QED BY <1>5, <1>6, <1>7, <1>8 DEF AccountsInv

\* The row of a new ID is stored, or the table refuses it.
LEMMA RegisterInsertKeeps ==
  ASSUME AccountsInv, NEW c \in AClients, RegisterInsert(c)
  PROVE  AccountsInv'
<1> DEFINE u == [id |-> acall[c].user, email |-> acall[c].email, role |-> acall[c].role]
<1>1. /\ acall[c].at = "insert" /\ Onward(c, ANone) /\ UNCHANGED <<now, sessions, spent, doubtful, removed, raced>>
      /\ users' = users \/ users' = users \cup {u}
  BY DEF RegisterInsert, ReturnCall, CreateUser, accLog
<1>2. u \in UserRow /\ u.id = acall[c].user /\ acall[c].op = "Register"
  BY <1>1 DEF AccountsInv, AccountsTypes, CallSound, UserRow
<1> HIDE DEF u
<1>3. \A d \in AClients : acall'[d] = IF d = c THEN ANone ELSE acall[d]
  BY <1>1, CallBegins DEF AccountsInv
<1>4. AccountsTypes'
  <2>1. (\A s \in sessions' : SessionSound(s)) /\ users' \subseteq UserRow
    BY <1>1, <1>2 DEF AccountsInv, AccountsTypes
  <2> QED BY <1>1, <2>1, ANoneSound, TypesKept DEF AccountsInv
<1>5. TokensOnce'
  BY <1>1, <1>3, ANoneSound DEF AccountsInv, TokensOnce
<1>6. NewIDs'
  BY <1>1, <1>2, <1>3, ANoneSound DEF AccountsInv, NewIDs
<1>7. Departed'
  BY <1>1, <1>2, <1>3, ANoneSound DEF AccountsInv, Departed, NoEntry, NewIDs
<1> QED BY <1>4, <1>5, <1>6, <1>7 DEF AccountsInv

\* The row goes; its sessions went before.
LEMMA DeleteUserRowKeeps ==
  ASSUME AccountsInv, NEW c \in AClients, DeleteUserRow(c)
  PROVE  AccountsInv'
<1> DEFINE id == acall[c].user
<1>1. /\ acall[c].at = "row" /\ Onward(c, ANone) /\ UNCHANGED <<now, sessions, spent, doubtful, raced>>
      /\ users' = users \ ByID(id) /\ removed' = IF ByID(id) # {} THEN removed \cup {id} ELSE removed
  BY DEF DeleteUserRow, ReturnCall
<1>2. \A d \in AClients : acall'[d] = IF d = c THEN ANone ELSE acall[d]
  BY <1>1, CallBegins DEF AccountsInv
<1>3. AccountsTypes'
  <2>1. (\A s \in sessions' : SessionSound(s)) /\ users' \subseteq UserRow
    BY <1>1 DEF AccountsInv, AccountsTypes
  <2> QED BY <1>1, <2>1, ANoneSound, TypesKept DEF AccountsInv
<1>4. TokensOnce'
  BY <1>1, <1>2, ANoneSound DEF AccountsInv, TokensOnce
<1>5. /\ users' \subseteq users /\ \A u \in users' : u.id # id
      /\ removed' \subseteq removed \cup {id} /\ (id \in removed' => id \in removed \/ \E u \in users : u.id = id)
  BY <1>1 DEF ByID
<1>6. NewIDs'
  BY <1>2, <1>5, ANoneSound DEF AccountsInv, NewIDs
<1>7. id \notin raced => NoEntry(id)
  BY <1>1 DEF AccountsInv, Departed
<1>8. \A i : NoEntry(i) => NoEntry(i)'
  BY <1>1, <1>2, ANoneSound DEF NoEntry
<1>9. Departed'
  <2>1. (\A d \in AClients : acall[d].at = "row" /\ acall[d].user \notin raced => NoEntry(acall[d].user))'
    BY <1>1, <1>2, <1>8, ANoneSound DEF AccountsInv, Departed
  <2>2. (\A i \in removed : (\A u \in users : u.id # i) /\ (i \notin raced => NoEntry(i)))'
    BY <1>1, <1>5, <1>7, <1>8 DEF AccountsInv, Departed
  <2> QED BY <2>1, <2>2 DEF Departed
<1> QED BY <1>3, <1>4, <1>6, <1>9 DEF AccountsInv

\* AccountsInv is inductive.
LEMMA AccountsStep == AccountsInv /\ [ANext]_accVars => AccountsInv'
<1> SUFFICES ASSUME AccountsInv, [ANext]_accVars PROVE AccountsInv'
  OBVIOUS
<1>1. CASE UNCHANGED accVars
  BY <1>1 DEF accVars, accLog, AccountsInv, AccountsTypes, TokensOnce, NewIDs, Departed, NoEntry, CallSound, SessionSound
<1>2. CASE Tick
  <2>1. now' \in 0..LastSecond /\ now <= now' /\ UNCHANGED <<users, sessions, acall, acalls, accLog>>
    BY <1>2, AccountsConstants DEF Tick, AccountsInv, AccountsTypes
  <2>2. (\A d \in AClients : CallSound(acall[d]))'
    <3> SUFFICES ASSUME NEW d \in AClients PROVE CallSound(acall[d])' BY <2>1
    <3>1. CallSound(acall[d]) /\ acall'[d] = acall[d] BY <2>1 DEF AccountsInv, AccountsTypes
    <3>2. acall[d].at = "session" => acall[d].new.iat <= now'
      BY <2>1, <3>1, AccountsConstants DEF CallSound, Tokens, AccountsInv, AccountsTypes
    <3> QED BY <3>1, <3>2 DEF CallSound
  <2>3. AccountsTypes' BY <2>1, <2>2 DEF AccountsInv, AccountsTypes, SessionSound
  <2> QED BY <2>1, <2>3 DEF AccountsInv, accLog, TokensOnce, NewIDs, Departed, NoEntry
<1>3. ASSUME NEW c \in AClients, LoginSession(c) PROVE AccountsInv'
  BY <1>3, StoreSessionKeeps, ANoneSound DEF LoginSession
<1>4. ASSUME NEW c \in AClients, RefreshSession(c) PROVE AccountsInv'
  <2> DEFINE r == [acall[c] EXCEPT !.at = "drop"]
  <2>1. DOMAIN acall[c] = CallFields BY DEF AccountsInv, AccountsTypes, CallSound
  <2>2. acall[c].op = "Refresh" /\ acall[c].at = "session" /\ StoreSession(c, r) BY <1>4 DEF RefreshSession
  <2>3. /\ DOMAIN r = CallFields /\ r.op = acall[c].op /\ r.user = acall[c].user /\ r.token = acall[c].token
        /\ r.at = "drop"
    BY <2>1 DEF CallFields
  <2> HIDE DEF r
  <2>4. CallSound(r) BY <2>2, <2>3 DEF CallSound
  <2> QED BY <2>2, <2>3, <2>4, StoreSessionKeeps
<1>5. ASSUME NEW c \in AClients, NEW t, Logout(c, t) PROVE AccountsInv'
  BY <1>5, CallReturns DEF Logout
<1>6. ASSUME NEW c \in AClients, DatabaseFails(c) PROVE AccountsInv'
  BY <1>6, CallReturns DEF DatabaseFails
<1> QED BY <1>1, <1>2, <1>3, <1>4, <1>5, <1>6, RegisterKeeps, LoginKeeps, RefreshTokenKeeps, RefreshUserKeeps,
           DeleteUserKeeps, RefreshDropKeeping, RegisterInsertKeeps, DeleteUserRowKeeps DEF ANext

\* AccountsInv holds at the start, and gives the promises of the accounts.
LEMMA AccountsStart == AInit => AccountsInv
<1> SUFFICES ASSUME AInit PROVE AccountsInv OBVIOUS
<1>1. DOMAIN acall = AClients /\ \A c \in AClients : acall[c] = ANone
  BY DEF AInit
<1>2. AccountsTypes
  BY <1>1, ANoneSound, AccountsConstants DEF AInit, AccountsTypes
<1> QED BY <1>1, <1>2, ANoneSound DEF AInit, AccountsInv, TokensOnce, NewIDs, Departed, NoEntry

\* The invariant says what tokens and sessions promise.
LEMMA AccountsPromise == AccountsInv => ATypeOK /\ SessionsFollowTokens
<1>1. AccountsInv => ATypeOK
  BY DEF AccountsInv, AccountsTypes, ATypeOK, UserRow, SessionSound
<1>2. AccountsInv => SessionsFollowTokens
  BY DEF AccountsInv, TokensOnce, Departed, NoEntry, SessionsFollowTokens, Refreshing
<1> QED BY <1>1, <1>2

-----------------------------------------------------------------------------
(* The user directory                                                      *)

UserOrNone == User \cup {Unset}
Request ==
  [op : {"none", "create", "get", "update", "delete"},
   pc : {"idle", "peek", "read", "fill", "write", "evict"},
   id : DIds \cup {Unset}, name : DNames \cup {Unset}, email : DEmails \cup {Unset}, user : UserOrNone]
Log == [calls : Nat, faults : Nat, drawn : SUBSET DIds, last : [DIds -> UserOrNone], raced : SUBSET DIds]

\* What a request carries at each place.
UserRequestSound(q) ==
  /\ q.pc # "idle" => q.id \in DIds
  /\ q.pc = "idle" => q = Idle
  /\ q.pc \in {"peek", "read"} => q.op \in {"get", "update"}
  /\ q.pc = "fill" => q.op \in {"create", "get", "update"} /\ q.user \in User
  /\ q.pc = "write" => q.op \in {"create", "update", "delete"}
  /\ q.pc = "write" /\ q.op = "create" => q.name \in DNames /\ q.email \in DEmails
  /\ q.pc = "write" /\ q.op = "update" => q.user \in User
  /\ q.pc \in {"peek", "fill", "evict"} => Cached

DirectoryTypes ==
  /\ dset \in DSetups
  /\ rows \in [DIds -> UserOrNone] /\ copies \in [DIds -> UserOrNone]
  /\ dreq \in [DRequests -> Request] /\ dlog \in Log
  /\ \A r \in DRequests : UserRequestSound(dreq[r])

\* A user exists under a drawn ID only, and what no cache holds has no copy.
Drawn ==
  /\ \A i \in DIds : rows[i] # Unset => i \in dlog.drawn /\ dlog.last[i] \in User
  /\ \A r \in DRequests : dreq[r].op = "create" => dreq[r].id \in dlog.drawn
  /\ ~Cached => \A i \in DIds : copies[i] = Unset

\* On an ID that nothing raced on: one request at most, which knows the row it read; a
\* row not yet inserted is not there; and a copy is the row, but for an eviction to come.
QuietRow(i) ==
  /\ rows[i] = dlog.last[i]
  /\ \A r, q \in DRequests : dreq[r].id = i /\ dreq[q].id = i => r = q
  /\ \A r \in DRequests :
       dreq[r].id = i =>
         /\ dreq[r].pc = "fill" \/ (dreq[r].pc = "write" /\ dreq[r].op = "update") => dreq[r].user = rows[i]
         /\ dreq[r].pc = "write" /\ dreq[r].op = "create" => rows[i] = Unset
  /\ copies[i] # Unset /\ (\A r \in DRequests : dreq[r].id = i => dreq[r].pc # "evict") => copies[i] = rows[i]

DirectoryInv ==
  DirectoryTypes /\ Drawn /\ (\A i \in DIds \ dlog.raced : QuietRow(i)) /\ EmailsUnique

\* The assumptions on the constants.
LEMMA DirectoryConstants ==
  Unset \notin DIds /\ DSetups \subseteq DSetupType
BY DirectoryAssumption

\* A worker without a request carries nothing.
LEMMA IdleRequest == Idle \in Request /\ UserRequestSound(Idle)
BY DEF Idle, Request, UserOrNone, UserRequestSound

\* The directory starts with an empty table and an empty cache.
LEMMA DirectoryStart == DInit => DirectoryInv
<1> SUFFICES ASSUME DInit PROVE DirectoryInv OBVIOUS
<1>1. DirectoryTypes
  <2>1. dreq \in [DRequests -> Request] /\ \A r \in DRequests : UserRequestSound(dreq[r])
    BY IdleRequest DEF DInit
  <2>2. rows \in [DIds -> UserOrNone] /\ copies \in [DIds -> UserOrNone] /\ NoUsers \in [DIds -> UserOrNone]
    BY DEF DInit, NoUsers, UserOrNone
  <2>3. dlog \in Log
    BY <2>2 DEF DInit, Log
  <2> QED BY <2>1, <2>2, <2>3 DEF DInit, DirectoryTypes
<1>2. Drawn
  BY DEF DInit, Drawn, NoUsers, Idle
<1>3. \A i \in DIds : QuietRow(i)
  BY DirectoryConstants DEF DInit, QuietRow, NoUsers, Idle
<1>4. EmailsUnique
  BY DEF DInit, EmailsUnique, NoUsers
<1> QED BY <1>1, <1>2, <1>3, <1>4 DEF DirectoryInv

\* What the directory promises.
LEMMA DirectoryPromise == DirectoryInv => DTypeOK /\ UsersCurrent /\ EmailsUnique
<1> SUFFICES ASSUME DirectoryInv PROVE DTypeOK /\ UsersCurrent
  BY DEF DirectoryInv
<1>1. DTypeOK
  BY DEF DirectoryInv, DirectoryTypes, DTypeOK, Log, UserOrNone
<1>2. UsersCurrent
  BY DEF DirectoryInv, QuietRow, UsersCurrent
<1> QED BY <1>1, <1>2

\* A request that begins, goes on or answers.
LEMMA RequestsKept ==
  ASSUME DirectoryInv, UNCHANGED dset, NEW r \in DRequests, NEW v \in Request, UserRequestSound(v),
         dreq' = [dreq EXCEPT ![r] = v]
  PROVE  /\ dreq' \in [DRequests -> Request]
         /\ (\A q \in DRequests : UserRequestSound(dreq[q]))'
         /\ \A q \in DRequests : dreq'[q] = IF q = r THEN v ELSE dreq[q]
<1>1. dreq \in [DRequests -> Request] /\ \A q \in DRequests : UserRequestSound(dreq[q])
  BY DEF DirectoryInv, DirectoryTypes
<1>2. dreq' \in [DRequests -> Request] /\ \A q \in DRequests : dreq'[q] = IF q = r THEN v ELSE dreq[q]
  BY <1>1
<1>3. \A q \in DRequests : UserRequestSound(dreq'[q])
  BY <1>1, <1>2
<1>4. (\A q \in DRequests : UserRequestSound(dreq[q]))'
  BY <1>3 DEF UserRequestSound, Cached
<1> QED BY <1>2, <1>4

\* A request begins on ID i; if others are on it, that is noted.
LEMMA RequestBegins ==
  ASSUME DirectoryInv, UNCHANGED <<dset, rows, copies>>, NEW r \in DRequests, NEW i \in DIds,
         NEW v \in Request, UserRequestSound(v), dreq' = [dreq EXCEPT ![r] = v],
         dreq[r].pc = "idle", v.id = i \/ v = Idle, v.pc # "evict",
         v.pc = "fill" => v.user = rows[i],
         v.pc = "write" => v.op # "update" /\ (v.op = "create" => rows[i] = Unset),
         v.op = "create" => i \in dlog'.drawn,
         dlog' \in Log, dlog'.last = dlog.last, dlog.drawn \subseteq dlog'.drawn,
         dlog.raced \subseteq dlog'.raced, Others(r, i) # {} => i \in dlog'.raced
  PROVE  DirectoryInv'
<1>1. /\ dreq' \in [DRequests -> Request]
      /\ (\A q \in DRequests : UserRequestSound(dreq[q]))'
      /\ \A q \in DRequests : dreq'[q] = IF q = r THEN v ELSE dreq[q]
  BY RequestsKept
<1>2. DirectoryTypes'
  BY <1>1 DEF DirectoryInv, DirectoryTypes
<1>3. dreq[r] = Idle /\ dreq[r].id = Unset
  BY DEF DirectoryInv, DirectoryTypes, UserRequestSound, Idle
<1>4. Drawn'
  BY <1>1 DEF DirectoryInv, Drawn, Cached, Idle
<1>5. ASSUME NEW j \in DIds, j \notin dlog'.raced PROVE QuietRow(j)'
  <2>1. QuietRow(j) BY <1>5 DEF DirectoryInv
  <2>2. CASE v.id # j
    BY <1>1, <1>3, <2>1, <2>2, DirectoryConstants DEF QuietRow
  <2>3. CASE v.id = j
    <3>1. j = i BY <2>3, DirectoryConstants DEF Idle
    <3>2. \A q \in DRequests : dreq'[q].id = i => q = r
      BY <1>1, <1>5, <3>1 DEF Others
    <3>3. \A q \in DRequests : dreq[q].id # i
      BY <1>3, <1>5, <3>1, DirectoryConstants DEF Others
    <3>4. copies[i] # Unset => copies[i] = rows[i]
      BY <2>1, <3>1, <3>3 DEF QuietRow
    <3> QED BY <1>1, <2>1, <3>1, <3>2, <3>4 DEF QuietRow
  <2> QED BY <2>2, <2>3
<1>6. EmailsUnique'
  BY DEF DirectoryInv, EmailsUnique, EmailTaken
<1> QED BY <1>2, <1>4, <1>5, <1>6 DEF DirectoryInv

\* A request on ID i goes on: rows, copies and history change for i alone.
LEMMA GoesOnKeeps ==
  ASSUME DirectoryInv, UNCHANGED dset, NEW r \in DRequests, NEW i \in DIds, dreq[r].id = i,
         NEW v \in Request, UserRequestSound(v), dreq' = [dreq EXCEPT ![r] = v], v.id = i \/ v = Idle,
         v.op = "create" => dreq[r].op = "create",
         rows' \in [DIds -> UserOrNone], copies' \in [DIds -> UserOrNone], dlog' \in Log,
         \A j \in DIds \ {i} : rows'[j] = rows[j] /\ copies'[j] = copies[j] /\ dlog'.last[j] = dlog.last[j],
         dlog'.drawn = dlog.drawn, dlog.raced \subseteq dlog'.raced,
         rows'[i] # Unset => i \in dlog.drawn /\ dlog'.last[i] \in User, ~Cached => copies'[i] = Unset,
         i \notin dlog'.raced =>
           /\ rows'[i] = dlog'.last[i]
           /\ v.pc = "fill" \/ (v.pc = "write" /\ v.op = "update") => v.user = rows'[i]
           /\ v.pc = "write" /\ v.op = "create" => rows'[i] = Unset
           /\ copies'[i] # Unset /\ v.pc # "evict" => copies'[i] = rows'[i],
         EmailsUnique'
  PROVE  DirectoryInv'
<1>1. /\ dreq' \in [DRequests -> Request]
      /\ (\A q \in DRequests : UserRequestSound(dreq[q]))'
      /\ \A q \in DRequests : dreq'[q] = IF q = r THEN v ELSE dreq[q]
  BY RequestsKept
<1>2. DirectoryTypes'
  BY <1>1 DEF DirectoryInv, DirectoryTypes
<1>4. Drawn'
  <2>1. (\A j \in DIds : rows[j] # Unset => j \in dlog.drawn /\ dlog.last[j] \in User)'
    BY DEF DirectoryInv, Drawn
  <2>2. (\A q \in DRequests : dreq[q].op = "create" => dreq[q].id \in dlog.drawn)'
    BY <1>1 DEF DirectoryInv, Drawn, Idle
  <2>3. (~Cached => \A j \in DIds : copies[j] = Unset)'
    BY DEF DirectoryInv, Drawn, Cached
  <2> QED BY <2>1, <2>2, <2>3 DEF Drawn
<1>5. ASSUME NEW j \in DIds, j \notin dlog'.raced PROVE QuietRow(j)'
  <2>1. QuietRow(j) BY <1>5 DEF DirectoryInv
  <2>2. CASE j # i
    <3>1. v.id # j BY <2>2, DirectoryConstants DEF Idle
    <3> QED BY <1>1, <2>1, <2>2, <3>1 DEF QuietRow
  <2>3. CASE j = i
    <3>1. \A q \in DRequests : dreq'[q].id = i => q = r
      BY <1>1, <2>1, <2>3 DEF QuietRow
    <3>2. v.id # i => v.pc # "evict"
      BY DEF Idle
    <3>3. (\A q \in DRequests : dreq'[q].id = i => dreq'[q].pc # "evict") => v.pc # "evict"
      BY <1>1, <3>2
    <3> QED BY <1>1, <1>5, <2>3, <3>1, <3>3 DEF QuietRow
  <2> QED BY <2>2, <2>3
<1> QED BY <1>2, <1>4, <1>5 DEF DirectoryInv

\* The log of a request that begins on an ID.
LEMMA BeginLog ==
  ASSUME DirectoryInv, NEW i \in DIds, NEW d, d \in {dlog.drawn, dlog.drawn \cup {i}}, NEW c, c \in BOOLEAN,
         dlog' = [dlog EXCEPT !.calls = @ + 1, !.drawn = d, !.raced = IF c THEN @ \cup {i} ELSE @]
  PROVE  /\ dlog' \in Log /\ dlog'.last = dlog.last /\ dlog'.drawn = d
         /\ dlog.drawn \subseteq dlog'.drawn /\ dlog.raced \subseteq dlog'.raced
         /\ c => i \in dlog'.raced
<1>1. dlog \in Log BY DEF DirectoryInv, DirectoryTypes
<1>2. dlog.calls + 1 \in Nat /\ d \in SUBSET DIds /\ dlog.raced \cup {i} \in SUBSET DIds /\ dlog.drawn \subseteq d
  BY <1>1 DEF Log
<1> DEFINE n == dlog.calls + 1
<1> DEFINE x == IF c THEN dlog.raced \cup {i} ELSE dlog.raced
<1>3. x \in SUBSET DIds /\ dlog.raced \subseteq x /\ (c => i \in x)
  BY <1>1, <1>2 DEF Log
<1>4. dlog' = [dlog EXCEPT !.calls = n, !.drawn = d, !.raced = x]
  OBVIOUS
<1> HIDE DEF n, x
<1>5. n \in Nat BY <1>2 DEF n
<1> QED BY <1>1, <1>2, <1>3, <1>4, <1>5 DEF Log

\* A create begins with a drawn identifier.
LEMMA HandleCreateKeeps ==
  ASSUME DirectoryInv, NEW r \in DRequests, NEW i \in DIds, NEW n \in DNames, NEW e \in DEmails,
         HandleCreate(r, i, n, e)
  PROVE  DirectoryInv'
<1> DEFINE v == [Idle EXCEPT !.op = "create", !.pc = "write", !.id = i, !.name = n, !.email = e]
<1>1. v \in Request /\ UserRequestSound(v) /\ v.id = i /\ v.pc = "write" /\ v.op = "create"
  BY DEF Request, UserOrNone, UserRequestSound, Idle
<1>2. dreq[r].pc = "idle" /\ dreq' = [dreq EXCEPT ![r] = v] /\ UNCHANGED <<dset, rows, copies>>
  BY DEF HandleCreate
<1> HIDE DEF v
<1> DEFINE d == dlog.drawn \cup {i}
<1> DEFINE c == Others(r, i) # {}
<1>3. dlog' = [dlog EXCEPT !.calls = @ + 1, !.drawn = d, !.raced = IF c THEN @ \cup {i} ELSE @]
  BY DEF HandleCreate
<1>4. d \in {dlog.drawn, dlog.drawn \cup {i}} /\ c \in BOOLEAN OBVIOUS
<1>5. i \in d OBVIOUS
<1>6. /\ dlog' \in Log /\ dlog'.last = dlog.last /\ dlog'.drawn = d
      /\ dlog.drawn \subseteq dlog'.drawn /\ dlog.raced \subseteq dlog'.raced
      /\ c => i \in dlog'.raced
  <2> HIDE DEF c, d
  <2> QED BY <1>3, <1>4, BeginLog
<1>7. rows[i] = Unset
  BY DEF HandleCreate, DirectoryInv, Drawn
<1> HIDE DEF d
<1> QED BY <1>1, <1>2, <1>5, <1>6, <1>7, RequestBegins

\* A get, an update or a delete begins for an identifier.
LEMMA HandleRequestKeeps ==
  ASSUME DirectoryInv, NEW r \in DRequests, NEW op \in {"get", "update", "delete"}, NEW i \in DIds,
         NEW n \in DNames \cup {Unset}, NEW e \in DEmails \cup {Unset}, HandleRequest(r, op, i, n, e)
  PROVE  DirectoryInv'
<1> DEFINE p == IF op = "delete" THEN "write" ELSE IF Cached THEN "peek" ELSE "read"
<1> DEFINE v == [Idle EXCEPT !.op = op, !.id = i, !.name = n, !.email = e, !.pc = p]
<1>1. v \in Request /\ UserRequestSound(v) /\ v.id = i /\ v.pc = p /\ v.op = op
  BY DEF Request, UserOrNone, UserRequestSound, Idle
<1>2. dreq[r].pc = "idle" /\ dreq' = [dreq EXCEPT ![r] = v] /\ UNCHANGED <<dset, rows, copies>>
  BY DEF HandleRequest
<1> HIDE DEF v
<1> DEFINE d == dlog.drawn
<1> DEFINE c == Others(r, i) # {}
<1>3. dlog' = [dlog EXCEPT !.calls = @ + 1, !.drawn = d, !.raced = IF c THEN @ \cup {i} ELSE @]
  BY DEF HandleRequest, DirectoryInv, DirectoryTypes, Log
<1>4. d \in {dlog.drawn, dlog.drawn \cup {i}} /\ c \in BOOLEAN OBVIOUS
<1>6. /\ dlog' \in Log /\ dlog'.last = dlog.last /\ dlog'.drawn = d
      /\ dlog.drawn \subseteq dlog'.drawn /\ dlog.raced \subseteq dlog'.raced
      /\ c => i \in dlog'.raced
  <2> HIDE DEF c, d
  <2> QED BY <1>3, <1>4, BeginLog
<1> HIDE DEF d
<1>7. p # "fill" /\ p # "evict" /\ (p = "write" => op = "delete")
  OBVIOUS
<1> QED BY <1>1, <1>2, <1>6, <1>7, RequestBegins

\* A lookup by address begins with a row that has it.
LEMMA FindByEmailKeeps ==
  ASSUME DirectoryInv, NEW r \in DRequests, NEW e \in DEmails, FindByEmail(r, e)
  PROVE  DirectoryInv'
<1>1. PICK i \in DIds :
        /\ rows[i] # Unset /\ rows[i].email = e
        /\ dlog' = [dlog EXCEPT !.calls = @ + 1, !.raced = IF Others(r, i) # {} THEN @ \cup {i} ELSE @]
        /\ dreq' = [dreq EXCEPT ![r] = IF Cached
             THEN [Idle EXCEPT !.op = "get", !.pc = "fill", !.id = i, !.user = rows[i]] ELSE Idle]
  BY DEF FindByEmail
<1> DEFINE v == IF Cached THEN [Idle EXCEPT !.op = "get", !.pc = "fill", !.id = i, !.user = rows[i]] ELSE Idle
<1>2. rows[i] \in User
  BY <1>1 DEF DirectoryInv, DirectoryTypes, UserOrNone
<1>3. v \in Request /\ UserRequestSound(v) /\ v.pc # "evict" /\ v.pc # "write" /\ v.op # "create"
      /\ (v.id = i \/ v = Idle) /\ (v.pc = "fill" => v.user = rows[i])
  BY <1>2, IdleRequest DEF Request, UserOrNone, UserRequestSound, Idle
<1>4. dreq[r].pc = "idle" /\ dreq' = [dreq EXCEPT ![r] = v] /\ UNCHANGED <<dset, rows, copies>>
  BY <1>1 DEF FindByEmail
<1> HIDE DEF v
<1> DEFINE d == dlog.drawn
<1> DEFINE c == Others(r, i) # {}
<1>5. dlog' = [dlog EXCEPT !.calls = @ + 1, !.drawn = d, !.raced = IF c THEN @ \cup {i} ELSE @]
  BY <1>1 DEF DirectoryInv, DirectoryTypes, Log
<1>6. d \in {dlog.drawn, dlog.drawn \cup {i}} /\ c \in BOOLEAN OBVIOUS
<1>7. /\ dlog' \in Log /\ dlog'.last = dlog.last /\ dlog'.drawn = d
      /\ dlog.drawn \subseteq dlog'.drawn /\ dlog.raced \subseteq dlog'.raced
      /\ c => i \in dlog'.raced
  <2> HIDE DEF c, d
  <2> QED BY <1>5, <1>6, BeginLog
<1> HIDE DEF d
<1> QED BY <1>3, <1>4, <1>7, RequestBegins

\* A request that has begun: where it stands, and what it knows of a quiet row.
LEMMA Underway ==
  ASSUME DirectoryInv, NEW r \in DRequests, dreq[r].pc # "idle"
  PROVE  /\ dreq[r] \in Request /\ UserRequestSound(dreq[r]) /\ dreq[r].id \in DIds
         /\ rows[dreq[r].id] # Unset => dreq[r].id \in dlog.drawn /\ dlog.last[dreq[r].id] \in User
         /\ ~Cached => copies[dreq[r].id] = Unset
         /\ dreq[r].op = "create" => dreq[r].id \in dlog.drawn
         /\ dreq[r].id \notin dlog.raced =>
              /\ rows[dreq[r].id] = dlog.last[dreq[r].id]
              /\ dreq[r].pc = "fill" \/ (dreq[r].pc = "write" /\ dreq[r].op = "update")
                   => dreq[r].user = rows[dreq[r].id]
              /\ dreq[r].pc = "write" /\ dreq[r].op = "create" => rows[dreq[r].id] = Unset
              /\ copies[dreq[r].id] # Unset /\ dreq[r].pc # "evict" => copies[dreq[r].id] = rows[dreq[r].id]
<1>1. dreq[r] \in Request /\ UserRequestSound(dreq[r]) /\ dreq[r].id \in DIds
  BY DEF DirectoryInv, DirectoryTypes, UserRequestSound
<1>2. /\ rows[dreq[r].id] # Unset => dreq[r].id \in dlog.drawn /\ dlog.last[dreq[r].id] \in User
      /\ ~Cached => copies[dreq[r].id] = Unset
      /\ dreq[r].op = "create" => dreq[r].id \in dlog.drawn
  BY <1>1 DEF DirectoryInv, Drawn
<1>3. ASSUME dreq[r].id \notin dlog.raced
      PROVE  /\ rows[dreq[r].id] = dlog.last[dreq[r].id]
             /\ dreq[r].pc = "fill" \/ (dreq[r].pc = "write" /\ dreq[r].op = "update")
                   => dreq[r].user = rows[dreq[r].id]
             /\ dreq[r].pc = "write" /\ dreq[r].op = "create" => rows[dreq[r].id] = Unset
             /\ copies[dreq[r].id] # Unset /\ dreq[r].pc # "evict" => copies[dreq[r].id] = rows[dreq[r].id]
  <2>1. QuietRow(dreq[r].id) BY <1>1, <1>3 DEF DirectoryInv
  <2>2. \A q \in DRequests : dreq[q].id = dreq[r].id => q = r
    BY <2>1 DEF QuietRow
  <2> QED BY <2>1, <2>2 DEF QuietRow
<1> QED BY <1>1, <1>2, <1>3

\* Steps that change nothing but the request itself.
LEMMA ReadsKeep ==
  ASSUME DirectoryInv, NEW r \in DRequests, dreq[r].pc # "idle", UNCHANGED <<dset, rows, copies, dlog>>,
         NEW v \in Request, UserRequestSound(v), dreq' = [dreq EXCEPT ![r] = v],
         v.id = dreq[r].id \/ v = Idle, v.op = "create" => dreq[r].op = "create",
         dreq[r].id \notin dlog.raced =>
           /\ v.pc = "fill" \/ (v.pc = "write" /\ v.op = "update") => v.user = rows[dreq[r].id]
           /\ v.pc = "write" => v.op # "create",
         dreq[r].pc # "evict"
  PROVE  DirectoryInv'
<1> DEFINE i == dreq[r].id
<1>1. /\ i \in DIds /\ (rows[i] # Unset => i \in dlog.drawn /\ dlog.last[i] \in User) /\ (~Cached => copies[i] = Unset)
      /\ i \notin dlog.raced =>
           /\ rows[i] = dlog.last[i]
           /\ copies[i] # Unset => copies[i] = rows[i]
  BY Underway
<1>2. rows \in [DIds -> UserOrNone] /\ copies \in [DIds -> UserOrNone] /\ dlog \in Log
  BY DEF DirectoryInv, DirectoryTypes
<1>3. EmailsUnique' BY DEF DirectoryInv, EmailsUnique, EmailTaken
<1> QED BY <1>1, <1>2, <1>3, GoesOnKeeps

\* The cache answers with a copy, or the request goes on to the database.
LEMMA PeekKeeps ==
  ASSUME DirectoryInv, NEW r \in DRequests, Peek(r) PROVE DirectoryInv'
<1> DEFINE i == dreq[r].id
<1> DEFINE x == copies[i]
<1>1. dreq[r].pc = "peek" /\ UNCHANGED <<dset, rows, copies, dlog>> BY DEF Peek
<1>2. /\ dreq[r] \in Request /\ UserRequestSound(dreq[r]) /\ i \in DIds
      /\ i \notin dlog.raced => (x # Unset => x = rows[i])
  BY <1>1, Underway
<1>3. dreq[r].op \in {"get", "update"} /\ Cached BY <1>1, <1>2 DEF UserRequestSound
<1>4. x \in UserOrNone BY <1>2 DEF DirectoryInv, DirectoryTypes
<1>5. CASE x = Unset
  <2> DEFINE v == [dreq[r] EXCEPT !.pc = "read"]
  <2>1. dreq' = [dreq EXCEPT ![r] = v] BY <1>5 DEF Peek, DirectoryInv, DirectoryTypes
  <2>2. v \in Request /\ v.pc = "read" /\ v.id = i /\ v.op = dreq[r].op
    BY <1>2 DEF Request
  <2>3. UserRequestSound(v) BY <1>2, <1>3, <2>2 DEF UserRequestSound
  <2> HIDE DEF v
  <2> QED BY <1>1, <2>1, <2>2, <2>3, <1>3, ReadsKeep
<1>6. CASE x # Unset /\ dreq[r].op = "get"
  <2>1. dreq' = [dreq EXCEPT ![r] = Idle] BY <1>6 DEF Peek, Got
  <2>2. Idle.pc = "idle" /\ Idle.op = "none" BY DEF Idle
  <2> QED BY <1>1, <2>1, <2>2, IdleRequest, ReadsKeep
<1>7. CASE x # Unset /\ dreq[r].op = "update"
  <2> DEFINE v == [dreq[r] EXCEPT !.user = x, !.pc = "write"]
  <2>1. dreq' = [dreq EXCEPT ![r] = v] BY <1>7 DEF Peek, Got
  <2>2. v \in Request /\ v.pc = "write" /\ v.id = i /\ v.op = "update" /\ v.user = x
    BY <1>2, <1>4, <1>7 DEF Request
  <2>3. UserRequestSound(v) BY <1>2, <1>4, <1>7, <2>2 DEF UserRequestSound, UserOrNone
  <2> HIDE DEF v
  <2> QED BY <1>1, <1>2, <1>7, <2>1, <2>2, <2>3, ReadsKeep
<1> QED BY <1>3, <1>5, <1>6, <1>7

\* The database answers with the row as it is.
LEMMA FindByIDKeeps ==
  ASSUME DirectoryInv, NEW r \in DRequests, FindByID(r) PROVE DirectoryInv'
<1> DEFINE i == dreq[r].id
<1> DEFINE x == rows[i]
<1>1. dreq[r].pc = "read" /\ UNCHANGED <<dset, rows, copies, dlog>> BY DEF FindByID
<1>2. dreq[r] \in Request /\ UserRequestSound(dreq[r]) /\ i \in DIds
  BY <1>1, Underway
<1>3. dreq[r].op \in {"get", "update"} BY <1>1, <1>2 DEF UserRequestSound
<1>4. x \in UserOrNone BY <1>2 DEF DirectoryInv, DirectoryTypes
<1>5. CASE x = Unset \/ (~Cached /\ dreq[r].op = "get")
  <2>1. dreq' = [dreq EXCEPT ![r] = Idle] BY <1>5 DEF FindByID, Got
  <2>2. Idle.pc = "idle" /\ Idle.op = "none" BY DEF Idle
  <2> QED BY <1>1, <2>1, <2>2, IdleRequest, ReadsKeep
<1>6. CASE x # Unset /\ Cached
  <2> DEFINE v == [dreq[r] EXCEPT !.user = x, !.pc = "fill"]
  <2>1. dreq' = [dreq EXCEPT ![r] = v] BY <1>6 DEF FindByID, DirectoryInv, DirectoryTypes
  <2>2. v \in Request /\ v.pc = "fill" /\ v.id = i /\ v.op = dreq[r].op /\ v.user = x
    BY <1>2, <1>4 DEF Request
  <2>3. UserRequestSound(v) BY <1>2, <1>3, <1>4, <1>6, <2>2 DEF UserRequestSound, UserOrNone
  <2> HIDE DEF v
  <2> QED BY <1>1, <1>3, <2>1, <2>2, <2>3, ReadsKeep
<1>7. CASE x # Unset /\ ~Cached /\ dreq[r].op = "update"
  <2> DEFINE v == [dreq[r] EXCEPT !.user = x, !.pc = "write"]
  <2>1. dreq' = [dreq EXCEPT ![r] = v] BY <1>7 DEF FindByID, Got
  <2>2. v \in Request /\ v.pc = "write" /\ v.id = i /\ v.op = "update" /\ v.user = x
    BY <1>2, <1>4, <1>7 DEF Request
  <2>3. UserRequestSound(v) BY <1>2, <1>4, <1>7, <2>2 DEF UserRequestSound, UserOrNone
  <2> HIDE DEF v
  <2> QED BY <1>1, <2>1, <2>2, <2>3, ReadsKeep
<1> QED BY <1>3, <1>5, <1>6, <1>7

\* What a request that went on leaves, for the lemma GoesOnKeeps.
LEMMA NextRequest ==
  ASSUME NEW q \in Request, UserRequestSound(q), q.pc # "idle", NEW p,
         \/ p = "write" /\ q.pc = "fill" /\ q.op = "update"
         \/ p = "evict" /\ Cached
         \/ p = "read" /\ q.pc = "peek"
  PROVE  /\ [q EXCEPT !.pc = p] \in Request /\ UserRequestSound([q EXCEPT !.pc = p])
         /\ [q EXCEPT !.pc = p].id = q.id /\ [q EXCEPT !.pc = p].op = q.op
         /\ [q EXCEPT !.pc = p].user = q.user /\ [q EXCEPT !.pc = p].pc = p
<1>1. p \in {"write", "evict", "read"} OBVIOUS
<1> DEFINE v == [q EXCEPT !.pc = p]
<1>2. v \in Request /\ v.id = q.id /\ v.op = q.op /\ v.user = q.user /\ v.pc = p
      /\ v.name = q.name /\ v.email = q.email
  BY <1>1 DEF Request
<1> HIDE DEF v
<1>3. UserRequestSound(v) BY <1>2 DEF UserRequestSound
<1> QED BY <1>2, <1>3 DEF v

\* The user that was read goes into the cache.
LEMMA FillKeeps ==
  ASSUME DirectoryInv, NEW r \in DRequests, Fill(r) PROVE DirectoryInv'
<1> DEFINE i == dreq[r].id
<1> DEFINE x == dreq[r].user
<1>1. dreq[r].pc = "fill" /\ UNCHANGED <<dset, rows, dlog>> /\ copies' = [copies EXCEPT ![i] = x] BY DEF Fill
<1>2. /\ dreq[r] \in Request /\ UserRequestSound(dreq[r]) /\ i \in DIds
      /\ (rows[i] # Unset => i \in dlog.drawn /\ dlog.last[i] \in User)
      /\ i \notin dlog.raced => rows[i] = dlog.last[i] /\ x = rows[i]
  BY <1>1, Underway
<1>3. dreq[r].op \in {"create", "get", "update"} /\ Cached /\ x \in User BY <1>1, <1>2 DEF UserRequestSound
<1>4. /\ rows \in [DIds -> UserOrNone] /\ dlog \in Log /\ copies' \in [DIds -> UserOrNone]
      /\ copies'[i] = x /\ \A j \in DIds \ {i} : copies'[j] = copies[j]
  BY <1>1, <1>2, <1>3 DEF DirectoryInv, DirectoryTypes, UserOrNone
<1>5. EmailsUnique' BY <1>1 DEF DirectoryInv, EmailsUnique, EmailTaken
<1>6. \E v \in Request :
        /\ UserRequestSound(v) /\ dreq' = [dreq EXCEPT ![r] = v] /\ (v.id = i \/ v = Idle)
        /\ v.op # "create" /\ v.pc \in {"idle", "write"}
        /\ v.pc = "write" => v.op = "update" /\ v.user = x
  <2>1. CASE dreq[r].op # "update"
    <3>1. dreq' = [dreq EXCEPT ![r] = Idle] BY <1>3, <2>1 DEF Fill, Got
    <3>2. Idle.op = "none" /\ Idle.pc = "idle" BY DEF Idle
    <3> QED BY <3>1, <3>2, IdleRequest
  <2>2. CASE dreq[r].op = "update"
    <3> DEFINE v == [dreq[r] EXCEPT !.pc = "write"]
    <3>1. [dreq[r] EXCEPT !.user = dreq[r].user, !.pc = "write"] = v
      BY <1>2 DEF Request
    <3>2. dreq' = [dreq EXCEPT ![r] = v] BY <2>2, <3>1 DEF Fill, Got
    <3>3. v \in Request /\ UserRequestSound(v) /\ v.id = i /\ v.op = "update" /\ v.user = x /\ v.pc = "write"
      <4>1. dreq[r].pc # "idle" BY <1>1
      <4> QED BY ONLY <1>1, <1>2, <2>2, <4>1, NextRequest
    <3> HIDE DEF v
    <3> QED BY <3>2, <3>3
  <2> QED BY <2>1, <2>2
<1>7. PICK v \in Request :
        /\ UserRequestSound(v) /\ dreq' = [dreq EXCEPT ![r] = v] /\ (v.id = i \/ v = Idle)
        /\ v.op # "create" /\ v.pc \in {"idle", "write"}
        /\ v.pc = "write" => v.op = "update" /\ v.user = x
  BY <1>6
<1> QED BY <1>1, <1>2, <1>3, <1>4, <1>5, <1>7, GoesOnKeeps

\* A write is followed by the removal of the copy.
LEMMA EvictKeeps ==
  ASSUME DirectoryInv, NEW r \in DRequests, Evict(r) PROVE DirectoryInv'
<1> DEFINE i == dreq[r].id
<1>1. /\ dreq[r].pc = "evict" /\ UNCHANGED <<dset, rows, dlog>> /\ copies' = [copies EXCEPT ![i] = Unset]
      /\ dreq' = [dreq EXCEPT ![r] = Idle]
  BY DEF Evict, Answers
<1>2. /\ i \in DIds /\ (rows[i] # Unset => i \in dlog.drawn /\ dlog.last[i] \in User)
      /\ i \notin dlog.raced => rows[i] = dlog.last[i]
  BY <1>1, Underway
<1>3. /\ rows \in [DIds -> UserOrNone] /\ dlog \in Log /\ copies' \in [DIds -> UserOrNone]
      /\ copies'[i] = Unset /\ \A j \in DIds \ {i} : copies'[j] = copies[j]
  BY <1>1, <1>2 DEF DirectoryInv, DirectoryTypes, UserOrNone
<1>4. EmailsUnique' BY <1>1 DEF DirectoryInv, EmailsUnique, EmailTaken
<1>5. Idle.op = "none" /\ Idle.pc = "idle" BY DEF Idle
<1> QED BY <1>1, <1>2, <1>3, <1>4, <1>5, IdleRequest, GoesOnKeeps

\* A failing cache is passed over.
LEMMA CacheFailsKeeps ==
  ASSUME DirectoryInv, NEW r \in DRequests, CacheFails(r) PROVE DirectoryInv'
<1> DEFINE i == dreq[r].id
<1> DEFINE x == IF dreq[r].pc = "evict" THEN dlog.raced \cup {i} ELSE dlog.raced
<1> DEFINE n == dlog.faults + 1
<1>1. /\ dreq[r].pc \in {"peek", "fill", "evict"} /\ UNCHANGED <<dset, rows, copies>>
      /\ dlog' = [dlog EXCEPT !.faults = n, !.raced = x]
  BY DEF CacheFails
<1>2. /\ dreq[r] \in Request /\ UserRequestSound(dreq[r]) /\ i \in DIds
      /\ (rows[i] # Unset => i \in dlog.drawn /\ dlog.last[i] \in User) /\ (~Cached => copies[i] = Unset)
      /\ i \notin dlog.raced =>
           /\ rows[i] = dlog.last[i]
           /\ dreq[r].pc = "fill" => dreq[r].user = rows[i]
           /\ copies[i] # Unset /\ dreq[r].pc # "evict" => copies[i] = rows[i]
  BY <1>1, Underway
<1>3. dlog \in Log /\ rows \in [DIds -> UserOrNone] /\ copies \in [DIds -> UserOrNone]
  BY DEF DirectoryInv, DirectoryTypes
<1>4. x \in SUBSET DIds /\ dlog.raced \subseteq x /\ (dreq[r].pc = "evict" => i \in x) /\ n \in Nat
  BY <1>2, <1>3 DEF Log
<1> HIDE DEF x, n
<1>5. dlog' \in Log /\ dlog'.last = dlog.last /\ dlog'.drawn = dlog.drawn /\ dlog'.raced = x
  BY <1>1, <1>3, <1>4 DEF Log
<1>6. EmailsUnique' BY <1>1 DEF DirectoryInv, EmailsUnique, EmailTaken
<1>0. CASE dreq[r].pc = "peek"
  <2> DEFINE v == [dreq[r] EXCEPT !.pc = "read"]
  <2>1. dreq' = [dreq EXCEPT ![r] = v] BY <1>0 DEF CacheFails, DirectoryInv, DirectoryTypes
  <2>2. v \in Request /\ UserRequestSound(v) /\ v.id = i /\ v.op = dreq[r].op /\ v.user = dreq[r].user /\ v.pc = "read"
    <3>1. dreq[r].pc # "idle" BY <1>0
    <3>2. dreq[r].op \in {"get", "update"} BY <1>0, <1>2 DEF UserRequestSound
    <3> QED BY ONLY <1>2, <1>0, <3>1, <3>2, NextRequest
  <2> HIDE DEF v
  <2>3. v.op # "create" BY <1>0, <1>2, <2>2 DEF UserRequestSound
  <2> QED BY <1>1, <1>2, <1>3, <1>4, <1>5, <1>6, <1>0, <2>1, <2>2, <2>3, GoesOnKeeps
<1>7. CASE dreq[r].pc = "fill" /\ dreq[r].op = "update"
  <2> DEFINE v == [dreq[r] EXCEPT !.pc = "write"]
  <2>1. dreq' = [dreq EXCEPT ![r] = v] BY <1>7 DEF CacheFails, DirectoryInv, DirectoryTypes
  <2>2. v \in Request /\ UserRequestSound(v) /\ v.id = i /\ v.op = "update" /\ v.user = dreq[r].user /\ v.pc = "write"
    <3>1. dreq[r].pc # "idle" BY <1>7
    <3> QED BY ONLY <1>2, <1>7, <3>1, NextRequest
  <2> HIDE DEF v
  <2> QED BY <1>1, <1>2, <1>3, <1>4, <1>5, <1>6, <1>7, <2>1, <2>2, GoesOnKeeps
<1>8. CASE dreq[r].pc # "peek" /\ ~(dreq[r].pc = "fill" /\ dreq[r].op = "update")
  <2>1. dreq' = [dreq EXCEPT ![r] = Idle] BY <1>8 DEF CacheFails
  <2>2. Idle.op = "none" /\ Idle.pc = "idle" BY DEF Idle
  <2> QED BY <1>1, <1>2, <1>3, <1>4, <1>5, <1>6, <2>1, <2>2, IdleRequest, GoesOnKeeps
<1> QED BY <1>0, <1>7, <1>8

\* The history of the fields last acknowledged, after a write of one row.
LEMMA LastWritten ==
  ASSUME dlog \in Log, NEW i \in DIds, NEW u \in UserOrNone, dlog' = [dlog EXCEPT !.last[i] = u]
  PROVE  /\ dlog' \in Log /\ dlog'.drawn = dlog.drawn /\ dlog'.raced = dlog.raced
         /\ dlog'.last[i] = u /\ \A j \in DIds \ {i} : dlog'.last[j] = dlog.last[j]
<1> DEFINE l == [dlog.last EXCEPT ![i] = u]
<1>1. l \in [DIds -> UserOrNone] /\ l[i] = u /\ \A j \in DIds \ {i} : l[j] = dlog.last[j]
  BY DEF Log
<1>2. dlog' = [dlog EXCEPT !.last = l]
  OBVIOUS
<1> HIDE DEF l
<1> QED BY <1>1, <1>2 DEF Log

\* Writing an address that no other row has keeps the addresses apart.
LEMMA AddressFree ==
  ASSUME EmailsUnique, rows \in [DIds -> UserOrNone], UNCHANGED dset, NEW i \in DIds, NEW u,
         rows' = [rows EXCEPT ![i] = u], dset.repo # "memory" => ~EmailTaken(i, u.email)
  PROVE  EmailsUnique'
<1> SUFFICES ASSUME dset.repo # "memory", NEW j \in DIds, NEW k \in DIds \ {j},
                    rows'[j] # Unset, rows'[k] # Unset, rows'[k].email = rows'[j].email
             PROVE FALSE
  BY DEF EmailsUnique, EmailTaken
<1>1. rows'[i] = u /\ \A m \in DIds \ {i} : rows'[m] = rows[m] OBVIOUS
<1>2. CASE j = i BY <1>1, <1>2 DEF EmailTaken
<1>3. CASE k = i BY <1>1, <1>3 DEF EmailTaken
<1>4. CASE j # i /\ k # i BY <1>1, <1>4 DEF EmailsUnique, EmailTaken
<1> QED BY <1>2, <1>3, <1>4

\* A row is inserted under an address nobody has.
LEMMA InsertRowKeeps ==
  ASSUME DirectoryInv, NEW r \in DRequests, InsertRow(r) PROVE DirectoryInv'
<1> DEFINE i == dreq[r].id
<1> DEFINE u == [name |-> dreq[r].name, email |-> dreq[r].email]
<1> DEFINE ok == ~EmailTaken(i, dreq[r].email)
<1>1. dreq[r].pc = "write" /\ dreq[r].op = "create" /\ UNCHANGED <<dset, copies>> BY DEF InsertRow
<1>2. /\ dreq[r] \in Request /\ UserRequestSound(dreq[r]) /\ i \in DIds /\ i \in dlog.drawn
      /\ (rows[i] # Unset => dlog.last[i] \in User)
      /\ (~Cached => copies[i] = Unset)
      /\ i \notin dlog.raced => /\ rows[i] = dlog.last[i] /\ rows[i] = Unset
                                /\ copies[i] # Unset => copies[i] = rows[i]
  BY <1>1, Underway
<1>3. u \in User /\ u \in UserOrNone /\ u.email = dreq[r].email
  BY <1>1, <1>2 DEF UserRequestSound, User, UserOrNone
<1>4. /\ rows \in [DIds -> UserOrNone] /\ dlog \in Log /\ copies' \in [DIds -> UserOrNone]
      /\ \A j \in DIds : copies'[j] = copies[j]
  BY <1>1 DEF DirectoryInv, DirectoryTypes
<1>5. Idle.op = "none" /\ Idle.pc = "idle" BY DEF Idle
<1>6. CASE ~ok
  <2>1. UNCHANGED <<rows, dlog>> /\ dreq' = [dreq EXCEPT ![r] = Idle]
    BY <1>6 DEF InsertRow, Answers
  <2>2. EmailsUnique' BY <1>1, <2>1 DEF DirectoryInv, EmailsUnique, EmailTaken
  <2> HIDE DEF u
  <2> QED BY <1>1, <1>2, <1>4, <1>5, <2>1, <2>2, IdleRequest, GoesOnKeeps
<1>7. CASE ok
  <2>1. /\ rows' = [rows EXCEPT ![i] = u] /\ dlog' = [dlog EXCEPT !.last[i] = u]
        /\ Cached => dreq' = [dreq EXCEPT ![r].pc = "fill", ![r].user = u]
        /\ ~Cached => dreq' = [dreq EXCEPT ![r] = Idle]
    BY <1>7 DEF InsertRow, Answers
  <2> HIDE DEF u
  <2>2. /\ rows' \in [DIds -> UserOrNone] /\ rows'[i] = u /\ \A j \in DIds \ {i} : rows'[j] = rows[j]
    BY <1>2, <1>3, <1>4, <2>1
  <2>3. /\ dlog' \in Log /\ dlog'.drawn = dlog.drawn /\ dlog'.raced = dlog.raced
        /\ dlog'.last[i] = u /\ \A j \in DIds \ {i} : dlog'.last[j] = dlog.last[j]
    BY <1>2, <1>3, <1>4, <2>1, LastWritten
  <2>4. EmailsUnique'
    <3>1. EmailsUnique BY DEF DirectoryInv
    <3>2. ~EmailTaken(i, u.email) BY <1>3, <1>7
    <3> QED BY ONLY <1>1, <1>2, <1>4, <2>1, <3>1, <3>2, AddressFree
  <2>5. CASE Cached
    <3> DEFINE v == [dreq[r] EXCEPT !.pc = "fill", !.user = u]
    <3>1. dreq' = [dreq EXCEPT ![r] = v] BY <2>1, <2>5 DEF DirectoryInv, DirectoryTypes
    <3>2. v \in Request /\ v.pc = "fill" /\ v.user = u /\ v.id = i /\ v.op = "create"
      BY <1>1, <1>2, <1>3 DEF Request
    <3>3. UserRequestSound(v) BY <1>2, <1>3, <2>5, <3>2 DEF UserRequestSound
    <3> HIDE DEF v
    <3>4. dlog'.raced = dlog.raced /\ (i \notin dlog.raced => copies'[i] = Unset)
      BY <1>2, <1>4, <2>3
    <3> HIDE DEF ok, i
    <3>5. r \in DRequests /\ dreq[r].id = i /\ dreq[r].op = "create" BY <1>1 DEF i
    <3>6. /\ \A j \in DIds \ {i} : rows'[j] = rows[j] /\ copies'[j] = copies[j] /\ dlog'.last[j] = dlog.last[j]
          /\ i \in DIds /\ UNCHANGED dset
          /\ dlog.raced \subseteq dlog'.raced /\ (rows'[i] # Unset => i \in dlog.drawn /\ dlog'.last[i] \in User)
          /\ ~Cached => copies'[i] = Unset
      BY <1>1, <1>2, <1>3, <1>4, <2>2, <2>3, <3>5 DEF i
    <3>7. i \notin dlog'.raced =>
           /\ rows'[i] = dlog'.last[i]
           /\ v.pc = "fill" \/ (v.pc = "write" /\ v.op = "update") => v.user = rows'[i]
           /\ v.pc = "write" /\ v.op = "create" => rows'[i] = Unset
           /\ copies'[i] # Unset /\ v.pc # "evict" => copies'[i] = rows'[i]
      BY <2>2, <2>3, <3>2, <3>4
    <3> QED BY ONLY DirectoryInv, <1>4, <2>2, <2>3, <2>4, <3>1, <3>2, <3>3, <3>5, <3>6, <3>7, GoesOnKeeps
  <2>6. CASE ~Cached
    BY <1>1, <1>2, <1>3, <1>4, <1>5, <2>1, <2>2, <2>3, <2>4, <2>6, IdleRequest, GoesOnKeeps
  <2> QED BY <2>5, <2>6
<1> QED BY <1>6, <1>7

\* A row is overwritten, if its address stays unique.
LEMMA WriteRowKeeps ==
  ASSUME DirectoryInv, NEW r \in DRequests, WriteRow(r) PROVE DirectoryInv'
<1> DEFINE q == dreq[r]
<1> DEFINE i == q.id
<1> DEFINE u == Patched(q)
<1> DEFINE w == Patched([q EXCEPT !.user = dlog.last[i]])
<1> DEFINE ok == Updates(q)
<1>1. q.pc = "write" /\ q.op = "update" /\ UNCHANGED <<dset, copies>> BY DEF WriteRow
<1>2. /\ q \in Request /\ UserRequestSound(q) /\ i \in DIds /\ (rows[i] # Unset => i \in dlog.drawn /\ dlog.last[i] \in User)
      /\ (~Cached => copies[i] = Unset)
      /\ i \notin dlog.raced => /\ rows[i] = dlog.last[i] /\ q.user = rows[i]
                                /\ copies[i] # Unset => copies[i] = rows[i]
  BY <1>1, Underway
<1>3. q.user \in User BY <1>1, <1>2 DEF UserRequestSound
<1>4. u \in User /\ u \in UserOrNone
  BY <1>2, <1>3 DEF Patched, User, UserOrNone, Request
<1>5. /\ rows \in [DIds -> UserOrNone] /\ dlog \in Log /\ copies' \in [DIds -> UserOrNone]
      /\ \A j \in DIds : copies'[j] = copies[j]
  BY <1>1 DEF DirectoryInv, DirectoryTypes
<1>6. i \notin dlog.raced => w = u
  BY <1>2 DEF Patched, Request
<1>7. Idle.op = "none" /\ Idle.pc = "idle" BY DEF Idle
<1>8. CASE ~ok
  <2>1. UNCHANGED <<rows, dlog>> /\ dreq' = [dreq EXCEPT ![r] = Idle]
    BY <1>8 DEF WriteRow, Answers
  <2>2. EmailsUnique' BY <1>1, <2>1 DEF DirectoryInv, EmailsUnique, EmailTaken
  <2> HIDE DEF u, w
  <2> QED BY <1>1, <1>2, <1>5, <1>7, <2>1, <2>2, IdleRequest, GoesOnKeeps
<1>9. CASE ok
  <2>1. /\ rows' = [rows EXCEPT ![i] = u] /\ dlog' = [dlog EXCEPT !.last[i] = w]
        /\ Cached => dreq' = [dreq EXCEPT ![r].pc = "evict"]
        /\ ~Cached => dreq' = [dreq EXCEPT ![r] = Idle]
    BY <1>9 DEF WriteRow, Answers
  <2>2. rows[i] # Unset /\ (dset.repo # "memory" => ~EmailTaken(i, u.email))
    BY <1>9 DEF Updates, PostgresUpdates, MemoryUpdates
  <2>3. w \in User /\ w \in UserOrNone
    <3> DEFINE x == [q EXCEPT !.user = dlog.last[i]]
    <3>1. dlog.last[i] \in User /\ dlog.last[i] \in UserOrNone BY <1>2, <2>2 DEF UserOrNone
    <3>2. x \in Request /\ x.user \in User
      BY <1>2, <3>1 DEF Request
    <3> HIDE DEF x
    <3>3. Patched(x) \in User
      BY <3>2 DEF Patched, User, Request
    <3> QED BY <3>3 DEF UserOrNone, x
  <2> HIDE DEF u, w
  <2>4. /\ rows' \in [DIds -> UserOrNone] /\ rows'[i] = u /\ \A j \in DIds \ {i} : rows'[j] = rows[j]
    BY <1>2, <1>4, <1>5, <2>1
  <2>5. /\ dlog' \in Log /\ dlog'.drawn = dlog.drawn /\ dlog'.raced = dlog.raced
        /\ dlog'.last[i] = w /\ \A j \in DIds \ {i} : dlog'.last[j] = dlog.last[j]
    BY <1>2, <1>5, <2>1, <2>3, LastWritten
  <2>6. EmailsUnique'
    <3>1. EmailsUnique BY DEF DirectoryInv
    <3> QED BY ONLY <1>1, <1>2, <1>5, <2>1, <2>2, <3>1, AddressFree
  <2>7. CASE Cached
    <3> DEFINE v == [q EXCEPT !.pc = "evict"]
    <3>1. dreq' = [dreq EXCEPT ![r] = v] BY <2>1, <2>7 DEF DirectoryInv, DirectoryTypes
    <3>2. v \in Request /\ UserRequestSound(v) /\ v.pc = "evict" /\ v.id = i /\ v.op = "update"
      <4>1. q.pc # "idle" BY <1>1
      <4> QED BY ONLY <1>1, <1>2, <2>7, <4>1, NextRequest
    <3> HIDE DEF v
    <3> QED BY <1>1, <1>2, <1>5, <1>6, <2>2, <2>3, <2>4, <2>5, <2>6, <2>7, <3>1, <3>2, GoesOnKeeps
  <2>8. CASE ~Cached
    BY <1>1, <1>2, <1>5, <1>6, <1>7, <2>1, <2>2, <2>3, <2>4, <2>5, <2>6, <2>8, IdleRequest, GoesOnKeeps
  <2> QED BY <2>7, <2>8
<1> QED BY <1>8, <1>9

\* A row is deleted, and its address with it.
LEMMA DeleteRowKeeps ==
  ASSUME DirectoryInv, NEW r \in DRequests, DeleteRow(r) PROVE DirectoryInv'
<1> DEFINE q == dreq[r]
<1> DEFINE i == q.id
<1>1. /\ q.pc = "write" /\ q.op = "delete" /\ UNCHANGED <<dset, copies>>
      /\ rows' = [rows EXCEPT ![i] = Unset] /\ dlog' = [dlog EXCEPT !.last[i] = Unset]
      /\ rows[i] # Unset /\ Cached => dreq' = [dreq EXCEPT ![r].pc = "evict"]
      /\ ~(rows[i] # Unset /\ Cached) => dreq' = [dreq EXCEPT ![r] = Idle]
  BY DEF DeleteRow, Answers
<1>2. /\ q \in Request /\ UserRequestSound(q) /\ i \in DIds
      /\ (~Cached => copies[i] = Unset)
      /\ i \notin dlog.raced => (copies[i] # Unset => copies[i] = rows[i])
  BY <1>1, Underway
<1>3. /\ rows \in [DIds -> UserOrNone] /\ dlog \in Log /\ copies' \in [DIds -> UserOrNone]
      /\ (\A j \in DIds : copies'[j] = copies[j]) /\ Unset \in UserOrNone
  BY <1>1 DEF DirectoryInv, DirectoryTypes, UserOrNone
<1>4. rows' \in [DIds -> UserOrNone] /\ rows'[i] = Unset /\ \A j \in DIds \ {i} : rows'[j] = rows[j]
  BY <1>1, <1>2, <1>3
<1>5. /\ dlog' \in Log /\ dlog'.drawn = dlog.drawn /\ dlog'.raced = dlog.raced
      /\ dlog'.last[i] = Unset /\ \A j \in DIds \ {i} : dlog'.last[j] = dlog.last[j]
  BY <1>1, <1>2, <1>3, LastWritten
<1>6. EmailsUnique'
  BY <1>1, <1>2, <1>4 DEF DirectoryInv, EmailsUnique, EmailTaken
<1>7. Idle.op = "none" /\ Idle.pc = "idle" BY DEF Idle
<1>8. CASE rows[i] # Unset /\ Cached
  <2> DEFINE v == [q EXCEPT !.pc = "evict"]
  <2>1. dreq' = [dreq EXCEPT ![r] = v] BY <1>1, <1>8 DEF DirectoryInv, DirectoryTypes
  <2>2. v \in Request /\ UserRequestSound(v) /\ v.pc = "evict" /\ v.id = i /\ v.op = "delete"
    <3>1. q.pc # "idle" BY <1>1
    <3> QED BY ONLY <1>1, <1>2, <1>8, <3>1, NextRequest
  <2> HIDE DEF v
  <2> QED BY <1>1, <1>2, <1>3, <1>4, <1>5, <1>6, <1>8, <2>1, <2>2, GoesOnKeeps
<1>9. CASE ~(rows[i] # Unset /\ Cached)
  BY <1>1, <1>2, <1>3, <1>4, <1>5, <1>6, <1>7, <1>9, IdleRequest, GoesOnKeeps
<1> QED BY <1>8, <1>9

\* DirectoryInv is inductive.
LEMMA DirectoryStep == DirectoryInv /\ [DNext]_dvars => DirectoryInv'
<1> SUFFICES ASSUME DirectoryInv, [DNext]_dvars PROVE DirectoryInv'
  OBVIOUS
<1>1. CASE UNCHANGED dvars
  BY <1>1 DEF dvars, DirectoryInv, DirectoryTypes, UserRequestSound, Cached, Drawn, QuietRow, EmailsUnique, EmailTaken
<1>2. ASSUME NEW r \in DRequests, NEW i \in DIds, NEW n \in DNames \cup {Unset}, NEW e \in DEmails \cup {Unset},
             HandleUpdate(r, i, n, e)
      PROVE  DirectoryInv'
  BY <1>2, HandleRequestKeeps DEF HandleUpdate
<1>3. ASSUME NEW r \in DRequests, NEW i \in DIds, HandleGetByID(r, i) \/ HandleDelete(r, i) PROVE DirectoryInv'
  BY <1>3, HandleRequestKeeps DEF HandleGetByID, HandleDelete
<1> QED BY <1>1, <1>2, <1>3, HandleCreateKeeps, FindByEmailKeeps, PeekKeeps, FindByIDKeeps, FillKeeps,
           InsertRowKeeps, WriteRowKeeps, DeleteRowKeeps, EvictKeeps, CacheFailsKeeps DEF DNext

-----------------------------------------------------------------------------
(* The applications together                                               *)

\* Every part starts as it does alone.
LEMMA ExamplesStart == ExamplesInit => AppInit /\ HubInit /\ RepoInit /\ WInit /\ JInit /\ AInit /\ DInit
BY DEF ExamplesInit

\* Every step is one of the part, or leaves it as it is.
LEMMA ExamplesMoves ==
  [ExamplesNext]_examplesVars =>
    /\ [AppNext]_avars /\ [HubNext]_hvars /\ [RepoNext]_rvars /\ [WNext]_wvars
    /\ [JNext]_jvars /\ [ANext]_accVars /\ [DNext]_dvars
<1> SUFFICES ASSUME [ExamplesNext]_examplesVars
             PROVE  /\ [AppNext]_avars /\ [HubNext]_hvars /\ [RepoNext]_rvars /\ [WNext]_wvars
                    /\ [JNext]_jvars /\ [ANext]_accVars /\ [DNext]_dvars
  OBVIOUS
<1>1. CASE UNCHANGED examplesVars
  BY <1>1 DEF examplesVars
<1>2. CASE ExamplesNext
  BY <1>2 DEF ExamplesNext
<1> QED BY <1>1, <1>2

\* For any number of events, handlers, workers, clients and rooms: an event whose
\* publication was accepted waits in the buffer once, or each handler runs or has run it,
\* and never two of these; SQLite replays every event of an aggregate in the order in which
\* they happened, but for what it makes of times of different lengths, memory the same
\* events in any order, Mongo no others; by time memory and Mongo miss none, and Mongo adds
\* only some of the asked one's millisecond; and the hub never sends on a channel it has
\* closed.
THEOREM RealtimeSoundThm == ExamplesSpec => []RealtimeSound
<1>1. ExamplesInit => EventsInv /\ StoreInv /\ HubInv
  BY ExamplesStart, EventsStart, StoreStart, HubStart
<1>2. (EventsInv /\ StoreInv /\ HubInv) /\ [ExamplesNext]_examplesVars => (EventsInv /\ StoreInv /\ HubInv)'
  BY ExamplesMoves, EventsStep, StoreStep, HubStep
<1>3. EventsInv /\ StoreInv /\ HubInv => RealtimeSound
  BY EventsPromise, ReplayPromise, HubPromise DEF RealtimeSound
<1> QED BY <1>1, <1>2, <1>3, PTL DEF ExamplesSpec

\* For any identifiers and users, after any history of calls the map-backed repository
\* holds the rows its database twin does and answers every query alike, but for the list
\* of a user's workspaces, which is contained in the database's, and the list of a
\* workspace's export jobs, of which Mongo's is a part.
THEOREM StoresAgreeThm == ExamplesSpec => []StoresAgree
<1>1. ExamplesInit => TwinInv
  BY ExamplesStart, TwinStart
<1>2. TwinInv /\ [ExamplesNext]_examplesVars => TwinInv'
  BY ExamplesMoves, TwinStep
<1>3. TwinInv => StoresAgree
  BY TwinPromise
<1> QED BY <1>1, <1>2, <1>3, PTL DEF ExamplesSpec

\* However many requests interleave, and wherever one fails between its steps, the user
\* whose CreateWorkspace succeeded stays the workspace's one owner, no request brings back
\* to a table what was deleted after it read it, the cache keeps a deleted workspace only
\* where a request that had read it was still to fill it or the eviction failed, and a
\* comment's content is its author's.
THEOREM WorkspacesSoundThm == ExamplesSpec => []WorkspacesSound
<1>1. ExamplesInit => WorkspacesInv /\ CacheInv
  BY ExamplesStart, WorkspacesStart, CacheStart
<1>2. WorkspacesInv /\ CacheInv /\ [ExamplesNext]_examplesVars => WorkspacesInv' /\ CacheInv'
  BY ExamplesMoves, WorkspacesStep, CacheStep
<1>3. WorkspacesInv /\ CacheInv => WorkspacesSound
  BY WorkspacesPromise DEF WorkspacesSound
<1> QED BY <1>1, <1>2, <1>3, PTL DEF ExamplesSpec

\* For any number of jobs, workers, stops and restarts: a job's row never says more than
\* happened (full progress may come before completion), a job stays unfinished only for a
\* cause, and a finished one is reported.
THEOREM JobsSoundThm == ExamplesSpec => []JobsSound
<1>1. ExamplesInit => JobsInv
  BY ExamplesStart, JobsStart
<1>2. JobsInv /\ [ExamplesNext]_examplesVars => JobsInv'
  BY ExamplesMoves, JobsStep
<1>3. JobsInv => JobsSound
  BY JobsPromise DEF JobsSound
<1> QED BY <1>1, <1>2, <1>3, PTL DEF ExamplesSpec

\* However logins, refreshes, logouts and deletions interleave, fail and meet expiry, a
\* refresh token is let through once unless refreshes of it overlapped or the delete of its
\* session failed, and a deleted user has no session unless a call of theirs raced; a user's
\* row and its cached copy are what was last acknowledged unless requests on that user
\* overlapped or an eviction failed, while in Postgres no two users share an address.
THEOREM PeopleSoundThm == ExamplesSpec => []PeopleSound
<1>1. ExamplesInit => AccountsInv /\ DirectoryInv
  BY ExamplesStart, AccountsStart, DirectoryStart
<1>2. (AccountsInv /\ DirectoryInv) /\ [ExamplesNext]_examplesVars => (AccountsInv /\ DirectoryInv)'
  BY ExamplesMoves, AccountsStep, DirectoryStep
<1>3. AccountsInv /\ DirectoryInv => PeopleSound
  BY AccountsPromise, DirectoryPromise DEF PeopleSound
<1> QED BY <1>1, <1>2, <1>3, PTL DEF ExamplesSpec
=============================================================================
