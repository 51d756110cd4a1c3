---------------------------- MODULE SearchClient ----------------------------
(***************************************************************************)
(* data/search: a Client over the adapters of several search engines.  The *)
(* engine is chosen once, at creation or at the first use that finds one   *)
(* healthy; indices are created before the first document, guarded by a    *)
(* cache of those known to exist.  What an adapter does with a call is in  *)
(* SearchEngines.  Meilisearch's wrapper is also called directly.          *)
(***************************************************************************)
EXTENDS SearchEngines

CONSTANTS
  SCallers, NoEngine,
  SSetups    \* engines configured, default engine, auto-create, operations, bounds

Priority == <<"opensearch", "elasticsearch", "meilisearch">>
Engines == Range(Priority)
SearchOps == {"search", "index", "delete", "bulk_index", "bulk_delete"}

SSetupType ==
  [ adapters : SUBSET Engines, default : Engines \cup {NoEngine}, auto : BOOLEAN,
    ops : SUBSET SearchOps, direct : BOOLEAN, lists : SUBSET Seq(DocIDs), docs : SUBSET DocKinds,
    calls : Nat, changes : Nat ] \* bounds: calls, changes from outside or of the config

ASSUME SearchAssumption ==
  /\ NoEngine \notin Engines
  /\ \A s \in SSetups : /\ s.adapters \subseteq Engines /\ s.ops \subseteq SearchOps
                         /\ s.calls \in Nat /\ s.changes \in Nat

VARIABLES
  sset,
  healthy,  \* engines that answer
  engines,  \* what each engine holds
  client,   \* engine, index cache, prefix, whether searchConfig is nil
  job,      \* each caller's operation
  tally     \* history: indices dropped, documents refused without an error, the last word
            \* acknowledged on each document, whether the config was ever nil; how much of the
            \* bounds is used

searchVars == <<sset, healthy, engines, client, job, tally>>

NoJob == [pc |-> "idle", engine |-> NoEngine, index |-> CHOOSE p \in IndexPrefixes : TRUE,
          op |-> "none", ids |-> <<>>, kind |-> "map", ensured |-> FALSE, alone |-> TRUE]

\* The default engine if it answers, else the first of the priority order that does.
\* The last loop of setEngine, over all adapters, can find no other.
setEngine(default, old) ==
  LET up == sset.adapters \cap healthy IN
  IF default \in up THEN default
  ELSE IF up = {} THEN old
  ELSE Priority[CHOOSE i \in DOMAIN Priority :
                  Priority[i] \in up /\ \A j \in 1..i - 1 : Priority[j] \notin up]

STypeOK ==
  /\ sset \in SSetups /\ healthy \subseteq Engines
  /\ \A e \in Engines : engines[e].docs \subseteq Document
  /\ client \in [engine : Engines \cup {NoEngine}, cache : SUBSET (Engines \X IndexPrefixes),
                 prefix : IndexPrefixes, config : BOOLEAN]

NewClientWithConfig ==
  [engine |-> setEngine(sset.default, NoEngine), cache |-> {},
   prefix |-> CHOOSE p \in IndexPrefixes : TRUE, config |-> TRUE]

SInit ==
  /\ sset \in SSetups
  /\ healthy \in SUBSET sset.adapters
  /\ \A e \in sset.adapters : Connects(e, e \in healthy)
  /\ engines = [e \in Engines |-> EmptyEngine]
  /\ client = NewClientWithConfig
  /\ job = [c \in SCallers |-> NoJob]
  /\ tally = [calls |-> 0, changes |-> 0, dropped |-> {}, refused |-> {}, nilled |-> FALSE,
              said |-> [e \in Engines |-> [d \in IndexPrefixes \X DocIDs |-> "nothing"]]]

\* getAdapter: an engine chosen before stays, even if it no longer answers.
getAdapter == IF client.engine # NoEngine THEN client.engine ELSE setEngine(
                 IF client.config THEN sset.default ELSE NoEngine, NoEngine)

shouldAutoCreateIndex == client.config /\ sset.auto

\* Index, BulkIndex (on the client's engine) and IndexWith, BulkIndexWith (on any
\* adapter); Search, Delete and BulkDelete skip the check of the index.
BeginCall(c, op, ids, kind, engine) ==
  /\ job[c].pc = "idle" /\ tally.calls < sset.calls /\ op \in sset.ops
  /\ tally' = [tally EXCEPT !.calls = @ + 1]
  /\ engine \in sset.adapters \/ engine = NoEngine
  /\ op \in {"delete", "bulk_delete"} => engine = NoEngine
  /\ op \in {"index", "delete"} => Len(ids) = 1
  /\ op \in {"index", "bulk_index"} \/ kind = "map"
  /\ LET e == IF engine = NoEngine THEN getAdapter ELSE engine
         ensure == op \in {"index", "bulk_index"} /\ shouldAutoCreateIndex
     IN /\ client' = IF engine = NoEngine THEN [client EXCEPT !.engine = e] ELSE client
        /\ job' = [job EXCEPT ![c] =
             IF e = NoEngine THEN NoJob  \* ErrNoEngineAvailable
             ELSE [NoJob EXCEPT !.engine = e, !.index = client.prefix, !.op = op, !.ids = ids, !.kind = kind,
                     !.pc = IF ensure THEN "ensure" ELSE "send", !.ensured = ensure]]
  /\ UNCHANGED <<sset, healthy, engines>>

Cached(c) == <<job[c].engine, job[c].index>> \in client.cache


\* ensureIndex asks its cache, then the engine.
ensureIndex(c) ==
  /\ job[c].pc = "ensure"
  /\ LET e == job[c].engine
         exists == CASE e = "elasticsearch" -> ElasticIndexExists(engines[e], job[c].index)
                     [] e = "opensearch" -> OpenIndexExists(engines[e], job[c].index)
                     [] OTHER -> MeiliIndexExists(engines[e], job[c].index)
     IN job' = [job EXCEPT ![c] =
          IF Cached(c) THEN [@ EXCEPT !.pc = "send"]
          ELSE IF e \notin healthy THEN NoJob
          ELSE IF exists THEN [@ EXCEPT !.pc = "note"]
          ELSE [@ EXCEPT !.pc = "create"]]
  /\ UNCHANGED <<sset, healthy, engines, client, tally>>

\* History: the other jobs on the index are no longer alone with it.
Raced(c, after) ==
  [d \in SCallers |->
     IF d = c THEN after
     ELSE IF job[d].engine = job[c].engine /\ job[d].index = job[c].index
     THEN [job[d] EXCEPT !.alone = FALSE] ELSE job[d]]

\* Another job on the same index may have created it since.  The settings are read
\* from searchConfig, which UpdateSearchConfig may have set to nil.
CreateIndex(c) ==
  /\ job[c].pc = "create"
  /\ LET e == job[c].engine
         i == job[c].index
         r == IF ~client.config THEN Reply("panic", engines[e])
              ELSE IF e \notin healthy THEN Unavailable(engines[e])
              ELSE CASE e = "elasticsearch" -> ElasticCreateIndex(engines[e], i)
                     [] e = "opensearch" -> OpenCreateIndex(engines[e], i)
                     [] OTHER -> MeiliCreateBegin(engines[e], i)
     IN /\ engines' = [engines EXCEPT ![e] = r.engine]
        /\ job' = Raced(c,
             CASE r.out = "ok" -> [job[c] EXCEPT !.pc = IF e = "meilisearch" THEN "sleep" ELSE "note"]
               [] r.out = "error" -> NoJob
               [] OTHER -> [NoJob EXCEPT !.pc = r.out, !.engine = e, !.op = job[c].op, !.alone = job[c].alone])
  /\ UNCHANGED <<sset, healthy, client, tally>>

\* After the sleep the errors are ignored.
CreateIndexEnds(c) ==
  /\ job[c].pc = "sleep"
  /\ LET e == job[c].engine IN
     engines' = IF e \in healthy THEN [engines EXCEPT ![e] = MeiliCreateEnd(@, job[c].index).engine]
                ELSE engines
  /\ job' = [job EXCEPT ![c].pc = "note"]
  /\ UNCHANGED <<sset, healthy, client, tally>>

NoteIndex(c) ==
  /\ job[c].pc = "note"
  /\ client' = [client EXCEPT !.cache = @ \cup {<<job[c].engine, job[c].index>>}]
  /\ job' = [job EXCEPT ![c].pc = "send"]
  /\ UNCHANGED <<sset, healthy, engines, tally>>

\* A search for a word of every document, in a field of any kind, finds these.
Hits(e, i, field) ==
  { d \in GetDocuments(engines[e], i) : Finds(e, engines[e].index[i], field) }

AdapterCall(e, op, i, ids, kind, refused, field) ==
  CASE op = "search" /\ e = "elasticsearch" -> ElasticSearch(engines[e])
    [] op = "search" /\ e = "opensearch" -> OpenSearch(engines[e], i, Hits(e, i, field))
    [] op = "search" /\ e = "meilisearch" -> MeiliSearch(engines[e], i, Hits(e, i, field))
    [] op = "index" /\ e = "elasticsearch" -> ElasticIndex(engines[e], i, ids[1], refused)
    [] op = "index" /\ e = "opensearch" -> OpenIndex(engines[e], i, ids[1], refused)
    [] op \in {"index", "bulk_index"} /\ e = "meilisearch" -> MeiliIndex(engines[e], i, Range(ids), op, kind)
    [] op = "delete" /\ e = "elasticsearch" -> ElasticDelete(engines[e], i, ids[1])
    [] op = "delete" /\ e = "opensearch" -> OpenDelete(engines[e], i, ids[1])
    [] op = "delete" /\ e = "meilisearch" -> DeleteDocument(engines[e], i, ids[1])
    [] op = "bulk_index" /\ e = "elasticsearch" -> ElasticBulkIndex(engines[e], i, ids, refused)
    [] op = "bulk_index" /\ e = "opensearch" -> OpenBulkIndex(engines[e], i, ids, refused)
    [] op = "bulk_delete" /\ e = "elasticsearch" -> ElasticBulkDelete(engines[e], i, ids, refused)
    [] op = "bulk_delete" /\ e = "opensearch" -> OpenBulkDelete(engines[e], i, ids)
    [] OTHER -> DeleteDocuments(engines[e], i, Range(ids))

\* What a call that returned no error said of a document: a bulk request of the first
\* two engines is acknowledged as a whole, whatever became of its documents, and of a
\* document without its ID Meilisearch says nothing.
Said(e, op, kind, ids, out, d, old) ==
  IF out # "ok" \/ d \notin Range(ids) THEN old
  ELSE CASE e = "meilisearch" /\ op \in {"index", "bulk_index"} /\ Named(op, kind) -> "in"
         [] e # "meilisearch" /\ op = "index" -> "in"
         [] op \in {"delete", "bulk_delete"} -> "out"
         [] OTHER -> old

\* The adapter's call, in which the engine may refuse documents, a deletion only within a
\* bulk request of Elasticsearch; collectMetrics then counts it, under the client's engine
\* even if another was asked for.
Send(c, refused, field) ==
  /\ job[c].pc = "send" /\ refused \subseteq Range(job[c].ids)
  /\ \/ job[c].op \in {"index", "bulk_index"} \/ refused = {}
     \/ job[c].op = "bulk_delete" /\ job[c].engine = "elasticsearch"
  /\ job[c].op = "search" \/ field = [boosted |-> FALSE, default |-> TRUE, filterable |-> FALSE]
  /\ LET e == job[c].engine
         i == job[c].index
         r == IF e \notin healthy THEN Unavailable(engines[e])
              ELSE AdapterCall(e, job[c].op, i, job[c].ids, job[c].kind, refused, field)
         partly == r.out = "error" /\ r.engine # engines[e]  \* a bulk delete cut short
     IN /\ engines' = [engines EXCEPT ![e] = r.engine]
        /\ job' = Raced(c, IF r.out = "panic" THEN [NoJob EXCEPT !.pc = "panic", !.engine = e, !.op = job[c].op] ELSE NoJob)
        /\ tally' = [tally EXCEPT
             !.refused = IF job[c].op = "bulk_delete" /\ e \in healthy
                           THEN @ \cup { <<e, i, d>> : d \in refused } ELSE @,
             !.said[e] = [k \in DOMAIN @ |->
             IF k[1] # i THEN @[k]
             ELSE IF partly /\ k[2] \in Range(job[c].ids) THEN "nothing"
             ELSE Said(e, job[c].op, job[c].kind, job[c].ids, r.out, k[2], @[k])]]
  /\ UNCHANGED <<sset, healthy, client>>

\* A panic is caught further up, as the HTTP servers do; a job that failed ends.
Recovered(c) ==
  /\ job[c].pc \in {"panic", "exists"}
  /\ job' = [job EXCEPT ![c] = NoJob]
  /\ UNCHANGED <<sset, healthy, engines, client, tally>>

Change == tally.changes < sset.changes /\ tally' = [tally EXCEPT !.changes = @ + 1]

\* A new prefix empties the cache; without a config nothing is created any more.
UpdateSearchConfig(p, nil) ==
  /\ tally.changes < sset.changes
  /\ tally' = [tally EXCEPT !.changes = @ + 1, !.nilled = @ \/ nil]
  /\ client' = [client EXCEPT !.config = ~nil, !.prefix = IF nil THEN @ ELSE p,
                  !.cache = IF nil THEN @ ELSE {},
                  !.engine = setEngine(IF nil THEN NoEngine ELSE sset.default, client.engine)]
  /\ UNCHANGED <<sset, healthy, engines, job>>

EngineFlips(e) ==
  /\ Change
  /\ healthy' = IF e \in healthy THEN healthy \ {e} ELSE healthy \cup {e}
  /\ UNCHANGED <<sset, engines, client, job>>

Forgets(e, keep(_)) == [d \in DOMAIN tally.said[e] |-> IF keep(d) THEN tally.said[e][d] ELSE "nothing"]

\* Somebody else deletes an index; OpenSearch's wrapper has DeleteIndex for it.
IndexDropped(e, i) ==
  /\ engines[e].index[i] # "absent" /\ tally.changes < sset.changes
  /\ tally' = [tally EXCEPT !.changes = @ + 1, !.dropped = @ \cup {<<e, i>>},
                 !.said[e] = Forgets(e, LAMBDA d : d[1] # i)]
  /\ engines' = [engines EXCEPT ![e] = OpenDeleteIndex(@, i).engine]
  /\ UNCHANGED <<sset, healthy, client, job>>

\* Calls of Meilisearch's wrapper outside the client: nobody keeps a record of what
\* they were told, and what was said before is void.
DirectCall(i, ids) ==
  /\ sset.direct /\ "meilisearch" \in healthy /\ tally.changes < sset.changes
  /\ LET s == engines["meilisearch"]
         adds == { UpdateDocuments(s, i, Range(ids)), AddDocumentsInBatches(s, i, ids, 1),
                   UpdateDocumentsInBatches(s, i, ids, 2), MeiliCreateEmpty(s, i) }
         drops == { DeleteAllDocuments(s, i), DeleteDocumentsByFilter(s, i, Range(ids)),
                    MeiliDeleteIndex(s, i) }
     IN \E r \in adds \cup drops :
          /\ engines' = [engines EXCEPT !["meilisearch"] = r.engine]
          /\ tally' = [tally EXCEPT !.changes = @ + 1,
                         !.said["meilisearch"] = Forgets("meilisearch", LAMBDA d : d[1] # i),
                         !.dropped = IF r \in drops THEN @ \cup {<<"meilisearch", i>>} ELSE @]
  /\ UNCHANGED <<sset, healthy, client, job>>

\* WaitForTask: the queue has been worked off.  IsHealthy and the getters only read.
MeiliTask(refused) ==
  /\ ~TaskDone(engines["meilisearch"], 0)
  /\ LET t == Head(engines["meilisearch"].tasks) IN
     /\ refused \subseteq IF t.op = "add" THEN t.ids \cap DocIDs ELSE {}
     /\ tally' = IF refused = {} THEN tally
                 ELSE [tally EXCEPT !.refused = @ \cup { <<"meilisearch", t.index, d>> : d \in t.ids }]
  /\ engines' = [engines EXCEPT !["meilisearch"] = TaskRuns(@, refused)]
  /\ UNCHANGED <<sset, healthy, client, job>>

SNext ==
  \/ \E c \in SCallers :
       \/ \E op \in SearchOps, e \in Engines \cup {NoEngine}, ids \in sset.lists, kind \in sset.docs :
            BeginCall(c, op, ids, kind, e)
       \/ ensureIndex(c) \/ CreateIndex(c) \/ CreateIndexEnds(c) \/ NoteIndex(c) \/ Recovered(c)
       \/ \E refused \in SUBSET DocIDs, f \in Field : Send(c, refused, f)
  \/ \E p \in IndexPrefixes, nil \in BOOLEAN : UpdateSearchConfig(p, nil)
  \/ \E e \in sset.adapters : EngineFlips(e) \/ \E i \in IndexPrefixes : IndexDropped(e, i)
  \/ \E i \in IndexPrefixes, ids \in sset.lists : DirectCall(i, ids)
  \/ \E refused \in SUBSET DocIDs : MeiliTask(refused)

SSpec == SInit /\ [][SNext]_searchVars

-----------------------------------------------------------------------------
(* Properties                                                              *)

\* The cache never claims an index that is neither there nor, in Meilisearch, about to
\* be made, nor is a document sent to one, unless somebody else dropped it: neither a
\* change of prefix nor of engine in mid-flight leads the check astray.
IndexBeforeDocument ==
  LET ready(k) == \/ Drained(engines[k[1]]).index[k[2]] # "absent"
                  \/ k \in tally.dropped
  IN /\ \A k \in client.cache : ready(k)
     /\ \A c \in SCallers :
          job[c].pc \in {"note", "send"} /\ job[c].ensured => ready(<<job[c].engine, job[c].index>>)

\* Creating an index fails for being there only when two jobs raced for it.
ExistsNeedsRace ==
  \A c \in SCallers : job[c].pc = "exists" => ~job[c].alone

\* What the last call on a document that returned no error said of it holds of the
\* engine, once Meilisearch has worked off its queue, unless a task was refused there or a
\* deletion was refused within a bulk request of Elasticsearch, whose errors nobody reads.
\* A document that Meilisearch got without its ID is none that it spoke of.
AcknowledgedStands ==
  \A e \in Engines, i \in IndexPrefixes, d \in DocIDs :
    LET there == Doc(i, d, TRUE) \in Drained(engines[e]).docs IN
    /\ tally.said[e][<<i, d>>] = "in" => there \/ <<e, i, d>> \in tally.refused
    /\ tally.said[e][<<i, d>>] = "out" => ~there \/ <<e, i, d>> \in tally.refused

\* A search that an engine answered returns, unless the engine is Elasticsearch, whose
\* wrapper decodes the answer into a response without a body that the adapter then closes:
\* "a wrapper that provides search" (elasticsearch/driver.go:57) panics on every answer.
\* Any other call panics only when the config was set to nil, however often it was changed
\* before and since.
SearchReturns ==
  \A c \in SCallers : job[c].pc = "panic" =>
    IF job[c].op = "search" THEN job[c].engine = "elasticsearch" ELSE tally.nilled
=============================================================================
