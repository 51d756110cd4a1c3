--------------------------- MODULE SearchEngines ---------------------------
(***************************************************************************)
(* The three search adapters and the client wrappers under them: what each *)
(* makes of a request and of the engine's answer.  Elasticsearch and       *)
(* OpenSearch answer when they are done; Meilisearch only queues a task.   *)
(* The engines are external: an index is absent, made by a first document  *)
(* or made with settings, and a document is an index, an ID and whether    *)
(* the ID is the caller's own or one the engine invented for its copy.     *)
(***************************************************************************)
EXTENDS Naturals, Sequences, FiniteSets, SequencesExt

CONSTANTS
  IndexPrefixes,  \* one index name per prefix
  DocIDs,         \* IDs callers use
  InitDoc         \* ID of the document that Meilisearch's CreateIndex adds and deletes

ASSUME EngineAssumption == InitDoc \notin DocIDs

Doc(i, id, own) == [index |-> i, id |-> id, own |-> own]
Docs(i, ids, own) == { Doc(i, id, own) : id \in ids }
Document == [index : IndexPrefixes, id : DocIDs \cup {InitDoc}, own : BOOLEAN]

EmptyEngine == [index |-> [i \in IndexPrefixes |-> "absent"], docs |-> {}, tasks |-> <<>>]

\* A document added to an absent index makes it, without settings.
WithDocs(s, i, ds) ==
  [s EXCEPT !.index[i] = IF @ = "absent" /\ ds # {} THEN "dynamic" ELSE @, !.docs = @ \cup ds]
WithoutDocs(s, ds) == [s EXCEPT !.docs = @ \ ds]
WithoutIndex(s, i) == [s EXCEPT !.index[i] = "absent", !.docs = { d \in @ : d.index # i }]

Reply(out, s) == [out |-> out, engine |-> s, hits |-> {}]
Unavailable(s) == Reply("error", s)

\* The drivers' Connect, for a configuration with an address: only Meilisearch's asks
\* the engine whether it is there.
ElasticConnect(up) == TRUE
OpenConnect(up) == TRUE
MeiliConnect(up) == up
Connects(e, up) ==
  CASE e = "elasticsearch" -> ElasticConnect(up)
    [] e = "opensearch" -> OpenConnect(up)
    [] OTHER -> MeiliConnect(up)

\* ---- Elasticsearch -------------------------------------------------------

\* The wrapper decodes the answer's JSON into the library's response struct, none of
\* whose fields it holds.
ElasticDecoded == [StatusCode |-> 0, Body |-> "nil"]

\* The adapter closes the body before it looks at the status.
ElasticSearch(s) ==
  IF ElasticDecoded.Body = "nil" THEN Reply("panic", s)
  ELSE Reply(IF ElasticDecoded.StatusCode = 200 THEN "ok" ELSE "error", s)

ElasticIndex(s, i, id, refused) ==
  IF id \in refused THEN Reply("error", s) ELSE Reply("ok", WithDocs(s, i, {Doc(i, id, TRUE)}))

\* Deleting a document that is not there is a 404, an error.
ElasticDelete(s, i, id) ==
  IF Doc(i, id, TRUE) \in s.docs THEN Reply("ok", WithoutDocs(s, {Doc(i, id, TRUE)}))
  ELSE Reply("error", s)

\* The action lines name no ID, and the answer's errors per document are not read.
ElasticBulkIndex(s, i, ids, refused) ==
  Reply("ok", WithDocs(s, i, Docs(i, Range(ids) \ refused, FALSE)))

ElasticBulkDelete(s, i, ids, refused) == Reply("ok", WithoutDocs(s, Docs(i, Range(ids) \ refused, TRUE)))

ElasticIndexExists(s, i) == s.index[i] # "absent"

ElasticCreateIndex(s, i) ==
  IF s.index[i] # "absent" THEN Reply("exists", s)
  ELSE Reply("ok", [s EXCEPT !.index[i] = "mapped"])

\* ---- OpenSearch ----------------------------------------------------------

OpenSearch(s, i, hits) ==
  IF s.index[i] = "absent" THEN Reply("error", s) ELSE [Reply("ok", s) EXCEPT !.hits = hits]

OpenIndexExists(s, i) == s.index[i] # "absent"

OpenIndex(s, i, id, refused) == ElasticIndex(s, i, id, refused)
OpenDelete(s, i, id) == ElasticDelete(s, i, id)
OpenBulkIndex(s, i, ids, refused) == ElasticBulkIndex(s, i, ids, refused)

\* One DeleteDocument after the other, up to the first that fails.
OpenBulkDelete(s, i, ids) ==
  LET there(k) == Doc(i, ids[k], TRUE) \in s.docs /\ \A j \in 1..k - 1 : ids[j] # ids[k]
      done == { k \in DOMAIN ids : \A j \in 1..k : there(j) }
  IN Reply(IF done = DOMAIN ids THEN "ok" ELSE "error",
           WithoutDocs(s, { Doc(i, ids[k], TRUE) : k \in done }))

\* An index that is there already is as good as created.
OpenCreateIndex(s, i) ==
  Reply("ok", IF s.index[i] # "absent" THEN s ELSE [s EXCEPT !.index[i] = "mapped"])

OpenDeleteIndex(s, i) == Reply("ok", WithoutIndex(s, i))

\* ---- Meilisearch ---------------------------------------------------------

Task(op, i, ids) == [op |-> op, index |-> i, ids |-> ids, own |-> TRUE]
Queued(s, task) == [s EXCEPT !.tasks = Append(@, task)]

GetDocuments(s, i) == { d \in s.docs : d.index = i }
MeiliSearch(s, i, hits) == OpenSearch(s, i, hits)
AddDocuments(s, i, ids, own) == Reply("ok", Queued(s, [Task("add", i, ids) EXCEPT !.own = own]))
UpdateDocuments(s, i, ids) == Reply("ok", Queued(s, Task("add", i, ids)))

\* A document is a map, or something else that may hold its ID in a field "id".  Index
\* puts the ID into a map; a batch, and any other document, goes as it is, and without the
\* field the engine refuses it or takes another one for the ID.
DocKinds == {"map", "named", "bare"}
Named(op, kind) == kind = "named" \/ (kind = "map" /\ op = "index")
MeiliIndex(s, i, ids, op, kind) == AddDocuments(s, i, ids, Named(op, kind))

\* One task per batch of documents.
AddDocumentsInBatches(s, i, ids, size) ==
  LET end(k) == IF k * size > Len(ids) THEN Len(ids) ELSE k * size
      batch(k) == Task("add", i, Range(SubSeq(ids, (k - 1) * size + 1, end(k))))
  IN Reply("ok", [s EXCEPT !.tasks =
       @ \o [k \in 1..(Len(ids) + size - 1) \div size |-> batch(k)]])
UpdateDocumentsInBatches(s, i, ids, size) == AddDocumentsInBatches(s, i, ids, size)

DeleteDocument(s, i, id) == Reply("ok", Queued(s, Task("delete", i, {id})))

\* No ID at all is an error.
DeleteDocuments(s, i, ids) ==
  IF ids = {} THEN Reply("error", s) ELSE Reply("ok", Queued(s, Task("delete", i, ids)))

\* By filter, any of the documents may be meant.
DeleteAllDocuments(s, i) == Reply("ok", Queued(s, Task("delete", i, DocIDs \cup {InitDoc})))
DeleteDocumentsByFilter(s, i, ids) == Reply("ok", Queued(s, Task("delete", i, ids)))

MeiliCreateEmpty(s, i) == Reply("ok", Queued(s, Task("create", i, {})))
MeiliDeleteIndex(s, i) == Reply("ok", Queued(s, Task("drop", i, {})))
UpdateSettings(s, i) == Reply("ok", Queued(s, Task("settings", i, {})))

\* GetTask and WaitForTask: whether the queue has passed a task; n tasks were behind it.
TaskDone(s, n) == Len(s.tasks) <= n

MeiliIndexExists(s, i) == s.index[i] # "absent"

\* The adapter makes an index by adding a document to it, after which it sleeps for
\* 100 ms, asks for the document's deletion and sets the attributes.
MeiliCreateBegin(s, i) == AddDocuments(s, i, {InitDoc}, TRUE)
MeiliCreateEnd(s, i) == UpdateSettings(DeleteDocuments(s, i, {InitDoc}).engine, i)

\* The engine's next task.  A batch with a refused document fails as a whole; settings
\* make an absent index.
TaskRuns(s, refused) ==
  LET t == Head(s.tasks)
      r == [s EXCEPT !.tasks = Tail(@)]
  IN CASE t.op = "add" /\ t.ids \cap refused = {} -> WithDocs(r, t.index, Docs(t.index, t.ids, t.own))
       [] t.op = "create" /\ r.index[t.index] = "absent" -> [r EXCEPT !.index[t.index] = "dynamic"]
       [] t.op = "settings" -> [r EXCEPT !.index[t.index] = "mapped"]
       [] t.op = "delete" -> WithoutDocs(r, Docs(t.index, t.ids, TRUE))
       [] t.op = "drop" -> WithoutIndex(r, t.index)
       [] OTHER -> r

\* What the engine will hold once its queue is empty, should it refuse nothing.
Drained(s) ==
  LET after[n \in 0..Len(s.tasks)] == IF n = 0 THEN s ELSE TaskRuns(after[n - 1], {})
  IN after[Len(s.tasks)]

\* ---- Fields --------------------------------------------------------------
(* A configuration marks a searchable field's weight with "^2".  The       *)
(* fields' names are abstracted to whether they carry the mark and whether *)
(* they are among the default ones or filterable as well.                  *)

Field == [boosted : BOOLEAN, default : BOOLEAN, filterable : BOOLEAN]

\* buildSettings trims the mark; a filterable field is then mapped as a keyword.
ElasticText(f) == ~f.filterable
OpenText(f) == ~f.filterable
\* Meilisearch is given the names as they are.
MeiliText(f) == ~f.boosted

\* buildQuery always asks for the default fields.
ElasticAsks(f) == f.default
OpenAsks(f) == f.default

\* Whether a word in field f of an indexed document is found.
Finds(engine, kind, f) ==
  CASE engine = "elasticsearch" -> ElasticAsks(f) /\ (kind = "mapped" => ElasticText(f))
    [] engine = "opensearch" -> OpenAsks(f) /\ (kind = "mapped" => OpenText(f))
    [] OTHER -> kind = "mapped" => MeiliText(f)
=============================================================================
