----------------------------- MODULE EntBuilders -----------------------------
(***************************************************************************)
(* What the generated builders of example 01 do to a mutation, a query and *)
(* a table.  The code generator writes the same builders for every entity; *)
(* they are stated once, over a schema S: its fields, the optional,        *)
(* immutable and unique ones, the defaults on create and on update, and    *)
(* the values its validators refuse.  A row, and the values a mutation     *)
(* sets, are functions on the fields that have a value.                    *)
(***************************************************************************)
EXTENDS Naturals, Sequences, FiniteSets, TLC, SequencesExt

NoFields == <<>>      \* the function without arguments: no field has a value

TaskSchema ==
  [fields    |-> {"title", "description", "status", "created_at", "updated_at"},
   optional  |-> {"description"},
   immutable |-> {"created_at"},
   unique    |-> {},
   refused   |-> [title |-> {""}, status |-> {"bogus"}],
   default   |-> [status |-> "pending"],
   stamped   |-> {"created_at", "updated_at"},
   restamped |-> {"updated_at"},
   ownId     |-> FALSE]

EntRequired(S) == S.fields \ S.optional
Drop(g, F) == [f \in DOMAIN g \ F |-> g[f]]

-----------------------------------------------------------------------------
(* The mutation                                                            *)

newMutation(op, id) ==
  [op |-> op, id |-> id, set |-> NoFields, cleared |-> {}, where |-> {}, conflict |-> "none",
   target |-> "id", over |-> NoFields, old |-> NoFields, done |-> FALSE]

\* A setter leaves clearedFields alone.
SetField(m, f, v) == [m EXCEPT !.set = (f :> v) @@ @]
ClearField(m, f) == [m EXCEPT !.set = Drop(@, {f}), !.cleared = @ \cup {f}]
ResetField(m, f) == [m EXCEPT !.set = Drop(@, {f}), !.cleared = @ \ {f}]
SetFields(m) == DOMAIN m.set

\* The old row is read once, and before the mutation is done.
OldField(m, tab) ==
  IF m.op # "updateOne" \/ m.done \/ m.old # NoFields \/ m.id \notin DOMAIN tab THEN m
  ELSE [m EXCEPT !.old = tab[m.id]]

-----------------------------------------------------------------------------
(* Hooks: [if |-> condition, do |-> "reject" or a function of fields to set] *)

HasOp(ops, m) == m.op \in ops
HasFields(F, m) == F \subseteq SetFields(m)
HasClearedFields(F, m) == F \subseteq m.cleared

hookCondition(c, m) ==
  LET atom(a) == CASE a.on = "op" -> HasOp(a.arg, m)
                   [] a.on = "fields" -> HasFields(a.arg, m)
                   [] a.on = "cleared" -> HasClearedFields(a.arg, m)
  IN  /\ \A a \in c.all : atom(a)
      /\ c.some = {} \/ \E a \in c.some : atom(a)
      /\ \A a \in c.none : ~atom(a)

\* If: a hook whose condition fails passes the mutation on.
hookIf(h, r) ==
  IF ~r.ok \/ ~hookCondition(h.if, r.m) THEN r
  ELSE IF h.do = "reject" THEN [r EXCEPT !.ok = FALSE]
  ELSE [r EXCEPT !.m.set = h.set @@ @]

\* The first hook of the client is the outermost.
withHooks(hooks, m) == FoldLeft(LAMBDA r, h : hookIf(h, r), [ok |-> TRUE, m |-> m], hooks)

-----------------------------------------------------------------------------
(* Predicates of the package task                                          *)

IDPredicate(p, id) ==
  CASE p.op = "EQ" -> id = p.value [] p.op = "NEQ" -> id # p.value
    [] p.op = "GT" -> id > p.value [] p.op = "LTE" -> id <= p.value
    [] p.op = "In" -> id \in p.value [] p.op = "NotIn" -> id \notin p.value

\* SQL comparisons with a missing value hold of no row.
TextPredicate(p, row) ==
  CASE p.op = "IsNil" -> p.field \notin DOMAIN row
    [] p.op = "NotNil" -> p.field \in DOMAIN row
    [] p.op = "EQ" -> p.field \in DOMAIN row /\ row[p.field] = p.value
    [] p.op = "NEQ" -> p.field \in DOMAIN row /\ row[p.field] # p.value
    [] p.op = "In" -> p.field \in DOMAIN row /\ row[p.field] \in p.value
    [] p.op = "NotIn" -> p.field \in DOMAIN row /\ row[p.field] \notin p.value

TimePredicate(p, row) ==
  CASE p.op = "GT" -> row[p.field] > p.value [] p.op = "GTE" -> row[p.field] >= p.value
    [] p.op = "LT" -> row[p.field] < p.value [] p.op = "LTE" -> row[p.field] <= p.value

EntMatches(p, id, row) ==
  CASE p.on = "id" -> IDPredicate(p, id)
    [] p.on = "text" -> TextPredicate(p, row)
    [] p.on = "time" -> TimePredicate(p, row)
    [] p.on = "not" -> ~(IF p.of.on = "id" THEN IDPredicate(p.of, id) ELSE TextPredicate(p.of, row))

EntRows(tab, where) == {id \in DOMAIN tab : \A p \in where : EntMatches(p, id, tab[id])}

-----------------------------------------------------------------------------
(* Create and upsert                                                       *)

createDefaults(S, m, now) ==
  [m EXCEPT !.set = @ @@ S.default @@ [f \in S.stamped |-> now]]

EntValid(S, set) == \A f \in DOMAIN set \cap DOMAIN S.refused : set[f] \notin S.refused[f]

createCheck(S, m) == EntRequired(S) \subseteq SetFields(m) /\ EntValid(S, m.set)

createSpec(S, m) == [f \in SetFields(m) \cap S.fields |-> m.set[f]]

\* EntRows that share a unique column, or the identifier, with the proposed one.
Clashes(S, tab, id, row, cols) ==
  {i \in DOMAIN tab : \/ "id" \in cols /\ i = id
                      \/ \E f \in S.unique \cap cols : tab[i][f] = row[f]}

\* ResolveWithNewValues, with the identifier and created_at set to themselves.
UpdateNewValues(S, old, row) == Drop(row, S.immutable) @@ old

\* The setters of the upsert builders are not validated.
UpsertSet(m, f, v) == [m EXCEPT !.over = (f :> v) @@ @]

EntResolve(S, m, old, row) ==
  m.over @@ (CASE m.conflict = "newValues" -> UpdateNewValues(S, old, row)
               [] m.conflict = "ignore" -> old
               [] m.conflict = "update" -> old)

\* INSERT ... ON CONFLICT: a clash outside the conflict target is an error.
CreateNode(S, tab, id, m) ==
  LET row == createSpec(S, m)
      all == Clashes(S, tab, id, row, S.unique \cup {"id"})
      hit == Clashes(S, tab, id, row, {m.target})
      new == IF hit = {} \/ m.conflict = "none" THEN row
             ELSE EntResolve(S, m, tab[CHOOSE i \in hit : TRUE], row)
  IN  CASE id = 0 -> [ok |-> FALSE, tab |-> tab]
        [] all = {} -> [ok |-> TRUE, tab |-> (id :> row) @@ tab]
        [] m.conflict = "doNothing" -> [ok |-> TRUE, tab |-> tab]
        [] m.conflict \in {"newValues", "ignore", "update"} /\ hit # {}
             /\ \A i \in DOMAIN tab \ hit : \A f \in S.unique : tab[i][f] # new[f]
             -> [ok |-> TRUE, tab |-> (CHOOSE i \in hit : TRUE) :> new @@ tab]
        [] OTHER -> [ok |-> FALSE, tab |-> tab]

createSave(S, hooks, tab, m, fresh, now) ==
  LET d == createDefaults(S, m, now) IN
  LET h == withHooks(hooks, d) IN
  IF ~h.ok \/ ~createCheck(S, h.m) THEN [ok |-> FALSE, tab |-> tab]
  ELSE CreateNode(S, tab, IF m.id = 0 /\ ~S.ownId THEN fresh ELSE m.id, h.m)

\* OnConflict().Exec without an option is refused; so is a bulk whose builders carry one.
upsertExec(S, hooks, tab, m, fresh, now) ==
  IF m.conflict = "none" THEN [ok |-> FALSE, tab |-> tab] ELSE createSave(S, hooks, tab, m, fresh, now)

\* One statement: every builder's checks, then every row or none.
BatchCreate(S, tab, ms, fresh) ==
  LET add(acc, i) ==
        IF ~acc.ok THEN acc
        ELSE LET id == IF ms[i].id = 0 /\ ~S.ownId THEN fresh + i - 1 ELSE ms[i].id
                 r  == CreateNode(S, acc.tab, id, ms[i])
             IN  IF r.ok THEN r ELSE [ok |-> FALSE, tab |-> tab]
  IN  FoldLeft(add, [ok |-> TRUE, tab |-> tab], [i \in 1 .. Len(ms) |-> i])

\* The statement carries the bulk's conflict option; those of the builders are dropped.
bulkSave(S, hooks, tab, ms, opt, fresh, now) ==
  LET ds == [i \in DOMAIN ms |-> [createDefaults(S, ms[i], now) EXCEPT !.conflict = opt, !.over = NoFields]] IN
  LET hs == [i \in DOMAIN ds |-> withHooks(hooks, ds[i])] IN
  IF \E i \in DOMAIN hs : ~hs[i].ok \/ ~createCheck(S, hs[i].m) THEN [ok |-> FALSE, tab |-> tab]
  ELSE BatchCreate(S, tab, [i \in DOMAIN hs |-> hs[i].m], fresh)

bulkUpsertExec(S, hooks, tab, ms, opt, fresh, now) ==
  IF opt = "none" \/ \E i \in DOMAIN ms : ms[i].conflict # "none"
    THEN [ok |-> FALSE, tab |-> tab]
    ELSE bulkSave(S, hooks, tab, ms, opt, fresh, now)

-----------------------------------------------------------------------------
(* Update and delete                                                       *)

updateDefaults(S, m, now) == [m EXCEPT !.set = @ @@ [f \in S.restamped |-> now]]

updateCheck(S, m) == EntValid(S, m.set)

\* A field set after it was cleared is in both lists; nullWins is the database's choice.
Updated(S, row, m, nullWins) ==
  LET kept == IF nullWins THEN Drop(m.set, m.cleared) ELSE m.set
  IN  kept @@ Drop(row, m.cleared)

UpdateNodes(S, tab, ids, m, nullWins) ==
  LET new == [i \in DOMAIN tab |-> IF i \in ids THEN Updated(S, tab[i], m, nullWins) ELSE tab[i]]
  IN  IF \E i, j \in DOMAIN tab : i # j /\ \E f \in S.unique : new[i][f] = new[j][f]
        THEN [ok |-> FALSE, tab |-> tab]
        ELSE [ok |-> TRUE, tab |-> new]

updateSave(S, hooks, tab, m, nullWins, now) ==
  LET h == withHooks(hooks, updateDefaults(S, m, now)) IN
  IF h.ok /\ updateCheck(S, h.m) THEN UpdateNodes(S, tab, EntRows(tab, m.where), h.m, nullWins)
  ELSE [ok |-> FALSE, tab |-> tab]

\* A missing row, or one the predicates exclude, is a NotFoundError.
updateOneSave(S, hooks, tab, m, nullWins, now) ==
  LET h   == withHooks(hooks, updateDefaults(S, m, now))
      ids == EntRows(tab, m.where) \cap {m.id}
  IN  IF h.ok /\ updateCheck(S, h.m) /\ ids # {} THEN UpdateNodes(S, tab, ids, h.m, nullWins)
      ELSE [ok |-> FALSE, tab |-> tab]

deleteExec(hooks, tab, m) ==
  LET h == withHooks(hooks, m) IN
  IF h.ok THEN [ok |-> TRUE, tab |-> Drop(tab, EntRows(tab, m.where))] ELSE [ok |-> FALSE, tab |-> tab]

\* Deleting no row is a NotFoundError.
deleteOneExec(hooks, tab, m) ==
  LET one == [m EXCEPT !.where = @ \cup {[on |-> "id", op |-> "EQ", value |-> m.id]}]
      r   == deleteExec(hooks, tab, one)
  IN  [r EXCEPT !.ok = @ /\ r.tab # tab]

-----------------------------------------------------------------------------
(* Queries.  limit 0 is no limit; order is ascending or descending by id.  *)
(* A builder holds a reference to its context; a terminal is given the     *)
(* builder with the context in its place, and returns it as it leaves it.  *)

newContext == [limit |-> 0, offset |-> 0, fields |-> <<>>]
newQuery == [where |-> {}, desc |-> FALSE, ctx |-> newContext]

prepareQuery(S, q) == ToSet(q.ctx.fields) \subseteq S.fields \cup {"id"}

querySpec(tab, q) ==
  LET rows == SetToSortSeq(EntRows(tab, q.where), LAMBDA i, j : IF q.desc THEN i > j ELSE i < j)
      end  == q.ctx.offset + q.ctx.limit
  IN  SubSeq(rows, q.ctx.offset + 1, IF q.ctx.limit = 0 \/ end > Len(rows) THEN Len(rows) ELSE end)

\* Select adds to the columns selected before; an unknown one is refused when the query runs.
querySelect(q, f) == [q EXCEPT !.ctx.fields = Append(@, f)]

queryAll(S, tab, q) == [query |-> q, ok |-> prepareQuery(S, q), ids |-> querySpec(tab, q)]

\* IDs selects id too, and scans one column: it fails when another was selected before.
queryIDs(S, tab, q) ==
  LET r == queryAll(S, tab, querySelect(q, "id")) IN [r EXCEPT !.ok = @ /\ Len(r.query.ctx.fields) = 1]

queryFirst(S, tab, q) ==
  LET r == queryAll(S, tab, [q EXCEPT !.ctx.limit = 1]) IN [r EXCEPT !.ok = @ /\ Len(r.ids) > 0]

queryFirstID(S, tab, q) ==
  LET r == queryIDs(S, tab, [q EXCEPT !.ctx.limit = 1]) IN [r EXCEPT !.ok = @ /\ Len(r.ids) > 0]

queryOnly(S, tab, q) ==
  LET r == queryAll(S, tab, [q EXCEPT !.ctx.limit = 2]) IN [r EXCEPT !.ok = @ /\ Len(r.ids) = 1]

queryOnlyID(S, tab, q) ==
  LET r == queryIDs(S, tab, [q EXCEPT !.ctx.limit = 2]) IN [r EXCEPT !.ok = @ /\ Len(r.ids) = 1]

queryCount(S, tab, q) == queryAll(S, tab, q)

queryExist(S, tab, q) == queryFirstID(S, tab, q)

\* Mutant of Clone: the copy refers to the context of the original.
CloneShared(b, heap) == [b |-> b, heap |-> heap]

\* The copy has a context of its own, here the second; predicates and order are copied.
Clone(b, heap) == [b |-> [b EXCEPT !.ctx = 2], heap |-> [heap EXCEPT ![2] = heap[b.ctx]]]

\* GroupBy(f).Aggregate(Count()): rows without a value form a group of their own.
queryGroupBy(tab, q, f) ==
  LET ids == ToSet(querySpec(tab, q))
      key(i) == IF f \in DOMAIN tab[i] THEN <<tab[i][f]>> ELSE <<>>
  IN  [k \in {key(i) : i \in ids} |-> Cardinality({i \in ids : key(i) = k})]

\* Strings: the values of the one column selected; one without a value cannot be scanned.
selectStrings(tab, q) ==
  Len(q.ctx.fields) = 1 /\ \A i \in ToSet(querySpec(tab, q)) : q.ctx.fields[1] \in DOMAIN tab[i]

\* Select(f).String: one value, or NotFound, or NotSingular; the rows are not limited.
selectOne(tab, q) ==
  IF ~selectStrings(tab, q) THEN "error"
  ELSE LET n == Len(querySpec(tab, q))
       IN  CASE n = 1 -> "value" [] n = 0 -> "notFound" [] n > 1 -> "notSingular"
==============================================================================
