------------------------------ MODULE EntClient ------------------------------
(***************************************************************************)
(* Sessions of an ent client: each builds a mutation field by field, runs  *)
(* it on the table or on the transaction it opened, and reuses or clones a *)
(* query builder.  A statement is atomic; while a transaction is open the  *)
(* other sessions' writes wait for it.                                     *)
(***************************************************************************)
EXTENDS EntBuilders

-----------------------------------------------------------------------------
(* The builders generated for the users of example 08.  The generator      *)
(* wrote the builders of EntBuilders again for another schema: no optional *)
(* field, a unique e-mail, and an identifier the caller supplies.          *)

UserSchema ==
  [fields    |-> {"name", "email", "role", "created_at", "updated_at"},
   optional  |-> {},
   immutable |-> {"created_at"},
   unique    |-> {"email"},
   refused   |-> [name |-> {""}, email |-> {""}, role |-> {""}],
   default   |-> NoFields,
   stamped   |-> {"created_at", "updated_at"},
   restamped |-> {"updated_at"},
   ownId     |-> TRUE]

newUserMutation(op, id) == newMutation(op, id)
UserSetField(m, f, v) == IF f \in UserSchema.fields THEN SetField(m, f, v) ELSE m
UserResetField(m, f) == ResetField(m, f)
UserOldField(m, tab) == OldField(m, tab)
UserSetFields(m) == SetFields(m)

\* The setters of the builders: an update builder has none for created_at.
UserCreateSet(m, f, v) == UserSetField(m, f, v)
UserUpdateSet(m, f, v) == IF f \in UserSchema.immutable THEN m ELSE UserSetField(m, f, v)
UserUpdateOneSet(m, f, v) == UserUpdateSet(m, f, v)
UserUpsertSet(m, f, v) == UpsertSet(m, f, v)

UserHookCondition(c, m) == hookCondition(c, m)
UserHookIf(h, r) ==
  IF ~r.ok \/ ~UserHookCondition(h.if, r.m) THEN r
  ELSE IF h.do = "reject" THEN [r EXCEPT !.ok = FALSE]
  ELSE [r EXCEPT !.m.set = h.set @@ @]
UserWithHooks(hooks, m) ==
  FoldLeft(LAMBDA r, h : UserHookIf(h, r), [ok |-> TRUE, m |-> m], hooks)

UserIDPredicate(p, id) == IDPredicate(p, id)
UserNamePredicate(p, row) == p.field = "name" /\ TextPredicate(p, row)
UserEmailPredicate(p, row) == p.field = "email" /\ TextPredicate(p, row)
UserTimePredicate(p, row) == TimePredicate(p, row)
UserRows(tab, where) ==
  {id \in DOMAIN tab : \A p \in where :
     CASE p.on = "id" -> UserIDPredicate(p, id)
       [] p.on = "text" -> UserNamePredicate(p, tab[id]) \/ UserEmailPredicate(p, tab[id])
       [] p.on = "time" -> UserTimePredicate(p, tab[id])}

UserCreateDefaults(m, now) == createDefaults(UserSchema, m, now)
UserCreateCheck(m) ==
  EntRequired(UserSchema) \subseteq UserSetFields(m) /\ EntValid(UserSchema, m.set)
UserSqlSave(tab, m) == CreateNode(UserSchema, tab, m.id, m)

UserCreateSave(hooks, tab, m, now) ==
  LET h == UserWithHooks(hooks, UserCreateDefaults(m, now)) IN
  IF h.ok /\ UserCreateCheck(h.m) THEN UserSqlSave(tab, h.m) ELSE [ok |-> FALSE, tab |-> tab]

UserUpsertExec(hooks, tab, m, now) ==
  IF m.conflict = "none" THEN [ok |-> FALSE, tab |-> tab] ELSE UserCreateSave(hooks, tab, m, now)
UserBulkSave(hooks, tab, ms, now) == bulkSave(UserSchema, hooks, tab, ms, "none", 0, now)
UserBulkUpsertExec(hooks, tab, ms, opt, now) == bulkUpsertExec(UserSchema, hooks, tab, ms, opt, 0, now)

UserUpdateCheck(m) == updateCheck(UserSchema, m)
UserUpdateNodes(tab, ids, m) == UpdateNodes(UserSchema, tab, ids, m, FALSE)
UserUpdateSave(hooks, tab, m, now) ==
  LET h == UserWithHooks(hooks, updateDefaults(UserSchema, m, now)) IN
  IF h.ok /\ UserUpdateCheck(h.m) THEN UserUpdateNodes(tab, UserRows(tab, m.where), h.m)
  ELSE [ok |-> FALSE, tab |-> tab]
UserUpdateOneSave(hooks, tab, m, now) == updateOneSave(UserSchema, hooks, tab, m, FALSE, now)
UserDeleteExec(hooks, tab, m) == deleteExec(hooks, tab, m)
UserDeleteOneExec(hooks, tab, m) == deleteOneExec(hooks, tab, m)

UserPrepareQuery(q) == prepareQuery(UserSchema, q)
UserQuerySpec(tab, q) == querySpec(tab, q)
UserAll(tab, q) == [query |-> q, ok |-> UserPrepareQuery(q), ids |-> UserQuerySpec(tab, q)]
UserIDs(tab, q) == queryIDs(UserSchema, tab, q)
UserFirst(tab, q) == queryFirst(UserSchema, tab, q)
UserFirstID(tab, q) == queryFirstID(UserSchema, tab, q)
UserOnly(tab, q) == queryOnly(UserSchema, tab, q)
UserOnlyID(tab, q) == queryOnlyID(UserSchema, tab, q)
UserCount(tab, q) == queryCount(UserSchema, tab, q)
UserExist(tab, q) == queryExist(UserSchema, tab, q)
UserGroupBy(tab, q, f) == queryGroupBy(tab, q, f)

-----------------------------------------------------------------------------
(* The client and its sessions                                             *)

CONSTANTS
  Sessions,    \* users of the client
  EntSetups    \* kind: the entity; kinds: builders used, at most ops of them, with calls setters each;
               \* tx, bulk: whether transactions and bulks are; order, values, over: what is written;
               \* where, selects: what queries ask

ASSUME EntAssumption ==
  \A s \in EntSetups : s.kind \in {"task", "user"} /\ s.ops \in Nat /\ s.calls \in Nat

VARIABLES
  eset,      \* the setup
  etab,      \* committed rows
  etx,       \* the open transaction: its session, its view of the table, its hooks
  emut,      \* each session: its builder, the builders of its bulk, its setter calls
  equery,    \* a query builder, whether a terminal ran on it; its context and that of a clone
  elog       \* clock, builders begun, insertion time of rows, rows an override wrote

entvars == <<eset, etab, etx, emut, equery, elog>>

NoTx == [by |-> "", tab |-> NoFields, hooks |-> 0, born |-> NoFields]
NoBuilder == [m |-> newMutation("none", 0), bulk |-> <<>>, calls |-> 0]
TheSchema == IF eset.kind = "task" THEN TaskSchema ELSE UserSchema
IsTask == eset.kind = "task"

NewQuery(q) == [b |-> [q EXCEPT !.ctx = 1], heap |-> <<q.ctx, newContext>>, spent |-> FALSE]

EntInit ==
  /\ eset \in EntSetups
  /\ etab = NoFields /\ etx = NoTx
  /\ emut = [s \in Sessions |-> NoBuilder]
  /\ equery = NewQuery(newQuery)
  /\ elog = [now |-> 1, ops |-> 0, fresh |-> 1, born |-> NoFields, over |-> {}]

Rank(f) == CHOOSE i \in DOMAIN eset.order : eset.order[i] = f

View(s) == IF etx.by = s THEN etx.tab ELSE etab

-----------------------------------------------------------------------------
(* Builders                                                                *)

NewBuilder(s, op, id) ==
  /\ emut[s] = NoBuilder /\ elog.ops < eset.ops
  /\ LET m == IF IsTask THEN newMutation(op, id) ELSE newUserMutation(op, id) IN
     emut' = [emut EXCEPT ![s].m = IF op \in {"update", "delete"} /\ id # 0
                                     THEN [m EXCEPT !.where = {[on |-> "id", op |-> "EQ", value |-> id]}] ELSE m]
  /\ elog' = [elog EXCEPT !.ops = @ + 1]
  /\ UNCHANGED <<eset, etab, etx, equery>>

Changes(s, m) ==
  /\ emut[s].m.op # "none" /\ emut[s].calls < eset.calls
  /\ emut' = [emut EXCEPT ![s].m = m, ![s].calls = @ + 1]
  /\ UNCHANGED <<eset, etab, etx, equery, elog>>

\* An update builder has no setter for an immutable field.
\* Setters of different fields commute: they are called in the order of the setup.
SetCall(s, f, v) ==
  /\ emut[s].m.op \in {"create", "update", "updateOne"}
  /\ emut[s].m.op = "create" \/ f \notin TheSchema.immutable
  /\ \A g \in SetFields(emut[s].m) : Rank(g) < Rank(f)
  /\ Changes(s, LET m == emut[s].m IN
       CASE IsTask -> SetField(m, f, v)
         [] ~IsTask /\ m.op = "create" -> UserCreateSet(m, f, v)
         [] ~IsTask /\ m.op = "update" -> UserUpdateSet(m, f, v)
         [] ~IsTask /\ m.op = "updateOne" -> UserUpdateOneSet(m, f, v))

ClearCall(s, f) ==
  /\ emut[s].m.op \in {"update", "updateOne"} /\ f \in TheSchema.optional
  /\ Changes(s, ClearField(emut[s].m, f))

ResetCall(s, f) ==
  /\ f \in SetFields(emut[s].m)
  /\ Changes(s, IF IsTask THEN ResetField(emut[s].m, f) ELSE UserResetField(emut[s].m, f))

OldCall(s) ==
  /\ emut[s].m.op = "updateOne"
  /\ Changes(s, IF IsTask THEN OldField(emut[s].m, View(s)) ELSE UserOldField(emut[s].m, View(s)))

OnConflict(s, opt, target) ==
  /\ emut[s].m.op = "create"
  /\ Changes(s, [emut[s].m EXCEPT !.conflict = opt, !.target = target])

UpsertSetCall(s, f, v) ==
  /\ emut[s].m.conflict # "none"
  /\ Changes(s, IF IsTask THEN UpsertSet(emut[s].m, f, v) ELSE UserUpsertSet(emut[s].m, f, v))

\* CreateBulk: the builder joins the bulk and another is begun.
CreateBulk(s, id) ==
  /\ emut[s].m.op = "create" /\ emut[s].bulk = <<>> /\ eset.bulk
  /\ emut' = [emut EXCEPT ![s].bulk = <<emut[s].m>>, ![s].m = newMutation("create", id)]
  /\ UNCHANGED <<eset, etab, etx, equery, elog>>

-----------------------------------------------------------------------------
(* Save and Exec                                                           *)

Births(tab, ids) == [i \in ids |-> tab[i]["created_at"]]

Ran(s, res) ==
  LET new == DOMAIN res.tab \ DOMAIN View(s) IN
  /\ etx.by \in {"", s}
  /\ IF etx.by = s THEN etx' = [etx EXCEPT !.tab = res.tab, !.born = Births(res.tab, new) @@ @] /\ UNCHANGED etab
     ELSE etab' = res.tab /\ UNCHANGED etx
  /\ emut' = [emut EXCEPT ![s] = NoBuilder]
  /\ elog' = [elog EXCEPT !.now = @ + 1, !.fresh = @ + Cardinality(new),
                          !.born = IF etx.by = s THEN @ ELSE Births(res.tab, new) @@ @,
                          !.over = IF emut[s].m.over = NoFields \/ emut[s].bulk # <<>> THEN @
                                   ELSE @ \cup {i \in DOMAIN View(s) : res.tab[i] # View(s)[i]}]
  /\ UNCHANGED <<eset, equery>>

SaveCreate(s) ==
  /\ emut[s].m.op = "create" /\ emut[s].bulk = <<>>
  /\ LET m == emut[s].m
         upsert == IF IsTask THEN upsertExec(TaskSchema, eset.hooks, View(s), m, elog.fresh, elog.now)
                   ELSE UserUpsertExec(eset.hooks, View(s), m, elog.now)
         plain  == IF IsTask THEN createSave(TaskSchema, eset.hooks, View(s), m, elog.fresh, elog.now)
                   ELSE UserCreateSave(eset.hooks, View(s), m, elog.now)
     IN  Ran(s, IF m.conflict = "none" THEN plain ELSE upsert)

SaveBulk(s, opt) ==
  /\ emut[s].m.op = "create" /\ emut[s].bulk # <<>>
  /\ LET ms == emut[s].bulk \o <<emut[s].m>>
         upsert == IF IsTask THEN bulkUpsertExec(TaskSchema, eset.hooks, View(s), ms, opt, elog.fresh, elog.now)
                   ELSE UserBulkUpsertExec(eset.hooks, View(s), ms, opt, elog.now)
         plain  == IF IsTask THEN bulkSave(TaskSchema, eset.hooks, View(s), ms, "none", elog.fresh, elog.now)
                   ELSE UserBulkSave(eset.hooks, View(s), ms, elog.now)
     IN  Ran(s, IF opt = "none" THEN plain ELSE upsert)

SaveUpdate(s) ==
  /\ emut[s].m.op = "update"
  /\ \E nullWins \in BOOLEAN :
       Ran(s, IF IsTask THEN updateSave(TaskSchema, eset.hooks, View(s), emut[s].m, nullWins, elog.now)
              ELSE UserUpdateSave(eset.hooks, View(s), emut[s].m, elog.now))

SaveUpdateOne(s) ==
  /\ emut[s].m.op = "updateOne"
  /\ \E nullWins \in BOOLEAN :
       Ran(s, IF IsTask THEN updateOneSave(TaskSchema, eset.hooks, View(s), emut[s].m, nullWins, elog.now)
              ELSE UserUpdateOneSave(eset.hooks, View(s), emut[s].m, elog.now))

ExecDelete(s) ==
  /\ emut[s].m.op = "delete"
  /\ Ran(s, IF IsTask THEN deleteExec(eset.hooks, View(s), emut[s].m) ELSE UserDeleteExec(eset.hooks, View(s), emut[s].m))

ExecDeleteOne(s) ==
  /\ emut[s].m.op = "deleteOne"
  /\ Ran(s, IF IsTask THEN deleteOneExec(eset.hooks, View(s), emut[s].m) ELSE UserDeleteOneExec(eset.hooks, View(s), emut[s].m))

-----------------------------------------------------------------------------
(* Transactions: a transactional client cannot begin another.              *)

Tx(s) ==
  /\ etx = NoTx /\ eset.tx
  /\ etx' = [by |-> s, tab |-> etab, hooks |-> 0, born |-> elog.born]
  /\ UNCHANGED <<eset, etab, emut, equery, elog>>

OnCommit(s) ==
  /\ etx.by = s /\ etx.hooks < 1
  /\ etx' = [etx EXCEPT !.hooks = @ + 1]
  /\ UNCHANGED <<eset, etab, emut, equery, elog>>

\* The hooks wrap the commit: one that fails before it calls the next leaves the transaction open.
Commit(s) ==
  /\ etx.by = s
  /\ \/ etab' = etx.tab /\ etx' = NoTx /\ elog' = [elog EXCEPT !.born = etx.born]
     \/ etx.hooks > 0 /\ UNCHANGED <<etab, etx, elog>>
  /\ UNCHANGED <<eset, emut, equery>>

Rollback(s) ==
  /\ etx.by = s
  /\ etx' = NoTx
  /\ UNCHANGED <<eset, etab, emut, equery, elog>>

-----------------------------------------------------------------------------
(* The query builder                                                       *)

TaskTerminal(name, tab, q) ==
  CASE name = "All" -> queryAll(TaskSchema, tab, q) [] name = "IDs" -> queryIDs(TaskSchema, tab, q)
    [] name = "First" -> queryFirst(TaskSchema, tab, q) [] name = "FirstID" -> queryFirstID(TaskSchema, tab, q)
    [] name = "Only" -> queryOnly(TaskSchema, tab, q) [] name = "OnlyID" -> queryOnlyID(TaskSchema, tab, q)
    [] name = "Count" -> queryCount(TaskSchema, tab, q) [] name = "Exist" -> queryExist(TaskSchema, tab, q)

UserTerminal(name, tab, q) ==
  CASE name = "All" -> UserAll(tab, q) [] name = "IDs" -> UserIDs(tab, q)
    [] name = "First" -> UserFirst(tab, q) [] name = "FirstID" -> UserFirstID(tab, q)
    [] name = "Only" -> UserOnly(tab, q) [] name = "OnlyID" -> UserOnlyID(tab, q)
    [] name = "Count" -> UserCount(tab, q) [] name = "Exist" -> UserExist(tab, q)

Terminal(name, tab, q) == IF IsTask THEN TaskTerminal(name, tab, q) ELSE UserTerminal(name, tab, q)

Terminals == {"All", "IDs", "First", "FirstID", "Only", "OnlyID", "Count", "Exist"}

\* The queries come last.
Quiet == elog.ops = eset.ops /\ etx = NoTx /\ \A s \in Sessions : emut[s] = NoBuilder

\* The builder with its context, and the contexts after a terminal ran on it.
Query(b, heap) == [b EXCEPT !.ctx = heap[b.ctx]]
RunOn(name, b, heap) == {[heap EXCEPT ![b.ctx] = Terminal(name, etab, q).query.ctx] : q \in {Query(b, heap)}}

\* Bound: a builder is used again until three columns are selected.
RunQuery(name) ==
  /\ Quiet /\ Len(equery.heap[1].fields) < 3
  /\ \E heap \in RunOn(name, equery.b, equery.heap) :
       equery' = [equery EXCEPT !.heap = heap, !.spent = TRUE]
  /\ UNCHANGED <<eset, etab, etx, emut, elog>>

\* A terminal runs on a clone, which is then dropped.
RunClone(name) ==
  /\ Quiet /\ Len(equery.heap[1].fields) < 3
  /\ \E c \in {Clone(equery.b, equery.heap)} : \E heap \in RunOn(name, c.b, c.heap) :
       equery' = [equery EXCEPT !.heap = [heap EXCEPT ![2] = newContext]]
  /\ UNCHANGED <<eset, etab, etx, emut, elog>>

\* Another query is begun: its predicate, order and, unless "", selected column.
BeginQuery(where, desc, f) ==
  /\ Quiet
  /\ LET q == [newQuery EXCEPT !.where = where, !.desc = desc] IN
     equery' = NewQuery(IF f = "" THEN q ELSE querySelect(q, f))
  /\ UNCHANGED <<eset, etab, etx, emut, elog>>

NewIds(op) == IF op \in {"update", "delete"} \/ (op = "create" /\ IsTask) THEN {0, 1} ELSE {1, 2}

EntNext ==
  \/ \E s \in Sessions :
       \/ \E op \in eset.kinds :
            \E id \in NewIds(op) : NewBuilder(s, op, id)
       \/ \E f \in DOMAIN eset.values : \E v \in eset.values[f] : SetCall(s, f, v)
       \/ \E f \in TheSchema.fields : ClearCall(s, f) \/ ResetCall(s, f)
       \/ OldCall(s)
       \/ \E opt \in {"newValues", "ignore", "doNothing", "update"}, target \in {"id"} \cup TheSchema.unique :
            OnConflict(s, opt, target)
       \/ \E f \in DOMAIN eset.over : UpsertSetCall(s, f, eset.over[f])
       \/ \E id \in NewIds("create") : CreateBulk(s, id)
       \/ SaveCreate(s) \/ SaveUpdate(s) \/ SaveUpdateOne(s) \/ ExecDelete(s) \/ ExecDeleteOne(s)
       \/ \E opt \in {"none", "ignore", "newValues"} : SaveBulk(s, opt)
       \/ Tx(s) \/ OnCommit(s) \/ Commit(s) \/ Rollback(s)
  \/ \E name \in Terminals : RunQuery(name) \/ RunClone(name)
  \/ \E where \in eset.where, desc \in BOOLEAN, f \in eset.selects \cup {""} : BeginQuery(where, desc, f)

EntSpec == EntInit /\ [][EntNext]_entvars

-----------------------------------------------------------------------------
(* Properties                                                              *)

(* Whatever mixture of creates, bulks, updates and upserts, inside or outside a transaction, wrote a     *)
(* row: every required field has a value, the validators accept them unless an OnConflict override wrote *)
(* them, and created_at is the one of its insertion.                                                     *)
RowsSound ==
  \A v \in {[tab |-> etab, born |-> elog.born], [tab |-> etx.tab, born |-> etx.born]} : \A i \in DOMAIN v.tab :
    /\ EntRequired(TheSchema) \subseteq DOMAIN v.tab[i]
    /\ i \notin elog.over => EntValid(TheSchema, v.tab[i])
    /\ v.tab[i]["created_at"] = v.born[i]

(* A query builder whose terminals all ran on clones still answers for every matching row (First, Only   *)
(* and Exist limit the builder they run on, IDs adds a column to it), and the ways to ask agree on it:   *)
(* First and Exist find a row iff one matches, Only iff one alone does, the groups of a GroupBy          *)
(* partition the rows.  After a Select the ways that ask for IDs fail, and String needs a value.         *)
UnspentQueryComplete ==
  ~equery.spent => \A q \in {Query(equery.b, equery.heap)} :
    LET rows == IF IsTask THEN EntRows(etab, q.where) ELSE UserRows(etab, q.where)
        n    == Cardinality(rows)
        one(name) == name \in {"Only", "OnlyID"}
        byID(name) == name \in {"FirstID", "OnlyID", "Exist"}
        groups(f) == IF IsTask THEN queryGroupBy(etab, q, f) ELSE UserGroupBy(etab, q, f)
    IN  /\ \A name \in Terminals \ {"IDs", "Count"} : \E r \in {Terminal(name, etab, q)} :
             IF name = "All" THEN ToSet(r.ids) = rows
             ELSE r.ok <=> /\ byID(name) => q.ctx.fields = <<>>
                           /\ IF one(name) THEN n = 1 ELSE n > 0
        /\ selectOne(etab, q) = "value" =>
             n = 1 /\ \A i \in rows : q.ctx.fields[1] \in DOMAIN etab[i]
        /\ \A f \in TheSchema.fields : FoldFunction(+, 0, groups(f)) = n
==============================================================================
