---------------------------- MODULE Repositories ----------------------------
(***************************************************************************)
(* The repositories of example 08 as operators on a store.  Workspaces,    *)
(* members, tasks, comments and export jobs are kept in Postgres or Mongo, *)
(* and each repository has an in-memory twin behind the same interface.  A *)
(* store is a record of tables, a table a function on the identifiers      *)
(* present; rows keep the columns the queries select by.  Identifiers are  *)
(* numbered in the order of creation, which is the order of created_at.    *)
(***************************************************************************)
EXTENDS Naturals, Sequences, FiniteSets, SequencesExt

RepoKinds == {"workspace", "member", "task", "comment", "export"}
EmptyTable == [i \in {} |-> "none"]
EmptyStore == [t \in RepoKinds |-> EmptyTable]

-----------------------------------------------------------------------------
(* Tables                                                                  *)

Done(s) == [ok |-> TRUE, store |-> s]
Refused(s) == [ok |-> FALSE, store |-> s]

\* The table with a row under a key.
WithRow(f, k, row) == [i \in DOMAIN f \cup {k} |-> IF i = k THEN row ELSE f[i]]

\* A row with a new key; primary keys and unique indexes refuse an old one.
Insert(s, t, k, row) ==
  IF k \in DOMAIN s[t] THEN Refused(s) ELSE Done([s EXCEPT ![t] = WithRow(@, k, row)])

\* No row affected is an error.
Replace(s, t, k, row) ==
  IF k \in DOMAIN s[t] THEN Done([s EXCEPT ![t][k] = row]) ELSE Refused(s)

Erase(s, t, k) ==
  IF k \in DOMAIN s[t]
    THEN Done([s EXCEPT ![t] = [i \in DOMAIN @ \ {k} |-> @[i]]]) ELSE Refused(s)

\* A column of the row; the other columns of the argument are not written.
SetColumns(s, t, k, row, cols) ==
  IF k \in DOMAIN s[t]
    THEN Done([s EXCEPT ![t][k] = [c \in DOMAIN @ |-> IF c \in cols THEN row[c] ELSE @[c]]])
    ELSE Refused(s)

Where(s, t, P(_)) == {k \in DOMAIN s[t] : P(s[t][k])}

NewestFirst(ids) == SetToSortSeq(ids, LAMBDA i, j : i > j)

\* LIMIT and OFFSET; a limit that is not positive is 20.
Limited(ids, limit, offset) ==
  LET end == offset + (IF limit <= 0 THEN 20 ELSE limit)
      n == Cardinality(ids)
  IN  SubSeq(NewestFirst(ids), offset + 1, IF end < n THEN end ELSE n)

\* members[offset:end] over a map, whose order is any: how many there are.
Sliced(ids, limit, offset) ==
  LET n == Cardinality(ids)
  IN  IF offset >= n THEN 0
      ELSE (IF offset + limit > n THEN n ELSE offset + limit) - offset

-----------------------------------------------------------------------------
(* Workspaces and members                                                  *)

PgCreateWorkspace(s, w, row) == Insert(s, "workspace", w, row)
PgUpdateWorkspace(s, w, row) == SetColumns(s, "workspace", w, row, {"name", "owner"})
PgDeleteWorkspace(s, w) == Erase(s, "workspace", w)
PgFindByOwner(s, u) == Where(s, "workspace", LAMBDA r : r.owner = u)
\* Owned, or joined to a membership.
PgListWorkspaces(s, u) ==
  PgFindByOwner(s, u) \cup {w \in DOMAIN s["workspace"] : <<w, u>> \in DOMAIN s["member"]}

MemCreateWorkspace(s, w, row) == Insert(s, "workspace", w, row)
MemUpdateWorkspace(s, w, row) == Replace(s, "workspace", w, row)
MemDeleteWorkspace(s, w) == Erase(s, "workspace", w)
MemFindByOwner(s, u) == Where(s, "workspace", LAMBDA r : r.owner = u)
\* Owned ones only.
MemListWorkspaces(s, u) == MemFindByOwner(s, u)

PgAddMember(s, w, u, role) == Insert(s, "member", <<w, u>>, role)
PgRemoveMember(s, w, u) == Erase(s, "member", <<w, u>>)
PgUpdateRole(s, w, u, role) == Replace(s, "member", <<w, u>>, role)
PgFindByWorkspace(s, w) == {k[2] : k \in {k \in DOMAIN s["member"] : k[1] = w}}
PgFindByUser(s, u) == {k[1] : k \in {k \in DOMAIN s["member"] : k[2] = u}}
PgIsMember(s, w, u) == <<w, u>> \in DOMAIN s["member"]
PgGetRole(s, w, u) == IF <<w, u>> \in DOMAIN s["member"] THEN s["member"][<<w, u>>] ELSE "error"

\* Mutant of MemAddMember: a second Add replaces the first.
MemAddMemberOverwrites(s, w, u, role) ==
  Done([s EXCEPT !["member"] = WithRow(@, <<w, u>>, role)])

MemAddMember(s, w, u, role) == Insert(s, "member", <<w, u>>, role)
MemRemoveMember(s, w, u) == Erase(s, "member", <<w, u>>)
MemUpdateRole(s, w, u, role) == Replace(s, "member", <<w, u>>, role)
MemFindByWorkspace(s, w) == {k[2] : k \in {k \in DOMAIN s["member"] : k[1] = w}}
MemFindByUser(s, u) == {k[1] : k \in {k \in DOMAIN s["member"] : k[2] = u}}
MemIsMember(s, w, u) == <<w, u>> \in DOMAIN s["member"]
MemGetRole(s, w, u) == IF <<w, u>> \in DOMAIN s["member"] THEN s["member"][<<w, u>>] ELSE "error"

-----------------------------------------------------------------------------
(* Tasks                                                                   *)

TaskColumns == {"status", "assigned"}

PgCreateTask(s, i, row) == Insert(s, "task", i, row)
PgUpdateTask(s, i, row) == SetColumns(s, "task", i, row, TaskColumns)
PgDeleteTask(s, i) == Erase(s, "task", i)
PgAssign(s, i, u) == SetColumns(s, "task", i, [assigned |-> u], {"assigned"})
PgTasksOf(s, w, limit, offset) ==
  Limited(Where(s, "task", LAMBDA r : r.of = w), limit, offset)
PgTasksAssigned(s, u, limit, offset) ==
  Limited(Where(s, "task", LAMBDA r : r.assigned = u), limit, offset)
\* An empty value of the filter selects every row.
PgListTasks(s, w, filter, limit, offset) ==
  Limited(Where(s, "task", LAMBDA r : /\ r.of = w
                                      /\ \A c \in DOMAIN filter : filter[c] \in {"", r[c]}),
          limit, offset)

MemCreateTask(s, i, row) == Insert(s, "task", i, row)
MemUpdateTask(s, i, row) == Replace(s, "task", i, row)
MemDeleteTask(s, i) == Erase(s, "task", i)
MemAssign(s, i, u) == SetColumns(s, "task", i, [assigned |-> u], {"assigned"})
MemTasksOf(s, w, limit, offset) ==
  Sliced(Where(s, "task", LAMBDA r : r.of = w), limit, offset)
MemTasksAssigned(s, u, limit, offset) ==
  Sliced(Where(s, "task", LAMBDA r : r.assigned = u), limit, offset)
\* An empty value of the filter selects the rows with an empty column.
MemListTasks(s, w, filter, limit, offset) ==
  Sliced(Where(s, "task", LAMBDA r : r.of = w /\ \A c \in DOMAIN filter : r[c] = filter[c]),
         limit, offset)

-----------------------------------------------------------------------------
(* Comments and export jobs                                                *)

PgCreateComment(s, i, row) == Insert(s, "comment", i, row)
PgUpdateComment(s, i, row) == SetColumns(s, "comment", i, row, {"status"})
PgDeleteComment(s, i) == Erase(s, "comment", i)
PgFindByTask(s, t, limit, offset) ==
  Limited(Where(s, "comment", LAMBDA r : r.of = t), limit, offset)

MemCreateComment(s, i, row) == Insert(s, "comment", i, row)
MemUpdateComment(s, i, row) == Replace(s, "comment", i, row)
MemDeleteComment(s, i) == Erase(s, "comment", i)
MemFindByTask(s, t, limit, offset) ==
  Sliced(Where(s, "comment", LAMBDA r : r.of = t), limit, offset)

MongoCreateJob(s, i, row) == Insert(s, "export", i, row)
MongoUpdateJob(s, i, row) == Replace(s, "export", i, row)
MongoDeleteJob(s, i) == Erase(s, "export", i)
\* structs.Job has no bson tags: a field is stored under its name in lower case.  The filter
\* asks for workspace_id, a key that no stored document has.
JobKeys == [of |-> "workspaceid", status |-> "status", assigned |-> "userid"]
MongoJobsOf(s, w, limit, offset) ==
  Limited(Where(s, "export", LAMBDA r : \E c \in DOMAIN JobKeys : JobKeys[c] = "workspace_id" /\ r[c] = w),
          limit, offset)

MemCreateJob(s, i, row) == Insert(s, "export", i, row)
MemUpdateJob(s, i, row) == Replace(s, "export", i, row)
MemDeleteJob(s, i) == Erase(s, "export", i)
MemJobsOf(s, w, limit, offset) ==
  Sliced(Where(s, "export", LAMBDA r : r.of = w), limit, offset)
=============================================================================
