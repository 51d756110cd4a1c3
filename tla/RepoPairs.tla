------------------------------ MODULE RepoPairs ------------------------------
(***************************************************************************)
(* Each call on a repository of example 08 made on the database and on its *)
(* in-memory twin, and their answers compared.                             *)
(***************************************************************************)
EXTENDS Repositories

CONSTANTS
  RIds,       \* identifiers, a set of numbers
  RUsers,     \* users, whose identifiers are uuids and so not empty
  RKinds      \* repositories exercised: a subset of RepoKinds

ASSUME RepositoriesAssumption == RIds \subseteq Nat /\ "" \notin RUsers /\ RKinds \subseteq RepoKinds

VARIABLES
  rkind,      \* the repository exercised
  rdb,        \* the database
  rmap,       \* the maps
  rsame       \* both gave the last call the same result

rvars == <<rkind, rdb, rmap, rsame>>

RepoInit ==
  /\ rkind \in RKinds
  /\ rdb = EmptyStore /\ rmap = EmptyStore
  /\ rsame = TRUE

-----------------------------------------------------------------------------
(* Calls, each made on both stores                                         *)

Both(kind, db, map) ==
  /\ rkind = kind
  /\ rdb' = db.store /\ rmap' = map.store
  /\ rsame' = (db.ok = map.ok)
  /\ UNCHANGED rkind

Rows == [of : RIds, status : {"pending", "done"}, assigned : RUsers \cup {""}]

\* Of the row FindByID returned, the services change neither workspace nor task.
RowsFor(t, i) == {r \in Rows : i \in DOMAIN rdb[t] => r.of = rdb[t][i].of}

WorkspaceCall ==
  \E w \in RIds, row \in [owner : RUsers, name : {"x", "y"}] :
    \/ Both("workspace", PgCreateWorkspace(rdb, w, row), MemCreateWorkspace(rmap, w, row))
    \/ Both("workspace", PgUpdateWorkspace(rdb, w, row), MemUpdateWorkspace(rmap, w, row))
    \/ Both("workspace", PgDeleteWorkspace(rdb, w), MemDeleteWorkspace(rmap, w))

MemberCall ==
  \E w \in RIds, u \in RUsers, role \in {"owner", "admin", "member"} :
    \/ Both("member", PgAddMember(rdb, w, u, role), MemAddMember(rmap, w, u, role))
    \/ Both("member", PgUpdateRole(rdb, w, u, role), MemUpdateRole(rmap, w, u, role))
    \/ Both("member", PgRemoveMember(rdb, w, u), MemRemoveMember(rmap, w, u))

TaskCall ==
  \E i \in RIds :
    \/ \E row \in RowsFor("task", i) :
         \/ Both("task", PgCreateTask(rdb, i, row), MemCreateTask(rmap, i, row))
         \/ Both("task", PgUpdateTask(rdb, i, row), MemUpdateTask(rmap, i, row))
    \/ \E u \in RUsers : Both("task", PgAssign(rdb, i, u), MemAssign(rmap, i, u))
    \/ Both("task", PgDeleteTask(rdb, i), MemDeleteTask(rmap, i))

\* assigned is the author, which UpdateComment leaves alone.
CommentCall ==
  \E i \in RIds :
    \/ \E row \in RowsFor("comment", i) :
         \/ Both("comment", PgCreateComment(rdb, i, row), MemCreateComment(rmap, i, row))
         \/ /\ i \in DOMAIN rdb["comment"] => row.assigned = rdb["comment"][i].assigned
            /\ Both("comment", PgUpdateComment(rdb, i, row), MemUpdateComment(rmap, i, row))
    \/ Both("comment", PgDeleteComment(rdb, i), MemDeleteComment(rmap, i))

ExportCall ==
  \E i \in RIds :
    \/ \E row \in RowsFor("export", i) :
         \/ Both("export", MongoCreateJob(rdb, i, row), MemCreateJob(rmap, i, row))
         \/ Both("export", MongoUpdateJob(rdb, i, row), MemUpdateJob(rmap, i, row))
    \/ Both("export", MongoDeleteJob(rdb, i), MemDeleteJob(rmap, i))

RepoNext == WorkspaceCall \/ MemberCall \/ TaskCall \/ CommentCall \/ ExportCall

RepoSpec == RepoInit /\ [][RepoNext]_rvars

-----------------------------------------------------------------------------
(* Properties                                                              *)

\* After any history of calls the map-backed repositories hold what the database
\* does and answer every query alike: same rows by owner, workspace, user, task,
\* assignee and filter, and as many of them on every page with a positive limit.
\* In two lists they differ, and one is at least contained in the other: the map's list of
\* a user's workspaces lacks those the user only joined, and Mongo's list of a workspace's
\* export jobs, whose filter names a key that is not stored, lacks all of them.
StoresAgree ==
  /\ rsame /\ rmap = rdb
  /\ \A w \in RIds, u \in RUsers :
       /\ PgFindByOwner(rdb, u) = MemFindByOwner(rmap, u)
       /\ MemListWorkspaces(rmap, u) \subseteq PgListWorkspaces(rdb, u)
       /\ PgFindByWorkspace(rdb, w) = MemFindByWorkspace(rmap, w)
       /\ PgFindByUser(rdb, u) = MemFindByUser(rmap, u)
       /\ PgIsMember(rdb, w, u) = MemIsMember(rmap, w, u)
       /\ PgGetRole(rdb, w, u) = MemGetRole(rmap, w, u)
       /\ \A limit \in {1, 2}, offset \in {0, 1} :
            /\ Len(PgTasksOf(rdb, w, limit, offset)) = MemTasksOf(rmap, w, limit, offset)
            /\ Len(PgTasksAssigned(rdb, u, limit, offset)) = MemTasksAssigned(rmap, u, limit, offset)
            /\ \A filter \in [{"status"} -> {"pending", "done"}] \cup [{"assigned"} -> RUsers] :
                 Len(PgListTasks(rdb, w, filter, limit, offset))
                   = MemListTasks(rmap, w, filter, limit, offset)
            /\ Len(PgFindByTask(rdb, w, limit, offset)) = MemFindByTask(rmap, w, limit, offset)
            /\ Len(MongoJobsOf(rdb, w, limit, offset)) <= MemJobsOf(rmap, w, limit, offset)
=============================================================================
