----------------------------- MODULE Workspaces -----------------------------
(***************************************************************************)
(* The workspace, task and comment services of example 08 over the         *)
(* Postgres repositories.  A request runs a service method; every call it  *)
(* makes on a repository or on the Redis cache is a step, so requests      *)
(* interleave between a check and the write it protects.  The workspace    *)
(* repository reads through a cache: a miss reads the row and then writes  *)
(* it to the cache, Update and Delete write the row and then evict.        *)
(***************************************************************************)
EXTENDS Repositories

CONSTANTS
  WIds,        \* identifiers, in the order in which they are drawn
  WUsers,      \* users
  WRequests,   \* concurrent requests
  WSetups      \* kind: the service; faults: repository and cache calls that may fail

WSetupType == [kind : {"workspace", "task", "comment"}, faults : Nat, ops : Nat]

ASSUME WorkspacesAssumption ==
  /\ WIds \subseteq Nat
  /\ WSetups \subseteq WSetupType

VARIABLES
  wset,     \* the setup
  wdb,      \* tables
  wcache,   \* workspaces in Redis
  wreq,     \* each request: the method, where it is, its arguments, the row it read
  wlog      \* identifiers drawn and deleted, workspaces created, those the cache may
            \* outlive (stale), faults, requests begun

wvars == <<wset, wdb, wcache, wreq, wlog>>

NoRow == [owner |-> ""]
NoRequest == [op |-> "none", pc |-> "idle", id |-> 0, by |-> "", to |-> "", role |-> "", row |-> NoRow]

WInit ==
  /\ wset \in WSetups
  /\ wdb = EmptyStore
  /\ wcache = EmptyTable
  /\ wreq = [r \in WRequests |-> NoRequest]
  /\ wlog = [drawn |-> 0, deleted |-> {}, created |-> {}, stale |-> {}, faults |-> 0, ops |-> 0]

At(r, op, pc) == wreq[r].op = op /\ wreq[r].pc = pc
Goto(r, pc) == wreq' = [wreq EXCEPT ![r].pc = pc]
\* The handler answers.
Answer(r) == wreq' = [wreq EXCEPT ![r] = NoRequest]
Fault == wlog.faults < wset.faults /\ wlog' = [wlog EXCEPT !.faults = @ + 1]

\* A repository call that fails ends the request.
RepositoryFails(r) ==
  /\ wreq[r].pc \notin {"idle", "fill", "cache", "evict", "publish"}
  /\ Fault /\ Answer(r)
  /\ UNCHANGED <<wset, wdb, wcache>>

\* The middleware supplies the user; JSON binding admits the roles admin and member.
Begin(r, op, pc, id, by, to, role) ==
  /\ wreq[r].pc = "idle" /\ wlog.ops < wset.ops
  /\ wlog' = [wlog EXCEPT !.ops = @ + 1]
  /\ wreq' = [wreq EXCEPT ![r] = [NoRequest EXCEPT !.op = op, !.pc = pc, !.id = id,
                                                   !.by = by, !.to = to, !.role = role]]
  /\ UNCHANGED <<wset, wdb, wcache>>

\* A fresh uuid.
BeginCreate(r, op, id, by) ==
  /\ wreq[r].pc = "idle" /\ wlog.ops < wset.ops
  /\ wlog.drawn + 1 \in WIds
  /\ wlog' = [wlog EXCEPT !.ops = @ + 1, !.drawn = @ + 1]
  /\ wreq' = [wreq EXCEPT ![r] = [NoRequest EXCEPT !.op = op, !.pc = "insert", !.id = wlog.drawn + 1,
                                                   !.by = by, !.to = id]]
  /\ UNCHANGED <<wset, wdb, wcache>>

-----------------------------------------------------------------------------
(* FindByID of the workspace repository, within GetWorkspace and           *)
(* DeleteWorkspace                                                         *)

AfterFind(r, row) ==
  IF wreq[r].op = "deleteWorkspace" /\ row.owner = wreq[r].by
    THEN Goto(r, "erase") ELSE Answer(r)

CacheHit(r) ==
  /\ wreq[r].pc = "find" /\ wreq[r].id \in DOMAIN wcache
  /\ AfterFind(r, wcache[wreq[r].id])
  /\ UNCHANGED <<wset, wdb, wcache, wlog>>

\* A miss, or an error of the cache.
CacheMiss(r) ==
  /\ wreq[r].pc = "find"
  /\ IF wreq[r].id \in DOMAIN wcache THEN Fault ELSE UNCHANGED wlog
  /\ IF wreq[r].id \in DOMAIN wdb["workspace"]
       THEN wreq' = [wreq EXCEPT ![r].pc = "fill", ![r].row = wdb["workspace"][wreq[r].id]]
       ELSE Answer(r)
  /\ UNCHANGED <<wset, wdb, wcache>>

\* cache.Set of the row read before, whatever happened since; its error is ignored.
CacheFill(r) ==
  /\ wreq[r].pc = "fill"
  /\ \/ /\ wcache' = WithRow(wcache, wreq[r].id, wreq[r].row)
        /\ UNCHANGED wlog
     \/ Fault /\ UNCHANGED wcache
  /\ AfterFind(r, wreq[r].row)
  /\ UNCHANGED <<wset, wdb>>

\* Ten minutes pass.
CacheExpires(id) ==
  /\ id \in DOMAIN wcache
  /\ wcache' = [i \in DOMAIN wcache \ {id} |-> wcache[i]]
  /\ UNCHANGED <<wset, wdb, wreq, wlog>>

-----------------------------------------------------------------------------
(* Workspace service                                                       *)

\* The repository's Create writes the row and then the cache, whose error it ignores.
CreateWorkspace(r) ==
  /\ At(r, "createWorkspace", "insert")
  /\ wdb' = PgCreateWorkspace(wdb, wreq[r].id, [owner |-> wreq[r].by]).store
  /\ Goto(r, "cache")
  /\ UNCHANGED <<wset, wcache, wlog>>

CacheCreated(r) ==
  /\ At(r, "createWorkspace", "cache")
  /\ \/ /\ wcache' = WithRow(wcache, wreq[r].id, [owner |-> wreq[r].by])
        /\ UNCHANGED wlog
     \/ Fault /\ UNCHANGED wcache
  /\ Goto(r, "addOwner")
  /\ UNCHANGED <<wset, wdb>>

AddOwner(r) ==
  /\ At(r, "createWorkspace", "addOwner")
  /\ wdb' = PgAddMember(wdb, wreq[r].id, wreq[r].by, "owner").store
  /\ wlog' = [wlog EXCEPT !.created = @ \cup {<<wreq[r].id, wreq[r].by>>}]
  /\ Answer(r)
  /\ UNCHANGED <<wset, wcache>>

\* A request that has the row and not yet written it to the cache.
Filling(q) == wreq[q].pc \in {"fill", "cache"}

\* Members are left in place.  History: a request that is filling the cache with this
\* workspace may do so after its eviction.
EraseWorkspace(r) ==
  /\ At(r, "deleteWorkspace", "erase")
  /\ LET res == PgDeleteWorkspace(wdb, wreq[r].id) IN
     /\ wdb' = res.store
     /\ IF res.ok
          THEN /\ wlog' = [wlog EXCEPT !.deleted = @ \cup {wreq[r].id},
                              !.stale = @ \cup {i \in {wreq[r].id} : \E q \in WRequests : Filling(q) /\ wreq[q].id = i}]
               /\ Goto(r, "evict")
          ELSE Answer(r) /\ UNCHANGED wlog
  /\ UNCHANGED <<wset, wcache>>

EvictWorkspace(r) ==
  /\ wreq[r].pc = "evict"
  /\ \/ /\ wcache' = [i \in DOMAIN wcache \ {wreq[r].id} |-> wcache[i]]
        /\ UNCHANGED wlog
     \/ /\ wlog.faults < wset.faults
        /\ wlog' = [wlog EXCEPT !.faults = @ + 1, !.stale = @ \cup {wreq[r].id}]
        /\ UNCHANGED wcache
  /\ Answer(r)
  /\ UNCHANGED <<wset, wdb>>

\* IsMember and then GetRole of the requester, who must be owner or admin.
AddMemberMember(r) ==
  /\ At(r, "addMember", "member")
  /\ IF PgIsMember(wdb, wreq[r].id, wreq[r].by) THEN Goto(r, "role") ELSE Answer(r)
  /\ UNCHANGED <<wset, wdb, wcache, wlog>>

AddMemberRole(r) ==
  /\ At(r, "addMember", "role")
  /\ IF PgGetRole(wdb, wreq[r].id, wreq[r].by) \in {"owner", "admin"}
       THEN Goto(r, "exists") ELSE Answer(r)
  /\ UNCHANGED <<wset, wdb, wcache, wlog>>

AddMemberExists(r) ==
  /\ At(r, "addMember", "exists")
  /\ IF PgIsMember(wdb, wreq[r].id, wreq[r].to) THEN Answer(r) ELSE Goto(r, "add")
  /\ UNCHANGED <<wset, wdb, wcache, wlog>>

AddMember(r) ==
  /\ At(r, "addMember", "add")
  /\ wdb' = PgAddMember(wdb, wreq[r].id, wreq[r].to, wreq[r].role).store
  /\ Answer(r)
  /\ UNCHANGED <<wset, wcache, wlog>>

\* GetRole of the requester.
RemoveMemberRole(r) ==
  /\ At(r, "removeMember", "role")
  /\ LET role == PgGetRole(wdb, wreq[r].id, wreq[r].by) IN
       IF role = "error" THEN Answer(r)
       ELSE wreq' = [wreq EXCEPT ![r].pc = "check", ![r].role = role]
  /\ UNCHANGED <<wset, wdb, wcache, wlog>>

\* Mutant of MayRemove: the owner is only kept from admins.
MayRemoveAny(role, memberRole) ==
  /\ memberRole # "error"
  /\ role \in {"owner", "admin"}
  /\ ~(role = "admin" /\ memberRole \in {"admin", "owner"})

MayRemove(role, memberRole) ==
  /\ memberRole \notin {"error", "owner"}
  /\ role \in {"owner", "admin"}
  /\ ~(role = "admin" /\ memberRole = "admin")

RemoveMemberCheck(r) ==
  /\ At(r, "removeMember", "check")
  /\ IF MayRemove(wreq[r].role, PgGetRole(wdb, wreq[r].id, wreq[r].to))
       THEN Goto(r, "remove") ELSE Answer(r)
  /\ UNCHANGED <<wset, wdb, wcache, wlog>>

RemoveMember(r) ==
  /\ At(r, "removeMember", "remove")
  /\ wdb' = PgRemoveMember(wdb, wreq[r].id, wreq[r].to).store
  /\ Answer(r)
  /\ UNCHANGED <<wset, wcache, wlog>>

-----------------------------------------------------------------------------
(* Task service: reads and writes whole rows, checks no membership         *)

\* status stands for status, title, description, priority and due date.
CreateTask(r) ==
  /\ At(r, "createTask", "insert")
  /\ wdb' = PgCreateTask(wdb, wreq[r].id, [of |-> 0, status |-> "pending", assigned |-> wreq[r].to]).store
  /\ Goto(r, "publish")
  /\ UNCHANGED <<wset, wcache, wlog>>

FindTask(r) ==
  /\ wreq[r].pc = "findTask"
  /\ IF wreq[r].id \in DOMAIN wdb["task"]
       THEN wreq' = [wreq EXCEPT ![r].pc = "write", ![r].row = wdb["task"][wreq[r].id]]
       ELSE Answer(r)
  /\ UNCHANGED <<wset, wdb, wcache, wlog>>

\* An error of the repository ends the request, without an event.
Wrote(r, res) ==
  /\ wdb' = res.store
  /\ IF res.ok THEN Goto(r, "publish") ELSE Answer(r)

UpdateTask(r) ==
  /\ At(r, "updateTask", "write")
  /\ Wrote(r, PgUpdateTask(wdb, wreq[r].id, [wreq[r].row EXCEPT !.status = "done"]))
  /\ UNCHANGED <<wset, wcache, wlog>>

AssignTask(r) ==
  /\ At(r, "assignTask", "write")
  /\ Wrote(r, PgUpdateTask(wdb, wreq[r].id, [wreq[r].row EXCEPT !.assigned = wreq[r].to]))
  /\ UNCHANGED <<wset, wcache, wlog>>

DeleteTask(r) ==
  /\ At(r, "deleteTask", "write")
  /\ Wrote(r, PgDeleteTask(wdb, wreq[r].id))
  /\ wlog' = [wlog EXCEPT !.deleted = @ \cup {wreq[r].id}]
  /\ UNCHANGED <<wset, wcache>>

\* bus.Publish; its error is logged.
PublishChange(r) ==
  /\ wreq[r].pc = "publish"
  /\ Answer(r)
  /\ UNCHANGED <<wset, wdb, wcache, wlog>>

-----------------------------------------------------------------------------
(* Comment service: only the author updates or deletes                     *)

CreateComment(r) ==
  /\ At(r, "createComment", "insert")
  /\ wdb' = PgCreateComment(wdb, wreq[r].id, [of |-> 0, status |-> "", assigned |-> wreq[r].by]).store
  /\ Goto(r, "publish")
  /\ UNCHANGED <<wset, wcache, wlog>>

FindComment(r) ==
  /\ wreq[r].pc = "findComment"
  /\ IF /\ wreq[r].id \in DOMAIN wdb["comment"]
        /\ wdb["comment"][wreq[r].id].assigned = wreq[r].by
       THEN wreq' = [wreq EXCEPT ![r].pc = "write", ![r].row = wdb["comment"][wreq[r].id]]
       ELSE Answer(r)
  /\ UNCHANGED <<wset, wdb, wcache, wlog>>

\* status stands for the content, here the name of its writer.
UpdateComment(r) ==
  /\ At(r, "updateComment", "write")
  /\ Wrote(r, PgUpdateComment(wdb, wreq[r].id, [wreq[r].row EXCEPT !.status = wreq[r].by]))
  /\ UNCHANGED <<wset, wcache, wlog>>

DeleteComment(r) ==
  /\ At(r, "deleteComment", "write")
  /\ Wrote(r, PgDeleteComment(wdb, wreq[r].id))
  /\ wlog' = [wlog EXCEPT !.deleted = @ \cup {wreq[r].id}]
  /\ UNCHANGED <<wset, wcache>>

-----------------------------------------------------------------------------
WorkspaceNext(r) ==
  \/ /\ wset.kind = "workspace"
     /\ \E u \in WUsers :
          \/ BeginCreate(r, "createWorkspace", "", u)
          \/ \E w \in 1..wlog.drawn :
               \/ Begin(r, "getWorkspace", "find", w, u, "", "")
               \/ Begin(r, "deleteWorkspace", "find", w, u, "", "")
               \/ \E v \in WUsers :
                    \/ Begin(r, "removeMember", "role", w, u, v, "")
                    \/ \E role \in {"admin", "member"} : Begin(r, "addMember", "member", w, u, v, role)
  \/ CacheHit(r) \/ CacheMiss(r) \/ CacheFill(r)
  \/ CreateWorkspace(r) \/ CacheCreated(r) \/ AddOwner(r) \/ EraseWorkspace(r) \/ EvictWorkspace(r)
  \/ AddMemberMember(r) \/ AddMemberRole(r) \/ AddMemberExists(r) \/ AddMember(r)
  \/ RemoveMemberRole(r) \/ RemoveMemberCheck(r) \/ RemoveMember(r)

TaskNext(r) ==
  \/ /\ wset.kind = "task"
     /\ \E u \in WUsers :
          \/ BeginCreate(r, "createTask", u, u)
          \/ \E i \in 1..wlog.drawn, op \in {"updateTask", "assignTask", "deleteTask"} :
               Begin(r, op, "findTask", i, u, u, "")
  \/ CreateTask(r) \/ FindTask(r) \/ UpdateTask(r) \/ AssignTask(r) \/ DeleteTask(r)

CommentNext(r) ==
  \/ /\ wset.kind = "comment"
     /\ \E u \in WUsers :
          \/ BeginCreate(r, "createComment", "", u)
          \/ \E i \in 1..wlog.drawn, op \in {"updateComment", "deleteComment"} :
               Begin(r, op, "findComment", i, u, "", "")
  \/ CreateComment(r) \/ FindComment(r) \/ UpdateComment(r) \/ DeleteComment(r)

WNext ==
  \/ \E r \in WRequests :
       WorkspaceNext(r) \/ TaskNext(r) \/ CommentNext(r) \/ PublishChange(r) \/ RepositoryFails(r)
  \/ \E id \in WIds : CacheExpires(id)

WSpec == WInit /\ [][WNext]_wvars

-----------------------------------------------------------------------------
(* Properties                                                              *)

\* Whatever roles are granted and withdrawn concurrently, the user whose
\* CreateWorkspace succeeded stays the one owner of the workspace: no check made
\* before a write lets a member become a second owner or the owner be removed.
OwnerStays ==
  \A c \in wlog.created :
    {k \in DOMAIN wdb["member"] : k[1] = c[1] /\ wdb["member"][k] = "owner"} = {c}

\* A row of a task, comment or workspace that was deleted is not brought back by a request
\* that read it before, and the content of a comment is its author's.  In the cache a
\* deleted workspace can come back, and is served until it expires; but only if another
\* request had read the row and not yet cached it when the row was deleted, or the cache
\* did not answer the eviction.
DeletedStaysDeleted ==
  /\ \A t \in {"workspace", "task", "comment"} : wlog.deleted \cap DOMAIN wdb[t] = {}
  /\ \A i \in DOMAIN wdb["comment"] :
       wdb["comment"][i].status \in {"", wdb["comment"][i].assigned}
  /\ \A w \in wlog.deleted \cap DOMAIN wcache :
       w \in wlog.stale \/ \E r \in WRequests : wreq[r].pc = "evict" /\ wreq[r].id = w
=============================================================================
